--------------------------- MODULE Network_proofs ---------------------------
(***************************************************************************)
(* Every routine that changes a network leaves it as NetworkSound says, if *)
(* it was so before: nodes and latches made, changed, copied and deleted,  *)
(* one after the other. A loop of the code is a function of its results so *)
(* far; a lemma that is called Loop or Turns says that there is one, and   *)
(* the induction over its turns is on a set of numbers (UpTo).             *)
(***************************************************************************)
EXTENDS NetworkSound, TLAPS, FiniteSetTheorems, NaturalsInduction, WellFoundedInduction,
        SequenceTheorems

-----------------------------------------------------------------------------
\* Lists, sets of numbers and tables.

\* A set of numbers that has any has a least one.
LEMMA LeastFacts ==
    ASSUME NEW S, S \subseteq Nat, S /= {}
    PROVE  \E x \in S : \A y \in S : x <= y
  <1>1. PICK x \in S : \A y \in S : ~ (<<y, x>> \in OpToRel(<, Nat))
    BY NatLessThanWellFounded, WFMin
  <1>2. ASSUME NEW y \in S  PROVE x <= y
    <2>1. x \in Nat /\ y \in Nat
      OBVIOUS
    <2>2. y < x => <<y, x>> \in OpToRel(<, Nat)
      BY <2>1 DEF OpToRel
    <2>3. ~ (y < x)
      BY <1>1, <2>2
    <2> QED BY <2>1, <2>3
  <1> QED BY <1>2

\* Induction up to a bound, for a set: the form in which the loops below use
\* it.
LEMMA UpTo ==
    ASSUME NEW n \in Nat, NEW S, 0 \in S, \A k \in 1..n : k - 1 \in S => k \in S
    PROVE  \A k \in 0..n : k \in S
  <1> DEFINE bad == (0..n) \ S
  <1>1. SUFFICES ASSUME bad /= {} PROVE FALSE
    OBVIOUS
  <1>0. bad \subseteq Nat
    OBVIOUS
  <1> HIDE DEF bad
  <1>2. PICK x \in bad : \A y \in bad : x <= y
    BY <1>0, <1>1, LeastFacts
  <1> USE DEF bad
  <1>3. x /= 0 /\ x \in 1..n /\ x - 1 \in 0..n
    BY <1>2
  <1>4. x - 1 \in S
    BY <1>2, <1>3
  <1> QED BY <1>2, <1>3, <1>4

\* What a list has in its places.
LEMMA RangeFacts ==
    ASSUME NEW S, NEW s \in Seq(S)
    PROVE  /\ Range(s) = {s[i] : i \in 1..Len(s)} /\ Range(s) \subseteq S /\ DOMAIN s = 1..Len(s)
              /\ Len(s) \in Nat
           /\ \A i \in 1..Len(s) : s[i] \in Range(s) /\ s[i] \in S
           /\ \A x \in Range(s) : \E i \in 1..Len(s) : s[i] = x
  <1>1. DOMAIN s = 1..Len(s) /\ Len(s) \in Nat /\ \A i \in 1..Len(s) : s[i] \in S
    OBVIOUS
  <1>2. Range(s) = {s[i] : i \in 1..Len(s)}
    BY <1>1 DEF Range
  <1> QED BY <1>1, <1>2

\* No two places of an injective list have the same.
LEMMA InjectiveFacts ==
    ASSUME NEW S, NEW s \in Seq(S)
    PROVE  IsInjective(s) <=> \A i, j \in 1..Len(s) : s[i] = s[j] => i = j
  BY DEF IsInjective

\* One more item at the end of a list.
LEMMA AppendFacts ==
    ASSUME NEW S, NEW s \in Seq(S), NEW x \in S
    PROVE  /\ Append(s, x) \in Seq(S)
           /\ Range(Append(s, x)) = Range(s) \union {x}
           /\ IsInjective(s) /\ x \notin Range(s) => IsInjective(Append(s, x))
  <1> DEFINE t == Append(s, x)
  <1>1. t \in Seq(S) /\ Len(t) = Len(s) + 1 /\ t[Len(s) + 1] = x /\ Len(s) \in Nat
    OBVIOUS
  <1>2. \A i \in 1..Len(s) : t[i] = s[i]
    OBVIOUS
  <1>3. Range(s) = {s[i] : i \in 1..Len(s)} /\ Range(t) = {t[i] : i \in 1..Len(t)}
    BY <1>1, RangeFacts
  <1> HIDE DEF t
  <1>4. 1..Len(t) = (1..Len(s)) \union {Len(s) + 1}
    BY <1>1
  <1>5. Range(t) = Range(s) \union {x}
    BY <1>1, <1>2, <1>3, <1>4
  <1>6. ASSUME IsInjective(s), x \notin Range(s)  PROVE IsInjective(t)
    <2>1. \A i, j \in 1..Len(s) : s[i] = s[j] => i = j
      BY <1>6, InjectiveFacts
    <2>2. \A i \in 1..Len(s) : s[i] /= x
      BY <1>6, <1>3
    <2>3. \A i, j \in 1..Len(t) : t[i] = t[j] => i = j
      BY <2>1, <2>2, <1>1, <1>2, <1>4
    <2> QED BY <2>3, <1>1, InjectiveFacts
  <1>7. t \in Seq(S) /\ Range(t) = Range(s) \union {x}
        /\ (IsInjective(s) /\ x \notin Range(s) => IsInjective(t))
    BY <1>1, <1>5, <1>6
  <1> QED BY <1>7 DEF t

\* One list behind another.
LEMMA ConcatFacts ==
    ASSUME NEW S, NEW s \in Seq(S), NEW t \in Seq(S)
    PROVE  /\ s \o t \in Seq(S)
           /\ Range(s \o t) = Range(s) \union Range(t)
           /\ IsInjective(s) /\ IsInjective(t)
              /\ Range(s) \intersect Range(t) = {} => IsInjective(s \o t)
  <1> DEFINE u == s \o t
  <1>1. u \in Seq(S) /\ Len(u) = Len(s) + Len(t) /\ Len(s) \in Nat /\ Len(t) \in Nat
    OBVIOUS
  <1>2. \A i \in 1..Len(s) : u[i] = s[i]
    OBVIOUS
  <1>3. \A i \in 1..Len(t) : u[Len(s) + i] = t[i]
    OBVIOUS
  <1>4. \A i \in (Len(s) + 1)..Len(u) : i - Len(s) \in 1..Len(t) /\ u[i] = t[i - Len(s)]
    BY <1>1, <1>3
  <1>5. Range(s) = {s[i] : i \in 1..Len(s)} /\ Range(t) = {t[i] : i \in 1..Len(t)}
        /\ Range(u) = {u[i] : i \in 1..Len(u)}
    BY <1>1, RangeFacts
  <1> HIDE DEF u
  <1>6. 1..Len(u) = (1..Len(s)) \union ((Len(s) + 1)..Len(u))
        /\ \A i \in 1..Len(t) : Len(s) + i \in 1..Len(u)
    BY <1>1
  <1>7. Range(u) \subseteq Range(s) \union Range(t)
    BY <1>2, <1>4, <1>5, <1>6
  <1>8. Range(s) \union Range(t) \subseteq Range(u)
    BY <1>2, <1>3, <1>5, <1>6
  <1>9. ASSUME IsInjective(s), IsInjective(t), Range(s) \intersect Range(t) = {}
        PROVE IsInjective(u)
    <2>1. \A i, j \in 1..Len(s) : s[i] = s[j] => i = j
      BY <1>9, InjectiveFacts
    <2>2. \A i, j \in 1..Len(t) : t[i] = t[j] => i = j
      BY <1>9, InjectiveFacts
    <2>3. \A i \in 1..Len(s), j \in 1..Len(t) : s[i] /= t[j]
      BY <1>9, <1>5
    <2>4. SUFFICES ASSUME NEW i \in 1..Len(u), NEW j \in 1..Len(u), u[i] = u[j] PROVE i = j
      BY <1>1, InjectiveFacts
    <2>5. CASE i \in 1..Len(s) /\ j \in 1..Len(s)
      BY <2>5, <2>4, <2>1, <1>2
    <2>6. CASE i \in 1..Len(s) /\ j \in (Len(s) + 1)..Len(u)
      BY <2>6, <2>4, <2>3, <1>2, <1>4
    <2>7. CASE i \in (Len(s) + 1)..Len(u) /\ j \in 1..Len(s)
      BY <2>7, <2>4, <2>3, <1>2, <1>4
    <2>8. CASE i \in (Len(s) + 1)..Len(u) /\ j \in (Len(s) + 1)..Len(u)
      <3>1. i - Len(s) = j - Len(s)
        BY <2>8, <2>4, <2>2, <1>4
      <3> QED BY <3>1, <2>8, <1>1
    <2> QED BY <2>5, <2>6, <2>7, <2>8, <1>6
  <1>10. u \in Seq(S) /\ Range(u) = Range(s) \union Range(t)
         /\ (IsInjective(s) /\ IsInjective(t)
            /\ Range(s) \intersect Range(t) = {} => IsInjective(u))
    BY <1>1, <1>7, <1>8, <1>9
  <1> QED BY <1>10 DEF u

\* The loop behind Minus, as the list of its results.
LEMMA MinusLoop ==
    ASSUME NEW list, Len(list) \in Nat, NEW gone
    PROVE  \E f : /\ f[0] = <<>>
                  /\ \A k \in 1..Len(list) :
                        f[k] = IF list[k] \in gone THEN f[k - 1] ELSE Append(f[k - 1], list[k])
                  /\ Minus(list, gone)
                     = IF Range(list) \intersect gone = {} THEN list ELSE f[Len(list)]
  <1> DEFINE last == Len(list)
             Turn(r, k) == IF list[k] \in gone THEN r ELSE Append(r, list[k])
             Start == <<>>
             G(f, m) == f = [k \in 0..m |-> IF k = 0 THEN Start ELSE Turn(f[k - 1], k)]
             S == {m \in 0..last : \E f : G(f, m)}
  <1>0. last \in Nat
    OBVIOUS
  <1>1. Minus(list, gone)
        = IF Range(list) \intersect gone = {} THEN list ELSE (CHOOSE f : G(f, last))[last]
    BY DEF Minus
  <1> HIDE DEF Turn, Start, last
  <1>2. \E f : G(f, 0)
    <2>1. G([k \in 0..0 |-> Start], 0)
      OBVIOUS
    <2> HIDE DEF G
    <2> QED BY <2>1
  <1>3. ASSUME NEW m \in 1..last, NEW f, G(f, m - 1)  PROVE \E g : G(g, m)
    <2> DEFINE g == [k \in 0..m |-> IF k = m THEN Turn(f[m - 1], m) ELSE f[k]]
    <2>1. ASSUME NEW k \in 0..m
          PROVE  g[k] = IF k = 0 THEN Start ELSE Turn(g[k - 1], k)
      <3>1. CASE k = m
        <4>1. g[m] = Turn(f[m - 1], m) /\ m \in 0..m /\ m /= 0 /\ g[m - 1] = f[m - 1]
          BY <1>0
        <4> HIDE DEF g
        <4> QED BY <3>1, <4>1
      <3>2. CASE k /= m
        <4>1. k \in 0..(m - 1)
          BY <1>0, <3>2
        <4>2. f[k] = IF k = 0 THEN Start ELSE Turn(f[k - 1], k)
          BY <1>3, <4>1
        <4>3. g[k] = f[k] /\ (k /= 0 => g[k - 1] = f[k - 1])
          BY <1>0, <3>2, <4>1
        <4> HIDE DEF g
        <4> QED BY <4>2, <4>3
      <3> QED BY <3>1, <3>2
    <2>2. g = [k \in 0..m |-> g[k]]
      OBVIOUS
    <2>3. G(g, m)
      BY <2>1, <2>2
    <2> HIDE DEF G, g
    <2> QED BY <2>3
  <1>4. \E f : G(f, last)
    <2> HIDE DEF G
    <2>1. 0 \in S
      BY <1>0, <1>2
    <2>2. \A m \in 1..last : m - 1 \in S => m \in S
      BY <1>0, <1>3
    <2> HIDE DEF S
    <2>3. \A m \in 0..last : m \in S
      BY <1>0, <2>1, <2>2, UpTo
    <2>4. last \in S
      BY <1>0, <2>3
    <2> QED BY <2>4 DEF S
  <1> DEFINE F == CHOOSE f : G(f, last)
  <1>5. G(F, last)
    <2> HIDE DEF G
    <2> QED BY <1>4
  <1> HIDE DEF F
  <1>6. \A k \in 0..last : F[k] = IF k = 0 THEN Start ELSE Turn(F[k - 1], k)
    <2>1. \A k \in 0..last : [j \in 0..last |-> IF j = 0 THEN Start ELSE Turn(F[j - 1], j)][k]
                             = IF k = 0 THEN Start ELSE Turn(F[k - 1], k)
      OBVIOUS
    <2> QED BY <1>5, <2>1, Zenon
  <1>7. F[0] = Start /\ \A k \in 1..last : F[k] = Turn(F[k - 1], k)
    <2>1. 0 \in 0..last /\ \A k \in 1..last : k \in 0..last /\ k /= 0
      BY <1>0
    <2> QED BY <1>6, <2>1, Zenon
  <1>8. Minus(list, gone) = IF Range(list) \intersect gone = {} THEN list ELSE F[last]
    BY <1>1 DEF F
  <1> QED BY <1>7, <1>8, Zenon DEF Turn, Start, last

\* Minus takes out what it is told to, leaves the rest, and makes no doubles.
LEMMA MinusFacts ==
    ASSUME NEW S, NEW s \in Seq(S), NEW gone
    PROVE  /\ Minus(s, gone) \in Seq(S)
           /\ Range(Minus(s, gone)) = Range(s) \ gone
           /\ IsInjective(s) => IsInjective(Minus(s, gone))
  <1> DEFINE n == Len(s)
  <1>0. n \in Nat /\ \A i \in 1..n : s[i] \in S
    OBVIOUS
  <1>1. PICK f : /\ f[0] = <<>>
                 /\ \A k \in 1..n : f[k] = IF s[k] \in gone THEN f[k - 1]
                      ELSE Append(f[k - 1], s[k])
                 /\ Minus(s, gone) = IF Range(s) \intersect gone = {} THEN s ELSE f[n]
    BY <1>0, MinusLoop
  <1> DEFINE Good(k) == /\ f[k] \in Seq(S) /\ Range(f[k]) = {s[i] : i \in 1..k} \ gone
                        /\ IsInjective(s) => IsInjective(f[k])
             T == {k \in 0..n : Good(k)}
  <1>2. Good(0)
    <2>1. <<>> \in Seq(S) /\ Len(<<>>) = 0
      OBVIOUS
    <2>2. Range(<<>>) = {}
      BY DEF Range
    <2>3. IsInjective(<<>>)
      BY DEF IsInjective
    <2> QED BY <2>1, <2>2, <2>3, <1>1
  <1>3. ASSUME NEW k \in 1..n, Good(k - 1)  PROVE Good(k)
    <2> DEFINE g == f[k - 1]
    <2>0. g \in Seq(S) /\ Range(g) = {s[i] : i \in 1..(k - 1)} \ gone
          /\ (IsInjective(s) => IsInjective(g))
      BY <1>3
    <2>1. f[k] = IF s[k] \in gone THEN g ELSE Append(g, s[k])
      BY <1>1
    <2> HIDE DEF g
    <2>2. 1..k = (1..(k - 1)) \union {k}
      BY <1>0
    <2>3. CASE s[k] \in gone
      <3>1. {s[i] : i \in 1..k} \ gone = {s[i] : i \in 1..(k - 1)} \ gone
        BY <2>2, <2>3
      <3> QED BY <2>0, <2>1, <2>3, <3>1
    <2>4. CASE s[k] \notin gone
      <3>1. {s[i] : i \in 1..k} \ gone = Range(g) \union {s[k]}
        BY <2>2, <2>4, <2>0
      <3>2. IsInjective(s) => s[k] \notin Range(g)
        <4>1. SUFFICES ASSUME IsInjective(s), s[k] \in Range(g) PROVE FALSE
          OBVIOUS
        <4>2. PICK i \in 1..(k - 1) : s[i] = s[k]
          BY <4>1, <2>0
        <4>3. i \in 1..n /\ i /= k
          BY <1>0, <4>2
        <4> QED BY <4>1, <4>2, <4>3, InjectiveFacts
      <3>3. s[k] \in S
        BY <1>0
      <3>4. f[k] = Append(g, s[k])
        BY <2>1, <2>4
      <3> HIDE DEF Good
      <3>5. f[k] \in Seq(S) /\ Range(f[k]) = Range(g) \union {s[k]}
            /\ (IsInjective(g) /\ s[k] \notin Range(g) => IsInjective(f[k]))
        BY <3>3, <3>4, <2>0, AppendFacts
      <3> QED BY <3>1, <3>2, <3>5, <2>0 DEF Good
    <2> QED BY <2>3, <2>4
  <1> HIDE DEF Good
  <1>4. 0 \in T /\ \A k \in 1..n : k - 1 \in T => k \in T
    BY <1>0, <1>2, <1>3
  <1> HIDE DEF T
  <1> HIDE DEF n
  <1>5. n \in T
    <2>1. \A k \in 0..n : k \in T
      BY <1>0, <1>4, UpTo
    <2> QED BY <1>0, <2>1
  <1>6. Good(n)
    BY <1>5 DEF T
  <1>7. {s[i] : i \in 1..n} = Range(s)
    BY RangeFacts DEF n
  <1>8. CASE Range(s) \intersect gone = {}
    BY <1>1, <1>8
  <1>9. CASE ~ (Range(s) \intersect gone = {})
    BY <1>1, <1>6, <1>7, <1>9 DEF Good, n
  <1> QED BY <1>8, <1>9

\* A function is all there is to f.
IsMapping(f) == f = [x \in DOMAIN f |-> f[x]]

\* A table with one more or one changed entry.
LEMMA PutFacts ==
    ASSUME NEW f, NEW x, NEW v
    PROVE  /\ DOMAIN Put(f, x, v) = DOMAIN f \union {x} /\ Put(f, x, v)[x] = v
           /\ \A y \in DOMAIN f : y /= x => Put(f, x, v)[y] = f[y]
           /\ IsMapping(Put(f, x, v))
  BY DEF Put, IsMapping

\* A table with one entry less.
LEMMA WithoutFacts ==
    ASSUME NEW f, NEW x
    PROVE  /\ DOMAIN Without(f, x) = DOMAIN f \ {x}
           /\ \A y \in DOMAIN f : y /= x => Without(f, x)[y] = f[y]
           /\ IsMapping(Without(f, x))
  BY DEF Without, IsMapping

\* The least number of a set is in it.
LEMMA MinFacts ==
    ASSUME NEW S, S \subseteq Nat, S /= {}
    PROVE  Min(S) \in S /\ \A y \in S : Min(S) <= y
  BY LeastFacts DEF Min

-----------------------------------------------------------------------------
\* A network without a cycle, said without counting, and what keeps it so.

\* No node is behind itself, said without counting: in every set of nodes
\* there is one with no fanin in it.
Acyclic(node) ==
    \A S \in SUBSET DOMAIN node : S /= {} => \E n \in S : Range(node[n].fanin) \intersect S = {}

\* The turns of a loop that adds to a set of nodes, once for each node.
IsChain(f, step, D, N) ==
    /\ step \in [SUBSET D -> SUBSET D]
    /\ \A A, B \in SUBSET D : A \subseteq B => step[A] \subseteq step[B]
    /\ f[0] \in SUBSET D /\ f[0] \subseteq step[f[0]]
    /\ \A k \in 1..N : f[k] = step[f[k - 1]]

\* Such a loop has nothing to add any more when it ends.
LEMMA ChainFacts ==
    ASSUME NEW D, IsFiniteSet(D), NEW N, N = Cardinality(D), NEW step, NEW f, IsChain(f, step, D, N)
    PROVE  /\ \A k \in 0..N : f[k] \in SUBSET D /\ f[k] \subseteq step[f[k]]
           /\ step[f[N]] = f[N]
  <1>0. N \in Nat
    BY FS_CardinalityType
  <1> USE DEF IsChain
  <1> DEFINE Grows(k) == f[k] \in SUBSET D /\ f[k] \subseteq step[f[k]]
             T == {k \in 0..N : Grows(k)}
  <1>1. 0 \in T
    BY <1>0
  <1>2. ASSUME NEW k \in 1..N, k - 1 \in T  PROVE k \in T
    <2>1. f[k - 1] \in SUBSET D /\ f[k - 1] \subseteq step[f[k - 1]] /\ f[k] = step[f[k - 1]]
      BY <1>2
    <2>2. f[k] \in SUBSET D
      BY <2>1
    <2>3. step[f[k - 1]] \subseteq step[f[k]]
      BY <2>1, <2>2
    <2> QED BY <2>1, <2>2, <2>3
  <1>3. \A k \in 0..N : k \in T
    <2> HIDE DEF T
    <2> QED BY <1>0, <1>1, <1>2, UpTo
  <1>4. \A k \in 0..N : Grows(k)
    BY <1>3
  <1> HIDE DEF T
  <1> DEFINE Done(k) == step[f[k]] = f[k] \/ Cardinality(f[k]) >= k
             U == {k \in 0..N : Done(k)}
  <1>5. \A k \in 0..N : IsFiniteSet(f[k]) /\ Cardinality(f[k]) \in Nat
    BY <1>4, FS_Subset, FS_CardinalityType
  <1>6. 0 \in U
    BY <1>0, <1>5
  <1>7. ASSUME NEW k \in 1..N, k - 1 \in U  PROVE k \in U
    <2>0. k - 1 \in 0..N /\ k \in 0..N
      BY <1>0
    <2>1. f[k] = step[f[k - 1]]
      OBVIOUS
    <2>2. CASE step[f[k - 1]] = f[k - 1]
      BY <2>0, <2>1, <2>2
    <2>3. CASE step[f[k - 1]] /= f[k - 1]
      <3>1. Cardinality(f[k - 1]) >= k - 1
        BY <1>7, <2>3
      <3>2. f[k - 1] \subseteq f[k] /\ f[k - 1] /= f[k]
        BY <2>0, <2>1, <2>3, <1>4
      <3>3. Cardinality(f[k - 1]) <= Cardinality(f[k])
        BY <2>0, <3>2, <1>5, FS_Subset
      <3>4. Cardinality(f[k - 1]) /= Cardinality(f[k])
        BY <2>0, <3>2, <1>5, FS_Subset
      <3>5. Cardinality(f[k]) >= k
        BY <3>1, <3>3, <3>4, <2>0, <1>5, <1>0, SMTT(60)
      <3> QED BY <2>0, <3>5
    <2> QED BY <2>2, <2>3
  <1>8. Done(N)
    <2>1. N \in U
      <3> HIDE DEF U
      <3> QED BY <1>0, <1>6, <1>7, UpTo
    <2> QED BY <2>1
  <1>9. CASE Cardinality(f[N]) >= N
    <2>0. N \in 0..N
      BY <1>0
    <2>1. Cardinality(f[N]) <= N /\ f[N] \subseteq D
      BY <1>4, <2>0, FS_Subset
    <2>2. Cardinality(f[N]) = N
      BY <1>9, <2>0, <2>1, <1>0, <1>5
    <2>3. f[N] = D
      BY <2>1, <2>2, FS_Subset
    <2>4. step[f[N]] \subseteq D /\ f[N] \subseteq step[f[N]]
      BY <2>0, <1>4
    <2>5. step[f[N]] = f[N]
      BY <2>3, <2>4
    <2> QED BY <1>4, <2>5
  <1> QED BY <1>4, <1>8, <1>9

\* A network has as many nodes as its list is long.
LEMMA ListedFacts ==
    ASSUME NEW node, NEW nodes, NodesAreListed(node, nodes)
    PROVE  /\ IsFiniteSet(DOMAIN node) /\ Cardinality(DOMAIN node) = Len(nodes)
           /\ Len(nodes) \in Nat
           /\ DOMAIN node \subseteq Nat
  <1>1. nodes \in Seq(Nat) /\ Len(nodes) \in Nat /\ IsInjective(nodes) /\ Range(nodes) = DOMAIN node
    BY DEF NodesAreListed
  <1> DEFINE N == Len(nodes)  D == DOMAIN node
  <1>2. \A i \in 1..N : nodes[i] \in D
    BY <1>1, RangeFacts
  <1>3. \A i, j \in 1..N : nodes[i] = nodes[j] => i = j
    BY <1>1, InjectiveFacts
  <1>4. \A x \in D : \E i \in 1..N : nodes[i] = x
    BY <1>1, RangeFacts
  <1>5. nodes \in [1..N -> Nat] /\ D \subseteq Nat
    BY <1>1, RangeFacts
  <1>6. nodes \in [1..N -> D]
    BY <1>2, <1>5
  <1> HIDE DEF N, D
  <1>7. nodes \in Bijection(1..N, D)
    BY <1>2, <1>3, <1>4, <1>6 DEF Bijection, Injection, Surjection, IsInjective
  <1>8. ExistsBijection(1..N, D)
    BY <1>7 DEF ExistsBijection
  <1>9. IsFiniteSet(1..N) /\ Cardinality(1..N) = N
    <2>1. N \in Nat
      BY <1>1 DEF N
    <2> QED BY <2>1, FS_Interval
  <1>10. IsFiniteSet(D) /\ Cardinality(D) = N
    BY <1>8, <1>9, FS_Bijection
  <1> QED BY <1>1, <1>5, <1>10 DEF N, D

\* The nodes all of whose fanins are in S.
FedBy(node, S) == {n \in DOMAIN node : Range(node[n].fanin) \subseteq S}

\* The loop of network_is_acyclic, as the list of its results.
LEMMA SettledLoop ==
    ASSUME NEW net, Len(net.nodes) \in Nat
    PROVE  \E f : /\ f[0] = {}
                  /\ \A k \in 1..Len(net.nodes) : f[k] = FedBy(net.node, f[k - 1])
                  /\ network_is_acyclic(net) <=> f[Len(net.nodes)] = DOMAIN net.node
  <1> DEFINE last == Len(net.nodes)
             Turn(r, k) == FedBy(net.node, r)
             Start == {}
             G(f, m) == f = [k \in 0..m |-> IF k = 0 THEN Start ELSE Turn(f[k - 1], k)]
             S == {m \in 0..last : \E f : G(f, m)}
  <1>0. last \in Nat
    OBVIOUS
  <1>1. network_is_acyclic(net) <=> (CHOOSE f : G(f, last))[last] = DOMAIN net.node
    BY DEF network_is_acyclic, FedBy
  <1> HIDE DEF Turn, Start, last
  <1>2. \E f : G(f, 0)
    <2>1. G([k \in 0..0 |-> Start], 0)
      OBVIOUS
    <2> HIDE DEF G
    <2> QED BY <2>1
  <1>3. ASSUME NEW m \in 1..last, NEW f, G(f, m - 1)  PROVE \E g : G(g, m)
    <2> DEFINE g == [k \in 0..m |-> IF k = m THEN Turn(f[m - 1], m) ELSE f[k]]
    <2>1. ASSUME NEW k \in 0..m
          PROVE  g[k] = IF k = 0 THEN Start ELSE Turn(g[k - 1], k)
      <3>1. CASE k = m
        <4>1. g[m] = Turn(f[m - 1], m) /\ m \in 0..m /\ m /= 0 /\ g[m - 1] = f[m - 1]
          BY <1>0
        <4> HIDE DEF g
        <4> QED BY <3>1, <4>1
      <3>2. CASE k /= m
        <4>1. k \in 0..(m - 1)
          BY <1>0, <3>2
        <4>2. f[k] = IF k = 0 THEN Start ELSE Turn(f[k - 1], k)
          BY <1>3, <4>1
        <4>3. g[k] = f[k] /\ (k /= 0 => g[k - 1] = f[k - 1])
          BY <1>0, <3>2, <4>1
        <4> HIDE DEF g
        <4> QED BY <4>2, <4>3
      <3> QED BY <3>1, <3>2
    <2>2. g = [k \in 0..m |-> g[k]]
      OBVIOUS
    <2>3. G(g, m)
      BY <2>1, <2>2
    <2> HIDE DEF G, g
    <2> QED BY <2>3
  <1>4. \E f : G(f, last)
    <2> HIDE DEF G
    <2>1. 0 \in S
      BY <1>0, <1>2
    <2>2. \A m \in 1..last : m - 1 \in S => m \in S
      BY <1>0, <1>3
    <2> HIDE DEF S
    <2>3. \A m \in 0..last : m \in S
      BY <1>0, <2>1, <2>2, UpTo
    <2>4. last \in S
      BY <1>0, <2>3
    <2> QED BY <2>4 DEF S
  <1> DEFINE F == CHOOSE f : G(f, last)
  <1>5. G(F, last)
    <2> HIDE DEF G
    <2> QED BY <1>4
  <1> HIDE DEF F
  <1>6. \A k \in 0..last : F[k] = IF k = 0 THEN Start ELSE Turn(F[k - 1], k)
    <2>1. \A k \in 0..last : [j \in 0..last |-> IF j = 0 THEN Start ELSE Turn(F[j - 1], j)][k]
                             = IF k = 0 THEN Start ELSE Turn(F[k - 1], k)
      OBVIOUS
    <2> QED BY <1>5, <2>1, Zenon
  <1>7. F[0] = Start /\ \A k \in 1..last : F[k] = Turn(F[k - 1], k)
    <2>1. 0 \in 0..last /\ \A k \in 1..last : k \in 0..last /\ k /= 0
      BY <1>0
    <2> QED BY <1>6, <2>1, Zenon
  <1>8. network_is_acyclic(net) <=> F[last] = DOMAIN net.node
    BY <1>1 DEF F
  <1> QED BY <1>7, <1>8, Zenon DEF Turn, Start, last

\* The search of network_is_acyclic finds a cycle when there is one: it turns
\* often enough.
LEMMA AcyclicMeaning ==
    ASSUME NEW net, NodesAreListed(net.node, net.nodes)
    PROVE  network_is_acyclic(net) <=> Acyclic(net.node)
  <1> DEFINE node == net.node  D == DOMAIN net.node  N == Len(net.nodes)
             step == [A \in SUBSET D |-> {n \in D : Range(node[n].fanin) \subseteq A}]
  <1>1. N \in Nat /\ IsFiniteSet(D) /\ N = Cardinality(D)
    BY ListedFacts
  <1>2. PICK f : /\ f[0] = {}
                 /\ \A k \in 1..N : f[k] = FedBy(node, f[k - 1])
                 /\ network_is_acyclic(net) <=> f[N] = D
    BY <1>1, SettledLoop
  <1>0. \A A : FedBy(node, A) = {n \in D : Range(node[n].fanin) \subseteq A}
    BY DEF FedBy
  <1>3. \A n \in D : Range(node[n].fanin) \subseteq D
    BY DEF NodesAreListed
  <1> HIDE DEF D, N, node
  <1>4. step \in [SUBSET D -> SUBSET D]
        /\ \A A \in SUBSET D : step[A] = {n \in D : Range(node[n].fanin) \subseteq A}
    OBVIOUS
  <1>5. \A A, B \in SUBSET D : A \subseteq B => step[A] \subseteq step[B]
    OBVIOUS
  <1> HIDE DEF step
  <1>6. \A k \in 0..N : f[k] \in SUBSET D
    <2> DEFINE T == {k \in 0..N : f[k] \in SUBSET D}
    <2>1. 0 \in T /\ \A k \in 1..N : k - 1 \in T => k \in T
      BY <1>0, <1>1, <1>2
    <2> HIDE DEF T
    <2>2. \A k \in 0..N : k \in T
      BY <1>1, <2>1, UpTo
    <2> QED BY <2>2 DEF T
  <1>7. ASSUME NEW k \in 1..N  PROVE f[k] = step[f[k - 1]]
    <2>1. f[k - 1] \in SUBSET D
      BY <1>1, <1>6
    <2>2. f[k] = {n \in D : Range(node[n].fanin) \subseteq f[k - 1]}
      BY <1>0, <1>2
    <2> QED BY <1>4, <2>1, <2>2, Zenon
  <1>8. f[0] \in SUBSET D /\ f[0] \subseteq step[f[0]]
    BY <1>2
  <1>9. step[f[N]] = f[N]
    <2>1. \A k \in 1..N : f[k] = step[f[k - 1]]
      BY <1>7
    <2>2. IsChain(f, step, D, N)
      BY <1>4, <1>5, <2>1, <1>8 DEF IsChain
    <2> QED BY <1>1, <2>2, ChainFacts
  <1>10. ASSUME f[N] = D, NEW S \in SUBSET D, S /= {}
         PROVE  \E n \in S : Range(node[n].fanin) \intersect S = {}
    <2> DEFINE K == {k \in 0..N : S \intersect f[k] /= {}}
    <2>1. N \in K /\ K \subseteq Nat
      BY <1>1, <1>10
    <2> HIDE DEF K
    <2>2. PICK k \in K : \A j \in K : k <= j
      BY <2>1, LeastFacts
    <2>3. k \in 1..N /\ k - 1 \notin K
      BY <1>1, <1>2, <2>2 DEF K
    <2>4. PICK n \in S : n \in f[k]
      BY <2>2 DEF K
    <2>5. Range(node[n].fanin) \subseteq f[k - 1]
      BY <1>0, <1>2, <2>3, <2>4
    <2>6. S \intersect f[k - 1] = {}
      BY <1>1, <2>3 DEF K
    <2> QED BY <2>5, <2>6
  <1>11. ASSUME Acyclic(node)  PROVE f[N] = D
    <2>1. SUFFICES ASSUME D \ f[N] /= {} PROVE FALSE
      BY <1>1, <1>6, SMTT(60)
    <2>2. PICK n \in D \ f[N] : Range(node[n].fanin) \intersect (D \ f[N]) = {}
      BY <1>11, <2>1 DEF Acyclic, D, node
    <2>3. Range(node[n].fanin) \subseteq f[N]
      BY <1>3, <2>2
    <2>4. n \in step[f[N]]
      BY <1>1, <1>4, <1>6, <2>2, <2>3
    <2> QED BY <1>9, <2>2, <2>4
  <1>12. Acyclic(node) <=> \A S \in SUBSET D : S /= {}
           => \E n \in S : Range(node[n].fanin) \intersect S = {}
    BY DEF Acyclic, D, node
  <1> QED BY <1>2, <1>10, <1>11, <1>12 DEF node

\* New fanins that have no fanin themselves close no cycle.
LEMMA AcyclicByLeaves ==
    ASSUME NEW node, NEW new, Acyclic(node), DOMAIN new = DOMAIN node,
           NEW E, \A n \in DOMAIN node : Range(new[n].fanin) \subseteq Range(node[n].fanin)
             \union E,
           \A n \in E : Range(new[n].fanin) = {}
    PROVE  Acyclic(new)
  <1> SUFFICES ASSUME NEW S \in SUBSET DOMAIN node, S /= {}
               PROVE  \E n \in S : Range(new[n].fanin) \intersect S = {}
    BY DEF Acyclic
  <1>1. CASE S \intersect E /= {}
    BY <1>1
  <1>2. CASE S \intersect E = {}
    <2>1. PICK n \in S : Range(node[n].fanin) \intersect S = {}
      BY DEF Acyclic
    <2> QED BY <1>2, <2>1
  <1> QED BY <1>1, <1>2

\* A node that takes over fanins of a fanin of its closes no cycle.
LEMMA AcyclicByCollapse ==
    ASSUME NEW node, NEW new, Acyclic(node), DOMAIN new = DOMAIN node,
           NEW x \in DOMAIN node, NEW y \in DOMAIN node, y \in Range(node[x].fanin),
           \A n \in DOMAIN node \ {x} : new[n].fanin = node[n].fanin,
           Range(new[x].fanin) \subseteq Range(node[x].fanin) \union Range(node[y].fanin)
    PROVE  Acyclic(new)
  <1> DEFINE From(n) == Range(node[n].fanin)  NewFrom(n) == Range(new[n].fanin)
  <1> SUFFICES ASSUME NEW S \in SUBSET DOMAIN node, S /= {}
               PROVE  \E n \in S : NewFrom(n) \intersect S = {}
    BY DEF Acyclic
  <1>1. \A n \in DOMAIN node \ {x} : NewFrom(n) = From(n)
    OBVIOUS
  <1>2. NewFrom(x) \subseteq From(x) \union From(y) /\ y \in From(x)
    OBVIOUS
  <1>3. \A A \in SUBSET DOMAIN node : A /= {} => \E n \in A : From(n) \intersect A = {}
    BY DEF Acyclic
  <1> HIDE DEF From, NewFrom
  <1>4. CASE x \notin S
    BY <1>1, <1>3, <1>4
  <1>5. CASE x \in S
    <2>1. PICK m \in S \union {y} : From(m) \intersect (S \union {y}) = {}
      BY <1>3
    <2>2. m /= x
      BY <1>2, <2>1
    <2>3. CASE m \in S
      BY <1>1, <2>1, <2>2, <2>3
    <2>4. CASE m \notin S
      <3>1. m = y /\ From(y) \intersect S = {}
        BY <2>1, <2>4
      <3>2. PICK k \in S : From(k) \intersect S = {}
        BY <1>3
      <3>3. CASE k = x
        BY <1>2, <3>1, <3>2, <3>3
      <3>4. CASE k /= x
        BY <1>1, <3>2, <3>4
      <3> QED BY <3>3, <3>4
    <2> QED BY <2>3, <2>4
  <1> QED BY <1>4, <1>5

\* A node that nothing of a closed set of users leads to can feed them.
LEMMA AcyclicByConnecting ==
    ASSUME NEW node, NEW new, Acyclic(node), DOMAIN new = DOMAIN node,
           NEW R \in SUBSET DOMAIN node, NEW d, d \notin R,
           \A n \in DOMAIN node : Range(node[n].fanin) \intersect R /= {} => n \in R,
           \A n \in DOMAIN node \ R : Range(new[n].fanin) \subseteq Range(node[n].fanin),
           \A n \in R : Range(new[n].fanin) \subseteq Range(node[n].fanin) \union {d}
    PROVE  Acyclic(new)
  <1> SUFFICES ASSUME NEW S \in SUBSET DOMAIN node, S /= {}
               PROVE  \E n \in S : Range(new[n].fanin) \intersect S = {}
    BY DEF Acyclic
  <1>1. CASE S \ R /= {}
    <2>1. PICK n \in S \ R : Range(node[n].fanin) \intersect (S \ R) = {}
      BY <1>1 DEF Acyclic
    <2>2. Range(node[n].fanin) \intersect R = {}
          /\ Range(new[n].fanin) \subseteq Range(node[n].fanin)
      BY <2>1
    <2> QED BY <2>1, <2>2
  <1>2. CASE S \subseteq R
    <2>1. PICK n \in S : Range(node[n].fanin) \intersect S = {}
      BY DEF Acyclic
    <2>2. d \notin S
      BY <1>2
    <2> QED BY <1>2, <2>1, <2>2, ZenonT(60)
  <1> QED BY <1>1, <1>2

\* A node that feeds nothing is on no cycle.
LEMMA AcyclicByAdding ==
    ASSUME NEW node, NEW new, Acyclic(node),
           NEW x, x \notin DOMAIN node, DOMAIN new = DOMAIN node \union {x},
           \A n \in DOMAIN node : new[n].fanin = node[n].fanin,
           \A n \in DOMAIN node : Range(node[n].fanin) \subseteq DOMAIN node,
           Range(new[x].fanin) \subseteq DOMAIN node
    PROVE  Acyclic(new)
  <1> SUFFICES ASSUME NEW S \in SUBSET DOMAIN new, S /= {}
               PROVE  \E n \in S : Range(new[n].fanin) \intersect S = {}
    BY DEF Acyclic
  <1>1. CASE S \ {x} /= {}
    <2>1. PICK n \in S \ {x} : Range(node[n].fanin) \intersect (S \ {x}) = {}
      BY <1>1 DEF Acyclic
    <2> QED BY <2>1
  <1>2. CASE S = {x}
    BY <1>2
  <1> QED BY <1>1, <1>2

\* Fewer nodes and fewer fanins close no cycle.
LEMMA AcyclicByDeleting ==
    ASSUME NEW node, NEW new, Acyclic(node), DOMAIN new \subseteq DOMAIN node,
           \A n \in DOMAIN new : Range(new[n].fanin) \subseteq Range(node[n].fanin)
    PROVE  Acyclic(new)
  <1> SUFFICES ASSUME NEW S \in SUBSET DOMAIN new, S /= {}
               PROVE  \E n \in S : Range(new[n].fanin) \intersect S = {}
    BY DEF Acyclic
  <1>1. PICK n \in S : Range(node[n].fanin) \intersect S = {}
    BY DEF Acyclic
  <1> QED BY <1>1

-----------------------------------------------------------------------------
\* The fanout lists.

\* A network by its parts.
Net(a, b, c, d, e, f, g, h) ==
    [node |-> a, fanout |-> b, nodes |-> c, pi |-> d, po |-> e, name_table |-> f, latch |-> g,
      latch_table |-> h]

\* A network has these parts and no others.
Shape(net) ==
    net = Net(net.node, net.fanout, net.nodes, net.pi, net.po, net.name_table, net.latch,
      net.latch_table)

\* The fanout lists after fanin_remove_fanout.
UsesRemoved(node, fanout, n) ==
    [x \in DOMAIN fanout |-> Minus(fanout[x], {n} \X DOMAIN node[n].fanin)]

\* The pins of a node, last one first, as fanin_add_fanout puts them in front.
UsesOf(node, n) == [i \in DOMAIN node[n].fanin |-> <<n, Len(node[n].fanin) + 1 - i>>]

\* Its pins that do not lead to x.
OtherUses(node, n, x) == {<<n, i>> : i \in {j \in DOMAIN node[n].fanin : node[n].fanin[j] /= x}}

\* The fanout lists after fanin_add_fanout.
UsesAdded(node, fanout, n) ==
    [x \in DOMAIN fanout |-> IF x \in Range(node[n].fanin)
                             THEN fanout[x] \o Minus(UsesOf(node, n), OtherUses(node, n, x))
                               ELSE fanout[x]]

\* A network with other fanout lists.
LEMMA FanoutExcept ==
    ASSUME NEW net, Shape(net), NEW b
    PROVE  [net EXCEPT !.fanout = b]
           = Net(net.node, b, net.nodes, net.pi, net.po, net.name_table, net.latch, net.latch_table)
  BY DEF Shape, Net

\* What fanin_remove_fanout does to each part of a network.
LEMMA RemoveFanoutIs ==
    ASSUME NEW net, Shape(net), NEW n
    PROVE  fanin_remove_fanout(net, n)
           = Net(net.node, UsesRemoved(net.node, net.fanout, n), net.nodes, net.pi, net.po,
             net.name_table,
                 net.latch, net.latch_table)
  <1>1. fanin_remove_fanout(net, n) = [net EXCEPT !.fanout = UsesRemoved(net.node, net.fanout, n)]
    BY DEF fanin_remove_fanout, UsesRemoved, Shape, Net
  <1> QED BY <1>1, FanoutExcept

\* What fanin_add_fanout does to each part of a network.
LEMMA AddFanoutIs ==
    ASSUME NEW net, Shape(net), NEW n
    PROVE  fanin_add_fanout(net, n)
           = Net(net.node, UsesAdded(net.node, net.fanout, n), net.nodes, net.pi, net.po,
             net.name_table,
                 net.latch, net.latch_table)
  <1>1. fanin_add_fanout(net, n) = [net EXCEPT !.fanout = UsesAdded(net.node, net.fanout, n)]
    BY DEF fanin_add_fanout, UsesAdded, UsesOf, OtherUses, Shape, Net
  <1> QED BY <1>1, FanoutExcept

\* After fanin_remove_fanout the lists are those of the other nodes.
LEMMA ListsRemove ==
    ASSUME NEW node, NEW fanout, NEW users, Lists(node, users, fanout), NEW n
    PROVE  /\ Lists(node, users \ {n}, UsesRemoved(node, fanout, n))
           /\ DOMAIN UsesRemoved(node, fanout, n) = DOMAIN fanout
           /\ \A x \in DOMAIN fanout : Range(UsesRemoved(node, fanout, n)[x])
                \subseteq Range(fanout[x])
  <1> DEFINE new == UsesRemoved(node, fanout, n)  gone == {n} \X DOMAIN node[n].fanin
  <1>1. DOMAIN new = DOMAIN fanout /\ \A x \in DOMAIN fanout : new[x] = Minus(fanout[x], gone)
    BY DEF UsesRemoved
  <1> HIDE DEF new, gone
  <1>2. ASSUME NEW x \in DOMAIN fanout
        PROVE  /\ new[x] \in Seq(Nat \X Nat) /\ IsInjective(new[x])
               /\ \A use \in Range(new[x]) :
                    /\ use[1] \in users \ {n} /\ use[2] \in DOMAIN node[use[1]].fanin
                    /\ node[use[1]].fanin[use[2]] = x
               /\ \A m \in users \ {n} : \A i \in DOMAIN node[m].fanin :
                    node[m].fanin[i] = x => <<m, i>> \in Range(new[x])
               /\ Range(new[x]) \subseteq Range(fanout[x])
    <2>1. /\ fanout[x] \in Seq(Nat \X Nat) /\ IsInjective(fanout[x])
          /\ \A use \in Range(fanout[x]) :
                /\ use[1] \in users /\ use[2] \in DOMAIN node[use[1]].fanin
                /\ node[use[1]].fanin[use[2]] = x
          /\ \A m \in users : \A i \in DOMAIN node[m].fanin :
                node[m].fanin[i] = x => <<m, i>> \in Range(fanout[x])
      BY DEF Lists
    <2>2. new[x] \in Seq(Nat \X Nat) /\ IsInjective(new[x])
          /\ Range(new[x]) = Range(fanout[x]) \ gone
      BY <1>1, <2>1, MinusFacts
    <2>3. ASSUME NEW use \in Range(new[x])  PROVE use[1] /= n
      <3>1. use \in Nat \X Nat
        BY <2>1, <2>2, RangeFacts
      <3>2. use = <<use[1], use[2]>>
        BY <3>1
      <3> QED BY <2>1, <2>2, <3>2 DEF gone
    <2>4. \A m \in users \ {n} : \A i \in DOMAIN node[m].fanin : <<m, i>> \notin gone
      BY DEF gone
    <2> QED BY <2>1, <2>2, <2>3, <2>4
  <1>3. Lists(node, users \ {n}, new)
    BY <1>1, <1>2 DEF Lists
  <1> QED BY <1>1, <1>2, <1>3 DEF new

\* The pins of a node that lead to x, each once.
LEMMA UsesOfFacts ==
    ASSUME NEW node, NEW n \in Nat, node[n].fanin \in Seq(Nat), NEW x
    PROVE  LET s == Minus(UsesOf(node, n), OtherUses(node, n, x))
           IN /\ s \in Seq(Nat \X Nat) /\ IsInjective(s)
              /\ Range(s) = {<<n, i>> : i \in {j \in DOMAIN node[n].fanin : node[n].fanin[j] = x}}
  <1> DEFINE fanin == node[n].fanin  N == Len(fanin)  u == UsesOf(node, n)
             o == OtherUses(node, n, x)
  <1>1. N \in Nat /\ DOMAIN fanin = 1..N
    OBVIOUS
  <1>2. u = [i \in 1..N |-> <<n, N + 1 - i>>]
    BY <1>1 DEF UsesOf
  <1>3. o = {<<n, i>> : i \in {j \in 1..N : fanin[j] /= x}}
    BY <1>1 DEF OtherUses
  <1> HIDE DEF fanin, N, u, o
  <1>4. \A i \in 1..N : N + 1 - i \in 1..N /\ N + 1 - (N + 1 - i) = i
    BY <1>1
  <1>5. u \in [1..N -> Nat \X Nat]
    BY <1>1, <1>2, <1>4
  <1>6. u \in Seq(Nat \X Nat) /\ Len(u) = N
    BY <1>1, <1>5
  <1>7. IsInjective(u)
    <2>1. ASSUME NEW i \in 1..N, NEW j \in 1..N, u[i] = u[j]  PROVE i = j
      <3>1. N + 1 - i = N + 1 - j
        BY <1>2, <2>1
      <3> QED BY <1>1, <3>1
    <2> QED BY <1>6, <2>1, InjectiveFacts
  <1>8. Range(u) = {<<n, i>> : i \in 1..N}
    <2>1. Range(u) = {u[i] : i \in 1..N}
      BY <1>6, RangeFacts
    <2>2. \A i \in 1..N : <<n, i>> = u[N + 1 - i]
      BY <1>2, <1>4
    <2>3. \A i \in 1..N : u[i] = <<n, N + 1 - i>>
      BY <1>2
    <2>4. Range(u) \subseteq {<<n, i>> : i \in 1..N}
      <3>1. SUFFICES ASSUME NEW x1 \in Range(u) PROVE x1 \in {<<n, i>> : i \in 1..N}
        OBVIOUS
      <3>2. PICK i \in 1..N : x1 = u[i]
        BY <2>1
      <3>3. PICK j : j = N + 1 - i
        OBVIOUS
      <3>4. j \in 1..N /\ x1 = <<n, j>>
        BY <1>4, <2>3, <3>2, <3>3
      <3> QED BY <3>4
    <2>5. {<<n, i>> : i \in 1..N} \subseteq Range(u)
      BY <1>4, <2>1, <2>2
    <2> QED BY <2>4, <2>5
  <1>9. Minus(u, o) \in Seq(Nat \X Nat) /\ IsInjective(Minus(u, o))
        /\ Range(Minus(u, o)) = Range(u) \ o
    BY <1>6, <1>7, MinusFacts
  <1>10. Range(u) \ o = {<<n, i>> : i \in {j \in 1..N : fanin[j] = x}}
    BY <1>3, <1>8
  <1> QED BY <1>1, <1>9, <1>10 DEF fanin, u, o

\* After fanin_add_fanout the lists are those of one more node.
LEMMA ListsAdd ==
    ASSUME NEW node, NEW fanout, NEW users, Lists(node, users, fanout),
           NEW n \in Nat, n \notin users,
           node[n].fanin \in Seq(Nat)
    PROVE  /\ Lists(node, users \union {n}, UsesAdded(node, fanout, n))
           /\ DOMAIN UsesAdded(node, fanout, n) = DOMAIN fanout
  <1> DEFINE new == UsesAdded(node, fanout, n)  fanin == node[n].fanin
             s(x) == Minus(UsesOf(node, n), OtherUses(node, n, x))
  <1>1. DOMAIN new = DOMAIN fanout
        /\ \A x \in DOMAIN fanout : new[x] = IF x \in Range(fanin) THEN fanout[x] \o s(x)
             ELSE fanout[x]
    BY DEF UsesAdded
  <1>2. ASSUME NEW x
        PROVE  /\ s(x) \in Seq(Nat \X Nat) /\ IsInjective(s(x))
               /\ \A use \in Range(s(x)) : \E i \in DOMAIN fanin : use = <<n, i>> /\ fanin[i] = x
               /\ \A i \in DOMAIN fanin : fanin[i] = x => <<n, i>> \in Range(s(x))
    BY UsesOfFacts
  <1>3. \A i \in DOMAIN fanin : fanin[i] \in Range(fanin)
    BY RangeFacts
  <1> HIDE DEF new, s
  <1>4. ASSUME NEW x \in DOMAIN fanout
        PROVE  /\ new[x] \in Seq(Nat \X Nat) /\ IsInjective(new[x])
               /\ \A use \in Range(new[x]) :
                    /\ use[1] \in users \union {n} /\ use[2] \in DOMAIN node[use[1]].fanin
                    /\ node[use[1]].fanin[use[2]] = x
               /\ \A m \in users \union {n} : \A i \in DOMAIN node[m].fanin :
                    node[m].fanin[i] = x => <<m, i>> \in Range(new[x])
    <2>1. /\ fanout[x] \in Seq(Nat \X Nat) /\ IsInjective(fanout[x])
          /\ \A use \in Range(fanout[x]) :
                /\ use[1] \in users /\ use[2] \in DOMAIN node[use[1]].fanin
                /\ node[use[1]].fanin[use[2]] = x
          /\ \A m \in users : \A i \in DOMAIN node[m].fanin :
                node[m].fanin[i] = x => <<m, i>> \in Range(fanout[x])
      BY DEF Lists
    <2>2. CASE x \notin Range(fanin)
      <3>1. new[x] = fanout[x]
        BY <1>1, <2>2
      <3>2. \A i \in DOMAIN fanin : fanin[i] /= x
        BY <1>3, <2>2
      <3> QED BY <2>1, <3>1, <3>2
    <2>3. CASE x \in Range(fanin)
      <3>1. new[x] = fanout[x] \o s(x)
        BY <1>1, <2>3
      <3>2. \A use \in Range(s(x)) : use[1] = n /\ use[2] \in DOMAIN fanin /\ fanin[use[2]] = x
        BY <1>2
      <3>3. Range(fanout[x]) \intersect Range(s(x)) = {}
        BY <2>1, <3>2
      <3>4. /\ new[x] \in Seq(Nat \X Nat) /\ IsInjective(new[x])
            /\ Range(new[x]) = Range(fanout[x]) \union Range(s(x))
        BY <1>2, <2>1, <3>1, <3>3, ConcatFacts
      <3> QED BY <1>2, <2>1, <3>2, <3>4
    <2> QED BY <2>2, <2>3
  <1>5. Lists(node, users \union {n}, new)
    BY <1>1, <1>4 DEF Lists
  <1> QED BY <1>1, <1>5 DEF new

\* The lists know the fanins of the nodes and nothing else of them.
LEMMA ListsSame ==
    ASSUME NEW node, NEW fanout, NEW users, Lists(node, users, fanout),
           NEW new, \A n \in users : new[n].fanin = node[n].fanin
    PROVE  Lists(new, users, fanout)
  BY DEF Lists

\* One pin of n leads to new instead of old.
IsPatched(node, node2, n, pin, old, new) ==
    /\ DOMAIN node2 = DOMAIN node /\ n \in DOMAIN node
    /\ \A m \in DOMAIN node : m /= n => node2[m] = node[m]
    /\ pin \in DOMAIN node[n].fanin /\ node[n].fanin[pin] = old
    /\ node2[n].type = node[n].type /\ node2[n].name = node[n].name /\ node2[n].F = node[n].F
    /\ DOMAIN node2[n].fanin = DOMAIN node[n].fanin /\ node2[n].fanin[pin] = new
    /\ \A i \in DOMAIN node[n].fanin : i /= pin => node2[n].fanin[i] = node[n].fanin[i]

\* The pin p is taken off the list of old and put on that of new.
IsMove(fanout, unused, fanout2, p, old, new) ==
    /\ old \in DOMAIN fanout /\ new \in DOMAIN fanout
    /\ DOMAIN unused = DOMAIN fanout /\ unused[old] = Minus(fanout[old], {p})
    /\ \A x \in DOMAIN fanout : x /= old => unused[x] = fanout[x]
    /\ DOMAIN fanout2 = DOMAIN fanout /\ fanout2[new] = Append(unused[new], p)
    /\ \A x \in DOMAIN fanout : x /= new => fanout2[x] = unused[x]
    /\ fanout2 = [x \in DOMAIN fanout |-> fanout2[x]]

\* When a pin and its entry in the lists move together, the lists stay right.
LEMMA ListsPatch ==
    ASSUME NEW node, NEW fanout, Lists(node, DOMAIN node, fanout),
           NEW n, NEW pin, NEW old, NEW new, NEW node2, IsPatched(node, node2, n, pin, old, new),
           NEW p \in Nat \X Nat, p[1] = n, p[2] = pin,
           NEW unused, NEW fanout2, IsMove(fanout, unused, fanout2, p, old, new)
    PROVE  Lists(node2, DOMAIN node, fanout2)
  <1> DEFINE users == DOMAIN node
  <1> USE DEF IsPatched, IsMove
  <1>0. p = <<n, pin>>
    OBVIOUS
  <1> DEFINE IsList(x, s, nd) ==
                 /\ s \in Seq(Nat \X Nat) /\ IsInjective(s)
                 /\ \A use \in Range(s) :
                      /\ use[1] \in users /\ use[2] \in DOMAIN nd[use[1]].fanin
                      /\ nd[use[1]].fanin[use[2]] = x
                 /\ \A m \in users : \A i \in DOMAIN nd[m].fanin :
                      nd[m].fanin[i] = x => <<m, i>> \in Range(s)
  <1>3. \A x \in DOMAIN fanout : IsList(x, fanout[x], node)
    BY DEF Lists
  <1>4. ASSUME NEW x \in DOMAIN fanout
        PROVE  /\ unused[x] \in Seq(Nat \X Nat) /\ IsInjective(unused[x])
               /\ \A use \in Range(unused[x]) : use \in Range(fanout[x]) /\ use /= p
               /\ \A use \in Range(fanout[x]) : use \in Range(unused[x]) \/ use = p
    <2>1. fanout[x] \in Seq(Nat \X Nat) /\ IsInjective(fanout[x])
      BY <1>3
    <2>2. CASE x = old
      <3>1. unused[x] = Minus(fanout[x], {p})
        BY <2>2
      <3>2. /\ Minus(fanout[x], {p}) \in Seq(Nat \X Nat) /\ IsInjective(Minus(fanout[x], {p}))
            /\ Range(Minus(fanout[x], {p})) = Range(fanout[x]) \ {p}
        BY <2>1, MinusFacts
      <3> QED BY <3>1, <3>2
    <2>3. CASE x /= old
      <3>1. unused[x] = fanout[x]
        BY <2>3
      <3>2. p \notin Range(fanout[x])
        <4>1. \A use \in Range(fanout[x]) : node[use[1]].fanin[use[2]] = x
          BY <1>3
        <4> QED BY <2>3, <4>1
      <3> QED BY <2>1, <3>1, <3>2
    <2> QED BY <2>2, <2>3
  <1>5. ASSUME NEW x \in DOMAIN fanout
        PROVE  /\ fanout2[x] \in Seq(Nat \X Nat) /\ IsInjective(fanout2[x])
               /\ \A use \in Range(fanout2[x]) :
                    \/ use \in Range(fanout[x]) /\ use /= p
                    \/ x = new /\ use = p
               /\ \A use \in Range(fanout[x]) : use \in Range(fanout2[x]) \/ use = p
               /\ x = new => p \in Range(fanout2[x])
    <2>0. /\ unused[x] \in Seq(Nat \X Nat) /\ IsInjective(unused[x])
          /\ \A use \in Range(unused[x]) : use \in Range(fanout[x]) /\ use /= p
          /\ \A use \in Range(fanout[x]) : use \in Range(unused[x]) \/ use = p
      BY <1>4
    <2>1. CASE x = new
      <3>1. fanout2[x] = Append(unused[x], p)
        BY <2>1
      <3>2. p \notin Range(unused[x])
        BY <2>0
      <3>3. /\ Append(unused[x], p) \in Seq(Nat \X Nat) /\ IsInjective(Append(unused[x], p))
            /\ Range(Append(unused[x], p)) = Range(unused[x]) \union {p}
        BY <2>0, <3>2, AppendFacts
      <3>4. PICK t : t = Append(unused[x], p)
        OBVIOUS
      <3>5. /\ fanout2[x] = t /\ t \in Seq(Nat \X Nat) /\ IsInjective(t)
            /\ Range(t) = Range(unused[x]) \union {p}
        BY <3>1, <3>3, <3>4
      <3> HIDE DEF IsPatched, IsMove
      <3> QED BY <2>0, <2>1, <3>5
    <2>2. CASE x /= new
      <3>1. fanout2[x] = unused[x]
        BY <2>2
      <3> QED BY <2>0, <2>2, <3>1
    <2> QED BY <2>1, <2>2
  <1>6. ASSUME NEW x \in DOMAIN fanout  PROVE IsList(x, fanout2[x], node2)
    <2>1. ASSUME NEW use \in Range(fanout2[x])
          PROVE  /\ use[1] \in users /\ use[2] \in DOMAIN node2[use[1]].fanin
                 /\ node2[use[1]].fanin[use[2]] = x
      <3>1. CASE x = new /\ use = p
        BY <1>0, <3>1
      <3>2. CASE use \in Range(fanout[x]) /\ use /= p
        <4>1. use[1] \in users /\ use[2] \in DOMAIN node[use[1]].fanin
              /\ node[use[1]].fanin[use[2]] = x
          BY <1>3, <3>2
        <4>2. ~ (use[1] = n /\ use[2] = pin)
          <5>1. use \in Nat \X Nat
            BY <1>3, <3>2, RangeFacts
          <5>2. use = <<use[1], use[2]>>
            BY <5>1
          <5> QED BY <1>0, <3>2, <5>2
        <4>3. CASE use[1] = n
          BY <4>1, <4>2, <4>3
        <4>4. CASE use[1] /= n
          BY <4>1, <4>4
        <4> QED BY <4>3, <4>4
      <3> QED BY <1>5, <3>1, <3>2
    <2>2. ASSUME NEW m \in users, NEW i \in DOMAIN node2[m].fanin, node2[m].fanin[i] = x
          PROVE  <<m, i>> \in Range(fanout2[x])
      <3>1. CASE m = n /\ i = pin
        <4>1. x = new
          BY <2>2, <3>1
        <4>2. p \in Range(fanout2[x])
          BY <1>5, <4>1
        <4> QED BY <1>0, <3>1, <4>2
      <3>2. CASE ~ (m = n /\ i = pin)
        <4>1. i \in DOMAIN node[m].fanin /\ node[m].fanin[i] = x
          BY <2>2, <3>2
        <4>2. <<m, i>> \in Range(fanout[x])
          BY <1>3, <4>1
        <4>3. <<m, i>> /= p
          BY <1>0, <3>2
        <4> QED BY <1>5, <4>2, <4>3
      <3> QED BY <3>1, <3>2
    <2> QED BY <1>5, <2>1, <2>2
  <1>7. Lists(node2, users, fanout2)
    BY <1>6 DEF Lists
  <1> QED BY <1>7

-----------------------------------------------------------------------------
\* A network by its parts.

\* A network but for its fanout lists and cycles.
Parts(node, nodes, pi, po, name_table, latch, latch_table) ==
    /\ NodesAreListed(node, nodes)
    /\ TerminalsAreListed(node, pi, po)
    /\ NamesFindNodes(node, name_table)
    /\ CoversAreSound(node)
    /\ LatchesAreListed(node, latch, latch_table)

\* A network by its parts, with cycles defined the other way.
Fit(node, fanout, nodes, pi, po, name_table, latch, latch_table) ==
    /\ Parts(node, nodes, pi, po, name_table, latch, latch_table)
    /\ FanoutsMirrorFanins(node, fanout)
    /\ Acyclic(node)

\* The parts of a network that is put together.
LEMMA NetFields ==
    ASSUME NEW net, NEW a, NEW b, NEW c, NEW d, NEW e, NEW f, NEW g,
           NEW h, net = Net(a, b, c, d, e, f, g, h)
    PROVE  /\ net.node = a /\ net.fanout = b /\ net.nodes = c /\ net.pi = d
           /\ net.po = e /\ net.name_table = f /\ net.latch = g /\ net.latch_table = h
           /\ Shape(net)
  BY DEF Net, Shape

\* What a network is, by its parts.
LEMMA NetworkIs ==
    ASSUME NEW net
    PROVE  IsNetwork(net)
           <=> /\ Shape(net)
               /\ Fit(net.node, net.fanout, net.nodes, net.pi, net.po, net.name_table, net.latch,
                    net.latch_table)
  <1>1. Shape(net) <=> net
          = [node |-> net.node, fanout |-> net.fanout, nodes |-> net.nodes, pi |-> net.pi,
              po |-> net.po, name_table |-> net.name_table, latch |-> net.latch,
              latch_table |-> net.latch_table]
    BY Zenon DEF Shape, Net
  <1>2. NodesAreListed(net.node, net.nodes) => (network_is_acyclic(net) <=> Acyclic(net.node))
    BY AcyclicMeaning
  <1> QED BY <1>1, <1>2, Zenon DEF IsNetwork, Fit, Parts

\* The latch list and the latch table depend on the types of the nodes alone.
LEMMA LatchesKept ==
    ASSUME NEW node, NEW latch, NEW latch_table, LatchesAreListed(node, latch, latch_table),
           NEW node2,
           \A n \in DOMAIN latch_table : n \in DOMAIN node => n \in DOMAIN node2
           /\ node2[n].type = node[n].type
    PROVE  LatchesAreListed(node2, latch, latch_table)
  <1>1. ASSUME NEW i \in 1..Len(latch)  PROVE IsLatch(node2, latch_table, latch[i])
    BY DEF LatchesAreListed, IsLatch
  <1>2. ASSUME NEW n \in DOMAIN latch_table
        PROVE  IF latch_table[n] = NIL THEN n \in DOMAIN node2 /\ node2[n].type = "PRIMARY_OUTPUT"
               ELSE \E i \in 1..Len(latch) : n \in {latch[i].input, latch[i].output}
    BY DEF LatchesAreListed
  <1> QED BY <1>1, <1>2 DEF LatchesAreListed

\* One node is another one now.
IsChanged(node, node2, n, nd) ==
    /\ n \in DOMAIN node
    /\ node2 = [m \in DOMAIN node |-> node2[m]]
    /\ node2[n] = nd /\ \A m \in DOMAIN node : m /= n => node2[m] = node[m]

\* A node the network can have.
IsProper(node, nd) ==
    /\ IsNode(nd) /\ Range(nd.fanin) \subseteq DOMAIN node
    /\ \A x \in Range(nd.fanin) : node[x].type /= "PRIMARY_OUTPUT"
    /\ nd.type = "PRIMARY_INPUT" => nd.fanin = <<>>
    /\ nd.type = "PRIMARY_OUTPUT" => Len(nd.fanin) = 1
    /\ nd.type = "INTERNAL" => IsMinimumBase(nd) /\ IsSccMinimal(nd)
    /\ nd.dup_free => ~HasDup(nd)

\* A node gets another function, and what is read from the nodes' types and
\* names stays.
LEMMA PartsUpdate ==
    ASSUME NEW node, NEW nodes, NEW pi, NEW po, NEW name_table, NEW latch, NEW latch_table,
           Parts(node, nodes, pi, po, name_table, latch, latch_table),
           NEW node2, NEW n, NEW nd, IsChanged(node, node2, n, nd), IsProper(node, nd),
           nd.type = node[n].type, nd.name = node[n].name
    PROVE  Parts(node2, nodes, pi, po, name_table, latch, latch_table)
  <1>0. /\ n \in DOMAIN node /\ DOMAIN node2 = DOMAIN node /\ node2[n] = nd
        /\ \A m \in DOMAIN node : m /= n => node2[m] = node[m]
        /\ \A m \in DOMAIN node : node2[m].type = node[m].type /\ node2[m].name = node[m].name
        /\ node2 = [m \in DOMAIN node2 |-> node2[m]]
    BY DEF IsChanged
  <1>1. NodesAreListed(node2, nodes)
    <2>1. \A m \in DOMAIN node : IsNode(node2[m]) /\ Range(node2[m].fanin) \subseteq DOMAIN node
      BY <1>0 DEF Parts, NodesAreListed, IsProper
    <2> QED BY <1>0, <2>1 DEF Parts, NodesAreListed
  <1>2. TerminalsAreListed(node2, pi, po)
    <2>0. TerminalsAreListed(node, pi, po)
      BY DEF Parts
    <2>1. {m \in DOMAIN node2 : node2[m].type = "PRIMARY_INPUT"}
            = {m \in DOMAIN node : node[m].type = "PRIMARY_INPUT"}
      BY <1>0
    <2>2. {m \in DOMAIN node2 : node2[m].type = "PRIMARY_OUTPUT"}
            = {m \in DOMAIN node : node[m].type = "PRIMARY_OUTPUT"}
      BY <1>0
    <2>3. ASSUME NEW m \in DOMAIN node
          PROVE  /\ node2[m].type = "PRIMARY_INPUT" => node2[m].fanin = <<>>
                 /\ node2[m].type = "PRIMARY_OUTPUT" => Len(node2[m].fanin) = 1
                 /\ \A i \in DOMAIN node2[m].fanin :
                      node2[node2[m].fanin[i]].type /= "PRIMARY_OUTPUT"
      <3>1. CASE m = n
        <4>1. /\ nd.type = "PRIMARY_INPUT" => nd.fanin = <<>>
              /\ nd.type = "PRIMARY_OUTPUT" => Len(nd.fanin) = 1
          BY DEF IsProper
        <4>2. \A i \in DOMAIN nd.fanin : nd.fanin[i] \in Range(nd.fanin)
          BY DEF Range
        <4>3. \A x \in Range(nd.fanin) : x \in DOMAIN node /\ node[x].type /= "PRIMARY_OUTPUT"
          BY DEF IsProper
        <4>4. \A i \in DOMAIN nd.fanin : node2[nd.fanin[i]].type /= "PRIMARY_OUTPUT"
          BY <1>0, <4>2, <4>3
        <4> QED BY <1>0, <3>1, <4>1, <4>4
      <3>2. CASE m /= n
        <4>1. node2[m] = node[m]
          BY <1>0, <3>2
        <4>2. \A i \in DOMAIN node[m].fanin : node[m].fanin[i] \in DOMAIN node
          BY DEF Parts, NodesAreListed, Range
        <4>3. /\ node[m].type = "PRIMARY_INPUT" => node[m].fanin = <<>>
              /\ node[m].type = "PRIMARY_OUTPUT" => Len(node[m].fanin) = 1
              /\ \A i \in DOMAIN node[m].fanin : node[node[m].fanin[i]].type /= "PRIMARY_OUTPUT"
          BY <2>0 DEF TerminalsAreListed
        <4> QED BY <1>0, <4>1, <4>2, <4>3
      <3> QED BY <3>1, <3>2
    <2> QED BY <1>0, <2>0, <2>1, <2>2, <2>3 DEF TerminalsAreListed
  <1>3. NamesFindNodes(node2, name_table)
    <2>1. {node2[m].name : m \in DOMAIN node2} = {node[m].name : m \in DOMAIN node}
      BY <1>0
    <2> QED BY <1>0, <2>1 DEF Parts, NamesFindNodes
  <1>4. CoversAreSound(node2)
    BY <1>0 DEF Parts, CoversAreSound, IsProper
  <1>5. LatchesAreListed(node2, latch, latch_table)
    <2>1. LatchesAreListed(node, latch, latch_table)
      BY DEF Parts
    <2>2. \A m \in DOMAIN latch_table : m \in DOMAIN node => m \in DOMAIN node2
          /\ node2[m].type = node[m].type
      BY <1>0
    <2> QED BY <2>1, <2>2, LatchesKept
  <1> QED BY <1>1, <1>2, <1>3, <1>4, <1>5 DEF Parts

\* Two nodes have exchanged their names.
IsSwapped(node, node2, n1, n2) ==
    /\ node2 = [m \in DOMAIN node |-> node2[m]]
    /\ \A m \in DOMAIN node : node2[m] = [node[m] EXCEPT !.name = node2[m].name]
    /\ \A m \in DOMAIN node : node2[m].name = IF m = n1 THEN node[n2].name
                                              ELSE IF m = n2 THEN node[n1].name ELSE node[m].name

\* Their names lead to the other ones.
IsSwappedTable(name_table, name_table2, name1, name2, n1, n2) ==
    /\ name_table2 = [x \in DOMAIN name_table |-> name_table2[x]]
    /\ \A x \in DOMAIN name_table : name_table2[x] = IF x = name1 THEN n2 ELSE IF x = name2 THEN n1
         ELSE name_table[x]

\* Two nodes exchange their names.
LEMMA PartsSwap ==
    ASSUME NEW node, NEW nodes, NEW pi, NEW po, NEW name_table, NEW latch, NEW latch_table,
           Parts(node, nodes, pi, po, name_table, latch, latch_table),
           NEW n1 \in DOMAIN node, NEW n2 \in DOMAIN node,
           NEW node2, IsSwapped(node, node2, n1, n2),
           NEW name_table2,
           IsSwappedTable(name_table, name_table2, node[n1].name, node[n2].name, n1, n2)
    PROVE  Parts(node2, nodes, pi, po, name_table2, latch, latch_table)
  <1> USE DEF IsSwapped, IsSwappedTable
  <1>0. DOMAIN node2 = DOMAIN node /\ node2 = [m \in DOMAIN node2 |-> node2[m]]
    OBVIOUS
  <1>a. ASSUME NEW m \in DOMAIN node
        PROVE  /\ node2[m].type = node[m].type /\ node2[m].fanin = node[m].fanin
               /\ node2[m].F = node[m].F
               /\ node2[m].dup_free = node[m].dup_free /\ IsNode(node2[m])
    <2>1. IsNode(node[m])
      BY DEF Parts, NodesAreListed
    <2>2. PICK name : name = node2[m].name
      OBVIOUS
    <2>3. node2[m] = [node[m] EXCEPT !.name = name]
      BY <2>2
    <2>4. node[m] = [type |-> node[m].type, fanin |-> node[m].fanin, F |-> node[m].F,
                     dup_free |-> node[m].dup_free, name |-> node[m].name]
      BY <2>1 DEF IsNode
    <2>5. node2[m] = [type |-> node[m].type, fanin |-> node[m].fanin, F |-> node[m].F,
                      dup_free |-> node[m].dup_free, name |-> name]
      BY <2>3, <2>4
    <2>6. /\ node2[m].type = node[m].type /\ node2[m].fanin = node[m].fanin
          /\ node2[m].F = node[m].F
          /\ node2[m].dup_free = node[m].dup_free
      BY <2>5
    <2>7. IsNode(node2[m])
      BY <2>1, <2>2, <2>5, <2>6 DEF IsNode, IsFunction
    <2> QED BY <2>6, <2>7
  <1>1. NodesAreListed(node2, nodes)
    BY <1>0, <1>a DEF Parts, NodesAreListed
  <1>2. TerminalsAreListed(node2, pi, po)
    <2>0. TerminalsAreListed(node, pi, po)
      BY DEF Parts
    <2>1. {m \in DOMAIN node2 : node2[m].type = "PRIMARY_INPUT"}
            = {m \in DOMAIN node : node[m].type = "PRIMARY_INPUT"}
      BY <1>0, <1>a
    <2>2. {m \in DOMAIN node2 : node2[m].type = "PRIMARY_OUTPUT"}
            = {m \in DOMAIN node : node[m].type = "PRIMARY_OUTPUT"}
      BY <1>0, <1>a
    <2>3. \A m \in DOMAIN node : \A i \in DOMAIN node[m].fanin : node[m].fanin[i] \in DOMAIN node
      BY DEF Parts, NodesAreListed, Range
    <2>4. \A m \in DOMAIN node2 :
            /\ node2[m].type = "PRIMARY_INPUT" => node2[m].fanin = <<>>
            /\ node2[m].type = "PRIMARY_OUTPUT" => Len(node2[m].fanin) = 1
            /\ \A i \in DOMAIN node2[m].fanin : node2[node2[m].fanin[i]].type /= "PRIMARY_OUTPUT"
      BY <1>0, <1>a, <2>0, <2>3 DEF TerminalsAreListed
    <2> QED BY <2>0, <2>1, <2>2, <2>4 DEF TerminalsAreListed
  <1>3. NamesFindNodes(node2, name_table2)
    <2>0. /\ DOMAIN name_table = {node[m].name : m \in DOMAIN node}
          /\ \A m \in DOMAIN node : name_table[node[m].name] = m
      BY DEF Parts, NamesFindNodes
    <2>1. {node2[m].name : m \in DOMAIN node2} \subseteq DOMAIN name_table
      BY <1>0, <2>0
    <2>2. DOMAIN name_table \subseteq {node2[m].name : m \in DOMAIN node2}
      <3>1. SUFFICES ASSUME NEW x \in DOMAIN name_table
                     PROVE \E m \in DOMAIN node : node2[m].name = x
        BY <1>0
      <3>2. PICK m \in DOMAIN node : x = node[m].name
        BY <2>0
      <3>3. CASE m = n1
        BY <3>2, <3>3
      <3>4. CASE m = n2
        BY <3>2, <3>4
      <3>5. CASE m /= n1 /\ m /= n2
        BY <3>2, <3>5
      <3> QED BY <3>3, <3>4, <3>5
    <2>3. ASSUME NEW m \in DOMAIN node  PROVE name_table2[node2[m].name] = m
      <3>1. node[m].name \in DOMAIN name_table /\ node[n1].name \in DOMAIN name_table
            /\ node[n2].name \in DOMAIN name_table
        BY <2>0
      <3>2. \A k \in DOMAIN node : node[k].name = node[m].name => k = m
        BY <2>0
      <3>3. \A k \in DOMAIN node : node[k].name = node[n1].name => k = n1
        BY <2>0
      <3>4. CASE m = n1
        BY <3>1, <3>3, <3>4, <2>0
      <3>5. CASE m = n2 /\ m /= n1
        BY <3>1, <3>3, <3>5, <2>0
      <3>6. CASE m /= n1 /\ m /= n2
        BY <3>1, <3>2, <3>6, <2>0
      <3> QED BY <3>4, <3>5, <3>6
    <2> QED BY <1>0, <2>1, <2>2, <2>3 DEF NamesFindNodes
  <1>4. CoversAreSound(node2)
    BY <1>0, <1>a DEF Parts, CoversAreSound, IsMinimumBase, IsSccMinimal, HasDup
  <1>5. LatchesAreListed(node2, latch, latch_table)
    <2>1. LatchesAreListed(node, latch, latch_table)
      BY DEF Parts
    <2>2. \A m \in DOMAIN latch_table : m \in DOMAIN node => m \in DOMAIN node2
          /\ node2[m].type = node[m].type
      BY <1>0, <1>a
    <2> QED BY <2>1, <2>2, LatchesKept
  <1> QED BY <1>1, <1>2, <1>3, <1>4, <1>5 DEF Parts

\* The list of nothing.
LEMMA EmptyFacts ==
    ASSUME NEW S
    PROVE  <<>> \in Seq(S) /\ Range(<<>>) = {} /\ IsInjective(<<>>) /\ Len(<<>>) = 0
  <1>1. <<>> \in Seq(S) /\ Len(<<>>) = 0
    OBVIOUS
  <1>2. Range(<<>>) = {}
    BY DEF Range
  <1>3. IsInjective(<<>>)
    BY DEF IsInjective
  <1> QED BY <1>1, <1>2, <1>3

\* A list with nothing in it is that one.
LEMMA EmptyRange ==
    ASSUME NEW S, NEW s \in Seq(S), Range(s) = {}
    PROVE  s = <<>>
  <1>1. Len(s) \in Nat /\ \A i \in 1..Len(s) : s[i] \in Range(s)
    BY RangeFacts
  <1>2. Len(s) = 0
    <2>1. CASE Len(s) > 0
      <3>1. 1 \in 1..Len(s)
        BY <1>1, <2>1
      <3> QED BY <1>1, <3>1
    <2> QED BY <1>1, <2>1
  <1> QED BY <1>2

\* There is an address that no node has.
LEMMA UnusedFacts ==
    ASSUME NEW net, NodesAreListed(net.node, net.nodes)
    PROVE  Unused(net) \in Nat /\ Unused(net) \notin DOMAIN net.node
  <1> DEFINE D == DOMAIN net.node  N == Len(net.nodes)  free == 1..(N + 1) \ D
  <1>1. IsFiniteSet(D) /\ Cardinality(D) = N /\ N \in Nat
    BY ListedFacts
  <1> HIDE DEF D, N
  <1>2. free /= {}
    <2>1. SUFFICES ASSUME 1..(N + 1) \subseteq D PROVE FALSE
      OBVIOUS
    <2>2. Cardinality(1..(N + 1)) = N + 1
      BY <1>1, FS_Interval
    <2>3. Cardinality(1..(N + 1)) <= Cardinality(D)
      BY <1>1, <2>1, FS_Subset
    <2> QED BY <1>1, <2>2, <2>3
  <1>3. free \subseteq Nat
    BY <1>1
  <1>4. Min(free) \in free
    <2> HIDE DEF free
    <2> QED BY <1>2, <1>3, MinFacts
  <1>5. Unused(net) = Min(free)
    BY DEF Unused, free, D, N
  <1> QED BY <1>3, <1>4, <1>5 DEF D

\* network_add_node makes up a name that no node has.
LEMMA MadeUpNameFacts ==
    ASSUME NEW net, NodesAreListed(net.node, net.nodes), NamesFindNodes(net.node, net.name_table)
    PROVE  MadeUpName(net) \notin DOMAIN net.name_table
  <1> DEFINE D == DOMAIN net.node  N == Len(net.nodes)  T == net.name_table
             free == {k \in 1..(N + 1) : <<"madeup", k>> \notin DOMAIN T}
  <1>1. IsFiniteSet(D) /\ Cardinality(D) = N /\ N \in Nat
    BY ListedFacts
  <1>2. \A name \in DOMAIN T : T[name] \in D /\ net.node[T[name]].name = name
    BY DEF NamesFindNodes
  <1> HIDE DEF D, N, T
  <1>3. free /= {}
    <2>1. SUFFICES ASSUME \A k \in 1..(N + 1) : <<"madeup", k>> \in DOMAIN T PROVE FALSE
      OBVIOUS
    <2> DEFINE f == [k \in 1..(N + 1) |-> T[<<"madeup", k>>]]
    <2>2. f \in [1..(N + 1) -> D]
      BY <1>2, <2>1
    <2>3. \A i, j \in 1..(N + 1) : f[i] = f[j] => i = j
      <3>1. SUFFICES ASSUME NEW i \in 1..(N + 1), NEW j \in 1..(N + 1), f[i] = f[j] PROVE i = j
        OBVIOUS
      <3>2. T[<<"madeup", i>>] = T[<<"madeup", j>>]
        BY <3>1
      <3>3. <<"madeup", i>> = <<"madeup", j>>
        BY <1>2, <2>1, <3>2
      <3> QED BY <3>3
    <2>4. Cardinality(1..(N + 1)) = N + 1 /\ IsFiniteSet(1..(N + 1))
      BY <1>1, FS_Interval
    <2> HIDE DEF f
    <2>5. Cardinality(D) < Cardinality(1..(N + 1))
      BY <1>1, <2>4
    <2> QED BY <1>1, <2>2, <2>3, <2>4, <2>5, FS_PigeonHole
  <1>4. free \subseteq Nat
    BY <1>1
  <1>5. Min(free) \in free
    <2> HIDE DEF free
    <2> QED BY <1>3, <1>4, MinFacts
  <1>6. MadeUpName(net) = <<"madeup", Min(free)>>
    BY DEF MadeUpName, free, N, T
  <1> QED BY <1>5, <1>6 DEF T

\* A proper node with a new name is one more node of a network.
LEMMA PartsAdd ==
    ASSUME NEW node, NEW nodes, NEW pi, NEW po, NEW name_table, NEW latch, NEW latch_table,
           Parts(node, nodes, pi, po, name_table, latch, latch_table),
           NEW n \in Nat, n \notin DOMAIN node,
           NEW nd, IsProper(node, nd), nd.name \notin DOMAIN name_table,
           NEW pi2, pi2 = IF nd.type = "PRIMARY_INPUT" THEN Append(pi, n) ELSE pi,
           NEW po2, po2 = IF nd.type = "PRIMARY_OUTPUT" THEN Append(po, n) ELSE po,
           NEW node2, node2 = Put(node, n, nd), NEW table2, table2 = Put(name_table, nd.name, n)
    PROVE  Parts(node2, Append(nodes, n), pi2, po2, table2, latch, latch_table)
  <1>0. /\ DOMAIN node2 = DOMAIN node \union {n} /\ node2[n] = nd
        /\ \A m \in DOMAIN node : node2[m] = node[m]
        /\ node2 = [m \in DOMAIN node2 |-> node2[m]]
    BY DEF Put
  <1>1. NodesAreListed(node2, Append(nodes, n))
    <2>1. \A m \in DOMAIN node2 : IsNode(node2[m]) /\ Range(node2[m].fanin) \subseteq DOMAIN node2
      BY <1>0 DEF Parts, NodesAreListed, IsProper
    <2>2. nodes \in Seq(Nat) /\ IsInjective(nodes) /\ Range(nodes) = DOMAIN node
      BY DEF Parts, NodesAreListed
    <2>3. Append(nodes, n) \in Seq(Nat) /\ IsInjective(Append(nodes, n))
          /\ Range(Append(nodes, n)) = DOMAIN node \union {n}
      BY <2>2, AppendFacts
    <2> QED BY <1>0, <2>1, <2>3 DEF NodesAreListed
  <1>2. TerminalsAreListed(node2, pi2, po2)
    <2>0. TerminalsAreListed(node, pi, po)
      BY DEF Parts
    <2>1. pi \in Seq(Nat) /\ IsInjective(pi)
          /\ Range(pi) = {m \in DOMAIN node : node[m].type = "PRIMARY_INPUT"}
      BY <2>0 DEF TerminalsAreListed
    <2>2. po \in Seq(Nat) /\ IsInjective(po)
          /\ Range(po) = {m \in DOMAIN node : node[m].type = "PRIMARY_OUTPUT"}
      BY <2>0 DEF TerminalsAreListed
    <2>3. pi2 \in Seq(Nat) /\ IsInjective(pi2)
          /\ Range(pi2) = {m \in DOMAIN node2 : node2[m].type = "PRIMARY_INPUT"}
      <3>1. Append(pi, n) \in Seq(Nat) /\ (n \notin Range(pi) => IsInjective(Append(pi, n)))
            /\ Range(Append(pi, n)) = Range(pi) \union {n}
        BY <2>1, AppendFacts
      <3>2. n \notin Range(pi)
        BY <2>1
      <3>3. CASE nd.type = "PRIMARY_INPUT"
        <4>1. {m \in DOMAIN node2 : node2[m].type = "PRIMARY_INPUT"} = Range(pi) \union {n}
          BY <1>0, <2>1, <3>3
        <4> QED BY <3>1, <3>2, <3>3, <4>1
      <3>4. CASE nd.type /= "PRIMARY_INPUT"
        <4>1. {m \in DOMAIN node2 : node2[m].type = "PRIMARY_INPUT"} = Range(pi)
          BY <1>0, <2>1, <3>4
        <4> QED BY <2>1, <3>4, <4>1
      <3> QED BY <3>3, <3>4
    <2>4. po2 \in Seq(Nat) /\ IsInjective(po2)
          /\ Range(po2) = {m \in DOMAIN node2 : node2[m].type = "PRIMARY_OUTPUT"}
      <3>1. Append(po, n) \in Seq(Nat) /\ (n \notin Range(po) => IsInjective(Append(po, n)))
            /\ Range(Append(po, n)) = Range(po) \union {n}
        BY <2>2, AppendFacts
      <3>2. n \notin Range(po)
        BY <2>2
      <3>3. CASE nd.type = "PRIMARY_OUTPUT"
        <4>1. {m \in DOMAIN node2 : node2[m].type = "PRIMARY_OUTPUT"} = Range(po) \union {n}
          BY <1>0, <2>2, <3>3
        <4> QED BY <3>1, <3>2, <3>3, <4>1
      <3>4. CASE nd.type /= "PRIMARY_OUTPUT"
        <4>1. {m \in DOMAIN node2 : node2[m].type = "PRIMARY_OUTPUT"} = Range(po)
          BY <1>0, <2>2, <3>4
        <4> QED BY <2>2, <3>4, <4>1
      <3> QED BY <3>3, <3>4
    <2>5. ASSUME NEW m \in DOMAIN node2
          PROVE  /\ node2[m].type = "PRIMARY_INPUT" => node2[m].fanin = <<>>
                 /\ node2[m].type = "PRIMARY_OUTPUT" => Len(node2[m].fanin) = 1
                 /\ \A i \in DOMAIN node2[m].fanin :
                      node2[node2[m].fanin[i]].type /= "PRIMARY_OUTPUT"
      <3>1. CASE m = n
        <4>1. /\ nd.type = "PRIMARY_INPUT" => nd.fanin = <<>>
              /\ nd.type = "PRIMARY_OUTPUT" => Len(nd.fanin) = 1
          BY DEF IsProper
        <4>2. \A i \in DOMAIN nd.fanin : nd.fanin[i] \in Range(nd.fanin)
          BY DEF Range
        <4>3. \A x \in Range(nd.fanin) : x \in DOMAIN node /\ node[x].type /= "PRIMARY_OUTPUT"
          BY DEF IsProper
        <4>4. \A i \in DOMAIN nd.fanin : node2[nd.fanin[i]].type /= "PRIMARY_OUTPUT"
          BY <1>0, <4>2, <4>3
        <4> QED BY <1>0, <3>1, <4>1, <4>4
      <3>2. CASE m /= n
        <4>1. m \in DOMAIN node /\ node2[m] = node[m]
          BY <1>0, <3>2
        <4>2. \A i \in DOMAIN node[m].fanin : node[m].fanin[i] \in DOMAIN node
          BY <4>1 DEF Parts, NodesAreListed, Range
        <4>3. /\ node[m].type = "PRIMARY_INPUT" => node[m].fanin = <<>>
              /\ node[m].type = "PRIMARY_OUTPUT" => Len(node[m].fanin) = 1
              /\ \A i \in DOMAIN node[m].fanin : node[node[m].fanin[i]].type /= "PRIMARY_OUTPUT"
          BY <2>0, <4>1 DEF TerminalsAreListed
        <4> QED BY <1>0, <4>1, <4>2, <4>3
      <3> QED BY <3>1, <3>2
    <2> QED BY <2>3, <2>4, <2>5 DEF TerminalsAreListed
  <1>3. NamesFindNodes(node2, table2)
    <2>0. /\ DOMAIN name_table = {node[m].name : m \in DOMAIN node}
          /\ \A m \in DOMAIN node : name_table[node[m].name] = m
      BY DEF Parts, NamesFindNodes
    <2>1. /\ DOMAIN table2 = DOMAIN name_table \union {nd.name} /\ table2[nd.name] = n
          /\ \A x \in DOMAIN name_table : table2[x] = name_table[x]
          /\ table2 = [x \in DOMAIN table2 |-> table2[x]]
      BY DEF Put
    <2>2. DOMAIN table2 = {node2[m].name : m \in DOMAIN node2}
      BY <1>0, <2>0, <2>1
    <2>3. \A m \in DOMAIN node2 : table2[node2[m].name] = m
      BY <1>0, <2>0, <2>1
    <2> QED BY <2>1, <2>2, <2>3 DEF NamesFindNodes
  <1>4. CoversAreSound(node2)
    BY <1>0 DEF Parts, CoversAreSound, IsProper
  <1>5. LatchesAreListed(node2, latch, latch_table)
    <2>1. LatchesAreListed(node, latch, latch_table)
      BY DEF Parts
    <2>2. \A m \in DOMAIN latch_table : m \in DOMAIN node => m \in DOMAIN node2
          /\ node2[m].type = node[m].type
      BY <1>0
    <2> QED BY <2>1, <2>2, LatchesKept
  <1> QED BY <1>1, <1>2, <1>3, <1>4, <1>5 DEF Parts

\* The same with its fanout lists and cycles.
LEMMA FitAdd ==
    ASSUME NEW node, NEW fanout, NEW nodes, NEW pi, NEW po, NEW name_table, NEW latch,
           NEW latch_table,
           Fit(node, fanout, nodes, pi, po, name_table, latch, latch_table),
           NEW n \in Nat, n \notin DOMAIN node,
           NEW nd, IsProper(node, nd), nd.name \notin DOMAIN name_table,
           NEW pi2, pi2 = IF nd.type = "PRIMARY_INPUT" THEN Append(pi, n) ELSE pi,
           NEW po2, po2 = IF nd.type = "PRIMARY_OUTPUT" THEN Append(po, n) ELSE po,
           NEW node2, node2 = Put(node, n, nd), NEW table2, table2 = Put(name_table, nd.name, n)
    PROVE  Fit(node2, UsesAdded(node2, Put(fanout, n, <<>>), n), Append(nodes, n), pi2, po2, table2,
             latch, latch_table)
  <1>0. /\ DOMAIN node2 = DOMAIN node \union {n} /\ node2[n] = nd
        /\ \A m \in DOMAIN node : node2[m] = node[m]
    BY DEF Put
  <1>1. Parts(node2, Append(nodes, n), pi2, po2, table2, latch, latch_table)
    BY PartsAdd DEF Fit
  <1> DEFINE more == Put(fanout, n, <<>>)  new == UsesAdded(node2, more, n)
  <1>2. fanout = [x \in DOMAIN node |-> fanout[x]] /\ Lists(node, DOMAIN node, fanout)
    BY DEF Fit, FanoutsMirrorFanins
  <1>3. DOMAIN more = DOMAIN node2 /\ more[n] = <<>> /\ \A x \in DOMAIN node : more[x] = fanout[x]
    BY <1>0, <1>2 DEF Put
  <1> HIDE DEF more
  <1>4. \A m \in DOMAIN node : \A i \in DOMAIN node[m].fanin : node[m].fanin[i] \in DOMAIN node
    BY DEF Fit, Parts, NodesAreListed, Range
  <1>5. Lists(node2, DOMAIN node, more)
    <2>1. <<>> \in Seq(Nat \X Nat) /\ Range(<<>>) = {} /\ IsInjective(<<>>)
      BY EmptyFacts
    <2>2. ASSUME NEW x \in DOMAIN more
          PROVE  /\ more[x] \in Seq(Nat \X Nat) /\ IsInjective(more[x])
                 /\ \A use \in Range(more[x]) :
                      /\ use[1] \in DOMAIN node /\ use[2] \in DOMAIN node2[use[1]].fanin
                      /\ node2[use[1]].fanin[use[2]] = x
                 /\ \A m \in DOMAIN node : \A i \in DOMAIN node2[m].fanin :
                      node2[m].fanin[i] = x => <<m, i>> \in Range(more[x])
      <3>1. CASE x = n
        BY <1>0, <1>3, <1>4, <2>1, <3>1
      <3>2. CASE x /= n
        <4>1. x \in DOMAIN fanout /\ more[x] = fanout[x]
          BY <1>0, <1>2, <1>3, <3>2
        <4>2. /\ fanout[x] \in Seq(Nat \X Nat) /\ IsInjective(fanout[x])
              /\ \A use \in Range(fanout[x]) :
                   /\ use[1] \in DOMAIN node /\ use[2] \in DOMAIN node[use[1]].fanin
                   /\ node[use[1]].fanin[use[2]] = x
              /\ \A m \in DOMAIN node : \A i \in DOMAIN node[m].fanin :
                   node[m].fanin[i] = x => <<m, i>> \in Range(fanout[x])
          BY <1>2, <4>1 DEF Lists
        <4> QED BY <1>0, <4>1, <4>2
      <3> QED BY <3>1, <3>2
    <2> QED BY <2>2 DEF Lists
  <1>6. node2[n].fanin \in Seq(Nat)
    BY <1>0 DEF IsProper, IsNode
  <1>7. Lists(node2, DOMAIN node \union {n}, new) /\ DOMAIN new = DOMAIN more
    BY <1>5, <1>6, ListsAdd, SMTT(60)
  <1>8. FanoutsMirrorFanins(node2, new)
    <2>1. new = [x \in DOMAIN new |-> new[x]]
      BY DEF UsesAdded
    <2> HIDE DEF new
    <2> QED BY <1>0, <1>3, <1>7, <2>1 DEF FanoutsMirrorFanins
  <1>9. Acyclic(node2)
    <2>1. Acyclic(node) /\ \A m \in DOMAIN node : Range(node[m].fanin) \subseteq DOMAIN node
      BY DEF Fit, Parts, NodesAreListed
    <2>2. Range(nd.fanin) \subseteq DOMAIN node
      BY DEF IsProper
    <2>3. /\ n \notin DOMAIN node /\ DOMAIN node2 = DOMAIN node \union {n}
          /\ \A m \in DOMAIN node : node2[m].fanin = node[m].fanin
          /\ Range(node2[n].fanin) \subseteq DOMAIN node
      BY <1>0, <2>2
    <2> QED BY <2>1, <2>3, AcyclicByAdding
  <1> QED BY <1>1, <1>8, <1>9 DEF Fit, new, more

-----------------------------------------------------------------------------
\* Nodes come and go.

\* The name that network_add_node gives to a node.
NameFor(net, nd) ==
    IF nd.name = NIL \/ (nd.name[1] = "madeup" /\ nd.name \in DOMAIN net.name_table)
      THEN MadeUpName(net) ELSE nd.name

\* A network with another part: the nodes.
LEMMA Set_node ==
    ASSUME NEW net, Shape(net), NEW v
    PROVE  [net EXCEPT !.node = v]
             = Net(v, net.fanout, net.nodes, net.pi, net.po, net.name_table, net.latch,
               net.latch_table)
  BY DEF Shape, Net

\* The fanout lists.
LEMMA Set_fanout ==
    ASSUME NEW net, Shape(net), NEW v
    PROVE  [net EXCEPT !.fanout = v]
             = Net(net.node, v, net.nodes, net.pi, net.po, net.name_table, net.latch,
               net.latch_table)
  BY DEF Shape, Net

\* The list of the nodes.
LEMMA Set_nodes ==
    ASSUME NEW net, Shape(net), NEW v
    PROVE  [net EXCEPT !.nodes = v]
             = Net(net.node, net.fanout, v, net.pi, net.po, net.name_table, net.latch,
               net.latch_table)
  BY DEF Shape, Net

\* The list of the inputs.
LEMMA Set_pi ==
    ASSUME NEW net, Shape(net), NEW v
    PROVE  [net EXCEPT !.pi = v]
             = Net(net.node, net.fanout, net.nodes, v, net.po, net.name_table, net.latch,
               net.latch_table)
  BY DEF Shape, Net

\* The list of the outputs.
LEMMA Set_po ==
    ASSUME NEW net, Shape(net), NEW v
    PROVE  [net EXCEPT !.po = v]
             = Net(net.node, net.fanout, net.nodes, net.pi, v, net.name_table, net.latch,
               net.latch_table)
  BY DEF Shape, Net

\* The name table.
LEMMA Set_name_table ==
    ASSUME NEW net, Shape(net), NEW v
    PROVE  [net EXCEPT !.name_table = v]
             = Net(net.node, net.fanout, net.nodes, net.pi, net.po, v, net.latch, net.latch_table)
  BY DEF Shape, Net

\* The latch list.
LEMMA Set_latch ==
    ASSUME NEW net, Shape(net), NEW v
    PROVE  [net EXCEPT !.latch = v]
             = Net(net.node, net.fanout, net.nodes, net.pi, net.po, net.name_table, v,
               net.latch_table)
  BY DEF Shape, Net

\* The latch table.
LEMMA Set_latch_table ==
    ASSUME NEW net, Shape(net), NEW v
    PROVE  [net EXCEPT !.latch_table = v]
             = Net(net.node, net.fanout, net.nodes, net.pi, net.po, net.name_table, net.latch, v)
  BY DEF Shape, Net

\* The lists of the nodes, the inputs and the outputs.
LEMMA Set_nodes_pi_po ==
    ASSUME NEW net, Shape(net), NEW u, NEW v, NEW w
    PROVE  [net EXCEPT !.nodes = u, !.pi = v, !.po = w]
           = Net(net.node, net.fanout, u, v, w, net.name_table, net.latch, net.latch_table)
  <1> DEFINE one == [net EXCEPT !.nodes = u]
             two == [one EXCEPT !.pi = v]
             three == [two EXCEPT !.po = w]
  <1>1. [net EXCEPT !.nodes = u, !.pi = v, !.po = w] = three
    OBVIOUS
  <1>2. one = Net(net.node, net.fanout, u, net.pi, net.po, net.name_table, net.latch,
          net.latch_table)
    BY Set_nodes
  <1> HIDE DEF one
  <1>3. Shape(one) /\ one.node = net.node /\ one.fanout = net.fanout /\ one.nodes = u
        /\ one.pi = net.pi /\ one.po = net.po /\ one.name_table = net.name_table
        /\ one.latch = net.latch /\ one.latch_table = net.latch_table
    BY <1>2, NetFields
  <1>4. two = Net(net.node, net.fanout, u, v, net.po, net.name_table, net.latch, net.latch_table)
    BY <1>3, Set_pi
  <1> HIDE DEF two
  <1>5. Shape(two) /\ two.node = net.node /\ two.fanout = net.fanout /\ two.nodes = u /\ two.pi = v
        /\ two.po = net.po /\ two.name_table = net.name_table /\ two.latch = net.latch
        /\ two.latch_table = net.latch_table
    BY <1>4, NetFields
  <1>6. three = Net(net.node, net.fanout, u, v, w, net.name_table, net.latch, net.latch_table)
    BY <1>5, Set_po
  <1> QED BY <1>1, <1>6

\* The nodes, the fanout lists and the name table.
LEMMA Set_node_fanout_table ==
    ASSUME NEW net, Shape(net), NEW u, NEW v, NEW w
    PROVE  [net EXCEPT !.node = u, !.fanout = v, !.name_table = w]
           = Net(u, v, net.nodes, net.pi, net.po, w, net.latch, net.latch_table)
  <1> DEFINE one == [net EXCEPT !.node = u]
             two == [one EXCEPT !.fanout = v]
             three == [two EXCEPT !.name_table = w]
  <1>1. [net EXCEPT !.node = u, !.fanout = v, !.name_table = w] = three
    OBVIOUS
  <1>2. one = Net(u, net.fanout, net.nodes, net.pi, net.po, net.name_table, net.latch,
          net.latch_table)
    BY Set_node
  <1> HIDE DEF one
  <1>3. Shape(one) /\ one.node = u /\ one.fanout = net.fanout /\ one.nodes = net.nodes
        /\ one.pi = net.pi /\ one.po = net.po /\ one.name_table = net.name_table
        /\ one.latch = net.latch /\ one.latch_table = net.latch_table
    BY <1>2, NetFields
  <1>4. two = Net(u, v, net.nodes, net.pi, net.po, net.name_table, net.latch, net.latch_table)
    BY <1>3, Set_fanout
  <1> HIDE DEF two
  <1>5. Shape(two) /\ two.node = u /\ two.fanout = v /\ two.nodes = net.nodes /\ two.pi = net.pi
        /\ two.po = net.po /\ two.name_table = net.name_table /\ two.latch = net.latch
        /\ two.latch_table = net.latch_table
    BY <1>4, NetFields
  <1>6. three = Net(u, v, net.nodes, net.pi, net.po, w, net.latch, net.latch_table)
    BY <1>5, Set_name_table
  <1> QED BY <1>1, <1>6

\* The nodes and the lists of the inputs and the outputs.
LEMMA Set_node_pi_po ==
    ASSUME NEW net, Shape(net), NEW u, NEW v, NEW w
    PROVE  [net EXCEPT !.node = u, !.pi = v, !.po = w]
           = Net(u, net.fanout, net.nodes, v, w, net.name_table, net.latch, net.latch_table)
  <1> DEFINE one == [net EXCEPT !.node = u]
             two == [one EXCEPT !.pi = v]
             three == [two EXCEPT !.po = w]
  <1>1. [net EXCEPT !.node = u, !.pi = v, !.po = w] = three
    OBVIOUS
  <1>2. one = Net(u, net.fanout, net.nodes, net.pi, net.po, net.name_table, net.latch,
          net.latch_table)
    BY Set_node
  <1> HIDE DEF one
  <1>3. Shape(one) /\ one.node = u /\ one.fanout = net.fanout /\ one.nodes = net.nodes
        /\ one.pi = net.pi /\ one.po = net.po /\ one.name_table = net.name_table
        /\ one.latch = net.latch /\ one.latch_table = net.latch_table
    BY <1>2, NetFields
  <1>4. two = Net(u, net.fanout, net.nodes, v, net.po, net.name_table, net.latch, net.latch_table)
    BY <1>3, Set_pi
  <1> HIDE DEF two
  <1>5. Shape(two) /\ two.node = u /\ two.fanout = net.fanout /\ two.nodes = net.nodes /\ two.pi = v
        /\ two.po = net.po /\ two.name_table = net.name_table /\ two.latch = net.latch
        /\ two.latch_table = net.latch_table
    BY <1>4, NetFields
  <1>6. three = Net(u, net.fanout, net.nodes, v, w, net.name_table, net.latch, net.latch_table)
    BY <1>5, Set_po
  <1> QED BY <1>1, <1>6

\* The list of the nodes and the name table.
LEMMA Set_nodes_table ==
    ASSUME NEW net, Shape(net), NEW u, NEW v
    PROVE  [net EXCEPT !.nodes = u, !.name_table = v]
           = Net(net.node, net.fanout, u, net.pi, net.po, v, net.latch, net.latch_table)
  <1> DEFINE one == [net EXCEPT !.nodes = u]
             two == [one EXCEPT !.name_table = v]
  <1>1. [net EXCEPT !.nodes = u, !.name_table = v] = two
    OBVIOUS
  <1>2. one = Net(net.node, net.fanout, u, net.pi, net.po, net.name_table, net.latch,
          net.latch_table)
    BY Set_nodes
  <1> HIDE DEF one
  <1>3. Shape(one) /\ one.node = net.node /\ one.fanout = net.fanout /\ one.nodes = u
        /\ one.pi = net.pi /\ one.po = net.po /\ one.name_table = net.name_table
        /\ one.latch = net.latch /\ one.latch_table = net.latch_table
    BY <1>2, NetFields
  <1>4. two = Net(net.node, net.fanout, u, net.pi, net.po, v, net.latch, net.latch_table)
    BY <1>3, Set_name_table
  <1> QED BY <1>1, <1>4

\* The nodes and the fanout lists.
LEMMA Set_node_fanout ==
    ASSUME NEW net, Shape(net), NEW u, NEW v
    PROVE  [net EXCEPT !.node = u, !.fanout = v]
           = Net(u, v, net.nodes, net.pi, net.po, net.name_table, net.latch, net.latch_table)
  <1> DEFINE one == [net EXCEPT !.node = u]
             two == [one EXCEPT !.fanout = v]
  <1>1. [net EXCEPT !.node = u, !.fanout = v] = two
    OBVIOUS
  <1>2. one = Net(u, net.fanout, net.nodes, net.pi, net.po, net.name_table, net.latch,
          net.latch_table)
    BY Set_node
  <1> HIDE DEF one
  <1>3. Shape(one) /\ one.node = u /\ one.fanout = net.fanout /\ one.nodes = net.nodes
        /\ one.pi = net.pi /\ one.po = net.po /\ one.name_table = net.name_table
        /\ one.latch = net.latch /\ one.latch_table = net.latch_table
    BY <1>2, NetFields
  <1>4. two = Net(u, v, net.nodes, net.pi, net.po, net.name_table, net.latch, net.latch_table)
    BY <1>3, Set_fanout
  <1> QED BY <1>1, <1>4

\* The nodes and the name table.
LEMMA Set_node_table ==
    ASSUME NEW net, Shape(net), NEW u, NEW v
    PROVE  [net EXCEPT !.node = u, !.name_table = v]
           = Net(u, net.fanout, net.nodes, net.pi, net.po, v, net.latch, net.latch_table)
  <1> DEFINE one == [net EXCEPT !.node = u]
             two == [one EXCEPT !.name_table = v]
  <1>1. [net EXCEPT !.node = u, !.name_table = v] = two
    OBVIOUS
  <1>2. one = Net(u, net.fanout, net.nodes, net.pi, net.po, net.name_table, net.latch,
          net.latch_table)
    BY Set_node
  <1> HIDE DEF one
  <1>3. Shape(one) /\ one.node = u /\ one.fanout = net.fanout /\ one.nodes = net.nodes
        /\ one.pi = net.pi /\ one.po = net.po /\ one.name_table = net.name_table
        /\ one.latch = net.latch /\ one.latch_table = net.latch_table
    BY <1>2, NetFields
  <1>4. two = Net(u, net.fanout, net.nodes, net.pi, net.po, v, net.latch, net.latch_table)
    BY <1>3, Set_name_table
  <1> QED BY <1>1, <1>4

\* The latch list and the latch table.
LEMMA Set_latches ==
    ASSUME NEW net, Shape(net), NEW u, NEW v
    PROVE  [net EXCEPT !.latch = u, !.latch_table = v]
           = Net(net.node, net.fanout, net.nodes, net.pi, net.po, net.name_table, u, v)
  <1> DEFINE one == [net EXCEPT !.latch = u]
             two == [one EXCEPT !.latch_table = v]
  <1>1. [net EXCEPT !.latch = u, !.latch_table = v] = two
    OBVIOUS
  <1>2. one = Net(net.node, net.fanout, net.nodes, net.pi, net.po, net.name_table, u,
          net.latch_table)
    BY Set_latch
  <1> HIDE DEF one
  <1>3. Shape(one) /\ one.node = net.node /\ one.fanout = net.fanout /\ one.nodes = net.nodes
        /\ one.pi = net.pi /\ one.po = net.po /\ one.name_table = net.name_table /\ one.latch = u
        /\ one.latch_table = net.latch_table
    BY <1>2, NetFields
  <1>4. two = Net(net.node, net.fanout, net.nodes, net.pi, net.po, net.name_table, u, v)
    BY <1>3, Set_latch_table
  <1> QED BY <1>1, <1>4

\* What network_add_node does to each part of a network.
LEMMA AddNodeIs ==
    ASSUME NEW net, Shape(net), NEW n, NEW nd,
           NEW name, name = NameFor(net, nd),
           NEW node2, node2 = Put(net.node, n, [nd EXCEPT !.name = name]),
           NEW pi2, pi2 = IF nd.type = "PRIMARY_INPUT" THEN Append(net.pi, n) ELSE net.pi,
           NEW po2, po2 = IF nd.type = "PRIMARY_OUTPUT" THEN Append(net.po, n) ELSE net.po
    PROVE  network_add_node(net, n, nd)
           = Net(node2, UsesAdded(node2, Put(net.fanout, n, <<>>), n), Append(net.nodes, n), pi2,
             po2,
                 Put(net.name_table, name, n), net.latch, net.latch_table)
  <1> DEFINE nodes2 == Append(net.nodes, n)  fanout2 == Put(net.fanout, n, <<>>)
             table2 == Put(net.name_table, name, n)
             p == IF nd.type = "PRIMARY_INPUT" THEN Append(net.pi, n) ELSE net.pi
             o == IF nd.type = "PRIMARY_OUTPUT" THEN Append(net.po, n) ELSE net.po
             m == Put(net.node, n, [nd EXCEPT !.name = name])
             listed == [net EXCEPT !.nodes = nodes2, !.pi = p, !.po = o]
             added == [listed EXCEPT !.node = m, !.fanout = fanout2, !.name_table = table2]
  <1>1. listed = Net(net.node, net.fanout, nodes2, p, o, net.name_table, net.latch, net.latch_table)
    <2> HIDE DEF nodes2, p, o
    <2> QED BY Set_nodes_pi_po
  <1>2. /\ Shape(listed) /\ listed.node = net.node /\ listed.fanout = net.fanout
        /\ listed.nodes = nodes2
        /\ listed.pi = p /\ listed.po = o /\ listed.name_table = net.name_table
        /\ listed.latch = net.latch /\ listed.latch_table = net.latch_table
    <2> HIDE DEF listed, nodes2, p, o
    <2> QED BY <1>1, NetFields
  <1>3. network_add_node(net, n, nd) = fanin_add_fanout(added, n)
    <2>1. listed.node = net.node /\ listed.fanout = net.fanout /\ listed.name_table = net.name_table
      BY <1>2
    <2> DEFINE l == [net EXCEPT
                        !.nodes = Append(@, n),
                        !.pi = IF nd.type = "PRIMARY_INPUT" THEN Append(@, n) ELSE @,
                        !.po = IF nd.type = "PRIMARY_OUTPUT" THEN Append(@, n) ELSE @]
    <2>2. l = listed
      OBVIOUS
    <2>3. network_add_node(net, n, nd)
          = fanin_add_fanout([l EXCEPT !.node = Put(@, n, [nd EXCEPT !.name = name]),
                                       !.fanout = Put(@, n, <<>>),
                                       !.name_table = Put(@, name, n)], n)
      BY DEF network_add_node, NameFor
    <2> HIDE DEF l, listed
    <2>4. [l EXCEPT !.node = Put(@, n, [nd EXCEPT !.name = name]),
                    !.fanout = Put(@, n, <<>>),
                    !.name_table = Put(@, name, n)] = added
      BY <2>1, <2>2
    <2> QED BY <2>3, <2>4
  <1> HIDE DEF listed, nodes2, p, o, m, fanout2, table2
  <1>4. added = Net(m, fanout2, nodes2, p, o, table2, net.latch, net.latch_table)
    <2>0. added = [listed EXCEPT !.node = m, !.fanout = fanout2, !.name_table = table2]
      OBVIOUS
    <2> HIDE DEF added
    <2>1. [listed EXCEPT !.node = m, !.fanout = fanout2, !.name_table = table2]
          = Net(m, fanout2, listed.nodes, listed.pi, listed.po, table2, listed.latch,
            listed.latch_table)
      <3>1. Shape(listed)
        BY <1>2
      <3> QED BY <3>1, Set_node_fanout_table, Zenon
    <2>2. added = Net(m, fanout2, listed.nodes, listed.pi, listed.po, table2, listed.latch,
            listed.latch_table)
      BY <2>0, <2>1, Zenon
    <2> QED BY <1>2, <2>2
  <1> HIDE DEF added
  <1>5. /\ Shape(added) /\ added.node = m /\ added.fanout = fanout2 /\ added.nodes = nodes2
        /\ added.pi = p /\ added.po = o /\ added.name_table = table2
        /\ added.latch = net.latch /\ added.latch_table = net.latch_table
    BY <1>4, NetFields
  <1>6. fanin_add_fanout(added, n)
          = Net(m, UsesAdded(m, fanout2, n), nodes2, p, o, table2, net.latch, net.latch_table)
    <2>1. fanin_add_fanout(added, n)
          = Net(added.node, UsesAdded(added.node, added.fanout, n), added.nodes, added.pi, added.po,
            added.name_table,
                added.latch, added.latch_table)
      BY <1>5, AddFanoutIs
    <2> QED BY <1>5, <2>1
  <1>7. m = node2 /\ p = pi2 /\ o = po2
    BY DEF m, p, o
  <1>8. fanin_add_fanout(added, n)
        = Net(node2, UsesAdded(node2, fanout2, n), nodes2, pi2, po2, table2, net.latch,
          net.latch_table)
    BY <1>6, <1>7
  <1> QED BY <1>3, <1>8 DEF fanout2, nodes2, table2

\* What network_change_node_type does to each part of a network.
LEMMA ChangeTypeIs ==
    ASSUME NEW net, Shape(net), NEW n
    PROVE  network_change_node_type(net, n, "INTERNAL")
           = Net(Put(net.node, n, [net.node[n] EXCEPT !.type = "INTERNAL"]), net.fanout, net.nodes,
                 Minus(net.pi, {n}), Minus(net.po, {n}), net.name_table, net.latch, net.latch_table)
  <1> DEFINE a == Put(net.node, n, [net.node[n] EXCEPT !.type = "INTERNAL"])
             d == Minus(net.pi, {n})  e == Minus(net.po, {n})
  <1>1. network_change_node_type(net, n, "INTERNAL") = [net EXCEPT !.node = a, !.pi = d, !.po = e]
    BY DEF network_change_node_type
  <1> HIDE DEF a, d, e
  <1>2. network_change_node_type(net, n, "INTERNAL")
        = Net(a, net.fanout, net.nodes, d, e, net.name_table, net.latch, net.latch_table)
    BY <1>1, Set_node_pi_po
  <1> QED BY <1>2 DEF a, d, e

\* What network_delete_node does to each part of a network.
LEMMA DeleteNodeIs ==
    ASSUME NEW net, Shape(net),
           NEW n \in DOMAIN net.node, net.node = [m \in DOMAIN net.node |-> net.node[m]],
           IsNode(net.node[n])
    PROVE  network_delete_node(net, n)
           = Net(Without(net.node, n), Without(UsesRemoved(net.node, net.fanout, n), n),
             Minus(net.nodes, {n}),
                 Minus(net.pi, {n}), Minus(net.po, {n}), Without(net.name_table, net.node[n].name),
                 net.latch, net.latch_table)
  <1> DEFINE typed == network_change_node_type(net, n, "INTERNAL")
             nd == [net.node[n] EXCEPT !.type = "INTERNAL"]
             node1 == Put(net.node, n, nd)
             pi1 == Minus(net.pi, {n})  po1 == Minus(net.po, {n})
             forgotten == fanin_remove_fanout(typed, n)
             used == UsesRemoved(node1, net.fanout, n)
             nodes1 == Minus(net.nodes, {n})  table1 == Without(net.name_table, net.node[n].name)
             unlisted == [forgotten EXCEPT !.nodes = Minus(@, {n}), !.name_table
                   = Without(@, net.node[n].name)]
  <1>1. typed = Net(node1, net.fanout, net.nodes, pi1, po1, net.name_table, net.latch,
          net.latch_table)
    BY ChangeTypeIs
  <1>0. node1[n].fanin = net.node[n].fanin /\ Without(node1, n) = Without(net.node, n)
    <2>1. nd.fanin = net.node[n].fanin
      BY DEF IsNode
    <2> HIDE DEF nd
    <2>2. node1[n] = nd
      BY DEF Put
    <2>3. Without(node1, n) = Without(net.node, n)
      BY DEF Put, Without
    <2> HIDE DEF node1
    <2> QED BY <2>1, <2>2, <2>3
  <1>00. network_delete_node(net, n)
           = [unlisted EXCEPT !.node = Without(@, n), !.fanout = Without(@, n)]
    BY DEF network_delete_node
  <1> HIDE DEF typed, node1, pi1, po1, nd
  <1>2. /\ Shape(typed) /\ typed.node = node1 /\ typed.fanout = net.fanout
        /\ typed.nodes = net.nodes
        /\ typed.pi = pi1 /\ typed.po = po1 /\ typed.name_table = net.name_table
        /\ typed.latch = net.latch /\ typed.latch_table = net.latch_table
    BY <1>1, NetFields
  <1>3. forgotten = Net(node1, used, net.nodes, pi1, po1, net.name_table, net.latch,
          net.latch_table)
    <2>1. forgotten = Net(typed.node, UsesRemoved(typed.node, typed.fanout, n), typed.nodes,
            typed.pi, typed.po,
                          typed.name_table, typed.latch, typed.latch_table)
      BY <1>2, RemoveFanoutIs
    <2> HIDE DEF forgotten
    <2> QED BY <1>2, <2>1
  <1> HIDE DEF forgotten, used
  <1>4. /\ Shape(forgotten) /\ forgotten.node = node1 /\ forgotten.fanout = used
        /\ forgotten.nodes = net.nodes
        /\ forgotten.pi = pi1 /\ forgotten.po = po1 /\ forgotten.name_table = net.name_table
        /\ forgotten.latch = net.latch /\ forgotten.latch_table = net.latch_table
    BY <1>3, NetFields
  <1>5. unlisted = Net(node1, used, nodes1, pi1, po1, table1, net.latch, net.latch_table)
    <2>1. unlisted = [forgotten EXCEPT !.nodes = nodes1, !.name_table = table1]
      BY <1>4
    <2> HIDE DEF nodes1, table1, unlisted
    <2>2. [forgotten EXCEPT !.nodes = nodes1, !.name_table = table1]
          = Net(forgotten.node, forgotten.fanout, nodes1, forgotten.pi, forgotten.po, table1,
            forgotten.latch,
                forgotten.latch_table)
      BY <1>4, Set_nodes_table
    <2>3. unlisted = Net(forgotten.node, forgotten.fanout, nodes1, forgotten.pi, forgotten.po,
            table1, forgotten.latch,
                forgotten.latch_table)
      BY <2>1, <2>2, Zenon
    <2> QED BY <1>4, <2>3
  <1> HIDE DEF unlisted, nodes1, table1
  <1>6. /\ Shape(unlisted) /\ unlisted.node = node1 /\ unlisted.fanout = used
        /\ unlisted.nodes = nodes1
        /\ unlisted.pi = pi1 /\ unlisted.po = po1 /\ unlisted.name_table = table1
        /\ unlisted.latch = net.latch /\ unlisted.latch_table = net.latch_table
    BY <1>5, NetFields
  <1>7. network_delete_node(net, n)
        = Net(Without(node1, n), Without(used, n), nodes1, pi1, po1, table1, net.latch,
          net.latch_table)
    <2> DEFINE A == Without(node1, n)  B == Without(used, n)  r == network_delete_node(net, n)
    <2>1. r = [unlisted EXCEPT !.node = A, !.fanout = B]
      BY <1>00, <1>6
    <2> HIDE DEF A, B, r
    <2>2. [unlisted EXCEPT !.node = A, !.fanout = B]
          = Net(A, B, unlisted.nodes, unlisted.pi, unlisted.po, unlisted.name_table, unlisted.latch,
            unlisted.latch_table)
      BY <1>6, Set_node_fanout
    <2>3. r = Net(A, B, unlisted.nodes, unlisted.pi, unlisted.po, unlisted.name_table,
            unlisted.latch, unlisted.latch_table)
      BY <2>1, <2>2, Zenon
    <2>4. r = Net(A, B, nodes1, pi1, po1, table1, net.latch, net.latch_table)
      BY <1>6, <2>3
    <2> QED BY <2>4 DEF A, B, r
  <1>8. used = UsesRemoved(net.node, net.fanout, n)
    BY <1>0 DEF used, UsesRemoved
  <1> QED BY <1>0, <1>7, <1>8 DEF pi1, po1, nodes1, table1

\* A node that feeds nothing and is no end of a latch can go.
LEMMA PartsDelete ==
    ASSUME NEW node, NEW nodes, NEW pi, NEW po, NEW name_table, NEW latch, NEW latch_table,
           Parts(node, nodes, pi, po, name_table, latch, latch_table),
           NEW n \in DOMAIN node, n \notin DOMAIN latch_table,
           \A m \in DOMAIN node : m /= n
             => n \notin Range(node[m].fanin), n \notin Range(node[n].fanin),
           NEW node2, node2 = Without(node, n),
           NEW table2, table2 = Without(name_table, node[n].name)
    PROVE  Parts(node2, Minus(nodes, {n}), Minus(pi, {n}), Minus(po, {n}), table2, latch,
             latch_table)
  <1>0. /\ DOMAIN node2 = DOMAIN node \ {n}
        /\ \A m \in DOMAIN node : m /= n => node2[m] = node[m]
        /\ node2 = [m \in DOMAIN node2 |-> node2[m]]
    BY DEF Without
  <1>1. NodesAreListed(node2, Minus(nodes, {n}))
    <2>1. \A m \in DOMAIN node2 : IsNode(node2[m]) /\ Range(node2[m].fanin) \subseteq DOMAIN node2
      <3>1. \A m \in DOMAIN node : IsNode(node[m]) /\ Range(node[m].fanin) \subseteq DOMAIN node
        BY DEF Parts, NodesAreListed
      <3> QED BY <1>0, <3>1
    <2>2. nodes \in Seq(Nat) /\ IsInjective(nodes) /\ Range(nodes) = DOMAIN node
      BY DEF Parts, NodesAreListed
    <2>3. Minus(nodes, {n}) \in Seq(Nat) /\ IsInjective(Minus(nodes, {n}))
          /\ Range(Minus(nodes, {n})) = DOMAIN node \ {n}
      BY <2>2, MinusFacts
    <2> QED BY <1>0, <2>1, <2>3 DEF NodesAreListed
  <1>2. TerminalsAreListed(node2, Minus(pi, {n}), Minus(po, {n}))
    <2>0. TerminalsAreListed(node, pi, po)
      BY DEF Parts
    <2>1. /\ pi \in Seq(Nat) /\ IsInjective(pi)
          /\ Range(pi) = {m \in DOMAIN node : node[m].type = "PRIMARY_INPUT"}
          /\ po \in Seq(Nat) /\ IsInjective(po)
          /\ Range(po) = {m \in DOMAIN node : node[m].type = "PRIMARY_OUTPUT"}
      BY <2>0 DEF TerminalsAreListed
    <2>2. /\ Minus(pi, {n}) \in Seq(Nat) /\ IsInjective(Minus(pi, {n}))
          /\ Range(Minus(pi, {n})) = Range(pi) \ {n}
          /\ Minus(po, {n}) \in Seq(Nat) /\ IsInjective(Minus(po, {n}))
          /\ Range(Minus(po, {n})) = Range(po) \ {n}
      BY <2>1, MinusFacts
    <2>3. Range(pi) \ {n} = {m \in DOMAIN node2 : node2[m].type = "PRIMARY_INPUT"}
      BY <1>0, <2>1
    <2>4. Range(po) \ {n} = {m \in DOMAIN node2 : node2[m].type = "PRIMARY_OUTPUT"}
      BY <1>0, <2>1
    <2>5. ASSUME NEW m \in DOMAIN node2
          PROVE  /\ node2[m].type = "PRIMARY_INPUT" => node2[m].fanin = <<>>
                 /\ node2[m].type = "PRIMARY_OUTPUT" => Len(node2[m].fanin) = 1
                 /\ \A i \in DOMAIN node2[m].fanin :
                      node2[node2[m].fanin[i]].type /= "PRIMARY_OUTPUT"
      <3>1. m \in DOMAIN node /\ m /= n /\ node2[m] = node[m]
        BY <1>0
      <3>2. \A i \in DOMAIN node[m].fanin : node[m].fanin[i] \in Range(node[m].fanin)
        BY DEF Range
      <3>3. \A i \in DOMAIN node[m].fanin : node[m].fanin[i] \in DOMAIN node
            /\ node[m].fanin[i] /= n
        BY <3>1, <3>2 DEF Parts, NodesAreListed
      <3>4. /\ node[m].type = "PRIMARY_INPUT" => node[m].fanin = <<>>
            /\ node[m].type = "PRIMARY_OUTPUT" => Len(node[m].fanin) = 1
            /\ \A i \in DOMAIN node[m].fanin : node[node[m].fanin[i]].type /= "PRIMARY_OUTPUT"
        BY <2>0, <3>1 DEF TerminalsAreListed
      <3> QED BY <1>0, <3>1, <3>3, <3>4
    <2> HIDE <2>0
    <2> QED BY <2>2, <2>3, <2>4, <2>5 DEF TerminalsAreListed
  <1>3. NamesFindNodes(node2, table2)
    <2>0. /\ DOMAIN name_table = {node[m].name : m \in DOMAIN node}
          /\ \A m \in DOMAIN node : name_table[node[m].name] = m
      BY DEF Parts, NamesFindNodes
    <2>1. /\ DOMAIN table2 = DOMAIN name_table \ {node[n].name}
          /\ \A x \in DOMAIN name_table : x /= node[n].name => table2[x] = name_table[x]
          /\ table2 = [x \in DOMAIN table2 |-> table2[x]]
      BY DEF Without
    <2>2. \A m \in DOMAIN node : m /= n => node[m].name /= node[n].name
      BY <2>0
    <2>3. DOMAIN table2 = {node2[m].name : m \in DOMAIN node2}
      <3>1. \A m \in DOMAIN node2 : node2[m].name \in DOMAIN table2
        BY <1>0, <2>0, <2>1, <2>2
      <3>2. ASSUME NEW x \in DOMAIN table2  PROVE \E m \in DOMAIN node2 : x = node2[m].name
        <4>1. PICK m \in DOMAIN node : x = node[m].name
          BY <2>0, <2>1
        <4>2. m /= n
          BY <2>1, <4>1
        <4> QED BY <1>0, <4>1, <4>2
      <3> QED BY <3>1, <3>2, ZenonT(60)
    <2>4. \A m \in DOMAIN node2 : table2[node2[m].name] = m
      BY <1>0, <2>0, <2>1, <2>2
    <2> QED BY <2>1, <2>3, <2>4 DEF NamesFindNodes
  <1>4. CoversAreSound(node2)
    BY <1>0 DEF Parts, CoversAreSound
  <1>5. LatchesAreListed(node2, latch, latch_table)
    <2>1. LatchesAreListed(node, latch, latch_table)
      BY DEF Parts
    <2>2. \A m \in DOMAIN latch_table : m \in DOMAIN node => m \in DOMAIN node2
          /\ node2[m].type = node[m].type
      BY <1>0
    <2> QED BY <2>1, <2>2, LatchesKept
  <1> QED BY <1>1, <1>2, <1>3, <1>4, <1>5 DEF Parts

\* The same with the fanout lists and cycles.
LEMMA FitDelete ==
    ASSUME NEW node, NEW fanout, NEW nodes, NEW pi, NEW po, NEW name_table, NEW latch,
           NEW latch_table,
           Fit(node, fanout, nodes, pi, po, name_table, latch, latch_table),
           NEW n \in DOMAIN node, n \notin DOMAIN latch_table, fanout[n] = <<>>,
           NEW node2, node2 = Without(node, n),
           NEW table2, table2 = Without(name_table, node[n].name),
           NEW fanout2, fanout2 = Without(UsesRemoved(node, fanout, n), n)
    PROVE  /\ Fit(node2, fanout2, Minus(nodes, {n}), Minus(pi, {n}), Minus(po, {n}), table2, latch,
                latch_table)
           /\ \A x \in DOMAIN node2 : fanout[x] = <<>> => fanout2[x] = <<>>
  <1>0. /\ DOMAIN node2 = DOMAIN node \ {n}
        /\ \A m \in DOMAIN node : m /= n => node2[m] = node[m]
    BY DEF Without
  <1>1. DOMAIN fanout = DOMAIN node /\ Lists(node, DOMAIN node, fanout)
    BY DEF Fit, FanoutsMirrorFanins
  <1>2. Range(fanout[n]) = {}
    BY EmptyFacts
  <1>3. \A m \in DOMAIN node : n \notin Range(node[m].fanin)
    <2>1. \A m \in DOMAIN node : \A i \in DOMAIN node[m].fanin : node[m].fanin[i] /= n
      BY <1>1, <1>2 DEF Lists
    <2> QED BY <2>1 DEF Range
  <1>4. Parts(node2, Minus(nodes, {n}), Minus(pi, {n}), Minus(po, {n}), table2, latch, latch_table)
    BY <1>3, PartsDelete DEF Fit
  <1> DEFINE used == UsesRemoved(node, fanout, n)
  <1>5. /\ Lists(node, DOMAIN node \ {n}, used) /\ DOMAIN used = DOMAIN fanout
        /\ \A x \in DOMAIN fanout : Range(used[x]) \subseteq Range(fanout[x])
    BY <1>1, ListsRemove, ZenonT(60)
  <1> HIDE DEF used
  <1>6. /\ DOMAIN fanout2 = DOMAIN used \ {n}
           /\ \A x \in DOMAIN used : x /= n => fanout2[x] = used[x]
        /\ fanout2 = [x \in DOMAIN fanout2 |-> fanout2[x]]
    BY DEF Without, used
  <1>7. FanoutsMirrorFanins(node2, fanout2)
    <2>1. Lists(node2, DOMAIN node2, fanout2)
      BY <1>0, <1>5, <1>6 DEF Lists
    <2> QED BY <1>0, <1>1, <1>5, <1>6, <2>1 DEF FanoutsMirrorFanins
  <1>8. Acyclic(node2)
    <2>1. Acyclic(node)
      BY DEF Fit
    <2>2. DOMAIN node2 \subseteq DOMAIN node
          /\ \A m \in DOMAIN node2 : Range(node2[m].fanin) \subseteq Range(node[m].fanin)
      BY <1>0
    <2> QED BY <2>1, <2>2, AcyclicByDeleting
  <1>9. ASSUME NEW x \in DOMAIN node2, fanout[x] = <<>>  PROVE fanout2[x] = <<>>
    <2>1. x \in DOMAIN fanout /\ x \in DOMAIN used /\ x /= n
      BY <1>0, <1>1, <1>5
    <2>2. Range(used[x]) = {}
      <3>1. Range(fanout[x]) = {}
        BY <1>9, EmptyFacts
      <3> QED BY <1>5, <2>1, <3>1
    <2>3. used[x] \in Seq(Nat \X Nat)
      BY <1>5, <2>1 DEF Lists
    <2>4. used[x] = <<>>
      BY <2>2, <2>3, EmptyRange
    <2> QED BY <1>6, <2>1, <2>4
  <1> QED BY <1>4, <1>7, <1>8, <1>9 DEF Fit

\* Parts that fit make a network.
LEMMA NetIsNetwork ==
    ASSUME NEW net, NEW a, NEW b, NEW c, NEW d, NEW e, NEW f, NEW g, NEW h,
           net = Net(a, b, c, d, e, f, g, h), Fit(a, b, c, d, e, f, g, h)
    PROVE  IsNetwork(net)
  <1>1. /\ net.node = a /\ net.fanout = b /\ net.nodes = c /\ net.pi = d
        /\ net.po = e /\ net.name_table = f /\ net.latch = g /\ net.latch_table = h
        /\ Shape(net)
    BY NetFields
  <1>2. Fit(net.node, net.fanout, net.nodes, net.pi, net.po, net.name_table, net.latch,
          net.latch_table)
    BY <1>1
  <1> QED BY <1>1, <1>2, NetworkIs

\* The parts of a network, to be cited one by one.
LEMMA NetworkHas ==
    ASSUME NEW net, IsNetwork(net)
    PROVE  /\ Shape(net)
           /\ Fit(net.node, net.fanout, net.nodes, net.pi, net.po, net.name_table, net.latch,
                net.latch_table)
           /\ Parts(net.node, net.nodes, net.pi, net.po, net.name_table, net.latch, net.latch_table)
           /\ NodesAreListed(net.node, net.nodes) /\ TerminalsAreListed(net.node, net.pi, net.po)
           /\ NamesFindNodes(net.node, net.name_table) /\ CoversAreSound(net.node)
           /\ LatchesAreListed(net.node, net.latch, net.latch_table)
           /\ FanoutsMirrorFanins(net.node, net.fanout) /\ Acyclic(net.node)
  BY NetworkIs DEF Fit, Parts

\* A name is nothing to the rest of a node.
LEMMA NodeRename ==
    ASSUME NEW nd, IsNode(nd), NEW name, NEW new, new = [nd EXCEPT !.name = name]
    PROVE  /\ new.type = nd.type /\ new.fanin = nd.fanin /\ new.F = nd.F
           /\ new.dup_free = nd.dup_free
           /\ new.name = name /\ IsNode(new)
  <1>1. nd = [type |-> nd.type, fanin |-> nd.fanin, F |-> nd.F, dup_free |-> nd.dup_free,
          name |-> nd.name]
    BY DEF IsNode
  <1>2. new = [type |-> nd.type, fanin |-> nd.fanin, F |-> nd.F, dup_free |-> nd.dup_free,
          name |-> name]
    BY <1>1
  <1>3. new.type = nd.type /\ new.fanin = nd.fanin /\ new.F = nd.F /\ new.dup_free = nd.dup_free
        /\ new.name = name
    BY <1>2
  <1>4. IsNode(new)
    BY <1>2, <1>3 DEF IsNode, IsFunction
  <1> QED BY <1>3, <1>4

\* A proper node is one under any name.
LEMMA ProperRename ==
    ASSUME NEW node, NEW nd, IsProper(node, nd), NEW name, NEW new, new = [nd EXCEPT !.name = name]
    PROVE  IsProper(node, new)
  <1>1. /\ new.type = nd.type /\ new.fanin = nd.fanin /\ new.F = nd.F /\ new.dup_free = nd.dup_free
        /\ new.name = name /\ IsNode(new)
    BY NodeRename DEF IsProper
  <1> QED BY <1>1 DEF IsProper, IsMinimumBase, IsSccMinimal, HasDup

\* A node has come to the network and is a terminal if it says so.
IsAdded(res, net, n, type, fanin) ==
    /\ res.latch = net.latch /\ res.latch_table = net.latch_table
    /\ res.nodes = Append(net.nodes, n)
    /\ res.pi = IF type = "PRIMARY_INPUT" THEN Append(net.pi, n) ELSE net.pi
    /\ res.po = IF type = "PRIMARY_OUTPUT" THEN Append(net.po, n) ELSE net.po
    /\ DOMAIN res.node = DOMAIN net.node \union {n}
    /\ res.node[n].type = type /\ res.node[n].fanin = fanin
    /\ \A m \in DOMAIN net.node :
        res.node[m].type = net.node[m].type /\ res.node[m].fanin = net.node[m].fanin

\* network_add_node keeps a network sound when the node is proper and has no
\* name yet.
LEMMA AddNodeSound ==
    ASSUME NEW net, IsNetwork(net), NEW n \in Nat, n \notin DOMAIN net.node,
           NEW nd, IsProper(net.node, nd), nd.name = NIL,
           NEW res, res = network_add_node(net, n, nd)
    PROVE  IsNetwork(res) /\ IsAdded(res, net, n, nd.type, nd.fanin)
  <1> DEFINE name == NameFor(net, nd)  nd2 == [nd EXCEPT !.name = name]
             node2 == Put(net.node, n, nd2)
             pi2 == IF nd.type = "PRIMARY_INPUT" THEN Append(net.pi, n) ELSE net.pi
             po2 == IF nd.type = "PRIMARY_OUTPUT" THEN Append(net.po, n) ELSE net.po
             fanout2 == UsesAdded(node2, Put(net.fanout, n, <<>>), n)
             nodes2 == Append(net.nodes, n)  table2 == Put(net.name_table, name, n)
  <1>1. name \notin DOMAIN net.name_table
    <2>1. name = MadeUpName(net)
      BY DEF NameFor
    <2>2. NodesAreListed(net.node, net.nodes) /\ NamesFindNodes(net.node, net.name_table)
      BY NetworkHas
    <2> HIDE DEF name
    <2> QED BY <2>1, <2>2, MadeUpNameFacts
  <1>2. nd2.name = name /\ nd2.type = nd.type /\ IsProper(net.node, nd2)
    <2> HIDE DEF name
    <2>1. IsNode(nd)
      BY DEF IsProper
    <2>2. nd2.name = name /\ nd2.type = nd.type
      BY <2>1, NodeRename
    <2> QED BY <2>2, ProperRename
  <1>3. Shape(net) /\ Fit(net.node, net.fanout, net.nodes, net.pi, net.po, net.name_table,
          net.latch, net.latch_table)
    BY NetworkHas
  <1>4. res = Net(node2, fanout2, nodes2, pi2, po2, table2, net.latch, net.latch_table)
    BY <1>3, AddNodeIs
  <1>5. Fit(node2, fanout2, nodes2, pi2, po2, table2, net.latch, net.latch_table)
    <2>1. table2 = Put(net.name_table, nd2.name, n) /\ nd2.name \notin DOMAIN net.name_table
          /\ pi2 = (IF nd2.type = "PRIMARY_INPUT" THEN Append(net.pi, n) ELSE net.pi)
          /\ po2 = (IF nd2.type = "PRIMARY_OUTPUT" THEN Append(net.po, n) ELSE net.po)
          /\ node2 = Put(net.node, n, nd2)
      BY <1>1, <1>2
    <2> HIDE DEF name, nd2, node2, pi2, po2, table2
    <2> QED BY <1>2, <1>3, <2>1, FitAdd
  <1> HIDE DEF fanout2, nodes2, pi2, po2, table2
  <1>6. DOMAIN node2 = DOMAIN net.node \union {n} /\ node2[n] = nd2
        /\ \A m \in DOMAIN net.node : node2[m] = net.node[m]
    BY DEF Put
  <1> HIDE DEF node2
  <1>7. /\ res.node = node2 /\ res.nodes = nodes2 /\ res.pi = pi2 /\ res.po = po2
        /\ res.latch = net.latch /\ res.latch_table = net.latch_table
    BY <1>4, NetFields
  <1>8. IsNetwork(res)
    BY <1>4, <1>5, NetIsNetwork
  <1>9. nd2.type = nd.type /\ nd2.fanin = nd.fanin
    <2>1. nd2 = [nd EXCEPT !.name = name]
      OBVIOUS
    <2> HIDE DEF nd2, name
    <2> QED BY <2>1, NodeRename DEF IsProper
  <1>10. res.node[n].type = nd.type /\ res.node[n].fanin = nd.fanin
    BY <1>6, <1>7, <1>9
  <1>11. \A m \in DOMAIN net.node : res.node[m].type = net.node[m].type
         /\ res.node[m].fanin = net.node[m].fanin
    BY <1>6, <1>7
  <1>12. DOMAIN res.node = DOMAIN net.node \union {n}
    BY <1>6, <1>7
  <1> HIDE DEF nd2
  <1> QED BY <1>7, <1>8, <1>10, <1>11, <1>12 DEF nodes2, pi2, po2, IsAdded

\* network_delete_node keeps a network sound when the node feeds nothing and
\* is no end of a latch.
LEMMA DeleteNodeSound ==
    ASSUME NEW net, IsNetwork(net), NEW n \in DOMAIN net.node, n \notin DOMAIN net.latch_table,
           net.fanout[n] = <<>>, NEW res, res = network_delete_node(net, n)
    PROVE  /\ IsNetwork(res)
           /\ res.node = Without(net.node, n)
           /\ res.latch = net.latch /\ res.latch_table = net.latch_table
           /\ \A x \in DOMAIN res.node : net.fanout[x] = <<>> => res.fanout[x] = <<>>
  <1> DEFINE node2 == Without(net.node, n)
             fanout2 == Without(UsesRemoved(net.node, net.fanout, n), n)
             nodes2 == Minus(net.nodes, {n})  pi2 == Minus(net.pi, {n})  po2 == Minus(net.po, {n})
             table2 == Without(net.name_table, net.node[n].name)
  <1>1. /\ Shape(net) /\ net.node = [m \in DOMAIN net.node |-> net.node[m]] /\ IsNode(net.node[n])
        /\ Fit(net.node, net.fanout, net.nodes, net.pi, net.po, net.name_table, net.latch,
             net.latch_table)
    BY NetworkHas DEF NodesAreListed
  <1>2. res = Net(node2, fanout2, nodes2, pi2, po2, table2, net.latch, net.latch_table)
    BY <1>1, DeleteNodeIs
  <1>3. /\ Fit(node2, fanout2, nodes2, pi2, po2, table2, net.latch, net.latch_table)
        /\ \A x \in DOMAIN node2 : net.fanout[x] = <<>> => fanout2[x] = <<>>
    <2>1. /\ table2 = Without(net.name_table, net.node[n].name) /\ node2 = Without(net.node, n)
          /\ fanout2 = Without(UsesRemoved(net.node, net.fanout, n), n)
          /\ nodes2 = Minus(net.nodes, {n}) /\ pi2 = Minus(net.pi, {n}) /\ po2 = Minus(net.po, {n})
      OBVIOUS
    <2> HIDE DEF node2, fanout2, nodes2, pi2, po2, table2
    <2>2. /\ Fit(node2, fanout2, Minus(net.nodes, {n}), Minus(net.pi, {n}), Minus(net.po, {n}),
               table2, net.latch, net.latch_table)
          /\ \A x \in DOMAIN node2 : net.fanout[x] = <<>> => fanout2[x] = <<>>
      BY <1>1, <2>1, FitDelete
    <2> QED BY <2>1, <2>2
  <1> HIDE DEF node2, fanout2, nodes2, pi2, po2, table2
  <1>4. res.node = node2 /\ res.fanout = fanout2 /\ res.latch = net.latch
        /\ res.latch_table = net.latch_table
    BY <1>2, NetFields
  <1>5. IsNetwork(res)
    BY <1>2, <1>3, NetIsNetwork
  <1> QED BY <1>3, <1>4, <1>5 DEF node2

-----------------------------------------------------------------------------
\* One pin of a node, and all uses of a node, get another fanin.

\* A node by its fields.
NodeOf(t, f, c, d, x) == [type |-> t, fanin |-> f, F |-> c, dup_free |-> d, name |-> x]

\* A node has these fields and no others.
NodeShape(nd) == nd = NodeOf(nd.type, nd.fanin, nd.F, nd.dup_free, nd.name)

\* The fields of a node that is put together.
LEMMA NodeFields ==
    ASSUME NEW nd, NEW t, NEW f, NEW c, NEW d, NEW x, nd = NodeOf(t, f, c, d, x)
    PROVE  nd.type = t /\ nd.fanin = f /\ nd.F = c /\ nd.dup_free = d /\ nd.name = x
           /\ NodeShape(nd)
  BY DEF NodeOf, NodeShape

\* What a node of a network has in its fields.
LEMMA IsNodeShape ==
    ASSUME NEW nd, IsNode(nd)
    PROVE  /\ NodeShape(nd) /\ nd.type \in Types /\ nd.fanin \in Seq(Nat) /\ nd.dup_free \in BOOLEAN
           /\ IsFunction(nd)
  <1>1. nd = [type |-> nd.type, fanin |-> nd.fanin, F |-> nd.F, dup_free |-> nd.dup_free,
          name |-> nd.name]
    BY DEF IsNode
  <1>2. NodeShape(nd)
    BY <1>1, Zenon DEF NodeShape, NodeOf
  <1> QED BY <1>2 DEF IsNode

\* A node with another field: the fanins.
LEMMA SetFanin ==
    ASSUME NEW nd, NodeShape(nd), NEW v
    PROVE  [nd EXCEPT !.fanin = v] = NodeOf(nd.type, v, nd.F, nd.dup_free, nd.name)
  BY DEF NodeShape, NodeOf

\* The cover.
LEMMA SetF ==
    ASSUME NEW nd, NodeShape(nd), NEW v
    PROVE  [nd EXCEPT !.F = v] = NodeOf(nd.type, nd.fanin, v, nd.dup_free, nd.name)
  BY DEF NodeShape, NodeOf

\* The flag is_dup_free.
LEMMA SetFlag ==
    ASSUME NEW nd, NodeShape(nd), NEW v
    PROVE  [nd EXCEPT !.dup_free = v] = NodeOf(nd.type, nd.fanin, nd.F, v, nd.name)
  BY DEF NodeShape, NodeOf

\* The fanins and the flag.
LEMMA SetFaninFlag ==
    ASSUME NEW nd, NodeShape(nd), NEW u, NEW v
    PROVE  [nd EXCEPT !.fanin = u, !.dup_free = v] = NodeOf(nd.type, u, nd.F, v, nd.name)
  <1> DEFINE one == [nd EXCEPT !.fanin = u]
             two == [one EXCEPT !.dup_free = v]
  <1>1. [nd EXCEPT !.fanin = u, !.dup_free = v] = two
    OBVIOUS
  <1>2. one = NodeOf(nd.type, u, nd.F, nd.dup_free, nd.name)
    BY SetFanin
  <1> HIDE DEF one
  <1>3. one.type = nd.type /\ one.fanin = u /\ one.F = nd.F /\ one.dup_free = nd.dup_free
        /\ one.name = nd.name /\ NodeShape(one)
    BY <1>2, NodeFields
  <1>4. two = NodeOf(one.type, one.fanin, one.F, v, one.name)
    BY <1>3, SetFlag
  <1>5. two = NodeOf(nd.type, u, nd.F, v, nd.name)
    BY <1>3, <1>4
  <1> QED BY <1>1, <1>5

\* The fanins, the cover and the flag.
LEMMA SetFunction ==
    ASSUME NEW nd, NodeShape(nd), NEW u, NEW c, NEW v
    PROVE  [nd EXCEPT !.fanin = u, !.F = c, !.dup_free = v] = NodeOf(nd.type, u, c, v, nd.name)
  <1> DEFINE one == [nd EXCEPT !.fanin = u]
             two == [one EXCEPT !.F = c]
             three == [two EXCEPT !.dup_free = v]
  <1>1. [nd EXCEPT !.fanin = u, !.F = c, !.dup_free = v] = three
    OBVIOUS
  <1>2. one = NodeOf(nd.type, u, nd.F, nd.dup_free, nd.name)
    BY SetFanin
  <1> HIDE DEF one
  <1>3. one.type = nd.type /\ one.fanin = u /\ one.F = nd.F /\ one.dup_free = nd.dup_free
        /\ one.name = nd.name /\ NodeShape(one)
    BY <1>2, NodeFields
  <1>4. two = NodeOf(one.type, one.fanin, c, one.dup_free, one.name)
    BY <1>3, SetF
  <1>5. two = NodeOf(nd.type, u, c, nd.dup_free, nd.name)
    BY <1>3, <1>4
  <1> HIDE DEF two
  <1>6. two.type = nd.type /\ two.fanin = u /\ two.F = c /\ two.dup_free = nd.dup_free
        /\ two.name = nd.name /\ NodeShape(two)
    BY <1>5, NodeFields
  <1>7. three = NodeOf(two.type, two.fanin, two.F, v, two.name)
    BY <1>6, SetFlag
  <1>8. three = NodeOf(nd.type, u, c, v, nd.name)
    BY <1>6, <1>7
  <1> QED BY <1>1, <1>8

\* A network that may have a cycle.
Built(net) ==
    /\ Shape(net)
    /\ Parts(net.node, net.nodes, net.pi, net.po, net.name_table, net.latch, net.latch_table)
    /\ FanoutsMirrorFanins(net.node, net.fanout)

\* A network that has none is a sound one.
LEMMA BuiltFacts ==
    ASSUME NEW net
    PROVE  IsNetwork(net) <=> Built(net) /\ Acyclic(net.node)
  BY NetworkIs DEF Fit, Built

\* The fanout lists of a network, to be cited one by one.
LEMMA MirrorFacts ==
    ASSUME NEW node, NEW fanout, FanoutsMirrorFanins(node, fanout)
    PROVE  /\ DOMAIN fanout = DOMAIN node /\ Lists(node, DOMAIN node, fanout)
           /\ fanout = [x \in DOMAIN node |-> fanout[x]]
           /\ \A x \in DOMAIN node :
                /\ fanout[x] \in Seq(Nat \X Nat) /\ IsInjective(fanout[x])
                /\ \A use \in Range(fanout[x]) :
                    /\ use[1] \in DOMAIN node /\ use[2] \in DOMAIN node[use[1]].fanin
                    /\ node[use[1]].fanin[use[2]] = x
                /\ \A n \in DOMAIN node : \A i \in DOMAIN node[n].fanin :
                    node[n].fanin[i] = x => <<n, i>> \in Range(fanout[x])
  <1>1. DOMAIN fanout = DOMAIN node /\ Lists(node, DOMAIN node, fanout)
    BY DEF FanoutsMirrorFanins
  <1> QED BY <1>1, Zenon DEF Lists, FanoutsMirrorFanins

\* All but the nodes and the fanout lists is the same.
SameLists(res, net) ==
    /\ res.nodes = net.nodes /\ res.pi = net.pi /\ res.po = net.po
    /\ res.name_table = net.name_table
    /\ res.latch = net.latch /\ res.latch_table = net.latch_table

\* Moving one use from one list to another follows the change of the pin.
LEMMA MirrorPatch ==
    ASSUME NEW node, NEW fanout, FanoutsMirrorFanins(node, fanout),
           NEW node2, NEW n \in Nat, NEW pin \in Nat, NEW old, NEW new \in DOMAIN node,
           IsPatched(node, node2, n, pin, old, new), old \in DOMAIN node,
           NEW unused, unused = Put(fanout, old, Minus(fanout[old], {<<n, pin>>})),
           NEW fanout2, fanout2 = Put(unused, new, Append(unused[new], <<n, pin>>))
    PROVE  FanoutsMirrorFanins(node2, fanout2)
  <1>1. DOMAIN fanout = DOMAIN node /\ Lists(node, DOMAIN node, fanout)
    BY DEF FanoutsMirrorFanins
  <1>2. PICK p : p = <<n, pin>>
    OBVIOUS
  <1>3. PICK list : list = Minus(fanout[old], {p})
    OBVIOUS
  <1>4. unused = Put(fanout, old, list) /\ fanout2 = Put(unused, new, Append(unused[new], p))
    BY <1>2, <1>3
  <1>5. IsMove(fanout, unused, fanout2, p, old, new)
    <2>2. old \in DOMAIN fanout /\ new \in DOMAIN fanout
      BY <1>1
    <2>3. list = Minus(fanout[old], {p})
      BY <1>3
    <2>4. /\ DOMAIN unused = DOMAIN fanout /\ unused[old] = list
          /\ \A x \in DOMAIN fanout : x /= old => unused[x] = fanout[x]
      BY <1>4, <2>2 DEF Put
    <2>5. PICK more : more = Append(unused[new], p)
      OBVIOUS
    <2>6. fanout2 = Put(unused, new, more)
      BY <1>4, <2>5
    <2>7. /\ DOMAIN fanout2 = DOMAIN unused /\ fanout2[new] = more
          /\ \A x \in DOMAIN unused : x /= new => fanout2[x] = unused[x]
          /\ fanout2 = [x \in DOMAIN fanout2 |-> fanout2[x]]
      BY <2>2, <2>4, <2>6 DEF Put
    <2>8. fanout2 = [x \in DOMAIN fanout |-> fanout2[x]]
      BY <2>4, <2>7
    <2>9. /\ DOMAIN fanout2 = DOMAIN fanout /\ fanout2[new] = Append(unused[new], p)
          /\ \A x \in DOMAIN fanout : x /= new => fanout2[x] = unused[x]
      BY <2>4, <2>5, <2>7
    <2>10. unused[old] = Minus(fanout[old], {p})
      BY <2>3, <2>4
    <2> QED BY <2>2, <2>4, <2>8, <2>9, <2>10 DEF IsMove
  <1>6. p \in Nat \X Nat /\ p[1] = n /\ p[2] = pin
    BY <1>2
  <1>7. Lists(node2, DOMAIN node, fanout2)
    BY <1>1, <1>5, <1>6, ListsPatch
  <1> QED BY <1>1, <1>5, <1>7 DEF FanoutsMirrorFanins, IsMove, IsPatched

\* node_patch_fanin gives one pin another fanin and keeps everything but,
\* perhaps, the order.
LEMMA PatchSound ==
    ASSUME NEW net, Built(net), NEW n \in DOMAIN net.node, NEW old \in DOMAIN net.node,
           NEW new \in DOMAIN net.node, net.node[new].type /= "PRIMARY_OUTPUT",
           NEW res, res = node_patch_fanin(net, n, old, new),
           \E i \in DOMAIN net.node[n].fanin : net.node[n].fanin[i] = old
    PROVE  /\ Built(res) /\ SameLists(res, net)
           /\ \E pin : IsPatched(net.node, res.node, n, pin, old, new)
  <1> DEFINE node == net.node  nd == node[n]  pins == {i \in DOMAIN nd.fanin : nd.fanin[i] = old}
             pin == Min(pins)
             fanin2 == Put(nd.fanin, pin, new)  no == FALSE
             nd2 == [nd EXCEPT !.fanin = fanin2, !.dup_free = no]
             unused == Put(net.fanout, old, Minus(net.fanout[old], {<<n, pin>>}))
             node2 == Put(node, n, nd2)
             fanout2 == Put(unused, new, Append(unused[new], <<n, pin>>))
  <1>1. /\ Shape(net) /\ Parts(node, net.nodes, net.pi, net.po, net.name_table, net.latch,
             net.latch_table)
        /\ FanoutsMirrorFanins(node, net.fanout) /\ IsNode(nd)
        /\ Range(nd.fanin) \subseteq DOMAIN node
        /\ node = [m \in DOMAIN node |-> node[m]] /\ DOMAIN node \subseteq Nat
    <2>1. NodesAreListed(node, net.nodes)
      BY DEF Built, Parts
    <2> QED BY <2>1, ListedFacts DEF Built, NodesAreListed
  <1>2. pin \in DOMAIN nd.fanin /\ nd.fanin[pin] = old /\ pin \in Nat
    <2>1. pins \subseteq Nat /\ pins /= {}
      <3>1. nd.fanin \in Seq(Nat)
        BY <1>1 DEF IsNode
      <3>2. DOMAIN nd.fanin = 1..Len(nd.fanin) /\ Len(nd.fanin) \in Nat
        BY <3>1
      <3> QED BY <3>2
    <2> HIDE DEF pins
    <2>2. pin \in pins
      BY <2>1, MinFacts
    <2> QED BY <2>1, <2>2 DEF pins
  <1>3. res = [net EXCEPT !.node = node2, !.fanout = fanout2]
    BY DEF node_patch_fanin
  <1> HIDE DEF pins, pin
  <1>4. res = Net(node2, fanout2, net.nodes, net.pi, net.po, net.name_table, net.latch,
          net.latch_table)
    <2> HIDE DEF node2, fanout2, node
    <2> QED BY <1>1, <1>3, Set_node_fanout, Zenon
  <1>5. nd2 = NodeOf(nd.type, fanin2, nd.F, no, nd.name)
    <2>1. NodeShape(nd)
      BY <1>1, IsNodeShape
    <2> HIDE DEF fanin2, no, nd
    <2> QED BY <2>1, SetFaninFlag
  <1> HIDE DEF nd2
  <1>6. /\ nd2.type = nd.type /\ nd2.fanin = fanin2 /\ nd2.F = nd.F /\ nd2.dup_free = no
        /\ nd2.name = nd.name
        /\ NodeShape(nd2)
    <2> HIDE DEF fanin2, no, nd
    <2> QED BY <1>5, NodeFields
  <1>7. /\ DOMAIN fanin2 = DOMAIN nd.fanin /\ fanin2[pin] = new
        /\ \A i \in DOMAIN nd.fanin : i /= pin => fanin2[i] = nd.fanin[i]
        /\ fanin2 \in Seq(Nat) /\ Len(fanin2) = Len(nd.fanin)
    <2>1. /\ DOMAIN fanin2 = DOMAIN nd.fanin \union {pin} /\ fanin2[pin] = new
          /\ \A i \in DOMAIN nd.fanin : i /= pin => fanin2[i] = nd.fanin[i]
          /\ fanin2 = [i \in DOMAIN fanin2 |-> fanin2[i]]
      <3> HIDE DEF nd
      <3> QED BY DEF Put
    <2> HIDE DEF fanin2
    <2>2. DOMAIN fanin2 = DOMAIN nd.fanin
      BY <1>2, <2>1
    <2>3. nd.fanin \in Seq(Nat)
      BY <1>1 DEF IsNode
    <2>4. PICK len \in Nat : DOMAIN nd.fanin = 1..len /\ len = Len(nd.fanin)
      BY <2>3
    <2>5. new \in Nat
      BY <1>1
    <2>6. fanin2 \in [1..len -> Nat]
      <3>1. \A i \in 1..len : nd.fanin[i] \in Nat
        BY <2>3, <2>4, SMTT(60)
      <3>2. \A i \in 1..len : fanin2[i] \in Nat
        BY <2>1, <2>4, <2>5, <3>1
      <3>3. fanin2 = [i \in 1..len |-> fanin2[i]]
        BY <2>1, <2>2, <2>4
      <3> QED BY <3>2, <3>3
    <2>7. fanin2 \in Seq(Nat) /\ Len(fanin2) = len
      BY <2>6
    <2> QED BY <2>1, <2>2, <2>4, <2>7
  <1> HIDE DEF fanin2
  <1>8. /\ IsProper(node, nd2)
    <2>1. \A x \in Range(nd2.fanin) : x \in Range(nd.fanin) \/ x = new
      BY <1>6, <1>7 DEF Range
    <2>2. \A x \in Range(nd.fanin) : node[x].type /= "PRIMARY_OUTPUT"
      BY <1>1 DEF Parts, TerminalsAreListed, Range
    <2>3. /\ nd.type = "PRIMARY_INPUT" => nd.fanin = <<>>
          /\ nd.type = "PRIMARY_OUTPUT" => Len(nd.fanin) = 1
      BY <1>1 DEF Parts, TerminalsAreListed
    <2>4. nd.type /= "PRIMARY_INPUT"
      BY <1>2, <2>3
    <2>5. nd.type = "INTERNAL" => IsMinimumBase(nd2) /\ IsSccMinimal(nd2)
      <3>1. nd.type = "INTERNAL" => IsMinimumBase(nd) /\ IsSccMinimal(nd)
        BY <1>1 DEF Parts, CoversAreSound
      <3> QED BY <1>6, <1>7, <3>1 DEF IsMinimumBase, IsSccMinimal
    <2>6. IsNode(nd2)
      <3>1. IsFunction(nd2)
        BY <1>1, <1>6, <1>7 DEF IsNode, IsFunction
      <3>2. nd2.dup_free \in BOOLEAN
        BY <1>6
      <3>3. nd2 = [type |-> nd2.type, fanin |-> nd2.fanin, F |-> nd2.F, dup_free |-> nd2.dup_free,
              name |-> nd2.name]
        BY <1>6, Zenon DEF NodeShape, NodeOf
      <3>4. nd2.type \in Types /\ nd2.fanin \in Seq(Nat)
        BY <1>1, <1>6, <1>7 DEF IsNode
      <3> QED BY <3>1, <3>2, <3>3, <3>4, Zenon DEF IsNode
    <2>7. ~ nd2.dup_free
      BY <1>6
    <2> HIDE DEF nd, no
    <2> QED BY <1>1, <1>6, <1>7, <2>1, <2>2, <2>3, <2>4, <2>5, <2>6, <2>7 DEF IsProper
  <1>9. IsChanged(node, node2, n, nd2)
    BY <1>1 DEF IsChanged, Put
  <1> HIDE DEF node2
  <1>10. Parts(node2, net.nodes, net.pi, net.po, net.name_table, net.latch, net.latch_table)
    <2>1. nd2.type = node[n].type /\ nd2.name = node[n].name
      BY <1>6
    <2> HIDE DEF node, nd
    <2> QED BY <1>1, <1>8, <1>9, <2>1, PartsUpdate
  <1>11. IsPatched(node, node2, n, pin, old, new)
    BY <1>2, <1>6, <1>7, <1>9 DEF IsChanged, IsPatched
  <1>12. FanoutsMirrorFanins(node2, fanout2)
    <2>1. n \in Nat /\ new \in DOMAIN node /\ FanoutsMirrorFanins(node, net.fanout)
      BY <1>1
    <2>2. fanout2 = Put(unused, new, Append(unused[new], <<n, pin>>))
          /\ unused = Put(net.fanout, old, Minus(net.fanout[old], {<<n, pin>>}))
      OBVIOUS
    <2>3. old \in DOMAIN node /\ pin \in Nat
      BY <1>2
    <2> HIDE DEF fanout2, unused, node
    <2> QED BY <1>11, <2>1, <2>2, <2>3, MirrorPatch, Zenon
  <1> HIDE DEF fanout2
  <1>13. /\ res.node = node2 /\ res.fanout = fanout2 /\ SameLists(res, net) /\ Shape(res)
    BY <1>4, NetFields DEF SameLists
  <1> QED BY <1>10, <1>11, <1>12, <1>13 DEF Built, SameLists

\* The results of the turns of the loop.
IsPatchUses(f, net, uses, old, new) ==
    /\ f[0] = net
    /\ \A k \in 1..Len(uses) : f[k] = node_patch_fanin(f[k - 1], uses[k][1], old, new)
    /\ PatchUses(net, uses, old, new) = f[Len(uses)]

\* There is such a list of results.
LEMMA PatchUsesLoop ==
    ASSUME NEW net, NEW uses, Len(uses) \in Nat, NEW old, NEW new
    PROVE  \E f : IsPatchUses(f, net, uses, old, new)
  <1> DEFINE n == Len(uses)
             G(f, m) == f = [k \in 0..m |-> IF k = 0 THEN net
                   ELSE node_patch_fanin(f[k - 1], uses[k][1], old, new)]
             S == {m \in 0..n : \E f : G(f, m)}
  <1>1. \E f : G(f, 0)
    <2>1. G([k \in 0..0 |-> net], 0)
      OBVIOUS
    <2> HIDE DEF G
    <2> QED BY <2>1
  <1>2. ASSUME NEW m \in 1..n, NEW f, G(f, m - 1)  PROVE \E g : G(g, m)
    <2> DEFINE g == [k \in 0..m |-> IF k = m THEN node_patch_fanin(f[m - 1], uses[m][1], old, new)
                     ELSE f[k]]
    <2>1. ASSUME NEW k \in 0..m
          PROVE  g[k] = IF k = 0 THEN net ELSE node_patch_fanin(g[k - 1], uses[k][1], old, new)
      <3>1. CASE k = m
        <4>1. g[m] = node_patch_fanin(f[m - 1], uses[m][1], old, new) /\ m \in 0..m /\ m /= 0
          OBVIOUS
        <4>2. g[m - 1] = f[m - 1]
          OBVIOUS
        <4> HIDE DEF g
        <4> QED BY <3>1, <4>1, <4>2
      <3>2. CASE k /= m
        <4>1. k \in 0..(m - 1)
          BY <3>2
        <4>2. f[k] = IF k = 0 THEN net ELSE node_patch_fanin(f[k - 1], uses[k][1], old, new)
          BY <1>2, <4>1
        <4>3. g[k] = f[k] /\ (k /= 0 => g[k - 1] = f[k - 1])
          BY <3>2, <4>1
        <4> HIDE DEF g
        <4> QED BY <4>2, <4>3
      <3> QED BY <3>1, <3>2
    <2>2. g = [k \in 0..m |-> g[k]]
      OBVIOUS
    <2>3. G(g, m)
      BY <2>1, <2>2
    <2> HIDE DEF G, g
    <2> QED BY <2>3
  <1>3. n \in Nat
    OBVIOUS
  <1>4. \E f : G(f, n)
    <2> HIDE DEF G
    <2>1. 0 \in S
      BY <1>1, <1>3
    <2>2. \A m \in 1..n : m - 1 \in S => m \in S
      BY <1>2
    <2> HIDE DEF S, n
    <2>3. \A m \in 0..n : m \in S
      BY <1>3, <2>1, <2>2, UpTo
    <2>4. n \in S
      BY <1>3, <2>3
    <2> QED BY <2>4 DEF S
  <1> DEFINE F == CHOOSE f : G(f, n)
  <1>5. G(F, n)
    <2> HIDE DEF G
    <2> QED BY <1>4
  <1>6. PatchUses(net, uses, old, new) = F[n]
    BY DEF G, PatchUses, ForEach
  <1> HIDE DEF F, n
  <1>7. \A k \in 0..n : F[k] = IF k = 0 THEN net
          ELSE node_patch_fanin(F[k - 1], uses[k][1], old, new)
    <2>1. \A k \in 0..n :
            [j \in 0..n |-> IF j = 0 THEN net
              ELSE node_patch_fanin(F[j - 1], uses[j][1], old, new)][k]
            = IF k = 0 THEN net ELSE node_patch_fanin(F[k - 1], uses[k][1], old, new)
      OBVIOUS
    <2> QED BY <1>5, <2>1, Zenon
  <1>8. F[0] = net /\ \A k \in 1..n : F[k] = node_patch_fanin(F[k - 1], uses[k][1], old, new)
    <2>1. 0 \in 0..n /\ \A k \in 1..n : k \in 0..n /\ k /= 0
      BY <1>3
    <2> QED BY <1>7, <2>1, Zenon
  <1> QED BY <1>6, <1>8 DEF n, IsPatchUses

\* Every pin that had the fanin old has the fanin new.
IsRewired(node, node2, old, new) ==
    /\ DOMAIN node2 = DOMAIN node
    /\ \A n \in DOMAIN node :
        /\ node2[n].type = node[n].type /\ node2[n].name = node[n].name /\ node2[n].F = node[n].F
        /\ DOMAIN node2[n].fanin = DOMAIN node[n].fanin
        /\ \A i \in DOMAIN node[n].fanin :
            node2[n].fanin[i] = IF node[n].fanin[i] = old THEN new ELSE node[n].fanin[i]

\* Some of them have.
IsRewiring(node, node2, old, new) ==
    /\ DOMAIN node2 = DOMAIN node
    /\ \A n \in DOMAIN node :
        /\ node2[n].type = node[n].type /\ node2[n].name = node[n].name /\ node2[n].F = node[n].F
        /\ DOMAIN node2[n].fanin = DOMAIN node[n].fanin
        /\ \A i \in DOMAIN node[n].fanin :
            \/ node2[n].fanin[i] = node[n].fanin[i]
            \/ node[n].fanin[i] = old /\ node2[n].fanin[i] = new

\* The pins of n that have the fanin old.
PinsWith(node, n, old) == {i \in DOMAIN node[n].fanin : node[n].fanin[i] = old}

\* The turns from k on that are about n.
UsesAhead(uses, k, n) == {j \in 1..Len(uses) : k < j /\ uses[j][1] = n}

\* There are as many of the one as of the other.
IsCounted(node, uses, k, n, old) ==
    /\ IsFiniteSet(PinsWith(node, n, old)) /\ IsFiniteSet(UsesAhead(uses, k, n))
    /\ Cardinality(PinsWith(node, n, old)) = Cardinality(UsesAhead(uses, k, n))

\* So it is when the loop begins, for the fanout list has each pin once.
LEMMA CountStart ==
    ASSUME NEW node, NEW fanout, FanoutsMirrorFanins(node, fanout), NEW old \in DOMAIN node,
           NEW n \in DOMAIN node,
           DOMAIN node \subseteq Nat, node[n].fanin \in Seq(Nat),
           NEW uses \in Seq(Nat \X Nat), IsInjective(uses), Range(uses) = Range(fanout[old])
    PROVE  IsCounted(node, uses, 0, n, old)
  <1> DEFINE A == PinsWith(node, n, old)  B == UsesAhead(uses, 0, n)
  <1>1. /\ \A use \in Range(uses) :
              /\ use[1] \in DOMAIN node /\ use[2] \in DOMAIN node[use[1]].fanin
              /\ node[use[1]].fanin[use[2]] = old
        /\ \A i \in A : <<n, i>> \in Range(uses)
    BY MirrorFacts DEF PinsWith
  <1>2. /\ \A j \in 1..Len(uses) : uses[j] \in Range(uses) /\ uses[j] \in Nat \X Nat
        /\ \A x \in Range(uses) : \E j \in 1..Len(uses) : uses[j] = x
        /\ \A i, j \in 1..Len(uses) : uses[i] = uses[j] => i = j
    BY RangeFacts, InjectiveFacts
  <1>3. IsFiniteSet(A) /\ IsFiniteSet(B)
    <2>1. DOMAIN node[n].fanin = 1..Len(node[n].fanin) /\ Len(node[n].fanin) \in Nat
          /\ Len(uses) \in Nat
      OBVIOUS
    <2>2. PICK N \in Nat, M \in Nat : DOMAIN node[n].fanin = 1..N /\ Len(uses) = M
      BY <2>1
    <2>3. A \subseteq 1..N /\ B \subseteq 1..M
      BY <2>2 DEF PinsWith, UsesAhead
    <2>4. IsFiniteSet(1..N) /\ IsFiniteSet(1..M)
      <3>1. N \in Nat /\ M \in Nat
        OBVIOUS
      <3>2. IsFiniteSet(1..N)
        BY <3>1, FS_Interval
      <3>3. IsFiniteSet(1..M)
        BY <3>1, FS_Interval
      <3> QED BY <3>2, <3>3
    <2> QED BY <2>3, <2>4, FS_Subset
  <1>4. ExistsBijection(B, A)
    <2> DEFINE f == [j \in B |-> uses[j][2]]
    <2>1. \A j \in B : uses[j] = <<n, uses[j][2]>> /\ uses[j][2] \in A
      <3>1. SUFFICES ASSUME NEW j \in B PROVE uses[j] = <<n, uses[j][2]>> /\ uses[j][2] \in A
        OBVIOUS
      <3>2. j \in 1..Len(uses) /\ uses[j][1] = n
        BY DEF UsesAhead
      <3>3. uses[j] \in Nat \X Nat /\ uses[j] \in Range(uses)
        BY <1>2, <3>2
      <3>4. uses[j] = <<n, uses[j][2]>>
        BY <3>2, <3>3
      <3>5. uses[j][2] \in DOMAIN node[n].fanin /\ node[n].fanin[uses[j][2]] = old
        BY <1>1, <3>2, <3>3
      <3> QED BY <3>4, <3>5 DEF PinsWith
    <2>2. f \in [B -> A]
      BY <2>1
    <2>3. \A i, j \in B : f[i] = f[j] => i = j
      <3>1. B \subseteq 1..Len(uses)
        BY DEF UsesAhead
      <3>2. SUFFICES ASSUME NEW i \in B, NEW j \in B, f[i] = f[j] PROVE i = j
        OBVIOUS
      <3>3. uses[i][2] = uses[j][2]
        BY <3>2
      <3>4. uses[i] = uses[j]
        BY <2>1, <3>3
      <3> HIDE DEF f
      <3> QED BY <1>2, <3>1, <3>4
    <2>4. \A i \in A : \E j \in B : f[j] = i
      <3>1. SUFFICES ASSUME NEW i \in A PROVE \E j \in B : f[j] = i
        OBVIOUS
      <3>2. PICK j \in 1..Len(uses) : uses[j] = <<n, i>>
        BY <1>1, <1>2
      <3>3. j \in B
        BY <3>2 DEF UsesAhead
      <3> QED BY <3>2, <3>3
    <2> HIDE DEF f
    <2>5. f \in Bijection(B, A)
      BY <2>2, <2>3, <2>4 DEF Bijection, Injection, Surjection, IsInjective
    <2> QED BY <2>5 DEF ExistsBijection
  <1>5. Cardinality(B) = Cardinality(A)
    BY <1>3, <1>4, FS_Bijection
  <1> QED BY <1>3, <1>5 DEF IsCounted

\* A turn takes one off both.
LEMMA CountStep ==
    ASSUME NEW node, NEW node2, NEW uses \in Seq(Nat \X Nat), NEW k \in 1..Len(uses), NEW n,
           NEW old, NEW new,
           new /= old, NEW pin, IsPatched(node, node2, uses[k][1], pin, old, new),
           n \in DOMAIN node, IsCounted(node, uses, k - 1, n, old)
    PROVE  IsCounted(node2, uses, k, n, old)
  <1> DEFINE A == PinsWith(node, n, old)   B == UsesAhead(uses, k - 1, n)
             A2 == PinsWith(node2, n, old)  B2 == UsesAhead(uses, k, n)
  <1>1. IsFiniteSet(A) /\ IsFiniteSet(B) /\ Cardinality(A) = Cardinality(B)
    BY DEF IsCounted
  <1>2. CASE n /= uses[k][1]
    <2>1. A2 = A
      BY <1>2 DEF PinsWith, IsPatched
    <2>2. B2 = B
      BY <1>2 DEF UsesAhead
    <2> QED BY <1>1, <2>1, <2>2 DEF IsCounted
  <1>3. CASE n = uses[k][1]
    <2>1. A2 = A \ {pin} /\ pin \in A
      BY <1>3 DEF PinsWith, IsPatched
    <2>2. B2 = B \ {k} /\ k \in B
      BY <1>3, SMTT(60) DEF UsesAhead
    <2> HIDE DEF A, A2, B, B2
    <2>3. /\ IsFiniteSet(A2) /\ Cardinality(A2) = Cardinality(A) - 1
          /\ IsFiniteSet(B2) /\ Cardinality(B2) = Cardinality(B) - 1
      BY <1>1, <2>1, <2>2, FS_RemoveElement
    <2> QED BY <1>1, <2>3 DEF IsCounted, A2, B2
  <1> QED BY <1>2, <1>3

\* The node of a turn still has a pin to patch: node_patch_fanin does not
\* fail.
LEMMA CountHas ==
    ASSUME NEW node, NEW uses \in Seq(Nat \X Nat), NEW k \in 1..Len(uses), NEW old,
           NEW n, n = uses[k][1], IsCounted(node, uses, k - 1, n, old)
    PROVE  PinsWith(node, n, old) /= {}
  <1> DEFINE A == PinsWith(node, n, old)   B == UsesAhead(uses, k - 1, n)
  <1>1. IsFiniteSet(A) /\ IsFiniteSet(B) /\ Cardinality(A) = Cardinality(B)
    BY DEF IsCounted
  <1>2. k \in B
    BY DEF UsesAhead
  <1> HIDE DEF A, B
  <1>3. A /= {}
    BY <1>1, <1>2, FS_EmptySet
  <1> QED BY <1>3 DEF A

\* When the loop ends, no pin is left.
LEMMA CountEnd ==
    ASSUME NEW node, NEW uses \in Seq(Nat \X Nat), NEW n,
           NEW old, IsCounted(node, uses, Len(uses), n, old)
    PROVE  \A i \in DOMAIN node[n].fanin : node[n].fanin[i] /= old
  <1> DEFINE A == PinsWith(node, n, old)   B == UsesAhead(uses, Len(uses), n)
  <1>1. IsFiniteSet(A) /\ IsFiniteSet(B) /\ Cardinality(A) = Cardinality(B)
    BY DEF IsCounted
  <1>2. B = {}
    BY DEF UsesAhead
  <1> HIDE DEF A, B
  <1>3. A = {}
    BY <1>1, <1>2, FS_EmptySet
  <1> QED BY <1>3 DEF A, PinsWith

\* A turn patches one more pin.
LEMMA RewiringStep ==
    ASSUME NEW node, NEW node2, NEW node3, NEW old, NEW new, NEW n, NEW pin, new /= old,
           IsRewiring(node, node2, old, new), IsPatched(node2, node3, n, pin, old, new)
    PROVE  IsRewiring(node, node3, old, new)
  <1>1. DOMAIN node3 = DOMAIN node
    BY DEF IsRewiring, IsPatched
  <1>2. ASSUME NEW m \in DOMAIN node
        PROVE  /\ node3[m].type = node[m].type /\ node3[m].name = node[m].name
               /\ node3[m].F = node[m].F
               /\ DOMAIN node3[m].fanin = DOMAIN node[m].fanin
               /\ \A i \in DOMAIN node[m].fanin :
                    \/ node3[m].fanin[i] = node[m].fanin[i]
                    \/ node[m].fanin[i] = old /\ node3[m].fanin[i] = new
    <2>1. CASE m /= n
      <3>1. node3[m] = node2[m]
        BY <2>1 DEF IsRewiring, IsPatched
      <3> QED BY <3>1 DEF IsRewiring
    <2>2. CASE m = n
      BY <2>2 DEF IsRewiring, IsPatched
    <2> QED BY <2>1, <2>2
  <1> QED BY <1>1, <1>2 DEF IsRewiring

\* A node that no pin leads to has an empty fanout list.
LEMMA NoUses ==
    ASSUME NEW node, NEW fanout, FanoutsMirrorFanins(node, fanout), NEW x \in DOMAIN node,
           \A n \in DOMAIN node : \A i \in DOMAIN node[n].fanin : node[n].fanin[i] /= x
    PROVE  fanout[x] = <<>>
  <1>1. /\ fanout[x] \in Seq(Nat \X Nat)
        /\ \A use \in Range(fanout[x]) :
                    /\ use[1] \in DOMAIN node /\ use[2] \in DOMAIN node[use[1]].fanin
                    /\ node[use[1]].fanin[use[2]] = x
    BY MirrorFacts
  <1>2. Range(fanout[x]) = {}
    BY <1>1
  <1> QED BY <1>1, <1>2, EmptyRange

\* The loop over the uses of a node sends all of them to another.
LEMMA PatchUsesSound ==
    ASSUME NEW net, Built(net), NEW old \in DOMAIN net.node,
           NEW new \in DOMAIN net.node, new /= old,
           net.node[new].type /= "PRIMARY_OUTPUT",
           NEW uses \in Seq(Nat \X Nat), IsInjective(uses), Range(uses) = Range(net.fanout[old]),
           NEW res, res = PatchUses(net, uses, old, new)
    PROVE  /\ Built(res) /\ SameLists(res, net)
           /\ IsRewired(net.node, res.node, old, new)
           /\ res.fanout[old] = <<>>
  <1> DEFINE len == Len(uses)
  <1>1. len \in Nat
    OBVIOUS
  <1>2. PICK F : IsPatchUses(F, net, uses, old, new)
    BY <1>1, PatchUsesLoop
  <1>a. /\ F[0] = net /\ F[len] = res
        /\ \A k \in 1..len : F[k] = node_patch_fanin(F[k - 1], uses[k][1], old, new)
    BY <1>2 DEF IsPatchUses
  <1> DEFINE Good(r, k) == /\ Built(r) /\ SameLists(r, net)
                              /\ IsRewiring(net.node, r.node, old, new)
                           /\ \A n \in DOMAIN net.node : IsCounted(r.node, uses, k, n, old)
             S == {k \in 0..len : Good(F[k], k)}
  <1>3. /\ DOMAIN net.node \subseteq Nat
        /\ \A n \in DOMAIN net.node : net.node[n].fanin \in Seq(Nat)
        /\ FanoutsMirrorFanins(net.node, net.fanout)
        /\ \A use \in Range(net.fanout[old]) : use[1] \in DOMAIN net.node
    <2>1. NodesAreListed(net.node, net.nodes) /\ FanoutsMirrorFanins(net.node, net.fanout)
      BY DEF Built, Parts
    <2> QED BY <2>1, ListedFacts, MirrorFacts DEF NodesAreListed, IsNode
  <1>4. Good(net, 0)
    <2>1. IsRewiring(net.node, net.node, old, new)
      BY DEF IsRewiring
    <2>2. SameLists(net, net)
      BY DEF SameLists
    <2>3. \A n \in DOMAIN net.node : IsCounted(net.node, uses, 0, n, old)
      BY <1>3, CountStart
    <2> QED BY <2>1, <2>2, <2>3
  <1>5. ASSUME NEW k \in 1..len, NEW r, Good(r, k - 1),
               NEW t, t = node_patch_fanin(r, uses[k][1], old, new)
        PROVE  Good(t, k)
    <2> DEFINE n == uses[k][1]
    <2>0. DOMAIN r.node = DOMAIN net.node
      BY <1>5 DEF IsRewiring
    <2>1. n \in DOMAIN r.node
      <3>1. uses[k] \in Range(uses)
        BY RangeFacts
      <3> QED BY <1>3, <2>0, <3>1
    <2>2. IsCounted(r.node, uses, k - 1, uses[k][1], old)
      BY <1>5, <2>0, <2>1
    <2>3. \E i \in DOMAIN r.node[n].fanin : r.node[n].fanin[i] = old
      <3>1. PinsWith(r.node, n, old) /= {}
        BY <2>2, CountHas
      <3> HIDE DEF n
      <3> QED BY <3>1 DEF PinsWith
    <2>4. old \in DOMAIN r.node /\ new \in DOMAIN r.node /\ r.node[new].type /= "PRIMARY_OUTPUT"
          /\ Built(r)
      BY <1>5, <2>0 DEF IsRewiring
    <2>5. t = node_patch_fanin(r, n, old, new)
      BY <1>5
    <2> HIDE DEF n
    <2>6. /\ Built(t) /\ SameLists(t, r)
          /\ \E pin : IsPatched(r.node, t.node, n, pin, old, new)
      BY <2>1, <2>3, <2>4, <2>5, PatchSound
    <2>7. PICK pin : IsPatched(r.node, t.node, n, pin, old, new)
      BY <2>6
    <2>8. SameLists(t, net)
      BY <1>5, <2>6 DEF SameLists
    <2>9. IsRewiring(net.node, t.node, old, new)
      BY <1>5, <2>7, RewiringStep
    <2>10. ASSUME NEW m \in DOMAIN net.node  PROVE IsCounted(t.node, uses, k, m, old)
      <3>1. m \in DOMAIN r.node /\ IsCounted(r.node, uses, k - 1, m, old)
        BY <1>5, <2>0
      <3> QED BY <2>7, <3>1, CountStep DEF n
    <2> QED BY <2>6, <2>8, <2>9, <2>10
  <1> HIDE DEF Good
  <1>6. 0 \in S
    BY <1>1, <1>a, <1>4
  <1>7. \A k \in 1..len : k - 1 \in S => k \in S
    <2>1. SUFFICES ASSUME NEW k \in 1..len, k - 1 \in S PROVE k \in S
      OBVIOUS
    <2>2. Good(F[k - 1], k - 1)
      BY <2>1
    <2>3. F[k] = node_patch_fanin(F[k - 1], uses[k][1], old, new)
      BY <1>a
    <2>4. Good(F[k], k)
      BY <1>5, <2>2, <2>3
    <2> QED BY <1>1, <2>4
  <1> HIDE DEF S
  <1>8. \A k \in 0..len : k \in S
    BY <1>1, <1>6, <1>7, UpTo
  <1>9. Good(res, len)
    <2>1. len \in 0..len
      BY <1>1
    <2>2. Good(F[len], len)
      BY <1>8, <2>1 DEF S
    <2> QED BY <1>a, <2>2
  <1>10. /\ Built(res) /\ SameLists(res, net) /\ IsRewiring(net.node, res.node, old, new)
         /\ \A n \in DOMAIN net.node : IsCounted(res.node, uses, len, n, old)
    BY <1>9 DEF Good
  <1>11. \A n \in DOMAIN net.node : \A i \in DOMAIN res.node[n].fanin : res.node[n].fanin[i] /= old
    BY <1>10, CountEnd
  <1> HIDE DEF len
  <1>12. IsRewired(net.node, res.node, old, new)
    BY <1>10, <1>11 DEF IsRewired, IsRewiring
  <1>13. res.fanout[old] = <<>>
    <2>1. DOMAIN res.node = DOMAIN net.node /\ FanoutsMirrorFanins(res.node, res.fanout)
      BY <1>10 DEF IsRewiring, Built
    <2> QED BY <1>11, <2>1, NoUses, SMTT(60)
  <1> QED BY <1>10, <1>12, <1>13

\* A list the other way round.
LEMMA ReverseFacts ==
    ASSUME NEW S, NEW s \in Seq(S)
    PROVE  /\ Reverse(s) \in Seq(S) /\ Range(Reverse(s)) = Range(s)
           /\ IsInjective(s) => IsInjective(Reverse(s))
  <1> DEFINE n == Len(s)  t == Reverse(s)
  <1>1. n \in Nat /\ \A i \in 1..n : s[i] \in S
    OBVIOUS
  <1>2. t = [i \in 1..n |-> s[n - i + 1]]
    BY DEF Reverse
  <1> HIDE DEF t, n
  <1>3. \A i \in 1..n : n - i + 1 \in 1..n /\ n - (n - i + 1) + 1 = i
    BY <1>1
  <1>4. t \in [1..n -> S] /\ \A i \in 1..n : t[i] = s[n - i + 1]
    BY <1>1, <1>2, <1>3
  <1>5. t \in Seq(S) /\ Len(t) = n
    BY <1>1, <1>4
  <1>6. Range(t) = Range(s)
    <2>1. Range(t) = {t[i] : i \in 1..n} /\ Range(s) = {s[i] : i \in 1..n}
      BY <1>5, RangeFacts DEF n
    <2>2. \A i \in 1..n : t[n - i + 1] = s[i]
      BY <1>3, <1>4
    <2>3. Range(t) \subseteq Range(s)
      BY <1>3, <1>4, <2>1
    <2>4. Range(s) \subseteq Range(t)
      BY <1>3, <2>1, <2>2
    <2> QED BY <2>3, <2>4
  <1>7. ASSUME IsInjective(s)  PROVE IsInjective(t)
    <2>1. \A i, j \in 1..n : s[i] = s[j] => i = j
      BY <1>7, InjectiveFacts DEF n
    <2>2. ASSUME NEW i \in 1..n, NEW j \in 1..n, t[i] = t[j]  PROVE i = j
      <3>1. n - i + 1 = n - j + 1
        BY <1>3, <1>4, <2>1, <2>2
      <3> QED BY <1>1, <3>1
    <2> QED BY <1>5, <2>2, InjectiveFacts
  <1> QED BY <1>5, <1>6, <1>7 DEF t

\* The same for all the uses of a node: its fanout list is empty then.
LEMMA PatchFanoutsSound ==
    ASSUME NEW net, Built(net), NEW old \in DOMAIN net.node,
           NEW new \in DOMAIN net.node, new /= old,
           net.node[new].type /= "PRIMARY_OUTPUT", NEW res, res = PatchFanouts(net, old, new)
    PROVE  /\ Built(res) /\ SameLists(res, net)
           /\ IsRewired(net.node, res.node, old, new)
           /\ res.fanout[old] = <<>>
  <1> DEFINE uses == Reverse(net.fanout[old])
  <1>1. net.fanout[old] \in Seq(Nat \X Nat) /\ IsInjective(net.fanout[old])
    BY MirrorFacts DEF Built
  <1>2. uses \in Seq(Nat \X Nat) /\ IsInjective(uses) /\ Range(uses) = Range(net.fanout[old])
    BY <1>1, ReverseFacts
  <1>3. res = PatchUses(net, uses, old, new)
    BY DEF PatchFanouts
  <1> HIDE DEF uses
  <1> QED BY <1>2, <1>3, PatchUsesSound

-----------------------------------------------------------------------------
\* Two nodes exchange their names.

\* All but the names of the nodes.
SameGraph(res, net) ==
    /\ res.fanout = net.fanout /\ res.nodes = net.nodes /\ res.pi = net.pi /\ res.po = net.po
    /\ res.latch = net.latch /\ res.latch_table = net.latch_table
    /\ DOMAIN res.node = DOMAIN net.node
    /\ \A m \in DOMAIN net.node :
        /\ res.node[m].type = net.node[m].type /\ res.node[m].fanin = net.node[m].fanin
        /\ res.node[m].F = net.node[m].F /\ res.node[m].dup_free = net.node[m].dup_free

\* A network with a node under a new name, by its parts.
LEMMA RenamedIs ==
    ASSUME NEW net, Shape(net), NEW n, NEW name
    PROVE  Renamed(net, n, name)
           = Net(Put(net.node, n, [net.node[n] EXCEPT !.name = name]), net.fanout, net.nodes,
             net.pi, net.po,
                 Put(net.name_table, name, n), net.latch, net.latch_table)
  <1> DEFINE a == Put(net.node, n, [net.node[n] EXCEPT !.name = name])
             f == Put(net.name_table, name, n)
  <1>1. Renamed(net, n, name) = [net EXCEPT !.node = a, !.name_table = f]
    BY DEF Renamed
  <1> HIDE DEF a, f
  <1>2. Renamed(net, n, name)
          = Net(a, net.fanout, net.nodes, net.pi, net.po, f, net.latch, net.latch_table)
    BY <1>1, Set_node_table
  <1> QED BY <1>2 DEF a, f

\* The two assignments to the nodes exchange the names.
LEMMA SwappedNodes ==
    ASSUME NEW node, NEW n1 \in DOMAIN node, NEW n2 \in DOMAIN node, n1 /= n2,
           \A m \in DOMAIN node : IsNode(node[m]),
           NEW node1, node1 = Put(node, n1, [node[n1] EXCEPT !.name = node[n2].name]),
           NEW node2, node2 = Put(node1, n2, [node1[n2] EXCEPT !.name = node[n1].name])
    PROVE  IsSwapped(node, node2, n1, n2)
  <1>1. PICK nd1 : nd1 = [node[n1] EXCEPT !.name = node[n2].name]
    OBVIOUS
  <1>2. PICK nd2 : nd2 = [node[n2] EXCEPT !.name = node[n1].name]
    OBVIOUS
  <1>3. nd1.name = node[n2].name /\ nd2.name = node[n1].name
    BY <1>1, <1>2, NodeRename
  <1>4. DOMAIN node1 = DOMAIN node /\ node1[n1] = nd1
        /\ \A m \in DOMAIN node : m /= n1 => node1[m] = node[m]
    BY <1>1 DEF Put
  <1>5. node2 = Put(node1, n2, nd2)
    BY <1>2, <1>4
  <1>6. /\ DOMAIN node2 = DOMAIN node /\ node2[n2] = nd2 /\ node2[n1] = nd1
        /\ \A m \in DOMAIN node : m /= n1 /\ m /= n2 => node2[m] = node[m]
        /\ node2 = [m \in DOMAIN node2 |-> node2[m]]
    BY <1>4, <1>5 DEF Put
  <1>7. \A m \in DOMAIN node : node[m] = [node[m] EXCEPT !.name = node[m].name]
    <2>1. SUFFICES ASSUME NEW m \in DOMAIN node
                   PROVE node[m] = [node[m] EXCEPT !.name = node[m].name]
      OBVIOUS
    <2>2. node[m] = [type |-> node[m].type, fanin |-> node[m].fanin, F |-> node[m].F,
                     dup_free |-> node[m].dup_free, name |-> node[m].name]
      BY DEF IsNode
    <2> QED BY <2>2
  <1>8. \A m \in DOMAIN node : node2[m].name = IF m = n1 THEN node[n2].name
                                              ELSE IF m = n2 THEN node[n1].name ELSE node[m].name
    BY <1>3, <1>6
  <1>9. ASSUME NEW m \in DOMAIN node  PROVE node2[m] = [node[m] EXCEPT !.name = node2[m].name]
    <2>1. CASE m = n1
      BY <1>1, <1>3, <1>6, <2>1
    <2>2. CASE m = n2
      BY <1>2, <1>3, <1>6, <2>2
    <2>3. CASE m /= n1 /\ m /= n2
      BY <1>6, <1>7, <2>3
    <2> QED BY <2>1, <2>2, <2>3
  <1>10. node2 = [m \in DOMAIN node |-> node2[m]]
    BY <1>6
  <1> QED BY <1>8, <1>9, <1>10 DEF IsSwapped

\* The two insertions exchange the entries of the name table.
LEMMA SwappedTable ==
    ASSUME NEW table, NEW name1 \in DOMAIN table, NEW name2 \in DOMAIN table, name1 /= name2,
           NEW n1, NEW n2,
           NEW table1, table1 = Put(table, name2, n1), NEW table2, table2 = Put(table1, name1, n2)
    PROVE  IsSwappedTable(table, table2, name1, name2, n1, n2)
  <1>1. DOMAIN table1 = DOMAIN table /\ table1[name2] = n1
        /\ \A x \in DOMAIN table : x /= name2 => table1[x] = table[x]
    BY DEF Put
  <1>2. /\ DOMAIN table2 = DOMAIN table /\ table2[name1] = n2
        /\ \A x \in DOMAIN table : x /= name1 => table2[x] = table1[x]
        /\ table2 = [x \in DOMAIN table2 |-> table2[x]]
    BY <1>1 DEF Put
  <1>3. \A x \in DOMAIN table : table2[x] = IF x = name1 THEN n2 ELSE IF x = name2 THEN n1
          ELSE table[x]
    BY <1>1, <1>2
  <1>4. table2 = [x \in DOMAIN table |-> table2[x]]
    BY <1>2
  <1> QED BY <1>3, <1>4 DEF IsSwappedTable

\* network_swap_names keeps a network sound and changes nothing but names.
LEMMA SwapNamesSound ==
    ASSUME NEW net, IsNetwork(net), NEW n1 \in DOMAIN net.node,
           NEW n2 \in DOMAIN net.node, n1 /= n2,
           NEW res, res = network_swap_names(net, n1, n2)
    PROVE  IsNetwork(res) /\ SameGraph(res, net)
  <1> DEFINE node == net.node  name1 == node[n1].name  name2 == node[n2].name
             node1 == Put(node, n1, [node[n1] EXCEPT !.name = name2])
             node2 == Put(node1, n2, [node1[n2] EXCEPT !.name = name1])
             table1 == Put(net.name_table, name2, n1)  table2 == Put(table1, name1, n2)
             mid == Renamed(net, n1, name2)
  <1>1. /\ Shape(net) /\ Parts(node, net.nodes, net.pi, net.po, net.name_table, net.latch,
             net.latch_table)
        /\ FanoutsMirrorFanins(node, net.fanout) /\ Acyclic(node)
        /\ \A m \in DOMAIN node : IsNode(node[m])
        /\ name1 \in DOMAIN net.name_table /\ name2 \in DOMAIN net.name_table /\ name1 /= name2
    <2>1. /\ Shape(net) /\ Parts(node, net.nodes, net.pi, net.po, net.name_table, net.latch,
               net.latch_table)
          /\ FanoutsMirrorFanins(node, net.fanout) /\ Acyclic(node)
          /\ NodesAreListed(node, net.nodes) /\ NamesFindNodes(node, net.name_table)
      BY NetworkHas
    <2>2. \A m \in DOMAIN node : IsNode(node[m])
      BY <2>1 DEF NodesAreListed
    <2>3. DOMAIN net.name_table = {node[m].name : m \in DOMAIN node}
      BY <2>1 DEF NamesFindNodes
    <2>4. net.name_table[name1] = n1 /\ net.name_table[name2] = n2
      BY <2>1 DEF NamesFindNodes
    <2> HIDE DEF node
    <2>5. name1 \in DOMAIN net.name_table /\ name2 \in DOMAIN net.name_table
      BY <2>3 DEF node
    <2> QED BY <2>1, <2>2, <2>4, <2>5
  <1>2. res = Renamed(mid, n2, name1)
    BY DEF network_swap_names
  <1>3. mid = Net(node1, net.fanout, net.nodes, net.pi, net.po, table1, net.latch, net.latch_table)
    BY <1>1, RenamedIs
  <1> HIDE DEF mid, node1, table1
  <1>4. /\ mid.node = node1 /\ mid.fanout = net.fanout /\ mid.nodes = net.nodes /\ mid.pi = net.pi
        /\ mid.po = net.po /\ mid.name_table = table1 /\ mid.latch = net.latch
        /\ mid.latch_table = net.latch_table /\ Shape(mid)
    BY <1>3, NetFields
  <1>5. Renamed(mid, n2, name1)
        = Net(Put(mid.node, n2, [mid.node[n2] EXCEPT !.name = name1]), mid.fanout, mid.nodes,
          mid.pi, mid.po,
                 Put(mid.name_table, name1, n2), mid.latch, mid.latch_table)
    BY <1>4, RenamedIs
  <1>6. res = Net(node2, net.fanout, net.nodes, net.pi, net.po, table2, net.latch, net.latch_table)
    BY <1>2, <1>4, <1>5
  <1>7. IsSwapped(node, node2, n1, n2)
    <2>1. node1 = Put(node, n1, [node[n1] EXCEPT !.name = node[n2].name])
      BY DEF node1
    <2>2. node2 = Put(node1, n2, [node1[n2] EXCEPT !.name = node[n1].name])
      OBVIOUS
    <2>3. n1 \in DOMAIN node /\ n2 \in DOMAIN node
      OBVIOUS
    <2> HIDE DEF node, node2
    <2> QED BY <1>1, <2>1, <2>2, <2>3, SwappedNodes
  <1>8. IsSwappedTable(net.name_table, table2, name1, name2, n1, n2)
    <2> HIDE DEF name1, name2
    <2> QED BY <1>1, SwappedTable DEF table1
  <1> HIDE DEF node2, table2
  <1>9. Parts(node2, net.nodes, net.pi, net.po, table2, net.latch, net.latch_table)
    <2>3. n1 \in DOMAIN node /\ n2 \in DOMAIN node
      OBVIOUS
    <2> HIDE DEF node
    <2>4. IsSwappedTable(net.name_table, table2, node[n1].name, node[n2].name, n1, n2)
      BY <1>8
    <2> QED BY <1>1, <1>7, <2>3, <2>4, PartsSwap
  <1>10. /\ DOMAIN node2 = DOMAIN node
         /\ \A m \in DOMAIN node :
                /\ node2[m].type = node[m].type /\ node2[m].fanin = node[m].fanin
                /\ node2[m].F = node[m].F /\ node2[m].dup_free = node[m].dup_free
    <2>1. DOMAIN node2 = DOMAIN node
      BY <1>7 DEF IsSwapped
    <2>2. SUFFICES ASSUME NEW m \in DOMAIN node
                   PROVE /\ node2[m].type = node[m].type /\ node2[m].fanin = node[m].fanin
                         /\ node2[m].F = node[m].F /\ node2[m].dup_free = node[m].dup_free
      BY <2>1
    <2>3. PICK name : name = node2[m].name
      OBVIOUS
    <2>4. node2[m] = [node[m] EXCEPT !.name = name]
      BY <1>7, <2>3 DEF IsSwapped
    <2>5. IsNode(node[m])
      BY <1>1
    <2> QED BY <2>4, <2>5, NodeRename
  <1>11. FanoutsMirrorFanins(node2, net.fanout)
    <2>1. Lists(node, DOMAIN node, net.fanout) /\ net.fanout = [m \in DOMAIN node |-> net.fanout[m]]
      BY <1>1 DEF FanoutsMirrorFanins
    <2>2. Lists(node2, DOMAIN node, net.fanout)
      BY <1>10, <2>1, ListsSame
    <2> QED BY <1>10, <2>1, <2>2 DEF FanoutsMirrorFanins
  <1>12. Acyclic(node2)
    BY <1>1, <1>10 DEF Acyclic
  <1>13. Fit(node2, net.fanout, net.nodes, net.pi, net.po, table2, net.latch, net.latch_table)
    BY <1>9, <1>11, <1>12 DEF Fit
  <1>14. IsNetwork(res)
    BY <1>6, <1>13, NetIsNetwork
  <1>15. /\ res.node = node2 /\ res.fanout = net.fanout /\ res.nodes = net.nodes /\ res.pi = net.pi
         /\ res.po = net.po /\ res.latch = net.latch /\ res.latch_table = net.latch_table
    BY <1>6, NetFields
  <1>16. SameGraph(res, net)
    BY <1>10, <1>15 DEF SameGraph
  <1> QED BY <1>14, <1>16

-----------------------------------------------------------------------------
\* Latches are made, controlled and deleted.

\* A list that is no Seq of a set one knows.
LEMMA ListAppend ==
    ASSUME NEW s, s = [i \in 1..Len(s) |-> s[i]], Len(s) \in Nat, NEW x, NEW t, t = Append(s, x)
    PROVE  /\ t = [i \in 1..Len(t) |-> t[i]] /\ Len(t) = Len(s) + 1 /\ t[Len(s) + 1] = x
           /\ \A i \in 1..Len(s) : t[i] = s[i]
  <1>1. PICK n \in Nat : n = Len(s)
    OBVIOUS
  <1> DEFINE T == {s[i] : i \in 1..n} \union {x}
  <1>2. s \in [1..n -> T]
    BY <1>1
  <1> HIDE DEF T
  <1>3. s \in Seq(T) /\ x \in T
    BY <1>2 DEF T
  <1>4. t \in Seq(T) /\ Len(t) = n + 1 /\ t[n + 1] = x /\ \A i \in 1..n : t[i] = s[i]
    BY <1>1, <1>3
  <1> HIDE DEF T
  <1>5. t = [i \in 1..Len(t) |-> t[i]]
    <2>1. t \in Seq(T)
      BY <1>4
    <2>a. t \in UNION {[1..m -> T] : m \in Nat}
      BY <2>1, SeqDef, Zenon
    <2>2. PICK k \in Nat : t \in [1..k -> T]
      BY <2>a
    <2>3. Len(t) = k
      BY <2>2
    <2> QED BY <2>2, <2>3
  <1> QED BY <1>1, <1>4, <1>5

\* An end or a control of a latch is a node.
LEMMA TableNodes ==
    ASSUME NEW node, NEW latch, NEW latch_table, LatchesAreListed(node, latch, latch_table)
    PROVE  \A n \in DOMAIN latch_table : n \in DOMAIN node /\ node[n].type /= "INTERNAL"
  BY DEF LatchesAreListed, IsLatch

\* A latch between two terminals that are free is one more latch of the list.
LEMMA LatchesAdd ==
    ASSUME NEW node, NEW latch,
           NEW latch_table, LatchesAreListed(node, latch, latch_table), NIL \notin DOMAIN node,
           NEW input \in DOMAIN node, node[input].type = "PRIMARY_OUTPUT",
           input \notin DOMAIN latch_table,
           NEW output \in DOMAIN node, node[output].type = "PRIMARY_INPUT",
           output \notin DOMAIN latch_table,
           NEW init \in 0..3,
           NEW l, l = [input |-> input, output |-> output, initial_value |-> init, control |-> NIL],
           NEW latch2, latch2 = Append(latch, l),
           NEW table2, table2 = Put(Put(latch_table, input, input), output, input)
    PROVE  LatchesAreListed(node, latch2, table2)
  <1> DEFINE len == Len(latch)
  <1>1. /\ latch = [i \in 1..len |-> latch[i]] /\ len \in Nat
        /\ \A i \in 1..len : IsLatch(node, latch_table, latch[i])
        /\ \A i, j \in 1..len : latch[i].input = latch[j].input => i = j
    BY DEF LatchesAreListed
  <1>2. /\ latch2 = [i \in 1..Len(latch2) |-> latch2[i]] /\ Len(latch2) = len + 1
        /\ latch2[len + 1] = l
        /\ \A i \in 1..len : latch2[i] = latch[i]
    BY <1>1, ListAppend
  <1>3. /\ DOMAIN table2 = DOMAIN latch_table \union {input, output}
        /\ table2[input] = input /\ table2[output] = input
        /\ \A n \in DOMAIN latch_table : table2[n] = latch_table[n]
        /\ table2 = [n \in DOMAIN table2 |-> table2[n]]
    BY DEF Put
  <1>4. /\ l.input = input /\ l.output = output /\ l.initial_value = init /\ l.control = NIL
        /\ l = [input |-> l.input, output |-> l.output, initial_value |-> l.initial_value,
             control |-> l.control]
    OBVIOUS
  <1> HIDE DEF len
  <1>5. IsLatch(node, table2, l)
    BY <1>3, <1>4 DEF IsLatch
  <1>6. \A i \in 1..len : IsLatch(node, table2, latch[i])
    BY <1>1, <1>3 DEF IsLatch
  <1>7. \A i \in 1..len : latch[i].input /= input
    BY <1>1 DEF IsLatch
  <1>8. \A i \in 1..Len(latch2) : i \in 1..len \/ i = len + 1
    BY <1>1, <1>2
  <1>9. \A i \in 1..Len(latch2) : IsLatch(node, table2, latch2[i])
    BY <1>2, <1>5, <1>6, <1>8
  <1>10. \A i, j \in 1..Len(latch2) : latch2[i].input = latch2[j].input => i = j
    BY <1>1, <1>2, <1>4, <1>7, <1>8
  <1>11. ASSUME NEW n \in DOMAIN table2
         PROVE  IF table2[n] = NIL THEN n \in DOMAIN node /\ node[n].type = "PRIMARY_OUTPUT"
                ELSE \E i \in 1..Len(latch2) : n \in {latch2[i].input, latch2[i].output}
    <2>1. CASE n \in {input, output}
      <3>1. table2[n] = input /\ input /= NIL
        BY <1>3, <2>1
      <3>2. len + 1 \in 1..Len(latch2) /\ n \in {latch2[len + 1].input, latch2[len + 1].output}
        BY <1>1, <1>2, <1>4, <2>1
      <3> QED BY <3>1, <3>2
    <2>2. CASE n \notin {input, output}
      <3>1. n \in DOMAIN latch_table /\ table2[n] = latch_table[n]
        BY <1>3, <2>2
      <3>2. IF latch_table[n] = NIL THEN n \in DOMAIN node /\ node[n].type = "PRIMARY_OUTPUT"
            ELSE \E i \in 1..len : n \in {latch[i].input, latch[i].output}
        BY <3>1 DEF LatchesAreListed, len
      <3>3. \A i \in 1..len : i \in 1..Len(latch2)
        BY <1>1, <1>2
      <3> QED BY <1>2, <3>1, <3>2, <3>3
    <2> QED BY <2>1, <2>2
  <1>12. Len(latch2) \in Nat
    BY <1>1, <1>2
  <1> QED BY <1>2, <1>3, <1>9, <1>10, <1>11, <1>12 DEF LatchesAreListed

\* What putting a latch in does to each part of a network.
LEMMA AddLatchIs ==
    ASSUME NEW net, Shape(net), NEW input, NEW output, NEW init
    PROVE  AddLatch(net, input, output, init)
           = Net(net.node, net.fanout, net.nodes, net.pi, net.po, net.name_table,
                 Append(net.latch,
                   [input |-> input, output |-> output, initial_value |-> init, control |-> NIL]),
                 Put(Put(net.latch_table, input, input), output, input))
  <1> DEFINE l == [input |-> input, output |-> output, initial_value |-> init, control |-> NIL]
             u == Append(net.latch, l)  v == Put(Put(net.latch_table, input, input), output, input)
  <1>1. AddLatch(net, input, output, init) = [net EXCEPT !.latch = u, !.latch_table = v]
    BY DEF AddLatch
  <1> HIDE DEF u, v
  <1>2. AddLatch(net, input, output, init)
          = Net(net.node, net.fanout, net.nodes, net.pi, net.po, net.name_table, u, v)
    BY <1>1, Set_latches
  <1> QED BY <1>2 DEF u, v

\* All but the latches.
SameNodes(res, net) ==
    /\ res.node = net.node /\ res.fanout = net.fanout /\ res.nodes = net.nodes /\ res.pi = net.pi
    /\ res.po = net.po /\ res.name_table = net.name_table

\* A network with other latches that its nodes allow.
LEMMA FitLatches ==
    ASSUME NEW node, NEW fanout, NEW nodes, NEW pi, NEW po, NEW name_table, NEW latch,
           NEW latch_table,
           Fit(node, fanout, nodes, pi, po, name_table, latch, latch_table), NEW latch2,
           NEW latch_table2,
           LatchesAreListed(node, latch2, latch_table2)
    PROVE  Fit(node, fanout, nodes, pi, po, name_table, latch2, latch_table2)
  BY DEF Fit, Parts

\* NULL is not the address of a node.
LEMMA NilIsNoNode ==
    ASSUME NEW node, NEW nodes, NodesAreListed(node, nodes), NIL \notin Nat
    PROVE  NIL \notin DOMAIN node
  BY ListedFacts

\* A latch put between a free output and a free input keeps a network sound.
LEMMA AddLatchSound ==
    ASSUME NEW net, IsNetwork(net), NIL \notin Nat,
           NEW input \in DOMAIN net.node, net.node[input].type = "PRIMARY_OUTPUT",
           input \notin DOMAIN net.latch_table,
           NEW output \in DOMAIN net.node, net.node[output].type = "PRIMARY_INPUT",
           output \notin DOMAIN net.latch_table,
           NEW init \in 0..3, NEW res, res = AddLatch(net, input, output, init)
    PROVE  /\ IsNetwork(res) /\ SameNodes(res, net)
           /\ Len(res.latch) = Len(net.latch) + 1 /\ Len(net.latch) \in Nat
           /\ res.latch[Len(res.latch)].input = input
           /\ res.latch_table = Put(Put(net.latch_table, input, input), output, input)
           /\ \A i \in 1..Len(net.latch) : res.latch[i] = net.latch[i]
  <1> DEFINE l == [input |-> input, output |-> output, initial_value |-> init, control |-> NIL]
             latch2 == Append(net.latch, l)
                    table2 == Put(Put(net.latch_table, input, input), output, input)
  <1>1. /\ Shape(net) /\ NodesAreListed(net.node, net.nodes)
        /\ LatchesAreListed(net.node, net.latch, net.latch_table)
        /\ Fit(net.node, net.fanout, net.nodes, net.pi, net.po, net.name_table, net.latch,
             net.latch_table)
    BY NetworkHas
  <1>2. res = Net(net.node, net.fanout, net.nodes, net.pi, net.po, net.name_table, latch2, table2)
    BY <1>1, AddLatchIs
  <1>3. NIL \notin DOMAIN net.node
    BY <1>1, NilIsNoNode
  <1>4. l.input = input
    OBVIOUS
  <1>5. LatchesAreListed(net.node, latch2, table2)
    <2>1. PICK k : k = l
      OBVIOUS
    <2>2. k = [input |-> input, output |-> output, initial_value |-> init, control |-> NIL]
          /\ latch2 = Append(net.latch, k)
      BY <2>1
    <2>3. table2 = Put(Put(net.latch_table, input, input), output, input)
      OBVIOUS
    <2> HIDE DEF l, latch2, table2
    <2> QED BY <1>1, <1>3, <2>2, <2>3, LatchesAdd
  <1>6. /\ Len(latch2) = Len(net.latch) + 1 /\ Len(net.latch) \in Nat
        /\ latch2[Len(latch2)].input = input
        /\ \A i \in 1..Len(net.latch) : latch2[i] = net.latch[i]
    <2>1. net.latch = [i \in 1..Len(net.latch) |-> net.latch[i]] /\ Len(net.latch) \in Nat
      BY <1>1 DEF LatchesAreListed
    <2>2. latch2 = Append(net.latch, l)
      OBVIOUS
    <2> HIDE DEF latch2, l
    <2>3. /\ Len(latch2) = Len(net.latch) + 1 /\ latch2[Len(net.latch) + 1] = l
          /\ \A i \in 1..Len(net.latch) : latch2[i] = net.latch[i]
      BY <2>1, <2>2, ListAppend
    <2> QED BY <1>4, <2>1, <2>3
  <1> HIDE DEF latch2, table2
  <1>7. Fit(net.node, net.fanout, net.nodes, net.pi, net.po, net.name_table, latch2, table2)
    BY <1>1, <1>5, FitLatches
  <1>8. IsNetwork(res)
    BY <1>2, <1>7, NetIsNetwork
  <1>9. SameNodes(res, net) /\ res.latch = latch2 /\ res.latch_table = table2
    BY <1>2, NetFields DEF SameNodes
  <1> QED BY <1>6, <1>8, <1>9 DEF table2

\* What can control a latch.
IsControl(node, latch_table, control) ==
    \/ control = NIL
    \/ /\ control \in DOMAIN node /\ node[control].type = "PRIMARY_OUTPUT"
       /\ control \in DOMAIN latch_table => latch_table[control] = NIL

\* The latch on input has the control, and the others are what they were.
IsControlled(latch, latch2, input, control) ==
    /\ DOMAIN latch2 = DOMAIN latch /\ latch2 = [i \in DOMAIN latch |-> latch2[i]]
    /\ \A i \in DOMAIN latch : latch2[i] = IF latch[i].input = input
         THEN [latch[i] EXCEPT !.control = control]
                                           ELSE latch[i]

\* An output that is no end of a latch may become the control of one.
LEMMA LatchesControl ==
    ASSUME NEW node, NEW latch,
           NEW latch_table, LatchesAreListed(node, latch, latch_table), NIL \notin DOMAIN node,
           NEW control, IsControl(node, latch_table, control),
           NEW table2, table2 = IF control = NIL THEN latch_table
             ELSE Put(latch_table, control, NIL),
           NEW input, NEW latch2, IsControlled(latch, latch2, input, control)
    PROVE  LatchesAreListed(node, latch2, table2)
  <1> USE DEF IsControl, IsControlled
  <1> DEFINE len == Len(latch)
  <1>1. /\ latch = [i \in 1..len |-> latch[i]] /\ len \in Nat
        /\ \A i \in 1..len : IsLatch(node, latch_table, latch[i])
        /\ \A i, j \in 1..len : latch[i].input = latch[j].input => i = j
    BY DEF LatchesAreListed
  <1> HIDE DEF len
  <1>2. DOMAIN latch = 1..len
    BY <1>1
  <1>3. Len(latch2) = len /\ latch2 = [i \in 1..len |-> latch2[i]]
    <2>1. DOMAIN latch2 = 1..len /\ latch2 = [i \in 1..len |-> latch2[i]]
      BY <1>2
    <2> DEFINE T == {latch2[i] : i \in 1..len}
    <2>2. latch2 \in [1..len -> T]
      BY <2>1
    <2> HIDE DEF T
    <2>3. Len(latch2) = len
      BY <1>1, <2>2
    <2> QED BY <2>1, <2>3
  <1>4. /\ DOMAIN table2 = DOMAIN latch_table \union ({control} \ {NIL})
        /\ \A n \in DOMAIN latch_table : table2[n] = latch_table[n]
        /\ control /= NIL => control \in DOMAIN table2 /\ table2[control] = NIL
        /\ table2 = [n \in DOMAIN table2 |-> table2[n]]
    <2>0. latch_table = [n \in DOMAIN latch_table |-> latch_table[n]]
      BY DEF LatchesAreListed
    <2>1. CASE control = NIL
      BY <2>0, <2>1
    <2>2. CASE control /= NIL
      <3>1. table2 = Put(latch_table, control, NIL)
        BY <2>2
      <3>2. /\ DOMAIN table2 = DOMAIN latch_table \union {control} /\ table2[control] = NIL
            /\ \A n \in DOMAIN latch_table : n /= control => table2[n] = latch_table[n]
            /\ table2 = [n \in DOMAIN table2 |-> table2[n]]
        BY <3>1 DEF Put
      <3> QED BY <2>2, <3>2
    <2> QED BY <2>1, <2>2
  <1>5. ASSUME NEW i \in 1..len
        PROVE  /\ IsLatch(node, table2, latch2[i])
               /\ latch2[i].input = latch[i].input /\ latch2[i].output = latch[i].output
    <2>0. PICK l : l = latch[i]
      OBVIOUS
    <2>1. IsLatch(node, latch_table, l)
      BY <1>1, <2>0
    <2>2. l = [input |-> l.input, output |-> l.output, initial_value |-> l.initial_value,
            control |-> l.control]
      BY <2>1 DEF IsLatch
    <2>3. IsLatch(node, table2, l)
      BY <1>4, <2>1 DEF IsLatch
    <2>4. CASE latch[i].input /= input
      BY <1>2, <2>0, <2>3, <2>4
    <2>5. CASE latch[i].input = input
      <3>1. PICK m : m = [l EXCEPT !.control = control]
        OBVIOUS
      <3>2. latch2[i] = m
        BY <1>2, <2>0, <2>5, <3>1
      <3>3. m = [input |-> l.input, output |-> l.output, initial_value |-> l.initial_value,
              control |-> control]
        BY <2>2, <3>1
      <3>4. /\ m.input = l.input /\ m.output = l.output /\ m.initial_value = l.initial_value
            /\ m.control = control
            /\ m = [input |-> m.input, output |-> m.output, initial_value |-> m.initial_value,
                 control |-> m.control]
        BY <3>3
      <3>5. IsLatch(node, table2, m)
        BY <1>4, <2>3, <3>4 DEF IsLatch
      <3> QED BY <2>0, <3>2, <3>4, <3>5
    <2> QED BY <2>4, <2>5
  <1>6. \A i, j \in 1..len : latch2[i].input = latch2[j].input => i = j
    BY <1>1, <1>5
  <1>7. ASSUME NEW n \in DOMAIN table2
        PROVE  IF table2[n] = NIL THEN n \in DOMAIN node /\ node[n].type = "PRIMARY_OUTPUT"
               ELSE \E i \in 1..len : n \in {latch2[i].input, latch2[i].output}
    <2>1. CASE n \in DOMAIN latch_table
      <3>1. table2[n] = latch_table[n]
        BY <1>4, <2>1
      <3>2. IF latch_table[n] = NIL THEN n \in DOMAIN node /\ node[n].type = "PRIMARY_OUTPUT"
            ELSE \E i \in 1..len : n \in {latch[i].input, latch[i].output}
        BY <2>1 DEF LatchesAreListed, len
      <3> QED BY <1>5, <3>1, <3>2
    <2>2. CASE n \notin DOMAIN latch_table
      <3>1. n = control /\ control /= NIL
        BY <1>4, <2>2
      <3> QED BY <1>4, <3>1
    <2> QED BY <2>1, <2>2
  <1> QED BY <1>1, <1>3, <1>4, <1>5, <1>6, <1>7 DEF LatchesAreListed

\* latch_set_control keeps a network sound.
LEMMA SetControlSound ==
    ASSUME NEW net, IsNetwork(net), NIL \notin Nat, NEW input,
           NEW control, IsControl(net.node, net.latch_table, control),
           NEW res, res = latch_set_control(net, input, control)
    PROVE  /\ IsNetwork(res) /\ SameNodes(res, net) /\ Len(res.latch) = Len(net.latch)
           /\ res.latch_table = IF control = NIL THEN net.latch_table
                ELSE Put(net.latch_table, control, NIL)
  <1> DEFINE latch2 == [i \in DOMAIN net.latch |-> IF net.latch[i].input = input
                              THEN [net.latch[i] EXCEPT !.control = control] ELSE net.latch[i]]
             table2 == IF control = NIL THEN net.latch_table ELSE Put(net.latch_table, control, NIL)
  <1>1. /\ Shape(net) /\ NodesAreListed(net.node, net.nodes)
        /\ LatchesAreListed(net.node, net.latch, net.latch_table)
        /\ Fit(net.node, net.fanout, net.nodes, net.pi, net.po, net.name_table, net.latch,
             net.latch_table)
    BY NetworkHas
  <1>2. res = [net EXCEPT !.latch = latch2, !.latch_table = table2]
    BY DEF latch_set_control
  <1>3. /\ DOMAIN latch2 = DOMAIN net.latch /\ latch2 = [i \in DOMAIN net.latch |-> latch2[i]]
        /\ \A i \in DOMAIN net.latch : latch2[i] = IF net.latch[i].input = input
                              THEN [net.latch[i] EXCEPT !.control = control] ELSE net.latch[i]
    <2>1. /\ DOMAIN latch2 = DOMAIN net.latch
          /\ \A i \in DOMAIN net.latch : latch2[i] = IF net.latch[i].input = input
                              THEN [net.latch[i] EXCEPT !.control = control] ELSE net.latch[i]
      OBVIOUS
    <2>2. latch2 = [i \in DOMAIN latch2 |-> latch2[i]]
      OBVIOUS
    <2> HIDE DEF latch2
    <2> QED BY <2>1, <2>2
  <1>4. table2 = IF control = NIL THEN net.latch_table ELSE Put(net.latch_table, control, NIL)
    OBVIOUS
  <1> HIDE DEF latch2, table2
  <1>5. res = Net(net.node, net.fanout, net.nodes, net.pi, net.po, net.name_table, latch2, table2)
    BY <1>1, <1>2, Set_latches
  <1>6. NIL \notin DOMAIN net.node
    BY <1>1, NilIsNoNode
  <1>7. LatchesAreListed(net.node, latch2, table2)
    <2>1. IsControlled(net.latch, latch2, input, control)
      BY <1>3 DEF IsControlled
    <2> QED BY <1>1, <2>1, <1>4, <1>6, LatchesControl
  <1>8. Len(latch2) = Len(net.latch)
    <2>1. PICK n \in Nat : n = Len(net.latch) /\ DOMAIN net.latch = 1..n
      BY <1>1 DEF LatchesAreListed
    <2> DEFINE T == {latch2[i] : i \in 1..n}
    <2>2. latch2 \in [1..n -> T]
      BY <1>3, <2>1
    <2> HIDE DEF T
    <2>3. Len(latch2) = n
      BY <2>2
    <2> QED BY <2>1, <2>3
  <1>9. Fit(net.node, net.fanout, net.nodes, net.pi, net.po, net.name_table, latch2, table2)
    BY <1>1, <1>7, FitLatches
  <1>10. IsNetwork(res)
    BY <1>5, <1>9, NetIsNetwork
  <1>11. SameNodes(res, net) /\ res.latch = latch2 /\ res.latch_table = table2
    BY <1>5, NetFields DEF SameNodes
  <1> QED BY <1>4, <1>8, <1>10, <1>11

\* An input is a proper node of any network.
LEMMA InputIsProper ==
    ASSUME NEW node, NEW name, NEW nd, nd = PrimaryInput(name)
    PROVE  IsProper(node, nd) /\ nd.type = "PRIMARY_INPUT" /\ nd.fanin = <<>> /\ nd.name = name
  <1> DEFINE no == FALSE
  <1>1. nd = [type |-> "PRIMARY_INPUT", fanin |-> <<>>, F |-> {}, dup_free |-> no, name |-> name]
    BY DEF PrimaryInput
  <1> HIDE DEF no
  <1>2. nd.type = "PRIMARY_INPUT" /\ nd.fanin = <<>> /\ nd.F = {} /\ nd.dup_free = no
        /\ nd.name = name
    BY <1>1
  <1>3. nd = [type |-> nd.type, fanin |-> nd.fanin, F |-> nd.F, dup_free |-> nd.dup_free,
          name |-> nd.name]
    BY <1>1
  <1>4. <<>> \in Seq(Nat) /\ Range(<<>>) = {}
    BY EmptyFacts
  <1>5. nd.dup_free \in BOOLEAN /\ ~nd.dup_free
    BY <1>2 DEF no
  <1>6. IsNode(nd)
    BY <1>2, <1>3, <1>4, <1>5 DEF IsNode, Types, IsFunction
  <1> QED BY <1>2, <1>4, <1>5, <1>6 DEF IsProper

\* A list of one item.
LEMMA OneFacts ==
    ASSUME NEW S, NEW x \in S
    PROVE  /\ <<x>> \in Seq(S) /\ Len(<<x>>) = 1 /\ Range(<<x>>) = {x} /\ <<x>>[1] = x
           /\ DOMAIN <<x>> = {1}
           /\ IsInjective(<<x>>)
  <1>1. <<x>> \in Seq(S) /\ Len(<<x>>) = 1 /\ <<x>>[1] = x /\ DOMAIN <<x>> = {1}
    OBVIOUS
  <1>2. Range(<<x>>) = {x}
    BY <1>1 DEF Range
  <1>3. IsInjective(<<x>>)
    BY <1>1 DEF IsInjective
  <1> QED BY <1>1, <1>2, <1>3

\* An output is a proper node where its driver is a node and no output.
LEMMA OutputIsProper ==
    ASSUME NEW node, NEW driver \in DOMAIN node, driver \in Nat,
    node[driver].type /= "PRIMARY_OUTPUT",
           NEW nd, nd = PrimaryOutput(driver)
    PROVE  IsProper(node, nd) /\ nd.type = "PRIMARY_OUTPUT" /\ nd.fanin = <<driver>>
           /\ nd.name = NIL
  <1> DEFINE no == FALSE
  <1>1. nd = [type |-> "PRIMARY_OUTPUT", fanin |-> <<driver>>, F |-> {}, dup_free |-> no,
          name |-> NIL]
    BY DEF PrimaryOutput
  <1> HIDE DEF no
  <1>2. nd.type = "PRIMARY_OUTPUT" /\ nd.fanin = <<driver>> /\ nd.F = {} /\ nd.dup_free = no
        /\ nd.name = NIL
    BY <1>1
  <1>3. nd = [type |-> nd.type, fanin |-> nd.fanin, F |-> nd.F, dup_free |-> nd.dup_free,
          name |-> nd.name]
    BY <1>1
  <1>4. <<driver>> \in Seq(Nat) /\ Range(<<driver>>) = {driver} /\ Len(<<driver>>) = 1
    BY OneFacts
  <1>5. nd.dup_free \in BOOLEAN /\ ~nd.dup_free
    BY <1>2 DEF no
  <1>6. IsNode(nd)
    BY <1>2, <1>3, <1>4, <1>5 DEF IsNode, Types, IsFunction
  <1> QED BY <1>2, <1>4, <1>5, <1>6 DEF IsProper

\* network_add_primary_input keeps a network sound.
LEMMA AddInputSound ==
    ASSUME NEW net, IsNetwork(net), NEW n \in Nat, n \notin DOMAIN net.node,
           NEW res, res = network_add_primary_input(net, n, NIL)
    PROVE  IsNetwork(res) /\ IsAdded(res, net, n, "PRIMARY_INPUT", <<>>)
  <1>1. PICK nd : nd = PrimaryInput(NIL)
    OBVIOUS
  <1>2. IsProper(net.node, nd) /\ nd.type = "PRIMARY_INPUT" /\ nd.fanin = <<>> /\ nd.name = NIL
    BY <1>1, InputIsProper
  <1>3. res = network_add_node(net, n, nd)
    BY <1>1 DEF network_add_primary_input
  <1>4. IsNetwork(res) /\ IsAdded(res, net, n, nd.type, nd.fanin)
    BY <1>2, <1>3, AddNodeSound
  <1> QED BY <1>2, <1>4

\* network_add_fake_primary_output keeps a network sound.
LEMMA AddOutputSound ==
    ASSUME NEW net, IsNetwork(net), NEW n \in Nat, n \notin DOMAIN net.node,
           NEW driver \in DOMAIN net.node, net.node[driver].type /= "PRIMARY_OUTPUT",
           NEW res, res = network_add_fake_primary_output(net, n, driver)
    PROVE  IsNetwork(res) /\ IsAdded(res, net, n, "PRIMARY_OUTPUT", <<driver>>)
  <1>1. PICK nd : nd = PrimaryOutput(driver)
    OBVIOUS
  <1>0. driver \in Nat
    BY NetworkHas, ListedFacts
  <1>2. IsProper(net.node, nd) /\ nd.type = "PRIMARY_OUTPUT" /\ nd.fanin = <<driver>>
        /\ nd.name = NIL
    BY <1>0, <1>1, OutputIsProper
  <1>3. PICK one : one = network_add_node(net, n, nd)
    OBVIOUS
  <1>4. PICK two : two = network_swap_names(one, driver, n)
    OBVIOUS
  <1>5. res = network_swap_names(two, driver, n)
    BY <1>1, <1>3, <1>4 DEF network_add_fake_primary_output, network_add_primary_output
  <1>6. IsNetwork(one) /\ IsAdded(one, net, n, "PRIMARY_OUTPUT", <<driver>>)
    <2>1. IsNetwork(one) /\ IsAdded(one, net, n, nd.type, nd.fanin)
      BY <1>2, <1>3, AddNodeSound
    <2> QED BY <1>2, <2>1
  <1>7. driver \in DOMAIN one.node /\ n \in DOMAIN one.node /\ driver /= n
    BY <1>6 DEF IsAdded
  <1>8. IsNetwork(two) /\ SameGraph(two, one)
    BY <1>4, <1>6, <1>7, SwapNamesSound
  <1>9. driver \in DOMAIN two.node /\ n \in DOMAIN two.node
    BY <1>7, <1>8 DEF SameGraph
  <1>10. IsNetwork(res) /\ SameGraph(res, two)
    BY <1>5, <1>7, <1>8, <1>9, SwapNamesSound
  <1>11. IsAdded(res, net, n, "PRIMARY_OUTPUT", <<driver>>)
    BY <1>6, <1>8, <1>10 DEF IsAdded, SameGraph
  <1> QED BY <1>10, <1>11

\* A new node is in no table.
LEMMA FreshUse ==
    ASSUME NEW net, IsNetwork(net)
    PROVE  Unused(net) \in Nat /\ Unused(net) \notin DOMAIN net.node
           /\ Unused(net) \notin DOMAIN net.latch_table
  <1>1. NodesAreListed(net.node, net.nodes)
        /\ LatchesAreListed(net.node, net.latch, net.latch_table)
    BY NetworkHas
  <1> QED BY <1>1, UnusedFacts, TableNodes

\* The nodes there were are still there, with their types.
SameTypes(res, net) ==
    \A m \in DOMAIN net.node : m \in DOMAIN res.node /\ res.node[m].type = net.node[m].type

\* A pin may get any input as its fanin.
LEMMA PatchToInput ==
    ASSUME NEW net, IsNetwork(net), NEW n \in DOMAIN net.node, NEW old \in DOMAIN net.node,
           NEW new \in DOMAIN net.node, net.node[new].type = "PRIMARY_INPUT",
           NEW res, res = node_patch_fanin(net, n, old, new), old \in Range(net.node[n].fanin)
    PROVE  IsNetwork(res) /\ SameLists(res, net) /\ SameTypes(res, net)
  <1>1. \E i \in DOMAIN net.node[n].fanin : net.node[n].fanin[i] = old
    BY DEF Range
  <1>2. Built(net) /\ Acyclic(net.node) /\ TerminalsAreListed(net.node, net.pi, net.po)
    BY BuiltFacts, NetworkHas
  <1>3. /\ Built(res) /\ SameLists(res, net)
        /\ \E pin : IsPatched(net.node, res.node, n, pin, old, new)
    BY <1>1, <1>2, PatchSound
  <1>4. PICK pin : IsPatched(net.node, res.node, n, pin, old, new)
    BY <1>3
  <1>5. n /= new /\ net.node[new].fanin = <<>>
    BY <1>1, <1>2 DEF TerminalsAreListed
  <1>6. res.node[new].fanin = <<>> /\ DOMAIN res.node = DOMAIN net.node
    BY <1>4, <1>5 DEF IsPatched
  <1>7. ASSUME NEW m \in DOMAIN net.node
        PROVE  /\ Range(res.node[m].fanin) \subseteq Range(net.node[m].fanin) \union {new}
               /\ res.node[m].type = net.node[m].type
    <2>1. CASE m = n
      BY <1>4, <2>1 DEF IsPatched, Range
    <2>2. CASE m /= n
      BY <1>4, <2>2 DEF IsPatched
    <2> QED BY <2>1, <2>2
  <1>8. \A m \in {new} : Range(res.node[m].fanin) = {}
    BY <1>6, EmptyFacts
  <1>9. Acyclic(res.node)
    <2> DEFINE E == {new}
    <2>1. \A m \in DOMAIN net.node : Range(res.node[m].fanin) \subseteq Range(net.node[m].fanin)
            \union E
      BY <1>7
    <2>2. \A m \in E : Range(res.node[m].fanin) = {}
      BY <1>8
    <2> HIDE DEF E
    <2> QED BY <1>2, <1>6, <2>1, <2>2, AcyclicByLeaves
  <1> QED BY <1>3, <1>6, <1>7, <1>9, BuiltFacts DEF SameTypes

\* What has been put at the end is at the end.
LEMMA LastAppended ==
    ASSUME NEW S, NEW s \in Seq(S), NEW x \in S, NEW t, t = Append(s, x)
    PROVE  t[Len(t)] = x
  OBVIOUS

\* The last output and the last input are new and no ends of latches.
IsDisconnected(res, net, output, input) ==
    /\ res.po[Len(res.po)] = output /\ res.pi[Len(res.pi)] = input
    /\ output \in DOMAIN res.node /\ res.node[output].type = "PRIMARY_OUTPUT"
    /\ input \in DOMAIN res.node /\ res.node[input].type = "PRIMARY_INPUT"
    /\ output \notin DOMAIN net.latch_table /\ input \notin DOMAIN net.latch_table
    /\ res.latch = net.latch /\ res.latch_table = net.latch_table
    /\ SameTypes(res, net)

\* network_disconnect keeps a network sound, and makes an output and an input.
LEMMA DisconnectSound ==
    ASSUME NEW net, IsNetwork(net), NEW n1 \in DOMAIN net.node, NEW n2 \in DOMAIN net.node,
           n1 \in Range(net.node[n2].fanin), NEW res, res = network_disconnect(net, n1, n2)
    PROVE  IsNetwork(res) /\ \E output, input : IsDisconnected(res, net, output, input)
  <1>1. PICK o : o = Unused(net)
    OBVIOUS
  <1>2. PICK cut : cut = network_add_fake_primary_output(net, o, n1)
    OBVIOUS
  <1>3. PICK i : i = Unused(cut)
    OBVIOUS
  <1>4. PICK more : more = network_add_primary_input(cut, i, NIL)
    OBVIOUS
  <1>5. res = node_patch_fanin(more, n2, n1, i)
    BY <1>1, <1>2, <1>3, <1>4 DEF network_disconnect
  <1>6. o \in Nat /\ o \notin DOMAIN net.node /\ o \notin DOMAIN net.latch_table
    BY <1>1, FreshUse
  <1>7. net.node[n1].type /= "PRIMARY_OUTPUT" /\ net.po \in Seq(Nat) /\ net.pi \in Seq(Nat)
    <2>1. TerminalsAreListed(net.node, net.pi, net.po)
      BY NetworkHas
    <2> QED BY <2>1 DEF TerminalsAreListed, Range
  <1>8. IsNetwork(cut) /\ IsAdded(cut, net, o, "PRIMARY_OUTPUT", <<n1>>)
    BY <1>2, <1>6, <1>7, AddOutputSound
  <1>9. i \in Nat /\ i \notin DOMAIN cut.node /\ i \notin DOMAIN cut.latch_table
    BY <1>3, <1>8, FreshUse
  <1>10. IsNetwork(more) /\ IsAdded(more, cut, i, "PRIMARY_INPUT", <<>>)
    BY <1>4, <1>8, <1>9, AddInputSound
  <1>11. /\ n1 \in DOMAIN more.node /\ n2 \in DOMAIN more.node /\ i \in DOMAIN more.node
         /\ o \in DOMAIN more.node
         /\ more.node[n2].fanin = net.node[n2].fanin /\ more.node[i].type = "PRIMARY_INPUT"
         /\ more.node[o].type = "PRIMARY_OUTPUT" /\ SameTypes(more, net)
         /\ more.latch = net.latch /\ more.latch_table = net.latch_table
         /\ more.po = Append(net.po, o) /\ more.pi = Append(net.pi, i)
    BY <1>8, <1>9, <1>10 DEF IsAdded, SameTypes
  <1>12. IsNetwork(res) /\ SameLists(res, more) /\ SameTypes(res, more)
    BY <1>5, <1>10, <1>11, PatchToInput
  <1>13. res.po = Append(net.po, o) /\ res.pi = Append(net.pi, i) /\ res.latch = net.latch
         /\ res.latch_table = net.latch_table
    BY <1>11, <1>12 DEF SameLists
  <1>14. res.po[Len(res.po)] = o /\ res.pi[Len(res.pi)] = i
    BY <1>6, <1>7, <1>9, <1>13, LastAppended
  <1>15. SameTypes(res, net)
    BY <1>11, <1>12 DEF SameTypes
  <1>16. /\ o \in DOMAIN res.node /\ res.node[o].type = "PRIMARY_OUTPUT"
         /\ i \in DOMAIN res.node /\ res.node[i].type = "PRIMARY_INPUT"
    BY <1>11, <1>12 DEF SameTypes
  <1>17. i \notin DOMAIN net.latch_table
    BY <1>8, <1>9 DEF IsAdded
  <1>18. IsDisconnected(res, net, o, i)
    BY <1>6, <1>13, <1>14, <1>15, <1>16, <1>17 DEF IsDisconnected
  <1> QED BY <1>12, <1>18

\* network_create_latch, with or without a control set after it, keeps a
\* network sound.
LEMMA CreateLatchSound ==
    ASSUME NEW net, IsNetwork(net), NIL \notin Nat, NEW n1 \in DOMAIN net.node,
           NEW n2 \in DOMAIN net.node,
           n1 \in Range(net.node[n2].fanin), NEW init \in 0..3,
           NEW control, control = NIL
           \/ control \in {n \in DOMAIN net.latch_table : net.latch_table[n] = NIL},
           NEW made, made = network_create_latch(net, n1, n2, init),
           NEW input, NEW res, res = latch_set_control(made, input, control)
    PROVE  IsNetwork(res)
  <1>1. PICK cut : cut = network_disconnect(net, n1, n2)
    OBVIOUS
  <1>2. IsNetwork(cut) /\ \E o, i : IsDisconnected(cut, net, o, i)
    BY <1>1, DisconnectSound
  <1>3. PICK o, i : IsDisconnected(cut, net, o, i)
    BY <1>2
  <1>4. made = AddLatch(cut, o, i, init)
    BY <1>1, <1>3 DEF network_create_latch, IsDisconnected
  <1>5. /\ o \in DOMAIN cut.node /\ cut.node[o].type = "PRIMARY_OUTPUT"
        /\ o \notin DOMAIN cut.latch_table
        /\ i \in DOMAIN cut.node /\ cut.node[i].type = "PRIMARY_INPUT"
        /\ i \notin DOMAIN cut.latch_table
        /\ cut.latch_table = net.latch_table /\ SameTypes(cut, net)
    BY <1>3 DEF IsDisconnected
  <1>6. /\ IsNetwork(made) /\ SameNodes(made, cut)
        /\ made.latch_table = Put(Put(cut.latch_table, o, o), i, o)
    BY <1>2, <1>4, <1>5, AddLatchSound
  <1>7. IsControl(made.node, made.latch_table, control)
    <2>1. CASE control = NIL
      BY <2>1 DEF IsControl
    <2>2. CASE control \in DOMAIN net.latch_table /\ net.latch_table[control] = NIL
      <3>1. control \in DOMAIN net.node /\ net.node[control].type = "PRIMARY_OUTPUT"
        BY <2>2, NetworkHas DEF LatchesAreListed
      <3>2. control /= o /\ control /= i
        BY <1>5, <2>2
      <3>3. made.latch_table[control] = NIL
        BY <1>5, <1>6, <2>2, <3>2 DEF Put
      <3>4. control \in DOMAIN made.node /\ made.node[control].type = "PRIMARY_OUTPUT"
        BY <1>5, <1>6, <3>1 DEF SameTypes, SameNodes
      <3> QED BY <3>3, <3>4 DEF IsControl
    <2> QED BY <2>1, <2>2
  <1> QED BY <1>6, <1>7, SetControlSound

\* The latch list as a set.
LEMMA LatchFacts ==
    ASSUME NEW node, NEW latch, NEW latch_table, LatchesAreListed(node, latch, latch_table)
    PROVE  /\ latch \in Seq(Range(latch)) /\ IsInjective(latch)
           /\ \A l \in Range(latch) : IsLatch(node, latch_table, l)
           /\ \A l, m \in Range(latch) : l.input = m.input => l = m
           /\ Range(latch) = {latch[i] : i \in 1..Len(latch)} /\ Len(latch) \in Nat
  <1> DEFINE len == Len(latch)  T == {latch[i] : i \in 1..len}
  <1>1. /\ latch = [i \in 1..len |-> latch[i]] /\ len \in Nat
        /\ \A i \in 1..len : IsLatch(node, latch_table, latch[i])
        /\ \A i, j \in 1..len : latch[i].input = latch[j].input => i = j
    BY DEF LatchesAreListed
  <1> HIDE DEF len
  <1>2. DOMAIN latch = 1..len
    BY <1>1
  <1>3. Range(latch) = T
    BY <1>2 DEF Range
  <1>4. latch \in [1..len -> T]
    BY <1>1
  <1> HIDE DEF T
  <1>5. latch \in Seq(T)
    BY <1>1, <1>4
  <1>6. IsInjective(latch)
    BY <1>1, <1>2 DEF IsInjective
  <1>7. \A l \in T : \E i \in 1..len : l = latch[i]
    BY DEF T
  <1>8. \A l \in T : IsLatch(node, latch_table, l)
    BY <1>1, <1>7
  <1>9. \A l, m \in T : l.input = m.input => l = m
    BY <1>1, <1>7
  <1> QED BY <1>1, <1>3, <1>5, <1>6, <1>8, <1>9 DEF T, len

\* The converse: a list of latches seen as a set.
LEMMA LatchesFromSet ==
    ASSUME NEW node, NEW L, NEW latch \in Seq(L), IsInjective(latch), NEW latch_table,
           \A l \in Range(latch) : IsLatch(node, latch_table, l),
           \A l, m \in Range(latch) : l.input = m.input => l = m,
           IsMapping(latch_table),
           \A n \in DOMAIN latch_table :
               IF latch_table[n] = NIL THEN n \in DOMAIN node /\ node[n].type = "PRIMARY_OUTPUT"
               ELSE \E l \in Range(latch) : n \in {l.input, l.output}
    PROVE  LatchesAreListed(node, latch, latch_table)
  <1>1. \A i \in 1..Len(latch) : latch[i] \in Range(latch)
    BY RangeFacts
  <1>2. \A l \in Range(latch) : \E i \in 1..Len(latch) : latch[i] = l
    BY RangeFacts
  <1>3. \A i, j \in 1..Len(latch) : latch[i] = latch[j] => i = j
    BY InjectiveFacts
  <1>4. Len(latch) \in Nat
    OBVIOUS
  <1>5. latch = [i \in 1..Len(latch) |-> latch[i]]
    <2>a. latch \in UNION {[1..m -> L] : m \in Nat}
      BY SeqDef, Zenon
    <2>1. PICK k \in Nat : latch \in [1..k -> L]
      BY <2>a
    <2>2. Len(latch) = k
      BY <2>1
    <2> QED BY <2>1, <2>2
  <1>6. \A i \in 1..Len(latch) : IsLatch(node, latch_table, latch[i])
    BY <1>1
  <1>7. \A i, j \in 1..Len(latch) : latch[i].input = latch[j].input => i = j
    BY <1>1, <1>3
  <1>8. ASSUME NEW n \in DOMAIN latch_table
        PROVE  IF latch_table[n] = NIL THEN n \in DOMAIN node /\ node[n].type = "PRIMARY_OUTPUT"
               ELSE \E i \in 1..Len(latch) : n \in {latch[i].input, latch[i].output}
    BY <1>2
  <1> QED BY <1>4, <1>5, <1>6, <1>7, <1>8, Zenon DEF LatchesAreListed, IsMapping

\* A latch and its two entries of the table go together.
LEMMA LatchesDelete ==
    ASSUME NEW node, NEW latch, NEW latch_table, LatchesAreListed(node, latch, latch_table),
           NIL \notin DOMAIN node, NEW l \in Range(latch),
           NEW latch2, latch2 = Minus(latch, {l}),
           NEW table2, table2 = Without(Without(latch_table, l.input), l.output)
    PROVE  /\ LatchesAreListed(node, latch2, table2)
           /\ Range(latch2) = Range(latch) \ {l}
           /\ l.input \notin DOMAIN table2 /\ l.output \notin DOMAIN table2
  <1> DEFINE L == Range(latch)
  <1>1. /\ latch \in Seq(L) /\ IsInjective(latch)
        /\ \A m \in L : IsLatch(node, latch_table, m)
        /\ \A k, m \in L : k.input = m.input => k = m
    BY LatchFacts
  <1>2. latch2 \in Seq(L) /\ IsInjective(latch2) /\ Range(latch2) = L \ {l}
    BY <1>1, MinusFacts
  <1>3. /\ DOMAIN table2 = DOMAIN latch_table \ {l.input, l.output}
        /\ \A n \in DOMAIN table2 : table2[n] = latch_table[n]
        /\ table2 = [n \in DOMAIN table2 |-> table2[n]]
    BY DEF Without
  <1>4. \A n \in DOMAIN latch_table :
               IF latch_table[n] = NIL THEN n \in DOMAIN node /\ node[n].type = "PRIMARY_OUTPUT"
               ELSE \E k \in L : n \in {k.input, k.output}
    <2>1. SUFFICES ASSUME NEW n \in DOMAIN latch_table
                   PROVE IF latch_table[n] = NIL THEN n \in DOMAIN node
                         /\ node[n].type = "PRIMARY_OUTPUT"
                         ELSE \E k \in L : n \in {k.input, k.output}
      OBVIOUS
    <2>2. IF latch_table[n] = NIL THEN n \in DOMAIN node /\ node[n].type = "PRIMARY_OUTPUT"
          ELSE \E i \in 1..Len(latch) : n \in {latch[i].input, latch[i].output}
      BY DEF LatchesAreListed
    <2>3. \A i \in 1..Len(latch) : latch[i] \in L
      BY <1>1, RangeFacts
    <2> QED BY <2>2, <2>3
  <1>0. l \in L
    OBVIOUS
  <1> HIDE DEF L
  <1>5. ASSUME NEW m \in L, m /= l
        PROVE  IsLatch(node, table2, m) /\ {m.input, m.output} \intersect {l.input, l.output} = {}
    <2>1. IsLatch(node, latch_table, m) /\ IsLatch(node, latch_table, l)
      BY <1>0, <1>1
    <2>2. m.input /= l.input
      BY <1>0, <1>1, <1>5
    <2>3. m.input /= l.output /\ m.output /= l.input
      BY <2>1 DEF IsLatch
    <2>4. m.output /= l.output
      BY <2>1, <2>2 DEF IsLatch
    <2>5. m.control /= NIL => m.control /= l.input /\ m.control /= l.output
      BY <2>1 DEF IsLatch
    <2>6. IsLatch(node, table2, m)
      BY <1>3, <2>1, <2>2, <2>3, <2>4, <2>5 DEF IsLatch
    <2> QED BY <2>2, <2>3, <2>4, <2>6
  <1>6. \A m \in Range(latch2) : IsLatch(node, table2, m)
    BY <1>2, <1>5
  <1>7. \A k, m \in Range(latch2) : k.input = m.input => k = m
    BY <1>1, <1>2
  <1>8. ASSUME NEW n \in DOMAIN table2
        PROVE  IF table2[n] = NIL THEN n \in DOMAIN node /\ node[n].type = "PRIMARY_OUTPUT"
               ELSE \E k \in Range(latch2) : n \in {k.input, k.output}
    <2>1. n \in DOMAIN latch_table /\ table2[n] = latch_table[n] /\ n /= l.input /\ n /= l.output
      BY <1>3
    <2>2. CASE table2[n] = NIL
      BY <1>4, <2>1, <2>2
    <2>3. CASE table2[n] /= NIL
      <3>1. PICK k \in L : n \in {k.input, k.output}
        BY <1>4, <2>1, <2>3
      <3>2. k \in Range(latch2)
        BY <1>2, <2>1, <3>1
      <3> QED BY <2>3, <3>1, <3>2
    <2> QED BY <2>2, <2>3
  <1>9. LatchesAreListed(node, latch2, table2)
    <2>1. IsMapping(table2)
      BY <1>3 DEF IsMapping
    <2> QED BY <1>2, <2>1, <1>6, <1>7, <1>8, LatchesFromSet
  <1>10. l.input \notin DOMAIN table2 /\ l.output \notin DOMAIN table2
    BY <1>3
  <1> QED BY <1>2, <1>9, <1>10 DEF L

\* network_delete_latch keeps a network sound, and its ends are no ends of
\* latches any more.
LEMMA DeleteLatchSound ==
    ASSUME NEW net, IsNetwork(net), NIL \notin Nat, NEW l \in Range(net.latch),
           NEW res, res = network_delete_latch(net, l)
    PROVE  /\ IsNetwork(res) /\ SameNodes(res, net) /\ Range(res.latch) = Range(net.latch) \ {l}
           /\ l.input \notin DOMAIN res.latch_table /\ l.output \notin DOMAIN res.latch_table
           /\ IsLatch(net.node, net.latch_table, l)
           /\ DOMAIN res.latch_table = DOMAIN net.latch_table \ {l.input, l.output}
  <1> DEFINE latch2 == Minus(net.latch, {l})
             table2 == Without(Without(net.latch_table, l.input), l.output)
  <1>1. /\ Shape(net) /\ NodesAreListed(net.node, net.nodes)
        /\ LatchesAreListed(net.node, net.latch, net.latch_table)
        /\ Fit(net.node, net.fanout, net.nodes, net.pi, net.po, net.name_table, net.latch,
             net.latch_table)
    BY NetworkHas
  <1>2. res = [net EXCEPT !.latch = latch2, !.latch_table = table2]
    BY DEF network_delete_latch
  <1>3. NIL \notin DOMAIN net.node
    BY <1>1, NilIsNoNode
  <1>4. /\ LatchesAreListed(net.node, latch2, table2) /\ Range(latch2) = Range(net.latch) \ {l}
        /\ l.input \notin DOMAIN table2 /\ l.output \notin DOMAIN table2
    BY <1>1, <1>3, LatchesDelete
  <1>10. DOMAIN table2 = DOMAIN net.latch_table \ {l.input, l.output}
    <2>1. PICK t, a, b, c : /\ t = net.latch_table /\ a = l.input /\ b = l.output
                            /\ c = Without(t, a)
      OBVIOUS
    <2>2. DOMAIN c = DOMAIN t \ {a}
      BY <2>1, WithoutFacts
    <2>3. DOMAIN Without(c, b) = DOMAIN c \ {b}
      BY WithoutFacts
    <2>4. table2 = Without(c, b)
      BY <2>1
    <2> HIDE DEF table2
    <2> QED BY <2>1, <2>2, <2>3, <2>4
  <1> HIDE DEF latch2, table2
  <1>5. res = Net(net.node, net.fanout, net.nodes, net.pi, net.po, net.name_table, latch2, table2)
    BY <1>1, <1>2, Set_latches
  <1>6. Fit(net.node, net.fanout, net.nodes, net.pi, net.po, net.name_table, latch2, table2)
    BY <1>1, <1>4, FitLatches
  <1>7. IsNetwork(res)
    BY <1>5, <1>6, NetIsNetwork
  <1>8. SameNodes(res, net) /\ res.latch = latch2 /\ res.latch_table = table2
    BY <1>5, NetFields DEF SameNodes
  <1>9. IsLatch(net.node, net.latch_table, l)
    BY <1>1, LatchFacts
  <1> QED BY <1>4, <1>7, <1>8, <1>9, <1>10

\* An output feeds nothing.
LEMMA OutputUnused ==
    ASSUME NEW net, IsNetwork(net), NEW n \in DOMAIN net.node, net.node[n].type = "PRIMARY_OUTPUT"
    PROVE  net.fanout[n] = <<>>
  <1>1. TerminalsAreListed(net.node, net.pi, net.po) /\ FanoutsMirrorFanins(net.node, net.fanout)
    BY NetworkHas
  <1>2. \A m \in DOMAIN net.node : \A i \in DOMAIN net.node[m].fanin : net.node[m].fanin[i] /= n
    BY <1>1 DEF TerminalsAreListed
  <1> QED BY <1>1, <1>2, NoUses

\* Two nodes of a network are gone.
IsReduced(res, net, ends) ==
    /\ DOMAIN res.node = DOMAIN net.node \ ends
    /\ \A m \in DOMAIN res.node : res.node[m] = net.node[m]
    /\ \A m \in DOMAIN res.node : net.fanout[m] = <<>> => res.fanout[m] = <<>>
    /\ res.latch = net.latch /\ res.latch_table = net.latch_table

\* A node is gone, and so are its uses.
LEMMA DeleteNodeReduces ==
    ASSUME NEW net, IsNetwork(net), NEW n \in DOMAIN net.node, n \notin DOMAIN net.latch_table,
           net.fanout[n] = <<>>, NEW res, res = network_delete_node(net, n)
    PROVE  IsNetwork(res) /\ IsReduced(res, net, {n})
  <1>1. /\ IsNetwork(res)
        /\ res.node = Without(net.node, n)
        /\ res.latch = net.latch /\ res.latch_table = net.latch_table
        /\ \A x \in DOMAIN res.node : net.fanout[x] = <<>> => res.fanout[x] = <<>>
    BY DeleteNodeSound
  <1>2. DOMAIN res.node = DOMAIN net.node \ {n}
        /\ \A m \in DOMAIN res.node : res.node[m] = net.node[m]
    <2>1. PICK node2 : node2 = Without(net.node, n)
      OBVIOUS
    <2>2. DOMAIN node2 = DOMAIN net.node \ {n} /\ \A m \in DOMAIN node2 : node2[m] = net.node[m]
      BY <2>1 DEF Without
    <2> QED BY <1>1, <2>1, <2>2
  <1> QED BY <1>1, <1>2 DEF IsReduced

\* An output and an unused input can go one after the other.
LEMMA DeleteEndsSound ==
    ASSUME NEW net, IsNetwork(net),
           NEW po \in DOMAIN net.node, net.node[po].type = "PRIMARY_OUTPUT",
           po \notin DOMAIN net.latch_table,
           NEW pi \in DOMAIN net.node, net.node[pi].type = "PRIMARY_INPUT",
           pi \notin DOMAIN net.latch_table,
           net.fanout[pi] = <<>>,
           NEW res, res = network_delete_node(network_delete_node(net, po), pi)
    PROVE  IsNetwork(res) /\ IsReduced(res, net, {po, pi})
  <1>1. PICK one : one = network_delete_node(net, po)
    OBVIOUS
  <1>2. res = network_delete_node(one, pi)
    BY <1>1
  <1>3. IsNetwork(one) /\ IsReduced(one, net, {po})
    BY <1>1, OutputUnused, DeleteNodeReduces
  <1>4. pi \in DOMAIN one.node /\ one.fanout[pi] = <<>> /\ pi \notin DOMAIN one.latch_table
    BY <1>3 DEF IsReduced
  <1>5. IsNetwork(res) /\ IsReduced(res, one, {pi})
    BY <1>2, <1>3, <1>4, DeleteNodeReduces
  <1>6. IsReduced(res, net, {po, pi})
    BY <1>3, <1>5 DEF IsReduced
  <1> QED BY <1>5, <1>6

-----------------------------------------------------------------------------
\* What is behind a node, and a latch that is taken out.

\* The nodes that S feeds.
Users(net, S) == UNION {{use[1] : use \in Range(net.fanout[m])} : m \in S}

\* The results of the turns of the loop.
IsReaching(f, net, n) ==
    /\ f[0] = Users(net, {n})
    /\ \A k \in 1..Len(net.nodes) : f[k] = f[k - 1] \union Users(net, f[k - 1])
    /\ network_tfo(net, n) = f[Len(net.nodes)]

\* There is such a list of results.
LEMMA ReachedLoop ==
    ASSUME NEW net, NEW n, Len(net.nodes) \in Nat
    PROVE  \E f : IsReaching(f, net, n)
  <1> DEFINE last == Len(net.nodes)
             Turn(r, k) == r \union Users(net, r)
             Start == Users(net, {n})
             G(f, m) == f = [k \in 0..m |-> IF k = 0 THEN Start ELSE Turn(f[k - 1], k)]
             S == {m \in 0..last : \E f : G(f, m)}
  <1>0. last \in Nat
    OBVIOUS
  <1>1. network_tfo(net, n) = (CHOOSE f : G(f, last))[last]
    BY DEF network_tfo, Users
  <1> HIDE DEF Turn, Start, last
  <1>2. \E f : G(f, 0)
    <2>1. G([k \in 0..0 |-> Start], 0)
      OBVIOUS
    <2> HIDE DEF G
    <2> QED BY <2>1
  <1>3. ASSUME NEW m \in 1..last, NEW f, G(f, m - 1)  PROVE \E g : G(g, m)
    <2> DEFINE g == [k \in 0..m |-> IF k = m THEN Turn(f[m - 1], m) ELSE f[k]]
    <2>1. ASSUME NEW k \in 0..m
          PROVE  g[k] = IF k = 0 THEN Start ELSE Turn(g[k - 1], k)
      <3>1. CASE k = m
        <4>1. g[m] = Turn(f[m - 1], m) /\ m \in 0..m /\ m /= 0 /\ g[m - 1] = f[m - 1]
          BY <1>0
        <4> HIDE DEF g
        <4> QED BY <3>1, <4>1
      <3>2. CASE k /= m
        <4>1. k \in 0..(m - 1)
          BY <1>0, <3>2
        <4>2. f[k] = IF k = 0 THEN Start ELSE Turn(f[k - 1], k)
          BY <1>3, <4>1
        <4>3. g[k] = f[k] /\ (k /= 0 => g[k - 1] = f[k - 1])
          BY <1>0, <3>2, <4>1
        <4> HIDE DEF g
        <4> QED BY <4>2, <4>3
      <3> QED BY <3>1, <3>2
    <2>2. g = [k \in 0..m |-> g[k]]
      OBVIOUS
    <2>3. G(g, m)
      BY <2>1, <2>2
    <2> HIDE DEF G, g
    <2> QED BY <2>3
  <1>4. \E f : G(f, last)
    <2> HIDE DEF G
    <2>1. 0 \in S
      BY <1>0, <1>2
    <2>2. \A m \in 1..last : m - 1 \in S => m \in S
      BY <1>0, <1>3
    <2> HIDE DEF S
    <2>3. \A m \in 0..last : m \in S
      BY <1>0, <2>1, <2>2, UpTo
    <2>4. last \in S
      BY <1>0, <2>3
    <2> QED BY <2>4 DEF S
  <1> DEFINE F == CHOOSE f : G(f, last)
  <1>5. G(F, last)
    <2> HIDE DEF G
    <2> QED BY <1>4
  <1> HIDE DEF F
  <1>6. \A k \in 0..last : F[k] = IF k = 0 THEN Start ELSE Turn(F[k - 1], k)
    <2>1. \A k \in 0..last : [j \in 0..last |-> IF j = 0 THEN Start ELSE Turn(F[j - 1], j)][k]
                             = IF k = 0 THEN Start ELSE Turn(F[k - 1], k)
      OBVIOUS
    <2> QED BY <1>5, <2>1, Zenon
  <1>7. F[0] = Start /\ \A k \in 1..last : F[k] = Turn(F[k - 1], k)
    <2>1. 0 \in 0..last /\ \A k \in 1..last : k \in 0..last /\ k /= 0
      BY <1>0
    <2> QED BY <1>6, <2>1, Zenon
  <1>8. network_tfo(net, n) = F[last]
    BY <1>1 DEF F
  <1>9. IsReaching(F, net, n)
    BY <1>7, <1>8, Zenon DEF IsReaching, Turn, Start, last
  <1> QED BY <1>9

\* All pins of a node go to one without fanins.
LEMMA RewireToLeaf ==
    ASSUME NEW net, IsNetwork(net), NEW old \in DOMAIN net.node,
           NEW new \in DOMAIN net.node, new /= old,
           net.node[new].type /= "PRIMARY_OUTPUT", net.node[new].fanin = <<>>,
           NEW res, res = PatchFanouts(net, old, new)
    PROVE  /\ IsNetwork(res) /\ SameLists(res, net) /\ res.fanout[old] = <<>>
           /\ DOMAIN res.node = DOMAIN net.node /\ SameTypes(res, net)
           /\ IsRewired(net.node, res.node, old, new)
  <1>1. Built(net) /\ Acyclic(net.node)
    BY BuiltFacts
  <1>2. Built(res) /\ SameLists(res, net) /\ IsRewired(net.node, res.node, old, new)
        /\ res.fanout[old] = <<>>
    BY <1>1, PatchFanoutsSound
  <1>3. DOMAIN res.node = DOMAIN net.node /\ SameTypes(res, net)
    BY <1>2 DEF IsRewired, SameTypes
  <1> DEFINE E == {new}
  <1>4. \A m \in DOMAIN net.node : Range(res.node[m].fanin) \subseteq Range(net.node[m].fanin)
          \union E
    BY <1>2 DEF IsRewired, Range
  <1>5. Range(res.node[new].fanin) = {}
    <2>1. DOMAIN res.node[new].fanin = {}
      BY <1>2 DEF IsRewired
    <2> QED BY <2>1 DEF Range
  <1>6. \A m \in E : Range(res.node[m].fanin) = {}
    BY <1>5
  <1> HIDE DEF E
  <1>7. Acyclic(res.node)
    BY <1>1, <1>3, <1>4, <1>6, AcyclicByLeaves
  <1> QED BY <1>2, <1>3, <1>7, BuiltFacts

\* Users are nodes, more nodes have more users, and the fanout lists tell
\* them.
LEMMA UsersFacts ==
    ASSUME NEW net, FanoutsMirrorFanins(net.node, net.fanout)
    PROVE  /\ \A S \in SUBSET DOMAIN net.node : Users(net, S) \in SUBSET DOMAIN net.node
           /\ \A A, B \in SUBSET DOMAIN net.node : A \subseteq B
                => Users(net, A) \subseteq Users(net, B)
           /\ \A n, m \in DOMAIN net.node : m \in Range(net.node[n].fanin) => n \in Users(net, {m})
           /\ \A S \in SUBSET DOMAIN net.node : \A m \in S : Users(net, {m}) \subseteq Users(net, S)
  <1>1. \A x \in DOMAIN net.node : \A use \in Range(net.fanout[x]) : use[1] \in DOMAIN net.node
    BY MirrorFacts
  <1>2. ASSUME NEW n \in DOMAIN net.node, NEW m \in DOMAIN net.node, m \in Range(net.node[n].fanin)
        PROVE  n \in Users(net, {m})
    <2>1. PICK i \in DOMAIN net.node[n].fanin : net.node[n].fanin[i] = m
      BY <1>2 DEF Range
    <2>2. <<n, i>> \in Range(net.fanout[m])
      BY <2>1, MirrorFacts
    <2>3. n \in {use[1] : use \in Range(net.fanout[m])}
      <3>1. <<n, i>>[1] = n
        OBVIOUS
      <3> QED BY <2>2, <3>1
    <2> QED BY <2>3 DEF Users
  <1>3. \A S \in SUBSET DOMAIN net.node : Users(net, S) \in SUBSET DOMAIN net.node
    BY <1>1 DEF Users
  <1>4. \A A, B \in SUBSET DOMAIN net.node : A \subseteq B => Users(net, A) \subseteq Users(net, B)
    BY DEF Users
  <1>5. \A S \in SUBSET DOMAIN net.node : \A m \in S : Users(net, {m}) \subseteq Users(net, S)
    BY DEF Users
  <1> QED BY <1>2, <1>3, <1>4, <1>5

\* network_tfo finds all that is behind a node: it turns often enough.
LEMMA TfoFacts ==
    ASSUME NEW net, IsNetwork(net), NEW n \in DOMAIN net.node, NEW tfo, tfo = network_tfo(net, n)
    PROVE  Users(net, {n}) \subseteq tfo /\ tfo \in SUBSET DOMAIN net.node
           /\ Users(net, tfo) \subseteq tfo
  <1> DEFINE D == DOMAIN net.node  N == Len(net.nodes)
             step == [S \in SUBSET D |-> S \union Users(net, S)]
  <1>1. NodesAreListed(net.node, net.nodes) /\ FanoutsMirrorFanins(net.node, net.fanout)
    BY NetworkHas
  <1>2. IsFiniteSet(D) /\ N = Cardinality(D) /\ N \in Nat
    BY <1>1, ListedFacts, FS_CardinalityType
  <1>3. PICK f : IsReaching(f, net, n)
    BY <1>2, ReachedLoop
  <1>4. /\ f[0] = Users(net, {n}) /\ f[N] = tfo
        /\ \A k \in 1..N : f[k] = f[k - 1] \union Users(net, f[k - 1])
    BY <1>3 DEF IsReaching
  <1>5. /\ \A S \in SUBSET D : Users(net, S) \in SUBSET D
        /\ \A A, B \in SUBSET D : A \subseteq B => Users(net, A) \subseteq Users(net, B)
    BY <1>1, UsersFacts
  <1>6. /\ step \in [SUBSET D -> SUBSET D]
        /\ \A S \in SUBSET D : step[S] = S \union Users(net, S)
    BY <1>5
  <1>0. n \in D
    OBVIOUS
  <1> HIDE DEF D, N, step
  <1>7. f[0] \in SUBSET D
    BY <1>0, <1>4, <1>5
  <1>8. \A k \in 0..N : f[k] \in SUBSET D
    <2> DEFINE Q == {k \in 0..N : f[k] \in SUBSET D}
    <2>1. 0 \in Q
      BY <1>2, <1>7
    <2>2. \A k \in 1..N : k - 1 \in Q => k \in Q
      BY <1>2, <1>4, <1>5
    <2> HIDE DEF Q
    <2>3. \A k \in 0..N : k \in Q
      BY <1>2, <2>1, <2>2, UpTo
    <2> QED BY <2>3 DEF Q
  <1>9. IsChain(f, step, D, N)
    <2>1. \A A, B \in SUBSET D : A \subseteq B => step[A] \subseteq step[B]
      <3>1. SUFFICES ASSUME NEW A \in SUBSET D,
                            NEW B \in SUBSET D, A \subseteq B PROVE step[A] \subseteq step[B]
        OBVIOUS
      <3>2. Users(net, A) \subseteq Users(net, B)
        BY <1>5, <3>1
      <3> QED BY <1>6, <3>1, <3>2
    <2>2. f[0] \subseteq step[f[0]]
      BY <1>6, <1>7
    <2>3. \A k \in 1..N : f[k] = step[f[k - 1]]
      <3>1. SUFFICES ASSUME NEW k \in 1..N PROVE f[k] = step[f[k - 1]]
        OBVIOUS
      <3>2. k - 1 \in 0..N
        BY <1>2
      <3> QED BY <1>4, <1>6, <1>8, <3>2
    <2> QED BY <1>6, <1>7, <2>1, <2>2, <2>3 DEF IsChain
  <1>10. /\ \A k \in 0..N : f[k] \in SUBSET D /\ f[k] \subseteq step[f[k]]
         /\ step[f[N]] = f[N]
    BY <1>2, <1>9, ChainFacts
  <1>11. tfo \in SUBSET D /\ Users(net, tfo) \subseteq tfo
    <2>1. N \in 0..N
      BY <1>2
    <2> QED BY <1>4, <1>6, <1>10, <2>1
  <1>12. \A k \in 0..N : f[0] \subseteq f[k]
    <2> DEFINE Q == {k \in 0..N : f[0] \subseteq f[k]}
    <2>1. 0 \in Q
      BY <1>2
    <2>2. \A k \in 1..N : k - 1 \in Q => k \in Q
      <3>1. SUFFICES ASSUME NEW k \in 1..N, k - 1 \in Q PROVE k \in Q
        OBVIOUS
      <3>2. k \in 0..N
        BY <1>2
      <3>3. f[0] \subseteq f[k - 1] /\ f[k - 1] \subseteq f[k]
        BY <1>4, <3>1
      <3> QED BY <3>2, <3>3
    <2> HIDE DEF Q
    <2>3. \A k \in 0..N : k \in Q
      BY <1>2, <2>1, <2>2, UpTo
    <2> QED BY <2>3 DEF Q
  <1>13. Users(net, {n}) \subseteq tfo
    <2>1. N \in 0..N
      BY <1>2
    <2> QED BY <1>4, <1>12, <2>1
  <1> QED BY <1>11, <1>13 DEF D

\* Where one gets behind the fanouts of pi.
Behind(net, pi) == Users(net, {pi}) \union UNION {network_tfo(net, n) : n \in Users(net, {pi})}

\* The set network_connect looks for a cycle in has all that is behind the
\* fanouts of pi.
LEMMA BehindClosed ==
    ASSUME NEW net, IsNetwork(net), NEW pi \in DOMAIN net.node, NEW R, R = Behind(net, pi)
    PROVE  /\ R \in SUBSET DOMAIN net.node
           /\ \A n \in DOMAIN net.node : Range(net.node[n].fanin) \intersect R /= {} => n \in R
           /\ \A n \in DOMAIN net.node : pi \in Range(net.node[n].fanin) => n \in R
  <1> DEFINE D == DOMAIN net.node
  <1>1. NodesAreListed(net.node, net.nodes) /\ FanoutsMirrorFanins(net.node, net.fanout)
    BY NetworkHas
  <1>2. /\ \A S \in SUBSET D : Users(net, S) \in SUBSET D
        /\ \A n, m \in D : m \in Range(net.node[n].fanin) => n \in Users(net, {m})
        /\ \A S \in SUBSET D : \A m \in S : Users(net, {m}) \subseteq Users(net, S)
    BY <1>1, UsersFacts
  <1>3. \A n \in D : /\ Users(net, {n}) \subseteq network_tfo(net, n)
                        /\ network_tfo(net, n) \in SUBSET D
                     /\ Users(net, network_tfo(net, n)) \subseteq network_tfo(net, n)
    BY TfoFacts
  <1>0. pi \in D
    OBVIOUS
  <1> HIDE DEF D
  <1>4. Users(net, {pi}) \in SUBSET D
    BY <1>0, <1>2
  <1>5. R \in SUBSET D
    BY <1>3, <1>4 DEF Behind
  <1>6. ASSUME NEW n \in D, NEW m \in R, m \in Range(net.node[n].fanin)  PROVE n \in R
    <2>1. m \in D /\ n \in Users(net, {m})
      BY <1>2, <1>5, <1>6
    <2>2. CASE m \in Users(net, {pi})
      <3>1. n \in network_tfo(net, m)
        BY <1>3, <2>1
      <3> QED BY <2>2, <3>1 DEF Behind
    <2>3. CASE m \notin Users(net, {pi})
      <3>1. PICK u \in Users(net, {pi}) : m \in network_tfo(net, u)
        BY <2>3 DEF Behind
      <3>2. u \in D
        BY <1>4
      <3>3. Users(net, {m}) \subseteq Users(net, network_tfo(net, u))
        BY <1>2, <1>3, <3>1, <3>2
      <3>4. n \in network_tfo(net, u)
        BY <1>3, <2>1, <3>2, <3>3
      <3> QED BY <3>1, <3>4 DEF Behind
    <2> QED BY <2>2, <2>3
  <1>7. \A n \in D : pi \in Range(net.node[n].fanin) => n \in R
    BY <1>0, <1>2 DEF Behind
  <1> QED BY <1>5, <1>6, <1>7 DEF D

\* The nodes behind a cut may get one more fanin, which is not behind it.
IsConnected(node, new, R, d) ==
    /\ DOMAIN new = DOMAIN node /\ R \in SUBSET DOMAIN node /\ d \notin R
    /\ \A n \in DOMAIN node : Range(node[n].fanin) \intersect R /= {} => n \in R
    /\ \A n \in DOMAIN node \ R : Range(new[n].fanin) \subseteq Range(node[n].fanin)
    /\ \A n \in R : Range(new[n].fanin) \subseteq Range(node[n].fanin) \union {d}

\* Such a fanin closes no cycle.
LEMMA ConnectedAcyclic ==
    ASSUME NEW node, NEW new, NEW R, NEW d, IsConnected(node, new, R, d), Acyclic(node)
    PROVE  Acyclic(new)
  <1>1. /\ DOMAIN new = DOMAIN node /\ R \in SUBSET DOMAIN node /\ d \notin R
        /\ \A n \in DOMAIN node : Range(node[n].fanin) \intersect R /= {} => n \in R
        /\ \A n \in DOMAIN node \ R : Range(new[n].fanin) \subseteq Range(node[n].fanin)
        /\ \A n \in R : Range(new[n].fanin) \subseteq Range(node[n].fanin) \union {d}
    BY DEF IsConnected
  <1> QED BY <1>1, AcyclicByConnecting

\* network_connect keeps a network sound when what drives the output is not
\* behind the input.
LEMMA ConnectSound ==
    ASSUME NEW net, IsNetwork(net),
           NEW po \in DOMAIN net.node, net.node[po].type = "PRIMARY_OUTPUT",
           po \notin DOMAIN net.latch_table,
           NEW pi \in DOMAIN net.node, net.node[pi].type = "PRIMARY_INPUT",
           pi \notin DOMAIN net.latch_table,
           NEW driver, driver = net.node[po].fanin[1], driver /= pi,
           driver \notin Behind(net, pi),
           NEW res, res = network_connect(net, po, pi)
    PROVE  IsNetwork(res)
  <1>1. PICK shorted : shorted = PatchUses(net, net.fanout[pi], pi, driver)
    OBVIOUS
  <1>2. res = network_delete_node(network_delete_node(shorted, po), pi)
    BY <1>1 DEF network_connect
  <1>3. Built(net) /\ Acyclic(net.node) /\ FanoutsMirrorFanins(net.node, net.fanout)
        /\ NodesAreListed(net.node, net.nodes) /\ TerminalsAreListed(net.node, net.pi, net.po)
    BY BuiltFacts, NetworkHas
  <1>4. driver \in DOMAIN net.node /\ net.node[driver].type /= "PRIMARY_OUTPUT"
    <2>1. Len(net.node[po].fanin) = 1 /\ net.node[po].fanin \in Seq(Nat)
      BY <1>3 DEF TerminalsAreListed, NodesAreListed, IsNode
    <2>2. 1 \in DOMAIN net.node[po].fanin
      BY <2>1
    <2>3. Range(net.node[po].fanin) \subseteq DOMAIN net.node
      BY <1>3 DEF NodesAreListed
    <2>4. net.node[net.node[po].fanin[1]].type /= "PRIMARY_OUTPUT"
      BY <1>3, <2>2 DEF TerminalsAreListed
    <2> QED BY <2>2, <2>3, <2>4 DEF Range
  <1>5. PICK uses : uses = net.fanout[pi]
    OBVIOUS
  <1>6. uses \in Seq(Nat \X Nat) /\ IsInjective(uses) /\ Range(uses) = Range(net.fanout[pi])
    BY <1>3, <1>5, MirrorFacts
  <1>7. /\ Built(shorted) /\ SameLists(shorted, net)
        /\ IsRewired(net.node, shorted.node, pi, driver)
        /\ shorted.fanout[pi] = <<>>
    BY <1>1, <1>3, <1>4, <1>5, <1>6, PatchUsesSound
  <1>8. Acyclic(shorted.node)
    <2>1. PICK R : R = Behind(net, pi)
      OBVIOUS
    <2>2. /\ R \in SUBSET DOMAIN net.node /\ driver \notin R
          /\ \A n \in DOMAIN net.node : Range(net.node[n].fanin) \intersect R /= {} => n \in R
          /\ \A n \in DOMAIN net.node : pi \in Range(net.node[n].fanin) => n \in R
      BY <2>1, BehindClosed
    <2>3. DOMAIN shorted.node = DOMAIN net.node
      BY <1>7 DEF IsRewired
    <2>4. \A n \in DOMAIN net.node \ R : Range(shorted.node[n].fanin)
            \subseteq Range(net.node[n].fanin)
      BY <1>7, <2>2 DEF IsRewired, Range
    <2>5. \A n \in R : Range(shorted.node[n].fanin) \subseteq Range(net.node[n].fanin)
            \union {driver}
      BY <1>7, <2>2 DEF IsRewired, Range
    <2>6. IsConnected(net.node, shorted.node, R, driver)
      BY <2>2, <2>3, <2>4, <2>5 DEF IsConnected
    <2> QED BY <1>3, <2>6, ConnectedAcyclic
  <1>9. IsNetwork(shorted)
    BY <1>7, <1>8, BuiltFacts
  <1>10. /\ po \in DOMAIN shorted.node /\ shorted.node[po].type = "PRIMARY_OUTPUT"
         /\ po \notin DOMAIN shorted.latch_table
         /\ pi \in DOMAIN shorted.node /\ shorted.node[pi].type = "PRIMARY_INPUT"
         /\ pi \notin DOMAIN shorted.latch_table
    BY <1>7 DEF IsRewired, SameLists
  <1> QED BY <1>2, <1>7, <1>9, <1>10, DeleteEndsSound

\* Latches make no difference to network_tfo.
LEMMA TfoSame ==
    ASSUME NEW net, NEW res, SameNodes(res, net), Len(net.nodes) \in Nat, NEW n
    PROVE  network_tfo(res, n) = network_tfo(net, n)
  <1> DEFINE N == Len(net.nodes)
  <1>1. PICK f : IsReaching(f, net, n)
    BY ReachedLoop
  <1>2. res.nodes = net.nodes /\ res.fanout = net.fanout
    BY DEF SameNodes
  <1>3. PICK g : IsReaching(g, res, n)
    BY <1>2, ReachedLoop
  <1>4. \A S : Users(res, S) = Users(net, S)
    BY <1>2 DEF Users
  <1>5. /\ f[0] = Users(net, {n}) /\ f[N] = network_tfo(net, n)
        /\ \A k \in 1..N : f[k] = f[k - 1] \union Users(net, f[k - 1])
    BY <1>1 DEF IsReaching
  <1>6. /\ g[0] = Users(net, {n}) /\ g[N] = network_tfo(res, n)
        /\ \A k \in 1..N : g[k] = g[k - 1] \union Users(net, g[k - 1])
    BY <1>2, <1>3, <1>4 DEF IsReaching
  <1> HIDE DEF N
  <1>7. N \in Nat
    BY DEF N
  <1> DEFINE Q == {k \in 0..N : f[k] = g[k]}
  <1>8. 0 \in Q
    BY <1>5, <1>6, <1>7
  <1>9. \A k \in 1..N : k - 1 \in Q => k \in Q
    <2>1. SUFFICES ASSUME NEW k \in 1..N, k - 1 \in Q PROVE k \in Q
      OBVIOUS
    <2>2. k \in 0..N
      BY <1>7
    <2>3. f[k] = g[k]
      BY <1>5, <1>6, <2>1
    <2> QED BY <2>2, <2>3
  <1> HIDE DEF Q
  <1>10. \A k \in 0..N : k \in Q
    BY <1>7, <1>8, <1>9, UpTo
  <1>11. N \in 0..N
    BY <1>7
  <1>12. f[N] = g[N]
    BY <1>10, <1>11 DEF Q
  <1> QED BY <1>5, <1>6, <1>12

\* A latch that is deleted, and its ends connected, leaves a network sound
\* when the driver is not behind its output.
LEMMA RemoveLatchSound ==
    ASSUME NEW net, IsNetwork(net), NIL \notin Nat, NEW l \in Range(net.latch),
           NEW driver, driver = net.node[l.input].fanin[1], driver /= l.output,
           \A use \in Range(net.fanout[l.output]) : use[1] /= driver,
           ConnectsAcyclically(net, l.input, l.output),
           NEW res, res = network_connect(network_delete_latch(net, l), l.input, l.output)
    PROVE  IsNetwork(res)
  <1>1. PICK single : single = network_delete_latch(net, l)
    OBVIOUS
  <1>2. PICK po, pi : po = l.input /\ pi = l.output
    OBVIOUS
  <1>3. /\ IsNetwork(single) /\ SameNodes(single, net)
        /\ l.input \notin DOMAIN single.latch_table /\ l.output \notin DOMAIN single.latch_table
        /\ IsLatch(net.node, net.latch_table, l)
    BY <1>1, DeleteLatchSound
  <1>4. /\ po \in DOMAIN single.node /\ single.node[po].type = "PRIMARY_OUTPUT"
        /\ po \notin DOMAIN single.latch_table
        /\ pi \in DOMAIN single.node /\ single.node[pi].type = "PRIMARY_INPUT"
        /\ pi \notin DOMAIN single.latch_table
    BY <1>2, <1>3 DEF SameNodes, IsLatch
  <1>5. driver = single.node[po].fanin[1] /\ driver /= pi
    BY <1>2, <1>3 DEF SameNodes
  <1>6. Len(net.nodes) \in Nat
    <2>1. NodesAreListed(net.node, net.nodes)
      BY NetworkHas
    <2> QED BY <2>1, ListedFacts
  <1>7. \A n : network_tfo(single, n) = network_tfo(net, n)
    BY <1>3, <1>6, TfoSame
  <1>8. Users(single, {pi}) = {use[1] : use \in Range(net.fanout[l.output])}
    BY <1>2, <1>3 DEF SameNodes, Users
  <1>9. driver \notin Behind(single, pi)
    <2>1. driver \notin Users(single, {pi})
      BY <1>8
    <2>2. ASSUME NEW n \in Users(single, {pi})
          PROVE  driver \notin network_tfo(single, n)
      <3>1. PICK use \in Range(net.fanout[l.output]) : n = use[1]
        BY <1>8
      <3>2. driver \notin network_tfo(net, n)
        BY <3>1 DEF ConnectsAcyclically
      <3> QED BY <1>7, <3>2
    <2> QED BY <2>1, <2>2 DEF Behind
  <1>10. res = network_connect(single, po, pi)
    BY <1>1, <1>2
  <1> QED BY <1>3, <1>4, <1>5, <1>9, <1>10, ConnectSound

-----------------------------------------------------------------------------
\* A node gets another function, and takes up one of its fanins.

\* A node with the function of another.
Replaced(nd, r) == [nd EXCEPT !.fanin = r.fanin, !.F = r.F, !.dup_free = r.dup_free]

\* The fields it has then.
LEMMA ReplacedFields ==
    ASSUME NEW nd, NodeShape(nd), NEW r, NEW res, res = Replaced(nd, r)
    PROVE  /\ res.type = nd.type /\ res.name = nd.name
           /\ res.fanin = r.fanin /\ res.F = r.F /\ res.dup_free = r.dup_free
           /\ res = [type |-> res.type, fanin |-> res.fanin, F |-> res.F,
                      dup_free |-> res.dup_free, name |-> res.name]
  <1>1. res = NodeOf(nd.type, r.fanin, r.F, r.dup_free, nd.name)
    BY SetFunction, Zenon DEF Replaced
  <1>2. /\ res.type = nd.type /\ res.name = nd.name
        /\ res.fanin = r.fanin /\ res.F = r.F /\ res.dup_free = r.dup_free /\ NodeShape(res)
    BY <1>1, NodeFields
  <1>3. res = [type |-> res.type, fanin |-> res.fanin, F |-> res.F, dup_free |-> res.dup_free,
          name |-> res.name]
    BY <1>2, Zenon DEF NodeShape, NodeOf
  <1> QED BY <1>2, <1>3

\* What node_replace does to each part of a network.
LEMMA ReplaceIs ==
    ASSUME NEW net, Shape(net), NEW n, net.node[n].type = "INTERNAL", NEW r,
           NEW nd, nd = Replaced(net.node[n], r),
           NEW node2, node2 = Put(net.node, n, nd),
           NEW fanout2, fanout2 = UsesRemoved(net.node, net.fanout, n)
    PROVE  node_replace(net, n, r)
           = Net(node2, UsesAdded(node2, fanout2, n), net.nodes, net.pi, net.po, net.name_table,
                 net.latch, net.latch_table)
  <1>1. PICK old : old = fanin_remove_fanout(net, n)
    OBVIOUS
  <1>2. old = Net(net.node, fanout2, net.nodes, net.pi, net.po, net.name_table, net.latch,
          net.latch_table)
    BY <1>1, RemoveFanoutIs
  <1>3. /\ old.node = net.node /\ old.fanout = fanout2 /\ old.nodes = net.nodes /\ old.pi = net.pi
        /\ old.po = net.po
        /\ old.name_table = net.name_table /\ old.latch = net.latch
        /\ old.latch_table = net.latch_table /\ Shape(old)
    BY <1>2, NetFields
  <1>4. PICK new : new = [old EXCEPT !.node = node2]
    OBVIOUS
  <1>5. node_replace(net, n, r) = fanin_add_fanout(new, n)
    <2>1. net.node[n].type /= "PRIMARY_INPUT"
      OBVIOUS
    <2>2. [old EXCEPT !.node = Put(@, n, nd)] = [old EXCEPT !.node = Put(old.node, n, nd)]
      OBVIOUS
    <2>3. node_replace(net, n, r)
          = fanin_add_fanout([old EXCEPT !.node
            = Put(@, n, [old.node[n] EXCEPT !.fanin = r.fanin, !.F = r.F, !.dup_free = r.dup_free])], n)
      BY <1>1, <2>1 DEF node_replace
    <2>4. nd = [old.node[n] EXCEPT !.fanin = r.fanin, !.F = r.F, !.dup_free = r.dup_free]
      BY <1>3 DEF Replaced
    <2>5. node_replace(net, n, r)
            = fanin_add_fanout([old EXCEPT !.node = Put(@, n, nd)], n)
      BY <2>3, <2>4, Zenon
    <2> QED BY <1>3, <1>4, <2>2, <2>5
  <1>6. new = Net(node2, fanout2, net.nodes, net.pi, net.po, net.name_table, net.latch,
          net.latch_table)
    BY <1>3, <1>4, Set_node
  <1>7. /\ new.node = node2 /\ new.fanout = fanout2 /\ new.nodes = net.nodes /\ new.pi = net.pi
        /\ new.po = net.po
        /\ new.name_table = net.name_table /\ new.latch = net.latch
        /\ new.latch_table = net.latch_table /\ Shape(new)
    BY <1>6, NetFields
  <1> QED BY <1>5, <1>7, AddFanoutIs

\* node_replace keeps a network sound when the new function is proper
\* and closes no cycle.
LEMMA ReplaceSound ==
    ASSUME NEW net, IsNetwork(net), NEW n \in DOMAIN net.node, net.node[n].type = "INTERNAL",
           NEW r,
           NEW nd, nd = Replaced(net.node[n], r),
           IsProper(net.node, nd),
           NEW node2, node2 = Put(net.node, n, nd), Acyclic(node2),
           NEW res, res = node_replace(net, n, r)
    PROVE  IsNetwork(res) /\ SameLists(res, net) /\ res.node = node2
  <1>1. PICK fanout2 : fanout2 = UsesRemoved(net.node, net.fanout, n)
    OBVIOUS
  <1>2. PICK fanout3 : fanout3 = UsesAdded(node2, fanout2, n)
    OBVIOUS
  <1>3. /\ Shape(net) /\ NodesAreListed(net.node, net.nodes)
        /\ FanoutsMirrorFanins(net.node, net.fanout)
        /\ Parts(net.node, net.nodes, net.pi, net.po, net.name_table, net.latch, net.latch_table)
    BY NetworkHas
  <1>4. res = Net(node2, fanout3, net.nodes, net.pi, net.po, net.name_table, net.latch,
          net.latch_table)
    <2>1. node_replace(net, n, r)
          = Net(node2, UsesAdded(node2, fanout2, n), net.nodes, net.pi, net.po, net.name_table,
                net.latch, net.latch_table)
      BY <1>1, <1>3, ReplaceIs, Zenon
    <2> QED BY <1>2, <2>1
  <1>5. NodeShape(net.node[n])
    BY <1>3, IsNodeShape DEF NodesAreListed
  <1>6. nd.type = net.node[n].type /\ nd.name = net.node[n].name /\ nd.fanin = r.fanin
    BY <1>5, ReplacedFields
  <1>7. IsChanged(net.node, node2, n, nd)
    BY DEF IsChanged, Put
  <1>8. Parts(node2, net.nodes, net.pi, net.po, net.name_table, net.latch, net.latch_table)
    BY <1>3, <1>6, <1>7, PartsUpdate
  <1>9. DOMAIN node2 = DOMAIN net.node /\ node2[n] = nd
        /\ \A m \in DOMAIN net.node : m /= n => node2[m] = net.node[m]
    BY <1>7 DEF IsChanged
  <1>10. n \in Nat /\ nd.fanin \in Seq(Nat)
    <2>1. DOMAIN net.node \subseteq Nat
      BY <1>3, ListedFacts
    <2> QED BY <2>1 DEF IsProper, IsNode
  <1> DEFINE D == DOMAIN net.node
  <1>11. DOMAIN net.fanout = D /\ Lists(net.node, D, net.fanout)
    BY <1>3, MirrorFacts
  <1>12. Lists(net.node, D \ {n}, fanout2) /\ DOMAIN fanout2 = D
    BY <1>1, <1>11, ListsRemove
  <1>13. Lists(node2, D \ {n}, fanout2)
    <2>1. \A m \in D \ {n} : node2[m].fanin = net.node[m].fanin
      BY <1>9
    <2> QED BY <1>12, <2>1, ListsSame
  <1>14. Lists(node2, (D \ {n}) \union {n}, fanout3) /\ DOMAIN fanout3 = D
    <2>1. node2[n].fanin \in Seq(Nat)
      BY <1>9, <1>10
    <2>2. n \notin D \ {n}
      OBVIOUS
    <2> HIDE DEF D
    <2>3. PICK users : users = D \ {n}
      OBVIOUS
    <2>4. Lists(node2, users, fanout2) /\ n \notin users
      BY <1>13, <2>2, <2>3
    <2>5. Lists(node2, users \union {n}, UsesAdded(node2, fanout2, n))
      BY <1>10, <2>1, <2>4, ListsAdd
    <2>6. DOMAIN UsesAdded(node2, fanout2, n) = DOMAIN fanout2
      BY DEF UsesAdded
    <2> QED BY <1>2, <1>12, <2>3, <2>5, <2>6
  <1>15. (D \ {n}) \union {n} = D /\ DOMAIN node2 = D
    BY <1>9
  <1>16. fanout3 = [x \in DOMAIN fanout2 |-> fanout3[x]]
    BY <1>2 DEF UsesAdded
  <1>17. FanoutsMirrorFanins(node2, fanout3)
    BY <1>12, <1>14, <1>15, <1>16 DEF FanoutsMirrorFanins
  <1>18. Fit(node2, fanout3, net.nodes, net.pi, net.po, net.name_table, net.latch, net.latch_table)
    BY <1>8, <1>17 DEF Fit
  <1>19. IsNetwork(res)
    BY <1>4, <1>18, NetIsNetwork
  <1>20. SameLists(res, net) /\ res.node = node2
    BY <1>4, NetFields DEF SameLists
  <1> QED BY <1>19, <1>20

\* A cover over the fanins D in which no cube is contradictory.
IsCover(cover, D) == \A c \in cover : c \subseteq D \X {0, 1} /\ Consistent(c)

\* No cube is contained in another.
IsIncomparable(cover) == \A c, d \in cover : c \subseteq d => c = d

\* What is left when contained cubes are gone is a cover without them.
LEMMA ContainedFacts ==
    ASSUME NEW cover, NEW D, IsCover(cover, D)
    PROVE  IsCover(Contained(cover), D) /\ IsIncomparable(Contained(cover))
  BY DEF IsCover, IsIncomparable, Contained

\* The sum of two covers is one, and has no contained cubes.
LEMMA OrFacts ==
    ASSUME NEW f, NEW g, NEW D, IsCover(f, D), IsCover(g, D)
    PROVE  IsCover(Or(f, g), D) /\ IsIncomparable(Or(f, g))
  <1>1. IsCover(f \union g, D)
    BY DEF IsCover
  <1> QED BY <1>1, ContainedFacts DEF Or

\* The product of two covers is one.
LEMMA AndFacts ==
    ASSUME NEW f, NEW g, NEW D, IsCover(f, D), IsCover(g, D)
    PROVE  IsCover(And(f, g), D)
  <1> DEFINE both == {cube \in {c \union d : c \in f, d \in g} : Consistent(cube)}
  <1>1. IsCover(both, D)
    BY DEF IsCover
  <1> HIDE DEF both
  <1>2. IsCover(Contained(both), D)
    BY <1>1, ContainedFacts
  <1> QED BY <1>2 DEF And, both

\* The complement of a cover is one.
LEMMA NotFacts ==
    ASSUME NEW f, NEW D, IsCover(f, D)
    PROVE  IsCover(Not(f), D)
  <1> DEFINE cubes == {c \in SUBSET (Base(f) \X {0, 1}) : Consistent(c)}
             against == {c \in cubes : \A d \in f : \E l \in d : <<l[1], 1 - l[2]>> \in c}
  <1>1. Base(f) \subseteq D
    <2>1. SUFFICES ASSUME NEW c \in f, NEW l \in c PROVE l[1] \in D
      BY DEF Base
    <2>2. l \in D \X {0, 1}
      BY DEF IsCover
    <2> QED BY <2>2
  <1>2. IsCover(against, D)
    <2>1. SUFFICES ASSUME NEW c \in cubes PROVE c \subseteq D \X {0, 1} /\ Consistent(c)
      BY DEF IsCover
    <2> QED BY <1>1, <2>1
  <1> HIDE DEF against, cubes
  <1>3. IsCover(Contained(against), D)
    BY <1>2, ContainedFacts
  <1>4. Not(f) = Contained(against)
    BY DEF Not, against, cubes
  <1> QED BY <1>3, <1>4

\* A node's cover, read over the fanins that occur in a cube; if one is there
\* twice, contradictory cubes go.
LEMMA OverBaseFacts ==
    ASSUME NEW nd, IsFunction(nd), nd.dup_free \in BOOLEAN, nd.dup_free => ~HasDup(nd),
           NEW D, \A i \in DOMAIN nd.fanin : (\E c \in nd.F : c[i] /= 2) => nd.fanin[i] \in D
    PROVE  IsCover(OverBase(nd), D)
  <1> DEFINE cube(c) == {<<nd.fanin[i], c[i]>> : i \in {j \in DOMAIN nd.fanin : c[j] /= 2}}
             cubes == {cube(c) : c \in nd.F}
  <1>1. ASSUME NEW c \in nd.F  PROVE cube(c) \subseteq D \X {0, 1}
    <2>1. \A i \in DOMAIN nd.fanin : c[i] \in {0, 1, 2}
      BY DEF IsFunction
    <2>2. \A i \in DOMAIN nd.fanin : c[i] /= 2 => nd.fanin[i] \in D
      OBVIOUS
    <2> QED BY <2>1, <2>2
  <1>2. ASSUME NEW c \in nd.F, ~HasDup(nd)  PROVE Consistent(cube(c))
    <2>1. SUFFICES ASSUME NEW i \in DOMAIN nd.fanin, c[i] /= 2,
                          NEW j \in DOMAIN nd.fanin, c[j] /= 2,
                          <<nd.fanin[j], c[j]>> = <<nd.fanin[i], 1 - c[i]>>
                   PROVE  FALSE
      BY DEF Consistent
    <2>2. nd.fanin[j] = nd.fanin[i] /\ c[j] = 1 - c[i]
      BY <2>1
    <2>3. i = j
      BY <1>2, <2>2 DEF HasDup, IsInjective
    <2>4. c[i] \in {0, 1, 2}
      BY DEF IsFunction
    <2> QED BY <2>2, <2>3, <2>4
  <1> HIDE DEF cube
  <1>3. OverBase(nd) = IF nd.dup_free THEN cubes ELSE {c \in cubes : Consistent(c)}
    BY DEF OverBase, cube
  <1>4. \A c \in cubes : c \subseteq D \X {0, 1}
    BY <1>1
  <1>5. nd.dup_free => \A c \in cubes : Consistent(c)
    BY <1>2
  <1> HIDE DEF cubes
  <1> QED BY <1>3, <1>4, <1>5 DEF IsCover

\* The fanins of a node by its other pins.
OtherFanins(nd, pin) == {nd.fanin[i] : i \in DOMAIN nd.fanin \ {pin}}

\* A cofactor of a node is a cover over its other fanins.
LEMMA QuotientFacts ==
    ASSUME NEW nd, IsNode(nd), nd.dup_free => ~HasDup(nd), NEW pin \in DOMAIN nd.fanin, NEW value,
           NEW D, OtherFanins(nd, pin) \subseteq D
    PROVE  IsCover(Quotient(nd, pin, value), D)
  <1> DEFINE F2 == {[c EXCEPT ![pin] = 2] : c \in {d \in nd.F : d[pin] = value}}
             nd2 == [nd EXCEPT !.F = F2]
  <1>1. Quotient(nd, pin, value) = Contained(OverBase(nd2))
    BY DEF Quotient
  <1>2. F2 \subseteq [DOMAIN nd.fanin -> {0, 1, 2}]
    BY DEF IsNode, IsFunction
  <1>3. NodeShape(nd) /\ nd.dup_free \in BOOLEAN
    BY IsNodeShape
  <1>9. \A c \in F2 : c[pin] = 2
    BY DEF IsNode, IsFunction
  <1> HIDE DEF F2
  <1>4. nd2 = NodeOf(nd.type, nd.fanin, F2, nd.dup_free, nd.name)
    BY <1>3, SetF
  <1> HIDE DEF nd2
  <1>5. nd2.fanin = nd.fanin /\ nd2.F = F2 /\ nd2.dup_free = nd.dup_free
    BY <1>4, NodeFields
  <1>6. IsFunction(nd2)
    BY <1>2, <1>5 DEF IsFunction
  <1>7. nd2.dup_free => ~HasDup(nd2)
    BY <1>5 DEF HasDup
  <1>8. IsCover(OverBase(nd2), D)
    <2>1. \A i \in DOMAIN nd2.fanin : (\E c \in nd2.F : c[i] /= 2) => nd2.fanin[i] \in D
      BY <1>5, <1>9 DEF OtherFanins
    <2> QED BY <1>3, <1>5, <1>6, <1>7, <2>1, OverBaseFacts
  <1> QED BY <1>1, <1>8, ContainedFacts

\* A node with a function in the place of a fanin is a cover over the other
\* fanins and those of the function.
LEMMA SubstituteFacts ==
    ASSUME NEW nd, IsNode(nd), nd.dup_free => ~HasDup(nd), NEW pin \in DOMAIN nd.fanin,
           NEW D, OtherFanins(nd, pin) \subseteq D, NEW g, IsCover(g, D)
    PROVE  IsCover(Substitute(nd, pin, g), D) /\ IsIncomparable(Substitute(nd, pin, g))
  <1>1. \A value : IsCover(Quotient(nd, pin, value), D)
    BY QuotientFacts
  <1>2. IsCover(And(Quotient(nd, pin, 1), g), D) /\ IsCover(And(Quotient(nd, pin, 0), Not(g)), D)
    BY <1>1, AndFacts, NotFacts
  <1>3. IsCover(Or(And(Quotient(nd, pin, 1), g), And(Quotient(nd, pin, 0), Not(g))), D)
    BY <1>2, OrFacts
  <1> QED BY <1>1, <1>3, OrFacts DEF Substitute

\* Counting the smaller ones numbers a set of numbers through.
LEMMA RankFacts ==
    ASSUME NEW B, IsFiniteSet(B), B \subseteq Nat, NEW N, N = Cardinality(B)
    PROVE  /\ \A i \in 1..N : \E x \in B : Cardinality({y \in B : y < x}) = i - 1
           /\ \A x \in B : Cardinality({y \in B : y < x}) + 1 \in 1..N
           /\ \A x, z \in B : Cardinality({y \in B : y < x}) = Cardinality({y \in B : y < z})
                => x = z
           /\ N \in Nat
  <1> DEFINE Below(x) == {y \in B : y < x}
             r == [x \in B |-> Cardinality(Below(x))]
  <1>1. N \in Nat
    BY FS_CardinalityType
  <1>2. \A x \in B : IsFiniteSet(Below(x)) /\ Cardinality(Below(x)) \in Nat
    BY FS_Subset, FS_CardinalityType
  <1>3. \A x \in B : Cardinality(Below(x)) < N
    <2>1. SUFFICES ASSUME NEW x \in B PROVE Cardinality(Below(x)) < N
      OBVIOUS
    <2>2. IsFiniteSet(B \ {x}) /\ Cardinality(B \ {x}) = N - 1
      BY FS_RemoveElement
    <2>3. Below(x) \in SUBSET (B \ {x})
      OBVIOUS
    <2> HIDE DEF Below
    <2>4. Cardinality(Below(x)) <= Cardinality(B \ {x})
      BY <2>2, <2>3, FS_Subset
    <2> QED BY <1>1, <1>2, <2>2, <2>4
  <1>4. \A x, z \in B : x < z => Cardinality(Below(x)) < Cardinality(Below(z))
    <2>1. SUFFICES ASSUME NEW x \in B, NEW z \in B, x < z
                   PROVE Cardinality(Below(x)) < Cardinality(Below(z))
      OBVIOUS
    <2>0. x \in Nat /\ z \in Nat /\ \A y \in B : y \in Nat
      OBVIOUS
    <2>2. Below(x) \in SUBSET (Below(z) \ {x}) /\ x \in Below(z)
      <3>1. \A y \in Below(x) : y \in Below(z) /\ y /= x
        BY <2>0, <2>1
      <3> QED BY <2>0, <2>1, <3>1
    <2> HIDE DEF Below
    <2>3. IsFiniteSet(Below(z) \ {x}) /\ Cardinality(Below(z) \ {x}) = Cardinality(Below(z)) - 1
      BY <1>2, <2>2, FS_RemoveElement
    <2>4. Cardinality(Below(x)) <= Cardinality(Below(z) \ {x})
      BY <2>2, <2>3, FS_Subset
    <2> QED BY <1>2, <2>3, <2>4
  <1> HIDE DEF Below
  <1>5. \A x, z \in B : Cardinality(Below(x)) = Cardinality(Below(z)) => x = z
    <2>1. SUFFICES ASSUME NEW x \in B, NEW z \in B, Cardinality(Below(x)) = Cardinality(Below(z))
                   PROVE x = z
      OBVIOUS
    <2>2. ~(x < z) /\ ~(z < x)
      BY <1>2, <1>4, <2>1
    <2>3. x \in Nat /\ z \in Nat
      OBVIOUS
    <2> QED BY <2>2, <2>3
  <1>6. r \in Injection(B, 0..(N - 1))
    <2>1. r \in [B -> 0..(N - 1)]
      BY <1>1, <1>2, <1>3
    <2> QED BY <1>5, <2>1 DEF Injection, IsInjective
  <1>7. IsFiniteSet(0..(N - 1)) /\ Cardinality(0..(N - 1)) = N
    <2>1. 0 \in Int /\ N - 1 \in Int
      BY <1>1
    <2>2. /\ IsFiniteSet(0..(N - 1))
          /\ Cardinality(0..(N - 1)) = IF 0 > N - 1 THEN 0 ELSE (N - 1) - 0 + 1
      BY <2>1, FS_Interval
    <2> QED BY <1>1, <2>2
  <1> DEFINE T == 0..(N - 1)
  <1>8. r \in Surjection(B, T)
    <2>1. IsFiniteSet(T) /\ r \in Injection(B, T) /\ Cardinality(B) = Cardinality(T)
      BY <1>6, <1>7
    <2> HIDE DEF T, r
    <2> QED BY <2>1, FS_Injection
  <1>9. \A i \in 1..N : \E x \in B : Cardinality(Below(x)) = i - 1
    <2>1. SUFFICES ASSUME NEW i \in 1..N PROVE \E x \in B : Cardinality(Below(x)) = i - 1
      OBVIOUS
    <2>2. i - 1 \in T
      BY <1>1
    <2>3. PICK x \in B : r[x] = i - 1
      <3> HIDE DEF T, r
      <3> QED BY <1>8, <2>2 DEF Surjection
    <2> QED BY <2>3
  <1>10. \A x \in B : Cardinality(Below(x)) + 1 \in 1..N
    BY <1>1, <1>2, <1>3
  <1> QED BY <1>1, <1>5, <1>9, <1>10 DEF Below

\* The fanins of a new cover are what it depends on, each once.
LEMMA PinsFacts ==
    ASSUME NEW cover, IsFiniteSet(Base(cover)), Base(cover) \subseteq Nat,
           NEW pins, pins = PinsOf(cover)
    PROVE  pins \in Seq(Nat) /\ IsInjective(pins) /\ Range(pins) = Base(cover)
  <1> DEFINE B == Base(cover)  N == Cardinality(B)  Rank(x) == Cardinality({y \in B : y < x})
  <1>1. /\ \A i \in 1..N : \E x \in B : Rank(x) = i - 1
        /\ \A x \in B : Rank(x) + 1 \in 1..N
        /\ \A x, z \in B : Rank(x) = Rank(z) => x = z
        /\ N \in Nat
    <2> HIDE DEF B
    <2>1. IsFiniteSet(B) /\ B \subseteq Nat
      BY DEF B
    <2> QED BY <2>1, RankFacts
  <1>11. \A x \in B : Rank(x) \in Nat
    <2>1. SUFFICES ASSUME NEW x \in B PROVE Rank(x) \in Nat
      OBVIOUS
    <2>2. PICK S : S = {y \in B : y < x}
      OBVIOUS
    <2>3. S \in SUBSET B /\ IsFiniteSet(B)
      BY <2>2
    <2>4. Cardinality(S) \in Nat
      BY <2>3, FS_Subset, FS_CardinalityType
    <2> QED BY <2>2, <2>4
  <1>2. pins = [i \in 1..N |-> CHOOSE x \in B : Rank(x) = i - 1]
    BY DEF PinsOf
  <1>0. B \subseteq Nat
    OBVIOUS
  <1> HIDE DEF B, N, Rank
  <1>3. \A i \in 1..N : pins[i] \in B /\ Rank(pins[i]) = i - 1
    <2>1. SUFFICES ASSUME NEW i \in 1..N PROVE pins[i] \in B /\ Rank(pins[i]) = i - 1
      OBVIOUS
    <2>2. pins[i] = CHOOSE x \in B : Rank(x) = i - 1
      BY <1>2
    <2>3. \E x \in B : Rank(x) = i - 1
      BY <1>1
    <2> QED BY <2>2, <2>3
  <1>4. pins \in [1..N -> Nat]
    BY <1>0, <1>2, <1>3
  <1>5. pins \in Seq(Nat) /\ DOMAIN pins = 1..N
    BY <1>1, <1>4
  <1>6. IsInjective(pins)
    <2>1. SUFFICES ASSUME NEW i \in 1..N, NEW j \in 1..N, pins[i] = pins[j] PROVE i = j
      BY <1>5 DEF IsInjective
    <2>2. i - 1 = j - 1
      BY <1>3, <2>1
    <2> QED BY <1>1, <2>2
  <1>7. B \subseteq Range(pins)
    <2>1. SUFFICES ASSUME NEW x \in B PROVE x \in Range(pins)
      OBVIOUS
    <2>2. PICK i : i = Rank(x) + 1
      OBVIOUS
    <2>3. i \in 1..N
      BY <1>1, <2>2
    <2>4. Rank(pins[i]) = i - 1 /\ pins[i] \in B
      BY <1>3, <2>3
    <2>5. \E k \in 1..N : Rank(x) = k - 1
      <3>1. PICK k : k = Rank(x) + 1
        OBVIOUS
      <3>2. k \in 1..N
        BY <2>2, <2>3, <3>1
      <3> QED BY <1>11, <3>1, <3>2
    <2>6. Rank(x) = Rank(pins[i])
      <3>1. PICK k \in 1..N : Rank(x) = k - 1
        BY <2>5
      <3> QED BY <1>1, <2>2, <2>4, <3>1
    <2>7. x = pins[i]
      BY <1>1, <2>4, <2>6
    <2> QED BY <1>5, <2>3, <2>7 DEF Range
  <1>8. Range(pins) \subseteq B
    BY <1>3, <1>5 DEF Range
  <1> QED BY <1>5, <1>6, <1>7, <1>8 DEF B

\* A cover, written over its pins, is one that node_check accepts, and no
\* fanin is there twice.
LEMMA OverPinsFacts ==
    ASSUME NEW D, IsFiniteSet(D), D \subseteq Nat,
           NEW cover, IsCover(cover, D), IsIncomparable(cover),
           NEW nd, nd.fanin = PinsOf(cover), nd.F = OverPins(cover, nd.fanin)
    PROVE  /\ nd.fanin \in Seq(Nat) /\ Range(nd.fanin) \subseteq D /\ ~HasDup(nd)
           /\ IsFunction(nd) /\ IsMinimumBase(nd) /\ IsSccMinimal(nd)
  <1> DEFINE P == nd.fanin
             Over(c) == [i \in DOMAIN P |-> IF <<P[i], 1>> \in c THEN 1 ELSE IF <<P[i], 0>> \in c
                   THEN 0 ELSE 2]
  <1>1. \A c \in cover : \A l \in c : l[1] \in Base(cover) /\ l[1] \in D /\ l[2] \in {0, 1}
        /\ l = <<l[1], l[2]>>
    <2>1. SUFFICES ASSUME NEW c \in cover, NEW l \in c
                   PROVE  l[1] \in Base(cover) /\ l[1] \in D /\ l[2] \in {0, 1}
                          /\ l = <<l[1], l[2]>>
      OBVIOUS
    <2>2. l \in D \X {0, 1}
      BY DEF IsCover
    <2> QED BY <2>2 DEF Base
  <1>2. Base(cover) \subseteq D
    BY <1>1 DEF Base
  <1>3. IsFiniteSet(Base(cover)) /\ Base(cover) \subseteq Nat
    BY <1>2, FS_Subset
  <1>4. P \in Seq(Nat) /\ IsInjective(P) /\ Range(P) = Base(cover)
    BY <1>3, PinsFacts
  <1>5. nd.F = {Over(c) : c \in cover}
    BY DEF OverPins
  <1>6. IsFunction(nd)
    BY <1>5 DEF IsFunction
  <1>7. IsMinimumBase(nd)
    <2>1. SUFFICES ASSUME NEW i \in DOMAIN P PROVE \E c \in cover : Over(c)[i] /= 2
      BY <1>5 DEF IsMinimumBase
    <2>2. P[i] \in Base(cover)
      BY <1>4 DEF Range
    <2>3. PICK c \in cover : \E l \in c : l[1] = P[i]
      BY <2>2 DEF Base
    <2>4. <<P[i], 1>> \in c \/ <<P[i], 0>> \in c
      BY <1>1, <2>3
    <2> QED BY <2>4
  <1>8. IsSccMinimal(nd)
    <2>1. SUFFICES \A c, d \in cover : Over(c) /= Over(d)
                       => \E i \in DOMAIN P : Over(d)[i] /= 2 /\ Over(d)[i] /= Over(c)[i]
      <3>1. \A c : DOMAIN Over(c) = DOMAIN P
        OBVIOUS
      <3> HIDE DEF Over, P
      <3>2. \A a, b \in nd.F : a /= b => \E i \in DOMAIN a : b[i] /= 2 /\ b[i] /= a[i]
        BY <1>5, <2>1, <3>1
      <3> QED BY <3>2 DEF IsSccMinimal
    <2>7. SUFFICES ASSUME NEW c \in cover, NEW d \in cover, Over(c) /= Over(d)
                   PROVE  \E i \in DOMAIN P : Over(d)[i] /= 2 /\ Over(d)[i] /= Over(c)[i]
      OBVIOUS
    <2>2. PICK l \in d : l \notin c
      <3>1. ~(d \subseteq c)
        BY <2>7 DEF IsIncomparable
      <3> QED BY <3>1
    <2>3. PICK i \in DOMAIN P : P[i] = l[1]
      BY <1>1, <1>4 DEF Range
    <2>4. Consistent(d)
      BY DEF IsCover
    <2>5. CASE l[2] = 1
      <3>1. <<P[i], 1>> \in d /\ <<P[i], 1>> \notin c
        BY <1>1, <2>2, <2>3, <2>5
      <3>2. Over(d)[i] = 1 /\ Over(c)[i] /= 1
        BY <3>1
      <3> QED BY <3>2
    <2>6. CASE l[2] = 0
      <3>1. <<P[i], 0>> \in d /\ <<P[i], 0>> \notin c
        BY <1>1, <2>2, <2>3, <2>6
      <3>2. <<P[i], 1>> \notin d
        <4>1. <<l[1], 1 - l[2]>> \notin d
          BY <2>4 DEF Consistent
        <4> QED BY <2>3, <2>6, <4>1
      <3>3. Over(d)[i] = 0 /\ Over(c)[i] /= 0
        BY <3>1, <3>2
      <3> QED BY <3>3
    <2> QED BY <1>1, <2>5, <2>6
  <1>9. ~HasDup(nd)
    BY <1>4 DEF HasDup
  <1>10. nd.fanin \in Seq(Nat) /\ Range(nd.fanin) \subseteq D
    BY <1>2, <1>4
  <1> QED BY <1>6, <1>7, <1>8, <1>9, <1>10

\* One node has taken up another, which it used, and uses it no more if it used
\* it once; it has a fanin twice only where the other had.
IsCollapsed(net, res, f, g) ==
    /\ DOMAIN res.node = DOMAIN net.node
    /\ \A n \in DOMAIN net.node : res.node[n].type = net.node[n].type
    /\ \A n \in DOMAIN net.node \ {f} : res.node[n] = net.node[n]
    /\ Range(res.node[f].fanin) \subseteq Range(net.node[f].fanin) \union Range(net.node[g].fanin)
    /\ HasDup(res.node[f]) => HasDup(net.node[g])
    /\ ~HasDup(net.node[f]) => g \notin Range(res.node[f].fanin)

\* What node_and and node_or make of a node and a fanin of it, over the fanins
\* of both.
CombinedOf(net, f, g) ==
    LET nd == net.node[f]
        pin == Min({i \in DOMAIN nd.fanin : nd.fanin[i] = g})
        cover == Substitute(nd, pin, OverBase(net.node[g]))
    IN Internal(PinsOf(cover), OverPins(cover, PinsOf(cover)))

\* A function that can take the place of a node's when a fanin goes into it.
CanReplace(net, f, g, r) ==
    /\ r.fanin \in Seq(Nat) /\ r.dup_free \in BOOLEAN /\ (r.dup_free => ~HasDup(r))
    /\ IsFunction(r) /\ IsMinimumBase(r) /\ IsSccMinimal(r)
    /\ Range(r.fanin) \subseteq Range(net.node[f].fanin) \union Range(net.node[g].fanin)
    /\ HasDup(r) => HasDup(net.node[g])
    /\ ~HasDup(net.node[f]) => g \notin Range(r.fanin)

\* The combined function can: it is proper, has no fanin twice and drops the
\* fanin.
LEMMA CombinedFacts ==
    ASSUME NEW net, IsNetwork(net), NEW f \in DOMAIN net.node, NEW g, IsCollapsible(net, f, g),
           NEW r, r = CombinedOf(net, f, g)
    PROVE  CanReplace(net, f, g, r)
  <1>1. PICK pin : pin = Min({i \in DOMAIN net.node[f].fanin : net.node[f].fanin[i] = g})
    OBVIOUS
  <1>2. PICK cover : cover = Substitute(net.node[f], pin, OverBase(net.node[g]))
    OBVIOUS
  <1>3. r = Internal(PinsOf(cover), OverPins(cover, PinsOf(cover)))
    BY <1>1, <1>2 DEF CombinedOf
  <1> DEFINE D == OtherFanins(net.node[f], pin) \union Range(net.node[g].fanin)
  <1>4. g \in Range(net.node[f].fanin)
    BY DEF IsCollapsible
  <1>5. NodesAreListed(net.node, net.nodes) /\ CoversAreSound(net.node) /\ Acyclic(net.node)
    BY NetworkHas
  <1>6. \A n \in DOMAIN net.node : /\ IsNode(net.node[n])
                                   /\ Range(net.node[n].fanin) \subseteq DOMAIN net.node
                                   /\ net.node[n].dup_free => ~HasDup(net.node[n])
    BY <1>5 DEF NodesAreListed, CoversAreSound
  <1>7. g \in DOMAIN net.node
    BY <1>4, <1>6
  <1>8. pin \in DOMAIN net.node[f].fanin /\ net.node[f].fanin[pin] = g
    <2> DEFINE S == {i \in DOMAIN net.node[f].fanin : net.node[f].fanin[i] = g}
    <2>1. S /= {}
      BY <1>4 DEF Range
    <2>2. S \subseteq Nat
      <3>1. net.node[f].fanin \in Seq(Nat)
        BY <1>6 DEF IsNode
      <3> QED BY <3>1
    <2> HIDE DEF S
    <2>3. Min(S) \in S
      BY <2>1, <2>2, MinFacts
    <2> QED BY <1>1, <2>3 DEF S
  <1>9. OtherFanins(net.node[f], pin) \subseteq Range(net.node[f].fanin)
    BY DEF OtherFanins, Range
  <1>10. ~HasDup(net.node[f]) => g \notin D
    <2>1. ~HasDup(net.node[f]) => g \notin OtherFanins(net.node[f], pin)
      BY <1>8 DEF HasDup, IsInjective, OtherFanins
    <2>2. {g} \in SUBSET DOMAIN net.node /\ {g} /= {}
      BY <1>7
    <2>3. g \notin Range(net.node[g].fanin)
      BY <1>5, <2>2 DEF Acyclic
    <2> QED BY <2>1, <2>3
  <1>11. D \subseteq DOMAIN net.node
    BY <1>6, <1>7, <1>9
  <1> HIDE DEF D
  <1>12. IsFiniteSet(D) /\ D \subseteq Nat
    BY <1>5, <1>11, ListedFacts, FS_Subset
  <1>13. IsCover(OverBase(net.node[g]), D)
    <2>1. \A i \in DOMAIN net.node[g].fanin : net.node[g].fanin[i] \in D
      BY DEF D, Range
    <2> QED BY <1>6, <1>7, <2>1, OverBaseFacts DEF IsNode
  <1>14. IsCover(cover, D) /\ IsIncomparable(cover)
    <2>1. OtherFanins(net.node[f], pin) \subseteq D
      BY DEF D
    <2> QED BY <1>6, <1>8, <1>13, <1>2, <2>1, SubstituteFacts
  <1>15. r.fanin = PinsOf(cover) /\ r.F = OverPins(cover, r.fanin) /\ r.dup_free = TRUE
    BY <1>3 DEF Internal
  <1>16. /\ r.fanin \in Seq(Nat) /\ Range(r.fanin) \subseteq D /\ ~HasDup(r)
         /\ IsFunction(r) /\ IsMinimumBase(r) /\ IsSccMinimal(r)
    BY ONLY <1>12, <1>14, <1>15, OverPinsFacts
  <1> QED BY <1>9, <1>10, <1>15, <1>16 DEF D, CanReplace

\* So can what node_collapse puts in the place of a node's function.
LEMMA CollapsedFacts ==
    ASSUME NEW net, IsNetwork(net), NEW f \in DOMAIN net.node, NEW g, IsCollapsible(net, f, g),
           NEW res, res = node_collapse(net, f, g)
    PROVE  \E r : res = node_replace(net, f, r) /\ CanReplace(net, f, g, r)
  <1>1. CASE IsBuffer(net.node[f]) /\ ~IsConstant(net.node[g])
    <2>1. res = node_replace(net, f, net.node[g])
      BY <1>1 DEF node_collapse
    <2>2. net.node[g].type = "INTERNAL" /\ g \in Range(net.node[f].fanin)
      BY DEF IsCollapsible
    <2>3. NodesAreListed(net.node, net.nodes) /\ CoversAreSound(net.node) /\ Acyclic(net.node)
      BY NetworkHas
    <2>4. g \in DOMAIN net.node
      BY <2>2, <2>3 DEF NodesAreListed
    <2>5. IsNode(net.node[g])
      BY <2>3, <2>4 DEF NodesAreListed
    <2>6. /\ IsMinimumBase(net.node[g]) /\ IsSccMinimal(net.node[g])
          /\ net.node[g].dup_free => ~HasDup(net.node[g])
      BY <2>2, <2>3, <2>4 DEF CoversAreSound
    <2>7. g \notin Range(net.node[g].fanin)
      <3>1. {g} \in SUBSET DOMAIN net.node /\ {g} /= {}
        BY <2>4
      <3> QED BY <2>3, <3>1 DEF Acyclic
    <2>8. CanReplace(net, f, g, net.node[g])
      BY <2>5, <2>6, <2>7 DEF IsNode, CanReplace
    <2> QED BY <2>1, <2>8
  <1>2. CASE ~(IsBuffer(net.node[f]) /\ ~IsConstant(net.node[g]))
    <2>1. res = node_replace(net, f, CombinedOf(net, f, g))
      BY <1>2 DEF node_collapse, CombinedOf
    <2>2. CanReplace(net, f, g, CombinedOf(net, f, g))
      BY CombinedFacts
    <2> QED BY <2>1, <2>2
  <1> QED BY <1>1, <1>2

\* node_collapse keeps a network sound: a node takes a fanin into its
\* function.
LEMMA CollapseSound ==
    ASSUME NEW net, IsNetwork(net), NEW f \in DOMAIN net.node, NEW g, IsCollapsible(net, f, g),
           NEW res, res = node_collapse(net, f, g)
    PROVE  IsNetwork(res) /\ SameLists(res, net) /\ IsCollapsed(net, res, f, g)
  <1>1. /\ net.node[f].type = "INTERNAL" /\ net.node[g].type = "INTERNAL"
        /\ g \in Range(net.node[f].fanin)
    BY DEF IsCollapsible
  <1>2. NodesAreListed(net.node, net.nodes) /\ TerminalsAreListed(net.node, net.pi, net.po)
        /\ CoversAreSound(net.node) /\ Acyclic(net.node)
    BY NetworkHas
  <1>3. \A n \in DOMAIN net.node : /\ IsNode(net.node[n])
                                   /\ Range(net.node[n].fanin) \subseteq DOMAIN net.node
    BY <1>2 DEF NodesAreListed
  <1>4. g \in DOMAIN net.node
    BY <1>1, <1>3
  <1>5. PICK r : res = node_replace(net, f, r) /\ CanReplace(net, f, g, r)
    BY CollapsedFacts
  <1>6. /\ r.fanin \in Seq(Nat) /\ r.dup_free \in BOOLEAN /\ (r.dup_free => ~HasDup(r))
        /\ IsFunction(r) /\ IsMinimumBase(r) /\ IsSccMinimal(r)
        /\ Range(r.fanin) \subseteq Range(net.node[f].fanin) \union Range(net.node[g].fanin)
        /\ HasDup(r) => HasDup(net.node[g])
        /\ ~HasDup(net.node[f]) => g \notin Range(r.fanin)
    BY <1>5 DEF CanReplace
  <1>7. PICK nd : nd = Replaced(net.node[f], r)
    OBVIOUS
  <1>8. PICK node2 : node2 = Put(net.node, f, nd)
    OBVIOUS
  <1>9. NodeShape(net.node[f])
    BY <1>3, IsNodeShape
  <1>10. /\ nd.type = "INTERNAL" /\ nd.fanin = r.fanin /\ nd.F = r.F /\ nd.dup_free = r.dup_free
         /\ nd = [type |-> nd.type, fanin |-> nd.fanin, F |-> nd.F, dup_free |-> nd.dup_free,
              name |-> nd.name]
    BY <1>1, <1>7, <1>9, ReplacedFields
  <1>11. /\ IsFunction(nd) /\ IsMinimumBase(nd) /\ IsSccMinimal(nd) /\ (HasDup(nd) <=> HasDup(r))
    BY <1>10, <1>6 DEF IsFunction, IsMinimumBase, IsSccMinimal, HasDup
  <1>12. IsProper(net.node, nd)
    <2>1. IsNode(nd)
      BY <1>10, <1>11, <1>6 DEF IsNode, Types
    <2>2. Range(nd.fanin) \subseteq DOMAIN net.node
      BY <1>3, <1>4, <1>10, <1>6
    <2>3. \A n \in DOMAIN net.node : \A x \in Range(net.node[n].fanin) :
            net.node[x].type /= "PRIMARY_OUTPUT"
      BY <1>2 DEF TerminalsAreListed, Range
    <2>4. \A x \in Range(nd.fanin) : net.node[x].type /= "PRIMARY_OUTPUT"
      BY <1>4, <1>10, <1>6, <2>3
    <2> QED BY <1>10, <1>11, <1>6, <2>1, <2>2, <2>4 DEF IsProper
  <1>13. DOMAIN node2 = DOMAIN net.node /\ node2[f] = nd
         /\ \A n \in DOMAIN net.node \ {f} : node2[n] = net.node[n]
    BY <1>8 DEF Put
  <1>14. Range(node2[f].fanin) \subseteq Range(net.node[f].fanin) \union Range(net.node[g].fanin)
    BY <1>10, <1>13, <1>6
  <1>15. Acyclic(node2)
    <2>1. \A n \in DOMAIN net.node \ {f} : node2[n].fanin = net.node[n].fanin
      BY <1>13
    <2> QED BY <1>1, <1>2, <1>4, <1>13, <1>14, <2>1, AcyclicByCollapse
  <1>16. IsNetwork(res) /\ SameLists(res, net) /\ res.node = node2
    BY <1>1, <1>5, <1>7, <1>8, <1>12, <1>15, ReplaceSound
  <1>17. IsCollapsed(net, res, f, g)
    BY <1>1, <1>10, <1>11, <1>13, <1>14, <1>16, <1>6 DEF IsCollapsed
  <1> QED BY <1>16, <1>17

-----------------------------------------------------------------------------
\* A network is copied.

\* A list with the copies in the place of the nodes.
CopiedList(list, copy) == [i \in DOMAIN list |-> copy[list[i]]]

\* The copies of the nodes in S.
Copies(S, copy) == {copy[x] : x \in S}

\* The copy of a node is its place in the list.
IsPlace(node, nodes, copy) ==
    /\ \A n \in DOMAIN node : copy[n] \in 1..Len(nodes) /\ nodes[copy[n]] = n
    /\ \A i \in 1..Len(nodes) : nodes[i] \in DOMAIN node /\ copy[nodes[i]] = i
    /\ Len(nodes) \in Nat /\ DOMAIN nodes = 1..Len(nodes)

\* The copy that network_dup makes of each node.
CopyOf(net) == [n \in DOMAIN net.node |-> SelectInSeq(net.nodes, LAMBDA m : m = n)]

\* The place in the list tells the copies apart.
LEMMA CopyIsPlace ==
    ASSUME NEW net, NodesAreListed(net.node, net.nodes)
    PROVE  IsPlace(net.node, net.nodes, CopyOf(net))
  <1> DEFINE nodes == net.nodes  D == DOMAIN net.node
  <1>1. nodes \in Seq(Nat) /\ IsInjective(nodes) /\ Range(nodes) = D
    BY DEF NodesAreListed
  <1> HIDE DEF nodes, D
  <1>2. /\ Len(nodes) \in Nat /\ DOMAIN nodes = 1..Len(nodes)
        /\ \A i \in 1..Len(nodes) : nodes[i] \in D
        /\ \A n \in D : \E i \in 1..Len(nodes) : nodes[i] = n
        /\ \A i, j \in 1..Len(nodes) : nodes[i] = nodes[j] => i = j
    BY <1>1, RangeFacts, InjectiveFacts
  <1>3. ASSUME NEW i \in 1..Len(nodes)  PROVE CopyOf(net)[nodes[i]] = i
    <2> DEFINE S == {j \in 1..Len(nodes) : nodes[j] = nodes[i]}
    <2>1. S = {i}
      BY <1>2
    <2>2. Min(S) = i
      <3>1. {i} \subseteq Nat /\ {i} /= {}
        BY <1>2
      <3> QED BY <2>1, <3>1, MinFacts
    <2>3. CopyOf(net)[nodes[i]] = SelectInSeq(nodes, LAMBDA m : m = nodes[i])
      BY <1>2 DEF CopyOf, D, nodes
    <2>4. SelectInSeq(nodes, LAMBDA m : m = nodes[i]) = IF S /= {} THEN Min(S) ELSE 0
      BY DEF SelectInSeq
    <2> QED BY <2>1, <2>2, <2>3, <2>4
  <1>4. \A n \in D : CopyOf(net)[n] \in 1..Len(nodes) /\ nodes[CopyOf(net)[n]] = n
    BY <1>2, <1>3
  <1> QED BY <1>2, <1>3, <1>4 DEF IsPlace, nodes, D

\* The copy of a list is one, and as long and as injective as the list.
LEMMA CopiedListFacts ==
    ASSUME NEW node, NEW nodes, NEW copy, IsPlace(node, nodes, copy),
           NEW s, s \in Seq(Nat), Range(s) \subseteq DOMAIN node, NEW t, t = CopiedList(s, copy)
    PROVE  /\ t \in Seq(Nat) /\ Len(t) = Len(s) /\ DOMAIN t = DOMAIN s
           /\ Range(t) = Copies(Range(s), copy) /\ Range(t) \subseteq 1..Len(nodes)
           /\ IsInjective(t) <=> IsInjective(s)
           /\ \A i \in DOMAIN s : t[i] = copy[s[i]]
           /\ s = <<>> => t = <<>>
  <1>1. /\ DOMAIN s = 1..Len(s) /\ Len(s) \in Nat
        /\ \A i \in 1..Len(s) : s[i] \in Range(s)
        /\ \A x \in Range(s) : \E i \in 1..Len(s) : s[i] = x
    BY RangeFacts
  <1>2. t = [i \in 1..Len(s) |-> copy[s[i]]]
    BY <1>1 DEF CopiedList
  <1>3. \A n \in DOMAIN node : copy[n] \in 1..Len(nodes) /\ nodes[copy[n]] = n
    BY DEF IsPlace
  <1>4. Len(nodes) \in Nat
    BY DEF IsPlace
  <1>5. \A i \in 1..Len(s) : t[i] = copy[s[i]] /\ s[i] \in DOMAIN node /\ t[i] \in Nat
    BY <1>1, <1>2, <1>3, <1>4
  <1>6. t \in Seq(Nat) /\ Len(t) = Len(s) /\ DOMAIN t = DOMAIN s
    BY <1>1, <1>2, <1>5
  <1>7. /\ \A i \in 1..Len(t) : t[i] \in Range(t)
        /\ \A x \in Range(t) : \E i \in 1..Len(t) : t[i] = x
    BY <1>6, RangeFacts
  <1>8. Range(t) = Copies(Range(s), copy)
    <2>1. ASSUME NEW y \in Range(t)  PROVE y \in Copies(Range(s), copy)
      <3>1. PICK i \in 1..Len(t) : t[i] = y
        BY <1>7
      <3>2. s[i] \in Range(s) /\ y = copy[s[i]]
        BY <1>1, <1>5, <1>6, <3>1
      <3> QED BY <3>2 DEF Copies
    <2>2. ASSUME NEW x \in Range(s)  PROVE copy[x] \in Range(t)
      <3>1. PICK i \in 1..Len(s) : s[i] = x
        BY <1>1
      <3>2. t[i] = copy[x]
        BY <1>5, <3>1
      <3> QED BY <1>6, <1>7, <3>2
    <2> QED BY <2>1, <2>2 DEF Copies
  <1>9. Range(t) \subseteq 1..Len(nodes)
    BY <1>3, <1>8 DEF Copies
  <1>10. IsInjective(t) <=> IsInjective(s)
    <2>1. IsInjective(s) <=> \A i, j \in 1..Len(s) : s[i] = s[j] => i = j
      BY InjectiveFacts
    <2>2. IsInjective(t) <=> \A i, j \in 1..Len(t) : t[i] = t[j] => i = j
      BY <1>6, InjectiveFacts
    <2>3. \A i, j \in 1..Len(s) : t[i] = t[j] <=> s[i] = s[j]
      BY <1>3, <1>5, SMTT(60)
    <2> QED BY <1>6, <2>1, <2>2, <2>3
  <1>11. s = <<>> => t = <<>>
    <2>1. ASSUME s = <<>>  PROVE t = <<>>
      <3>1. Len(t) = 0
        BY <1>6, <2>1
      <3> QED BY <1>6, <3>1
    <2> QED BY <2>1
  <1> QED BY <1>1, <1>5, <1>6, <1>8, <1>9, <1>10, <1>11

\* A node and its copy.
IsCopyOf(nd2, nd, copy) ==
    /\ IsNode(nd2)
    /\ nd2.type = nd.type /\ nd2.name = nd.name /\ nd2.F = nd.F /\ nd2.dup_free = nd.dup_free
    /\ nd2.fanin = CopiedList(nd.fanin, copy)

\* network_dup makes a copy of a node.
LEMMA CopiedNode ==
    ASSUME NEW node, NEW nodes, NEW copy, IsPlace(node, nodes, copy),
           NEW nd, IsNode(nd), Range(nd.fanin) \subseteq DOMAIN node,
           NEW nd2, nd2 = [nd EXCEPT !.fanin = CopiedList(@, copy)]
    PROVE  IsCopyOf(nd2, nd, copy)
  <1>1. NodeShape(nd) /\ nd.type \in Types /\ nd.fanin \in Seq(Nat) /\ nd.dup_free \in BOOLEAN
        /\ IsFunction(nd)
    BY IsNodeShape
  <1>2. PICK v : v = CopiedList(nd.fanin, copy)
    OBVIOUS
  <1>3. nd2 = [nd EXCEPT !.fanin = v]
    BY <1>2
  <1>4. nd2 = NodeOf(nd.type, v, nd.F, nd.dup_free, nd.name)
    BY <1>1, <1>3, SetFanin
  <1>5. /\ nd2.type = nd.type /\ nd2.fanin = v /\ nd2.F = nd.F /\ nd2.dup_free = nd.dup_free
        /\ nd2.name = nd.name
        /\ NodeShape(nd2)
    <2>1. PICK t, c, d, x : t = nd.type /\ c = nd.F /\ d = nd.dup_free /\ x = nd.name
      OBVIOUS
    <2>2. nd2 = NodeOf(t, v, c, d, x)
      BY <1>4, <2>1
    <2>3. nd2.type = t /\ nd2.fanin = v /\ nd2.F = c /\ nd2.dup_free = d /\ nd2.name = x
          /\ NodeShape(nd2)
      BY <2>2, NodeFields
    <2> QED BY <2>1, <2>3
  <1>6. v \in Seq(Nat) /\ DOMAIN v = DOMAIN nd.fanin
    BY <1>1, <1>2, CopiedListFacts
  <1>7. IsFunction(nd2)
    BY <1>1, <1>5, <1>6 DEF IsFunction
  <1>8. IsNode(nd2)
    BY <1>1, <1>5, <1>6, <1>7 DEF IsNode, NodeShape, NodeOf
  <1> QED BY <1>2, <1>5, <1>8 DEF IsCopyOf

\* A copy is as sound as the node.
LEMMA CopyKeeps ==
    ASSUME NEW node, NEW nodes, NEW copy, IsPlace(node, nodes, copy),
           NEW nd, IsNode(nd), Range(nd.fanin) \subseteq DOMAIN node,
           NEW nd2, IsCopyOf(nd2, nd, copy)
    PROVE  /\ IsMinimumBase(nd) => IsMinimumBase(nd2)
           /\ IsSccMinimal(nd) => IsSccMinimal(nd2)
           /\ HasDup(nd2) => HasDup(nd)
           /\ Len(nd2.fanin) = Len(nd.fanin)
           /\ nd.fanin = <<>> => nd2.fanin = <<>>
           /\ DOMAIN nd2.fanin = DOMAIN nd.fanin
           /\ \A i \in DOMAIN nd.fanin : nd2.fanin[i] = copy[nd.fanin[i]]
           /\ Range(nd2.fanin) = Copies(Range(nd.fanin), copy)
           /\ Range(nd2.fanin) \subseteq 1..Len(nodes)
  <1>1. nd.fanin \in Seq(Nat)
    BY DEF IsNode
  <1>2. PICK s, t : s = nd.fanin /\ t = nd2.fanin
    OBVIOUS
  <1>3. t = CopiedList(s, copy) /\ nd2.F = nd.F
    BY <1>2 DEF IsCopyOf
  <1>4. /\ Len(t) = Len(s) /\ DOMAIN t = DOMAIN s
        /\ Range(t) = Copies(Range(s), copy) /\ Range(t) \subseteq 1..Len(nodes)
        /\ IsInjective(t) <=> IsInjective(s)
        /\ \A i \in DOMAIN s : t[i] = copy[s[i]]
        /\ s = <<>> => t = <<>>
    BY <1>1, <1>2, <1>3, CopiedListFacts
  <1>5. IsMinimumBase(nd) => IsMinimumBase(nd2)
    BY <1>2, <1>3, <1>4 DEF IsMinimumBase
  <1>6. IsSccMinimal(nd) => IsSccMinimal(nd2)
    BY <1>3 DEF IsSccMinimal
  <1>7. HasDup(nd2) => HasDup(nd)
    BY <1>2, <1>4 DEF HasDup
  <1> QED BY <1>2, <1>4, <1>5, <1>6, <1>7

\* A network's nodes and their copies.
AreCopies(node2, node, nodes, copy) ==
    /\ node2 = [i \in 1..Len(nodes) |-> node2[i]]
    /\ \A i \in 1..Len(nodes) : IsCopyOf(node2[i], node[nodes[i]], copy)

\* Copies of nodes without a cycle have none.
LEMMA CopiesAcyclic ==
    ASSUME NEW node, NEW nodes,
           NEW copy, IsPlace(node, nodes, copy), NodesAreListed(node, nodes), Acyclic(node),
           NEW node2, AreCopies(node2, node, nodes, copy)
    PROVE  Acyclic(node2)
  <1>1. DOMAIN node2 = 1..Len(nodes)
    BY DEF AreCopies
  <1>2. SUFFICES ASSUME NEW T \in SUBSET (1..Len(nodes)), T /= {}
                 PROVE  \E i \in T : Range(node2[i].fanin) \intersect T = {}
    BY <1>1 DEF Acyclic
  <1> DEFINE S == {n \in DOMAIN node : copy[n] \in T}
  <1>3. /\ \A n \in DOMAIN node : copy[n] \in 1..Len(nodes) /\ nodes[copy[n]] = n
        /\ \A i \in 1..Len(nodes) : nodes[i] \in DOMAIN node /\ copy[nodes[i]] = i
    BY DEF IsPlace
  <1>4. S \in SUBSET DOMAIN node /\ S /= {}
    BY <1>2, <1>3
  <1>5. PICK n \in S : Range(node[n].fanin) \intersect S = {}
    BY <1>4 DEF Acyclic
  <1>6. PICK i : i = copy[n]
    OBVIOUS
  <1>7. i \in T /\ nodes[i] = n /\ n \in DOMAIN node
    BY <1>3, <1>5, <1>6
  <1>8. IsNode(node[n]) /\ Range(node[n].fanin) \subseteq DOMAIN node
    BY <1>7 DEF NodesAreListed
  <1>9. IsCopyOf(node2[i], node[n], copy)
    BY <1>2, <1>7 DEF AreCopies
  <1>10. Range(node2[i].fanin) = Copies(Range(node[n].fanin), copy)
    <2>1. PICK nd, nd2 : nd = node[n] /\ nd2 = node2[i]
      OBVIOUS
    <2>2. Range(nd2.fanin) = Copies(Range(nd.fanin), copy)
      BY <1>8, <1>9, <2>1, CopyKeeps
    <2> QED BY <2>1, <2>2
  <1>11. \A x \in Range(node[n].fanin) : copy[x] \notin T
    BY <1>5, <1>8
  <1> QED BY <1>7, <1>10, <1>11 DEF Copies

\* The list of the copies has each once.
LEMMA CopiesListed ==
    ASSUME NEW node, NEW nodes, NEW copy, IsPlace(node, nodes, copy), NodesAreListed(node, nodes),
           NEW node2, AreCopies(node2, node, nodes, copy),
           NEW nodes2, nodes2 = CopiedList(nodes, copy)
    PROVE  /\ NodesAreListed(node2, nodes2)
           /\ Len(nodes2) = Len(nodes) /\ \A i \in 1..Len(nodes) : nodes2[i] = i
  <1>1. /\ nodes \in Seq(Nat) /\ IsInjective(nodes) /\ Range(nodes) = DOMAIN node
    BY DEF NodesAreListed
  <1>2. /\ \A i \in 1..Len(nodes) : nodes[i] \in DOMAIN node /\ copy[nodes[i]] = i
        /\ Len(nodes) \in Nat /\ DOMAIN nodes = 1..Len(nodes)
    BY DEF IsPlace
  <1>3. /\ nodes2 \in Seq(Nat) /\ Len(nodes2) = Len(nodes) /\ DOMAIN nodes2 = DOMAIN nodes
        /\ IsInjective(nodes2) /\ Range(nodes2) \subseteq 1..Len(nodes)
        /\ \A i \in DOMAIN nodes : nodes2[i] = copy[nodes[i]]
    BY <1>1, CopiedListFacts
  <1>4. \A i \in 1..Len(nodes) : nodes2[i] = i
    BY <1>2, <1>3
  <1>5. Range(nodes2) = 1..Len(nodes)
    <2>1. \A i \in 1..Len(nodes2) : nodes2[i] \in Range(nodes2)
      BY <1>3, RangeFacts
    <2>2. \A i \in 1..Len(nodes) : i \in Range(nodes2)
      BY <1>3, <1>4, <2>1
    <2> QED BY <1>3, <2>2
  <1>6. DOMAIN node2 = 1..Len(nodes)
    BY DEF AreCopies
  <1>7. ASSUME NEW i \in 1..Len(nodes)
        PROVE IsNode(node2[i]) /\ Range(node2[i].fanin) \subseteq 1..Len(nodes)
    <2>1. PICK nd, nd2 : nd = node[nodes[i]] /\ nd2 = node2[i]
      OBVIOUS
    <2>2. IsCopyOf(nd2, nd, copy)
      BY <2>1 DEF AreCopies
    <2>3. IsNode(nd) /\ Range(nd.fanin) \subseteq DOMAIN node
      BY <1>2, <2>1 DEF NodesAreListed
    <2>4. Range(nd2.fanin) \subseteq 1..Len(nodes)
      BY <2>2, <2>3, CopyKeeps
    <2>5. IsNode(nd2)
      BY <2>2 DEF IsCopyOf
    <2> QED BY <2>1, <2>4, <2>5
  <1>8. node2 = [n \in DOMAIN node2 |-> node2[n]]
    BY <1>6 DEF AreCopies
  <1> QED BY <1>3, <1>4, <1>5, <1>6, <1>7, <1>8 DEF NodesAreListed

\* A list of all the nodes of a type, and its copy.
ListsAll(node, type, list) ==
    list \in Seq(Nat) /\ IsInjective(list)
    /\ Range(list) = {n \in DOMAIN node : node[n].type = type}

\* The copy of a list of all nodes of a type is one of all copies of that
\* type.
LEMMA CopiesOfType ==
    ASSUME NEW node, NEW nodes, NEW copy, IsPlace(node, nodes, copy), NEW type,
           NEW list, ListsAll(node, type, list),
           NEW node2, AreCopies(node2, node, nodes, copy)
    PROVE  ListsAll(node2, type, CopiedList(list, copy))
  <1>1. PICK list2 : list2 = CopiedList(list, copy)
    OBVIOUS
  <1>2. list \in Seq(Nat) /\ Range(list) = {n \in DOMAIN node : node[n].type = type}
        /\ IsInjective(list)
    BY DEF ListsAll
  <1>3. Range(list) \subseteq DOMAIN node
    BY <1>2
  <1>4. list2 \in Seq(Nat) /\ IsInjective(list2) /\ Range(list2) = Copies(Range(list), copy)
    <2>1. list \in Seq(Nat) /\ IsInjective(list)
      BY <1>2
    <2> QED BY <1>1, <1>3, <2>1, CopiedListFacts
  <1>5. /\ \A n \in DOMAIN node : copy[n] \in 1..Len(nodes) /\ nodes[copy[n]] = n
        /\ \A i \in 1..Len(nodes) : nodes[i] \in DOMAIN node /\ copy[nodes[i]] = i
    BY DEF IsPlace
  <1>6. /\ DOMAIN node2 = 1..Len(nodes)
        /\ \A i \in 1..Len(nodes) : node2[i].type = node[nodes[i]].type
    BY DEF AreCopies, IsCopyOf
  <1>7. \A i \in 1..Len(nodes) : i \in Copies(Range(list), copy) <=> node[nodes[i]].type = type
    BY <1>2, <1>5 DEF Copies
  <1>8. Copies(Range(list), copy) \subseteq 1..Len(nodes)
    BY <1>3, <1>5 DEF Copies
  <1>9. Range(list2) = {n \in DOMAIN node2 : node2[n].type = type}
    BY <1>4, <1>6, <1>7, <1>8
  <1> QED BY <1>1, <1>4, <1>9 DEF ListsAll

\* So it is with the inputs and the outputs.
LEMMA CopiesTerminals ==
    ASSUME NEW node, NEW nodes, NEW copy, IsPlace(node, nodes, copy), NodesAreListed(node, nodes),
           NEW pi, NEW po, TerminalsAreListed(node, pi, po),
           NEW node2, AreCopies(node2, node, nodes, copy)
    PROVE  TerminalsAreListed(node2, CopiedList(pi, copy), CopiedList(po, copy))
  <1>1. ListsAll(node, "PRIMARY_INPUT", pi) /\ ListsAll(node, "PRIMARY_OUTPUT", po)
    BY DEF TerminalsAreListed, ListsAll
  <1>2. /\ ListsAll(node2, "PRIMARY_INPUT", CopiedList(pi, copy))
        /\ ListsAll(node2, "PRIMARY_OUTPUT", CopiedList(po, copy))
    BY <1>1, CopiesOfType
  <1>3. DOMAIN node2 = 1..Len(nodes) /\ \A i \in 1..Len(nodes) : node2[i].type = node[nodes[i]].type
    BY DEF AreCopies, IsCopyOf
  <1>4. /\ \A n \in DOMAIN node : copy[n] \in 1..Len(nodes) /\ nodes[copy[n]] = n
        /\ \A i \in 1..Len(nodes) : nodes[i] \in DOMAIN node /\ copy[nodes[i]] = i
    BY DEF IsPlace
  <1>5. ASSUME NEW n \in DOMAIN node2
        PROVE  /\ node2[n].type = "PRIMARY_INPUT" => node2[n].fanin = <<>>
               /\ node2[n].type = "PRIMARY_OUTPUT" => Len(node2[n].fanin) = 1
               /\ \A i \in DOMAIN node2[n].fanin : node2[node2[n].fanin[i]].type /= "PRIMARY_OUTPUT"
    <2>1. PICK m : m = nodes[n]
      OBVIOUS
    <2>2. m \in DOMAIN node
      BY <1>3, <1>4, <2>1
    <2>3. IsNode(node[m]) /\ Range(node[m].fanin) \subseteq DOMAIN node
      BY <2>2 DEF NodesAreListed
    <2>4. PICK nd, nd2 : nd = node[m] /\ nd2 = node2[n]
      OBVIOUS
    <2>5. IsCopyOf(nd2, nd, copy)
      BY <1>3, <2>1, <2>4 DEF AreCopies
    <2>6. /\ Len(nd2.fanin) = Len(nd.fanin)
          /\ nd.fanin = <<>> => nd2.fanin = <<>>
          /\ DOMAIN nd2.fanin = DOMAIN nd.fanin
          /\ \A i \in DOMAIN nd.fanin : nd2.fanin[i] = copy[nd.fanin[i]]
      BY <2>3, <2>4, <2>5, CopyKeeps
    <2>7. nd2.type = nd.type
      BY <2>5 DEF IsCopyOf
    <2>8. /\ nd.type = "PRIMARY_INPUT" => nd.fanin = <<>>
          /\ nd.type = "PRIMARY_OUTPUT" => Len(nd.fanin) = 1
          /\ \A i \in DOMAIN nd.fanin : node[nd.fanin[i]].type /= "PRIMARY_OUTPUT"
      BY <2>2, <2>4 DEF TerminalsAreListed
    <2>9. ASSUME NEW i \in DOMAIN nd2.fanin  PROVE node2[nd2.fanin[i]].type /= "PRIMARY_OUTPUT"
      <3>1. PICK x : x = nd.fanin[i]
        OBVIOUS
      <3>2. i \in DOMAIN nd.fanin /\ nd2.fanin[i] = copy[x]
        BY <2>6, <2>9, <3>1
      <3>3. x \in DOMAIN node
        BY <2>3, <2>4, <3>1, <3>2 DEF Range
      <3>4. node2[copy[x]].type = node[x].type
        BY <1>3, <1>4, <3>3
      <3> QED BY <2>8, <3>1, <3>2, <3>4
    <2> QED BY <2>4, <2>6, <2>7, <2>8, <2>9
  <1> QED BY <1>2, <1>5 DEF TerminalsAreListed, ListsAll

\* The covers of the copies are sound.
LEMMA CopiesCovers ==
    ASSUME NEW node, NEW nodes, NEW copy, IsPlace(node, nodes, copy), NodesAreListed(node, nodes),
           CoversAreSound(node), NEW node2, AreCopies(node2, node, nodes, copy)
    PROVE  CoversAreSound(node2)
  <1>1. DOMAIN node2 = 1..Len(nodes)
    BY DEF AreCopies
  <1>2. SUFFICES ASSUME NEW n \in 1..Len(nodes)
                 PROVE  /\ node2[n].type = "INTERNAL" => IsMinimumBase(node2[n])
                           /\ IsSccMinimal(node2[n])
                        /\ node2[n].dup_free => ~HasDup(node2[n])
    BY <1>1 DEF CoversAreSound
  <1>3. PICK nd, nd2 : nd = node[nodes[n]] /\ nd2 = node2[n]
    OBVIOUS
  <1>4. nodes[n] \in DOMAIN node
    BY DEF IsPlace
  <1>5. IsNode(nd) /\ Range(nd.fanin) \subseteq DOMAIN node
    BY <1>3, <1>4 DEF NodesAreListed
  <1>6. IsCopyOf(nd2, nd, copy)
    BY <1>3 DEF AreCopies
  <1>7. /\ IsMinimumBase(nd) => IsMinimumBase(nd2)
        /\ IsSccMinimal(nd) => IsSccMinimal(nd2)
        /\ HasDup(nd2) => HasDup(nd)
    BY <1>5, <1>6, CopyKeeps
  <1>8. /\ nd.type = "INTERNAL" => IsMinimumBase(nd) /\ IsSccMinimal(nd)
        /\ nd.dup_free => ~HasDup(nd)
    BY <1>3, <1>4 DEF CoversAreSound
  <1>9. nd2.type = nd.type /\ nd2.dup_free = nd.dup_free
    BY <1>6 DEF IsCopyOf
  <1> QED BY <1>3, <1>7, <1>8, <1>9

\* The name table of the copy.
NamesCopied(net) ==
    [name \in {net.node[n].name : n \in DOMAIN net.node} |->
        SelectInSeq(net.nodes, LAMBDA n : net.node[n].name = name)]

\* It finds the copy of each node.
LEMMA CopiesNamed ==
    ASSUME NEW net, NodesAreListed(net.node, net.nodes), NamesFindNodes(net.node, net.name_table),
           NEW copy, IsPlace(net.node, net.nodes, copy),
           NEW node2, AreCopies(node2, net.node, net.nodes, copy),
           NEW table, table = NamesCopied(net)
    PROVE  NamesFindNodes(node2, table)
  <1> DEFINE nodes == net.nodes  D == DOMAIN net.node
  <1>1. /\ \A n \in D : copy[n] \in 1..Len(nodes) /\ nodes[copy[n]] = n
        /\ \A i \in 1..Len(nodes) : nodes[i] \in D /\ copy[nodes[i]] = i
        /\ Len(nodes) \in Nat
    BY DEF IsPlace
  <1>2. DOMAIN node2 = 1..Len(nodes)
        /\ \A i \in 1..Len(nodes) : node2[i].name = net.node[nodes[i]].name
    BY DEF AreCopies, IsCopyOf
  <1>3. \A m, n \in D : net.node[m].name = net.node[n].name => m = n
    BY DEF NamesFindNodes
  <1>4. {node2[i].name : i \in DOMAIN node2} = {net.node[n].name : n \in D}
    <2>1. \A n \in D : node2[copy[n]].name = net.node[n].name
      BY <1>1, <1>2
    <2> QED BY <1>1, <1>2, <2>1
  <1>5. table = [name \in {node2[i].name : i \in DOMAIN node2} |-> table[name]]
    <2>1. table = [name \in {net.node[n].name : n \in D} |-> table[name]]
      BY DEF NamesCopied
    <2> HIDE DEF D
    <2> QED BY <1>4, <2>1
  <1>6. ASSUME NEW i \in 1..Len(nodes)  PROVE table[node2[i].name] = i
    <2>1. PICK name : name = node2[i].name
      OBVIOUS
    <2>2. name = net.node[nodes[i]].name /\ nodes[i] \in D
      BY <1>1, <1>2, <2>1, SMTT(60)
    <2>3. table[name] = SelectInSeq(nodes, LAMBDA n : net.node[n].name = name)
      BY <2>2 DEF NamesCopied
    <2> DEFINE S == {j \in 1..Len(nodes) : net.node[nodes[j]].name = name}
    <2>4. S = {i}
      <3>1. ASSUME NEW j \in S  PROVE j = i
        <4>1. nodes[j] = nodes[i]
          BY <1>1, <1>3, <2>2, <3>1
        <4> QED BY <1>1, <3>1, <4>1
      <3> QED BY <2>2, <3>1
    <2>5. SelectInSeq(nodes, LAMBDA n : net.node[n].name = name) = IF S /= {} THEN Min(S) ELSE 0
      BY DEF SelectInSeq
    <2> HIDE DEF S
    <2>6. {i} \subseteq Nat /\ {i} /= {}
      BY <1>1
    <2>7. Min({i}) = i
      BY <2>6, MinFacts
    <2> QED BY <2>1, <2>3, <2>4, <2>5, <2>7
  <1> QED BY <1>2, <1>5, <1>6 DEF NamesFindNodes

\* The results of the turns of the loop.
IsListing(f, net, list) ==
    /\ f[0] = net
    /\ \A k \in 1..Len(list) : f[k] = fanin_add_fanout(f[k - 1], list[k])
    /\ ForEach(fanin_add_fanout, net, list) = f[Len(list)]

\* There is such a list of results.
LEMMA ListingLoop ==
    ASSUME NEW net, NEW list, Len(list) \in Nat
    PROVE  \E f : IsListing(f, net, list)
  <1> DEFINE last == Len(list)
             Turn(r, k) == fanin_add_fanout(r, list[k])
             Start == net
             G(f, m) == f = [k \in 0..m |-> IF k = 0 THEN Start ELSE Turn(f[k - 1], k)]
             S == {m \in 0..last : \E f : G(f, m)}
  <1>0. last \in Nat
    OBVIOUS
  <1>1. ForEach(fanin_add_fanout, net, list) = (CHOOSE f : G(f, last))[last]
    BY DEF ForEach
  <1> HIDE DEF Turn, Start, last
  <1>2. \E f : G(f, 0)
    <2>1. G([k \in 0..0 |-> Start], 0)
      OBVIOUS
    <2> HIDE DEF G
    <2> QED BY <2>1
  <1>3. ASSUME NEW m \in 1..last, NEW f, G(f, m - 1)  PROVE \E g : G(g, m)
    <2> DEFINE g == [k \in 0..m |-> IF k = m THEN Turn(f[m - 1], m) ELSE f[k]]
    <2>1. ASSUME NEW k \in 0..m
          PROVE  g[k] = IF k = 0 THEN Start ELSE Turn(g[k - 1], k)
      <3>1. CASE k = m
        <4>1. g[m] = Turn(f[m - 1], m) /\ m \in 0..m /\ m /= 0 /\ g[m - 1] = f[m - 1]
          BY <1>0
        <4> HIDE DEF g
        <4> QED BY <3>1, <4>1
      <3>2. CASE k /= m
        <4>1. k \in 0..(m - 1)
          BY <1>0, <3>2
        <4>2. f[k] = IF k = 0 THEN Start ELSE Turn(f[k - 1], k)
          BY <1>3, <4>1
        <4>3. g[k] = f[k] /\ (k /= 0 => g[k - 1] = f[k - 1])
          BY <1>0, <3>2, <4>1
        <4> HIDE DEF g
        <4> QED BY <4>2, <4>3
      <3> QED BY <3>1, <3>2
    <2>2. g = [k \in 0..m |-> g[k]]
      OBVIOUS
    <2>3. G(g, m)
      BY <2>1, <2>2
    <2> HIDE DEF G, g
    <2> QED BY <2>3
  <1>4. \E f : G(f, last)
    <2> HIDE DEF G
    <2>1. 0 \in S
      BY <1>0, <1>2
    <2>2. \A m \in 1..last : m - 1 \in S => m \in S
      BY <1>0, <1>3
    <2> HIDE DEF S
    <2>3. \A m \in 0..last : m \in S
      BY <1>0, <2>1, <2>2, UpTo
    <2>4. last \in S
      BY <1>0, <2>3
    <2> QED BY <2>4 DEF S
  <1> DEFINE F == CHOOSE f : G(f, last)
  <1>5. G(F, last)
    <2> HIDE DEF G
    <2> QED BY <1>4
  <1> HIDE DEF F
  <1>6. \A k \in 0..last : F[k] = IF k = 0 THEN Start ELSE Turn(F[k - 1], k)
    <2>1. \A k \in 0..last : [j \in 0..last |-> IF j = 0 THEN Start ELSE Turn(F[j - 1], j)][k]
                             = IF k = 0 THEN Start ELSE Turn(F[k - 1], k)
      OBVIOUS
    <2> QED BY <1>5, <2>1, Zenon
  <1>7. F[0] = Start /\ \A k \in 1..last : F[k] = Turn(F[k - 1], k)
    <2>1. 0 \in 0..last /\ \A k \in 1..last : k \in 0..last /\ k /= 0
      BY <1>0
    <2> QED BY <1>6, <2>1, Zenon
  <1>8. ForEach(fanin_add_fanout, net, list) = F[last]
    BY <1>1 DEF F
  <1>9. IsListing(F, net, list)
    BY <1>7, <1>8, Zenon DEF IsListing, Turn, Start, last
  <1> QED BY <1>9

\* The fanout lists of the nodes, that are numbered, are empty.
IsUnlisted(net, list) ==
    /\ Shape(net) /\ Len(list) \in Nat /\ \A i \in 1..Len(list) : list[i] = i
    /\ DOMAIN net.node = 1..Len(list) /\ \A n \in DOMAIN net.node : net.node[n].fanin \in Seq(Nat)
    /\ net.fanout = [n \in DOMAIN net.node |-> <<>>]

\* They are filled.
IsWired(res, net) ==
    \E b : /\ res = Net(net.node, b, net.nodes, net.pi, net.po, net.name_table, net.latch,
                net.latch_table)
           /\ FanoutsMirrorFanins(net.node, b)

\* Adding the fanouts of one node after another fills the lists.
LEMMA ListingSound ==
    ASSUME NEW net, NEW list, IsUnlisted(net, list),
           NEW res, res = ForEach(fanin_add_fanout, net, list)
    PROVE  IsWired(res, net)
  <1>0. /\ Shape(net) /\ Len(list) \in Nat /\ \A i \in 1..Len(list) : list[i] = i
        /\ DOMAIN net.node = 1..Len(list)
        /\ \A n \in DOMAIN net.node : net.node[n].fanin \in Seq(Nat)
        /\ net.fanout = [n \in DOMAIN net.node |-> <<>>]
    BY DEF IsUnlisted
  <1> DEFINE N == Len(list)
             Listed(x) == /\ Shape(x) /\ x.node = net.node /\ SameLists(x, net)
                          /\ x.fanout = [n \in DOMAIN net.node |-> x.fanout[n]]
  <1>1. PICK f : IsListing(f, net, list)
    BY <1>0, ListingLoop
  <1>2. f[0] = net /\ res = f[N] /\ \A k \in 1..N : f[k] = fanin_add_fanout(f[k - 1], list[k])
    BY <1>1 DEF IsListing
  <1> DEFINE P == {k \in 0..N : Listed(f[k]) /\ Lists(net.node, 1..k, f[k].fanout)}
  <1>3. 0 \in P
    <2>1. Listed(f[0])
      BY <1>0, <1>2 DEF SameLists
    <2>2. Lists(net.node, 1..0, net.fanout)
      <3>1. \A x \in DOMAIN net.fanout : net.fanout[x] = <<>>
        BY <1>0
      <3>2. <<>> \in Seq(Nat \X Nat) /\ IsInjective(<<>>) /\ Range(<<>>) = {}
        BY EmptyFacts
      <3>3. \A n \in 1..0 : FALSE
        OBVIOUS
      <3> QED BY <3>1, <3>2, <3>3 DEF Lists
    <2>3. 0 \in 0..N /\ f[0].fanout = net.fanout
      BY <1>0, <1>2
    <2> HIDE DEF Listed
    <2> QED BY <2>1, <2>2, <2>3
  <1>4. ASSUME NEW k \in 1..N, k - 1 \in P  PROVE k \in P
    <2>1. PICK last : last = f[k - 1]
      OBVIOUS
    <2>2. Listed(last) /\ Lists(net.node, 1..(k - 1), last.fanout)
      BY <1>4, <2>1
    <2>3. f[k] = fanin_add_fanout(last, k)
      BY <1>0, <1>2, <2>1
    <2>4. PICK b, u : b = UsesAdded(net.node, last.fanout, k) /\ u = 1..(k - 1)
      OBVIOUS
    <2>5. f[k] = Net(last.node, b, last.nodes, last.pi, last.po, last.name_table, last.latch,
            last.latch_table)
      BY <2>2, <2>3, <2>4, AddFanoutIs
    <2>6. PICK next : next = f[k]
      OBVIOUS
    <2>7. /\ next.node = last.node /\ next.fanout = b /\ next.nodes = last.nodes
          /\ next.pi = last.pi
          /\ next.po = last.po /\ next.name_table = last.name_table /\ next.latch = last.latch
          /\ next.latch_table = last.latch_table /\ Shape(next)
      <3>1. PICK a, c, d, e, g, h, i : /\ a = last.node /\ c = last.nodes /\ d = last.pi
                                          /\ e = last.po
                                       /\ g = last.name_table /\ h = last.latch
                                       /\ i = last.latch_table
        OBVIOUS
      <3>2. next = Net(a, b, c, d, e, g, h, i)
        BY <2>5, <2>6, <3>1
      <3>3. /\ next.node = a /\ next.fanout = b /\ next.nodes = c /\ next.pi = d
            /\ next.po = e /\ next.name_table = g /\ next.latch = h /\ next.latch_table = i
            /\ Shape(next)
        BY <3>2, NetFields
      <3> QED BY <3>1, <3>3
    <2>8. k \in Nat /\ k \notin u /\ u \union {k} = 1..k /\ k \in DOMAIN net.node
      BY <1>0, <2>4
    <2>9. Lists(net.node, u \union {k}, b) /\ DOMAIN b = DOMAIN last.fanout
      <3>1. net.node[k].fanin \in Seq(Nat)
        BY <1>0, <2>8
      <3>2. Lists(net.node, u, last.fanout)
        BY <2>2, <2>4
      <3>3. PICK fan, node : fan = last.fanout /\ node = net.node
        OBVIOUS
      <3>4. Lists(node, u, fan) /\ b = UsesAdded(node, fan, k) /\ node[k].fanin \in Seq(Nat)
        BY <2>4, <3>1, <3>2, <3>3
      <3> HIDE DEF Listed
      <3>6. k \in Nat /\ k \notin u
        BY <2>8
      <3>7. /\ Lists(node, u \union {k}, UsesAdded(node, fan, k))
            /\ DOMAIN UsesAdded(node, fan, k) = DOMAIN fan
        BY <3>4, <3>6, ListsAdd
      <3>5. Lists(node, u \union {k}, b) /\ DOMAIN b = DOMAIN fan
        BY <3>4, <3>7
      <3> QED BY <3>3, <3>5
    <2>10. b = [n \in DOMAIN net.node |-> b[n]]
      <3>1. b = [n \in DOMAIN last.fanout |-> b[n]]
        BY <2>4 DEF UsesAdded
      <3>2. DOMAIN last.fanout = DOMAIN net.node
        BY <2>2
      <3> QED BY <3>1, <3>2
    <2>11. Listed(next)
      BY <2>2, <2>7, <2>10 DEF SameLists
    <2> HIDE DEF Listed
    <2>12. k \in 0..N
      BY <1>0
    <2> QED BY <2>6, <2>7, <2>8, <2>9, <2>11, <2>12
  <1> HIDE DEF P
  <1>5. \A k \in 0..N : k \in P
    BY <1>0, <1>3, <1>4, UpTo
  <1>6. N \in 0..N
    BY <1>0
  <1>7. N \in P
    BY <1>5, <1>6
  <1>8. Listed(res) /\ Lists(net.node, 1..N, res.fanout)
    BY <1>2, <1>7 DEF P
  <1>9. FanoutsMirrorFanins(net.node, res.fanout)
    BY <1>0, <1>8, SMTT(60) DEF FanoutsMirrorFanins
  <1>10. res = Net(net.node, res.fanout, net.nodes, net.pi, net.po, net.name_table, net.latch,
           net.latch_table)
    BY <1>8, Zenon DEF Shape, SameLists
  <1> QED BY <1>9, <1>10 DEF IsWired

\* Every place of the latch list has another latch.
LEMMA LatchListFacts ==
    ASSUME NEW net, IsNetwork(net)
    PROVE  /\ Len(net.latch) \in Nat
           /\ \A i \in 1..Len(net.latch) : net.latch[i] \in Range(net.latch)
           /\ \A i, j \in 1..Len(net.latch) : net.latch[i] = net.latch[j] => i = j
  <1> DEFINE list == net.latch
  <1>1. LatchesAreListed(net.node, net.latch, net.latch_table)
    BY NetworkHas
  <1>2. list \in Seq(Range(list)) /\ IsInjective(list)
    BY <1>1, LatchFacts
  <1> HIDE DEF list
  <1>3. /\ Len(list) \in Nat /\ \A i \in 1..Len(list) : list[i] \in Range(list)
        /\ \A i, j \in 1..Len(list) : list[i] = list[j] => i = j
    BY <1>2, RangeFacts, InjectiveFacts
  <1> QED BY <1>3 DEF list

\* The copy without its fanout lists and latches.
BareCopy(net, copy) ==
    Net([i \in DOMAIN net.nodes |-> [net.node[net.nodes[i]] EXCEPT !.fanin = CopiedList(@, copy)]],
        [i \in DOMAIN net.nodes |-> <<>>], CopiedList(net.nodes, copy), CopiedList(net.pi, copy),
        CopiedList(net.po, copy), NamesCopied(net), <<>>, <<>>)

\* network_dup in its three parts: the nodes, the fanout lists and the
\* latches.
LEMMA DupIs ==
    ASSUME NEW net
    PROVE  LET bare == BareCopy(net, CopyOf(net))
           IN network_dup(net)
              = copy_latch_info(ForEach(fanin_add_fanout, bare, bare.nodes), net.latch, CopyOf(net))
  <1> QED BY DEF network_dup, BareCopy, CopyOf, Net, NamesCopied, CopiedList

\* No latches and an empty table agree with any nodes.
LEMMA NoLatches ==
    ASSUME NEW node
    PROVE  LatchesAreListed(node, <<>>, <<>>)
  <1>1. Len(<<>>) = 0 /\ DOMAIN <<>> = {}
    OBVIOUS
  <1>2. <<>> = [i \in 1..Len(<<>>) |-> <<>>[i]] /\ <<>> = [n \in DOMAIN <<>> |-> <<>>[n]]
    OBVIOUS
  <1> QED BY <1>1, <1>2 DEF LatchesAreListed

\* The copy is a network before it has latches.
LEMMA BareCopySound ==
    ASSUME NEW net, IsNetwork(net), NEW copy, copy = CopyOf(net),
           NEW bare, bare = BareCopy(net, copy),
           NEW res, res = ForEach(fanin_add_fanout, bare, bare.nodes)
    PROVE  /\ IsNetwork(res) /\ IsPlace(net.node, net.nodes, copy)
           /\ AreCopies(res.node, net.node, net.nodes, copy)
           /\ res.latch = <<>> /\ res.latch_table = <<>>
  <1>1. /\ NodesAreListed(net.node, net.nodes) /\ TerminalsAreListed(net.node, net.pi, net.po)
        /\ NamesFindNodes(net.node, net.name_table) /\ CoversAreSound(net.node) /\ Acyclic(net.node)
    BY NetworkHas
  <1>2. IsPlace(net.node, net.nodes, copy)
    BY <1>1, CopyIsPlace
  <1>3. PICK node2 : node2 = [i \in DOMAIN net.nodes |-> [net.node[net.nodes[i]] EXCEPT !.fanin
               = CopiedList(@, copy)]]
    OBVIOUS
  <1>4. PICK fan : fan = [i \in DOMAIN net.nodes |-> <<>>]
    OBVIOUS
  <1>5. PICK nodes2, pi2, po2, table : /\ nodes2 = CopiedList(net.nodes, copy)
                                          /\ pi2 = CopiedList(net.pi, copy)
                                       /\ po2 = CopiedList(net.po, copy) /\ table = NamesCopied(net)
    OBVIOUS
  <1>6. PICK none : none = <<>>
    BY SMTT(60)
  <1>7. bare = Net(node2, fan, nodes2, pi2, po2, table, none, none)
    BY <1>3, <1>4, <1>5, <1>6 DEF BareCopy
  <1>8. DOMAIN net.nodes = 1..Len(net.nodes) /\ Len(net.nodes) \in Nat
        /\ \A i \in 1..Len(net.nodes) : net.nodes[i] \in DOMAIN net.node
    BY <1>2 DEF IsPlace
  <1>9. AreCopies(node2, net.node, net.nodes, copy)
    <2>1. node2 = [i \in 1..Len(net.nodes) |-> node2[i]]
      BY <1>3, <1>8
    <2>2. ASSUME NEW i \in 1..Len(net.nodes)  PROVE IsCopyOf(node2[i], net.node[net.nodes[i]], copy)
      <3>1. PICK nd, nd2 : nd = net.node[net.nodes[i]] /\ nd2 = node2[i]
        OBVIOUS
      <3>2. nd2 = [nd EXCEPT !.fanin = CopiedList(@, copy)]
        BY <1>3, <1>8, <3>1
      <3>3. IsNode(nd) /\ Range(nd.fanin) \subseteq DOMAIN net.node
        BY <1>1, <1>8, <3>1 DEF NodesAreListed
      <3>4. IsCopyOf(nd2, nd, copy)
        BY <1>2, <3>2, <3>3, CopiedNode
      <3> QED BY <3>1, <3>4
    <2> QED BY <2>1, <2>2 DEF AreCopies
  <1>10. /\ bare.node = node2 /\ bare.fanout = fan /\ bare.nodes = nodes2 /\ bare.pi = pi2
         /\ bare.po = po2
         /\ bare.name_table = table /\ bare.latch = none /\ bare.latch_table = none /\ Shape(bare)
    BY <1>7, NetFields
  <1>11. /\ NodesAreListed(node2, nodes2) /\ Len(nodes2) = Len(net.nodes)
         /\ \A i \in 1..Len(net.nodes) : nodes2[i] = i
    BY <1>1, <1>2, <1>5, <1>9, CopiesListed
  <1>12. DOMAIN node2 = 1..Len(nodes2)
    BY <1>9, <1>11 DEF AreCopies
  <1>13. PICK b : /\ res = Net(node2, b, nodes2, pi2, po2, table, none, none)
                  /\ FanoutsMirrorFanins(node2, b)
    <2>1. \A n \in DOMAIN node2 : node2[n].fanin \in Seq(Nat)
      <3>1. ASSUME NEW n \in DOMAIN node2  PROVE node2[n].fanin \in Seq(Nat)
        <4>1. IsNode(node2[n])
          BY <1>11 DEF NodesAreListed
        <4> QED BY <4>1 DEF IsNode
      <3> QED BY <3>1
    <2>2. fan = [n \in DOMAIN node2 |-> <<>>]
      BY <1>4, <1>8, <1>11, <1>12
    <2>3. res = ForEach(fanin_add_fanout, bare, nodes2)
      BY <1>10
    <2>4. Len(nodes2) \in Nat /\ \A i \in 1..Len(nodes2) : nodes2[i] = i
      BY <1>8, <1>11
    <2>5. IsUnlisted(bare, nodes2)
      BY <1>10, <1>12, <2>1, <2>2, <2>4 DEF IsUnlisted
    <2>6. IsWired(res, bare)
      BY <2>3, <2>5, ListingSound
    <2> QED BY <1>10, <2>6 DEF IsWired
  <1>14. Parts(node2, nodes2, pi2, po2, table, none, none)
    <2>1. TerminalsAreListed(node2, pi2, po2)
      BY <1>1, <1>2, <1>5, <1>9, CopiesTerminals
    <2>2. NamesFindNodes(node2, table)
      BY <1>1, <1>2, <1>5, <1>9, CopiesNamed
    <2>3. CoversAreSound(node2)
      BY <1>1, <1>2, <1>9, CopiesCovers
    <2>4. LatchesAreListed(node2, none, none)
      BY <1>6, NoLatches
    <2> QED BY <1>11, <2>1, <2>2, <2>3, <2>4 DEF Parts
  <1>15. Acyclic(node2)
    BY <1>1, <1>2, <1>9, CopiesAcyclic
  <1>16. Fit(node2, b, nodes2, pi2, po2, table, none, none)
    BY <1>13, <1>14, <1>15 DEF Fit
  <1>17. IsNetwork(res)
    BY <1>13, <1>16, NetIsNetwork
  <1>18. res.node = node2 /\ res.latch = none /\ res.latch_table = none
    BY <1>13, NetFields
  <1> QED BY <1>2, <1>6, <1>9, <1>17, <1>18

\* A turn of copy_latch_info.
CopiedLatch(result, l, copy) ==
    LET put == AddLatch(result, copy[l.input], copy[l.output], l.initial_value)
    IN IF l.control = NIL THEN put
       ELSE latch_set_control(put, copy[l.input], copy[l.control])

\* The results of the turns of the loop.
IsCopyingLatches(f, net, latches, copy) ==
    /\ f[0] = net
    /\ \A k \in 1..Len(latches) : f[k] = CopiedLatch(f[k - 1], latches[k], copy)
    /\ copy_latch_info(net, latches, copy) = f[Len(latches)]

\* There is such a list of results.
LEMMA CopyLatchesLoop ==
    ASSUME NEW net, NEW latches, NEW copy, Len(latches) \in Nat
    PROVE  \E f : IsCopyingLatches(f, net, latches, copy)
  <1> DEFINE last == Len(latches)
             Turn(r, k) == CopiedLatch(r, latches[k], copy)
             Start == net
             G(f, m) == f = [k \in 0..m |-> IF k = 0 THEN Start ELSE Turn(f[k - 1], k)]
             S == {m \in 0..last : \E f : G(f, m)}
  <1>0. last \in Nat
    OBVIOUS
  <1>1. copy_latch_info(net, latches, copy) = (CHOOSE f : G(f, last))[last]
    BY DEF copy_latch_info, ForEach, CopiedLatch
  <1> HIDE DEF Turn, Start, last
  <1>2. \E f : G(f, 0)
    <2>1. G([k \in 0..0 |-> Start], 0)
      OBVIOUS
    <2> HIDE DEF G
    <2> QED BY <2>1
  <1>3. ASSUME NEW m \in 1..last, NEW f, G(f, m - 1)  PROVE \E g : G(g, m)
    <2> DEFINE g == [k \in 0..m |-> IF k = m THEN Turn(f[m - 1], m) ELSE f[k]]
    <2>1. ASSUME NEW k \in 0..m
          PROVE  g[k] = IF k = 0 THEN Start ELSE Turn(g[k - 1], k)
      <3>1. CASE k = m
        <4>1. g[m] = Turn(f[m - 1], m) /\ m \in 0..m /\ m /= 0 /\ g[m - 1] = f[m - 1]
          BY <1>0
        <4> HIDE DEF g
        <4> QED BY <3>1, <4>1
      <3>2. CASE k /= m
        <4>1. k \in 0..(m - 1)
          BY <1>0, <3>2
        <4>2. f[k] = IF k = 0 THEN Start ELSE Turn(f[k - 1], k)
          BY <1>3, <4>1
        <4>3. g[k] = f[k] /\ (k /= 0 => g[k - 1] = f[k - 1])
          BY <1>0, <3>2, <4>1
        <4> HIDE DEF g
        <4> QED BY <4>2, <4>3
      <3> QED BY <3>1, <3>2
    <2>2. g = [k \in 0..m |-> g[k]]
      OBVIOUS
    <2>3. G(g, m)
      BY <2>1, <2>2
    <2> HIDE DEF G, g
    <2> QED BY <2>3
  <1>4. \E f : G(f, last)
    <2> HIDE DEF G
    <2>1. 0 \in S
      BY <1>0, <1>2
    <2>2. \A m \in 1..last : m - 1 \in S => m \in S
      BY <1>0, <1>3
    <2> HIDE DEF S
    <2>3. \A m \in 0..last : m \in S
      BY <1>0, <2>1, <2>2, UpTo
    <2>4. last \in S
      BY <1>0, <2>3
    <2> QED BY <2>4 DEF S
  <1> DEFINE F == CHOOSE f : G(f, last)
  <1>5. G(F, last)
    <2> HIDE DEF G
    <2> QED BY <1>4
  <1> HIDE DEF F
  <1>6. \A k \in 0..last : F[k] = IF k = 0 THEN Start ELSE Turn(F[k - 1], k)
    <2>1. \A k \in 0..last : [j \in 0..last |-> IF j = 0 THEN Start ELSE Turn(F[j - 1], j)][k]
                             = IF k = 0 THEN Start ELSE Turn(F[k - 1], k)
      OBVIOUS
    <2> QED BY <1>5, <2>1, Zenon
  <1>7. F[0] = Start /\ \A k \in 1..last : F[k] = Turn(F[k - 1], k)
    <2>1. 0 \in 0..last /\ \A k \in 1..last : k \in 0..last /\ k /= 0
      BY <1>0
    <2> QED BY <1>6, <2>1, Zenon
  <1>8. copy_latch_info(net, latches, copy) = F[last]
    BY <1>1 DEF F
  <1>9. IsCopyingLatches(F, net, latches, copy)
    BY <1>7, <1>8, Zenon DEF IsCopyingLatches, Turn, Start, last
  <1> QED BY <1>9

\* What the table of the copy has after k latches is a copy of what it has in
\* the original.
TableIsCopied(net, copy, k, table) ==
    \A n \in DOMAIN net.node : copy[n] \in DOMAIN table =>
        /\ n \in DOMAIN net.latch_table
        /\ net.latch_table[n] /= NIL
             => \E j \in 1..k : n \in {net.latch[j].input, net.latch[j].output}
        /\ net.latch_table[n] = NIL => table[copy[n]] = NIL

\* A network with the nodes of another and its first k latches.
IsHalfCopy(res, net, copy, k) ==
    /\ IsNetwork(res) /\ AreCopies(res.node, net.node, net.nodes, copy)
    /\ TableIsCopied(net, copy, k, res.latch_table)

\* A turn of copy_latch_info adds the copy of a latch and of what the table
\* has of it.
LEMMA CopiedLatchSound ==
    ASSUME NEW net, IsNetwork(net), NIL \notin Nat, NEW copy, IsPlace(net.node, net.nodes, copy),
           NEW k \in 1..Len(net.latch), NEW last, IsHalfCopy(last, net, copy, k - 1),
           NEW l, l = net.latch[k], NEW res, res = CopiedLatch(last, l, copy)
    PROVE  IsHalfCopy(res, net, copy, k)
  <1>0. /\ IsNetwork(last) /\ AreCopies(last.node, net.node, net.nodes, copy)
        /\ TableIsCopied(net, copy, k - 1, last.latch_table)
    BY DEF IsHalfCopy
  <1>1. NodesAreListed(net.node, net.nodes)
        /\ LatchesAreListed(net.node, net.latch, net.latch_table)
        /\ NIL \notin DOMAIN net.node
    BY NetworkHas, NilIsNoNode
  <1>2. /\ Len(net.latch) \in Nat
        /\ \A i \in 1..Len(net.latch) : IsLatch(net.node, net.latch_table, net.latch[i])
        /\ \A i, j \in 1..Len(net.latch) : net.latch[i].input = net.latch[j].input => i = j
    BY <1>1 DEF LatchesAreListed
  <1>3. IsLatch(net.node, net.latch_table, l)
    BY <1>2
  <1>4. /\ l.initial_value \in 0..3
        /\ l.input \in DOMAIN net.node /\ net.node[l.input].type = "PRIMARY_OUTPUT"
        /\ l.output \in DOMAIN net.node /\ net.node[l.output].type = "PRIMARY_INPUT"
        /\ l.input \in DOMAIN net.latch_table /\ net.latch_table[l.input] = l.input
        /\ l.output \in DOMAIN net.latch_table /\ net.latch_table[l.output] = l.input
        /\ l.control /= NIL => l.control \in DOMAIN net.latch_table
           /\ net.latch_table[l.control] = NIL
    BY <1>3 DEF IsLatch
  <1>5. l.control /= NIL => l.control \in DOMAIN net.node
        /\ net.node[l.control].type = "PRIMARY_OUTPUT"
    BY <1>1, <1>4 DEF LatchesAreListed
  <1>6. /\ \A n \in DOMAIN net.node : copy[n] \in 1..Len(net.nodes) /\ net.nodes[copy[n]] = n
        /\ DOMAIN last.node = 1..Len(net.nodes)
        /\ \A i \in 1..Len(net.nodes) : last.node[i].type = net.node[net.nodes[i]].type
    BY <1>0 DEF IsPlace, AreCopies, IsCopyOf
  <1>7. \A n \in DOMAIN net.node : copy[n] \in DOMAIN last.node
        /\ last.node[copy[n]].type = net.node[n].type
    BY <1>6
  <1>8. \A m, n \in DOMAIN net.node : copy[m] = copy[n] => m = n
    BY <1>6
  <1>9. ASSUME NEW j \in 1..(k - 1)
        PROVE  l.input \notin {net.latch[j].input, net.latch[j].output}
               /\ l.output \notin {net.latch[j].input, net.latch[j].output}
    <2>1. PICK m : m = net.latch[j]
      OBVIOUS
    <2>2. j \in 1..Len(net.latch) /\ j /= k
      BY <1>2
    <2>3. IsLatch(net.node, net.latch_table, m) /\ m.input /= l.input
      BY <1>2, <2>1, <2>2
    <2>4. /\ m.input \in DOMAIN net.node /\ net.node[m.input].type = "PRIMARY_OUTPUT"
          /\ m.output \in DOMAIN net.node /\ net.node[m.output].type = "PRIMARY_INPUT"
          /\ net.latch_table[m.output] = m.input
      BY <2>3 DEF IsLatch
    <2> QED BY <1>4, <2>1, <2>3, <2>4
  <1>10. PICK in, out, init : in = copy[l.input] /\ out = copy[l.output] /\ init = l.initial_value
    OBVIOUS
  <1>11. in \notin DOMAIN last.latch_table /\ out \notin DOMAIN last.latch_table
    <2>1. net.latch_table[l.input] /= NIL /\ net.latch_table[l.output] /= NIL
      BY <1>1, <1>4
    <2> QED BY <1>0, <1>4, <1>9, <1>10, <2>1 DEF TableIsCopied
  <1>12. PICK put : put = AddLatch(last, in, out, init)
    OBVIOUS
  <1>13. /\ in \in DOMAIN last.node /\ last.node[in].type = "PRIMARY_OUTPUT"
         /\ out \in DOMAIN last.node /\ last.node[out].type = "PRIMARY_INPUT" /\ init \in 0..3
    BY <1>4, <1>7, <1>10
  <1>14. /\ IsNetwork(put) /\ SameNodes(put, last)
         /\ put.latch_table = Put(Put(last.latch_table, in, in), out, in)
    BY <1>0, <1>11, <1>12, <1>13, AddLatchSound
  <1>15. TableIsCopied(net, copy, k, put.latch_table)
    <2>1. PICK old, table : old = last.latch_table /\ table = put.latch_table
      OBVIOUS
    <2>2. PICK mid : mid = Put(old, in, in)
      OBVIOUS
    <2>3. table = Put(mid, out, in)
      BY <1>14, <2>1, <2>2
    <2>4. /\ DOMAIN table = DOMAIN old \union {in, out}
          /\ \A y \in DOMAIN old : y /= in /\ y /= out => table[y] = old[y]
      <3>1. DOMAIN mid = DOMAIN old \union {in} /\ \A y \in DOMAIN old : y /= in => mid[y] = old[y]
        BY <2>2 DEF Put
      <3>2. DOMAIN table = DOMAIN mid \union {out}
            /\ \A y \in DOMAIN mid : y /= out => table[y] = mid[y]
        BY <2>3 DEF Put
      <3> QED BY <3>1, <3>2
    <2>5. ASSUME NEW n \in DOMAIN net.node, copy[n] \in DOMAIN table
          PROVE  /\ n \in DOMAIN net.latch_table
                 /\ net.latch_table[n] /= NIL
                      => \E j \in 1..k : n \in {net.latch[j].input, net.latch[j].output}
                 /\ net.latch_table[n] = NIL => table[copy[n]] = NIL
      <3>1. CASE n = l.input \/ n = l.output
        <4>1. n \in DOMAIN net.latch_table /\ net.latch_table[n] /= NIL
          BY <1>1, <1>4, <3>1
        <4>2. k \in 1..k /\ n \in {net.latch[k].input, net.latch[k].output}
          BY <1>2, <3>1
        <4> QED BY <4>1, <4>2
      <3>2. CASE ~(n = l.input \/ n = l.output)
        <4>1. copy[n] /= in /\ copy[n] /= out
          BY <1>4, <1>8, <1>10, <3>2
        <4>2. copy[n] \in DOMAIN old /\ table[copy[n]] = old[copy[n]]
          BY <2>4, <2>5, <4>1
        <4>3. /\ n \in DOMAIN net.latch_table
              /\ net.latch_table[n] /= NIL
                   => \E j \in 1..(k - 1) : n \in {net.latch[j].input, net.latch[j].output}
              /\ net.latch_table[n] = NIL => old[copy[n]] = NIL
          BY <1>0, <2>1, <4>2 DEF TableIsCopied
        <4>4. \A j \in 1..(k - 1) : j \in 1..k
          BY <1>2
        <4> QED BY <4>2, <4>3, <4>4
      <3> QED BY <3>1, <3>2
    <2> QED BY <2>1, <2>5 DEF TableIsCopied
  <1>16. CASE l.control = NIL
    <2>1. res = put
      BY <1>10, <1>12, <1>16 DEF CopiedLatch
    <2> QED BY <1>0, <1>14, <1>15, <2>1 DEF SameNodes, IsHalfCopy
  <1>17. CASE l.control /= NIL
    <2>1. PICK c : c = copy[l.control]
      OBVIOUS
    <2>2. res = latch_set_control(put, in, c)
      BY <1>10, <1>12, <1>17, <2>1 DEF CopiedLatch
    <2>3. /\ l.control \in DOMAIN net.node /\ net.node[l.control].type = "PRIMARY_OUTPUT"
          /\ l.control \in DOMAIN net.latch_table /\ net.latch_table[l.control] = NIL
      BY <1>4, <1>5, <1>17
    <2>4. put.node = last.node
      BY <1>14 DEF SameNodes
    <2>5. IsControl(put.node, put.latch_table, c)
      <3>1. c \in DOMAIN put.node /\ put.node[c].type = "PRIMARY_OUTPUT"
        BY <1>7, <2>1, <2>3, <2>4
      <3>2. c \in DOMAIN put.latch_table => put.latch_table[c] = NIL
        BY <1>15, <2>1, <2>3 DEF TableIsCopied
      <3> QED BY <3>1, <3>2 DEF IsControl
    <2>6. /\ IsNetwork(res) /\ SameNodes(res, put)
          /\ res.latch_table = IF c = NIL THEN put.latch_table ELSE Put(put.latch_table, c, NIL)
      BY <1>14, <2>2, <2>5, SetControlSound
    <2>7. TableIsCopied(net, copy, k, res.latch_table)
      <3>1. PICK old, table : old = put.latch_table /\ table = res.latch_table
        OBVIOUS
      <3>2. c /= NIL
        <4>1. c \in 1..Len(net.nodes)
          BY <1>6, <2>1, <2>3
        <4>2. Len(net.nodes) \in Nat
          BY DEF IsPlace
        <4> QED BY <4>1, <4>2
      <3>3. table = Put(old, c, NIL)
        BY <2>6, <3>1, <3>2
      <3>4. /\ DOMAIN table = DOMAIN old \union {c} /\ table[c] = NIL
            /\ \A y \in DOMAIN old : y /= c => table[y] = old[y]
        BY <3>3 DEF Put
      <3>5. ASSUME NEW n \in DOMAIN net.node, copy[n] \in DOMAIN table
            PROVE  /\ n \in DOMAIN net.latch_table
                   /\ net.latch_table[n] /= NIL
                        => \E j \in 1..k : n \in {net.latch[j].input, net.latch[j].output}
                   /\ net.latch_table[n] = NIL => table[copy[n]] = NIL
        <4>1. CASE copy[n] = c
          <5>1. n = l.control
            BY <1>8, <2>1, <2>3, <4>1
          <5> QED BY <2>3, <3>4, <4>1, <5>1
        <4>2. CASE copy[n] /= c
          <5>1. copy[n] \in DOMAIN old /\ table[copy[n]] = old[copy[n]]
            BY <3>4, <3>5, <4>2
          <5> QED BY <1>15, <3>1, <5>1 DEF TableIsCopied
        <4> QED BY <4>1, <4>2
      <3> QED BY <3>1, <3>5 DEF TableIsCopied
    <2> QED BY <1>0, <1>14, <2>6, <2>7 DEF SameNodes, IsHalfCopy
  <1> QED BY <1>16, <1>17

\* network_dup returns a network: a copy shares no node with the original, and
\* is as sound.
LEMMA DupSound ==
    ASSUME NEW net, IsNetwork(net), NIL \notin Nat, NEW res, res = network_dup(net)
    PROVE  IsNetwork(res)
  <1>1. PICK copy, bare : copy = CopyOf(net) /\ bare = BareCopy(net, CopyOf(net))
    OBVIOUS
  <1>2. PICK wired : wired = ForEach(fanin_add_fanout, bare, bare.nodes)
    OBVIOUS
  <1>3. res = copy_latch_info(wired, net.latch, copy)
    BY <1>1, <1>2, DupIs
  <1>4. /\ IsNetwork(wired) /\ IsPlace(net.node, net.nodes, copy)
        /\ AreCopies(wired.node, net.node, net.nodes, copy)
        /\ wired.latch = <<>> /\ wired.latch_table = <<>>
    BY <1>1, <1>2, BareCopySound
  <1> DEFINE N == Len(net.latch)
  <1>5. N \in Nat
    BY LatchListFacts
  <1>6. PICK f : IsCopyingLatches(f, wired, net.latch, copy)
    BY <1>5, CopyLatchesLoop
  <1>7. f[0] = wired /\ res = f[N]
        /\ \A k \in 1..N : f[k] = CopiedLatch(f[k - 1], net.latch[k], copy)
    BY <1>3, <1>6 DEF IsCopyingLatches
  <1> DEFINE Q == {k \in 0..N : IsHalfCopy(f[k], net, copy, k)}
  <1>8. 0 \in Q
    <2>1. TableIsCopied(net, copy, 0, wired.latch_table)
      <3>1. DOMAIN wired.latch_table = {}
        BY <1>4
      <3> QED BY <3>1 DEF TableIsCopied
    <2>2. IsHalfCopy(wired, net, copy, 0)
      BY <1>4, <2>1 DEF IsHalfCopy
    <2> QED BY <1>5, <1>7, <2>2
  <1>9. ASSUME NEW k \in 1..N, k - 1 \in Q  PROVE k \in Q
    <2>1. PICK last, l, next : last = f[k - 1] /\ l = net.latch[k] /\ next = f[k]
      OBVIOUS
    <2>2. IsHalfCopy(last, net, copy, k - 1)
      BY <1>9, <2>1
    <2>3. next = CopiedLatch(last, l, copy)
      BY <1>7, <2>1
    <2>4. IsHalfCopy(next, net, copy, k)
      BY <1>4, <2>1, <2>2, <2>3, CopiedLatchSound
    <2>5. k \in 0..N
      BY <1>5
    <2> QED BY <2>1, <2>4, <2>5
  <1> HIDE DEF Q, N
  <1>10. \A k \in 0..N : k \in Q
    BY <1>5, <1>8, <1>9, UpTo
  <1>11. N \in 0..N
    BY <1>5
  <1>12. N \in Q
    BY <1>10, <1>11
  <1> QED BY <1>7, <1>12 DEF Q, IsHalfCopy

-----------------------------------------------------------------------------
\* A sound network passes network_check, and its latch table has the size it
\* should.

\* A list without doubles has as many members as places.
LEMMA SizeOfRange ==
    ASSUME NEW f, IsMapping(f), IsInjective(f), IsFiniteSet(DOMAIN f)
    PROVE  IsFiniteSet(Range(f)) /\ Cardinality(Range(f)) = Cardinality(DOMAIN f)
  <1>1. f \in Bijection(DOMAIN f, Range(f))
    BY DEF Bijection, Injection, Surjection, IsInjective, IsMapping, Range
  <1>2. ExistsBijection(DOMAIN f, Range(f))
    BY <1>1, SMTT(60) DEF ExistsBijection
  <1> QED BY <1>2, FS_Bijection

\* network_check finds nothing wrong with a network.
LEMMA NetworkPassesCheck ==
    ASSUME NEW net, IsNetwork(net)
    PROVE  network_check(net)
  <1>1. /\ NodesAreListed(net.node, net.nodes) /\ TerminalsAreListed(net.node, net.pi, net.po)
        /\ NamesFindNodes(net.node, net.name_table) /\ CoversAreSound(net.node)
        /\ FanoutsMirrorFanins(net.node, net.fanout)
    BY NetworkHas
  <1>2. \A n \in DOMAIN net.node : IsNode(net.node[n])
        /\ Range(net.node[n].fanin) \subseteq DOMAIN net.node
    BY <1>1 DEF NodesAreListed
  <1>3. \A n \in DOMAIN net.node : node_check(net.node[n])
    <2>1. \A n \in DOMAIN net.node : IsFunction(net.node[n])
      BY <1>2 DEF IsNode
    <2> QED BY <1>1, <2>1 DEF node_check, CoversAreSound
  <1>4. /\ \A x \in DOMAIN net.node :
            /\ net.fanout[x] \in Seq(Nat \X Nat) /\ IsInjective(net.fanout[x])
            /\ \A use \in Range(net.fanout[x]) :
                /\ use[1] \in DOMAIN net.node /\ use[2] \in DOMAIN net.node[use[1]].fanin
                /\ net.node[use[1]].fanin[use[2]] = x
            /\ \A n \in DOMAIN net.node : \A i \in DOMAIN net.node[n].fanin :
                net.node[n].fanin[i] = x => <<n, i>> \in Range(net.fanout[x])
    BY <1>1, MirrorFacts
  <1>5. Range(net.nodes) = DOMAIN net.node
    BY <1>1 DEF NodesAreListed
  <1>6. ASSUME NEW n \in Range(net.po)
        PROVE  net.node[n].type = "PRIMARY_OUTPUT" /\ Len(net.node[n].fanin) = 1
               /\ net.fanout[n] = <<>>
    BY <1>1, OutputUnused DEF TerminalsAreListed
  <1>7. ASSUME NEW n \in Range(net.pi)
        PROVE  net.node[n].type = "PRIMARY_INPUT" /\ net.node[n].fanin = <<>>
    BY <1>1 DEF TerminalsAreListed
  <1>8. ASSUME NEW n \in DOMAIN net.node
        PROVE  /\ net.node[n].type = "PRIMARY_OUTPUT" => n \in Range(net.po)
               /\ net.node[n].type = "PRIMARY_INPUT" => n \in Range(net.pi)
    BY <1>1, SMTT(60) DEF TerminalsAreListed
  <1>9. ASSUME NEW n \in DOMAIN net.node, NEW i \in DOMAIN net.node[n].fanin
        PROVE  Cardinality({j \in DOMAIN net.fanout[net.node[n].fanin[i]] :
                                net.fanout[net.node[n].fanin[i]][j] = <<n, i>>}) = 1
    <2>1. PICK x : x = net.node[n].fanin[i]
      OBVIOUS
    <2>2. x \in DOMAIN net.node
      BY <1>2, <2>1 DEF Range
    <2>3. PICK list : list = net.fanout[x]
      OBVIOUS
    <2>4. list \in Seq(Nat \X Nat) /\ IsInjective(list) /\ <<n, i>> \in Range(list)
      BY <1>4, <2>1, <2>2, <2>3
    <2>5. PICK k \in DOMAIN list : list[k] = <<n, i>>
      BY <2>4 DEF Range
    <2>6. \A j \in DOMAIN list : list[j] = <<n, i>> => j = k
      BY <2>4, <2>5 DEF IsInjective
    <2>7. {j \in DOMAIN list : list[j] = <<n, i>>} = {k}
      BY <2>5, <2>6
    <2>8. Cardinality({k}) = 1
      BY FS_Singleton
    <2> QED BY <2>1, <2>3, <2>7, <2>8, Zenon
  <1>10. /\ \A n \in DOMAIN net.node : net.node[n].name \in DOMAIN net.name_table
                                      /\ net.name_table[net.node[n].name] = n
         /\ DOMAIN net.name_table = {net.node[n].name : n \in DOMAIN net.node}
    BY <1>1 DEF NamesFindNodes
  <1>11. Cardinality(DOMAIN net.name_table) = Cardinality(DOMAIN net.node)
    <2> DEFINE f == [n \in DOMAIN net.node |-> net.node[n].name]
    <2>1. IsFiniteSet(DOMAIN net.node)
      BY <1>1, ListedFacts
    <2>2. IsInjective(f)
      BY <1>10 DEF IsInjective
    <2>3. DOMAIN net.name_table = Range(f)
      BY <1>10 DEF Range
    <2>4. DOMAIN f = DOMAIN net.node /\ IsMapping(f)
      BY DEF IsMapping
    <2> HIDE DEF f
    <2> QED BY <2>1, <2>2, <2>3, <2>4, SizeOfRange
  <1>12. \A n \in DOMAIN net.node :
            /\ Range(net.node[n].fanin) \subseteq DOMAIN net.node
            /\ {use[1] : use \in Range(net.fanout[n])} \subseteq DOMAIN net.node
    BY <1>2, <1>4
  <1>13. \A n \in DOMAIN net.node : \A use \in Range(net.fanout[n]) :
            use[2] \in DOMAIN net.node[use[1]].fanin /\ net.node[use[1]].fanin[use[2]] = n
    BY <1>4
  <1> QED BY <1>3, <1>5, <1>6, <1>7, <1>8, <1>9, <1>10, <1>11, <1>12, <1>13, Zenon DEF network_check

\* The nodes that control latches, as the latch table has them.
ControlsIn(net) == {n \in DOMAIN net.latch_table : net.latch_table[n] = NIL}

\* The inputs and the outputs of the latches.
InputsOf(net) == [i \in 1..Len(net.latch) |-> net.latch[i].input]

\* The outputs of the latches.
OutputsOf(net) == [i \in 1..Len(net.latch) |-> net.latch[i].output]

\* The latch table has two entries for each latch and one for each control.
LEMMA LatchTableSize ==
    ASSUME NEW net, IsNetwork(net), NIL \notin Nat
    PROVE  Cardinality(DOMAIN net.latch_table) = Cardinality(ControlsIn(net)) + 2 * Len(net.latch)
  <1>1. NodesAreListed(net.node, net.nodes)
        /\ LatchesAreListed(net.node, net.latch, net.latch_table)
        /\ NIL \notin DOMAIN net.node
    BY NetworkHas, NilIsNoNode
  <1>2. PICK L, D, C, in, out : /\ L = 1..Len(net.latch) /\ D = DOMAIN net.latch_table
                                   /\ C = ControlsIn(net)
                                /\ in = InputsOf(net) /\ out = OutputsOf(net)
    OBVIOUS
  <1>3. PICK I, O : I = Range(in) /\ O = Range(out)
    OBVIOUS
  <1>4. /\ Len(net.latch) \in Nat
        /\ \A i \in L : IsLatch(net.node, net.latch_table, net.latch[i])
        /\ \A i, j \in L : net.latch[i].input = net.latch[j].input => i = j
        /\ \A n \in D : net.latch_table[n] = NIL
           \/ \E i \in L : n \in {net.latch[i].input, net.latch[i].output}
        /\ D \subseteq DOMAIN net.node
    BY <1>1, <1>2, TableNodes DEF LatchesAreListed
  <1>5. /\ DOMAIN in = L /\ \A i \in L : in[i] = net.latch[i].input
        /\ DOMAIN out = L /\ \A i \in L : out[i] = net.latch[i].output
        /\ IsMapping(in) /\ IsMapping(out)
    BY <1>2 DEF InputsOf, OutputsOf, IsMapping
  <1>6. ASSUME NEW i \in L
        PROVE  /\ in[i] \in D /\ net.latch_table[in[i]] = in[i]
               /\ net.node[in[i]].type = "PRIMARY_OUTPUT"
               /\ out[i] \in D /\ net.latch_table[out[i]] = in[i]
               /\ net.node[out[i]].type = "PRIMARY_INPUT"
               /\ in[i] /= NIL
    <2>1. IsLatch(net.node, net.latch_table, net.latch[i])
      BY <1>4
    <2>2. in[i] = net.latch[i].input /\ out[i] = net.latch[i].output
      BY <1>5
    <2>3. /\ in[i] \in DOMAIN net.node /\ net.node[in[i]].type = "PRIMARY_OUTPUT"
          /\ out[i] \in DOMAIN net.node /\ net.node[out[i]].type = "PRIMARY_INPUT"
          /\ in[i] \in D /\ net.latch_table[in[i]] = in[i]
          /\ out[i] \in D /\ net.latch_table[out[i]] = in[i]
      BY <1>2, <2>1, <2>2 DEF IsLatch
    <2> QED BY <1>1, <2>3
  <1>7. IsInjective(in) /\ IsInjective(out)
    <2>1. \A i, j \in L : in[i] = in[j] => i = j
      BY <1>4, <1>5
    <2>2. \A i, j \in L : out[i] = out[j] => in[i] = in[j]
      BY <1>6
    <2> QED BY <1>5, <2>1, <2>2 DEF IsInjective
  <1>8. IsFiniteSet(L) /\ Cardinality(L) = Len(net.latch)
    <2>1. 1 \in Int /\ Len(net.latch) \in Int
      BY <1>4
    <2>2. IsFiniteSet(1..Len(net.latch))
          /\ Cardinality(1..Len(net.latch)) = IF 1 > Len(net.latch) THEN 0
               ELSE Len(net.latch) - 1 + 1
      BY <2>1, FS_Interval
    <2> QED BY <1>2, <1>4, <2>2
  <1>9. IsFiniteSet(D)
    <2>1. IsFiniteSet(DOMAIN net.node)
      BY <1>1, ListedFacts
    <2> QED BY <1>4, <2>1, FS_Subset
  <1>10. C \subseteq D /\ \A n \in D : n \in C <=> net.latch_table[n] = NIL
    BY <1>2 DEF ControlsIn
  <1>11. I \subseteq D /\ O \subseteq D
    BY <1>3, <1>5, <1>6 DEF Range
  <1>12. D = C \union (I \union O)
    <2>1. ASSUME NEW n \in D  PROVE n \in C \/ n \in I \/ n \in O
      BY <1>3, <1>4, <1>5, <1>10 DEF Range
    <2> QED BY <1>10, <1>11, <2>1
  <1>13. I \intersect O = {}
    <2>1. \A n \in I : net.node[n].type = "PRIMARY_OUTPUT"
      BY <1>3, <1>5, <1>6 DEF Range
    <2>2. \A n \in O : net.node[n].type = "PRIMARY_INPUT"
      BY <1>3, <1>5, <1>6 DEF Range
    <2> QED BY <2>1, <2>2
  <1>14. C \intersect (I \union O) = {}
    <2>1. \A n \in I \union O : net.latch_table[n] /= NIL
      BY <1>3, <1>5, <1>6 DEF Range
    <2> QED BY <1>10, <2>1
  <1>15. /\ IsFiniteSet(I) /\ Cardinality(I) = Len(net.latch)
         /\ IsFiniteSet(O) /\ Cardinality(O) = Len(net.latch)
    BY <1>3, <1>5, <1>7, <1>8, SizeOfRange
  <1>16. PICK E : E = I \union O
    OBVIOUS
  <1>17. IsFiniteSet(E) /\ Cardinality(E) = 2 * Len(net.latch)
    <2>1. Cardinality(I \intersect O) = 0
      BY <1>13, FS_EmptySet
    <2>2. IsFiniteSet(E) /\ Cardinality(E)
            = Cardinality(I) + Cardinality(O) - Cardinality(I \intersect O)
      BY <1>15, <1>16, FS_Union
    <2> QED BY <1>4, <1>15, <2>1, <2>2
  <1>18. IsFiniteSet(C)
    BY <1>9, <1>10, FS_Subset
  <1>19. Cardinality(D) = Cardinality(C) + Cardinality(E)
    <2>1. Cardinality(C) \in Nat /\ Cardinality(E) \in Nat
      BY <1>17, <1>18, FS_CardinalityType
    <2>2. C \intersect E = {} /\ D = C \union E
      BY <1>12, <1>14, <1>16
    <2>3. Cardinality(C \intersect E) = 0
      BY <2>2, FS_EmptySet
    <2>4. Cardinality(C \union E) = Cardinality(C) + Cardinality(E) - Cardinality(C \intersect E)
      BY <1>17, <1>18, FS_Union
    <2> QED BY <2>1, <2>2, <2>3, <2>4
  <1> QED BY <1>2, <1>17, <1>19

=============================================================================
