--------------------------- MODULE StTable_proofs ---------------------------
(***************************************************************************)
(* A hash table whose entries are chained as they should be stays so, no   *)
(* walk over it comes to an entry that has been freed, and every call does *)
(* what StApi says, for any number of cells, keys and generators, any hash *)
(* function and any parameters of the table but reorder_flag, which no     *)
(* table of the repository sets.                                           *)
(*                                                                         *)
(* The invariant says of the pointers, one by one, what makes them chains: *)
(* each entry of a set is pointed to once, from its bin or from an entry   *)
(* of its bin, and the entries can be ranked along the pointers.           *)
(***************************************************************************)
EXTENDS StTable, FiniteSetTheorems, SequenceTheorems, NaturalsInduction, TLAPS

TableType(t) ==
    /\ t = [num_bins |-> t.num_bins, num_entries |-> t.num_entries, bins |-> t.bins, elem |-> t.elem]
    /\ t.num_bins \in Nat \ {0} /\ t.num_entries \in Nat
    /\ t.bins \in [Bins(t) -> Pointer]
    /\ t.elem \in [Cell -> Entry \union {NIL}]

Follows(t, c) == t.elem[c].next

\* The entries of S are in chains, each in that of its bin.
Linked(t, S, bin) ==
    /\ S \subseteq Live(t)
    /\ \A b \in Bins(t) : t.bins[b] \in S \union {NIL}
    /\ \A b \in Bins(t) : t.bins[b] /= NIL => bin[t.bins[b]] = b
    /\ \A c \in S :
        /\ bin[c] \in Bins(t)
        /\ Follows(t, c) \in S \union {NIL}
        /\ Follows(t, c) /= NIL => bin[Follows(t, c)] = bin[c] /\ Follows(t, c) /= t.bins[bin[c]]
        /\ t.bins[bin[c]] = c \/ \E d \in S : Follows(t, d) = c
    /\ \A c, d \in S : Follows(t, c) = Follows(t, d) /\ Follows(t, c) /= NIL => c = d

Ranks(rank, t, S) == \A c \in S : Follows(t, c) /= NIL => rank[c] < rank[Follows(t, c)]

Chains(t, S, bin) == Linked(t, S, bin) /\ \E rank \in [Cell -> Nat] : Ranks(rank, t, S)

BinOf(t) == [c \in Live(t) |-> do_hash(t.elem[c].key, t)]

OneEntryEach(t) == \A c, d \in Live(t) : t.elem[c].key = t.elem[d].key => c = d

TableInv(t) ==
    /\ TableType(t)
    /\ Chains(t, Live(t), BinOf(t))
    /\ OneEntryEach(t)
    /\ t.num_entries = Cardinality(Live(t))
    /\ t.num_entries <= MaxDensity * t.num_bins

\* A generator comes to an entry next that is there, that is not the one it
\* has given, and that is in a bin it has begun, unless the table has grown.
ComesTo(t, walk) ==
    /\ walk \in Walk
    /\ walk.entry \in Live(t) \union {NIL}
    /\ walk.entry /= NIL => t.elem[walk.entry].key /= walk.given
    /\ walk.entry /= NIL /\ ~walk.lost => do_hash(t.elem[walk.entry].key, t) < walk.index

\* A st_foreach has called its function for an entry that is there, in a bin
\* it has come to, and, as long as no entry was added, knows the place that
\* leads to it.
CalledFor(t, loop) ==
    /\ loop \in Loop
    /\ loop.ptr \in Live(t)
    /\ ~loop.added => loop.last \in Live(t) \union Bins(t) /\ At(t, loop.last) = loop.ptr
    /\ ~loop.lost => do_hash(t.elem[loop.ptr].key, t) < loop.index + 1

IInv ==
    /\ TableInv(table)
    /\ gen \in [Gen -> Walk \union {NIL}] /\ \A g \in Gen : IsOpen(g) => ComesTo(table, gen[g])
    /\ each /= NIL => CalledFor(table, each)
    /\ slot \in Live(table) \union {NIL}

-----------------------------------------------------------------------------
\* A pointer set in an entry, and one set in a bin.
LEMMA PutInEntry ==
    ASSUME NEW t, TableType(t), NEW c \in Live(t), NEW p \in Pointer
    PROVE  /\ Put(t, c, p) = [num_bins |-> t.num_bins, num_entries |-> t.num_entries, bins |-> t.bins,
                              elem |-> [t.elem EXCEPT ![c] = [t.elem[c] EXCEPT !.next = p]]]
           /\ [t.elem EXCEPT ![c] = [t.elem[c] EXCEPT !.next = p]] \in [Cell -> Entry \union {NIL}]
           /\ \A x \in Cell : [t.elem EXCEPT ![c] = [t.elem[c] EXCEPT !.next = p]][x]
                  = IF x = c THEN [t.elem[c] EXCEPT !.next = p] ELSE t.elem[x]
           /\ [t.elem[c] EXCEPT !.next = p] = [key |-> t.elem[c].key, record |-> t.elem[c].record, next |-> p]
  <1>1. c \in Cell /\ t.elem[c] \in Entry /\ t.elem \in [Cell -> Entry \union {NIL}]
    BY DEF TableType, Live
  <1>2. [t.elem[c] EXCEPT !.next = p] = [key |-> t.elem[c].key, record |-> t.elem[c].record, next |-> p]
    BY <1>1 DEF Entry
  <1>3. [t.elem[c] EXCEPT !.next = p] \in Entry
    BY <1>1, <1>2 DEF Entry
  <1>4. t = [num_bins |-> t.num_bins, num_entries |-> t.num_entries, bins |-> t.bins, elem |-> t.elem]
    BY DEF TableType
  <1>5. Put(t, c, p) = [t EXCEPT !.elem = [t.elem EXCEPT ![c] = [t.elem[c] EXCEPT !.next = p]]]
    BY <1>1 DEF Put
  <1> DEFINE e == [t.elem EXCEPT ![c] = [t.elem[c] EXCEPT !.next = p]]
  <1>6. e \in [Cell -> Entry \union {NIL}]
    BY <1>1, <1>3
  <1>7. \A x \in Cell : e[x] = IF x = c THEN [t.elem[c] EXCEPT !.next = p] ELSE t.elem[x]
    BY <1>1
  <1>8. Put(t, c, p) = [num_bins |-> t.num_bins, num_entries |-> t.num_entries, bins |-> t.bins, elem |-> e]
    <2> HIDE DEF e
    <2>1. Put(t, c, p) = [t EXCEPT !.elem = e]
      BY <1>5 DEF e
    <2> QED BY <1>4, <2>1
  <1> QED BY <1>2, <1>6, <1>7, <1>8

LEMMA PutInBin ==
    ASSUME NEW t, TableType(t), NEW b \in Bins(t), NEW p \in Pointer
    PROVE  /\ Put(t, b, p) = [num_bins |-> t.num_bins, num_entries |-> t.num_entries,
                              bins |-> [t.bins EXCEPT ![b] = p], elem |-> t.elem]
           /\ [t.bins EXCEPT ![b] = p] \in [Bins(t) -> Pointer]
           /\ \A x \in Bins(t) : [t.bins EXCEPT ![b] = p][x] = IF x = b THEN p ELSE t.bins[x]
  <1>1. b \notin Cell /\ t.bins \in [Bins(t) -> Pointer]
    BY StAssumption DEF TableType, Bins
  <1>2. t = [num_bins |-> t.num_bins, num_entries |-> t.num_entries, bins |-> t.bins, elem |-> t.elem]
    BY DEF TableType
  <1> DEFINE e == [t.bins EXCEPT ![b] = p]
  <1>3. Put(t, b, p) = [t EXCEPT !.bins = e]
    BY <1>1 DEF Put
  <1>4. e \in [Bins(t) -> Pointer] /\ \A x \in Bins(t) : e[x] = IF x = b THEN p ELSE t.bins[x]
    BY <1>1
  <1>5. Put(t, b, p) = [num_bins |-> t.num_bins, num_entries |-> t.num_entries, bins |-> e, elem |-> t.elem]
    <2> HIDE DEF e
    <2> QED BY <1>2, <1>3
  <1> QED BY <1>4, <1>5

\* What may change when a pointer is set.
SameBut(m, t) ==
    /\ TableType(m) /\ m.num_bins = t.num_bins /\ m.num_entries = t.num_entries /\ Live(m) = Live(t)
    /\ \A x \in Live(t) : m.elem[x].key = t.elem[x].key /\ m.elem[x].record = t.elem[x].record

LEMMA PutKeeps ==
    ASSUME NEW t, TableType(t), NEW place \in Live(t) \union Bins(t), NEW p \in Pointer,
           NEW m, m = Put(t, place, p)
    PROVE  /\ SameBut(m, t)
           /\ \A x \in Live(t) : Follows(m, x) = IF x = place THEN p ELSE Follows(t, x)
           /\ \A b \in Bins(t) : m.bins[b] = IF b = place THEN p ELSE t.bins[b]
  <1>1. CASE place \in Live(t)
    <2> DEFINE e == [t.elem EXCEPT ![place] = [t.elem[place] EXCEPT !.next = p]]
    <2>1. /\ m = [num_bins |-> t.num_bins, num_entries |-> t.num_entries, bins |-> t.bins, elem |-> e]
          /\ e \in [Cell -> Entry \union {NIL}]
          /\ \A x \in Cell : e[x] = IF x = place THEN [t.elem[place] EXCEPT !.next = p] ELSE t.elem[x]
          /\ [t.elem[place] EXCEPT !.next = p]
               = [key |-> t.elem[place].key, record |-> t.elem[place].record, next |-> p]
      BY <1>1, PutInEntry
    <2> HIDE DEF e
    <2>2. /\ t.num_bins \in Nat \ {0} /\ t.num_entries \in Nat /\ t.bins \in [Bins(t) -> Pointer]
          /\ \A x \in Live(t) : x \in Cell /\ x \notin Bins(t)
      BY StAssumption DEF TableType, Live, Bins
    <2>3. m.num_bins = t.num_bins /\ m.num_entries = t.num_entries /\ m.bins = t.bins /\ m.elem = e
      BY <2>1
    <2>4. Bins(m) = Bins(t)
      BY <2>3 DEF Bins
    <2>5. TableType(m)
      BY <2>1, <2>2, <2>3, <2>4 DEF TableType
    <2>6. [t.elem[place] EXCEPT !.next = p] /= NIL
      BY <1>1, <2>1, <2>2, StAssumption, PutInEntry DEF Entry, TableType, Live
    <2>7. Live(m) = Live(t)
      BY <1>1, <2>1, <2>3, <2>6 DEF Live
    <2>8. \A x \in Live(t) : /\ m.elem[x].key = t.elem[x].key /\ m.elem[x].record = t.elem[x].record
                             /\ Follows(m, x) = IF x = place THEN p ELSE Follows(t, x)
      BY <2>1, <2>2, <2>3 DEF Follows
    <2>9. \A b \in Bins(t) : m.bins[b] = IF b = place THEN p ELSE t.bins[b]
      BY <1>1, <2>2, <2>3
    <2> QED BY <2>3, <2>5, <2>7, <2>8, <2>9 DEF SameBut
  <1>2. CASE place \in Bins(t)
    <2> DEFINE e == [t.bins EXCEPT ![place] = p]
    <2>1. /\ m = [num_bins |-> t.num_bins, num_entries |-> t.num_entries, bins |-> e, elem |-> t.elem]
          /\ e \in [Bins(t) -> Pointer]
          /\ \A x \in Bins(t) : e[x] = IF x = place THEN p ELSE t.bins[x]
      BY <1>2, PutInBin
    <2> HIDE DEF e
    <2>2. /\ t.num_bins \in Nat \ {0} /\ t.num_entries \in Nat /\ t.elem \in [Cell -> Entry \union {NIL}]
          /\ \A x \in Live(t) : x /= place
      BY <1>2, StAssumption DEF TableType, Live, Bins
    <2>3. m.num_bins = t.num_bins /\ m.num_entries = t.num_entries /\ m.bins = e /\ m.elem = t.elem
      BY <2>1
    <2>4. Bins(m) = Bins(t) /\ Live(m) = Live(t)
      BY <2>3 DEF Bins, Live
    <2>5. TableType(m)
      BY <2>1, <2>2, <2>3, <2>4 DEF TableType
    <2>6. \A x \in Live(t) : /\ m.elem[x].key = t.elem[x].key /\ m.elem[x].record = t.elem[x].record
                             /\ Follows(m, x) = IF x = place THEN p ELSE Follows(t, x)
      BY <2>2, <2>3 DEF Follows
    <2> QED BY <2>1, <2>3, <2>4, <2>5, <2>6 DEF SameBut
  <1> QED BY <1>1, <1>2

LEMMA LiveFacts ==
    ASSUME NEW t, TableType(t)
    PROVE  /\ Live(t) \subseteq Cell /\ NIL \notin Live(t) /\ Live(t) \intersect Bins(t) = {}
           /\ \A c \in Live(t) : t.elem[c] \in Entry /\ Follows(t, c) \in Pointer /\ t.elem[c].key \in Key
           /\ \A b \in Bins(t) : t.bins[b] \in Pointer
  BY StAssumption DEF TableType, Live, Bins, Entry, Follows

\* An entry that is put on top of the chain of its bin.
LEMMA PushLinks ==
    ASSUME NEW t, TableType(t), NEW S, NEW bin, Chains(t, S, bin),
           NEW c \in Live(t) \ S, bin[c] \in Bins(t), NEW m, m = Push(t, bin[c], c)
    PROVE  /\ SameBut(m, t)
           /\ Chains(m, S \union {c}, bin)
           /\ \A x \in Live(t) : Follows(m, x) = IF x = c THEN t.bins[bin[c]] ELSE Follows(t, x)
           /\ \A b \in Bins(t) : m.bins[b] = IF b = bin[c] THEN c ELSE t.bins[b]
  <1> DEFINE b == bin[c]
             n == Put(t, c, t.bins[b])
  <1>1. /\ NIL \notin Live(t) /\ Live(t) \intersect Bins(t) = {} /\ Live(t) \subseteq Cell
        /\ t.bins[b] \in Pointer /\ c \in Pointer /\ b \in Bins(t)
    BY LiveFacts DEF Pointer
  <1>2. /\ SameBut(n, t)
        /\ \A x \in Live(t) : Follows(n, x) = IF x = c THEN t.bins[b] ELSE Follows(t, x)
        /\ \A x \in Bins(t) : n.bins[x] = t.bins[x]
    BY <1>1, PutKeeps
  <1>3. TableType(n) /\ Bins(n) = Bins(t) /\ Live(n) = Live(t)
    BY <1>2 DEF SameBut, Bins
  <1>4. m = Put(n, b, c)
    BY DEF Push
  <1> HIDE DEF n, b
  <1>5. /\ SameBut(m, n)
        /\ \A x \in Live(t) : Follows(m, x) = Follows(n, x)
        /\ \A x \in Bins(t) : m.bins[x] = IF x = b THEN c ELSE n.bins[x]
    BY <1>1, <1>3, <1>4, PutKeeps
  <1>6. SameBut(m, t)
    BY <1>2, <1>5 DEF SameBut
  <1>7. /\ \A x \in Live(t) : Follows(m, x) = IF x = c THEN t.bins[b] ELSE Follows(t, x)
        /\ \A x \in Bins(t) : m.bins[x] = IF x = b THEN c ELSE t.bins[x]
    BY <1>2, <1>5
  <1>8. Bins(m) = Bins(t) /\ Live(m) = Live(t)
    BY <1>6 DEF SameBut, Bins
  <1>9. /\ S \subseteq Live(t) /\ NIL \notin S /\ c \notin S
        /\ \A x \in Bins(t) : t.bins[x] \in S \union {NIL}
        /\ \A x \in Bins(t) : t.bins[x] /= NIL => bin[t.bins[x]] = x
        /\ \A x \in S :
            /\ bin[x] \in Bins(t)
            /\ Follows(t, x) \in S \union {NIL}
            /\ Follows(t, x) /= NIL => bin[Follows(t, x)] = bin[x] /\ Follows(t, x) /= t.bins[bin[x]]
            /\ t.bins[bin[x]] = x \/ \E d \in S : Follows(t, d) = x
        /\ \A x, d \in S : Follows(t, x) = Follows(t, d) /\ Follows(t, x) /= NIL => x = d
    BY <1>1 DEF Chains, Linked
  <1>10. bin[c] = b
    BY DEF b
  <1>11. Linked(m, S \union {c}, bin)
    <2>1. S \union {c} \subseteq Live(m)
      BY <1>8, <1>9
    <2>2. \A x \in Bins(m) : m.bins[x] \in S \union {c} \union {NIL}
      BY <1>7, <1>8, <1>9
    <2>3. \A x \in Bins(m) : m.bins[x] /= NIL => bin[m.bins[x]] = x
      BY <1>7, <1>8, <1>9, <1>10
    <2>4. ASSUME NEW x \in S \union {c}
          PROVE  /\ bin[x] \in Bins(m)
                 /\ Follows(m, x) \in S \union {c} \union {NIL}
                 /\ Follows(m, x) /= NIL => bin[Follows(m, x)] = bin[x] /\ Follows(m, x) /= m.bins[bin[x]]
      BY <1>1, <1>7, <1>8, <1>9, <1>10
    <2>5. ASSUME NEW x \in S \union {c}
          PROVE  m.bins[bin[x]] = x \/ \E d \in S \union {c} : Follows(m, d) = x
      <3>1. CASE x = c
        BY <1>1, <1>7, <1>10, <3>1
      <3>2. CASE x \in S /\ t.bins[bin[x]] = x
        BY <1>1, <1>7, <1>9, <1>10, <3>2
      <3>3. ASSUME x \in S, NEW d \in S, Follows(t, d) = x
            PROVE  Follows(m, d) = x
        BY <1>7, <1>9, <3>3
      <3> QED BY <1>9, <3>1, <3>2, <3>3
    <2>6. \A x, d \in S \union {c} : Follows(m, x) = Follows(m, d) /\ Follows(m, x) /= NIL => x = d
      <3>1. \A x \in S : Follows(m, x) = Follows(m, c) /\ Follows(m, x) /= NIL => FALSE
        BY <1>1, <1>7, <1>9, <1>10
      <3> QED BY <1>7, <1>9, <3>1
    <2> QED BY <2>1, <2>2, <2>3, <2>4, <2>5, <2>6 DEF Linked
  <1>12. PICK rank \in [Cell -> Nat] : Ranks(rank, t, S)
    BY DEF Chains
  <1> DEFINE up == [x \in Cell |-> IF x = c THEN 0 ELSE rank[x] + 1]
  <1>13. up \in [Cell -> Nat]
    BY <1>12
  <1>14. ASSUME NEW x \in S \union {c}, Follows(m, x) /= NIL
         PROVE  up[x] < up[Follows(m, x)]
    <2>1. Follows(m, x) \in S /\ S \subseteq Cell
      BY <1>1, <1>7, <1>9, <1>10, <1>14
    <2>2. up[Follows(m, x)] = rank[Follows(m, x)] + 1 /\ rank[Follows(m, x)] \in Nat
      BY <1>9, <1>12, <2>1
    <2>3. CASE x = c
      BY <1>1, <2>2, <2>3
    <2>4. CASE x /= c
      <3>1. x \in S /\ Follows(m, x) = Follows(t, x) /\ rank[x] \in Nat /\ up[x] = rank[x] + 1
        BY <1>7, <1>9, <1>12, <2>1, <2>4
      <3>2. rank[x] < rank[Follows(t, x)]
        BY <1>12, <1>14, <3>1 DEF Ranks
      <3> QED BY <2>2, <3>1, <3>2
    <2> QED BY <2>3, <2>4
  <1>15. Chains(m, S \union {c}, bin)
    <2> HIDE DEF up
    <2> QED BY <1>11, <1>13, <1>14 DEF Chains, Ranks
  <1> QED BY <1>6, <1>7, <1>15 DEF b

\* An entry that is taken out of its chain.
LEMMA CutLinks ==
    ASSUME NEW t, TableType(t), NEW S, NEW bin, Chains(t, S, bin),
           NEW c \in S, NEW place \in S \union Bins(t), At(t, place) = c,
           NEW m, m = Put(t, place, Follows(t, c))
    PROVE  /\ SameBut(m, t) /\ place /= c /\ Follows(t, c) /= c
           /\ Chains(m, S \ {c}, bin)
           /\ \A x \in Live(t) : Follows(m, x) = IF x = place THEN Follows(t, c) ELSE Follows(t, x)
           /\ \A b \in Bins(t) : m.bins[b] = IF b = place THEN Follows(t, c) ELSE t.bins[b]
  <1>1. /\ NIL \notin Live(t) /\ Live(t) \intersect Bins(t) = {} /\ Live(t) \subseteq Cell
        /\ \A b \in Bins(t) : b \notin Cell
    BY LiveFacts, StAssumption DEF Bins
  <1>2. /\ S \subseteq Live(t) /\ NIL \notin S
        /\ \A x \in Bins(t) : t.bins[x] \in S \union {NIL}
        /\ \A x \in Bins(t) : t.bins[x] /= NIL => bin[t.bins[x]] = x
        /\ \A x \in S :
            /\ bin[x] \in Bins(t)
            /\ Follows(t, x) \in S \union {NIL}
            /\ Follows(t, x) /= NIL => bin[Follows(t, x)] = bin[x] /\ Follows(t, x) /= t.bins[bin[x]]
            /\ t.bins[bin[x]] = x \/ \E d \in S : Follows(t, d) = x
        /\ \A x, d \in S : Follows(t, x) = Follows(t, d) /\ Follows(t, x) /= NIL => x = d
    BY <1>1 DEF Chains, Linked
  <1>3. PICK rank \in [Cell -> Nat] : Ranks(rank, t, S)
    BY DEF Chains
  <1>4. \A x \in S : rank[x] \in Nat /\ (Follows(t, x) /= NIL => rank[x] < rank[Follows(t, x)])
    BY <1>1, <1>2, <1>3 DEF Ranks
  <1>5. \A x \in S : Follows(t, x) /= x
    BY <1>2, <1>4
  <1>6. (place \in S => Follows(t, place) = c) /\ (place \in Bins(t) => t.bins[place] = c)
    BY <1>1, <1>2 DEF At, Follows
  <1>7. place /= c
    BY <1>1, <1>2, <1>5, <1>6
  <1>8. Follows(t, c) \in Pointer /\ place \in Live(t) \union Bins(t)
    BY <1>2, LiveFacts
  <1>9. /\ SameBut(m, t)
        /\ \A x \in Live(t) : Follows(m, x) = IF x = place THEN Follows(t, c) ELSE Follows(t, x)
        /\ \A b \in Bins(t) : m.bins[b] = IF b = place THEN Follows(t, c) ELSE t.bins[b]
    BY <1>8, PutKeeps
  <1>10. Bins(m) = Bins(t) /\ Live(m) = Live(t)
    BY <1>9 DEF SameBut, Bins
  <1>11. \A x \in S : Follows(t, x) = c => x = place
    BY <1>1, <1>2, <1>6
  <1>12. \A b \in Bins(t) : t.bins[b] = c => b = place
    BY <1>1, <1>2, <1>6
  <1>13. \A x \in S \ {c} : Follows(m, x) \in (S \ {c}) \union {NIL}
    BY <1>2, <1>5, <1>9, <1>11
  <1>14. Linked(m, S \ {c}, bin)
    <2>1. S \ {c} \subseteq Live(m)
      BY <1>2, <1>10
    <2>2. \A x \in Bins(m) : m.bins[x] \in (S \ {c}) \union {NIL}
      BY <1>2, <1>5, <1>9, <1>10, <1>12
    <2>3. \A x \in Bins(m) : m.bins[x] /= NIL => bin[m.bins[x]] = x
      BY <1>2, <1>6, <1>9, <1>10
    <2>4. ASSUME NEW x \in S \ {c}
          PROVE  bin[x] \in Bins(m) /\ Follows(m, x) \in (S \ {c}) \union {NIL}
      BY <1>2, <1>10, <1>13
    <2>5. ASSUME NEW x \in S \ {c}, Follows(m, x) /= NIL
          PROVE  bin[Follows(m, x)] = bin[x] /\ Follows(m, x) /= m.bins[bin[x]]
      <3>1. CASE x = place
        <4>1. Follows(t, x) = c /\ Follows(m, x) = Follows(t, c)
          BY <1>2, <1>6, <1>9, <3>1
        <4>2. m.bins[bin[x]] = t.bins[bin[x]]
          BY <1>1, <1>2, <1>9, <3>1
        <4> QED BY <1>2, <2>5, <4>1, <4>2
      <3>2. CASE x /= place
        <4>1. Follows(m, x) = Follows(t, x)
          BY <1>2, <1>9, <3>2
        <4>2. bin[Follows(t, x)] = bin[x] /\ Follows(t, x) /= t.bins[bin[x]]
          BY <1>2, <2>5, <4>1
        <4>3. Follows(t, x) = Follows(t, c) => FALSE
          BY <1>2, <2>5, <4>1
        <4> QED BY <1>2, <1>9, <4>1, <4>2, <4>3
      <3> QED BY <3>1, <3>2
    <2>6. ASSUME NEW x \in S \ {c}
          PROVE  m.bins[bin[x]] = x \/ \E d \in S \ {c} : Follows(m, d) = x
      <3>1. CASE t.bins[bin[x]] = x
        BY <1>2, <1>6, <1>9, <3>1
      <3>2. ASSUME NEW d \in S, Follows(t, d) = x
            PROVE  m.bins[bin[x]] = x \/ \E e \in S \ {c} : Follows(m, e) = x
        <4>1. CASE d = c
          <5>1. CASE place \in S
            BY <1>2, <1>7, <1>9, <3>2, <4>1, <5>1
          <5>2. CASE place \in Bins(t)
            <6>1. bin[x] = bin[c] /\ bin[c] = place
              BY <1>2, <1>6, <3>2, <4>1, <5>2
            <6> QED BY <1>9, <3>2, <4>1, <5>2, <6>1
          <5> QED BY <5>1, <5>2
        <4>2. CASE d /= c
          <5>1. d /= place
            BY <1>6, <3>2
          <5> QED BY <1>2, <1>9, <3>2, <4>2, <5>1
        <4> QED BY <4>1, <4>2
      <3> QED BY <1>2, <3>1, <3>2
    <2>7. ASSUME NEW x \in S \ {c}, NEW d \in S \ {c}, Follows(m, x) = Follows(m, d), Follows(m, x) /= NIL
          PROVE  x = d
      <3>1. Follows(m, x) = IF x = place THEN Follows(t, c) ELSE Follows(t, x)
        BY <1>2, <1>9
      <3>2. Follows(m, d) = IF d = place THEN Follows(t, c) ELSE Follows(t, d)
        BY <1>2, <1>9
      <3>3. \A y, z \in S : Follows(t, y) = Follows(t, z) /\ Follows(t, y) /= NIL => y = z
        BY <1>2
      <3> QED BY <2>7, <3>1, <3>2, <3>3
    <2> QED BY <2>1, <2>2, <2>3, <2>4, <2>5, <2>6, <2>7 DEF Linked
  <1>15. Ranks(rank, m, S \ {c})
    <2> SUFFICES ASSUME NEW x \in S \ {c}, Follows(m, x) /= NIL
                 PROVE  rank[x] < rank[Follows(m, x)]
      BY DEF Ranks
    <2>1. CASE x = place
      <3>1. Follows(t, x) = c /\ Follows(m, x) = Follows(t, c) /\ Follows(t, c) \in S
        BY <1>2, <1>6, <1>9, <2>1
      <3>2. rank[x] < rank[c] /\ rank[c] < rank[Follows(t, c)]
        BY <1>2, <1>4, <3>1
      <3> QED BY <1>4, <3>1, <3>2
    <2>2. CASE x /= place
      BY <1>2, <1>4, <1>9, <2>2
    <2> QED BY <2>1, <2>2
  <1> QED BY <1>3, <1>5, <1>7, <1>9, <1>14, <1>15 DEF Chains

-----------------------------------------------------------------------------
(* Induction and recursion on the naturals up to a bound.                  *)

LEMMA UpTo ==
    ASSUME NEW m \in Nat, NEW S, 0 \in S, \A n \in 0..m : n \in S /\ n /= m => n + 1 \in S
    PROVE  0..m \subseteq S
  <1> SUFFICES ASSUME (0..m) \ S /= {}  PROVE FALSE
    OBVIOUS
  <1>1. (0..m) \ S \subseteq Nat
    OBVIOUS
  <1>2. PICK x \in (0..m) \ S : \A y \in (0..m) \ S : ~ (<<y, x>> \in OpToRel(<, Nat))
    BY <1>1, NatLessThanWellFounded, WFMin
  <1>3. x /= 0 /\ x - 1 \in 0..m /\ x - 1 /= m /\ (x - 1) + 1 = x
    OBVIOUS
  <1>4. x - 1 \notin S
    BY <1>3
  <1>5. <<x - 1, x>> \in OpToRel(<, Nat)
    BY <1>1, <1>3 DEF OpToRel
  <1> QED BY <1>2, <1>3, <1>4, <1>5

Iterates(f, m, A, x, step) ==
    f \in [0..m -> A] /\ f[0] = x /\ \A n \in 1..m : f[n] = step[<<n, f[n - 1]>>]

LEMMA Recursion ==
    ASSUME NEW m \in Nat, NEW A, NEW x \in A, NEW step \in [(1..m) \X A -> A]
    PROVE  \E f : Iterates(f, m, A, x, step)
  <1> DEFINE Good(f, k) == f \in [0..m -> A] /\ f[0] = x /\ \A n \in 1..k : f[n] = step[<<n, f[n - 1]>>]
             S == {k \in Nat : \E f : Good(f, k)}
  <1>1. 0 \in S
    <2>1. Good([n \in 0..m |-> x], 0)
      OBVIOUS
    <2> QED BY <2>1
  <1>2. ASSUME NEW k \in 0..m, k \in S, k /= m
        PROVE  k + 1 \in S
    <2>1. PICK f : Good(f, k)
      BY <1>2
    <2>2. k + 1 \in 1..m /\ f[k] \in A /\ (k + 1) - 1 = k
      BY <1>2, <2>1
    <2> DEFINE v == step[<<k + 1, f[k]>>]
               g == [f EXCEPT ![k + 1] = v]
    <2>3. v \in A
      BY <2>2
    <2>4. g \in [0..m -> A] /\ \A n \in 0..m : g[n] = IF n = k + 1 THEN v ELSE f[n]
      BY <2>1, <2>3
    <2>5. ASSUME NEW n \in 1..k + 1
          PROVE  g[n] = step[<<n, g[n - 1]>>]
      <3>1. n \in 0..m /\ n - 1 \in 0..m /\ n - 1 /= k + 1
        BY <1>2
      <3>2. CASE n = k + 1
        <4>1. g[n - 1] = f[k] /\ g[n] = v
          BY <2>2, <2>4, <3>1, <3>2
        <4> HIDE DEF g
        <4> QED BY <3>2, <4>1
      <3>3. CASE n /= k + 1
        <4>1. n \in 1..k /\ g[n] = f[n] /\ g[n - 1] = f[n - 1]
          BY <2>4, <3>1, <3>3
        <4> HIDE DEF g
        <4> QED BY <2>1, <4>1
      <3> QED BY <3>2, <3>3
    <2>6. g[0] = x
      BY <1>2, <2>1, <2>4
    <2>7. Good(g, k + 1)
      <3> HIDE DEF g
      <3> QED BY <2>4, <2>5, <2>6
    <2> HIDE DEF g, Good
    <2> QED BY <2>2, <2>7
  <1>3. m \in S
    <2> HIDE DEF S
    <2>1. 0..m \subseteq S
      BY <1>1, <1>2, UpTo
    <2> QED BY <2>1
  <1> QED BY <1>3 DEF Iterates

-----------------------------------------------------------------------------
(* The entries of a chain.                                                 *)

IsChain(t, S, c, s) ==
    /\ s \in Seq(S) /\ Len(s) \in Nat /\ DOMAIN s = 1..Len(s)
    /\ \A i \in 1..Len(s) : s[i] \in S
    /\ c = NIL <=> Len(s) = 0
    /\ c /= NIL => 1 \in 1..Len(s) /\ s[1] = c
    /\ \A i \in 1..Len(s) : Follows(t, s[i]) = IF i = Len(s) THEN NIL ELSE s[i + 1]
    /\ \A i, j \in 1..Len(s) : s[i] = s[j] => i = j

AreNth(t, c, f) ==
    f = [n \in 0..Cardinality(Cell) |->
            IF n = 0 THEN c ELSE IF f[n - 1] = NIL THEN NIL ELSE t.elem[f[n - 1]].next]

LEMMA NthExist ==
    ASSUME NEW t, NEW S, NIL \notin S, \A x \in S : Follows(t, x) \in S \union {NIL},
           NEW c \in S \union {NIL}, Cardinality(Cell) \in Nat
    PROVE  \E f : AreNth(t, c, f)
  <1> DEFINE A == S \union {NIL}
             m == Cardinality(Cell)
             step == [p \in (1..m) \X A |-> IF p[2] = NIL THEN NIL ELSE Follows(t, p[2])]
  <1>1. step \in [(1..m) \X A -> A]
    OBVIOUS
  <1>2. \A n \in 1..m, p \in A : step[<<n, p>>] = IF p = NIL THEN NIL ELSE Follows(t, p)
    OBVIOUS
  <1> HIDE DEF step
  <1>3. c \in A /\ m \in Nat
    OBVIOUS
  <1> HIDE DEF m, A
  <1>4. PICK f : Iterates(f, m, A, c, step)
    BY <1>3, <1>1, Recursion
  <1>5. f \in [0..m -> A] /\ f[0] = c /\ \A n \in 1..m : f[n] = step[<<n, f[n - 1]>>]
    BY <1>4 DEF Iterates
  <1>6. ASSUME NEW n \in 0..m
        PROVE  f[n] = IF n = 0 THEN c ELSE IF f[n - 1] = NIL THEN NIL ELSE t.elem[f[n - 1]].next
    <2>1. CASE n = 0
      BY <1>5, <2>1
    <2>2. CASE n /= 0
      <3>1. n \in 1..m /\ n - 1 \in 0..m
        BY <1>3, <2>2
      <3>2. f[n - 1] \in A
        BY <1>5, <3>1
      <3> QED BY <1>2, <1>5, <2>2, <3>1, <3>2 DEF Follows
    <2> QED BY <2>1, <2>2
  <1>7. f = [n \in 0..m |-> f[n]]
    BY <1>5
  <1>8. AreNth(t, c, f)
    BY <1>6, <1>7 DEF AreNth, m
  <1> QED BY <1>8

LEMMA ChainFacts ==
    ASSUME NEW t, TableType(t), NEW S, NEW bin, Chains(t, S, bin), NEW c \in S \union {NIL}
    PROVE  IsChain(t, S, c, ChainFrom(t, c))
  <1> DEFINE m == Cardinality(Cell)
             f == CHOOSE g : AreNth(t, c, g)
             there == {n \in 0..m : f[n] /= NIL}
  <1>1. m \in Nat /\ NIL \notin S /\ S \subseteq Cell /\ \A x \in S : Follows(t, x) \in S \union {NIL}
    BY LiveFacts, FS_CardinalityType, StAssumption DEF Chains, Linked
  <1>2. AreNth(t, c, f)
    BY <1>1, NthExist
  <1> HIDE DEF f
  <1>3. DOMAIN f = 0..m /\ f[0] = c
        /\ \A n \in 1..m : f[n] = IF f[n - 1] = NIL THEN NIL ELSE Follows(t, f[n - 1])
    BY <1>1, <1>2 DEF AreNth, Follows
  <1>4. \A n \in 0..m : f[n] \in S \union {NIL}
    <2> DEFINE T == {n \in 0..m : f[n] \in S \union {NIL}}
    <2>1. 0 \in T
      BY <1>1, <1>3
    <2>2. ASSUME NEW n \in 0..m, n \in T, n /= m
          PROVE  n + 1 \in T
      <3>1. n + 1 \in 1..m /\ (n + 1) - 1 = n
        BY <1>1, <2>2
      <3> QED BY <1>1, <1>3, <2>2, <3>1
    <2> HIDE DEF T
    <2>3. 0..m \subseteq T
      BY <1>1, <2>1, <2>2, UpTo
    <2> QED BY <2>3 DEF T
  <1>5. PICK rank \in [Cell -> Nat] : Ranks(rank, t, S)
    BY DEF Chains
  <1>6. ASSUME NEW i \in 0..m
        PROVE  \A j \in i..m : f[j] /= NIL => f[i] /= NIL /\ (i /= j => rank[f[i]] < rank[f[j]])
    <2> DEFINE T == {k \in 0..m - i :
                       f[i + k] /= NIL => f[i] /= NIL /\ (k /= 0 => rank[f[i]] < rank[f[i + k]])}
    <2>0. m - i \in Nat
      BY <1>1
    <2>1. 0 \in T
      BY <2>0
    <2>2. ASSUME NEW k \in 0..m - i, k \in T, k /= m - i
          PROVE  k + 1 \in T
      <3>1. i + k + 1 \in 1..m /\ i + k \in 0..m /\ (i + k + 1) - 1 = i + k /\ k + 1 \in 0..m - i
            /\ i + (k + 1) = i + k + 1 /\ k + 1 /= 0
        BY <1>1, <2>2
      <3>2. f[i + k + 1] /= NIL => f[i + k] /= NIL /\ f[i + k + 1] = Follows(t, f[i + k])
        BY <1>3, <3>1
      <3>3. f[i + k + 1] /= NIL => /\ f[i + k] \in S /\ f[i + k + 1] \in S
                                   /\ rank[f[i + k]] < rank[f[i + k + 1]]
        BY <1>1, <1>4, <1>5, <3>1, <3>2 DEF Ranks
      <3>4. f[i + k + 1] /= NIL => f[i] /= NIL /\ rank[f[i]] < rank[f[i + k + 1]]
        <4> SUFFICES ASSUME f[i + k + 1] /= NIL
                     PROVE  f[i] /= NIL /\ rank[f[i]] < rank[f[i + k + 1]]
          OBVIOUS
        <4>1. f[i] /= NIL /\ (k /= 0 => rank[f[i]] < rank[f[i + k]])
          BY <2>2, <3>3, <1>1
        <4>2. rank[f[i]] \in Nat /\ rank[f[i + k]] \in Nat /\ rank[f[i + k + 1]] \in Nat
          BY <1>1, <1>4, <3>1, <3>3, <4>1
        <4>3. k = 0 => i + k = i
          OBVIOUS
        <4> QED BY <3>3, <4>1, <4>2, <4>3
      <3> QED BY <3>1, <3>4
    <2> HIDE DEF T
    <2>3. 0..m - i \subseteq T
      BY <2>0, <2>1, <2>2, UpTo
    <2>4. ASSUME NEW j \in i..m
          PROVE  f[j] /= NIL => f[i] /= NIL /\ (i /= j => rank[f[i]] < rank[f[j]])
      <3>1. j - i \in 0..m - i /\ i + (j - i) = j /\ (j - i /= 0 <=> i /= j)
        BY <1>1
      <3>2. j - i \in T
        BY <2>3, <3>1
      <3> QED BY <3>1, <3>2 DEF T
    <2> QED BY <2>4
  <1>7. \A i, j \in there : f[i] = f[j] => i = j
    <2> SUFFICES ASSUME NEW i \in there, NEW j \in there, f[i] = f[j], i < j
                 PROVE  FALSE
      <3>1. \A i, j \in there : i < j \/ j < i \/ i = j
        BY <1>1
      <3> QED BY <3>1
    <2>1. rank[f[i]] < rank[f[j]]
      BY <1>1, <1>6
    <2>2. rank[f[i]] \in Nat
      BY <1>1, <1>4
    <2> QED BY <2>1, <2>2
  <1>8. \E n \in 0..m : f[n] = NIL
    <2> SUFFICES ASSUME \A n \in 0..m : f[n] /= NIL  PROVE FALSE
      OBVIOUS
    <2>1. f \in [0..m -> Cell] /\ \A i, j \in 0..m : f[i] = f[j] => i = j
      <3>1. f = [n \in 0..m |-> f[n]]
        BY <1>2 DEF AreNth
      <3>2. \A n \in 0..m : f[n] \in Cell
        BY <1>1, <1>4
      <3>3. f \in [0..m -> Cell]
        BY <3>1, <3>2
      <3> QED BY <1>7, <3>3
    <2>2. IsFiniteSet(0..m) /\ Cardinality(0..m) = m + 1 /\ IsFiniteSet(Cell)
      <3>1. 0 \in Int /\ m \in Int /\ 0 <= m
        BY <1>1
      <3> QED BY <3>1, FS_Interval, StAssumption
    <2>3. Cardinality(0..m) > Cardinality(Cell)
      BY <1>1, <2>2
    <2> QED BY <2>1, <2>2, <2>3, FS_PigeonHole, ZenonT(60)
  <1>9. PICK n \in 0..m : f[n] = NIL /\ \A k \in 0..n - 1 : f[k] /= NIL
    <2> DEFINE gone == {k \in Nat : k \in 0..m /\ f[k] = NIL}
    <2>1. gone \subseteq Nat /\ gone /= {}
      BY <1>1, <1>8
    <2>2. PICK x \in gone : \A y \in gone : ~ (<<y, x>> \in OpToRel(<, Nat))
      BY <2>1, NatLessThanWellFounded, WFMin
    <2>3. ASSUME NEW k \in 0..x - 1  PROVE f[k] /= NIL
      <3>1. k \in Nat /\ x \in Nat /\ k < x /\ k \in 0..m
        BY <1>1
      <3>2. <<k, x>> \in OpToRel(<, Nat)
        BY <3>1 DEF OpToRel
      <3> QED BY <2>2, <3>1, <3>2
    <2> QED BY <2>3
  <1>10. there = 0..n - 1
    <2>1. \A k \in n..m : f[k] = NIL
      BY <1>6, <1>9
    <2>2. \A k \in 0..m : k \in 0..n - 1 \/ k \in n..m
      BY <1>1
    <2> QED BY <1>1, <1>9, <2>1, <2>2
  <1>11. Cardinality(there) = n
    <2>1. 0 \in Int /\ n - 1 \in Int /\ (n = 0 => 0 > n - 1) /\ (n /= 0 => 0 <= n - 1) /\ (n - 1) - 0 + 1 = n
      BY <1>1
    <2>2. Cardinality(0..n - 1) = n
      BY <2>1, FS_Interval
    <2> HIDE DEF there
    <2> QED BY <1>10, <2>2
  <1> DEFINE s == ChainFrom(t, c)
  <1>12. s = [i \in 1..n |-> f[i - 1]]
    <2>1. s = [i \in 1..Cardinality({k \in DOMAIN f : f[k] /= NIL}) |-> f[i - 1]]
      BY DEF ChainFrom, f, AreNth
    <2>2. {k \in DOMAIN f : f[k] /= NIL} = there
      BY <1>3
    <2> QED BY <1>11, <2>1, <2>2
  <1>13. \A i \in 1..n : i - 1 \in there /\ i - 1 \in 0..m /\ f[i - 1] \in S
    <2>1. \A i \in 1..n : i - 1 \in there
      BY <1>1, <1>10
    <2> QED BY <1>4, <2>1
  <1> HIDE DEF s, there
  <1>14. s \in Seq(S) /\ Len(s) = n /\ DOMAIN s = 1..n /\ n \in Nat
    BY <1>1, <1>12, <1>13
  <1>15. c = NIL <=> n = 0
    <2>1. n /= 0 => 0 \in 0..n - 1
      BY <1>1
    <2> QED BY <1>3, <1>9, <2>1
  <1>16. c /= NIL => 1 \in 1..n /\ s[1] = c
    BY <1>1, <1>3, <1>12, <1>15
  <1>17. ASSUME NEW i \in 1..n
         PROVE  Follows(t, s[i]) = IF i = n THEN NIL ELSE s[i + 1]
    <2>1. i \in 1..m /\ f[i] = Follows(t, f[i - 1])
      <3>1. i \in 1..m
        BY <1>1
      <3>2. f[i - 1] /= NIL
        BY <1>1, <1>13
      <3> QED BY <1>3, <3>1, <3>2
    <2>2. i /= n => i + 1 \in 1..n /\ (i + 1) - 1 = i
      BY <1>1
    <2> QED BY <1>9, <1>12, <2>1, <2>2
  <1>18. ASSUME NEW i \in 1..n, NEW j \in 1..n, s[i] = s[j]
         PROVE  i = j
    <2>1. i - 1 = j - 1
      BY <1>7, <1>12, <1>13, <1>18
    <2> QED BY <1>1, <2>1
  <1>19. \A i \in 1..n : s[i] \in S
    BY <1>12, <1>13
  <1> QED BY <1>14, <1>15, <1>16, <1>17, <1>18, <1>19 DEF IsChain, s

\* The entries of a chain have one bin.
LEMMA OneBin ==
    ASSUME NEW t, TableType(t), NEW S, NEW bin, Chains(t, S, bin), NEW c \in S,
           NEW s, s = ChainFrom(t, c), NEW i \in 1..Len(s)
    PROVE  bin[s[i]] = bin[c]
  <1>1. /\ Len(s) \in Nat /\ 1 \in 1..Len(s) /\ s[1] = c
        /\ \A j \in 1..Len(s) : s[j] \in S
        /\ \A j \in 1..Len(s) : Follows(t, s[j]) = IF j = Len(s) THEN NIL ELSE s[j + 1]
    <2>1. IsChain(t, S, c, s) /\ c /= NIL
      BY ChainFacts, LiveFacts DEF Chains, Linked
    <2> QED BY <2>1 DEF IsChain
  <1>2. NIL \notin S /\ \A x \in S : Follows(t, x) /= NIL => bin[Follows(t, x)] = bin[x]
    BY LiveFacts DEF Chains, Linked
  <1> DEFINE T == {j \in 0..Len(s) : j + 1 \in 1..Len(s) => bin[s[j + 1]] = bin[c]}
  <1>3. 0 \in T
    BY <1>1
  <1>4. ASSUME NEW j \in 0..Len(s), j \in T, j /= Len(s)
        PROVE  j + 1 \in T
    <2>1. j + 1 \in 1..Len(s) /\ j + 1 \in 0..Len(s)
      BY <1>1, <1>4
    <2>2. ASSUME (j + 1) + 1 \in 1..Len(s)
          PROVE  bin[s[(j + 1) + 1]] = bin[c]
      <3>1. j + 1 /= Len(s)
        BY <1>1, <2>2
      <3>2. Follows(t, s[j + 1]) = s[(j + 1) + 1] /\ s[j + 1] \in S /\ s[(j + 1) + 1] \in S
        BY <1>1, <2>1, <2>2, <3>1
      <3> QED BY <1>2, <1>4, <2>1, <3>2
    <2> QED BY <2>1, <2>2
  <1> HIDE DEF T
  <1>5. 0..Len(s) \subseteq T
    BY <1>1, <1>3, <1>4, UpTo
  <1>6. i - 1 \in 0..Len(s) /\ (i - 1) + 1 = i
    BY <1>1
  <1> QED BY <1>5, <1>6 DEF T

\* The chain of a bin is the entries of the bin.
LEMMA ChainOfBin ==
    ASSUME NEW t, TableType(t), NEW S, NEW bin, Chains(t, S, bin), NEW b \in Bins(t)
    PROVE  /\ IsChain(t, S, t.bins[b], Chain(t, b))
           /\ \A i \in 1..Len(Chain(t, b)) : bin[Chain(t, b)[i]] = b
           /\ \A c \in S : bin[c] = b => \E i \in 1..Len(Chain(t, b)) : Chain(t, b)[i] = c
           /\ IsInjective(Chain(t, b)) /\ Range(Chain(t, b)) = {c \in S : bin[c] = b}
  <1> DEFINE s == Chain(t, b)
             top == t.bins[b]
  <1>1. /\ NIL \notin S /\ S \subseteq Cell /\ top \in S \union {NIL} /\ (top /= NIL => bin[top] = b)
        /\ \A c \in S : /\ Follows(t, c) /= NIL => bin[Follows(t, c)] = bin[c]
                        /\ t.bins[bin[c]] = c \/ \E d \in S : Follows(t, d) = c
    BY LiveFacts DEF Chains, Linked
  <1>2. s = ChainFrom(t, top)
    BY DEF Chain
  <1>3. IsChain(t, S, top, s)
    BY <1>1, <1>2, ChainFacts, SMTT(60)
  <1>4. /\ Len(s) \in Nat /\ DOMAIN s = 1..Len(s) /\ s \in Seq(S)
        /\ top = NIL <=> Len(s) = 0
        /\ top /= NIL => 1 \in 1..Len(s) /\ s[1] = top
        /\ \A i \in 1..Len(s) : s[i] \in S
        /\ \A i \in 1..Len(s) : Follows(t, s[i]) = IF i = Len(s) THEN NIL ELSE s[i + 1]
        /\ \A i, j \in 1..Len(s) : s[i] = s[j] => i = j
    BY <1>3 DEF IsChain
  <1> HIDE DEF s, top
  <1>5. ASSUME NEW i \in 1..Len(s)
        PROVE  bin[s[i]] = b
    <2>1. top \in S
      <3>1. Len(s) \in Nat
        BY <1>4
      <3>2. Len(s) /= 0
        BY <3>1
      <3> QED BY <1>1, <1>4, <3>2, ZenonT(60)
    <2> QED BY <1>1, <1>2, <2>1, OneBin, SMTT(60)
  <1>6. PICK rank \in [Cell -> Nat] : Ranks(rank, t, S)
    BY DEF Chains
  <1> DEFINE missed == {c \in S : bin[c] = b /\ \A i \in 1..Len(s) : s[i] /= c}
  <1>7. ASSUME missed /= {}
        PROVE  FALSE
    <2> DEFINE R == {n \in Nat : \E c \in missed : rank[c] = n}
    <2>1. R /= {} /\ R \subseteq Nat
      BY <1>1, <1>6, <1>7
    <2>2. PICK n \in R : \A k \in R : ~ (<<k, n>> \in OpToRel(<, Nat))
      BY <2>1, NatLessThanWellFounded, WFMin
    <2>3. PICK c \in missed : rank[c] = n
      BY SMTT(60)
    <2>4. c /= top
      BY <1>1, <1>4, <2>3, ZenonT(60)
    <2>5. PICK d \in S : Follows(t, d) = c
      BY <1>1, <2>3, <2>4 DEF top
    <2>6. c /= NIL /\ bin[d] = b
      BY <1>1, <2>5
    <2>7. rank[d] < rank[c] /\ rank[d] \in Nat /\ rank[c] \in Nat
      BY <1>1, <1>6, <2>5, <2>6 DEF Ranks
    <2>8. <<rank[d], n>> \in OpToRel(<, Nat)
      BY <2>3, <2>7 DEF OpToRel
    <2>9. d \notin missed
      BY <2>2, <2>7, <2>8
    <2>10. PICK i \in 1..Len(s) : s[i] = d
      BY <2>6, <2>9
    <2>11. i /= Len(s) /\ s[i + 1] = c
      BY <1>4, <2>5, <2>6, <2>10, Zenon
    <2>12. i + 1 \in 1..Len(s)
      <3>1. Len(s) \in Nat
        BY <1>4
      <3> QED BY <2>11, <3>1, SMTT(60)
    <2> QED BY <2>3, <2>11, <2>12
  <1>8. \A c \in S : bin[c] = b => \E i \in 1..Len(s) : s[i] = c
    BY <1>7, SMTT(60)
  <1>9. IsInjective(s)
    BY <1>4 DEF IsInjective
  <1>10. Range(s) = {c \in S : bin[c] = b}
    <2>1. Range(s) = {s[i] : i \in 1..Len(s)}
      BY <1>4 DEF Range
    <2>2. {s[i] : i \in 1..Len(s)} \subseteq {c \in S : bin[c] = b}
      <3>1. \A i \in 1..Len(s) : s[i] \in S /\ bin[s[i]] = b
        BY <1>4, <1>5
      <3>2. \A i \in 1..Len(s) : s[i] \in {c \in S : bin[c] = b}
        BY <3>1
      <3> QED BY <3>2, SMTT(60)
    <2>3. {c \in S : bin[c] = b} \subseteq {s[i] : i \in 1..Len(s)}
      BY <1>8
    <2> QED BY <2>1, <2>2, <2>3, SMTT(60)
  <1> QED BY <1>3, <1>5, <1>8, <1>9, <1>10 DEF s, top

-----------------------------------------------------------------------------
(* The entries of a table, bin by bin.                                     *)

LEMMA Joined ==
    ASSUME NEW S, NEW s \in Seq(S), NEW u \in Seq(S), IsInjective(s), IsInjective(u),
           Range(s) \intersect Range(u) = {}
    PROVE  s \o u \in Seq(S) /\ IsInjective(s \o u) /\ Range(s \o u) = Range(s) \union Range(u)
  <1> DEFINE r == s \o u
  <1>1. /\ Len(s) \in Nat /\ Len(u) \in Nat /\ DOMAIN s = 1..Len(s) /\ DOMAIN u = 1..Len(u)
        /\ r \in Seq(S) /\ Len(r) = Len(s) + Len(u) /\ DOMAIN r = 1..Len(s) + Len(u)
        /\ \A i \in 1..Len(s) + Len(u) : r[i] = IF i <= Len(s) THEN s[i] ELSE u[i - Len(s)]
    BY ConcatProperties
  <1> HIDE DEF r
  <1>2. ASSUME NEW i \in 1..Len(s) + Len(u)
        PROVE  \/ i \in 1..Len(s) /\ r[i] = s[i] /\ r[i] \in Range(s)
               \/ i - Len(s) \in 1..Len(u) /\ r[i] = u[i - Len(s)] /\ r[i] \in Range(u)
    <2>1. CASE i <= Len(s)
      <3>1. i \in 1..Len(s)
        BY <1>1, <2>1
      <3> QED BY <1>1, <2>1, <3>1 DEF Range
    <2>2. CASE ~ (i <= Len(s))
      <3>1. i - Len(s) \in 1..Len(u)
        BY <1>1, <2>2
      <3> QED BY <1>1, <2>2, <3>1 DEF Range
    <2> QED BY <2>1, <2>2
  <1>3. ASSUME NEW i \in 1..Len(s) + Len(u), NEW j \in 1..Len(s) + Len(u), r[i] = r[j]
        PROVE  i = j
    <2>1. CASE i \in 1..Len(s) /\ r[i] = s[i] /\ r[i] \in Range(s)
      <3>1. j \in 1..Len(s) /\ r[j] = s[j]
        BY <1>2, <1>3, <2>1
      <3> QED BY <1>1, <1>3, <2>1, <3>1 DEF IsInjective
    <2>2. CASE i - Len(s) \in 1..Len(u) /\ r[i] = u[i - Len(s)] /\ r[i] \in Range(u)
      <3>1. j - Len(s) \in 1..Len(u) /\ r[j] = u[j - Len(s)]
        BY <1>2, <1>3, <2>2
      <3>2. i - Len(s) = j - Len(s)
        BY <1>1, <1>3, <2>2, <3>1 DEF IsInjective
      <3> QED BY <1>1, <3>2
    <2> QED BY <1>2, <2>1, <2>2
  <1>4. IsInjective(r)
    BY <1>1, <1>3 DEF IsInjective
  <1>5. Range(r) \subseteq Range(s) \union Range(u)
    BY <1>1, <1>2 DEF Range
  <1>6. \A i \in 1..Len(s) : i \in 1..Len(s) + Len(u) /\ r[i] = s[i]
    BY <1>1
  <1>7. \A i \in 1..Len(u) : Len(s) + i \in 1..Len(s) + Len(u) /\ r[Len(s) + i] = u[i]
    <2> SUFFICES ASSUME NEW i \in 1..Len(u)
                 PROVE  Len(s) + i \in 1..Len(s) + Len(u) /\ r[Len(s) + i] = u[i]
      OBVIOUS
    <2>1. Len(s) + i \in 1..Len(s) + Len(u) /\ ~ (Len(s) + i <= Len(s)) /\ (Len(s) + i) - Len(s) = i
      BY <1>1
    <2> QED BY <1>1, <2>1
  <1>8. Range(s) \union Range(u) \subseteq Range(r)
    <2>1. /\ Range(s) = {s[i] : i \in 1..Len(s)} /\ Range(u) = {u[i] : i \in 1..Len(u)}
          /\ Range(r) = {r[i] : i \in 1..Len(s) + Len(u)}
      BY <1>1 DEF Range
    <2>2. {s[i] : i \in 1..Len(s)} \subseteq {r[i] : i \in 1..Len(s) + Len(u)}
      BY <1>6
    <2>3. {u[i] : i \in 1..Len(u)} \subseteq {r[i] : i \in 1..Len(s) + Len(u)}
      BY <1>7
    <2> QED BY <2>1, <2>2, <2>3
  <1> QED BY <1>1, <1>4, <1>5, <1>8 DEF r

AreFlat(f, seqs) == f = [i \in 1..Len(seqs) |-> IF i = 1 THEN seqs[i] ELSE f[i - 1] \o seqs[i]]

LEMMA FlatExist ==
    ASSUME NEW S, NEW m \in Nat \ {0}, NEW seqs, Len(seqs) = m, \A i \in 1..m : seqs[i] \in Seq(S)
    PROVE  \E f : AreFlat(f, seqs)
  <1> DEFINE A == Seq(S)
             step == [p \in (1..m) \X A |-> p[2] \o seqs[p[1]]]
  <1>1. step \in [(1..m) \X A -> A]
    <2>1. ASSUME NEW p \in (1..m) \X A
          PROVE  p[2] \o seqs[p[1]] \in A
      BY ConcatProperties
    <2> QED BY <2>1
  <1>2. \A n \in 1..m, p \in A : step[<<n, p>>] = p \o seqs[n]
    OBVIOUS
  <1> HIDE DEF step
  <1>3. <<>> \in A /\ m \in Nat
    BY EmptySeq
  <1>4. PICK f : Iterates(f, m, A, <<>>, step)
    BY <1>1, <1>3, Recursion
  <1>5. f \in [0..m -> A] /\ f[0] = <<>> /\ \A n \in 1..m : f[n] = step[<<n, f[n - 1]>>]
    BY <1>4 DEF Iterates
  <1> DEFINE g == [i \in 1..m |-> f[i]]
  <1>6. ASSUME NEW n \in 1..m
        PROVE  g[n] = IF n = 1 THEN seqs[n] ELSE g[n - 1] \o seqs[n]
    <2>1. n - 1 \in 0..m /\ f[n - 1] \in A
      <3>1. n - 1 \in 0..m
        OBVIOUS
      <3> HIDE DEF A
      <3> QED BY <1>5, <3>1
    <2>2. f[n] = f[n - 1] \o seqs[n]
      BY <1>2, <1>5, <2>1
    <2>3. CASE n = 1
      <3>1. <<>> \o seqs[n] = seqs[n]
        BY ConcatEmptySeq
      <3>2. f[n] = seqs[n]
        <4>1. n - 1 = 0
          BY <2>3
        <4>2. f[n - 1] = <<>>
          BY <1>5, <4>1
        <4> QED BY <2>2, <3>1, <4>2
      <3>3. g[n] = f[n]
        OBVIOUS
      <3> HIDE DEF g
      <3> QED BY <2>3, <3>2, <3>3
    <2>4. CASE n /= 1
      <3>1. n - 1 \in 1..m
        BY <2>4
      <3>2. g[n] = f[n] /\ g[n - 1] = f[n - 1]
        BY <3>1
      <3> HIDE DEF g
      <3> QED BY <2>2, <2>4, <3>2
    <2> QED BY <2>3, <2>4
  <1>7. g = [n \in 1..m |-> g[n]]
    OBVIOUS
  <1>8. AreFlat(g, seqs)
    <2> HIDE DEF g
    <2> QED BY <1>6, <1>7 DEF AreFlat
  <1> QED BY <1>8

\* Each entry is once among the entries of the table.
LEMMA EntriesFacts ==
    ASSUME NEW t, TableType(t), NEW S, NEW bin, Chains(t, S, bin)
    PROVE  /\ Entries(t) \in Seq(S) /\ IsInjective(Entries(t)) /\ Range(Entries(t)) = S
  <1> DEFINE m == t.num_bins
             seqs == [i \in 1..m |-> Chain(t, i - 1)]
             f == CHOOSE g : AreFlat(g, seqs)
  <1>1. m \in Nat \ {0} /\ m \in Nat /\ \A i \in 1..m : i - 1 \in Bins(t)
    BY DEF TableType, Bins
  <1>2. Len(seqs) = m /\ \A i \in 1..m : seqs[i] = Chain(t, i - 1)
    <2>1. seqs = [i \in 1..m |-> seqs[i]]
      OBVIOUS
    <2> QED BY <1>1, <2>1
  <1>3. \A i \in 1..m : /\ seqs[i] \in Seq(S) /\ IsInjective(seqs[i])
                        /\ Range(seqs[i]) = {c \in S : bin[c] = i - 1}
    <2> SUFFICES ASSUME NEW i \in 1..m
                 PROVE  /\ seqs[i] \in Seq(S) /\ IsInjective(seqs[i])
                        /\ Range(seqs[i]) = {c \in S : bin[c] = i - 1}
      OBVIOUS
    <2> DEFINE b == i - 1
    <2>1. b \in Bins(t) /\ seqs[i] = Chain(t, b)
      BY <1>1, <1>2
    <2> HIDE DEF b
    <2>2. IsChain(t, S, t.bins[b], Chain(t, b)) /\ IsInjective(Chain(t, b))
          /\ Range(Chain(t, b)) = {c \in S : bin[c] = b}
      BY <2>1, ChainOfBin
    <2> HIDE DEF seqs
    <2> QED BY <2>1, <2>2 DEF IsChain, b
  <1> HIDE DEF seqs
  <1>4. AreFlat(f, seqs)
    BY <1>1, <1>2, <1>3, FlatExist
  <1>5. Entries(t) = f[m]
    BY <1>1, <1>2 DEF Entries, FlattenSeq, AreFlat, seqs
  <1> HIDE DEF f
  <1>6. \A i \in 1..m : f[i] = IF i = 1 THEN seqs[i] ELSE f[i - 1] \o seqs[i]
    BY <1>2, <1>4 DEF AreFlat
  <1>7. \A c \in S : bin[c] \in 0..m - 1
    BY DEF Chains, Linked, Bins
  <1> DEFINE Part(i) == {c \in S : bin[c] < i}
             Good(i) == f[i] \in Seq(S) /\ IsInjective(f[i]) /\ Range(f[i]) = Part(i)
             T == {i \in 0..m : i /= 0 => Good(i)}
  <1>8. 0 \in T
    <2> HIDE DEF Good
    <2>1. 0 \in 0..m
      BY <1>1
    <2> QED BY <2>1
  <1>9. ASSUME NEW i \in 0..m, i \in T, i /= m
        PROVE  i + 1 \in T
    <2>1. i + 1 \in 1..m /\ (i + 1) - 1 = i /\ i + 1 \in 0..m
      BY <1>1, <1>9
    <2>2. f[i + 1] \in Seq(S) /\ IsInjective(f[i + 1]) /\ Range(f[i + 1]) = Part(i + 1)
      <3>1. CASE i = 0
        <4>1. f[i + 1] = seqs[1]
          BY <1>6, <2>1, <3>1
        <4>2. {c \in S : bin[c] = 1 - 1} = Part(i + 1)
          BY <1>7, <3>1
        <4> QED BY <1>3, <2>1, <3>1, <4>1, <4>2
      <3>2. CASE i /= 0
        <4>1. f[i + 1] = f[i] \o seqs[i + 1]
          <5>1. i + 1 /= 1
            BY <2>1, <3>2
          <5> QED BY <1>6, <2>1, <5>1
        <4>2. f[i] \in Seq(S) /\ IsInjective(f[i]) /\ Range(f[i]) = Part(i)
          BY <1>9, <3>2
        <4>3. seqs[i + 1] \in Seq(S) /\ IsInjective(seqs[i + 1]) /\ Range(seqs[i + 1]) = {c \in S : bin[c] = i}
          BY <1>3, <2>1
        <4>4. Part(i) \intersect {c \in S : bin[c] = i} = {}
          BY <1>7
        <4>5. Part(i) \union {c \in S : bin[c] = i} = Part(i + 1)
          BY <1>7, <2>1
        <4> HIDE DEF Part
        <4>6. /\ f[i] \o seqs[i + 1] \in Seq(S) /\ IsInjective(f[i] \o seqs[i + 1])
              /\ Range(f[i] \o seqs[i + 1]) = Range(f[i]) \union Range(seqs[i + 1])
          BY <4>2, <4>3, <4>4, Joined
        <4> QED BY <4>1, <4>2, <4>3, <4>5, <4>6
      <3> QED BY <3>1, <3>2
    <2>3. Good(i + 1)
      BY <2>2
    <2> HIDE DEF Good
    <2> QED BY <2>1, <2>3
  <1>10. m \in T
    <2> HIDE DEF T
    <2>1. 0..m \subseteq T
      BY <1>1, <1>8, <1>9, UpTo
    <2> QED BY <1>1, <2>1
  <1>11. Part(m) = S
    BY <1>1, <1>7
  <1>12. Good(m)
    <2> HIDE DEF Good
    <2> QED BY <1>1, <1>10
  <1> HIDE DEF Part
  <1> QED BY <1>5, <1>11, <1>12

-----------------------------------------------------------------------------
(* Every entry moved to a chain of new bins.                               *)

LEMMA PushKeeps ==
    ASSUME NEW t, TableType(t), NEW c \in Live(t), NEW b \in Bins(t)
    PROVE  SameBut(Push(t, b, c), t)
  <1> DEFINE n == Put(t, c, t.bins[b])
  <1>1. t.bins[b] \in Pointer /\ c \in Pointer
    BY LiveFacts DEF Pointer
  <1>2. SameBut(n, t)
    BY <1>1, PutKeeps
  <1>3. Push(t, b, c) = Put(n, b, c)
    BY DEF Push
  <1> HIDE DEF n
  <1>4. TableType(n) /\ Bins(n) = Bins(t) /\ Live(n) = Live(t)
    BY <1>2 DEF SameBut, Bins
  <1>5. SameBut(Put(n, b, c), n)
    BY <1>1, <1>4, PutKeeps
  <1> QED BY <1>2, <1>3, <1>5 DEF SameBut

\* The tables that differ from t in their pointers only.
Rechained(t) ==
    {m \in [num_bins : {t.num_bins}, num_entries : {t.num_entries},
            bins : [Bins(t) -> Pointer], elem : [Cell -> Entry \union {NIL}]] : SameBut(m, t)}

LEMMA InRechained ==
    ASSUME NEW t, NEW m, SameBut(m, t)
    PROVE  m \in Rechained(t)
  <1>1. Bins(m) = Bins(t)
    BY DEF SameBut, Bins
  <1> QED BY <1>1 DEF SameBut, Rechained, TableType

Emptied(t, n) == [t EXCEPT !.num_bins = n, !.bins = [b \in 0..n - 1 |-> NIL]]

LEMMA EmptiedFacts ==
    ASSUME NEW t, TableType(t), NEW n \in Nat \ {0}, NEW m, m = Emptied(t, n)
    PROVE  /\ m = [num_bins |-> n, num_entries |-> t.num_entries, bins |-> [b \in 0..n - 1 |-> NIL],
                   elem |-> t.elem]
           /\ TableType(m) /\ Live(m) = Live(t) /\ Bins(m) = 0..n - 1
           /\ \A bin : Chains(m, {}, bin)
  <1> DEFINE e == [b \in 0..n - 1 |-> NIL]
  <1>1. t = [num_bins |-> t.num_bins, num_entries |-> t.num_entries, bins |-> t.bins, elem |-> t.elem]
        /\ t.num_entries \in Nat /\ t.elem \in [Cell -> Entry \union {NIL}]
    BY DEF TableType
  <1>2. m = [num_bins |-> n, num_entries |-> t.num_entries, bins |-> e, elem |-> t.elem]
    <2>1. m = [t EXCEPT !.num_bins = n, !.bins = e]
      BY DEF Emptied
    <2> HIDE DEF e
    <2> QED BY <1>1, <2>1
  <1>3. e \in [0..n - 1 -> Pointer] /\ \A b \in 0..n - 1 : e[b] = NIL
    BY DEF Pointer
  <1> HIDE DEF e
  <1>4. m.num_bins = n /\ m.num_entries = t.num_entries /\ m.bins = e /\ m.elem = t.elem
    BY <1>2
  <1>5. Live(m) = Live(t) /\ Bins(m) = 0..n - 1
    BY <1>4 DEF Live, Bins
  <1>6. TableType(m)
    BY <1>1, <1>2, <1>3, <1>4, <1>5 DEF TableType
  <1>7. ASSUME NEW bin
        PROVE  Chains(m, {}, bin)
    <2>1. Linked(m, {}, bin)
      BY <1>3, <1>4, <1>5 DEF Linked
    <2>2. [c \in Cell |-> 0] \in [Cell -> Nat] /\ Ranks([c \in Cell |-> 0], m, {})
      BY DEF Ranks
    <2> QED BY <2>1, <2>2 DEF Chains
  <1> QED BY <1>2, <1>5, <1>6, <1>7 DEF e

AreMoved(f, t, n, bin) ==
    f = [i \in 0..Len(Entries(t)) |->
            IF i = 0 THEN [t EXCEPT !.num_bins = n, !.bins = [b \in 0..n - 1 |-> NIL]]
            ELSE Push(f[i - 1], bin[Entries(t)[i]], Entries(t)[i])]

LEMMA MovedExist ==
    ASSUME NEW t, TableType(t), NEW n \in Nat \ {0}, NEW bin, \A c \in Live(t) : bin[c] \in 0..n - 1,
           Entries(t) \in Seq(Live(t))
    PROVE  \E f : AreMoved(f, t, n, bin) /\ \A i \in 0..Len(Entries(t)) : SameBut(f[i], Emptied(t, n))
  <1> DEFINE e == Emptied(t, n)
             A == Rechained(e)
             all == Entries(t)
             m == Len(all)
             step == [p \in (1..m) \X A |-> Push(p[2], bin[all[p[1]]], all[p[1]])]
  <1>1. TableType(e) /\ Live(e) = Live(t) /\ Bins(e) = 0..n - 1
    BY EmptiedFacts
  <1>2. m \in Nat /\ \A i \in 1..m : all[i] \in Live(t)
    BY ElementOfSeq, LenProperties
  <1>3. \A i \in 1..m : all[i] \in Live(e) /\ bin[all[i]] \in Bins(e)
    BY <1>1, <1>2
  <1>4. e \in A
    BY <1>1, InRechained DEF SameBut
  <1> HIDE DEF e, all, m
  <1>5. ASSUME NEW i \in 1..m, NEW r \in A
        PROVE  Push(r, bin[all[i]], all[i]) \in A
    <2>1. SameBut(r, e)
      BY DEF Rechained
    <2>2. TableType(r) /\ Live(r) = Live(e) /\ Bins(r) = Bins(e)
      BY <2>1 DEF SameBut, Bins
    <2>3. SameBut(Push(r, bin[all[i]], all[i]), r)
      BY <1>3, <2>2, PushKeeps
    <2>4. SameBut(Push(r, bin[all[i]], all[i]), e)
      BY <2>1, <2>3 DEF SameBut
    <2> QED BY <2>4, InRechained
  <1> HIDE DEF A
  <1>6. step \in [(1..m) \X A -> A]
    BY <1>5
  <1>7. \A i \in 1..m, r \in A : step[<<i, r>>] = Push(r, bin[all[i]], all[i])
    OBVIOUS
  <1> HIDE DEF step
  <1>8. PICK f : Iterates(f, m, A, e, step)
    BY <1>2, <1>4, <1>6, Recursion
  <1>9. f \in [0..m -> A] /\ f[0] = e /\ \A i \in 1..m : f[i] = step[<<i, f[i - 1]>>]
    BY <1>8 DEF Iterates
  <1>10. \A i \in 1..m : f[i] = Push(f[i - 1], bin[all[i]], all[i])
    <2>1. \A i \in 1..m : f[i - 1] \in A
      BY <1>2, <1>9
    <2> QED BY <1>7, <1>9, <2>1
  <1>11. \A i \in 0..m : f[i] = IF i = 0 THEN e ELSE Push(f[i - 1], bin[all[i]], all[i])
    BY <1>2, <1>9, <1>10
  <1>12. f = [i \in 0..m |-> IF i = 0 THEN e ELSE Push(f[i - 1], bin[all[i]], all[i])]
    BY <1>9, <1>11
  <1>13. AreMoved(f, t, n, bin)
    BY <1>12 DEF AreMoved, e, m, all, Emptied
  <1>14. \A i \in 0..m : SameBut(f[i], e)
    BY <1>9 DEF A, Rechained
  <1> QED BY <1>13, <1>14 DEF e, m, all

\* Every entry keeps its key and record and is in the chain it was moved to.
LEMMA MovedFacts ==
    ASSUME NEW t, TableType(t), NEW old, Chains(t, Live(t), old),
           NEW n \in Nat \ {0}, NEW bin, \A c \in Live(t) : bin[c] \in 0..n - 1,
           NEW m, m = Moved(t, n, bin)
    PROVE  SameBut(m, Emptied(t, n)) /\ Chains(m, Live(t), bin)
  <1> DEFINE all == Entries(t)
             e == Emptied(t, n)
             f == CHOOSE g : AreMoved(g, t, n, bin)
             To(i) == {all[j] : j \in 1..i}
             Good(i) == SameBut(f[i], e) /\ Chains(f[i], To(i), bin)
             T == {i \in 0..Len(all) : Good(i)}
  <1>1. /\ all \in Seq(Live(t)) /\ Len(all) \in Nat /\ DOMAIN all = 1..Len(all)
        /\ \A i \in 1..Len(all) : all[i] \in Live(t)
        /\ \A i, j \in 1..Len(all) : all[i] = all[j] => i = j
        /\ \A c \in Live(t) : \E i \in 1..Len(all) : all[i] = c
    <2>1. all \in Seq(Live(t)) /\ IsInjective(all) /\ Range(all) = Live(t)
      BY EntriesFacts
    <2> HIDE DEF all
    <2>2. Len(all) \in Nat /\ DOMAIN all = 1..Len(all) /\ \A i \in 1..Len(all) : all[i] \in Live(t)
      BY <2>1, LenProperties, ElementOfSeq
    <2> QED BY <2>1, <2>2 DEF IsInjective, Range
  <1>2. AreMoved(f, t, n, bin)
    BY <1>1, MovedExist
  <1>3. m = f[Len(all)]
    BY DEF Moved, AreMoved
  <1> HIDE DEF f
  <1>4. /\ f[0] = e
        /\ \A i \in 1..Len(all) : f[i] = Push(f[i - 1], bin[all[i]], all[i])
    <2>1. \A i \in 0..Len(all) : f[i] = IF i = 0 THEN e ELSE Push(f[i - 1], bin[all[i]], all[i])
      BY <1>2 DEF AreMoved, Emptied
    <2> QED BY <1>1, <2>1
  <1>5. TableType(e) /\ Live(e) = Live(t) /\ Bins(e) = 0..n - 1 /\ Chains(e, {}, bin)
    BY EmptiedFacts
  <1> HIDE DEF e, all
  <1>6. 0 \in T
    <2>1. To(0) = {}
      OBVIOUS
    <2>2. SameBut(e, e)
      BY <1>5 DEF SameBut
    <2>3. Good(0)
      BY <1>4, <1>5, <2>1, <2>2
    <2>4. 0 \in 0..Len(all)
      BY <1>1
    <2> HIDE DEF Good
    <2> QED BY <2>3, <2>4
  <1>7. ASSUME NEW i \in 0..Len(all), i \in T, i /= Len(all)
        PROVE  i + 1 \in T
    <2> PICK k : k = i + 1
      OBVIOUS
    <2>1. k \in 1..Len(all) /\ k - 1 = i /\ k \in 0..Len(all)
      <3>1. Len(all) \in Nat
        BY <1>1
      <3>2. i \in 0..Len(all) /\ i /= Len(all)
        BY <1>7
      <3> HIDE DEF T
      <3> QED BY <3>1, <3>2
    <2> DEFINE c == all[k]
               r == f[i]
               S == To(i)
    <2>2. SameBut(r, e) /\ Chains(r, S, bin)
      BY <1>7
    <2>3. TableType(r) /\ Live(r) = Live(t) /\ Bins(r) = 0..n - 1
      BY <1>5, <2>2 DEF SameBut, Bins
    <2>4. c \in Live(t) /\ c \notin S
      <3>1. \A j \in 1..i : j \in 1..Len(all) /\ j /= k
        BY <1>1, <2>1
      <3> QED BY <1>1, <2>1, <3>1
    <2>5. S \union {c} = To(k)
      <3>1. \A j \in 1..k : j \in 1..i \/ j = k
        BY <2>1
      <3>2. \A j \in 1..i : j \in 1..k
        BY <2>1
      <3>3. k \in 1..k
        BY <2>1
      <3> QED BY <3>1, <3>2, <3>3
    <2>6. f[k] = Push(r, bin[c], c)
      BY <1>4, <2>1
    <2> DEFINE after == f[k]
    <2>7. TableType(r) /\ Chains(r, S, bin) /\ c \in Live(r) \ S /\ bin[c] \in Bins(r) /\ after = Push(r, bin[c], c)
      BY <2>2, <2>3, <2>4, <2>6
    <2> HIDE DEF c, r, S, after, To
    <2>8. SameBut(after, r) /\ Chains(after, S \union {c}, bin)
      BY <2>7, PushLinks
    <2>9. SameBut(after, e)
      BY <2>2, <2>8 DEF SameBut
    <2>10. Good(k)
      BY <2>5, <2>8, <2>9 DEF after
    <2> HIDE DEF Good
    <2> QED BY <2>1, <2>10
  <1>8. Good(Len(all))
    <2> HIDE DEF T
    <2>1. 0..Len(all) \subseteq T
      BY <1>1, <1>6, <1>7, UpTo
    <2>2. Len(all) \in T
      BY <1>1, <2>1
    <2> HIDE DEF Good
    <2> QED BY <2>2, SMTT(60) DEF T
  <1>9. To(Len(all)) = Live(t)
    BY <1>1
  <1> QED BY <1>3, <1>8, <1>9 DEF e

\* The number of the entries.
LEMMA EntriesLength ==
    ASSUME NEW t, TableType(t), NEW old, Chains(t, Live(t), old)
    PROVE  Len(Entries(t)) = Cardinality(Live(t)) /\ Cardinality(Live(t)) \in Nat
  <1> DEFINE all == Entries(t)
             n == Len(all)
  <1>1. all \in Seq(Live(t)) /\ IsInjective(all) /\ Range(all) = Live(t)
    BY EntriesFacts
  <1> HIDE DEF all
  <1>2. n \in Nat /\ DOMAIN all = 1..n /\ \A i \in 1..n : all[i] \in Live(t)
    BY <1>1, LenProperties, ElementOfSeq
  <1>3. IsFiniteSet(1..n) /\ Cardinality(1..n) = n
    <2>1. 1 \in Int /\ n \in Int /\ (n = 0 => 1 > n) /\ (n /= 0 => 1 <= n) /\ n - 1 + 1 = n
      BY <1>2
    <2> HIDE DEF n
    <2> QED BY <2>1, FS_Interval
  <1>4. all \in Bijection(1..n, Live(t))
    <2>1. all \in [1..n -> Live(t)]
      BY <1>1, <1>2
    <2>2. \A i, j \in 1..n : all[i] = all[j] => i = j
      BY <1>1, <1>2 DEF IsInjective
    <2>3. \A c \in Live(t) : \E i \in 1..n : all[i] = c
      BY <1>1, <1>2 DEF Range
    <2> HIDE DEF n
    <2> QED BY <2>1, <2>2, <2>3 DEF Bijection, Injection, Surjection, IsInjective
  <1>5. IsFiniteSet(Live(t)) /\ Cardinality(Live(t)) = n
    <2> HIDE DEF n
    <2>1. ExistsBijection(1..n, Live(t))
      BY <1>4 DEF ExistsBijection
    <2> QED BY <1>3, <2>1, FS_Bijection
  <1> QED BY <1>2, <1>5 DEF all

-----------------------------------------------------------------------------
(* The chains of a table do not depend on what the pointers leave alone.   *)

LEMMA SameChains ==
    ASSUME NEW t, NEW S, NEW bin, Chains(t, S, bin), NEW m, NEW to,
           S \subseteq Live(m), m.num_bins = t.num_bins, m.bins = t.bins, NIL \notin S,
           \A c \in S : Follows(m, c) = Follows(t, c) /\ to[c] = bin[c]
    PROVE  Chains(m, S, to)
  <1>1. Bins(m) = Bins(t)
    BY DEF Bins
  <1>2. PICK rank \in [Cell -> Nat] : Ranks(rank, t, S)
    BY DEF Chains
  <1>3. Ranks(rank, m, S)
    BY <1>2 DEF Ranks
  <1>4. /\ \A b \in Bins(t) : t.bins[b] \in S \union {NIL}
        /\ \A b \in Bins(t) : t.bins[b] /= NIL => bin[t.bins[b]] = b
        /\ \A c \in S :
            /\ bin[c] \in Bins(t)
            /\ Follows(t, c) \in S \union {NIL}
            /\ Follows(t, c) /= NIL => bin[Follows(t, c)] = bin[c] /\ Follows(t, c) /= t.bins[bin[c]]
            /\ t.bins[bin[c]] = c \/ \E d \in S : Follows(t, d) = c
        /\ \A c, d \in S : Follows(t, c) = Follows(t, d) /\ Follows(t, c) /= NIL => c = d
    BY DEF Chains, Linked
  <1>5. Linked(m, S, to)
    <2>1. \A b \in Bins(m) : m.bins[b] \in S \union {NIL} /\ (m.bins[b] /= NIL => to[m.bins[b]] = b)
      BY <1>1, <1>4
    <2>2. \A c \in S :
            /\ to[c] \in Bins(m)
            /\ Follows(m, c) \in S \union {NIL}
            /\ Follows(m, c) /= NIL => to[Follows(m, c)] = to[c] /\ Follows(m, c) /= m.bins[to[c]]
      BY <1>1, <1>4
    <2>3. \A c \in S : m.bins[to[c]] = c \/ \E d \in S : Follows(m, d) = c
      BY <1>4
    <2>4. \A c, d \in S : Follows(m, c) = Follows(m, d) /\ Follows(m, c) /= NIL => c = d
      BY <1>4
    <2> QED BY <2>1, <2>2, <2>3, <2>4 DEF Linked
  <1> QED BY <1>2, <1>3, <1>5 DEF Chains

\* What is so of the bins of the entries when they keep their keys.
LEMMA SameBins ==
    ASSUME NEW t, NEW m, Live(m) = Live(t), m.num_bins = t.num_bins,
           \A c \in Live(t) : m.elem[c].key = t.elem[c].key
    PROVE  BinOf(m) = BinOf(t)
  BY DEF BinOf, do_hash

LEMMA HashFacts ==
    ASSUME NEW t, TableType(t)
    PROVE  \A k \in Key : do_hash(k, t) \in Bins(t)
  <1>1. \A a \in Nat, n \in Nat \ {0} : a % n \in 0..n - 1
    OBVIOUS
  <1> QED BY <1>1, StAssumption DEF TableType, do_hash, Bins

HasRoom(t) == t.num_entries < MaxDensity * t.num_bins

\* The same entries, with the same keys and records.
SameEntries(m, t) ==
    /\ Live(m) = Live(t)
    /\ \A c \in Live(t) : m.elem[c].key = t.elem[c].key /\ m.elem[c].record = t.elem[c].record

LEMMA WiderFacts ==
    ASSUME NEW n \in Nat \ {0}
    PROVE  Wider(n) \in Nat \ {0} /\ Wider(n) >= 2 * n
  <1>1. GrowFactor \in Nat /\ GrowFactor >= 2
    BY StAssumption
  <1>2. GrowFactor * n \in Nat /\ GrowFactor * n >= 2 * n
    BY <1>1, SMTT(60)
  <1> QED BY <1>2 DEF Wider

\* A table that is moved to n bins by the hash values of its keys.
LEMMA RehashKeeps ==
    ASSUME NEW t, TableInv(t), NEW n \in Nat \ {0}, n >= t.num_bins,
           NEW bin, bin = [c \in Live(t) |-> HashOf[t.elem[c].key] % n],
           NEW m, m = [Moved(t, n, bin) EXCEPT !.num_entries = Len(Entries(t))]
    PROVE  TableInv(m) /\ m.num_bins = n /\ m.num_entries = t.num_entries /\ SameEntries(m, t)
  <1> DEFINE r == Moved(t, n, bin)
             e == Emptied(t, n)
  <1>1. /\ TableType(t) /\ Chains(t, Live(t), BinOf(t)) /\ OneEntryEach(t)
        /\ t.num_entries = Cardinality(Live(t)) /\ t.num_entries <= MaxDensity * t.num_bins
        /\ t.num_bins \in Nat \ {0} /\ t.num_entries \in Nat
    BY DEF TableInv, TableType
  <1>2. \A c \in Live(t) : bin[c] \in 0..n - 1
    <2>1. \A a \in Nat : a % n \in 0..n - 1
      OBVIOUS
    <2>2. \A c \in Live(t) : HashOf[t.elem[c].key] \in Nat
      BY <1>1, LiveFacts, StAssumption
    <2> QED BY <2>1, <2>2
  <1>3. SameBut(r, e) /\ Chains(r, Live(t), bin)
    BY <1>1, <1>2, MovedFacts
  <1>4. e.num_bins = n /\ e.num_entries = t.num_entries /\ e.elem = t.elem /\ Live(e) = Live(t)
    BY <1>1, EmptiedFacts, SMTT(60)
  <1> HIDE DEF e
  <1>5. TableType(r) /\ r.num_bins = n /\ r.num_entries = t.num_entries /\ SameEntries(r, t)
    BY <1>3, <1>4, ZenonT(60) DEF SameBut, SameEntries
  <1>6. m = r
    <2>1. r = [num_bins |-> r.num_bins, num_entries |-> r.num_entries, bins |-> r.bins, elem |-> r.elem]
      BY <1>5, ZenonT(60) DEF TableType
    <2>2. Len(Entries(t)) = r.num_entries
      BY <1>1, <1>5, EntriesLength, ZenonT(60)
    <2> HIDE DEF r
    <2>3. m = [r EXCEPT !.num_entries = r.num_entries]
      BY <2>2 DEF r
    <2> QED BY <2>1, <2>3
  <1> HIDE DEF r
  <1>7. BinOf(r) = bin
    BY <1>5 DEF BinOf, do_hash, SameEntries
  <1>8. OneEntryEach(r)
    BY <1>1, <1>5 DEF OneEntryEach, SameEntries
  <1>9. t.num_entries <= MaxDensity * n
    <2>1. MaxDensity \in Nat
      BY StAssumption
    <2>2. MaxDensity * t.num_bins <= MaxDensity * n
      BY <1>1, <2>1
    <2>3. MaxDensity * t.num_bins \in Nat /\ MaxDensity * n \in Nat
      BY <1>1, <2>1
    <2> QED BY <1>1, <2>2, <2>3
  <1> QED BY <1>1, <1>3, <1>5, <1>6, <1>7, <1>8, <1>9, Zenon DEF TableInv, SameEntries

\* There is room for an entry after the table has grown, if it had to.
LEMMA GrownFacts ==
    ASSUME NEW t, TableInv(t), NEW m, m = IF MustGrow(t) THEN rehash(t) ELSE t
    PROVE  /\ TableInv(m) /\ HasRoom(m) /\ SameEntries(m, t) /\ (~ MustGrow(t) => m = t)
           /\ MustGrow(t) => m.num_bins = Wider(t.num_bins)
  <1>1. t.num_bins \in Nat \ {0} /\ t.num_entries \in Nat /\ t.num_entries <= MaxDensity * t.num_bins
        /\ MaxDensity \in Nat \ {0}
    BY StAssumption DEF TableInv, TableType
  <1>2. CASE MustGrow(t)
    <2> DEFINE n == Wider(t.num_bins)
               bin == [c \in Live(t) |-> HashOf[t.elem[c].key] % n]
    <2>1. n \in Nat \ {0} /\ n >= 2 * t.num_bins
      BY <1>1, WiderFacts
    <2>2. m = [Moved(t, n, bin) EXCEPT !.num_entries = Len(Entries(t))]
      BY <1>2 DEF rehash
    <2> HIDE DEF n
    <2>3. n >= t.num_bins /\ n = Wider(t.num_bins)
      BY <1>1, <2>1 DEF n
    <2>4. TableInv(m) /\ m.num_bins = n /\ m.num_entries = t.num_entries /\ SameEntries(m, t)
      BY <2>1, <2>2, <2>3, RehashKeeps
    <2>5. MaxDensity * t.num_bins < MaxDensity * n
      BY <1>1, <2>1
    <2>6. MaxDensity * t.num_bins \in Nat /\ MaxDensity * n \in Nat
      BY <1>1, <2>1
    <2>7. t.num_entries < MaxDensity * n
      BY <1>1, <2>5, <2>6
    <2> QED BY <1>2, <2>3, <2>4, <2>7 DEF HasRoom
  <1>3. CASE ~ MustGrow(t)
    <2>1. t.num_entries \div t.num_bins < MaxDensity
      BY <1>1, <1>3 DEF MustGrow
    <2>2. \A a \in Nat, b \in Nat \ {0}, d \in Nat : a \div b < d => a < d * b
      OBVIOUS
    <2> QED BY <1>1, <1>3, <2>1, <2>2 DEF HasRoom, SameEntries
  <1> QED BY <1>2, <1>3

\* An entry that is added: the others keep their keys and records.
LEMMA AddKeeps ==
    ASSUME NEW t, TableInv(t), NEW k \in Key, NEW v \in Val \union {NIL}, NEW c \in Cell \ Live(t),
           \A d \in Live(t) : t.elem[d].key /= k,
           NEW m, m = ADD_DIRECT(t, k, v, c)
    PROVE  /\ TableInv(m) /\ Live(m) = Live(t) \union {c}
           /\ m.elem[c].key = k /\ m.elem[c].record = v
           /\ \A d \in Live(t) : m.elem[d].key = t.elem[d].key /\ m.elem[d].record = t.elem[d].record
           /\ m.num_bins = IF MustGrow(t) THEN Wider(t.num_bins) ELSE t.num_bins
           /\ ~ MustGrow(t) => \A d \in Live(t) : Follows(m, d) = Follows(t, d)
  <1> DEFINE r == IF MustGrow(t) THEN rehash(t) ELSE t
             new == [key |-> k, record |-> v, next |-> NIL]
             w == [r EXCEPT !.elem[c] = new, !.num_entries = @ + 1]
             b == do_hash(k, r)
             e == [r.elem EXCEPT ![c] = new]
  <1>1. /\ TableInv(r) /\ HasRoom(r) /\ SameEntries(r, t)
        /\ (~ MustGrow(t) => r = t) /\ (MustGrow(t) => r.num_bins = Wider(t.num_bins))
    BY GrownFacts
  <1>2. m = Push(w, b, c)
    BY DEF ADD_DIRECT
  <1> HIDE DEF r
  <1>3. /\ TableType(r) /\ Chains(r, Live(r), BinOf(r)) /\ OneEntryEach(r)
        /\ r.num_entries = Cardinality(Live(r)) /\ r.num_bins \in Nat \ {0} /\ r.num_entries \in Nat
        /\ r.elem \in [Cell -> Entry \union {NIL}] /\ r.bins \in [Bins(r) -> Pointer]
    BY <1>1 DEF TableInv, TableType
  <1>4. new \in Entry /\ new /= NIL /\ new.key = k /\ new.record = v
    BY StAssumption DEF Entry, Pointer
  <1>5. e \in [Cell -> Entry \union {NIL}] /\ \A d \in Cell : e[d] = IF d = c THEN new ELSE r.elem[d]
    BY <1>3, <1>4
  <1>6. w = [num_bins |-> r.num_bins, num_entries |-> r.num_entries + 1, bins |-> r.bins, elem |-> e]
    <2>1. w = [r EXCEPT !.elem = e, !.num_entries = r.num_entries + 1]
      OBVIOUS
    <2>2. r = [num_bins |-> r.num_bins, num_entries |-> r.num_entries, bins |-> r.bins, elem |-> r.elem]
      BY <1>3 DEF TableType
    <2> HIDE DEF w, e
    <2> QED BY <2>1, <2>2
  <1> HIDE DEF w, e, new, b
  <1>7. w.num_bins = r.num_bins /\ w.num_entries = r.num_entries + 1 /\ w.bins = r.bins /\ w.elem = e
    BY <1>6
  <1>8. Bins(w) = Bins(r)
    BY <1>7 DEF Bins
  <1>9. TableType(w)
    BY <1>3, <1>5, <1>6, <1>7, <1>8 DEF TableType
  <1>10. c \in Cell /\ c \notin Live(r) /\ Live(r) = Live(t) /\ NIL \notin Live(r) /\ Live(r) \subseteq Cell
    BY <1>1, <1>3, LiveFacts DEF SameEntries
  <1>11. Live(w) = Live(r) \union {c}
    BY <1>4, <1>5, <1>7, <1>10 DEF Live
  <1>12. \A d \in Live(r) : w.elem[d] = r.elem[d] /\ d /= c
    BY <1>5, <1>7, <1>10
  <1>13. w.elem[c] = new
    BY <1>5, <1>7, <1>10
  <1>14. Chains(w, Live(r), BinOf(w))
    <2>1. \A d \in Live(r) : Follows(w, d) = Follows(r, d) /\ BinOf(w)[d] = BinOf(r)[d]
      BY <1>7, <1>11, <1>12 DEF Follows, BinOf, do_hash
    <2>2. Live(r) \subseteq Live(w)
      BY <1>11
    <2> QED BY <1>3, <1>7, <1>10, <2>1, <2>2, SameChains
  <1>15. BinOf(w)[c] = b /\ b \in Bins(w)
    <2>1. BinOf(w)[c] = b
      BY <1>4, <1>7, <1>11, <1>13 DEF BinOf, do_hash, b
    <2>2. b \in Bins(r)
      BY <1>3, HashFacts DEF b
    <2> QED BY <1>8, <2>1, <2>2
  <1>16. /\ SameBut(m, w) /\ Chains(m, Live(r) \union {c}, BinOf(w))
         /\ \A x \in Live(w) : x /= c => Follows(m, x) = Follows(w, x)
    <2>1. m = Push(w, BinOf(w)[c], c) /\ BinOf(w)[c] \in Bins(w) /\ c \in Live(w) \ Live(r)
      BY <1>2, <1>10, <1>11, <1>15
    <2> QED BY <1>9, <1>14, <2>1, PushLinks
  <1>17. /\ TableType(m) /\ m.num_bins = r.num_bins /\ m.num_entries = r.num_entries + 1
         /\ Live(m) = Live(r) \union {c}
         /\ m.elem[c].key = k /\ m.elem[c].record = v
         /\ \A d \in Live(r) : m.elem[d].key = r.elem[d].key /\ m.elem[d].record = r.elem[d].record
    BY <1>4, <1>7, <1>11, <1>12, <1>13, <1>16 DEF SameBut
  <1>18. BinOf(m) = BinOf(w)
    BY <1>7, <1>11, <1>16, SameBins DEF SameBut
  <1>19. Chains(m, Live(m), BinOf(m))
    BY <1>16, <1>17, <1>18
  <1>20. OneEntryEach(m)
    BY <1>1, <1>3, <1>10, <1>17 DEF OneEntryEach, SameEntries
  <1>21. m.num_entries = Cardinality(Live(m))
    <2>1. IsFiniteSet(Live(r))
      BY <1>10, StAssumption, FS_Subset
    <2>2. Cardinality(Live(r) \union {c}) = Cardinality(Live(r)) + 1
      BY <1>10, <2>1, FS_AddElement
    <2> QED BY <1>3, <1>17, <2>2
  <1>22. m.num_entries <= MaxDensity * m.num_bins
    <2>1. MaxDensity * r.num_bins \in Nat
      BY <1>3, StAssumption
    <2> QED BY <1>1, <1>3, <1>17, <2>1 DEF HasRoom
  <1>23. \A d \in Live(r) : Follows(m, d) = Follows(r, d)
    BY <1>11, <1>12, <1>16 DEF Follows
  <1>24. m.num_bins = IF MustGrow(t) THEN Wider(t.num_bins) ELSE t.num_bins
    BY <1>1, <1>17
  <1>25. ~ MustGrow(t) => \A d \in Live(t) : Follows(m, d) = Follows(t, d)
    BY <1>1, <1>23
  <1>26. /\ TableInv(m) /\ Live(m) = Live(t) \union {c} /\ m.elem[c].key = k /\ m.elem[c].record = v
         /\ \A d \in Live(t) : m.elem[d].key = t.elem[d].key /\ m.elem[d].record = t.elem[d].record
    BY <1>1, <1>10, <1>17, <1>19, <1>20, <1>21, <1>22 DEF TableInv, SameEntries
  <1> QED BY <1>24, <1>25, <1>26

\* An entry that is freed when its place has been found.
LEMMA UnlinkKeeps ==
    ASSUME NEW t, TableInv(t), NEW c \in Live(t), NEW place \in Live(t) \union Bins(t), At(t, place) = c,
           NEW m, m = Unlink(t, place, c)
    PROVE  /\ TableInv(m) /\ Live(m) = Live(t) \ {c} /\ Bins(m) = Bins(t) /\ m.num_bins = t.num_bins
           /\ place /= c /\ At(m, place) = Follows(t, c) /\ Follows(t, c) \in Live(m) \union {NIL}
           /\ \A d \in Live(m) : Follows(m, d) = IF d = place THEN Follows(t, c) ELSE Follows(t, d)
           /\ \A d \in Live(m) : m.elem[d].key = t.elem[d].key /\ m.elem[d].record = t.elem[d].record
  <1> DEFINE r == Put(t, place, Follows(t, c))
             e == [r.elem EXCEPT ![c] = NIL]
             S == Live(t) \ {c}
  <1>1. /\ TableType(t) /\ Chains(t, Live(t), BinOf(t)) /\ OneEntryEach(t)
        /\ t.num_entries = Cardinality(Live(t)) /\ t.num_entries <= MaxDensity * t.num_bins
        /\ t.num_bins \in Nat \ {0} /\ t.num_entries \in Nat
    BY DEF TableInv, TableType
  <1>2. /\ SameBut(r, t) /\ place /= c /\ Follows(t, c) /= c
        /\ Chains(r, S, BinOf(t))
        /\ \A x \in Live(t) : Follows(r, x) = IF x = place THEN Follows(t, c) ELSE Follows(t, x)
        /\ \A b \in Bins(t) : r.bins[b] = IF b = place THEN Follows(t, c) ELSE t.bins[b]
    <2> DEFINE L == Live(t)
               bin == BinOf(t)
    <2>1. /\ TableType(t) /\ Chains(t, L, bin) /\ c \in L /\ place \in L \union Bins(t) /\ At(t, place) = c
          /\ r = Put(t, place, Follows(t, c))
      BY <1>1
    <2> HIDE DEF r, L, bin
    <2>2. /\ SameBut(r, t) /\ place /= c /\ Follows(t, c) /= c
          /\ Chains(r, L \ {c}, bin)
          /\ \A x \in Live(t) : Follows(r, x) = IF x = place THEN Follows(t, c) ELSE Follows(t, x)
          /\ \A b \in Bins(t) : r.bins[b] = IF b = place THEN Follows(t, c) ELSE t.bins[b]
      BY <2>1, CutLinks, SMTT(150)
    <2> QED BY <2>2 DEF L, bin
  <1>3. m = [r EXCEPT !.elem[c] = NIL, !.num_entries = @ - 1]
    BY DEF Unlink, Follows
  <1> HIDE DEF r
  <1>4. /\ TableType(r) /\ r.elem \in [Cell -> Entry \union {NIL}] /\ r.bins \in [Bins(t) -> Pointer]
        /\ r.num_bins = t.num_bins /\ r.num_entries = t.num_entries /\ Live(r) = Live(t) /\ Bins(r) = Bins(t)
        /\ c \in Cell
    BY <1>2 DEF SameBut, TableType, Live, Bins
  <1>5. e \in [Cell -> Entry \union {NIL}] /\ \A d \in Cell : e[d] = IF d = c THEN NIL ELSE r.elem[d]
    BY <1>4
  <1>6. m = [num_bins |-> t.num_bins, num_entries |-> t.num_entries - 1, bins |-> r.bins, elem |-> e]
    <2>1. m = [r EXCEPT !.elem = e, !.num_entries = t.num_entries - 1]
      BY <1>3, <1>4
    <2>2. r = [num_bins |-> r.num_bins, num_entries |-> r.num_entries, bins |-> r.bins, elem |-> r.elem]
      BY <1>4 DEF TableType
    <2> HIDE DEF e
    <2> QED BY <1>4, <2>1, <2>2
  <1> HIDE DEF e
  <1>7. m.num_bins = t.num_bins /\ m.num_entries = t.num_entries - 1 /\ m.bins = r.bins /\ m.elem = e
    BY <1>6
  <1>8. Bins(m) = Bins(t)
    BY <1>7 DEF Bins
  <1>9. Live(m) = S
    BY <1>4, <1>5, <1>7 DEF Live
  <1>10. \A d \in S : m.elem[d] = r.elem[d]
    BY <1>5, <1>7, <1>9 DEF Live
  <1>11. \A d \in S : m.elem[d].key = t.elem[d].key /\ m.elem[d].record = t.elem[d].record
    BY <1>2, <1>10 DEF SameBut
  <1>12. IsFiniteSet(Live(t)) /\ NIL \notin Live(t) /\ Live(t) \subseteq Cell /\ \A b \in Bins(t) : b \notin Cell
    BY <1>1, LiveFacts, StAssumption, FS_Subset DEF Bins
  <1>13. m.num_entries = Cardinality(Live(m)) /\ m.num_entries \in Nat
    <2>1. Cardinality(S) = Cardinality(Live(t)) - 1 /\ IsFiniteSet(S)
      BY <1>12, FS_RemoveElement
    <2>2. Cardinality(S) \in Nat
      BY <2>1, FS_CardinalityType
    <2> QED BY <1>1, <1>7, <1>9, <2>1, <2>2
  <1>14. TableType(m)
    BY <1>1, <1>4, <1>5, <1>6, <1>7, <1>8, <1>13 DEF TableType
  <1>15. Chains(m, S, BinOf(m))
    <2>1. \A d \in S : Follows(m, d) = Follows(r, d) /\ BinOf(m)[d] = BinOf(t)[d]
      BY <1>7, <1>9, <1>10, <1>11 DEF Follows, BinOf, do_hash
    <2>2. S \subseteq Live(m) /\ m.num_bins = r.num_bins /\ m.bins = r.bins /\ NIL \notin S
      BY <1>4, <1>7, <1>9, <1>12
    <2> HIDE DEF S
    <2> QED BY <1>2, <2>1, <2>2, SameChains
  <1>16. OneEntryEach(m)
    BY <1>1, <1>9, <1>11 DEF OneEntryEach
  <1>17. m.num_entries <= MaxDensity * m.num_bins
    <2>1. MaxDensity * t.num_bins \in Nat
      BY <1>1, StAssumption
    <2> QED BY <1>1, <1>7, <2>1
  <1>18. Follows(t, c) \in S \union {NIL}
    BY <1>1, <1>2 DEF Chains, Linked
  <1>19. At(m, place) = Follows(t, c)
    <2>1. CASE place \in Live(t)
      BY <1>2, <1>7, <1>10, <1>12, <2>1 DEF At, Follows
    <2>2. CASE place \in Bins(t)
      BY <1>2, <1>7, <1>12, <2>2 DEF At
    <2> QED BY <2>1, <2>2
  <1>20. \A d \in S : Follows(m, d) = IF d = place THEN Follows(t, c) ELSE Follows(t, d)
    BY <1>2, <1>10 DEF Follows
  <1>21. /\ Live(m) = Live(t) \ {c} /\ Follows(t, c) \in Live(m) \union {NIL}
         /\ \A d \in Live(m) : Follows(m, d) = IF d = place THEN Follows(t, c) ELSE Follows(t, d)
         /\ \A d \in Live(m) : m.elem[d].key = t.elem[d].key /\ m.elem[d].record = t.elem[d].record
    BY <1>9, <1>11, <1>18, <1>20
  <1>22. TableInv(m)
    BY <1>9, <1>13, <1>14, <1>15, <1>16, <1>17 DEF TableInv
  <1> QED BY <1>2, <1>7, <1>8, <1>19, <1>21, <1>22

LEMMA LeastFacts ==
    ASSUME NEW S, S \subseteq Nat, S /= {}
    PROVE  \E x \in S : \A y \in S : x <= y
  <1>1. PICK x \in S : \A y \in S : ~ (<<y, x>> \in OpToRel(<, Nat))
    BY NatLessThanWellFounded, WFMin
  <1>2. ASSUME NEW y \in S  PROVE x <= y
    <2>1. x \in Nat /\ y \in Nat
      OBVIOUS
    <2>2. y < x => <<y, x>> \in OpToRel(<, Nat)
      BY <2>1 DEF OpToRel
    <2>3. ~ (y < x)
      BY <1>1, <2>2
    <2> QED BY <2>1, <2>3
  <1> QED BY <1>2

\* The entry of a key, and the place that leads to it.
LEMMA FindFacts ==
    ASSUME ~ ReorderFlag, NEW t, TableInv(t), NEW k \in Key, NEW found, found = FIND_ENTRY(t, k)
    PROVE  /\ found.t = t
           /\ found.ptr = NIL => \A d \in Live(t) : t.elem[d].key /= k
           /\ found.ptr /= NIL => /\ found.ptr \in Live(t) /\ t.elem[found.ptr].key = k
                                  /\ found.last \in Live(t) \union Bins(t)
                                  /\ At(t, found.last) = found.ptr
  <1> DEFINE b == do_hash(k, t)
             chain == Chain(t, b)
             I == {j \in 1..Len(chain) : t.elem[chain[j]].key = k}
             i == IF I /= {} THEN Min(I) ELSE 0
             last == IF i = 1 THEN b ELSE chain[i - 1]
  <1>1. TableType(t) /\ Chains(t, Live(t), BinOf(t)) /\ b \in Bins(t) /\ b \notin Cell
        /\ NIL \notin Live(t) /\ Live(t) \subseteq Cell
    BY LiveFacts, HashFacts, StAssumption DEF TableInv, Bins
  <1>2. found = IF i = 0 THEN [ptr |-> NIL, last |-> NIL, t |-> t]
                ELSE [ptr |-> chain[i], last |-> last, t |-> t]
    BY DEF FIND_ENTRY, SelectInSeq
  <1> HIDE DEF b
  <1>3. /\ IsChain(t, Live(t), t.bins[b], chain)
        /\ \A c \in Live(t) : BinOf(t)[c] = b => \E j \in 1..Len(chain) : chain[j] = c
    BY <1>1, ChainOfBin
  <1> HIDE DEF chain
  <1>4. /\ Len(chain) \in Nat /\ \A j \in 1..Len(chain) : chain[j] \in Live(t)
        /\ t.bins[b] = NIL <=> Len(chain) = 0
        /\ t.bins[b] /= NIL => chain[1] = t.bins[b]
        /\ \A j \in 1..Len(chain) : Follows(t, chain[j]) = IF j = Len(chain) THEN NIL ELSE chain[j + 1]
    BY <1>3 DEF IsChain
  <1>5. CASE I = {}
    <2>1. found.ptr = NIL /\ found.t = t
      BY <1>2, <1>5
    <2>2. ASSUME NEW d \in Live(t), t.elem[d].key = k  PROVE FALSE
      <3>1. BinOf(t)[d] = b
        BY <2>2 DEF BinOf, b
      <3>2. PICK j \in 1..Len(chain) : chain[j] = d
        BY <1>3, <3>1
      <3> QED BY <1>5, <2>2, <3>2
    <2> QED BY <2>1, <2>2
  <1>6. CASE I /= {}
    <2>1. i \in I
      <3>1. I \subseteq Nat
        BY <1>4
      <3>2. \E x \in I : \A y \in I : x <= y
        BY <1>6, <3>1, LeastFacts
      <3> HIDE DEF I
      <3> QED BY <1>6, <3>2 DEF Min
    <2>2. i \in 1..Len(chain) /\ t.elem[chain[i]].key = k
      BY <2>1
    <2> HIDE DEF i
    <2>3. i /= 0 /\ chain[i] \in Live(t)
      BY <1>4, <2>2
    <2>4. found.ptr = chain[i] /\ found.last = last /\ found.t = t
      BY <1>2, <2>3
    <2>5. last \in Live(t) \union Bins(t) /\ At(t, last) = chain[i]
      <3>1. CASE i = 1
        <4>1. Len(chain) /= 0
          BY <1>4, <2>2, <3>1
        <4> QED BY <1>1, <1>4, <3>1, <4>1 DEF At
      <3>2. CASE i /= 1
        <4>1. i - 1 \in 1..Len(chain) /\ i - 1 /= Len(chain) /\ (i - 1) + 1 = i
          BY <1>4, <2>2, <3>2
        <4>2. last = chain[i - 1] /\ last \in Live(t) /\ Follows(t, last) = chain[i]
          BY <1>4, <3>2, <4>1
        <4> HIDE DEF last
        <4> QED BY <1>1, <4>2 DEF At, Follows
      <3> QED BY <3>1, <3>2
    <2> HIDE DEF last
    <2> QED BY <2>2, <2>3, <2>4, <2>5, <1>1
  <1> QED BY <1>5, <1>6

\* The copy of a table.
LEMMA CopyKeeps ==
    ASSUME NEW t, TableInv(t), NEW m, m = st_copy(t)
    PROVE  TableInv(m) /\ m.num_bins = t.num_bins /\ SameEntries(m, t)
  <1> DEFINE bin == [c \in Live(t) |-> CHOOSE b \in Bins(t) : c \in Range(Chain(t, b))]
             n == t.num_bins
             e == Emptied(t, n)
  <1>1. /\ TableType(t) /\ Chains(t, Live(t), BinOf(t)) /\ OneEntryEach(t) /\ n \in Nat \ {0}
        /\ t.num_entries = Cardinality(Live(t)) /\ t.num_entries <= MaxDensity * t.num_bins
    BY DEF TableInv, TableType
  <1>2. bin = BinOf(t)
    <2>1. ASSUME NEW c \in Live(t)
          PROVE  bin[c] = BinOf(t)[c]
      <3>1. BinOf(t)[c] \in Bins(t)
        BY <1>1 DEF Chains, Linked
      <3>2. \A b \in Bins(t) : c \in Range(Chain(t, b)) <=> BinOf(t)[c] = b
        <4>1. ASSUME NEW b \in Bins(t)
              PROVE  Range(Chain(t, b)) = {d \in Live(t) : BinOf(t)[d] = b}
          BY <1>1, ChainOfBin
        <4> QED BY <4>1
      <3>3. bin[c] = CHOOSE b \in Bins(t) : c \in Range(Chain(t, b))
        OBVIOUS
      <3> HIDE DEF bin
      <3> QED BY <3>1, <3>2, <3>3
    <2>2. bin = [c \in Live(t) |-> bin[c]] /\ BinOf(t) = [c \in Live(t) |-> BinOf(t)[c]]
      BY DEF BinOf
    <2> HIDE DEF bin
    <2> QED BY <2>1, <2>2
  <1>3. \A c \in Live(t) : bin[c] \in 0..n - 1
    <2>1. \A c \in Live(t) : BinOf(t)[c] \in Bins(t)
      BY <1>1 DEF Chains, Linked
    <2> QED BY <1>2, <2>1 DEF Bins
  <1>4. m = Moved(t, n, bin)
    BY DEF st_copy
  <1> HIDE DEF bin
  <1>5. SameBut(m, e) /\ Chains(m, Live(t), bin)
    BY <1>1, <1>3, <1>4, MovedFacts
  <1>6. e.num_bins = n /\ e.num_entries = t.num_entries /\ e.elem = t.elem /\ Live(e) = Live(t)
    BY <1>1, EmptiedFacts
  <1> HIDE DEF e
  <1>7. TableType(m) /\ m.num_bins = n /\ m.num_entries = t.num_entries /\ SameEntries(m, t)
    BY <1>5, <1>6 DEF SameBut, SameEntries
  <1>8. BinOf(m) = BinOf(t)
    BY <1>7, SameBins DEF SameEntries
  <1>9. OneEntryEach(m)
    BY <1>1, <1>7 DEF OneEntryEach, SameEntries
  <1> QED BY <1>1, <1>2, <1>5, <1>7, <1>8, <1>9 DEF TableInv, SameEntries

\* A record that is assigned.
LEMMA AssignKeeps ==
    ASSUME NEW t, TableInv(t), NEW c \in Live(t), NEW v \in Val,
           NEW m, m = [t EXCEPT !.elem[c].record = v]
    PROVE  /\ TableInv(m) /\ Live(m) = Live(t) /\ Bins(m) = Bins(t) /\ m.num_bins = t.num_bins
           /\ \A d \in Live(t) : m.elem[d].key = t.elem[d].key /\ Follows(m, d) = Follows(t, d)
           /\ m.elem[c].record = v /\ \A d \in Live(t) \ {c} : m.elem[d].record = t.elem[d].record
           /\ \A place \in Live(t) \union Bins(t) : At(m, place) = At(t, place)
  <1> DEFINE new == [key |-> t.elem[c].key, record |-> v, next |-> t.elem[c].next]
             e == [t.elem EXCEPT ![c] = new]
  <1>1. /\ TableType(t) /\ Chains(t, Live(t), BinOf(t)) /\ OneEntryEach(t)
        /\ t.num_entries = Cardinality(Live(t)) /\ t.num_entries <= MaxDensity * t.num_bins
        /\ t = [num_bins |-> t.num_bins, num_entries |-> t.num_entries, bins |-> t.bins, elem |-> t.elem]
        /\ t.num_bins \in Nat \ {0} /\ t.num_entries \in Nat /\ t.bins \in [Bins(t) -> Pointer]
        /\ t.elem \in [Cell -> Entry \union {NIL}]
    BY DEF TableInv, TableType
  <1>2. t.elem[c] \in Entry /\ c \in Cell /\ Live(t) \subseteq Cell /\ NIL \notin Live(t)
    BY <1>1, LiveFacts
  <1>3. new = [t.elem[c] EXCEPT !.record = v] /\ new \in Entry /\ new /= NIL
    BY <1>2, StAssumption DEF Entry
  <1>4. e \in [Cell -> Entry \union {NIL}] /\ \A d \in Cell : e[d] = IF d = c THEN new ELSE t.elem[d]
    BY <1>1, <1>3
  <1>5. new.key = t.elem[c].key /\ new.record = v /\ new.next = t.elem[c].next
    OBVIOUS
  <1>6. m = [num_bins |-> t.num_bins, num_entries |-> t.num_entries, bins |-> t.bins, elem |-> e]
    <2>1. m = [t EXCEPT !.elem = e]
      BY <1>1, <1>2, <1>3
    <2> HIDE DEF e
    <2> QED BY <1>1, <2>1
  <1> HIDE DEF e, new
  <1>7. m.num_bins = t.num_bins /\ m.num_entries = t.num_entries /\ m.bins = t.bins /\ m.elem = e
    BY <1>6
  <1>8. Bins(m) = Bins(t)
    BY <1>7 DEF Bins
  <1>9. Live(m) = Live(t)
    BY <1>3, <1>4, <1>7 DEF Live
  <1>10. TableType(m)
    BY <1>1, <1>4, <1>6, <1>7, <1>8 DEF TableType
  <1>11. \A d \in Live(t) : m.elem[d].key = t.elem[d].key /\ Follows(m, d) = Follows(t, d)
    BY <1>2, <1>4, <1>5, <1>7 DEF Follows
  <1>12. m.elem[c].record = v /\ \A d \in Live(t) \ {c} : m.elem[d].record = t.elem[d].record
    BY <1>2, <1>4, <1>5, <1>7
  <1>13. BinOf(m) = BinOf(t)
    BY <1>7, <1>9, <1>11, SameBins
  <1>14. Chains(m, Live(m), BinOf(m))
    BY <1>1, <1>2, <1>7, <1>9, <1>11, <1>13, SameChains
  <1>15. OneEntryEach(m)
    BY <1>1, <1>9, <1>11 DEF OneEntryEach
  <1>16. \A place \in Live(t) \union Bins(t) : At(m, place) = At(t, place)
    <2>1. \A b \in Bins(t) : b \notin Cell
      BY StAssumption DEF Bins
    <2> QED BY <1>2, <1>7, <1>11, <2>1 DEF At, Follows
  <1> QED BY <1>1, <1>7, <1>8, <1>9, <1>10, <1>11, <1>12, <1>14, <1>15, <1>16 DEF TableInv

-----------------------------------------------------------------------------
(* What the calls do to the table, the walks and the slot.                 *)

LEMMA AddStep ==
    ASSUME IInv, NEW k \in Key, NEW v \in Val \union {NIL}, NEW c \in Cell,
           \A d \in Live(table) : table.elem[d].key /= k,
           Add(table, k, v, c), slot' = slot \/ slot' = c
    PROVE  IInv'
  <1> DEFINE t == table
             m == table'
  <1>1. c \in Cell \ Live(t) /\ m = ADD_DIRECT(t, k, v, c)
    BY DEF Add
  <1>2. TableInv(t)
    BY DEF IInv
  <1> HIDE DEF m, t
  <1>3. /\ TableInv(m) /\ Live(m) = Live(t) \union {c}
        /\ \A d \in Live(t) : m.elem[d].key = t.elem[d].key
        /\ ~ MustGrow(t) => m.num_bins = t.num_bins
    BY <1>1, <1>2, AddKeeps DEF t
  <1>4. gen' \in [Gen -> Walk \union {NIL}] /\ \A g \in Gen : gen'[g] /= NIL => ComesTo(m, gen'[g])
    <2> SUFFICES ASSUME NEW g \in Gen
                 PROVE  gen'[g] \in Walk \union {NIL} /\ (gen'[g] /= NIL => ComesTo(m, gen'[g]))
      BY DEF Add
    <2> DEFINE w == gen[g]
    <2>1. gen'[g] = IF w /= NIL /\ MustGrow(t) THEN [w EXCEPT !.lost = TRUE] ELSE w
      BY DEF Add, IsOpen, t
    <2>2. w = NIL \/ ComesTo(t, w)
      BY DEF IInv, IsOpen, t
    <2> HIDE DEF w
    <2>3. ASSUME ComesTo(t, w)
          PROVE  (~ MustGrow(t) => ComesTo(m, w)) /\ ComesTo(m, [w EXCEPT !.lost = TRUE])
      <3>1. /\ w \in Walk /\ w.entry \in Live(t) \union {NIL} /\ (w.entry /= NIL => t.elem[w.entry].key /= w.given)
            /\ w.entry /= NIL /\ ~w.lost => do_hash(t.elem[w.entry].key, t) < w.index
        BY <2>3 DEF ComesTo
      <3> DEFINE u == [w EXCEPT !.lost = TRUE]
      <3>2. u \in Walk /\ u.entry = w.entry /\ u.given = w.given /\ u.lost
        BY <3>1 DEF Walk
      <3> HIDE DEF u
      <3>3. ComesTo(m, u)
        BY <1>3, <3>1, <3>2 DEF ComesTo
      <3>4. ~ MustGrow(t) => ComesTo(m, w)
        BY <1>3, <3>1 DEF ComesTo, do_hash
      <3> QED BY <3>3, <3>4 DEF u
    <2>4. ASSUME ComesTo(m, gen'[g])
          PROVE  gen'[g] \in Walk
      BY <2>4 DEF ComesTo
    <2> QED BY <2>1, <2>2, <2>3, <2>4
  <1>5. each' = NIL \/ CalledFor(m, each')
    <2>1. each' = IF each = NIL THEN NIL ELSE [each EXCEPT !.added = TRUE, !.lost = @ \/ MustGrow(t)]
      BY DEF Add, t
    <2>2. each = NIL \/ CalledFor(t, each)
      BY DEF IInv, t
    <2>3. ASSUME CalledFor(t, each)
          PROVE  CalledFor(m, [each EXCEPT !.added = TRUE, !.lost = @ \/ MustGrow(t)])
      <3>1. /\ each \in Loop /\ each.ptr \in Live(t) /\ MustGrow(t) \in BOOLEAN
            /\ ~each.lost => do_hash(t.elem[each.ptr].key, t) < each.index + 1
        BY <2>3 DEF CalledFor, MustGrow
      <3> DEFINE u == [each EXCEPT !.added = TRUE, !.lost = @ \/ MustGrow(t)]
      <3>2. u \in Loop /\ u.ptr = each.ptr /\ u.added /\ u.index = each.index
            /\ (~u.lost => ~each.lost /\ ~ MustGrow(t))
        BY <3>1 DEF Loop
      <3> HIDE DEF u
      <3>3. ~u.lost => do_hash(m.elem[u.ptr].key, m) < u.index + 1
        BY <1>3, <3>1, <3>2 DEF do_hash
      <3>4. CalledFor(m, u)
        BY <1>3, <3>1, <3>2, <3>3 DEF CalledFor
      <3> QED BY <3>4 DEF u
    <2> QED BY <2>1, <2>2, <2>3
  <1>6. slot' \in Live(m) \union {NIL}
    BY <1>3 DEF IInv, t
  <1> QED BY <1>3, <1>4, <1>5, <1>6 DEF IInv, IsOpen, m

LEMMA AssignStep ==
    ASSUME IInv, NEW v \in Val, NEW c \in Live(table),
           table' = [table EXCEPT !.elem[c].record = v], UNCHANGED <<gen, each, slot>>
    PROVE  IInv'
  <1> DEFINE t == table
             m == table'
  <1>1. TableInv(t) /\ c \in Live(t) /\ m = [t EXCEPT !.elem[c].record = v]
    BY DEF IInv
  <1> HIDE DEF m, t
  <1>2. /\ TableInv(m) /\ Live(m) = Live(t) /\ Bins(m) = Bins(t) /\ m.num_bins = t.num_bins
        /\ \A d \in Live(t) : m.elem[d].key = t.elem[d].key
        /\ \A place \in Live(t) \union Bins(t) : At(m, place) = At(t, place)
    BY <1>1, AssignKeeps
  <1>3. \A w : ComesTo(t, w) => ComesTo(m, w)
    BY <1>2 DEF ComesTo, do_hash
  <1>4. \A w : CalledFor(t, w) => CalledFor(m, w)
    BY <1>2 DEF CalledFor, do_hash
  <1> QED BY <1>2, <1>3, <1>4 DEF IInv, IsOpen, m, t

LEMMA FirstBinFacts ==
    ASSUME NEW t, TableType(t), NEW b \in Nat, NEW i, i = FirstBin(t, b)
    PROVE  i \in Nat /\ (i /= t.num_bins => i \in Bins(t) /\ t.bins[i] /= NIL)
  <1> DEFINE filled == {j \in b..t.num_bins - 1 : t.bins[j] /= NIL}
  <1>1. t.num_bins \in Nat
    BY DEF TableType
  <1>2. i = IF filled = {} THEN t.num_bins ELSE CHOOSE j \in filled : \A k \in filled : j <= k
    BY DEF FirstBin
  <1>3. filled \subseteq Nat
    BY <1>1
  <1>4. filled /= {} => i \in filled
    <2> SUFFICES ASSUME filled /= {}
                 PROVE  i \in filled
      OBVIOUS
    <2>1. \E j \in filled : \A k \in filled : j <= k
      BY <1>3, LeastFacts
    <2> HIDE DEF filled
    <2> QED BY <1>2, <2>1
  <1>5. filled = {} => i = t.num_bins
    BY <1>2
  <1> QED BY <1>1, <1>4, <1>5 DEF Bins

LEMMA CallStep ==
    ASSUME NEW t, TableInv(t), NEW name, NEW place \in Live(t) \union Bins(t), NEW b \in Nat \ {0},
           NEW lost \in BOOLEAN, CallFor(name, t, place, b, lost),
           ~lost /\ At(t, place) /= NIL => do_hash(t.elem[At(t, place)].key, t) < b
    PROVE  each' = NIL \/ CalledFor(t, each')
  <1> DEFINE there == At(t, place)
             i == IF there /= NIL THEN b - 1 ELSE FirstBin(t, b)
             ptr == IF there /= NIL THEN there ELSE t.bins[i]
             last == IF there /= NIL THEN place ELSE i
             e == [index |-> i, last |-> last, ptr |-> ptr, added |-> FALSE, lost |-> lost]
  <1>1. each' = NIL \/ (~ (there = NIL /\ i = t.num_bins) /\ each' = e)
    BY DEF CallFor
  <1>2. TableType(t) /\ Chains(t, Live(t), BinOf(t)) /\ Live(t) \subseteq Cell /\ NIL \notin Live(t)
        /\ \A j \in Bins(t) : j \notin Cell /\ j \in Nat
    BY LiveFacts, StAssumption DEF TableInv, Bins
  <1>3. there \in Live(t) \union {NIL} /\ \A j \in Bins(t) : t.bins[j] \in Live(t) \union {NIL} /\ At(t, j) = t.bins[j]
    <2>1. /\ \A j \in Bins(t) : t.bins[j] \in Live(t) \union {NIL}
          /\ \A d \in Live(t) : Follows(t, d) \in Live(t) \union {NIL}
      BY <1>2 DEF Chains, Linked
    <2> QED BY <1>2, <2>1 DEF At, Follows
  <1> DEFINE first == FirstBin(t, b)
  <1>4. first \in Nat /\ (first /= t.num_bins => first \in Bins(t) /\ t.bins[first] /= NIL)
    BY <1>2, FirstBinFacts
  <1> HIDE DEF there, first
  <1>5. ASSUME ~ (there = NIL /\ i = t.num_bins)
        PROVE  /\ i \in Nat /\ ptr \in Live(t) /\ last \in Live(t) \union Bins(t) /\ At(t, last) = ptr
               /\ ~lost => do_hash(t.elem[ptr].key, t) < i + 1
    <2>1. CASE there /= NIL
      <3>1. i = b - 1 /\ i \in Nat /\ i + 1 = b /\ ptr = there /\ last = place
        BY <2>1
      <3> HIDE DEF i, last, ptr
      <3> QED BY <1>2, <1>3, <2>1, <3>1 DEF there
    <2>2. CASE there = NIL
      <3>1. i = first /\ first /= t.num_bins /\ last = first /\ ptr = t.bins[first]
        BY <1>5, <2>2 DEF first
      <3> HIDE DEF i, last, ptr
      <3>2. i \in Nat /\ ptr \in Live(t) /\ last \in Live(t) \union Bins(t) /\ At(t, last) = ptr /\ i \in Bins(t)
        BY <1>3, <1>4, <3>1
      <3>3. BinOf(t)[ptr] = i
        BY <1>2, <1>4, <3>1, <3>2 DEF Chains, Linked
      <3>4. do_hash(t.elem[ptr].key, t) = i
        BY <3>2, <3>3 DEF BinOf
      <3> QED BY <3>2, <3>4
    <2> QED BY <2>1, <2>2
  <1> HIDE DEF i, last, ptr
  <1>6. ASSUME i \in Nat, ptr \in Live(t), last \in Live(t) \union Bins(t), At(t, last) = ptr,
               ~lost => do_hash(t.elem[ptr].key, t) < i + 1
        PROVE  CalledFor(t, e)
    <2>1. e.ptr = ptr /\ e.last = last /\ e.index = i /\ e.lost = lost /\ e \in Loop
      BY <1>2, <1>6 DEF Loop
    <2> HIDE DEF e
    <2> QED BY <1>6, <2>1 DEF CalledFor
  <1> HIDE DEF e
  <1> QED BY <1>1, <1>5, <1>6

\* What a deletion leaves alone.
LEMMA UnlinkWalks ==
    ASSUME IInv, NEW c \in Live(table), MayDelete(table.elem[c].key),
           NEW m, Live(m) = Live(table) \ {c}, m.num_bins = table.num_bins,
           \A d \in Live(m) : m.elem[d].key = table.elem[d].key
    PROVE  /\ \A g \in Gen : IsOpen(g) => ComesTo(m, gen[g])
           /\ Forgotten(c) \in Live(m) \union {NIL}
  <1>1. ASSUME NEW g \in Gen, IsOpen(g)
        PROVE  ComesTo(m, gen[g])
    <2>1. /\ gen[g] \in Walk /\ gen[g].entry \in Live(table) \union {NIL}
          /\ gen[g].entry /= NIL => table.elem[gen[g].entry].key /= gen[g].given
          /\ gen[g].entry /= NIL /\ ~gen[g].lost
               => do_hash(table.elem[gen[g].entry].key, table) < gen[g].index
      BY <1>1 DEF IInv, ComesTo
    <2>2. gen[g].given = table.elem[c].key
      BY <1>1 DEF MayDelete
    <2>3. gen[g].entry /= NIL => gen[g].entry \in Live(m)
      BY <2>1, <2>2
    <2> QED BY <2>1, <2>3 DEF ComesTo, do_hash
  <1>2. Forgotten(c) \in Live(m) \union {NIL}
    BY DEF IInv, Forgotten
  <1> QED BY <1>1, <1>2

LEMMA InitIInv == Init => IInv
  <1> SUFFICES ASSUME Init
               PROVE  IInv
    OBVIOUS
  <1> DEFINE t == st_init_table
             n == InitBins
  <1>1. n \in Nat \ {0} /\ MaxDensity \in Nat \ {0}
    BY StAssumption DEF InitBins
  <1> DEFINE bins == [b \in 0..n - 1 |-> NIL]
             elem == [c \in Cell |-> NIL]
  <1>2. t = [num_bins |-> n, num_entries |-> 0, bins |-> bins, elem |-> elem]
    BY DEF st_init_table
  <1>3. bins \in [0..n - 1 -> Pointer] /\ elem \in [Cell -> Entry \union {NIL}]
        /\ (\A b \in 0..n - 1 : bins[b] = NIL) /\ \A c \in Cell : elem[c] = NIL
    BY DEF Pointer
  <1> HIDE DEF t, n, bins, elem
  <1>4. t.num_bins = n /\ t.num_entries = 0 /\ t.bins = bins /\ t.elem = elem /\ Bins(t) = 0..n - 1
    BY <1>2 DEF Bins
  <1>5. TableType(t)
    BY <1>1, <1>2, <1>3, <1>4 DEF TableType
  <1>6. Live(t) = {}
    BY <1>3, <1>4 DEF Live
  <1>7. Chains(t, Live(t), BinOf(t))
    <2>1. Linked(t, {}, BinOf(t))
      BY <1>3, <1>4 DEF Linked
    <2>2. [c \in Cell |-> 0] \in [Cell -> Nat] /\ Ranks([c \in Cell |-> 0], t, {})
      BY DEF Ranks
    <2> QED BY <1>6, <2>1, <2>2 DEF Chains
  <1>8. t.num_entries = Cardinality(Live(t)) /\ t.num_entries <= MaxDensity * t.num_bins
    BY <1>1, <1>4, <1>6, FS_EmptySet
  <1>9. TableInv(t)
    BY <1>5, <1>6, <1>7, <1>8 DEF TableInv, OneEntryEach
  <1> QED BY <1>9 DEF Init, IInv, IsOpen, t

\* The bin of an entry, its neighbour and a chain.
LEMMA BinFacts ==
    ASSUME NEW t, TableType(t), Chains(t, Live(t), BinOf(t))
    PROVE  /\ \A c \in Live(t) : Follows(t, c) /= NIL =>
                  do_hash(t.elem[Follows(t, c)].key, t) = do_hash(t.elem[c].key, t)
           /\ \A b \in Bins(t) : t.bins[b] /= NIL => do_hash(t.elem[t.bins[b]].key, t) = b
  <1>1. /\ \A b \in Bins(t) : t.bins[b] \in Live(t) \union {NIL}
        /\ \A b \in Bins(t) : t.bins[b] /= NIL => BinOf(t)[t.bins[b]] = b
        /\ \A c \in Live(t) : Follows(t, c) \in Live(t) \union {NIL}
        /\ \A c \in Live(t) : Follows(t, c) /= NIL => BinOf(t)[Follows(t, c)] = BinOf(t)[c]
    BY DEF Chains, Linked
  <1> QED BY <1>1 DEF BinOf

LEMMA TableStep ==
    ASSUME ~ ReorderFlag, IInv, TableCall
    PROVE  IInv'
  <1> USE ~ ReorderFlag
  <1>1. TableInv(table) /\ TableType(table) /\ slot \in Live(table) \union {NIL}
    BY DEF IInv, TableInv
  <1>2. \A k \in Key :
          LET found == FIND_ENTRY(table, k)
          IN /\ found.t = table
             /\ found.ptr = NIL => \A d \in Live(table) : table.elem[d].key /= k
             /\ found.ptr /= NIL => /\ found.ptr \in Live(table) /\ table.elem[found.ptr].key = k
                                    /\ found.last \in Live(table) \union Bins(table)
                                    /\ At(table, found.last) = found.ptr
    BY <1>1, FindFacts
  <1>3. ASSUME NEW k \in Key, NEW v \in Val, NEW c \in Cell, Insert(k, v, c)
        PROVE  IInv'
    <2> DEFINE found == FIND_ENTRY(table, k)
    <2>1. CASE found.ptr = NIL
      <3>1. Add(table, k, v, c) /\ slot' = slot
        BY <1>2, <1>3, <2>1 DEF Insert
      <3> QED BY <1>2, <2>1, <3>1, AddStep
    <2>2. CASE found.ptr /= NIL
      <3>1. table' = [table EXCEPT !.elem[found.ptr].record = v] /\ UNCHANGED <<gen, each, slot>>
        BY <1>2, <1>3, <2>2 DEF Insert
      <3>2. found.ptr \in Live(table)
        BY <1>2, <2>2
      <3> HIDE DEF found
      <3> QED BY <3>1, <3>2, AssignStep
    <2> QED BY <2>1, <2>2
  <1>4. ASSUME NEW k \in Key, NEW v \in Val, NEW c \in Cell, AddDirect(k, v, c)
        PROVE  IInv'
    <2>1. Add(table, k, v, c) /\ slot' = slot /\ FIND_ENTRY(table, k).ptr = NIL
      BY <1>4 DEF AddDirect
    <2> QED BY <1>2, <2>1, AddStep
  <1>5. \A to \in Live(table) \union {NIL} : table' = table /\ gen' = gen /\ each' = each /\ slot' = to => IInv'
    BY DEF IInv, IsOpen
  <1>6. ASSUME NEW k \in Key, NEW c \in Cell, FindOrAdd(k, c)
        PROVE  IInv'
    <2> DEFINE found == FIND_ENTRY(table, k)
    <2>1. CASE found.ptr = NIL
      <3>1. Add(table, k, NIL, c) /\ slot' = c
        BY <1>2, <1>6, <2>1 DEF FindOrAdd
      <3>2. NIL \in Val \union {NIL}
        OBVIOUS
      <3> QED BY <1>2, <2>1, <3>1, <3>2, AddStep
    <2>2. CASE found.ptr /= NIL
      <3>1. table' = table /\ slot' = found.ptr /\ gen' = gen /\ each' = each
        BY <1>2, <1>6, <2>2 DEF FindOrAdd
      <3>2. found.ptr \in Live(table)
        BY <1>2, <2>2
      <3> HIDE DEF found
      <3> QED BY <1>5, <3>1, <3>2
    <2> QED BY <2>1, <2>2
  <1>7. ASSUME NEW k \in Key, Find(k)
        PROVE  IInv'
    <2> DEFINE found == FIND_ENTRY(table, k)
    <2>1. table' = table /\ gen' = gen /\ each' = each /\ (slot' = slot \/ (found.ptr /= NIL /\ slot' = found.ptr))
      BY <1>2, <1>7 DEF Find
    <2>2. slot' \in Live(table) \union {NIL}
      BY <1>1, <1>2, <2>1
    <2> HIDE DEF found
    <2> QED BY <1>5, <2>1, <2>2
  <1>8. ASSUME NEW k \in Key, Lookup(k)
        PROVE  IInv'
    <2>1. table' = table /\ gen' = gen /\ each' = each /\ slot' = slot
      BY <1>2, <1>8 DEF Lookup
    <2> QED BY <1>1, <1>5, <2>1
  <1>9. ASSUME NEW k \in Key, Delete(k)
        PROVE  IInv'
    <2> DEFINE found == FIND_ENTRY(table, k)
    <2>1. CASE found.ptr = NIL
      <3>1. table' = table /\ gen' = gen /\ each' = each /\ slot' = slot
        BY <1>9, <2>1 DEF Delete
      <3> QED BY <1>1, <1>5, <3>1
    <2>2. CASE found.ptr /= NIL
      <3> DEFINE c == found.ptr
                 last == found.last
                 m == table'
      <3>1. /\ each = NIL /\ MayDelete(k) /\ m = Unlink(table, last, c) /\ slot' = Forgotten(c)
            /\ gen' = gen /\ each' = each
        BY <1>2, <1>9, <2>2 DEF Delete
      <3>2. c \in Live(table) /\ table.elem[c].key = k /\ last \in Live(table) \union Bins(table)
            /\ At(table, last) = c
        BY <1>2, <2>2
      <3> HIDE DEF c, last, m, found
      <3>3. /\ TableInv(m) /\ Live(m) = Live(table) \ {c} /\ m.num_bins = table.num_bins
            /\ \A d \in Live(m) : m.elem[d].key = table.elem[d].key
        BY <1>1, <3>1, <3>2, UnlinkKeeps
      <3>4. /\ \A g \in Gen : IsOpen(g) => ComesTo(m, gen[g])
            /\ Forgotten(c) \in Live(m) \union {NIL}
        BY <3>1, <3>2, <3>3, UnlinkWalks
      <3> QED BY <3>1, <3>3, <3>4 DEF IInv, IsOpen, m
    <2> QED BY <2>1, <2>2
  <1>10. ASSUME NEW v \in Val, AssignSlot(v)
         PROVE  IInv'
    <2>1. slot \in Live(table) /\ table' = [table EXCEPT !.elem[slot].record = v] /\ UNCHANGED <<gen, each, slot>>
      BY <1>1, <1>10 DEF AssignSlot
    <2> QED BY <2>1, AssignStep
  <1>11. CASE Copy
    <2>1. /\ each = NIL /\ (\A g \in Gen : ~ IsOpen(g)) /\ table' = st_copy(table) /\ slot' = NIL
          /\ gen' = gen /\ each' = each
      BY <1>11 DEF Copy
    <2>2. TableInv(table')
      BY <1>1, <2>1, CopyKeeps
    <2> QED BY <2>1, <2>2 DEF IInv, IsOpen
  <1>12. \A e : e \in Loop \/ e = NIL => e \in Loop \union {NIL}
    OBVIOUS
  <1>13. (each' = NIL \/ CalledFor(table, each')) /\ table' = table /\ gen' = gen /\ slot' = slot => IInv'
    BY DEF IInv, IsOpen
  <1>14. /\ \A c \in Live(table) : Follows(table, c) /= NIL =>
               do_hash(table.elem[Follows(table, c)].key, table) = do_hash(table.elem[c].key, table)
         /\ \A b \in Bins(table) : table.bins[b] /= NIL => do_hash(table.elem[table.bins[b]].key, table) = b
    BY <1>1, BinFacts DEF TableInv
  <1>15. At(table, 0) /= NIL => do_hash(table.elem[At(table, 0)].key, table) = 0
    BY <1>1, <1>14, StAssumption DEF TableType, Bins, At
  <1>16. CASE ForEach
    <2>1. 0 \in Live(table) \union Bins(table) /\ 1 \in Nat \ {0} /\ FALSE \in BOOLEAN
      BY <1>1 DEF Bins, TableType
    <2>2. CallFor("st_foreach", table, 0, 1, FALSE) /\ table' = table /\ gen' = gen /\ slot' = slot
      BY <1>16 DEF ForEach
    <2>3. At(table, 0) /= NIL => do_hash(table.elem[At(table, 0)].key, table) < 1
      BY <1>1, <1>15, <2>1
    <2>4. each' = NIL \/ CalledFor(table, each')
      BY <1>1, <2>1, <2>2, <2>3, CallStep
    <2> QED BY <1>13, <2>2, <2>4
  <1>17. each /= NIL => /\ CalledFor(table, each) /\ each.ptr \in Live(table)
                        /\ each.index + 1 \in Nat \ {0} /\ each.lost \in BOOLEAN
                        /\ ~each.lost => do_hash(table.elem[each.ptr].key, table) < each.index + 1
    BY DEF IInv, CalledFor, Loop
  <1>18. CASE Continue
    <2>1. CallFor("ST_CONTINUE", table, each.ptr, each.index + 1, each.lost)
          /\ table' = table /\ gen' = gen /\ slot' = slot /\ each /= NIL
      BY <1>18 DEF Continue
    <2>2. each.ptr \in Live(table) \union Bins(table)
      BY <1>17, <2>1
    <2>3. ~each.lost /\ At(table, each.ptr) /= NIL
            => do_hash(table.elem[At(table, each.ptr)].key, table) < each.index + 1
      BY <1>1, <1>17, <1>14, <2>1, LiveFacts DEF At, Follows
    <2>4. each' = NIL \/ CalledFor(table, each')
      BY <1>1, <1>17, <2>1, <2>2, <2>3, CallStep
    <2> QED BY <1>13, <2>1, <2>4
  <1>19. CASE Stop
    BY <1>13, <1>19 DEF Stop
  <1>20. CASE DeleteGiven
    <2> DEFINE c == each.ptr
               last == each.last
               m == Unlink(table, last, c)
    <2>1. /\ each /= NIL /\ ~ each.added /\ MayDelete(table.elem[c].key) /\ table' = m
          /\ CallFor("ST_DELETE", m, last, each.index + 1, each.lost)
          /\ slot' = Forgotten(c) /\ gen' = gen
      BY <1>20 DEF DeleteGiven
    <2>2. c \in Live(table) /\ last \in Live(table) \union Bins(table) /\ At(table, last) = c
      BY <1>17, <2>1 DEF CalledFor
    <2>3. m = Unlink(table, last, c)
      OBVIOUS
    <2> HIDE DEF c, last, m
    <2>4. /\ TableInv(m) /\ Live(m) = Live(table) \ {c} /\ Bins(m) = Bins(table) /\ last /= c
          /\ m.num_bins = table.num_bins
          /\ At(m, last) = Follows(table, c) /\ Follows(table, c) \in Live(m) \union {NIL}
          /\ \A d \in Live(m) : m.elem[d].key = table.elem[d].key
      BY <1>1, <2>2, <2>3, UnlinkKeeps
    <2>5. /\ \A g \in Gen : IsOpen(g) => ComesTo(m, gen[g])
          /\ Forgotten(c) \in Live(m) \union {NIL}
      BY <2>1, <2>2, <2>4, UnlinkWalks
    <2>6. last \in Live(m) \union Bins(m)
      BY <2>2, <2>4
    <2>7. ~each.lost /\ At(m, last) /= NIL => do_hash(m.elem[At(m, last)].key, m) < each.index + 1
      <3>1. ~each.lost => do_hash(table.elem[c].key, table) < each.index + 1
        BY <1>17, <2>1 DEF c
      <3> QED BY <1>14, <2>2, <2>4, <3>1 DEF do_hash
    <2>8. each' = NIL \/ CalledFor(m, each')
      BY <1>17, <2>1, <2>4, <2>6, <2>7, CallStep
    <2> QED BY <2>1, <2>4, <2>5, <2>8 DEF IInv, IsOpen
  <1> QED BY <1>3, <1>4, <1>6, <1>7, <1>8, <1>9, <1>10, <1>11, <1>16, <1>18, <1>19, <1>20 DEF TableCall

LEMMA GenStep ==
    ASSUME IInv, NEW g \in Gen, GenCall(g)
    PROVE  IInv'
  <1> DEFINE t == table
  <1>1. /\ TableInv(t) /\ TableType(t) /\ Chains(t, Live(t), BinOf(t)) /\ OneEntryEach(t)
        /\ gen \in [Gen -> Walk \union {NIL}] /\ \A h \in Gen : gen[h] /= NIL => ComesTo(t, gen[h])
    BY DEF IInv, TableInv, IsOpen
  <1>2. ASSUME NEW w, w = NIL \/ ComesTo(t, w), gen' = [gen EXCEPT ![g] = w],
               table' = table, each' = each, slot' = slot
        PROVE  IInv'
    <2>1. w \in Walk \union {NIL}
      BY <1>2 DEF ComesTo
    <2>2. gen' \in [Gen -> Walk \union {NIL}] /\ \A h \in Gen : gen'[h] = IF h = g THEN w ELSE gen[h]
      BY <1>1, <1>2, <2>1
    <2> QED BY <1>1, <1>2, <2>2 DEF IInv, IsOpen
  <1>3. CASE InitGen(g)
    <2> DEFINE w == [entry |-> NIL, index |-> 0, given |-> NIL, lost |-> FALSE]
    <2>1. w \in Walk /\ w.entry = NIL
      BY DEF Walk, Pointer
    <2>2. ComesTo(t, w)
      <3> HIDE DEF w
      <3> QED BY <2>1 DEF ComesTo
    <2>3. gen' = [gen EXCEPT ![g] = w] /\ table' = table /\ each' = each /\ slot' = slot
      BY <1>3 DEF InitGen
    <2> HIDE DEF w
    <2> QED BY <1>2, <2>2, <2>3
  <1>4. CASE FreeGen(g)
    BY <1>2, <1>4, Zenon DEF FreeGen
  <1>5. CASE st_gen(g)
    <2> DEFINE fresh == gen[g].entry = NIL
               b == FirstBin(t, gen[g].index)
               e == IF fresh THEN t.bins[b] ELSE gen[g].entry
               w == [gen[g] EXCEPT !.entry = t.elem[e].next, !.given = t.elem[e].key,
                                   !.index = IF fresh THEN b + 1 ELSE @]
    <2>1. gen[g] /= NIL /\ table' = table /\ each' = each /\ slot' = slot
      BY <1>5 DEF st_gen, IsOpen
    <2>2. CASE fresh /\ b = t.num_bins
      <3>1. gen' = gen
        BY <1>5, <2>2 DEF st_gen
      <3> QED BY <2>1, <3>1 DEF IInv, IsOpen
    <2>3. CASE ~ (fresh /\ b = t.num_bins)
      <3>1. gen' = [gen EXCEPT ![g] = w]
        BY <1>5, <2>3, Zenon DEF st_gen
      <3>2. gen[g] \in Walk /\ gen[g].entry \in Live(t) \union {NIL} /\ gen[g].index \in Nat
        BY <1>1, <2>1 DEF ComesTo, Walk
      <3>3. b \in Nat /\ (b /= t.num_bins => b \in Bins(t) /\ t.bins[b] /= NIL)
        BY <1>1, <3>2, FirstBinFacts
      <3> HIDE DEF b
      <3>4. /\ \A j \in Bins(t) : t.bins[j] \in Live(t) \union {NIL}
            /\ \A d \in Live(t) : Follows(t, d) \in Live(t) \union {NIL}
            /\ NIL \notin Live(t) /\ Live(t) \subseteq Cell
        BY <1>1, LiveFacts DEF Chains, Linked
      <3>5. e \in Live(t)
        BY <2>3, <3>2, <3>3, <3>4
      <3> HIDE DEF e
      <3>6. Follows(t, e) /= e
        <4>1. PICK rank \in [Cell -> Nat] : Ranks(rank, t, Live(t))
          BY <1>1 DEF Chains
        <4>2. rank[e] \in Nat
          BY <3>4, <3>5, <4>1
        <4>3. Follows(t, e) = e => rank[e] < rank[e]
          BY <3>4, <3>5, <4>1 DEF Ranks
        <4> QED BY <4>2, <4>3
      <3>7. t.elem[e].key \in Key
        BY <1>1, <3>5, LiveFacts
      <3>8. /\ w \in Walk /\ w.entry = Follows(t, e) /\ w.given = t.elem[e].key
            /\ w.index = IF fresh THEN b + 1 ELSE gen[g].index
            /\ w.lost = gen[g].lost
        <4> DEFINE i == IF fresh THEN b + 1 ELSE gen[g].index
                   u == [entry |-> Follows(t, e), index |-> i, given |-> t.elem[e].key, lost |-> gen[g].lost]
        <4>1. gen[g] = [entry |-> gen[g].entry, index |-> gen[g].index, given |-> gen[g].given,
                        lost |-> gen[g].lost]
          BY <3>2 DEF Walk
        <4>2. w = [gen[g] EXCEPT !.entry = Follows(t, e), !.given = t.elem[e].key, !.index = i]
          BY DEF Follows
        <4>3. i \in Nat /\ Follows(t, e) \in Pointer /\ gen[g].lost \in BOOLEAN
          BY <3>2, <3>3, <3>4, <3>5 DEF Walk, Pointer
        <4> HIDE DEF w, i
        <4>4. w = u
          BY <4>1, <4>2
        <4>5. u \in Walk
          BY <3>7, <4>3 DEF Walk
        <4> QED BY <4>4, <4>5 DEF i
      <3> HIDE DEF w
      <3>9. Follows(t, e) /= NIL => t.elem[Follows(t, e)].key /= t.elem[e].key
        BY <1>1, <3>4, <3>5, <3>6 DEF OneEntryEach
      <3>10. w.entry /= NIL /\ ~w.lost => do_hash(t.elem[w.entry].key, t) < w.index
        <4>1. /\ Follows(t, e) /= NIL => do_hash(t.elem[Follows(t, e)].key, t) = do_hash(t.elem[e].key, t)
              /\ \A j \in Bins(t) : t.bins[j] /= NIL => do_hash(t.elem[t.bins[j]].key, t) = j
          BY <1>1, <3>5, BinFacts
        <4>2. CASE fresh
          <5>1. do_hash(t.elem[e].key, t) = b
            BY <2>3, <3>3, <4>1, <4>2 DEF e
          <5> QED BY <3>3, <3>8, <4>1, <4>2, <5>1
        <4>3. CASE ~ fresh
          <5>1. ~gen[g].lost => do_hash(t.elem[e].key, t) < gen[g].index
            BY <1>1, <2>1, <4>3 DEF ComesTo, e
          <5> QED BY <3>8, <4>1, <4>3, <5>1
        <4> QED BY <4>2, <4>3
      <3>11. ComesTo(t, w)
        BY <3>4, <3>5, <3>8, <3>9, <3>10 DEF ComesTo
      <3> QED BY <1>2, <2>1, <3>1, <3>11, Zenon
    <2> QED BY <2>2, <2>3
  <1> QED BY <1>3, <1>4, <1>5 DEF GenCall

LEMMA Inductive ==
    ASSUME ~ ReorderFlag, IInv, [TableCall \/ \E g \in Gen : GenCall(g)]_vars
    PROVE  IInv'
  <1>1. CASE UNCHANGED vars
    BY <1>1 DEF vars, IInv, IsOpen
  <1> QED BY <1>1, TableStep, GenStep

LEMMA IInvHolds ==
    ASSUME ~ ReorderFlag
    PROVE  Spec => []IInv
  <1>1. IInv /\ [TableCall \/ \E g \in Gen : GenCall(g)]_vars => IInv'
    BY Inductive
  <1> QED BY <1>1, InitIInv, PTL DEF Spec

-----------------------------------------------------------------------------
(* Every entry stays in one chain, once, where its key hashes to now, no   *)
(* key has two entries, and the chains are as short as the density says,   *)
(* whatever is added, deleted or copied while walks are under way.         *)
THEOREM TableStaysSound ==
    ASSUME ~ ReorderFlag
    PROVE  Spec => []TableIsSound
  <1>1. ASSUME IInv
        PROVE  TableIsSound
    <2>1. /\ TableType(table) /\ Chains(table, Live(table), BinOf(table)) /\ OneEntryEach(table)
          /\ table.num_entries = Cardinality(Live(table))
          /\ table.num_entries <= MaxDensity * table.num_bins
      BY <1>1 DEF IInv, TableInv
    <2>2. IsInjective(Entries(table)) /\ Range(Entries(table)) = Live(table)
      BY <2>1, EntriesFacts
    <2>3. ASSUME NEW b \in Bins(table), NEW c \in Range(Chain(table, b))
          PROVE  table.elem[c] \in Entry /\ do_hash(table.elem[c].key, table) = b
      <3>1. c \in Live(table) /\ BinOf(table)[c] = b
        BY <2>1, <2>3, ChainOfBin
      <3>2. table.elem[c] \in Entry
        BY <2>1, <3>1, LiveFacts
      <3> QED BY <3>1, <3>2 DEF BinOf
    <2> QED BY <2>1, <2>2, <2>3 DEF TableIsSound, OneEntryEach
  <1> QED BY <1>1, IInvHolds, PTL

(* No generator and no st_foreach comes to an entry that has been freed,   *)
(* a deletion st_foreach is asked for writes through a place that leads to *)
(* the entry it deletes, and a slot is good as long as its entry.          *)
THEOREM WalksStayLive ==
    ASSUME ~ ReorderFlag
    PROVE  Spec => []WalksAreLive
  <1>1. IInv => WalksAreLive
    BY DEF IInv, WalksAreLive, ComesTo, CalledFor
  <1> QED BY <1>1, IInvHolds, PTL

-----------------------------------------------------------------------------
(* What a walk has yet to come to.                                         *)

Reach(t, c) == Range(ChainFrom(t, c))

LEMMA ReachFacts ==
    ASSUME NEW t, TableType(t), NEW S, NEW bin, Chains(t, S, bin), NEW c \in S \union {NIL}
    PROVE  /\ Reach(t, c) \subseteq S
           /\ c = NIL => Reach(t, c) = {}
           /\ c /= NIL => c \in Reach(t, c)
           /\ \A d \in Reach(t, c) : Follows(t, d) /= NIL => Follows(t, d) \in Reach(t, c)
           /\ \A A : /\ c = NIL \/ c \in A
                     /\ \A d \in A : d \in S /\ Follows(t, d) /= NIL => Follows(t, d) \in A
                     => Reach(t, c) \subseteq A
  <1> DEFINE s == ChainFrom(t, c)
  <1>1. IsChain(t, S, c, s)
    BY ChainFacts, SMTT(60)
  <1> HIDE DEF s
  <1>2. /\ Len(s) \in Nat /\ DOMAIN s = 1..Len(s)
        /\ \A i \in 1..Len(s) : s[i] \in S
        /\ (c = NIL <=> Len(s) = 0)
        /\ c /= NIL => 1 \in 1..Len(s) /\ s[1] = c
        /\ \A i \in 1..Len(s) : Follows(t, s[i]) = IF i = Len(s) THEN NIL ELSE s[i + 1]
    BY <1>1, ZenonT(60) DEF IsChain
  <1>3. Reach(t, c) = {s[i] : i \in 1..Len(s)}
    BY <1>2, ZenonT(60) DEF Reach, Range, s
  <1>10. Len(s) \in Nat
    BY <1>2
  <1>4. \A i \in 1..Len(s) : i /= Len(s) => i + 1 \in 1..Len(s)
    BY <1>10, SMTT(60)
  <1>5. \A d \in Reach(t, c) : Follows(t, d) /= NIL => Follows(t, d) \in Reach(t, c)
    BY <1>2, <1>3, <1>4, ZenonT(60)
  <1>6. ASSUME NEW A, c = NIL \/ c \in A,
               \A d \in A : d \in S /\ Follows(t, d) /= NIL => Follows(t, d) \in A
        PROVE  Reach(t, c) \subseteq A
    <2> DEFINE T == {j \in 0..Len(s) : j + 1 \in 1..Len(s) => s[j + 1] \in A}
    <2>1. 0 \in T
      <3>1. 0 \in 0..Len(s) /\ 0 + 1 = 1
        BY <1>10
      <3>2. 1 \in 1..Len(s) => s[1] \in A
        <4>1. 1 \in 1..Len(s) => Len(s) /= 0
          BY <1>10
        <4> QED BY <1>2, <1>6, <4>1
      <3> QED BY <3>1, <3>2
    <2>2. ASSUME NEW j \in 0..Len(s), j \in T, j /= Len(s)
          PROVE  j + 1 \in T
      <3> PICK k : k = j + 1
        OBVIOUS
      <3>1. k \in 1..Len(s) /\ k \in 0..Len(s)
        <4>1. Len(s) \in Nat
          BY <1>2
        <4>2. j \in 0..Len(s) /\ j /= Len(s)
          BY <2>2
        <4> HIDE DEF T
        <4> QED BY <4>1, <4>2
      <3>2. s[k] \in A
        BY <2>2, <3>1
      <3>3. ASSUME k + 1 \in 1..Len(s)
            PROVE  s[k + 1] \in A
        <4>1. k /= Len(s)
          <5>1. Len(s) \in Nat
            BY <1>2
          <5> HIDE DEF T
          <5> QED BY <3>3, <5>1, SMTT(60)
        <4>2. Follows(t, s[k]) = s[k + 1] /\ s[k] \in S /\ s[k + 1] \in S
          BY <1>2, <3>1, <3>3, <4>1, Zenon
        <4>3. NIL \notin S
          BY LiveFacts, SMTT(60) DEF Chains, Linked
        <4> QED BY <1>6, <3>2, <4>2, <4>3
      <3> QED BY <3>1, <3>3
    <2> HIDE DEF T
    <2>3. 0..Len(s) \subseteq T
      BY <1>2, <2>1, <2>2, UpTo
    <2>4. ASSUME NEW i \in 1..Len(s)
          PROVE  s[i] \in A
      <3>1. i - 1 \in 0..Len(s) /\ (i - 1) + 1 = i
        BY <1>10
      <3>2. i - 1 \in T
        BY <2>3, <3>1, SMTT(60)
      <3> QED BY <3>1, <3>2 DEF T
    <2> QED BY <1>3, <2>4
  <1>7. Reach(t, c) \subseteq S
    BY <1>2, <1>3
  <1>8. c = NIL => Reach(t, c) = {}
    BY <1>2, <1>3, SMTT(60)
  <1>9. c /= NIL => c \in Reach(t, c)
    BY <1>2, <1>3
  <1> QED BY <1>5, <1>6, <1>7, <1>8, <1>9

LEMMA ReachStep ==
    ASSUME NEW t, TableType(t), NEW S, NEW bin, Chains(t, S, bin), NEW c \in S
    PROVE  Reach(t, c) = {c} \union Reach(t, Follows(t, c)) /\ c \notin Reach(t, Follows(t, c))
  <1> DEFINE d == Follows(t, c)
             R == Reach(t, c)
             Q == Reach(t, d)
  <1>1. d \in S \union {NIL} /\ NIL \notin S /\ S \subseteq Cell /\ \A x \in S : Follows(t, x) \in S \union {NIL}
    BY LiveFacts DEF Chains, Linked
  <1>2. /\ R \subseteq S /\ c \in R
        /\ \A x \in R : Follows(t, x) /= NIL => Follows(t, x) \in R
        /\ \A A : c \in A /\ (\A x \in A : x \in S /\ Follows(t, x) /= NIL => Follows(t, x) \in A) => R \subseteq A
    BY <1>1, ReachFacts
  <1> HIDE DEF d
  <1>3. /\ Q \subseteq S /\ (d = NIL => Q = {}) /\ (d /= NIL => d \in Q)
        /\ \A x \in Q : Follows(t, x) /= NIL => Follows(t, x) \in Q
        /\ \A A : /\ d = NIL \/ d \in A
                  /\ \A x \in A : x \in S /\ Follows(t, x) /= NIL => Follows(t, x) \in A
                  => Q \subseteq A
    BY <1>1, ReachFacts
  <1> HIDE DEF R, Q
  <1>4. R \subseteq {c} \union Q
    <2>1. \A x \in {c} \union Q : Follows(t, x) /= NIL => Follows(t, x) \in {c} \union Q
      BY <1>3 DEF d
    <2> QED BY <1>2, <2>1
  <1>5. Q \subseteq R
    <2>1. d = NIL \/ d \in R
      BY <1>2 DEF d
    <2> QED BY <1>2, <1>3, <2>1
  <1>6. c \notin Q
    <2>1. CASE d = NIL
      BY <1>3, <2>1
    <2>2. CASE d /= NIL
      <3>1. PICK rank \in [Cell -> Nat] : Ranks(rank, t, S)
        BY DEF Chains
      <3>2. \A x \in S : rank[x] \in Nat /\ (Follows(t, x) /= NIL => rank[x] < rank[Follows(t, x)])
        BY <1>1, <3>1 DEF Ranks
      <3> DEFINE A == {x \in S : rank[c] < rank[x]}
      <3>3. d \in A
        BY <1>1, <2>2, <3>2 DEF d
      <3>4. ASSUME NEW x \in A, Follows(t, x) /= NIL
            PROVE  Follows(t, x) \in A
        <4>1. x \in S /\ Follows(t, x) \in S /\ rank[x] < rank[Follows(t, x)] /\ rank[c] < rank[x]
          BY <1>1, <3>2, <3>4
        <4>2. rank[c] \in Nat /\ rank[x] \in Nat /\ rank[Follows(t, x)] \in Nat
          BY <3>2, <4>1
        <4> QED BY <4>1, <4>2
      <3>5. c \notin A
        BY <3>2
      <3> HIDE DEF A
      <3> QED BY <1>3, <3>3, <3>4, <3>5
    <2> QED BY <2>1, <2>2
  <1> QED BY <1>2, <1>4, <1>5, <1>6 DEF R, Q, d

\* The entries after one are in its bin; those of a bin are its chain.
LEMMA ReachBins ==
    ASSUME NEW t, TableType(t), NEW S, NEW bin, Chains(t, S, bin)
    PROVE  /\ \A c \in S : \A d \in Reach(t, c) : bin[d] = bin[c]
           /\ \A b \in Bins(t) : Reach(t, t.bins[b]) = {c \in S : bin[c] = b}
  <1>1. ASSUME NEW c \in S, NEW d \in Reach(t, c)
        PROVE  bin[d] = bin[c]
    <2> DEFINE A == {x \in S : bin[x] = bin[c]}
    <2>1. /\ NIL \notin S /\ \A x \in S : Follows(t, x) \in S \union {NIL}
          /\ \A x \in S : Follows(t, x) /= NIL => bin[Follows(t, x)] = bin[x]
      BY LiveFacts DEF Chains, Linked
    <2>2. \A x \in A : x \in S /\ Follows(t, x) /= NIL => Follows(t, x) \in A
      BY <2>1
    <2>3. c \in A
      OBVIOUS
    <2>4. Reach(t, c) \subseteq A
      <3> HIDE DEF A
      <3>1. c \in S \union {NIL}
        OBVIOUS
      <3> QED BY <2>2, <2>3, <3>1, ReachFacts
    <2> QED BY <1>1, <2>4
  <1>2. ASSUME NEW b \in Bins(t)
        PROVE  Reach(t, t.bins[b]) = {c \in S : bin[c] = b}
    BY ChainOfBin DEF Reach, Chain
  <1> QED BY <1>1, <1>2

\* What is reached does not change as long as the pointers do not.
LEMMA ReachSame ==
    ASSUME NEW t, TableType(t), NEW S, NEW bin, Chains(t, S, bin),
           NEW m, TableType(m), NEW L, NEW to, Chains(m, L, to), S \subseteq L,
           \A d \in S : Follows(m, d) = Follows(t, d), NEW c \in S \union {NIL}
    PROVE  Reach(m, c) = Reach(t, c)
  <1>1. /\ Reach(t, c) \subseteq S /\ (c = NIL \/ c \in Reach(t, c))
        /\ \A d \in Reach(t, c) : Follows(t, d) /= NIL => Follows(t, d) \in Reach(t, c)
        /\ \A A : /\ c = NIL \/ c \in A
                  /\ \A d \in A : d \in S /\ Follows(t, d) /= NIL => Follows(t, d) \in A
                  => Reach(t, c) \subseteq A
    BY ReachFacts
  <1>2. /\ Reach(m, c) \subseteq L /\ (c = NIL \/ c \in Reach(m, c))
        /\ \A d \in Reach(m, c) : Follows(m, d) /= NIL => Follows(m, d) \in Reach(m, c)
        /\ \A A : /\ c = NIL \/ c \in A
                  /\ \A d \in A : d \in L /\ Follows(m, d) /= NIL => Follows(m, d) \in A
                  => Reach(m, c) \subseteq A
    <2>1. c \in L \union {NIL}
      OBVIOUS
    <2> QED BY <2>1, ReachFacts
  <1>3. Reach(m, c) \subseteq Reach(t, c)
    <2>1. \A d \in Reach(t, c) : Follows(m, d) /= NIL => Follows(m, d) \in Reach(t, c)
      BY <1>1
    <2> QED BY <1>1, <1>2, <2>1
  <1>4. Reach(t, c) \subseteq Reach(m, c)
    <2>1. \A d \in Reach(m, c) : d \in S /\ Follows(t, d) /= NIL => Follows(t, d) \in Reach(m, c)
      BY <1>2
    <2> QED BY <1>1, <1>2, <2>1
  <1> QED BY <1>3, <1>4

\* The first bin that is not empty comes before the others that are not.
LEMMA FirstBinLeast ==
    ASSUME NEW t, TableType(t), NEW b \in Nat, NEW i, i = FirstBin(t, b)
    PROVE  /\ i /= t.num_bins => i \in Bins(t) /\ t.bins[i] /= NIL /\ b <= i
           /\ \A j \in Bins(t) : b <= j /\ t.bins[j] /= NIL => i /= t.num_bins /\ i <= j
  <1> DEFINE filled == {j \in b..t.num_bins - 1 : t.bins[j] /= NIL}
  <1>1. t.num_bins \in Nat /\ t.num_bins \in Int
    BY DEF TableType
  <1>2. i = IF filled = {} THEN t.num_bins ELSE CHOOSE j \in filled : \A k \in filled : j <= k
    BY DEF FirstBin
  <1>3. filled \subseteq Nat
    BY <1>1
  <1>4. filled /= {} => i \in filled /\ \A k \in filled : i <= k
    <2> SUFFICES ASSUME filled /= {}
                 PROVE  i \in filled /\ \A k \in filled : i <= k
      OBVIOUS
    <2>1. \E j \in filled : \A k \in filled : j <= k
      BY <1>3, LeastFacts
    <2> HIDE DEF filled
    <2> QED BY <1>2, <2>1
  <1>5. filled = {} => i = t.num_bins
    BY <1>2
  <1>6. i /= t.num_bins => i \in Bins(t) /\ t.bins[i] /= NIL /\ b <= i
    BY <1>1, <1>4, <1>5 DEF Bins
  <1>7. ASSUME NEW j \in Bins(t), b <= j, t.bins[j] /= NIL
        PROVE  i /= t.num_bins /\ i <= j
    <2>1. j \in filled
      BY <1>1, <1>7 DEF Bins
    <2>2. i \in filled /\ i <= j
      BY <1>4, <2>1
    <2> QED BY <1>1, <2>2
  <1> QED BY <1>6, <1>7

KeysOf(t, A) == {t.elem[c].key : c \in A}

\* The entries a walk comes to that is at c and goes on with bin b.
Pending(t, c, b) == Reach(t, c) \union {d \in Live(t) : do_hash(t.elem[d].key, t) >= b}

LEMMA InvFacts ==
    ASSUME NEW t, TableInv(t)
    PROVE  /\ TableType(t) /\ Chains(t, Live(t), BinOf(t)) /\ OneEntryEach(t)
           /\ t.num_bins \in Nat \ {0} /\ t.num_bins \in Int
           /\ Live(t) \subseteq Cell /\ NIL \notin Live(t) /\ Live(t) \intersect Bins(t) = {}
           /\ \A c \in Live(t) : /\ t.elem[c].key \in Key /\ do_hash(t.elem[c].key, t) \in Bins(t)
                                 /\ do_hash(t.elem[c].key, t) \in Nat
                                 /\ BinOf(t)[c] = do_hash(t.elem[c].key, t)
                                 /\ Follows(t, c) \in Live(t) \union {NIL}
           /\ \A b \in Bins(t) : t.bins[b] \in Live(t) \union {NIL}
           /\ \A b \in Bins(t) : b \in Nat
           /\ \A b \in Bins(t) : At(t, b) = t.bins[b]
           /\ \A c \in Live(t) : At(t, c) = Follows(t, c)
  <1>1. TableType(t) /\ Chains(t, Live(t), BinOf(t)) /\ OneEntryEach(t)
    BY DEF TableInv
  <1>2. t.num_bins \in Nat \ {0} /\ t.num_bins \in Int /\ (\A b \in Bins(t) : b \in Nat /\ b \notin Cell)
    BY <1>1, StAssumption DEF TableType, Bins
  <1>3. /\ Live(t) \subseteq Cell /\ NIL \notin Live(t) /\ Live(t) \intersect Bins(t) = {}
        /\ \A c \in Live(t) : t.elem[c].key \in Key
    BY <1>1, LiveFacts
  <1>4. \A c \in Live(t) : do_hash(t.elem[c].key, t) \in Bins(t)
    BY <1>1, <1>3, HashFacts
  <1>5. \A c \in Live(t) : BinOf(t)[c] = do_hash(t.elem[c].key, t)
    BY DEF BinOf
  <1>6. /\ \A c \in Live(t) : Follows(t, c) \in Live(t) \union {NIL}
        /\ \A b \in Bins(t) : t.bins[b] \in Live(t) \union {NIL}
    BY <1>1 DEF Chains, Linked
  <1>7. /\ \A b \in Bins(t) : At(t, b) = t.bins[b]
        /\ \A c \in Live(t) : At(t, c) = Follows(t, c)
    BY <1>2, <1>3 DEF At, Follows
  <1> QED BY <1>1, <1>2, <1>3, <1>4, <1>5, <1>6, <1>7

LEMMA PendingIn ==
    ASSUME NEW t, TableInv(t), NEW c \in Live(t) \union {NIL}, NEW b
    PROVE  Pending(t, c, b) \subseteq Live(t)
  <1>1. Reach(t, c) \subseteq Live(t)
    BY InvFacts, ReachFacts
  <1> QED BY <1>1 DEF Pending

LEMMA PendingKeys ==
    ASSUME NEW t, TableInv(t), NEW c \in Live(t) \union {NIL}, NEW b \in Nat
    PROVE  KeysOf(t, Range(ChainFrom(t, c))) \union UNION {KeysOf(t, Range(Chain(t, i))) : i \in b..t.num_bins - 1}
             = KeysOf(t, Pending(t, c, b))
  <1>1. /\ t.num_bins \in Nat \ {0} /\ t.num_bins \in Int
        /\ \A d \in Live(t) : /\ do_hash(t.elem[d].key, t) \in Bins(t)
                              /\ BinOf(t)[d] = do_hash(t.elem[d].key, t)
    BY InvFacts
  <1>2. \A i \in Bins(t) : Range(Chain(t, i)) = {d \in Live(t) : do_hash(t.elem[d].key, t) = i}
    <2>1. ASSUME NEW i \in Bins(t)
          PROVE  Range(Chain(t, i)) = {d \in Live(t) : BinOf(t)[d] = i}
      BY InvFacts, ChainOfBin
    <2> QED BY <1>1, <2>1
  <1>3. \A i \in b..t.num_bins - 1 : i \in Bins(t) /\ i >= b
    BY <1>1 DEF Bins
  <1>4. \A i \in Bins(t) : i >= b => i \in b..t.num_bins - 1
    BY <1>1 DEF Bins
  <1> DEFINE G == {d \in Live(t) : do_hash(t.elem[d].key, t) >= b}
  <1>5. UNION {KeysOf(t, Range(Chain(t, i))) : i \in b..t.num_bins - 1} = KeysOf(t, G)
    <2>1. ASSUME NEW i \in b..t.num_bins - 1
          PROVE  KeysOf(t, Range(Chain(t, i))) \subseteq KeysOf(t, G)
      <3>1. Range(Chain(t, i)) \subseteq G
        BY <1>2, <1>3
      <3> HIDE DEF G
      <3> QED BY <3>1 DEF KeysOf
    <2>2. ASSUME NEW d \in G
          PROVE  \E i \in b..t.num_bins - 1 : d \in Range(Chain(t, i))
      <3> PICK i \in Bins(t) : i = do_hash(t.elem[d].key, t)
        BY <1>1
      <3>1. i \in b..t.num_bins - 1
        BY <1>4
      <3>2. d \in Range(Chain(t, i))
        BY <1>2
      <3> QED BY <3>1, <3>2
    <2> DEFINE U == UNION {KeysOf(t, Range(Chain(t, i))) : i \in b..t.num_bins - 1}
    <2> HIDE DEF G
    <2>3. U \subseteq KeysOf(t, G)
      BY <2>1
    <2>4. ASSUME NEW x \in KeysOf(t, G)
          PROVE  x \in U
      <3>1. PICK d \in G : x = t.elem[d].key
        BY DEF KeysOf
      <3>2. PICK i \in b..t.num_bins - 1 : d \in Range(Chain(t, i))
        BY <2>2
      <3>3. x \in KeysOf(t, Range(Chain(t, i)))
        BY <3>1, <3>2 DEF KeysOf
      <3> QED BY <3>3
    <2> QED BY <2>3, <2>4
  <1>6. Pending(t, c, b) = Range(ChainFrom(t, c)) \union G
    BY DEF Pending, Reach
  <1> HIDE DEF G
  <1> QED BY <1>5, <1>6 DEF KeysOf

\* One entry less is one key less.
LEMMA KeysLess ==
    ASSUME NEW t, TableInv(t), NEW A, A \subseteq Live(t), NEW c \in Live(t)
    PROVE  KeysOf(t, A \ {c}) = KeysOf(t, A) \ {t.elem[c].key}
  <1>1. OneEntryEach(t)
    BY DEF TableInv
  <1> QED BY <1>1 DEF KeysOf, OneEntryEach

\* Entries that are added when the table does not grow.
LEMMA PendingAdd ==
    ASSUME NEW t, TableInv(t), NEW m, TableInv(m), m.num_bins = t.num_bins,
           NEW c, Live(m) = Live(t) \union {c}, c \notin Live(t),
           \A d \in Live(t) : m.elem[d].key = t.elem[d].key /\ Follows(m, d) = Follows(t, d),
           NEW p \in Live(t) \union {NIL}, NEW b
    PROVE  Pending(m, p, b) \in {Pending(t, p, b), Pending(t, p, b) \union {c}}
  <1>1. Reach(m, p) = Reach(t, p)
    <2>1. /\ TableType(t) /\ Chains(t, Live(t), BinOf(t)) /\ TableType(m) /\ Chains(m, Live(m), BinOf(m))
          /\ Live(t) \subseteq Live(m)
      BY InvFacts
    <2> QED BY <2>1, ReachSame
  <1>2. \A d \in Live(t) : do_hash(m.elem[d].key, m) = do_hash(t.elem[d].key, t)
    BY DEF do_hash
  <1> QED BY <1>1, <1>2 DEF Pending

\* Tables that differ in their records only.
LEMMA PendingSame ==
    ASSUME NEW t, TableInv(t), NEW m, TableInv(m), m.num_bins = t.num_bins, Live(m) = Live(t),
           \A d \in Live(t) : m.elem[d].key = t.elem[d].key /\ Follows(m, d) = Follows(t, d),
           NEW p \in Live(t) \union {NIL}, NEW b
    PROVE  Pending(m, p, b) = Pending(t, p, b)
  <1>1. Reach(m, p) = Reach(t, p)
    <2>1. /\ TableType(t) /\ Chains(t, Live(t), BinOf(t)) /\ TableType(m) /\ Chains(m, Live(m), BinOf(m))
          /\ Live(t) \subseteq Live(m)
      BY InvFacts
    <2> QED BY <2>1, ReachSame
  <1>2. \A d \in Live(t) : do_hash(m.elem[d].key, m) = do_hash(t.elem[d].key, t)
    BY DEF do_hash
  <1> QED BY <1>1, <1>2 DEF Pending

\* An entry that is freed.
LEMMA PendingUnlink ==
    ASSUME NEW t, TableInv(t), NEW m, TableInv(m), m.num_bins = t.num_bins,
           NEW c \in Live(t), Live(m) = Live(t) \ {c},
           NEW place \in Live(t) \union Bins(t), place /= c, At(t, place) = c,
           \A d \in Live(m) : m.elem[d].key = t.elem[d].key,
           \A d \in Live(m) : Follows(m, d) = IF d = place THEN Follows(t, c) ELSE Follows(t, d),
           NEW p \in Live(m) \union {NIL}, NEW b
    PROVE  Pending(m, p, b) = Pending(t, p, b) \ {c}
  <1>1. /\ NIL \notin Live(t) /\ Live(t) \intersect Bins(t) = {}
        /\ \A d \in Live(t) : At(t, d) = Follows(t, d) /\ Follows(t, d) \in Live(t) \union {NIL}
        /\ \A d \in Live(m) : Follows(m, d) \in Live(m) \union {NIL}
    BY InvFacts
  <1> DEFINE R == Reach(t, p)
             Q == Reach(m, p)
  <1>2. /\ R \subseteq Live(t) /\ (p = NIL \/ p \in R)
        /\ \A d \in R : Follows(t, d) /= NIL => Follows(t, d) \in R
        /\ \A A : /\ p = NIL \/ p \in A
                  /\ \A d \in A : d \in Live(t) /\ Follows(t, d) /= NIL => Follows(t, d) \in A
                  => R \subseteq A
    <2>1. p \in Live(t) \union {NIL}
      OBVIOUS
    <2> QED BY <2>1, InvFacts, ReachFacts
  <1>3. /\ Q \subseteq Live(m) /\ (p = NIL \/ p \in Q)
        /\ \A d \in Q : Follows(m, d) /= NIL => Follows(m, d) \in Q
        /\ \A A : /\ p = NIL \/ p \in A
                  /\ \A d \in A : d \in Live(m) /\ Follows(m, d) /= NIL => Follows(m, d) \in A
                  => Q \subseteq A
    BY InvFacts, ReachFacts
  <1> HIDE DEF R, Q
  <1>4. place \in Live(m) => Follows(t, place) = c
    BY <1>1
  <1>5. Q \subseteq R \ {c}
    <2> DEFINE A == R \ {c}
    <2>1. p = NIL \/ p \in A
      BY <1>1, <1>2
    <2>2. ASSUME NEW d \in A, d \in Live(m), Follows(m, d) /= NIL
          PROVE  Follows(m, d) \in A
      <3>1. Follows(m, d) \in Live(m) /\ c \notin Live(m)
        BY <1>1, <2>2
      <3>2. CASE d = place
        <4>1. Follows(t, d) = c /\ c /= NIL /\ c \in R /\ Follows(m, d) = Follows(t, c)
          BY <1>1, <1>2, <1>4, <2>2, <3>2
        <4>2. Follows(t, c) \in R
          BY <1>2, <2>2, <4>1
        <4> QED BY <3>1, <4>1, <4>2
      <3>3. CASE d /= place
        BY <1>2, <2>2, <3>1, <3>3
      <3> QED BY <3>2, <3>3
    <2> HIDE DEF A
    <2> QED BY <1>3, <2>1, <2>2 DEF A
  <1>6. R \subseteq Q \union {c}
    <2> DEFINE A == Q \union (IF place \in Q THEN {c} ELSE {})
    <2>1. p = NIL \/ p \in A
      BY <1>3
    <2>2. ASSUME NEW d \in A, d \in Live(t), Follows(t, d) /= NIL
          PROVE  Follows(t, d) \in A
      <3>1. CASE d = c /\ place \in Q
        <4>1. place \in Live(m) /\ Follows(m, place) = Follows(t, c)
          BY <1>3, <3>1
        <4> QED BY <1>3, <2>2, <3>1, <4>1
      <3>2. CASE d \in Q
        <4>1. d \in Live(m)
          BY <1>3, <3>2
        <4>2. CASE d = place
          BY <1>4, <3>2, <4>1, <4>2
        <4>3. CASE d /= place
          BY <1>3, <2>2, <3>2, <4>1, <4>3
        <4> QED BY <4>2, <4>3
      <3> QED BY <2>2, <3>1, <3>2
    <2>3. A \subseteq Q \union {c}
      OBVIOUS
    <2> HIDE DEF A
    <2> QED BY <1>2, <2>1, <2>2, <2>3
  <1>7. Q = R \ {c}
    BY <1>3, <1>5, <1>6
  <1>8. \A d \in Live(m) : do_hash(m.elem[d].key, m) = do_hash(t.elem[d].key, t)
    BY DEF do_hash
  <1> QED BY <1>7, <1>8 DEF Pending, R, Q

\* A walk gives the entry it is at, or else the first one it comes to.
LEMMA PendingFirst ==
    ASSUME NEW t, TableInv(t), NEW p \in Live(t) \union {NIL}, NEW b \in Nat,
           p /= NIL => do_hash(t.elem[p].key, t) < b, NEW i, i = FirstBin(t, b)
    PROVE  /\ p /= NIL => /\ Pending(t, p, b) = {p} \union Pending(t, Follows(t, p), b)
                          /\ p \notin Pending(t, Follows(t, p), b)
           /\ p = NIL /\ i = t.num_bins => Pending(t, p, b) = {}
           /\ p = NIL /\ i /= t.num_bins =>
                /\ t.bins[i] \in Live(t)
                /\ Pending(t, p, b) = {t.bins[i]} \union Pending(t, Follows(t, t.bins[i]), i + 1)
                /\ t.bins[i] \notin Pending(t, Follows(t, t.bins[i]), i + 1)
  <1>1. /\ TableType(t) /\ Chains(t, Live(t), BinOf(t)) /\ NIL \notin Live(t)
        /\ \A c \in Live(t) : /\ do_hash(t.elem[c].key, t) \in Bins(t)
                              /\ do_hash(t.elem[c].key, t) \in Nat
                              /\ BinOf(t)[c] = do_hash(t.elem[c].key, t)
                              /\ Follows(t, c) \in Live(t) \union {NIL}
        /\ \A j \in Bins(t) : t.bins[j] \in Live(t) \union {NIL}
        /\ \A j \in Bins(t) : j \in Nat
    BY InvFacts
  <1>2. \A c \in Live(t) : Reach(t, c) = {c} \union Reach(t, Follows(t, c)) /\ c \notin Reach(t, Follows(t, c))
    BY <1>1, ReachStep
  <1>3. ASSUME p /= NIL
        PROVE  /\ Pending(t, p, b) = {p} \union Pending(t, Follows(t, p), b)
               /\ p \notin Pending(t, Follows(t, p), b)
    <2>1. p \in Live(t) /\ ~ (do_hash(t.elem[p].key, t) >= b)
      BY <1>1, <1>3
    <2> QED BY <1>2, <2>1 DEF Pending
  <1>4. /\ i /= t.num_bins => i \in Bins(t) /\ t.bins[i] /= NIL /\ b <= i
        /\ \A j \in Bins(t) : b <= j /\ t.bins[j] /= NIL => i /= t.num_bins /\ i <= j
    BY <1>1, FirstBinLeast
  <1>5. Reach(t, NIL) = {}
    BY <1>1, ReachFacts
  <1>6. \A j \in Bins(t) : Reach(t, t.bins[j]) = {c \in Live(t) : do_hash(t.elem[c].key, t) = j}
    <2>1. \A j \in Bins(t) : Reach(t, t.bins[j]) = {c \in Live(t) : BinOf(t)[c] = j}
      BY <1>1, ReachBins
    <2> QED BY <1>1, <2>1
  <1>7. \A c \in Live(t) : t.bins[do_hash(t.elem[c].key, t)] /= NIL
    BY <1>1, <1>5, <1>6
  <1>8. ASSUME NEW c \in Live(t), do_hash(t.elem[c].key, t) >= b
        PROVE  i /= t.num_bins /\ i <= do_hash(t.elem[c].key, t)
    BY <1>1, <1>4, <1>7, <1>8
  <1>9. ASSUME p = NIL, i = t.num_bins
        PROVE  Pending(t, p, b) = {}
    BY <1>5, <1>8, <1>9 DEF Pending
  <1>10. ASSUME p = NIL, i /= t.num_bins
         PROVE  /\ t.bins[i] \in Live(t)
                /\ Pending(t, p, b) = {t.bins[i]} \union Pending(t, Follows(t, t.bins[i]), i + 1)
                /\ t.bins[i] \notin Pending(t, Follows(t, t.bins[i]), i + 1)
    <2> PICK e : e = t.bins[i]
      OBVIOUS
    <2>1. i \in Bins(t) /\ i \in Nat /\ b <= i /\ e \in Live(t)
      BY <1>1, <1>4, <1>10
    <2>2. {e} \union Reach(t, Follows(t, e)) = {c \in Live(t) : do_hash(t.elem[c].key, t) = i}
          /\ e \notin Reach(t, Follows(t, e))
      BY <1>2, <1>6, <2>1
    <2> DEFINE h == [c \in Live(t) |-> do_hash(t.elem[c].key, t)]
    <2>3. \A c \in Live(t) : h[c] = do_hash(t.elem[c].key, t) /\ h[c] \in Nat
      BY <1>1
    <2> HIDE DEF h
    <2>4. \A c \in Live(t) : h[c] >= b <=> h[c] = i \/ h[c] >= i + 1
      <3> SUFFICES ASSUME NEW c \in Live(t)
                   PROVE  h[c] >= b <=> h[c] = i \/ h[c] >= i + 1
        OBVIOUS
      <3>1. h[c] >= b => i <= h[c]
        BY <1>8, <2>3
      <3>2. h[c] \in Nat
        BY <2>3
      <3> QED BY <2>1, <3>1, <3>2
    <2>5. h[e] = i /\ ~ (h[e] >= i + 1)
      BY <2>1, <2>2, <2>3
    <2>6. Pending(t, p, b) = {c \in Live(t) : h[c] >= b}
      BY <1>5, <1>10, <2>3 DEF Pending
    <2>7. Pending(t, Follows(t, e), i + 1) = Reach(t, Follows(t, e)) \union {c \in Live(t) : h[c] >= i + 1}
      BY <2>3 DEF Pending
    <2>8. {e} \union Reach(t, Follows(t, e)) = {c \in Live(t) : h[c] = i}
      BY <2>2, <2>3
    <2> QED BY <2>1, <2>2, <2>4, <2>5, <2>6, <2>7, <2>8
  <1> QED BY <1>3, <1>9, <1>10

-----------------------------------------------------------------------------
(* The map a table stands for.                                             *)

Names(t) == KeysOf(t, Live(t))

MapIn(t) == [k \in Names(t) |-> (CHOOSE e \in Range(t.elem) : e /= NIL /\ e.key = k).record]

LEMMA MapFacts ==
    ASSUME NEW t, TableInv(t)
    PROVE  /\ Names(t) \subseteq Key
           /\ \A c \in Live(t) : t.elem[c].key \in Names(t) /\ MapIn(t)[t.elem[c].key] = t.elem[c].record
           /\ MapIn(t) = [k \in Names(t) |-> MapIn(t)[k]]
           /\ DOMAIN MapIn(t) = Names(t)
  <1>1. OneEntryEach(t) /\ t.elem \in [Cell -> Entry \union {NIL}] /\ \A c \in Live(t) : c \in Cell /\ t.elem[c].key \in Key
    BY InvFacts DEF TableType
  <1>2. Names(t) \subseteq Key /\ \A c \in Live(t) : t.elem[c].key \in Names(t)
    BY <1>1 DEF Names, KeysOf
  <1>3. ASSUME NEW c \in Live(t)
        PROVE  MapIn(t)[t.elem[c].key] = t.elem[c].record
    <2> DEFINE k == t.elem[c].key
               x == CHOOSE e \in Range(t.elem) : e /= NIL /\ e.key = k
    <2>1. t.elem[c] \in Range(t.elem) /\ t.elem[c] /= NIL
      BY <1>1 DEF Range, Live
    <2>2. ASSUME NEW e \in Range(t.elem), e /= NIL, e.key = k
          PROVE  e = t.elem[c]
      <3>1. PICK d \in Cell : e = t.elem[d]
        BY <1>1 DEF Range
      <3>2. d \in Live(t)
        BY <2>2, <3>1 DEF Live
      <3> QED BY <1>1, <2>2, <3>1, <3>2 DEF OneEntryEach
    <2>3. x = t.elem[c]
      <3>1. \E e \in Range(t.elem) : e /= NIL /\ e.key = k
        BY <2>1
      <3>2. x \in Range(t.elem) /\ x /= NIL /\ x.key = k
        BY <3>1
      <3> HIDE DEF x
      <3> QED BY <2>2, <3>2
    <2>4. MapIn(t)[k] = x.record
      BY <1>2 DEF MapIn
    <2> QED BY <2>3, <2>4
  <1>4. MapIn(t) = [k \in Names(t) |-> MapIn(t)[k]] /\ DOMAIN MapIn(t) = Names(t)
    BY DEF MapIn
  <1> QED BY <1>2, <1>3, <1>4

\* Two maps are equal when they give every key the same record.
LEMMA MapIs ==
    ASSUME NEW t, TableInv(t), NEW f, f = [k \in Names(t) |-> f[k]],
           \A c \in Live(t) : f[t.elem[c].key] = t.elem[c].record
    PROVE  MapIn(t) = f
  <1>1. \A k \in Names(t) : f[k] = MapIn(t)[k]
    <2>1. \A k \in Names(t) : \E c \in Live(t) : k = t.elem[c].key
      BY DEF Names, KeysOf
    <2> QED BY <2>1, MapFacts
  <1>2. MapIn(t) = [k \in Names(t) |-> MapIn(t)[k]]
    BY MapFacts
  <1> QED BY <1>1, <1>2

\* What an addition does to a table.
Adds(t, m, k, v, c) ==
    /\ TableInv(t) /\ TableInv(m) /\ Live(m) = Live(t) \union {c} /\ c \notin Live(t)
    /\ \A d \in Live(t) : t.elem[d].key /= k
    /\ m.elem[c].key = k /\ m.elem[c].record = v
    /\ \A d \in Live(t) : m.elem[d].key = t.elem[d].key /\ m.elem[d].record = t.elem[d].record
    /\ m.num_bins = IF MustGrow(t) THEN Wider(t.num_bins) ELSE t.num_bins
    /\ ~ MustGrow(t) => \A d \in Live(t) : Follows(m, d) = Follows(t, d)

LEMMA MapAdd ==
    ASSUME NEW t, NEW m, NEW k, NEW v, NEW c, Adds(t, m, k, v, c)
    PROVE  /\ k \notin Names(t) /\ Names(m) = Names(t) \union {k}
           /\ MapIn(m) = [i \in Names(t) \union {k} |-> IF i = k THEN v ELSE MapIn(t)[i]]
  <1>0. /\ TableInv(t) /\ TableInv(m) /\ Live(m) = Live(t) \union {c} /\ c \notin Live(t)
        /\ \A d \in Live(t) : t.elem[d].key /= k
        /\ m.elem[c].key = k /\ m.elem[c].record = v
        /\ \A d \in Live(t) : m.elem[d].key = t.elem[d].key /\ m.elem[d].record = t.elem[d].record
    BY DEF Adds
  <1>1. k \notin Names(t) /\ Names(m) = Names(t) \union {k}
    BY <1>0 DEF Names, KeysOf
  <1> DEFINE f == [i \in Names(t) \union {k} |-> IF i = k THEN v ELSE MapIn(t)[i]]
  <1>2. f = [i \in Names(m) |-> f[i]]
    BY <1>1
  <1>3. \A d \in Live(t) : t.elem[d].key \in Names(t) /\ MapIn(t)[t.elem[d].key] = t.elem[d].record
    BY <1>0, MapFacts
  <1>4. \A d \in Live(m) : f[m.elem[d].key] = m.elem[d].record
    BY <1>0, <1>1, <1>3
  <1> HIDE DEF f
  <1>5. MapIn(m) = f
    BY <1>0, <1>2, <1>4, MapIs
  <1> QED BY <1>1, <1>5 DEF f

LEMMA NamesUnlink ==
    ASSUME NEW t, TableInv(t), NEW m, NEW c \in Live(t), Live(m) = Live(t) \ {c},
           \A d \in Live(m) : m.elem[d].key = t.elem[d].key
    PROVE  Names(m) = Names(t) \ {t.elem[c].key}
  <1>1. KeysOf(t, Live(t) \ {c}) = KeysOf(t, Live(t)) \ {t.elem[c].key}
    BY KeysLess
  <1> QED BY <1>1 DEF Names, KeysOf

LEMMA MapUnlink ==
    ASSUME NEW t, TableInv(t), NEW m, TableInv(m), NEW c \in Live(t),
           Live(m) = Live(t) \ {c},
           \A d \in Live(m) : m.elem[d].key = t.elem[d].key /\ m.elem[d].record = t.elem[d].record
    PROVE  /\ Names(m) = Names(t) \ {t.elem[c].key}
           /\ MapIn(m) = [i \in Names(t) \ {t.elem[c].key} |-> MapIn(t)[i]]
  <1>1. Names(m) = Names(t) \ {t.elem[c].key}
    BY NamesUnlink
  <1> DEFINE f == [i \in Names(t) \ {t.elem[c].key} |-> MapIn(t)[i]]
  <1>2. f = [i \in Names(m) |-> f[i]]
    BY <1>1
  <1>3. \A d \in Live(t) : MapIn(t)[t.elem[d].key] = t.elem[d].record
    BY MapFacts
  <1>4. \A d \in Live(m) : m.elem[d].key \in Names(m)
    BY MapFacts
  <1>5. \A d \in Live(m) : f[m.elem[d].key] = m.elem[d].record
    BY <1>1, <1>3, <1>4
  <1> HIDE DEF f
  <1>6. MapIn(m) = f
    BY <1>2, <1>5, MapIs
  <1> QED BY <1>1, <1>6 DEF f

LEMMA MapAssign ==
    ASSUME NEW t, TableInv(t), NEW m, TableInv(m), NEW c \in Live(t), NEW v, Live(m) = Live(t),
           \A d \in Live(t) : m.elem[d].key = t.elem[d].key,
           m.elem[c].record = v, \A d \in Live(t) \ {c} : m.elem[d].record = t.elem[d].record
    PROVE  /\ Names(m) = Names(t)
           /\ MapIn(m) = [i \in Names(t) \union {t.elem[c].key} |-> IF i = t.elem[c].key THEN v ELSE MapIn(t)[i]]
  <1> DEFINE k == t.elem[c].key
  <1>1. Names(m) = Names(t) /\ k \in Names(t)
    BY MapFacts DEF Names, KeysOf
  <1> DEFINE f == [i \in Names(t) \union {k} |-> IF i = k THEN v ELSE MapIn(t)[i]]
  <1>2. f = [i \in Names(m) |-> f[i]]
    <2>1. Names(m) = Names(t) \union {k}
      BY <1>1
    <2> HIDE DEF k
    <2> QED BY <2>1
  <1>3. /\ \A d \in Live(t) : t.elem[d].key \in Names(t) /\ MapIn(t)[t.elem[d].key] = t.elem[d].record
        /\ \A d \in Live(t) : t.elem[d].key = k => d = c
    BY MapFacts DEF TableInv, OneEntryEach
  <1>4. \A d \in Live(m) : f[m.elem[d].key] = m.elem[d].record
    BY <1>1, <1>3
  <1> HIDE DEF f
  <1>5. MapIn(m) = f
    BY <1>2, <1>4, MapIs
  <1> QED BY <1>1, <1>5 DEF f

LEMMA MapSame ==
    ASSUME NEW t, TableInv(t), NEW m, TableInv(m), SameEntries(m, t)
    PROVE  MapIn(m) = MapIn(t)
  <1>1. Names(m) = Names(t)
    BY DEF Names, KeysOf, SameEntries
  <1>2. /\ \A c \in Live(t) : MapIn(t)[t.elem[c].key] = t.elem[c].record
        /\ MapIn(t) = [k \in Names(t) |-> MapIn(t)[k]]
    BY MapFacts
  <1>3. \A c \in Live(m) : MapIn(t)[m.elem[c].key] = m.elem[c].record
    BY <1>2 DEF SameEntries
  <1>4. MapIn(t) = [k \in Names(m) |-> MapIn(t)[k]]
    BY <1>1, <1>2
  <1> QED BY <1>3, <1>4, MapIs

\* The table grows when StApi says that it is full.
LEMMA FullFacts ==
    ASSUME NEW t, TableInv(t)
    PROVE  MustGrow(t) <=> Cardinality(Names(t)) >= MaxDensity * t.num_bins
  <1>1. Cardinality(Names(t)) = t.num_entries /\ t.num_entries \in Nat /\ t.num_bins \in Nat \ {0}
    <2> DEFINE f == [c \in Live(t) |-> t.elem[c].key]
    <2>1. /\ IsFiniteSet(Live(t)) /\ t.num_entries = Cardinality(Live(t)) /\ t.num_entries \in Nat
          /\ t.num_bins \in Nat \ {0} /\ OneEntryEach(t)
      BY InvFacts, StAssumption, FS_Subset DEF TableInv, TableType
    <2>2. \A c \in Live(t) : f[c] = t.elem[c].key
      OBVIOUS
    <2>3. f \in [Live(t) -> Names(t)]
      BY DEF Names, KeysOf
    <2>4. \A c, d \in Live(t) : f[c] = f[d] => c = d
      BY <2>1 DEF OneEntryEach
    <2>5. \A k \in Names(t) : \E c \in Live(t) : f[c] = k
      BY DEF Names, KeysOf
    <2> HIDE DEF f
    <2>6. f \in Bijection(Live(t), Names(t))
      BY <2>3, <2>4, <2>5 DEF Bijection, Injection, Surjection, IsInjective
    <2>7. ExistsBijection(Live(t), Names(t))
      BY <2>6 DEF ExistsBijection
    <2> QED BY <2>1, <2>7, FS_Bijection
  <1>2. \A a \in Nat, b \in Nat \ {0}, d \in Nat : a \div b >= d <=> a >= d * b
    <2> SUFFICES ASSUME NEW a \in Nat, NEW b \in Nat \ {0}, NEW d \in Nat
                 PROVE  a \div b >= d <=> a >= d * b
      OBVIOUS
    <2>1. a \div b \in Nat /\ (a \div b) * b <= a /\ a < ((a \div b) + 1) * b
      OBVIOUS
    <2> DEFINE q == a \div b
    <2>2. q \in Nat /\ q * b <= a /\ a < (q + 1) * b
      BY <2>1
    <2> HIDE DEF q
    <2>3. q >= d => a >= d * b
      BY <2>2
    <2>4. ~ (q >= d) => ~ (a >= d * b)
      <3> SUFFICES ASSUME ~ (q >= d)
                   PROVE  a < d * b
        BY <2>2
      <3>1. q + 1 <= d
        BY <2>2
      <3>2. (q + 1) * b <= d * b
        BY <2>2, <3>1
      <3> QED BY <2>2, <3>2
    <2> QED BY <2>3, <2>4 DEF q
  <1> QED BY <1>1, <1>2, StAssumption DEF MustGrow

-----------------------------------------------------------------------------
(* What StApi sees of a table, its walks and the slot.                     *)

OwedIn(t, w) == IF w = NIL THEN NIL ELSE IF w.lost THEN Lost ELSE KeysOf(t, Pending(t, w.entry, w.index))

ToCome(t, e) == IF e.lost THEN Lost ELSE KeysOf(t, Pending(t, Follows(t, e.ptr), e.index + 1))

EachIn(t, e) ==
    IF e = NIL THEN NIL ELSE [key |-> t.elem[e.ptr].key, added |-> e.added, owed |-> ToCome(t, e)]

KeyIn(t, c) == IF c = NIL THEN NIL ELSE t.elem[c].key

LEMMA Seen ==
    ASSUME IInv
    PROVE  /\ MapOf = MapIn(table)
           /\ \A g \in Gen : OwedTo(g) = OwedIn(table, gen[g])
           /\ EachOf = EachIn(table, each)
           /\ KeyOf(slot) = KeyIn(table, slot)
  <1>1. TableInv(table)
    BY DEF IInv
  <1>2. MapOf = MapIn(table)
    BY DEF MapOf, MapIn, Names, KeysOf
  <1>3. ASSUME NEW c \in Live(table) \union {NIL}, NEW b \in Nat
        PROVE  KeysFrom(c, b) = KeysOf(table, Pending(table, c, b))
    BY <1>1, PendingKeys DEF KeysFrom, KeysIn, KeysOf
  <1>4. ASSUME NEW g \in Gen
        PROVE  OwedTo(g) = OwedIn(table, gen[g])
    <2>1. gen[g] /= NIL => gen[g].entry \in Live(table) \union {NIL} /\ gen[g].index \in Nat
      BY DEF IInv, IsOpen, ComesTo, Walk
    <2> QED BY <1>3, <2>1 DEF OwedTo, OwedIn, IsOpen
  <1>5. EachOf = EachIn(table, each)
    <2>1. each /= NIL => /\ each.ptr \in Live(table) /\ each.index + 1 \in Nat
                         /\ At(table, each.ptr) = Follows(table, each.ptr)
                         /\ Follows(table, each.ptr) \in Live(table) \union {NIL}
      BY <1>1, InvFacts DEF IInv, CalledFor, Loop
    <2>2. each /= NIL => KeysFrom(At(table, each.ptr), each.index + 1)
                           = KeysOf(table, Pending(table, Follows(table, each.ptr), each.index + 1))
      BY <1>3, <2>1
    <2>3. each /= NIL => KeyOf(each.ptr) = table.elem[each.ptr].key
      BY <1>1, <2>1, InvFacts DEF KeyOf
    <2> QED BY <2>2, <2>3 DEF EachOf, EachIn, ToCome
  <1>6. KeyOf(slot) = KeyIn(table, slot)
    BY DEF KeyOf, KeyIn
  <1> QED BY <1>2, <1>4, <1>5, <1>6

LEMMA SeenNext ==
    ASSUME IInv'
    PROVE  /\ MapOf' = MapIn(table')
           /\ \A g \in Gen : OwedTo(g)' = OwedIn(table', gen'[g])
           /\ EachOf' = EachIn(table', each')
           /\ KeyOf(slot)' = KeyIn(table', slot')
  <1>1. TableInv(table')
    BY DEF IInv
  <1>2. MapOf' = MapIn(table')
    BY DEF MapOf, MapIn, Names, KeysOf
  <1>3. ASSUME NEW c \in Live(table') \union {NIL}, NEW b \in Nat
        PROVE  KeysFrom(c, b)' = KeysOf(table', Pending(table', c, b))
    BY <1>1, PendingKeys DEF KeysFrom, KeysIn, KeysOf
  <1>4. ASSUME NEW g \in Gen
        PROVE  OwedTo(g)' = OwedIn(table', gen'[g])
    <2> DEFINE w == gen'[g]
    <2>1. w /= NIL => w.entry \in Live(table') \union {NIL} /\ w.index \in Nat
      BY DEF IInv, IsOpen, ComesTo, Walk
    <2>2. w /= NIL => KeysFrom(gen[g].entry, gen[g].index)' = KeysOf(table', Pending(table', w.entry, w.index))
      BY <1>1, <2>1, PendingKeys DEF KeysFrom, KeysIn, KeysOf
    <2> QED BY <2>2 DEF OwedTo, OwedIn, IsOpen
  <1>5. EachOf' = EachIn(table', each')
    <2> DEFINE e == each'
    <2>1. e /= NIL => /\ e.ptr \in Live(table') /\ e.index + 1 \in Nat
                      /\ At(table', e.ptr) = Follows(table', e.ptr)
                      /\ Follows(table', e.ptr) \in Live(table') \union {NIL}
      BY <1>1, InvFacts DEF IInv, CalledFor, Loop
    <2>2. e /= NIL => KeysFrom(At(table, each.ptr), each.index + 1)'
                        = KeysOf(table', Pending(table', Follows(table', e.ptr), e.index + 1))
      BY <1>1, <2>1, PendingKeys DEF KeysFrom, KeysIn, KeysOf
    <2>3. e /= NIL => KeyOf(each.ptr)' = table'.elem[e.ptr].key
      BY <1>1, <2>1, InvFacts DEF KeyOf
    <2> QED BY <2>2, <2>3 DEF EachOf, EachIn, ToCome
  <1>6. KeyOf(slot)' = KeyIn(table', slot')
    BY DEF KeyOf, KeyIn
  <1> QED BY <1>2, <1>4, <1>5, <1>6

\* A walk that has not lost its place owes a set of keys.
LEMMA OwedFacts ==
    ASSUME NEW t, TableInv(t), NEW w, ComesTo(t, w)
    PROVE  /\ w /= NIL /\ OwedIn(t, w) /= NIL
           /\ w.lost => OwedIn(t, w) = Lost
           /\ ~w.lost => /\ OwedIn(t, w) = KeysOf(t, Pending(t, w.entry, w.index))
                         /\ OwedIn(t, w) /= Lost /\ OwedIn(t, w) \subseteq Names(t)
  <1>1. w \in Walk /\ w.entry \in Live(t) \union {NIL} /\ w /= NIL
    BY StAssumption DEF ComesTo
  <1>2. Pending(t, w.entry, w.index) \subseteq Live(t)
    BY <1>1, PendingIn
  <1>3. KeysOf(t, Pending(t, w.entry, w.index)) \subseteq Names(t) /\ Names(t) \subseteq Key
    BY <1>2, MapFacts DEF KeysOf, Names
  <1>4. KeysOf(t, Pending(t, w.entry, w.index)) \in SUBSET Key
    BY <1>3
  <1> QED BY <1>1, <1>3, <1>4, LostAssumption DEF OwedIn

LEMMA ToComeFacts ==
    ASSUME NEW t, TableInv(t), NEW e, CalledFor(t, e)
    PROVE  /\ e /= NIL /\ EachIn(t, e) /= NIL
           /\ EachIn(t, e) = [key |-> t.elem[e.ptr].key, added |-> e.added, owed |-> ToCome(t, e)]
           /\ t.elem[e.ptr].key \in Names(t) /\ e.added \in BOOLEAN /\ e.lost \in BOOLEAN
           /\ e.lost => ToCome(t, e) = Lost
           /\ ~e.lost => /\ ToCome(t, e) = KeysOf(t, Pending(t, Follows(t, e.ptr), e.index + 1))
                         /\ ToCome(t, e) /= Lost /\ ToCome(t, e) \subseteq Names(t)
  <1> DEFINE K == KeysOf(t, Pending(t, Follows(t, e.ptr), e.index + 1))
  <1>1. e \in Loop /\ e.ptr \in Live(t) /\ e /= NIL /\ e.added \in BOOLEAN /\ e.lost \in BOOLEAN
    BY StAssumption DEF CalledFor, Loop
  <1>2. Follows(t, e.ptr) \in Live(t) \union {NIL}
    BY <1>1, InvFacts
  <1>3. Pending(t, Follows(t, e.ptr), e.index + 1) \subseteq Live(t)
    BY <1>2, PendingIn
  <1>4. K \subseteq Names(t) /\ Names(t) \subseteq Key /\ t.elem[e.ptr].key \in Names(t)
    BY <1>1, <1>3, MapFacts DEF KeysOf, Names
  <1>5. K \in SUBSET Key
    BY <1>4
  <1> DEFINE f == [key |-> t.elem[e.ptr].key, added |-> e.added, owed |-> ToCome(t, e)]
  <1>6. EachIn(t, e) = f
    BY <1>1 DEF EachIn
  <1>7. (e.lost => ToCome(t, e) = Lost) /\ (~e.lost => ToCome(t, e) = K)
    BY DEF ToCome
  <1> HIDE DEF K
  <1>8. f \in [key : Key, added : BOOLEAN, owed : (SUBSET Key) \union {Lost}]
    BY <1>1, <1>4, <1>5, <1>7
  <1>9. f /= NIL
    BY <1>8, LostAssumption
  <1>10. ~e.lost => K /= Lost
    BY <1>5, LostAssumption
  <1> HIDE DEF f
  <1> QED BY <1>1, <1>4, <1>6, <1>7, <1>9, <1>10 DEF K, f

-----------------------------------------------------------------------------
(* An entry that is added, in terms of StApi.                              *)

MayOwe(keys, k, full) == IF full \/ keys = Lost THEN {Lost} ELSE {keys, keys \union {k}}

LEMMA KeysAdd ==
    ASSUME NEW t, NEW m, NEW k, NEW v, NEW c, Adds(t, m, k, v, c), ~ MustGrow(t),
           NEW p \in Live(t) \union {NIL}, NEW b
    PROVE  KeysOf(m, Pending(m, p, b)) \in {KeysOf(t, Pending(t, p, b)), KeysOf(t, Pending(t, p, b)) \union {k}}
  <1>1. /\ TableInv(t) /\ TableInv(m) /\ Live(m) = Live(t) \union {c} /\ c \notin Live(t) /\ m.elem[c].key = k
        /\ m.num_bins = t.num_bins
        /\ \A d \in Live(t) : m.elem[d].key = t.elem[d].key
        /\ \A d \in Live(t) : m.elem[d].key = t.elem[d].key /\ Follows(m, d) = Follows(t, d)
    BY DEF Adds
  <1>2. Pending(m, p, b) \in {Pending(t, p, b), Pending(t, p, b) \union {c}}
    BY <1>1, PendingAdd
  <1>3. Pending(t, p, b) \subseteq Live(t)
    BY <1>1, PendingIn
  <1> DEFINE P == Pending(t, p, b)
  <1>4. KeysOf(m, P) = KeysOf(t, P) /\ KeysOf(m, P \union {c}) = KeysOf(t, P) \union {k}
    <2> HIDE DEF P
    <2>1. P \subseteq Live(t)
      BY <1>3 DEF P
    <2> QED BY <1>1, <2>1 DEF KeysOf
  <1> QED BY <1>2, <1>4

LEMMA OwedAdd ==
    ASSUME NEW t, NEW m, NEW k, NEW v, NEW c, Adds(t, m, k, v, c), NEW w, w = NIL \/ ComesTo(t, w),
           NEW u, u = IF w /= NIL /\ MustGrow(t) THEN [w EXCEPT !.lost = TRUE] ELSE w
    PROVE  IF OwedIn(t, w) = NIL THEN OwedIn(m, u) = NIL
           ELSE OwedIn(m, u) \in MayOwe(OwedIn(t, w), k, MustGrow(t))
  <1>1. TableInv(t) /\ TableInv(m)
    BY DEF Adds
  <1>2. CASE w = NIL
    BY <1>2 DEF OwedIn
  <1>3. CASE ComesTo(t, w)
    <2>1. /\ w /= NIL /\ OwedIn(t, w) /= NIL
          /\ w.lost => OwedIn(t, w) = Lost
          /\ ~w.lost => /\ OwedIn(t, w) = KeysOf(t, Pending(t, w.entry, w.index))
                        /\ OwedIn(t, w) /= Lost
      BY <1>1, <1>3, OwedFacts
    <2>2. w \in Walk /\ w.entry \in Live(t) \union {NIL} /\ w.lost \in BOOLEAN
      BY <1>3 DEF ComesTo, Walk
    <2>3. CASE MustGrow(t)
      <3>1. u \in Walk /\ u.lost
        BY <2>1, <2>2, <2>3 DEF Walk
      <3>2. OwedIn(m, u) = Lost
        BY <3>1, StAssumption DEF OwedIn
      <3> QED BY <2>1, <2>3, <3>2 DEF MayOwe
    <2>4. CASE ~ MustGrow(t)
      <3>1. u = w
        BY <2>4
      <3>2. w.lost => OwedIn(m, w) = Lost
        BY <2>1 DEF OwedIn
      <3>3. ~w.lost => OwedIn(m, w) = KeysOf(m, Pending(m, w.entry, w.index))
        BY <2>1 DEF OwedIn
      <3>4. KeysOf(m, Pending(m, w.entry, w.index))
              \in {KeysOf(t, Pending(t, w.entry, w.index)), KeysOf(t, Pending(t, w.entry, w.index)) \union {k}}
        BY <2>2, <2>4, KeysAdd
      <3> QED BY <2>1, <2>4, <3>1, <3>2, <3>3, <3>4 DEF MayOwe
    <2> QED BY <2>3, <2>4
  <1> QED BY <1>2, <1>3

AfterAdding(e, full) == IF e = NIL THEN NIL ELSE [e EXCEPT !.added = TRUE, !.lost = @ \/ full]

Adding(f, h, k, full) ==
    IF f = NIL THEN h = NIL
    ELSE \E keys \in MayOwe(f.owed, k, full) : h = [f EXCEPT !.owed = keys, !.added = TRUE]

LEMMA EachAdd ==
    ASSUME NEW t, NEW m, NEW k, NEW v, NEW c, Adds(t, m, k, v, c), NEW e, e = NIL \/ CalledFor(t, e),
           NEW u, u = AfterAdding(e, MustGrow(t))
    PROVE  Adding(EachIn(t, e), EachIn(m, u), k, MustGrow(t))
  <1>1. TableInv(t) /\ TableInv(m)
    BY DEF Adds
  <1>2. CASE e = NIL
    BY <1>2 DEF EachIn, Adding, AfterAdding
  <1>3. CASE CalledFor(t, e)
    <2>1. /\ e /= NIL /\ EachIn(t, e) /= NIL
          /\ EachIn(t, e) = [key |-> t.elem[e.ptr].key, added |-> e.added, owed |-> ToCome(t, e)]
          /\ e.lost => ToCome(t, e) = Lost
          /\ ~e.lost => /\ ToCome(t, e) = KeysOf(t, Pending(t, Follows(t, e.ptr), e.index + 1))
                        /\ ToCome(t, e) /= Lost
      BY <1>1, <1>3, ToComeFacts
    <2>2. e \in Loop /\ e.ptr \in Live(t) /\ e.lost \in BOOLEAN /\ MustGrow(t) \in BOOLEAN
      BY <1>3 DEF CalledFor, Loop, MustGrow
    <2>3. u \in Loop /\ u.ptr = e.ptr /\ u.index = e.index /\ u.added = TRUE /\ u.lost = (e.lost \/ MustGrow(t))
      BY <2>1, <2>2 DEF Loop, AfterAdding
    <2>4. u /= NIL
      BY <2>3, StAssumption
    <2>5. EachIn(m, u) = [key |-> m.elem[e.ptr].key, added |-> TRUE, owed |-> ToCome(m, u)]
      BY <2>3, <2>4 DEF EachIn
    <2>6. m.elem[e.ptr].key = t.elem[e.ptr].key
      BY <2>2 DEF Adds
    <2>7. ToCome(m, u) \in MayOwe(ToCome(t, e), k, MustGrow(t))
      <3>1. CASE MustGrow(t) \/ e.lost
        <4>1. ToCome(m, u) = Lost
          BY <2>3, <3>1 DEF ToCome
        <4> QED BY <2>1, <3>1, <4>1 DEF MayOwe
      <3>2. CASE ~ (MustGrow(t) \/ e.lost)
        <4>1. ToCome(m, u) = KeysOf(m, Pending(m, Follows(m, e.ptr), e.index + 1))
          BY <2>3, <3>2 DEF ToCome
        <4>2. Follows(m, e.ptr) = Follows(t, e.ptr) /\ Follows(t, e.ptr) \in Live(t) \union {NIL}
          BY <1>1, <2>2, <3>2, InvFacts DEF Adds
        <4>3. KeysOf(m, Pending(m, Follows(t, e.ptr), e.index + 1))
                \in {KeysOf(t, Pending(t, Follows(t, e.ptr), e.index + 1)),
                     KeysOf(t, Pending(t, Follows(t, e.ptr), e.index + 1)) \union {k}}
          BY <3>2, <4>2, KeysAdd
        <4> QED BY <2>1, <3>2, <4>1, <4>2, <4>3 DEF MayOwe
      <3> QED BY <3>1, <3>2
    <2> DEFINE f == EachIn(t, e)
               h == EachIn(m, u)
               new == ToCome(m, u)
               old == ToCome(t, e)
               x == t.elem[e.ptr].key
               a == e.added
    <2>8. f = [key |-> x, added |-> a, owed |-> old] /\ h = [key |-> x, added |-> TRUE, owed |-> new] /\ f /= NIL
      BY <2>1, <2>5, <2>6
    <2> HIDE DEF f, h, new, old, x, a
    <2>9. h = [f EXCEPT !.owed = new, !.added = TRUE] /\ f.owed = old
      <3>1. f = [key |-> x, added |-> a, owed |-> old]
        BY <2>8, Zenon
      <3>2. f.owed = old
            /\ \A b : [f EXCEPT !.owed = new, !.added = b] = [key |-> x, added |-> b, owed |-> new]
        <4> SUFFICES ASSUME NEW b
                     PROVE  /\ f.owed = old
                            /\ [f EXCEPT !.owed = new, !.added = b] = [key |-> x, added |-> b, owed |-> new]
          OBVIOUS
        <4> DEFINE one == [f EXCEPT !.owed = new]
        <4>1. [f EXCEPT !.owed = new, !.added = b] = [one EXCEPT !.added = b]
          OBVIOUS
        <4>2. one = [key |-> x, added |-> a, owed |-> new]
          BY <3>1
        <4> HIDE DEF one
        <4> QED BY <3>1, <4>1, <4>2
      <3> QED BY <2>8, <3>2, Zenon
    <2>10. new \in MayOwe(f.owed, k, MustGrow(t))
      BY <2>7, <2>9 DEF new, old
    <2>11. Adding(f, h, k, MustGrow(t))
      BY <2>8, <2>9, <2>10 DEF Adding
    <2> QED BY <2>11 DEF f, h
  <1> QED BY <1>2, <1>3

LEMMA ApiAdd ==
    ASSUME IInv, IInv', NEW k \in Key, NEW v \in Val \union {NIL}, NEW c \in Cell,
           \A d \in Live(table) : table.elem[d].key /= k, Add(table, k, v, c)
    PROVE  Api!Add(k, v) /\ KeyIn(table', c) = k /\ c /= NIL
           /\ KeyIn(table', slot) = KeyIn(table, slot)
  <1> DEFINE t == table
             m == table'
             full == MustGrow(t)
  <1>1. TableInv(t) /\ TableInv(m) /\ c \in Cell \ Live(t) /\ m = ADD_DIRECT(t, k, v, c)
        /\ \A d \in Live(t) : t.elem[d].key /= k
    BY DEF IInv, Add
  <1>2. Adds(t, m, k, v, c)
    <2> HIDE DEF t, m
    <2> QED BY <1>1, AddKeeps DEF Adds
  <1>3. /\ k \notin Names(t) /\ Names(m) = Names(t) \union {k}
        /\ MapIn(m) = [i \in Names(t) \union {k} |-> IF i = k THEN v ELSE MapIn(t)[i]]
    <2> HIDE DEF t, m
    <2> QED BY <1>2, MapAdd
  <1>4. full <=> Cardinality(Names(t)) >= MaxDensity * t.num_bins
    BY <1>1, FullFacts
  <1>5. ASSUME NEW g \in Gen
        PROVE  IF OwedIn(t, gen[g]) = NIL THEN OwedIn(m, gen'[g]) = NIL
               ELSE OwedIn(m, gen'[g]) \in MayOwe(OwedIn(t, gen[g]), k, full)
    <2> DEFINE w == gen[g]
               u == gen'[g]
    <2>1. w = NIL \/ ComesTo(t, w)
      BY DEF IInv, IsOpen
    <2>2. u = IF w /= NIL /\ MustGrow(t) THEN [w EXCEPT !.lost = TRUE] ELSE w
      BY DEF Add, IsOpen
    <2> HIDE DEF t, m, w, u
    <2>3. IF OwedIn(t, w) = NIL THEN OwedIn(m, u) = NIL
          ELSE OwedIn(m, u) \in MayOwe(OwedIn(t, w), k, MustGrow(t))
      BY <1>2, <2>1, <2>2, OwedAdd
    <2> QED BY <2>3 DEF w, u
  <1>6. Adding(EachIn(t, each), EachIn(m, each'), k, full)
    <2> DEFINE u == each'
               e == each
    <2>1. e = NIL \/ CalledFor(t, e)
      BY DEF IInv
    <2>2. u = AfterAdding(e, MustGrow(t))
      BY DEF Add, AfterAdding
    <2> HIDE DEF t, m, u, e
    <2>3. Adding(EachIn(t, e), EachIn(m, u), k, MustGrow(t))
      BY <1>2, <2>1, <2>2, EachAdd
    <2> QED BY <2>3 DEF u, e
  <1>7. m.num_bins = IF full THEN Wider(t.num_bins) ELSE t.num_bins
    BY <1>2 DEF Adds
  <1>8. /\ MapOf = MapIn(t) /\ MapOf' = MapIn(m) /\ EachOf = EachIn(t, each) /\ EachOf' = EachIn(m, each')
        /\ \A g \in Gen : OwedTo(g) = OwedIn(t, gen[g]) /\ OwedTo(g)' = OwedIn(m, gen'[g])
    BY Seen, SeenNext
  <1>9. DOMAIN MapOf = Names(t)
    BY <1>1, <1>8, MapFacts
  <1>10. Api!Full <=> full
    <2>1. Api!Keys = Names(t)
      BY <1>9 DEF Api!Keys
    <2>2. Api!Full <=> Cardinality(Api!Keys) >= MaxDensity * t.num_bins
      BY DEF Api!Full, Api!Cardinality, Cardinality
    <2> HIDE DEF full, t
    <2> QED BY <1>4, <2>1, <2>2
  <1>11. Api!Grown = Wider(t.num_bins)
    BY DEF Api!Grown, Wider
  <1>12. \A keys : Api!OwedAfter(keys, k) = MayOwe(keys, k, full)
    BY <1>10 DEF Api!OwedAfter, MayOwe
  <1>13. k \notin Api!Keys /\ Api!Set(k, v)
    BY <1>3, <1>8, <1>9 DEF Api!Keys, Api!Set
  <1> HIDE DEF full, t, m
  <1>14. /\ DOMAIN [g \in Gen |-> OwedTo(g)]' = Gen
         /\ \A g \in Gen : IF [h \in Gen |-> OwedTo(h)][g] = NIL THEN [h \in Gen |-> OwedTo(h)]'[g] = NIL
                           ELSE [h \in Gen |-> OwedTo(h)]'[g] \in Api!OwedAfter([h \in Gen |-> OwedTo(h)][g], k)
    BY <1>5, <1>8, <1>12
  <1>15. IF EachOf = NIL THEN EachOf' = NIL
         ELSE \E keys \in Api!OwedAfter(EachOf.owed, k) : EachOf' = [EachOf EXCEPT !.owed = keys, !.added = TRUE]
    <2>1. Adding(EachOf, EachOf', k, full)
      BY <1>6, <1>8
    <2> QED BY <1>12, <2>1, ZenonT(60) DEF Adding
  <1>16. Api!Add(k, v)
    BY <1>7, <1>10, <1>11, <1>13, <1>14, <1>15 DEF Api!Add, t, m
  <1>17. KeyIn(m, c) = k /\ c /= NIL
    BY <1>1, <1>2, StAssumption DEF KeyIn, Adds
  <1>18. KeyIn(m, slot) = KeyIn(t, slot)
    BY <1>2 DEF KeyIn, Adds, IInv, t
  <1> QED BY <1>16, <1>17, <1>18 DEF t, m

-----------------------------------------------------------------------------
(* The other changes, in terms of StApi.                                   *)

\* What StApi sees before and after a step.
LEMMA SeenStep ==
    ASSUME IInv, IInv'
    PROVE  /\ TableInv(table) /\ TableInv(table')
           /\ MapOf = MapIn(table) /\ MapOf' = MapIn(table') /\ DOMAIN MapOf = Names(table)
           /\ [g \in Gen |-> OwedTo(g)] = [g \in Gen |-> OwedIn(table, gen[g])]
           /\ [g \in Gen |-> OwedTo(g)]' = [g \in Gen |-> OwedIn(table', gen'[g])]
           /\ EachOf = EachIn(table, each) /\ EachOf' = EachIn(table', each')
           /\ KeyOf(slot) = KeyIn(table, slot) /\ KeyOf(slot)' = KeyIn(table', slot')
  <1>1. TableInv(table) /\ TableInv(table')
    BY DEF IInv
  <1>2. /\ MapOf = MapIn(table) /\ MapOf' = MapIn(table')
        /\ \A g \in Gen : OwedTo(g) = OwedIn(table, gen[g]) /\ OwedTo(g)' = OwedIn(table', gen'[g])
        /\ EachOf = EachIn(table, each) /\ EachOf' = EachIn(table', each')
        /\ KeyOf(slot) = KeyIn(table, slot) /\ KeyOf(slot)' = KeyIn(table', slot')
    BY Seen, SeenNext
  <1>3. DOMAIN MapOf = Names(table)
    BY <1>1, <1>2, MapFacts
  <1> QED BY <1>1, <1>2, <1>3

LEMMA SeenSame ==
    ASSUME NEW t, TableInv(t), NEW m, TableInv(m), m.num_bins = t.num_bins, Live(m) = Live(t),
           \A d \in Live(t) : m.elem[d].key = t.elem[d].key /\ Follows(m, d) = Follows(t, d)
    PROVE  /\ \A w : w = NIL \/ ComesTo(t, w) => OwedIn(m, w) = OwedIn(t, w)
           /\ \A e : e = NIL \/ CalledFor(t, e) => EachIn(m, e) = EachIn(t, e)
           /\ \A c \in Live(t) \union {NIL} : KeyIn(m, c) = KeyIn(t, c)
  <1>1. ASSUME NEW p \in Live(t) \union {NIL}, NEW b
        PROVE  KeysOf(m, Pending(m, p, b)) = KeysOf(t, Pending(t, p, b))
    <2> DEFINE P == Pending(t, p, b)
    <2>1. Pending(m, p, b) = P /\ P \subseteq Live(t)
      BY PendingSame, PendingIn
    <2> HIDE DEF P
    <2> QED BY <2>1 DEF KeysOf, P
  <1>2. ASSUME NEW w, w = NIL \/ ComesTo(t, w)
        PROVE  OwedIn(m, w) = OwedIn(t, w)
    <2>1. w /= NIL => w.entry \in Live(t) \union {NIL}
      BY <1>2 DEF ComesTo
    <2> QED BY <1>1, <2>1 DEF OwedIn
  <1>3. ASSUME NEW e, e = NIL \/ CalledFor(t, e)
        PROVE  EachIn(m, e) = EachIn(t, e)
    <2>1. e /= NIL => /\ e.ptr \in Live(t) /\ Follows(t, e.ptr) \in Live(t) \union {NIL}
                      /\ Follows(m, e.ptr) = Follows(t, e.ptr) /\ m.elem[e.ptr].key = t.elem[e.ptr].key
      BY <1>3, InvFacts DEF CalledFor
    <2>2. e /= NIL => ToCome(m, e) = ToCome(t, e)
      BY <1>1, <2>1 DEF ToCome
    <2> QED BY <2>1, <2>2 DEF EachIn
  <1>4. \A c \in Live(t) \union {NIL} : KeyIn(m, c) = KeyIn(t, c)
    BY DEF KeyIn
  <1> QED BY <1>2, <1>3, <1>4

LEMMA ApiReplace ==
    ASSUME IInv, IInv', NEW v \in Val, NEW c \in Live(table),
           table' = [table EXCEPT !.elem[c].record = v], UNCHANGED <<gen, each, slot>>
    PROVE  Api!Replace(table.elem[c].key, v) /\ UNCHANGED KeyOf(slot)
  <1> DEFINE t == table
             m == table'
             k == t.elem[c].key
  <1>1. TableInv(t) /\ TableInv(m) /\ c \in Live(t) /\ m = [t EXCEPT !.elem[c].record = v]
    BY SeenStep
  <1>2. /\ (\A g \in Gen : gen[g] = NIL \/ ComesTo(t, gen[g])) /\ (each = NIL \/ CalledFor(t, each))
        /\ slot \in Live(t) \union {NIL}
    BY DEF IInv, IsOpen
  <1> HIDE DEF t, m, k
  <1>3. /\ Live(m) = Live(t) /\ m.num_bins = t.num_bins
        /\ \A d \in Live(t) : m.elem[d].key = t.elem[d].key /\ Follows(m, d) = Follows(t, d)
        /\ m.elem[c].record = v /\ \A d \in Live(t) \ {c} : m.elem[d].record = t.elem[d].record
    <2>1. Live(m) = Live(t) /\ m.num_bins = t.num_bins
      BY <1>1, AssignKeeps
    <2>2. \A d \in Live(t) : m.elem[d].key = t.elem[d].key /\ Follows(m, d) = Follows(t, d)
      BY <1>1, AssignKeeps
    <2>3. m.elem[c].record = v
      <3>1. c \in Cell /\ t.elem[c] \in Entry /\ t.elem \in [Cell -> Entry \union {NIL}]
            /\ t = [num_bins |-> t.num_bins, num_entries |-> t.num_entries, bins |-> t.bins, elem |-> t.elem]
        BY <1>1, LiveFacts DEF TableInv, TableType
      <3> QED BY <1>1, <3>1 DEF Entry
    <2>4. \A d \in Live(t) \ {c} : m.elem[d].record = t.elem[d].record
      BY <1>1, AssignKeeps
    <2> QED BY <2>1, <2>2, <2>3, <2>4
  <1>4. MapIn(m) = [i \in Names(t) \union {k} |-> IF i = k THEN v ELSE MapIn(t)[i]] /\ k \in Names(t)
    <2>1. /\ TableInv(t) /\ TableInv(m) /\ c \in Live(t) /\ Live(m) = Live(t)
          /\ \A d \in Live(t) : m.elem[d].key = t.elem[d].key
          /\ m.elem[c].record = v /\ \A d \in Live(t) \ {c} : m.elem[d].record = t.elem[d].record
      BY <1>1, <1>3
    <2>2. MapIn(m) = [i \in Names(t) \union {t.elem[c].key} |-> IF i = t.elem[c].key THEN v ELSE MapIn(t)[i]]
      BY <2>1, MapAssign
    <2>3. t.elem[c].key \in Names(t)
      BY <2>1, MapFacts
    <2> QED BY <2>2, <2>3 DEF k
  <1>5. /\ \A g \in Gen : OwedIn(m, gen[g]) = OwedIn(t, gen[g])
        /\ EachIn(m, each) = EachIn(t, each) /\ KeyIn(m, slot) = KeyIn(t, slot)
    <2>1. /\ TableInv(t) /\ TableInv(m) /\ m.num_bins = t.num_bins /\ Live(m) = Live(t)
          /\ \A d \in Live(t) : m.elem[d].key = t.elem[d].key /\ Follows(m, d) = Follows(t, d)
      BY <1>1, <1>3
    <2>2. /\ \A w : w = NIL \/ ComesTo(t, w) => OwedIn(m, w) = OwedIn(t, w)
          /\ \A e : e = NIL \/ CalledFor(t, e) => EachIn(m, e) = EachIn(t, e)
          /\ \A d \in Live(t) \union {NIL} : KeyIn(m, d) = KeyIn(t, d)
      BY <2>1, SeenSame
    <2> QED BY <1>2, <2>2
  <1>6. /\ MapOf = MapIn(t) /\ MapOf' = MapIn(m) /\ DOMAIN MapOf = Names(t)
        /\ [g \in Gen |-> OwedTo(g)] = [g \in Gen |-> OwedIn(t, gen[g])]
        /\ [g \in Gen |-> OwedTo(g)]' = [g \in Gen |-> OwedIn(m, gen[g])]
        /\ EachOf = EachIn(t, each) /\ EachOf' = EachIn(m, each)
        /\ KeyOf(slot) = KeyIn(t, slot) /\ KeyOf(slot)' = KeyIn(m, slot)
    BY SeenStep DEF t, m
  <1>7. k \in Api!Keys /\ Api!Set(k, v)
    <2> HIDE DEF k
    <2> QED BY <1>4, <1>6 DEF Api!Keys, Api!Set
  <1>8. [g \in Gen |-> OwedTo(g)]' = [g \in Gen |-> OwedTo(g)]
    BY <1>5, <1>6
  <1>9. table'.num_bins = table.num_bins
    BY <1>3 DEF t, m
  <1>10. Api!Replace(k, v)
    <2> HIDE DEF k
    <2> QED BY <1>5, <1>6, <1>7, <1>8, <1>9 DEF Api!Replace
  <1> QED BY <1>5, <1>6, <1>10 DEF t, k

\* The table and what walks over it stay.
LEMMA ApiStill ==
    ASSUME IInv, IInv', UNCHANGED <<table, gen, each>>
    PROVE  /\ UNCHANGED <<MapOf, table.num_bins, [g \in Gen |-> OwedTo(g)], EachOf>>
           /\ KeyOf(slot)' = KeyIn(table, slot')
  BY SeenStep

LEMMA ApiStays ==
    ASSUME IInv, IInv', UNCHANGED <<table, gen>>
    PROVE  /\ UNCHANGED <<MapOf, table.num_bins, [g \in Gen |-> OwedTo(g)]>>
           /\ KeyOf(slot)' = KeyIn(table, slot')
  BY SeenStep

LEMMA ApiWithout ==
    ASSUME IInv, IInv', NEW c \in Live(table), NEW place \in Live(table) \union Bins(table),
           At(table, place) = c, MayDelete(table.elem[c].key),
           table' = Unlink(table, place, c), UNCHANGED gen, slot' = Forgotten(c)
    PROVE  Api!Without(table.elem[c].key) /\ UNCHANGED table.num_bins
  <1> DEFINE t == table
             m == table'
             k == t.elem[c].key
  <1>1. TableInv(t) /\ TableInv(m) /\ c \in Live(t) /\ m = Unlink(t, place, c)
        /\ place \in Live(t) \union Bins(t) /\ At(t, place) = c
    BY SeenStep
  <1>2. /\ \A g \in Gen : gen[g] = NIL \/ (ComesTo(t, gen[g]) /\ gen[g].given = k)
        /\ slot \in Live(t) \union {NIL} /\ slot' = IF slot = c THEN NIL ELSE slot
    BY DEF IInv, IsOpen, MayDelete, Forgotten
  <1> HIDE DEF t, m
  <1>3. /\ Live(m) = Live(t) \ {c} /\ m.num_bins = t.num_bins /\ place /= c
        /\ \A d \in Live(m) : m.elem[d].key = t.elem[d].key
        /\ \A d \in Live(m) : m.elem[d].key = t.elem[d].key /\ m.elem[d].record = t.elem[d].record
        /\ \A d \in Live(m) : Follows(m, d) = IF d = place THEN Follows(t, c) ELSE Follows(t, d)
    BY <1>1, UnlinkKeeps
  <1>4. MapIn(m) = [i \in Names(t) \ {k} |-> MapIn(t)[i]]
    <2>1. /\ TableInv(t) /\ TableInv(m) /\ c \in Live(t) /\ Live(m) = Live(t) \ {c}
          /\ \A d \in Live(m) : m.elem[d].key = t.elem[d].key /\ m.elem[d].record = t.elem[d].record
      BY <1>1, <1>3
    <2> QED BY <2>1, MapUnlink
  <1>5. ASSUME NEW g \in Gen
        PROVE  OwedIn(m, gen[g]) = IF OwedIn(t, gen[g]) \in {NIL, Lost} THEN OwedIn(t, gen[g])
                                   ELSE OwedIn(t, gen[g]) \ {k}
    <2> DEFINE w == gen[g]
               P == Pending(t, w.entry, w.index)
    <2>1. w = NIL \/ (ComesTo(t, w) /\ w.given = k)
      BY <1>2
    <2> DEFINE Less == OwedIn(m, w) = IF OwedIn(t, w) \in {NIL, Lost} THEN OwedIn(t, w) ELSE OwedIn(t, w) \ {k}
    <2> HIDE DEF w
    <2>2. w = NIL => Less
      BY DEF OwedIn
    <2>3. ASSUME ComesTo(t, w), w.given = k
          PROVE  Less
      <3>1. /\ w /= NIL /\ OwedIn(t, w) /= NIL
            /\ w.lost => OwedIn(t, w) = Lost
            /\ ~w.lost => OwedIn(t, w) = KeysOf(t, P) /\ OwedIn(t, w) /= Lost
        BY <1>1, <2>3, OwedFacts
      <3>2. w.entry \in Live(t) \union {NIL} /\ w.entry /= c
        BY <1>1, <2>3, InvFacts DEF ComesTo
      <3>3. w.entry \in Live(m) \union {NIL}
        BY <1>3, <3>2
      <3>4. Pending(m, w.entry, w.index) = P \ {c}
        BY <1>1, <1>3, <3>3, PendingUnlink
      <3>5. P \subseteq Live(t)
        BY <1>1, <3>2, PendingIn
      <3> HIDE DEF P
      <3>6. KeysOf(t, P \ {c}) = KeysOf(t, P) \ {k}
        BY <1>1, <3>5, KeysLess
      <3>7. KeysOf(m, P \ {c}) = KeysOf(t, P \ {c})
        BY <1>3, <3>5 DEF KeysOf
      <3>8. w.lost => OwedIn(m, w) = Lost
        BY <3>1 DEF OwedIn
      <3>9. ~w.lost => OwedIn(m, w) = KeysOf(t, P) \ {k}
        BY <3>1, <3>4, <3>6, <3>7 DEF OwedIn
      <3> QED BY <3>1, <3>8, <3>9
    <2>4. Less
      BY <2>1, <2>2, <2>3
    <2> QED BY <2>4 DEF w
  <1>6. KeyIn(m, slot') = IF KeyIn(t, slot) = k THEN NIL ELSE KeyIn(t, slot)
    <2>1. /\ \A d \in Live(t) : t.elem[d].key \in Key /\ (t.elem[d].key = k => d = c)
          /\ NIL \notin Key /\ NIL \notin Live(t)
      BY <1>1, InvFacts, StAssumption DEF OneEntryEach
    <2>2. CASE slot = NIL
      <3>1. c /= NIL /\ k /= NIL
        BY <1>1, <2>1
      <3> QED BY <1>2, <2>2, <3>1 DEF KeyIn
    <2>3. CASE slot = c
      BY <1>1, <1>2, <2>1, <2>3 DEF KeyIn
    <2>4. CASE slot \in Live(t) /\ slot /= c
      BY <1>2, <1>3, <2>1, <2>4 DEF KeyIn
    <2> QED BY <1>2, <2>2, <2>3, <2>4
  <1>7. /\ MapOf = MapIn(t) /\ MapOf' = MapIn(m) /\ DOMAIN MapOf = Names(t)
        /\ [g \in Gen |-> OwedTo(g)] = [g \in Gen |-> OwedIn(t, gen[g])]
        /\ [g \in Gen |-> OwedTo(g)]' = [g \in Gen |-> OwedIn(m, gen[g])]
        /\ KeyOf(slot) = KeyIn(t, slot) /\ KeyOf(slot)' = KeyIn(m, slot')
    BY SeenStep DEF t, m
  <1>8. MapOf' = [i \in Api!Keys \ {k} |-> MapOf[i]]
    BY <1>4, <1>7 DEF Api!Keys
  <1> DEFINE owed == [g \in Gen |-> OwedTo(g)]
  <1>9. owed' = [g \in Gen |-> IF owed[g] \in {NIL, Lost} THEN owed[g] ELSE owed[g] \ {k}]
    <2> DEFINE old == [g \in Gen |-> OwedIn(t, gen[g])]
               new == [g \in Gen |-> OwedIn(m, gen[g])]
    <2>1. new = [g \in Gen |-> IF old[g] \in {NIL, Lost} THEN old[g] ELSE old[g] \ {k}]
      <3> HIDE DEF k
      <3> QED BY <1>5
    <2>2. owed = old /\ owed' = new
      BY <1>7
    <2> HIDE DEF owed, old, new, k
    <2> QED BY <2>1, <2>2
  <1>10. Api!Without(k)
    <2> HIDE DEF k
    <2> QED BY <1>6, <1>7, <1>8, <1>9 DEF Api!Without
  <1> QED BY <1>3, <1>10 DEF t, m

-----------------------------------------------------------------------------
(* st_foreach, in terms of StApi.                                          *)

LEMMA PendingAll ==
    ASSUME NEW t, TableInv(t)
    PROVE  0 \in Bins(t) /\ Pending(t, At(t, 0), 1) = Live(t) /\ Pending(t, NIL, 0) = Live(t)
  <1>1. /\ TableType(t) /\ Chains(t, Live(t), BinOf(t)) /\ t.num_bins \in Nat \ {0}
        /\ \A c \in Live(t) : /\ do_hash(t.elem[c].key, t) \in Nat
                              /\ BinOf(t)[c] = do_hash(t.elem[c].key, t)
        /\ \A b \in Bins(t) : At(t, b) = t.bins[b]
    BY InvFacts
  <1>2. 0 \in Bins(t)
    BY <1>1 DEF Bins
  <1>3. Reach(t, At(t, 0)) = {c \in Live(t) : BinOf(t)[c] = 0}
    BY <1>1, <1>2, ReachBins
  <1>4. Reach(t, NIL) = {}
    BY <1>1, ReachFacts
  <1> HIDE DEF Bins
  <1>5. \A c \in Live(t) : BinOf(t)[c] = 0 \/ do_hash(t.elem[c].key, t) >= 1
    BY <1>1
  <1>6. Pending(t, At(t, 0), 1) = Live(t)
    BY <1>3, <1>5 DEF Pending
  <1>7. \A c \in Live(t) : do_hash(t.elem[c].key, t) >= 0
    BY <1>1
  <1>8. Pending(t, NIL, 0) = Live(t)
    BY <1>4, <1>7 DEF Pending
  <1> QED BY <1>2, <1>6, <1>8

LEMMA EachIs ==
    ASSUME NEW k, NEW a, NEW o
    PROVE  [key |-> k, added |-> a, owed |-> o] = [key |-> k, owed |-> o, added |-> a]
  OBVIOUS

LEMMA GoesOn ==
    ASSUME NEW t, TableInv(t), NEW name, NEW place \in Live(t) \union Bins(t), NEW b \in Nat \ {0},
           NEW lost \in BOOLEAN, CallFor(name, t, place, b, lost),
           ~lost /\ At(t, place) /= NIL => do_hash(t.elem[At(t, place)].key, t) < b,
           NEW keys, keys = IF lost THEN Lost ELSE KeysOf(t, Pending(t, At(t, place), b)),
           EachOf' = EachIn(t, each')
    PROVE  call' = name /\ Api!EachGoesOn(keys, Names(t))
  <1> DEFINE there == At(t, place)
             first == FirstBin(t, b)
             i == IF there /= NIL THEN b - 1 ELSE first
             ptr == IF there /= NIL THEN there ELSE t.bins[i]
             last == IF there /= NIL THEN place ELSE i
             e == [index |-> i, last |-> last, ptr |-> ptr, added |-> FALSE, lost |-> lost]
             k == t.elem[ptr].key
  <1>1. /\ call' = name
        /\ \/ there = NIL /\ i = t.num_bins /\ each' = NIL /\ result' = <<1>>
           \/ ~ (there = NIL /\ i = t.num_bins) /\ each' = e /\ result' = <<k>>
    BY DEF CallFor, Returns
  <1>2. /\ TableType(t) /\ Live(t) \subseteq Cell /\ NIL \notin Live(t)
        /\ there \in Live(t) \union {NIL}
        /\ \A j \in Bins(t) : j \in Nat /\ t.bins[j] \in Live(t) \union {NIL}
        /\ \A c \in Live(t) : t.elem[c].key \in Key /\ Follows(t, c) \in Live(t) \union {NIL}
    BY InvFacts
  <1>3. first \in Nat /\ (first /= t.num_bins => first \in Bins(t) /\ t.bins[first] /= NIL)
    BY <1>2, FirstBinFacts
  <1> DEFINE all == Pending(t, there, b)
             rest == Pending(t, Follows(t, ptr), i + 1)
  <1>4. ~lost =>
        /\ there /= NIL => /\ all = {there} \union Pending(t, Follows(t, there), b)
                           /\ there \notin Pending(t, Follows(t, there), b)
        /\ there = NIL /\ first = t.num_bins => all = {}
        /\ there = NIL /\ first /= t.num_bins =>
             /\ all = {t.bins[first]} \union Pending(t, Follows(t, t.bins[first]), first + 1)
             /\ t.bins[first] \notin Pending(t, Follows(t, t.bins[first]), first + 1)
    <2>1. ~lost => (there /= NIL => do_hash(t.elem[there].key, t) < b)
      OBVIOUS
    <2> HIDE DEF there, first
    <2>2. first = FirstBin(t, b) /\ b \in Nat
      BY DEF first
    <2> QED BY <1>2, <2>1, <2>2, PendingFirst
  <1> HIDE DEF there, first
  <1>5. keys = IF lost THEN Lost ELSE KeysOf(t, all)
    BY DEF there
  <1>6. CASE there = NIL /\ i = t.num_bins
    <2>1. each' = NIL /\ result' = <<1>> /\ first = t.num_bins
      BY <1>1, <1>6
    <2>2. keys \in {{}, Lost}
      BY <1>4, <1>5, <1>6, <2>1 DEF KeysOf
    <2>3. EachOf' = NIL
      BY <2>1 DEF EachIn
    <2> QED BY <1>1, <2>1, <2>2, <2>3 DEF Api!EachGoesOn
  <1>7. CASE ~ (there = NIL /\ i = t.num_bins)
    <2>1. i \in Nat /\ ptr \in Live(t) /\ last \in Cell \union Nat
      <3>1. place \in Cell \union Nat
        BY <1>2
      <3> QED BY <1>2, <1>3, <1>7, <3>1
    <2>2. ~lost => all = {ptr} \union rest /\ ptr \notin rest
      <3>1. CASE there /= NIL
        <4>1. ptr = there /\ i + 1 = b
          BY <3>1
        <4> HIDE DEF ptr, i, all
        <4> QED BY <1>4, <3>1, <4>1
      <3>2. CASE there = NIL
        <4>1. i = first /\ ptr = t.bins[first] /\ first /= t.num_bins
          BY <1>7, <3>2
        <4> HIDE DEF ptr, i, all
        <4> QED BY <1>4, <3>2, <4>1
      <3> QED BY <3>1, <3>2
    <2>3. e.ptr = ptr /\ e.index = i /\ e.lost = lost /\ e.added = FALSE /\ e \in Loop
      <3> HIDE DEF ptr, i, last
      <3> QED BY <1>2, <2>1 DEF Loop
    <2>4. each' = e /\ result' = <<k>>
      BY <1>1, <1>7
    <2>5. all \subseteq Live(t)
      BY <1>2, PendingIn
    <2> DEFINE owed == IF lost THEN Lost ELSE KeysOf(t, rest)
    <2> HIDE DEF ptr, i, last, all, rest, e
    <2>6. EachOf' = [key |-> k, owed |-> owed, added |-> FALSE]
      <3>1. e /= NIL
        BY <2>3, StAssumption
      <3>2. EachIn(t, e) = [key |-> k, added |-> e.added, owed |-> ToCome(t, e)]
        BY <2>3, <3>1 DEF EachIn
      <3>3. ToCome(t, e) = owed
        BY <2>3 DEF ToCome, rest
      <3> HIDE DEF k, owed
      <3>4. EachOf' = [key |-> k, owed |-> owed, added |-> e.added]
        BY <2>4, <3>2, <3>3, EachIs
      <3> QED BY <2>3, <3>4, Zenon
    <2>7. ~lost => KeysOf(t, rest) = KeysOf(t, all) \ {k} /\ k \in KeysOf(t, all) /\ KeysOf(t, all) /= Lost
      <3>1. ~lost => rest = all \ {ptr} /\ ptr \in all
        BY <2>2
      <3>2. KeysOf(t, all \ {ptr}) = KeysOf(t, all) \ {k}
        BY <2>1, <2>5, KeysLess
      <3>3. KeysOf(t, all) \in SUBSET Key
        BY <1>2, <2>5 DEF KeysOf
      <3>4. KeysOf(t, all) /= Lost
        BY <3>3, LostAssumption
      <3>5. ptr \in all => k \in KeysOf(t, all)
        BY DEF KeysOf
      <3> QED BY <3>1, <3>2, <3>4, <3>5
    <2>8. k \in Names(t)
      BY <2>1 DEF Names, KeysOf
    <2>9. k \in IF keys = Lost THEN Names(t) ELSE keys
      BY <1>5, <2>7, <2>8
    <2>10. owed = Api!Less(keys, k)
      BY <1>5, <2>7 DEF Api!Less
    <2> HIDE DEF k, owed
    <2>11. EachOf' = [key |-> k, owed |-> Api!Less(keys, k), added |-> FALSE]
      BY <2>6, <2>10, Zenon
    <2> QED BY <1>1, <2>4, <2>9, <2>11, Zenon DEF Api!EachGoesOn
  <1> QED BY <1>6, <1>7

LEMMA ApiForEach ==
    ASSUME IInv, IInv', ForEach
    PROVE  call' = "st_foreach" /\ Api!ForEach
  <1> DEFINE t == table
             keys == Names(t)
  <1>1. each = NIL /\ CallFor("st_foreach", t, 0, 1, FALSE) /\ UNCHANGED <<table, gen, slot>>
    BY DEF ForEach
  <1>2. /\ TableInv(t) /\ DOMAIN MapOf = Names(t) /\ EachOf = EachIn(t, each) /\ EachOf' = EachIn(t, each')
        /\ KeyOf(slot) = KeyIn(t, slot)
    BY <1>1, SeenStep
  <1>3. UNCHANGED <<MapOf, table.num_bins, [g \in Gen |-> OwedTo(g)]>> /\ KeyOf(slot)' = KeyIn(t, slot')
    BY <1>1, ApiStays
  <1> HIDE DEF t
  <1>4. 0 \in Live(t) \union Bins(t) /\ Pending(t, At(t, 0), 1) = Live(t)
    BY <1>2, PendingAll
  <1>5. 1 \in Nat \ {0} /\ FALSE \in BOOLEAN
    OBVIOUS
  <1>6. At(t, 0) /= NIL => do_hash(t.elem[At(t, 0)].key, t) < 1
    <2>1. /\ TableType(t) /\ Chains(t, Live(t), BinOf(t)) /\ At(t, 0) = t.bins[0] /\ 0 \in Bins(t)
      BY <1>2, InvFacts, PendingAll
    <2>2. t.bins[0] /= NIL => do_hash(t.elem[t.bins[0]].key, t) = 0
      BY <2>1, BinFacts
    <2> QED BY <2>1, <2>2
  <1>7. keys = IF FALSE THEN Lost ELSE KeysOf(t, Pending(t, At(t, 0), 1))
    BY <1>4 DEF Names
  <1> HIDE DEF keys
  <1>8. call' = "st_foreach" /\ Api!EachGoesOn(keys, Names(t))
    BY <1>1, <1>2, <1>4, <1>5, <1>6, <1>7, GoesOn
  <1>9. EachOf = NIL
    BY <1>1, <1>2 DEF EachIn
  <1>10. Api!EachGoesOn(Api!Keys, Api!Keys)
    BY <1>2, <1>8 DEF Api!Keys, keys
  <1> QED BY <1>1, <1>2, <1>3, <1>8, <1>9, <1>10 DEF Api!ForEach

LEMMA ApiContinue ==
    ASSUME IInv, IInv', Continue
    PROVE  call' = "ST_CONTINUE" /\ Api!Continue
  <1> DEFINE t == table
             e == each
             c == e.ptr
             b == e.index + 1
             keys == ToCome(t, e)
  <1>1. e /= NIL /\ CallFor("ST_CONTINUE", t, c, b, e.lost) /\ UNCHANGED <<table, gen, slot>>
    BY DEF Continue
  <1>2. /\ TableInv(t) /\ DOMAIN MapOf = Names(t) /\ EachOf = EachIn(t, e) /\ EachOf' = EachIn(t, each')
        /\ KeyOf(slot) = KeyIn(t, slot)
    BY <1>1, SeenStep
  <1>3. UNCHANGED <<MapOf, table.num_bins, [g \in Gen |-> OwedTo(g)]>> /\ KeyOf(slot)' = KeyIn(t, slot')
    BY <1>1, ApiStays
  <1>4. CalledFor(t, e)
    BY <1>1 DEF IInv
  <1> HIDE DEF t, e
  <1>5. /\ c \in Live(t) /\ b \in Nat \ {0} /\ e.lost \in BOOLEAN
        /\ ~e.lost => do_hash(t.elem[c].key, t) < b
    BY <1>4 DEF CalledFor, Loop
  <1>6. At(t, c) = Follows(t, c) /\ c \in Live(t) \union Bins(t)
    BY <1>2, <1>5, InvFacts
  <1>7. /\ EachOf /= NIL /\ EachOf = [key |-> t.elem[c].key, added |-> e.added, owed |-> keys]
    BY <1>2, <1>4, ToComeFacts
  <1>8. keys = IF e.lost THEN Lost ELSE KeysOf(t, Pending(t, At(t, c), b))
    BY <1>6 DEF ToCome
  <1>9. ~e.lost /\ At(t, c) /= NIL => do_hash(t.elem[At(t, c)].key, t) < b
    <2>1. TableType(t) /\ Chains(t, Live(t), BinOf(t))
      BY <1>2, InvFacts
    <2> HIDE DEF c, b
    <2>2. Follows(t, c) /= NIL => do_hash(t.elem[Follows(t, c)].key, t) = do_hash(t.elem[c].key, t)
      BY <1>5, <2>1, BinFacts
    <2> QED BY <1>5, <1>6, <2>2
  <1> DEFINE lost == e.lost
  <1> HIDE DEF keys, c, b
  <1>10. call' = "ST_CONTINUE" /\ Api!EachGoesOn(keys, Names(t))
    <2>1. /\ TableInv(t) /\ c \in Live(t) \union Bins(t) /\ b \in Nat \ {0} /\ lost \in BOOLEAN
          /\ CallFor("ST_CONTINUE", t, c, b, lost)
          /\ ~lost /\ At(t, c) /= NIL => do_hash(t.elem[At(t, c)].key, t) < b
          /\ keys = IF lost THEN Lost ELSE KeysOf(t, Pending(t, At(t, c), b))
          /\ EachOf' = EachIn(t, each')
      BY <1>1, <1>2, <1>5, <1>6, <1>8, <1>9
    <2> HIDE DEF lost
    <2> QED BY <2>1, GoesOn
  <1>11. EachOf.owed = keys
    BY <1>7
  <1>12. Api!EachGoesOn(EachOf.owed, Api!Keys)
    BY <1>2, <1>10, <1>11 DEF Api!Keys
  <1> QED BY <1>1, <1>2, <1>3, <1>7, <1>10, <1>12 DEF Api!Continue

LEMMA ApiStop ==
    ASSUME IInv, IInv', Stop
    PROVE  call' = "ST_STOP" /\ Api!Stop
  <1>1. /\ each /= NIL /\ each' = NIL /\ call' = "ST_STOP" /\ result' = <<0>> /\ UNCHANGED <<table, gen, slot>>
    BY DEF Stop, Returns
  <1>2. /\ TableInv(table) /\ EachOf = EachIn(table, each) /\ EachOf' = EachIn(table, each')
        /\ KeyOf(slot) = KeyIn(table, slot)
    BY <1>1, SeenStep
  <1>3. UNCHANGED <<MapOf, table.num_bins, [g \in Gen |-> OwedTo(g)]>> /\ KeyOf(slot)' = KeyIn(table, slot')
    BY <1>1, ApiStays
  <1>4. CalledFor(table, each)
    BY <1>1 DEF IInv
  <1>5. EachOf /= NIL
    <2> DEFINE e == each
    <2>1. CalledFor(table, e) /\ EachOf = EachIn(table, e)
      BY <1>2, <1>4
    <2> HIDE DEF e
    <2> QED BY <1>2, <2>1, ToComeFacts
  <1>6. EachOf' = NIL
    BY <1>1, <1>2 DEF EachIn
  <1> QED BY <1>1, <1>2, <1>3, <1>5, <1>6 DEF Api!Stop

LEMMA ApiDeleteGiven ==
    ASSUME IInv, IInv', DeleteGiven
    PROVE  call' = "ST_DELETE" /\ Api!DeleteGiven
  <1> DEFINE t == table
             m == table'
             e == each
             c == e.ptr
             b == e.index + 1
             last == e.last
             k == t.elem[c].key
             keys == ToCome(t, e)
  <1>1. /\ e /= NIL /\ ~e.added /\ MayDelete(k) /\ m = Unlink(t, last, c)
        /\ CallFor("ST_DELETE", m, last, b, e.lost)
        /\ slot' = Forgotten(c) /\ UNCHANGED gen
    BY DEF DeleteGiven
  <1>2. /\ TableInv(t) /\ TableInv(m) /\ DOMAIN MapOf = Names(t)
        /\ EachOf = EachIn(t, e) /\ EachOf' = EachIn(m, each')
    BY SeenStep
  <1>3. CalledFor(t, e)
    BY <1>1 DEF IInv
  <1>4. /\ c \in Live(t) /\ last \in Live(t) \union Bins(t) /\ At(t, last) = c
        /\ b \in Nat \ {0} /\ e.lost \in BOOLEAN
        /\ ~e.lost => do_hash(t.elem[c].key, t) < b
    <2> HIDE DEF t, e
    <2> QED BY <1>1, <1>3 DEF CalledFor, Loop
  <1>5. Api!Without(k) /\ UNCHANGED table.num_bins
    <2> DEFINE d == c
               place == last
    <2>1. /\ d \in Live(table) /\ place \in Live(table) \union Bins(table) /\ At(table, place) = d
          /\ MayDelete(table.elem[d].key) /\ table' = Unlink(table, place, d) /\ UNCHANGED gen
          /\ slot' = Forgotten(d)
      BY <1>1, <1>4
    <2> HIDE DEF d, place
    <2>2. Api!Without(table.elem[d].key) /\ UNCHANGED table.num_bins
      BY <2>1, ApiWithout
    <2> QED BY <2>2 DEF d
  <1> HIDE DEF t, m, e, b, c, last
  <1>6. /\ Live(m) = Live(t) \ {c} /\ Bins(m) = Bins(t) /\ m.num_bins = t.num_bins /\ last /= c
        /\ At(m, last) = Follows(t, c) /\ Follows(t, c) \in Live(m) \union {NIL}
        /\ \A d \in Live(m) : Follows(m, d) = IF d = last THEN Follows(t, c) ELSE Follows(t, d)
        /\ \A d \in Live(m) : m.elem[d].key = t.elem[d].key /\ m.elem[d].record = t.elem[d].record
    BY <1>1, <1>2, <1>4, UnlinkKeeps
  <1>7. /\ EachOf /= NIL /\ EachOf = [key |-> k, added |-> e.added, owed |-> keys]
    BY <1>2, <1>3, ToComeFacts DEF c
  <1>8. Names(m) = Names(t) \ {k}
    <2>1. /\ TableInv(t) /\ c \in Live(t) /\ Live(m) = Live(t) \ {c}
          /\ \A d \in Live(m) : m.elem[d].key = t.elem[d].key
      BY <1>2, <1>4, <1>6
    <2> HIDE DEF k, keys
    <2>2. Names(m) = Names(t) \ {t.elem[c].key}
      BY <2>1, NamesUnlink
    <2> QED BY <2>2 DEF k
  <1> DEFINE next == Follows(t, c)
             P == Pending(t, next, b)
  <1>9. keys = IF e.lost THEN Lost ELSE KeysOf(m, Pending(m, At(m, last), b))
    <2>1. CASE e.lost
      BY <2>1 DEF ToCome
    <2>2. CASE ~e.lost
      <3>1. keys = KeysOf(t, P)
        BY <2>2 DEF ToCome, c, b
      <3>2. Pending(m, next, b) = P \ {c}
        <4>1. /\ TableInv(t) /\ TableInv(m) /\ m.num_bins = t.num_bins
              /\ c \in Live(t) /\ Live(m) = Live(t) \ {c}
              /\ last \in Live(t) \union Bins(t) /\ last /= c /\ At(t, last) = c
              /\ \A d \in Live(m) : m.elem[d].key = t.elem[d].key
              /\ \A d \in Live(m) : Follows(m, d) = IF d = last THEN Follows(t, c) ELSE Follows(t, d)
              /\ next \in Live(m) \union {NIL}
          BY <1>2, <1>4, <1>6
        <4> HIDE DEF next
        <4> QED BY <4>1, PendingUnlink
      <3>3. c \notin P
        <4>1. NIL \notin Live(t)
          BY <1>2, InvFacts
        <4>2. /\ TableInv(t) /\ c \in Live(t) \union {NIL} /\ b \in Nat
              /\ c /= NIL => do_hash(t.elem[c].key, t) < b
          BY <1>2, <1>4, <2>2
        <4>3. c /= NIL => c \notin Pending(t, Follows(t, c), b)
          BY <4>2, PendingFirst
        <4> QED BY <1>4, <4>1, <4>3
      <3>4. P \subseteq Live(t)
        <4>1. next \in Live(t) \union {NIL}
          BY <1>6
        <4> HIDE DEF next
        <4> QED BY <1>2, <4>1, PendingIn
      <3> HIDE DEF P
      <3>5. KeysOf(m, P) = KeysOf(t, P)
        BY <1>6, <3>3, <3>4 DEF KeysOf
      <3>6. Pending(m, At(m, last), b) = P
        BY <1>6, <3>2, <3>3
      <3> QED BY <2>2, <3>1, <3>5, <3>6
    <2> QED BY <1>4, <2>1, <2>2
  <1>10. ~e.lost /\ At(m, last) /= NIL => do_hash(m.elem[At(m, last)].key, m) < b
    <2>1. TableType(t) /\ Chains(t, Live(t), BinOf(t))
      BY <1>2, InvFacts
    <2>2. Follows(t, c) /= NIL => do_hash(t.elem[Follows(t, c)].key, t) = do_hash(t.elem[c].key, t)
      BY <1>4, <2>1, BinFacts
    <2> QED BY <1>4, <1>6, <2>2 DEF do_hash
  <1> DEFINE lost == e.lost
  <1> HIDE DEF keys, next, P, k
  <1>11. call' = "ST_DELETE" /\ Api!EachGoesOn(keys, Names(m))
    <2>1. last \in Live(m) \union Bins(m)
      BY <1>4, <1>6
    <2>2. /\ TableInv(m) /\ last \in Live(m) \union Bins(m) /\ b \in Nat \ {0} /\ lost \in BOOLEAN
          /\ CallFor("ST_DELETE", m, last, b, lost)
          /\ ~lost /\ At(m, last) /= NIL => do_hash(m.elem[At(m, last)].key, m) < b
          /\ keys = IF lost THEN Lost ELSE KeysOf(m, Pending(m, At(m, last), b))
          /\ EachOf' = EachIn(m, each')
      BY <1>1, <1>2, <1>4, <1>9, <1>10, <2>1
    <2> HIDE DEF lost
    <2> QED BY <2>2, GoesOn
  <1>12. EachOf.owed = keys /\ EachOf.key = k /\ EachOf.added = e.added
    BY <1>7
  <1>13. Api!EachGoesOn(EachOf.owed, Api!Keys \ {EachOf.key})
    BY <1>2, <1>8, <1>11, <1>12 DEF Api!Keys
  <1>14. Api!Without(EachOf.key)
    BY <1>5, <1>12
  <1> QED BY <1>1, <1>5, <1>7, <1>11, <1>12, <1>13, <1>14 DEF Api!DeleteGiven

-----------------------------------------------------------------------------
(* Generators, in terms of StApi.                                          *)

LEMMA ApiGen ==
    ASSUME IInv, IInv', NEW g \in Gen, NEW w, gen' = [gen EXCEPT ![g] = w], UNCHANGED <<table, each, slot>>
    PROVE  /\ UNCHANGED <<MapOf, table.num_bins, EachOf, KeyOf(slot)>>
           /\ [h \in Gen |-> OwedTo(h)]' = [[h \in Gen |-> OwedTo(h)] EXCEPT ![g] = OwedIn(table, w)]
           /\ [h \in Gen |-> OwedTo(h)][g] = OwedIn(table, gen[g])
  <1> DEFINE owed == [h \in Gen |-> OwedTo(h)]
             old == [h \in Gen |-> OwedIn(table, gen[h])]
             new == [h \in Gen |-> OwedIn(table, gen'[h])]
  <1>1. owed = old /\ owed' = new
    BY SeenStep
  <1>2. \A h \in Gen : gen'[h] = IF h = g THEN w ELSE gen[h]
    BY DEF IInv
  <1>3. new = [old EXCEPT ![g] = OwedIn(table, w)]
    <2> DEFINE o == OwedIn(table, w)
    <2>1. \A h \in Gen : OwedIn(table, gen'[h]) = IF h = g THEN o ELSE old[h]
      BY <1>2
    <2>2. new = [h \in Gen |-> IF h = g THEN o ELSE old[h]]
      BY <2>1
    <2>3. DOMAIN old = Gen /\ old = [h \in Gen |-> old[h]]
      OBVIOUS
    <2> HIDE DEF old, new, o
    <2>4. new = [old EXCEPT ![g] = o]
      BY <2>2, <2>3
    <2> QED BY <2>4 DEF o
  <1>4. old[g] = OwedIn(table, gen[g])
    OBVIOUS
  <1>5. UNCHANGED <<MapOf, table.num_bins, EachOf, KeyOf(slot)>>
    BY SeenStep
  <1> HIDE DEF old, new
  <1> QED BY <1>1, <1>3, <1>4, <1>5

LEMMA ApiOpen ==
    ASSUME IInv, IInv', NEW g \in Gen, InitGen(g)
    PROVE  call' = "st_init_gen" /\ Api!Open(g)
  <1> DEFINE t == table
             w == [entry |-> NIL, index |-> 0, given |-> NIL, lost |-> FALSE]
             owed == [h \in Gen |-> OwedTo(h)]
  <1>1. /\ gen[g] = NIL /\ gen' = [gen EXCEPT ![g] = w] /\ UNCHANGED <<table, each, slot>>
        /\ call' = "st_init_gen" /\ result' = <<>>
    BY DEF InitGen, IsOpen, Returns
  <1>2. TableInv(t) /\ DOMAIN MapOf = Names(t)
    BY SeenStep
  <1>3. w \in Walk /\ w.entry = NIL /\ w.index = 0 /\ w.lost = FALSE
    BY DEF Walk, Pointer
  <1> HIDE DEF t, w
  <1>4. w /= NIL
    BY <1>3, StAssumption
  <1>5. OwedIn(t, w) = Names(t)
    BY <1>2, <1>3, <1>4, PendingAll DEF OwedIn, Names
  <1>6. /\ UNCHANGED <<MapOf, table.num_bins, EachOf, KeyOf(slot)>>
        /\ owed' = [owed EXCEPT ![g] = OwedIn(t, w)] /\ owed[g] = OwedIn(t, gen[g])
    BY <1>1, ApiGen DEF t
  <1>7. owed[g] = NIL
    BY <1>1, <1>6 DEF OwedIn
  <1>8. owed' = [owed EXCEPT ![g] = Api!Keys]
    BY <1>2, <1>5, <1>6 DEF Api!Keys
  <1> QED BY <1>1, <1>6, <1>7, <1>8 DEF Api!Open

LEMMA ApiClose ==
    ASSUME IInv, IInv', NEW g \in Gen, FreeGen(g)
    PROVE  call' = "st_free_gen" /\ Api!Close(g)
  <1> DEFINE owed == [h \in Gen |-> OwedTo(h)]
             w == gen[g]
             none == NIL
  <1>1. /\ w /= NIL /\ gen' = [gen EXCEPT ![g] = none] /\ UNCHANGED <<table, each, slot>>
        /\ call' = "st_free_gen" /\ result' = <<>>
    BY DEF FreeGen, IsOpen, Returns
  <1>2. TableInv(table) /\ ComesTo(table, w)
    BY <1>1 DEF IInv, IsOpen
  <1>3. /\ UNCHANGED <<MapOf, table.num_bins, EachOf, KeyOf(slot)>>
        /\ owed' = [owed EXCEPT ![g] = OwedIn(table, none)] /\ owed[g] = OwedIn(table, w)
    <2> HIDE DEF none
    <2> QED BY <1>1, ApiGen
  <1>4. OwedIn(table, none) = NIL
    BY DEF OwedIn
  <1>5. owed[g] /= NIL
    <2> HIDE DEF w
    <2> QED BY <1>2, <1>3, OwedFacts
  <1>6. owed' = [owed EXCEPT ![g] = NIL]
    BY <1>3, <1>4
  <1> QED BY <1>1, <1>3, <1>5, <1>6 DEF Api!Close

LEMMA ApiGive ==
    ASSUME IInv, IInv', NEW g \in Gen, st_gen(g)
    PROVE  call' = "st_gen" /\ Api!Give(g)
  <1> DEFINE t == table
             owed == [h \in Gen |-> OwedTo(h)]
             w == gen[g]
             fresh == w.entry = NIL
             first == FirstBin(t, w.index)
             e == IF fresh THEN t.bins[first] ELSE w.entry
             i == IF fresh THEN first + 1 ELSE w.index
             k == t.elem[e].key
             u == [gen[g] EXCEPT !.entry = t.elem[e].next, !.given = t.elem[e].key,
                                 !.index = IF fresh THEN first + 1 ELSE @]
  <1>1. w /= NIL /\ call' = "st_gen" /\ UNCHANGED <<table, each, slot>>
    BY DEF st_gen, IsOpen, Returns
  <1>2. \/ fresh /\ first = t.num_bins /\ result' = <<0>> /\ gen' = gen
        \/ /\ ~ (fresh /\ first = t.num_bins)
           /\ result' = <<1, k, t.elem[e].record>> /\ gen' = [gen EXCEPT ![g] = u]
    BY DEF st_gen, Returns
  <1>3. /\ TableInv(t) /\ ComesTo(t, w) /\ MapOf = MapIn(t) /\ DOMAIN MapOf = Names(t)
        /\ owed = [h \in Gen |-> OwedIn(t, gen[h])]
    BY <1>1, SeenStep DEF IInv, IsOpen
  <1>4. owed[g] = OwedIn(t, w)
    BY <1>3
  <1>5. u = [w EXCEPT !.entry = Follows(t, e), !.given = k, !.index = i]
    BY DEF Follows
  <1> HIDE DEF t, w, u, owed
  <1> DEFINE all == Pending(t, w.entry, w.index)
  <1>6. /\ w.lost => OwedIn(t, w) = Lost
        /\ OwedIn(t, w) /= NIL
        /\ ~w.lost => OwedIn(t, w) = KeysOf(t, all) /\ OwedIn(t, w) /= Lost
    BY <1>3, OwedFacts
  <1>7. /\ w \in Walk /\ w.entry \in Live(t) \union {NIL} /\ w.index \in Nat /\ w.lost \in BOOLEAN
        /\ ~w.lost /\ w.entry /= NIL => do_hash(t.elem[w.entry].key, t) < w.index
    BY <1>3 DEF ComesTo, Walk
  <1>8. /\ TableType(t) /\ NIL \notin Live(t) /\ Live(t) \subseteq Cell
        /\ \A j \in Bins(t) : t.bins[j] \in Live(t) \union {NIL}
        /\ \A c \in Live(t) : t.elem[c].key \in Key /\ Follows(t, c) \in Live(t) \union {NIL}
    BY <1>3, InvFacts
  <1>9. first \in Nat /\ (first /= t.num_bins => first \in Bins(t) /\ t.bins[first] /= NIL)
    BY <1>7, <1>8, FirstBinFacts
  <1>10. ~w.lost =>
        /\ w.entry /= NIL => /\ all = {w.entry} \union Pending(t, Follows(t, w.entry), w.index)
                             /\ w.entry \notin Pending(t, Follows(t, w.entry), w.index)
        /\ w.entry = NIL /\ first = t.num_bins => all = {}
        /\ w.entry = NIL /\ first /= t.num_bins =>
             /\ all = {t.bins[first]} \union Pending(t, Follows(t, t.bins[first]), first + 1)
             /\ t.bins[first] \notin Pending(t, Follows(t, t.bins[first]), first + 1)
    <2> DEFINE p == w.entry
               b == w.index
    <2>1. ~w.lost => (p /= NIL => do_hash(t.elem[p].key, t) < b)
      BY <1>7
    <2>2. first = FirstBin(t, b) /\ b \in Nat /\ p \in Live(t) \union {NIL}
      BY <1>7
    <2> HIDE DEF p, b, first
    <2>3. ~w.lost =>
        /\ p /= NIL => /\ Pending(t, p, b) = {p} \union Pending(t, Follows(t, p), b)
                       /\ p \notin Pending(t, Follows(t, p), b)
        /\ p = NIL /\ first = t.num_bins => Pending(t, p, b) = {}
        /\ p = NIL /\ first /= t.num_bins =>
             /\ Pending(t, p, b) = {t.bins[first]} \union Pending(t, Follows(t, t.bins[first]), first + 1)
             /\ t.bins[first] \notin Pending(t, Follows(t, t.bins[first]), first + 1)
      BY <1>3, <2>1, <2>2, PendingFirst
    <2> QED BY <2>3 DEF p, b
  <1> HIDE DEF first
  <1>11. CASE fresh /\ first = t.num_bins
    <2>1. result' = <<0>> /\ gen' = gen
      BY <1>2, <1>11
    <2>2. OwedIn(t, w) \in {{}, Lost}
      BY <1>6, <1>7, <1>10, <1>11 DEF KeysOf
    <2>3. UNCHANGED <<MapOf, table.num_bins, EachOf>> /\ owed' = owed /\ KeyOf(slot)' = KeyOf(slot)
      BY <1>1, <2>1, SeenStep DEF owed
    <2> QED BY <1>1, <1>4, <1>6, <2>1, <2>2, <2>3 DEF Api!Give, owed
  <1>12. CASE ~ (fresh /\ first = t.num_bins)
    <2>1. result' = <<1, k, t.elem[e].record>> /\ gen' = [gen EXCEPT ![g] = u]
      BY <1>2, <1>12
    <2>2. e \in Live(t) /\ i \in Nat
      BY <1>7, <1>8, <1>9, <1>12
    <2> DEFINE rest == Pending(t, Follows(t, e), i)
    <2>3. ~w.lost => all = {e} \union rest /\ e \notin rest
      <3>1. CASE ~fresh
        <4>1. e = w.entry /\ i = w.index /\ w.entry /= NIL
          BY <3>1
        <4> HIDE DEF e, i, all
        <4> QED BY <1>10, <4>1
      <3>2. CASE fresh
        <4>1. i = first + 1 /\ e = t.bins[first] /\ first /= t.num_bins /\ w.entry = NIL
          BY <1>12, <3>2
        <4> HIDE DEF e, i, all
        <4> QED BY <1>10, <4>1
      <3> QED BY <3>1, <3>2
    <2>4. all \subseteq Live(t)
      BY <1>3, <1>7, PendingIn
    <2> HIDE DEF e, i, all, rest
    <2>5. t.elem[e].key \in Key /\ Follows(t, e) \in Pointer
      BY <1>8, <2>2 DEF Pointer
    <2>6. u = [entry |-> Follows(t, e), index |-> i, given |-> k, lost |-> w.lost]
      <3>1. w = [entry |-> w.entry, index |-> w.index, given |-> w.given, lost |-> w.lost]
        BY <1>7 DEF Walk
      <3> HIDE DEF k
      <3> QED BY <1>5, <3>1
    <2>7. u \in Walk /\ u.entry = Follows(t, e) /\ u.index = i /\ u.lost = w.lost
      <3> DEFINE x == [entry |-> Follows(t, e), index |-> i, given |-> k, lost |-> w.lost]
      <3>1. x \in Walk /\ x.entry = Follows(t, e) /\ x.index = i /\ x.lost = w.lost
        <4> HIDE DEF k
        <4> QED BY <1>7, <2>2, <2>5 DEF Walk, k
      <3>2. u = x
        BY <2>6
      <3> HIDE DEF x
      <3> QED BY <3>1, <3>2
    <2>8. u /= NIL
      BY <2>7, StAssumption
    <2>9. OwedIn(t, u) = IF w.lost THEN Lost ELSE KeysOf(t, rest)
      BY <2>7, <2>8 DEF OwedIn, rest
    <2>10. ~w.lost => KeysOf(t, rest) = KeysOf(t, all) \ {k} /\ k \in KeysOf(t, all)
      <3>1. ~w.lost => rest = all \ {e} /\ e \in all
        BY <2>3
      <3>2. KeysOf(t, all \ {e}) = KeysOf(t, all) \ {k}
        BY <1>3, <2>2, <2>4, KeysLess
      <3>3. e \in all => k \in KeysOf(t, all)
        BY DEF KeysOf
      <3> QED BY <3>1, <3>2, <3>3
    <2>11. k \in Names(t) /\ MapIn(t)[k] = t.elem[e].record
      BY <1>3, <2>2, MapFacts
    <2> HIDE DEF k
    <2>12. OwedIn(t, u) = Api!Less(owed[g], k) /\ k \in Api!Candidates(owed[g])
      <3> DEFINE o == owed[g]
      <3>1. o = OwedIn(t, w)
        BY <1>4
      <3>2. Api!Keys = Names(t)
        BY <1>3 DEF Api!Keys
      <3> HIDE DEF o
      <3>3. OwedIn(t, u) = Api!Less(o, k) /\ k \in Api!Candidates(o)
        BY <1>6, <1>7, <2>9, <2>10, <2>11, <3>1, <3>2 DEF Api!Less, Api!Candidates
      <3> QED BY <3>3 DEF o
    <2>13. /\ UNCHANGED <<MapOf, table.num_bins, EachOf, KeyOf(slot)>>
           /\ owed' = [owed EXCEPT ![g] = OwedIn(t, u)]
      BY <1>1, <2>1, ApiGen DEF t, owed
    <2>14. owed' = [owed EXCEPT ![g] = Api!Less(owed[g], k)]
      BY <2>12, <2>13
    <2>15. result' = <<1, k, MapOf[k]>>
      BY <1>3, <2>1, <2>11
    <2>16. owed[g] /= NIL
      BY <1>4, <1>6
    <2>17. \E x \in Api!Candidates(owed[g]) :
              owed' = [owed EXCEPT ![g] = Api!Less(@, x)] /\ result' = <<1, x, MapOf[x]>>
      BY <2>12, <2>14, <2>15
    <2> QED BY <1>1, <2>13, <2>16, <2>17 DEF Api!Give, owed
  <1> QED BY <1>11, <1>12

LEMMA GenRefines ==
    ASSUME IInv, IInv', NEW g \in Gen, GenCall(g)
    PROVE  Api!GenCall(g)
  BY ApiOpen, ApiGive, ApiClose DEF GenCall, Api!GenCall

-----------------------------------------------------------------------------
(* The other calls on the table, in terms of StApi.                        *)

LEMMA Found ==
    ASSUME ~ ReorderFlag, IInv, NEW k \in Key, NEW found, found = FIND_ENTRY(table, k)
    PROVE  /\ found.t = table
           /\ found.ptr = NIL => k \notin Api!Keys /\ \A d \in Live(table) : table.elem[d].key /= k
           /\ found.ptr /= NIL => /\ k \in Api!Keys /\ MapOf[k] = table.elem[found.ptr].record
                                  /\ found.ptr \in Live(table) /\ table.elem[found.ptr].key = k
                                  /\ found.last \in Live(table) \union Bins(table)
                                  /\ At(table, found.last) = found.ptr
  <1> DEFINE t == table
  <1>1. TableInv(t) /\ MapOf = MapIn(t)
    BY Seen DEF IInv
  <1>2. Api!Keys = Names(t)
    BY <1>1, MapFacts DEF Api!Keys
  <1>3. found = FIND_ENTRY(t, k)
    OBVIOUS
  <1> HIDE DEF t
  <1>4. /\ found.t = t
        /\ found.ptr = NIL => \A d \in Live(t) : t.elem[d].key /= k
        /\ found.ptr /= NIL => /\ found.ptr \in Live(t) /\ t.elem[found.ptr].key = k
                               /\ found.last \in Live(t) \union Bins(t)
                               /\ At(t, found.last) = found.ptr
    BY <1>1, <1>3, FindFacts
  <1>5. \A c \in Live(t) : t.elem[c].key \in Names(t) /\ MapIn(t)[t.elem[c].key] = t.elem[c].record
    BY <1>1, MapFacts
  <1>6. found.ptr = NIL => k \notin Names(t)
    BY <1>4 DEF Names, KeysOf
  <1> QED BY <1>1, <1>2, <1>4, <1>5, <1>6 DEF t

LEMMA ApiInsert ==
    ASSUME ~ ReorderFlag, IInv, IInv', NEW k \in Key, NEW v \in Val, NEW c \in Cell, Insert(k, v, c)
    PROVE  call' = "st_insert" /\ Api!Insert(k, v)
  <1> DEFINE found == FIND_ENTRY(table, k)
             ptr == found.ptr
  <1>1. /\ found.t = table
        /\ ptr = NIL => \A d \in Live(table) : table.elem[d].key /= k
        /\ ptr /= NIL => ptr \in Live(table) /\ table.elem[ptr].key = k
    BY Found
  <1>2. CASE ptr = NIL
    <2>1. Add(table, k, v, c) /\ slot' = slot /\ call' = "st_insert" /\ result' = <<0>>
      BY <1>1, <1>2 DEF Insert, Returns
    <2>2. v \in Val \union {NIL}
      OBVIOUS
    <2>3. Api!Add(k, v) /\ KeyIn(table', slot) = KeyIn(table, slot)
      BY <1>1, <1>2, <2>1, <2>2, ApiAdd
    <2>4. KeyOf(slot)' = KeyOf(slot)
      BY <2>1, <2>3, SeenStep
    <2> QED BY <2>1, <2>3, <2>4 DEF Api!Insert
  <1>3. CASE ptr /= NIL
    <2>1. /\ table' = [table EXCEPT !.elem[ptr].record = v] /\ UNCHANGED <<gen, each, slot>>
          /\ call' = "st_insert" /\ result' = <<1>>
      BY <1>1, <1>3 DEF Insert, Returns
    <2> HIDE DEF ptr
    <2>2. Api!Replace(table.elem[ptr].key, v) /\ UNCHANGED KeyOf(slot)
      BY <1>1, <1>3, <2>1, ApiReplace
    <2>3. Api!Replace(k, v)
      BY <1>1, <1>3, <2>2
    <2> QED BY <2>1, <2>2, <2>3 DEF Api!Insert
  <1> QED BY <1>2, <1>3

LEMMA ApiAddDirect ==
    ASSUME ~ ReorderFlag, IInv, IInv', NEW k \in Key, NEW v \in Val, NEW c \in Cell, AddDirect(k, v, c)
    PROVE  call' = "st_add_direct" /\ Api!Add(k, v) /\ result' = <<>> /\ UNCHANGED KeyOf(slot)
  <1>1. /\ FIND_ENTRY(table, k).ptr = NIL /\ Add(table, k, v, c) /\ slot' = slot
        /\ call' = "st_add_direct" /\ result' = <<>>
    BY DEF AddDirect, Returns
  <1>2. \A d \in Live(table) : table.elem[d].key /= k
    BY <1>1, Found
  <1>3. v \in Val \union {NIL}
    OBVIOUS
  <1>4. Api!Add(k, v) /\ KeyIn(table', slot) = KeyIn(table, slot)
    BY <1>1, <1>2, <1>3, ApiAdd
  <1>5. KeyOf(slot)' = KeyOf(slot)
    BY <1>1, <1>4, SeenStep
  <1> QED BY <1>1, <1>4, <1>5

LEMMA ApiFindOrAdd ==
    ASSUME ~ ReorderFlag, IInv, IInv', NEW k \in Key, NEW c \in Cell, FindOrAdd(k, c)
    PROVE  call' = "st_find_or_add" /\ Api!FindOrAdd(k)
  <1> DEFINE found == FIND_ENTRY(table, k)
             ptr == found.ptr
  <1>1. /\ found.t = table
        /\ ptr = NIL => \A d \in Live(table) : table.elem[d].key /= k
        /\ ptr /= NIL => k \in Api!Keys /\ ptr \in Live(table) /\ table.elem[ptr].key = k
    BY Found
  <1>2. KeyOf(slot)' = KeyIn(table', slot')
    BY SeenStep
  <1>3. CASE ptr = NIL
    <2>1. Add(table, k, NIL, c) /\ slot' = c /\ call' = "st_find_or_add" /\ result' = <<0>>
      BY <1>1, <1>3 DEF FindOrAdd, Returns
    <2>2. NIL \in Val \union {NIL}
      OBVIOUS
    <2>3. Api!Add(k, NIL) /\ KeyIn(table', c) = k
      BY <1>1, <1>3, <2>1, <2>2, ApiAdd
    <2> QED BY <1>2, <2>1, <2>3 DEF Api!FindOrAdd
  <1>4. CASE ptr /= NIL
    <2>1. UNCHANGED <<table, gen, each>> /\ slot' = ptr /\ call' = "st_find_or_add" /\ result' = <<1>>
      BY <1>1, <1>4 DEF FindOrAdd, Returns
    <2>2. UNCHANGED <<MapOf, table.num_bins, [g \in Gen |-> OwedTo(g)], EachOf>>
      BY <2>1, ApiStill
    <2>3. KeyIn(table', slot') = k
      BY <1>1, <1>4, <2>1 DEF KeyIn
    <2> HIDE DEF ptr
    <2> QED BY <1>1, <1>2, <1>4, <2>1, <2>2, <2>3 DEF Api!FindOrAdd
  <1> QED BY <1>3, <1>4

LEMMA ApiFind ==
    ASSUME ~ ReorderFlag, IInv, IInv', NEW k \in Key, Find(k)
    PROVE  call' = "st_find" /\ Api!Find(k)
  <1> DEFINE found == FIND_ENTRY(table, k)
             ptr == found.ptr
  <1>1. /\ found.t = table
        /\ ptr = NIL => k \notin Api!Keys
        /\ ptr /= NIL => k \in Api!Keys /\ ptr \in Live(table) /\ table.elem[ptr].key = k
    BY Found
  <1>2. /\ UNCHANGED <<table, gen, each>> /\ call' = "st_find"
        /\ ptr = NIL => result' = <<0>> /\ slot' = slot
        /\ ptr /= NIL => result' = <<1>> /\ slot' = ptr
    BY <1>1 DEF Find, Returns
  <1>3. /\ UNCHANGED <<MapOf, table.num_bins, [g \in Gen |-> OwedTo(g)], EachOf>>
        /\ KeyOf(slot)' = KeyIn(table, slot')
    BY <1>2, ApiStill
  <1>4. KeyOf(slot) = KeyIn(table, slot)
    BY SeenStep
  <1> HIDE DEF ptr
  <1>5. ptr /= NIL => KeyIn(table, ptr) = k
    BY <1>1 DEF KeyIn
  <1>6. KeyOf(slot)' = IF k \in Api!Keys THEN k ELSE KeyOf(slot)
    BY <1>1, <1>2, <1>3, <1>4, <1>5
  <1>7. result' = IF k \in Api!Keys THEN <<1>> ELSE <<0>>
    BY <1>1, <1>2
  <1> QED BY <1>2, <1>3, <1>6, <1>7 DEF Api!Find

LEMMA ApiLookup ==
    ASSUME ~ ReorderFlag, IInv, IInv', NEW k \in Key, Lookup(k)
    PROVE  call' = "st_lookup" /\ Api!Lookup(k)
  <1> DEFINE found == FIND_ENTRY(table, k)
             ptr == found.ptr
  <1>1. /\ found.t = table
        /\ ptr = NIL => k \notin Api!Keys
        /\ ptr /= NIL => k \in Api!Keys /\ MapOf[k] = table.elem[ptr].record
    BY Found
  <1>2. /\ UNCHANGED <<table, gen, each, slot>> /\ call' = "st_lookup"
        /\ ptr = NIL => result' = <<0>>
        /\ ptr /= NIL => result' = <<1, table.elem[ptr].record>>
    BY <1>1 DEF Lookup, Returns
  <1>3. /\ UNCHANGED <<MapOf, table.num_bins, [g \in Gen |-> OwedTo(g)], EachOf>>
        /\ KeyOf(slot)' = KeyIn(table, slot')
    BY <1>2, ApiStill
  <1>4. KeyOf(slot)' = KeyOf(slot)
    BY <1>2, <1>3, SeenStep
  <1> HIDE DEF ptr
  <1>5. result' = IF k \in Api!Keys THEN <<1, MapOf[k]>> ELSE <<0>>
    BY <1>1, <1>2
  <1> QED BY <1>2, <1>3, <1>4, <1>5 DEF Api!Lookup

LEMMA ApiAssignSlot ==
    ASSUME IInv, IInv', NEW v \in Val, AssignSlot(v)
    PROVE  call' = "*slot" /\ Api!AssignSlot(v)
  <1> DEFINE c == slot
  <1>1. /\ c \in Live(table) /\ table' = [table EXCEPT !.elem[c].record = v] /\ UNCHANGED <<gen, each, slot>>
        /\ call' = "*slot" /\ result' = <<>>
    BY DEF AssignSlot, IInv, Returns
  <1>2. KeyOf(slot) = KeyIn(table, c) /\ TableInv(table)
    BY SeenStep
  <1> HIDE DEF c
  <1>3. Api!Replace(table.elem[c].key, v) /\ UNCHANGED KeyOf(slot)
    BY <1>1, ApiReplace
  <1>4. table.elem[c].key \in Key /\ NIL \notin Live(table)
    BY <1>1, <1>2, InvFacts
  <1>5. KeyOf(slot) = table.elem[c].key
    BY <1>1, <1>2, <1>4 DEF KeyIn
  <1>6. KeyOf(slot) /= NIL
    BY <1>4, <1>5, StAssumption
  <1>7. Api!Replace(KeyOf(slot), v)
    BY <1>3, <1>5
  <1> QED BY <1>1, <1>3, <1>6, <1>7 DEF Api!AssignSlot

LEMMA ApiDelete ==
    ASSUME ~ ReorderFlag, IInv, IInv', NEW k \in Key, Delete(k)
    PROVE  call' = "st_delete" /\ Api!Delete(k)
  <1> DEFINE found == FIND_ENTRY(table, k)
             c == found.ptr
             place == found.last
  <1>1. /\ found.t = table
        /\ c = NIL => k \notin Api!Keys
        /\ c /= NIL => /\ k \in Api!Keys /\ MapOf[k] = table.elem[c].record
                       /\ c \in Live(table) /\ table.elem[c].key = k
                       /\ place \in Live(table) \union Bins(table) /\ At(table, place) = c
    BY Found
  <1>2. CASE c = NIL
    <2>1. UNCHANGED <<table, gen, each, slot>> /\ call' = "st_delete" /\ result' = <<0>>
      BY <1>2 DEF Delete, Returns
    <2>2. /\ UNCHANGED <<MapOf, table.num_bins, [g \in Gen |-> OwedTo(g)], EachOf>>
          /\ KeyOf(slot)' = KeyIn(table, slot')
      BY <2>1, ApiStill
    <2>3. KeyOf(slot)' = KeyOf(slot)
      BY <2>1, <2>2, SeenStep
    <2> HIDE DEF c
    <2> QED BY <1>1, <1>2, <2>1, <2>2, <2>3 DEF Api!Delete
  <1>3. CASE c /= NIL
    <2>1. /\ each = NIL /\ each' = NIL /\ MayDelete(k) /\ table' = Unlink(table, place, c)
          /\ slot' = Forgotten(c) /\ UNCHANGED gen
          /\ call' = "st_delete" /\ result' = <<1, table.elem[c].key, table.elem[c].record>>
      BY <1>1, <1>3 DEF Delete, Returns
    <2> HIDE DEF c, place, found
    <2>2. MayDelete(table.elem[c].key)
      BY <1>1, <1>3, <2>1
    <2>3. Api!Without(table.elem[c].key) /\ UNCHANGED table.num_bins
      BY <1>1, <1>3, <2>1, <2>2, ApiWithout
    <2>4. EachOf' = EachOf
      BY <2>1, SeenStep DEF EachIn
    <2>5. result' = <<1, k, MapOf[k]>> /\ Api!Without(k)
      BY <1>1, <1>3, <2>1, <2>3
    <2> QED BY <1>1, <1>3, <2>1, <2>3, <2>4, <2>5 DEF Api!Delete
  <1> QED BY <1>2, <1>3

LEMMA ApiCopy ==
    ASSUME IInv, IInv', Copy
    PROVE  call' = "st_copy" /\ Api!Copy
  <1> DEFINE t == table
             m == table'
  <1>1. /\ each = NIL /\ (\A g \in Gen : gen[g] = NIL) /\ m = st_copy(t) /\ slot' = NIL
        /\ gen' = gen /\ each' = each /\ call' = "st_copy" /\ result' = <<>>
    BY DEF Copy, IsOpen, Returns
  <1>2. /\ TableInv(t) /\ TableInv(m) /\ MapOf = MapIn(t) /\ MapOf' = MapIn(m)
        /\ [g \in Gen |-> OwedTo(g)] = [g \in Gen |-> OwedIn(t, gen[g])]
        /\ [g \in Gen |-> OwedTo(g)]' = [g \in Gen |-> OwedIn(m, gen'[g])]
        /\ EachOf = EachIn(t, each) /\ EachOf' = EachIn(m, each')
        /\ KeyOf(slot)' = KeyIn(m, slot')
    BY SeenStep
  <1>3. m.num_bins = t.num_bins /\ MapIn(m) = MapIn(t)
    <2> HIDE DEF t, m
    <2>1. TableInv(m) /\ m.num_bins = t.num_bins /\ SameEntries(m, t)
      BY <1>1, <1>2, CopyKeeps
    <2> QED BY <1>2, <2>1, MapSame
  <1>4. \A g \in Gen : OwedIn(t, gen[g]) = NIL /\ OwedIn(m, gen'[g]) = NIL
    BY <1>1 DEF OwedIn
  <1>5. EachIn(t, each) = NIL /\ EachIn(m, each') = NIL /\ KeyIn(m, slot') = NIL
    BY <1>1 DEF EachIn, KeyIn
  <1>6. UNCHANGED [g \in Gen |-> OwedTo(g)]
    <2> HIDE DEF t, m
    <2> QED BY <1>2, <1>4
  <1> QED BY <1>1, <1>2, <1>3, <1>5, <1>6 DEF Api!Copy

-----------------------------------------------------------------------------
(* The refinement.                                                         *)

LEMMA InitRefines == Init => Api!AInit
  <1> SUFFICES ASSUME Init
               PROVE  Api!AInit
    OBVIOUS
  <1>1. /\ table = st_init_table /\ gen = [g \in Gen |-> NIL] /\ each = NIL /\ slot = NIL
        /\ call = "st_init_table" /\ result = <<>>
    BY DEF Init
  <1>2. IInv
    BY InitIInv
  <1>3. /\ MapOf = MapIn(table) /\ EachOf = EachIn(table, each) /\ KeyOf(slot) = KeyIn(table, slot)
        /\ \A g \in Gen : OwedTo(g) = OwedIn(table, gen[g])
    BY <1>2, Seen
  <1>4. table.num_bins = InitBins /\ Live(table) = {}
    BY <1>1 DEF st_init_table, Live
  <1>5. MapOf = [k \in {} |-> NIL]
    <2>1. Names(table) = {}
      BY <1>4 DEF Names, KeysOf
    <2>2. MapIn(table) = [k \in {} |-> MapIn(table)[k]]
      BY <2>1 DEF MapIn
    <2>3. [k \in {} |-> MapIn(table)[k]] = [k \in {} |-> NIL]
      OBVIOUS
    <2> QED BY <1>3, <2>2, <2>3
  <1>6. [g \in Gen |-> OwedTo(g)] = [g \in Gen |-> NIL]
    BY <1>1, <1>3 DEF OwedIn
  <1>7. EachOf = NIL /\ KeyOf(slot) = NIL
    BY <1>1, <1>3 DEF EachIn, KeyIn
  <1> QED BY <1>1, <1>4, <1>5, <1>6, <1>7 DEF Api!AInit

LEMMA TableRefines ==
    ASSUME ~ ReorderFlag, IInv, IInv', TableCall
    PROVE  Api!TableCall
  <1>1. ASSUME NEW k \in Key, NEW v \in Val, NEW c \in Cell, Insert(k, v, c)
        PROVE  Api!TableCall
    BY <1>1, ApiInsert DEF Api!TableCall
  <1>2. ASSUME NEW k \in Key, NEW v \in Val, NEW c \in Cell, AddDirect(k, v, c)
        PROVE  Api!TableCall
    BY <1>2, ApiAddDirect DEF Api!TableCall
  <1>3. ASSUME NEW k \in Key, NEW c \in Cell, FindOrAdd(k, c)
        PROVE  Api!TableCall
    BY <1>3, ApiFindOrAdd DEF Api!TableCall
  <1>4. ASSUME NEW k \in Key, Find(k)
        PROVE  Api!TableCall
    BY <1>4, ApiFind DEF Api!TableCall
  <1>5. ASSUME NEW k \in Key, Lookup(k)
        PROVE  Api!TableCall
    BY <1>5, ApiLookup DEF Api!TableCall
  <1>6. ASSUME NEW k \in Key, Delete(k)
        PROVE  Api!TableCall
    BY <1>6, ApiDelete DEF Api!TableCall
  <1>7. ASSUME NEW v \in Val, AssignSlot(v)
        PROVE  Api!TableCall
    BY <1>7, ApiAssignSlot DEF Api!TableCall
  <1>8. CASE Copy
    BY <1>8, ApiCopy DEF Api!TableCall
  <1>9. CASE ForEach
    BY <1>9, ApiForEach DEF Api!TableCall
  <1>10. CASE Continue
    BY <1>10, ApiContinue DEF Api!TableCall
  <1>11. CASE Stop
    BY <1>11, ApiStop DEF Api!TableCall
  <1>12. CASE DeleteGiven
    BY <1>12, ApiDeleteGiven DEF Api!TableCall
  <1> QED BY <1>1, <1>2, <1>3, <1>4, <1>5, <1>6, <1>7, <1>8, <1>9, <1>10, <1>11, <1>12 DEF TableCall

LEMMA StepRefines ==
    ASSUME ~ ReorderFlag, IInv, IInv', [TableCall \/ \E g \in Gen : GenCall(g)]_vars
    PROVE  [Api!TableCall \/ \E g \in Gen : Api!GenCall(g)]_Api!avars
  <1>1. CASE UNCHANGED vars
    <2>1. UNCHANGED <<table, gen, each, slot, call, result>>
      BY <1>1 DEF vars
    <2>2. /\ UNCHANGED <<MapOf, table.num_bins, [g \in Gen |-> OwedTo(g)], EachOf>>
          /\ KeyOf(slot)' = KeyIn(table, slot')
      BY <2>1, ApiStill
    <2>3. KeyOf(slot)' = KeyOf(slot)
      BY <2>1, <2>2, SeenStep
    <2> QED BY <2>1, <2>2, <2>3 DEF Api!avars
  <1> QED BY <1>1, TableRefines, GenRefines

\* Without reorder_flag the hash table implements StApi: whatever the hash
\* function, the sizes and the number of entries, every call does to the map
\* what it promises and returns what it promises, and a walk gives each entry
\* that is there once as long as the table does not grow under it.
THEOREM PromiseKept ==
    ASSUME ~ ReorderFlag
    PROVE  Spec => KeepsPromise
  <1> USE ~ ReorderFlag
  <1>1. Init => Api!AInit
    BY InitRefines
  <1>2. IInv /\ IInv' /\ [TableCall \/ \E g \in Gen : GenCall(g)]_vars
          => [Api!TableCall \/ \E g \in Gen : Api!GenCall(g)]_Api!avars
    BY StepRefines
  <1>3. Spec => []IInv
    BY IInvHolds
  <1> QED BY <1>1, <1>2, <1>3, PTL DEF Spec, KeepsPromise, Api!Spec

=============================================================================
