-------------------------------- MODULE BddGc --------------------------------
(***************************************************************************)
(* The heap of the UC Berkeley BDD package (sis/bdd_ucb) as its unique     *)
(* table and its stop-and-copy garbage collector see it: cells in two half *)
(* spaces, root pointers, the hash table that makes nodes unique, and the  *)
(* caches, which are not roots.                                            *)
(*                                                                         *)
(* The BDD algorithms are abstracted to what they may do to the heap: hold *)
(* in a root any pointer they can come by, ask bdd_find_or_add for a node, *)
(* and put entries in a cache.  A collection runs one relocation at a time,*)
(* between the miss of bdd_find_or_add and the node it then adds.          *)
(***************************************************************************)
EXTENDS BddPtr, Naturals, FiniteSets

CONSTANTS
    HalfOf,           \* the half space of each cell, 0 or 1
    VarId,            \* the variables, in their order
    ONE_ID,           \* BDD_ONE_ID, after every variable
    BROKEN_HEART_ID,  \* BDD_BROKEN_HEART_ID, the mark of a forwarded cell
    Loc,              \* the places that hold root pointers
    OneLoc,           \* manager->bdd.one
    ArgT, ArgE,       \* the arguments of bdd_find_or_add in its safe frame
    Frame,            \* the roots that are in safe frames, the others being
                      \* external pointers and manager->bdd.one
    Slot,             \* the pointers of a cache entry: its key and its value
    MaxEntries        \* bound: entries in the caches

HalfSpace(h) == {c \in Cell : HalfOf[c] = h}

Node == [id: VarId \union {ONE_ID, BROKEN_HEART_ID}, T: PtrOrNIL, E: PtrOrNIL]

\* Blocks of nodes are added in pairs, one to each half.
ASSUME GcAssumption ==
    /\ HalfOf \in [Cell -> {0, 1}]
    /\ IsFiniteSet(Cell)
    /\ Cardinality(HalfSpace(0)) = Cardinality(HalfSpace(1))
    /\ VarId \subseteq Nat
    /\ ONE_ID \in Nat /\ \A v \in VarId : v < ONE_ID
    /\ BROKEN_HEART_ID \in Nat \ (VarId \union {ONE_ID})
    /\ {OneLoc, ArgT, ArgE} \subseteq Loc
    /\ {ArgT, ArgE} \subseteq Frame /\ Frame \subseteq Loc \ {OneLoc}
    /\ NIL \notin VarId /\ NIL \notin Node
    /\ MaxEntries \in Nat

ASSUME RootsAssumption == IsFiniteSet(Loc)

VARIABLES
    mem,        \* the contents of every cell
    half,       \* heap.gc.halfspace, the half that is allocated from
    used,       \* the cells of it that hold nodes
    table,      \* the contents a cell is linked in the hash table under, or NIL
    root,       \* the root pointers
    weak,       \* the entries of the caches
    pend,       \* the variable bdd_find_or_add is adding a node of, or NIL
    phase,      \* where the collector is; "mutator" when it is not running
    todo,       \* the roots it has still to relocate
    rawT, rawE, \* copies whose T, whose E, is as it was in the other half
    pre         \* history: the heap as it was when the collection began

vars == <<mem, half, used, table, root, weak, pend, phase, todo, rawT, rawE, pre>>

heapVars == <<mem, half, used, table>>
gcVars == <<phase, todo, rawT, rawE, pre>>

Entry == [Slot -> PtrOrNIL]

OneNode == [id |-> ONE_ID, T |-> NIL, E |-> NIL]

\* The contents of a cell that holds no node: never read, hence arbitrary.
Blank == [id |-> BROKEN_HEART_ID, T |-> NIL, E |-> NIL]

Free == HalfSpace(half) \ used

-----------------------------------------------------------------------------
(* Broken hearts.                                                          *)

BROKEN_HEART(c) == mem[c].id = BROKEN_HEART_ID

FORWARD_POINTER(c) == mem[c].T

\* A slip: the pointer that leads to the copy loses its sign.
ForwardedUnsigned(p) == IF p = NIL THEN NIL ELSE FORWARD_POINTER(p.cell)

\* What relocate makes of a pointer whose cell is a broken heart, or of NIL.
Forwarded(p) ==
    IF p = NIL THEN NIL ELSE Flip(p.neg, FORWARD_POINTER(p.cell))

\* relocate can do without a new cell.
Settled(p) == IF p = NIL THEN TRUE ELSE BROKEN_HEART(p.cell)

\* A slip: no broken heart is left, and the next reference copies again.
MovedMemUnmarked(c, n) == [mem EXCEPT ![n] = mem[c]]

\* relocate moves the node of c to n and leaves a broken heart behind.
MovedMem(c, n) ==
    [mem EXCEPT ![n] = mem[c],
                ![c] = [id |-> BROKEN_HEART_ID, T |-> Reg(n), E |-> mem[c].E]]

-----------------------------------------------------------------------------
(* bdd_start: the one node, created before any other.                      *)

Init ==
    \E c \in Cell :
        /\ HalfOf[c] = 0
        /\ half = 0
        /\ mem = [x \in Cell |-> IF x = c THEN OneNode ELSE Blank]
        /\ used = {c}
        /\ table = [x \in Cell |-> IF x = c THEN OneNode ELSE NIL]
        /\ root = [l \in Loc |-> IF l = OneLoc THEN Reg(c) ELSE NIL]
        /\ weak = {}
        /\ pend = NIL
        /\ phase = "mutator" /\ todo = {} /\ rawT = {} /\ rawE = {}
        /\ pre = NIL

-----------------------------------------------------------------------------
(* The algorithms.                                                         *)

Held == {root[l] : l \in Loc} \ {NIL}

Children == ({mem[p.cell].T : p \in Held} \union {mem[p.cell].E : p \in Held}) \ {NIL}

CachedPtrs == {e[s] : e \in weak, s \in Slot} \ {NIL}

\* The pointers an algorithm can come by: those it holds, the branches of
\* the nodes it holds, what a cache lookup returns, and their complements.
Obtainable ==
    LET P == Held \union Children \union CachedPtrs
    IN P \union {NOT(p) : p \in P} \union {NIL}

Running == phase = "mutator" /\ pend = NIL

\* A routine assigns its safe nodes, opens or closes a frame, or the user
\* gets or frees an external pointer.
Mutate ==
    /\ Running
    /\ root' \in [Loc -> Obtainable]
    /\ root'[OneLoc] = root[OneLoc]
    /\ UNCHANGED <<heapVars, weak, pend, gcVars>>

\* The same, one root at a time.
Assign(l, p) ==
    /\ Running
    /\ l /= OneLoc /\ p \in Obtainable
    /\ root' = [root EXCEPT ![l] = p]
    /\ UNCHANGED <<heapVars, weak, pend, gcVars>>

\* The variable a pointer's function depends on first.
Top(p) == mem[p.cell].id

Wanted(id) == [id |-> id, T |-> root[ArgT], E |-> root[ArgE]]

\* What every caller of bdd_find_or_add makes sure of.
Proper(n) ==
    /\ n.T /= NIL /\ n.E /= NIL
    /\ ~IS_COMPLEMENT(n.T)
    /\ n.T /= n.E
    /\ n.id < Top(n.T) /\ n.id < Top(n.E)

\* The nodes a search of the chain of n's bucket finds.
Found(n) == {c \in Cell : table[c] = n /\ mem[c] = n}

FindOrAddHit(id, l) ==
    /\ Running
    /\ l /= OneLoc
    /\ Proper(Wanted(id))
    /\ \E c \in Found(Wanted(id)) : root' = [root EXCEPT ![l] = Reg(c)]
    /\ UNCHANGED <<heapVars, weak, pend, gcVars>>

\* Not there: from here to AddNode the code is inside bdd_new_node.
FindOrAddMiss(id) ==
    /\ Running
    /\ Proper(Wanted(id))
    /\ Found(Wanted(id)) = {}
    /\ pend' = id
    /\ UNCHANGED <<heapVars, root, weak, gcVars>>

\* bdd_new_node has a cell; the node is linked where its contents hash now,
\* without another search.
AddNode(l) ==
    /\ phase = "mutator" /\ pend /= NIL
    /\ l /= OneLoc
    /\ \E c \in Free :
        /\ mem' = [mem EXCEPT ![c] = Wanted(pend)]
        /\ used' = used \union {c}
        /\ table' = [table EXCEPT ![c] = Wanted(pend)]
        /\ root' = [root EXCEPT ![l] = Reg(c)]
    /\ pend' = NIL
    /\ UNCHANGED <<half, weak, gcVars>>

\* A cache takes an entry made of pointers its caller holds, over the one
\* in its bucket; a resize or a table that is full may cost others.
CacheInsert(e, lost) ==
    /\ Running
    /\ Cardinality((weak \ lost) \union {e}) <= MaxEntries
    /\ weak' = (weak \ lost) \union {e}
    /\ UNCHANGED <<heapVars, root, pend, gcVars>>

\* A table is thrown away.
CacheDrop(lost) ==
    /\ phase = "mutator"
    /\ weak' = weak \ lost
    /\ UNCHANGED <<heapVars, root, pend, gcVars>>

-----------------------------------------------------------------------------
(* bdd_garbage_collect.                                                    *)

\* A slip: the E argument of bdd_find_or_add is not linked in its frame.
Flip_spacesUnlinked(newRoot, newPend) ==
    /\ phase = "mutator" /\ pend /= NIL
    /\ root' = newRoot
    /\ pend' = newPend
    /\ half' = 1 - half
    /\ used' = {}
    /\ pre' = [mem |-> mem, used |-> used, root |-> newRoot, weak |-> weak]
    /\ phase' = "roots"
    /\ todo' = {l \in Loc \ {ArgE} : newRoot[l] /= NIL}
    /\ UNCHANGED <<mem, table, weak, rawT, rawE>>

\* A slip: the count of used nodes is not reset.
Flip_spacesUsed(newRoot, newPend) ==
    /\ phase = "mutator" /\ pend /= NIL
    /\ root' = newRoot
    /\ pend' = newPend
    /\ half' = 1 - half
    /\ pre' = [mem |-> mem, used |-> used, root |-> newRoot, weak |-> weak]
    /\ phase' = "roots"
    /\ todo' = {l \in Loc : newRoot[l] /= NIL}
    /\ UNCHANGED <<mem, used, table, weak, rawT, rawE>>

\* flip_spaces: the other half becomes the one to allocate from, all free.
Flip_spaces(newRoot, newPend) ==
    /\ phase = "mutator" /\ pend /= NIL
    /\ root' = newRoot
    /\ pend' = newPend
    /\ half' = 1 - half
    /\ used' = {}
    /\ pre' = [mem |-> mem, used |-> used, root |-> newRoot, weak |-> weak]
    /\ phase' = "roots"
    /\ todo' = {l \in Loc : newRoot[l] /= NIL}
    /\ UNCHANGED <<mem, table, weak, rawT, rawE>>

\* get_node_block finds no free cell.
StartGc == Flip_spaces(root, pend)

\* The memory limit: bdd_will_exceed_mem_limit forgets the safe frames and
\* collects, before the daemon abandons the computation.
AbortGc == Flip_spaces([l \in Loc |-> IF l \in Frame THEN NIL ELSE root[l]], NIL)

\* The copy n is raw until scan_newhalf has been over it.
Copy(n) ==
    /\ used' = used \union {n}
    /\ rawT' = rawT \union {n}
    /\ rawE' = rawE \union {n}

\* scan_manager relocates one root.
RelocateRoot(l) ==
    /\ phase = "roots" /\ l \in todo
    /\ todo' = todo \ {l}
    /\ \/ /\ Settled(root[l])
          /\ root' = [root EXCEPT ![l] = Forwarded(root[l])]
          /\ UNCHANGED <<mem, used, rawT, rawE>>
       \/ /\ ~Settled(root[l])
          /\ \E n \in Free :
                /\ mem' = MovedMem(root[l].cell, n)
                /\ root' = [root EXCEPT ![l] = Flip(root[l].neg, Reg(n))]
                /\ Copy(n)
    /\ UNCHANGED <<half, table, weak, pend, phase, pre>>

\* A slip: the nodes the hash table holds are taken for roots.
ResetTableAsRoots ==
    /\ phase = "roots" /\ todo = {}
    /\ LET unmoved == {c \in Cell : table[c] /= NIL /\ ~BROKEN_HEART(c)}
       IN IF unmoved = {}
          THEN /\ phase' = "scan"
               /\ table' = [c \in Cell |-> NIL]
               /\ UNCHANGED <<mem, used, rawT, rawE>>
          ELSE /\ \E c \in unmoved, n \in Free : mem' = MovedMem(c, n) /\ Copy(n)
               /\ UNCHANGED <<phase, table>>
    /\ UNCHANGED <<half, root, weak, pend, todo, pre>>

\* A slip: the old chains are left in the table.
ResetTableSkipped ==
    /\ phase = "roots" /\ todo = {}
    /\ phase' = "scan"
    /\ UNCHANGED <<mem, half, used, table, root, weak, pend, todo, rawT, rawE, pre>>

\* The hash table is emptied; scan_newhalf links the nodes anew.
ResetTable ==
    /\ phase = "roots" /\ todo = {}
    /\ phase' = "scan"
    /\ table' = [c \in Cell |-> NIL]
    /\ UNCHANGED <<mem, half, used, root, weak, pend, todo, rawT, rawE, pre>>

\* scan_newhalf relocates T of a copy ...
ScanT(c) ==
    /\ phase = "scan" /\ c \in rawT
    /\ \/ /\ Settled(mem[c].T)
          /\ mem' = [mem EXCEPT ![c].T = Forwarded(mem[c].T)]
          /\ rawT' = rawT \ {c}
          /\ UNCHANGED <<used, rawE>>
       \/ /\ ~Settled(mem[c].T)
          /\ \E n \in Free :
                /\ mem' = [MovedMem(mem[c].T.cell, n)
                             EXCEPT ![c].T = Flip(mem[c].T.neg, Reg(n))]
                /\ used' = used \union {n}
                /\ rawT' = (rawT \ {c}) \union {n}
                /\ rawE' = rawE \union {n}
    /\ UNCHANGED <<half, table, root, weak, pend, phase, todo, pre>>

\* ... then its E, and links it in the table.
ScanE(c) ==
    /\ phase = "scan" /\ c \in rawE \ rawT
    /\ \/ /\ Settled(mem[c].E)
          /\ mem' = [mem EXCEPT ![c].E = Forwarded(mem[c].E)]
          /\ rawE' = rawE \ {c}
          /\ UNCHANGED <<used, rawT>>
       \/ /\ ~Settled(mem[c].E)
          /\ \E n \in Free :
                /\ mem' = [MovedMem(mem[c].E.cell, n)
                             EXCEPT ![c].E = Flip(mem[c].E.neg, Reg(n))]
                /\ used' = used \union {n}
                /\ rawT' = rawT \union {n}
                /\ rawE' = (rawE \ {c}) \union {n}
    /\ table' = [table EXCEPT ![c] = mem'[c]]
    /\ UNCHANGED <<half, root, weak, pend, phase, todo, pre>>

\* A slip: one forwarded pointer is enough.
KeptIfAny(e) == \E s \in Slot : e[s] /= NIL /\ BROKEN_HEART(e[s].cell)

\* An entry is kept when every one of its pointers was forwarded; the value
\* of an entry of the adhoc cache may be NIL.
Kept(e) == \A s \in Slot : Settled(e[s])

RelocatedEntry(e) == [s \in Slot |-> Forwarded(e[s])]

\* scan_cache, and the end of the collection.  An entry that finds its new
\* bucket taken is lost.
ScanCache ==
    /\ phase = "scan" /\ rawE = {}
    /\ weak' \in SUBSET {RelocatedEntry(e) : e \in {x \in weak : Kept(x)}}
    /\ mem' = [c \in Cell |-> IF c \in used THEN mem[c] ELSE Blank]
    /\ phase' = "mutator"
    /\ pre' = NIL
    /\ UNCHANGED <<half, used, table, root, pend, todo, rawT, rawE>>

-----------------------------------------------------------------------------

FindOrAdd ==
    \/ \E id \in VarId, l \in Loc : FindOrAddHit(id, l)
    \/ \E id \in VarId : FindOrAddMiss(id)
    \/ \E l \in Loc : AddNode(l)

Caching ==
    \/ \E e \in [Slot -> Held \union {NIL}], lost \in SUBSET weak : CacheInsert(e, lost)
    \/ \E lost \in SUBSET weak : CacheDrop(lost)

Collect ==
    \/ \E l \in Loc : RelocateRoot(l)
    \/ ResetTable
    \/ \E c \in Cell : ScanT(c)
    \/ \E c \in Cell : ScanE(c)
    \/ ScanCache

Next ==
    \/ Mutate
    \/ FindOrAdd
    \/ Caching
    \/ StartGc
    \/ AbortGc
    \/ Collect

Spec == Init /\ [][Next]_vars

-----------------------------------------------------------------------------
(* Properties.                                                             *)

Heap == [mem: [Cell -> Node], used: SUBSET Cell,
         root: [Loc -> PtrOrNIL], weak: SUBSET Entry]

TypeOK ==
    /\ mem \in [Cell -> Node]
    /\ half \in {0, 1}
    /\ used \subseteq HalfSpace(half)
    /\ table \in [Cell -> Node \union {NIL}]
    /\ root \in [Loc -> PtrOrNIL]
    /\ weak \subseteq Entry
    /\ pend \in VarId \union {NIL}
    /\ phase \in {"mutator", "roots", "scan"}
    /\ todo \subseteq Loc
    /\ rawT \subseteq used /\ rawE \subseteq used
    /\ pre \in Heap \union {NIL}

\* The pointers of n other than NIL refer to cells of C.
Closed(n, C) == \A p \in {n.T, n.E} \ {NIL} : p.cell \in C

(* The algorithms never hold, and can never come by, a pointer to a cell   *)
(* that holds no node: not in a root, not as a branch, not from a cache.   *)
(* That is the purpose of the safe frames, and of dropping the cache       *)
(* entries that a collection does not forward as a whole.                  *)
NoDangling ==
    phase = "mutator" =>
        /\ \A p \in Held \union CachedPtrs : p.cell \in used
        /\ \A c \in used : Closed(mem[c], used)

(* Two nodes are never equal, so that equal functions have equal pointers; *)
(* and the table finds exactly the nodes there are, where their contents   *)
(* hash now.                                                               *)
Unique ==
    phase = "mutator" =>
        /\ \A c, d \in used : mem[c] = mem[d] => c = d
        /\ \A c \in Cell : table[c] = IF c \in used THEN mem[c] ELSE NIL

(* bdd_find_or_add searches, may collect, and adds without searching       *)
(* again: what it adds is still not there, and its branches, which the     *)
(* collection moved, are nodes and still in order.                         *)
StillNew ==
    (phase = "mutator" /\ pend /= NIL) =>
        /\ Closed(Wanted(pend), used)
        /\ Proper(Wanted(pend))
        /\ \A c \in used : mem[c] /= Wanted(pend)

(* Along every branch the variables increase, T is regular and T differs   *)
(* from E; the only node without branches is the constant.                 *)
Ordered ==
    phase = "mutator" =>
        \A c \in used : IF c = root[OneLoc].cell THEN mem[c] = OneNode
                                               ELSE Proper(mem[c])

\* Where a collection has put a pointer of the heap it began with.
MovedPtr(p) == IF p = NIL THEN NIL ELSE Flip(p.neg, FORWARD_POINTER(p.cell))

MovedNode(n) == [id |-> n.id, T |-> MovedPtr(n.T), E |-> MovedPtr(n.E)]

Survivors == {c \in pre.used : BROKEN_HEART(c)}

(* When a collection ends, every root stands for what it stood for, node   *)
(* for node: the heap reached from the roots has been copied faithfully,   *)
(* complement marks included, and each node once.                          *)
Faithful ==
    (phase = "scan" /\ rawE = {}) =>
        /\ \A l \in Loc : /\ Settled(pre.root[l])
                          /\ root[l] = MovedPtr(pre.root[l])
        /\ \A c \in Survivors :
              /\ Settled(pre.mem[c].T) /\ Settled(pre.mem[c].E)
              /\ FORWARD_POINTER(c).cell \in used
              /\ mem[FORWARD_POINTER(c).cell] = MovedNode(pre.mem[c])
        /\ \A c, d \in Survivors : FORWARD_POINTER(c) = FORWARD_POINTER(d) => c = d

\* A set of cells that contains every root and is closed under branches.
Retains(C) ==
    /\ \A p \in Held : p.cell \in C
    /\ \A c \in C : Closed(mem[c], C)

(* A collection keeps nothing else.                                        *)
CollectsGarbage ==
    (phase = "scan" /\ rawE = {}) =>
        \A C \in SUBSET used : Retains(C) => C = used

\* A relocation that is due needs a cell.
NeedsCell ==
    \/ \E l \in todo : ~Settled(root[l])
    \/ phase = "scan" /\ \E c \in rawT : ~Settled(mem[c].T)
    \/ phase = "scan" /\ \E c \in rawE : ~Settled(mem[c].E)

(* "It should never occur that we are during gc and the free list is       *)
(* empty" (new_node.c:63): the other half always has room for the copies.  *)
NeverStarves == NeedsCell => Free /= {}

\* The nodes of the old half that have not been copied.
Unmoved == {c \in pre.used : ~BROKEN_HEART(c)}

\* What a collection has before it: to copy a node is a step, and makes two
\* more, one for each of its branches.
Remaining ==
    IF phase = "mutator" THEN 0
    ELSE 3 * Cardinality(Unmoved) + Cardinality(todo) + Cardinality(rawT) + Cardinality(rawE)
           + (IF phase = "roots" THEN 2 ELSE 1)

(* A collection ends, although scanning a copy can add copies to be        *)
(* scanned: every step it takes leaves fewer to take, because a node is    *)
(* marked when it is copied.                                               *)
CollectionAdvances == [][phase /= "mutator" => Remaining' < Remaining]_vars

=============================================================================
