------------------------------ MODULE BddEngine ------------------------------
(***************************************************************************)
(* The operations of sis/bdd_ucb on external pointers: the recursion of    *)
(* bdd__ITE_ with its safe frames, bdd_find_or_add, the ITE cache, and the *)
(* collection or the abandoned computation a new node may lead to.         *)
(*                                                                         *)
(* A node is named by its contents.  BddGc shows that contents identify a  *)
(* node and that a collection preserves the names of those it keeps; what  *)
(* it may do to a pointer nobody protected is to leave it referring to a   *)
(* node that is no longer in the heap.  Addresses decide nothing here but  *)
(* the order of two nodes of one variable, which is left open.             *)
(***************************************************************************)
EXTENDS Naturals, Sequences, FiniteSets

CONSTANTS
    Handle,     \* the external pointers
    NumVars,    \* manager->bdd.nvariables
    MaxNodes,   \* the nodes a half space holds when the memory limit is reached
    NIL

ASSUME EngineAssumption == NumVars \in Nat /\ MaxNodes \in Nat \ {0}

Var == 0 .. NumVars - 1

ONE_ID == NumVars

OneNode == [id |-> ONE_ID, T |-> NIL, E |-> NIL]

\* The nodes whose variables are from i on: T is regular, and differs from E.
NodesFrom[i \in 0 .. ONE_ID] ==
    IF i = ONE_ID THEN {OneNode}
    ELSE LET below == NodesFrom[i + 1]
             branch == [cell: below, neg: BOOLEAN]
         IN below \union
              {n \in [id: {i}, T: {p \in branch : ~p.neg}, E: branch] : n.T /= n.E}

Node == NodesFrom[0]

INSTANCE BddIte WITH Cell <- Node

VARIABLES
    heap,       \* the nodes in the current half, all of them in the hash table
    handle,     \* the external pointers
    cache,      \* the entry of the ITE cache, or NIL
    stack,      \* the activations of bdd__ITE_, with their safe frames
    task,       \* what the innermost activation is about to do
    call        \* the external operation: its bdd_t, and the functions of its
                \* arguments, those of (variable, 1, 0) for a variable (history)

vars == <<heap, handle, cache, stack, task, call>>

id == [n \in Node |-> n.id]

Top(p) == p.cell.id

One == ONE(OneNode)

Zero == ZERO(OneNode)

\* Two nodes of one variable are ordered by their addresses.
AddressOrders == {{pair \in Ptr \X Ptr : id[pair[1].cell] > id[pair[2].cell]},
                  GreaterThanEqual(id)}

-----------------------------------------------------------------------------
(* The functions nodes and pointers stand for.                             *)

Valuations == [Var -> BOOLEAN]

NodeMeaning ==
    LET M[n \in Node] ==
          IF n = OneNode THEN Valuations
          ELSE {v \in Valuations :
                  LET p == IF v[n.id] THEN n.T ELSE n.E
                  IN (v \in M[p.cell]) /= p.neg}
    IN [n \in Node |-> M[n]]

Meaning(p) == IF p.neg THEN Valuations \ NodeMeaning[p.cell] ELSE NodeMeaning[p.cell]

Meanings(k) == [f |-> Meaning(k.f), g |-> Meaning(k.g), h |-> Meaning(k.h)]

IteOf(m) == (m.f \intersect m.g) \union (m.h \ m.f)

IteMeaning(k) == IteOf(Meanings(k))

\* NIL stands for no pointer, no entry, no call and no function.
ASSUME AbsentAssumption ==
    /\ NIL \notin Ptr
    /\ NIL \notin [key: Triple, data: Ptr]
    /\ NIL \notin [to: Handle, args: [f: SUBSET Valuations, g: SUBSET Valuations,
                                     h: SUBSET Valuations]]
    /\ \A fn \in SUBSET Valuations : fn /= NIL

-----------------------------------------------------------------------------

Idle == [do |-> "nothing"]
CallIte(k) == [do |-> "ite", args |-> k]
CallAdd(n) == [do |-> "find_or_add", node |-> n]
NewNode(n) == [do |-> "new_node", node |-> n]
Collected(n) == [do |-> "collected", node |-> n]
Return(p) == [do |-> "return", value |-> p]

Init ==
    /\ heap = {OneNode}
    /\ handle = [p \in Handle |-> NIL]
    /\ cache = NIL
    /\ stack = <<>>
    /\ task = Idle
    /\ call = NIL

-----------------------------------------------------------------------------
(* External operations.                                                    *)

\* What an external operation may pass to bdd__ITE_: bdd_t's in either phase,
\* and the constants bdd_and and bdd_or pass.
Operands ==
    LET held == {handle[p] : p \in Handle} \ {NIL}
        phases == held \union {NOT(f) : f \in held}
    IN [f: phases, g: phases, h: phases \union {Zero}]
         \union [f: phases, g: {One}, h: phases]

\* bdd_ite, bdd_and, bdd_or, bdd_xor, bdd_xnor
StartIte(p, k) ==
    /\ call = NIL /\ handle[p] = NIL
    /\ call' = [to |-> p, args |-> Meanings(k)]
    /\ task' = CallIte(k)
    /\ UNCHANGED <<heap, handle, cache, stack>>

\* A slip: the branches of the variable are exchanged.
VariableExchanged(x) == [id |-> x, T |-> Zero, E |-> One]

Variable(x) == [id |-> x, T |-> One, E |-> Zero]

\* bdd_get_variable
StartVariable(p, x) ==
    /\ call = NIL /\ handle[p] = NIL
    /\ call' = [to |-> p, args |-> [f |-> {v \in Valuations : v[x]}, g |-> Valuations, h |-> {}]]
    /\ task' = CallAdd(Variable(x))
    /\ UNCHANGED <<heap, handle, cache, stack>>

\* bdd_make_external_pointer, of the value of the outermost activation.
Finish ==
    /\ call /= NIL /\ task.do = "return" /\ stack = <<>>
    /\ handle' = [handle EXCEPT ![call.to] = task.value]
    /\ task' = Idle /\ call' = NIL
    /\ UNCHANGED <<heap, cache, stack>>

Make(p, value) ==
    /\ call = NIL /\ handle[p] = NIL
    /\ handle' = [handle EXCEPT ![p] = value]
    /\ UNCHANGED <<heap, cache, stack, task, call>>

\* bdd_not
Not(p, q) == handle[q] /= NIL /\ Make(p, NOT(handle[q]))

\* bdd_then, bdd_else
Branch(p, q) ==
    /\ handle[q] /= NIL /\ ~IS_CONSTANT(OneNode, handle[q])
    /\ LET f == handle[q]
       IN \/ Make(p, IF IS_COMPLEMENT(f) THEN NOT(f.cell.T) ELSE f.cell.T)
          \/ Make(p, IF IS_COMPLEMENT(f) THEN NOT(f.cell.E) ELSE f.cell.E)

\* bdd_free
Free(p) ==
    /\ call = NIL /\ handle[p] /= NIL
    /\ handle' = [handle EXCEPT ![p] = NIL]
    /\ UNCHANGED <<heap, cache, stack, task, call>>

-----------------------------------------------------------------------------
(* bdd__ITE_.                                                              *)

\* bdd_ite_quick_cofactor
CofactorV(p, x) ==
    IF Top(p) /= x THEN p ELSE IF IS_COMPLEMENT(p) THEN NOT(p.cell.T) ELSE p.cell.T

\* A slip: the sign of the pointer is not carried to the branch.
CofactorNvUnsigned(p, x) == IF Top(p) /= x THEN p ELSE p.cell.E

CofactorNv(p, x) ==
    IF Top(p) /= x THEN p ELSE IF IS_COMPLEMENT(p) THEN NOT(p.cell.E) ELSE p.cell.E

Cofactors(k, x) ==
    [v |-> [f |-> CofactorV(k.f, x), g |-> CofactorV(k.g, x), h |-> CofactorV(k.h, x)],
     nv |-> [f |-> CofactorNv(k.f, x), g |-> CofactorNv(k.g, x), h |-> CofactorNv(k.h, x)]]

Least(S) == CHOOSE x \in S : \A y \in S : x <= y

\* ITE(F, G, H) = (v, G, H), if F = (v, 1, 0) and v < top(G, H)
Shortcut(k) ==
    /\ Top(k.f) < Least({Top(k.g), Top(k.h)})
    /\ k.f.cell.T = One /\ k.f.cell.E = Zero

\* The first activation of a call finds an answer without a recursion.
AnswerTrivial ==
    /\ task.do = "ite"
    /\ LET k == VarToConst(OneNode, task.args)
       IN \/ /\ IS_CONSTANT(OneNode, k.f)
             /\ task' = Return(IF k.f = One THEN task.args.g ELSE task.args.h)
          \/ /\ ~IS_CONSTANT(OneNode, k.f) /\ Trivial(OneNode, k)
             /\ task' = Return(TrivialValue(OneNode, k))
    /\ UNCHANGED <<heap, handle, cache, stack, call>>

\* A lookup finds the entry, if its key is the one looked for.
Hit(k) == IF cache = NIL THEN FALSE ELSE cache.key = k

\* The triples bdd__ITE_ may look up, for either order of the addresses, with
\* what it is to do with the value.
Candidates ==
    LET k == VarToConst(OneNode, task.args)
    IN IF IS_CONSTANT(OneNode, k.f) \/ Trivial(OneNode, k) THEN {}
       ELSE {Canonicalize(OneNode, gt, k) : gt \in AddressOrders}

AnswerCached ==
    /\ task.do = "ite"
    /\ \E can \in Candidates :
          /\ ~Shortcut(can.key) /\ Hit(can.key)
          /\ task' = Return(Flip(can.complement, cache.data))
    /\ UNCHANGED <<heap, handle, cache, stack, call>>

\* An activation: its canonical arguments, whether its value is to be
\* complemented, its variable, its cofactors, ite_T, and what it waits for.
Activation(can, x, wait) ==
    [key |-> can.key, complement |-> can.complement, x |-> x,
     cofactors |-> Cofactors(can.key, x), T |-> NIL, wait |-> wait]

EnterShortcut ==
    /\ task.do = "ite"
    /\ \E can \in Candidates :
          /\ Shortcut(can.key)
          /\ LET k == can.key
             IN /\ stack' = Append(stack, Activation(can, Top(k.f), "shortcut"))
                /\ task' = CallAdd([id |-> Top(k.f), T |-> k.g, E |-> k.h])
    /\ UNCHANGED <<heap, handle, cache, call>>

EnterRecursion ==
    /\ task.do = "ite"
    /\ \E can \in Candidates :
          /\ ~Shortcut(can.key) /\ ~Hit(can.key)
          /\ LET x == Least({Top(can.key.f), Top(can.key.g), Top(can.key.h)})
                 a == Activation(can, x, "T")
             IN /\ stack' = Append(stack, a)
                /\ task' = CallIte(a.cofactors.v)
    /\ UNCHANGED <<heap, handle, cache, call>>

\* The innermost activation.
Current == stack[Len(stack)]

Below == SubSeq(stack, 1, Len(stack) - 1)

Returned == task.do = "return" /\ stack /= <<>>

ReturnT ==
    /\ Returned /\ Current.wait = "T"
    /\ stack' = Append(Below, [Current EXCEPT !.T = task.value, !.wait = "E"])
    /\ task' = CallIte(Current.cofactors.nv)
    /\ UNCHANGED <<heap, handle, cache, call>>

\* A slip: the value is returned as it was stored.
LeaveUnflipped(p) ==
    /\ cache' \in {[key |-> Current.key, data |-> p], cache, NIL}
    /\ stack' = Below
    /\ task' = Return(p)
    /\ UNCHANGED <<heap, handle, call>>

\* bdd_hashcache_insert, and the return.  The entry the model knows of is any
\* one of those in the cache: the new one, or the old one if that is in
\* another bucket.  The cache may be off; a table that has become too full is
\* enlarged, which may cost the entry.
Leave(p) ==
    /\ cache' \in {[key |-> Current.key, data |-> p], cache, NIL}
    /\ stack' = Below
    /\ task' = Return(Flip(Current.complement, p))
    /\ UNCHANGED <<heap, handle, call>>

\* ite_T and ite_E are the same.
ReturnSame ==
    /\ Returned /\ Current.wait = "E"
    /\ task.value = Current.T
    /\ Leave(Current.T)

ReturnE ==
    /\ Returned /\ Current.wait = "E"
    /\ task.value /= Current.T
    /\ stack' = Append(Below, [Current EXCEPT !.wait = "node"])
    /\ task' = CallAdd([id |-> Current.x, T |-> Current.T, E |-> task.value])
    /\ UNCHANGED <<heap, handle, cache, call>>

ReturnNode ==
    /\ Returned /\ Current.wait = "node"
    /\ Leave(task.value)

\* The shortcut does not insert.
ReturnShortcut ==
    /\ Returned /\ Current.wait = "shortcut"
    /\ stack' = Below
    /\ task' = Return(Flip(Current.complement, task.value))
    /\ UNCHANGED <<heap, handle, cache, call>>

-----------------------------------------------------------------------------
(* bdd_find_or_add and bdd_new_node.                                       *)

FindOrAdd ==
    /\ task.do = "find_or_add"
    /\ task' = IF task.node \in heap THEN Return(Reg(task.node)) ELSE NewNode(task.node)
    /\ UNCHANGED <<heap, handle, cache, stack, call>>

AddNode ==
    /\ task.do \in {"new_node", "collected"}
    /\ Cardinality(heap) < MaxNodes
    /\ heap' = heap \union {task.node}
    /\ task' = Return(Reg(task.node))
    /\ UNCHANGED <<handle, cache, stack, call>>

\* A slip: ite_T is not declared in the safe frame.
FramePointersNoT(a) == {a.key.f, a.key.g, a.key.h}
    \union {a.cofactors.v[i] : i \in {"f", "g", "h"}}
    \union {a.cofactors.nv[i] : i \in {"f", "g", "h"}}

\* The pointers linked or declared in the safe frame of an activation.
FramePointers(a) == {a.key.f, a.key.g, a.key.h, a.T}
    \union {a.cofactors.v[i] : i \in {"f", "g", "h"}}
    \union {a.cofactors.nv[i] : i \in {"f", "g", "h"}}

\* bdd_find_or_add links its T and E.
ArgumentPointers == {task.node.T, task.node.E}

External == {One} \union {handle[p] : p \in Handle}

Internal == ArgumentPointers \union UNION {FramePointers(stack[i]) : i \in DOMAIN stack}

\* The nodes below a node, itself included.
Cone ==
    LET C[n \in Node] ==
          IF n = OneNode THEN {n} ELSE {n} \union C[n.T.cell] \union C[n.E.cell]
    IN [n \in Node |-> C[n]]

\* What is left of a heap after a collection: the copies of what the roots
\* reach.  A node that is reached by name but is not in the heap would be
\* whatever the cell holds by then.
Copied(roots) == heap \intersect UNION {Cone[p.cell] : p \in roots \ {NIL}}

\* A slip: an entry is kept when its value is.
EntryAfterValueOnly(kept) ==
    IF cache = NIL THEN NIL
    ELSE IF cache.data.cell \in kept
         THEN [cache EXCEPT !.key = Canonicalize(OneNode, GreaterThanEqual(id), cache.key).key]
         ELSE NIL

\* scan_hashcache: an entry whose four pointers were forwarded is kept, under
\* its key in canonical form.
EntryAfter(kept) ==
    IF cache = NIL THEN NIL
    ELSE IF {cache.key.f.cell, cache.key.g.cell, cache.key.h.cell, cache.data.cell} \subseteq kept
         THEN [cache EXCEPT !.key = Canonicalize(OneNode, GreaterThanEqual(id), cache.key).key]
         ELSE NIL

\* bdd_garbage_collect; it does nothing when the collector is off.
GarbageCollect(roots) ==
    LET kept == Copied(roots)
    IN \/ heap' = kept /\ cache' = EntryAfter(kept)
       \/ UNCHANGED <<heap, cache>>

\* A slip: a collection is asked for again as long as there is no room.
CollectAgain ==
    /\ task.do = "new_node"
    /\ GarbageCollect(External \union Internal)
    /\ UNCHANGED <<handle, stack, task, call>>

\* A half space that is full may be collected at any of the sizes it grows
\* through.
Collect ==
    /\ task.do = "new_node"
    /\ GarbageCollect(External \union Internal)
    /\ task' = Collected(task.node)
    /\ UNCHANGED <<handle, stack, call>>

\* Nothing was collected and no block can be had: the safe frames are
\* forgotten, the heap collected, and the daemon leaves by a longjmp.
Abandon ==
    /\ task.do = "collected"
    /\ Cardinality(heap) = MaxNodes
    /\ GarbageCollect(External)
    /\ stack' = <<>> /\ task' = Idle /\ call' = NIL
    /\ UNCHANGED handle

-----------------------------------------------------------------------------

User ==
    \/ \E p \in Handle, x \in Var : StartVariable(p, x)
    \/ \E p \in Handle, k \in Operands : StartIte(p, k)
    \/ \E p, q \in Handle : Not(p, q)
    \/ \E p, q \in Handle : Branch(p, q)
    \/ \E p \in Handle : Free(p)

Running ==
    \/ AnswerTrivial \/ AnswerCached \/ EnterShortcut \/ EnterRecursion
    \/ ReturnT \/ ReturnSame \/ ReturnE \/ ReturnNode \/ ReturnShortcut
    \/ FindOrAdd \/ AddNode \/ Collect \/ Abandon
    \/ Finish

Next == User \/ Running

Spec == Init /\ [][Next]_vars

\* The thread that called the operation goes on.
FairSpec == Spec /\ WF_vars(Running)

-----------------------------------------------------------------------------
(* Properties.                                                             *)

TypeOK ==
    /\ heap \subseteq Node /\ OneNode \in heap
    /\ handle \in [Handle -> PtrOrNIL]
    /\ cache \in [key: Triple, data: Ptr] \union {NIL}
    /\ \A i \in DOMAIN stack :
          /\ stack[i].key \in Triple /\ stack[i].complement \in BOOLEAN
          /\ stack[i].x \in Var /\ stack[i].T \in PtrOrNIL
          /\ stack[i].wait \in {"T", "E", "node", "shortcut"}
    /\ task.do \in {"nothing", "ite", "find_or_add", "new_node", "collected", "return"}
    /\ (task.do = "nothing") = (call = NIL)

(* Whatever collections happen in the middle of a recursion, every pointer *)
(* the recursion is still going to use refers to a node, and so do all the *)
(* pointers of the user and of the cache.                                  *)
NothingDangles ==
    LET task_pointers ==
          CASE task.do = "ite" -> {task.args.f, task.args.g, task.args.h}
            [] task.do = "return" -> {task.value}
            [] task.do \in {"find_or_add", "new_node", "collected"} -> ArgumentPointers
            [] OTHER -> {}
        cached == IF cache = NIL THEN {}
                  ELSE {cache.key.f, cache.key.g, cache.key.h, cache.data}
        used == External \union task_pointers \union cached
                 \union UNION {FramePointers(stack[i]) : i \in DOMAIN stack}
    IN \A p \in used \ {NIL} : Cone[p.cell] \subseteq heap

(* Every node asked for is one the diagrams are made of: T regular and not *)
(* E, and both of them below the variable (find_or_add.c:35 asserts the    *)
(* first only in a debugging build).  BddGc takes this from its callers.   *)
AsksForProperNodes ==
    task.do \in {"find_or_add", "new_node", "collected"} => task.node \in Node

(* The value on its way to a caller is the function the caller asked for,  *)
(* at every depth of the recursion.                                        *)
ReturnsMeanTheirArguments ==
    task.do = "return" =>
        IF stack = <<>> THEN Meaning(task.value) = IteOf(call.args)
        ELSE CASE Current.wait = "T" -> Meaning(task.value) = IteMeaning(Current.cofactors.v)
               [] Current.wait = "E" -> Meaning(task.value) = IteMeaning(Current.cofactors.nv)
               [] OTHER -> Meaning(task.value) = IteMeaning(Current.key)

(* The package does what BddApi promises (external_ptr.c, bdd_ite.c,       *)
(* boolean_ops.c, bdd_util.c): an operation gives its bdd_t the function it*)
(* is named for or is abandoned, and no collection changes what any other  *)
(* bdd_t stands for.  A pointer that dangles stands for nothing.           *)
ApiFn == [p \in Handle |->
            IF handle[p] = NIL THEN NIL
            ELSE IF Cone[handle[p].cell] \subseteq heap THEN Meaning(handle[p])
            ELSE <<"dangling">>]

Api == INSTANCE BddApi WITH fn <- ApiFn, None <- NIL

KeepsItsPromise == Api!Spec

(* An operation ends, with its value or abandoned: neither the recursion   *)
(* nor the collections new nodes ask for (new_node.c:166) go on for ever.  *)
OperationsEnd == (call /= NIL) ~> (call = NIL)

=============================================================================
