# SIS in TLA+

A verification project for SIS 1.4 (`src/`), a system for the synthesis of
sequential circuits written in C: TLA+ modules translated from the source, TLC
configurations that check them on small instances, and TLAPS proofs of the
theorems that matter most. `PROJECT.json` maps every definition to the lines it
stands for and lists the runs, the mutants that show each property can fail, the
findings, the hazards and the theorems.

## 1. The system

SIS is one single-threaded process. A command interpreter runs commands on a
network of logic nodes; a command calls packages, each a directory of `src/sis/`
with its own state. There are no threads and no messages. What is hard is state
that changes under a caller: a garbage collection inside any allocation, a list
that is changed while a generator is open on it, a fail() in the middle of an
update, a `longjmp` out of a recursion.

| component | state | operations | interacts with | what makes it correct |
| --- | --- | --- | --- | --- |
| BDD operations (`sis/bdd_ucb/ite.c`, `boolean_ops.c`, `bdd_ite.c`) | the recursion's activations and safe frames | `bdd_ite`, `bdd_and`, ..., `bdd_not`, `bdd_then`, `bdd_free` | heap, caches, external pointers | a `bdd_t` stands for the function it was made as, until it is freed; no pointer dangles after a collection |
| ITE cache (`hash_cache.c`, `ite_common.c`) | buckets of (f, g, h, data) | lookup, insert, resize, rescan | addresses the collector changes | an entry's data is the value of its key |
| heap (`find_or_add.c`, `garb_collect.c`) | two half spaces, hash table, roots | `bdd_find_or_add`, `bdd_garbage_collect` | everything that holds a node | nodes are unique, ordered, closed; a collection copies what is reachable, faithfully, and ends |
| allocator (`new_node.c`, `bdd_util.c`) | lists of node blocks, counters, memory limit | `bdd_new_node`, growth, daemon | the collector, the user's limit | no block is lost; a cell is found or the daemon is called |
| external pointers (`external_ptr.c`) | blocks of `bdd_t` slots, a roving pointer | make, free | the user, the collector's roots | a slot has one owner |
| iterators (`bdd_iter.c`) | count of open generators | open, next, free | the collector refuses to run | every cube once |
| derived BDD operations (`bdd_quantify.c`, `and_smooth.c`, `bdd_compose.c`, ...) | adhoc and constant caches | smooth, compose, cofactor, ... | as the ITE recursion | the function named |
| network, node, latch (`sis/network`, `node`, `latch`) | nodes with fanins and fanouts, name tables, lists of inputs and outputs, latch table | add, delete, connect, append, rename, sweep, latches | lists, hash tables, every command | `network_check`: fanins and fanouts mirror each other, names are unique, no cycle, latch ends are nodes |
| lists (`sis/list`) | doubly linked lists, generators | insert, delete, generate | network and all packages | a generator survives the changes its documentation allows |
| hash tables (`sis/st`) | bins of chained entries, density, growth; generators | insert, find, add, delete, `st_foreach`, generate | all packages | a map; a walk comes to live entries only and gives each entry once, unless the table grows under it |
| array, avl, graph, var_set | containers | insert, delete, iterate | all packages | sequential map semantics |
| command, main, error, util | command table, aliases, undo network | run, undo | all packages | undo restores |
| astg, stg, seqbdd, enc | signal transition graphs, state graphs | token flow, reachability | bdd, network | safe and live nets; fixpoints |
| retime, clock, maxflow, linsolv | graphs with weights | retime, flow | network | weights never negative; flow conserved |
| map, pld, speed, phase, extract, decomp, factor, gcd, resub, simplify, espresso, minimize, mincov, sparse, delay, timing, power, atpg, sim, order, ntbdd | none between calls, or annotations on nodes | transformations of one network | network, node | the network computes the same functions |
| io, octio, genlib, graphics | none | reading and writing | files | formats |
| `espresso/`, `jedi/`, `nova/`, `stamina/`, `sred/`, `blif2vst/`, `vst2blif/` | - | stand-alone batch programs | files | - |

The UC Berkeley BDD package (`sis/bdd_ucb`) was chosen as the core: it is the
program's own, all of the sequential and much of the combinational code rests on
it, and its stop-and-copy collector is where a mistake is both easiest to make and
hardest to test - a pointer left out of a safe frame, or a stale cache entry, is
wrong only when a collection comes at one particular allocation. The network
package with its latches is the data structure every command works on, and the
list package is what its nodes, terminals, latches and fanouts are kept in; both are
changed while somebody walks them. So are the hash tables, which hold the names, the
latches and most of what the other packages remember.

## 2. The modules

| module | models | state and actions against the code |
| --- | --- | --- |
| `BddPtr` | pointers whose low bit is the complement mark | `Reg`, `NOT`, `REGULAR`, `Flip` are `BDD_REGULAR`, `BDD_NOT`, ... |
| `BddIte` | the rewriting of an ITE triple: trivial answers, canonical form | pure operators, parameterised by the order of pointers because the code has two: the one inline in `bdd__ITE_` (addresses) and `greaterthan_equalp` |
| `BddIteCache` | one bucket of the cache over calls and collections | a cell is a node whatever its address; `Rescan` gives all nodes new addresses and rewrites the key as `scan_hashcache` does |
| `BddGc` | unique table, safe frames as roots, caches as weak references, the collection one relocation at a time | `mem`, `half`, `used`, `table`, `root`, `weak`; `FindOrAddMiss` and `AddNode` are the two halves of `bdd_find_or_add` between which a collection may come; `Flip_spaces`, `RelocateRoot`, `ResetTable`, `ScanT`, `ScanE`, `ScanCache` are the steps of `bdd_garbage_collect` |
| `BddBlocks` | `bdd_new_node` down to blocks, lists and counters | `list`, `pointer`, `stats`, `cursor` are the fields of `manager->heap`; node contents are left out |
| `BddEngine` | the external operations and the recursion of `bdd__ITE_`, step by step, with its safe frames, the ITE cache, collections and abandoned computations | `stack` holds the activations, `task` what the innermost one does next; a node is named by its contents, which `BddGc` justifies |
| `BddApi` | what the package promises: pointers stand for functions | the abstract specification `BddEngine` implements |
| `Cover` | node functions as sums of cubes: `node_and`, `node_or`, `node_not`, cofactor, collapse, minimum base | pure operators; a cube over a common base is the set of its literals |
| `Network` | nodes, fanins, fanout lists, terminals, names, latches and the latch table, `network_check` | operators from networks to networks, one per routine; a node is its address, and freed addresses come back |
| `NetworkSweep` | `network_sweep`, `network_cleanup` and their combinational forms, `network_collapse`, the depth-first orders | `Repeat` is a loop "while something changes", with a bound on its turns (`MostTurns`); a search is the function of its results so far |
| `NetworkAppend` | `network_append` | `copy1` and `copy2` are `node->copy` |
| `NetworkBehaviour` | what a network computes | meaning only: functions of outputs, the machine of its latches, equivalence, transparency of a latch, joining by names |
| `NetworkSound` | what a network is between two calls (`IsNetwork`) | no code: the invariant of the routines, with what `network_check` looks at and what they rely on besides |
| `NetworkCommands` | a session on one network | one action per command, each the whole routine |
| `LsList` | the list package, with any number of generators | `list` is the descriptor and the memory of its elements, `gen` the two pointers of each generator |
| `LsApi` | what the list package promises: a sequence, and spots in it | the abstract specification `LsList` implements, but for two calls at the ends of a list (section 4) |
| `StTable` | the hash tables, with generators, a running `st_foreach` and the slot of `st_find` | `table` is the structure and the memory of its entries, `gen` the generators, `each` the local variables of `st_foreach` while its function is called |
| `StApi` | what the hash tables promise: a map, and what each walk still owes | the abstract specification `StTable` implements |

`BddEngine` and `BddIteCache` use `BddIte`, which uses `BddPtr`; `BddGc` uses
`BddPtr`. The three views of the heap fit together so: `BddBlocks` shows that the
lists and counters deliver the set of cells `BddGc` takes a half space to be and
that the scan visits every copy; `BddGc` shows that contents name nodes and that a
collection preserves the names of what its roots reach; `BddEngine` takes both for
granted and asks whether the recursion puts the right pointers among the roots and
the right contents in its nodes (`AsksForProperNodes` is the precondition `BddGc`
calls `Proper`).

`NetworkCommands` is built on `NetworkAppend`, `NetworkSweep`, `Network` and
`Cover` in this order, and speaks of their results through `NetworkBehaviour` and
`NetworkSound`, which says what a session may begin with (`CommandsAssumption`).
In it a list is a sequence and a generator a loop over it (`ForEach`), which `LsList` justifies
for the loops that delete what they have just generated or walk a copy: those are
the loops the network package has, `network_connect` excepted (see section 6).

Each module with properties contains, next to some definitions, a variant of the definition
with one plausible slip ("A slip: ..."); `PROJECT.json` names, for each property,
a slip under which TLC finds it violated.

## 3. The runs

| run | question | instance |
| --- | --- | --- |
| `ite_cache` | is every ITE call answered rightly, although keys depend on addresses that change? | the constant, two nodes of one variable and one of another: every rule and both outcomes of every comparison; 135,696 states |
| `ite_inline` (violation) | is the inline rewriting equivalent to the function its comment names? | as above |
| `gc` | does the heap stay unique, ordered, closed, faithfully copied, does space suffice, and does every step of a collection bring it nearer its end? | three cells in each half, two variables, four roots of which two are the safe frame of `bdd_find_or_add`, one cache entry; 799,452 states |
| `blocks` | is a cell always found; are lists, counters and scan consistent? | blocks of two cells, a memory limit worth about five pairs of blocks and one that is exceeded from the start, 64-value unsigned ints; 37,164 states |
| `blocks_limit` (violation) | is the limit in megabytes? | as above |
| `engine` | does the package implement `BddApi`? | three external pointers, two variables, four nodes; 1,175,578 states up to symmetry |
| `engine_deep` | do the safe frames protect what a deeper recursion still uses, and does every operation end? | three variables, seven nodes; the user makes the variables, any if-then-else of them, and a conjunction of the answer with one of the four; 72,450 states |
| `network` | do the commands keep the data structure consistent and the behaviour at the outputs? | 49 circuits of an input, a clock, two latches, two nodes and an output, four of them with a network appended; four networks to append, one latch or network added on the way, duplicates at any time; 92,501 states |
| `network_append` (violation) | does a network built by the package's routines always pass `network_check`? | one circuit and one network to append |
| `lists` | does the list package implement `LsApi`, `lsInBefore` at the end and `lsInAfter` at the beginning of a list excepted, and is no generator left before freed memory? | four elements, two generators, two values; 49,309 states up to symmetry |
| `lists_ends` (violation) | does it implement `LsApi`? | as above |
| `tables` | do the hash tables implement `StApi`, and does no walk come to freed memory, also when the table grows under it? | three keys, two of which share a bin before and after the table grows from one bin to three; a generator, a `st_foreach` and a slot; 179,294 states up to symmetry |

Why the bounds are enough. In `gc` three cells are the constant and two nodes, so
that a node with a branch to another one, garbage, and a half that fills up all
occur; every relation the properties speak of is between two cells. In `blocks`
blocks of two cells give a first, a last and no inner cell, and five pairs of
blocks let lists grow to where head, middle and tail differ. In `engine` a collection
may come whenever a node is made, and four nodes (the constant, two variables and
one more) are soon too few, so that a computation is abandoned at every depth; the one
cache entry of the model is any one of those the cache holds, an old one as well as the
newest, or none, which is all that one lookup sees of a cache. Two variables never make an activation
hold a node it has just made while it computes the other branch; `engine_deep`
does, and its mutant (ite_T left out of the safe frame) is not seen by `engine`.

In `network` two nodes and two latches are enough for constants and inverters to
feed each other and a latch, for latches that see the same, that see only each
other and that nothing sees; a merge
of latches leaves one on two pins of a node; the node
functions are constant, buffer, inverter, conjunction and exclusive or. Among the
appended networks one reads an output, one drives an input, one would close a
cycle and one computes a name twice. In `lists` four elements give a middle with
an element on either side, and two generators are at one spot, next to each other
or apart. In `tables` three keys make a chain with a middle entry while there is one bin,
a chain of two, a chain of one and an empty bin after it has grown, and growth comes
before, during and after a walk; two walks are enough, as a walk is
disturbed by calls and not by who makes them. The table is made with no size, so that
`st_init_table_with_params` has to correct it.

Symmetry is used where the permuted values (cells of one half, external pointers,
list elements, entries of a table, generators) are interchangeable in Init, Next and every property, and
in no run with a liveness property.

Deadlock is checked in every run but two: `engine_deep`, whose user is done when its
five pointers are taken, and the runs of `MCNetwork`, where an append that reports an
error ends the session.

Bounds in the modules: `MaxEntries` (entries in the caches), `MaxOther` and
`MaxGens` (memory of the rest, open generators), `MaxNodes` (nodes at the memory
limit), `MaxGrown` (how often a session adds a latch or a network; the other
commands are not limited); the sets of cells,
pointers, variables and generators.

Fairness. The program is one thread, and a call runs until it returns: weak
fairness of the collector and
`get_node_block` in `BddBlocks`, and of the running operation in `BddEngine`.
Nothing is assumed of the user. `BddGc` assumes no fairness: that a collection ends
is shown by what every step of it makes smaller (`CollectionAdvances`), with
`NeverStarves` and the absence of deadlock.

## 4. Findings

* `ite_inline`: `greaterthan_equalp` ends its comparison of addresses in an empty
  statement, so it is not the order used inline, which a comment calls equivalent.
  `ite_cache` shows, and `BddIte_proofs` proves, that answers stay right whatever the
  order: only cache hits are lost.
* `blocks_limit`: the memory limit is turned into bytes in an `unsigned int`; 4096
  megabytes is 0.
* `network_append`: the loop that replaces a fanin that is a primary output by its
  driver looks at each pin once, in list order; where an appended output is one of
  its own inputs and the first network computes that input, a node keeps an output
  as its fanin, and `network_check` fails.
* `lists_ends`: `lsInAfter` at the beginning of a list puts the new item before the
  generator's spot, where list.txt says that `lsNext` generates it; `lsInBefore` at the
  end of a list that is not empty puts it after the spot, where list.txt says that `lsPrev`
  generates it. `KeepsPromiseButAtFarEnd`, checked in `lists` and proved, says that these
  are the only two cases: everything else about the two calls, and every other call, is as
  promised.

## 5. What is proved

Eight modules hold theorems, all checked by TLAPS for every value of the constants
that satisfies the assumptions the modules state.

| module | theorems about | assumptions |
| --- | --- | --- |
| `BddIte_proofs` | the rewriting of ITE triples and the cache that it is for | `IdAssumption`, `NILAssumption` |
| `BddGc_proofs` | the heap, its collector, and the end of a collection | `GcAssumption`, `RootsAssumption` (the roots are finitely many) |
| `BddBlocks_proofs` | the allocator and `scan_newhalf` | `BlocksAssumption` |
| `BddEngine_proofs` | diagrams: a function has one; the recursion, what it protects, and the refinement of `BddApi` | `EngineAssumption`, `AbsentAssumption` |
| `LsList_proofs` | the list package and, but for the two calls of section 4, the refinement of `LsApi` | `NILAssumption`, `DataAssumption` |
| `StTable_proofs` | the hash tables and the refinement of `StApi` | `StAssumption`, `LostAssumption`; and `~ReorderFlag` in each theorem |
| `Network_proofs` | the routines of the network package, one lemma each | `NilAssumption` |
| `NetworkCommands_proofs` | the sweeps, the collapse and a session of commands | `NilAssumption`, `CommandsAssumption`; and `AppendsGoWell` in the invariants |

That is: any number of cells (the two halves of one size, as blocks are added in
pairs), of blocks and cells in a block, variables, nodes, external pointers, roots and
cache entries; of list elements, data and generators; of table entries (finitely
many), keys, any hash function and density, and any growth factor that is a whole number of at
least 2; of networks with any nodes, functions, names and
latches. The assumptions keep values apart that the
program keeps apart (a pointer, a NULL, a number) and say that sizes are positive;
`DataAssumption` makes list data integers, so that `lsSort` can order them.
`~ReorderFlag` is the default of `st.h:70`, and no table of the repository sets the flag;
with it `st_delete` is wrong (section 6).

*The ITE cache.* `CanonicalizeMeaning` says that the rewriting keeps the function of
a triple up to the complement flag, for **any** relation in the place of the order of
pointers; one lemma per rule. A rewritten key is positive in its first two
arguments, and rewriting such a key never sets the flag (`RewritingAKeyKeepsPhase`),
which is why `scan_hashcache` may drop it. With these, `CacheIsSound` and
`CallsAreAnswered` are invariants by one step per action. The inductive invariant is
that the entry means its key and the key is in positive form; soundness alone is
not inductive, because a rescan of a key that is not positive would have to
complement the data.

*The collector.* None of `NoDangling`, `Unique`, `StillNew`, `Ordered` or `Faithful`
is inductive: all are about the heap between or at the end of collections and say
nothing of one half-way. The invariant `IInv` adds what holds during one, relative to the history
variable `pre`, the heap as it was at the flip:
`CopyInv` - the broken hearts of the old half and the copies correspond one to one,
a copy's branch is the old branch while it is raw and the forwarded one after;
`RootInv` - a root is as it was while it is to do, forwarded after; `HeapOK` and
`PendOK` of `pre`; and the table holds exactly the scanned copies. The
lemma `CollectionLeavesHeap` turns these into `HeapOK` of the new heap when nothing is raw.
`MissStaysMiss` is the reason the code need not search again after a collection:
`pend` is not in `pre`, and copying is one to one.

*Space.* The copies are counted: they are as many as the broken hearts,
these are among the used cells of the old half, and a relocation that is due
belongs to a cell that is not yet one; so a free cell remains (`SpaceSuffices`).
`GarbageIsCollected` rests on the copies being within every set that retains the roots.

*The end of a collection.* The two recursions of the collector, over the roots and over
the copies it has made, feed each other: scanning a copy may make copies. What goes
down is the roots to do, the raw branches and three for each cell of the old half
that has not been moved: a copy brings two raw branches. `CollectionEnds` proves that every step
makes the variant `Remaining` smaller: the lemmas say what moving one cell does to the
two counts, and `CollectionSteps` applies them to each action.

*The allocator.* Six of its properties follow from one invariant. The list of blocks in
use followed by the free list arranges the blocks, for each half (`ListInv`): what
is moved from one list to the other, and reversed when the halves are exchanged, stays an arrangement,
so no block is lost or twice there. The pointer is in the last block in use and behind the cells
in use (`PointerInv`), so that the counters are what the lists say
(`CountInv`). `ControlInv` ties these to where `get_node_block` and the collector
are: the half that is copied into has at least as many cells as the other had in use,
which makes the assertion at `new_node.c:63` and the guarantee at `new_node.c:206`
true. For `EachScannedOnce` the cells scanned are exactly those before the cursor
(`CursorInv`), in the order of the lists, although copies are appended while the cursor runs.

*Diagrams.* `FunctionsHaveOneDiagram` is the fact the package stands on: two pointers that
mean the same function are the same pointer. A node is regular on its T branch, so the sign of
a pointer is the value of its function where every variable is true; a function depends
on no variable before its top; the cofactors by the top variable differ; then induction
over the variables, from the last to the first. The induction and recursion that need an operator as parameter are out
of the prover's reach; here they are derived for sets and functions: the numbers are well
founded, so a set of variables that contains the last and with each its predecessor is the
whole, and the recursive functions `NodesFrom`, `NodeMeaning` and `Cone` satisfy their equations
because a function that does exists.

*The engine.* `NothingDangles` and `ReturnsMeanTheirArguments` speak of the innermost
task and are not inductive. The invariant says of the whole stack what each activation waits for
(`Wanted`), that its T result already means the T cofactor of its key (`StackOK`), that the task at
hand is for the function the innermost one waits for (`TaskOK`), and that everything still to be used
is in the heap (`KeptInv`), which a collection preserves because the roots it is given contain it:
the user's pointers, the safe frames, the cache entry and the new node's branches. That the rewritten
triple may be computed instead of the one asked for is
`CanonicalizeMeaning`, instantiated with nodes for cells. `AsksForProperNodes` comes out of the tops
of the cofactors being later than the variable. In the refinement of `BddApi` every step is a stutter
except the return to the user and what the user does.

*Lists.* `NoSpotDangles` (`SpotsAreLive`) is not inductive: a deletion follows the
pointers of its neighbours, so the invariant says that these agree (`Linked`). That
is not enough either: in a ring of one element, whose pointers agree, the element
after the deleted one would be the deleted one. So the invariant also says that the
elements can be ranked along the forward pointers, and, for `lsSort`, that the
length in the descriptor is their number (`ListIsLinked`). Every insertion is shown
to be the insertion between two neighbours (`Splice`), every deletion the removal of
one element (`Excise`); a lemma for each says that the invariant survives, the ranks
behind a new element moving up by one. Because of the ranks the walk along the pointers comes
to an end and meets no element twice, and because all but the first have a predecessor it meets
all of them (`ListStaysIntact`). For `PromiseKeptButAtFarEnd` a spot of a generator is the place of its
element in that walk, and the same two lemmas say how an insertion and a removal shift the
places.

*Hash tables.* `TableIsSound` is about chains as sequences; the invariant says it of the pointers:
each entry of a set is pointed to exactly once, from its bin or from an entry of its bin
(`Linked`), and the entries can be ranked along the pointers. `Push` on a chain and cutting
an entry out (`PushLinks`, `CutLinks`) keep this for any set of entries and any assignment of bins, so
that growth, which pushes the entries one after the other on the new chains, is an
induction over their number (`MovedFacts`). The density bound survives because growth at least
doubles the bins. For `WalksStayLive` a generator's entry is not the one it has given, which is
the only one that may be deleted, and the place of a `st_foreach` leads to its entry unless its function has added
one. For `PromiseKept` what a walk owes is the entries it reaches along the pointers from where it is and those of
the bins it has not come to (`Pending`); the entry it is at hashes to an earlier
bin, as long as the walk is not lost, so nothing is owed twice. A lemma each says what an addition without
growth, a deletion and a step of the walk do to that set.

*The network.* `NetworkIsSound`, `LatchesAreSound` and `NoHiddenAliasing` are not inductive, not even
together. `network_check` compares fanins and fanout lists at internal nodes only: a driver that has
forgotten the pin of an output, an input that lists a pin it does not feed, or a
terminal that is twice in its list passes, and does no harm until the next command. The invariant is
`IsNetwork`, which says all of the structure: each node is in the list once and found by its
name, the fanout lists have each pin once, terminals are what their lists say, covers are of minimum base,
flags are true, a latch has its ends to itself, the latch table has the ends and the controls and nothing else,
and there is no cycle.

`Network_proofs` has a lemma for each routine, which says that it leaves a network so and what else it
keeps, since the loops of the sweeps need that too. Four facts carry most of the weight. (1) That there is no
cycle is counted by `network_is_acyclic`; the proofs say it without
counting: every set of nodes has one with no fanin in it (`AcyclicMeaning`; the search turns
often enough). Then a node that takes over the fanins of a fanin, a leaf put in the place of a fanin, and a
node that feeds nothing close no cycle; nor does `network_connect`, as long as the driver is not behind
the fanouts of the input (`ConnectSound`, with `TfoFacts` for the search).
(2) The loop that sends the uses of a node elsewhere (`PatchFanouts`) patches for each entry of a copied
fanout list the *first* pin of its node, not the entry's own: that none is
left over, and that `node_patch_fanin` never fails, is because the entries still to come of a node are as
many as its pins still to patch (`CountStep`). (3) The pairs of latches `MergeRedundant` deletes and keeps are found
before the first is deleted: one that goes is none that stays, and each goes once
(`RedundantFacts`), so the order the table gives them in does not matter. (4) A duplicate is the
network with every address exchanged for another, one to one (`DupSound`).

A loop of the code is a recursive function in the model, and one lemma for each (`...Loop`, `...Turns`) derives the list
of its results; the inductions are over sets of numbers (`UpTo`).
`CommandsKeepNetworksSound` needs nothing of the networks that are appended: every other command keeps a sound
network sound, whatever they are. The invariants are stated for sessions whose appends go well
(`AppendsGoWell`: no error, and a sound network after it), as in all sessions that
append nothing (`NetworksStaySoundAlone`); not all appends do, as the finding `network_append`
and the hazard at `append.c:148` show.

*What a sweep leaves.* `SweptClean` and `SweepIsDone` rest on the loops turning often enough. A loop of the code that
ends when nothing changes is modelled with a bound on its turns (`MostTurns`); `Dwindles` says
that a loop whose every turn loses a member of a set of no more than that many, or is its last, is done when the bound is reached.
What is lost is the plain fanins of a node for `network_sweep_node`, the inputs of latches for the outer loop
and for the merging of latches, and internal nodes for `network_cleanup_util`. One pass over the nodes leaves nothing to sweep because the depth-first
order has every fanin before its node (`DfsOrders`): when a node is swept its fanins have been, and what they are replaced by
needs no sweep (`SweepNodesSweeps`). A turn that removes no latch has therefore been the last, with every latch
seen and none constant (`SweepLoopSweeps`, `IsClean`). Merging two latches undoes none of it: the nodes that stay keep their functions, and what was seen
through the one that goes is seen through the other, as one node feeds both (`MergedReached`); a merge may make two more latches equal, so there is none to merge
only at the end of that loop (`NoneRedundant`, `MergeLatchesSound`). Nor does cleaning up undo any of it,
where a latch that is seen feeds something and stays (`SeenIsUsed`, `CleanupCleans`). Hence a second sweep finds each of its parts
idle (`NetworkSweepIdle`). What is seen is
the least set that contains the outputs and what is behind its members, and the search reaches it in as many rounds as there are
nodes (`TfiFacts`). `CommandsAssumption` keeps the name of the command apart from the names of the networks that can be appended.

Only model-checked. What `network_append` does, since it leaves some networks unsound.
`KeepsBehaviour`, `LatchesAreCuts` and `AppendJoins` compare what two networks compute, which is
defined by recursion over one of them: induction over data. The hash tables
with `reorder_flag`. The liveness properties (`CallsEnd`, `OperationsEnd`), which the
prover does not reach.

## 6. What is not modelled, and abstractions to know of

* Hash functions and table sizes: a table is what a search finds in it; a resize of
  a cache may lose entries at any time, that of the unique table loses none.
* In `BddGc` the algorithms may hold anything they can come by, which is more than any
  of them does; a cache entry is a record of pointers, its bucket may be taken when a
  collection rehashes it.
* A pointer that dangles is, in `BddEngine`, one whose node is not in `heap`; what the
  cell would hold by then is not modelled, since a run that reaches one violates
  `NothingDangles` first.
* A limit that the first block exceeds leads to a collection before `bdd.one` and the first
  block exist, and not to the daemon that the comment at bdd_util.c:546 speaks of: the
  action `GcCrashes` of `BddBlocks` (with `pc /= "crashed"` as an invariant of
  `MCBddBlocks.cfg` TLC reaches it from the first allocation). What the program does
  then is undefined; it is among the hazards.
* An unlimited manager (`BDD_NO_LIMIT`) is not a case of its own in `BddBlocks`: it is
  one whose limit is never reached. The ratio of used to unused nodes is a whole number.
* The daemon leaves by a `longjmp`, as `bdd.h` asks of it.
* Names are tuples that begin with how they came to be (given, made up, made for an
  append): the code's strings are told apart by the same cases. Short names, delay
  data, state graphs, external don't-care networks, and the type and library gate of a
  latch are left out; so is the case that a call runs out of memory.
* The order of cubes in a cover is not kept, and espresso's complement (`node_not`)
  is the sum of all primes: what the network package asks of a cover (constant, buffer,
  inverter, support, single-cube containment) does not depend on it. Nor are the order in which
  a combined node has its pins, and the flag `is_dup_free` where the package sets it after a look that
  found no repeated fanin (`nodemisc.c:121`): it is reset by whatever may repeat one, `network_append`
  excepted.
* Callers' discipline, part of the actions: a latch is removed only where
  `network_connect` meets no node that has the latch's output on two pins (as after
  `node_scc`; otherwise it walks a list element it has freed) and where its cycle test
  suffices (it looks behind the fanouts of the input, not at them); clocks are not cut
  by latches, and no latch makes another's clock (the reachability test of the sweep
  does not follow controls); a list generator that is out of place goes on only with
  `lsNext`, `lsDelAfter` or `lsFinish`, and nobody removes what another generator
  comes to next. What happens otherwise is listed among the hazards.
* The networks that are appended in the run `network` have no output fed straight by an
  input, which is the finding of `network_append`, no two inputs that come to one node,
  and compute no latch output: in these cases `network_append` leaves a stale
  `is_dup_free` or a latch whose output has been deleted.
* A duplicate has the latch table of its latches only. The output that brings a clock to
  latches is in the table of the original as a control, and stays there when the last of
  its latches is swept away; in the duplicate it is an output like any other, which
  `write_blif` writes. `KeepsBehaviour` leaves such duplicates out; without its condition
  TLC finds one in two steps, a sweep and a duplicate. It is among the hazards.
* Of the list package `lsForeach`, `lsBackeach` and `lsUniq` are loops of the calls
  modelled; `lsCopy` and `lsDestroy` make or end a list.
* Callers' discipline of the hash tables, part of the actions of `StTable`: while a
  generator is open the only entry deleted is the one it has just given, as st.txt:144 has
  it; the function of a `st_foreach` calls no `st_delete`, and does not answer `ST_DELETE`
  after it has added an entry; `st_add_direct` is for keys that are not there. The run has
  `reorder_flag` off, as every table of the repository: with it on, `st_delete` unlinks
  an entry that `FIND_ENTRY` has just moved to the head of its chain through the place it
  was in before, and the freed entry stays in the table. This is among the hazards.
* `grow_factor` is a double (st.h:23) and its product with the number of bins is cut off; the
  model takes whole numbers of at least 2, as the default 2.0 is. A factor below 2 may
  leave the table as wide as it was, and the chains longer than the density allows.
* The hash functions (`st_strhash` and the macros, whose absolute value is negative
  for the smallest integer) are a function into the naturals; `st_free_table` is not modelled, and `st_copy` goes on with the copy.
* Debugging code (`BDD_DEBUG`, flight recorder), statistics and printing.

Components marked `not_modelled` in `PROJECT.json` have their reasons there.

## 7. Plan

In order of importance.

1. Done: the heap (`BddGc`), the cache (`BddIte`, `BddIteCache`), the allocator
   (`BddBlocks`), the recursion and its promise (`BddEngine`, `BddApi`); the proofs
   about cache and heap.
2. Done: the network package (`Cover` to `NetworkCommands`), lists (`LsList`,
   `LsApi`), hash tables (`StTable`, `StApi`), the proof that a collection ends.
3. The derived operations in `BddEngine`: quantification and composition share the
   adhoc cache, whose life ends with the outermost call; `bdd_ite_constant`.
   `BddExternal`, the slot map of external pointers with its roving pointer, as an
   implementation of the handles of `BddEngine`.
4. Proofs: done for the allocator, the engine with its refinement of `BddApi`, the
   refinements of `LsApi` and `StApi`, and the network's structure under every
   command but append, and what a sweep leaves. Left: which appends go well (no two
   outputs of one driver's name, no latch output computed, no output fed by an input).
5. Algorithms checked against a reference definition on small inputs: token flow of
   `astg`, augmenting paths of `maxflow`, the bound in the search of `mincov`.
