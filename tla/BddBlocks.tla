------------------------------ MODULE BddBlocks ------------------------------
(***************************************************************************)
(* How bdd_new_node comes by a cell (sis/bdd_ucb): node blocks allocated   *)
(* in pairs, one for each half space, an in-use and a free list of blocks  *)
(* in each half, the position of the next cell, the growth of the heap     *)
(* after a collection, the memory limit, and the position the collector    *)
(* scans the new half at.                                                  *)
(*                                                                         *)
(* BddGc takes a half space to be a set of cells and lets the collector    *)
(* scan its copies in any order.  Here are the lists and counters that     *)
(* set is made of; what the cells contain is left out: a relocation either *)
(* needs a new cell or does not.                                           *)
(***************************************************************************)
EXTENDS Naturals, Sequences, FiniteSets

CONSTANTS
    BlockSize,    \* BDD_NODES_PER_NODEBLOCK
    InitBlocks,   \* heap.init_node_blocks
    NodeRatio,    \* heap.gc.node_ratio, whole numbers only
    PairBytes,    \* 2 * sizeof(bdd_nodeBlock)
    MemLimits,    \* the values memory.limit may be given, in megabytes
    Megabyte,     \* BDD_ONE_MEGABYTE
    WordSize,     \* 2^w, for an unsigned int of w bits
    MaxOther,     \* bound: memory the tables and external pointers take
    MaxGens,      \* bound: open generators
    NIL

ASSUME BlocksAssumption ==
    /\ {BlockSize, InitBlocks, PairBytes, Megabyte, WordSize} \subseteq Nat \ {0}
    /\ {NodeRatio, MaxOther, MaxGens} \subseteq Nat /\ MemLimits \subseteq Nat
    /\ NIL \notin Nat

VARIABLES
    list,       \* heap.half: the in-use and the free list of each half space
    half,       \* heap.gc.halfspace
    pointer,    \* heap.pointer: where the next node goes
    stats,      \* heap.stats.nodes, and heap.stats.blocks.total
    gc,         \* heap.gc.on, and heap.gc.status.open_generators
    limit,      \* memory.limit, of this manager
    other,      \* the rest of heap.stats.memory.total
    pc,         \* what get_node_block or bdd_garbage_collect is doing
    caller,     \* who called bdd_garbage_collect
    request,    \* request_status: whether another block is optional
    added,      \* i, in the loop that allocates the initial blocks
    prev,       \* prev_nodes_used
    cursor,     \* block and i of scan_newhalf, and the branch it is at
    scanned     \* history: the cells scan_newhalf has been over

vars == <<list, half, pointer, stats, gc, limit, other, pc, caller, request,
          added, prev, cursor, scanned>>

collecting == <<caller, prev, cursor, scanned>>
setting == <<gc, limit, other>>

-----------------------------------------------------------------------------

free == list[half].free
inuse == list[half].inuse

\* A slip: off by one at the end of a block.
NeedsBlockLate == pointer.block = NIL \/ pointer.index > BlockSize

\* bdd_new_node has to call get_node_block.
NeedsBlock == pointer.block = NIL \/ pointer.index >= BlockSize

\* get_mem_stats, then the test of bdd_will_exceed_mem_limit.
Memory == stats.blocks * PairBytes + other

Exceeds == (Memory + PairBytes) % WordSize >= (limit * Megabyte) % WordSize

Init ==
    /\ list = [h \in {0, 1} |-> [inuse |-> <<>>, free |-> <<>>]]
    /\ half = 0
    /\ pointer = [block |-> NIL, index |-> 0]
    /\ stats = [used |-> 0, unused |-> 0, total |-> 0, blocks |-> 0]
    /\ gc \in [on: BOOLEAN, generators: {0}]
    /\ limit \in MemLimits
    /\ other = 0
    /\ pc = "idle"
    /\ caller = "none" /\ request = FALSE /\ added = 0
    /\ prev = 0
    /\ cursor = [place |-> 0, i |-> 0, branch |-> "T"]
    /\ scanned = {}

-----------------------------------------------------------------------------
(* Outside the allocator, once bdd_start has made the first node.          *)

Started == pc = "idle" /\ inuse /= <<>>

SetGcMode ==
    /\ Started
    /\ gc' = [gc EXCEPT !.on = ~gc.on]
    /\ UNCHANGED <<list, half, pointer, stats, limit, other, pc, request, added, collecting>>

\* bdd_first_node, bdd_first_cube
OpenGenerator ==
    /\ Started
    /\ gc.generators < MaxGens
    /\ gc' = [gc EXCEPT !.generators = gc.generators + 1]
    /\ UNCHANGED <<list, half, pointer, stats, limit, other, pc, request, added, collecting>>

\* bdd_gen_free
FreeGenerator ==
    /\ Started
    /\ gc.generators > 0
    /\ gc' = [gc EXCEPT !.generators = gc.generators - 1]
    /\ UNCHANGED <<list, half, pointer, stats, limit, other, pc, request, added, collecting>>

\* The tables, the caches and the blocks of external pointers.
OtherMemory ==
    /\ Started
    /\ other' \in (0 .. MaxOther) \ {other}
    /\ UNCHANGED <<list, half, pointer, stats, gc, limit, pc, request, added, collecting>>

-----------------------------------------------------------------------------
(* Lists of blocks.                                                        *)

\* get_block_from_free_list: the head of the free list goes to the tail of
\* the in-use list.
TakenBlock(l) == [inuse |-> Append(l.inuse, Head(l.free)), free |-> Tail(l.free)]

\* The rest of bdd_new_node: the node takes the next cell, of the block in
\* use or of the first free one.
AllocateNode ==
    /\ \/ /\ ~NeedsBlock
          /\ pointer' = [pointer EXCEPT !.index = pointer.index + 1]
          /\ UNCHANGED list
       \/ /\ NeedsBlock
          /\ free /= <<>>
          /\ list' = [list EXCEPT ![half] = TakenBlock(list[half])]
          /\ pointer' = [block |-> Head(free), index |-> 1]
    /\ stats' = [stats EXCEPT !.used = stats.used + 1, !.unused = stats.unused - 1]

\* A slip: only the half in use gets a block.
PairAddedToOne ==
    list' = [list EXCEPT ![half].free = <<stats.blocks + 1>> \o list[half].free]

\* A block goes to the head of the free list of each half.
PairAdded ==
    list' = [h \in {0, 1} |->
               [list[h] EXCEPT !.free = <<stats.blocks + 1>> \o list[h].free]]

\* add_block_to_free_list succeeds.
AddBlock ==
    /\ ~Exceeds
    /\ PairAdded
    /\ stats' = [stats EXCEPT !.unused = stats.unused + BlockSize,
                              !.total = stats.total + BlockSize,
                              !.blocks = stats.blocks + 1]

\* A slip: the free list is forgotten.
FlippedDropsFree(l) == [inuse |-> <<>>, free |-> l.inuse]

\* flip_spaces: the free list follows the in-use list, and all of it is free.
Flipped(l) == [inuse |-> <<>>, free |-> l.inuse \o l.free]

-----------------------------------------------------------------------------
(* bdd_garbage_collect.                                                    *)

\* get_node_block decides whether it must have another block.
RequestAfter(l, p) == ~(p.index >= BlockSize /\ l.free = <<>>)

\* A slip: another block is always optional.
ReturnAlwaysOptional(who) ==
    /\ pc' = IF who = "full" THEN "grow" ELSE "daemon"
    /\ request' = TRUE
    /\ caller' = "none"

\* A slip: another block is never optional.
ReturnNeverOptional(who) ==
    /\ pc' = IF who = "full" THEN "grow" ELSE "daemon"
    /\ request' = FALSE
    /\ caller' = "none"

\* The collection is over, or was skipped; its caller goes on.
Return(who) ==
    /\ pc' = IF who = "full" THEN "grow" ELSE "daemon"
    /\ request' = IF who = "full" THEN RequestAfter(list[half], pointer) ELSE request
    /\ caller' = "none"

\* The collector is off.
GcSkipped(who) ==
    /\ ~gc.on
    /\ Return(who)
    /\ UNCHANGED <<list, half, pointer, stats, prev, cursor, scanned>>

\* "there are open generators during the garbage collection"
GcFails ==
    /\ gc.on /\ gc.generators > 0
    /\ pc' = "failed"
    /\ UNCHANGED <<list, half, pointer, stats, caller, request, prev, cursor, scanned>>

\* bdd_start has not assigned bdd.one, the first root, and there is no block
\* for scan_newhalf to begin at: undefined behaviour.
GcCrashes ==
    /\ gc.on /\ gc.generators = 0
    /\ inuse = <<>>
    /\ pc' = "crashed"
    /\ UNCHANGED <<list, half, pointer, stats, caller, request, prev, cursor, scanned>>

Flip_spaces(who) ==
    /\ gc.on /\ gc.generators = 0
    /\ inuse /= <<>>
    /\ pc' = "one"
    /\ caller' = who
    /\ prev' = stats.used
    /\ half' = 1 - half
    /\ list' = [list EXCEPT ![1 - half] = Flipped(list[1 - half])]
    /\ pointer' = [block |-> NIL, index |-> 0]
    /\ stats' = [stats EXCEPT !.used = 0, !.unused = stats.total]
    /\ scanned' = {}
    /\ UNCHANGED <<request, cursor>>

GarbageCollect(who) ==
    \/ GcSkipped(who)
    \/ GcFails /\ UNCHANGED half
    \/ GcCrashes /\ UNCHANGED half
    \/ Flip_spaces(who)

\* relocate copies a node that has not been copied.  There are no more of
\* them than nodes the collection began with (BddGc shows each is copied
\* once).
RelocateCopies == stats.used < prev /\ AllocateNode

\* Or it finds a broken heart, or NIL.
RelocateForwards == UNCHANGED <<list, pointer, stats>>

\* scan_manager relocates bdd.one first.
RelocateOne ==
    /\ pc = "one"
    /\ RelocateCopies
    /\ pc' = "roots"
    /\ UNCHANGED <<half, setting, request, added, collecting>>

RelocateRoot ==
    /\ pc = "roots"
    /\ RelocateCopies
    /\ UNCHANGED <<half, setting, pc, request, added, collecting>>

\* The roots are done; heap.gc.during.start is the first cell of the half.
EndRoots ==
    /\ pc = "roots"
    /\ pc' = "scan"
    /\ cursor' = [place |-> 1, i |-> 0, branch |-> "T"]
    /\ UNCHANGED <<list, half, pointer, stats, setting, request, added, caller, prev, scanned>>

Cursor == <<inuse[cursor.place], cursor.i>>

ScanT ==
    /\ pc = "scan" /\ cursor.branch = "T"
    /\ RelocateCopies \/ RelocateForwards
    /\ cursor' = [cursor EXCEPT !.branch = "E"]
    /\ UNCHANGED <<half, setting, pc, request, added, caller, prev, scanned>>

\* A slip: where the copies end is not looked up again after relocate.
AdvanceStale(l, p) ==
    LET pastp == inuse[cursor.place] = pointer.block
        past == IF pastp THEN pointer.index ELSE BlockSize
    IN IF cursor.i + 1 < past
       THEN /\ cursor' = [cursor EXCEPT !.i = cursor.i + 1, !.branch = "T"]
            /\ pc' = pc
       ELSE IF pastp
            THEN pc' = "swept" /\ UNCHANGED cursor
            ELSE /\ cursor' = [place |-> cursor.place + 1, i |-> 0, branch |-> "T"]
                 /\ pc' = pc

\* scan_newhalf goes on to the next copy, or finds that it is past the last,
\* given the lists and the pointer relocate has left.
Advance(l, p) ==
    LET pastp == l.inuse[cursor.place] = p.block
        past == IF pastp THEN p.index ELSE BlockSize
    IN IF cursor.i + 1 < past
       THEN /\ cursor' = [cursor EXCEPT !.i = cursor.i + 1, !.branch = "T"]
            /\ pc' = pc
       ELSE IF pastp
            THEN pc' = "swept" /\ UNCHANGED cursor
            ELSE /\ cursor' = [place |-> cursor.place + 1, i |-> 0, branch |-> "T"]
                 /\ pc' = pc

ScanE ==
    /\ pc = "scan" /\ cursor.branch = "E"
    /\ RelocateCopies \/ RelocateForwards
    /\ Advance(list'[half], pointer')
    /\ scanned' = scanned \union {Cursor}
    /\ UNCHANGED <<half, setting, request, added, caller, prev>>

\* scan_cache copies nothing, so that the second scan_newhalf does nothing.
EndGc ==
    /\ pc = "swept"
    /\ Return(caller)
    /\ cursor' = [place |-> 0, i |-> 0, branch |-> "T"]
    /\ scanned' = {}
    /\ prev' = 0
    /\ UNCHANGED <<list, half, pointer, stats, setting, added>>

-----------------------------------------------------------------------------
(* bdd_new_node and get_node_block, outside a collection.                  *)

NewNode ==
    /\ pc = "idle"
    /\ AllocateNode
    /\ UNCHANGED <<half, setting, pc, request, added, collecting>>

\* The first block.
NewNodeInit ==
    /\ pc = "idle"
    /\ NeedsBlock /\ free = <<>> /\ inuse = <<>>
    /\ pc' = "init" /\ added' = 0 /\ request' = FALSE
    /\ UNCHANGED <<list, half, pointer, stats, setting, collecting>>

\* The half is full.
NewNodeFull ==
    /\ pc = "idle"
    /\ NeedsBlock /\ free = <<>> /\ inuse /= <<>>
    /\ GarbageCollect("full")
    /\ UNCHANGED <<setting, added>>

InitAdd ==
    /\ pc = "init" /\ added < InitBlocks
    /\ AddBlock
    /\ added' = added + 1
    /\ request' = TRUE
    /\ UNCHANGED <<half, pointer, setting, pc, collecting>>

GrowthWanted == stats.used > stats.unused * NodeRatio

GrowAdd ==
    /\ pc = "grow" /\ GrowthWanted
    /\ AddBlock
    /\ request' = TRUE
    /\ UNCHANGED <<half, pointer, setting, pc, added, collecting>>

Wanting == (pc = "init" /\ added < InitBlocks) \/ (pc = "grow" /\ GrowthWanted)

\* A slip: the loop goes on when no more blocks can be had.
StopAddingUnbroken ==
    /\ pc \in {"init", "grow"}
    /\ ~Wanting
    /\ pc' = "take" /\ added' = 0
    /\ UNCHANGED <<list, half, pointer, stats, setting, request, collecting>>

\* No more blocks can be had, or are needed.
StopAdding ==
    /\ pc \in {"init", "grow"}
    /\ Wanting => Exceeds /\ request
    /\ pc' = "take" /\ added' = 0
    /\ UNCHANGED <<list, half, pointer, stats, setting, request, collecting>>

\* bdd_will_exceed_mem_limit is asked again, and told to quit.
QuitComputation ==
    /\ Wanting /\ Exceeds /\ ~request
    /\ GarbageCollect("limit")
    /\ added' = 0
    /\ UNCHANGED setting

\* The daemon abandons the computation with a longjmp.
CallDaemon ==
    /\ pc = "daemon"
    /\ pc' = "idle" /\ request' = FALSE
    /\ UNCHANGED <<list, half, pointer, stats, setting, added, collecting>>

TakeBlock ==
    /\ pc = "take"
    /\ AllocateNode
    /\ pc' = "idle" /\ request' = FALSE
    /\ UNCHANGED <<half, setting, added, collecting>>

\* The program has ended.
Stopped == pc \in {"failed", "crashed"} /\ UNCHANGED vars

-----------------------------------------------------------------------------

Outside == SetGcMode \/ OpenGenerator \/ FreeGenerator \/ OtherMemory \/ NewNode
            \/ NewNodeInit \/ NewNodeFull

Collector == RelocateOne \/ RelocateRoot \/ EndRoots \/ ScanT \/ ScanE \/ EndGc

GetNodeBlock == InitAdd \/ GrowAdd \/ StopAdding \/ QuitComputation \/ CallDaemon \/ TakeBlock

Next == Outside \/ Collector \/ GetNodeBlock \/ Stopped

Spec == Init /\ [][Next]_vars

\* A call of bdd_new_node runs to its end.
Fairness == WF_vars(Collector \/ GetNodeBlock)

FairSpec == Spec /\ Fairness

-----------------------------------------------------------------------------
(* Properties.                                                             *)

HalfList == [inuse: Seq(Nat), free: Seq(Nat)]

TypeOK ==
    /\ list \in [{0, 1} -> HalfList]
    /\ half \in {0, 1}
    /\ pointer \in [block: Nat \union {NIL}, index: 0 .. BlockSize]
    /\ stats \in [used: Nat, unused: Nat, total: Nat, blocks: Nat]
    /\ gc \in [on: BOOLEAN, generators: 0 .. MaxGens]
    /\ limit \in MemLimits
    /\ other \in 0 .. MaxOther
    /\ pc \in {"idle", "init", "grow", "take", "daemon", "one", "roots", "scan",
               "swept", "failed", "crashed"}
    /\ caller \in {"none", "full", "limit"}
    /\ request \in BOOLEAN
    /\ added \in 0 .. InitBlocks
    /\ prev \in Nat
    /\ cursor \in [place: Nat, i: 0 .. BlockSize, branch: {"T", "E"}]
    /\ scanned \subseteq Nat \X (0 .. BlockSize)

\* The cells of the current half that hold nodes: all those of the blocks in
\* use, up to the pointer.
Filled ==
    {c \in {inuse[k] : k \in DOMAIN inuse} \X (0 .. BlockSize - 1) :
        c[1] = pointer.block => c[2] < pointer.index}

(* The counters agree with the lists, during a collection too: the growth  *)
(* policy and the memory limit are decided by counters alone, which        *)
(* add_block_to_free_list changes for one half and flip_spaces resets.     *)
CountersAgree ==
    /\ stats.used = Cardinality(Filled)
    /\ stats.used + stats.unused = stats.total
    /\ stats.total = (Len(inuse) + Len(free)) * BlockSize
    /\ stats.blocks = Len(inuse) + Len(free)

(* No block is lost or listed twice, whatever the order of collections and *)
(* growth, in the half in use and in the other one: each half has one block*)
(* of every pair.                                                          *)
NoBlockLost ==
    \A h \in {0, 1} :
        LET l == list[h].inuse \o list[h].free
        IN /\ Len(l) = stats.blocks
           /\ \A k \in 1 .. stats.blocks : \E j \in DOMAIN l : l[j] = k

(* "It should never occur that we are during gc and the free list is empty"*)
(* (new_node.c:63), when another node has to be copied.                    *)
GcHasRoom ==
    (pc \in {"one", "roots", "scan"} /\ stats.used < prev) => (~NeedsBlock \/ free /= <<>>)

(* "we are guaranteed to have at least one block on the free list"         *)
(* (new_node.c:206) when get_node_block comes to take one.                 *)
BlockAtHand == (pc = "take" /\ NeedsBlock) => free /= <<>>

(* scan_newhalf goes over every copy, once, although it adds copies behind *)
(* its own limit while it goes.                                            *)
EachScannedOnce ==
    /\ pc = "scan" => Cursor \in Filled \ scanned
    /\ pc = "swept" => scanned = Filled

(* A computation is abandoned only when there is not one cell left for it. *)
QuitOnlyWhenFull ==
    [][(caller' = "limit" /\ caller /= "limit") \/ (pc' = "daemon" /\ pc /= "swept")
        => stats.unused = 0]_vars

(* bdd_new_node returns, unless the program ends.                          *)
CallsEnd == (pc /= "idle") ~> (pc \in {"idle", "failed", "crashed"})

(* "upper bound on memory allocated by the manager; in megabytes"          *)
(* (bdd.h:120): a computation is abandoned only when the limit is near.    *)
LimitIsInMegabytes ==
    pc = "daemon" => Memory + PairBytes >= limit * Megabyte

=============================================================================
