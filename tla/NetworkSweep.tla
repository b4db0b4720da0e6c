---------------------------- MODULE NetworkSweep ----------------------------
(***************************************************************************)
(* The operations that clean a network up: network_sweep, network_csweep,  *)
(* network_cleanup, network_ccleanup (sweep.c, cleanup.c) and              *)
(* network_collapse (netclp.c), with the depth-first orders they use       *)
(* (dfs.c).                                                                *)
(***************************************************************************)
EXTENDS Network

\* The turns a loop "while something changes" is given.  Each deletes a node,
\* or merges or sweeps a latch, whose ends are nodes, or is one of the last two.
MostTurns(net) == Len(net.nodes) + 2

\* A step of a depth-first search, which has put nodes out and follows a path.
network_dfs_recur(net, search) ==
    LET n == Last(search.path)
        left == {i \in DOMAIN net.node[n].fanin : net.node[n].fanin[i] \notin Range(search.out)}
    IN IF left = {} THEN [out |-> Append(search.out, n), path |-> Front(search.path)]
       ELSE [out |-> search.out, path |-> Append(search.path, net.node[n].fanin[Min(left)])]

\* The nodes after their fanins, from the outputs and the floating nodes: each
\* is entered once and left once.
network_dfs(net) ==
    LET used == {n \in Range(net.nodes) : net.fanout[n] /= <<>> \/ net.node[n].type = "PRIMARY_OUTPUT"}
        roots == net.po \o Minus(net.nodes, used)
        Search[k \in 0..(2 * Len(net.nodes))] ==
            IF k = 0 THEN [out |-> <<>>, path |-> <<>>]
            ELSE LET search == Search[k - 1]
                     left == {i \in DOMAIN roots : roots[i] \notin Range(search.out)}
                 IN IF search.path /= <<>> THEN network_dfs_recur(net, search)
                    ELSE IF left = {} THEN search ELSE [search EXCEPT !.path = <<roots[Min(left)]>>]
    IN Search[2 * Len(net.nodes)].out

\* The nodes some real output depends on, across latches by their inputs
\* only, not by their controls.
snetwork_tfi_po(net) ==
    LET Behind(n) == Range(net.node[n].fanin) \union
                     (IF net.node[n].type = "PRIMARY_INPUT" THEN {network_latch_end(net, n)} \ {NIL} ELSE {})
        Visited[k \in 0..Len(net.nodes)] ==
            IF k = 0 THEN {po \in Range(net.po) : IsRealPo(net, po)}
            ELSE LET seen == Visited[k - 1] IN seen \union UNION {Behind(n) : n \in seen}
    IN Visited[Len(net.nodes)]

-----------------------------------------------------------------------------
\* network_sweep_node: constants, buffers and inverters go into their
\* fanouts; of an output only a buffer is swept.
Sweepable(net, n) ==
    {i \in DOMAIN net.node[n].fanin :
        LET fanin == net.node[net.node[n].fanin[i]]
        IN IF net.node[n].type = "PRIMARY_OUTPUT" THEN IsBuffer(fanin)
           ELSE IsConstant(fanin) \/ IsBuffer(fanin) \/ IsInverter(fanin)}

SweepFanin(net, n) ==
    IF Sweepable(net, n) = {} THEN net
    ELSE LET swept == net.node[n].fanin[Min(Sweepable(net, n))]
         IN IF net.node[n].type = "PRIMARY_OUTPUT"
            THEN node_patch_fanin(net, n, swept, net.node[swept].fanin[1])
            ELSE node_collapse(net, n, swept)

network_sweep_node(net, n) ==
    IF net.node[n].type = "PRIMARY_OUTPUT" THEN SweepFanin(net, n)
    ELSE Repeat(LAMBDA x : SweepFanin(x, n), net, MostTurns(net))

DeleteLatchAndEnds(net, l) ==
    network_delete_node(network_delete_node(network_delete_latch(net, l), l.input), l.output)

\* The latch starts with the constant it is fed, or with anything.
IsConstantLatch(net, l) ==
    LET driver == net.node[net.node[l.input].fanin[1]]
    IN /\ IsConstant(driver)
       /\ l.initial_value \in {2, IF driver.F = {} THEN 0 ELSE 1}

SweepConstantLatch(net, l) ==
    DeleteLatchAndEnds(PatchFanouts(net, l.output, net.node[l.input].fanin[1]), l)

SweepUnreachedLatch(net, l) ==
    LET cnode == Unused(net)
    IN DeleteLatchAndEnds(
           PatchFanouts(network_add_node(net, cnode, node_constant(0)), l.output, cnode), l)

\* A slip: only constants are looked for.
network_sweep_latch_constant_only(net, l, reached) ==
    IF IsConstantLatch(net, l) THEN SweepConstantLatch(net, l) ELSE net

network_sweep_latch(net, l, reached) ==
    IF IsConstantLatch(net, l) THEN SweepConstantLatch(net, l)
    ELSE IF l.output \notin reached THEN SweepUnreachedLatch(net, l) ELSE net

SweepNodes(net) == ForEach(network_sweep_node, net, network_dfs(net))

SweepLatches(net, sweep_latch) ==
    IF ~sweep_latch THEN net
    ELSE LET reached == snetwork_tfi_po(net)
         IN ForEach(LAMBDA result, l : network_sweep_latch(result, l, reached), net, net.latch)

\* A slip: the nodes are swept once only.
SweepOnce(net, sweep_latch) == SweepLatches(SweepNodes(net), sweep_latch)

SweepLoop(net, sweep_latch) ==
    Repeat(LAMBDA x : SweepLatches(SweepNodes(x), sweep_latch), net, MostTurns(net))

\* A slip: latches with different clocks are merged.
latch_equal_unclocked(l1, l2) == l1.initial_value = l2.initial_value

latch_equal(l1, l2) == l1.initial_value = l2.initial_value /\ l1.control = l2.control

\* The latches fed by one node, in the order of its fanout list, and those
\* of them that an earlier one makes redundant.
LatchesOn(net, fanin) ==
    LET others == {use \in Range(net.fanout[fanin]) : latch_from_node(net, use[1]) = NIL}
        inputs == Minus(net.fanout[fanin], others)
    IN [i \in DOMAIN inputs |-> LatchOf(net, inputs[i][1])]

RedundantLatches(net) ==
    UNION {LET ls == LatchesOn(net, fanin)
           IN {<<ls[j], ls[Min({i \in 1..j : latch_equal(ls[i], ls[j])})]>> :
                  j \in {k \in DOMAIN ls : \E i \in 1..(k - 1) : latch_equal(ls[i], ls[k])}} :
           fanin \in {net.node[l.input].fanin[1] : l \in Range(net.latch)}}

MergeRedundant(net) ==
    ForEach(LAMBDA result, r :
                DeleteLatchAndEnds(PatchFanouts(result, r[1].output, r[2].output), r[1]),
            net, SetToSeq(RedundantLatches(net)))

MergeLatches(net) == Repeat(MergeRedundant, net, MostTurns(net))

-----------------------------------------------------------------------------
CleanNode(net, n) ==
    IF net.node[n].type = "INTERNAL" /\ net.fanout[n] = <<>> THEN network_delete_node(net, n) ELSE net

CleanLatch(net, l) == IF net.fanout[l.output] = <<>> THEN DeleteLatchAndEnds(net, l) ELSE net

CleanNodes(net) == ForEach(CleanNode, net, net.nodes)

CleanLatches(net, sweep_latch) ==
    IF sweep_latch THEN ForEach(CleanLatch, net, net.latch) ELSE net

network_cleanup_util(net, sweep_latch) ==
    Repeat(LAMBDA x : CleanLatches(CleanNodes(x), sweep_latch), net, MostTurns(net))

network_sweep(net) == network_cleanup_util(MergeLatches(SweepLoop(net, TRUE)), TRUE)

network_csweep(net) == network_cleanup_util(SweepLoop(net, FALSE), FALSE)

network_cleanup(net) == network_cleanup_util(net, TRUE)

network_ccleanup(net) == network_cleanup_util(net, FALSE)

-----------------------------------------------------------------------------
CollapseFanin(net, n) ==
    LET internal == {i \in DOMAIN net.node[n].fanin : IsCollapsible(net, n, net.node[n].fanin[i])}
    IN IF internal = {} THEN net ELSE node_collapse(net, n, net.node[n].fanin[Min(internal)])

\* Until no fanin of the node is internal.
network_collapse_single(net, n) ==
    Repeat(LAMBDA x : CollapseFanin(x, n), net, MostTurns(net))

network_collapse(net) ==
    network_cleanup(ForEach(network_collapse_single, net, network_dfs(net)))

=============================================================================
