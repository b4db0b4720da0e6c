--------------------------- MODULE NetworkAppend ----------------------------
(***************************************************************************)
(* network_append (append.c): a copy of a second network is joined to a    *)
(* network by name.  An input of the one that has the name of a node of    *)
(* the other is that node; two nodes that compute the same name are an     *)
(* error, which is reported when the network has been changed already.     *)
(* The state graph, which is freed, is left out.                           *)
(***************************************************************************)
EXTENDS NetworkSweep

\* gen_unique_name: name-0, name-1, ...
gen_unique_name(net, name) ==
    <<"append", name,
      Min({k \in 0..Len(net.nodes) : <<"append", name, k>> \notin DOMAIN net.name_table})>>

\* node->copy of the nodes of the first network is copy1, of the second copy2.
\* While nodes are added, a new one has no fanins: the code has them point
\* into the copy of the second network, and rebuilds every fanout list.
copy_node(state, n2, nd, name) ==
    LET new == Unused(state.net)
    IN [net |-> network_add_node(state.net, new, [nd EXCEPT !.fanin = <<>>, !.name = name]),
        copy1 |-> state.copy1, copy2 |-> Put(state.copy2, n2, new),
        added |-> Put(state.added, new, nd.fanin), error |-> state.error]

\* A slip: the node that drives the name is not looked at again.
add_node_by_name_shadowing(state, n2, nd) ==
    IF nd.name \notin DOMAIN state.net.name_table THEN copy_node(state, n2, nd, nd.name)
    ELSE IF nd.type = "PRIMARY_INPUT"
    THEN [state EXCEPT !.copy2 = Put(@, n2, state.net.name_table[nd.name])]
    ELSE copy_node(state, n2, nd, gen_unique_name(state.net, nd.name))

add_node_by_name(state, n2, nd) ==
    IF nd.name \notin DOMAIN state.net.name_table THEN copy_node(state, n2, nd, nd.name)
    ELSE LET n1 == state.net.name_table[nd.name]
             temp == Unused(state.net)
             copied == copy_node(state, n2, nd, gen_unique_name(state.net, nd.name))
         IN IF nd.type = "PRIMARY_INPUT" THEN [state EXCEPT !.copy2 = Put(@, n2, n1)]
            ELSE IF state.net.node[n1].type = "PRIMARY_INPUT"
            THEN [copied EXCEPT !.net = network_swap_names(@, n1, temp),
                                !.copy1 = Put(@, n1, temp)]
            ELSE [copied EXCEPT !.error = TRUE]

\* The loop over the pins: each is patched once, in the order of the list.
PatchOutputs(net) ==
    LET Driver(node, m) == IF node[m].type = "PRIMARY_OUTPUT" THEN node[m].fanin[1] ELSE m
        Patch(node, n) ==
            LET fanin == node[n].fanin
            IN Put(node, n, [node[n] EXCEPT !.fanin = [i \in DOMAIN fanin |-> Driver(node, fanin[i])]])
    IN [net EXCEPT !.node = ForEach(Patch, @, net.nodes)]

ResetFanouts(net) ==
    ForEach(fanin_add_fanout, [net EXCEPT !.fanout = [n \in DOMAIN @ |-> <<>>]], net.nodes)

network_append(net1, net2) ==
    LET start == [net |-> net1, copy1 |-> [n \in DOMAIN net1.node |-> n], copy2 |-> <<>>,
                  added |-> <<>>, error |-> FALSE]
        joined == ForEach(LAMBDA state, n2 : add_node_by_name(state, n2, net2.node[n2]),
                          start, net2.nodes)
        Fanin(n) == IF n \in DOMAIN net1.node
                    THEN [i \in DOMAIN net1.node[n].fanin |-> joined.copy1[net1.node[n].fanin[i]]]
                    ELSE [i \in DOMAIN joined.added[n] |-> joined.copy2[joined.added[n][i]]]
        Rewire(node, n) == Put(node, n, [node[n] EXCEPT !.fanin = Fanin(n)])
        rewired == [joined.net EXCEPT !.node = ForEach(Rewire, @, joined.net.nodes)]
        replaced == Minus(net1.nodes, {n \in DOMAIN net1.node : joined.copy1[n] = n})
        patched == ResetFanouts(network_delete_nodes(PatchOutputs(rewired), replaced))
        result == copy_latch_info(patched, net2.latch, joined.copy2)
    IN [net |-> result, error |-> joined.error \/ ~network_is_acyclic(result)]

=============================================================================
