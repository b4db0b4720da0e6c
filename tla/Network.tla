------------------------------ MODULE Network ------------------------------
(***************************************************************************)
(* The network package (sis/network, sis/latch, sis/node/fan.c): nodes     *)
(* with fanins and fanout lists, the lists of inputs and outputs, the name *)
(* table, and the latches with the table that finds them.                  *)
(*                                                                         *)
(* A network is a value and an operation maps networks to networks.  A     *)
(* node is its address: freed addresses are handed out again.  A latch is  *)
(* known by its input, a primary output that observes a node; its output   *)
(* is a primary input.  A name is a tuple that begins with the way it came *)
(* to be; made-up names are [k] with k unused, where the code counts.      *)
(* Short names, delay data, state graphs, external don't-care networks and *)
(* the type and gate of a latch are left out.                              *)
(***************************************************************************)
EXTENDS Cover

CONSTANT NIL

ASSUME NilAssumption == NIL \notin Nat

Put(f, x, v) == [y \in DOMAIN f \union {x} |-> IF y = x THEN v ELSE f[y]]

Without(f, x) == [y \in DOMAIN f \ {x} |-> f[y]]

\* A list without the elements of a set.  Lists and loops are recursive
\* functions of an index, which can be proved about.
Minus(list, gone) ==
    LET Kept[k \in 0..Len(list)] ==
            IF k = 0 THEN <<>>
            ELSE IF list[k] \in gone THEN Kept[k - 1] ELSE Append(Kept[k - 1], list[k])
    IN IF Range(list) \intersect gone = {} THEN list ELSE Kept[Len(list)]

\* A loop over a list.
ForEach(Step(_, _), start, list) ==
    LET After[k \in 0..Len(list)] ==
            IF k = 0 THEN start ELSE Step(After[k - 1], list[k])
    IN After[Len(list)]

\* A loop "while something changes", cut off after so many turns.
Repeat(Pass(_), start, most) ==
    LET Turn[k \in 0..most] ==
            IF k = 0 THEN [net |-> start, changed |-> TRUE]
            ELSE LET last == Turn[k - 1]
                     next == Pass(last.net)
                 IN IF last.changed THEN [net |-> next, changed |-> next /= last.net] ELSE last
    IN Turn[most].net

Given(x) == <<"given", x>>

network_alloc ==
    [node |-> <<>>, fanout |-> <<>>, nodes |-> <<>>, pi |-> <<>>, po |-> <<>>,
     name_table |-> <<>>, latch |-> <<>>, latch_table |-> <<>>]

\* node_alloc returns a free address.
Unused(net) == Min(1..(Len(net.nodes) + 1) \ DOMAIN net.node)

-----------------------------------------------------------------------------
\* Fanout lists hold <<node, pin>> for each pin that uses the node.

fanin_add_fanout(net, n) ==
    LET fanin == net.node[n].fanin
        uses == [i \in DOMAIN fanin |-> <<n, Len(fanin) + 1 - i>>]
        Others(x) == {<<n, i>> : i \in {j \in DOMAIN fanin : fanin[j] /= x}}
    IN [net EXCEPT !.fanout = [x \in DOMAIN @ |-> IF x \in Range(fanin) THEN @[x] \o Minus(uses, Others(x)) ELSE @[x]]]

fanin_remove_fanout(net, n) ==
    [net EXCEPT !.fanout =
        [x \in DOMAIN @ |-> Minus(@[x], {n} \X DOMAIN net.node[n].fanin)]]

\* A slip: the flag keeps what was true of the old fanins.
node_patch_fanin_keeping_flag(net, n, old, new) ==
    IF \A i \in DOMAIN net.node[n].fanin : net.node[n].fanin[i] /= old THEN net
    ELSE LET pin == Min({i \in DOMAIN net.node[n].fanin : net.node[n].fanin[i] = old})
             unused == Put(net.fanout, old, Minus(net.fanout[old], {<<n, pin>>}))
         IN [net EXCEPT !.node = Put(@, n, [@[n] EXCEPT !.fanin = Put(@, pin, new)]),
                        !.fanout = Put(unused, new, Append(unused[new], <<n, pin>>))]

\* Only the first pin that has the fanin is patched.
node_patch_fanin(net, n, old, new) ==
    IF \A i \in DOMAIN net.node[n].fanin : net.node[n].fanin[i] /= old THEN net
    ELSE LET pin == Min({i \in DOMAIN net.node[n].fanin : net.node[n].fanin[i] = old})
             patched == [net.node[n] EXCEPT !.fanin = Put(@, pin, new), !.dup_free = FALSE]
             unused == Put(net.fanout, old, Minus(net.fanout[old], {<<n, pin>>}))
         IN [net EXCEPT !.node = Put(@, n, patched),
                        !.fanout = Put(unused, new, Append(unused[new], <<n, pin>>))]

PatchUses(net, uses, old, new) ==
    ForEach(LAMBDA result, use : node_patch_fanin(result, use[1], old, new), net, uses)

\* The loop over a copy of a fanout list, from its end, of sweep.c.
PatchFanouts(net, old, new) == PatchUses(net, Reverse(net.fanout[old]), old, new)

-----------------------------------------------------------------------------
\* Names and nodes

MadeUpName(net) ==
    <<"madeup", Min({k \in 1..(Len(net.nodes) + 1) : <<"madeup", k>> \notin DOMAIN net.name_table})>>

Renamed(net, n, name) ==
    [net EXCEPT !.node = Put(@, n, [@[n] EXCEPT !.name = name]), !.name_table = Put(@, name, n)]

network_swap_names(net, n1, n2) ==
    Renamed(Renamed(net, n1, net.node[n2].name), n2, net.node[n1].name)

\* A node without a name, or with a made-up one that is taken, gets a new one.
network_add_node(net, n, nd) ==
    LET name == IF nd.name = NIL \/ (nd.name[1] = "madeup" /\ nd.name \in DOMAIN net.name_table)
                THEN MadeUpName(net) ELSE nd.name
        listed == [net EXCEPT
            !.nodes = Append(@, n),
            !.pi = IF nd.type = "PRIMARY_INPUT" THEN Append(@, n) ELSE @,
            !.po = IF nd.type = "PRIMARY_OUTPUT" THEN Append(@, n) ELSE @]
        added == [listed EXCEPT
            !.node = Put(@, n, [nd EXCEPT !.name = name]),
            !.fanout = Put(@, n, <<>>),
            !.name_table = Put(@, name, n)]
    IN fanin_add_fanout(added, n)

PrimaryInput(name) ==
    [type |-> "PRIMARY_INPUT", fanin |-> <<>>, F |-> {}, dup_free |-> FALSE, name |-> name]

PrimaryOutput(driver) ==
    [type |-> "PRIMARY_OUTPUT", fanin |-> <<driver>>, F |-> {}, dup_free |-> FALSE, name |-> NIL]

\* What the reader makes of a line, after its node_scc.
Internal(fanin, F) ==
    [type |-> "INTERNAL", fanin |-> fanin, F |-> F, dup_free |-> TRUE, name |-> NIL]

node_constant(phase) == Internal(<<>>, IF phase = 1 THEN {<<>>} ELSE {})

network_add_primary_input(net, n, name) == network_add_node(net, n, PrimaryInput(name))

\* The output takes the name of the node it makes observable.
network_add_primary_output(net, n, driver) ==
    network_swap_names(network_add_node(net, n, PrimaryOutput(driver)), driver, n)

network_add_fake_primary_output(net, n, driver) ==
    network_swap_names(network_add_primary_output(net, n, driver), driver, n)

network_change_node_type(net, n, type) ==
    [net EXCEPT !.node = Put(@, n, [@[n] EXCEPT !.type = type]),
                !.pi = IF type = "PRIMARY_INPUT" THEN Append(Minus(@, {n}), n) ELSE Minus(@, {n}),
                !.po = IF type = "PRIMARY_OUTPUT" THEN Append(Minus(@, {n}), n) ELSE Minus(@, {n})]

\* A slip: the node stays on the fanout lists of its fanins.
network_delete_node_leaving_uses(net, n) ==
    LET forgotten == network_change_node_type(net, n, "INTERNAL")
        unlisted == [forgotten EXCEPT !.nodes = Minus(@, {n}),
                                      !.name_table = Without(@, net.node[n].name)]
    IN [unlisted EXCEPT !.node = Without(@, n), !.fanout = Without(@, n)]

\* A slip: the fanout list outlives the node.
network_delete_node_leaving_fanouts(net, n) ==
    LET forgotten == fanin_remove_fanout(network_change_node_type(net, n, "INTERNAL"), n)
    IN [forgotten EXCEPT !.nodes = Minus(@, {n}), !.node = Without(@, n),
                         !.name_table = Without(@, net.node[n].name)]

\* Nobody looks whether a fanout or a latch still needs the node.
network_delete_node(net, n) ==
    LET forgotten == fanin_remove_fanout(network_change_node_type(net, n, "INTERNAL"), n)
        unlisted == [forgotten EXCEPT !.nodes = Minus(@, {n}),
                                      !.name_table = Without(@, net.node[n].name)]
    IN [unlisted EXCEPT !.node = Without(@, n), !.fanout = Without(@, n)]

network_delete_nodes(net, ns) == ForEach(network_delete_node, net, ns)

-----------------------------------------------------------------------------
\* Functions

\* The node takes the function of r, in its fanins, its cover and its flag.
node_replace(net, n, r) ==
    LET old == fanin_remove_fanout(
                   IF net.node[n].type = "PRIMARY_INPUT"
                   THEN network_change_node_type(net, n, "INTERNAL") ELSE net, n)
        nd == [old.node[n] EXCEPT !.fanin = r.fanin, !.F = r.F, !.dup_free = r.dup_free]
    IN fanin_add_fanout([old EXCEPT !.node = Put(@, n, nd)], n)

IsCollapsible(net, f, g) ==
    /\ net.node[f].type = "INTERNAL" /\ net.node[g].type = "INTERNAL"
    /\ g \in Range(net.node[f].fanin)

\* The first pin of f that has the fanin g is expressed by g's fanins.  The
\* combined function is over a base without repetition, but for a buffer: there
\* node_and with 1 and node_or with 0 give a duplicate of g as it is.
node_collapse(net, f, g) ==
    IF ~IsCollapsible(net, f, g) THEN net
    ELSE LET nd == net.node[f]
             pin == Min({i \in DOMAIN nd.fanin : nd.fanin[i] = g})
             cover == Substitute(nd, pin, OverBase(net.node[g]))
             combined == Internal(PinsOf(cover), OverPins(cover, PinsOf(cover)))
         IN node_replace(net, f, IF IsBuffer(nd) /\ ~IsConstant(net.node[g])
                                 THEN net.node[g] ELSE combined)

-----------------------------------------------------------------------------
\* Latches

latch_from_node(net, n) ==
    IF n \in DOMAIN net.latch_table THEN net.latch_table[n] ELSE NIL

\* A control is entered in the latch table without a latch.
latch_set_control(net, input, control) ==
    [net EXCEPT !.latch = [i \in DOMAIN @ |-> IF @[i].input = input
                                              THEN [@[i] EXCEPT !.control = control] ELSE @[i]],
                !.latch_table = IF control = NIL THEN @ ELSE Put(@, control, NIL)]

LatchOf(net, input) == net.latch[SelectInSeq(net.latch, LAMBDA l : l.input = input)]

network_latch_end(net, n) ==
    LET input == latch_from_node(net, n)
    IN IF input = NIL THEN NIL
       ELSE IF input = n THEN LatchOf(net, input).output ELSE input

IsRealPo(net, n) == net.node[n].type = "PRIMARY_OUTPUT" /\ n \notin DOMAIN net.latch_table

IsRealPi(net, n) == net.node[n].type = "PRIMARY_INPUT" /\ n \notin DOMAIN net.latch_table

AddLatch(net, input, output, init) ==
    [net EXCEPT !.latch = Append(@, [input |-> input, output |-> output,
                                     initial_value |-> init, control |-> NIL]),
                !.latch_table = Put(Put(@, input, input), output, input)]

\* A slip: the output takes the node's name.
network_disconnect_naming(net, n1, n2) ==
    LET cut == network_add_primary_output(net, Unused(net), n1)
    IN node_patch_fanin(network_add_primary_input(cut, Unused(cut), NIL), n2, n1, Unused(cut))

\* The new output and input of network_disconnect: addresses in this order.
network_disconnect(net, n1, n2) ==
    LET cut == network_add_fake_primary_output(net, Unused(net), n1)
    IN node_patch_fanin(network_add_primary_input(cut, Unused(cut), NIL), n2, n1, Unused(cut))

\* Between a node and a fanout of it.
network_create_latch(net, n1, n2, init) ==
    LET cut == network_disconnect(net, n1, n2)
    IN AddLatch(cut, cut.po[Len(cut.po)], cut.pi[Len(cut.pi)], init)

\* Between a primary output and a primary input that are not yet of a latch.
network_create_latch_between(net, po, pi, init) ==
    IF network_latch_end(net, po) = NIL /\ network_latch_end(net, pi) = NIL
    THEN AddLatch(net, po, pi, init) ELSE net

\* A slip: only the input leaves the latch table.
network_delete_latch_input_only(net, l) ==
    [net EXCEPT !.latch = Minus(@, {l}), !.latch_table = Without(@, l.input)]

network_delete_latch(net, l) ==
    [net EXCEPT !.latch = Minus(@, {l}), !.latch_table = Without(Without(@, l.input), l.output)]

\* The nodes one reaches from n through at least one fanout.
network_tfo(net, n) ==
    LET Fanouts(S) == UNION {{use[1] : use \in Range(net.fanout[m])} : m \in S}
        Reached[k \in 0..Len(net.nodes)] ==
            IF k = 0 THEN Fanouts({n})
            ELSE LET nearer == Reached[k - 1] IN nearer \union Fanouts(nearer)
    IN Reached[Len(net.nodes)]

\* The test by which network_connect fails looks behind the fanouts of the
\* input, not at them.
ConnectsAcyclically(net, po, pi) ==
    \A use \in Range(net.fanout[pi]) : net.node[po].fanin[1] \notin network_tfo(net, use[1])

network_connect(net, po, pi) ==
    LET driver == net.node[po].fanin[1]
        shorted == PatchUses(net, net.fanout[pi], pi, driver)
    IN network_delete_node(network_delete_node(shorted, po), pi)

-----------------------------------------------------------------------------
\* Duplication

\* copy leads from the latches' ends and controls to those of net.
copy_latch_info(net, latches, copy) ==
    LET Copy(result, l) ==
            LET put == AddLatch(result, copy[l.input], copy[l.output], l.initial_value)
            IN IF l.control = NIL THEN put
               ELSE latch_set_control(put, copy[l.input], copy[l.control])
    IN ForEach(Copy, net, latches)

\* The nodes are copied to new addresses, in the order of their list.  The
\* latch table is filled from the latches of the copy.
network_dup(net) ==
    LET copy == [n \in DOMAIN net.node |-> SelectInSeq(net.nodes, LAMBDA m : m = n)]
        Copied(list) == [i \in DOMAIN list |-> copy[list[i]]]
        nodes == [
            node |-> [i \in DOMAIN net.nodes |-> [net.node[net.nodes[i]] EXCEPT !.fanin = Copied(@)]],
            fanout |-> [i \in DOMAIN net.nodes |-> <<>>],
            nodes |-> Copied(net.nodes), pi |-> Copied(net.pi), po |-> Copied(net.po),
            name_table |-> [name \in {net.node[n].name : n \in DOMAIN net.node} |->
                SelectInSeq(net.nodes, LAMBDA n : net.node[n].name = name)],
            latch |-> <<>>, latch_table |-> <<>>]
    IN copy_latch_info(ForEach(fanin_add_fanout, nodes, nodes.nodes), net.latch, copy)

-----------------------------------------------------------------------------
\* network_is_acyclic: the nodes can be taken away fanins first.
network_is_acyclic(net) ==
    LET Settled[k \in 0..Len(net.nodes)] ==
            IF k = 0 THEN {}
            ELSE LET below == Settled[k - 1]
                 IN {n \in DOMAIN net.node : Range(net.node[n].fanin) \subseteq below}
    IN Settled[Len(net.nodes)] = DOMAIN net.node

node_check(nd) ==
    nd.type = "INTERNAL" => IsFunction(nd) /\ IsMinimumBase(nd) /\ IsSccMinimal(nd)

\* network_check, test by test.
network_check(net) ==
    /\ \A n \in DOMAIN net.node : node_check(net.node[n])
    /\ Range(net.nodes) = DOMAIN net.node
    /\ \A n \in DOMAIN net.node :
        /\ Range(net.node[n].fanin) \subseteq DOMAIN net.node
        /\ {use[1] : use \in Range(net.fanout[n])} \subseteq DOMAIN net.node
    /\ \A n \in Range(net.po) :
        net.node[n].type = "PRIMARY_OUTPUT" /\ Len(net.node[n].fanin) = 1 /\ net.fanout[n] = <<>>
    /\ \A n \in Range(net.pi) :
        net.node[n].type = "PRIMARY_INPUT" /\ net.node[n].fanin = <<>>
    /\ \A n \in DOMAIN net.node :
        /\ net.node[n].type = "PRIMARY_OUTPUT" => n \in Range(net.po)
        /\ net.node[n].type = "PRIMARY_INPUT" => n \in Range(net.pi)
        /\ net.node[n].type = "INTERNAL" =>
            /\ \A i \in DOMAIN net.node[n].fanin :
                Cardinality({j \in DOMAIN net.fanout[net.node[n].fanin[i]] :
                    net.fanout[net.node[n].fanin[i]][j] = <<n, i>>}) = 1
            /\ \A use \in Range(net.fanout[n]) :
                use[2] \in DOMAIN net.node[use[1]].fanin /\ net.node[use[1]].fanin[use[2]] = n
    /\ \A n \in DOMAIN net.node :
        net.node[n].name \in DOMAIN net.name_table /\ net.name_table[net.node[n].name] = n
    /\ Cardinality(DOMAIN net.name_table) = Cardinality(DOMAIN net.node)

=============================================================================
