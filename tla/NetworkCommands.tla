-------------------------- MODULE NetworkCommands ---------------------------
(***************************************************************************)
(* A network under the commands of a session: it is swept, cleaned up,     *)
(* collapsed as a whole or node by node, has latches inserted on its edges *)
(* and removed again, has other networks appended, and is replaced by a    *)
(* duplicate, in any order.  A command is one action, as nothing runs      *)
(* beside it; an append that reports an error leaves the network it has    *)
(* changed, and ends the session here.                                     *)
(***************************************************************************)
EXTENDS NetworkAppend, NetworkBehaviour, NetworkSound

CONSTANTS
    Circuits,       \* the networks a session begins with
    Library,        \* the networks that can be appended, by name
    InitialValues,  \* what a new latch can start with
    MaxGrown        \* how often a latch or a network is added

\* A session begins with what the package has made, and a latch starts with 0,
\* 1, anything or an unknown value.  No network is called like a command.
ASSUME CommandsAssumption ==
    /\ \A circuit \in Circuits : IsNetwork(circuit)
    /\ InitialValues \subseteq 0..3 /\ MaxGrown \in Nat
    /\ "network_sweep" \notin DOMAIN Library

VARIABLES
    net,
    command,        \* the last command: the name of a network if it was appended
    status,
    grown           \* how often it was

vars == <<net, command, status, grown>>

Init == net \in Circuits /\ command = "start" /\ status = "ok" /\ grown = 0

Becomes(name, result) ==
    status = "ok" /\ net' = result /\ command' = name /\ UNCHANGED status

Grows == grown < MaxGrown /\ grown' = grown + 1

Sweep == Becomes("network_sweep", network_sweep(net)) /\ UNCHANGED grown

CombinationalSweep == Becomes("network_csweep", network_csweep(net)) /\ UNCHANGED grown

Cleanup == Becomes("network_cleanup", network_cleanup(net)) /\ UNCHANGED grown

CombinationalCleanup == Becomes("network_ccleanup", network_ccleanup(net)) /\ UNCHANGED grown

Collapse == Becomes("network_collapse", network_collapse(net)) /\ UNCHANGED grown

CollapseNode ==
    \E f, g \in DOMAIN net.node :
        /\ IsCollapsible(net, f, g)
        /\ Becomes("node_collapse", node_collapse(net, f, g))
        /\ UNCHANGED grown

\* What undo and _best give back is a duplicate: the session goes on with it.
Duplicate == Becomes("network_dup", network_dup(net)) /\ UNCHANGED grown

Controls == {n \in DOMAIN net.latch_table : net.latch_table[n] = NIL}

\* The user sets the new latch's initial value and control.  Clocks are not
\* cut.
InsertLatch ==
    /\ Grows
    /\ \E n1 \in DOMAIN net.node, init \in InitialValues, control \in Controls \union {NIL} :
        \E use \in Range(net.fanout[n1]) :
            /\ use[1] \notin Controls
            /\ LET made == network_create_latch(net, n1, use[1], init)
               IN Becomes("network_create_latch",
                          latch_set_control(made, made.latch[Len(made.latch)].input, control))

\* As prl_remlatch.c does it: no node has the latch's output
\* twice among its fanins (node_scc), and the latch is not on a loop of one
\* node, which network_connect does not look for.
IsRemovable(l) ==
    LET uses == net.fanout[l.output]
        driver == net.node[l.input].fanin[1]
    IN /\ \A i, j \in DOMAIN uses : uses[i][1] = uses[j][1] => i = j
       /\ \A i \in DOMAIN uses : uses[i][1] /= driver
       /\ driver /= l.output
       /\ ConnectsAcyclically(net, l.input, l.output)

RemoveLatch ==
    \E i \in DOMAIN net.latch :
        /\ IsRemovable(net.latch[i])
        /\ Becomes("network_connect",
                   network_connect(network_delete_latch(net, net.latch[i]),
                                   net.latch[i].input, net.latch[i].output))
        /\ UNCHANGED grown

AppendNetwork ==
    /\ status = "ok" /\ Grows
    /\ \E name \in DOMAIN Library :
        /\ LET joined == network_append(net, Library[name])
           IN net' = joined.net /\ status' = (IF joined.error THEN "error" ELSE "ok")
        /\ command' = name

Next ==
    \/ Sweep \/ CombinationalSweep \/ Cleanup \/ CombinationalCleanup
    \/ Collapse \/ CollapseNode \/ Duplicate \/ InsertLatch \/ RemoveLatch \/ AppendNetwork

Spec == Init /\ [][Next]_vars

-----------------------------------------------------------------------------
TypeOK ==
    /\ status \in {"ok", "error"} /\ grown \in 0..MaxGrown
    /\ DOMAIN net.fanout = DOMAIN net.node
    /\ \A n \in DOMAIN net.node :
        net.node[n].type \in {"PRIMARY_INPUT", "PRIMARY_OUTPUT", "INTERNAL"}
    /\ \A l \in Range(net.latch) : l.initial_value \in 0..3

\* network.txt: a network that is built and changed by the routines of the
\* package only never fails network_check; nor has it a combinational cycle,
\* unless network_append said so.
NetworkIsSound == status = "ok" => network_check(net) /\ network_is_acyclic(net)

\* The latch list, the latch table and the nodes agree: a latch joins an
\* output and an input of the network of its own, and the table leads to no
\* node that is gone, whose address may be another node's by now.
LatchesAreSound ==
    /\ \A i \in DOMAIN net.latch :
        LET l == net.latch[i]
        IN /\ l.input \in Range(net.po) /\ l.output \in Range(net.pi)
           /\ latch_from_node(net, l.input) = l.input /\ latch_from_node(net, l.output) = l.input
           /\ l.control /= NIL => l.control \in Controls
           /\ \A j \in DOMAIN net.latch : net.latch[j].input = l.input => i = j
    /\ Controls \subseteq Range(net.po)
    /\ Cardinality(DOMAIN net.latch_table) = Cardinality(Controls) + 2 * Len(net.latch)

\* A node that is marked free of repeated fanins is: node_sf_adjust skips its
\* test for contradictory cubes for such a node.
NoHiddenAliasing == \A n \in DOMAIN net.node : net.node[n].dup_free => ~HasDup(net.node[n])

\* After a sweep every node is used, constants and inverters are left only
\* where an output needs them, and every latch can be seen at an output.
SweptClean ==
    command = "network_sweep" =>
        /\ \A n \in DOMAIN net.node : net.node[n].type = "INTERNAL" =>
            /\ net.fanout[n] /= <<>>
            /\ IsConstant(net.node[n]) \/ IsInverter(net.node[n]) =>
                \A use \in Range(net.fanout[n]) : net.node[use[1]].type = "PRIMARY_OUTPUT"
        /\ \A l \in Range(net.latch) : l.output \in snetwork_tfi_po(net)

-----------------------------------------------------------------------------
\* Sweeping, cleaning up, collapsing and duplicating show nothing new at the
\* outputs; but a control that controls no latch any more is an output like
\* others in the duplicate, whose latch table does not have it.
ShowsTheSame ==
    \/ command' \in {"network_sweep", "network_csweep", "network_cleanup", "network_ccleanup",
                      "network_collapse", "node_collapse"}
    \/ command' = "network_dup" /\ Controls = {l.control : l \in Range(net.latch)} \ {NIL}

KeepsBehaviour == [][ShowsTheSame => net' = net \/ Implements(net', net)]_vars

\* What one sweep leaves, the next finds nothing to do with.
SweepIsDone == [][command' = "network_sweep" => network_sweep(net') = net']_vars

\* A latch cuts exactly one wire: with it made transparent, the outputs are
\* the functions they are without it.
LatchesAreCuts ==
    [][/\ command' = "network_create_latch" =>
            LET l == net'.latch[Len(net'.latch)]
            IN Functions(Transparent(net', l.input, l.output)) = Functions(net)
       /\ command' = "network_connect" =>
            \E l \in Range(net.latch) :
                /\ Len(net'.latch) = Len(net.latch) - 1 /\ l \notin Range(net'.latch)
                /\ Functions(Transparent(net, l.input, l.output)) = Functions(net')]_vars

\* What is appended without an error allows the terminals of both networks
\* just the valuations both allow.
AppendJoins ==
    [][command' \in DOMAIN Library /\ status' = "ok"
        => Relation(net') = Join(net, Library[command'])]_vars

=============================================================================
