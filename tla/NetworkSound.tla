---------------------------- MODULE NetworkSound ----------------------------
(***************************************************************************)
(* What a network is between two calls: the data structure as the routines *)
(* of the package find it and leave it.  network_check (network_util.c)    *)
(* looks at most of this; what it does not look at, the flag is_dup_free,  *)
(* the order of the fanout lists, the latch list and the latch table, the  *)
(* routines rely on all the same.  Nothing here is code.                   *)
(***************************************************************************)
EXTENDS Network

Types == {"PRIMARY_INPUT", "PRIMARY_OUTPUT", "INTERNAL"}

IsNode(nd) ==
    /\ nd = [type |-> nd.type, fanin |-> nd.fanin, F |-> nd.F,
             dup_free |-> nd.dup_free, name |-> nd.name]
    /\ nd.type \in Types /\ nd.fanin \in Seq(Nat) /\ nd.dup_free \in BOOLEAN /\ IsFunction(nd)

\* Every node is in the list once, and every fanin is a node.
NodesAreListed(node, nodes) ==
    /\ node = [n \in DOMAIN node |-> node[n]]
    /\ nodes \in Seq(Nat) /\ IsInjective(nodes) /\ Range(nodes) = DOMAIN node
    /\ \A n \in DOMAIN node : IsNode(node[n]) /\ Range(node[n].fanin) \subseteq DOMAIN node

\* The fanout lists have each pin of these nodes once, and no other.
Lists(node, users, fanout) ==
    \A x \in DOMAIN fanout :
        /\ fanout[x] \in Seq(Nat \X Nat) /\ IsInjective(fanout[x])
        /\ \A use \in Range(fanout[x]) :
            /\ use[1] \in users /\ use[2] \in DOMAIN node[use[1]].fanin
            /\ node[use[1]].fanin[use[2]] = x
        /\ \A n \in users : \A i \in DOMAIN node[n].fanin :
            node[n].fanin[i] = x => <<n, i>> \in Range(fanout[x])

FanoutsMirrorFanins(node, fanout) ==
    fanout = [n \in DOMAIN node |-> fanout[n]] /\ Lists(node, DOMAIN node, fanout)

\* Inputs have no fanin, outputs have one and feed nothing.
TerminalsAreListed(node, pi, po) ==
    /\ pi \in Seq(Nat) /\ IsInjective(pi)
    /\ Range(pi) = {n \in DOMAIN node : node[n].type = "PRIMARY_INPUT"}
    /\ po \in Seq(Nat) /\ IsInjective(po)
    /\ Range(po) = {n \in DOMAIN node : node[n].type = "PRIMARY_OUTPUT"}
    /\ \A n \in DOMAIN node :
        /\ node[n].type = "PRIMARY_INPUT" => node[n].fanin = <<>>
        /\ node[n].type = "PRIMARY_OUTPUT" => Len(node[n].fanin) = 1
        /\ \A i \in DOMAIN node[n].fanin : node[node[n].fanin[i]].type /= "PRIMARY_OUTPUT"

NamesFindNodes(node, name_table) ==
    /\ name_table = [name \in {node[n].name : n \in DOMAIN node} |-> name_table[name]]
    /\ \A n \in DOMAIN node : name_table[node[n].name] = n

\* Covers are what node_check asks for, and flags tell the truth.
CoversAreSound(node) ==
    \A n \in DOMAIN node :
        /\ node[n].type = "INTERNAL" => IsMinimumBase(node[n]) /\ IsSccMinimal(node[n])
        /\ node[n].dup_free => ~HasDup(node[n])

IsLatch(node, latch_table, l) ==
    /\ l = [input |-> l.input, output |-> l.output,
            initial_value |-> l.initial_value, control |-> l.control]
    /\ l.initial_value \in 0..3
    /\ l.input \in DOMAIN node /\ node[l.input].type = "PRIMARY_OUTPUT"
    /\ l.output \in DOMAIN node /\ node[l.output].type = "PRIMARY_INPUT"
    /\ l.input \in DOMAIN latch_table /\ latch_table[l.input] = l.input
    /\ l.output \in DOMAIN latch_table /\ latch_table[l.output] = l.input
    /\ l.control /= NIL => l.control \in DOMAIN latch_table /\ latch_table[l.control] = NIL

\* The latch table has both ends of each latch, and the controls, and nothing
\* else.
LatchesAreListed(node, latch, latch_table) ==
    /\ latch = [i \in 1..Len(latch) |-> latch[i]] /\ Len(latch) \in Nat
    /\ \A i \in 1..Len(latch) : IsLatch(node, latch_table, latch[i])
    /\ \A i, j \in 1..Len(latch) : latch[i].input = latch[j].input => i = j
    /\ latch_table = [n \in DOMAIN latch_table |-> latch_table[n]]
    /\ \A n \in DOMAIN latch_table :
        IF latch_table[n] = NIL THEN n \in DOMAIN node /\ node[n].type = "PRIMARY_OUTPUT"
        ELSE \E i \in 1..Len(latch) : n \in {latch[i].input, latch[i].output}

IsNetwork(net) ==
    /\ net = [node |-> net.node, fanout |-> net.fanout, nodes |-> net.nodes, pi |-> net.pi,
              po |-> net.po, name_table |-> net.name_table, latch |-> net.latch,
              latch_table |-> net.latch_table]
    /\ NodesAreListed(net.node, net.nodes)
    /\ FanoutsMirrorFanins(net.node, net.fanout)
    /\ TerminalsAreListed(net.node, net.pi, net.po)
    /\ NamesFindNodes(net.node, net.name_table)
    /\ CoversAreSound(net.node)
    /\ LatchesAreListed(net.node, net.latch, net.latch_table)
    /\ network_is_acyclic(net)

=============================================================================
