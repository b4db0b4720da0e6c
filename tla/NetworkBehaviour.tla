-------------------------- MODULE NetworkBehaviour --------------------------
(***************************************************************************)
(* What a network computes, apart from how: the meaning the properties of  *)
(* the network package are stated with.  Nothing here is code.             *)
(*                                                                         *)
(* An assignment is the set of the names of the primary inputs that are 1, *)
(* latch outputs among them; the value of a node is the set of assignments *)
(* for which it is 1.  A network with latches is a machine whose states    *)
(* are the sets of latch outputs that are 1: a latch without a control     *)
(* takes its input's value at each step, one with a control when that is   *)
(* 1, and it starts with its initial value, or with anything if that is 2  *)
(* (don't care) or 3 (unknown).                                            *)
(***************************************************************************)
EXTENDS NetworkSweep

NameOf(net, n) == net.node[n].name

Assignments(net) == SUBSET {NameOf(net, n) : n \in Range(net.pi)}

\* A bad literal is never met: its cube is empty.
Meets(nd, value, a) ==
    \E c \in nd.F : \A i \in DOMAIN c : c[i] = 2 \/ (c[i] = 1) = (a \in value[nd.fanin[i]])

Values(net) ==
    LET all == Assignments(net)
        Evaluate(value, n) ==
            LET nd == net.node[n]
            IN Put(value, n,
                   CASE nd.type = "PRIMARY_INPUT" -> {a \in all : nd.name \in a}
                     [] nd.type = "PRIMARY_OUTPUT" -> value[nd.fanin[1]]
                     [] nd.type = "INTERNAL" -> {a \in all : Meets(nd, value, a)})
    IN ForEach(Evaluate, <<>>, network_dfs(net))

\* The outputs of all kinds, by name.
Functions(net) ==
    LET value == Values(net)
    IN [name \in {NameOf(net, n) : n \in Range(net.po)} |-> value[net.name_table[name]]]

\* Which valuations of inputs and outputs together the network allows.
Relation(net) ==
    LET function == Functions(net)
    IN {a \union {name \in DOMAIN function : a \in function[name]} : a \in Assignments(net)}

Terminals(net) == {NameOf(net, n) : n \in Range(net.pi) \union Range(net.po)}

-----------------------------------------------------------------------------
Machine(net) ==
    LET value == Values(net)
    IN [inputs |-> {NameOf(net, n) : n \in {m \in Range(net.pi) : IsRealPi(net, m)}},
        outputs |-> [name \in {NameOf(net, n) : n \in {m \in Range(net.po) : IsRealPo(net, m)}}
                        |-> value[net.name_table[name]]],
        latches |-> {[name |-> NameOf(net, l.output), init |-> l.initial_value,
                      data |-> value[l.input],
                      enable |-> IF l.control = NIL THEN Assignments(net) ELSE value[l.control]]
                     : l \in Range(net.latch)}]

States(m) == SUBSET {l.name : l \in m.latches}

Initial(m) ==
    {s \in States(m) : \A l \in m.latches : (l.init = 0 => l.name \notin s) /\ (l.init = 1 => l.name \in s)}

Output(m, a) == {name \in DOMAIN m.outputs : a \in m.outputs[name]}

NextState(m, a) ==
    {l.name : l \in {k \in m.latches : IF a \in k.enable THEN a \in k.data ELSE k.name \in a}}

\* The pairs of states of two machines that no sequence of inputs tells apart.
Indistinct(m1, m2, pairs) ==
    LET Kept(some) == {p \in some : \A i \in SUBSET m1.inputs :
                          <<NextState(m1, p[1] \union i), NextState(m2, p[2] \union i)>> \in some}
    IN Repeat(Kept, pairs, Cardinality(pairs) + 1)

\* Every behaviour of the first is a behaviour of the second, as it is if both
\* are the same machine.
Implements(net1, net2) ==
    LET m1 == Machine(net1)
        m2 == Machine(net2)
        agree == {p \in States(m1) \X States(m2) : \A i \in SUBSET m1.inputs :
                     Output(m1, p[1] \union i) = Output(m2, p[2] \union i)}
        indistinct == Indistinct(m1, m2, agree)
    IN \/ m1 = m2
       \/ /\ m1.inputs = m2.inputs
          /\ \A s1 \in Initial(m1) : \E s2 \in Initial(m2) : <<s1, s2>> \in indistinct

-----------------------------------------------------------------------------
\* The network with a latch made transparent: what its output feeds is fed by
\* what drives its input, and both ends are out of sight.
Transparent(net, po, pi) ==
    LET driver == net.node[po].fanin[1]
        Fanin(n) == [i \in DOMAIN net.node[n].fanin |->
                        IF net.node[n].fanin[i] = pi THEN driver ELSE net.node[n].fanin[i]]
    IN [net EXCEPT !.node = [n \in DOMAIN @ |-> [@[n] EXCEPT !.fanin = Fanin(n)]],
                   !.po = Minus(@, {po}), !.pi = Minus(@, {pi})]

\* Both networks joined by the names of their terminals.
Join(net1, net2) ==
    {r[1] \union r[2] :
        r \in {p \in Relation(net1) \X Relation(net2) :
                  p[1] \intersect Terminals(net2) = p[2] \intersect Terminals(net1)}}

=============================================================================
