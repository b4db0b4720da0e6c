----------------------------- MODULE MCNetwork ------------------------------
(***************************************************************************)
(* Circuits of an input, a clock, two latches q1 and q2, two internal      *)
(* nodes and an output z: enough for constants and inverters to feed each  *)
(* other and the latches, for latches that see the same, that nothing sees *)
(* and that see only one another.                                          *)
(***************************************************************************)
EXTENDS NetworkCommands

AND == {<<1, 1>>}
XOR == {<<1, 0>>, <<0, 1>>}
BUF == {<<1>>}
INV == {<<0>>}

\* Addresses 1 to 4 are the inputs a, clock, q1, q2, and 5 and 6 the nodes.
Inputs ==
    LET AddInput(n0, name) == network_add_primary_input(n0, Unused(n0), Given(name))
    IN ForEach(AddInput, network_alloc, <<"a", "clock", "q1", "q2">>)

AddInternal(n0, f) == network_add_node(n0, Unused(n0), Internal(f[1], f[2]))

AddOutput(n0, driver, name) ==
    network_add_primary_output(
        Renamed([n0 EXCEPT !.name_table = Without(@, n0.node[driver].name)], driver, Given(name)),
        Unused(n0), driver)

AddLatchOn(n0, driver, output, init, control) ==
    LET input == Unused(n0)
    IN latch_set_control(
           network_create_latch_between(
               network_add_fake_primary_output(n0, input, driver), input, output, init),
           input, control)

Circuit(f1, f2, z, d1, d2, inits, c1, c2) ==
    LET logic == AddOutput(AddInternal(AddInternal(Inputs, f1), f2), z, "z")
        clock == Unused(logic)
        clocked == network_add_fake_primary_output(logic, clock, 2)
        Control(c) == IF c THEN clock ELSE NIL
    IN AddLatchOn(AddLatchOn(IF c1 \/ c2 THEN clocked ELSE logic, d1, 3, inits[1], Control(c1)),
                  d2, 4, inits[2], Control(c2))

\* What the second latch observes, initial values and which are clocked.
Latches ==
    {<<5, <<0, 0>>, <<FALSE, FALSE>>>>, <<5, <<3, 3>>, <<TRUE, TRUE>>>>, <<5, <<1, 2>>, <<FALSE, FALSE>>>>,
     <<5, <<1, 1>>, <<TRUE, FALSE>>>>, <<6, <<1, 1>>, <<TRUE, TRUE>>>>}

\* The functions of the two nodes.
Logic ==
    LET buffer == <<<<5>>, BUF>> inverter == <<<<5>>, INV>>
        both == <<<<4, 5>>, AND>> other == <<<<3, 4>>, XOR>>
    IN {<<<<<<>>, {}>>, f2>> : f2 \in {inverter, both}}
       \union {<<<<<<3>>, INV>>, f2>> : f2 \in {buffer, inverter, both, other}}
       \union {<<<<<<1, 3>>, AND>>, f2>> : f2 \in {buffer, both, other}}

Core ==
    {Circuit(f[1], f[2], 6, 5, l[1], l[2], l[3][1], l[3][2]) : f \in Logic, l \in Latches}

\* Networks to append: MadeUp names are numbered on by the same counter.
Lines(inputs, fanin, F, output) ==
    LET AddInput(n0, name) == network_add_primary_input(n0, Unused(n0), Given(name))
        made == AddInternal(ForEach(AddInput, network_alloc, inputs), <<fanin, F>>)
        n == Len(inputs) + 1
        out == AddOutput(made, n, output)
        later == <<"madeup", 100>>
    IN Renamed([out EXCEPT !.name_table = Without(@, out.node[n].name)], n, later)

MCLibrary ==
    [follows |-> Lines(<<"z">>, <<1>>, INV, "w"),
     drives |-> Lines(<<"b">>, <<1>>, INV, "a"),
     feeds_back |-> Lines(<<"z", "b">>, <<1, 2>>, AND, "a"),
     drives_again |-> Lines(<<"a">>, <<1>>, INV, "z")]

\* Some circuits have been put together from two networks already.
Joined ==
    {network_append(Circuit(<<<<1, 3>>, AND>>, <<<<4, 5>>, AND>>, 6, 5, 6, <<0, 0>>, FALSE, clocked),
                    MCLibrary[name]).net :
        name \in {"follows", "drives"}, clocked \in BOOLEAN}

MCCircuits == Core \union {circuit \in Joined : IsNetwork(circuit)}

-----------------------------------------------------------------------------
\* An output that is its input, as a sweep leaves it, is appended to a network
\* with an input of the one name and an output of the other.
CrossedCircuits ==
    LET AddInput(n0, name) == network_add_primary_input(n0, Unused(n0), Given(name))
        inputs == ForEach(AddInput, network_alloc, <<"y", "z">>)
        nodes == AddInternal(AddInternal(inputs, <<<<1>>, INV>>), <<<<2>>, INV>>)
    IN {AddOutput(AddOutput(nodes, 3, "w"), 4, "x")}

SweptLibrary == [through |-> network_sweep(Lines(<<"x">>, <<1>>, BUF, "y"))]

=============================================================================
