------------------------------- MODULE BddApi -------------------------------
(***************************************************************************)
(* What the BDD package promises its user: external pointers (bdd_t) stand *)
(* for Boolean functions, an operation gives a free one the function it is *)
(* named for or is abandoned without a trace, and nothing else changes what*)
(* a pointer stands for.                                                   *)
(***************************************************************************)
EXTENDS Naturals

CONSTANTS
    Handle,     \* the external pointers
    Var,        \* the variables
    None        \* what a free external pointer, or no call, is

Valuation == [Var -> BOOLEAN]

\* A function is the set of valuations that satisfy it.
Projection(x) == {v \in Valuation : v[x]}

Complement(fn) == Valuation \ fn

Ite(a) == (a.f \intersect a.g) \union (Complement(a.f) \intersect a.h)

Cofactor(fn, x, b) == {v \in Valuation : [v EXCEPT ![x] = b] \in fn}

DependsOn(fn, x) == Cofactor(fn, x, TRUE) /= Cofactor(fn, x, FALSE)

\* The first variable fn depends on.
IsTop(fn, x) == DependsOn(fn, x) /\ \A y \in Var : y < x => ~DependsOn(fn, y)

VARIABLES
    fn,         \* the function of each external pointer
    call        \* the operation in progress: where its value goes, and the
                \* functions it is the if-then-else of

vars == <<fn, call>>

Init == fn = [p \in Handle |-> None] /\ call = None

\* The functions an operation can be given: phases are free.
Operand ==
    LET known == {fn[p] : p \in Handle} \ {None}
    IN known \union {Complement(f) : f \in known} \union {{}, Valuation}

IteArgs == [f: Operand, g: Operand, h: Operand]

VariableArgs == {[f |-> Projection(x), g |-> Valuation, h |-> {}] : x \in Var}

Start ==
    /\ call = None
    /\ \E p \in Handle :
          /\ fn[p] = None
          /\ \/ call' \in [to: {p}, args: IteArgs]
             \/ call' \in [to: {p}, args: VariableArgs]
    /\ UNCHANGED fn

Finish ==
    /\ call /= None
    /\ fn' = [fn EXCEPT ![call.to] = Ite(call.args)]
    /\ call' = None

\* The memory limit.
Abandon == call /= None /\ call' = None /\ UNCHANGED fn

\* What bdd_not, bdd_then and bdd_else make of a function: they make no node.
Derived(f) ==
    {Complement(f)} \union {Cofactor(f, x, b) : x \in {x \in Var : IsTop(f, x)}, b \in BOOLEAN}

Derive ==
    /\ call = None
    /\ \E p, q \in Handle :
          /\ fn[p] = None /\ fn[q] /= None
          /\ \E value \in Derived(fn[q]) : fn' = [fn EXCEPT ![p] = value]
    /\ UNCHANGED call

Free ==
    /\ call = None
    /\ \E p \in Handle : fn[p] /= None /\ fn' = [fn EXCEPT ![p] = None]
    /\ UNCHANGED call

Next == Start \/ Finish \/ Abandon \/ Derive \/ Free

Spec == Init /\ [][Next]_vars

=============================================================================
