----------------------- MODULE NetworkCommands_proofs -----------------------
(***************************************************************************)
(* The commands of a session keep its network sound: the sweeps, loop by   *)
(* loop, and from them what the runs of MCNetwork check. The lemmas call a *)
(* network n0, as net is the one of the session.                           *)
(***************************************************************************)
EXTENDS Network_proofs, NetworkCommands

-----------------------------------------------------------------------------
\* A latch is swept.

\* A latch is gone with its ends.
IsDetached(n0, res, l) ==
    /\ Range(res.latch) = Range(n0.latch) \ {l}
    /\ DOMAIN res.node = DOMAIN n0.node \ {l.input, l.output}
    /\ DOMAIN res.latch_table = DOMAIN n0.latch_table \ {l.input, l.output}

\* And what its output fed is fed by another node.
IsReplaced(n0, res, l, new) ==
    /\ IsDetached(n0, res, l)
    /\ \A m \in DOMAIN res.node :
        /\ res.node[m].type = n0.node[m].type /\ res.node[m].F = n0.node[m].F
        /\ DOMAIN res.node[m].fanin = DOMAIN n0.node[m].fanin
        /\ \A i \in DOMAIN n0.node[m].fanin :
            res.node[m].fanin[i] = IF n0.node[m].fanin[i] = l.output THEN new ELSE n0.node[m].fanin[i]

\* A latch whose output feeds nothing can go with its ends.
LEMMA DeleteLatchAndEndsSound ==
    ASSUME NEW n0, IsNetwork(n0), NIL \notin Nat,
           NEW l \in Range(n0.latch), n0.fanout[l.output] = <<>>,
           NEW res, res = DeleteLatchAndEnds(n0, l)
    PROVE  /\ IsNetwork(res) /\ IsDetached(n0, res, l)
           /\ \A m \in DOMAIN res.node : res.node[m] = n0.node[m]
  <1>1. PICK one : one = network_delete_latch(n0, l)
    OBVIOUS
  <1>2. /\ IsNetwork(one) /\ SameNodes(one, n0) /\ Range(one.latch) = Range(n0.latch) \ {l}
        /\ l.input \notin DOMAIN one.latch_table /\ l.output \notin DOMAIN one.latch_table
        /\ IsLatch(n0.node, n0.latch_table, l)
        /\ DOMAIN one.latch_table = DOMAIN n0.latch_table \ {l.input, l.output}
    BY <1>1, DeleteLatchSound, ZenonT(60)
  <1>3. /\ l.input \in DOMAIN one.node /\ one.node[l.input].type = "PRIMARY_OUTPUT"
        /\ l.output \in DOMAIN one.node /\ one.node[l.output].type = "PRIMARY_INPUT"
        /\ one.fanout[l.output] = <<>>
    BY <1>2 DEF SameNodes, IsLatch
  <1>4. res = network_delete_node(network_delete_node(one, l.input), l.output)
    BY <1>1 DEF DeleteLatchAndEnds
  <1>5. IsNetwork(res) /\ IsReduced(res, one, {l.input, l.output})
    BY <1>2, <1>3, <1>4, DeleteEndsSound
  <1> QED BY <1>2, <1>5 DEF IsReduced, SameNodes, IsDetached

\* The latch's output goes to one without fanins, and the latch goes.
LEMMA ReplaceLatchSound ==
    ASSUME NEW n0, IsNetwork(n0), NIL \notin Nat, NEW l \in Range(n0.latch),
           NEW new \in DOMAIN n0.node,
           new /= l.output, n0.node[new].type /= "PRIMARY_OUTPUT", n0.node[new].fanin = <<>>,
           NEW res, res = DeleteLatchAndEnds(PatchFanouts(n0, l.output, new), l)
    PROVE  IsNetwork(res) /\ IsReplaced(n0, res, l, new)
  <1>1. PICK one : one = PatchFanouts(n0, l.output, new)
    OBVIOUS
  <1>2. l.output \in DOMAIN n0.node
    <2>1. LatchesAreListed(n0.node, n0.latch, n0.latch_table)
      BY NetworkHas
    <2>2. IsLatch(n0.node, n0.latch_table, l)
      BY <2>1, LatchFacts
    <2> QED BY <2>2 DEF IsLatch
  <1>3. /\ IsNetwork(one) /\ SameLists(one, n0) /\ one.fanout[l.output] = <<>>
        /\ DOMAIN one.node = DOMAIN n0.node /\ IsRewired(n0.node, one.node, l.output, new)
    BY <1>1, <1>2, RewireToLeaf
  <1>4. l \in Range(one.latch) /\ res = DeleteLatchAndEnds(one, l)
    BY <1>1, <1>3 DEF SameLists
  <1>5. /\ IsNetwork(res) /\ IsDetached(one, res, l)
        /\ \A m \in DOMAIN res.node : res.node[m] = one.node[m]
    BY <1>3, <1>4, DeleteLatchAndEndsSound
  <1>6. IsDetached(n0, res, l)
    BY <1>3, <1>5 DEF SameLists, IsDetached
  <1>7. \A m \in DOMAIN res.node : m \in DOMAIN n0.node /\ res.node[m] = one.node[m]
    BY <1>5, <1>6 DEF IsDetached
  <1> QED BY <1>3, <1>5, <1>6, <1>7 DEF IsReplaced, IsRewired

\* A constant is a proper node of any network.
LEMMA ConstantIsProper ==
    ASSUME NEW node, NEW nd, nd = node_constant(0)
    PROVE  IsProper(node, nd) /\ nd.type = "INTERNAL" /\ nd.fanin = <<>> /\ nd.name = NIL
  <1> DEFINE yes == TRUE
  <1>1. nd = [type |-> "INTERNAL", fanin |-> <<>>, F |-> {}, dup_free |-> yes, name |-> NIL]
    BY DEF node_constant, Internal
  <1>0. yes \in BOOLEAN
    OBVIOUS
  <1> HIDE DEF yes
  <1>2. nd.type = "INTERNAL" /\ nd.fanin = <<>> /\ nd.F = {} /\ nd.dup_free = yes /\ nd.name = NIL
    BY <1>1
  <1>3. nd = [type |-> nd.type, fanin |-> nd.fanin, F |-> nd.F, dup_free |-> nd.dup_free,
          name |-> nd.name]
    BY <1>1
  <1>4. <<>> \in Seq(Nat) /\ Range(<<>>) = {} /\ IsInjective(<<>>)
    BY EmptyFacts
  <1>5. IsNode(nd)
    BY <1>0, <1>2, <1>3, <1>4 DEF IsNode, Types, IsFunction
  <1>6. IsMinimumBase(nd) /\ IsSccMinimal(nd)
    BY <1>2 DEF IsMinimumBase, IsSccMinimal
  <1>7. ~HasDup(nd)
    BY <1>2, <1>4 DEF HasDup
  <1> QED BY <1>2, <1>4, <1>5, <1>6, <1>7 DEF IsProper

\* A latch keeps the network sound, and the other latches, when it is swept.
LEMMA SweepLatchSound ==
    ASSUME NEW n0, IsNetwork(n0), NIL \notin Nat, NEW l \in Range(n0.latch), NEW reached,
           NEW res, res = network_sweep_latch(n0, l, reached)
    PROVE  /\ IsNetwork(res) /\ Range(n0.latch) \ {l} \subseteq Range(res.latch)
           /\ IF IsConstantLatch(n0, l) \/ l.output \notin reached
              THEN Range(res.latch) = Range(n0.latch) \ {l} ELSE res = n0
  <1>0. /\ LatchesAreListed(n0.node, n0.latch, n0.latch_table)
        /\ NodesAreListed(n0.node, n0.nodes) /\ TerminalsAreListed(n0.node, n0.pi, n0.po)
    BY NetworkHas
  <1>1. /\ IsLatch(n0.node, n0.latch_table, l)
        /\ l.input \in DOMAIN n0.node /\ l.output \in DOMAIN n0.node
        /\ n0.node[l.output].type = "PRIMARY_INPUT" /\ n0.node[l.input].type = "PRIMARY_OUTPUT"
    BY <1>0, LatchFacts DEF IsLatch
  <1>2. CASE IsConstantLatch(n0, l)
    <2>1. PICK driver : driver = n0.node[l.input].fanin[1]
      OBVIOUS
    <2>2. driver \in DOMAIN n0.node
      <3>1. Len(n0.node[l.input].fanin) = 1 /\ n0.node[l.input].fanin \in Seq(Nat)
        BY <1>0, <1>1 DEF TerminalsAreListed, NodesAreListed, IsNode
      <3>2. 1 \in DOMAIN n0.node[l.input].fanin
        BY <3>1
      <3>3. Range(n0.node[l.input].fanin) \subseteq DOMAIN n0.node
        BY <1>0, <1>1 DEF NodesAreListed
      <3> QED BY <2>1, <3>2, <3>3 DEF Range
    <2>3. n0.node[driver].type = "INTERNAL" /\ n0.node[driver].fanin = <<>>
      BY <1>2, <2>1 DEF IsConstantLatch, IsConstant
    <2>4. res = DeleteLatchAndEnds(PatchFanouts(n0, l.output, driver), l)
      BY <1>2, <2>1 DEF network_sweep_latch, SweepConstantLatch
    <2>5. driver /= l.output /\ n0.node[driver].type /= "PRIMARY_OUTPUT"
      BY <1>1, <2>3
    <2>6. IsNetwork(res) /\ Range(res.latch) = Range(n0.latch) \ {l}
      BY <2>2, <2>3, <2>4, <2>5, ReplaceLatchSound DEF IsReplaced, IsDetached
    <2> QED BY <1>2, <2>6
  <1>3. CASE ~IsConstantLatch(n0, l) /\ l.output \notin reached
    <2>1. PICK c : c = Unused(n0)
      OBVIOUS
    <2>2. PICK nd : nd = node_constant(0)
      OBVIOUS
    <2>3. IsProper(n0.node, nd) /\ nd.type = "INTERNAL" /\ nd.fanin = <<>> /\ nd.name = NIL
      BY <2>2, ConstantIsProper
    <2>4. c \in Nat /\ c \notin DOMAIN n0.node
      BY <2>1, FreshUse
    <2>5. PICK more : more = network_add_node(n0, c, nd)
      OBVIOUS
    <2>6. IsNetwork(more) /\ IsAdded(more, n0, c, nd.type, nd.fanin)
      BY <2>3, <2>4, <2>5, AddNodeSound
    <2>7. /\ c \in DOMAIN more.node /\ c /= l.output /\ more.node[c].type = "INTERNAL"
          /\ more.node[c].fanin = <<>>
          /\ more.latch = n0.latch
      BY <1>1, <2>3, <2>4, <2>6 DEF IsAdded
    <2>8. res = DeleteLatchAndEnds(PatchFanouts(more, l.output, c), l)
      BY <1>3, <2>1, <2>2, <2>5 DEF network_sweep_latch, SweepUnreachedLatch
    <2>9. l \in Range(more.latch) /\ more.node[c].type /= "PRIMARY_OUTPUT"
      BY <2>7
    <2>10. IsNetwork(res) /\ IsReplaced(more, res, l, c)
      BY <2>6, <2>7, <2>8, <2>9, ReplaceLatchSound
    <2> QED BY <1>3, <2>7, <2>10 DEF IsReplaced, IsDetached
  <1>4. CASE ~IsConstantLatch(n0, l) /\ l.output \in reached
    BY <1>4 DEF network_sweep_latch
  <1> QED BY <1>2, <1>3, <1>4

-----------------------------------------------------------------------------
\* A node is swept.

\* A loop that runs while something changes goes as far as one that runs on:
\* what has not changed will not change.
LEMMA RepeatTurns ==
    ASSUME NEW last \in Nat, NEW f, f[0].changed, NEW p,
           \A k \in 1..last :
               f[k] = IF f[k - 1].changed THEN [net |-> p[k], changed |-> p[k] /= f[k - 1].net]
                      ELSE f[k - 1],
           \A j, k \in 1..last : f[j - 1].net = f[k - 1].net => p[j] = p[k]
    PROVE  \A k \in 1..last : f[k].net = p[k]
  <1> DEFINE IsLast(r) == \A j \in 1..last : f[j - 1].net = r.net => p[j] = r.net
             Q == {k \in 0..last : f[k].changed \/ IsLast(f[k])}
  <1>1. 0 \in Q
    OBVIOUS
  <1>2. ASSUME NEW k \in 1..last, k - 1 \in Q
        PROVE  k \in Q /\ f[k].net = p[k]
    <2>1. k \in 0..last
      OBVIOUS
    <2>2. PICK r, s : r = f[k - 1] /\ s = f[k]
      OBVIOUS
    <2>3. CASE r.changed
      <3>1. s = [net |-> p[k], changed |-> p[k] /= r.net]
        BY <2>2, <2>3
      <3>2. s.net = p[k] /\ s.changed = (p[k] /= r.net)
        BY <3>1
      <3>3. p[k] = r.net => IsLast(s)
        BY <2>2, <3>2
      <3> QED BY <2>1, <2>2, <3>2, <3>3
    <2>4. CASE ~r.changed
      <3>1. s = r /\ IsLast(r)
        BY <1>2, <2>2, <2>4
      <3>2. p[k] = r.net
        BY <2>2, <3>1
      <3>3. IsLast(f[k]) /\ f[k].net = p[k]
        BY <2>2, <3>1, <3>2
      <3> HIDE DEF IsLast
      <3> QED BY <2>1, <3>3
    <2> QED BY <2>3, <2>4
  <1> HIDE DEF Q
  <1>3. \A k \in 0..last : k \in Q
    BY <1>1, <1>2, UpTo
  <1>4. ASSUME NEW k \in 1..last
        PROVE  k - 1 \in 0..last
    OBVIOUS
  <1> QED BY <1>2, <1>3, <1>4

\* A loop that takes something away with every turn, until it is done, is done
\* after as many turns as there were things to take.
LEMMA Dwindles ==
    ASSUME NEW N \in Nat, NEW P, NEW done, IsFiniteSet(P[0]), Cardinality(P[0]) < N,
           \A k \in 1..N : k \in done \/ (P[k] \subseteq P[k - 1] /\ P[k] /= P[k - 1]),
           \A k \in 1..N : k - 1 \in done => k \in done
    PROVE  N \in done
  <1>1. Cardinality(P[0]) \in Nat
    BY FS_CardinalityType
  <1> DEFINE Q == {k \in 0..N : k \in done \/ (IsFiniteSet(P[k]) /\ Cardinality(P[k]) \in Nat
                                               /\ Cardinality(P[k]) + k <= Cardinality(P[0]))}
  <1>2. 0 \in Q
    BY <1>1
  <1>3. ASSUME NEW k \in 1..N, k - 1 \in Q  PROVE k \in Q
    <2>1. CASE k \in done
      BY <2>1
    <2>2. CASE k \notin done
      <3>1. k - 1 \notin done /\ P[k] \subseteq P[k - 1] /\ P[k] /= P[k - 1]
        BY <2>2
      <3>2. /\ IsFiniteSet(P[k - 1]) /\ Cardinality(P[k - 1]) \in Nat
            /\ Cardinality(P[k - 1]) + (k - 1) <= Cardinality(P[0])
        BY <1>3, <3>1
      <3>3. IsFiniteSet(P[k]) /\ Cardinality(P[k]) < Cardinality(P[k - 1]) /\ Cardinality(P[k]) \in Nat
        BY <3>1, <3>2, FS_Subset, FS_CardinalityType
      <3>4. Cardinality(P[k]) + k <= Cardinality(P[0])
        BY <1>1, <3>2, <3>3
      <3> QED BY <3>3, <3>4
    <2> QED BY <2>1, <2>2
  <1> HIDE DEF Q
  <1>4. \A k \in 0..N : k \in Q
    BY <1>2, <1>3, UpTo
  <1>5. N \in Q
    BY <1>4
  <1>6. CASE N \notin done
    <2>1. Cardinality(P[N]) \in Nat /\ Cardinality(P[N]) + N <= Cardinality(P[0])
      BY <1>5, <1>6 DEF Q
    <2> QED BY <1>1, <2>1
  <1> QED BY <1>6

\* The turns of a loop that runs while something changes.
IsSweptOnce(f, n0, n) ==
    /\ f[0].net = n0
    /\ \A k \in 1..MostTurns(n0) : f[k].net = SweepFanin(f[k - 1].net, n)
    /\ network_sweep_node(n0, n) = f[MostTurns(n0)].net

\* There is such a list of results for network_sweep_node.
LEMMA SweepTurns ==
    ASSUME NEW n0, NEW n, MostTurns(n0) \in Nat, n0.node[n].type /= "PRIMARY_OUTPUT"
    PROVE  \E f : IsSweptOnce(f, n0, n)
  <1> DEFINE last == MostTurns(n0)
             Turn(r, k) == IF r.changed
                   THEN [net |-> SweepFanin(r.net, n), changed |-> SweepFanin(r.net, n) /= r.net]
                     ELSE r
             Start == [net |-> n0, changed |-> TRUE]
             G(f, m) == f = [k \in 0..m |-> IF k = 0 THEN Start ELSE Turn(f[k - 1], k)]
             S == {m \in 0..last : \E f : G(f, m)}
  <1>0. last \in Nat
    OBVIOUS
  <1>1. network_sweep_node(n0, n) = (CHOOSE f : G(f, last))[last].net
    BY DEF network_sweep_node, Repeat
  <1> HIDE DEF Turn, Start, last
  <1>2. \E f : G(f, 0)
    <2>1. G([k \in 0..0 |-> Start], 0)
      OBVIOUS
    <2> HIDE DEF G
    <2> QED BY <2>1
  <1>3. ASSUME NEW m \in 1..last, NEW f, G(f, m - 1)  PROVE \E g : G(g, m)
    <2> DEFINE g == [k \in 0..m |-> IF k = m THEN Turn(f[m - 1], m) ELSE f[k]]
    <2>1. ASSUME NEW k \in 0..m
          PROVE  g[k] = IF k = 0 THEN Start ELSE Turn(g[k - 1], k)
      <3>1. CASE k = m
        <4>1. g[m] = Turn(f[m - 1], m) /\ m \in 0..m /\ m /= 0 /\ g[m - 1] = f[m - 1]
          BY <1>0
        <4> HIDE DEF g
        <4> QED BY <3>1, <4>1
      <3>2. CASE k /= m
        <4>1. k \in 0..(m - 1)
          BY <1>0, <3>2
        <4>2. f[k] = IF k = 0 THEN Start ELSE Turn(f[k - 1], k)
          BY <1>3, <4>1
        <4>3. g[k] = f[k] /\ (k /= 0 => g[k - 1] = f[k - 1])
          BY <1>0, <3>2, <4>1
        <4> HIDE DEF g
        <4> QED BY <4>2, <4>3
      <3> QED BY <3>1, <3>2
    <2>2. g = [k \in 0..m |-> g[k]]
      OBVIOUS
    <2>3. G(g, m)
      BY <2>1, <2>2
    <2> HIDE DEF G, g
    <2> QED BY <2>3
  <1>4. \E f : G(f, last)
    <2> HIDE DEF G
    <2>1. 0 \in S
      BY <1>0, <1>2
    <2>2. \A m \in 1..last : m - 1 \in S => m \in S
      BY <1>0, <1>3
    <2> HIDE DEF S
    <2>3. \A m \in 0..last : m \in S
      BY <1>0, <2>1, <2>2, UpTo
    <2>4. last \in S
      BY <1>0, <2>3
    <2> QED BY <2>4 DEF S
  <1> DEFINE F == CHOOSE f : G(f, last)
  <1>5. G(F, last)
    <2> HIDE DEF G
    <2> QED BY <1>4
  <1> HIDE DEF F
  <1>6. \A k \in 0..last : F[k] = IF k = 0 THEN Start ELSE Turn(F[k - 1], k)
    <2>1. \A k \in 0..last : [j \in 0..last |-> IF j = 0 THEN Start ELSE Turn(F[j - 1], j)][k]
                             = IF k = 0 THEN Start ELSE Turn(F[k - 1], k)
      OBVIOUS
    <2> QED BY <1>5, <2>1, Zenon
  <1>7. F[0] = Start /\ \A k \in 1..last : F[k] = Turn(F[k - 1], k)
    <2>1. 0 \in 0..last /\ \A k \in 1..last : k \in 0..last /\ k /= 0
      BY <1>0
    <2> QED BY <1>6, <2>1, Zenon
  <1>8. network_sweep_node(n0, n) = F[last].net
    BY <1>1 DEF F
  <1>9. F[0].net = n0 /\ \A k \in 1..last : F[k].net = SweepFanin(F[k - 1].net, n)
    <2> DEFINE p == [k \in 1..last |-> SweepFanin(F[k - 1].net, n)]
    <2>1. F[0].net = n0 /\ F[0].changed
      BY <1>7 DEF Start
    <2>2. \A k \in 1..last : p[k] = SweepFanin(F[k - 1].net, n)
      OBVIOUS
    <2>3. \A k \in 1..last :
            F[k] = IF F[k - 1].changed THEN [net |-> p[k], changed |-> p[k] /= F[k - 1].net]
                   ELSE F[k - 1]
      <3>1. ASSUME NEW k \in 1..last, NEW q, q = p[k]
            PROVE  F[k] = IF F[k - 1].changed THEN [net |-> q, changed |-> q /= F[k - 1].net]
                          ELSE F[k - 1]
        <4>1. F[k] = Turn(F[k - 1], k) /\ q = SweepFanin(F[k - 1].net, n)
          BY <1>7, <2>2, <3>1
        <4> QED BY <4>1, Zenon DEF Turn
      <3> QED BY <3>1
    <2>4. \A j, k \in 1..last : F[j - 1].net = F[k - 1].net => p[j] = p[k]
      BY <2>2
    <2> HIDE DEF p
    <2>5. \A k \in 1..last : F[k].net = p[k]
      BY <1>0, <2>1, <2>3, <2>4, RepeatTurns, SMTT(60)
    <2> QED BY <2>1, <2>2, <2>5
  <1>10. IsSweptOnce(F, n0, n)
    BY <1>8, <1>9, Zenon DEF IsSweptOnce, last
  <1> QED BY <1>10

\* The same nodes in the same places, of which some have another function.
SameKinds(res, n0) ==
    /\ SameLists(res, n0) /\ DOMAIN res.node = DOMAIN n0.node
    /\ \A n \in DOMAIN n0.node : res.node[n].type = n0.node[n].type

\* One change after another is a change of the kind.
LEMMA SameKindsFacts ==
    /\ \A n0 : SameKinds(n0, n0)
    /\ \A a, b, c : SameKinds(b, a) /\ SameKinds(c, b) => SameKinds(c, a)
  <1>1. ASSUME NEW a, NEW b, NEW c, SameKinds(b, a), SameKinds(c, b)  PROVE SameKinds(c, a)
    <2>1. DOMAIN c.node = DOMAIN a.node /\ \A n \in DOMAIN a.node : c.node[n].type = a.node[n].type
      BY <1>1 DEF SameKinds
    <2>2. SameLists(c, a)
      BY <1>1 DEF SameKinds, SameLists
    <2> QED BY <2>1, <2>2 DEF SameKinds
  <1> QED BY <1>1 DEF SameKinds, SameLists

\* A buffer has a fanin.
LEMMA BufferFacts ==
    ASSUME NEW nd, IsNode(nd), IsBuffer(nd)
    PROVE  1 \in DOMAIN nd.fanin
  <1>1. <<1>> \in [DOMAIN nd.fanin -> {0, 1, 2}]
    BY DEF IsBuffer, IsNode, IsFunction
  <1>2. DOMAIN <<1>> = {1}
    BY OneFacts
  <1> QED BY <1>1, <1>2

\* A pin may skip a buffer.
LEMMA PatchPastBuffer ==
    ASSUME NEW n0, IsNetwork(n0), NEW n \in DOMAIN n0.node, NEW old \in Range(n0.node[n].fanin),
           IsBuffer(n0.node[old]),
           NEW res, res = node_patch_fanin(n0, n, old, n0.node[old].fanin[1])
    PROVE  /\ IsNetwork(res) /\ SameKinds(res, n0)
           /\ \E pin : IsPatched(n0.node, res.node, n, pin, old, n0.node[old].fanin[1])
  <1>1. PICK new : new = n0.node[old].fanin[1]
    OBVIOUS
  <1>2. Built(n0) /\ Acyclic(n0.node) /\ NodesAreListed(n0.node, n0.nodes)
        /\ TerminalsAreListed(n0.node, n0.pi, n0.po)
    BY BuiltFacts, NetworkHas
  <1>3. old \in DOMAIN n0.node /\ IsNode(n0.node[old])
    BY <1>2 DEF NodesAreListed
  <1>4. 1 \in DOMAIN n0.node[old].fanin /\ new \in Range(n0.node[old].fanin)
    BY <1>1, <1>3, BufferFacts DEF Range
  <1>5. new \in DOMAIN n0.node /\ n0.node[new].type /= "PRIMARY_OUTPUT"
    BY <1>1, <1>2, <1>3, <1>4 DEF NodesAreListed, TerminalsAreListed
  <1>6. \E i \in DOMAIN n0.node[n].fanin : n0.node[n].fanin[i] = old
    BY DEF Range
  <1>7. /\ Built(res) /\ SameLists(res, n0)
        /\ \E pin : IsPatched(n0.node, res.node, n, pin, old, new)
    <2>1. res = node_patch_fanin(n0, n, old, new)
      BY <1>1
    <2> QED BY <1>2, <1>3, <1>5, <1>6, <2>1, PatchSound
  <1>8. PICK pin : IsPatched(n0.node, res.node, n, pin, old, new)
    BY <1>7, SMTT(60)
  <1>9. /\ DOMAIN res.node = DOMAIN n0.node
        /\ \A m \in DOMAIN n0.node \ {n} : res.node[m] = n0.node[m]
        /\ res.node[n].type = n0.node[n].type
        /\ Range(res.node[n].fanin) \subseteq Range(n0.node[n].fanin) \union {new}
    <2>1. /\ DOMAIN res.node = DOMAIN n0.node
          /\ \A m \in DOMAIN n0.node \ {n} : res.node[m] = n0.node[m]
          /\ res.node[n].type = n0.node[n].type
      BY <1>8, Zenon DEF IsPatched
    <2>2. PICK old2, new2 : old2 = n0.node[n].fanin /\ new2 = res.node[n].fanin
      BY SMTT(60)
    <2>3. DOMAIN new2 = DOMAIN old2 /\ \A i \in DOMAIN old2 : new2[i] = new \/ new2[i] = old2[i]
      BY <1>8, <2>2, Zenon DEF IsPatched
    <2>4. Range(new2) \subseteq Range(old2) \union {new}
      BY <2>3, SMTT(60) DEF Range
    <2> QED BY <2>1, <2>2, <2>4, ZenonT(60)
  <1>10. Acyclic(res.node)
    <2>1. \A m \in DOMAIN n0.node \ {n} : res.node[m].fanin = n0.node[m].fanin
      BY <1>9, SMTT(60)
    <2>2. Range(res.node[n].fanin) \subseteq Range(n0.node[n].fanin)
            \union Range(n0.node[old].fanin)
      BY <1>4, <1>9
    <2> QED BY <1>2, <1>3, <1>9, <2>1, <2>2, AcyclicByCollapse, ZenonT(60)
  <1>11. IsNetwork(res)
    BY <1>7, <1>10, BuiltFacts, SMTT(60)
  <1>12. SameKinds(res, n0)
    BY <1>7, <1>9, Zenon DEF SameKinds
  <1> QED BY <1>1, <1>8, <1>11, <1>12

\* A step of network_sweep_node keeps a network sound.
LEMMA SweepFaninSound ==
    ASSUME NEW n0, IsNetwork(n0), NEW n \in DOMAIN n0.node, NEW res, res = SweepFanin(n0, n)
    PROVE  IsNetwork(res) /\ SameKinds(res, n0)
  <1>1. CASE Sweepable(n0, n) = {}
    <2>1. res = n0
      BY <1>1 DEF SweepFanin
    <2> QED BY <2>1, SameKindsFacts
  <1>2. CASE Sweepable(n0, n) /= {}
    <2>1. PICK pin : pin = Min(Sweepable(n0, n))
      OBVIOUS
    <2>2. PICK swept : swept = n0.node[n].fanin[pin]
      OBVIOUS
    <2>3. NodesAreListed(n0.node, n0.nodes) /\ TerminalsAreListed(n0.node, n0.pi, n0.po)
      BY NetworkHas
    <2>4. n0.node[n].type \in Types /\ DOMAIN n0.node[n].fanin \subseteq Nat
      <3>1. IsNode(n0.node[n])
        BY <2>3 DEF NodesAreListed
      <3>2. n0.node[n].type \in Types /\ n0.node[n].fanin \in Seq(Nat)
        BY <3>1 DEF IsNode
      <3> QED BY <3>2
    <2>5. pin \in Sweepable(n0, n)
      <3> DEFINE S == Sweepable(n0, n)
      <3>1. S \subseteq Nat
        BY <2>4 DEF Sweepable
      <3> HIDE DEF S
      <3>2. Min(S) \in S
        BY <1>2, <3>1, MinFacts DEF S
      <3> QED BY <2>1, <3>2 DEF S
    <2>6. pin \in DOMAIN n0.node[n].fanin /\ swept \in Range(n0.node[n].fanin)
      BY <2>2, <2>5 DEF Sweepable, Range
    <2>7. CASE n0.node[n].type = "PRIMARY_OUTPUT"
      <3>1. IsBuffer(n0.node[swept])
        BY <2>2, <2>5, <2>7 DEF Sweepable
      <3>2. res = node_patch_fanin(n0, n, swept, n0.node[swept].fanin[1])
        BY <1>2, <2>1, <2>2, <2>7 DEF SweepFanin
      <3> QED BY <2>6, <3>1, <3>2, PatchPastBuffer
    <2>8. CASE n0.node[n].type /= "PRIMARY_OUTPUT"
      <3>1. n0.node[swept].type = "INTERNAL"
        BY <2>2, <2>5, <2>8 DEF Sweepable, IsBuffer, IsConstant, IsInverter
      <3>2. n0.node[n].type = "INTERNAL"
        <4>1. n0.node[n].fanin /= <<>>
          BY <2>6
        <4>2. n0.node[n].type /= "PRIMARY_INPUT"
          BY <2>3, <4>1 DEF TerminalsAreListed
        <4> QED BY <2>4, <2>8, <4>2 DEF Types
      <3>3. IsCollapsible(n0, n, swept)
        BY <2>6, <3>1, <3>2 DEF IsCollapsible
      <3>4. res = node_collapse(n0, n, swept)
        BY <1>2, <2>1, <2>2, <2>8 DEF SweepFanin
      <3>5. IsNetwork(res) /\ SameLists(res, n0) /\ IsCollapsed(n0, res, n, swept)
        BY <3>3, <3>4, CollapseSound
      <3> QED BY <3>5, SMTT(60) DEF SameKinds, IsCollapsed
    <2> QED BY <2>7, <2>8
  <1> QED BY <1>1, <1>2

\* The bound on the turns is a number.
LEMMA TurnsAllowed ==
    ASSUME NEW n0, IsNetwork(n0)
    PROVE  MostTurns(n0) \in Nat /\ Len(n0.nodes) \in Nat
  <1>1. NodesAreListed(n0.node, n0.nodes)
    BY NetworkHas
  <1> QED BY <1>1, ListedFacts DEF MostTurns

\* network_sweep_node keeps a network sound.
LEMMA SweepNodeSound ==
    ASSUME NEW n0, IsNetwork(n0), NEW n \in DOMAIN n0.node, NEW res, res = network_sweep_node(n0, n)
    PROVE  IsNetwork(res) /\ SameKinds(res, n0)
  <1>1. CASE n0.node[n].type = "PRIMARY_OUTPUT"
    <2>1. res = SweepFanin(n0, n)
      BY <1>1 DEF network_sweep_node
    <2> QED BY <2>1, SweepFaninSound
  <1>2. CASE n0.node[n].type /= "PRIMARY_OUTPUT"
    <2> DEFINE N == MostTurns(n0)
    <2>1. N \in Nat
      BY TurnsAllowed
    <2>2. PICK f : IsSweptOnce(f, n0, n)
      BY <1>2, <2>1, SweepTurns
    <2>3. /\ f[0].net = n0 /\ res = f[N].net
          /\ \A k \in 1..N : f[k].net = f[k - 1].net \/ f[k].net = SweepFanin(f[k - 1].net, n)
      BY <2>2 DEF IsSweptOnce
    <2> DEFINE Q == {k \in 0..N : IsNetwork(f[k].net) /\ SameKinds(f[k].net, n0)}
    <2> HIDE DEF N
    <2>4. 0 \in Q
      BY <2>1, <2>3, SameKindsFacts
    <2>5. ASSUME NEW k \in 1..N, k - 1 \in Q  PROVE k \in Q
      <3>1. PICK last : last = f[k - 1].net
        OBVIOUS
      <3>2. IsNetwork(last) /\ SameKinds(last, n0)
        BY <2>5, <3>1
      <3>3. n \in DOMAIN last.node
        BY <3>2 DEF SameKinds
      <3>4. PICK next : next = SweepFanin(last, n)
        OBVIOUS
      <3>5. IsNetwork(next) /\ SameKinds(next, last)
        BY <3>2, <3>3, <3>4, SweepFaninSound
      <3>6. SameKinds(next, n0)
        BY <3>2, <3>5, SameKindsFacts
      <3>7. f[k].net = last \/ f[k].net = next
        BY <2>3, <3>1, <3>4
      <3>8. IsNetwork(f[k].net) /\ SameKinds(f[k].net, n0)
        BY <3>2, <3>5, <3>6, <3>7
      <3>9. k \in 0..N
        BY <2>1
      <3> QED BY <3>8, <3>9
    <2> HIDE DEF Q
    <2>6. \A k \in 0..N : k \in Q
      BY <2>1, <2>4, <2>5, UpTo
    <2>7. N \in 0..N
      BY <2>1
    <2>8. N \in Q
      BY <2>6, <2>7
    <2> QED BY <2>3, <2>8 DEF Q
  <1> QED BY <1>1, <1>2

-----------------------------------------------------------------------------
\* The depth-first list of the nodes.

\* Where the depth-first search starts, and one step of it.
SearchRoots(n0) ==
    n0.po \o Minus(n0.nodes, {n \in Range(n0.nodes) :
                                    n0.fanout[n] /= <<>> \/ n0.node[n].type = "PRIMARY_OUTPUT"})

\* A root that is not out yet is where the search goes on when its path is
\* empty.
SearchStep(n0, search) ==
    LET roots == SearchRoots(n0)
        left == {i \in DOMAIN roots : roots[i] \notin Range(search.out)}
    IN IF search.path /= <<>> THEN network_dfs_recur(n0, search)
       ELSE IF left = {} THEN search ELSE [search EXCEPT !.path = <<roots[Min(left)]>>]

\* The results of the turns of the loop.
IsSearch(f, n0) ==
    /\ f[0] = [out |-> <<>>, path |-> <<>>]
    /\ \A k \in 1..(2 * Len(n0.nodes)) : f[k] = SearchStep(n0, f[k - 1])
    /\ network_dfs(n0) = f[2 * Len(n0.nodes)].out

\* There is such a list of results.
LEMMA SearchLoop ==
    ASSUME NEW n0, Len(n0.nodes) \in Nat
    PROVE  \E f : IsSearch(f, n0)
  <1> DEFINE last == (2 * Len(n0.nodes))
             Turn(r, k) == SearchStep(n0, r)
             Start == [out |-> <<>>, path |-> <<>>]
             G(f, m) == f = [k \in 0..m |-> IF k = 0 THEN Start ELSE Turn(f[k - 1], k)]
             S == {m \in 0..last : \E f : G(f, m)}
  <1>0. last \in Nat
    OBVIOUS
  <1>1. network_dfs(n0) = (CHOOSE f : G(f, last))[last].out
    BY DEF network_dfs, SearchStep, SearchRoots
  <1> HIDE DEF Turn, Start, last
  <1>2. \E f : G(f, 0)
    <2>1. G([k \in 0..0 |-> Start], 0)
      OBVIOUS
    <2> HIDE DEF G
    <2> QED BY <2>1
  <1>3. ASSUME NEW m \in 1..last, NEW f, G(f, m - 1)  PROVE \E g : G(g, m)
    <2> DEFINE g == [k \in 0..m |-> IF k = m THEN Turn(f[m - 1], m) ELSE f[k]]
    <2>1. ASSUME NEW k \in 0..m
          PROVE  g[k] = IF k = 0 THEN Start ELSE Turn(g[k - 1], k)
      <3>1. CASE k = m
        <4>1. g[m] = Turn(f[m - 1], m) /\ m \in 0..m /\ m /= 0 /\ g[m - 1] = f[m - 1]
          BY <1>0
        <4> HIDE DEF g
        <4> QED BY <3>1, <4>1
      <3>2. CASE k /= m
        <4>1. k \in 0..(m - 1)
          BY <1>0, <3>2
        <4>2. f[k] = IF k = 0 THEN Start ELSE Turn(f[k - 1], k)
          BY <1>3, <4>1
        <4>3. g[k] = f[k] /\ (k /= 0 => g[k - 1] = f[k - 1])
          BY <1>0, <3>2, <4>1
        <4> HIDE DEF g
        <4> QED BY <4>2, <4>3
      <3> QED BY <3>1, <3>2
    <2>2. g = [k \in 0..m |-> g[k]]
      OBVIOUS
    <2>3. G(g, m)
      BY <2>1, <2>2
    <2> HIDE DEF G, g
    <2> QED BY <2>3
  <1>4. \E f : G(f, last)
    <2> HIDE DEF G
    <2>1. 0 \in S
      BY <1>0, <1>2
    <2>2. \A m \in 1..last : m - 1 \in S => m \in S
      BY <1>0, <1>3
    <2> HIDE DEF S
    <2>3. \A m \in 0..last : m \in S
      BY <1>0, <2>1, <2>2, UpTo
    <2>4. last \in S
      BY <1>0, <2>3
    <2> QED BY <2>4 DEF S
  <1> DEFINE F == CHOOSE f : G(f, last)
  <1>5. G(F, last)
    <2> HIDE DEF G
    <2> QED BY <1>4
  <1> HIDE DEF F
  <1>6. \A k \in 0..last : F[k] = IF k = 0 THEN Start ELSE Turn(F[k - 1], k)
    <2>1. \A k \in 0..last : [j \in 0..last |-> IF j = 0 THEN Start ELSE Turn(F[j - 1], j)][k]
                             = IF k = 0 THEN Start ELSE Turn(F[k - 1], k)
      OBVIOUS
    <2> QED BY <1>5, <2>1, Zenon
  <1>7. F[0] = Start /\ \A k \in 1..last : F[k] = Turn(F[k - 1], k)
    <2>1. 0 \in 0..last /\ \A k \in 1..last : k \in 0..last /\ k /= 0
      BY <1>0
    <2> QED BY <1>6, <2>1, Zenon
  <1>8. network_dfs(n0) = F[last].out
    BY <1>1 DEF F
  <1>9. IsSearch(F, n0)
    BY <1>7, <1>8, Zenon DEF IsSearch, Turn, Start, last
  <1> QED BY <1>9

\* What has been put out and the path are lists of nodes.
IsSearching(search, D) ==
    /\ search = [out |-> search.out, path |-> search.path]
    /\ search.out \in Seq(D) /\ search.path \in Seq(D)

\* The end of a path, and the path without it.
LEMMA PathFacts ==
    ASSUME NEW D, NEW path \in Seq(D), path /= <<>>
    PROVE  Last(path) \in D /\ Front(path) \in Seq(D)
  <1>1. Len(path) \in Nat /\ Len(path) >= 1
    OBVIOUS
  <1>2. Last(path) \in D
    BY <1>1 DEF Last
  <1>3. Front(path) \in Seq(D)
    BY <1>1 DEF Front
  <1> QED BY <1>2, <1>3

\* A step of network_dfs_recur stays among the nodes.
LEMMA SearchRecurs ==
    ASSUME NEW n0, NodesAreListed(n0.node, n0.nodes),
           NEW search, IsSearching(search, DOMAIN n0.node),
           search.path /= <<>>
    PROVE  IsSearching(network_dfs_recur(n0, search), DOMAIN n0.node)
  <1> DEFINE D == DOMAIN n0.node  n == Last(search.path)
             left == {i \in DOMAIN n0.node[n].fanin : n0.node[n].fanin[i] \notin Range(search.out)}
  <1>1. search.out \in Seq(D) /\ search.path \in Seq(D)
    BY DEF IsSearching
  <1>2. n \in D /\ Front(search.path) \in Seq(D)
    BY <1>1, PathFacts
  <1> HIDE DEF n
  <1>3. IsNode(n0.node[n]) /\ Range(n0.node[n].fanin) \subseteq D
    BY <1>2 DEF NodesAreListed
  <1>4. n0.node[n].fanin \in Seq(Nat)
    BY <1>3 DEF IsNode
  <1>5. CASE left = {}
    <2>1. network_dfs_recur(n0, search)
            = [out |-> Append(search.out, n), path |-> Front(search.path)]
      BY <1>5 DEF network_dfs_recur, n
    <2>2. Append(search.out, n) \in Seq(D)
      BY <1>1, <1>2, AppendFacts
    <2> QED BY <1>2, <2>1, <2>2 DEF IsSearching
  <1>6. CASE left /= {}
    <2>1. Min(left) \in left
      <3>1. left \subseteq Nat
        BY <1>4
      <3> HIDE DEF left
      <3> QED BY <1>6, <3>1, MinFacts
    <2>2. PICK pin : pin = Min(left)
      OBVIOUS
    <2>3. network_dfs_recur(n0, search)
            = [out |-> search.out, path |-> Append(search.path, n0.node[n].fanin[pin])]
      BY <1>6, <2>2 DEF network_dfs_recur, n
    <2>4. n0.node[n].fanin[pin] \in D
      BY <1>3, <2>1, <2>2, Zenon DEF Range
    <2>5. Append(search.path, n0.node[n].fanin[pin]) \in Seq(D)
      BY <1>1, <2>4, AppendFacts
    <2> QED BY <1>1, <2>3, <2>5 DEF IsSearching
  <1> QED BY <1>5, <1>6

\* So does every step of the search.
LEMMA SearchSteps ==
    ASSUME NEW n0, IsNetwork(n0), NEW search, IsSearching(search, DOMAIN n0.node)
    PROVE  IsSearching(SearchStep(n0, search), DOMAIN n0.node)
  <1> DEFINE D == DOMAIN n0.node  roots == SearchRoots(n0)
             left == {i \in DOMAIN roots : roots[i] \notin Range(search.out)}
  <1>1. NodesAreListed(n0.node, n0.nodes) /\ TerminalsAreListed(n0.node, n0.pi, n0.po)
    BY NetworkHas
  <1>2. roots \in Seq(Nat) /\ Range(roots) \subseteq D
    <2>1. n0.po \in Seq(Nat) /\ Range(n0.po) \subseteq D /\ n0.nodes \in Seq(Nat)
          /\ Range(n0.nodes) = D
      BY <1>1 DEF TerminalsAreListed, NodesAreListed
    <2>2. PICK used : used = {n \in Range(n0.nodes) : n0.fanout[n] /= <<>>
               \/ n0.node[n].type = "PRIMARY_OUTPUT"}
      OBVIOUS
    <2>3. PICK rest : rest = Minus(n0.nodes, used)
      OBVIOUS
    <2>4. rest \in Seq(Nat) /\ Range(rest) \subseteq D
      BY <2>1, <2>3, MinusFacts
    <2>5. roots = n0.po \o rest
      BY <2>2, <2>3 DEF SearchRoots
    <2> QED BY <2>1, <2>4, <2>5, ConcatFacts
  <1> HIDE DEF roots
  <1>3. CASE search.path /= <<>>
    <2>1. SearchStep(n0, search) = network_dfs_recur(n0, search)
      BY <1>3 DEF SearchStep
    <2> QED BY <1>1, <1>3, <2>1, SearchRecurs
  <1>4. CASE search.path = <<>> /\ left = {}
    <2>1. SearchStep(n0, search) = search
      BY <1>4 DEF SearchStep, roots
    <2> QED BY <2>1
  <1>5. CASE search.path = <<>> /\ left /= {}
    <2>1. PICK i : i = Min(left)
      OBVIOUS
    <2>2. SearchStep(n0, search) = [search EXCEPT !.path = <<roots[i]>>]
      BY <1>5, <2>1 DEF SearchStep, roots
    <2>3. i \in DOMAIN roots
      <3>1. left \subseteq Nat /\ left \subseteq DOMAIN roots
        BY <1>2
      <3> HIDE DEF left
      <3>2. Min(left) \in left
        BY <1>5, <3>1, MinFacts
      <3> QED BY <2>1, <3>1, <3>2
    <2>4. roots[i] \in D
      BY <1>2, <2>3 DEF Range
    <2>5. <<roots[i]>> \in Seq(D)
      BY <2>4, OneFacts
    <2>6. search = [out |-> search.out, path |-> search.path] /\ search.out \in Seq(D)
      BY DEF IsSearching
    <2>7. [search EXCEPT !.path = <<roots[i]>>] = [out |-> search.out, path |-> <<roots[i]>>]
      BY <2>6
    <2> QED BY <2>2, <2>5, <2>6, <2>7 DEF IsSearching
  <1> QED BY <1>3, <1>4, <1>5

\* A list has nodes, each once, and each after its fanins.
IsOrdered(node, list) ==
    /\ list \in Seq(DOMAIN node) /\ IsInjective(list)
    /\ \A k \in 1..Len(list) : \A x \in Range(node[list[k]].fanin) : \E j \in 1..(k - 1) : list[j] = x

\* A path goes from a node to a fanin of it, and is not out yet.
IsDescent(node, out, path) ==
    /\ path \in Seq(DOMAIN node) /\ IsInjective(path) /\ Range(path) \intersect Range(out) = {}
    /\ \A i \in 1..(Len(path) - 1) : path[i + 1] \in Range(node[path[i]].fanin)

\* A path without a cycle gets longer by any fanin of its end that is not out.
LEMMA DescentGoesOn ==
    ASSUME NEW node, Acyclic(node), NEW out, NEW path, IsDescent(node, out, path), path /= <<>>,
           NEW n, n = Last(path), NEW x \in DOMAIN node, x \in Range(node[n].fanin),
           x \notin Range(out), NEW next, next = Append(path, x)
    PROVE  IsDescent(node, out, next) /\ Len(next) = Len(path) + 1
  <1> DEFINE D == DOMAIN node  N == Len(path)
  <1>1. path \in Seq(D) /\ N \in Nat /\ N >= 1 /\ IsInjective(path) /\ path[N] = n
    BY DEF IsDescent, Last
  <1>2. /\ next \in Seq(D) /\ Len(next) = N + 1 /\ Range(next) = Range(path) \union {x}
        /\ next[N + 1] = x /\ \A i \in 1..N : next[i] = path[i]
    BY <1>1, AppendFacts
  <1>3. ASSUME NEW j \in 1..N, path[j] = x
        PROVE  FALSE
    <2> DEFINE S == {path[i] : i \in j..N}
    <2>1. S \in SUBSET D /\ S /= {}
      BY <1>1
    <2>2. PICK m \in S : Range(node[m].fanin) \intersect S = {}
      BY <2>1 DEF Acyclic
    <2>3. PICK i \in j..N : path[i] = m
      BY <2>2
    <2>4. CASE i = N
      <3>1. x \in S
        BY <1>1, <1>3
      <3> QED BY <1>1, <2>2, <2>3, <2>4, <3>1
    <2>5. CASE i /= N
      <3>1. i \in 1..(N - 1) /\ i + 1 \in j..N
        BY <1>1, <2>3, <2>5
      <3>2. path[i + 1] \in Range(node[m].fanin) /\ path[i + 1] \in S
        BY <2>3, <3>1 DEF IsDescent
      <3> QED BY <2>2, <3>2
    <2> QED BY <2>4, <2>5
  <1>4. x \notin Range(path)
    BY <1>1, <1>3, RangeFacts
  <1>5. IsInjective(next)
    BY <1>1, <1>4, AppendFacts
  <1>6. Range(next) \intersect Range(out) = {}
    BY <1>2 DEF IsDescent
  <1>7. ASSUME NEW i \in 1..(Len(next) - 1)
        PROVE  next[i + 1] \in Range(node[next[i]].fanin)
    <2>1. CASE i = N
      BY <1>1, <1>2, <2>1
    <2>2. CASE i /= N
      <3>1. i \in 1..(N - 1) /\ next[i + 1] = path[i + 1] /\ next[i] = path[i]
        BY <1>1, <1>2, <2>2
      <3> QED BY <3>1 DEF IsDescent
    <2> QED BY <2>1, <2>2
  <1> QED BY <1>2, <1>5, <1>6, <1>7 DEF IsDescent

\* When all the fanins of its end are out, the end can follow.
LEMMA DescentReturns ==
    ASSUME NEW node, NEW out, IsOrdered(node, out), NEW path, IsDescent(node, out, path), path /= <<>>,
           NEW n, n = Last(path), Range(node[n].fanin) \subseteq Range(out),
           NEW out2, out2 = Append(out, n), NEW next, next = Front(path)
    PROVE  /\ IsOrdered(node, out2) /\ IsDescent(node, out2, next)
           /\ Len(out2) = Len(out) + 1 /\ Len(next) = Len(path) - 1
  <1> DEFINE D == DOMAIN node  N == Len(path)  K == Len(out)
  <1>1. path \in Seq(D) /\ N \in Nat /\ N >= 1 /\ IsInjective(path) /\ path[N] = n /\ n \in D
    BY DEF IsDescent, Last
  <1>2. out \in Seq(D) /\ IsInjective(out) /\ K \in Nat
    BY DEF IsOrdered
  <1>3. next \in Seq(D) /\ Len(next) = N - 1 /\ \A i \in 1..(N - 1) : next[i] = path[i]
    <2>1. next = SubSeq(path, 1, N - 1)
      BY DEF Front
    <2>2. \A i \in 1..(N - 1) : path[i] \in D
      BY <1>1
    <2> HIDE DEF D, N
    <2>3. PICK M \in Int : M = N - 1
      BY <1>1
    <2>4. /\ SubSeq(path, 1, M) \in Seq(D) /\ Len(SubSeq(path, 1, M)) = IF 1 <= M THEN M - 1 + 1 ELSE 0
          /\ \A i \in 1..(M - 1 + 1) : SubSeq(path, 1, M)[i] = path[1 + i - 1]
      BY <2>2, <2>3, SubSeqProperties
    <2> QED BY <1>1, <2>1, <2>3, <2>4
  <1>4. /\ out2 \in Seq(D) /\ Len(out2) = K + 1 /\ Range(out2) = Range(out) \union {n}
        /\ out2[K + 1] = n /\ \A i \in 1..K : out2[i] = out[i]
    BY <1>1, <1>2, AppendFacts
  <1>5. n \in Range(path)
    BY <1>1, RangeFacts
  <1>6. IsInjective(out2)
    BY <1>1, <1>2, <1>5, AppendFacts DEF IsDescent
  <1>7. ASSUME NEW k \in 1..Len(out2), NEW x \in Range(node[out2[k]].fanin)
        PROVE  \E j \in 1..(k - 1) : out2[j] = x
    <2>1. CASE k = K + 1
      <3>1. x \in Range(out)
        BY <1>4, <2>1
      <3>2. PICK j \in 1..K : out[j] = x
        BY <1>2, <3>1, RangeFacts
      <3> QED BY <1>2, <1>4, <2>1, <3>2
    <2>2. CASE k /= K + 1
      <3>1. k \in 1..K /\ out2[k] = out[k]
        BY <1>2, <1>4, <2>2
      <3>2. PICK j \in 1..(k - 1) : out[j] = x
        BY <3>1 DEF IsOrdered
      <3> QED BY <1>2, <1>4, <3>1, <3>2
    <2> QED BY <2>1, <2>2
  <1>8. IsOrdered(node, out2)
    BY <1>4, <1>6, <1>7 DEF IsOrdered
  <1>9. \A i, j \in 1..N : path[i] = path[j] => i = j
    BY <1>1, InjectiveFacts
  <1>10. Range(next) \subseteq Range(path) /\ n \notin Range(next) /\ IsInjective(next)
    <2>1. ASSUME NEW y \in Range(next)
          PROVE  y \in Range(path) /\ y /= n
      <3>1. PICK i \in 1..(N - 1) : next[i] = y
        BY <1>3, RangeFacts
      <3>2. i \in 1..N /\ i /= N /\ path[i] = y
        BY <1>1, <1>3, <3>1
      <3> QED BY <1>1, <1>9, <3>2, RangeFacts
    <2>2. \A i, j \in 1..Len(next) : next[i] = next[j] => i = j
      BY <1>1, <1>3, <1>9
    <2> QED BY <1>3, <2>1, <2>2, InjectiveFacts
  <1>11. Range(next) \intersect Range(out2) = {}
    BY <1>4, <1>10 DEF IsDescent
  <1>12. \A i \in 1..(Len(next) - 1) : next[i + 1] \in Range(node[next[i]].fanin)
    BY <1>1, <1>3 DEF IsDescent
  <1>13. IsDescent(node, out2, next)
    BY <1>3, <1>10, <1>11, <1>12 DEF IsDescent
  <1> QED BY <1>3, <1>4, <1>8, <1>13

\* What the search has after so many steps: each has put a node on the path or
\* out, unless all the roots are out.
IsSearchedFor(n0, search, k) ==
    /\ IsSearching(search, DOMAIN n0.node)
    /\ IsOrdered(n0.node, search.out) /\ IsDescent(n0.node, search.out, search.path)
    /\ \/ 2 * Len(search.out) + Len(search.path) = k
       \/ search.path = <<>> /\ Range(SearchRoots(n0)) \subseteq Range(search.out)

\* The roots are nodes.
LEMMA RootFacts ==
    ASSUME NEW n0, IsNetwork(n0), NEW roots, roots = SearchRoots(n0)
    PROVE  /\ roots \in Seq(DOMAIN n0.node)
           /\ \A n \in DOMAIN n0.node :
                n \notin Range(roots) => n0.fanout[n] /= <<>> /\ n0.node[n].type /= "PRIMARY_OUTPUT"
  <1> DEFINE D == DOMAIN n0.node
  <1>1. NodesAreListed(n0.node, n0.nodes) /\ TerminalsAreListed(n0.node, n0.pi, n0.po)
    BY NetworkHas
  <1>2. /\ n0.po \in Seq(Nat) /\ Range(n0.po) = {n \in D : n0.node[n].type = "PRIMARY_OUTPUT"}
        /\ n0.nodes \in Seq(Nat) /\ Range(n0.nodes) = D
    BY <1>1 DEF TerminalsAreListed, NodesAreListed
  <1>3. PICK used : used = {n \in Range(n0.nodes) : n0.fanout[n] /= <<>>
             \/ n0.node[n].type = "PRIMARY_OUTPUT"}
    OBVIOUS
  <1>4. PICK rest : rest = Minus(n0.nodes, used)
    OBVIOUS
  <1>5. rest \in Seq(Nat) /\ Range(rest) = D \ used
    BY <1>2, <1>4, MinusFacts
  <1>6. roots = n0.po \o rest
    BY <1>3, <1>4 DEF SearchRoots
  <1>7. roots \in Seq(Nat) /\ Range(roots) = Range(n0.po) \union (D \ used)
    BY <1>2, <1>5, <1>6, ConcatFacts
  <1>8. \A i \in 1..Len(roots) : roots[i] \in D
    BY <1>2, <1>7, RangeFacts
  <1>9. roots \in Seq(D)
    BY <1>7, <1>8
  <1> QED BY <1>2, <1>3, <1>7, <1>9

\* A step of the search puts a node on the path or out.
LEMMA SearchGoesOn ==
    ASSUME NEW n0, IsNetwork(n0), NEW k \in Nat, NEW search, IsSearchedFor(n0, search, k)
    PROVE  IsSearchedFor(n0, SearchStep(n0, search), k + 1)
  <1> DEFINE D == DOMAIN n0.node
  <1>0. PICK out, path, next :
            out = search.out /\ path = search.path /\ next = SearchStep(n0, search)
    OBVIOUS
  <1> SUFFICES IsSearchedFor(n0, next, k + 1)
    BY <1>0
  <1>1. /\ search = [out |-> out, path |-> path] /\ out \in Seq(D) /\ path \in Seq(D)
        /\ IsOrdered(n0.node, out) /\ IsDescent(n0.node, out, path)
        /\ Len(out) \in Nat /\ Len(path) \in Nat
    BY <1>0 DEF IsSearchedFor, IsSearching
  <1>2. NodesAreListed(n0.node, n0.nodes) /\ Acyclic(n0.node) /\ IsSearching(next, D)
    BY <1>0, NetworkHas, SearchSteps DEF IsSearchedFor
  <1>3. CASE path /= <<>>
    <2>1. PICK n : n = Last(path)
      OBVIOUS
    <2>2. n \in D
      BY <1>1, <1>3, <2>1, PathFacts
    <2>3. IsNode(n0.node[n]) /\ Range(n0.node[n].fanin) \subseteq D
      BY <1>2, <2>2 DEF NodesAreListed
    <2>4. n0.node[n].fanin \in Seq(Nat)
      BY <2>3 DEF IsNode
    <2>5. PICK left : left = {i \in DOMAIN n0.node[n].fanin : n0.node[n].fanin[i] \notin Range(out)}
      OBVIOUS
    <2>6. next = IF left = {} THEN [out |-> Append(out, n), path |-> Front(path)]
                 ELSE [out |-> out, path |-> Append(path, n0.node[n].fanin[Min(left)])]
      BY <1>0, <1>3, <2>1, <2>5 DEF SearchStep, network_dfs_recur
    <2>7. 2 * Len(out) + Len(path) = k
      BY <1>0, <1>3 DEF IsSearchedFor
    <2>8. CASE left = {}
      <3>1. Range(n0.node[n].fanin) \subseteq Range(out)
        BY <2>4, <2>5, <2>8, RangeFacts
      <3>2. PICK out2, path2 : out2 = Append(out, n) /\ path2 = Front(path)
        OBVIOUS
      <3>3. next.out = out2 /\ next.path = path2
        BY <2>6, <2>8, <3>2
      <3>4. /\ IsOrdered(n0.node, out2) /\ IsDescent(n0.node, out2, path2)
            /\ Len(out2) = Len(out) + 1 /\ Len(path2) = Len(path) - 1
        <4>1. IsOrdered(n0.node, out) /\ IsDescent(n0.node, out, path)
          BY <1>1
        <4>2. path /= <<>> /\ n = Last(path) /\ out2 = Append(out, n) /\ path2 = Front(path)
          BY <1>3, <2>1, <3>2
        <4>3. IsOrdered(n0.node, out2)
          BY <4>1, <4>2, <3>1, DescentReturns
        <4>4. IsDescent(n0.node, out2, path2)
          BY <4>1, <4>2, <3>1, DescentReturns
        <4>5. Len(out2) = Len(out) + 1 /\ Len(path2) = Len(path) - 1
          BY <4>1, <4>2, <3>1, DescentReturns
        <4> QED BY <4>3, <4>4, <4>5
      <3>5. 2 * Len(out2) + Len(path2) = k + 1
        BY <1>1, <2>7, <3>4
      <3> QED BY <1>2, <3>3, <3>4, <3>5 DEF IsSearchedFor
    <2>9. CASE left /= {}
      <3>1. left \subseteq Nat
        BY <2>4, <2>5
      <3>2. PICK pin : pin = Min(left)
        OBVIOUS
      <3>3. pin \in left
        BY <2>9, <3>1, <3>2, MinFacts
      <3>4. PICK x : x = n0.node[n].fanin[pin]
        OBVIOUS
      <3>5. x \in Range(n0.node[n].fanin) /\ x \in D /\ x \notin Range(out)
        BY <2>3, <2>4, <2>5, <3>3, <3>4, RangeFacts, SMTT(60)
      <3>6. PICK path2 : path2 = Append(path, x)
        OBVIOUS
      <3>7. next.out = out /\ next.path = path2
        BY <2>6, <2>9, <3>2, <3>4, <3>6
      <3>8. IsDescent(n0.node, out, path2) /\ Len(path2) = Len(path) + 1
        <4>1. IsDescent(n0.node, out, path) /\ Acyclic(n0.node) /\ x \in DOMAIN n0.node
          BY <1>1, <1>2, <3>5
        <4>2. IsDescent(n0.node, out, path2)
          BY <4>1, <1>3, <2>1, <3>5, <3>6, DescentGoesOn
        <4>3. Len(path2) = Len(path) + 1
          BY <4>1, <1>3, <2>1, <3>5, <3>6, DescentGoesOn
        <4> QED BY <4>2, <4>3
      <3>9. 2 * Len(out) + Len(path2) = k + 1
        BY <1>1, <2>7, <3>8, SMTT(60)
      <3> QED BY <1>1, <1>2, <3>7, <3>8, <3>9 DEF IsSearchedFor
    <2> QED BY <2>8, <2>9
  <1>4. CASE path = <<>>
    <2>1. PICK roots : roots = SearchRoots(n0)
      OBVIOUS
    <2>2. roots \in Seq(D)
      BY <2>1, RootFacts
    <2>3. PICK left : left = {i \in DOMAIN roots : roots[i] \notin Range(out)}
      OBVIOUS
    <2>4. next = IF left = {} THEN search ELSE [search EXCEPT !.path = <<roots[Min(left)]>>]
      BY <1>0, <1>4, <2>1, <2>3 DEF SearchStep
    <2>5. CASE left = {}
      <3>1. Range(roots) \subseteq Range(out)
        BY <2>2, <2>3, <2>5, RangeFacts
      <3> QED BY <1>0, <1>1, <1>2, <1>4, <2>1, <2>4, <2>5, <3>1 DEF IsSearchedFor
    <2>6. CASE left /= {}
      <3>1. left \subseteq Nat
        BY <2>2, <2>3
      <3>2. PICK i : i = Min(left)
        OBVIOUS
      <3>3. i \in left
        BY <2>6, <3>1, <3>2, MinFacts
      <3>4. PICK x : x = roots[i]
        OBVIOUS
      <3>5. x \in D /\ x \notin Range(out) /\ x \in Range(roots)
        BY <2>2, <2>3, <3>3, <3>4, RangeFacts
      <3>6. next.out = out /\ next.path = <<x>>
        BY <1>0, <1>1, <2>4, <2>6, <3>2, <3>4
      <3>7. <<x>> \in Seq(D) /\ Len(<<x>>) = 1 /\ Range(<<x>>) = {x} /\ IsInjective(<<x>>)
        BY <3>5, OneFacts
      <3>8. IsDescent(n0.node, out, next.path)
        BY <3>5, <3>6, <3>7 DEF IsDescent
      <3>9. 2 * Len(out) + Len(path) = k
        BY <1>0, <2>1, <3>5 DEF IsSearchedFor
      <3>10. 2 * Len(next.out) + Len(next.path) = k + 1
        BY <1>1, <1>4, <3>6, <3>7, <3>9, EmptyFacts
      <3> QED BY <1>1, <1>2, <3>6, <3>8, <3>10 DEF IsSearchedFor
    <2> QED BY <2>5, <2>6
  <1> QED BY <1>0, <1>3, <1>4

\* No set of nodes is such that each feeds another of it.
LEMMA SomeFeedsNone ==
    ASSUME NEW n0, IsNetwork(n0), NEW U \in SUBSET DOMAIN n0.node,
           \A u \in U : \E w \in U : u \in Range(n0.node[w].fanin)
    PROVE  U = {}
  <1> DEFINE N == Len(n0.nodes)
  <1>1. N \in Nat /\ network_is_acyclic(n0)
    BY NetworkHas, ListedFacts DEF IsNetwork
  <1>2. PICK f : /\ f[0] = {}
                 /\ \A k \in 1..N : f[k] = FedBy(n0.node, f[k - 1])
                 /\ f[N] = DOMAIN n0.node
    BY <1>1, SettledLoop
  <1> DEFINE S == {k \in 0..N : U \subseteq f[N - k]}
  <1>3. 0 \in S
    BY <1>1, <1>2
  <1>4. ASSUME NEW k \in 1..N, k - 1 \in S
        PROVE  k \in S
    <2>1. N - k + 1 \in 1..N /\ U \subseteq f[N - k + 1] /\ N - k + 1 - 1 = N - k
      BY <1>1, <1>4
    <2>2. f[N - k + 1] = FedBy(n0.node, f[N - k])
      BY <1>2, <2>1
    <2>3. ASSUME NEW u \in U
          PROVE  u \in f[N - k]
      <3>1. PICK w \in U : u \in Range(n0.node[w].fanin)
        OBVIOUS
      <3> QED BY <2>1, <2>2, <3>1 DEF FedBy
    <2> QED BY <2>3
  <1>5. N \in S
    <2>1. N \in 0..N
      BY <1>1
    <2>2. \A k \in 0..N : k \in S
      <3> HIDE DEF S, N
      <3> QED BY <1>1, <1>3, <1>4, UpTo
    <2> QED BY <2>1, <2>2
  <1> QED BY <1>1, <1>2, <1>5

\* A list has as many places as nodes.
LEMMA ListSize ==
    ASSUME NEW S, NEW s \in Seq(S), IsInjective(s)
    PROVE  IsFiniteSet(Range(s)) /\ Cardinality(Range(s)) = Len(s)
  <1>1. IsMapping(s) /\ DOMAIN s = 1..Len(s) /\ Len(s) \in Nat
    BY DEF IsMapping
  <1>2. IsFiniteSet(1..Len(s)) /\ Cardinality(1..Len(s)) = Len(s)
    BY <1>1, FS_Interval, SMTT(60)
  <1> QED BY <1>1, <1>2, SizeOfRange

\* The search has found all the nodes when it ends.
LEMMA SearchEnds ==
    ASSUME NEW n0, IsNetwork(n0), NEW search, IsSearchedFor(n0, search, 2 * Len(n0.nodes))
    PROVE  Range(search.out) = DOMAIN n0.node
  <1> DEFINE D == DOMAIN n0.node  N == Len(n0.nodes)
  <1>1. PICK out, path : out = search.out /\ path = search.path
    OBVIOUS
  <1>2. /\ IsFiniteSet(D) /\ Cardinality(D) = N /\ N \in Nat
        /\ FanoutsMirrorFanins(n0.node, n0.fanout) /\ NodesAreListed(n0.node, n0.nodes)
    BY NetworkHas, ListedFacts
  <1>3. /\ out \in Seq(D) /\ IsInjective(out) /\ path \in Seq(D) /\ IsInjective(path)
        /\ Range(path) \intersect Range(out) = {} /\ IsOrdered(n0.node, out)
        /\ Len(out) \in Nat /\ Len(path) \in Nat /\ Range(out) \subseteq D /\ Range(path) \subseteq D
    <2>1. IsOrdered(n0.node, out) /\ IsDescent(n0.node, out, path)
      BY <1>1 DEF IsSearchedFor
    <2> QED BY <2>1, RangeFacts DEF IsOrdered, IsDescent
  <1>4. CASE 2 * Len(out) + Len(path) = 2 * N
    <2>1. /\ IsFiniteSet(Range(out)) /\ Cardinality(Range(out)) = Len(out)
          /\ IsFiniteSet(Range(path)) /\ Cardinality(Range(path)) = Len(path)
      BY <1>3, ListSize
    <2>2. Cardinality(Range(out) \union Range(path)) = Len(out) + Len(path)
      <3>1. Cardinality(Range(out) \intersect Range(path)) = 0
        BY <1>3, FS_EmptySet
      <3>2. PICK A, B : A = Range(out) /\ B = Range(path)
        OBVIOUS
      <3>3. Cardinality(A \union B) = Cardinality(A) + Cardinality(B) - Cardinality(A \intersect B)
        BY <2>1, <3>2, FS_Union
      <3> QED BY <1>3, <2>1, <3>1, <3>2, <3>3
    <2>3. Len(out) + Len(path) <= N
      BY <1>2, <1>3, <2>2, FS_Subset
    <2>4. Len(out) <= N
      BY <1>3, <2>3
    <2>5. Len(out) = N
      BY <1>2, <1>3, <1>4, <2>3, <2>4
    <2> QED BY <1>1, <1>2, <1>3, <2>1, <2>5, FS_Subset
  <1>5. CASE Range(SearchRoots(n0)) \subseteq Range(out)
    <2> DEFINE U == D \ Range(out)
    <2>1. ASSUME NEW u \in U
          PROVE  \E w \in U : u \in Range(n0.node[w].fanin)
      <3>1. n0.fanout[u] /= <<>>
        BY <1>5, RootFacts
      <3>2. /\ n0.fanout[u] \in Seq(Nat \X Nat)
            /\ \A use \in Range(n0.fanout[u]) :
                /\ use[1] \in D /\ use[2] \in DOMAIN n0.node[use[1]].fanin
                /\ n0.node[use[1]].fanin[use[2]] = u
        BY <1>2, MirrorFacts
      <3>3. PICK use : use \in Range(n0.fanout[u])
        BY <3>1, <3>2, EmptyRange
      <3>4. PICK w : w = use[1]
        OBVIOUS
      <3>5. w \in D /\ u \in Range(n0.node[w].fanin)
        BY <3>2, <3>3, <3>4 DEF Range
      <3>6. w \notin Range(out)
        <4>1. ASSUME w \in Range(out)
              PROVE  FALSE
          <5>1. PICK k \in 1..Len(out) : out[k] = w
            BY <1>3, <4>1, RangeFacts
          <5>2. PICK j \in 1..(k - 1) : out[j] = u
            BY <1>3, <3>5, <5>1 DEF IsOrdered
          <5>3. j \in 1..Len(out)
            BY <1>3, <5>1, <5>2
          <5>4. u \in Range(out)
            BY <1>3, <5>2, <5>3, RangeFacts
          <5> QED BY <5>4
        <4> QED BY <4>1
      <3> QED BY <3>5, <3>6
    <2>2. U = {}
      <3>1. U \in SUBSET D
        OBVIOUS
      <3> HIDE DEF U
      <3> QED BY <2>1, <3>1, SomeFeedsNone
    <2> QED BY <1>1, <1>3, <2>2
  <1> QED BY <1>1, <1>4, <1>5 DEF IsSearchedFor

\* network_dfs returns the nodes, each once and after its fanins: it turns often
\* enough.
LEMMA DfsOrders ==
    ASSUME NEW n0, IsNetwork(n0), NEW list, list = network_dfs(n0)
    PROVE  IsOrdered(n0.node, list) /\ Range(list) = DOMAIN n0.node
  <1> DEFINE N == Len(n0.nodes)
  <1>1. N \in Nat
    BY NetworkHas, ListedFacts
  <1>2. PICK f : IsSearch(f, n0)
    BY <1>1, SearchLoop
  <1> DEFINE S == {k \in 0..(2 * N) : IsSearchedFor(n0, f[k], k)}
  <1>3. 0 \in S
    <2>1. f[0] = [out |-> <<>>, path |-> <<>>]
      BY <1>2 DEF IsSearch
    <2>2. f[0].out = <<>> /\ f[0].path = <<>>
      BY <2>1
    <2>3. <<>> \in Seq(DOMAIN n0.node) /\ Range(<<>>) = {} /\ IsInjective(<<>>) /\ Len(<<>>) = 0
      BY EmptyFacts
    <2>4. IsSearching(f[0], DOMAIN n0.node)
      BY <2>1, <2>2, <2>3 DEF IsSearching
    <2>5. IsOrdered(n0.node, <<>>) /\ IsDescent(n0.node, <<>>, <<>>)
      BY <2>3 DEF IsOrdered, IsDescent
    <2>6. 2 * Len(f[0].out) + Len(f[0].path) = 0
      BY <2>2, <2>3
    <2>7. IsSearchedFor(n0, f[0], 0)
      BY <2>2, <2>4, <2>5, <2>6 DEF IsSearchedFor
    <2> QED BY <1>1, <2>7
  <1>4. ASSUME NEW k \in 1..(2 * N), k - 1 \in S
        PROVE  k \in S
    <2>1. f[k] = SearchStep(n0, f[k - 1])
      BY <1>2 DEF IsSearch
    <2>2. k - 1 \in Nat /\ IsSearchedFor(n0, f[k - 1], k - 1) /\ k - 1 + 1 = k
      BY <1>1, <1>4
    <2>3. IsSearchedFor(n0, f[k], k)
      BY <2>1, <2>2, SearchGoesOn
    <2> QED BY <1>1, <2>3
  <1>5. IsSearchedFor(n0, f[2 * N], 2 * N)
    <2>1. 2 * N \in Nat
      BY <1>1
    <2>2. \A k \in 0..(2 * N) : k \in S
      <3> HIDE DEF S
      <3> QED BY <1>3, <1>4, <2>1, UpTo
    <2> QED BY <2>1, <2>2
  <1>6. list = f[2 * N].out
    BY <1>2 DEF IsSearch
  <1>7. Range(list) = DOMAIN n0.node
    BY <1>5, <1>6, SearchEnds
  <1> QED BY <1>5, <1>6, <1>7 DEF IsSearchedFor

\* What the loops over it need of it.
LEMMA DfsFacts ==
    ASSUME NEW n0, IsNetwork(n0), NEW list, list = network_dfs(n0)
    PROVE  list \in Seq(DOMAIN n0.node) /\ Len(list) \in Nat
           /\ \A k \in 1..Len(list) : list[k] \in DOMAIN n0.node
  <1>1. list \in Seq(DOMAIN n0.node)
    BY DfsOrders DEF IsOrdered
  <1> QED BY <1>1, RangeFacts

-----------------------------------------------------------------------------
\* What is left to sweep at a node.

\* What a sweep takes up, and the fanins of a node that are of the kind.
IsPlain(nd) == IsConstant(nd) \/ IsBuffer(nd) \/ IsInverter(nd)

\* They are what is swept where the node is no output.
PlainFanins(n0, n) == {x \in Range(n0.node[n].fanin) : IsPlain(n0.node[x])}

\* A node has nothing to sweep when it has no such fanins, or, if it is an
\* output, no buffer.
LEMMA SweepableMeaning ==
    ASSUME NEW n0, NEW n
    PROVE  /\ n0.node[n].type /= "PRIMARY_OUTPUT" => (Sweepable(n0, n) = {} <=> PlainFanins(n0, n) = {})
           /\ n0.node[n].type = "PRIMARY_OUTPUT" =>
                (Sweepable(n0, n) = {} <=> \A x \in Range(n0.node[n].fanin) : ~IsBuffer(n0.node[x]))
  BY DEF Sweepable, PlainFanins, IsPlain, Range

\* These nodes have their fanins among them, and nothing to sweep.
IsSweptIn(n0, D) ==
    /\ D \subseteq DOMAIN n0.node
    /\ \A m \in D : Range(n0.node[m].fanin) \subseteq D /\ Sweepable(n0, m) = {}

\* The other nodes make no difference.
LEMMA SweptInSame ==
    ASSUME NEW n0, NEW D, IsSweptIn(n0, D), NEW res, D \subseteq DOMAIN res.node,
           \A m \in D : res.node[m] = n0.node[m]
    PROVE  IsSweptIn(res, D)
  <1>1. ASSUME NEW m \in D
        PROVE  Range(res.node[m].fanin) \subseteq D /\ Sweepable(res, m) = {}
    <2>1. res.node[m] = n0.node[m] /\ Range(n0.node[m].fanin) \subseteq D /\ Sweepable(n0, m) = {}
      BY DEF IsSweptIn
    <2>2. \A i \in DOMAIN n0.node[m].fanin :
            res.node[n0.node[m].fanin[i]] = n0.node[n0.node[m].fanin[i]]
      BY <2>1 DEF Range
    <2>3. Sweepable(res, m) = Sweepable(n0, m)
      BY <2>1, <2>2 DEF Sweepable
    <2> QED BY <2>1, <2>3
  <1> QED BY <1>1 DEF IsSweptIn

\* The node n0 that is swept has swept fanins, and is none of them.
IsNext(n0, D, n) ==
    /\ IsNetwork(n0) /\ IsSweptIn(n0, D) /\ n \in DOMAIN n0.node \ D
    /\ Range(n0.node[n].fanin) \subseteq D

\* Only the node n has changed, and its fanins are among these still.
IsNextStill(res, n0, D, n) ==
    /\ IsNext(res, D, n) /\ SameKinds(res, n0)
    /\ \A m \in DOMAIN n0.node \ {n} : res.node[m] = n0.node[m]

\* One change of a node after another is one.
LEMMA NextStillFacts ==
    ASSUME NEW D, NEW n
    PROVE  /\ \A n0 : IsNext(n0, D, n) => IsNextStill(n0, n0, D, n)
           /\ \A a, b, c : IsNextStill(b, a, D, n) /\ IsNextStill(c, b, D, n) => IsNextStill(c, a, D, n)
  <1>1. \A n0 : IsNext(n0, D, n) => IsNextStill(n0, n0, D, n)
    BY SameKindsFacts DEF IsNextStill
  <1>2. ASSUME NEW a, NEW b, NEW c, IsNextStill(b, a, D, n), IsNextStill(c, b, D, n)
        PROVE  IsNextStill(c, a, D, n)
    <2>1. DOMAIN b.node = DOMAIN a.node /\ SameKinds(c, a)
      BY <1>2, SameKindsFacts DEF IsNextStill, SameKinds
    <2> QED BY <1>2, <2>1 DEF IsNextStill
  <1> QED BY <1>1, <1>2

\* A node that changes while its fanins stay among the swept ones is still the
\* next one.
LEMMA NextChanged ==
    ASSUME NEW n0, NEW D, NEW n, IsNext(n0, D, n), NEW res, IsNetwork(res), SameKinds(res, n0),
           \A m \in DOMAIN n0.node \ {n} : res.node[m] = n0.node[m],
           Range(res.node[n].fanin) \subseteq D
    PROVE  IsNextStill(res, n0, D, n)
  <1>1. IsSweptIn(n0, D) /\ n \in DOMAIN n0.node \ D
    BY DEF IsNext
  <1>2. D \subseteq DOMAIN n0.node \ {n}
    BY <1>1 DEF IsSweptIn
  <1>3. DOMAIN res.node = DOMAIN n0.node
    BY DEF SameKinds
  <1>4. IsSweptIn(res, D)
    BY <1>1, <1>2, <1>3, SweptInSame
  <1> QED BY <1>1, <1>3, <1>4 DEF IsNextStill, IsNext

\* The first fanin that can be swept.
LEMMA FirstSweepable ==
    ASSUME NEW n0, IsNetwork(n0), NEW n \in DOMAIN n0.node, Sweepable(n0, n) /= {},
           NEW swept, swept = n0.node[n].fanin[Min(Sweepable(n0, n))]
    PROVE  /\ swept \in Range(n0.node[n].fanin) /\ swept \in DOMAIN n0.node
           /\ n0.node[n].type = "PRIMARY_OUTPUT" => IsBuffer(n0.node[swept])
           /\ n0.node[n].type /= "PRIMARY_OUTPUT" => IsPlain(n0.node[swept])
           /\ n0.node[n].type \in {"PRIMARY_OUTPUT", "INTERNAL"}
  <1>1. PICK pin : pin = Min(Sweepable(n0, n))
    OBVIOUS
  <1>2. NodesAreListed(n0.node, n0.nodes) /\ TerminalsAreListed(n0.node, n0.pi, n0.po)
    BY NetworkHas
  <1>3. /\ n0.node[n].type \in Types /\ DOMAIN n0.node[n].fanin \subseteq Nat
        /\ Range(n0.node[n].fanin) \subseteq DOMAIN n0.node
    <2>1. IsNode(n0.node[n]) /\ Range(n0.node[n].fanin) \subseteq DOMAIN n0.node
      BY <1>2 DEF NodesAreListed
    <2>2. n0.node[n].type \in Types /\ n0.node[n].fanin \in Seq(Nat)
      BY <2>1 DEF IsNode
    <2> QED BY <2>1, <2>2
  <1>4. pin \in Sweepable(n0, n)
    <2> DEFINE S == Sweepable(n0, n)
    <2>1. S \subseteq Nat
      BY <1>3 DEF Sweepable
    <2> HIDE DEF S
    <2>2. Min(S) \in S
      BY <2>1, MinFacts, SMTT(60) DEF S
    <2> QED BY <1>1, <2>2 DEF S
  <1>5. pin \in DOMAIN n0.node[n].fanin /\ swept \in Range(n0.node[n].fanin)
    BY <1>1, <1>4, Zenon DEF Sweepable, Range
  <1>6. n0.node[n].type /= "PRIMARY_INPUT"
    BY <1>2, <1>5, SMTT(60) DEF TerminalsAreListed
  <1>7. /\ n0.node[n].type = "PRIMARY_OUTPUT" => IsBuffer(n0.node[swept])
        /\ n0.node[n].type /= "PRIMARY_OUTPUT" => IsPlain(n0.node[swept])
    BY <1>1, <1>4, Zenon DEF Sweepable, IsPlain
  <1> QED BY <1>3, <1>5, <1>6, <1>7 DEF Types

\* A plain node has no more than one fanin.
LEMMA PlainHasNoDup ==
    ASSUME NEW nd, IsNode(nd), IsPlain(nd)
    PROVE  ~HasDup(nd)
  <1>1. CASE IsConstant(nd)
    BY <1>1 DEF IsConstant, HasDup, IsInjective
  <1>2. ASSUME NEW value \in {0, 1}, nd.F = {<<value>>}  PROVE ~HasDup(nd)
    <2>1. <<value>> \in [DOMAIN nd.fanin -> {0, 1, 2}]
      BY <1>2 DEF IsNode, IsFunction
    <2>2. DOMAIN nd.fanin = DOMAIN <<value>>
      BY <2>1
    <2>3. DOMAIN <<value>> = {1}
      OBVIOUS
    <2>4. \A i, j \in DOMAIN nd.fanin : i = j
      BY <2>2, <2>3
    <2> QED BY <2>4 DEF HasDup, IsInjective
  <1> QED BY <1>1, <1>2 DEF IsPlain, IsBuffer, IsInverter

\* A step of network_sweep_node on a node that is no output: it has no new fanin
\* to sweep, and one less if none was there twice.
LEMMA SweepFaninLess ==
    ASSUME NEW n0, NEW D, NEW n, IsNext(n0, D, n), n0.node[n].type /= "PRIMARY_OUTPUT",
           Sweepable(n0, n) /= {}, NEW res, res = SweepFanin(n0, n)
    PROVE  /\ IsNextStill(res, n0, D, n) /\ ~HasDup(res.node[n])
           /\ PlainFanins(res, n) \subseteq PlainFanins(n0, n)
           /\ ~HasDup(n0.node[n]) =>
                \E g \in PlainFanins(n0, n) : PlainFanins(res, n) \subseteq PlainFanins(n0, n) \ {g}
  <1>1. PICK g : g = n0.node[n].fanin[Min(Sweepable(n0, n))]
    OBVIOUS
  <1>2. IsNetwork(n0) /\ n \in DOMAIN n0.node \ D /\ Range(n0.node[n].fanin) \subseteq D /\ IsSweptIn(n0, D)
    BY DEF IsNext
  <1>3. /\ g \in Range(n0.node[n].fanin) /\ g \in DOMAIN n0.node /\ IsPlain(n0.node[g])
        /\ n0.node[n].type = "INTERNAL"
    BY <1>1, <1>2, FirstSweepable
  <1>4. n0.node[g].type = "INTERNAL"
    BY <1>3 DEF IsPlain, IsConstant, IsBuffer, IsInverter
  <1>5. res = node_collapse(n0, n, g)
    BY <1>1 DEF SweepFanin
  <1>6. IsCollapsible(n0, n, g)
    BY <1>3, <1>4 DEF IsCollapsible
  <1>7. IsNetwork(res) /\ SameLists(res, n0) /\ IsCollapsed(n0, res, n, g)
    BY <1>2, <1>5, <1>6, CollapseSound
  <1>8. SameKinds(res, n0) /\ \A m \in DOMAIN n0.node \ {n} : res.node[m] = n0.node[m]
    BY <1>7 DEF SameKinds, IsCollapsed
  <1>9. g \in D /\ Range(n0.node[g].fanin) \subseteq D /\ PlainFanins(n0, g) = {}
    BY <1>2, <1>3, <1>4, SweepableMeaning DEF IsSweptIn
  <1>10. Range(res.node[n].fanin) \subseteq Range(n0.node[n].fanin) \union Range(n0.node[g].fanin)
    BY <1>7 DEF IsCollapsed
  <1>11. IsNextStill(res, n0, D, n)
    BY <1>2, <1>7, <1>8, <1>9, <1>10, NextChanged
  <1>12. \A x \in D : res.node[x] = n0.node[x]
    BY <1>2, <1>8 DEF IsSweptIn
  <1>13. PlainFanins(res, n) \subseteq PlainFanins(n0, n)
    BY <1>2, <1>9, <1>10, <1>12 DEF PlainFanins
  <1>14. ~HasDup(n0.node[g])
    <2>1. NodesAreListed(n0.node, n0.nodes)
      BY <1>2, NetworkHas
    <2>2. IsNode(n0.node[g])
      BY <1>3, <2>1 DEF NodesAreListed
    <2> QED BY <1>3, <2>2, PlainHasNoDup
  <1>15. ~HasDup(res.node[n]) /\ (~HasDup(n0.node[n]) => g \notin PlainFanins(res, n))
    BY <1>7, <1>14 DEF IsCollapsed, PlainFanins
  <1>16. g \in PlainFanins(n0, n)
    BY <1>3 DEF PlainFanins
  <1> QED BY <1>11, <1>13, <1>15, <1>16

\* An output that is swept is fed by no buffer.
LEMMA SweepOutput ==
    ASSUME NEW n0, NEW D, NEW n, IsNext(n0, D, n), n0.node[n].type = "PRIMARY_OUTPUT",
           NEW res, res = SweepFanin(n0, n)
    PROVE  IsNextStill(res, n0, D, n) /\ Sweepable(res, n) = {}
  <1>1. CASE Sweepable(n0, n) = {}
    <2>1. res = n0
      BY <1>1 DEF SweepFanin
    <2> QED BY <1>1, <2>1, NextStillFacts
  <1>2. CASE Sweepable(n0, n) /= {}
    <2>1. PICK g : g = n0.node[n].fanin[Min(Sweepable(n0, n))]
      OBVIOUS
    <2>2. IsNetwork(n0) /\ n \in DOMAIN n0.node \ D /\ Range(n0.node[n].fanin) \subseteq D /\ IsSweptIn(n0, D)
      BY DEF IsNext
    <2>3. g \in Range(n0.node[n].fanin) /\ g \in DOMAIN n0.node /\ IsBuffer(n0.node[g])
      BY <1>2, <2>1, <2>2, FirstSweepable
    <2>4. n0.node[g].type = "INTERNAL"
      BY <2>3 DEF IsBuffer
    <2>5. PICK new : new = n0.node[g].fanin[1]
      OBVIOUS
    <2>6. res = node_patch_fanin(n0, n, g, n0.node[g].fanin[1])
      BY <1>2, <2>1 DEF SweepFanin
    <2>7. /\ IsNetwork(res) /\ SameKinds(res, n0)
          /\ \E pin : IsPatched(n0.node, res.node, n, pin, g, new)
      BY <2>2, <2>3, <2>5, <2>6, PatchPastBuffer
    <2>8. PICK pin : IsPatched(n0.node, res.node, n, pin, g, new)
      BY <2>7
    <2>9. \A m \in DOMAIN n0.node \ {n} : res.node[m] = n0.node[m]
      BY <2>8 DEF IsPatched
    <2>10. NodesAreListed(n0.node, n0.nodes) /\ TerminalsAreListed(n0.node, n0.pi, n0.po)
      BY <2>2, NetworkHas
    <2>11. PICK list : list = n0.node[n].fanin
      OBVIOUS
    <2>12. IsNode(n0.node[g]) /\ IsNode(n0.node[n]) /\ Len(list) = 1
      BY <2>2, <2>3, <2>10, <2>11 DEF NodesAreListed, TerminalsAreListed
    <2>13. DOMAIN list = {1}
      <3>1. list \in Seq(Nat)
        BY <2>11, <2>12 DEF IsNode
      <3> QED BY <2>12, <3>1
    <2>14. new \in Range(n0.node[g].fanin)
      BY <2>3, <2>5, <2>12, BufferFacts DEF Range
    <2>15. Range(res.node[n].fanin) = {new}
      <3>1. DOMAIN res.node[n].fanin = {1} /\ pin = 1 /\ res.node[n].fanin[1] = new
        BY <2>8, <2>11, <2>13 DEF IsPatched
      <3> QED BY <3>1 DEF Range
    <2>16. g \in D /\ Range(n0.node[g].fanin) \subseteq D /\ PlainFanins(n0, g) = {}
      BY <2>2, <2>3, <2>4, SweepableMeaning DEF IsSweptIn
    <2>17. IsNextStill(res, n0, D, n)
      BY <2>2, <2>7, <2>9, <2>14, <2>15, <2>16, NextChanged
    <2>18. new \in D /\ res.node[new] = n0.node[new]
      BY <2>2, <2>9, <2>14, <2>16 DEF IsSweptIn
    <2>19. ~IsBuffer(res.node[new])
      BY <2>14, <2>16, <2>18 DEF PlainFanins, IsPlain
    <2>20. res.node[n].type = "PRIMARY_OUTPUT"
      BY <2>8 DEF IsPatched
    <2> QED BY <2>15, <2>17, <2>19, <2>20, SweepableMeaning
  <1> QED BY <1>1, <1>2

\* What is left to take from the fanins of n: those to be swept, and n itself
\* while a fanin of it is there twice.
Unswept(n0, n) == PlainFanins(n0, n) \union (IF HasDup(n0.node[n]) THEN {n} ELSE {})

\* A step that finds something takes something.
LEMMA SweepFaninTakes ==
    ASSUME NEW n0, NEW D, NEW n, IsNext(n0, D, n), n0.node[n].type /= "PRIMARY_OUTPUT",
           NEW res, res = SweepFanin(n0, n)
    PROVE  /\ IsNextStill(res, n0, D, n)
           /\ IF Sweepable(n0, n) = {} THEN res = n0
              ELSE Unswept(res, n) \subseteq Unswept(n0, n) /\ Unswept(res, n) /= Unswept(n0, n)
  <1>1. CASE Sweepable(n0, n) = {}
    <2>1. res = n0
      BY <1>1 DEF SweepFanin
    <2> QED BY <1>1, <2>1, NextStillFacts
  <1>2. CASE Sweepable(n0, n) /= {}
    <2>1. /\ IsNextStill(res, n0, D, n) /\ ~HasDup(res.node[n])
          /\ PlainFanins(res, n) \subseteq PlainFanins(n0, n)
          /\ ~HasDup(n0.node[n]) =>
                \E g \in PlainFanins(n0, n) : PlainFanins(res, n) \subseteq PlainFanins(n0, n) \ {g}
      BY <1>2, SweepFaninLess
    <2>2. n \notin PlainFanins(n0, n)
      BY DEF IsNext, PlainFanins
    <2>3. Unswept(res, n) = PlainFanins(res, n)
      BY <2>1 DEF Unswept
    <2>4. PlainFanins(n0, n) \subseteq Unswept(n0, n) /\ (HasDup(n0.node[n]) => n \in Unswept(n0, n))
      BY DEF Unswept
    <2>5. Unswept(res, n) \subseteq Unswept(n0, n) /\ Unswept(res, n) /= Unswept(n0, n)
      <3>1. CASE ~HasDup(n0.node[n])
        BY <2>1, <2>3, <2>4, <3>1
      <3>2. CASE HasDup(n0.node[n])
        BY <2>1, <2>2, <2>3, <2>4, <3>2
      <3> QED BY <3>1, <3>2
    <2> QED BY <1>2, <2>1, <2>5
  <1> QED BY <1>1, <1>2

\* network_sweep_node leaves nothing to sweep at a node that comes after its
\* fanins: it turns often enough.
LEMMA SweepNodeSweeps ==
    ASSUME NEW n0, NEW D, NEW n, IsNext(n0, D, n), NEW res, res = network_sweep_node(n0, n)
    PROVE  IsNextStill(res, n0, D, n) /\ Sweepable(res, n) = {}
  <1>1. CASE n0.node[n].type = "PRIMARY_OUTPUT"
    <2>1. res = SweepFanin(n0, n)
      BY <1>1 DEF network_sweep_node
    <2> QED BY <1>1, <2>1, SweepOutput
  <1>2. CASE n0.node[n].type /= "PRIMARY_OUTPUT"
    <2> DEFINE N == MostTurns(n0)
    <2>1. N \in Nat /\ N = Len(n0.nodes) + 2 /\ Len(n0.nodes) \in Nat
      BY TurnsAllowed DEF IsNext, MostTurns
    <2>2. PICK f : IsSweptOnce(f, n0, n)
      BY <1>2, <2>1, SweepTurns
    <2>3. /\ f[0].net = n0 /\ res = f[N].net
          /\ \A k \in 1..N : f[k].net = SweepFanin(f[k - 1].net, n)
      BY <2>2 DEF IsSweptOnce
    <2> DEFINE Q == {k \in 0..N : IsNextStill(f[k].net, n0, D, n)}
               done == {k \in 1..N : Sweepable(f[k].net, n) = {}}
               P == [k \in 0..N |-> Unswept(f[k].net, n)]
    <2> HIDE DEF N
    <2>4. 0 \in Q
      BY <2>1, <2>3, NextStillFacts
    <2>5. ASSUME NEW k \in 1..N, k - 1 \in Q  PROVE k \in Q
      <3>1. PICK last : last = f[k - 1].net
        OBVIOUS
      <3>2. IsNextStill(last, n0, D, n)
        BY <2>5, <3>1
      <3>3. IsNext(last, D, n) /\ last.node[n].type /= "PRIMARY_OUTPUT"
        BY <1>2, <3>2 DEF IsNextStill, SameKinds, IsNext
      <3>4. PICK next : next = SweepFanin(last, n)
        OBVIOUS
      <3>5. IsNextStill(next, last, D, n)
        BY <3>3, <3>4, SweepFaninTakes
      <3>6. IsNextStill(next, n0, D, n)
        BY <3>2, <3>5, NextStillFacts
      <3>7. f[k].net = next /\ k \in 0..N
        BY <2>1, <2>3, <3>1, <3>4
      <3> QED BY <3>6, <3>7
    <2>6. \A k \in 0..N : k \in Q
      <3> HIDE DEF Q
      <3> QED BY <2>1, <2>4, <2>5, UpTo
    <2>7. \A k \in 0..N : IsNextStill(f[k].net, n0, D, n)
      BY <2>6
    <2> HIDE DEF Q
    <2>8. ASSUME NEW k \in 1..N
          PROVE  /\ k \in done \/ (P[k] \subseteq P[k - 1] /\ P[k] /= P[k - 1])
                 /\ k - 1 \in done => k \in done
      <3>1. PICK last, next : last = f[k - 1].net /\ next = f[k].net
        OBVIOUS
      <3>2. k - 1 \in 0..N /\ k \in 0..N
        BY <2>1
      <3>3. IsNext(last, D, n) /\ last.node[n].type /= "PRIMARY_OUTPUT"
        BY <1>2, <2>7, <3>1, <3>2 DEF IsNextStill, SameKinds, IsNext
      <3>4. next = SweepFanin(last, n)
        BY <2>3, <3>1
      <3>5. IF Sweepable(last, n) = {} THEN next = last
            ELSE Unswept(next, n) \subseteq Unswept(last, n) /\ Unswept(next, n) /= Unswept(last, n)
        BY <3>3, <3>4, SweepFaninTakes
      <3>6. P[k - 1] = Unswept(last, n) /\ P[k] = Unswept(next, n)
        BY <3>1, <3>2
      <3> QED BY <3>1, <3>5, <3>6
    <2>9. IsFiniteSet(P[0]) /\ Cardinality(P[0]) < N
      <3>1. NodesAreListed(n0.node, n0.nodes) /\ n \in DOMAIN n0.node
        BY NetworkHas DEF IsNext
      <3>2. Unswept(n0, n) \subseteq DOMAIN n0.node
        BY <3>1 DEF Unswept, PlainFanins, NodesAreListed
      <3>3. IsFiniteSet(DOMAIN n0.node) /\ Cardinality(DOMAIN n0.node) = Len(n0.nodes)
        BY <3>1, ListedFacts
      <3>4. P[0] = Unswept(n0, n)
        BY <2>1, <2>3
      <3>5. IsFiniteSet(P[0]) /\ Cardinality(P[0]) <= Cardinality(DOMAIN n0.node)
        <4> HIDE DEF P
        <4> QED BY <3>2, <3>3, <3>4, FS_Subset
      <3>6. Cardinality(P[0]) \in Nat
        BY <3>5, FS_CardinalityType
      <3> QED BY <2>1, <3>3, <3>5, <3>6
    <2>10. N \in done
      <3> HIDE DEF P, done
      <3> QED BY <2>1, <2>8, <2>9, Dwindles
    <2>11. N \in 0..N
      BY <2>1
    <2> QED BY <2>3, <2>7, <2>10, <2>11
  <1> QED BY <1>1, <1>2

\* Nothing is left to sweep anywhere.
AllSwept(n0) == \A n \in DOMAIN n0.node : Sweepable(n0, n) = {}

\* The first k nodes of a list.
FirstNodes(list, k) == {list[j] : j \in 1..k}

\* The nodes up to one of an ordered list are swept, and the others as before.
IsSweptTo(res, n0, list, k) ==
    /\ IsNetwork(res) /\ SameKinds(res, n0) /\ IsSweptIn(res, FirstNodes(list, k))
    /\ \A m \in DOMAIN n0.node \ FirstNodes(list, k) : res.node[m] = n0.node[m]

\* The next one is swept.
LEMMA SweptOneMore ==
    ASSUME NEW n0, NEW list, IsOrdered(n0.node, list), NEW k \in 1..Len(list),
           NEW last, IsSweptTo(last, n0, list, k - 1),
           NEW next, next = network_sweep_node(last, list[k])
    PROVE  IsSweptTo(next, n0, list, k)
  <1>1. PICK n, D : n = list[k] /\ D = FirstNodes(list, k - 1)
    OBVIOUS
  <1>2. n \in DOMAIN n0.node /\ Len(list) \in Nat
    BY <1>1, RangeFacts DEF IsOrdered
  <1>3. n \notin D
    <2>1. ASSUME NEW j \in 1..(k - 1), list[j] = n  PROVE FALSE
      <3>1. j \in 1..Len(list) /\ j /= k
        BY <1>2
      <3> QED BY <1>1, <2>1, <3>1, InjectiveFacts DEF IsOrdered
    <2> QED BY <1>1, <2>1 DEF FirstNodes
  <1>4. FirstNodes(list, k) = D \union {n}
    BY <1>1, <1>2 DEF FirstNodes
  <1>5. /\ IsNetwork(last) /\ SameKinds(last, n0) /\ IsSweptIn(last, D)
        /\ \A m \in DOMAIN n0.node \ D : last.node[m] = n0.node[m]
    BY <1>1 DEF IsSweptTo
  <1>6. Range(n0.node[n].fanin) \subseteq D
    BY <1>1 DEF IsOrdered, FirstNodes
  <1>7. IsNext(last, D, n)
    BY <1>2, <1>3, <1>5, <1>6 DEF IsNext, SameKinds
  <1>8. IsNextStill(next, last, D, n) /\ Sweepable(next, n) = {}
    BY <1>1, <1>7, SweepNodeSweeps
  <1>9. IsNetwork(next) /\ SameKinds(next, n0)
    BY <1>5, <1>8, SameKindsFacts DEF IsNextStill, IsNext
  <1>10. \A m \in DOMAIN n0.node \ (D \union {n}) : next.node[m] = n0.node[m]
    BY <1>5, <1>8 DEF IsNextStill, SameKinds
  <1>11. IsSweptIn(next, D \union {n})
    BY <1>8 DEF IsNextStill, IsNext, IsSweptIn
  <1> QED BY <1>4, <1>9, <1>10, <1>11 DEF IsSweptTo

\* Where nothing is left to sweep, nothing is swept.
LEMMA SweptNode ==
    ASSUME NEW n0, IsNetwork(n0), NEW n, Sweepable(n0, n) = {}
    PROVE  network_sweep_node(n0, n) = n0
  <1>1. SweepFanin(n0, n) = n0
    BY DEF SweepFanin
  <1>2. CASE n0.node[n].type = "PRIMARY_OUTPUT"
    BY <1>1, <1>2 DEF network_sweep_node
  <1>3. CASE n0.node[n].type /= "PRIMARY_OUTPUT"
    <2> DEFINE N == MostTurns(n0)
    <2>1. N \in Nat
      BY TurnsAllowed
    <2>2. PICK f : IsSweptOnce(f, n0, n)
      BY <1>3, <2>1, SweepTurns
    <2>3. /\ f[0].net = n0 /\ network_sweep_node(n0, n) = f[N].net
          /\ \A k \in 1..N : f[k].net = SweepFanin(f[k - 1].net, n)
      BY <2>2 DEF IsSweptOnce
    <2> DEFINE Q == {k \in 0..N : f[k].net = n0}
    <2> HIDE DEF N
    <2>4. 0 \in Q /\ \A k \in 1..N : k - 1 \in Q => k \in Q
      BY <1>1, <2>1, <2>3
    <2> HIDE DEF Q
    <2>5. \A k \in 0..N : k \in Q
      BY <2>1, <2>4, UpTo
    <2>6. N \in Q
      BY <2>1, <2>5
    <2> QED BY <2>3, <2>6 DEF Q
  <1> QED BY <1>2, <1>3

-----------------------------------------------------------------------------
\* A network is swept.

\* The results of the turns of the loop.
IsSweepingNodes(f, n0) ==
    /\ f[0] = n0
    /\ \A k \in 1..Len(network_dfs(n0)) : f[k] = network_sweep_node(f[k - 1], network_dfs(n0)[k])
    /\ SweepNodes(n0) = f[Len(network_dfs(n0))]

\* There is such a list of results.
LEMMA SweepNodesLoop ==
    ASSUME NEW n0, Len(network_dfs(n0)) \in Nat
    PROVE  \E f : IsSweepingNodes(f, n0)
  <1> DEFINE last == Len(network_dfs(n0))
             Turn(r, k) == network_sweep_node(r, network_dfs(n0)[k])
             Start == n0
             G(f, m) == f = [k \in 0..m |-> IF k = 0 THEN Start ELSE Turn(f[k - 1], k)]
             S == {m \in 0..last : \E f : G(f, m)}
  <1>0. last \in Nat
    OBVIOUS
  <1>1. SweepNodes(n0) = (CHOOSE f : G(f, last))[last]
    BY DEF SweepNodes, ForEach
  <1> HIDE DEF Turn, Start, last
  <1>2. \E f : G(f, 0)
    <2>1. G([k \in 0..0 |-> Start], 0)
      OBVIOUS
    <2> HIDE DEF G
    <2> QED BY <2>1
  <1>3. ASSUME NEW m \in 1..last, NEW f, G(f, m - 1)  PROVE \E g : G(g, m)
    <2> DEFINE g == [k \in 0..m |-> IF k = m THEN Turn(f[m - 1], m) ELSE f[k]]
    <2>1. ASSUME NEW k \in 0..m
          PROVE  g[k] = IF k = 0 THEN Start ELSE Turn(g[k - 1], k)
      <3>1. CASE k = m
        <4>1. g[m] = Turn(f[m - 1], m) /\ m \in 0..m /\ m /= 0 /\ g[m - 1] = f[m - 1]
          BY <1>0
        <4> HIDE DEF g
        <4> QED BY <3>1, <4>1
      <3>2. CASE k /= m
        <4>1. k \in 0..(m - 1)
          BY <1>0, <3>2
        <4>2. f[k] = IF k = 0 THEN Start ELSE Turn(f[k - 1], k)
          BY <1>3, <4>1
        <4>3. g[k] = f[k] /\ (k /= 0 => g[k - 1] = f[k - 1])
          BY <1>0, <3>2, <4>1
        <4> HIDE DEF g
        <4> QED BY <4>2, <4>3
      <3> QED BY <3>1, <3>2
    <2>2. g = [k \in 0..m |-> g[k]]
      OBVIOUS
    <2>3. G(g, m)
      BY <2>1, <2>2
    <2> HIDE DEF G, g
    <2> QED BY <2>3
  <1>4. \E f : G(f, last)
    <2> HIDE DEF G
    <2>1. 0 \in S
      BY <1>0, <1>2
    <2>2. \A m \in 1..last : m - 1 \in S => m \in S
      BY <1>0, <1>3
    <2> HIDE DEF S
    <2>3. \A m \in 0..last : m \in S
      BY <1>0, <2>1, <2>2, UpTo
    <2>4. last \in S
      BY <1>0, <2>3
    <2> QED BY <2>4 DEF S
  <1> DEFINE F == CHOOSE f : G(f, last)
  <1>5. G(F, last)
    <2> HIDE DEF G
    <2> QED BY <1>4
  <1> HIDE DEF F
  <1>6. \A k \in 0..last : F[k] = IF k = 0 THEN Start ELSE Turn(F[k - 1], k)
    <2>1. \A k \in 0..last : [j \in 0..last |-> IF j = 0 THEN Start ELSE Turn(F[j - 1], j)][k]
                             = IF k = 0 THEN Start ELSE Turn(F[k - 1], k)
      OBVIOUS
    <2> QED BY <1>5, <2>1, Zenon
  <1>7. F[0] = Start /\ \A k \in 1..last : F[k] = Turn(F[k - 1], k)
    <2>1. 0 \in 0..last /\ \A k \in 1..last : k \in 0..last /\ k /= 0
      BY <1>0
    <2> QED BY <1>6, <2>1, Zenon
  <1>8. SweepNodes(n0) = F[last]
    BY <1>1 DEF F
  <1>9. IsSweepingNodes(F, n0)
    BY <1>7, <1>8, Zenon DEF IsSweepingNodes, Turn, Start, last
  <1> QED BY <1>9

\* The results of the turns of the loop.
IsSweepingLatches(f, n0) ==
    /\ f[0] = n0
    /\ \A k \in 1..Len(n0.latch) : f[k]
         = network_sweep_latch(f[k - 1], n0.latch[k], snetwork_tfi_po(n0))
    /\ SweepLatches(n0, TRUE) = f[Len(n0.latch)]

\* There is such a list of results.
LEMMA SweepLatchesLoop ==
    ASSUME NEW n0, Len(n0.latch) \in Nat
    PROVE  \E f : IsSweepingLatches(f, n0)
  <1> DEFINE last == Len(n0.latch)
             Turn(r, k) == network_sweep_latch(r, n0.latch[k], snetwork_tfi_po(n0))
             Start == n0
             G(f, m) == f = [k \in 0..m |-> IF k = 0 THEN Start ELSE Turn(f[k - 1], k)]
             S == {m \in 0..last : \E f : G(f, m)}
  <1>0. last \in Nat
    OBVIOUS
  <1>1. SweepLatches(n0, TRUE) = (CHOOSE f : G(f, last))[last]
    BY DEF SweepLatches, ForEach
  <1> HIDE DEF Turn, Start, last
  <1>2. \E f : G(f, 0)
    <2>1. G([k \in 0..0 |-> Start], 0)
      OBVIOUS
    <2> HIDE DEF G
    <2> QED BY <2>1
  <1>3. ASSUME NEW m \in 1..last, NEW f, G(f, m - 1)  PROVE \E g : G(g, m)
    <2> DEFINE g == [k \in 0..m |-> IF k = m THEN Turn(f[m - 1], m) ELSE f[k]]
    <2>1. ASSUME NEW k \in 0..m
          PROVE  g[k] = IF k = 0 THEN Start ELSE Turn(g[k - 1], k)
      <3>1. CASE k = m
        <4>1. g[m] = Turn(f[m - 1], m) /\ m \in 0..m /\ m /= 0 /\ g[m - 1] = f[m - 1]
          BY <1>0
        <4> HIDE DEF g
        <4> QED BY <3>1, <4>1
      <3>2. CASE k /= m
        <4>1. k \in 0..(m - 1)
          BY <1>0, <3>2
        <4>2. f[k] = IF k = 0 THEN Start ELSE Turn(f[k - 1], k)
          BY <1>3, <4>1
        <4>3. g[k] = f[k] /\ (k /= 0 => g[k - 1] = f[k - 1])
          BY <1>0, <3>2, <4>1
        <4> HIDE DEF g
        <4> QED BY <4>2, <4>3
      <3> QED BY <3>1, <3>2
    <2>2. g = [k \in 0..m |-> g[k]]
      OBVIOUS
    <2>3. G(g, m)
      BY <2>1, <2>2
    <2> HIDE DEF G, g
    <2> QED BY <2>3
  <1>4. \E f : G(f, last)
    <2> HIDE DEF G
    <2>1. 0 \in S
      BY <1>0, <1>2
    <2>2. \A m \in 1..last : m - 1 \in S => m \in S
      BY <1>0, <1>3
    <2> HIDE DEF S
    <2>3. \A m \in 0..last : m \in S
      BY <1>0, <2>1, <2>2, UpTo
    <2>4. last \in S
      BY <1>0, <2>3
    <2> QED BY <2>4 DEF S
  <1> DEFINE F == CHOOSE f : G(f, last)
  <1>5. G(F, last)
    <2> HIDE DEF G
    <2> QED BY <1>4
  <1> HIDE DEF F
  <1>6. \A k \in 0..last : F[k] = IF k = 0 THEN Start ELSE Turn(F[k - 1], k)
    <2>1. \A k \in 0..last : [j \in 0..last |-> IF j = 0 THEN Start ELSE Turn(F[j - 1], j)][k]
                             = IF k = 0 THEN Start ELSE Turn(F[k - 1], k)
      OBVIOUS
    <2> QED BY <1>5, <2>1, Zenon
  <1>7. F[0] = Start /\ \A k \in 1..last : F[k] = Turn(F[k - 1], k)
    <2>1. 0 \in 0..last /\ \A k \in 1..last : k \in 0..last /\ k /= 0
      BY <1>0
    <2> QED BY <1>6, <2>1, Zenon
  <1>8. SweepLatches(n0, TRUE) = F[last]
    BY <1>1 DEF F
  <1>9. IsSweepingLatches(F, n0)
    BY <1>7, <1>8, Zenon DEF IsSweepingLatches, Turn, Start, last
  <1> QED BY <1>9

\* The turns of a loop that runs while something changes.
IsSweeping(f, n0, flag) ==
    /\ f[0].net = n0
    /\ \A k \in 1..MostTurns(n0) : f[k].net = SweepLatches(SweepNodes(f[k - 1].net), flag)
    /\ SweepLoop(n0, flag) = f[MostTurns(n0)].net

\* There is such a list of results.
LEMMA SweepLoopTurns ==
    ASSUME NEW n0, NEW flag, MostTurns(n0) \in Nat
    PROVE  \E f : IsSweeping(f, n0, flag)
  <1> DEFINE last == MostTurns(n0)
             Turn(r, k) == IF r.changed
                   THEN [net |-> SweepLatches(SweepNodes(r.net), flag),
                     changed |-> SweepLatches(SweepNodes(r.net), flag) /= r.net] ELSE r
             Start == [net |-> n0, changed |-> TRUE]
             G(f, m) == f = [k \in 0..m |-> IF k = 0 THEN Start ELSE Turn(f[k - 1], k)]
             S == {m \in 0..last : \E f : G(f, m)}
  <1>0. last \in Nat
    OBVIOUS
  <1>1. SweepLoop(n0, flag) = (CHOOSE f : G(f, last))[last].net
    BY DEF SweepLoop, Repeat
  <1> HIDE DEF Turn, Start, last
  <1>2. \E f : G(f, 0)
    <2>1. G([k \in 0..0 |-> Start], 0)
      OBVIOUS
    <2> HIDE DEF G
    <2> QED BY <2>1
  <1>3. ASSUME NEW m \in 1..last, NEW f, G(f, m - 1)  PROVE \E g : G(g, m)
    <2> DEFINE g == [k \in 0..m |-> IF k = m THEN Turn(f[m - 1], m) ELSE f[k]]
    <2>1. ASSUME NEW k \in 0..m
          PROVE  g[k] = IF k = 0 THEN Start ELSE Turn(g[k - 1], k)
      <3>1. CASE k = m
        <4>1. g[m] = Turn(f[m - 1], m) /\ m \in 0..m /\ m /= 0 /\ g[m - 1] = f[m - 1]
          BY <1>0
        <4> HIDE DEF g
        <4> QED BY <3>1, <4>1
      <3>2. CASE k /= m
        <4>1. k \in 0..(m - 1)
          BY <1>0, <3>2
        <4>2. f[k] = IF k = 0 THEN Start ELSE Turn(f[k - 1], k)
          BY <1>3, <4>1
        <4>3. g[k] = f[k] /\ (k /= 0 => g[k - 1] = f[k - 1])
          BY <1>0, <3>2, <4>1
        <4> HIDE DEF g
        <4> QED BY <4>2, <4>3
      <3> QED BY <3>1, <3>2
    <2>2. g = [k \in 0..m |-> g[k]]
      OBVIOUS
    <2>3. G(g, m)
      BY <2>1, <2>2
    <2> HIDE DEF G, g
    <2> QED BY <2>3
  <1>4. \E f : G(f, last)
    <2> HIDE DEF G
    <2>1. 0 \in S
      BY <1>0, <1>2
    <2>2. \A m \in 1..last : m - 1 \in S => m \in S
      BY <1>0, <1>3
    <2> HIDE DEF S
    <2>3. \A m \in 0..last : m \in S
      BY <1>0, <2>1, <2>2, UpTo
    <2>4. last \in S
      BY <1>0, <2>3
    <2> QED BY <2>4 DEF S
  <1> DEFINE F == CHOOSE f : G(f, last)
  <1>5. G(F, last)
    <2> HIDE DEF G
    <2> QED BY <1>4
  <1> HIDE DEF F
  <1>6. \A k \in 0..last : F[k] = IF k = 0 THEN Start ELSE Turn(F[k - 1], k)
    <2>1. \A k \in 0..last : [j \in 0..last |-> IF j = 0 THEN Start ELSE Turn(F[j - 1], j)][k]
                             = IF k = 0 THEN Start ELSE Turn(F[k - 1], k)
      OBVIOUS
    <2> QED BY <1>5, <2>1, Zenon
  <1>7. F[0] = Start /\ \A k \in 1..last : F[k] = Turn(F[k - 1], k)
    <2>1. 0 \in 0..last /\ \A k \in 1..last : k \in 0..last /\ k /= 0
      BY <1>0
    <2> QED BY <1>6, <2>1, Zenon
  <1>8. SweepLoop(n0, flag) = F[last].net
    BY <1>1 DEF F
  <1>9. F[0].net = n0 /\ \A k \in 1..last : F[k].net = SweepLatches(SweepNodes(F[k - 1].net), flag)
    <2> DEFINE p == [k \in 1..last |-> SweepLatches(SweepNodes(F[k - 1].net), flag)]
    <2>1. F[0].net = n0 /\ F[0].changed
      BY <1>7 DEF Start
    <2>2. \A k \in 1..last : p[k] = SweepLatches(SweepNodes(F[k - 1].net), flag)
      OBVIOUS
    <2>3. \A k \in 1..last :
            F[k] = IF F[k - 1].changed THEN [net |-> p[k], changed |-> p[k] /= F[k - 1].net]
                   ELSE F[k - 1]
      <3>1. ASSUME NEW k \in 1..last, NEW q, q = p[k]
            PROVE  F[k] = IF F[k - 1].changed THEN [net |-> q, changed |-> q /= F[k - 1].net]
                          ELSE F[k - 1]
        <4>1. F[k] = Turn(F[k - 1], k) /\ q = SweepLatches(SweepNodes(F[k - 1].net), flag)
          BY <1>7, <2>2, <3>1
        <4> QED BY <4>1, Zenon DEF Turn
      <3> QED BY <3>1
    <2>4. \A j, k \in 1..last : F[j - 1].net = F[k - 1].net => p[j] = p[k]
      BY <2>2
    <2> HIDE DEF p
    <2>5. \A k \in 1..last : F[k].net = p[k]
      BY <1>0, <2>1, <2>3, <2>4, RepeatTurns
    <2> QED BY <2>1, <2>2, <2>5
  <1>10. IsSweeping(F, n0, flag)
    BY <1>8, <1>9, Zenon DEF IsSweeping, last
  <1> QED BY <1>10

\* Sweeping every node once, fanins first, leaves nothing to sweep; and it
\* changes nothing if there was nothing to sweep.
LEMMA SweepNodesSweeps ==
    ASSUME NEW n0, IsNetwork(n0), NEW res, res = SweepNodes(n0)
    PROVE  /\ IsNetwork(res) /\ SameKinds(res, n0) /\ AllSwept(res)
           /\ AllSwept(n0) => res = n0
  <1> DEFINE list == network_dfs(n0)
             N == Len(list)
  <1>1. IsOrdered(n0.node, list) /\ Range(list) = DOMAIN n0.node
    BY DfsOrders
  <1>2. list \in Seq(DOMAIN n0.node)
    BY <1>1 DEF IsOrdered
  <1>3. N \in Nat /\ Range(list) = {list[j] : j \in 1..N} /\ \A k \in 1..N : list[k] \in DOMAIN n0.node
    BY <1>2, RangeFacts
  <1>4. PICK f : IsSweepingNodes(f, n0)
    BY <1>3, SweepNodesLoop
  <1>5. f[0] = n0 /\ res = f[N] /\ \A k \in 1..N : f[k] = network_sweep_node(f[k - 1], list[k])
    BY <1>4 DEF IsSweepingNodes
  <1> HIDE DEF list, N
  <1>6. IsSweptTo(res, n0, list, N)
    <2> DEFINE Q == {k \in 0..N : IsSweptTo(f[k], n0, list, k)}
    <2>1. 0 \in Q
      <3>1. FirstNodes(list, 0) = {}
        BY DEF FirstNodes
      <3>2. IsSweptTo(n0, n0, list, 0)
        BY <3>1, SameKindsFacts DEF IsSweptTo, IsSweptIn
      <3> QED BY <1>3, <1>5, <3>2
    <2>2. ASSUME NEW k \in 1..N, k - 1 \in Q  PROVE k \in Q
      <3>1. IsSweptTo(f[k - 1], n0, list, k - 1) /\ f[k] = network_sweep_node(f[k - 1], list[k])
        BY <1>5, <2>2
      <3>2. IsSweptTo(f[k], n0, list, k)
        BY <1>1, <3>1, SweptOneMore DEF N
      <3> QED BY <1>3, <3>2
    <2> HIDE DEF Q
    <2>3. \A k \in 0..N : k \in Q
      BY <1>3, <2>1, <2>2, UpTo
    <2>4. N \in Q
      BY <1>3, <2>3
    <2> QED BY <1>5, <2>4 DEF Q
  <1>7. FirstNodes(list, N) = DOMAIN n0.node
    BY <1>1, <1>3 DEF FirstNodes
  <1>8. IsNetwork(res) /\ SameKinds(res, n0) /\ AllSwept(res)
    BY <1>6, <1>7 DEF IsSweptTo, IsSweptIn, AllSwept, SameKinds
  <1>9. ASSUME AllSwept(n0)  PROVE res = n0
    <2> DEFINE Q == {k \in 0..N : f[k] = n0}
    <2>1. 0 \in Q
      BY <1>3, <1>5
    <2>2. ASSUME NEW k \in 1..N, k - 1 \in Q  PROVE k \in Q
      <3>1. f[k] = network_sweep_node(n0, list[k])
        BY <1>5, <2>2
      <3>2. Sweepable(n0, list[k]) = {}
        BY <1>3, <1>9 DEF AllSwept
      <3>3. f[k] = n0
        BY <3>1, <3>2, SweptNode
      <3> QED BY <1>3, <3>3
    <2> HIDE DEF Q
    <2>3. \A k \in 0..N : k \in Q
      BY <1>3, <2>1, <2>2, UpTo
    <2>4. N \in Q
      BY <1>3, <2>3
    <2> QED BY <1>5, <2>4 DEF Q
  <1> QED BY <1>8, <1>9

\* The latches of a list from some place on are there still.
AreThere(latch, k, res) == \A j \in 1..Len(latch) : k < j => latch[j] \in Range(res.latch)

\* A turn that takes its own latch away, and no other, leaves those it has not
\* come to.
LEMMA AreThereStill ==
    ASSUME NEW latch, Len(latch) \in Nat, \A i, j \in 1..Len(latch) : latch[i] = latch[j] => i = j,
           NEW k \in 1..Len(latch), NEW l, l = latch[k], NEW last, AreThere(latch, k - 1, last),
           NEW next, Range(last.latch) \ {l} \subseteq Range(next.latch)
    PROVE  AreThere(latch, k, next)
  <1>1. SUFFICES ASSUME NEW j \in 1..Len(latch), k < j PROVE latch[j] \in Range(next.latch)
    BY DEF AreThere
  <1>2. k - 1 < j /\ j /= k
    BY <1>1
  <1>3. latch[j] \in Range(last.latch)
    BY <1>2 DEF AreThere
  <1>4. latch[j] /= l
    BY <1>2
  <1> QED BY <1>3, <1>4

\* Every latch can be seen at an output.
LatchesReached(n0) == \A l \in Range(n0.latch) : l.output \in snetwork_tfi_po(n0)

\* No latch has the one value always.
LatchesVary(n0) == \A l \in Range(n0.latch) : ~IsConstantLatch(n0, l)

\* The first k latches vary and were reached and nothing has changed, or there
\* are less latches.
AreSwept(n0, reached, k, res) ==
    \/ res = n0 /\ \A j \in 1..k : n0.latch[j].output \in reached
                                  /\ ~IsConstantLatch(n0, n0.latch[j])
    \/ Range(res.latch) \subseteq Range(n0.latch) /\ Range(res.latch) /= Range(n0.latch)

\* One more latch.
LEMMA AreSweptStill ==
    ASSUME NEW n0, Len(n0.latch) \in Nat, NEW reached, NEW k \in 1..Len(n0.latch),
           NEW last, AreSwept(n0, reached, k - 1, last),
           NEW l \in Range(last.latch), l = n0.latch[k],
           NEW next, IF IsConstantLatch(last, l) \/ l.output \notin reached
                     THEN Range(next.latch) = Range(last.latch) \ {l} ELSE next = last
    PROVE  AreSwept(n0, reached, k, next)
  <1>1. CASE IsConstantLatch(last, l) \/ l.output \notin reached
    <2>1. Range(next.latch) \subseteq Range(last.latch) /\ Range(next.latch) /= Range(last.latch)
      BY <1>1
    <2>2. Range(last.latch) \subseteq Range(n0.latch)
      BY DEF AreSwept
    <2> QED BY <2>1, <2>2 DEF AreSwept
  <1>2. CASE ~IsConstantLatch(last, l) /\ l.output \in reached
    <2>1. next = last
      BY <1>2
    <2>2. ASSUME NEW j \in 1..k  PROVE j = k \/ j \in 1..(k - 1)
      OBVIOUS
    <2> QED BY <1>2, <2>1, <2>2 DEF AreSwept
  <1> QED BY <1>1, <1>2

\* Sweeping every latch keeps a network sound; it takes a latch away, unless
\* every latch varies and is reached, and it changes nothing.
LEMMA SweepLatchesSound ==
    ASSUME NEW n0, IsNetwork(n0), NIL \notin Nat, NEW flag \in BOOLEAN,
           NEW res, res = SweepLatches(n0, flag)
    PROVE  /\ IsNetwork(res)
           /\ flag => AreSwept(n0, snetwork_tfi_po(n0), Len(n0.latch), res)
           /\ LatchesReached(n0) /\ LatchesVary(n0) => res = n0
  <1>1. CASE ~flag
    <2>1. res = n0
      BY <1>1 DEF SweepLatches
    <2> QED BY <1>1, <2>1
  <1>2. CASE flag
    <2> DEFINE list == n0.latch  N == Len(list)
    <2>1. /\ N \in Nat /\ \A i \in 1..N : list[i] \in Range(list)
          /\ \A i, j \in 1..N : list[i] = list[j] => i = j
      BY LatchListFacts
    <2>2. PICK f : IsSweepingLatches(f, n0)
      BY <2>1, SweepLatchesLoop
    <2>3. PICK reached : reached = snetwork_tfi_po(n0)
      OBVIOUS
    <2>4. res = SweepLatches(n0, TRUE)
      BY <1>2
    <2>5. /\ f[0] = n0 /\ res = f[N]
          /\ \A k \in 1..N : f[k] = network_sweep_latch(f[k - 1], list[k], reached)
      BY <2>2, <2>3, <2>4 DEF IsSweepingLatches
    <2> DEFINE Q == {k \in 0..N : IsNetwork(f[k]) /\ AreThere(list, k, f[k])
                                /\ AreSwept(n0, reached, k, f[k])
                                /\ (LatchesReached(n0) /\ LatchesVary(n0) => f[k] = n0)}
    <2>6. 0 \in Q
      <3>1. AreThere(list, 0, f[0])
        BY <2>1, <2>5 DEF AreThere
      <3>2. AreSwept(n0, reached, 0, f[0])
        BY <2>5 DEF AreSwept
      <3> QED BY <2>1, <2>5, <3>1, <3>2
    <2>7. ASSUME NEW k \in 1..N, k - 1 \in Q  PROVE k \in Q
      <3>1. PICK last, l : last = f[k - 1] /\ l = list[k]
        OBVIOUS
      <3>2. /\ IsNetwork(last) /\ AreThere(list, k - 1, last) /\ AreSwept(n0, reached, k - 1, last)
            /\ LatchesReached(n0) /\ LatchesVary(n0) => last = n0
        BY <2>7, <3>1
      <3>3. l \in Range(last.latch)
        <4>1. k - 1 < k /\ k \in 1..Len(list)
          BY <2>1
        <4> QED BY <3>1, <3>2, <4>1 DEF AreThere
      <3>4. f[k] = network_sweep_latch(last, l, reached)
        BY <2>5, <3>1
      <3>5. PICK next : next = f[k]
        OBVIOUS
      <3>6. /\ IsNetwork(next) /\ Range(last.latch) \ {l} \subseteq Range(next.latch)
            /\ IF IsConstantLatch(last, l) \/ l.output \notin reached
               THEN Range(next.latch) = Range(last.latch) \ {l} ELSE next = last
        BY <3>2, <3>3, <3>4, <3>5, SweepLatchSound, ZenonT(60)
      <3>7. AreThere(list, k, next)
        BY <2>1, <3>1, <3>2, <3>6, AreThereStill
      <3>8. k \in 0..N
        BY <2>1
      <3>9. AreSwept(n0, reached, k, next)
        BY <2>1, <3>1, <3>2, <3>3, <3>6, AreSweptStill
      <3>10. ASSUME LatchesReached(n0), LatchesVary(n0)  PROVE next = n0
        <4>1. last = n0
          BY <3>2, <3>10
        <4>2. l.output \in reached /\ ~IsConstantLatch(last, l)
          BY <2>3, <3>3, <3>10, <4>1 DEF LatchesReached, LatchesVary
        <4> QED BY <3>6, <4>1, <4>2
      <3> QED BY <3>5, <3>6, <3>7, <3>8, <3>9, <3>10
    <2> HIDE DEF Q, N
    <2>8. \A k \in 0..N : k \in Q
      BY <2>1, <2>6, <2>7, UpTo
    <2>9. N \in 0..N
      BY <2>1
    <2>10. N \in Q
      BY <2>8, <2>9
    <2> QED BY <2>3, <2>5, <2>10 DEF Q, N
  <1> QED BY <1>1, <1>2

\* So does the loop of the two.
LEMMA SweepLoopSound ==
    ASSUME NEW n0, IsNetwork(n0), NIL \notin Nat, NEW flag \in BOOLEAN,
           NEW res, res = SweepLoop(n0, flag)
    PROVE  IsNetwork(res)
  <1> DEFINE N == MostTurns(n0)
  <1>1. N \in Nat
    BY TurnsAllowed
  <1>2. PICK f : IsSweeping(f, n0, flag)
    BY <1>1, SweepLoopTurns
  <1>3. /\ f[0].net = n0 /\ res = f[N].net
        /\ \A k \in 1..N : f[k].net = f[k - 1].net
           \/ f[k].net = SweepLatches(SweepNodes(f[k - 1].net), flag)
    BY <1>2 DEF IsSweeping
  <1> DEFINE Q == {k \in 0..N : IsNetwork(f[k].net)}
  <1> HIDE DEF N
  <1>4. 0 \in Q
    BY <1>1, <1>3
  <1>5. ASSUME NEW k \in 1..N, k - 1 \in Q  PROVE k \in Q
    <2>1. PICK last : last = f[k - 1].net
      OBVIOUS
    <2>2. IsNetwork(last)
      BY <1>5, <2>1
    <2>3. PICK next : next = SweepLatches(SweepNodes(last), flag)
      OBVIOUS
    <2>4. IsNetwork(next)
      BY <2>2, <2>3, SweepNodesSweeps, SweepLatchesSound
    <2>5. f[k].net = last \/ f[k].net = next
      BY <1>3, <2>1, <2>3
    <2>6. k \in 0..N
      BY <1>1
    <2> QED BY <2>2, <2>4, <2>5, <2>6
  <1> HIDE DEF Q
  <1>6. \A k \in 0..N : k \in Q
    BY <1>1, <1>4, <1>5, UpTo
  <1>7. N \in 0..N
    BY <1>1
  <1>8. N \in Q
    BY <1>6, <1>7
  <1> QED BY <1>3, <1>8 DEF Q

\* Another turn of the loop would change nothing.
IsClean(n0) == AllSwept(n0) /\ LatchesReached(n0) /\ LatchesVary(n0)

\* No two latches that one node feeds are equal.
LatchesDiffer(n0) ==
    \A l, m \in Range(n0.latch) :
        n0.node[l.input].fanin[1] = n0.node[m.input].fanin[1] /\ latch_equal(l, m) => l = m

\* What there was to sweep and to merge is done.
IsMerged(n0) == IsClean(n0) /\ LatchesDiffer(n0)

\* The inputs of the latches.
Inputs(n0) == {l.input : l \in Range(n0.latch)}

\* Less latches have less inputs.
LEMMA LessInputs ==
    ASSUME NEW n0, IsNetwork(n0), NEW res, Range(res.latch) \subseteq Range(n0.latch),
           Range(res.latch) /= Range(n0.latch)
    PROVE  Inputs(res) \subseteq Inputs(n0) /\ Inputs(res) /= Inputs(n0)
  <1>1. PICK l \in Range(n0.latch) : l \notin Range(res.latch)
    OBVIOUS
  <1>2. LatchesAreListed(n0.node, n0.latch, n0.latch_table)
    BY NetworkHas
  <1>3. \A k, l2 \in Range(n0.latch) : k.input = l2.input => k = l2
    BY <1>2, LatchFacts
  <1>4. l.input \in Inputs(n0) /\ l.input \notin Inputs(res)
    BY <1>1, <1>3 DEF Inputs
  <1> QED BY <1>4 DEF Inputs

\* They are no more than the nodes.
LEMMA FewInputs ==
    ASSUME NEW n0, IsNetwork(n0)
    PROVE  IsFiniteSet(Inputs(n0)) /\ Cardinality(Inputs(n0)) <= Len(n0.nodes)
  <1>1. NodesAreListed(n0.node, n0.nodes) /\ LatchesAreListed(n0.node, n0.latch, n0.latch_table)
    BY NetworkHas
  <1>2. Inputs(n0) \subseteq DOMAIN n0.node
    BY <1>1, LatchFacts DEF Inputs, IsLatch
  <1>3. IsFiniteSet(DOMAIN n0.node) /\ Cardinality(DOMAIN n0.node) = Len(n0.nodes)
    BY <1>1, ListedFacts
  <1> QED BY <1>2, <1>3, FS_Subset

\* A turn of the loop takes a latch away, or is the last one that does anything.
LEMMA SweepTurnTakes ==
    ASSUME NEW n0, IsNetwork(n0), NIL \notin Nat,
           NEW res, res = SweepLatches(SweepNodes(n0), TRUE)
    PROVE  /\ IsNetwork(res)
           /\ IsClean(res) \/ (Inputs(res) \subseteq Inputs(n0) /\ Inputs(res) /= Inputs(n0))
           /\ IsClean(n0) => res = n0
  <1>1. PICK swept : swept = SweepNodes(n0)
    OBVIOUS
  <1>2. IsNetwork(swept) /\ SameKinds(swept, n0) /\ AllSwept(swept) /\ (AllSwept(n0) => swept = n0)
    BY <1>1, SweepNodesSweeps
  <1>3. res = SweepLatches(swept, TRUE)
    BY <1>1
  <1>4. IsNetwork(res) /\ AreSwept(swept, snetwork_tfi_po(swept), Len(swept.latch), res)
    BY <1>2, <1>3, SweepLatchesSound
  <1>5. swept.latch = n0.latch
    BY <1>2 DEF SameKinds, SameLists
  <1>6. Range(swept.latch) = {swept.latch[j] : j \in 1..Len(swept.latch)}
    BY <1>2, NetworkHas, LatchFacts
  <1>9. IsClean(n0) => res = n0
    BY <1>2, <1>3, SweepLatchesSound DEF IsClean
  <1>7. CASE /\ res = swept
             /\ \A j \in 1..Len(swept.latch) : /\ swept.latch[j].output \in snetwork_tfi_po(swept)
                                               /\ ~IsConstantLatch(swept, swept.latch[j])
    <2>1. LatchesReached(swept) /\ LatchesVary(swept)
      BY <1>6, <1>7 DEF LatchesReached, LatchesVary
    <2>2. IsClean(res)
      BY <1>2, <1>7, <2>1 DEF IsClean
    <2> QED BY <1>4, <1>9, <2>2
  <1>8. CASE Range(res.latch) \subseteq Range(swept.latch) /\ Range(res.latch) /= Range(swept.latch)
    <2>1. Inputs(res) \subseteq Inputs(n0) /\ Inputs(res) /= Inputs(n0)
      BY <1>5, <1>8, LessInputs
    <2> QED BY <1>4, <1>9, <2>1
  <1> QED BY <1>4, <1>7, <1>8 DEF AreSwept

\* The loop leaves nothing to sweep: it turns often enough.  Where there is
\* nothing it does nothing.
LEMMA SweepLoopSweeps ==
    ASSUME NEW n0, IsNetwork(n0), NIL \notin Nat, NEW res, res = SweepLoop(n0, TRUE)
    PROVE  IsNetwork(res) /\ IsClean(res) /\ (IsClean(n0) => res = n0)
  <1> DEFINE N == MostTurns(n0)
  <1>1. N \in Nat /\ N = Len(n0.nodes) + 2 /\ Len(n0.nodes) \in Nat
    BY TurnsAllowed DEF MostTurns
  <1>2. PICK f : IsSweeping(f, n0, TRUE)
    BY <1>1, SweepLoopTurns
  <1>3. /\ f[0].net = n0 /\ res = f[N].net
        /\ \A k \in 1..N : f[k].net = SweepLatches(SweepNodes(f[k - 1].net), TRUE)
    BY <1>2 DEF IsSweeping
  <1> DEFINE Q == {k \in 0..N : IsNetwork(f[k].net)}
             done == {k \in 1..N : IsClean(f[k].net)}
             P == [k \in 0..N |-> Inputs(f[k].net)]
  <1> HIDE DEF N
  <1>4. 0 \in Q /\ \A k \in 1..N : k - 1 \in Q => k \in Q
    <2>1. 0 \in Q
      BY <1>1, <1>3
    <2>2. ASSUME NEW k \in 1..N, k - 1 \in Q  PROVE k \in Q
      <3>1. PICK last, next : last = f[k - 1].net /\ next = f[k].net
        OBVIOUS
      <3>2. IsNetwork(last) /\ next = SweepLatches(SweepNodes(last), TRUE)
        BY <1>3, <2>2, <3>1
      <3>3. IsNetwork(next)
        BY <3>2, SweepTurnTakes
      <3> QED BY <1>1, <3>1, <3>3
    <2> QED BY <2>1, <2>2
  <1>5. \A k \in 0..N : k \in Q
    <2> HIDE DEF Q
    <2> QED BY <1>1, <1>4, UpTo
  <1>6. \A k \in 0..N : IsNetwork(f[k].net)
    BY <1>5
  <1> HIDE DEF Q
  <1>7. ASSUME NEW k \in 1..N
        PROVE  /\ k \in done \/ (P[k] \subseteq P[k - 1] /\ P[k] /= P[k - 1])
               /\ k - 1 \in done => k \in done
    <2>1. PICK last, next : last = f[k - 1].net /\ next = f[k].net
      OBVIOUS
    <2>2. k - 1 \in 0..N /\ k \in 0..N
      BY <1>1
    <2>3. IsNetwork(last) /\ next = SweepLatches(SweepNodes(last), TRUE)
      BY <1>3, <1>6, <2>1, <2>2
    <2>4. /\ IsClean(next) \/ (Inputs(next) \subseteq Inputs(last) /\ Inputs(next) /= Inputs(last))
          /\ IsClean(last) => next = last
      BY <2>3, SweepTurnTakes
    <2>5. P[k - 1] = Inputs(last) /\ P[k] = Inputs(next)
      BY <2>1, <2>2
    <2> QED BY <2>1, <2>4, <2>5
  <1>8. IsFiniteSet(P[0]) /\ Cardinality(P[0]) < N
    <2>1. IsFiniteSet(Inputs(n0)) /\ Cardinality(Inputs(n0)) <= Len(n0.nodes)
      BY FewInputs
    <2>2. P[0] = Inputs(n0)
      BY <1>1, <1>3
    <2>3. Cardinality(P[0]) \in Nat
      BY <2>1, <2>2, FS_CardinalityType
    <2> HIDE DEF P
    <2> QED BY <1>1, <2>1, <2>2, <2>3
  <1>9. N \in done
    <2> HIDE DEF P, done
    <2> QED BY <1>1, <1>7, <1>8, Dwindles
  <1>10. N \in 0..N
    BY <1>1
  <1>11. ASSUME IsClean(n0)  PROVE res = n0
    <2> DEFINE R == {k \in 0..N : f[k].net = n0}
    <2>1. 0 \in R
      BY <1>1, <1>3
    <2>2. ASSUME NEW k \in 1..N, k - 1 \in R  PROVE k \in R
      <3>1. f[k].net = SweepLatches(SweepNodes(n0), TRUE)
        BY <1>3, <2>2
      <3>2. f[k].net = n0
        BY <1>11, <3>1, SweepTurnTakes
      <3> QED BY <1>1, <3>2
    <2> HIDE DEF R
    <2>3. \A k \in 0..N : k \in R
      BY <1>1, <2>1, <2>2, UpTo
    <2>4. N \in R
      BY <1>10, <2>3
    <2> QED BY <1>3, <2>4 DEF R
  <1> QED BY <1>3, <1>6, <1>9, <1>10, <1>11

-----------------------------------------------------------------------------
\* What the outputs depend on.

\* The real outputs, and what a node is seen to depend on: its fanins, and
\* across a latch the latch's input.
RealPos(n0) == {n \in DOMAIN n0.node : n0.node[n].type = "PRIMARY_OUTPUT" /\ n \notin DOMAIN n0.latch_table}

\* As snetwork_tfi_po finds the latch.
Sources(n0, n) == Range(n0.node[n].fanin) \union {l.input : l \in {k \in Range(n0.latch) : k.output = n}}

\* As it is written there.
SourcesFound(n0, n) ==
    Range(n0.node[n].fanin) \union
    (IF n0.node[n].type = "PRIMARY_INPUT" THEN {network_latch_end(n0, n)} \ {NIL} ELSE {})

\* A set that has with a node all that it depends on.
IsClosed(n0, S) == RealPos(n0) \subseteq S /\ \A n \in S : Sources(n0, n) \subseteq S

\* The results of the turns of the loop.
IsVisiting(f, n0) ==
    /\ f[0] = {po \in Range(n0.po) : IsRealPo(n0, po)}
    /\ \A k \in 1..Len(n0.nodes) : f[k] = f[k - 1] \union UNION {SourcesFound(n0, n) : n \in f[k - 1]}
    /\ snetwork_tfi_po(n0) = f[Len(n0.nodes)]

\* There is such a list of results.
LEMMA VisitLoop ==
    ASSUME NEW n0, Len(n0.nodes) \in Nat
    PROVE  \E f : IsVisiting(f, n0)
  <1> DEFINE last == Len(n0.nodes)
             Turn(r, k) == r \union UNION {SourcesFound(n0, n) : n \in r}
             Start == {po \in Range(n0.po) : IsRealPo(n0, po)}
             G(f, m) == f = [k \in 0..m |-> IF k = 0 THEN Start ELSE Turn(f[k - 1], k)]
             S == {m \in 0..last : \E f : G(f, m)}
  <1>0. last \in Nat
    OBVIOUS
  <1>1. snetwork_tfi_po(n0) = (CHOOSE f : G(f, last))[last]
    BY DEF snetwork_tfi_po, SourcesFound
  <1> HIDE DEF Turn, Start, last
  <1>2. \E f : G(f, 0)
    <2>1. G([k \in 0..0 |-> Start], 0)
      OBVIOUS
    <2> HIDE DEF G
    <2> QED BY <2>1
  <1>3. ASSUME NEW m \in 1..last, NEW f, G(f, m - 1)  PROVE \E g : G(g, m)
    <2> DEFINE g == [k \in 0..m |-> IF k = m THEN Turn(f[m - 1], m) ELSE f[k]]
    <2>1. ASSUME NEW k \in 0..m
          PROVE  g[k] = IF k = 0 THEN Start ELSE Turn(g[k - 1], k)
      <3>1. CASE k = m
        <4>1. g[m] = Turn(f[m - 1], m) /\ m \in 0..m /\ m /= 0 /\ g[m - 1] = f[m - 1]
          BY <1>0
        <4> HIDE DEF g
        <4> QED BY <3>1, <4>1
      <3>2. CASE k /= m
        <4>1. k \in 0..(m - 1)
          BY <1>0, <3>2
        <4>2. f[k] = IF k = 0 THEN Start ELSE Turn(f[k - 1], k)
          BY <1>3, <4>1
        <4>3. g[k] = f[k] /\ (k /= 0 => g[k - 1] = f[k - 1])
          BY <1>0, <3>2, <4>1
        <4> HIDE DEF g
        <4> QED BY <4>2, <4>3
      <3> QED BY <3>1, <3>2
    <2>2. g = [k \in 0..m |-> g[k]]
      OBVIOUS
    <2>3. G(g, m)
      BY <2>1, <2>2
    <2> HIDE DEF G, g
    <2> QED BY <2>3
  <1>4. \E f : G(f, last)
    <2> HIDE DEF G
    <2>1. 0 \in S
      BY <1>0, <1>2
    <2>2. \A m \in 1..last : m - 1 \in S => m \in S
      BY <1>0, <1>3
    <2> HIDE DEF S
    <2>3. \A m \in 0..last : m \in S
      BY <1>0, <2>1, <2>2, UpTo
    <2>4. last \in S
      BY <1>0, <2>3
    <2> QED BY <2>4 DEF S
  <1> DEFINE F == CHOOSE f : G(f, last)
  <1>5. G(F, last)
    <2> HIDE DEF G
    <2> QED BY <1>4
  <1> HIDE DEF F
  <1>6. \A k \in 0..last : F[k] = IF k = 0 THEN Start ELSE Turn(F[k - 1], k)
    <2>1. \A k \in 0..last : [j \in 0..last |-> IF j = 0 THEN Start ELSE Turn(F[j - 1], j)][k]
                             = IF k = 0 THEN Start ELSE Turn(F[k - 1], k)
      OBVIOUS
    <2> QED BY <1>5, <2>1, Zenon
  <1>7. F[0] = Start /\ \A k \in 1..last : F[k] = Turn(F[k - 1], k)
    <2>1. 0 \in 0..last /\ \A k \in 1..last : k \in 0..last /\ k /= 0
      BY <1>0
    <2> QED BY <1>6, <2>1, Zenon
  <1>8. snetwork_tfi_po(n0) = F[last]
    BY <1>1 DEF F
  <1> QED BY <1>7, <1>8, Zenon DEF IsVisiting, Turn, Start, last

\* The input of a latch is found from its output.
LEMMA SourcesAre ==
    ASSUME NEW n0, IsNetwork(n0), NIL \notin Nat, NEW n \in DOMAIN n0.node
    PROVE  SourcesFound(n0, n) = Sources(n0, n) /\ Sources(n0, n) \subseteq DOMAIN n0.node
  <1>1. /\ NodesAreListed(n0.node, n0.nodes) /\ LatchesAreListed(n0.node, n0.latch, n0.latch_table)
    BY NetworkHas
  <1>2. /\ \A l \in Range(n0.latch) : IsLatch(n0.node, n0.latch_table, l)
        /\ Range(n0.latch) = {n0.latch[i] : i \in 1..Len(n0.latch)}
    BY <1>1, LatchFacts
  <1>3. DOMAIN n0.node \subseteq Nat
    BY <1>1, ListedFacts
  <1> DEFINE ends == {l.input : l \in {k \in Range(n0.latch) : k.output = n}}
  <1>4. ends \subseteq DOMAIN n0.node
    BY <1>2 DEF IsLatch
  <1>5. CASE n0.node[n].type /= "PRIMARY_INPUT"
    <2>1. ends = {}
      BY <1>2, <1>5 DEF IsLatch
    <2> HIDE DEF ends
    <2>2. Sources(n0, n) = Range(n0.node[n].fanin) /\ SourcesFound(n0, n) = Range(n0.node[n].fanin)
      BY <1>5, <2>1 DEF Sources, SourcesFound, ends
    <2> QED BY <1>1, <2>2 DEF NodesAreListed
  <1>6. CASE n0.node[n].type = "PRIMARY_INPUT"
    <2>1. ASSUME NEW l \in Range(n0.latch), l.output = n
          PROVE  network_latch_end(n0, n) = l.input /\ l.input /= NIL
      <3>1. n \in DOMAIN n0.latch_table /\ n0.latch_table[n] = l.input /\ l.input \in DOMAIN n0.node
            /\ n0.node[l.input].type = "PRIMARY_OUTPUT"
        BY <1>2, <2>1 DEF IsLatch
      <3>2. l.input /= NIL /\ l.input /= n
        BY <1>3, <1>6, <3>1
      <3> QED BY <3>1, <3>2 DEF network_latch_end, latch_from_node
    <2>2. ASSUME network_latch_end(n0, n) /= NIL
          PROVE  \E l \in Range(n0.latch) : l.output = n
      <3>1. n \in DOMAIN n0.latch_table /\ n0.latch_table[n] /= NIL
        BY <2>2 DEF network_latch_end, latch_from_node
      <3>2. PICK i \in 1..Len(n0.latch) : n \in {n0.latch[i].input, n0.latch[i].output}
        BY <1>1, <3>1 DEF LatchesAreListed
      <3>3. n0.latch[i] \in Range(n0.latch) /\ n0.node[n0.latch[i].input].type = "PRIMARY_OUTPUT"
        BY <1>2 DEF IsLatch
      <3>4. n0.latch[i].output = n
        BY <1>6, <3>2, <3>3
      <3> QED BY <3>3, <3>4
    <2>3. ends = {network_latch_end(n0, n)} \ {NIL}
      BY <2>1, <2>2
    <2> HIDE DEF ends
    <2>4. SourcesFound(n0, n) = Range(n0.node[n].fanin) \union ends
          /\ Sources(n0, n) = Range(n0.node[n].fanin) \union ends
      BY <1>6, <2>3 DEF SourcesFound, Sources, ends
    <2> QED BY <1>1, <1>4, <2>4 DEF NodesAreListed
  <1> QED BY <1>5, <1>6

\* snetwork_tfi_po finds all that some real output depends on and no more: it
\* turns often enough.
LEMMA TfiFacts ==
    ASSUME NEW n0, IsNetwork(n0), NIL \notin Nat, NEW tfi, tfi = snetwork_tfi_po(n0)
    PROVE  /\ tfi \subseteq DOMAIN n0.node /\ IsClosed(n0, tfi)
           /\ \A S : IsClosed(n0, S) => tfi \subseteq S
  <1> DEFINE D == DOMAIN n0.node  N == Len(n0.nodes)
             More(S) == UNION {Sources(n0, n) : n \in S}
             step == [S \in SUBSET D |-> S \union More(S)]
  <1>1. NodesAreListed(n0.node, n0.nodes) /\ TerminalsAreListed(n0.node, n0.pi, n0.po)
    BY NetworkHas
  <1>2. IsFiniteSet(D) /\ N = Cardinality(D) /\ N \in Nat
    BY <1>1, ListedFacts
  <1>3. PICK f : IsVisiting(f, n0)
    BY <1>2, VisitLoop
  <1>4. /\ f[0] = RealPos(n0) /\ f[N] = tfi /\ f[0] \subseteq D
        /\ \A k \in 1..N : f[k] = f[k - 1] \union UNION {SourcesFound(n0, n) : n \in f[k - 1]}
    <2>1. {po \in Range(n0.po) : IsRealPo(n0, po)} = RealPos(n0)
      BY <1>1 DEF TerminalsAreListed, IsRealPo, RealPos
    <2>2. RealPos(n0) \subseteq D
      BY DEF RealPos
    <2> QED BY <1>3, <2>1, <2>2 DEF IsVisiting
  <1>5. \A n \in D : SourcesFound(n0, n) = Sources(n0, n) /\ Sources(n0, n) \subseteq D
    BY SourcesAre
  <1>6. \A S \in SUBSET D : /\ UNION {SourcesFound(n0, n) : n \in S} = More(S)
                            /\ More(S) \in SUBSET D
    BY <1>5
  <1>7. /\ step \in [SUBSET D -> SUBSET D]
        /\ \A S \in SUBSET D : step[S] = S \union More(S)
    BY <1>6
  <1>8. \A A, B \in SUBSET D : A \subseteq B => More(A) \subseteq More(B)
    OBVIOUS
  <1> HIDE DEF D, N, step, More
  <1>9. \A k \in 0..N : f[k] \in SUBSET D
    <2> DEFINE Q == {k \in 0..N : f[k] \in SUBSET D}
    <2>1. 0 \in Q
      BY <1>2, <1>4
    <2>2. ASSUME NEW k \in 1..N, k - 1 \in Q  PROVE k \in Q
      <3>1. f[k - 1] \in SUBSET D
        BY <2>2
      <3>2. f[k] = f[k - 1] \union More(f[k - 1]) /\ More(f[k - 1]) \in SUBSET D
        BY <1>4, <1>6, <3>1
      <3> QED BY <1>2, <3>1, <3>2
    <2> HIDE DEF Q
    <2>3. \A k \in 0..N : k \in Q
      BY <1>2, <2>1, <2>2, UpTo
    <2> QED BY <2>3 DEF Q
  <1>10. \A k \in 1..N : f[k - 1] \in SUBSET D /\ f[k] = f[k - 1] \union More(f[k - 1])
    BY <1>2, <1>4, <1>6, <1>9
  <1>11. IsChain(f, step, D, N)
    <2>1. \A A, B \in SUBSET D : A \subseteq B => step[A] \subseteq step[B]
      <3>1. SUFFICES ASSUME NEW A \in SUBSET D,
                            NEW B \in SUBSET D, A \subseteq B PROVE step[A] \subseteq step[B]
        OBVIOUS
      <3> QED BY <1>7, <1>8, <3>1
    <2>2. f[0] \in SUBSET D /\ f[0] \subseteq step[f[0]]
      BY <1>4, <1>7
    <2>3. \A k \in 1..N : f[k] = step[f[k - 1]]
      BY <1>7, <1>10
    <2> QED BY <1>7, <2>1, <2>2, <2>3 DEF IsChain
  <1>12. step[f[N]] = f[N] /\ f[N] \in SUBSET D
    <2>1. N \in 0..N
      BY <1>2
    <2> QED BY <1>2, <1>9, <1>11, <2>1, ChainFacts
  <1>13. \A k \in 0..N : f[0] \subseteq f[k]
    <2> DEFINE Q == {k \in 0..N : f[0] \subseteq f[k]}
    <2>1. 0 \in Q
      BY <1>2
    <2>2. \A k \in 1..N : k - 1 \in Q => k \in Q
      BY <1>2, <1>10
    <2> HIDE DEF Q
    <2>3. \A k \in 0..N : k \in Q
      BY <1>2, <2>1, <2>2, UpTo
    <2> QED BY <2>3 DEF Q
  <1>14. IsClosed(n0, tfi) /\ tfi \subseteq D
    <2>1. N \in 0..N
      BY <1>2
    <2>2. RealPos(n0) \subseteq tfi
      BY <1>4, <1>13, <2>1
    <2>3. More(tfi) \subseteq tfi
      BY <1>4, <1>7, <1>12
    <2> QED BY <1>4, <1>12, <2>2, <2>3 DEF IsClosed, More
  <1>15. ASSUME NEW S, IsClosed(n0, S)  PROVE tfi \subseteq S
    <2> DEFINE Q == {k \in 0..N : f[k] \subseteq S}
    <2>1. 0 \in Q
      BY <1>2, <1>4, <1>15 DEF IsClosed
    <2>2. ASSUME NEW k \in 1..N, k - 1 \in Q  PROVE k \in Q
      <3>1. More(f[k - 1]) \subseteq S
        BY <1>15, <2>2 DEF More, IsClosed
      <3> QED BY <1>2, <1>10, <2>2, <3>1
    <2> HIDE DEF Q
    <2>3. \A k \in 0..N : k \in Q
      BY <1>2, <2>1, <2>2, UpTo
    <2>4. N \in Q
      BY <1>2, <2>3
    <2> QED BY <1>4, <2>4 DEF Q
  <1> QED BY <1>14, <1>15 DEF D

\* The ends of a latch, and what feeds it.
LEMMA EndFacts ==
    ASSUME NEW n0, IsNetwork(n0), NEW l \in Range(n0.latch)
    PROVE  /\ l.input \in DOMAIN n0.node /\ n0.node[l.input].type = "PRIMARY_OUTPUT"
           /\ l.output \in DOMAIN n0.node /\ n0.node[l.output].type = "PRIMARY_INPUT"
           /\ l.input \in DOMAIN n0.latch_table /\ l.output \in DOMAIN n0.latch_table
           /\ Range(n0.node[l.output].fanin) = {}
           /\ DOMAIN n0.node[l.input].fanin = {1}
           /\ \A k \in Range(n0.latch) : k.input = l.input \/ k.output = l.output => k = l
  <1>1. /\ LatchesAreListed(n0.node, n0.latch, n0.latch_table) /\ NodesAreListed(n0.node, n0.nodes)
        /\ TerminalsAreListed(n0.node, n0.pi, n0.po)
    BY NetworkHas
  <1>2. \A k \in Range(n0.latch) : IsLatch(n0.node, n0.latch_table, k)
                                   /\ (k.input = l.input => k = l)
    BY <1>1, LatchFacts
  <1>3. /\ l.input \in DOMAIN n0.node /\ n0.node[l.input].type = "PRIMARY_OUTPUT"
        /\ l.output \in DOMAIN n0.node /\ n0.node[l.output].type = "PRIMARY_INPUT"
        /\ l.input \in DOMAIN n0.latch_table /\ l.output \in DOMAIN n0.latch_table
    BY <1>2 DEF IsLatch
  <1>4. \A k \in Range(n0.latch) : k.output = l.output => k = l
    BY <1>2 DEF IsLatch
  <1>5. n0.node[l.output].fanin = <<>> /\ Len(n0.node[l.input].fanin) = 1
    BY <1>1, <1>3 DEF TerminalsAreListed
  <1>6. IsNode(n0.node[l.input])
    BY <1>1, <1>3 DEF NodesAreListed
  <1>7. n0.node[l.input].fanin \in Seq(Nat)
    BY <1>6 DEF IsNode
  <1>8. DOMAIN n0.node[l.input].fanin = {1}
    BY <1>5, <1>7
  <1>9. Range(n0.node[l.output].fanin) = {}
    BY <1>5 DEF Range
  <1> QED BY <1>2, <1>3, <1>4, <1>8, <1>9

\* A node with as many fanins and the same function is of the same kind.
LEMMA SameIsPlain ==
    ASSUME NEW nd, NEW nd2, IsNode(nd), IsNode(nd2), nd2.type = nd.type, nd2.F = nd.F,
           DOMAIN nd2.fanin = DOMAIN nd.fanin
    PROVE  (IsPlain(nd2) => IsPlain(nd)) /\ (IsBuffer(nd2) => IsBuffer(nd))
  <1>1. nd.fanin \in Seq(Nat) /\ nd2.fanin \in Seq(Nat)
    BY DEF IsNode
  <1>2. PICK s, t : s = nd.fanin /\ t = nd2.fanin
    OBVIOUS
  <1>3. s \in Seq(Nat) /\ t \in Seq(Nat) /\ DOMAIN s = DOMAIN t
    BY <1>1, <1>2
  <1>4. t = <<>> => s = <<>>
    BY <1>3
  <1> QED BY <1>2, <1>4 DEF IsPlain, IsConstant, IsBuffer, IsInverter

\* A fanin to sweep is one of a swept node that is no output.
LEMMA SweepablePins ==
    ASSUME NEW n0, NEW n
    PROVE  Sweepable(n0, n) = {i \in DOMAIN n0.node[n].fanin :
                IF n0.node[n].type = "PRIMARY_OUTPUT" THEN IsBuffer(n0.node[n0.node[n].fanin[i]])
                ELSE IsPlain(n0.node[n0.node[n].fanin[i]])}
  BY DEF Sweepable, IsPlain

\* A node with an empty fanout list is no fanin.
LEMMA FeedsNothing ==
    ASSUME NEW n0, IsNetwork(n0), NEW n \in DOMAIN n0.node, n0.fanout[n] = <<>>
    PROVE  \A m \in DOMAIN n0.node : n \notin Range(n0.node[m].fanin)
  <1>1. FanoutsMirrorFanins(n0.node, n0.fanout)
    BY NetworkHas
  <1>2. DOMAIN n0.fanout = DOMAIN n0.node /\ Lists(n0.node, DOMAIN n0.node, n0.fanout)
    BY <1>1 DEF FanoutsMirrorFanins
  <1>3. Range(n0.fanout[n]) = {}
    BY DEF Range
  <1>4. ASSUME NEW m \in DOMAIN n0.node, NEW i \in DOMAIN n0.node[m].fanin, n0.node[m].fanin[i] = n
        PROVE  FALSE
    BY <1>2, <1>3, <1>4 DEF Lists
  <1> QED BY <1>4 DEF Range

\* A latch that is seen feeds something.
LEMMA SeenIsUsed ==
    ASSUME NEW n0, IsNetwork(n0), NIL \notin Nat, LatchesReached(n0), NEW l \in Range(n0.latch)
    PROVE  n0.fanout[l.output] /= <<>>
  <1>1. SUFFICES ASSUME n0.fanout[l.output] = <<>>  PROVE FALSE
    OBVIOUS
  <1>2. PICK seen : seen = snetwork_tfi_po(n0)
    OBVIOUS
  <1>3. IsClosed(n0, seen) /\ seen \subseteq DOMAIN n0.node /\ l.output \in seen
    BY <1>2, TfiFacts DEF LatchesReached
  <1>4. \A n \in DOMAIN n0.node : l.output \notin Range(n0.node[n].fanin)
    BY <1>1, EndFacts, FeedsNothing
  <1>5. \A k \in Range(n0.latch) : k.input /= l.output
    BY EndFacts
  <1>6. \A n \in seen : l.output \notin Sources(n0, n)
    BY <1>3, <1>4, <1>5 DEF Sources
  <1>7. l.output \notin RealPos(n0)
    BY EndFacts DEF RealPos
  <1>8. IsClosed(n0, seen \ {l.output})
    BY <1>3, <1>6, <1>7 DEF IsClosed
  <1>9. seen \subseteq seen \ {l.output}
    BY <1>2, <1>8, TfiFacts
  <1> QED BY <1>3, <1>9

-----------------------------------------------------------------------------
\* A network is cleaned up.

\* The results of the turns of the loop.
IsCleaningNodes(f, n0) ==
    /\ f[0] = n0
    /\ \A k \in 1..Len(n0.nodes) : f[k] = CleanNode(f[k - 1], n0.nodes[k])
    /\ CleanNodes(n0) = f[Len(n0.nodes)]

\* There is such a list of results.
LEMMA CleanNodesLoop ==
    ASSUME NEW n0, Len(n0.nodes) \in Nat
    PROVE  \E f : IsCleaningNodes(f, n0)
  <1> DEFINE last == Len(n0.nodes)
             Turn(r, k) == CleanNode(r, n0.nodes[k])
             Start == n0
             G(f, m) == f = [k \in 0..m |-> IF k = 0 THEN Start ELSE Turn(f[k - 1], k)]
             S == {m \in 0..last : \E f : G(f, m)}
  <1>0. last \in Nat
    OBVIOUS
  <1>1. CleanNodes(n0) = (CHOOSE f : G(f, last))[last]
    BY DEF CleanNodes, ForEach
  <1> HIDE DEF Turn, Start, last
  <1>2. \E f : G(f, 0)
    <2>1. G([k \in 0..0 |-> Start], 0)
      OBVIOUS
    <2> HIDE DEF G
    <2> QED BY <2>1
  <1>3. ASSUME NEW m \in 1..last, NEW f, G(f, m - 1)  PROVE \E g : G(g, m)
    <2> DEFINE g == [k \in 0..m |-> IF k = m THEN Turn(f[m - 1], m) ELSE f[k]]
    <2>1. ASSUME NEW k \in 0..m
          PROVE  g[k] = IF k = 0 THEN Start ELSE Turn(g[k - 1], k)
      <3>1. CASE k = m
        <4>1. g[m] = Turn(f[m - 1], m) /\ m \in 0..m /\ m /= 0 /\ g[m - 1] = f[m - 1]
          BY <1>0
        <4> HIDE DEF g
        <4> QED BY <3>1, <4>1
      <3>2. CASE k /= m
        <4>1. k \in 0..(m - 1)
          BY <1>0, <3>2
        <4>2. f[k] = IF k = 0 THEN Start ELSE Turn(f[k - 1], k)
          BY <1>3, <4>1
        <4>3. g[k] = f[k] /\ (k /= 0 => g[k - 1] = f[k - 1])
          BY <1>0, <3>2, <4>1
        <4> HIDE DEF g
        <4> QED BY <4>2, <4>3
      <3> QED BY <3>1, <3>2
    <2>2. g = [k \in 0..m |-> g[k]]
      OBVIOUS
    <2>3. G(g, m)
      BY <2>1, <2>2
    <2> HIDE DEF G, g
    <2> QED BY <2>3
  <1>4. \E f : G(f, last)
    <2> HIDE DEF G
    <2>1. 0 \in S
      BY <1>0, <1>2
    <2>2. \A m \in 1..last : m - 1 \in S => m \in S
      BY <1>0, <1>3
    <2> HIDE DEF S
    <2>3. \A m \in 0..last : m \in S
      BY <1>0, <2>1, <2>2, UpTo
    <2>4. last \in S
      BY <1>0, <2>3
    <2> QED BY <2>4 DEF S
  <1> DEFINE F == CHOOSE f : G(f, last)
  <1>5. G(F, last)
    <2> HIDE DEF G
    <2> QED BY <1>4
  <1> HIDE DEF F
  <1>6. \A k \in 0..last : F[k] = IF k = 0 THEN Start ELSE Turn(F[k - 1], k)
    <2>1. \A k \in 0..last : [j \in 0..last |-> IF j = 0 THEN Start ELSE Turn(F[j - 1], j)][k]
                             = IF k = 0 THEN Start ELSE Turn(F[k - 1], k)
      OBVIOUS
    <2> QED BY <1>5, <2>1, Zenon
  <1>7. F[0] = Start /\ \A k \in 1..last : F[k] = Turn(F[k - 1], k)
    <2>1. 0 \in 0..last /\ \A k \in 1..last : k \in 0..last /\ k /= 0
      BY <1>0
    <2> QED BY <1>6, <2>1, Zenon
  <1>8. CleanNodes(n0) = F[last]
    BY <1>1 DEF F
  <1>9. IsCleaningNodes(F, n0)
    BY <1>7, <1>8, Zenon DEF IsCleaningNodes, Turn, Start, last
  <1> QED BY <1>9

\* The results of the turns of the loop.
IsCleaningLatches(f, n0) ==
    /\ f[0] = n0
    /\ \A k \in 1..Len(n0.latch) : f[k] = CleanLatch(f[k - 1], n0.latch[k])
    /\ CleanLatches(n0, TRUE) = f[Len(n0.latch)]

\* There is such a list of results.
LEMMA CleanLatchesLoop ==
    ASSUME NEW n0, Len(n0.latch) \in Nat
    PROVE  \E f : IsCleaningLatches(f, n0)
  <1> DEFINE last == Len(n0.latch)
             Turn(r, k) == CleanLatch(r, n0.latch[k])
             Start == n0
             G(f, m) == f = [k \in 0..m |-> IF k = 0 THEN Start ELSE Turn(f[k - 1], k)]
             S == {m \in 0..last : \E f : G(f, m)}
  <1>0. last \in Nat
    OBVIOUS
  <1>1. CleanLatches(n0, TRUE) = (CHOOSE f : G(f, last))[last]
    BY DEF CleanLatches, ForEach
  <1> HIDE DEF Turn, Start, last
  <1>2. \E f : G(f, 0)
    <2>1. G([k \in 0..0 |-> Start], 0)
      OBVIOUS
    <2> HIDE DEF G
    <2> QED BY <2>1
  <1>3. ASSUME NEW m \in 1..last, NEW f, G(f, m - 1)  PROVE \E g : G(g, m)
    <2> DEFINE g == [k \in 0..m |-> IF k = m THEN Turn(f[m - 1], m) ELSE f[k]]
    <2>1. ASSUME NEW k \in 0..m
          PROVE  g[k] = IF k = 0 THEN Start ELSE Turn(g[k - 1], k)
      <3>1. CASE k = m
        <4>1. g[m] = Turn(f[m - 1], m) /\ m \in 0..m /\ m /= 0 /\ g[m - 1] = f[m - 1]
          BY <1>0
        <4> HIDE DEF g
        <4> QED BY <3>1, <4>1
      <3>2. CASE k /= m
        <4>1. k \in 0..(m - 1)
          BY <1>0, <3>2
        <4>2. f[k] = IF k = 0 THEN Start ELSE Turn(f[k - 1], k)
          BY <1>3, <4>1
        <4>3. g[k] = f[k] /\ (k /= 0 => g[k - 1] = f[k - 1])
          BY <1>0, <3>2, <4>1
        <4> HIDE DEF g
        <4> QED BY <4>2, <4>3
      <3> QED BY <3>1, <3>2
    <2>2. g = [k \in 0..m |-> g[k]]
      OBVIOUS
    <2>3. G(g, m)
      BY <2>1, <2>2
    <2> HIDE DEF G, g
    <2> QED BY <2>3
  <1>4. \E f : G(f, last)
    <2> HIDE DEF G
    <2>1. 0 \in S
      BY <1>0, <1>2
    <2>2. \A m \in 1..last : m - 1 \in S => m \in S
      BY <1>0, <1>3
    <2> HIDE DEF S
    <2>3. \A m \in 0..last : m \in S
      BY <1>0, <2>1, <2>2, UpTo
    <2>4. last \in S
      BY <1>0, <2>3
    <2> QED BY <2>4 DEF S
  <1> DEFINE F == CHOOSE f : G(f, last)
  <1>5. G(F, last)
    <2> HIDE DEF G
    <2> QED BY <1>4
  <1> HIDE DEF F
  <1>6. \A k \in 0..last : F[k] = IF k = 0 THEN Start ELSE Turn(F[k - 1], k)
    <2>1. \A k \in 0..last : [j \in 0..last |-> IF j = 0 THEN Start ELSE Turn(F[j - 1], j)][k]
                             = IF k = 0 THEN Start ELSE Turn(F[k - 1], k)
      OBVIOUS
    <2> QED BY <1>5, <2>1, Zenon
  <1>7. F[0] = Start /\ \A k \in 1..last : F[k] = Turn(F[k - 1], k)
    <2>1. 0 \in 0..last /\ \A k \in 1..last : k \in 0..last /\ k /= 0
      BY <1>0
    <2> QED BY <1>6, <2>1, Zenon
  <1>8. CleanLatches(n0, TRUE) = F[last]
    BY <1>1 DEF F
  <1>9. IsCleaningLatches(F, n0)
    BY <1>7, <1>8, Zenon DEF IsCleaningLatches, Turn, Start, last
  <1> QED BY <1>9

\* The turns of a loop that runs while something changes.
IsCleaning(f, n0, flag) ==
    /\ f[0].net = n0
    /\ \A k \in 1..MostTurns(n0) : f[k].net = CleanLatches(CleanNodes(f[k - 1].net), flag)
    /\ network_cleanup_util(n0, flag) = f[MostTurns(n0)].net

\* There is such a list of results.
LEMMA CleanTurns ==
    ASSUME NEW n0, NEW flag, MostTurns(n0) \in Nat
    PROVE  \E f : IsCleaning(f, n0, flag)
  <1> DEFINE last == MostTurns(n0)
             Turn(r, k) == IF r.changed
                   THEN [net |-> CleanLatches(CleanNodes(r.net), flag),
                     changed |-> CleanLatches(CleanNodes(r.net), flag) /= r.net] ELSE r
             Start == [net |-> n0, changed |-> TRUE]
             G(f, m) == f = [k \in 0..m |-> IF k = 0 THEN Start ELSE Turn(f[k - 1], k)]
             S == {m \in 0..last : \E f : G(f, m)}
  <1>0. last \in Nat
    OBVIOUS
  <1>1. network_cleanup_util(n0, flag) = (CHOOSE f : G(f, last))[last].net
    BY DEF network_cleanup_util, Repeat
  <1> HIDE DEF Turn, Start, last
  <1>2. \E f : G(f, 0)
    <2>1. G([k \in 0..0 |-> Start], 0)
      OBVIOUS
    <2> HIDE DEF G
    <2> QED BY <2>1
  <1>3. ASSUME NEW m \in 1..last, NEW f, G(f, m - 1)  PROVE \E g : G(g, m)
    <2> DEFINE g == [k \in 0..m |-> IF k = m THEN Turn(f[m - 1], m) ELSE f[k]]
    <2>1. ASSUME NEW k \in 0..m
          PROVE  g[k] = IF k = 0 THEN Start ELSE Turn(g[k - 1], k)
      <3>1. CASE k = m
        <4>1. g[m] = Turn(f[m - 1], m) /\ m \in 0..m /\ m /= 0 /\ g[m - 1] = f[m - 1]
          BY <1>0
        <4> HIDE DEF g
        <4> QED BY <3>1, <4>1
      <3>2. CASE k /= m
        <4>1. k \in 0..(m - 1)
          BY <1>0, <3>2
        <4>2. f[k] = IF k = 0 THEN Start ELSE Turn(f[k - 1], k)
          BY <1>3, <4>1
        <4>3. g[k] = f[k] /\ (k /= 0 => g[k - 1] = f[k - 1])
          BY <1>0, <3>2, <4>1
        <4> HIDE DEF g
        <4> QED BY <4>2, <4>3
      <3> QED BY <3>1, <3>2
    <2>2. g = [k \in 0..m |-> g[k]]
      OBVIOUS
    <2>3. G(g, m)
      BY <2>1, <2>2
    <2> HIDE DEF G, g
    <2> QED BY <2>3
  <1>4. \E f : G(f, last)
    <2> HIDE DEF G
    <2>1. 0 \in S
      BY <1>0, <1>2
    <2>2. \A m \in 1..last : m - 1 \in S => m \in S
      BY <1>0, <1>3
    <2> HIDE DEF S
    <2>3. \A m \in 0..last : m \in S
      BY <1>0, <2>1, <2>2, UpTo
    <2>4. last \in S
      BY <1>0, <2>3
    <2> QED BY <2>4 DEF S
  <1> DEFINE F == CHOOSE f : G(f, last)
  <1>5. G(F, last)
    <2> HIDE DEF G
    <2> QED BY <1>4
  <1> HIDE DEF F
  <1>6. \A k \in 0..last : F[k] = IF k = 0 THEN Start ELSE Turn(F[k - 1], k)
    <2>1. \A k \in 0..last : [j \in 0..last |-> IF j = 0 THEN Start ELSE Turn(F[j - 1], j)][k]
                             = IF k = 0 THEN Start ELSE Turn(F[k - 1], k)
      OBVIOUS
    <2> QED BY <1>5, <2>1, Zenon
  <1>7. F[0] = Start /\ \A k \in 1..last : F[k] = Turn(F[k - 1], k)
    <2>1. 0 \in 0..last /\ \A k \in 1..last : k \in 0..last /\ k /= 0
      BY <1>0
    <2> QED BY <1>6, <2>1, Zenon
  <1>8. network_cleanup_util(n0, flag) = F[last].net
    BY <1>1 DEF F
  <1>9. F[0].net = n0 /\ \A k \in 1..last : F[k].net = CleanLatches(CleanNodes(F[k - 1].net), flag)
    <2> DEFINE p == [k \in 1..last |-> CleanLatches(CleanNodes(F[k - 1].net), flag)]
    <2>1. F[0].net = n0 /\ F[0].changed
      BY <1>7 DEF Start
    <2>2. \A k \in 1..last : p[k] = CleanLatches(CleanNodes(F[k - 1].net), flag)
      OBVIOUS
    <2>3. \A k \in 1..last :
            F[k] = IF F[k - 1].changed THEN [net |-> p[k], changed |-> p[k] /= F[k - 1].net]
                   ELSE F[k - 1]
      <3>1. ASSUME NEW k \in 1..last, NEW q, q = p[k]
            PROVE  F[k] = IF F[k - 1].changed THEN [net |-> q, changed |-> q /= F[k - 1].net]
                          ELSE F[k - 1]
        <4>1. F[k] = Turn(F[k - 1], k) /\ q = CleanLatches(CleanNodes(F[k - 1].net), flag)
          BY <1>7, <2>2, <3>1
        <4> QED BY <4>1, Zenon DEF Turn
      <3> QED BY <3>1
    <2>4. \A j, k \in 1..last : F[j - 1].net = F[k - 1].net => p[j] = p[k]
      BY <2>2
    <2> HIDE DEF p
    <2>5. \A k \in 1..last : F[k].net = p[k]
      BY <1>0, <2>1, <2>3, <2>4, RepeatTurns
    <2> QED BY <2>1, <2>2, <2>5
  <1>10. IsCleaning(F, n0, flag)
    BY <1>8, <1>9, Zenon DEF IsCleaning, last
  <1> QED BY <1>10

\* An internal node feeds another.
IsUsed(n0, n) == n0.node[n].type = "INTERNAL" => n0.fanout[n] /= <<>>

\* A node is gone.
IsWithout(n0, res, n) ==
    /\ DOMAIN res.node = DOMAIN n0.node \ {n}
    /\ \A m \in DOMAIN res.node : res.node[m] = n0.node[m]
    /\ res.latch = n0.latch /\ res.latch_table = n0.latch_table

\* A node that feeds nothing goes, and the others stay.
LEMMA CleanNodeSound ==
    ASSUME NEW n0, IsNetwork(n0), NEW n \in DOMAIN n0.node, NEW res, res = CleanNode(n0, n)
    PROVE  /\ IsNetwork(res)
           /\ IF IsUsed(n0, n) THEN res = n0 ELSE IsWithout(n0, res, n)
  <1>1. CASE n0.node[n].type = "INTERNAL" /\ n0.fanout[n] = <<>>
    <2>1. res = network_delete_node(n0, n)
      BY <1>1 DEF CleanNode
    <2>2. n \notin DOMAIN n0.latch_table
      <3>1. LatchesAreListed(n0.node, n0.latch, n0.latch_table)
        BY NetworkHas
      <3> QED BY <1>1, <3>1, TableNodes
    <2>3. IsNetwork(res) /\ IsReduced(res, n0, {n})
      BY <1>1, <2>1, <2>2, DeleteNodeReduces
    <2> QED BY <1>1, <2>3 DEF IsReduced, IsUsed, IsWithout
  <1>2. CASE ~(n0.node[n].type = "INTERNAL" /\ n0.fanout[n] = <<>>)
    <2>1. res = n0
      BY <1>2 DEF CleanNode
    <2> QED BY <1>2, <2>1 DEF IsUsed
  <1> QED BY <1>1, <1>2

\* Without a node that feeds nothing there is no more to sweep or to merge.
LEMMA CleanNodeClean ==
    ASSUME NEW n0, IsNetwork(n0), NIL \notin Nat, NEW n \in DOMAIN n0.node, ~IsUsed(n0, n),
           NEW res, IsNetwork(res), IsWithout(n0, res, n), IsMerged(n0)
    PROVE  IsMerged(res)
  <1>1. n0.node[n].type = "INTERNAL" /\ n0.fanout[n] = <<>>
    BY DEF IsUsed
  <1>2. \A m \in DOMAIN n0.node : n \notin Range(n0.node[m].fanin)
    BY <1>1, FeedsNothing
  <1>3. /\ DOMAIN res.node = DOMAIN n0.node \ {n}
        /\ \A m \in DOMAIN res.node : res.node[m] = n0.node[m]
        /\ res.latch = n0.latch /\ res.latch_table = n0.latch_table
    BY DEF IsWithout
  <1>4. AllSwept(res)
    <2>1. NodesAreListed(n0.node, n0.nodes)
      BY NetworkHas
    <2>2. ASSUME NEW m \in DOMAIN res.node  PROVE Sweepable(res, m) = {}
      <3>1. m \in DOMAIN n0.node /\ res.node[m] = n0.node[m] /\ Sweepable(n0, m) = {}
        BY <1>3 DEF IsMerged, IsClean, AllSwept
      <3>2. \A i \in DOMAIN n0.node[m].fanin :
              res.node[n0.node[m].fanin[i]] = n0.node[n0.node[m].fanin[i]]
        BY <1>2, <1>3, <2>1, <3>1 DEF NodesAreListed, Range
      <3>3. Sweepable(res, m) = Sweepable(n0, m)
        BY <3>1, <3>2 DEF Sweepable
      <3> QED BY <3>1, <3>3
    <2> QED BY <2>2 DEF AllSwept
  <1>5. LatchesReached(res)
    <2>1. PICK seen : seen = snetwork_tfi_po(res)
      OBVIOUS
    <2>2. seen \subseteq DOMAIN res.node /\ IsClosed(res, seen)
      BY <2>1, TfiFacts
    <2>3. RealPos(n0) \subseteq RealPos(res)
      BY <1>1, <1>3 DEF RealPos
    <2>4. \A m \in seen : Sources(n0, m) = Sources(res, m)
      BY <1>3, <2>2 DEF Sources
    <2>5. IsClosed(n0, seen)
      BY <2>2, <2>3, <2>4 DEF IsClosed
    <2>6. snetwork_tfi_po(n0) \subseteq seen
      BY <2>5, TfiFacts
    <2> QED BY <1>3, <2>1, <2>6 DEF IsMerged, IsClean, LatchesReached
  <1>6. ASSUME NEW k \in Range(n0.latch)
        PROVE  /\ res.node[k.input] = n0.node[k.input]
               /\ res.node[n0.node[k.input].fanin[1]] = n0.node[n0.node[k.input].fanin[1]]
    <2>1. NodesAreListed(n0.node, n0.nodes)
      BY NetworkHas
    <2>2. PICK x : x = k.input
      OBVIOUS
    <2>3. /\ x \in DOMAIN n0.node /\ n0.node[x].type = "PRIMARY_OUTPUT"
          /\ DOMAIN n0.node[x].fanin = {1}
      BY <2>2, EndFacts
    <2>4. PICK d : d = n0.node[x].fanin[1]
      OBVIOUS
    <2>5. d \in Range(n0.node[x].fanin) /\ d \in DOMAIN n0.node
      BY <2>1, <2>3, <2>4 DEF NodesAreListed, Range
    <2>6. x /= n /\ d /= n
      BY <1>1, <1>2, <2>3, <2>5, SMTT(60)
    <2> QED BY <1>3, <2>2, <2>3, <2>4, <2>5, <2>6
  <1>7. LatchesVary(res)
    BY <1>3, <1>6, SMTT(60) DEF IsMerged, IsClean, LatchesVary, IsConstantLatch
  <1>8. LatchesDiffer(res)
    BY <1>3, <1>6 DEF IsMerged, LatchesDiffer
  <1> QED BY <1>4, <1>5, <1>7, <1>8 DEF IsMerged, IsClean

\* The nodes of a list from some place on are there still.
NodesAreThere(nodes, k, res) == \A j \in 1..Len(nodes) : k < j => nodes[j] \in DOMAIN res.node

\* The first k nodes are used and nothing has changed, or there are less nodes.
AreCleaned(n0, k, res) ==
    \/ res = n0 /\ \A j \in 1..k : IsUsed(n0, n0.nodes[j])
    \/ /\ DOMAIN res.node \subseteq DOMAIN n0.node /\ DOMAIN res.node /= DOMAIN n0.node
       /\ \E j \in 1..k : ~IsUsed(n0, n0.nodes[j])

\* One more node.
LEMMA AreCleanedStill ==
    ASSUME NEW n0, Len(n0.nodes) \in Nat, NEW k \in 1..Len(n0.nodes),
           NEW last, AreCleaned(n0, k - 1, last), NEW n \in DOMAIN last.node, n = n0.nodes[k],
           NEW next, IF IsUsed(last, n) THEN next = last ELSE IsWithout(last, next, n)
    PROVE  AreCleaned(n0, k, next)
  <1>1. 1..(k - 1) \subseteq 1..k /\ k \in 1..k
    OBVIOUS
  <1>2. CASE last = n0 /\ \A j \in 1..(k - 1) : IsUsed(n0, n0.nodes[j])
    <2>1. CASE IsUsed(last, n)
      <3>1. ASSUME NEW j \in 1..k  PROVE j = k \/ j \in 1..(k - 1)
        OBVIOUS
      <3> QED BY <1>2, <2>1, <3>1 DEF AreCleaned
    <2>2. CASE ~IsUsed(last, n)
      <3>1. DOMAIN next.node = DOMAIN n0.node \ {n}
        BY <1>2, <2>2 DEF IsWithout
      <3> QED BY <1>1, <1>2, <2>2, <3>1 DEF AreCleaned
    <2> QED BY <2>1, <2>2
  <1>3. CASE /\ DOMAIN last.node \subseteq DOMAIN n0.node /\ DOMAIN last.node /= DOMAIN n0.node
             /\ \E j \in 1..(k - 1) : ~IsUsed(n0, n0.nodes[j])
    <2>1. DOMAIN next.node \subseteq DOMAIN last.node
      BY DEF IsWithout
    <2> QED BY <1>1, <1>3, <2>1 DEF AreCleaned
  <1> QED BY <1>2, <1>3 DEF AreCleaned

\* Going through all the nodes keeps a network sound, and makes nothing to sweep
\* or to merge; it takes nodes away, unless all are used and it changes nothing.
LEMMA CleanNodesSound ==
    ASSUME NEW n0, IsNetwork(n0), NIL \notin Nat, NEW res, res = CleanNodes(n0)
    PROVE  /\ IsNetwork(res) /\ AreCleaned(n0, Len(n0.nodes), res)
           /\ IsMerged(n0) => IsMerged(res)
  <1> DEFINE list == n0.nodes  N == Len(list)
  <1>1. /\ N \in Nat /\ \A i \in 1..N : list[i] \in DOMAIN n0.node
        /\ \A i, j \in 1..N : list[i] = list[j] => i = j
    <2>1. NodesAreListed(n0.node, n0.nodes)
      BY NetworkHas
    <2>2. list \in Seq(Nat) /\ IsInjective(list) /\ Range(list) = DOMAIN n0.node
      BY <2>1 DEF NodesAreListed
    <2> HIDE DEF list
    <2> QED BY <2>2, RangeFacts, InjectiveFacts
  <1>2. PICK f : IsCleaningNodes(f, n0)
    BY <1>1, CleanNodesLoop
  <1>3. /\ f[0] = n0 /\ res = f[N]
        /\ \A k \in 1..N : f[k] = CleanNode(f[k - 1], list[k])
    BY <1>2 DEF IsCleaningNodes
  <1> DEFINE Q == {k \in 0..N : /\ IsNetwork(f[k]) /\ NodesAreThere(list, k, f[k])
                               /\ AreCleaned(n0, k, f[k]) /\ (IsMerged(n0) => IsMerged(f[k]))}
  <1>4. 0 \in Q
    <2>1. NodesAreThere(list, 0, f[0])
      BY <1>1, <1>3 DEF NodesAreThere
    <2>2. AreCleaned(n0, 0, f[0])
      BY <1>3 DEF AreCleaned
    <2> QED BY <1>1, <1>3, <2>1, <2>2
  <1>5. ASSUME NEW k \in 1..N, k - 1 \in Q  PROVE k \in Q
    <2>1. PICK last, n : last = f[k - 1] /\ n = list[k]
      OBVIOUS
    <2>2. /\ IsNetwork(last) /\ NodesAreThere(list, k - 1, last)
          /\ AreCleaned(n0, k - 1, last) /\ (IsMerged(n0) => IsMerged(last))
      BY <1>5, <2>1
    <2>3. n \in DOMAIN last.node
      <3>1. k - 1 < k /\ k \in 1..Len(list)
        BY <1>1
      <3> QED BY <2>1, <2>2, <3>1 DEF NodesAreThere
    <2>4. f[k] = CleanNode(last, n)
      BY <1>3, <2>1
    <2>5. PICK next : next = f[k]
      OBVIOUS
    <2>6. IsNetwork(next) /\ IF IsUsed(last, n) THEN next = last ELSE IsWithout(last, next, n)
      BY <2>2, <2>3, <2>4, <2>5, CleanNodeSound
    <2>9. AreCleaned(n0, k, next)
      BY <1>1, <2>1, <2>2, <2>3, <2>6, AreCleanedStill
    <2>10. IsMerged(last) => IsMerged(next)
      BY <2>2, <2>3, <2>6, CleanNodeClean
    <2>7. NodesAreThere(list, k, next)
      <3>1. SUFFICES ASSUME NEW j \in 1..Len(list), k < j PROVE list[j] \in DOMAIN next.node
        BY DEF NodesAreThere
      <3>2. k - 1 < j /\ j /= k
        BY <1>1, <3>1
      <3>3. list[j] \in DOMAIN last.node
        BY <2>2, <3>2 DEF NodesAreThere
      <3>4. list[j] /= n
        BY <1>1, <2>1, <3>2
      <3> QED BY <2>6, <3>3, <3>4 DEF IsWithout
    <2>8. k \in 0..N
      BY <1>1
    <2> QED BY <2>2, <2>5, <2>6, <2>7, <2>8, <2>9, <2>10
  <1> HIDE DEF Q, N
  <1>6. \A k \in 0..N : k \in Q
    BY <1>1, <1>4, <1>5, UpTo
  <1>7. N \in 0..N
    BY <1>1
  <1>8. N \in Q
    BY <1>6, <1>7
  <1> QED BY <1>3, <1>8 DEF Q, N

\* A latch that feeds nothing goes with its ends, and the others stay.
LEMMA CleanLatchSound ==
    ASSUME NEW n0, IsNetwork(n0), NIL \notin Nat, NEW l \in Range(n0.latch),
           NEW res, res = CleanLatch(n0, l)
    PROVE  IsNetwork(res) /\ Range(n0.latch) \ {l} \subseteq Range(res.latch)
  <1>1. CASE n0.fanout[l.output] = <<>>
    <2>1. res = DeleteLatchAndEnds(n0, l)
      BY <1>1 DEF CleanLatch
    <2>2. IsNetwork(res) /\ Range(res.latch) = Range(n0.latch) \ {l}
      BY <1>1, <2>1, DeleteLatchAndEndsSound DEF IsDetached
    <2> QED BY <2>2
  <1>2. CASE n0.fanout[l.output] /= <<>>
    <2>1. res = n0
      BY <1>2 DEF CleanLatch
    <2> QED BY <2>1
  <1> QED BY <1>1, <1>2

\* Going through all the latches keeps a network sound; it changes nothing if
\* all are seen.
LEMMA CleanLatchesSound ==
    ASSUME NEW n0, IsNetwork(n0), NIL \notin Nat, NEW flag \in BOOLEAN,
           NEW res, res = CleanLatches(n0, flag)
    PROVE  IsNetwork(res) /\ (LatchesReached(n0) => res = n0)
  <1>1. CASE ~flag
    <2>1. res = n0
      BY <1>1 DEF CleanLatches
    <2> QED BY <2>1
  <1>2. CASE flag
    <2> DEFINE list == n0.latch  N == Len(list)
    <2>1. /\ N \in Nat /\ \A i \in 1..N : list[i] \in Range(list)
          /\ \A i, j \in 1..N : list[i] = list[j] => i = j
      BY LatchListFacts
    <2>2. PICK f : IsCleaningLatches(f, n0)
      BY <2>1, CleanLatchesLoop
    <2>4. res = CleanLatches(n0, TRUE)
      BY <1>2
    <2>5. /\ f[0] = n0 /\ res = f[N]
          /\ \A k \in 1..N : f[k] = CleanLatch(f[k - 1], list[k])
      BY <2>2, <2>4 DEF IsCleaningLatches
    <2> DEFINE Q == {k \in 0..N : IsNetwork(f[k]) /\ AreThere(list, k, f[k])
                                /\ (LatchesReached(n0) => f[k] = n0)}
    <2>6. 0 \in Q
      <3>1. AreThere(list, 0, f[0])
        BY <2>1, <2>5 DEF AreThere
      <3> QED BY <2>1, <2>5, <3>1
    <2>7. ASSUME NEW k \in 1..N, k - 1 \in Q  PROVE k \in Q
      <3>1. PICK last, l : last = f[k - 1] /\ l = list[k]
        OBVIOUS
      <3>2. IsNetwork(last) /\ AreThere(list, k - 1, last) /\ (LatchesReached(n0) => last = n0)
        BY <2>7, <3>1
      <3>3. l \in Range(last.latch)
        <4>1. k - 1 < k /\ k \in 1..Len(list)
          BY <2>1
        <4> QED BY <3>1, <3>2, <4>1 DEF AreThere
      <3>4. f[k] = CleanLatch(last, l)
        BY <2>5, <3>1
      <3>5. PICK next : next = f[k]
        OBVIOUS
      <3>6. IsNetwork(next) /\ Range(last.latch) \ {l} \subseteq Range(next.latch)
        BY <3>2, <3>3, <3>4, <3>5, CleanLatchSound
      <3>7. AreThere(list, k, next)
        BY <2>1, <3>1, <3>2, <3>6, AreThereStill
      <3>8. k \in 0..N
        BY <2>1
      <3>9. ASSUME LatchesReached(n0)  PROVE next = n0
        <4>1. last = n0 /\ n0.fanout[l.output] /= <<>>
          BY <3>2, <3>3, <3>9, SeenIsUsed
        <4> QED BY <3>4, <3>5, <4>1 DEF CleanLatch
      <3> QED BY <3>5, <3>6, <3>7, <3>8, <3>9
    <2> HIDE DEF Q, N
    <2>8. \A k \in 0..N : k \in Q
      BY <2>1, <2>6, <2>7, UpTo
    <2>9. N \in 0..N
      BY <2>1
    <2>10. N \in Q
      BY <2>8, <2>9
    <2> QED BY <2>5, <2>10 DEF Q
  <1> QED BY <1>1, <1>2

\* network_cleanup_util keeps a network sound.
LEMMA CleanupSound ==
    ASSUME NEW n0, IsNetwork(n0), NIL \notin Nat, NEW flag \in BOOLEAN,
           NEW res, res = network_cleanup_util(n0, flag)
    PROVE  IsNetwork(res)
  <1> DEFINE N == MostTurns(n0)
  <1>1. N \in Nat
    BY TurnsAllowed
  <1>2. PICK f : IsCleaning(f, n0, flag)
    BY <1>1, CleanTurns
  <1>3. /\ f[0].net = n0 /\ res = f[N].net
        /\ \A k \in 1..N : f[k].net = CleanLatches(CleanNodes(f[k - 1].net), flag)
    BY <1>2 DEF IsCleaning
  <1> DEFINE Q == {k \in 0..N : IsNetwork(f[k].net)}
  <1> HIDE DEF N
  <1>4. 0 \in Q
    BY <1>1, <1>3
  <1>5. ASSUME NEW k \in 1..N, k - 1 \in Q  PROVE k \in Q
    <2>1. PICK last : last = f[k - 1].net
      OBVIOUS
    <2>2. IsNetwork(last)
      BY <1>5, <2>1
    <2>3. PICK next : next = CleanLatches(CleanNodes(last), flag)
      OBVIOUS
    <2>4. IsNetwork(next)
      <3>1. PICK some : some = CleanNodes(last)
        OBVIOUS
      <3>2. IsNetwork(some) /\ next = CleanLatches(some, flag)
        BY <2>2, <2>3, <3>1, CleanNodesSound
      <3> QED BY <3>2, CleanLatchesSound
    <2>5. f[k].net = next
      BY <1>3, <2>1, <2>3
    <2>6. k \in 0..N
      BY <1>1
    <2> QED BY <2>2, <2>4, <2>5, <2>6
  <1> HIDE DEF Q
  <1>6. \A k \in 0..N : k \in Q
    BY <1>1, <1>4, <1>5, UpTo
  <1>7. N \in 0..N
    BY <1>1
  <1>8. N \in Q
    BY <1>6, <1>7
  <1> QED BY <1>3, <1>8 DEF Q

\* Every internal node feeds another.
AllUsed(n0) == \A n \in DOMAIN n0.node : IsUsed(n0, n)

\* A turn of the loop where there is no more to sweep or to merge takes nodes
\* away, or is the last one that does anything.
LEMMA CleanTurnTakes ==
    ASSUME NEW n0, IsNetwork(n0), NIL \notin Nat, IsMerged(n0),
           NEW res, res = CleanLatches(CleanNodes(n0), TRUE)
    PROVE  /\ IsNetwork(res) /\ IsMerged(res)
           /\ AllUsed(res) \/ (DOMAIN res.node \subseteq DOMAIN n0.node /\ DOMAIN res.node /= DOMAIN n0.node)
           /\ AllUsed(n0) => res = n0
  <1>1. PICK some : some = CleanNodes(n0)
    OBVIOUS
  <1>2. IsNetwork(some) /\ AreCleaned(n0, Len(n0.nodes), some) /\ IsMerged(some)
    BY <1>1, CleanNodesSound
  <1>3. res = CleanLatches(some, TRUE)
    BY <1>1
  <1>4. res = some
    BY <1>2, <1>3, CleanLatchesSound DEF IsMerged, IsClean
  <1>5. DOMAIN n0.node = {n0.nodes[j] : j \in 1..Len(n0.nodes)}
    <2>1. NodesAreListed(n0.node, n0.nodes)
      BY NetworkHas
    <2> QED BY <2>1, RangeFacts DEF NodesAreListed
  <1>6. /\ AllUsed(some) \/ (DOMAIN some.node \subseteq DOMAIN n0.node /\ DOMAIN some.node /= DOMAIN n0.node)
        /\ AllUsed(n0) => some = n0
    BY <1>2, <1>5 DEF AreCleaned, AllUsed
  <1> QED BY <1>2, <1>4, <1>6

\* network_cleanup_util makes nothing to sweep or to merge, and leaves no node
\* that feeds nothing: it turns often enough.  Where there is none it does
\* nothing.
LEMMA CleanupCleans ==
    ASSUME NEW n0, IsNetwork(n0), NIL \notin Nat, IsMerged(n0),
           NEW res, res = network_cleanup_util(n0, TRUE)
    PROVE  IsNetwork(res) /\ IsMerged(res) /\ AllUsed(res) /\ (AllUsed(n0) => res = n0)
  <1> DEFINE N == MostTurns(n0)
  <1>1. N \in Nat /\ N = Len(n0.nodes) + 2 /\ Len(n0.nodes) \in Nat
    BY TurnsAllowed DEF MostTurns
  <1>2. PICK f : IsCleaning(f, n0, TRUE)
    BY <1>1, CleanTurns
  <1>3. /\ f[0].net = n0 /\ res = f[N].net
        /\ \A k \in 1..N : f[k].net = CleanLatches(CleanNodes(f[k - 1].net), TRUE)
    BY <1>2 DEF IsCleaning
  <1> DEFINE Q == {k \in 0..N : IsNetwork(f[k].net) /\ IsMerged(f[k].net)}
             done == {k \in 1..N : AllUsed(f[k].net)}
             P == [k \in 0..N |-> DOMAIN f[k].net.node]
  <1> HIDE DEF N
  <1>4. 0 \in Q /\ \A k \in 1..N : k - 1 \in Q => k \in Q
    <2>1. 0 \in Q
      BY <1>1, <1>3
    <2>2. ASSUME NEW k \in 1..N, k - 1 \in Q  PROVE k \in Q
      <3>1. PICK last, next : last = f[k - 1].net /\ next = f[k].net
        OBVIOUS
      <3>2. IsNetwork(last) /\ IsMerged(last) /\ next = CleanLatches(CleanNodes(last), TRUE)
        BY <1>3, <2>2, <3>1
      <3>3. IsNetwork(next) /\ IsMerged(next)
        BY <3>2, CleanTurnTakes
      <3> QED BY <1>1, <3>1, <3>3
    <2> QED BY <2>1, <2>2
  <1>5. \A k \in 0..N : k \in Q
    <2> HIDE DEF Q
    <2> QED BY <1>1, <1>4, UpTo
  <1>6. \A k \in 0..N : IsNetwork(f[k].net) /\ IsMerged(f[k].net)
    BY <1>5
  <1> HIDE DEF Q
  <1>7. ASSUME NEW k \in 1..N
        PROVE  /\ k \in done \/ (P[k] \subseteq P[k - 1] /\ P[k] /= P[k - 1])
               /\ k - 1 \in done => k \in done
    <2>1. PICK last, next : last = f[k - 1].net /\ next = f[k].net
      OBVIOUS
    <2>2. k - 1 \in 0..N /\ k \in 0..N
      BY <1>1
    <2>3. IsNetwork(last) /\ IsMerged(last) /\ next = CleanLatches(CleanNodes(last), TRUE)
      BY <1>3, <1>6, <2>1, <2>2
    <2>4. /\ \/ AllUsed(next)
             \/ DOMAIN next.node \subseteq DOMAIN last.node /\ DOMAIN next.node /= DOMAIN last.node
          /\ AllUsed(last) => next = last
      BY <2>3, CleanTurnTakes
    <2>5. P[k - 1] = DOMAIN last.node /\ P[k] = DOMAIN next.node
      BY <2>1, <2>2
    <2> QED BY <2>1, <2>4, <2>5
  <1>8. IsFiniteSet(P[0]) /\ Cardinality(P[0]) < N
    <2>1. NodesAreListed(n0.node, n0.nodes)
      BY NetworkHas
    <2>2. IsFiniteSet(DOMAIN n0.node) /\ Cardinality(DOMAIN n0.node) = Len(n0.nodes)
      BY <2>1, ListedFacts
    <2>3. P[0] = DOMAIN n0.node
      BY <1>1, <1>3
    <2> QED BY <1>1, <2>2, <2>3
  <1>9. N \in done
    <2> HIDE DEF P, done
    <2> QED BY <1>1, <1>7, <1>8, Dwindles
  <1>10. N \in 0..N
    BY <1>1
  <1>11. ASSUME AllUsed(n0)  PROVE res = n0
    <2> DEFINE R == {k \in 0..N : f[k].net = n0}
    <2>1. 0 \in R
      BY <1>1, <1>3
    <2>2. ASSUME NEW k \in 1..N, k - 1 \in R  PROVE k \in R
      <3>1. f[k].net = CleanLatches(CleanNodes(n0), TRUE)
        BY <1>3, <2>2
      <3>2. f[k].net = n0
        BY <1>11, <3>1, CleanTurnTakes
      <3> QED BY <1>1, <3>2
    <2> HIDE DEF R
    <2>3. \A k \in 0..N : k \in R
      BY <1>1, <2>1, <2>2, UpTo
    <2>4. N \in R
      BY <1>10, <2>3
    <2> QED BY <1>3, <2>4 DEF R
  <1> QED BY <1>3, <1>6, <1>9, <1>10, <1>11

-----------------------------------------------------------------------------
\* Latches are merged.

\* The order a set is gone through in has each member once.
LEMMA SetToSeqFacts ==
    ASSUME NEW S, IsFiniteSet(S), NEW s, s = SetToSeq(S)
    PROVE  /\ s \in Seq(S) /\ Len(s) \in Nat /\ \A k \in 1..Len(s) : s[k] \in S
           /\ \A j, k \in 1..Len(s) : s[j] = s[k] => j = k
           /\ S /= {} => Len(s) /= 0
  <1> DEFINE N == Cardinality(S)
  <1>1. N \in Nat /\ ExistsBijection(1..N, S)
    BY FS_CardinalityType
  <1>5. S /= {} => N /= 0
    BY FS_EmptySet
  <1>2. \E f \in [1..N -> S] : IsInjective(f)
    BY <1>1 DEF ExistsBijection, Bijection, Injection
  <1>3. s \in [1..N -> S] /\ IsInjective(s)
    BY <1>2 DEF SetToSeq
  <1> HIDE DEF N
  <1>4. s \in Seq(S) /\ Len(s) = N
    BY <1>1, <1>3
  <1> QED BY <1>1, <1>3, <1>4, <1>5, InjectiveFacts

\* A latch is found by its input.
LEMMA LatchOfFacts ==
    ASSUME NEW n0, IsNetwork(n0), NEW input, NEW l \in Range(n0.latch), l.input = input,
           NEW found, found = LatchOf(n0, input)
    PROVE  found = l
  <1> DEFINE I == {i \in 1..Len(n0.latch) : n0.latch[i].input = input}
  <1>1. LatchesAreListed(n0.node, n0.latch, n0.latch_table)
    BY NetworkHas
  <1>2. /\ \A m \in Range(n0.latch) : m.input = input => m = l
        /\ Range(n0.latch) = {n0.latch[i] : i \in 1..Len(n0.latch)} /\ Len(n0.latch) \in Nat
    BY <1>1, LatchFacts
  <1>3. I /= {} /\ I \subseteq Nat
    BY <1>2
  <1>4. found = n0.latch[IF I /= {} THEN Min(I) ELSE 0]
    BY DEF LatchOf, SelectInSeq
  <1> HIDE DEF I
  <1>5. Min(I) \in I
    BY <1>3, MinFacts, Zenon
  <1>6. found = n0.latch[Min(I)]
    BY <1>3, <1>4
  <1> QED BY <1>2, <1>5, <1>6 DEF I

\* The latches that one node feeds, each once.
AreFed(n0, fanin, ls) ==
    /\ \E N \in Nat : DOMAIN ls = 1..N
    /\ \A i \in DOMAIN ls : ls[i] \in Range(n0.latch) /\ n0.node[ls[i].input].fanin[1] = fanin
    /\ \A i, j \in DOMAIN ls : ls[i] = ls[j] => i = j

\* The latches that a node feeds are found from its fanout list.
LEMMA LatchesOnFacts ==
    ASSUME NEW n0, IsNetwork(n0), NIL \notin Nat, NEW fanin \in DOMAIN n0.node,
           NEW ls, ls = LatchesOn(n0, fanin)
    PROVE  AreFed(n0, fanin, ls)
  <1> DEFINE others == {use \in Range(n0.fanout[fanin]) : latch_from_node(n0, use[1]) = NIL}
             inputs == Minus(n0.fanout[fanin], others)
  <1>1. /\ NodesAreListed(n0.node, n0.nodes) /\ TerminalsAreListed(n0.node, n0.pi, n0.po)
        /\ FanoutsMirrorFanins(n0.node, n0.fanout)
        /\ LatchesAreListed(n0.node, n0.latch, n0.latch_table)
    BY NetworkHas
  <1>2. /\ n0.fanout[fanin] \in Seq(Nat \X Nat) /\ IsInjective(n0.fanout[fanin])
        /\ \A use \in Range(n0.fanout[fanin]) :
              /\ use[1] \in DOMAIN n0.node /\ use[2] \in DOMAIN n0.node[use[1]].fanin
              /\ n0.node[use[1]].fanin[use[2]] = fanin
    BY <1>1, MirrorFacts
  <1>3. inputs \in Seq(Nat \X Nat) /\ IsInjective(inputs)
        /\ Range(inputs) = Range(n0.fanout[fanin]) \ others
    BY <1>2, MinusFacts
  <1>4. ls = [i \in DOMAIN inputs |-> LatchOf(n0, inputs[i][1])]
    BY DEF LatchesOn
  <1>5. ASSUME NEW use \in Range(inputs)
        PROVE  /\ use[1] \in DOMAIN n0.node /\ n0.node[use[1]].fanin[1] = fanin /\ use[2] = 1
               /\ use \in Nat \X Nat
               /\ LatchOf(n0, use[1]) \in Range(n0.latch) /\ LatchOf(n0, use[1]).input = use[1]
    <2>1. use \in Range(n0.fanout[fanin]) /\ latch_from_node(n0, use[1]) /= NIL
      BY <1>3
    <2>2. PICK n, pin : n = use[1] /\ pin = use[2]
      OBVIOUS
    <2>3. n \in DOMAIN n0.node /\ pin \in DOMAIN n0.node[n].fanin /\ n0.node[n].fanin[pin] = fanin
      BY <1>2, <2>1, <2>2
    <2>4. n \in DOMAIN n0.latch_table /\ n0.latch_table[n] /= NIL
      BY <2>1, <2>2 DEF latch_from_node
    <2>5. PICK i \in 1..Len(n0.latch) : n \in {n0.latch[i].input, n0.latch[i].output}
      BY <1>1, <2>4 DEF LatchesAreListed
    <2>6. PICK l : l = n0.latch[i]
      OBVIOUS
    <2>7. l \in Range(n0.latch) /\ IsLatch(n0.node, n0.latch_table, l)
      BY <1>1, <2>6, LatchFacts
    <2>8. n0.node[n].type /= "PRIMARY_INPUT"
      <3>1. n0.node[n].fanin /= <<>>
        BY <2>3
      <3> QED BY <1>1, <2>3, <3>1 DEF TerminalsAreListed
    <2>9. n = l.input /\ n0.node[n].type = "PRIMARY_OUTPUT"
      BY <2>5, <2>6, <2>7, <2>8 DEF IsLatch
    <2>10. pin = 1
      <3>1. Len(n0.node[n].fanin) = 1
        BY <1>1, <2>3, <2>9 DEF TerminalsAreListed
      <3>2. IsNode(n0.node[n])
        BY <1>1, <2>3 DEF NodesAreListed
      <3>3. n0.node[n].fanin \in Seq(Nat)
        BY <3>2 DEF IsNode
      <3> QED BY <2>3, <3>1, <3>3
    <2>11. LatchOf(n0, n) = l
      BY <2>7, <2>9, LatchOfFacts
    <2>12. use \in Nat \X Nat
      BY <1>2, <2>1, RangeFacts
    <2> QED BY <2>2, <2>3, <2>7, <2>9, <2>10, <2>11, <2>12
  <1> HIDE DEF inputs
  <1>6. /\ DOMAIN inputs = 1..Len(inputs) /\ Len(inputs) \in Nat
        /\ \A i \in 1..Len(inputs) : inputs[i] \in Range(inputs)
        /\ \A i, j \in 1..Len(inputs) : inputs[i] = inputs[j] => i = j
    BY <1>3, RangeFacts, InjectiveFacts
  <1>7. \A i \in DOMAIN inputs : ls[i] = LatchOf(n0, inputs[i][1])
    BY <1>4
  <1>8. DOMAIN ls = 1..Len(inputs)
    BY <1>4, <1>6
  <1>9. \A i \in DOMAIN ls : ls[i] \in Range(n0.latch) /\ n0.node[ls[i].input].fanin[1] = fanin
        /\ ls[i].input = inputs[i][1]
    BY <1>5, <1>6, <1>7, <1>8
  <1>10. ASSUME NEW i \in DOMAIN ls, NEW j \in DOMAIN ls, ls[i] = ls[j]  PROVE i = j
    <2>1. inputs[i][1] = inputs[j][1]
      BY <1>9, <1>10
    <2>2. /\ inputs[i] \in Nat \X Nat /\ inputs[j] \in Nat \X Nat
          /\ inputs[i][2] = 1 /\ inputs[j][2] = 1
      BY <1>5, <1>6, <1>8
    <2>3. inputs[i] = inputs[j]
      BY <2>1, <2>2
    <2> QED BY <1>6, <1>8, <2>3
  <1> QED BY <1>6, <1>8, <1>9, <1>10 DEF AreFed

\* All the latches that it feeds are found.
LEMMA LatchesOnAll ==
    ASSUME NEW n0, IsNetwork(n0), NIL \notin Nat, NEW l \in Range(n0.latch),
           NEW fanin, fanin = n0.node[l.input].fanin[1], NEW ls, ls = LatchesOn(n0, fanin)
    PROVE  \E i \in DOMAIN ls : ls[i] = l
  <1> DEFINE others == {use \in Range(n0.fanout[fanin]) : latch_from_node(n0, use[1]) = NIL}
             inputs == Minus(n0.fanout[fanin], others)
  <1>1. /\ NodesAreListed(n0.node, n0.nodes) /\ FanoutsMirrorFanins(n0.node, n0.fanout)
        /\ LatchesAreListed(n0.node, n0.latch, n0.latch_table)
    BY NetworkHas
  <1>2. PICK x : x = l.input
    OBVIOUS
  <1>3. x \in DOMAIN n0.node /\ 1 \in DOMAIN n0.node[x].fanin /\ n0.node[x].fanin[1] = fanin
    BY <1>2, EndFacts
  <1>4. fanin \in DOMAIN n0.node
    BY <1>1, <1>3, SMTT(60) DEF NodesAreListed, Range
  <1>5. n0.fanout[fanin] \in Seq(Nat \X Nat) /\ IsInjective(n0.fanout[fanin])
        /\ <<x, 1>> \in Range(n0.fanout[fanin])
    BY <1>1, <1>3, <1>4, MirrorFacts
  <1>6. latch_from_node(n0, x) /= NIL
    <2>1. IsLatch(n0.node, n0.latch_table, l)
      BY <1>1, LatchFacts
    <2>2. x \in DOMAIN n0.latch_table /\ n0.latch_table[x] = x
      BY <1>2, <2>1 DEF IsLatch
    <2>3. x \in Nat
      <3>1. n0.nodes \in Seq(Nat) /\ x \in Range(n0.nodes)
        BY <1>1, <1>3, SMTT(60) DEF NodesAreListed
      <3> QED BY <3>1, RangeFacts
    <2> QED BY <2>2, <2>3 DEF latch_from_node
  <1>7. inputs \in Seq(Nat \X Nat) /\ Range(inputs) = Range(n0.fanout[fanin]) \ others
    BY <1>5, MinusFacts, ZenonT(60)
  <1>8. <<x, 1>> \in Range(inputs)
    BY <1>5, <1>6, <1>7, ZenonT(60)
  <1>9. ls = [i \in DOMAIN inputs |-> LatchOf(n0, inputs[i][1])]
    BY Zenon DEF LatchesOn
  <1> HIDE DEF inputs, others
  <1>10. PICK i \in DOMAIN inputs : inputs[i] = <<x, 1>>
    BY <1>8 DEF Range
  <1>11. i \in DOMAIN ls /\ ls[i] = LatchOf(n0, x)
    BY <1>9, <1>10
  <1>12. LatchOf(n0, x) = l
    BY <1>2, LatchOfFacts
  <1> QED BY <1>11, <1>12

\* r[1] is made redundant by r[2], which comes first among its equals.
IsRedundant(n0, r, fanin, j, m) ==
    LET ls == LatchesOn(n0, fanin)
    IN /\ AreFed(n0, fanin, ls)
       /\ j \in DOMAIN ls /\ m \in 1..(j - 1) /\ latch_equal(ls[m], ls[j])
       /\ \A i \in 1..j : latch_equal(ls[i], ls[j]) => m <= i
       /\ r = <<ls[j], ls[m]>>

\* One node feeds the two latches of a pair.
SameDriver(n0, r) == n0.node[r[1].input].fanin[1] = n0.node[r[2].input].fanin[1]

\* What it means to be one of the redundant latches.
LEMMA RedundantMeaning ==
    ASSUME NEW n0, IsNetwork(n0), NIL \notin Nat, NEW r \in RedundantLatches(n0)
    PROVE  \E fanin, j, m : IsRedundant(n0, r, fanin, j, m)
  <1>1. PICK fanin \in {n0.node[l.input].fanin[1] : l \in Range(n0.latch)} :
            LET ls == LatchesOn(n0, fanin)
            IN r \in {<<ls[j], ls[Min({i \in 1..j : latch_equal(ls[i], ls[j])})]>> :
                         j \in {k \in DOMAIN ls : \E i \in 1..(k - 1) : latch_equal(ls[i], ls[k])}}
    BY DEF RedundantLatches
  <1>2. PICK ls : ls = LatchesOn(n0, fanin)
    OBVIOUS
  <1>3. PICK j \in DOMAIN ls : /\ \E i \in 1..(j - 1) : latch_equal(ls[i], ls[j])
                               /\ r = <<ls[j], ls[Min({i \in 1..j : latch_equal(ls[i], ls[j])})]>>
    BY <1>1, <1>2
  <1>4. fanin \in DOMAIN n0.node
    <2>1. PICK l \in Range(n0.latch) : fanin = n0.node[l.input].fanin[1]
      BY <1>1
    <2>2. LatchesAreListed(n0.node, n0.latch, n0.latch_table) /\ NodesAreListed(n0.node, n0.nodes)
          /\ TerminalsAreListed(n0.node, n0.pi, n0.po)
      BY NetworkHas
    <2>3. IsLatch(n0.node, n0.latch_table, l)
      BY <2>2, LatchFacts
    <2>4. PICK n : n = l.input
      OBVIOUS
    <2>5. n \in DOMAIN n0.node /\ n0.node[n].type = "PRIMARY_OUTPUT"
      BY <2>3, <2>4 DEF IsLatch
    <2>6. Len(n0.node[n].fanin) = 1 /\ n0.node[n].fanin \in Seq(Nat)
          /\ Range(n0.node[n].fanin) \subseteq DOMAIN n0.node
      <3>1. IsNode(n0.node[n]) /\ Range(n0.node[n].fanin) \subseteq DOMAIN n0.node
        BY <2>2, <2>5 DEF NodesAreListed
      <3>2. Len(n0.node[n].fanin) = 1
        BY <2>2, <2>5 DEF TerminalsAreListed
      <3> QED BY <3>1, <3>2 DEF IsNode
    <2>7. 1 \in DOMAIN n0.node[n].fanin
      BY <2>6
    <2> QED BY <2>1, <2>4, <2>6, <2>7 DEF Range
  <1>5. AreFed(n0, fanin, ls)
    BY <1>2, <1>4, LatchesOnFacts
  <1>6. PICK N \in Nat : DOMAIN ls = 1..N
    BY <1>5 DEF AreFed
  <1> DEFINE S == {i \in 1..j : latch_equal(ls[i], ls[j])}
  <1>7. PICK k \in 1..(j - 1) : latch_equal(ls[k], ls[j])
    BY <1>3
  <1>8. k \in S /\ S \subseteq Nat
    BY <1>6, <1>7
  <1>9. PICK m : m = Min(S)
    OBVIOUS
  <1>10. r = <<ls[j], ls[m]>>
    BY <1>3, <1>9
  <1>11. m \in S /\ \A i \in S : m <= i
    <2> HIDE DEF S
    <2> QED BY <1>8, <1>9, MinFacts
  <1>12. m \in 1..(j - 1)
    BY <1>6, <1>7, <1>8, <1>11
  <1>13. latch_equal(ls[m], ls[j]) /\ \A i \in 1..j : latch_equal(ls[i], ls[j]) => m <= i
    BY <1>11
  <1>14. IsRedundant(n0, r, fanin, j, m)
    BY <1>2, <1>3, <1>5, <1>10, <1>12, <1>13 DEF IsRedundant
  <1> QED BY <1>14

\* The latches that go are none of those that stay for them, and each goes
\* once: no pair touches what another took away.
LEMMA RedundantFacts ==
    ASSUME NEW n0, IsNetwork(n0), NIL \notin Nat, NEW R, R = RedundantLatches(n0)
    PROVE  /\ \A r \in R : r = <<r[1], r[2]>> /\ r[1] \in Range(n0.latch)
              /\ r[2] \in Range(n0.latch) /\ SameDriver(n0, r)
           /\ \A r, s \in R : r[1] /= s[2]
           /\ \A r, s \in R : r[1] = s[1] => r = s
  <1>1. ASSUME NEW r \in R  PROVE r = <<r[1], r[2]>> /\ r[1] \in Range(n0.latch)
               /\ r[2] \in Range(n0.latch) /\ SameDriver(n0, r)
    <2>1. PICK fanin, j, m : IsRedundant(n0, r, fanin, j, m)
      BY RedundantMeaning
    <2>2. PICK ls : ls = LatchesOn(n0, fanin)
      OBVIOUS
    <2>3. AreFed(n0, fanin, ls) /\ j \in DOMAIN ls /\ m \in 1..(j - 1) /\ r = <<ls[j], ls[m]>>
      BY <2>1, <2>2 DEF IsRedundant
    <2>4. m \in DOMAIN ls
      BY <2>3 DEF AreFed
    <2>5. r[1] = ls[j] /\ r[2] = ls[m]
      BY <2>3
    <2> QED BY <2>3, <2>4, <2>5 DEF AreFed, SameDriver
  <1>2. ASSUME NEW r \in R, NEW s \in R, NEW fanin, NEW j, NEW m, IsRedundant(n0, r, fanin, j, m),
               NEW fanin2, NEW j2, NEW m2, IsRedundant(n0, s, fanin2, j2, m2)
        PROVE  r[1] /= s[2] /\ (r[1] = s[1] => r = s)
    <2>1. PICK ls, ls2 : ls = LatchesOn(n0, fanin) /\ ls2 = LatchesOn(n0, fanin2)
      OBVIOUS
    <2>2. /\ AreFed(n0, fanin, ls) /\ j \in DOMAIN ls /\ m \in 1..(j - 1)
          /\ latch_equal(ls[m], ls[j])
          /\ \A i \in 1..j : latch_equal(ls[i], ls[j]) => m <= i
          /\ r = <<ls[j], ls[m]>>
      BY <1>2, <2>1 DEF IsRedundant
    <2>3. /\ AreFed(n0, fanin2, ls2) /\ j2 \in DOMAIN ls2 /\ m2 \in 1..(j2 - 1)
          /\ latch_equal(ls2[m2], ls2[j2])
          /\ \A i \in 1..j2 : latch_equal(ls2[i], ls2[j2]) => m2 <= i
          /\ s = <<ls2[j2], ls2[m2]>>
      BY <1>2, <2>1 DEF IsRedundant
    <2>4. PICK N \in Nat, N2 \in Nat : DOMAIN ls = 1..N /\ DOMAIN ls2 = 1..N2
      BY <2>2, <2>3 DEF AreFed
    <2>5. m \in DOMAIN ls /\ m2 \in DOMAIN ls2 /\ j \in Nat /\ j2 \in Nat /\ m \in Nat /\ m2 \in Nat
      BY <2>2, <2>3, <2>4
    <2>6. ASSUME r[1] = s[2]  PROVE FALSE
      <3>1. ls[j] = ls2[m2]
        BY <2>2, <2>3, <2>6
      <3>2. fanin = fanin2
        BY <2>2, <2>3, <2>5, <3>1 DEF AreFed
      <3>3. ls2 = ls
        BY <2>1, <3>2
      <3>4. m2 = j
        BY <2>2, <2>5, <3>1, <3>3 DEF AreFed
      <3>5. latch_equal(ls[m], ls[j2])
        BY <2>2, <2>3, <3>3, <3>4 DEF latch_equal
      <3>6. m \in 1..j2
        BY <2>2, <2>3, <2>5, <3>4
      <3>7. m2 <= m
        BY <2>3, <3>3, <3>5, <3>6
      <3> QED BY <2>2, <2>5, <3>4, <3>7
    <2>7. ASSUME r[1] = s[1]  PROVE r = s
      <3>1. ls[j] = ls2[j2]
        BY <2>2, <2>3, <2>7
      <3>2. fanin = fanin2
        BY <2>2, <2>3, <3>1 DEF AreFed
      <3>3. ls2 = ls
        BY <2>1, <3>2
      <3>4. j2 = j
        BY <2>2, <2>3, <3>1, <3>3 DEF AreFed
      <3>5. m2 \in 1..j /\ m \in 1..j
        BY <2>2, <2>3, <2>5, <3>4
      <3>6. m <= m2 /\ m2 <= m
        BY <2>2, <2>3, <3>3, <3>4, <3>5
      <3>7. m = m2
        BY <2>5, <3>6
      <3> QED BY <2>2, <2>3, <3>3, <3>4, <3>7
    <2> QED BY <2>6, <2>7
  <1>3. ASSUME NEW r \in R, NEW s \in R  PROVE r[1] /= s[2] /\ (r[1] = s[1] => r = s)
    <2>1. PICK fanin, j, m : IsRedundant(n0, r, fanin, j, m)
      BY RedundantMeaning
    <2>2. PICK fanin2, j2, m2 : IsRedundant(n0, s, fanin2, j2, m2)
      BY RedundantMeaning
    <2> QED BY <1>2, <2>1, <2>2
  <1> QED BY <1>1, <1>3

\* There is a redundant latch where two that one node feeds are equal.
LEMMA NoneRedundant ==
    ASSUME NEW n0, IsNetwork(n0), NIL \notin Nat
    PROVE  RedundantLatches(n0) = {} <=> LatchesDiffer(n0)
  <1>1. ASSUME NEW fanin, NEW ls, ls = LatchesOn(n0, fanin),
               NEW l \in Range(n0.latch), n0.node[l.input].fanin[1] = fanin,
               NEW i \in Nat, NEW j \in DOMAIN ls, i \in 1..(j - 1), latch_equal(ls[i], ls[j])
        PROVE  RedundantLatches(n0) /= {}
    <2>1. PICK r : r = <<ls[j], ls[Min({h \in 1..j : latch_equal(ls[h], ls[j])})]>>
      OBVIOUS
    <2> DEFINE later(x) == {k \in DOMAIN x : \E h \in 1..(k - 1) : latch_equal(x[h], x[k])}
               pairs(x) == {<<x[k], x[Min({h \in 1..k : latch_equal(x[h], x[k])})]>> : k \in later(x)}
               drivers == {n0.node[k.input].fanin[1] : k \in Range(n0.latch)}
    <2>3. j \in later(ls)
      BY <1>1
    <2>4. r \in pairs(ls)
      <3> HIDE DEF later
      <3> QED BY <2>1, <2>3
    <2>5. fanin \in drivers
      BY <1>1
    <2>6. RedundantLatches(n0) = UNION {pairs(LatchesOn(n0, x)) : x \in drivers}
      BY DEF RedundantLatches
    <2> HIDE DEF pairs, drivers
    <2>7. pairs(LatchesOn(n0, fanin)) \in {pairs(LatchesOn(n0, x)) : x \in drivers}
      BY <2>5
    <2>2. r \in RedundantLatches(n0)
      BY <1>1, <2>4, <2>6, <2>7
    <2> QED BY <2>2
  <1>2. ASSUME NEW l \in Range(n0.latch), NEW m \in Range(n0.latch), l /= m,
               n0.node[l.input].fanin[1] = n0.node[m.input].fanin[1], latch_equal(l, m)
        PROVE  RedundantLatches(n0) /= {}
    <2>1. PICK fanin : fanin = n0.node[l.input].fanin[1]
      OBVIOUS
    <2>2. PICK ls : ls = LatchesOn(n0, fanin)
      OBVIOUS
    <2>3. PICK i \in DOMAIN ls : ls[i] = l
      BY <2>1, <2>2, LatchesOnAll
    <2>4. PICK j \in DOMAIN ls : ls[j] = m
      BY <1>2, <2>1, <2>2, LatchesOnAll
    <2>5. fanin \in DOMAIN n0.node
      <3>1. NodesAreListed(n0.node, n0.nodes)
        BY NetworkHas
      <3>2. l.input \in DOMAIN n0.node /\ 1 \in DOMAIN n0.node[l.input].fanin
        BY EndFacts
      <3> QED BY <2>1, <3>1, <3>2 DEF NodesAreListed, Range
    <2>6. PICK N \in Nat : DOMAIN ls = 1..N
      BY <2>2, <2>5, LatchesOnFacts DEF AreFed
    <2>7. latch_equal(ls[i], ls[j]) /\ latch_equal(ls[j], ls[i])
      BY <1>2, <2>3, <2>4 DEF latch_equal
    <2>8. i \in Nat /\ j \in Nat /\ (i \in 1..(j - 1) \/ j \in 1..(i - 1))
      BY <1>2, <2>3, <2>4, <2>6
    <2> QED BY <1>1, <2>1, <2>2, <2>7, <2>8
  <1>3. ASSUME NEW r \in RedundantLatches(n0), LatchesDiffer(n0)  PROVE FALSE
    <2>1. PICK fanin, j, m : IsRedundant(n0, r, fanin, j, m)
      BY RedundantMeaning
    <2>2. PICK ls : ls = LatchesOn(n0, fanin)
      OBVIOUS
    <2>3. AreFed(n0, fanin, ls) /\ j \in DOMAIN ls /\ m \in 1..(j - 1) /\ latch_equal(ls[m], ls[j])
      BY <2>1, <2>2 DEF IsRedundant
    <2>4. m \in DOMAIN ls /\ m /= j
      BY <2>3 DEF AreFed
    <2>5. ls[m] = ls[j]
      BY <1>3, <2>3, <2>4 DEF AreFed, LatchesDiffer
    <2> QED BY <2>3, <2>4, <2>5 DEF AreFed
  <1> QED BY <1>2, <1>3 DEF LatchesDiffer

\* A latch that another makes redundant is merged into it.
Merged(n0, r) == DeleteLatchAndEnds(PatchFanouts(n0, r[1].output, r[2].output), r[1])

\* The results of the turns of the loop.
IsMerging(f, n0) ==
    /\ f[0] = n0
    /\ \A k \in 1..Len(SetToSeq(RedundantLatches(n0))) : f[k]
         = Merged(f[k - 1], SetToSeq(RedundantLatches(n0))[k])
    /\ MergeRedundant(n0) = f[Len(SetToSeq(RedundantLatches(n0)))]

\* There is such a list of results.
LEMMA MergeLoop ==
    ASSUME NEW n0, Len(SetToSeq(RedundantLatches(n0))) \in Nat
    PROVE  \E f : IsMerging(f, n0)
  <1> DEFINE last == Len(SetToSeq(RedundantLatches(n0)))
             Turn(r, k) == Merged(r, SetToSeq(RedundantLatches(n0))[k])
             Start == n0
             G(f, m) == f = [k \in 0..m |-> IF k = 0 THEN Start ELSE Turn(f[k - 1], k)]
             S == {m \in 0..last : \E f : G(f, m)}
  <1>0. last \in Nat
    OBVIOUS
  <1>1. MergeRedundant(n0) = (CHOOSE f : G(f, last))[last]
    BY DEF MergeRedundant, ForEach, Merged
  <1> HIDE DEF Turn, Start, last
  <1>2. \E f : G(f, 0)
    <2>1. G([k \in 0..0 |-> Start], 0)
      OBVIOUS
    <2> HIDE DEF G
    <2> QED BY <2>1
  <1>3. ASSUME NEW m \in 1..last, NEW f, G(f, m - 1)  PROVE \E g : G(g, m)
    <2> DEFINE g == [k \in 0..m |-> IF k = m THEN Turn(f[m - 1], m) ELSE f[k]]
    <2>1. ASSUME NEW k \in 0..m
          PROVE  g[k] = IF k = 0 THEN Start ELSE Turn(g[k - 1], k)
      <3>1. CASE k = m
        <4>1. g[m] = Turn(f[m - 1], m) /\ m \in 0..m /\ m /= 0 /\ g[m - 1] = f[m - 1]
          BY <1>0
        <4> HIDE DEF g
        <4> QED BY <3>1, <4>1
      <3>2. CASE k /= m
        <4>1. k \in 0..(m - 1)
          BY <1>0, <3>2
        <4>2. f[k] = IF k = 0 THEN Start ELSE Turn(f[k - 1], k)
          BY <1>3, <4>1
        <4>3. g[k] = f[k] /\ (k /= 0 => g[k - 1] = f[k - 1])
          BY <1>0, <3>2, <4>1
        <4> HIDE DEF g
        <4> QED BY <4>2, <4>3
      <3> QED BY <3>1, <3>2
    <2>2. g = [k \in 0..m |-> g[k]]
      OBVIOUS
    <2>3. G(g, m)
      BY <2>1, <2>2
    <2> HIDE DEF G, g
    <2> QED BY <2>3
  <1>4. \E f : G(f, last)
    <2> HIDE DEF G
    <2>1. 0 \in S
      BY <1>0, <1>2
    <2>2. \A m \in 1..last : m - 1 \in S => m \in S
      BY <1>0, <1>3
    <2> HIDE DEF S
    <2>3. \A m \in 0..last : m \in S
      BY <1>0, <2>1, <2>2, UpTo
    <2>4. last \in S
      BY <1>0, <2>3
    <2> QED BY <2>4 DEF S
  <1> DEFINE F == CHOOSE f : G(f, last)
  <1>5. G(F, last)
    <2> HIDE DEF G
    <2> QED BY <1>4
  <1> HIDE DEF F
  <1>6. \A k \in 0..last : F[k] = IF k = 0 THEN Start ELSE Turn(F[k - 1], k)
    <2>1. \A k \in 0..last : [j \in 0..last |-> IF j = 0 THEN Start ELSE Turn(F[j - 1], j)][k]
                             = IF k = 0 THEN Start ELSE Turn(F[k - 1], k)
      OBVIOUS
    <2> QED BY <1>5, <2>1, Zenon
  <1>7. F[0] = Start /\ \A k \in 1..last : F[k] = Turn(F[k - 1], k)
    <2>1. 0 \in 0..last /\ \A k \in 1..last : k \in 0..last /\ k /= 0
      BY <1>0
    <2> QED BY <1>6, <2>1, Zenon
  <1>8. MergeRedundant(n0) = F[last]
    BY <1>1 DEF F
  <1>9. IsMerging(F, n0)
    BY <1>7, <1>8, Zenon DEF IsMerging, Turn, Start, last
  <1> QED BY <1>9

\* The turns of a loop that runs while something changes.
IsMergingAll(f, n0) ==
    /\ f[0].net = n0
    /\ \A k \in 1..MostTurns(n0) : f[k].net = MergeRedundant(f[k - 1].net)
    /\ MergeLatches(n0) = f[MostTurns(n0)].net

\* There is such a list of results.
LEMMA MergeTurns ==
    ASSUME NEW n0, MostTurns(n0) \in Nat
    PROVE  \E f : IsMergingAll(f, n0)
  <1> DEFINE last == MostTurns(n0)
             Turn(r, k) == IF r.changed
                   THEN [net |-> MergeRedundant(r.net), changed |-> MergeRedundant(r.net) /= r.net]
                     ELSE r
             Start == [net |-> n0, changed |-> TRUE]
             G(f, m) == f = [k \in 0..m |-> IF k = 0 THEN Start ELSE Turn(f[k - 1], k)]
             S == {m \in 0..last : \E f : G(f, m)}
  <1>0. last \in Nat
    OBVIOUS
  <1>1. MergeLatches(n0) = (CHOOSE f : G(f, last))[last].net
    BY DEF MergeLatches, Repeat
  <1> HIDE DEF Turn, Start, last
  <1>2. \E f : G(f, 0)
    <2>1. G([k \in 0..0 |-> Start], 0)
      OBVIOUS
    <2> HIDE DEF G
    <2> QED BY <2>1
  <1>3. ASSUME NEW m \in 1..last, NEW f, G(f, m - 1)  PROVE \E g : G(g, m)
    <2> DEFINE g == [k \in 0..m |-> IF k = m THEN Turn(f[m - 1], m) ELSE f[k]]
    <2>1. ASSUME NEW k \in 0..m
          PROVE  g[k] = IF k = 0 THEN Start ELSE Turn(g[k - 1], k)
      <3>1. CASE k = m
        <4>1. g[m] = Turn(f[m - 1], m) /\ m \in 0..m /\ m /= 0 /\ g[m - 1] = f[m - 1]
          BY <1>0
        <4> HIDE DEF g
        <4> QED BY <3>1, <4>1
      <3>2. CASE k /= m
        <4>1. k \in 0..(m - 1)
          BY <1>0, <3>2
        <4>2. f[k] = IF k = 0 THEN Start ELSE Turn(f[k - 1], k)
          BY <1>3, <4>1
        <4>3. g[k] = f[k] /\ (k /= 0 => g[k - 1] = f[k - 1])
          BY <1>0, <3>2, <4>1
        <4> HIDE DEF g
        <4> QED BY <4>2, <4>3
      <3> QED BY <3>1, <3>2
    <2>2. g = [k \in 0..m |-> g[k]]
      OBVIOUS
    <2>3. G(g, m)
      BY <2>1, <2>2
    <2> HIDE DEF G, g
    <2> QED BY <2>3
  <1>4. \E f : G(f, last)
    <2> HIDE DEF G
    <2>1. 0 \in S
      BY <1>0, <1>2
    <2>2. \A m \in 1..last : m - 1 \in S => m \in S
      BY <1>0, <1>3
    <2> HIDE DEF S
    <2>3. \A m \in 0..last : m \in S
      BY <1>0, <2>1, <2>2, UpTo
    <2>4. last \in S
      BY <1>0, <2>3
    <2> QED BY <2>4 DEF S
  <1> DEFINE F == CHOOSE f : G(f, last)
  <1>5. G(F, last)
    <2> HIDE DEF G
    <2> QED BY <1>4
  <1> HIDE DEF F
  <1>6. \A k \in 0..last : F[k] = IF k = 0 THEN Start ELSE Turn(F[k - 1], k)
    <2>1. \A k \in 0..last : [j \in 0..last |-> IF j = 0 THEN Start ELSE Turn(F[j - 1], j)][k]
                             = IF k = 0 THEN Start ELSE Turn(F[k - 1], k)
      OBVIOUS
    <2> QED BY <1>5, <2>1, Zenon
  <1>7. F[0] = Start /\ \A k \in 1..last : F[k] = Turn(F[k - 1], k)
    <2>1. 0 \in 0..last /\ \A k \in 1..last : k \in 0..last /\ k /= 0
      BY <1>0
    <2> QED BY <1>6, <2>1, Zenon
  <1>8. MergeLatches(n0) = F[last].net
    BY <1>1 DEF F
  <1>9. F[0].net = n0 /\ \A k \in 1..last : F[k].net = MergeRedundant(F[k - 1].net)
    <2> DEFINE p == [k \in 1..last |-> MergeRedundant(F[k - 1].net)]
    <2>1. F[0].net = n0 /\ F[0].changed
      BY <1>7 DEF Start
    <2>2. \A k \in 1..last : p[k] = MergeRedundant(F[k - 1].net)
      OBVIOUS
    <2>3. \A k \in 1..last :
            F[k] = IF F[k - 1].changed THEN [net |-> p[k], changed |-> p[k] /= F[k - 1].net]
                   ELSE F[k - 1]
      <3>1. ASSUME NEW k \in 1..last, NEW q, q = p[k]
            PROVE  F[k] = IF F[k - 1].changed THEN [net |-> q, changed |-> q /= F[k - 1].net]
                          ELSE F[k - 1]
        <4>1. F[k] = Turn(F[k - 1], k) /\ q = MergeRedundant(F[k - 1].net)
          BY <1>7, <2>2, <3>1
        <4> QED BY <4>1, Zenon DEF Turn
      <3> QED BY <3>1
    <2>4. \A j, k \in 1..last : F[j - 1].net = F[k - 1].net => p[j] = p[k]
      BY <2>2
    <2> HIDE DEF p
    <2>5. \A k \in 1..last : F[k].net = p[k]
      BY <1>0, <2>1, <2>3, <2>4, RepeatTurns
    <2> QED BY <2>1, <2>2, <2>5
  <1>10. IsMergingAll(F, n0)
    BY <1>8, <1>9, Zenon DEF IsMergingAll, last
  <1> QED BY <1>10

\* Merging a latch into another keeps a network sound and the other latches.
LEMMA MergedSound ==
    ASSUME NEW n0, IsNetwork(n0), NIL \notin Nat,
           NEW r, r[1] \in Range(n0.latch), r[2] \in Range(n0.latch),
           r[1] /= r[2], NEW res, res = Merged(n0, r)
    PROVE  IsNetwork(res) /\ IsReplaced(n0, res, r[1], r[2].output)
  <1>1. PICK l, m : l = r[1] /\ m = r[2]
    OBVIOUS
  <1>2. LatchesAreListed(n0.node, n0.latch, n0.latch_table)
        /\ TerminalsAreListed(n0.node, n0.pi, n0.po)
    BY NetworkHas
  <1>3. /\ IsLatch(n0.node, n0.latch_table, l) /\ IsLatch(n0.node, n0.latch_table, m)
        /\ (l.input = m.input => l = m)
    BY <1>1, <1>2, LatchFacts
  <1>4. m.output \in DOMAIN n0.node /\ n0.node[m.output].type = "PRIMARY_INPUT"
        /\ m.output /= l.output
    BY <1>1, <1>3 DEF IsLatch
  <1>5. n0.node[m.output].fanin = <<>>
    BY <1>2, <1>4 DEF TerminalsAreListed
  <1>6. PICK new : new = m.output
    OBVIOUS
  <1>7. res = DeleteLatchAndEnds(PatchFanouts(n0, l.output, new), l)
    BY <1>1, <1>6 DEF Merged
  <1>8. IsNetwork(res) /\ IsReplaced(n0, res, l, new)
    <2>1. /\ new \in DOMAIN n0.node /\ new /= l.output
          /\ n0.node[new].type = "PRIMARY_INPUT" /\ n0.node[new].fanin = <<>>
      BY <1>4, <1>5, <1>6
    <2>2. n0.node[new].type /= "PRIMARY_OUTPUT"
      BY <2>1
    <2>3. l \in Range(n0.latch)
      BY <1>1
    <2> QED BY <1>7, <2>1, <2>2, <2>3, ReplaceLatchSound
  <1> QED BY <1>1, <1>6, <1>8

\* Merging two latches leaves nothing to sweep.
LEMMA MergedSwept ==
    ASSUME NEW n0, IsNetwork(n0), NEW l \in Range(n0.latch), NEW m \in Range(n0.latch), l /= m,
           NEW res, IsNetwork(res), IsReplaced(n0, res, l, m.output), AllSwept(n0)
    PROVE  AllSwept(res)
  <1>1. /\ NodesAreListed(n0.node, n0.nodes) /\ TerminalsAreListed(n0.node, n0.pi, n0.po)
        /\ NodesAreListed(res.node, res.nodes)
    BY NetworkHas
  <1>2. /\ n0.node[l.input].type = "PRIMARY_OUTPUT" /\ m.output /= l.output
        /\ n0.node[m.output].type = "PRIMARY_INPUT" /\ m.output \in DOMAIN n0.node
    BY EndFacts
  <1>3. /\ DOMAIN res.node = DOMAIN n0.node \ {l.input, l.output}
        /\ \A n \in DOMAIN res.node :
            /\ res.node[n].type = n0.node[n].type /\ res.node[n].F = n0.node[n].F
            /\ DOMAIN res.node[n].fanin = DOMAIN n0.node[n].fanin
            /\ \A i \in DOMAIN n0.node[n].fanin :
                res.node[n].fanin[i] = IF n0.node[n].fanin[i] = l.output THEN m.output
                                       ELSE n0.node[n].fanin[i]
    BY DEF IsReplaced, IsDetached
  <1>4. ASSUME NEW n \in DOMAIN res.node, NEW i \in Sweepable(res, n)  PROVE FALSE
    <2>1. PICK x, y : x = n0.node[n].fanin[i] /\ y = res.node[n].fanin[i]
      OBVIOUS
    <2>2. /\ i \in DOMAIN n0.node[n].fanin /\ n \in DOMAIN n0.node
          /\ y = IF x = l.output THEN m.output ELSE x
          /\ IF n0.node[n].type = "PRIMARY_OUTPUT" THEN IsBuffer(res.node[y]) ELSE IsPlain(res.node[y])
      BY <1>3, <1>4, <2>1, SweepablePins
    <2>3. x \in DOMAIN n0.node /\ n0.node[x].type /= "PRIMARY_OUTPUT"
      BY <1>1, <2>1, <2>2 DEF NodesAreListed, TerminalsAreListed, Range
    <2>4. CASE x = l.output
      <3>1. m.output \in DOMAIN res.node
        BY <1>2, <1>3
      <3>2. res.node[y].type = "PRIMARY_INPUT"
        BY <1>2, <1>3, <2>2, <2>4, <3>1
      <3> QED BY <2>2, <3>2 DEF IsPlain, IsConstant, IsBuffer, IsInverter
    <2>5. CASE x /= l.output
      <3>1. y = x /\ x \in DOMAIN res.node
        BY <1>2, <1>3, <2>2, <2>3, <2>5
      <3>2. IsNode(n0.node[x]) /\ IsNode(res.node[x])
        BY <1>1, <2>3, <3>1 DEF NodesAreListed
      <3>3. (IsPlain(res.node[x]) => IsPlain(n0.node[x])) /\ (IsBuffer(res.node[x]) => IsBuffer(n0.node[x]))
        BY <1>3, <3>1, <3>2, SameIsPlain
      <3>4. i \in Sweepable(n0, n)
        BY <2>1, <2>2, <3>1, <3>3, SweepablePins
      <3> QED BY <2>2, <3>4 DEF AllSwept
    <2> QED BY <2>4, <2>5
  <1> QED BY <1>4 DEF AllSwept

\* A node with as many fanins and the same function is as constant.
LEMMA SameIsConstant ==
    ASSUME NEW nd, NEW nd2, IsNode(nd), IsNode(nd2), nd2.type = nd.type,
           DOMAIN nd2.fanin = DOMAIN nd.fanin, IsConstant(nd2)
    PROVE  IsConstant(nd)
  <1>1. PICK s, t : s = nd.fanin /\ t = nd2.fanin
    OBVIOUS
  <1>2. s \in Seq(Nat) /\ t = <<>> /\ DOMAIN t = DOMAIN s
    BY <1>1 DEF IsNode, IsConstant
  <1>3. s = <<>>
    BY <1>2
  <1> QED BY <1>1, <1>3 DEF IsConstant

\* A latch that varies does so when the other latch takes the place of the one
\* that goes.
LEMMA MergedVary ==
    ASSUME NEW n0, IsNetwork(n0), NEW l \in Range(n0.latch), NEW m \in Range(n0.latch), l /= m,
           NEW res, IsNetwork(res), IsReplaced(n0, res, l, m.output), LatchesVary(n0)
    PROVE  LatchesVary(res)
  <1>1. /\ NodesAreListed(n0.node, n0.nodes) /\ TerminalsAreListed(n0.node, n0.pi, n0.po)
        /\ NodesAreListed(res.node, res.nodes)
    BY NetworkHas
  <1>2. /\ n0.node[l.input].type = "PRIMARY_OUTPUT" /\ m.output /= l.output
        /\ n0.node[l.output].type = "PRIMARY_INPUT"
        /\ n0.node[m.output].type = "PRIMARY_INPUT" /\ m.output \in DOMAIN n0.node
    BY EndFacts
  <1>3. /\ DOMAIN res.node = DOMAIN n0.node \ {l.input, l.output}
        /\ Range(res.latch) = Range(n0.latch) \ {l}
        /\ \A n \in DOMAIN res.node :
            /\ res.node[n].type = n0.node[n].type /\ res.node[n].F = n0.node[n].F
            /\ DOMAIN res.node[n].fanin = DOMAIN n0.node[n].fanin
            /\ \A i \in DOMAIN n0.node[n].fanin :
                res.node[n].fanin[i] = IF n0.node[n].fanin[i] = l.output THEN m.output
                                       ELSE n0.node[n].fanin[i]
    BY DEF IsReplaced, IsDetached
  <1>4. ASSUME NEW k \in Range(res.latch), IsConstantLatch(res, k)  PROVE FALSE
    <2>1. k \in Range(n0.latch) /\ k /= l
      BY <1>3, <1>4
    <2>2. PICK x : x = k.input
      OBVIOUS
    <2>3. /\ x \in DOMAIN n0.node /\ n0.node[x].type = "PRIMARY_OUTPUT"
          /\ DOMAIN n0.node[x].fanin = {1} /\ x /= l.input
      BY <2>1, <2>2, EndFacts
    <2>4. x \in DOMAIN res.node
      BY <1>2, <1>3, <2>3
    <2>5. PICK d, e : d = n0.node[x].fanin[1] /\ e = res.node[x].fanin[1]
      OBVIOUS
    <2>6. e = IF d = l.output THEN m.output ELSE d
      BY <1>3, <2>3, <2>4, <2>5
    <2>7. d \in DOMAIN n0.node /\ n0.node[d].type /= "PRIMARY_OUTPUT"
      BY <1>1, <2>3, <2>5, SMTT(60) DEF NodesAreListed, TerminalsAreListed, Range
    <2>8. IsConstant(res.node[e]) /\ k.initial_value \in {2, IF res.node[e].F = {} THEN 0 ELSE 1}
      BY <1>4, <2>2, <2>5, Zenon DEF IsConstantLatch
    <2>9. CASE d = l.output
      <3>1. m.output \in DOMAIN res.node
        BY <1>2, <1>3
      <3>2. res.node[e].type = "PRIMARY_INPUT"
        BY <1>2, <1>3, <2>6, <2>9, <3>1
      <3> QED BY <2>8, <3>2 DEF IsConstant
    <2>10. CASE d /= l.output
      <3>1. e = d /\ d \in DOMAIN res.node
        BY <1>2, <1>3, <2>6, <2>7, <2>10
      <3>2. IsNode(n0.node[d]) /\ IsNode(res.node[d])
        BY <1>1, <2>7, <3>1 DEF NodesAreListed
      <3>3. IsConstant(n0.node[d]) /\ res.node[d].F = n0.node[d].F
        BY <1>3, <2>8, <3>1, <3>2, SameIsConstant, SMTT(60)
      <3>4. IsConstantLatch(n0, k)
        BY <2>2, <2>5, <2>8, <3>1, <3>3, Zenon DEF IsConstantLatch
      <3> QED BY <2>1, <3>4 DEF LatchesVary
    <2> QED BY <2>9, <2>10
  <1> QED BY <1>4 DEF LatchesVary

\* What was seen through the latch that goes is seen through the other one,
\* which the same node feeds.
LEMMA MergedReached ==
    ASSUME NEW n0, IsNetwork(n0), NIL \notin Nat, NEW l \in Range(n0.latch),
           NEW m \in Range(n0.latch), l /= m,
           n0.node[l.input].fanin[1] = n0.node[m.input].fanin[1],
           NEW res, IsNetwork(res), IsReplaced(n0, res, l, m.output), LatchesReached(n0)
    PROVE  LatchesReached(res)
  <1>1. PICK seen : seen = snetwork_tfi_po(res)
    OBVIOUS
  <1>2. seen \subseteq DOMAIN res.node /\ IsClosed(res, seen)
    BY <1>1, TfiFacts
  <1>3. /\ DOMAIN res.node = DOMAIN n0.node \ {l.input, l.output}
        /\ DOMAIN res.latch_table = DOMAIN n0.latch_table \ {l.input, l.output}
        /\ Range(res.latch) = Range(n0.latch) \ {l}
        /\ \A n \in DOMAIN res.node :
            /\ res.node[n].type = n0.node[n].type
            /\ DOMAIN res.node[n].fanin = DOMAIN n0.node[n].fanin
            /\ \A i \in DOMAIN n0.node[n].fanin :
                res.node[n].fanin[i] = IF n0.node[n].fanin[i] = l.output THEN m.output
                                       ELSE n0.node[n].fanin[i]
    BY DEF IsReplaced, IsDetached
  <1>4. \A k \in {l, m} :
            /\ k.input \in DOMAIN n0.node /\ n0.node[k.input].type = "PRIMARY_OUTPUT"
            /\ k.output \in DOMAIN n0.node /\ n0.node[k.output].type = "PRIMARY_INPUT"
            /\ k.input \in DOMAIN n0.latch_table /\ k.output \in DOMAIN n0.latch_table
            /\ Range(n0.node[k.output].fanin) = {} /\ DOMAIN n0.node[k.input].fanin = {1}
    BY EndFacts, SMTT(60)
  <1>5. \A k \in Range(n0.latch) : /\ k.output = l.output => k = l
                                   /\ n0.node[k.output].type = "PRIMARY_INPUT"
    BY EndFacts
  <1> DEFINE more == IF m.output \in seen THEN {l.input, l.output} ELSE {}
             all == seen \union more
  <1>6. RealPos(n0) \subseteq all
    <2>1. RealPos(n0) \subseteq RealPos(res)
      BY <1>3, <1>4 DEF RealPos
    <2> QED BY <1>2, <2>1 DEF IsClosed
  <1>7. ASSUME NEW n \in seen, NEW y \in Sources(n0, n)  PROVE y \in all
    <2>1. n \in DOMAIN res.node /\ n /= l.output /\ Sources(res, n) \subseteq seen
      BY <1>2, <1>3, <1>7 DEF IsClosed
    <2>2. ASSUME NEW i \in DOMAIN n0.node[n].fanin, y = n0.node[n].fanin[i]  PROVE y \in all
      <3>1. PICK z : z = res.node[n].fanin[i]
        OBVIOUS
      <3>2. i \in DOMAIN res.node[n].fanin /\ z = IF y = l.output THEN m.output ELSE y
        BY <1>3, <2>1, <2>2, <3>1
      <3>3. z \in Sources(res, n)
        BY <3>1, <3>2 DEF Sources, Range
      <3> QED BY <2>1, <3>2, <3>3
    <2>3. ASSUME NEW k \in Range(n0.latch), k.output = n, y = k.input  PROVE y \in all
      <3>1. k \in Range(res.latch)
        BY <1>3, <2>1, <2>3
      <3>2. y \in Sources(res, n)
        BY <2>3, <3>1 DEF Sources
      <3> QED BY <2>1, <3>2
    <2> HIDE DEF all
    <2> QED BY <1>7, <2>2, <2>3 DEF Sources, Range
  <1>8. ASSUME m.output \in seen  PROVE Sources(n0, l.output) \union Sources(n0, l.input) \subseteq all
    <2>1. l.input \in all /\ l.output \in all
      BY <1>8
    <2>2. Sources(n0, l.output) = {l.input}
      BY <1>4, <1>5 DEF Sources
    <2>3. PICK d : d = n0.node[l.input].fanin[1]
      OBVIOUS
    <2>4. Sources(n0, l.input) = {d}
      <3>1. {k \in Range(n0.latch) : k.output = l.input} = {}
        BY <1>4, <1>5
      <3>2. Range(n0.node[l.input].fanin) = {d}
        BY <1>4, <2>3 DEF Range
      <3> QED BY <3>1, <3>2 DEF Sources
    <2>5. m \in Range(res.latch) /\ m.input \in Sources(res, m.output)
      <3>1. m \in Range(res.latch)
        BY <1>3
      <3> QED BY <3>1 DEF Sources
    <2>6. m.input \in seen /\ Sources(res, m.input) \subseteq seen
      BY <1>2, <1>8, <2>5 DEF IsClosed
    <2>7. PICK z : z = res.node[m.input].fanin[1]
      OBVIOUS
    <2>8. 1 \in DOMAIN res.node[m.input].fanin /\ z = IF d = l.output THEN m.output ELSE d
      BY <1>2, <1>3, <1>4, <2>3, <2>6, <2>7
    <2>9. z \in Sources(res, m.input)
      BY <2>7, <2>8 DEF Sources, Range
    <2>10. d \in all
      BY <2>1, <2>6, <2>8, <2>9
    <2> QED BY <2>1, <2>2, <2>4, <2>10
  <1>9. IsClosed(n0, all)
    <2>1. ASSUME NEW n \in more  PROVE Sources(n0, n) \subseteq all
      BY <1>8, <2>1
    <2> HIDE DEF more
    <2>2. \A n \in all : Sources(n0, n) \subseteq all
      BY <1>7, <2>1
    <2> HIDE DEF all
    <2> QED BY <1>6, <2>2 DEF IsClosed
  <1>10. snetwork_tfi_po(n0) \subseteq all
    BY <1>9, TfiFacts
  <1>11. ASSUME NEW k \in Range(res.latch)  PROVE k.output \in seen
    <2>1. k \in Range(n0.latch) /\ k /= l
      BY <1>3, <1>11
    <2>2. k.output \in all /\ k.output /= l.output /\ k.output /= l.input
      BY <1>4, <1>5, <1>10, <2>1 DEF LatchesReached
    <2> QED BY <2>2
  <1> QED BY <1>1, <1>11 DEF LatchesReached

\* Pairs that one node feeds are such pairs still.
LEMMA MergedDrivers ==
    ASSUME NEW n0, IsNetwork(n0), NEW l \in Range(n0.latch), NEW m,
           NEW res, IsReplaced(n0, res, l, m),
           NEW p, p[1] \in Range(n0.latch) \ {l}, p[2] \in Range(n0.latch) \ {l}, SameDriver(n0, p)
    PROVE  SameDriver(res, p)
  <1>1. ASSUME NEW k \in Range(n0.latch) \ {l}
        PROVE  res.node[k.input].fanin[1] = IF n0.node[k.input].fanin[1] = l.output THEN m
                                            ELSE n0.node[k.input].fanin[1]
    <2>1. /\ k.input \in DOMAIN n0.node /\ n0.node[k.input].type = "PRIMARY_OUTPUT"
          /\ DOMAIN n0.node[k.input].fanin = {1}
      BY EndFacts
    <2>2. n0.node[l.output].type = "PRIMARY_INPUT" /\ k.input /= l.input
      BY EndFacts
    <2>3. k.input \in DOMAIN res.node
      BY <2>1, <2>2 DEF IsReplaced, IsDetached
    <2> QED BY <2>1, <2>3 DEF IsReplaced
  <1> QED BY <1>1 DEF SameDriver

\* The latches of the pairs from some place on are there still, and those
\* that stay.
PairsAreThere(list, k, res) ==
    \A j \in 1..Len(list) :
        /\ k < j => list[j][1] \in Range(res.latch) /\ SameDriver(res, list[j])
        /\ list[j][2] \in Range(res.latch)

\* Merging all the redundant latches keeps a network sound, and clean if it was
\* so, in any order.  It takes latches away, unless there are none to merge
\* and it changes nothing.
LEMMA MergeRedundantSound ==
    ASSUME NEW n0, IsNetwork(n0), NIL \notin Nat, NEW res, res = MergeRedundant(n0)
    PROVE  /\ IsNetwork(res) /\ (IsClean(n0) => IsClean(res))
           /\ IF LatchesDiffer(n0) THEN res = n0
              ELSE Range(res.latch) \subseteq Range(n0.latch) /\ Range(res.latch) /= Range(n0.latch)
  <1>1. PICK R : R = RedundantLatches(n0)
    OBVIOUS
  <1>2. /\ \A r \in R : /\ r = <<r[1], r[2]>> /\ r[1] \in Range(n0.latch)
                      /\ r[2] \in Range(n0.latch) /\ SameDriver(n0, r)
        /\ \A r, s \in R : r[1] /= s[2]
        /\ \A r, s \in R : r[1] = s[1] => r = s
    BY <1>1, RedundantFacts
  <1>3. IsFiniteSet(R)
    <2> DEFINE first == [r \in R |-> r[1]]  T == Range(n0.latch)
    <2>1. IsFiniteSet(T)
      <3>1. LatchesAreListed(n0.node, n0.latch, n0.latch_table)
        BY NetworkHas
      <3>2. n0.latch \in Seq(Range(n0.latch)) /\ Len(n0.latch) \in Nat
        BY <3>1, LatchFacts
      <3>3. IsFiniteSet(1..Len(n0.latch))
        BY <3>2, FS_Interval
      <3>4. n0.latch \in Surjection(1..Len(n0.latch), Range(n0.latch))
        BY <3>2 DEF Surjection, Range
      <3> QED BY <3>3, <3>4, FS_Surjection
    <2>2. first \in Injection(R, T)
      BY <1>2 DEF Injection, IsInjective
    <2> HIDE DEF first, T
    <2> QED BY <2>1, <2>2, FS_Injection
  <1>4. PICK list : list = SetToSeq(R)
    OBVIOUS
  <1> DEFINE N == Len(list)
  <1>5. N \in Nat /\ (\A k \in 1..N : list[k] \in R)
        /\ \A j, k \in 1..N : list[j] = list[k] => j = k
    BY <1>3, <1>4, SetToSeqFacts
  <1>6. PICK f : IsMerging(f, n0)
    BY <1>1, <1>4, <1>5, MergeLoop
  <1>7. /\ f[0] = n0 /\ res = f[N]
        /\ \A k \in 1..N : f[k] = Merged(f[k - 1], list[k])
    BY <1>1, <1>4, <1>6 DEF IsMerging
  <1> DEFINE Q == {k \in 0..N : IsNetwork(f[k]) /\ PairsAreThere(list, k, f[k])
                                /\ (IsClean(n0) => IsClean(f[k]))
                                /\ Range(f[k].latch) \subseteq Range(n0.latch)
                                /\ (k > 0 => list[k][1] \notin Range(f[k].latch))}
  <1>8. 0 \in Q
    <2>1. PairsAreThere(list, 0, f[0])
      BY <1>2, <1>5, <1>7 DEF PairsAreThere
    <2> QED BY <1>5, <1>7, <2>1
  <1>9. ASSUME NEW k \in 1..N, k - 1 \in Q  PROVE k \in Q
    <2>1. PICK last, r : last = f[k - 1] /\ r = list[k]
      OBVIOUS
    <2>2. /\ IsNetwork(last) /\ PairsAreThere(list, k - 1, last) /\ (IsClean(n0) => IsClean(last))
          /\ Range(last.latch) \subseteq Range(n0.latch)
      BY <1>9, <2>1
    <2>3. /\ r \in R /\ r[1] \in Range(last.latch) /\ r[2] \in Range(last.latch) /\ r[1] /= r[2]
          /\ SameDriver(last, r)
      <3>1. k - 1 < k /\ k \in 1..Len(list)
        BY <1>5
      <3> QED BY <1>2, <1>5, <2>1, <2>2, <3>1 DEF PairsAreThere
    <2>4. PICK next : next = f[k]
      OBVIOUS
    <2>5. next = Merged(last, r)
      BY <1>7, <2>1, <2>4
    <2>6. IsNetwork(next) /\ IsReplaced(last, next, r[1], r[2].output)
      BY <2>2, <2>3, <2>5, MergedSound
    <2>9. Range(next.latch) = Range(last.latch) \ {r[1]}
      BY <2>6 DEF IsReplaced, IsDetached
    <2>10. IsClean(last) => IsClean(next)
      <3>1. PICK l, m : l = r[1] /\ m = r[2]
        OBVIOUS
      <3>2. /\ l \in Range(last.latch) /\ m \in Range(last.latch) /\ l /= m
            /\ last.node[l.input].fanin[1] = last.node[m.input].fanin[1]
            /\ IsReplaced(last, next, l, m.output)
        BY <2>3, <2>6, <3>1 DEF SameDriver
      <3>3. AllSwept(last) => AllSwept(next)
        BY <2>2, <2>6, <3>2, MergedSwept
      <3>4. LatchesReached(last) => LatchesReached(next)
        BY <2>2, <2>6, <3>2, MergedReached
      <3>5. LatchesVary(last) => LatchesVary(next)
        BY <2>2, <2>6, <3>2, MergedVary
      <3> QED BY <3>3, <3>4, <3>5 DEF IsClean
    <2>7. PairsAreThere(list, k, next)
      <3>1. ASSUME NEW j \in 1..Len(list), k < j
            PROVE  list[j][1] \in Range(next.latch) /\ SameDriver(next, list[j])
        <4>1. k - 1 < j /\ j /= k
          BY <1>5, <3>1
        <4>2. /\ list[j][1] \in Range(last.latch) /\ list[j][2] \in Range(last.latch)
              /\ SameDriver(last, list[j])
          BY <2>2, <4>1 DEF PairsAreThere
        <4>3. list[j][1] /= r[1]
          BY <1>2, <1>5, <2>1, <4>1
        <4>4. list[j][2] /= r[1]
          BY <1>2, <1>5, <2>3
        <4>5. SameDriver(next, list[j])
          BY <2>2, <2>3, <2>6, <4>2, <4>3, <4>4, MergedDrivers
        <4> QED BY <2>9, <4>2, <4>3, <4>5
      <3>2. ASSUME NEW j \in 1..Len(list)  PROVE list[j][2] \in Range(next.latch)
        <4>1. list[j][2] \in Range(last.latch)
          BY <2>2 DEF PairsAreThere
        <4>2. list[j][2] /= r[1]
          BY <1>2, <1>5, <2>3
        <4> QED BY <2>9, <4>1, <4>2
      <3> QED BY <3>1, <3>2 DEF PairsAreThere
    <2>8. k \in 0..N
      BY <1>5
    <2>11. /\ Range(next.latch) \subseteq Range(n0.latch)
           /\ list[k][1] \notin Range(next.latch)
      BY <2>1, <2>2, <2>9
    <2> QED BY <2>2, <2>4, <2>6, <2>7, <2>8, <2>10, <2>11
  <1> HIDE DEF Q, N
  <1>10. \A k \in 0..N : k \in Q
    BY <1>5, <1>8, <1>9, UpTo
  <1>11. N \in 0..N
    BY <1>5
  <1>12. N \in Q
    BY <1>10, <1>11
  <1>13. CASE LatchesDiffer(n0)
    <2>1. R = {}
      BY <1>1, <1>13, NoneRedundant
    <2>2. N = 0
      BY <1>5, <2>1 DEF N
    <2> QED BY <1>7, <1>12, <1>13, <2>2 DEF Q
  <1>14. CASE ~LatchesDiffer(n0)
    <2>1. PICK r : r \in R
      BY <1>1, <1>14, NoneRedundant
    <2>2. N > 0
      <3>1. N /= 0
        BY <1>3, <1>4, <2>1, SetToSeqFacts DEF N
      <3> QED BY <1>5, <3>1
    <2>3. list[N] \in R
      BY <1>5, <2>2
    <2>4. list[N][1] \in Range(n0.latch) /\ list[N][1] \notin Range(res.latch)
          /\ Range(res.latch) \subseteq Range(n0.latch)
      BY <1>2, <1>7, <1>12, <2>2, <2>3 DEF Q
    <2>5. IsNetwork(res) /\ (IsClean(n0) => IsClean(res))
      BY <1>7, <1>12 DEF Q
    <2> QED BY <1>14, <2>4, <2>5
  <1> QED BY <1>13, <1>14

\* So does doing it until there are none: it is done often enough.  Where there
\* are none it does nothing.
LEMMA MergeLatchesSound ==
    ASSUME NEW n0, IsNetwork(n0), NIL \notin Nat, NEW res, res = MergeLatches(n0)
    PROVE  /\ IsNetwork(res) /\ (IsClean(n0) => IsClean(res)) /\ LatchesDiffer(res)
           /\ LatchesDiffer(n0) => res = n0
  <1> DEFINE N == MostTurns(n0)
  <1>1. N \in Nat /\ N = Len(n0.nodes) + 2 /\ Len(n0.nodes) \in Nat
    BY TurnsAllowed DEF MostTurns
  <1>2. PICK f : IsMergingAll(f, n0)
    BY <1>1, MergeTurns
  <1>3. /\ f[0].net = n0 /\ res = f[N].net
        /\ \A k \in 1..N : f[k].net = MergeRedundant(f[k - 1].net)
    BY <1>2 DEF IsMergingAll
  <1> DEFINE Q == {k \in 0..N : /\ IsNetwork(f[k].net) /\ (IsClean(n0) => IsClean(f[k].net))
                               /\ (LatchesDiffer(n0) => f[k].net = n0)}
             done == {k \in 1..N : LatchesDiffer(f[k].net)}
             P == [k \in 0..N |-> Inputs(f[k].net)]
  <1> HIDE DEF N
  <1>4. 0 \in Q
    BY <1>1, <1>3
  <1>5. ASSUME NEW k \in 1..N, k - 1 \in Q  PROVE k \in Q
    <2>1. PICK last : last = f[k - 1].net
      OBVIOUS
    <2>2. /\ IsNetwork(last) /\ (IsClean(n0) => IsClean(last))
          /\ LatchesDiffer(n0) => last = n0
      BY <1>5, <2>1
    <2>3. PICK next : next = MergeRedundant(last)
      OBVIOUS
    <2>4. /\ IsNetwork(next) /\ (IsClean(last) => IsClean(next))
          /\ LatchesDiffer(last) => next = last
      BY <2>2, <2>3, MergeRedundantSound
    <2>5. f[k].net = next
      BY <1>3, <2>1, <2>3
    <2>6. k \in 0..N
      BY <1>1
    <2> QED BY <2>2, <2>4, <2>5, <2>6
  <1>6. \A k \in 0..N : k \in Q
    <2> HIDE DEF Q
    <2> QED BY <1>1, <1>4, <1>5, UpTo
  <1>7. \A k \in 0..N : /\ IsNetwork(f[k].net) /\ (IsClean(n0) => IsClean(f[k].net))
                        /\ LatchesDiffer(n0) => f[k].net = n0
    BY <1>6
  <1> HIDE DEF Q
  <1>8. ASSUME NEW k \in 1..N
        PROVE  /\ k \in done \/ (P[k] \subseteq P[k - 1] /\ P[k] /= P[k - 1])
               /\ k - 1 \in done => k \in done
    <2>1. PICK last, next : last = f[k - 1].net /\ next = f[k].net
      OBVIOUS
    <2>2. k - 1 \in 0..N /\ k \in 0..N
      BY <1>1
    <2>3. IsNetwork(last) /\ next = MergeRedundant(last)
      BY <1>3, <1>7, <2>1, <2>2
    <2>4. IF LatchesDiffer(last) THEN next = last
          ELSE Range(next.latch) \subseteq Range(last.latch) /\ Range(next.latch) /= Range(last.latch)
      BY <2>3, MergeRedundantSound
    <2>5. LatchesDiffer(next) \/ (Inputs(next) \subseteq Inputs(last) /\ Inputs(next) /= Inputs(last))
      BY <2>3, <2>4, LessInputs
    <2>6. P[k - 1] = Inputs(last) /\ P[k] = Inputs(next)
      BY <2>1, <2>2
    <2> QED BY <2>1, <2>4, <2>5, <2>6
  <1>9. IsFiniteSet(P[0]) /\ Cardinality(P[0]) < N
    <2>1. IsFiniteSet(Inputs(n0)) /\ Cardinality(Inputs(n0)) <= Len(n0.nodes)
      BY FewInputs
    <2>2. P[0] = Inputs(n0)
      BY <1>1, <1>3
    <2>3. Cardinality(P[0]) \in Nat
      BY <2>1, <2>2, FS_CardinalityType
    <2> HIDE DEF P
    <2> QED BY <1>1, <2>1, <2>2, <2>3
  <1>10. N \in done
    <2> HIDE DEF P, done
    <2> QED BY <1>1, <1>8, <1>9, Dwindles
  <1>11. N \in 0..N
    BY <1>1
  <1> QED BY <1>3, <1>7, <1>10, <1>11

-----------------------------------------------------------------------------
\* A network is collapsed, and the four sweeps as a whole.

\* A step of network_collapse_single keeps a network sound.
LEMMA CollapseFaninSound ==
    ASSUME NEW n0, IsNetwork(n0), NEW n \in DOMAIN n0.node, NEW res, res = CollapseFanin(n0, n)
    PROVE  IsNetwork(res) /\ SameKinds(res, n0)
  <1> DEFINE S == {i \in DOMAIN n0.node[n].fanin : IsCollapsible(n0, n, n0.node[n].fanin[i])}
  <1>1. CASE S = {}
    <2>1. res = n0
      BY <1>1 DEF CollapseFanin
    <2> QED BY <2>1, SameKindsFacts
  <1>2. CASE S /= {}
    <2>1. NodesAreListed(n0.node, n0.nodes)
      BY NetworkHas
    <2>2. IsNode(n0.node[n])
      BY <2>1 DEF NodesAreListed
    <2>3. n0.node[n].fanin \in Seq(Nat)
      BY <2>2 DEF IsNode
    <2>4. S \subseteq Nat
      BY <2>3
    <2>5. PICK pin : pin = Min(S)
      OBVIOUS
    <2>6. pin \in S
      <3> HIDE DEF S
      <3> QED BY <1>2, <2>4, <2>5, MinFacts
    <2>7. PICK g : g = n0.node[n].fanin[pin]
      OBVIOUS
    <2>8. IsCollapsible(n0, n, g)
      BY <2>6, <2>7
    <2>9. res = node_collapse(n0, n, g)
      BY <1>2, <2>5, <2>7 DEF CollapseFanin
    <2>10. IsNetwork(res) /\ SameLists(res, n0) /\ IsCollapsed(n0, res, n, g)
      BY <2>8, <2>9, CollapseSound
    <2> QED BY <2>10 DEF SameKinds, IsCollapsed
  <1> QED BY <1>1, <1>2

\* The turns of a loop that runs while something changes.
IsCollapsing(f, n0, n) ==
    /\ f[0].net = n0
    /\ \A k \in 1..MostTurns(n0) : f[k].net = CollapseFanin(f[k - 1].net, n)
    /\ network_collapse_single(n0, n) = f[MostTurns(n0)].net

\* There is such a list of results.
LEMMA CollapseTurns ==
    ASSUME NEW n0, NEW n, MostTurns(n0) \in Nat
    PROVE  \E f : IsCollapsing(f, n0, n)
  <1> DEFINE last == MostTurns(n0)
             Turn(r, k) == IF r.changed
                   THEN [net |-> CollapseFanin(r.net, n),
                     changed |-> CollapseFanin(r.net, n) /= r.net] ELSE r
             Start == [net |-> n0, changed |-> TRUE]
             G(f, m) == f = [k \in 0..m |-> IF k = 0 THEN Start ELSE Turn(f[k - 1], k)]
             S == {m \in 0..last : \E f : G(f, m)}
  <1>0. last \in Nat
    OBVIOUS
  <1>1. network_collapse_single(n0, n) = (CHOOSE f : G(f, last))[last].net
    BY DEF network_collapse_single, Repeat
  <1> HIDE DEF Turn, Start, last
  <1>2. \E f : G(f, 0)
    <2>1. G([k \in 0..0 |-> Start], 0)
      OBVIOUS
    <2> HIDE DEF G
    <2> QED BY <2>1
  <1>3. ASSUME NEW m \in 1..last, NEW f, G(f, m - 1)  PROVE \E g : G(g, m)
    <2> DEFINE g == [k \in 0..m |-> IF k = m THEN Turn(f[m - 1], m) ELSE f[k]]
    <2>1. ASSUME NEW k \in 0..m
          PROVE  g[k] = IF k = 0 THEN Start ELSE Turn(g[k - 1], k)
      <3>1. CASE k = m
        <4>1. g[m] = Turn(f[m - 1], m) /\ m \in 0..m /\ m /= 0 /\ g[m - 1] = f[m - 1]
          BY <1>0
        <4> HIDE DEF g
        <4> QED BY <3>1, <4>1
      <3>2. CASE k /= m
        <4>1. k \in 0..(m - 1)
          BY <1>0, <3>2
        <4>2. f[k] = IF k = 0 THEN Start ELSE Turn(f[k - 1], k)
          BY <1>3, <4>1
        <4>3. g[k] = f[k] /\ (k /= 0 => g[k - 1] = f[k - 1])
          BY <1>0, <3>2, <4>1
        <4> HIDE DEF g
        <4> QED BY <4>2, <4>3
      <3> QED BY <3>1, <3>2
    <2>2. g = [k \in 0..m |-> g[k]]
      OBVIOUS
    <2>3. G(g, m)
      BY <2>1, <2>2
    <2> HIDE DEF G, g
    <2> QED BY <2>3
  <1>4. \E f : G(f, last)
    <2> HIDE DEF G
    <2>1. 0 \in S
      BY <1>0, <1>2
    <2>2. \A m \in 1..last : m - 1 \in S => m \in S
      BY <1>0, <1>3
    <2> HIDE DEF S
    <2>3. \A m \in 0..last : m \in S
      BY <1>0, <2>1, <2>2, UpTo
    <2>4. last \in S
      BY <1>0, <2>3
    <2> QED BY <2>4 DEF S
  <1> DEFINE F == CHOOSE f : G(f, last)
  <1>5. G(F, last)
    <2> HIDE DEF G
    <2> QED BY <1>4
  <1> HIDE DEF F
  <1>6. \A k \in 0..last : F[k] = IF k = 0 THEN Start ELSE Turn(F[k - 1], k)
    <2>1. \A k \in 0..last : [j \in 0..last |-> IF j = 0 THEN Start ELSE Turn(F[j - 1], j)][k]
                             = IF k = 0 THEN Start ELSE Turn(F[k - 1], k)
      OBVIOUS
    <2> QED BY <1>5, <2>1, Zenon
  <1>7. F[0] = Start /\ \A k \in 1..last : F[k] = Turn(F[k - 1], k)
    <2>1. 0 \in 0..last /\ \A k \in 1..last : k \in 0..last /\ k /= 0
      BY <1>0
    <2> QED BY <1>6, <2>1, Zenon
  <1>8. network_collapse_single(n0, n) = F[last].net
    BY <1>1 DEF F
  <1>9. F[0].net = n0 /\ \A k \in 1..last : F[k].net = CollapseFanin(F[k - 1].net, n)
    <2> DEFINE p == [k \in 1..last |-> CollapseFanin(F[k - 1].net, n)]
    <2>1. F[0].net = n0 /\ F[0].changed
      BY <1>7 DEF Start
    <2>2. \A k \in 1..last : p[k] = CollapseFanin(F[k - 1].net, n)
      OBVIOUS
    <2>3. \A k \in 1..last :
            F[k] = IF F[k - 1].changed THEN [net |-> p[k], changed |-> p[k] /= F[k - 1].net]
                   ELSE F[k - 1]
      <3>1. ASSUME NEW k \in 1..last, NEW q, q = p[k]
            PROVE  F[k] = IF F[k - 1].changed THEN [net |-> q, changed |-> q /= F[k - 1].net]
                          ELSE F[k - 1]
        <4>1. F[k] = Turn(F[k - 1], k) /\ q = CollapseFanin(F[k - 1].net, n)
          BY <1>7, <2>2, <3>1
        <4> QED BY <4>1, Zenon DEF Turn
      <3> QED BY <3>1
    <2>4. \A j, k \in 1..last : F[j - 1].net = F[k - 1].net => p[j] = p[k]
      BY <2>2
    <2> HIDE DEF p
    <2>5. \A k \in 1..last : F[k].net = p[k]
      BY <1>0, <2>1, <2>3, <2>4, RepeatTurns
    <2> QED BY <2>1, <2>2, <2>5
  <1>10. IsCollapsing(F, n0, n)
    BY <1>8, <1>9, Zenon DEF IsCollapsing, last
  <1> QED BY <1>10

\* network_collapse_single keeps a network sound.
LEMMA CollapseSingleSound ==
    ASSUME NEW n0, IsNetwork(n0), NEW n \in DOMAIN n0.node,
           NEW res, res = network_collapse_single(n0, n)
    PROVE  IsNetwork(res) /\ SameKinds(res, n0)
  <1> DEFINE N == MostTurns(n0)
  <1>1. N \in Nat
    BY TurnsAllowed
  <1>2. PICK f : IsCollapsing(f, n0, n)
    BY <1>1, CollapseTurns
  <1>3. /\ f[0].net = n0 /\ res = f[N].net
        /\ \A k \in 1..N : f[k].net = f[k - 1].net \/ f[k].net = CollapseFanin(f[k - 1].net, n)
    BY <1>2 DEF IsCollapsing
  <1> DEFINE Q == {k \in 0..N : IsNetwork(f[k].net) /\ SameKinds(f[k].net, n0)}
  <1> HIDE DEF N
  <1>4. 0 \in Q
    BY <1>1, <1>3, SameKindsFacts
  <1>5. ASSUME NEW k \in 1..N, k - 1 \in Q  PROVE k \in Q
    <2>1. PICK last : last = f[k - 1].net
      OBVIOUS
    <2>2. IsNetwork(last) /\ SameKinds(last, n0)
      BY <1>5, <2>1
    <2>3. n \in DOMAIN last.node
      BY <2>2 DEF SameKinds
    <2>4. PICK next : next = CollapseFanin(last, n)
      OBVIOUS
    <2>5. IsNetwork(next) /\ SameKinds(next, last)
      BY <2>2, <2>3, <2>4, CollapseFaninSound
    <2>6. SameKinds(next, n0)
      BY <2>2, <2>5, SameKindsFacts
    <2>7. f[k].net = last \/ f[k].net = next
      BY <1>3, <2>1, <2>4
    <2>8. IsNetwork(f[k].net) /\ SameKinds(f[k].net, n0)
      BY <2>2, <2>5, <2>6, <2>7
    <2>9. k \in 0..N
      BY <1>1
    <2> QED BY <2>8, <2>9
  <1> HIDE DEF Q
  <1>6. \A k \in 0..N : k \in Q
    BY <1>1, <1>4, <1>5, UpTo
  <1>7. N \in 0..N
    BY <1>1
  <1>8. N \in Q
    BY <1>6, <1>7
  <1> QED BY <1>3, <1>8 DEF Q

\* The results of the turns of the loop.
IsCollapsingAll(f, n0) ==
    /\ f[0] = n0
    /\ \A k \in 1..Len(network_dfs(n0)) : f[k]
         = network_collapse_single(f[k - 1], network_dfs(n0)[k])
    /\ ForEach(network_collapse_single, n0, network_dfs(n0)) = f[Len(network_dfs(n0))]

\* There is such a list of results.
LEMMA CollapseNodesLoop ==
    ASSUME NEW n0, Len(network_dfs(n0)) \in Nat
    PROVE  \E f : IsCollapsingAll(f, n0)
  <1> DEFINE last == Len(network_dfs(n0))
             Turn(r, k) == network_collapse_single(r, network_dfs(n0)[k])
             Start == n0
             G(f, m) == f = [k \in 0..m |-> IF k = 0 THEN Start ELSE Turn(f[k - 1], k)]
             S == {m \in 0..last : \E f : G(f, m)}
  <1>0. last \in Nat
    OBVIOUS
  <1>1. ForEach(network_collapse_single, n0, network_dfs(n0)) = (CHOOSE f : G(f, last))[last]
    BY DEF ForEach
  <1> HIDE DEF Turn, Start, last
  <1>2. \E f : G(f, 0)
    <2>1. G([k \in 0..0 |-> Start], 0)
      OBVIOUS
    <2> HIDE DEF G
    <2> QED BY <2>1
  <1>3. ASSUME NEW m \in 1..last, NEW f, G(f, m - 1)  PROVE \E g : G(g, m)
    <2> DEFINE g == [k \in 0..m |-> IF k = m THEN Turn(f[m - 1], m) ELSE f[k]]
    <2>1. ASSUME NEW k \in 0..m
          PROVE  g[k] = IF k = 0 THEN Start ELSE Turn(g[k - 1], k)
      <3>1. CASE k = m
        <4>1. g[m] = Turn(f[m - 1], m) /\ m \in 0..m /\ m /= 0 /\ g[m - 1] = f[m - 1]
          BY <1>0
        <4> HIDE DEF g
        <4> QED BY <3>1, <4>1
      <3>2. CASE k /= m
        <4>1. k \in 0..(m - 1)
          BY <1>0, <3>2
        <4>2. f[k] = IF k = 0 THEN Start ELSE Turn(f[k - 1], k)
          BY <1>3, <4>1
        <4>3. g[k] = f[k] /\ (k /= 0 => g[k - 1] = f[k - 1])
          BY <1>0, <3>2, <4>1
        <4> HIDE DEF g
        <4> QED BY <4>2, <4>3
      <3> QED BY <3>1, <3>2
    <2>2. g = [k \in 0..m |-> g[k]]
      OBVIOUS
    <2>3. G(g, m)
      BY <2>1, <2>2
    <2> HIDE DEF G, g
    <2> QED BY <2>3
  <1>4. \E f : G(f, last)
    <2> HIDE DEF G
    <2>1. 0 \in S
      BY <1>0, <1>2
    <2>2. \A m \in 1..last : m - 1 \in S => m \in S
      BY <1>0, <1>3
    <2> HIDE DEF S
    <2>3. \A m \in 0..last : m \in S
      BY <1>0, <2>1, <2>2, UpTo
    <2>4. last \in S
      BY <1>0, <2>3
    <2> QED BY <2>4 DEF S
  <1> DEFINE F == CHOOSE f : G(f, last)
  <1>5. G(F, last)
    <2> HIDE DEF G
    <2> QED BY <1>4
  <1> HIDE DEF F
  <1>6. \A k \in 0..last : F[k] = IF k = 0 THEN Start ELSE Turn(F[k - 1], k)
    <2>1. \A k \in 0..last : [j \in 0..last |-> IF j = 0 THEN Start ELSE Turn(F[j - 1], j)][k]
                             = IF k = 0 THEN Start ELSE Turn(F[k - 1], k)
      OBVIOUS
    <2> QED BY <1>5, <2>1, Zenon
  <1>7. F[0] = Start /\ \A k \in 1..last : F[k] = Turn(F[k - 1], k)
    <2>1. 0 \in 0..last /\ \A k \in 1..last : k \in 0..last /\ k /= 0
      BY <1>0
    <2> QED BY <1>6, <2>1, Zenon
  <1>8. ForEach(network_collapse_single, n0, network_dfs(n0)) = F[last]
    BY <1>1 DEF F
  <1>9. IsCollapsingAll(F, n0)
    BY <1>7, <1>8, Zenon DEF IsCollapsingAll, Turn, Start, last
  <1> QED BY <1>9

\* Collapsing every node keeps a network sound.
LEMMA CollapseNodesSound ==
    ASSUME NEW n0, IsNetwork(n0),
           NEW res, res = ForEach(network_collapse_single, n0, network_dfs(n0))
    PROVE  IsNetwork(res)
  <1>1. PICK list : list = network_dfs(n0)
    OBVIOUS
  <1>2. Len(list) \in Nat /\ \A k \in 1..Len(list) : list[k] \in DOMAIN n0.node
    BY <1>1, DfsFacts
  <1>3. PICK f : IsCollapsingAll(f, n0)
    BY <1>1, <1>2, CollapseNodesLoop
  <1>4. /\ f[0] = n0 /\ res = f[Len(list)]
        /\ \A k \in 1..Len(list) : f[k] = network_collapse_single(f[k - 1], list[k])
    BY <1>1, <1>3 DEF IsCollapsingAll
  <1> DEFINE N == Len(list)
             Q == {k \in 0..N : IsNetwork(f[k]) /\ SameKinds(f[k], n0)}
  <1>5. N \in Nat
    BY <1>2
  <1> HIDE DEF N
  <1>6. 0 \in Q
    BY <1>4, <1>5, SameKindsFacts
  <1>7. ASSUME NEW k \in 1..N, k - 1 \in Q  PROVE k \in Q
    <2>1. PICK last, n : last = f[k - 1] /\ n = list[k]
      OBVIOUS
    <2>2. IsNetwork(last) /\ SameKinds(last, n0)
      BY <1>7, <2>1
    <2>3. n \in DOMAIN last.node
      BY <1>2, <2>1, <2>2 DEF SameKinds, N
    <2>4. f[k] = network_collapse_single(last, n)
      BY <1>4, <2>1 DEF N
    <2>5. IsNetwork(f[k]) /\ SameKinds(f[k], last)
      BY <2>2, <2>3, <2>4, CollapseSingleSound
    <2>6. SameKinds(f[k], n0)
      BY <2>2, <2>5, SameKindsFacts
    <2>7. k \in 0..N
      BY <1>5
    <2> QED BY <2>5, <2>6, <2>7
  <1> HIDE DEF Q
  <1>8. \A k \in 0..N : k \in Q
    BY <1>5, <1>6, <1>7, UpTo
  <1>9. N \in 0..N
    BY <1>5
  <1>10. N \in Q
    BY <1>8, <1>9
  <1> QED BY <1>4, <1>10 DEF Q, N

\* network_collapse keeps a network sound.
LEMMA CollapseNetworkSound ==
    ASSUME NEW n0, IsNetwork(n0), NIL \notin Nat, NEW res, res = network_collapse(n0)
    PROVE  IsNetwork(res)
  <1>1. PICK mid : mid = ForEach(network_collapse_single, n0, network_dfs(n0))
    OBVIOUS
  <1>2. IsNetwork(mid)
    BY <1>1, CollapseNodesSound
  <1>3. PICK yes : yes = TRUE
    OBVIOUS
  <1>4. res = network_cleanup_util(mid, yes)
    BY <1>1, <1>3 DEF network_collapse, network_cleanup
  <1> QED BY <1>2, <1>3, <1>4, CleanupSound

\* So do the four sweeps.
LEMMA SweepsSound ==
    ASSUME NEW n0, IsNetwork(n0), NIL \notin Nat
    PROVE  /\ IsNetwork(network_sweep(n0)) /\ IsNetwork(network_csweep(n0))
           /\ IsNetwork(network_cleanup(n0)) /\ IsNetwork(network_ccleanup(n0))
  <1> DEFINE yes == TRUE  no == FALSE
  <1>1. yes \in BOOLEAN /\ no \in BOOLEAN
    OBVIOUS
  <1>2. /\ network_sweep(n0) = network_cleanup_util(MergeLatches(SweepLoop(n0, yes)), yes)
        /\ network_csweep(n0) = network_cleanup_util(SweepLoop(n0, no), no)
        /\ network_cleanup(n0) = network_cleanup_util(n0, yes)
        /\ network_ccleanup(n0) = network_cleanup_util(n0, no)
    BY DEF network_sweep, network_csweep, network_cleanup, network_ccleanup
  <1> HIDE DEF yes, no
  <1>3. IsNetwork(SweepLoop(n0, yes)) /\ IsNetwork(SweepLoop(n0, no))
    BY <1>1, SweepLoopSound
  <1>4. IsNetwork(MergeLatches(SweepLoop(n0, yes)))
    BY <1>3, MergeLatchesSound
  <1>5. IsNetwork(network_cleanup_util(MergeLatches(SweepLoop(n0, yes)), yes))
    BY <1>1, <1>4, CleanupSound
  <1>6. IsNetwork(network_cleanup_util(SweepLoop(n0, no), no))
    BY <1>1, <1>3, CleanupSound
  <1>7. IsNetwork(network_cleanup_util(n0, yes)) /\ IsNetwork(network_cleanup_util(n0, no))
    BY <1>1, CleanupSound
  <1> QED BY <1>2, <1>5, <1>6, <1>7

\* A sweep leaves nothing to sweep, to merge or to clean up: merging latches and
\* cleaning up make no work for what comes before them.
LEMMA NetworkSweepClean ==
    ASSUME NEW n0, IsNetwork(n0), NIL \notin Nat, NEW res, res = network_sweep(n0)
    PROVE  IsNetwork(res) /\ IsMerged(res) /\ AllUsed(res)
  <1>1. PICK swept, merged : /\ swept = SweepLoop(n0, TRUE)
                             /\ merged = MergeLatches(swept)
                             /\ res = network_cleanup_util(merged, TRUE)
    BY DEF network_sweep
  <1>2. IsNetwork(swept) /\ IsClean(swept)
    BY <1>1, SweepLoopSweeps
  <1>3. IsNetwork(merged) /\ IsMerged(merged)
    BY <1>1, <1>2, MergeLatchesSound DEF IsMerged
  <1> QED BY <1>1, <1>3, CleanupCleans

\* A sweep does nothing where there is nothing to do.
LEMMA NetworkSweepIdle ==
    ASSUME NEW n0, IsNetwork(n0), NIL \notin Nat, IsMerged(n0), AllUsed(n0)
    PROVE  network_sweep(n0) = n0
  <1>1. PICK swept, merged, res : /\ swept = SweepLoop(n0, TRUE)
                                  /\ merged = MergeLatches(swept)
                                  /\ res = network_cleanup_util(merged, TRUE)
    OBVIOUS
  <1>2. IsClean(n0) /\ LatchesDiffer(n0)
    BY DEF IsMerged
  <1>3. swept = n0
    BY <1>1, <1>2, SweepLoopSweeps
  <1>4. merged = n0
    BY <1>1, <1>2, <1>3, MergeLatchesSound
  <1>5. res = n0
    BY <1>1, <1>4, CleanupCleans
  <1> QED BY <1>1, <1>5 DEF network_sweep

\* Where nothing is left to sweep a constant or an inverter feeds outputs only.
LEMMA PlainFeedsOutputs ==
    ASSUME NEW n0, IsNetwork(n0), AllSwept(n0), NEW n \in DOMAIN n0.node, IsPlain(n0.node[n]),
           NEW use \in Range(n0.fanout[n])
    PROVE  n0.node[use[1]].type = "PRIMARY_OUTPUT"
  <1>1. FanoutsMirrorFanins(n0.node, n0.fanout)
    BY NetworkHas
  <1>2. PICK user, pin : user = use[1] /\ pin = use[2]
    OBVIOUS
  <1>3. user \in DOMAIN n0.node /\ pin \in DOMAIN n0.node[user].fanin
        /\ n0.node[user].fanin[pin] = n
    BY <1>1, <1>2, MirrorFacts
  <1>4. Sweepable(n0, user) = {}
    BY <1>3 DEF AllSwept
  <1> QED BY <1>2, <1>3, <1>4, SweepablePins

-----------------------------------------------------------------------------
\* A session of commands.

\* What every command finds and leaves.
Sound == status = "ok" /\ grown \in 0..MaxGrown /\ IsNetwork(net)

\* The latch list, the latch table and the terminals of a network agree.
LEMMA LatchesAgree ==
    ASSUME NEW n, IsNetwork(n)
    PROVE  /\ \A i \in DOMAIN n.latch :
                /\ n.latch[i].input \in Range(n.po) /\ n.latch[i].output \in Range(n.pi)
                /\ latch_from_node(n, n.latch[i].input) = n.latch[i].input
                /\ latch_from_node(n, n.latch[i].output) = n.latch[i].input
                /\ n.latch[i].control /= NIL => n.latch[i].control \in ControlsIn(n)
                /\ \A j \in DOMAIN n.latch : n.latch[j].input = n.latch[i].input => i = j
           /\ ControlsIn(n) \subseteq Range(n.po)
  <1>1. LatchesAreListed(n.node, n.latch, n.latch_table) /\ TerminalsAreListed(n.node, n.pi, n.po)
    BY NetworkHas
  <1>2. ASSUME NEW i \in DOMAIN n.latch
        PROVE  /\ n.latch[i].input \in Range(n.po) /\ n.latch[i].output \in Range(n.pi)
               /\ latch_from_node(n, n.latch[i].input) = n.latch[i].input
               /\ latch_from_node(n, n.latch[i].output) = n.latch[i].input
               /\ n.latch[i].control /= NIL => n.latch[i].control \in ControlsIn(n)
               /\ \A j \in DOMAIN n.latch : n.latch[j].input = n.latch[i].input => i = j
    <2>1. PICK l : l = n.latch[i]
      OBVIOUS
    <2>2. DOMAIN n.latch = 1..Len(n.latch)
      BY <1>1 DEF LatchesAreListed
    <2>3. IsLatch(n.node, n.latch_table, l)
      BY <1>1, <2>1, <2>2 DEF LatchesAreListed
    <2>4. /\ l.input \in DOMAIN n.node /\ n.node[l.input].type = "PRIMARY_OUTPUT"
          /\ l.output \in DOMAIN n.node /\ n.node[l.output].type = "PRIMARY_INPUT"
          /\ l.input \in DOMAIN n.latch_table /\ n.latch_table[l.input] = l.input
          /\ l.output \in DOMAIN n.latch_table /\ n.latch_table[l.output] = l.input
          /\ l.control /= NIL => l.control \in DOMAIN n.latch_table
             /\ n.latch_table[l.control] = NIL
      BY <2>3 DEF IsLatch
    <2>5. l.input \in Range(n.po) /\ l.output \in Range(n.pi)
      BY <1>1, <2>4 DEF TerminalsAreListed
    <2>6. latch_from_node(n, l.input) = l.input /\ latch_from_node(n, l.output) = l.input
      BY <2>4 DEF latch_from_node
    <2>7. l.control /= NIL => l.control \in ControlsIn(n)
      BY <2>4 DEF ControlsIn
    <2>8. \A j \in DOMAIN n.latch : n.latch[j].input = n.latch[i].input => i = j
      BY <1>1, <2>2 DEF LatchesAreListed
    <2> QED BY <2>1, <2>5, <2>6, <2>7, <2>8
  <1>3. ControlsIn(n) \subseteq Range(n.po)
    BY <1>1 DEF LatchesAreListed, TerminalsAreListed, ControlsIn
  <1> QED BY <1>2, <1>3

\* The strengthening implies what the runs check.
LEMMA SoundImplies ==
    Sound => TypeOK /\ NetworkIsSound /\ LatchesAreSound /\ NoHiddenAliasing
  <1>1. SUFFICES ASSUME Sound PROVE TypeOK /\ NetworkIsSound /\ LatchesAreSound /\ NoHiddenAliasing
    OBVIOUS
  <1>2. IsNetwork(net)
    BY <1>1 DEF Sound
  <1>3. /\ NodesAreListed(net.node, net.nodes) /\ CoversAreSound(net.node)
        /\ LatchesAreListed(net.node, net.latch, net.latch_table)
        /\ FanoutsMirrorFanins(net.node, net.fanout)
    BY <1>2, NetworkHas
  <1>4. TypeOK
    <2>1. DOMAIN net.fanout = DOMAIN net.node
      BY <1>3, MirrorFacts
    <2>2. ASSUME NEW n \in DOMAIN net.node
          PROVE net.node[n].type \in {"PRIMARY_INPUT", "PRIMARY_OUTPUT", "INTERNAL"}
      <3>1. IsNode(net.node[n])
        BY <1>3 DEF NodesAreListed
      <3> QED BY <3>1 DEF IsNode, Types
    <2>3. ASSUME NEW l \in Range(net.latch)  PROVE l.initial_value \in 0..3
      <3>1. IsLatch(net.node, net.latch_table, l)
        BY <1>3, LatchFacts
      <3> QED BY <3>1 DEF IsLatch
    <2> QED BY <1>1, <2>1, <2>2, <2>3 DEF TypeOK, Sound
  <1>5. NetworkIsSound
    BY <1>2, NetworkPassesCheck DEF NetworkIsSound, IsNetwork
  <1>6. Controls = ControlsIn(net)
    BY DEF Controls, ControlsIn
  <1>7. LatchesAreSound
    <2>1. /\ \A i \in DOMAIN net.latch :
            /\ net.latch[i].input \in Range(net.po) /\ net.latch[i].output \in Range(net.pi)
            /\ latch_from_node(net, net.latch[i].input) = net.latch[i].input
            /\ latch_from_node(net, net.latch[i].output) = net.latch[i].input
            /\ net.latch[i].control /= NIL => net.latch[i].control \in Controls
            /\ \A j \in DOMAIN net.latch : net.latch[j].input = net.latch[i].input => i = j
          /\ Controls \subseteq Range(net.po)
      BY <1>2, <1>6, LatchesAgree
    <2>2. Cardinality(DOMAIN net.latch_table) = Cardinality(Controls) + 2 * Len(net.latch)
      BY <1>2, <1>6, NilAssumption, LatchTableSize
    <2> QED BY <2>1, <2>2 DEF LatchesAreSound
  <1>8. NoHiddenAliasing
    BY <1>3 DEF NoHiddenAliasing, CoversAreSound
  <1> QED BY <1>4, <1>5, <1>7, <1>8

\* Init establishes it.
LEMMA SoundInitially ==
    Init => Sound
  <1> QED BY CommandsAssumption DEF Init, Sound

\* Every command keeps it.
LEMMA SoundForever ==
    ASSUME Sound, [Next]_vars, ~AppendNetwork
    PROVE  Sound'
  <1>1. IsNetwork(net) /\ status = "ok" /\ grown \in 0..MaxGrown
    BY DEF Sound
  <1>2. ASSUME NEW name, NEW result, Becomes(name, result), IsNetwork(result), UNCHANGED grown
        PROVE  Sound'
    BY <1>1, <1>2 DEF Sound, Becomes
  <1>3. CASE Sweep
    BY <1>1, <1>2, <1>3, NilAssumption, SweepsSound DEF Sweep
  <1>4. CASE CombinationalSweep
    BY <1>1, <1>2, <1>4, NilAssumption, SweepsSound DEF CombinationalSweep
  <1>5. CASE Cleanup
    BY <1>1, <1>2, <1>5, NilAssumption, SweepsSound DEF Cleanup
  <1>6. CASE CombinationalCleanup
    BY <1>1, <1>2, <1>6, NilAssumption, SweepsSound DEF CombinationalCleanup
  <1>7. CASE Collapse
    BY <1>1, <1>2, <1>7, NilAssumption, CollapseNetworkSound DEF Collapse
  <1>8. CASE CollapseNode
    <2>1. PICK f, g \in DOMAIN net.node :
            /\ IsCollapsible(net, f, g)
            /\ Becomes("node_collapse", node_collapse(net, f, g))
            /\ UNCHANGED grown
      BY <1>8 DEF CollapseNode
    <2>2. IsNetwork(node_collapse(net, f, g))
      BY <1>1, <2>1, CollapseSound
    <2> QED BY <1>2, <2>1, <2>2
  <1>9. CASE Duplicate
    BY <1>1, <1>2, <1>9, NilAssumption, DupSound DEF Duplicate
  <1>10. CASE InsertLatch
    <2>1. PICK n1 \in DOMAIN net.node, init \in InitialValues, control \in Controls \union {NIL} :
            \E use \in Range(net.fanout[n1]) :
                /\ use[1] \notin Controls
                /\ LET made == network_create_latch(net, n1, use[1], init)
                   IN Becomes("network_create_latch",
                              latch_set_control(made, made.latch[Len(made.latch)].input, control))
      BY <1>10 DEF InsertLatch
    <2>2. PICK use \in Range(net.fanout[n1]) :
            LET made == network_create_latch(net, n1, use[1], init)
            IN Becomes("network_create_latch",
                       latch_set_control(made, made.latch[Len(made.latch)].input, control))
      BY <2>1
    <2>3. PICK made : made = network_create_latch(net, n1, use[1], init)
      OBVIOUS
    <2>4. PICK input, result : /\ input = made.latch[Len(made.latch)].input
                               /\ result = latch_set_control(made, input, control)
      OBVIOUS
    <2>5. Becomes("network_create_latch", result)
      BY <2>2, <2>3, <2>4
    <2>6. FanoutsMirrorFanins(net.node, net.fanout)
      BY <1>1, NetworkHas
    <2>7. use[1] \in DOMAIN net.node /\ n1 \in Range(net.node[use[1]].fanin)
      <3>1. PICK node, fan : node = net.node /\ fan = net.fanout
        OBVIOUS
      <3>2. FanoutsMirrorFanins(node, fan) /\ n1 \in DOMAIN node /\ use \in Range(fan[n1])
        BY <2>6, <3>1
      <3>3. use[1] \in DOMAIN node /\ use[2] \in DOMAIN node[use[1]].fanin
            /\ node[use[1]].fanin[use[2]] = n1
        BY <3>2, MirrorFacts
      <3> QED BY <3>1, <3>3 DEF Range
    <2>8. control = NIL \/ control \in {n \in DOMAIN net.latch_table : net.latch_table[n] = NIL}
      BY DEF Controls
    <2>9. init \in 0..3
      BY CommandsAssumption
    <2>10. IsNetwork(result)
      BY <1>1, <2>3, <2>4, <2>7, <2>8, <2>9, NilAssumption, CreateLatchSound
    <2>11. grown' \in 0..MaxGrown
      BY <1>1, <1>10, CommandsAssumption DEF InsertLatch, Grows
    <2> QED BY <1>1, <2>5, <2>10, <2>11 DEF Sound, Becomes
  <1>11. CASE RemoveLatch
    <2>1. PICK i \in DOMAIN net.latch :
            /\ IsRemovable(net.latch[i])
            /\ Becomes("network_connect",
                       network_connect(network_delete_latch(net, net.latch[i]),
                                       net.latch[i].input, net.latch[i].output))
            /\ UNCHANGED grown
      BY <1>11 DEF RemoveLatch
    <2>2. PICK l, driver : l = net.latch[i] /\ driver = net.node[net.latch[i].input].fanin[1]
      OBVIOUS
    <2>3. l \in Range(net.latch)
      BY <2>2, SMTT(60) DEF Range
    <2>4. \A use \in Range(net.fanout[l.output]) : use[1] /= driver
      BY <2>1, <2>2, ZenonT(60) DEF IsRemovable, Range
    <2>5. driver /= l.output /\ ConnectsAcyclically(net, l.input, l.output)
      BY <2>1, <2>2 DEF IsRemovable
    <2>6. PICK result : result = network_connect(network_delete_latch(net, l), l.input, l.output)
      OBVIOUS
    <2>7. IsNetwork(result)
      BY <1>1, <2>2, <2>3, <2>4, <2>5, <2>6, NilAssumption, RemoveLatchSound
    <2>8. Becomes("network_connect", result) /\ UNCHANGED grown
      BY <2>1, <2>2, <2>6
    <2> QED BY <1>2, <2>7, <2>8
  <1>12. CASE AppendNetwork
    BY <1>12
  <1>13. CASE UNCHANGED vars
    BY <1>13, Sound DEF vars, Sound
  <1> QED BY <1>3, <1>4, <1>5, <1>6, <1>7, <1>8, <1>9, <1>10, <1>11, <1>12, <1>13 DEF Next

\* Every command but an append leaves a sound network sound, whatever the
\* networks are that can be appended.
THEOREM CommandsKeepNetworksSound ==
    Spec => [][Sound /\ ~AppendNetwork => Sound']_vars
  <1>1. [Next]_vars => [Sound /\ ~AppendNetwork => Sound']_vars
    BY SoundForever DEF Sound, vars
  <1> QED BY <1>1, PTL DEF Spec

\* The appends of a session go well: they report no error and leave the network
\* sound, which network_append does not do for every two networks.
AppendsGoWell == [][AppendNetwork => Sound']_vars

\* In a session whose appends go well the network is sound after every command.
THEOREM NetworksStaySound ==
    Spec /\ AppendsGoWell => []Sound
  <1>1. Sound /\ [Next]_vars /\ [AppendNetwork => Sound']_vars => Sound'
    BY SoundForever DEF Sound, vars
  <1> QED BY <1>1, SoundInitially, PTL DEF Spec, AppendsGoWell

\* So it is when there is nothing to append.
COROLLARY NetworksStaySoundAlone ==
    ASSUME DOMAIN Library = {}
    PROVE  Spec => []Sound
  <1>1. ~AppendNetwork
    BY DEF AppendNetwork
  <1>2. Spec => AppendsGoWell
    BY <1>1, PTL DEF AppendsGoWell
  <1> QED BY <1>2, NetworksStaySound, PTL

\* Every variable has its type in a session whose appends go well.
THEOREM NetworkTypeCorrect ==
    Spec /\ AppendsGoWell => []TypeOK
  <1> QED BY NetworksStaySound, SoundImplies, PTL

\* network_check finds no error in the network, nor is there a cycle, after any
\* commands of such a session.
THEOREM NetworksPassCheck ==
    Spec /\ AppendsGoWell => []NetworkIsSound
  <1> QED BY NetworksStaySound, SoundImplies, PTL

\* After any commands of such a session the latch table and the latch list tell
\* the same latches, and their ends are terminals of the network.
THEOREM LatchTablesAgree ==
    Spec /\ AppendsGoWell => []LatchesAreSound
  <1> QED BY NetworksStaySound, SoundImplies, PTL

\* After any commands of such a session a node whose flag says that no fanin is
\* there twice has no fanin twice: no routine is misled by a stale flag.
THEOREM FlagsTellTheTruth ==
    Spec /\ AppendsGoWell => []NoHiddenAliasing
  <1> QED BY NetworksStaySound, SoundImplies, PTL

-----------------------------------------------------------------------------
\* What a sweep leaves.

\* Only a sweep is called network_sweep.
LEMMA OtherCommands ==
    ASSUME [Next]_vars, command' = "network_sweep"
    PROVE  Sweep \/ UNCHANGED vars
  <1>1. ASSUME NEW name, NEW result, Becomes(name, result), name /= "network_sweep"
        PROVE  FALSE
    BY <1>1 DEF Becomes
  <1>2. CASE CombinationalSweep \/ Cleanup \/ CombinationalCleanup \/ Collapse \/ Duplicate
    BY <1>1, <1>2 DEF CombinationalSweep, Cleanup, CombinationalCleanup, Collapse, Duplicate
  <1>3. CASE CollapseNode
    BY <1>1, <1>3 DEF CollapseNode
  <1>4. CASE InsertLatch
    BY <1>1, <1>4 DEF InsertLatch
  <1>5. CASE RemoveLatch
    BY <1>1, <1>5 DEF RemoveLatch
  <1>6. CASE AppendNetwork
    BY <1>6, CommandsAssumption DEF AppendNetwork
  <1> QED BY <1>2, <1>3, <1>4, <1>5, <1>6 DEF Next

\* The command network_sweep leaves it so, and the others are not it.
LEMMA SweptCleanForever ==
    ASSUME Sound, SweptClean, [Next]_vars, Sound'
    PROVE  SweptClean'
  <1>1. CASE Sweep
    <2>1. IsNetwork(net) /\ net' = network_sweep(net)
      BY <1>1 DEF Sound, Sweep, Becomes
    <2>2. IsNetwork(net') /\ IsMerged(net') /\ AllUsed(net')
      BY <2>1, NilAssumption, NetworkSweepClean
    <2>3. AllSwept(net') /\ LatchesReached(net')
      BY <2>2 DEF IsMerged, IsClean
    <2>4. ASSUME NEW n \in DOMAIN net'.node, net'.node[n].type = "INTERNAL"
          PROVE  /\ net'.fanout[n] /= <<>>
                 /\ IsConstant(net'.node[n]) \/ IsInverter(net'.node[n]) =>
                      \A use \in Range(net'.fanout[n]) : net'.node[use[1]].type = "PRIMARY_OUTPUT"
      <3>1. net'.fanout[n] /= <<>>
        BY <2>2, <2>4 DEF AllUsed, IsUsed
      <3>2. ASSUME IsConstant(net'.node[n]) \/ IsInverter(net'.node[n])
            PROVE  IsPlain(net'.node[n])
        BY <3>2 DEF IsPlain
      <3> QED BY <2>2, <2>3, <3>1, <3>2, PlainFeedsOutputs
    <2> QED BY <2>3, <2>4 DEF SweptClean, LatchesReached
  <1>2. CASE command' /= "network_sweep"
    BY <1>2 DEF SweptClean
  <1>3. CASE UNCHANGED vars
    BY <1>3 DEF SweptClean, vars
  <1> QED BY <1>1, <1>2, <1>3, OtherCommands

\* After a sweep in such a session every internal node is used, a constant or
\* an inverter feeds outputs only, and every latch can be seen at an output:
\* the loops of network_sweep turn until nothing is left, and merging latches
\* and cleaning up make no work for them.
THEOREM SweepsLeaveNothing ==
    Spec /\ AppendsGoWell => []SweptClean
  <1>1. Init => SweptClean
    BY DEF Init, SweptClean
  <1>2. Sound /\ SweptClean /\ [Next]_vars /\ Sound' => SweptClean'
    BY SweptCleanForever
  <1> QED BY <1>1, <1>2, NetworksStaySound, PTL DEF Spec

\* A sweep of such a session that follows a sweep changes nothing.
THEOREM OneSweepSuffices ==
    Spec /\ AppendsGoWell => SweepIsDone
  <1>1. ASSUME Sound, [Next]_vars, command' = "network_sweep", ~UNCHANGED vars
        PROVE  network_sweep(net') = net'
    <2>1. IsNetwork(net) /\ net' = network_sweep(net)
      BY <1>1, OtherCommands DEF Sound, Sweep, Becomes
    <2>2. IsNetwork(net') /\ IsMerged(net') /\ AllUsed(net')
      BY <2>1, NilAssumption, NetworkSweepClean
    <2> QED BY <2>2, NilAssumption, NetworkSweepIdle
  <1>2. Sound /\ [Next]_vars => [command' = "network_sweep" => network_sweep(net') = net']_vars
    BY <1>1
  <1> QED BY <1>2, NetworksStaySound, PTL DEF Spec, SweepIsDone

=============================================================================
