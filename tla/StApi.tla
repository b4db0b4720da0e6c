------------------------------- MODULE StApi --------------------------------
(***************************************************************************)
(* What the hash tables (sis/st) promise: a map, and walks over it.  A     *)
(* walk is a generator, or the st_foreach that is running.  It gives each  *)
(* entry that is there when it begins once, unless the entry is deleted    *)
(* first, and may or may not give one that is added later.  When the table *)
(* grows, every walk that is under way loses its place: from then on it    *)
(* may repeat and miss entries, but gives only entries that are there.     *)
(***************************************************************************)
EXTENDS Naturals, FiniteSets

CONSTANTS Key, Val, Gen, MaxDensity, GrowFactor, InitBins, NIL, Lost

VARIABLES
    map,        \* the records under the keys that are there
    bins,       \* how many
    owed,       \* of each generator: NIL, the keys it has to give, or Lost
    each,       \* of st_foreach: NIL, or the key its function has, the keys
                \* to come or Lost, and whether the function has added a key
    slot,       \* the key whose record the caller's slot points to, or NIL
    call,       \* the last call
    result      \* what it returned

avars == <<map, bins, owed, each, slot, call, result>>

Keys == DOMAIN map

AInit ==
    /\ map = [k \in {} |-> NIL] /\ bins = InitBins
    /\ owed = [g \in Gen |-> NIL] /\ each = NIL /\ slot = NIL
    /\ call = "st_init_table" /\ result = <<>>

Grown == LET wider == GrowFactor * bins IN IF wider % 2 = 0 THEN wider + 1 ELSE wider

Full == Cardinality(Keys) >= MaxDensity * bins

\* What a walk may owe when k has been added.
OwedAfter(keys, k) ==
    IF Full \/ keys = Lost THEN {Lost} ELSE {keys, keys \union {k}}

Set(k, v) == map' = [i \in Keys \union {k} |-> IF i = k THEN v ELSE map[i]]

Add(k, v) ==
    /\ k \notin Keys
    /\ Set(k, v)
    /\ bins' = IF Full THEN Grown ELSE bins
    /\ DOMAIN owed' = Gen
    /\ \A g \in Gen : IF owed[g] = NIL THEN owed'[g] = NIL ELSE owed'[g] \in OwedAfter(owed[g], k)
    /\ IF each = NIL THEN each' = NIL
       ELSE \E keys \in OwedAfter(each.owed, k) : each' = [each EXCEPT !.owed = keys, !.added = TRUE]

Replace(k, v) == k \in Keys /\ Set(k, v) /\ UNCHANGED <<bins, owed, each>>

Insert(k, v) ==
    \/ Add(k, v) /\ result' = <<0>> /\ UNCHANGED slot
    \/ Replace(k, v) /\ result' = <<1>> /\ UNCHANGED slot

FindOrAdd(k) ==
    /\ \/ Add(k, NIL) /\ result' = <<0>>
       \/ k \in Keys /\ result' = <<1>> /\ UNCHANGED <<map, bins, owed, each>>
    /\ slot' = k

Find(k) ==
    /\ result' = IF k \in Keys THEN <<1>> ELSE <<0>>
    /\ slot' = IF k \in Keys THEN k ELSE slot
    /\ UNCHANGED <<map, bins, owed, each>>

Lookup(k) ==
    /\ result' = IF k \in Keys THEN <<1, map[k]>> ELSE <<0>>
    /\ UNCHANGED <<map, bins, owed, each, slot>>

AssignSlot(v) == slot /= NIL /\ Replace(slot, v) /\ result' = <<>> /\ UNCHANGED slot

Without(k) ==
    /\ map' = [i \in Keys \ {k} |-> map[i]]
    /\ owed' = [g \in Gen |-> IF owed[g] \in {NIL, Lost} THEN owed[g] ELSE owed[g] \ {k}]
    /\ slot' = IF slot = k THEN NIL ELSE slot

Delete(k) ==
    /\ IF k \in Keys THEN Without(k) /\ result' = <<1, k, map[k]>>
       ELSE result' = <<0>> /\ UNCHANGED <<map, owed, slot>>
    /\ UNCHANGED <<bins, each>>

Open(g) ==
    /\ owed[g] = NIL /\ owed' = [owed EXCEPT ![g] = Keys]
    /\ result' = <<>> /\ UNCHANGED <<map, bins, each, slot>>

\* The keys a walk may give next.
Candidates(keys) == IF keys = Lost THEN Keys ELSE keys

Less(keys, k) == IF keys = Lost THEN keys ELSE keys \ {k}

Give(g) ==
    /\ owed[g] /= NIL
    /\ \/ \E k \in Candidates(owed[g]) :
            owed' = [owed EXCEPT ![g] = Less(@, k)] /\ result' = <<1, k, map[k]>>
       \/ owed[g] \in {{}, Lost} /\ result' = <<0>> /\ UNCHANGED owed
    /\ UNCHANGED <<map, bins, each, slot>>

Close(g) ==
    /\ owed[g] /= NIL /\ owed' = [owed EXCEPT ![g] = NIL]
    /\ result' = <<>> /\ UNCHANGED <<map, bins, each, slot>>

\* The function is called for one of the keys, or st_foreach returns.
EachGoesOn(keys, there) ==
    \/ \E k \in IF keys = Lost THEN there ELSE keys :
        each' = [key |-> k, owed |-> Less(keys, k), added |-> FALSE] /\ result' = <<k>>
    \/ keys \in {{}, Lost} /\ each' = NIL /\ result' = <<1>>

ForEach == each = NIL /\ EachGoesOn(Keys, Keys) /\ UNCHANGED <<map, bins, owed, slot>>

Continue == each /= NIL /\ EachGoesOn(each.owed, Keys) /\ UNCHANGED <<map, bins, owed, slot>>

Stop == each /= NIL /\ each' = NIL /\ result' = <<0>> /\ UNCHANGED <<map, bins, owed, slot>>

\* Not after the function has added an entry.
DeleteGiven ==
    /\ each /= NIL /\ ~each.added
    /\ Without(each.key) /\ EachGoesOn(each.owed, Keys \ {each.key})
    /\ UNCHANGED bins

Copy == result' = <<>> /\ UNCHANGED <<map, bins, owed, each>> /\ slot' = NIL

TableCall ==
    \/ call' = "st_insert" /\ \E k \in Key, v \in Val : Insert(k, v)
    \/ call' = "st_add_direct" /\ \E k \in Key, v \in Val : Add(k, v) /\ result' = <<>> /\ UNCHANGED slot
    \/ call' = "st_find_or_add" /\ \E k \in Key : FindOrAdd(k)
    \/ call' = "st_find" /\ \E k \in Key : Find(k)
    \/ call' = "st_lookup" /\ \E k \in Key : Lookup(k)
    \/ call' = "*slot" /\ \E v \in Val : AssignSlot(v)
    \/ call' = "st_delete" /\ \E k \in Key : Delete(k)
    \/ call' = "st_foreach" /\ ForEach
    \/ call' = "ST_CONTINUE" /\ Continue
    \/ call' = "ST_STOP" /\ Stop
    \/ call' = "ST_DELETE" /\ DeleteGiven
    \/ call' = "st_copy" /\ Copy

GenCall(g) ==
    \/ call' = "st_init_gen" /\ Open(g)
    \/ call' = "st_gen" /\ Give(g)
    \/ call' = "st_free_gen" /\ Close(g)

Spec == AInit /\ [][TableCall \/ \E g \in Gen : GenCall(g)]_avars

=============================================================================
