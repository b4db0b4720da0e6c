------------------------------ MODULE StTable -------------------------------
(***************************************************************************)
(* The hash tables (sis/st): bins of chained entries, moved to a larger    *)
(* array of bins when the chains get long, and two ways to walk over the   *)
(* entries: generators, and st_foreach, which calls a function for each    *)
(* entry and may be told to delete it.                                     *)
(*                                                                         *)
(* elem gives each cell of memory the entry in it, NIL if it is free: to   *)
(* follow a pointer to a free cell is an error.  The callers' part:        *)
(* while a generator is open they delete only the entry it has just        *)
(* given, as st.txt tells them to; a function called by st_foreach calls   *)
(* no st_delete, and does not answer ST_DELETE after adding an entry;      *)
(* st_add_direct is for keys that are not there.                           *)
(***************************************************************************)
EXTENDS Integers, SequencesExt

CONSTANTS
    Cell, Key, Val, Gen, NIL,
    Lost,           \* what a walk owes that has lost its place
    HashOf,         \* of a key, before it is reduced to the number of bins
    InitSize,       \* st_init_table_with_params: size ...
    MaxDensity,     \* ... density ...
    GrowFactor,     \* ... grow_factor ...
    ReorderFlag     \* ... and reorder_flag

Pointer == Cell \union {NIL}
Entry == [key : Key, record : Val \union {NIL}, next : Pointer]

\* A generator: the entry it gives next, the bin it looks for one after that,
\* the key it has given, and whether the table has grown under it (history).
Walk == [entry : Pointer, index : Nat, given : Key \union {NIL}, lost : BOOLEAN]

\* A st_foreach: its bin, its place and entry, and whether its function has
\* added an entry and the table has grown (history).
Loop == [index : Nat, last : Cell \union Nat, ptr : Cell, added : BOOLEAN, lost : BOOLEAN]

ASSUME StAssumption ==
    /\ HashOf \in [Key -> Nat] /\ InitSize \in Int /\ ReorderFlag \in BOOLEAN
    /\ MaxDensity \in Nat \ {0} /\ GrowFactor \in Nat \ {0, 1}
    /\ IsFiniteSet(Cell) /\ Cell \intersect Nat = {}
    /\ NIL \notin Cell \union Key \union Val \union Entry \union Walk \union Loop

\* In terms of StApi: what a walk owes, and a st_foreach, are told apart.
ASSUME LostAssumption ==
    /\ Lost /= NIL
    /\ \A keys \in SUBSET Key : keys \notin {Lost, NIL}
    /\ NIL \notin [key : Key, added : BOOLEAN, owed : (SUBSET Key) \union {Lost}]

VARIABLES
    table,
    gen,        \* of each generator, NIL if it is not open
    each,       \* the st_foreach that is running, or NIL
    slot,       \* the caller's slot: the entry with the record, or NIL
    call,       \* the last call
    result      \* what it returned

vars == <<table, gen, each, slot, call, result>>

Returns(name, values) == call' = name /\ result' = values

Live(t) == {c \in Cell : t.elem[c] /= NIL}

Bins(t) == 0..t.num_bins - 1

do_hash(k, t) == HashOf[k] % t.num_bins

InitBins == IF InitSize <= 0 THEN 1 ELSE InitSize

st_init_table ==
    [num_bins |-> InitBins, num_entries |-> 0,
     bins |-> [b \in 0..InitBins - 1 |-> NIL], elem |-> [c \in Cell |-> NIL]]

Init ==
    /\ table = st_init_table
    /\ gen = [g \in Gen |-> NIL] /\ each = NIL /\ slot = NIL
    /\ call = "st_init_table" /\ result = <<>>

-----------------------------------------------------------------------------
\* The entries from c on, as far as they are there.
ChainFrom(t, c) ==
    LET Nth[n \in 0..Cardinality(Cell)] ==
            IF n = 0 THEN c ELSE IF Nth[n - 1] = NIL THEN NIL ELSE t.elem[Nth[n - 1]].next
        length == Cardinality({n \in DOMAIN Nth : Nth[n] /= NIL})
    IN [i \in 1..length |-> Nth[i - 1]]

Chain(t, b) == ChainFrom(t, t.bins[b])

\* A place a pointer to an entry is kept: a bin, or the next of an entry.
At(t, place) == IF place \in Cell THEN t.elem[place].next ELSE t.bins[place]

Put(t, place, p) ==
    IF place \in Cell THEN [t EXCEPT !.elem[place].next = p] ELSE [t EXCEPT !.bins[place] = p]

Push(t, b, c) == Put(Put(t, c, t.bins[b]), b, c)

\* FIND_ENTRY: the entry of the key or NIL, the place that leads to it, and
\* the table with the entry moved to the top of its chain if reorder_flag.
FIND_ENTRY(t, k) ==
    LET b == do_hash(k, t)
        chain == Chain(t, b)
        i == SelectInSeq(chain, LAMBDA c : t.elem[c].key = k)
        last == IF i = 1 THEN b ELSE chain[i - 1]
    IN IF i = 0 THEN [ptr |-> NIL, last |-> NIL, t |-> t]
       ELSE [ptr |-> chain[i], last |-> last,
             t |-> IF ReorderFlag THEN Push(Put(t, last, At(t, chain[i])), b, chain[i]) ELSE t]

\* The entries, bin by bin.
Entries(t) == FlattenSeq([i \in 1..t.num_bins |-> Chain(t, i - 1)])

\* Every entry in turn is put on top of the chain of its bin, in n new bins.
Moved(t, n, bin) ==
    LET all == Entries(t)
        After[i \in 0..Len(all)] ==
            IF i = 0 THEN [t EXCEPT !.num_bins = n, !.bins = [b \in 0..n - 1 |-> NIL]]
            ELSE Push(After[i - 1], bin[all[i]], all[i])
    IN After[Len(all)]

\* The factor is a double (st.h:23), and the product is cut off: here the factor
\* is a whole number of at least 2, as ST_DEFAULT_GROW_FACTOR is.
Wider(n) == IF (GrowFactor * n) % 2 = 0 THEN GrowFactor * n + 1 ELSE GrowFactor * n

rehash(t) ==
    LET n == Wider(t.num_bins)
    IN [Moved(t, n, [c \in Live(t) |-> HashOf[t.elem[c].key] % n]) EXCEPT !.num_entries = Len(Entries(t))]

MustGrow(t) == t.num_entries \div t.num_bins >= MaxDensity

\* A slip: the old hash value is used after the table has grown.
ADD_DIRECTStale(t, k, v, c) ==
    LET grown == IF MustGrow(t) THEN rehash(t) ELSE t
        new == [grown EXCEPT !.elem[c] = [key |-> k, record |-> v, next |-> NIL],
                             !.num_entries = @ + 1]
    IN Push(new, do_hash(k, t), c)

\* ADD_DIRECT, with the new entry in c.
ADD_DIRECT(t, k, v, c) ==
    LET grown == IF MustGrow(t) THEN rehash(t) ELSE t
        new == [grown EXCEPT !.elem[c] = [key |-> k, record |-> v, next |-> NIL],
                             !.num_entries = @ + 1]
    IN Push(new, do_hash(k, grown), c)

Unlink(t, place, c) ==
    [Put(t, place, t.elem[c].next) EXCEPT !.elem[c] = NIL, !.num_entries = @ - 1]

\* The copy has the chains of the table in the other order.
st_copy(t) ==
    Moved(t, t.num_bins, [c \in Live(t) |-> CHOOSE b \in Bins(t) : c \in Range(Chain(t, b))])

-----------------------------------------------------------------------------
IsOpen(g) == gen[g] /= NIL

\* A walk that is under way when the table grows loses its place, and the
\* function of a st_foreach has added an entry (both history).
Add(t, k, v, c) ==
    /\ c \notin Live(t)
    /\ table' = ADD_DIRECT(t, k, v, c)
    /\ gen' = [g \in Gen |-> IF IsOpen(g) /\ MustGrow(t) THEN [gen[g] EXCEPT !.lost = TRUE] ELSE gen[g]]
    /\ each' = IF each = NIL THEN NIL ELSE [each EXCEPT !.added = TRUE, !.lost = @ \/ MustGrow(t)]

Insert(k, v, c) ==
    LET found == FIND_ENTRY(table, k)
    IN /\ IF found.ptr = NIL THEN Add(found.t, k, v, c) /\ Returns("st_insert", <<0>>)
          ELSE /\ table' = [found.t EXCEPT !.elem[found.ptr].record = v]
               /\ Returns("st_insert", <<1>>) /\ UNCHANGED <<gen, each>>
       /\ UNCHANGED slot

AddDirect(k, v, c) ==
    /\ FIND_ENTRY(table, k).ptr = NIL
    /\ Add(table, k, v, c) /\ Returns("st_add_direct", <<>>) /\ UNCHANGED slot

FindOrAdd(k, c) ==
    LET found == FIND_ENTRY(table, k)
    IN IF found.ptr = NIL
       THEN Add(found.t, k, NIL, c) /\ slot' = c /\ Returns("st_find_or_add", <<0>>)
       ELSE /\ table' = found.t /\ slot' = found.ptr
            /\ Returns("st_find_or_add", <<1>>) /\ UNCHANGED <<gen, each>>

Find(k) ==
    LET found == FIND_ENTRY(table, k)
    IN /\ table' = found.t
       /\ IF found.ptr = NIL THEN Returns("st_find", <<0>>) /\ UNCHANGED slot
          ELSE Returns("st_find", <<1>>) /\ slot' = found.ptr
       /\ UNCHANGED <<gen, each>>

Lookup(k) ==
    LET found == FIND_ENTRY(table, k)
    IN /\ table' = found.t
       /\ Returns("st_lookup", IF found.ptr = NIL THEN <<0>> ELSE <<1, table.elem[found.ptr].record>>)
       /\ UNCHANGED <<gen, each, slot>>

\* The caller assigns to *slot.
AssignSlot(v) ==
    /\ slot /= NIL
    /\ table' = [table EXCEPT !.elem[slot].record = v]
    /\ Returns("*slot", <<>>) /\ UNCHANGED <<gen, each, slot>>

\* "deleting any (key, value) pair other than the one just generated may
\* cause a fatal error" (st.txt:144)
MayDelete(k) == \A g \in Gen : IsOpen(g) => gen[g].given = k

\* The caller forgets a slot that is gone.
Forgotten(c) == IF slot = c THEN NIL ELSE slot

Delete(k) ==
    /\ each = NIL
    /\ LET found == FIND_ENTRY(table, k)
           e == table.elem[found.ptr]
       IN IF found.ptr = NIL THEN Returns("st_delete", <<0>>) /\ UNCHANGED <<table, slot>>
          ELSE /\ MayDelete(k)
               /\ table' = Unlink(found.t, found.last, found.ptr)
               /\ slot' = Forgotten(found.ptr)
               /\ Returns("st_delete", <<1, e.key, e.record>>)
    /\ UNCHANGED <<gen, each>>

Copy ==
    /\ each = NIL /\ \A g \in Gen : ~IsOpen(g)
    /\ table' = st_copy(table) /\ slot' = NIL
    /\ Returns("st_copy", <<>>) /\ UNCHANGED <<gen, each>>

-----------------------------------------------------------------------------
\* A slip: the search starts behind the bin.
FirstBinAfter(t, b) ==
    LET filled == {i \in b + 1..t.num_bins - 1 : t.bins[i] /= NIL}
    IN IF filled = {} THEN t.num_bins ELSE CHOOSE i \in filled : \A j \in filled : i <= j

\* The first bin from b on that is not empty, num_bins if there is none.
FirstBin(t, b) ==
    LET filled == {i \in b..t.num_bins - 1 : t.bins[i] /= NIL}
    IN IF filled = {} THEN t.num_bins ELSE CHOOSE i \in filled : \A j \in filled : i <= j

InitGen(g) ==
    /\ ~IsOpen(g)
    /\ gen' = [gen EXCEPT ![g] = [entry |-> NIL, index |-> 0, given |-> NIL, lost |-> FALSE]]
    /\ Returns("st_init_gen", <<>>) /\ UNCHANGED <<table, each, slot>>

\* A slip: the step to the next entry is left to the next call.
st_genLate(g) ==
    /\ IsOpen(g)
    /\ LET at == gen[g].entry
           after == IF at = NIL THEN NIL ELSE table.elem[at].next
           b == FirstBin(table, gen[g].index)
           fresh == after = NIL
           e == IF fresh THEN table.bins[b] ELSE after
       IN IF fresh /\ b = table.num_bins THEN Returns("st_gen", <<0>>) /\ UNCHANGED gen
          ELSE /\ gen' = [gen EXCEPT ![g].entry = e, ![g].given = table.elem[e].key,
                                     ![g].index = IF fresh THEN b + 1 ELSE @]
               /\ Returns("st_gen", <<1, table.elem[e].key, table.elem[e].record>>)
    /\ UNCHANGED <<table, each, slot>>

\* The generator goes to the next entry before it gives this one.
st_gen(g) ==
    /\ IsOpen(g)
    /\ LET fresh == gen[g].entry = NIL
           b == FirstBin(table, gen[g].index)
           e == IF fresh THEN table.bins[b] ELSE gen[g].entry
       IN IF fresh /\ b = table.num_bins THEN Returns("st_gen", <<0>>) /\ UNCHANGED gen
          ELSE /\ gen' = [gen EXCEPT ![g].entry = table.elem[e].next, ![g].given = table.elem[e].key,
                                     ![g].index = IF fresh THEN b + 1 ELSE @]
               /\ Returns("st_gen", <<1, table.elem[e].key, table.elem[e].record>>)
    /\ UNCHANGED <<table, each, slot>>

FreeGen(g) ==
    /\ IsOpen(g) /\ gen' = [gen EXCEPT ![g] = NIL]
    /\ Returns("st_free_gen", <<>>) /\ UNCHANGED <<table, each, slot>>

\* st_foreach calls its function for the entry at the place, or else for the
\* first one in bin b or later, or else it returns.
CallFor(name, t, place, b, lost) ==
    LET there == At(t, place)
        i == IF there /= NIL THEN b - 1 ELSE FirstBin(t, b)
        ptr == IF there /= NIL THEN there ELSE t.bins[i]
    IN IF there = NIL /\ i = t.num_bins THEN each' = NIL /\ Returns(name, <<1>>)
       ELSE /\ each' = [index |-> i, last |-> IF there /= NIL THEN place ELSE i,
                        ptr |-> ptr, added |-> FALSE, lost |-> lost]
            /\ Returns(name, <<t.elem[ptr].key>>)

ForEach ==
    /\ each = NIL
    /\ CallFor("st_foreach", table, 0, 1, FALSE) /\ UNCHANGED <<table, gen, slot>>

Continue ==
    /\ each /= NIL
    /\ CallFor("ST_CONTINUE", table, each.ptr, each.index + 1, each.lost)
    /\ UNCHANGED <<table, gen, slot>>

Stop ==
    /\ each /= NIL /\ each' = NIL
    /\ Returns("ST_STOP", <<0>>) /\ UNCHANGED <<table, gen, slot>>

DeleteGiven ==
    /\ each /= NIL /\ ~each.added /\ MayDelete(table.elem[each.ptr].key)
    /\ LET left == Unlink(table, each.last, each.ptr)
       IN /\ table' = left
          /\ CallFor("ST_DELETE", left, each.last, each.index + 1, each.lost)
    /\ slot' = Forgotten(each.ptr) /\ UNCHANGED gen

-----------------------------------------------------------------------------
TableCall ==
    \/ \E k \in Key, v \in Val, c \in Cell : Insert(k, v, c) \/ AddDirect(k, v, c)
    \/ \E k \in Key, c \in Cell : FindOrAdd(k, c)
    \/ \E k \in Key : Find(k) \/ Lookup(k) \/ Delete(k)
    \/ \E v \in Val : AssignSlot(v)
    \/ Copy
    \/ ForEach \/ Continue \/ Stop \/ DeleteGiven

GenCall(g) == InitGen(g) \/ st_gen(g) \/ FreeGen(g)

Spec == Init /\ [][TableCall \/ \E g \in Gen : GenCall(g)]_vars

-----------------------------------------------------------------------------
(* Every entry is in one chain, once, where its key hashes to now; no key  *)
(* has two entries, num_entries counts them, and the chains are no longer  *)
(* on average than the density the table was made with allows, whatever    *)
(* the table grew from.                                                    *)
TableIsSound ==
    LET all == Entries(table)
    IN /\ \A b \in Bins(table) : \A c \in Range(Chain(table, b)) :
            table.elem[c] \in Entry /\ do_hash(table.elem[c].key, table) = b
       /\ IsInjective(all) /\ Range(all) = Live(table)
       /\ \A c, d \in Live(table) : table.elem[c].key = table.elem[d].key => c = d
       /\ table.num_entries = Cardinality(Live(table))
       /\ table.num_entries <= MaxDensity * table.num_bins

(* A walk never comes to an entry that was freed: the entry a generator    *)
(* gives next, the one st_foreach's function has been called for, and the  *)
(* place a deletion it asks for would write to, however calls interleave   *)
(* and whenever the table grows.  A slot stays good as long as its entry.  *)
WalksAreLive ==
    /\ \A g \in Gen : IsOpen(g) => gen[g].entry \in Live(table) \union {NIL}
    /\ each /= NIL =>
        /\ each.ptr \in Live(table)
        /\ ~each.added => /\ each.last \in Live(table) \union Bins(table)
                          /\ At(table, each.last) = each.ptr
    /\ slot \in Live(table) \union {NIL}

\* The table implements the map and the walks of StApi.
KeyOf(c) == IF c = NIL THEN NIL ELSE table.elem[c].key

KeysIn(chain) == {table.elem[c].key : c \in Range(chain)}

MapOf == [k \in {table.elem[c].key : c \in Live(table)} |->
             (CHOOSE e \in Range(table.elem) : e /= NIL /\ e.key = k).record]

KeysFrom(c, b) == KeysIn(ChainFrom(table, c)) \union UNION {KeysIn(Chain(table, i)) : i \in b..table.num_bins - 1}

OwedTo(g) ==
    IF ~IsOpen(g) THEN NIL ELSE IF gen[g].lost THEN Lost ELSE KeysFrom(gen[g].entry, gen[g].index)

EachOf ==
    IF each = NIL THEN NIL
    ELSE [key |-> KeyOf(each.ptr), added |-> each.added,
          owed |-> IF each.lost THEN Lost ELSE KeysFrom(At(table, each.ptr), each.index + 1)]

Api == INSTANCE StApi WITH map <- MapOf, bins <- table.num_bins,
           owed <- [g \in Gen |-> OwedTo(g)], each <- EachOf, slot <- KeyOf(slot)

\* Every call does to the map and the walks what StApi says, and returns
\* what it says.
KeepsPromise == Api!Spec

=============================================================================
