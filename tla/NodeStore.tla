----------------------------- MODULE NodeStore -----------------------------
(***************************************************************************)
(* The nodestore of the single-threaded build: a hash table with double    *)
(* hashing that grows when three quarters full and shrinks when less than  *)
(* an eighth full.  Operations run to completion.                          *)
(*                                                                         *)
(* The ids are the numeric ids of one namespace; the hash of an id and the *)
(* table of primes are constants, so that small tables can be checked with *)
(* the hash values of the code.  Failing allocations are left out.         *)
(***************************************************************************)
EXTENDS Naturals, Sequences, FiniteSets, FiniteSetsExt

LOCAL S == INSTANCE SequencesExt

CONSTANTS
    Ids,          \* numeric ids, from 0
    Explicit,     \* ids that callers ask for
    Removable,    \* ids that callers remove
    Values,       \* contents of a node
    FirstValues,  \* contents of a node that is inserted
    None,         \* no id or content
    Hash,         \* the hash of each id
    Primes,       \* table sizes
    MinSize,      \* UA_NODESTORE_MINSIZE
    ShrinkAbove,  \* a smaller table does not shrink, 32 in the code
    MaxCount      \* bound: insertions stop at this many nodes

ASSUME StoreAssumption ==
    /\ Ids \subseteq Nat
    /\ Explicit \subseteq Ids \ {0}
    /\ Removable \subseteq Ids
    /\ FirstValues \subseteq Values
    /\ Hash \in [Ids -> Nat]
    /\ \A i \in DOMAIN Primes : Primes[i] \in Nat /\ Primes[i] > 3
    /\ \A i, k \in DOMAIN Primes : i < k => Primes[i] < Primes[k]
    /\ MinSize \in Nat
    /\ ShrinkAbove \in Nat
    /\ MaxCount \in Nat

VARIABLES
    entries,  \* ns->entries: a node or Free in each slot
    count,    \* ns->count
    answer    \* what the last operation returned

vars == <<entries, count, answer>>

Free == [id |-> None, value |-> None]
Node == [id : Ids, value : Values]
Answer(op, status, about) == [op |-> op, status |-> status, about |-> about]

-----------------------------------------------------------------------------
Size(es) == Cardinality(DOMAIN es)

\* The first prime of the table that is not less than n.
HigherPrime(n) == Primes[Min({i \in DOMAIN Primes : Primes[i] >= n})]

EmptyTable(size) == [i \in 0 .. size - 1 |-> Free]

Taken(es) == {i \in DOMAIN es : es[i] # Free}

\* mod and mod2
Mod(h, size) == h % size
Mod2(h, size) == 1 + (h % (size - 2))

\* The slot visited after k steps.
Probe(size, id, k) == (Mod(Hash[id], size) + k * Mod2(Hash[id], size)) % size

\* containsNodeId: the first slot on the way that is free or holds the id.
Slot(es, id) ==
    LET size == Size(es)
        stops == {k \in 0 .. size - 1 : LET e == es[Probe(size, id, k)] IN e = Free \/ e.id = id}
    IN  Probe(size, id, Min(stops))

ContainsNodeId(es, id) == es[Slot(es, id)] # Free

\* Mutant of Resized: the entries keep their slots.
ResizedInPlace(es, size) ==
    [i \in 0 .. size - 1 |-> IF i \in DOMAIN es THEN es[i] ELSE Free]

\* The entries, taken in the order of the old table, are inserted into a new one.
Resized(es, size) ==
    S!FoldLeft(LAMBDA t, i : IF es[i - 1] = Free
                             THEN t
                             ELSE [t EXCEPT ![Slot(t, es[i - 1].id)] = es[i - 1]],
               EmptyTable(size),
               [i \in 1 .. Size(es) |-> i])

\* expand: a table that is neither too full nor too empty stays.
Expand(es, n) ==
    IF n * 2 < Size(es) /\ (n * 8 > Size(es) \/ Size(es) <= MinSize)
    THEN es
    ELSE Resized(es, HigherPrime(n * 2))

\* Mutant of Roomy: never grows the table.
RoomyAlways(es, n) == es

\* The table an insertion works on.
Roomy(es, n) == IF Size(es) * 3 <= n * 4 THEN Expand(es, n) ELSE es

\* Mutant of FreshId: takes the start value.
FreshIdUnchecked(es, n) == n + 1

\* The first id that is not in the table, from the number of nodes on in steps modulo the size.
FreshId(es, n) ==
    LET size == Size(es)
        id(k) == (n + 1 + k * Mod2(n + 1, size)) % size
    IN  id(Min({k \in 0 .. size - 1 : ~ContainsNodeId(es, id(k))}))

-----------------------------------------------------------------------------
Init ==
    /\ entries = EmptyTable(HigherPrime(MinSize))
    /\ count = 0
    /\ answer = Answer("new", "GOOD", None)

Fill(es, id, v) ==
    /\ entries' = [es EXCEPT ![Slot(es, id)] = [id |-> id, value |-> v]]
    /\ count' = count + 1
    /\ answer' = Answer("insert", "GOOD", id)

\* UA_NodeStore_insert of a node with an id
Insert(id, v) ==
    LET es == Roomy(entries, count)
    IN  IF ContainsNodeId(es, id)
        THEN /\ entries' = es
             /\ answer' = Answer("insert", "BADNODEIDEXISTS", id)
             /\ UNCHANGED count
        ELSE Fill(es, id, v)

\* UA_NodeStore_insert of a node without an id
InsertFresh(v) ==
    LET es == Roomy(entries, count) IN Fill(es, FreshId(es, count), v)

\* UA_NodeStore_replace; current says that the caller's pointer is to the stored node.
Replace(id, current, v) ==
    /\ UNCHANGED count
    /\ IF ~ContainsNodeId(entries, id)
       THEN /\ answer' = Answer("replace", "BADNODEIDUNKNOWN", id)
            /\ UNCHANGED entries
       ELSE IF current
            THEN /\ answer' = Answer("replace", "GOOD", id)
                 /\ entries' = [entries EXCEPT ![Slot(entries, id)] = [id |-> id, value |-> v]]
            ELSE /\ answer' = Answer("replace", "BADINTERNALERROR", id)
                 /\ UNCHANGED entries

\* UA_NodeStore_get
Get(id) ==
    /\ answer' = IF ContainsNodeId(entries, id)
                 THEN Answer("get", "GOOD", entries[Slot(entries, id)].value)
                 ELSE Answer("get", "BADNODEIDUNKNOWN", id)
    /\ UNCHANGED <<entries, count>>

\* The table after a removal.
Shrunk(es, n) == IF n * 8 < Size(es) /\ Size(es) > ShrinkAbove THEN Expand(es, n) ELSE es

\* UA_NodeStore_remove
Remove(id) ==
    IF ContainsNodeId(entries, id)
    THEN LET es == [entries EXCEPT ![Slot(entries, id)] = Free]
         IN  /\ entries' = Shrunk(es, count - 1)
             /\ count' = count - 1
             /\ answer' = Answer("remove", "GOOD", id)
    ELSE /\ answer' = Answer("remove", "BADNODEIDUNKNOWN", id)
         /\ UNCHANGED <<entries, count>>

Next ==
    \/ count < MaxCount /\ \E v \in FirstValues : InsertFresh(v) \/ \E id \in Explicit : Insert(id, v)
    \/ \E id \in Explicit, v \in Values, current \in BOOLEAN : Replace(id, current, v)
    \/ \E id \in Explicit : Get(id)
    \/ \E id \in Removable : Remove(id)

Spec == Init /\ [][Next]_vars

-----------------------------------------------------------------------------
(* Properties *)

\* Every variable has its type: the table has the size of a prime of the list.
TypeOK ==
    /\ \E i \in DOMAIN Primes : entries \in [0 .. Primes[i] - 1 -> Node \cup {Free}]
    /\ count \in Nat

\* The search for a slot ends: some slot is free, also when removals have left nodes that are
\* not found any more.
SearchEnds == Cardinality(Taken(entries)) <= count /\ count < Size(entries)

\* The table has a size its hash functions work with, and room for a search to end, after
\* any growing and shrinking.
TableInv == TypeOK /\ SearchEnds

\* "Returns UA_TRUE if an entry was found under the nodeid": a node in the table is found
\* in its slot.
EveryNodeFound == \A i \in Taken(entries) : Slot(entries, entries[i].id) = i

\* Only a removal, which frees a slot on the way to others, can hide nodes: growing, rehashing
\* and generating ids keep every node where the search finds it.
FoundUnlessRemoved == [][EveryNodeFound /\ answer'.op # "remove" => EveryNodeFound']_vars

\* The map the table stands for.
Nodes ==
    [id \in {entries[i].id : i \in Taken(entries)} |->
        (CHOOSE e \in {entries[i] : i \in Taken(entries)} : e.id = id).value]

Map == INSTANCE NodeMap WITH nodes <- Nodes, answer <- answer

\* Growing, shrinking, probing and generating ids are not observable: from a table in which
\* every node is found, each operation has the answer and the effect it has on a map.
IsNodeMap == Map!Init /\ [][EveryNodeFound => Map!Next]_<<Nodes, answer>>
=============================================================================
