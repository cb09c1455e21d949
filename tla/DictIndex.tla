----------------------------- MODULE DictIndex -----------------------------
(***************************************************************************)
(* One dictionary of the native runtime (src/runtime/runtime.c): entries   *)
(* in insertion order, searched from the front while there are few of them *)
(* and through an open-addressing index when there are more.  The index is *)
(* built by the first lookup that wants it, extended by appends, and must  *)
(* be dropped by whatever removes or reorders keys.  Next to it the        *)
(* dictionary caches the name of the object type it is an instance of.     *)
(*                                                                         *)
(* Dictionaries are shared by reference: between the two halves of an      *)
(* operation that runs program code, any other operation may happen.       *)
(*                                                                         *)
(* Entries count from 1 (the code: from 0) and 0 is an empty slot (-1).    *)
(***************************************************************************)
EXTENDS Integers, Sequences, FiniteSets

CONSTANTS
    Keys, ObjectKey, TypeKey,  \* keys; among them "__object" and "__type"
    Values, True, TypeNames,   \* values; among them true and type names
    None,                      \* NULL
    Hash,                      \* name_hash
    Rank,                      \* the order of keys under strcasecmp
    MinIndex,                  \* DICT_INDEX_MIN
    InitCap,                   \* slots of the smallest index: 16
    MaxLen                     \* bound of the model: entries

ASSUME KeysAssumption ==
    /\ Hash \in [Keys -> Nat] /\ Rank \in [Keys -> Nat]
    /\ True \notin TypeNames /\ None \notin TypeNames
ASSUME BoundsAssumption ==
    MinIndex \in Nat \ {0} /\ InitCap \in Nat \ {0} /\ MaxLen \in Nat \ {0}

VARIABLES
    entries, \* keys[0..n-1] and vals[0..n-1]
    index,   \* index (its slots), index_cap and index_n
    object,  \* object_checked and object_name
    target   \* where an operation under way will write its result back

vars == <<entries, index, object, target>>

Entry == [key : Keys, val : Values]
NoIndex == [slots |-> <<>>, cap |-> 0, n |-> 0]
Unchecked == [checked |-> FALSE, name |-> None]
NoTarget == [key |-> None, at |-> 0]

-----------------------------------------------------------------------------
(* dict_find_linear: the first entry with the key, or none (0).            *)

FindLinear(es, k) ==
    LET hits == {i \in 1..Len(es) : es[i].key = k}
    IN  IF hits = {} THEN 0 ELSE CHOOSE i \in hits : \A j \in hits : i <= j

(* The index: probing from the hash slot on, round the table.              *)

\* The slot that is empty or holds the key, whichever comes first.
Probe(es, slots, cap, k) ==
    LET slot(d) == (Hash[k] + d) % cap
        stops == {d \in 0..(cap - 1) :
                    LET i == slots[slot(d)] IN i = 0 \/ es[i].key = k}
    IN  slot(CHOOSE d \in stops : \A c \in stops : d <= c)

\* Doubled from InitCap until n entries fill at most half of it.
CapFor(n) ==
    LET cap[i \in 0..n] == IF i = 0 THEN InitCap
                           ELSE IF cap[i - 1] >= 2 * n THEN cap[i - 1] ELSE 2 * cap[i - 1]
    IN  cap[n]

Put(es, slots, cap, i) == [slots EXCEPT ![Probe(es, slots, cap, es[i].key)] = i]

NoSlots(cap) == [j \in 0..(cap - 1) |-> 0]

\* Forwards, the last occurrence of a key would win.
FilledForwards(es, cap) ==
    LET put[i \in 0..Len(es)] ==
          IF i = 0 THEN NoSlots(cap) ELSE Put(es, put[i - 1], cap, i)
    IN  put[Len(es)]

\* Backwards, so that the first occurrence of a key wins.
Filled(es, cap) ==
    LET put[i \in 1..(Len(es) + 1)] ==
          IF i > Len(es) THEN NoSlots(cap) ELSE Put(es, put[i + 1], cap, i)
    IN  put[1]

\* dict_index_build
Build(es) ==
    LET cap == CapFor(Len(es))
    IN  [slots |-> Filled(es, cap), cap |-> cap, n |-> Len(es)]

\* The index a lookup leaves, and what it finds with it.
AfterFind ==
    IF Len(entries) >= MinIndex /\ (index = NoIndex \/ index.n # Len(entries))
    THEN Build(entries) ELSE index

FindIn(ix, k) ==
    IF Len(entries) >= MinIndex
    THEN ix.slots[Probe(entries, ix.slots, ix.cap, k)] ELSE FindLinear(entries, k)

Find(k) == FindIn(AfterFind, k)

IsFullAtCap(ix) == ix.n + 1 > ix.cap

\* At most half of the slots are used.
IsFull(ix) == (ix.n + 1) * 2 > ix.cap

\* dict_reindex drops the index, ...
Reindex == NoIndex

\* dict_invalidate_object the cached type name.
InvalidateNever == object

Invalidate == Unchecked

\* dict_index_add, of the last of es.
IndexDropped(ix, es) == ix # NoIndex /\ (Len(es) - 1 # ix.n \/ IsFull(ix))

IndexAdd(ix, es) ==
    LET j == Probe(es, ix.slots, ix.cap, es[Len(es)].key) IN
    IF ix = NoIndex THEN ix
    ELSE IF IndexDropped(ix, es) THEN NoIndex
    ELSE [slots |-> [ix.slots EXCEPT ![j] = IF @ = 0 THEN Len(es) ELSE @],
          cap |-> ix.cap, n |-> Len(es)]

\* object_type_name: the last "__type", if some "__object" is true.
ObjectName(es) ==
    LET marked == \E i \in 1..Len(es) : es[i] = [key |-> ObjectKey, val |-> True]
        named  == {i \in 1..Len(es) : es[i].key = TypeKey /\ es[i].val \in TypeNames}
    IN  IF marked /\ named # {}
        THEN es[CHOOSE i \in named : \A j \in named : j <= i].val ELSE None

\* The entries at the positions S, in the order `before` of S.
Listed(es, S, before) ==
    LET place(i) == 1 + Cardinality({j \in S : <<j, i>> \in before})
    IN  [p \in 1..Cardinality(S) |-> es[CHOOSE i \in S : place(i) = p]]

InOrder(S) == {p \in S \X S : p[1] < p[2]}

\* sort_dict_entries: a stable merge sort.
SortOrder(es, descending) ==
    {p \in (1..Len(es)) \X (1..Len(es)) :
       LET a == Rank[es[p[1]].key]
           b == Rank[es[p[2]].key]
       IN  IF a = b THEN p[1] < p[2] ELSE IF descending THEN b < a ELSE a < b}

Sorted(es, descending) == Listed(es, 1..Len(es), SortOrder(es, descending))

-----------------------------------------------------------------------------
(* Actions.                                                                *)

\* b_makeDict, in whose list a key may occur twice.
Init ==
    /\ entries \in UNION {[1..n -> Entry] : n \in 0..MaxLen}
    /\ index = NoIndex /\ object = Unchecked /\ target = NoTarget

\* dict_find, by b_get, index_at, key? and many others.
Lookup(k) ==
    /\ index' = AfterFind
    /\ UNCHANGED <<entries, object, target>>

Overwrite(k, v) ==
    /\ Find(k) # 0
    /\ entries' = [entries EXCEPT ![Find(k)].val = v]
    /\ index' = AfterFind
    /\ UNCHANGED target

AddEntry(k, v) ==
    /\ Find(k) = 0 /\ Len(entries) < MaxLen
    /\ entries' = entries \o <<[key |-> k, val |-> v]>>
    /\ index' = IndexAdd(AfterFind, entries')
    /\ UNCHANGED target

\* b_set, path_write; the first case also path_target with path_store.
Set(k, v) ==
    /\ Overwrite(k, v) \/ AddEntry(k, v)
    /\ object' = Invalidate

\* serve collects request headers before a program sees them.
SetHeader(k, v) ==
    /\ ~object.checked
    /\ Overwrite(k, v) \/ AddEntry(k, v)
    /\ UNCHANGED object

\* runtime_construct copies the members of the prototype without looking.
AddMember(k, v) ==
    /\ Len(entries) < MaxLen
    /\ entries' = entries \o <<[key |-> k, val |-> v]>>
    /\ index' = Reindex /\ object' = Invalidate
    /\ UNCHANGED target

\* b_remove, by key or by value.
RemoveAll(gone) ==
    /\ LET kept == {i \in 1..Len(entries) : entries[i] \notin gone}
       IN  entries' = Listed(entries, kept, InOrder(kept))
    /\ index' = Reindex /\ object' = Invalidate
    /\ UNCHANGED target

RemoveKey(k) == RemoveAll({en \in Entry : en.key = k})
RemoveValue(v) == RemoveAll({en \in Entry : en.val = v})

\* b_empty_value
Empty ==
    /\ entries' = <<>>
    /\ index' = Reindex /\ object' = Invalidate
    /\ UNCHANGED target

\* b_sort of a path: in place.
Sort(descending) ==
    /\ Len(entries) >= 2
    /\ entries' = Sorted(entries, descending)
    /\ index' = Reindex /\ object' = Invalidate
    /\ UNCHANGED target

\* object_type_name
TypeName ==
    /\ object' = IF object.checked THEN object
                 ELSE [checked |-> TRUE, name |-> ObjectName(entries)]
    /\ UNCHANGED <<entries, index, target>>

\* b_render of a path: mut_load finds the entry, the template runs, and
\* path_store writes to where the entry was.  Behind the entries in use the
\* write has no effect.
BeginRender(k) ==
    /\ target = NoTarget /\ Find(k) # 0
    /\ target' = [key |-> k, at |-> Find(k)]
    /\ index' = AfterFind
    /\ UNCHANGED <<entries, object>>

EndRender(v) ==
    /\ target # NoTarget
    /\ entries' = IF target.at <= Len(entries)
                  THEN [entries EXCEPT ![target.at].val = v] ELSE entries
    /\ object' = Invalidate /\ target' = NoTarget
    /\ UNCHANGED index

Next ==
    \/ \E k \in Keys : Lookup(k) \/ RemoveKey(k) \/ BeginRender(k)
    \/ \E k \in Keys, v \in Values : Set(k, v) \/ SetHeader(k, v) \/ AddMember(k, v)
    \/ \E v \in Values : RemoveValue(v) \/ EndRender(v)
    \/ \E descending \in BOOLEAN : Sort(descending)
    \/ Empty \/ TypeName

Spec == Init /\ [][Next]_vars

-----------------------------------------------------------------------------
(* Properties                                                              *)

\* Types; a slot names an entry.
TypeOK ==
    /\ entries \in Seq(Entry) /\ Len(entries) <= MaxLen
    /\ index.n \in 0..Len(entries)
    /\ DOMAIN index.slots = (IF index = NoIndex THEN {} ELSE 0..(index.cap - 1))
    /\ \A j \in DOMAIN index.slots : index.slots[j] \in 0..Len(entries)
    /\ object \in [checked : BOOLEAN, name : TypeNames \cup {None}]
    /\ target \in [key : Keys, at : 1..MaxLen] \cup {NoTarget}

\* Probing for a key that is not there ends: some slot is empty.
ProbesEnd == TypeOK /\ (index # NoIndex => \E j \in DOMAIN index.slots : index.slots[j] = 0)

\* A lookup finds what the linear scan finds, first of equal keys and
\* insertion order included ("internal dictionary index mismatch").
FindIsLinear ==
    LET ix == AfterFind IN \A k \in Keys : FindIn(ix, k) = FindLinear(entries, k)

\* The cached type name is what a scan of the entries gives: no operation
\* changes a mark or a name behind it.
TypeNameFresh == object.checked => object.name = ObjectName(entries)

\* "write back into the container a path_target resolved": a result is
\* written to an entry of the key it was read from.
WrittenToItsKey ==
    [][\A v \in Values : EndRender(v) =>
         target.at <= Len(entries) /\ entries[target.at].key = target.key]_vars
=============================================================================
