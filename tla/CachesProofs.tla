---------------------------- MODULE CachesProofs ----------------------------
(***************************************************************************)
(* Two caches answer as a scan would, for any keys, hash, order of keys,   *)
(* capacity and number of entries, and for any strings: the index of a     *)
(* dictionary (DictIndex), and the rune cursor (RuneCursor), whose names   *)
(* begin with Cursor where both modules would have the same.               *)
(*                                                                         *)
(* A walk of the cursor is a recursive function.  What it computes is      *)
(* shown by induction over its steps, in the form a set of numbers allows  *)
(* (Induct): a walk of k + 1 steps is one of k steps and one more          *)
(* (WalkSteps).  The cursor is sound when it stands where a scan of its    *)
(* index stands; a lookup that walks on from there is then the whole scan  *)
(* (Composed).                                                             *)
(***************************************************************************)
EXTENDS DictIndex, RuneCursor, FiniteSetTheorems, WellFoundedInduction, TLAPS

\* Where the d-th probe for k looks.
Slot(k, d, cap) == (Hash[k] + d) % cap

\* The entries from lo on that are the first of them with their key.
Firsts(es, lo) == {i \in lo..Len(es) : \A j \in lo..(i - 1) : es[j].key # es[i].key}

\* The slots hold these and nothing else, each once, ...
HoldsFirsts(es, lo, slots, cap) ==
    /\ slots \in [0..(cap - 1) -> Nat]
    /\ \A s \in 0..(cap - 1) : slots[s] # 0 => slots[s] \in Firsts(es, lo)
    /\ \A s, t \in 0..(cap - 1) : slots[s] # 0 /\ slots[s] = slots[t] => s = t

\* ... and no slot is empty on the way from the hash of a key to its entry.
Reachable(es, lo, slots, cap) ==
    \A i \in Firsts(es, lo) : \E d \in 0..(cap - 1) :
        /\ slots[Slot(es[i].key, d, cap)] = i
        /\ \A c \in 0..(d - 1) : slots[Slot(es[i].key, c, cap)] # 0

Indexed(es, lo, slots, cap) == HoldsFirsts(es, lo, slots, cap) /\ Reachable(es, lo, slots, cap)

\* An index that is there is one of the entries, and at most half full.
Sound(ix, es) ==
    ix = NoIndex \/ /\ ix.n = Len(es)
                    /\ ix.cap \in Nat \ {0} /\ 2 * Len(es) <= ix.cap
                    /\ Indexed(es, 1, ix.slots, ix.cap)

IInv == TypeOK /\ Sound(index, entries) /\ TypeNameFresh

-----------------------------------------------------------------------------
(* Numbers                                                                 *)

\* A set of numbers has a least one.
LEMMA Least ==
    ASSUME NEW T \in SUBSET Nat, T # {}
    PROVE  \E x \in T : \A y \in T : x <= y
  <1>1. PICK x \in T : \A y \in T : ~(<<y, x>> \in OpToRel(<, Nat))
    BY NatLessThanWellFounded, WFMin
  <1>2. \A y \in T : y \in Nat /\ x \in Nat
    OBVIOUS
  <1>3. \A y \in T : ~(y < x)
    BY <1>1, <1>2 DEF OpToRel
  <1> QED BY <1>3

\* A bounded one has a greatest.
LEMMA Greatest ==
    ASSUME NEW n \in Nat, NEW T \in SUBSET (0..n), T # {}
    PROVE  \E x \in T : \A y \in T : y <= x
  <1> DEFINE U == {m \in Nat : \A y \in T : y <= m}
  <1>1. U \in SUBSET Nat /\ n \in U
    OBVIOUS
  <1>2. PICK x \in U : \A y \in U : x <= y
    BY <1>1, Least
  <1>3. x \in T
    <2>1. SUFFICES ASSUME x \notin T PROVE FALSE
      OBVIOUS
    <2>2. \A y \in T : y \in Nat /\ y <= x /\ y # x
      BY <1>2, <2>1
    <2>3. PICK z \in T : TRUE
      OBVIOUS
    <2>4. x \in Nat /\ x - 1 \in Nat /\ \A y \in T : y <= x - 1
      BY <2>2, <2>3
    <2>5. x - 1 \in U /\ ~(x <= x - 1)
      BY <2>4
    <2> QED BY <1>2, <2>5
  <1> QED BY <1>2, <1>3

\* Division with a remainder, and back.
LEMMA DivMod ==
    ASSUME NEW h \in Nat, NEW cap \in Nat \ {0}
    PROVE  h = cap * (h \div cap) + (h % cap) /\ h \div cap \in Nat /\ h % cap \in 0..(cap - 1)
  OBVIOUS

LEMMA ModOfSum ==
    ASSUME NEW q \in Nat, NEW r \in Nat, NEW cap \in Nat \ {0}, r < cap
    PROVE  (cap * q + r) % cap = r
  OBVIOUS

LEMMA ModIs ==
    ASSUME NEW x, NEW q \in Nat, NEW cap \in Nat \ {0}, NEW r \in 0..(cap - 1), x = cap * q + r
    PROVE  x % cap = r
  <1>1. r \in Nat /\ r < cap
    OBVIOUS
  <1>2. (cap * q + r) % cap = r
    BY <1>1, ModOfSum
  <1> QED BY <1>2, Zenon

\* Builds any start, a walk round the table comes by every slot.
LEMMA Around ==
    ASSUME NEW h \in Nat, NEW cap \in Nat \ {0}, NEW s \in 0..(cap - 1)
    PROVE  \E d \in 0..(cap - 1) : (h + d) % cap = s
  <1> DEFINE r == h % cap
             q == h \div cap
  <1>1. h = cap * q + r /\ q \in Nat /\ r \in 0..(cap - 1)
    BY DivMod
  <1> HIDE DEF r, q
  <1>2. CASE s >= r
    <2>1. s - r \in 0..(cap - 1) /\ h + (s - r) = cap * q + s
      BY <1>1, <1>2
    <2>2. PICK d \in 0..(cap - 1) : h + d = cap * q + s
      BY <2>1
    <2>3. (h + d) % cap = s
      BY <1>1, <2>2, ModIs
    <2> QED BY <2>3
  <1>3. CASE s < r
    <2> DEFINE p == q + 1
    <2>1. p \in Nat /\ cap * p = cap * q + cap
      BY <1>1
    <2> HIDE DEF p
    <2>2. PICK d \in 0..(cap - 1) : h + d = cap * p + s
      <3>1. s + cap - r \in 0..(cap - 1) /\ h + (s + cap - r) = cap * p + s
        BY <1>1, <1>3, <2>1
      <3> QED BY <3>1
    <2>3. (h + d) % cap = s
      BY <2>1, <2>2, ModIs
    <2> QED BY <2>3
  <1> QED BY <1>1, <1>2, <1>3

-----------------------------------------------------------------------------
(* Probing                                                                 *)

LEMMA SlotIn ==
    ASSUME NEW k \in Keys, NEW cap \in Nat \ {0}
    PROVE  \A d \in 0..(cap - 1) : Slot(k, d, cap) \in 0..(cap - 1)
  <1>1. Hash[k] \in Nat
    BY KeysAssumption
  <1>2. \A d \in 0..(cap - 1) : Hash[k] + d \in Nat
    BY <1>1
  <1> QED BY <1>2, DivMod DEF Slot

LEMMA Reaches ==
    ASSUME NEW k \in Keys, NEW cap \in Nat \ {0}, NEW s \in 0..(cap - 1)
    PROVE  \E d \in 0..(cap - 1) : Slot(k, d, cap) = s
  <1> DEFINE h == Hash[k]
  <1>1. h \in Nat
    BY KeysAssumption
  <1>2. \A x \in Nat : \E d \in 0..(cap - 1) : (x + d) % cap = s
    BY Around
  <1>3. \E d \in 0..(cap - 1) : (h + d) % cap = s
    BY <1>1, <1>2
  <1> QED BY <1>3 DEF Slot

\* The keys of entries are keys.
LEMMA KeysOf ==
    ASSUME NEW es \in Seq(Entry)
    PROVE  \A i \in 1..Len(es) : es[i] \in Entry /\ es[i].key \in Keys /\ es[i].val \in Values
  <1>1. \A i \in 1..Len(es) : es[i] \in Entry
    OBVIOUS
  <1> QED BY <1>1 DEF Entry

\* In a table with an empty slot a probe ends at the first slot that is empty or holds
\* the key.
LEMMA ProbeIs ==
    ASSUME NEW es, NEW cap \in Nat \ {0}, NEW slots, NEW k \in Keys,
           NEW s \in 0..(cap - 1), slots[s] = 0
    PROVE  \E d \in 0..(cap - 1) : LET j == Slot(k, d, cap) IN
               /\ Probe(es, slots, cap, k) = j
               /\ slots[j] = 0 \/ es[slots[j]].key = k
               /\ \A c \in 0..(d - 1) : LET i == slots[Slot(k, c, cap)] IN i # 0 /\ es[i].key # k
  <1> DEFINE Stop(d) == slots[Slot(k, d, cap)] = 0 \/ es[slots[Slot(k, d, cap)]].key = k
             stops == {d \in 0..(cap - 1) : Stop(d)}
             d0 == CHOOSE d \in stops : \A c \in stops : d <= c
  <1>1. stops # {} /\ stops \in SUBSET Nat
    <2>1. \E d \in 0..(cap - 1) : Slot(k, d, cap) = s
      BY Reaches
    <2> QED BY <2>1
  <1>2. d0 \in stops /\ \A c \in stops : d0 <= c
    BY <1>1, Least
  <1>3. Probe(es, slots, cap, k) = Slot(k, d0, cap)
    BY DEF Probe, Slot
  <1> HIDE DEF d0
  <1>4. ASSUME NEW c \in 0..(d0 - 1) PROVE c \in 0..(cap - 1) /\ ~Stop(c)
    <2>1. c \in 0..(cap - 1) /\ ~(d0 <= c)
      BY <1>2
    <2>2. c \notin stops
      BY <1>2, <2>1
    <2> QED BY <2>1, <2>2
  <1> QED BY <1>2, <1>3, <1>4

\* A table with more slots than entries has an empty one.
LEMMA SomeSlotEmpty ==
    ASSUME NEW es \in Seq(Entry), NEW lo \in Nat \ {0}, NEW cap \in Nat, NEW slots,
           Len(es) < cap, HoldsFirsts(es, lo, slots, cap)
    PROVE  \E s \in 0..(cap - 1) : slots[s] = 0
  <1>1. SUFFICES ASSUME \A s \in 0..(cap - 1) : slots[s] # 0 PROVE FALSE
    OBVIOUS
  <1> DEFINE S == 0..(cap - 1)
             T == 1..Len(es)
  <1>2. Len(es) \in Nat
    OBVIOUS
  <1>3. slots \in [S -> T]
    BY <1>1, <1>2 DEF HoldsFirsts, Firsts
  <1>4. IsFiniteSet(S) /\ IsFiniteSet(T) /\ Cardinality(T) < Cardinality(S)
    <2>1. /\ IsFiniteSet(0..(cap - 1))
          /\ Cardinality(0..(cap - 1)) = IF 0 > cap - 1 THEN 0 ELSE (cap - 1) - 0 + 1
      <3>1. 0 \in Int /\ cap - 1 \in Int
        OBVIOUS
      <3> HIDE DEF S, T
      <3> QED BY <3>1, FS_Interval
    <2>2. /\ IsFiniteSet(1..Len(es))
          /\ Cardinality(1..Len(es)) = IF 1 > Len(es) THEN 0 ELSE Len(es) - 1 + 1
      <3>1. 1 \in Int /\ Len(es) \in Int
        BY <1>2
      <3> HIDE DEF S, T
      <3> QED BY <3>1, FS_Interval
    <2> QED BY <1>2, <2>1, <2>2
  <1>5. PICK x \in S, y \in S : x # y /\ slots[x] = slots[y]
    <2> HIDE DEF S, T
    <2> QED BY <1>3, <1>4, FS_PigeonHole
  <1> QED BY <1>1, <1>5 DEF HoldsFirsts

\* Of two entries with one key at most one is the first.
LEMMA FirstIsOne ==
    ASSUME NEW es \in Seq(Entry), NEW lo \in Nat \ {0},
           NEW i \in Firsts(es, lo), NEW j \in Firsts(es, lo), es[i].key = es[j].key
    PROVE  i = j
  BY DEF Firsts

\* A lookup finds the first entry of its key, ...
LEMMA ProbeFinds ==
    ASSUME NEW es \in Seq(Entry), NEW lo \in Nat \ {0}, NEW cap \in Nat \ {0}, NEW slots,
           Indexed(es, lo, slots, cap), NEW s \in 0..(cap - 1), slots[s] = 0,
           NEW k \in Keys, NEW i \in Firsts(es, lo), es[i].key = k
    PROVE  slots[Probe(es, slots, cap, k)] = i
  <1> DEFINE At(d) == slots[Slot(k, d, cap)]
  <1>1. PICK d \in 0..(cap - 1) :
          /\ Probe(es, slots, cap, k) = Slot(k, d, cap)
          /\ At(d) = 0 \/ es[At(d)].key = k
          /\ \A c \in 0..(d - 1) : At(c) # 0 /\ es[At(c)].key # k
    BY ProbeIs
  <1>2. PICK e \in 0..(cap - 1) : At(e) = i /\ \A c \in 0..(e - 1) : At(c) # 0
    BY DEF Indexed, Reachable
  <1>3. i \in Nat \ {0}
    BY DEF Firsts
  <1> HIDE DEF At
  <1>4. d <= e
    BY <1>1, <1>2
  <1>5. At(d) # 0
    BY <1>2, <1>3, <1>4
  <1>6. At(d) \in Firsts(es, lo)
    <2>1. Slot(k, d, cap) \in 0..(cap - 1)
      BY SlotIn
    <2> QED BY <1>5, <2>1 DEF At, Indexed, HoldsFirsts
  <1>7. At(d) = i
    BY <1>1, <1>5, <1>6, FirstIsOne
  <1> QED BY <1>1, <1>7 DEF At

\* ... and none if there is none.
LEMMA ProbeMisses ==
    ASSUME NEW es \in Seq(Entry), NEW lo \in Nat \ {0}, NEW cap \in Nat \ {0}, NEW slots,
           Indexed(es, lo, slots, cap), NEW s \in 0..(cap - 1), slots[s] = 0,
           NEW k \in Keys, \A i \in lo..Len(es) : es[i].key # k
    PROVE  slots[Probe(es, slots, cap, k)] = 0
  <1>1. PICK d \in 0..(cap - 1) : LET j == Slot(k, d, cap) IN
          Probe(es, slots, cap, k) = j /\ (slots[j] = 0 \/ es[slots[j]].key = k)
    BY ProbeIs
  <1>2. Slot(k, d, cap) \in 0..(cap - 1)
    BY SlotIn
  <1> QED BY <1>1, <1>2 DEF Indexed, HoldsFirsts, Firsts

-----------------------------------------------------------------------------
(* Building                                                                *)

\* An empty table is the index of no entries.
LEMMA NoneIndexed ==
    ASSUME NEW es \in Seq(Entry), NEW cap \in Nat \ {0}
    PROVE  Indexed(es, Len(es) + 1, NoSlots(cap), cap)
  <1>1. Firsts(es, Len(es) + 1) = {}
    BY DEF Firsts
  <1> QED BY <1>1 DEF Indexed, HoldsFirsts, Reachable, NoSlots

\* One more entry, before the others.
LEMMA PutIndexes ==
    ASSUME NEW es \in Seq(Entry), NEW cap \in Nat \ {0}, NEW slots, Len(es) < cap,
           NEW lo \in 1..Len(es), Indexed(es, lo + 1, slots, cap)
    PROVE  Indexed(es, lo, Put(es, slots, cap, lo), cap)
  <1> DEFINE k == es[lo].key
             new == Put(es, slots, cap, lo)
             At(d) == slots[Slot(k, d, cap)]
             S == 0..(cap - 1)
  <1>0. Len(es) \in Nat /\ k \in Keys /\ lo + 1 \in Nat \ {0} /\ lo \in Nat \ {0}
    BY KeysOf
  <1>1. PICK s \in S : slots[s] = 0
    BY <1>0, SomeSlotEmpty DEF Indexed
  <1>2. PICK d \in S :
          /\ Probe(es, slots, cap, k) = Slot(k, d, cap)
          /\ At(d) = 0 \/ es[At(d)].key = k
          /\ \A c \in 0..(d - 1) : At(c) # 0 /\ es[At(c)].key # k
    BY <1>0, <1>1, ProbeIs
  <1> DEFINE j == Slot(k, d, cap)
  <1>3. /\ j \in S /\ slots \in [S -> Nat] /\ new \in [S -> Nat]
        /\ new[j] = lo /\ \A t \in S : t # j => new[t] = slots[t]
    <2>1. j \in S
      BY <1>0, SlotIn
    <2>2. slots \in [S -> Nat]
      BY DEF Indexed, HoldsFirsts
    <2> HIDE DEF j
    <2>3. new = [slots EXCEPT ![j] = lo]
      BY <1>2 DEF Put, j
    <2> QED BY <1>0, <2>1, <2>2, <2>3
  <1>4. lo \in Firsts(es, lo)
    BY <1>0 DEF Firsts
  <1>5. \A i \in Firsts(es, lo) : i # lo => i \in Firsts(es, lo + 1) /\ es[i].key # k
    BY <1>0 DEF Firsts
  <1>6. \A i \in Firsts(es, lo + 1) : es[i].key # k => i \in Firsts(es, lo)
    BY <1>0 DEF Firsts
  <1>7. ASSUME NEW t \in S, t # j, slots[t] # 0
        PROVE  slots[t] \in Firsts(es, lo + 1) /\ es[slots[t]].key # k
    <2>1. slots[t] \in Firsts(es, lo + 1)
      BY <1>7 DEF Indexed, HoldsFirsts
    <2>2. ASSUME es[slots[t]].key = k PROVE FALSE
      <3>1. slots[Probe(es, slots, cap, k)] = slots[t]
        BY <1>0, <1>1, <2>1, <2>2, ProbeFinds
      <3>2. slots[j] = slots[t]
        BY <1>2, <3>1
      <3> HIDE DEF j
      <3> QED BY <1>3, <1>7, <3>2 DEF Indexed, HoldsFirsts
    <2> QED BY <2>1, <2>2
  <1> HIDE DEF new, j
  <1>8. HoldsFirsts(es, lo, new, cap)
    <2>1. ASSUME NEW t \in S, new[t] # 0 PROVE new[t] \in Firsts(es, lo)
      BY <1>3, <1>4, <1>6, <1>7, <2>1
    <2>2. ASSUME NEW t \in S, t # j, new[t] = lo PROVE FALSE
      BY <1>0, <1>3, <1>7, <2>2 DEF Firsts
    <2>3. ASSUME NEW t \in S, NEW u \in S, new[t] # 0, new[t] = new[u] PROVE t = u
      <3>1. CASE t = j \/ u = j
        BY <1>3, <2>2, <2>3, <3>1
      <3>2. CASE t # j /\ u # j
        BY <1>3, <2>3, <3>2 DEF Indexed, HoldsFirsts
      <3> QED BY <3>1, <3>2
    <2> QED BY <1>3, <2>1, <2>3 DEF HoldsFirsts
  <1>9. ASSUME NEW i \in Firsts(es, lo)
        PROVE  \E c \in S : /\ new[Slot(es[i].key, c, cap)] = i
                            /\ \A b \in 0..(c - 1) : new[Slot(es[i].key, b, cap)] # 0
    <2>1. \A x \in Keys, c \in S : Slot(x, c, cap) \in S
      BY SlotIn
    <2>2. \A t \in S : slots[t] # 0 => new[t] # 0
      BY <1>0, <1>3
    <2>3. CASE i = lo
      <3>1. ASSUME NEW b \in 0..(d - 1) PROVE new[Slot(k, b, cap)] # 0
        <4>0. b \in S
          BY <1>2
        <4>1. b \in S /\ Slot(k, b, cap) \in S
          <5> HIDE DEF k, S
          <5> QED BY <1>0, <2>1, <4>0
        <4> QED BY <1>2, <2>2, <4>1
      <3> QED BY <1>3, <2>3, <3>1 DEF j
    <2>4. CASE i # lo
      <3>1. i \in Firsts(es, lo + 1) /\ es[i].key # k /\ i \in Nat \ {0} /\ es[i].key \in Keys
        BY <1>0, <1>5, <2>4, KeysOf DEF Firsts
      <3>2. PICK c \in S : /\ slots[Slot(es[i].key, c, cap)] = i
                           /\ \A b \in 0..(c - 1) : slots[Slot(es[i].key, b, cap)] # 0
        BY <3>1 DEF Indexed, Reachable
      <3>3. Slot(es[i].key, c, cap) # j
        BY <1>2, <3>1, <3>2 DEF j
      <3>4. new[Slot(es[i].key, c, cap)] = i
        BY <1>3, <2>1, <3>1, <3>2, <3>3
      <3>5. ASSUME NEW b \in 0..(c - 1) PROVE new[Slot(es[i].key, b, cap)] # 0
        <4>1. b \in S
          BY <1>0
        <4>2. Slot(es[i].key, b, cap) \in S
          <5> HIDE DEF S
          <5> QED BY <2>1, <3>1, <4>1
        <4> QED BY <2>2, <3>2, <4>1, <4>2
      <3> QED BY <3>4, <3>5
    <2> QED BY <2>3, <2>4
  <1> QED BY <1>8, <1>9 DEF Indexed, Reachable, new

\* dict_index_build inserts the entries backwards: what it leaves is the index of all.
LEMMA FilledIndexes ==
    ASSUME NEW es \in Seq(Entry), NEW cap \in Nat \ {0}, Len(es) < cap
    PROVE  Indexed(es, 1, Filled(es, cap), cap)
  <1> DEFINE n == Len(es)
             Step(g, i) == IF i > n THEN NoSlots(cap) ELSE Put(es, g[i + 1], cap, i)
             Builds(g, lo) == g = [i \in lo..(n + 1) |-> Step(g, i)]
             put == CHOOSE g : Builds(g, 1)
  <1>0. n \in Nat
    OBVIOUS
  <1>1. Filled(es, cap) = put[1]
    BY DEF Filled
  <1>2. (\A g : Step(g, n + 1) = NoSlots(cap))
        /\ (\A g : \A i \in 1..n : Step(g, i) = Put(es, g[i + 1], cap, i))
    BY <1>0
  <1>3. \A g, h : \A i \in 1..n : g[i + 1] = h[i + 1] => Step(g, i) = Step(h, i)
    BY <1>2
  <1>4. \A g, h : Step(g, n + 1) = Step(h, n + 1)
    BY <1>2
  <1> HIDE DEF Step, put, n
  <1>5. \A m \in 0..n : \E g : Builds(g, n + 1 - m)
    <2> DEFINE T == {m \in 0..n : ~\E g : Builds(g, n + 1 - m)}
    <2>1. SUFFICES ASSUME T # {} PROVE FALSE
      OBVIOUS
    <2>2. PICK m \in T : \A x \in T : m <= x
      <3>1. T \in SUBSET Nat
        BY <1>0
      <3> HIDE DEF T
      <3> QED BY <2>1, <3>1, Least
    <2>3. CASE m = 0
      <3> DEFINE g == [i \in (n + 1)..(n + 1) |-> Step(<<>>, i)]
      <3>1. \A i \in (n + 1)..(n + 1) : Step(<<>>, i) = Step(g, i)
        BY <1>0, <1>4
      <3>2. Builds(g, n + 1 - m)
        BY <1>0, <2>3, <3>1
      <3> QED BY <2>2, <3>2
    <2>4. CASE m # 0
      <3> DEFINE lo == n + 1 - m
      <3>1. lo \in 1..n /\ m - 1 \in 0..n /\ m - 1 \notin T /\ n + 1 - (m - 1) = lo + 1
        <4>1. m \in 1..n
          BY <2>2, <2>4
        <4>2. m - 1 \notin T
          <5> HIDE DEF T
          <5> QED BY <1>0, <2>2, <4>1
        <4> QED BY <1>0, <4>1, <4>2
      <3>2. PICK g : Builds(g, lo + 1)
        BY <3>1
      <3> HIDE DEF lo
      <3> DEFINE h == [i \in lo..(n + 1) |-> IF i = lo THEN Step(g, lo) ELSE g[i]]
      <3>h. h[lo] = Step(g, lo) /\ \A i \in (lo + 1)..(n + 1) : h[i] = g[i] /\ g[i] = Step(g, i)
        <4>1. h[lo] = Step(g, lo)
          BY <1>0, <3>1
        <4>2. ASSUME NEW i \in (lo + 1)..(n + 1) PROVE h[i] = g[i] /\ g[i] = Step(g, i)
          <5>1. i \in lo..(n + 1) /\ i # lo
            BY <1>0, <3>1
          <5>2. h[i] = g[i]
            BY <5>1
          <5> HIDE DEF h
          <5> QED BY <3>2, <5>2
        <4> QED BY <4>1, <4>2
      <3>d. h = [i \in lo..(n + 1) |-> h[i]]
        OBVIOUS
      <3> HIDE DEF h
      <3>3. ASSUME NEW i \in lo..(n + 1) PROVE h[i] = Step(h, i)
        <4>1. CASE i = lo
          <5>1. h[i + 1] = g[i + 1]
            BY <1>0, <3>1, <3>h, <4>1
          <5> QED BY <1>3, <3>1, <3>h, <4>1, <5>1
        <4>2. CASE i # lo
          <5>1. i \in (lo + 1)..(n + 1) /\ h[i] = g[i] /\ g[i] = Step(g, i)
            BY <1>0, <3>1, <3>h, <4>2
          <5>2. CASE i = n + 1
            BY <1>4, <5>1, <5>2
          <5>3. CASE i # n + 1
            <6>1. i \in 1..n /\ h[i + 1] = g[i + 1]
              <7>1. i \in 1..n /\ i + 1 \in (lo + 1)..(n + 1)
                <8>1. lo \in 1..n /\ i \in (lo + 1)..(n + 1)
                  BY <3>1, <5>1
                <8> QED BY <1>0, <5>3, <8>1
              <7> QED BY <3>h, <7>1
            <6> QED BY <1>3, <5>1, <6>1
          <5> QED BY <5>2, <5>3
        <4> QED BY <4>1, <4>2
      <3>4. h = [i \in lo..(n + 1) |-> Step(h, i)]
        BY <3>3, <3>d
      <3> QED BY <2>2, <3>4 DEF lo
    <2> QED BY <2>3, <2>4
  <1>6. put = [i \in 1..(n + 1) |-> Step(put, i)]
    <2>1. n \in 0..n /\ n + 1 - n = 1
      BY <1>0
    <2>2. \E g : Builds(g, 1)
      BY <1>5, <2>1
    <2> QED BY <2>2 DEF put
  <1>7. put[n + 1] = NoSlots(cap) /\ \A i \in 1..n : put[i] = Put(es, put[i + 1], cap, i)
    <2>1. \A i \in 1..(n + 1) : put[i] = Step(put, i)
      BY <1>6
    <2> QED BY <1>0, <1>2, <2>1
  <1>8. \A m \in 0..n : Indexed(es, n + 1 - m, put[n + 1 - m], cap)
    <2> DEFINE T == {m \in 0..n : ~Indexed(es, n + 1 - m, put[n + 1 - m], cap)}
    <2>1. SUFFICES ASSUME T # {} PROVE FALSE
      OBVIOUS
    <2>2. PICK m \in T : \A x \in T : m <= x
      <3>1. T \in SUBSET Nat
        BY <1>0
      <3> HIDE DEF T
      <3> QED BY <2>1, <3>1, Least
    <2>3. CASE m = 0
      <3>1. n + 1 - m = n + 1
        BY <1>0, <2>3
      <3>2. Indexed(es, n + 1, NoSlots(cap), cap)
        BY NoneIndexed DEF n
      <3> QED BY <1>7, <2>2, <3>1, <3>2
    <2>4. CASE m # 0
      <3> DEFINE lo == n + 1 - m
      <3>1. lo \in 1..n /\ m - 1 \in 0..n /\ m - 1 \notin T /\ n + 1 - (m - 1) = lo + 1
        <4>1. m \in 1..n
          BY <2>2, <2>4
        <4>2. m - 1 \notin T
          <5> HIDE DEF T
          <5> QED BY <1>0, <2>2, <4>1
        <4> QED BY <1>0, <4>1, <4>2
      <3>2. Indexed(es, lo + 1, put[lo + 1], cap)
        BY <3>1
      <3>3. ~Indexed(es, lo, put[lo], cap)
        BY <2>2
      <3>4. put[lo] = Put(es, put[lo + 1], cap, lo)
        BY <1>7, <3>1
      <3> HIDE DEF lo
      <3> QED BY <3>1, <3>2, <3>3, <3>4, PutIndexes DEF n
    <2> QED BY <2>3, <2>4
  <1>9. n \in 0..n /\ n + 1 - n = 1
    BY <1>0
  <1> QED BY <1>1, <1>8, <1>9

\* Doubling comes to an end with room for twice the entries.
LEMMA CapForIs ==
    ASSUME NEW n \in Nat
    PROVE  CapFor(n) \in Nat \ {0} /\ CapFor(n) >= 2 * n
  <1> DEFINE Step(g, i) == IF i = 0 THEN InitCap
                           ELSE IF g[i - 1] >= 2 * n THEN g[i - 1] ELSE 2 * g[i - 1]
             UpTo(g, m) == g = [i \in 0..m |-> Step(g, i)]
             cap == CHOOSE g : UpTo(g, n)
  <1>1. CapFor(n) = cap[n]
    BY DEF CapFor
  <1>2. /\ \A g : Step(g, 0) = InitCap
        /\ \A g : \A i \in 1..n :
             Step(g, i) = IF g[i - 1] >= 2 * n THEN g[i - 1] ELSE 2 * g[i - 1]
    OBVIOUS
  <1>3. \A g, h : \A i \in 1..n : g[i - 1] = h[i - 1] => Step(g, i) = Step(h, i)
    BY <1>2
  <1>4. \A g, h : Step(g, 0) = Step(h, 0)
    BY <1>2
  <1> HIDE DEF Step, cap
  <1>5. \A m \in 0..n : \E g : UpTo(g, m)
    <2> DEFINE T == {m \in 0..n : ~\E g : UpTo(g, m)}
    <2>1. SUFFICES ASSUME T # {} PROVE FALSE
      OBVIOUS
    <2>2. PICK m \in T : \A x \in T : m <= x
      <3>1. T \in SUBSET Nat
        OBVIOUS
      <3> HIDE DEF T
      <3> QED BY <2>1, <3>1, Least
    <2>3. CASE m = 0
      <3> DEFINE g == [i \in 0..0 |-> Step(<<>>, i)]
      <3>1. \A i \in 0..0 : Step(<<>>, i) = Step(g, i)
        BY <1>4
      <3>2. UpTo(g, 0)
        BY <3>1
      <3> QED BY <2>2, <2>3, <3>2
    <2>4. CASE m # 0
      <3>1. m \in 1..n /\ m - 1 \in 0..n /\ m - 1 \notin T
        <4>1. m \in 1..n
          BY <2>2, <2>4
        <4>2. m - 1 \notin T
          <5> HIDE DEF T
          <5> QED BY <2>2, <4>1
        <4> QED BY <4>1, <4>2
      <3>2. PICK g : UpTo(g, m - 1)
        BY <3>1
      <3> DEFINE h == [i \in 0..m |-> IF i = m THEN Step(g, m) ELSE g[i]]
      <3>3. h[m] = Step(g, m) /\ \A i \in 0..(m - 1) : h[i] = g[i] /\ g[i] = Step(g, i)
        <4>1. h[m] = Step(g, m)
          BY <3>1
        <4>2. ASSUME NEW i \in 0..(m - 1) PROVE h[i] = g[i] /\ g[i] = Step(g, i)
          <5>1. i \in 0..m /\ i # m
            BY <3>1
          <5>2. h[i] = g[i]
            BY <5>1
          <5> HIDE DEF h
          <5> QED BY <3>2, <5>2
        <4> QED BY <4>1, <4>2
      <3>4. h = [i \in 0..m |-> h[i]]
        OBVIOUS
      <3> HIDE DEF h
      <3>5. ASSUME NEW i \in 0..m PROVE h[i] = Step(h, i)
        <4>0. m \in 1..n
          BY <3>1
        <4>1. CASE i = 0
          <5>1. i \in 0..(m - 1)
            BY <4>0, <4>1
          <5> QED BY <1>4, <3>3, <4>1, <5>1
        <4>2. CASE i # 0
          <5>1. i \in 1..n /\ i - 1 \in 0..(m - 1)
            BY <4>0, <4>2
          <5>2. h[i - 1] = g[i - 1]
            BY <3>3, <5>1
          <5>3. Step(g, i) = Step(h, i)
            BY <1>3, <5>1, <5>2
          <5>4. i = m \/ i \in 0..(m - 1)
            BY <4>0
          <5> QED BY <3>3, <5>3, <5>4
        <4> QED BY <4>1, <4>2
      <3>6. UpTo(h, m)
        BY <3>4, <3>5
      <3> QED BY <2>2, <3>6
    <2> QED BY <2>3, <2>4
  <1>6. cap = [i \in 0..n |-> Step(cap, i)]
    <2>1. \E g : UpTo(g, n)
      BY <1>5
    <2> QED BY <2>1 DEF cap
  <1>7. /\ cap[0] = InitCap
        /\ \A i \in 1..n : cap[i] = IF cap[i - 1] >= 2 * n THEN cap[i - 1] ELSE 2 * cap[i - 1]
    <2>1. \A i \in 0..n : cap[i] = Step(cap, i)
      BY <1>6
    <2> QED BY <1>2, <2>1
  <1> DEFINE Enough(i) == cap[i] \in Nat \ {0} /\ (cap[i] >= 2 * n \/ cap[i] >= 2 * i)
  <1>8. \A i \in 0..n : Enough(i)
    <2> DEFINE T == {i \in 0..n : ~Enough(i)}
    <2>1. SUFFICES ASSUME T # {} PROVE FALSE
      OBVIOUS
    <2>2. PICK i \in T : \A x \in T : i <= x
      <3>1. T \in SUBSET Nat
        OBVIOUS
      <3> HIDE DEF T
      <3> QED BY <2>1, <3>1, Least
    <2>3. i # 0
      BY <1>7, <2>2, BoundsAssumption
    <2>4. i \in 1..n /\ i - 1 \in 0..n /\ i - 1 \notin T
      <3>1. i \in 1..n
        BY <2>2, <2>3
      <3>2. i - 1 \notin T
        <4> HIDE DEF T
        <4> QED BY <2>2, <3>1
      <3> QED BY <3>1, <3>2
    <2>5. Enough(i - 1)
      BY <2>4
    <2>6. cap[i] = IF cap[i - 1] >= 2 * n THEN cap[i - 1] ELSE 2 * cap[i - 1]
      BY <1>7, <2>4
    <2>7. Enough(i)
      <3>1. i \in 1..n
        BY <2>4
      <3> DEFINE a == cap[i - 1]
                 b == cap[i]
      <3>2. a \in Nat \ {0} /\ (a >= 2 * n \/ a >= 2 * (i - 1)) /\ b = IF a >= 2 * n THEN a ELSE 2 * a
        BY <2>5, <2>6
      <3> HIDE DEF a, b
      <3>3. b \in Nat \ {0} /\ (b >= 2 * n \/ b >= 2 * i)
        <4>1. CASE a >= 2 * n
          BY <3>2, <4>1
        <4>2. CASE ~(a >= 2 * n)
          <5>1. a >= 1 /\ a >= 2 * (i - 1) /\ b = 2 * a
            BY <3>2, <4>2
          <5> QED BY <3>1, <3>2, <5>1
        <4> QED BY <4>1, <4>2
      <3> QED BY <3>3 DEF b
    <2> QED BY <2>2, <2>7
  <1>9. Enough(n)
    BY <1>8
  <1> QED BY <1>1, <1>9

\* What dict_index_build leaves is sound.
LEMMA BuildSound ==
    ASSUME NEW es \in Seq(Entry)
    PROVE  Sound(Build(es), es) /\ Build(es) # NoIndex
  <1> DEFINE n == Len(es)
             cap == CapFor(n)
  <1>1. n \in Nat /\ cap \in Nat \ {0} /\ cap >= 2 * n
    BY CapForIs
  <1> HIDE DEF n, cap
  <1>2. n < cap /\ 2 * n <= cap /\ cap # 0
    BY <1>1
  <1>3. Build(es) = [slots |-> Filled(es, cap), cap |-> cap, n |-> n]
    BY DEF Build, n, cap
  <1>4. Indexed(es, 1, Filled(es, cap), cap)
    BY <1>1, <1>2, FilledIndexes DEF n
  <1>5. Build(es).cap = cap /\ Build(es).n = n /\ Build(es).slots = Filled(es, cap)
    BY <1>3
  <1>6. NoIndex.cap = 0
    BY DEF NoIndex
  <1> QED BY <1>1, <1>2, <1>4, <1>5, <1>6 DEF Sound, n

-----------------------------------------------------------------------------
(* Finding                                                                 *)

\* The linear scan finds the first entry of the key, or none.
LEMMA FindLinearIs ==
    ASSUME NEW es \in Seq(Entry), NEW k \in Keys
    PROVE  \/ FindLinear(es, k) = 0 /\ \A i \in 1..Len(es) : es[i].key # k
           \/ FindLinear(es, k) \in Firsts(es, 1) /\ es[FindLinear(es, k)].key = k
  <1> DEFINE hits == {i \in 1..Len(es) : es[i].key = k}
  <1>1. CASE hits = {}
    BY <1>1 DEF FindLinear
  <1>2. CASE hits # {}
    <2> DEFINE f == CHOOSE i \in hits : \A j \in hits : i <= j
    <2>1. f \in hits /\ \A j \in hits : f <= j
      <3>1. hits \in SUBSET Nat
        OBVIOUS
      <3> HIDE DEF hits
      <3> QED BY <1>2, <3>1, Least
    <2>2. FindLinear(es, k) = f
      BY <1>2 DEF FindLinear
    <2> HIDE DEF f
    <2>3. f \in 1..Len(es) /\ es[f].key = k /\ \A j \in 1..Len(es) : es[j].key = k => f <= j
      BY <2>1
    <2>4. ASSUME NEW j \in 1..(f - 1) PROVE es[j].key # es[f].key
      <3>1. j \in 1..Len(es) /\ ~(f <= j)
        BY <2>3
      <3> QED BY <2>3, <3>1
    <2> QED BY <2>2, <2>3, <2>4 DEF Firsts
  <1> QED BY <1>1, <1>2

\* Through a sound index the same is found: an occupied slot ends no probe too early, an
\* empty one none too late.
LEMMA IndexFinds ==
    ASSUME NEW es \in Seq(Entry), NEW ix, Sound(ix, es), ix # NoIndex, NEW k \in Keys
    PROVE  ix.slots[Probe(es, ix.slots, ix.cap, k)] = FindLinear(es, k)
  <1>1. /\ ix.cap \in Nat \ {0} /\ 2 * Len(es) <= ix.cap /\ Len(es) \in Nat
        /\ Indexed(es, 1, ix.slots, ix.cap)
    BY DEF Sound
  <1>2. Len(es) < ix.cap
    BY <1>1
  <1>3. PICK s \in 0..(ix.cap - 1) : ix.slots[s] = 0
    BY <1>1, <1>2, SomeSlotEmpty DEF Indexed
  <1>4. CASE FindLinear(es, k) = 0 /\ \A i \in 1..Len(es) : es[i].key # k
    BY <1>1, <1>3, <1>4, ProbeMisses
  <1>5. CASE FindLinear(es, k) \in Firsts(es, 1) /\ es[FindLinear(es, k)].key = k
    BY <1>1, <1>3, <1>5, ProbeFinds
  <1> QED BY <1>4, <1>5, FindLinearIs

-----------------------------------------------------------------------------
(* Appending                                                               *)

\* The index of the entries is also one of the entries with one more, whose key occurs
\* before it.
LEMMA FirstsOfMore ==
    ASSUME NEW es \in Seq(Entry), NEW more \in Seq(Entry), Len(more) = Len(es) + 1,
           \A i \in 1..Len(es) : more[i] = es[i]
    PROVE  /\ \A i \in 1..Len(es) : i \in Firsts(es, 1) <=> i \in Firsts(more, 1)
           /\ Firsts(es, 1) \subseteq Firsts(more, 1)
           /\ Firsts(more, 1) \subseteq Firsts(es, 1) \cup {Len(more)}
           /\ Len(more) \in Firsts(more, 1) <=> \A i \in 1..Len(es) : es[i].key # more[Len(more)].key
  BY SMTT(30) DEF Firsts

\* dict_index_add: what it leaves is sound for the longer dictionary.
LEMMA AddSound ==
    ASSUME NEW es \in Seq(Entry), NEW more \in Seq(Entry), Len(more) = Len(es) + 1,
           \A i \in 1..Len(es) : more[i] = es[i],
           NEW ix, Sound(ix, es)
    PROVE  Sound(IndexAdd(ix, more), more)
  <1> DEFINE n == Len(more)
             k == more[n].key
             cap == ix.cap
             slots == ix.slots
             S == 0..(cap - 1)
             At(d) == slots[Slot(k, d, cap)]
             j == Probe(more, slots, cap, k)
             new == [slots EXCEPT ![j] = IF @ = 0 THEN n ELSE @]
  <1>1. CASE ix = NoIndex \/ IndexDropped(ix, more)
    BY <1>1 DEF IndexAdd, Sound
  <1>2. CASE ix # NoIndex /\ ~IndexDropped(ix, more)
    <2>1. /\ cap \in Nat \ {0} /\ Len(es) \in Nat /\ n = Len(es) + 1 /\ n \in 1..Len(more)
          /\ Indexed(es, 1, slots, cap) /\ ix.n = Len(es)
      BY <1>2 DEF Sound
    <2>2. 2 * n <= cap
      BY <1>2, <2>1 DEF IndexDropped, IsFull
    <2>3. IndexAdd(ix, more) = [slots |-> new, cap |-> cap, n |-> n]
      BY <1>2 DEF IndexAdd
    <2>4. k \in Keys
      BY <2>1, KeysOf
    <2>5. slots \in [S -> Nat] /\ \A s \in S : slots[s] # 0 => slots[s] \in Firsts(es, 1)
      BY <2>1 DEF Indexed, HoldsFirsts
    <2>6. PICK s \in S : slots[s] = 0
      <3>1. Len(es) < cap
        BY <2>1, <2>2
      <3> QED BY <2>1, <3>1, SomeSlotEmpty DEF Indexed
    <2>7. PICK d \in S : /\ j = Slot(k, d, cap)
                         /\ At(d) = 0 \/ more[At(d)].key = k
                         /\ \A c \in 0..(d - 1) : At(c) # 0 /\ more[At(c)].key # k
      <3>1. /\ cap \in Nat \ {0} /\ k \in Keys /\ s \in 0..(cap - 1) /\ slots[s] = 0
        BY <2>1, <2>4, <2>6
      <3> HIDE DEF n, k, cap, slots
      <3>2. \E d \in 0..(cap - 1) : LET i == Slot(k, d, cap) IN
               /\ Probe(more, slots, cap, k) = i
               /\ slots[i] = 0 \/ more[slots[i]].key = k
               /\ \A c \in 0..(d - 1) : LET m == slots[Slot(k, c, cap)] IN m # 0 /\ more[m].key # k
        BY <3>1, ProbeIs
      <3> QED BY <3>2
    <2>8. j \in S
      BY <2>1, <2>4, <2>7, SlotIn
    <2>f. /\ \A i \in 1..Len(es) : i \in Firsts(es, 1) <=> i \in Firsts(more, 1)
          /\ Firsts(es, 1) \subseteq Firsts(more, 1)
          /\ Firsts(more, 1) \subseteq Firsts(es, 1) \cup {n}
          /\ n \in Firsts(more, 1) <=> \A i \in 1..Len(es) : es[i].key # k
          /\ Firsts(es, 1) \subseteq 1..Len(es)
      <3>1. Firsts(es, 1) \subseteq 1..Len(es)
        BY DEF Firsts
      <3> QED BY <3>1, FirstsOfMore
    <2> HIDE DEF n, k, j
    <2>9. ASSUME slots[j] # 0 PROVE Indexed(more, 1, new, cap)
      <3>1. new = slots
        BY <2>5, <2>8, <2>9
      <3>2. slots[j] \in 1..Len(es) /\ es[slots[j]].key = k
        BY <2>5, <2>7, <2>8, <2>9, <2>f
      <3>3. Firsts(more, 1) = Firsts(es, 1)
        BY <2>f, <3>2
      <3>4. \A i \in Firsts(es, 1) : more[i] = es[i]
        BY <2>f
      <3>5. HoldsFirsts(more, 1, slots, cap)
        BY <2>1, <3>3 DEF Indexed, HoldsFirsts
      <3>6. Reachable(more, 1, slots, cap)
        <4>1. ASSUME NEW i \in Firsts(es, 1)
              PROVE  \E c \in S : /\ slots[Slot(more[i].key, c, cap)] = i
                                  /\ \A b \in 0..(c - 1) : slots[Slot(more[i].key, b, cap)] # 0
          <5>1. more[i].key = es[i].key
            BY <3>4
          <5>2. \E c \in S : /\ slots[Slot(es[i].key, c, cap)] = i
                             /\ \A b \in 0..(c - 1) : slots[Slot(es[i].key, b, cap)] # 0
            BY <2>1 DEF Indexed, Reachable
          <5> QED BY <5>1, <5>2
        <4> QED BY <3>3, <4>1 DEF Reachable
      <3> QED BY <3>1, <3>5, <3>6 DEF Indexed
    <2>10. ASSUME slots[j] = 0 PROVE Indexed(more, 1, new, cap)
      <3>1. /\ new \in [S -> Nat] /\ new[j] = n /\ \A t \in S : t # j => new[t] = slots[t]
        <4>1. n \in Nat
          BY <2>1
        <4>2. new = [slots EXCEPT ![j] = n]
          BY <2>5, <2>8, <2>10
        <4> HIDE DEF new
        <4> QED BY <2>5, <2>8, <4>1, <4>2
      <3> HIDE DEF new
      <3>2. n \in Firsts(more, 1)
        <4>1. SUFFICES ASSUME NEW m \in 1..Len(es), es[m].key = k PROVE FALSE
          BY <2>f
        <4> DEFINE i == FindLinear(es, k)
        <4>2. i \in Firsts(es, 1) /\ es[i].key = k
          BY <2>4, <4>1, FindLinearIs
        <4> HIDE DEF i
        <4>3. PICK e \in S : At(e) = i /\ \A c \in 0..(e - 1) : At(c) # 0
          BY <2>1, <4>2 DEF Indexed, Reachable
        <4>4. i # 0 /\ more[i].key = k
          BY <2>f, <4>2
        <4>5. At(d) = 0
          BY <2>7, <2>10
        <4> HIDE DEF At
        <4>6. CASE d < e
          <5>1. d \in 0..(e - 1)
            BY <4>6
          <5> QED BY <4>3, <4>5, <5>1
        <4>7. CASE e < d
          <5>1. e \in 0..(d - 1)
            BY <4>7
          <5> QED BY <2>7, <4>3, <4>4, <5>1
        <4>8. CASE e = d
          BY <4>3, <4>4, <4>5, <4>8
        <4> QED BY <4>6, <4>7, <4>8
      <3>3. n \notin Firsts(es, 1) /\ n # 0
        BY <2>1, <2>f
      <3>4. HoldsFirsts(more, 1, new, cap)
        <4>1. ASSUME NEW t \in S, new[t] # 0 PROVE new[t] \in Firsts(more, 1)
          BY <2>5, <2>f, <3>1, <3>2, <4>1
        <4>2. ASSUME NEW t \in S, NEW u \in S, new[t] # 0, new[t] = new[u] PROVE t = u
          <5>1. CASE t = j \/ u = j
            BY <2>5, <3>1, <3>3, <4>2, <5>1
          <5>2. CASE t # j /\ u # j
            <6>1. slots[t] # 0 /\ slots[t] = slots[u]
              BY <3>1, <4>2, <5>2
            <6>2. \A v, w \in S : slots[v] # 0 /\ slots[v] = slots[w] => v = w
              BY <2>1 DEF Indexed, HoldsFirsts
            <6> QED BY <6>1, <6>2
          <5> QED BY <5>1, <5>2
        <4> QED BY <3>1, <4>1, <4>2 DEF HoldsFirsts
      <3>5. \A t \in S : slots[t] # 0 => new[t] = slots[t]
        BY <2>10, <3>1
      <3>6. ASSUME NEW i \in Firsts(more, 1)
            PROVE  \E c \in S : /\ new[Slot(more[i].key, c, cap)] = i
                                /\ \A b \in 0..(c - 1) : new[Slot(more[i].key, b, cap)] # 0
        <4>1. CASE i = n
          <5>1. ASSUME NEW b \in 0..(d - 1) PROVE new[Slot(k, b, cap)] # 0
            <6>0. b \in S
              BY <2>1, <2>7
            <6>1. Slot(k, b, cap) \in S
              <7> HIDE DEF S
              <7> QED BY <2>1, <2>4, <6>0, SlotIn DEF S
            <6> QED BY <2>7, <3>5, <6>1
          <5>2. more[i].key = k
            BY <4>1 DEF k, n
          <5> QED BY <2>7, <3>1, <4>1, <5>1, <5>2
        <4>2. CASE i # n
          <5>1. i \in Firsts(es, 1) /\ i \in 1..Len(es) /\ more[i] = es[i] /\ i # 0
            BY <2>f, <4>2
          <5>2. PICK c \in S : /\ slots[Slot(es[i].key, c, cap)] = i
                               /\ \A b \in 0..(c - 1) : slots[Slot(es[i].key, b, cap)] # 0
            BY <2>1, <5>1 DEF Indexed, Reachable
          <5>3. \A b \in S : Slot(es[i].key, b, cap) \in S
            BY <2>1, <5>1, SlotIn, KeysOf
          <5>4. ASSUME NEW b \in 0..(c - 1) PROVE new[Slot(es[i].key, b, cap)] # 0
            <6>1. b \in S
              BY <2>1, <5>2
            <6> QED BY <3>5, <5>2, <5>3, <6>1
          <5> QED BY <3>5, <5>1, <5>2, <5>3, <5>4
        <4> QED BY <4>1, <4>2
      <3> QED BY <3>4, <3>6 DEF Indexed, Reachable
    <2>11. Indexed(more, 1, new, cap)
      BY <2>9, <2>10
    <2> HIDE DEF new
    <2> QED BY <2>1, <2>2, <2>3, <2>11 DEF Sound, n
  <1> QED BY <1>1, <1>2

-----------------------------------------------------------------------------
(* Removing and sorting                                                    *)

StrictOrder(before, S) ==
    /\ \A i \in S : <<i, i>> \notin before
    /\ \A i, j, k \in S : <<i, j>> \in before /\ <<j, k>> \in before => <<i, k>> \in before
    /\ \A i, j \in S : i # j => <<i, j>> \in before \/ <<j, i>> \in before

\* Arranging a set of entries by an order neither invents nor loses any.
LEMMA ListedIs ==
    ASSUME NEW es \in Seq(Entry), NEW S \in SUBSET (1..Len(es)), NEW before, StrictOrder(before, S)
    PROVE  /\ Listed(es, S, before) \in Seq(Entry)
           /\ Len(Listed(es, S, before)) \in 0..Len(es)
  <1> DEFINE Below(i) == {j \in S : <<j, i>> \in before}
             N == Cardinality(S)
             place(i) == 1 + Cardinality(Below(i))
             at(p) == CHOOSE i \in S : place(i) = p
  <1>1. IsFiniteSet(S) /\ N \in Nat /\ N <= Len(es) /\ Len(es) \in Nat
    <2>1. 1 \in Int /\ Len(es) \in Int /\ Len(es) \in Nat
      OBVIOUS
    <2>2. /\ IsFiniteSet(1..Len(es))
          /\ Cardinality(1..Len(es)) = IF 1 > Len(es) THEN 0 ELSE Len(es) - 1 + 1
      BY <2>1, FS_Interval
    <2>3. IsFiniteSet(S) /\ N <= Cardinality(1..Len(es))
      BY <2>2, FS_Subset
    <2> QED BY <2>1, <2>2, <2>3, FS_CardinalityType
  <1>2. ASSUME NEW i \in S
        PROVE  /\ IsFiniteSet(Below(i)) /\ Cardinality(Below(i)) \in Nat /\ i \notin Below(i)
               /\ place(i) \in 1..N
    <2>1. IsFiniteSet(Below(i)) /\ Cardinality(Below(i)) <= N
      BY <1>1, FS_Subset
    <2>2. Cardinality(Below(i)) \in Nat
      BY <2>1, FS_CardinalityType
    <2>3. i \notin Below(i)
      BY DEF StrictOrder
    <2>4. Cardinality(Below(i)) # N
      <3>1. Cardinality(S) = Cardinality(Below(i)) => S = Below(i)
        BY <1>1, FS_Subset
      <3> QED BY <2>3, <3>1
    <2> QED BY <1>1, <2>1, <2>2, <2>3, <2>4
  <1>3. ASSUME NEW i \in S, NEW j \in S, <<i, j>> \in before PROVE place(i) # place(j)
    <2>1. Below(i) \in SUBSET Below(j) /\ i \in Below(j)
      BY <1>3 DEF StrictOrder
    <2>2. Cardinality(Below(j)) = Cardinality(Below(i)) => Below(j) = Below(i)
      BY <1>2, <2>1, FS_Subset
    <2>3. Cardinality(Below(j)) # Cardinality(Below(i))
      BY <1>2, <2>1, <2>2
    <2> HIDE DEF Below
    <2> QED BY <1>2, <2>3
  <1>4. ASSUME NEW i \in S, NEW j \in S, place(i) = place(j) PROVE i = j
    <2>1. i # j => <<i, j>> \in before \/ <<j, i>> \in before
      BY DEF StrictOrder
    <2> HIDE DEF place
    <2> QED BY <1>3, <1>4, <2>1
  <1> HIDE DEF place, N
  <1>5. \A p \in 1..N : \E i \in S : place(i) = p
    <2> DEFINE f == [i \in S |-> place(i)]
    <2>1. f \in [S -> 1..N]
      BY <1>2
    <2>2. f \in Injection(S, 1..N)
      BY <1>4, <2>1 DEF Injection, IsInjective
    <2>3. /\ IsFiniteSet(1..N) /\ Cardinality(1..N) = N
      <3>1. 1 \in Int /\ N \in Int
        BY <1>1
      <3>2. /\ IsFiniteSet(1..N)
            /\ Cardinality(1..N) = IF 1 > N THEN 0 ELSE N - 1 + 1
        BY <3>1, FS_Interval
      <3> QED BY <1>1, <3>2
    <2>4. Cardinality(S) = Cardinality(1..N)
      BY <2>3 DEF N
    <2>5. f \in Surjection(S, 1..N)
      <3> HIDE DEF f
      <3> QED BY <2>2, <2>3, <2>4, FS_Injection
    <2> QED BY <2>5 DEF Surjection
  <1>6. \A p \in 1..N : at(p) \in S
    BY <1>5
  <1>7. Listed(es, S, before) = [p \in 1..N |-> es[at(p)]]
    BY DEF Listed, N, place
  <1> HIDE DEF at
  <1>8. \A p \in 1..N : es[at(p)] \in Entry
    BY <1>6, KeysOf
  <1>9. [p \in 1..N |-> es[at(p)]] \in Seq(Entry) /\ Len([p \in 1..N |-> es[at(p)]]) = N
    BY <1>1, <1>8
  <1> QED BY <1>1, <1>7, <1>9

LEMMA InOrderIs ==
    ASSUME NEW S \in SUBSET Nat
    PROVE  StrictOrder(InOrder(S), S)
  BY DEF StrictOrder, InOrder

LEMMA SortOrderIs ==
    ASSUME NEW es \in Seq(Entry), NEW descending \in BOOLEAN
    PROVE  StrictOrder(SortOrder(es, descending), 1..Len(es))
  <1> DEFINE S == 1..Len(es)
             rank(i) == Rank[es[i].key]
             Before(i, j) == IF rank(i) = rank(j) THEN i < j
                             ELSE IF descending THEN rank(j) < rank(i) ELSE rank(i) < rank(j)
  <1>1. \A i \in S : rank(i) \in Nat /\ i \in Nat
    BY KeysOf, KeysAssumption
  <1>2. \A i, j \in S : <<i, j>> \in SortOrder(es, descending) <=> Before(i, j)
    BY DEF SortOrder
  <1> HIDE DEF S, rank
  <1>3. \A i, j, k \in S : Before(i, j) /\ Before(j, k) => Before(i, k)
    BY <1>1
  <1>4. \A i \in S : ~Before(i, i)
    BY <1>1
  <1>5. \A i, j \in S : i # j => Before(i, j) \/ Before(j, i)
    BY <1>1
  <1> HIDE DEF Before
  <1> QED BY <1>2, <1>3, <1>4, <1>5 DEF StrictOrder, S

-----------------------------------------------------------------------------
(* The invariant                                                           *)

\* The type object_type_name gives is a type name or none.
LEMMA ObjectNameIs ==
    ASSUME NEW es \in Seq(Entry)
    PROVE  ObjectName(es) \in TypeNames \cup {None}
  <1> DEFINE named == {i \in 1..Len(es) : es[i].key = TypeKey /\ es[i].val \in TypeNames}
             last == CHOOSE i \in named : \A j \in named : j <= i
  <1>1. CASE named = {}
    BY <1>1 DEF ObjectName
  <1>2. CASE named # {}
    <2>1. Len(es) \in Nat /\ named \in SUBSET (0..Len(es))
      OBVIOUS
    <2>2. last \in named
      <3> HIDE DEF named
      <3> QED BY <1>2, <2>1, Greatest
    <2>3. es[last].val \in TypeNames
      BY <2>2
    <2> QED BY <2>3 DEF ObjectName
  <1> QED BY <1>1, <1>2

\* The index as types see it.
LEMMA SoundTypes ==
    ASSUME NEW es \in Seq(Entry), NEW ix, Sound(ix, es)
    PROVE  /\ ix.n \in 0..Len(es)
           /\ DOMAIN ix.slots = (IF ix = NoIndex THEN {} ELSE 0..(ix.cap - 1))
           /\ \A j \in DOMAIN ix.slots : ix.slots[j] \in 0..Len(es)
  <1>1. CASE ix = NoIndex
    BY <1>1 DEF NoIndex
  <1>2. CASE ix # NoIndex
    BY <1>2 DEF Sound, Indexed, HoldsFirsts, Firsts
  <1> QED BY <1>1, <1>2

\* The index a lookup leaves is sound, and there is one if there should be.
LEMMA AfterFindSound ==
    ASSUME entries \in Seq(Entry), Sound(index, entries)
    PROVE  /\ Sound(AfterFind, entries)
           /\ Len(entries) >= MinIndex => AfterFind # NoIndex
  BY BuildSound DEF AfterFind

\* A lookup finds what the linear scan finds.
LEMMA FindIs ==
    ASSUME entries \in Seq(Entry), Sound(index, entries), NEW k \in Keys
    PROVE  FindIn(AfterFind, k) = FindLinear(entries, k) /\ Find(k) \in 0..Len(entries)
  <1>1. FindIn(AfterFind, k) = FindLinear(entries, k)
    BY AfterFindSound, IndexFinds DEF FindIn
  <1>2. FindLinear(entries, k) \in 0..Len(entries)
    BY FindLinearIs DEF Firsts
  <1> QED BY <1>1, <1>2 DEF Find

\* The index knows keys only: values may change.
LEMMA SoundForKeys ==
    ASSUME NEW es \in Seq(Entry), NEW fs \in Seq(Entry), Len(fs) = Len(es),
           \A i \in 1..Len(es) : fs[i].key = es[i].key, NEW ix, Sound(ix, es)
    PROVE  Sound(ix, fs)
  <1>1. Firsts(fs, 1) = Firsts(es, 1) /\ Firsts(es, 1) \subseteq 1..Len(es)
    BY SMTT(30) DEF Firsts
  <1>2. ASSUME ix # NoIndex PROVE Indexed(fs, 1, ix.slots, ix.cap)
    <2>1. HoldsFirsts(fs, 1, ix.slots, ix.cap)
      BY <1>1, <1>2 DEF Sound, Indexed, HoldsFirsts
    <2>2. ASSUME NEW i \in Firsts(es, 1)
          PROVE  \E d \in 0..(ix.cap - 1) :
                     /\ ix.slots[Slot(fs[i].key, d, ix.cap)] = i
                     /\ \A c \in 0..(d - 1) : ix.slots[Slot(fs[i].key, c, ix.cap)] # 0
      <3>1. fs[i].key = es[i].key
        BY <1>1
      <3> QED BY <1>2, <3>1 DEF Sound, Indexed, Reachable
    <2> QED BY <1>1, <2>1, <2>2 DEF Indexed, Reachable
  <1> QED BY <1>2 DEF Sound

\* One value changes.
LEMMA ValueSet ==
    ASSUME NEW es \in Seq(Entry), NEW i \in 1..Len(es), NEW v \in Values
    PROVE  LET fs == [es EXCEPT ![i].val = v] IN
           fs \in Seq(Entry) /\ Len(fs) = Len(es) /\ \A j \in 1..Len(es) : fs[j].key = es[j].key
  <1> DEFINE en == [es[i] EXCEPT !.val = v]
             fs == [es EXCEPT ![i] = en]
  <1>1. es \in [1..Len(es) -> Entry] /\ Len(es) \in Nat
    OBVIOUS
  <1>2. en \in Entry /\ en.key = es[i].key
    BY <1>1 DEF Entry
  <1>3. [es EXCEPT ![i].val = v] = fs
    BY <1>1
  <1> HIDE DEF en
  <1>4. fs \in Seq(Entry) /\ Len(fs) = Len(es) /\ \A j \in 1..Len(es) : fs[j].key = es[j].key
    BY <1>1, <1>2
  <1> QED BY <1>3, <1>4

\* What every step has to show.
Parts == /\ entries \in Seq(Entry) /\ Len(entries) <= MaxLen
         /\ Sound(index, entries)
         /\ object \in [checked : BOOLEAN, name : TypeNames \cup {None}]
         /\ target \in [key : Keys, at : 1..MaxLen] \cup {NoTarget}
         /\ TypeNameFresh

LEMMA PartsSuffice == Parts <=> IInv
  BY SoundTypes DEF Parts, IInv, TypeOK

\* A forgotten index and a forgotten name are about any entries.
LEMMA Forgotten == Sound(NoIndex, entries') /\ Unchecked.checked = FALSE
                   /\ Unchecked \in [checked : BOOLEAN, name : TypeNames \cup {None}]
  BY DEF Sound, Unchecked

LEMMA WriteKeeps ==
    ASSUME Parts, NEW k \in Keys, NEW v \in Values, Overwrite(k, v) \/ AddEntry(k, v)
    PROVE  entries' \in Seq(Entry) /\ Len(entries') <= MaxLen /\ Sound(index', entries') /\ target' = target
  <1>0. /\ entries \in Seq(Entry) /\ Len(entries) \in Nat /\ Sound(AfterFind, entries)
        /\ Find(k) \in 0..Len(entries)
    BY AfterFindSound, FindIs DEF Parts
  <1>1. CASE Overwrite(k, v)
    <2>1. /\ entries' = [entries EXCEPT ![Find(k)].val = v] /\ index' = AfterFind
          /\ Find(k) \in 1..Len(entries)
      BY <1>0, <1>1 DEF Overwrite
    <2>2. /\ entries' \in Seq(Entry) /\ Len(entries') = Len(entries)
          /\ \A j \in 1..Len(entries) : entries'[j].key = entries[j].key
      BY <1>0, <2>1, ValueSet
    <2>3. Sound(AfterFind, entries')
      BY <1>0, <2>2, SoundForKeys
    <2> QED BY <1>1, <2>1, <2>2, <2>3 DEF Overwrite, Parts
  <1>2. CASE AddEntry(k, v)
    <2> DEFINE en == [key |-> k, val |-> v]
    <2>1. /\ entries' = entries \o <<en>> /\ index' = IndexAdd(AfterFind, entries')
          /\ Len(entries) < MaxLen /\ target' = target
      BY <1>2 DEF AddEntry
    <2>2. en \in Entry
      BY DEF Entry
    <2> HIDE DEF en
    <2>3. /\ entries' \in Seq(Entry) /\ Len(entries') = Len(entries) + 1
          /\ \A i \in 1..Len(entries) : entries'[i] = entries[i]
      BY <1>0, <2>1, <2>2
    <2>4. Sound(IndexAdd(AfterFind, entries'), entries')
      BY <1>0, <2>3, AddSound
    <2> QED BY <1>0, <2>1, <2>3, <2>4, BoundsAssumption
  <1> QED BY <1>1, <1>2

\* Every operation keeps the invariant, part by part.
LEMMA NextKeeps == Parts /\ [Next]_vars => Parts'
  <1> SUFFICES ASSUME Parts, [Next]_vars PROVE Parts'
    OBVIOUS
  <1>0. entries \in Seq(Entry) /\ Len(entries) \in Nat /\ MaxLen \in Nat
    BY BoundsAssumption DEF Parts
  <1>1. CASE UNCHANGED vars
    BY <1>1 DEF vars, Parts, TypeNameFresh
  <1>2. ASSUME NEW k \in Keys, Lookup(k) PROVE Parts'
    BY <1>2, AfterFindSound DEF Lookup, Parts, TypeNameFresh
  <1>3. ASSUME NEW k \in Keys, NEW v \in Values, Set(k, v) PROVE Parts'
    BY <1>3, WriteKeeps, Forgotten DEF Set, Invalidate, Parts, TypeNameFresh
  <1>4. ASSUME NEW k \in Keys, NEW v \in Values, SetHeader(k, v) PROVE Parts'
    BY <1>4, WriteKeeps DEF SetHeader, Parts, TypeNameFresh
  <1>5. ASSUME NEW k \in Keys, NEW v \in Values, AddMember(k, v) PROVE Parts'
    <2> DEFINE en == [key |-> k, val |-> v]
    <2>1. en \in Entry
      BY DEF Entry
    <2>2. entries' = entries \o <<en>> /\ Len(entries) < MaxLen
      BY <1>5 DEF AddMember
    <2> HIDE DEF en
    <2>3. entries' \in Seq(Entry) /\ Len(entries') <= MaxLen
      BY <1>0, <2>1, <2>2
    <2> QED BY <1>5, <2>3, Forgotten DEF AddMember, Reindex, Invalidate, Parts, TypeNameFresh
  <1>6. ASSUME NEW gone, RemoveAll(gone) PROVE Parts'
    <2> DEFINE kept == {i \in 1..Len(entries) : entries[i] \notin gone}
    <2>1. kept \in SUBSET (1..Len(entries)) /\ kept \in SUBSET Nat
      OBVIOUS
    <2>2. entries' = Listed(entries, kept, InOrder(kept))
      BY <1>6 DEF RemoveAll
    <2> HIDE DEF kept
    <2>3. entries' \in Seq(Entry) /\ Len(entries') \in 0..Len(entries)
      BY <1>0, <2>1, <2>2, InOrderIs, ListedIs
    <2>4. Len(entries') <= MaxLen
      BY <1>0, <2>3 DEF Parts
    <2> QED BY <1>6, <2>3, <2>4, Forgotten DEF RemoveAll, Reindex, Invalidate, Parts, TypeNameFresh
  <1>7. CASE Empty
    BY <1>0, <1>7, Forgotten DEF Empty, Reindex, Invalidate, Parts, TypeNameFresh
  <1>8. ASSUME NEW descending \in BOOLEAN, Sort(descending) PROVE Parts'
    <2>1. entries' = Listed(entries, 1..Len(entries), SortOrder(entries, descending))
      BY <1>8 DEF Sort, Sorted
    <2>2. entries' \in Seq(Entry) /\ Len(entries') \in 0..Len(entries)
      BY <1>0, <2>1, SortOrderIs, ListedIs
    <2>3. Len(entries') <= MaxLen
      BY <1>0, <2>2 DEF Parts
    <2> QED BY <1>8, <2>2, <2>3, Forgotten DEF Sort, Reindex, Invalidate, Parts, TypeNameFresh
  <1>9. CASE TypeName
    BY <1>9, ObjectNameIs DEF TypeName, Parts, TypeNameFresh
  <1>10. ASSUME NEW k \in Keys, BeginRender(k) PROVE Parts'
    <2>1. Find(k) \in 1..MaxLen
      BY <1>0, <1>10, FindIs DEF BeginRender, Parts
    <2> QED BY <1>10, <2>1, AfterFindSound DEF BeginRender, Parts, TypeNameFresh
  <1>11. ASSUME NEW v \in Values, EndRender(v) PROVE Parts'
    <2>1. target \in [key : Keys, at : 1..MaxLen]
      BY <1>11 DEF EndRender, Parts
    <2>2. /\ entries' \in Seq(Entry) /\ Len(entries') = Len(entries)
          /\ \A j \in 1..Len(entries) : entries'[j].key = entries[j].key
      <3>1. CASE target.at <= Len(entries)
        <4>1. target.at \in 1..Len(entries)
          BY <1>0, <2>1, <3>1
        <4>2. entries' = [entries EXCEPT ![target.at].val = v]
          BY <1>11, <3>1 DEF EndRender
        <4> QED BY <1>0, <4>1, <4>2, ValueSet
      <3>2. CASE ~(target.at <= Len(entries))
        BY <1>0, <1>11, <3>2 DEF EndRender
      <3> QED BY <3>1, <3>2
    <2>3. Sound(index', entries')
      BY <1>0, <1>11, <2>2, SoundForKeys DEF EndRender, Parts
    <2> QED BY <1>11, <2>2, <2>3, Forgotten DEF EndRender, Invalidate, Parts, TypeNameFresh
  <1> QED BY <1>1, <1>2, <1>3, <1>4, <1>5, <1>6, <1>7, <1>8, <1>9, <1>10, <1>11
          DEF Next, RemoveKey, RemoveValue

\* The invariant holds at the start.
LEMMA InitHolds == Init => Parts
  <1> SUFFICES ASSUME Init PROVE Parts
    OBVIOUS
  <1>1. PICK n \in 0..MaxLen : entries \in [1..n -> Entry]
    BY DEF Init
  <1>2. entries \in Seq(Entry) /\ Len(entries) <= MaxLen
    BY <1>1, BoundsAssumption
  <1> QED BY <1>2 DEF Init, Parts, Sound, Unchecked, TypeNameFresh

\* What every reachable state satisfies: the types, an index that is sound for the entries
\* as they are, and a cached type name that is theirs.
THEOREM Invariant == Spec => []IInv
  BY InitHolds, NextKeeps, PartsSuffice, PTL DEF Spec

\* Probing ends for every key, whatever the hash: a table never fills up.
THEOREM ProbingEnds == Spec => []ProbesEnd
  <1>1. IInv => ProbesEnd
    <2> SUFFICES ASSUME IInv, index # NoIndex
                 PROVE  \E j \in DOMAIN index.slots : index.slots[j] = 0
      BY DEF ProbesEnd, IInv
    <2>1. /\ entries \in Seq(Entry) /\ Len(entries) \in Nat /\ index.cap \in Nat \ {0}
          /\ 2 * Len(entries) <= index.cap /\ HoldsFirsts(entries, 1, index.slots, index.cap)
      BY DEF IInv, TypeOK, Sound, Indexed
    <2>2. Len(entries) < index.cap
      BY <2>1
    <2>3. \E s \in 0..(index.cap - 1) : index.slots[s] = 0
      BY <2>1, <2>2, SomeSlotEmpty
    <2> QED BY <2>3 DEF IInv, TypeOK
  <1> QED BY <1>1, Invariant, PTL

\* dict_find gives what dict_find_linear gives, for every key, hash and history of appends,
\* removals, sorts and lookups: the mismatch dictcheck dies of cannot occur.
THEOREM IndexIsLinear == Spec => []FindIsLinear
  <1>1. IInv => FindIsLinear
    BY FindIs DEF IInv, TypeOK, FindIsLinear
  <1> QED BY <1>1, Invariant, PTL

\* object_type_name never answers with the type a dictionary had before a change.
THEOREM TypeNameIsFresh == Spec => []TypeNameFresh
  <1>1. IInv => TypeNameFresh
    BY DEF IInv
  <1> QED BY <1>1, Invariant, PTL

-----------------------------------------------------------------------------
(* The rune cursor: walks                                                  *)

\* One step of a walk.
Step(t, w, n) == IF w.at > Len(t) THEN w
                 ELSE [at |-> w.at + RuneLen(t[w.at]), seen |-> n]

IsWalk(t, from, k, g) ==
    g = [n \in 0..k |-> IF n = 0 THEN [at |-> from, seen |-> 0] ELSE Step(t, g[n - 1], n)]

\* The cursor stands where a scan of as many runes stands, and its count is the string's.
CursorSound ==
    cursor.s # NoString =>
        /\ cursor.at = RuneStart(text[cursor.s], cursor.index)
        /\ cursor.index <= Len(text[cursor.s])
        /\ cursor.count \in {-1, Runes(text[cursor.s])}

CursorInv ==
    /\ CursorTypeOK
    /\ \A s \in Strings : EndsWithRune(text[s])
    /\ CursorSound

\* Induction over the numbers up to a bound, for the set of those a claim holds of.
LEMMA Induct ==
    ASSUME NEW k \in Nat, NEW T, 0 \in T, \A n \in 0..(k - 1) : n \in T => n + 1 \in T
    PROVE  k \in T /\ \A n \in 0..k : n \in T
  <1> DEFINE U == {n \in 0..k : n \notin T}
  <1>1. SUFFICES ASSUME U # {} PROVE FALSE
    <2>1. k \in 0..k
      OBVIOUS
    <2> QED BY <2>1
  <1>2. U \in SUBSET Nat
    OBVIOUS
  <1>3. PICK m \in U : \A x \in U : m <= x
    <2> HIDE DEF U
    <2> QED BY <1>1, <1>2, Least
  <1>4. m \in 0..k /\ m \notin T /\ m # 0
    OBVIOUS
  <1>5. m - 1 \in 0..(k - 1) /\ (m - 1) + 1 = m
    BY <1>4
  <1>6. m - 1 \notin U
    <2> HIDE DEF U
    <2> QED BY <1>3, <1>4, <1>5
  <1>7. m - 1 \in T
    BY <1>5, <1>6
  <1> QED BY <1>4, <1>5, <1>7

\* For every number of steps there is a function that walks them.
LEMMA WalkExists ==
    ASSUME NEW t, NEW from, NEW k \in Nat
    PROVE  \E g : IsWalk(t, from, k, g)
  <1> DEFINE T == {m \in 0..k : \E g : IsWalk(t, from, m, g)}
  <1>1. 0 \in T
    <2> DEFINE g == [n \in 0..0 |-> [at |-> from, seen |-> 0]]
    <2>1. IsWalk(t, from, 0, g)
      BY DEF IsWalk
    <2> QED BY <2>1
  <1>2. ASSUME NEW m \in 0..(k - 1), m \in T PROVE m + 1 \in T
    <2>1. PICK g : IsWalk(t, from, m, g)
      BY <1>2
    <2> DEFINE h == [n \in 0..(m + 1) |-> IF n = m + 1 THEN Step(t, g[m], m + 1) ELSE g[n]]
    <2>2. \A n \in 0..m : h[n] = g[n]
      OBVIOUS
    <2>3. h[m + 1] = Step(t, g[m], m + 1)
      OBVIOUS
    <2>4. h = [n \in 0..(m + 1) |-> h[n]]
      OBVIOUS
    <2> HIDE DEF h
    <2>5. ASSUME NEW n \in 0..(m + 1)
          PROVE  h[n] = IF n = 0 THEN [at |-> from, seen |-> 0] ELSE Step(t, h[n - 1], n)
      <3>1. CASE n = m + 1
        <4>1. n - 1 \in 0..m /\ n - 1 = m /\ n # 0
          BY <3>1
        <4> QED BY <2>2, <2>3, <3>1, <4>1
      <3>2. CASE n = 0
        BY <2>1, <2>2, <3>2 DEF IsWalk
      <3>3. CASE n \in 1..m
        <4>1. n \in 0..m /\ n - 1 \in 0..m /\ n # 0
          BY <3>3
        <4>2. g[n] = Step(t, g[n - 1], n)
          BY <2>1, <4>1 DEF IsWalk
        <4> QED BY <2>2, <4>1, <4>2
      <3> QED BY <3>1, <3>2, <3>3
    <2>6. IsWalk(t, from, m + 1, h)
      BY <2>4, <2>5 DEF IsWalk
    <2>7. m + 1 \in 0..k
      OBVIOUS
    <2> QED BY <2>6, <2>7
  <1> HIDE DEF T
  <1>3. k \in T
    BY <1>1, <1>2, Induct, Zenon
  <1> QED BY <1>3 DEF T

\* A longer walk begins as a shorter one.
LEMMA WalkPrefix ==
    ASSUME NEW t, NEW from, NEW k \in Nat, NEW j \in 0..k, NEW g, NEW h,
           IsWalk(t, from, j, g), IsWalk(t, from, k, h)
    PROVE  \A n \in 0..j : g[n] = h[n]
  <1> DEFINE T == {n \in 0..j : g[n] = h[n]}
  <1>1. 0 \in T
    BY DEF IsWalk
  <1>2. ASSUME NEW n \in 0..(j - 1), n \in T PROVE n + 1 \in T
    <2>1. n + 1 \in 0..j /\ n + 1 \in 0..k /\ n + 1 # 0 /\ (n + 1) - 1 = n
      OBVIOUS
    <2>2. g[n + 1] = Step(t, g[n], n + 1)
      BY <2>1 DEF IsWalk
    <2>3. h[n + 1] = Step(t, h[n], n + 1)
      BY <2>1 DEF IsWalk
    <2>4. g[n] = h[n]
      BY <1>2
    <2> QED BY <2>1, <2>2, <2>3, <2>4
  <1> HIDE DEF T
  <1>3. \A n \in 0..j : n \in T
    <2>1. j \in Nat
      OBVIOUS
    <2> QED BY <1>1, <1>2, <2>1, Induct, Zenon
  <1> QED BY <1>3 DEF T

LEMMA WalkIs ==
    ASSUME NEW t, NEW from, NEW k \in Nat
    PROVE  \E g : IsWalk(t, from, k, g) /\ Walk(t, from, k) = g[k]
  <1> DEFINE walk == CHOOSE g : IsWalk(t, from, k, g)
  <1>1. IsWalk(t, from, k, walk)
    BY WalkExists
  <1>2. Walk(t, from, k) = walk[k]
    BY DEF Walk, IsWalk, Step
  <1> QED BY <1>1, <1>2

\* No step, and one step more.
LEMMA WalkSteps ==
    ASSUME NEW t, NEW from
    PROVE  /\ Walk(t, from, 0) = [at |-> from, seen |-> 0]
           /\ \A k \in Nat : Walk(t, from, k + 1) = Step(t, Walk(t, from, k), k + 1)
  <1>1. Walk(t, from, 0) = [at |-> from, seen |-> 0]
    <2>1. PICK g : IsWalk(t, from, 0, g) /\ Walk(t, from, 0) = g[0]
      BY WalkIs
    <2> QED BY <2>1 DEF IsWalk
  <1>2. ASSUME NEW k \in Nat
        PROVE  Walk(t, from, k + 1) = Step(t, Walk(t, from, k), k + 1)
    <2>1. PICK g : IsWalk(t, from, k, g) /\ Walk(t, from, k) = g[k]
      BY WalkIs
    <2>2. k + 1 \in Nat
      OBVIOUS
    <2>3. PICK h : IsWalk(t, from, k + 1, h) /\ Walk(t, from, k + 1) = h[k + 1]
      BY <2>2, WalkIs
    <2>4. g[k] = h[k]
      BY <2>1, <2>2, <2>3, WalkPrefix
    <2>5. h[k + 1] = Step(t, h[k], k + 1)
      <3>1. k + 1 \in 0..(k + 1) /\ k + 1 # 0 /\ (k + 1) - 1 = k
        OBVIOUS
      <3> QED BY <2>3, <3>1 DEF IsWalk
    <2> QED BY <2>1, <2>3, <2>4, <2>5
  <1> QED BY <1>1, <1>2

\* A walk goes forwards, and has gone past the end if it stopped early.
LEMMA WalkFacts ==
    ASSUME NEW t \in Seq(Byte), NEW from \in Nat \ {0}, NEW k \in Nat
    PROVE  /\ Walk(t, from, k) \in [at : Nat \ {0}, seen : 0..k]
           /\ Walk(t, from, k).at >= from + Walk(t, from, k).seen
           /\ Walk(t, from, k).at > Len(t) \/ Walk(t, from, k).seen = k
  <1> DEFINE W(n) == Walk(t, from, n)
             T == {n \in 0..k : /\ W(n) \in [at : Nat \ {0}, seen : 0..n]
                                /\ W(n).at >= from + W(n).seen
                                /\ W(n).at > Len(t) \/ W(n).seen = n}
  <1>0. W(0) = [at |-> from, seen |-> 0] /\ \A n \in Nat : W(n + 1) = Step(t, W(n), n + 1)
    BY WalkSteps
  <1> HIDE DEF W
  <1>1. 0 \in T
    <2>1. W(0) = [at |-> from, seen |-> 0]
      BY <1>0
    <2>2. W(0) \in [at : Nat \ {0}, seen : 0..0]
      BY <2>1
    <2>3. W(0).at = from /\ W(0).seen = 0 /\ from >= from + 0
      BY <2>1
    <2>4. 0 \in 0..k
      OBVIOUS
    <2> QED BY <2>2, <2>3, <2>4
  <1>2. ASSUME NEW n \in 0..(k - 1), n \in T PROVE n + 1 \in T
    <2>1. W(n + 1) = Step(t, W(n), n + 1) /\ n + 1 \in 0..k
      BY <1>0
    <2>2. CASE W(n).at > Len(t)
      BY <1>2, <2>1, <2>2 DEF Step
    <2>3. CASE ~(W(n).at > Len(t))
      <3>1. W(n).at \in 1..Len(t) /\ W(n).seen = n /\ Len(t) \in Nat
        BY <1>2, <2>3
      <3>2. RuneLen(t[W(n).at]) \in {1, 2}
        BY DEF RuneLen
      <3>3. W(n + 1) = [at |-> W(n).at + RuneLen(t[W(n).at]), seen |-> n + 1]
        BY <2>1, <2>3 DEF Step
      <3> QED BY <1>2, <2>1, <3>1, <3>2, <3>3
    <2> QED BY <2>2, <2>3
  <1> HIDE DEF T
  <1>3. k \in T
    BY <1>1, <1>2, Induct, Zenon
  <1> QED BY <1>3 DEF T, W

\* Past the end a walk stays where it is.
LEMMA Stays ==
    ASSUME NEW t \in Seq(Byte), NEW from \in Nat, from > Len(t), NEW k \in Nat
    PROVE  Walk(t, from, k) = [at |-> from, seen |-> 0]
  <1> DEFINE W(n) == Walk(t, from, n)
             T == {n \in 0..k : W(n) = [at |-> from, seen |-> 0]}
  <1>0. W(0) = [at |-> from, seen |-> 0] /\ \A n \in Nat : W(n + 1) = Step(t, W(n), n + 1)
    BY WalkSteps
  <1> HIDE DEF W
  <1>1. 0 \in T
    BY <1>0
  <1>2. ASSUME NEW n \in 0..(k - 1), n \in T PROVE n + 1 \in T
    <2>1. W(n + 1) = Step(t, W(n), n + 1) /\ n + 1 \in 0..k
      BY <1>0
    <2> QED BY <1>2, <2>1 DEF Step
  <1> HIDE DEF T
  <1>3. k \in T
    BY <1>1, <1>2, Induct, Zenon
  <1> QED BY <1>3 DEF T, W

\* A walk of i + k runes is a walk of i and, from where it ends, a walk of k.
LEMMA Composed ==
    ASSUME NEW t \in Seq(Byte), NEW i \in Nat, NEW k \in Nat
    PROVE  /\ Walk(t, 1, i + k).at = Walk(t, Walk(t, 1, i).at, k).at
           /\ Walk(t, 1, i + k).seen = Walk(t, 1, i).seen + Walk(t, Walk(t, 1, i).at, k).seen
  <1> DEFINE from == Walk(t, 1, i).at
             A(n) == Walk(t, 1, n)
             B(n) == Walk(t, from, n)
             T == {n \in 0..k : A(i + n).at = B(n).at /\ A(i + n).seen = A(i).seen + B(n).seen}
  <1>0. /\ \A n \in Nat : A(n + 1) = Step(t, A(n), n + 1)
        /\ B(0) = [at |-> from, seen |-> 0] /\ \A n \in Nat : B(n + 1) = Step(t, B(n), n + 1)
    BY WalkSteps
  <1>1. A(i) \in [at : Nat \ {0}, seen : 0..i] /\ (A(i).at > Len(t) \/ A(i).seen = i) /\ from = A(i).at
    <2>1. 1 \in Nat \ {0}
      OBVIOUS
    <2> QED BY <2>1, WalkFacts, Zenon
  <1>2. \A n \in Nat : /\ B(n) \in [at : Nat \ {0}, seen : 0..n] /\ B(n).at >= from + B(n).seen
                       /\ B(n).at > Len(t) \/ B(n).seen = n
    BY <1>1, WalkFacts
  <1> HIDE DEF A, B, from
  <1>3. 0 \in T
    BY <1>0, <1>1
  <1>4. ASSUME NEW n \in 0..(k - 1), n \in T PROVE n + 1 \in T
    <2>1. /\ A((i + n) + 1) = Step(t, A(i + n), (i + n) + 1) /\ B(n + 1) = Step(t, B(n), n + 1)
          /\ n + 1 \in 0..k /\ i + (n + 1) = (i + n) + 1 /\ n \in Nat
      BY <1>0
    <2>2. A(i + n).at = B(n).at /\ A(i + n).seen = A(i).seen + B(n).seen
      BY <1>4
    <2>3. CASE B(n).at > Len(t)
      BY <2>1, <2>2, <2>3 DEF Step
    <2>4. CASE ~(B(n).at > Len(t))
      <3>1. Len(t) \in Nat /\ B(n).at \in Nat /\ B(n).at >= from /\ from \in Nat
        <4>1. B(n) \in [at : Nat \ {0}, seen : 0..n] /\ B(n).at >= from + B(n).seen
          BY <1>2, <2>1
        <4>2. A(i).at \in Nat /\ B(n).at \in Nat /\ B(n).seen \in Nat
          BY <1>1, <2>1, <4>1
        <4> QED BY <1>1, <4>1, <4>2
      <3>2. A(i).seen = i
        BY <1>1, <2>4, <3>1
      <3>3. /\ A((i + n) + 1) = [at |-> B(n).at + RuneLen(t[B(n).at]), seen |-> (i + n) + 1]
            /\ B(n + 1) = [at |-> B(n).at + RuneLen(t[B(n).at]), seen |-> n + 1]
        <4>1. ~(A(i + n).at > Len(t))
          BY <2>2, <2>4
        <4>2. /\ Step(t, A(i + n), (i + n) + 1) =
                    [at |-> A(i + n).at + RuneLen(t[A(i + n).at]), seen |-> (i + n) + 1]
              /\ Step(t, B(n), n + 1) = [at |-> B(n).at + RuneLen(t[B(n).at]), seen |-> n + 1]
          BY <2>4, <4>1, Zenon DEF Step
        <4> QED BY <2>1, <2>2, <4>2, Zenon
      <3> QED BY <2>1, <3>2, <3>3, SMTT(30)
    <2> QED BY <2>3, <2>4
  <1> HIDE DEF T
  <1>5. k \in T
    BY <1>3, <1>4, Induct, Zenon
  <1> QED BY <1>5 DEF T, A, B, from

\* A scan of as many runes as a scan has seen is that scan.
LEMMA SeenSame ==
    ASSUME NEW t, NEW k \in Nat
    PROVE  Walk(t, 1, Walk(t, 1, k).seen) = Walk(t, 1, k)
  <1> DEFINE W(n) == Walk(t, 1, n)
             T == {n \in 0..k : W(W(n).seen) = W(n)}
  <1>0. W(0) = [at |-> 1, seen |-> 0] /\ \A n \in Nat : W(n + 1) = Step(t, W(n), n + 1)
    BY WalkSteps
  <1> HIDE DEF W
  <1>1. 0 \in T
    BY <1>0
  <1>2. ASSUME NEW n \in 0..(k - 1), n \in T PROVE n + 1 \in T
    <2>1. W(n + 1) = Step(t, W(n), n + 1) /\ n + 1 \in 0..k /\ W(W(n).seen) = W(n)
      BY <1>0, <1>2
    <2>2. W(n + 1) = W(n) \/ W(n + 1).seen = n + 1
      BY <2>1 DEF Step
    <2> QED BY <2>1, <2>2
  <1> HIDE DEF T
  <1>3. k \in T
    BY <1>1, <1>2, Induct, Zenon
  <1> QED BY <1>3 DEF T, W

\* In a string that does not end inside a rune, no walk leaves it.
LEMMA Inside ==
    ASSUME NEW t \in Seq(Byte), EndsWithRune(t), NEW k \in Nat
    PROVE  Walk(t, 1, k).at \in 1..(Len(t) + 1) /\ Walk(t, 1, k).seen \in 0..Len(t)
  <1> DEFINE n == Len(t)
  <1>0. n \in Nat /\ Walk(t, 1, n).at = n + 1
    BY DEF EndsWithRune, RuneStart
  <1>1. Walk(t, 1, k) \in [at : Nat \ {0}, seen : 0..k] /\ Walk(t, 1, k).at >= 1 + Walk(t, 1, k).seen
    <2>1. 1 \in Nat \ {0}
      OBVIOUS
    <2> QED BY <2>1, WalkFacts, Zenon
  <1>2. Walk(t, 1, k).at <= n + 1
    <2>1. CASE k <= n
      <3>1. n - k \in Nat /\ k + (n - k) = n
        BY <1>0, <2>1
      <3> DEFINE from == Walk(t, 1, k).at
      <3>2. Walk(t, 1, k + (n - k)).at = Walk(t, from, n - k).at
        BY <3>1, Composed
      <3>3. from \in Nat \ {0}
        BY <1>1
      <3> HIDE DEF from, n
      <3>4. Walk(t, from, n - k).at >= from + Walk(t, from, n - k).seen
            /\ Walk(t, from, n - k) \in [at : Nat \ {0}, seen : 0..(n - k)]
        BY <3>1, <3>3, WalkFacts
      <3>5. n + 1 >= from
        BY <1>0, <3>1, <3>2, <3>3, <3>4
      <3> QED BY <1>0, <3>3, <3>5 DEF from
    <2>2. CASE k > n
      <3>1. k - n \in Nat /\ n + (k - n) = k
        BY <1>0, <2>2
      <3>2. Walk(t, 1, n + (k - n)).at = Walk(t, n + 1, k - n).at
        <4>1. Walk(t, 1, n + (k - n)).at = Walk(t, Walk(t, 1, n).at, k - n).at
          BY <1>0, <3>1, Composed, Zenon
        <4> QED BY <1>0, <4>1
      <3>3. Walk(t, n + 1, k - n).at = n + 1
        BY <1>0, <3>1, Stays
      <3> QED BY <1>0, <3>1, <3>2, <3>3
    <2> QED BY <1>0, <2>1, <2>2
  <1> QED BY <1>0, <1>1, <1>2

\* Whole runes appended to a string that does not end inside one leave such a string.
LEMMA Grown ==
    ASSUME NEW t \in Seq(Byte), EndsWithRune(t), NEW u \in Seq(Byte), WholeRunes(u)
    PROVE  EndsWithRune(t \o u)
  <1> DEFINE v == t \o u
             W(n) == Walk(v, 1, n)
             X(n) == Walk(t, 1, n)
             Good(a) == /\ a \in 1..(Len(v) + 1)
                        /\ a > Len(t) /\ a <= Len(v) => v[a] # "c"
             T == {n \in 0..Len(v) : Good(W(n).at) /\ (W(n).at <= Len(t) => W(n).at = X(n).at)}
  <1>0. /\ v \in Seq(Byte) /\ Len(v) = Len(t) + Len(u) /\ Len(t) \in Nat /\ Len(u) \in Nat
        /\ \A p \in 1..Len(t) : v[p] = t[p]
        /\ \A p \in 1..Len(u) : v[Len(t) + p] = u[p]
    OBVIOUS
  <1>1. /\ W(0) = [at |-> 1, seen |-> 0] /\ \A n \in Nat : W(n + 1) = Step(v, W(n), n + 1)
        /\ X(0) = [at |-> 1, seen |-> 0] /\ \A n \in Nat : X(n + 1) = Step(t, X(n), n + 1)
    BY WalkSteps
  <1>2. \A n \in Nat : X(n).at \in 1..(Len(t) + 1)
    BY Inside
  <1>u. /\ \A p \in 1..Len(u) : u[p] = "c" <=> p > 1 /\ u[p - 1] = "l"
        /\ u # <<>> => u[Len(u)] # "l"
    BY DEF WholeRunes
  <1>3. Len(u) >= 1 => u[1] # "c"
    <2>1. Len(u) >= 1 => 1 \in 1..Len(u)
      BY <1>0
    <2> QED BY <1>u, <2>1
  <1>4. /\ W(Len(v)).at \in Nat
        /\ W(Len(v)).at > Len(v) \/ W(Len(v)).at >= 1 + Len(v)
    <2>1. 1 \in Nat \ {0} /\ Len(v) \in Nat
      BY <1>0
    <2> HIDE DEF v
    <2>2. LET w == Walk(v, 1, Len(v)) IN
            /\ w \in [at : Nat \ {0}, seen : 0..Len(v)]
            /\ w.at >= 1 + w.seen
            /\ w.at > Len(v) \/ w.seen = Len(v)
      BY <1>0, <2>1, WalkFacts
    <2> QED BY <2>1, <2>2
  <1> HIDE DEF v, W, X
  <1>5. Good(Len(t) + 1)
    <2>1. Len(t) + 1 <= Len(v) => 1 \in 1..Len(u)
      BY <1>0
    <2> QED BY <1>0, <1>3, <2>1
  <1>6. 0 \in T
    <2>1. W(0).at = 1 /\ X(0).at = 1 /\ 0 \in 0..Len(v)
      BY <1>0, <1>1
    <2>2. Good(1)
      <3>1. CASE Len(t) = 0
        BY <1>5, <3>1
      <3>2. CASE Len(t) # 0
        BY <1>0, <3>2
      <3> QED BY <3>1, <3>2
    <2> HIDE DEF Good
    <2> QED BY <2>1, <2>2
  <1>7. ASSUME NEW n \in 0..(Len(v) - 1), n \in T PROVE n + 1 \in T
    <2>0. n \in Nat /\ n + 1 \in Nat /\ n + 1 \in 0..Len(v)
      BY <1>0
    <2>a. Good(W(n).at) /\ (W(n).at <= Len(t) => W(n).at = X(n).at)
      BY <1>7
    <2>1. /\ W(n + 1) = Step(v, W(n), n + 1) /\ X(n + 1) = Step(t, X(n), n + 1)
          /\ n + 1 \in 0..Len(v) /\ X(n + 1).at \in 1..(Len(t) + 1)
      BY <1>1, <1>2, <2>0, Zenon
    <2>2. CASE W(n).at > Len(v)
      BY <1>0, <1>7, <2>1, <2>2 DEF Step
    <2>3. CASE W(n).at <= Len(t)
      <3>1. W(n).at \in 1..Len(t) /\ W(n).at = X(n).at /\ v[W(n).at] = t[W(n).at]
        BY <1>0, <1>7, <2>3
      <3>2. W(n + 1).at = X(n + 1).at
        BY <1>0, <2>1, <3>1 DEF Step
      <3>3. Good(X(n + 1).at)
        <4>1. CASE X(n + 1).at = Len(t) + 1
          BY <1>5, <4>1
        <4>2. CASE X(n + 1).at # Len(t) + 1
          BY <1>0, <2>1, <4>2
        <4> QED BY <4>1, <4>2
      <3> HIDE DEF Good
      <3> QED BY <2>1, <3>2, <3>3
    <2>4. CASE W(n).at \in (Len(t) + 1)..Len(v)
      <3> DEFINE p == W(n).at - Len(t)
      <3>1. p \in 1..Len(u) /\ W(n).at = Len(t) + p /\ v[W(n).at] = u[p] /\ u[p] # "c"
        <4>1. p \in 1..Len(u) /\ W(n).at = Len(t) + p
          BY <1>0, <2>4
        <4>2. v[W(n).at] = u[p]
          BY <1>0, <4>1
        <4>3. v[W(n).at] # "c"
          BY <1>0, <2>a, <2>4
        <4> QED BY <4>1, <4>2, <4>3
      <3>2. W(n + 1).at = Len(t) + (p + RuneLen(u[p])) /\ RuneLen(u[p]) \in {1, 2}
        <4>1. Step(v, W(n), n + 1).at = W(n).at + RuneLen(v[W(n).at])
          <5>1. ~(W(n).at > Len(v))
            BY <1>0, <2>4
          <5> QED BY <5>1 DEF Step
        <4>2. RuneLen(u[p]) \in {1, 2}
          BY DEF RuneLen
        <4> HIDE DEF p
        <4>3. W(n + 1).at = (Len(t) + p) + RuneLen(u[p])
          BY <2>1, <3>1, <4>1, Zenon
        <4>4. p \in Nat
          BY <1>0, <3>1
        <4> QED BY <1>0, <4>2, <4>3, <4>4
      <3> HIDE DEF p
      <3>3. LET q == p + RuneLen(u[p]) IN q \in 1..(Len(u) + 1) /\ (q <= Len(u) => u[q] # "c")
        <4>1. CASE u[p] = "l"
          <5>1. p # Len(u)
            BY <1>u, <3>1, <4>1
          <5>2. p + 1 \in 1..Len(u) /\ (p + 1) - 1 = p
            BY <1>0, <3>1, <5>1
          <5>3. u[p + 1] = "c"
            BY <1>u, <3>1, <4>1, <5>2
          <5>4. ASSUME p + 2 <= Len(u) PROVE u[p + 2] # "c"
            <6>1. p + 2 \in 1..Len(u) /\ (p + 2) - 1 = p + 1
              BY <1>0, <3>1, <5>4
            <6> QED BY <1>u, <5>3, <6>1
          <5>5. RuneLen(u[p]) = 2
            BY <4>1 DEF RuneLen
          <5>6. p + 2 \in 1..(Len(u) + 1)
            BY <1>0, <5>2
          <5> QED BY <5>4, <5>5, <5>6, Zenon
        <4>2. CASE u[p] # "l"
          <5>1. ASSUME p + 1 <= Len(u) PROVE u[p + 1] # "c"
            <6>1. p + 1 \in 1..Len(u) /\ (p + 1) - 1 = p
              BY <1>0, <3>1, <5>1
            <6> QED BY <1>u, <4>2, <6>1
          <5> QED BY <1>0, <3>1, <4>2, <5>1 DEF RuneLen
        <4> QED BY <4>1, <4>2
      <3> DEFINE q == p + RuneLen(u[p])
      <3>4. q \in 1..(Len(u) + 1) /\ (q <= Len(u) => u[q] # "c") /\ W(n + 1).at = Len(t) + q
        BY <3>2, <3>3
      <3> HIDE DEF q
      <3>5. q <= Len(u) => v[Len(t) + q] = u[q]
        BY <1>0, <3>4
      <3> QED BY <1>0, <2>1, <3>4, <3>5
    <2>5. W(n).at \in 1..(Len(v) + 1)
      BY <1>7
    <2> QED BY <1>0, <2>2, <2>3, <2>4, <2>5
  <1>8. Len(v) \in T
    <2>1. Len(v) \in Nat /\ Len(v) \in 0..Len(v)
      BY <1>0
    <2> HIDE DEF T
    <2> QED BY <1>6, <1>7, <2>1, Induct, Zenon
  <1>9. W(Len(v)).at = Len(v) + 1
    BY <1>0, <1>4, <1>8
  <1> QED BY <1>9 DEF v, W, EndsWithRune, RuneStart

-----------------------------------------------------------------------------
(* The cursor                                                              *)

LEMMA BytesAre ==
    ASSUME NEW t
    PROVE  t \in Bytes <=> t \in Seq(Byte) /\ Len(t) <= MaxBytes
  <1>1. ASSUME t \in Bytes PROVE t \in Seq(Byte) /\ Len(t) <= MaxBytes
    <2>1. PICK n \in 0..MaxBytes : t \in [1..n -> Byte]
      BY <1>1 DEF Bytes
    <2> QED BY <2>1, MaxBytesAssumption
  <1>2. ASSUME t \in Seq(Byte), Len(t) <= MaxBytes PROVE t \in Bytes
    <2>1. Len(t) \in 0..MaxBytes /\ t \in [1..Len(t) -> Byte]
      BY <1>2, MaxBytesAssumption
    <2> QED BY <2>1 DEF Bytes
  <1> QED BY <1>1, <1>2

LEMMA TextIs ==
    ASSUME CursorInv, NEW s \in Strings
    PROVE  /\ text[s] \in Seq(Byte) /\ Len(text[s]) \in 0..MaxBytes /\ EndsWithRune(text[s])
           /\ Runes(text[s]) \in 0..Len(text[s]) /\ s # NoString
  <1>1. text[s] \in Seq(Byte) /\ Len(text[s]) \in 0..MaxBytes /\ EndsWithRune(text[s]) /\ s # NoString
    <2>1. text[s] \in Bytes
      BY DEF CursorInv, CursorTypeOK
    <2> QED BY <2>1, BytesAre, NoStringAssumption DEF CursorInv
  <1>2. Runes(text[s]) \in 0..Len(text[s])
    BY <1>1, Inside DEF Runes
  <1> QED BY <1>1, <1>2

\* A count is a scan's.
LEMMA CountIs ==
    ASSUME CursorInv, NEW s \in Strings
    PROVE  CountOf(s) = Runes(text[s])
  <1>1. Runes(text[s]) \in Nat /\ s # NoString
    BY TextIs
  <1> QED BY <1>1 DEF CursorInv, CursorSound, CountOf

\* A lookup is a scan, and leaves the cursor where a scan of its index stands.
LEMMA OffsetIs ==
    ASSUME CursorInv, NEW s \in Strings, NEW i \in Nat
    PROVE  /\ OffsetOf(s, i).at = RuneStart(text[s], i)
           /\ AfterOffset(s, i).at = RuneStart(text[s], AfterOffset(s, i).index)
           /\ AfterOffset(s, i).index \in 0..Len(text[s])
           /\ AfterOffset(s, i).at \in 1..(Len(text[s]) + 1)
  <1> DEFINE t == text[s]
             o == AfterOffset(s, i)
  <1>0. t \in Seq(Byte) /\ Len(t) \in Nat /\ EndsWithRune(t) /\ s # NoString
    BY TextIs
  <1>1. Walk(t, 1, i).at \in 1..(Len(t) + 1) /\ Walk(t, 1, i).seen \in 0..Len(t)
        /\ Walk(t, 1, Walk(t, 1, i).seen) = Walk(t, 1, i)
    BY <1>0, Inside, SeenSame
  <1>2. o.index = From(s, i).index + OffsetOf(s, i).seen /\ o.at = OffsetOf(s, i).at
    BY DEF AfterOffset
  <1>3. CASE cursor.s = s /\ cursor.index <= i
    <2> DEFINE c == cursor.index
               from == Walk(t, 1, c).at
               k == i - c
    <2>1. c \in Nat /\ k \in Nat /\ c + k = i /\ c <= Len(t) /\ cursor.at = from
      BY <1>0, <1>3 DEF CursorInv, CursorTypeOK, CursorSound, RuneStart
    <2>2. From(s, i) = [index |-> c, at |-> from] /\ OffsetOf(s, i) = Walk(t, from, k)
      BY <1>3, <2>1 DEF From, OffsetOf
    <2> HIDE DEF o, t, c, k
    <2>3. /\ Walk(t, 1, i).at = Walk(t, from, k).at
          /\ Walk(t, 1, i).seen = Walk(t, 1, c).seen + Walk(t, from, k).seen
      <3>1. /\ Walk(t, 1, c + k).at = Walk(t, from, k).at
            /\ Walk(t, 1, c + k).seen = Walk(t, 1, c).seen + Walk(t, from, k).seen
        BY <1>0, <2>1, Composed, Zenon
      <3> QED BY <2>1, <3>1
    <2>4. o.index = c + Walk(t, from, k).seen /\ o.at = Walk(t, 1, i).at
      BY <1>2, <2>2, <2>3
    <2>5. from \in Nat /\ (from > Len(t) \/ Walk(t, 1, c).seen = c)
      <3>1. 1 \in Nat \ {0}
        OBVIOUS
      <3>2. Walk(t, 1, c) \in [at : Nat \ {0}, seen : 0..c]
            /\ (from > Len(t) \/ Walk(t, 1, c).seen = c)
        BY <1>0, <2>1, <3>1, WalkFacts, Zenon
      <3> QED BY <3>2
    <2>6. o.index \in 0..Len(t) /\ Walk(t, 1, o.index).at = Walk(t, 1, i).at
      <3>1. CASE from > Len(t)
        <4>1. Walk(t, from, k) = [at |-> from, seen |-> 0]
          BY <1>0, <2>1, <2>5, <3>1, Stays
        <4>2. o.index = c
          BY <2>1, <2>4, <4>1
        <4> QED BY <1>0, <2>1, <2>3, <4>1, <4>2
      <3>2. CASE Walk(t, 1, c).seen = c
        <4>1. o.index = Walk(t, 1, i).seen
          BY <2>3, <2>4, <3>2
        <4> QED BY <1>1, <4>1
      <3> QED BY <2>5, <3>1, <3>2
    <2> QED BY <1>1, <1>2, <2>4, <2>6 DEF RuneStart, o, t
  <1>4. CASE ~(cursor.s = s /\ cursor.index <= i)
    <2>1. From(s, i) = [index |-> 0, at |-> 1]
      BY <1>4 DEF From
    <2>2. OffsetOf(s, i) = Walk(t, 1, i)
      BY <2>1 DEF OffsetOf
    <2>3. o.index = Walk(t, 1, i).seen
      BY <1>1, <1>2, <2>1, <2>2
    <2> QED BY <1>1, <1>2, <2>2, <2>3 DEF RuneStart
  <1> QED BY <1>3, <1>4

-----------------------------------------------------------------------------
(* The steps                                                               *)

\* A text may be changed once the cursor is not, or no longer, its own.
LEMMA TextKeeps ==
    ASSUME CursorInv, NEW r \in Strings, NEW t \in Bytes, EndsWithRune(t),
           text' = [text EXCEPT ![r] = t], live' \in SUBSET Strings, live \subseteq live',
           cursor' \in {cursor, [cursor EXCEPT !.s = NoString]}, cursor'.s # r
    PROVE  CursorInv'
  <1>1. CursorTypeOK'
    BY DEF CursorInv, CursorTypeOK
  <1>2. \A s \in Strings : EndsWithRune(text'[s])
    BY DEF CursorInv, CursorTypeOK
  <1>3. CursorSound'
    <2>1. CASE cursor'.s = NoString
      BY <2>1 DEF CursorSound
    <2>2. CASE cursor'.s # NoString
      <3>1. cursor' = cursor /\ cursor.s \in Strings /\ cursor.s # r
        BY <2>2 DEF CursorInv, CursorTypeOK
      <3>2. text'[cursor.s] = text[cursor.s]
        BY <3>1 DEF CursorInv, CursorTypeOK
      <3> QED BY <2>2, <3>1, <3>2 DEF CursorInv, CursorSound
    <2> QED BY <2>1, <2>2
  <1> QED BY <1>1, <1>2, <1>3 DEF CursorInv

LEMMA ForgetIs ==
    ASSUME CursorInv, NEW s \in Strings
    PROVE  Forget(s) \in {cursor, [cursor EXCEPT !.s = NoString]} /\ Forget(s).s # s
  BY NoStringAssumption DEF CursorInv, CursorTypeOK, Forget

\* The cursor is about an allocated string.
LEMMA CursorIs ==
    ASSUME CursorInv, NEW r \in Strings, r \notin live
    PROVE  cursor.s # r
  BY NoStringAssumption DEF CursorInv, CursorTypeOK

\* Whole runes after a string that does not end inside one.
LEMMA Appended ==
    ASSUME CursorInv, NEW s \in Strings, NEW t \in Utf8, Len(text[s]) + Len(t) <= MaxBytes
    PROVE  text[s] \o t \in Bytes /\ EndsWithRune(text[s] \o t)
  <1>1. t \in Seq(Byte) /\ WholeRunes(t)
    BY BytesAre DEF Utf8
  <1>2. text[s] \in Seq(Byte) /\ EndsWithRune(text[s])
    BY TextIs
  <1>3. text[s] \o t \in Seq(Byte) /\ Len(text[s] \o t) <= MaxBytes
    BY <1>1, <1>2
  <1> QED BY <1>1, <1>2, <1>3, Grown, BytesAre

LEMMA EmptyEnds == <<>> \in Seq(Byte) /\ EndsWithRune(<<>>)
  <1>1. Len(<<>>) = 0 /\ Walk(<<>>, 1, 0) = [at |-> 1, seen |-> 0]
    BY WalkSteps
  <1> QED BY <1>1 DEF EndsWithRune, RuneStart

\* Every operation keeps the invariant.
LEMMA CursorNextKeeps == CursorInv /\ [CursorNext]_cursorVars => CursorInv'
  <1> SUFFICES ASSUME CursorInv, [CursorNext]_cursorVars PROVE CursorInv'
    OBVIOUS
  <1>0. live \in SUBSET Strings /\ text \in [Strings -> Bytes]
    BY DEF CursorInv, CursorTypeOK
  <1>1. CASE UNCHANGED cursorVars
    BY <1>1 DEF cursorVars, CursorInv, CursorTypeOK, CursorSound
  <1>2. ASSUME NEW s \in Strings, RuneCount(s) PROVE CursorInv'
    <2>1. CountOf(s) = Runes(text[s]) /\ Runes(text[s]) \in 0..MaxBytes /\ s # NoString
      <3>1. Runes(text[s]) \in 0..Len(text[s]) /\ Len(text[s]) \in 0..MaxBytes /\ s # NoString
        BY TextIs
      <3>2. CountOf(s) = Runes(text[s])
        BY CountIs, Zenon
      <3>3. Runes(text[s]) \in 0..MaxBytes
        BY <3>1, MaxBytesAssumption
      <3> QED BY <3>1, <3>2, <3>3
    <2>2. cursor' = AfterCount(s) /\ s \in live /\ text' = text /\ live' = live
      BY <1>2 DEF RuneCount
    <2>3. CASE cursor.s = s
      <3>1. cursor' = [cursor EXCEPT !.count = Runes(text[s])]
        BY <2>1, <2>2, <2>3 DEF AfterCount
      <3>2. CursorTypeOK'
        BY <2>1, <2>2, <3>1 DEF CursorInv, CursorTypeOK
      <3>3. /\ cursor'.s = cursor.s /\ cursor'.index = cursor.index /\ cursor'.at = cursor.at
            /\ cursor'.count = Runes(text[s])
        BY <3>1 DEF CursorInv, CursorTypeOK
      <3>4. CursorSound'
        BY <2>1, <2>2, <2>3, <3>3 DEF CursorInv, CursorSound
      <3> QED BY <2>2, <3>2, <3>4 DEF CursorInv
    <2>4. CASE cursor.s # s
      <3>1. cursor' = [[cursor EXCEPT !.s = s, !.index = 0, !.at = 1] EXCEPT !.count = Runes(text[s])]
        BY <2>1, <2>2, <2>4 DEF AfterCount
      <3>2. cursor' = [s |-> s, index |-> 0, at |-> 1, count |-> Runes(text[s])]
        BY <3>1 DEF CursorInv, CursorTypeOK
      <3>3. CursorTypeOK'
        BY <2>1, <2>2, <3>2, MaxBytesAssumption DEF CursorInv, CursorTypeOK
      <3>4. RuneStart(text[s], 0) = 1 /\ Len(text[s]) \in Nat
        BY WalkSteps, TextIs DEF RuneStart
      <3>5. CursorSound'
        BY <2>2, <3>2, <3>4 DEF CursorSound
      <3> QED BY <2>2, <3>3, <3>5 DEF CursorInv
    <2> QED BY <2>3, <2>4
  <1>3. ASSUME NEW s \in Strings, NEW t \in Utf8, Alloc(s, t) PROVE CursorInv'
    <2>1. t \in Bytes /\ t \in Seq(Byte) /\ WholeRunes(t)
      BY BytesAre DEF Utf8
    <2>2. <<>> \o t = t
      BY <2>1
    <2>3. EndsWithRune(t)
      BY <2>1, <2>2, EmptyEnds, Grown
    <2>4. text' = [text EXCEPT ![s] = t] /\ live' = live \cup {s} /\ cursor' = cursor /\ s \notin live
      BY <1>3 DEF Alloc
    <2> QED BY <1>0, <2>1, <2>3, <2>4, TextKeeps, CursorIs
  <1>4. ASSUME NEW s \in Strings, NEW t \in Utf8, AppendInPlace(s, t) PROVE CursorInv'
    <2> DEFINE u == text[s] \o t
    <2>1. u \in Bytes /\ EndsWithRune(u)
      BY <1>4, Appended DEF AppendInPlace
    <2>2. text' = [text EXCEPT ![s] = u] /\ live' = live /\ cursor' = Forget(s)
      BY <1>4 DEF AppendInPlace
    <2> HIDE DEF u
    <2> QED BY <1>0, <2>1, <2>2, TextKeeps, ForgetIs
  <1>5. ASSUME NEW s \in Strings, NEW p \in 1..MaxBytes, NEW b \in {"a", "l"}, SetByte(s, p, b)
        PROVE  CursorInv'
    <2> DEFINE u == [text[s] EXCEPT ![p] = b]
    <2>1. text[s] \in Seq(Byte) /\ Len(text[s]) <= MaxBytes /\ p \in 1..Len(text[s])
      BY <1>5, TextIs DEF SetByte
    <2>2. u \in Seq(Byte) /\ Len(u) = Len(text[s])
      BY <2>1 DEF Byte
    <2>3. text' = [text EXCEPT ![s] = u] /\ live' = live /\ cursor' = Forget(s)
          /\ EndsWithRune(text'[s])
      BY <1>5 DEF SetByte
    <2> HIDE DEF u
    <2>4. u \in Bytes /\ EndsWithRune(u)
      BY <1>0, <2>1, <2>2, <2>3, BytesAre
    <2> QED BY <1>0, <2>3, <2>4, TextKeeps, ForgetIs
  <1>6. ASSUME NEW s \in Strings, NEW r \in Strings, Chop(s, r) PROVE CursorInv'
    <2> DEFINE u == SubSeq(text[s], 1, Len(text[s]) - 1)
    <2>1. text[s] \in Seq(Byte) /\ Len(text[s]) <= MaxBytes /\ text[s] # <<>>
      BY <1>6, TextIs DEF Chop
    <2>2. u \in Seq(Byte) /\ Len(u) = Len(text[s]) - 1 /\ Len(text[s]) \in Nat
      BY <2>1
    <2>3. text' = [text EXCEPT ![r] = u] /\ live' = live \cup {r} /\ cursor' = cursor
          /\ r \notin live /\ EndsWithRune(text'[r])
      BY <1>6 DEF Chop
    <2> HIDE DEF u
    <2>4. u \in Bytes /\ EndsWithRune(u)
      BY <1>0, <2>1, <2>2, <2>3, BytesAre, MaxBytesAssumption
    <2> QED BY <1>0, <2>3, <2>4, TextKeeps, CursorIs
  <1>7. ASSUME NEW s \in Strings, NEW r \in Strings, NEW t \in Utf8, AppendToNew(s, t, r)
        PROVE  CursorInv'
    <2> DEFINE u == text[s] \o t
    <2>1. u \in Bytes /\ EndsWithRune(u)
      BY <1>7, Appended DEF AppendToNew
    <2>2. text' = [text EXCEPT ![r] = u] /\ live' = live \cup {r} /\ cursor' \in {Forget(s), cursor}
          /\ r \notin live
      BY <1>7 DEF AppendToNew
    <2> HIDE DEF u
    <2>3. cursor' \in {cursor, [cursor EXCEPT !.s = NoString]} /\ cursor'.s # r
      <3>1. cursor.s # r /\ [cursor EXCEPT !.s = NoString].s # r
        BY <2>2, CursorIs, NoStringAssumption DEF CursorInv, CursorTypeOK
      <3> QED BY <2>2, <3>1, ForgetIs
    <2> QED BY <1>0, <2>1, <2>2, <2>3, TextKeeps
  <1>8. ASSUME NEW s \in Strings, NEW i \in 0..MaxBytes, RuneOffset(s, i) PROVE CursorInv'
    <2> DEFINE o == AfterOffset(s, i)
    <2>1. cursor' = o /\ s \in live /\ text' = text /\ live' = live
      BY <1>8 DEF RuneOffset
    <2>2. /\ o.at = RuneStart(text[s], o.index)
          /\ o.index \in 0..Len(text[s]) /\ o.at \in 1..(Len(text[s]) + 1)
      BY MaxBytesAssumption, OffsetIs
    <2>3. Len(text[s]) \in 0..MaxBytes /\ s # NoString
      BY TextIs
    <2>4. o \in [s : {s}, index : {o.index}, at : {o.at}, count : {IF cursor.s = s THEN cursor.count ELSE -1}]
      BY DEF AfterOffset
    <2>5. /\ o.s = s /\ o.count \in -1..MaxBytes
          /\ o.count \in {-1, Runes(text[s])}
      BY <2>3, <2>4, MaxBytesAssumption DEF CursorInv, CursorTypeOK, CursorSound
    <2>6. o.index \in 0..MaxBytes /\ o.at \in 1..(MaxBytes + 1)
      BY <2>2, <2>3, MaxBytesAssumption
    <2> HIDE DEF o
    <2>7. CursorTypeOK'
      BY <2>1, <2>4, <2>5, <2>6 DEF CursorInv, CursorTypeOK
    <2>8. CursorSound'
      BY <2>1, <2>2, <2>3, <2>5 DEF CursorSound
    <2> QED BY <2>1, <2>7, <2>8 DEF CursorInv
  <1> QED BY <1>1, <1>2, <1>3, <1>4, <1>5, <1>6, <1>7, <1>8 DEF CursorNext

\* The invariant holds at the start.
LEMMA CursorInitHolds == CursorInit => CursorInv
  <1> SUFFICES ASSUME CursorInit PROVE CursorInv
    OBVIOUS
  <1>1. <<>> \in Bytes
    <2>1. <<>> \in Seq(Byte) /\ Len(<<>>) <= MaxBytes
      BY MaxBytesAssumption
    <2> QED BY <2>1, BytesAre, Zenon
  <1> QED BY <1>1, EmptyEnds, MaxBytesAssumption DEF CursorInit, CursorInv, CursorTypeOK, CursorSound

\* What every reachable state satisfies: the types, strings that do not end inside a rune,
\* and a cursor that stands where a scan of its index stands.
THEOREM CursorInvariant == CursorSpec => []CursorInv
  BY CursorInitHolds, CursorNextKeeps, PTL DEF CursorSpec

\* rune_offset and rune_count answer as a scan from the start of the string, whatever was
\* looked up, counted, appended, chopped and rewritten before.
THEOREM LookupsAreScans == CursorSpec => []LookupsScan
  <1>1. CursorInv => LookupsScan
    <2> SUFFICES ASSUME CursorInv PROVE LookupsScan
      OBVIOUS
    <2>1. ASSUME NEW s \in live
          PROVE  /\ CountOf(s) = Runes(text[s])
                 /\ \A i \in 0..Runes(text[s]) : OffsetOf(s, i).at = RuneStart(text[s], i)
      <3>1. s \in Strings
        BY DEF CursorInv, CursorTypeOK
      <3>2. 0..Runes(text[s]) \subseteq Nat
        BY <3>1, TextIs
      <3> QED BY <3>1, <3>2, CountIs, OffsetIs
    <2> QED BY <2>1 DEF CursorInv, LookupsScan
  <1> QED BY <1>1, CursorInvariant, PTL
=============================================================================
