---------------------------- MODULE BlocksProofs ----------------------------
(***************************************************************************)
(* Proofs about Blocks for any values, programs and number of operations:  *)
(* nothing is read or written behind an array, and no cell is in a block   *)
(* twice.                                                                  *)
(*                                                                         *)
(* What operations leave of a block is computed by loops, which are        *)
(* recursive functions of the number of rounds (LoopExists, LoopHolds).    *)
(***************************************************************************)
EXTENDS Blocks, SequenceTheorems, WellFoundedInduction, TLAPS

\* No cell is in a sequence of cells twice.
Distinct(s) == \A i, j \in 1..Len(s) : s[i] = s[j] => i = j

\* A body whose array has room for its slots, with no live cell twice.
BodyType == [items : Seq(Nat), n : Nat, cap : Nat]
Sound(x, cells) ==
    /\ x \in BodyType /\ x.items \in Seq(1..cells)
    /\ x.n \in 0..Len(x.items) /\ Len(x.items) <= x.cap
    /\ \A i, j \in 1..x.n : x.items[i] = x.items[j] => i = j

Bodies ==
    /\ val \in Seq(Vals) /\ block \in Seq(BodyType)
    /\ \A b \in Blocks : Sound(block[b], Len(val))

\* What the rounds of an iteration have collected has room in what was allocated
\* for it, and the next round reads slots of the count taken at the beginning.
Fields == {"kind", "coll", "width", "lim", "cnt", "at", "bound", "acting", "over", "acc"}
Step == IF iter.kind \in {"loop", "fold"} THEN 1 ELSE iter.width
Pair == [key : Int, item : Int]

Counts ==
    /\ iter = [f \in Fields |-> iter[f]]
    /\ iter.kind \in Kinds /\ iter.coll \in Blocks /\ iter.width \in Nat \ {0}
    /\ iter.cnt \in Nat /\ iter.at \in Nat /\ iter.acting \in BOOLEAN /\ iter.over \in BOOLEAN
    /\ iter.cnt <= Len(block[iter.coll].items)
    /\ iter.at < iter.cnt + iter.width
Collects ==
    /\ iter.kind \in {"map", "select", "collect"} =>
          iter.acc \in Seq(Int) /\ Len(iter.acc) <= iter.at /\ iter.at <= iter.cnt
    /\ iter.kind = "arrange" =>
          iter.acc \in Seq(Pair) /\ Len(iter.acc) <= iter.at /\ iter.at <= iter.cnt
Acts ==
    iter.acting => /\ iter.at + Step <= iter.cnt
                   /\ iter.bound \in Seq(Int) /\ Len(iter.bound) = iter.width
Iterates == Counts /\ Collects /\ Acts

IInv ==
    /\ Bodies
    /\ iter # None => Iterates
    /\ ops \in 0..MaxOps /\ touched \in BOOLEAN

-----------------------------------------------------------------------------
(* Induction and loops                                                     *)

\* A set of numbers has a least one.
LEMMA HasLeast ==
    ASSUME NEW T \in SUBSET Nat, T # {}
    PROVE  \E x \in T : \A y \in T : x <= y
<1>1. PICK x \in T : \A y \in T : ~(<<y, x>> \in OpToRel(<, Nat))
  BY NatLessThanWellFounded, WFMin
<1>2. \A y \in T : y \in Nat /\ x \in Nat
  OBVIOUS
<1>3. \A y \in T : ~(y < x)
  BY <1>1, <1>2 DEF OpToRel
<1> QED BY <1>3

\* Induction over the numbers up to a bound, for the set of those a claim holds of.
LEMMA Induct ==
    ASSUME NEW n \in Nat, NEW T, 0 \in T, \A i \in 0..(n - 1) : i \in T => i + 1 \in T
    PROVE  n \in T /\ \A i \in 0..n : i \in T
<1> DEFINE U == {i \in 0..n : i \notin T}
<1>1. SUFFICES ASSUME U # {} PROVE FALSE
  <2>1. n \in 0..n
    OBVIOUS
  <2> QED BY <2>1
<1>2. U \in SUBSET Nat
  OBVIOUS
<1>3. PICK m \in U : \A x \in U : m <= x
  <2> HIDE DEF U
  <2> QED BY <1>1, <1>2, HasLeast
<1>4. m \in 0..n /\ m \notin T /\ m # 0
  OBVIOUS
<1>5. m - 1 \in 0..(n - 1) /\ (m - 1) + 1 = m
  BY <1>4
<1>6. m - 1 \notin U
  <2> HIDE DEF U
  <2> QED BY <1>3, <1>4, <1>5
<1>7. m - 1 \in T
  BY <1>5, <1>6
<1> QED BY <1>4, <1>5, <1>7

\* f is a loop of n rounds that begins with a and has g for a body.
Loops(f, n, a, g) ==
    f = [i \in 0..n |-> IF i = 0 THEN a ELSE g[<<i, f[i - 1]>>]]

\* Round by round there is one, and P holds of it if every round keeps it.
LEMMA LoopExists ==
    ASSUME NEW n \in Nat, NEW P, NEW a, NEW g, a \in P[0],
           \A i \in 1..n : \A x \in P[i - 1] : g[<<i, x>>] \in P[i]
    PROVE  \E f : Loops(f, n, a, g) /\ \A i \in 0..n : f[i] \in P[i]
<1> DEFINE Good(f, m) == Loops(f, m, a, g) /\ \A i \in 0..m : f[i] \in P[i]
           T == {m \in 0..n : \E f : Good(f, m)}
<1>1. 0 \in T
  <2> DEFINE f == [i \in 0..0 |-> a]
  <2>1. f[0] = a /\ f = [i \in 0..0 |-> IF i = 0 THEN a ELSE g[<<i, f[i - 1]>>]]
    OBVIOUS
  <2> HIDE DEF f
  <2>2. Good(f, 0)
    BY <2>1 DEF Loops
  <2> QED BY <2>2
<1>2. ASSUME NEW m \in 0..(n - 1), m \in T PROVE m + 1 \in T
  <2>1. PICK f : Good(f, m)
    BY <1>2
  <2> DEFINE h == [i \in 0..(m + 1) |-> IF i = m + 1 THEN g[<<m + 1, f[m]>>] ELSE f[i]]
  <2>2. /\ \A i \in 0..m : h[i] = f[i]
        /\ h[m + 1] = g[<<m + 1, f[m]>>]
        /\ h = [i \in 0..(m + 1) |-> h[i]]
    OBVIOUS
  <2> HIDE DEF h
  <2>3. m \in 0..m /\ m + 1 \in 1..n /\ (m + 1) - 1 = m /\ m + 1 \in 0..n
    OBVIOUS
  <2>4. h[m + 1] \in P[m + 1]
    BY <2>1, <2>2, <2>3
  <2>5. \A i \in 0..(m + 1) : h[i] \in P[i]
    <3>1. \A i \in 0..(m + 1) : i \in 0..m \/ i = m + 1
      OBVIOUS
    <3> QED BY <2>1, <2>2, <2>4, <3>1
  <2>6. \A i \in 0..(m + 1) : h[i] = IF i = 0 THEN a ELSE g[<<i, h[i - 1]>>]
    <3> TAKE i \in 0..(m + 1)
    <3>1. CASE i = m + 1
      <4>1. i # 0 /\ i - 1 = m
        BY <3>1
      <4> QED BY <2>2, <2>3, <3>1, <4>1
    <3>2. CASE i = 0
      <4>1. 0 \in 0..m
        OBVIOUS
      <4>2. f[0] = a
        BY <2>1, <4>1 DEF Loops
      <4> QED BY <2>2, <3>2, <4>1, <4>2
    <3>3. CASE i \in 1..m
      <4>1. i \in 0..m /\ i - 1 \in 0..m /\ i # 0
        BY <3>3
      <4>2. f[i] = g[<<i, f[i - 1]>>]
        BY <2>1, <4>1 DEF Loops
      <4> QED BY <2>2, <4>1, <4>2
    <3> QED BY <3>1, <3>2, <3>3
  <2>7. Good(h, m + 1)
    BY <2>2, <2>5, <2>6 DEF Loops
  <2> QED BY <2>3, <2>7
<1> HIDE DEF T
<1>3. n \in T
  BY <1>1, <1>2, Induct, Zenon
<1> QED BY <1>3 DEF T

\* So P holds of any.
LEMMA LoopHolds ==
    ASSUME NEW n \in Nat, NEW P, NEW f, f[0] \in P[0],
           \A i \in 1..n : f[i - 1] \in P[i - 1] => f[i] \in P[i]
    PROVE  \A i \in 0..n : f[i] \in P[i]
<1> DEFINE T == {i \in 0..n : f[i] \in P[i]}
<1>1. 0 \in T
  OBVIOUS
<1>2. ASSUME NEW i \in 0..(n - 1), i \in T PROVE i + 1 \in T
  <2>1. i + 1 \in 1..n /\ (i + 1) - 1 = i
    OBVIOUS
  <2> QED BY <1>2, <2>1
<1> HIDE DEF T
<1>3. \A i \in 0..n : i \in T
  BY <1>1, <1>2, Induct, Zenon
<1> QED BY <1>3 DEF T

-----------------------------------------------------------------------------
(* Sequences of cells                                                      *)

\* A part of a sequence.
LEMMA PartIs ==
    ASSUME NEW S, NEW s \in Seq(S), NEW i \in 1..(Len(s) + 1), NEW j \in (i - 1)..Len(s)
    PROVE  /\ SubSeq(s, i, j) \in Seq(S) /\ Len(SubSeq(s, i, j)) = j - i + 1
           /\ \A k \in 1..(j - i + 1) : SubSeq(s, i, j)[k] = s[i + k - 1]
<1>1. \A k \in i..j : k \in 1..Len(s) /\ s[k] \in S
  OBVIOUS
<1> DEFINE m == j - i + 1
           t == [k \in 1..m |-> s[i + k - 1]]
<1>2. m \in Nat /\ i \in Nat /\ j \in Nat /\ \A k \in 1..m : i + k - 1 \in i..j
  OBVIOUS
<1>3. \A k \in 1..m : t[k] = s[i + k - 1] /\ t[k] \in S
  BY <1>1, <1>2
<1>4. t \in Seq(S) /\ Len(t) = m
  <2> HIDE DEF m
  <2> QED BY <1>2, <1>3
<1>5. SubSeq(s, i, j) = t
  BY <1>2
<1> HIDE DEF t
<1> QED BY <1>3, <1>4, <1>5

LEMMA HeadIs ==
    ASSUME NEW S, NEW s \in Seq(S), NEW n \in 0..Len(s)
    PROVE  SubSeq(s, 1, n) \in Seq(S) /\ Len(SubSeq(s, 1, n)) = n /\ \A k \in 1..n : SubSeq(s, 1, n)[k] = s[k]
<1>1. 1 \in 1..(Len(s) + 1) /\ n \in (1 - 1)..Len(s)
  OBVIOUS
<1>2. /\ SubSeq(s, 1, n) \in Seq(S) /\ Len(SubSeq(s, 1, n)) = n - 1 + 1
      /\ \A k \in 1..(n - 1 + 1) : SubSeq(s, 1, n)[k] = s[1 + k - 1]
  BY <1>1, PartIs
<1>3. n - 1 + 1 = n /\ \A k \in 1..n : 1 + k - 1 = k
  OBVIOUS
<1> QED BY <1>2, <1>3

\* A sequence behind another.
LEMMA JoinIs ==
    ASSUME NEW S, NEW s \in Seq(S), NEW t \in Seq(S)
    PROVE  /\ s \o t \in Seq(S) /\ Len(s \o t) = Len(s) + Len(t)
           /\ \A i \in 1..Len(s) : (s \o t)[i] = s[i]
           /\ \A i \in 1..Len(t) : (s \o t)[Len(s) + i] = t[i]
           /\ \A i \in 1..(Len(s) + Len(t)) : i \in 1..Len(s) \/ (i - Len(s) \in 1..Len(t) /\ i = Len(s) + (i - Len(s)))
  OBVIOUS

\* Two without a common cell are distinct one behind the other.
LEMMA JoinDistinct ==
    ASSUME NEW S, NEW s \in Seq(S), NEW t \in Seq(S), Distinct(s), Distinct(t),
           \A i \in 1..Len(s), j \in 1..Len(t) : s[i] # t[j]
    PROVE  Distinct(s \o t)
<1> DEFINE u == s \o t
           m == Len(s)
           n == Len(t)
<1>1. /\ Len(u) = m + n /\ m \in Nat /\ n \in Nat
      /\ \A i \in 1..m : u[i] = s[i]
      /\ \A i \in 1..n : u[m + i] = t[i]
      /\ \A i \in 1..(m + n) : i \in 1..m \/ (i - m \in 1..n /\ i = m + (i - m))
  BY JoinIs
<1>2. /\ \A i, j \in 1..m : s[i] = s[j] => i = j
      /\ \A i, j \in 1..n : t[i] = t[j] => i = j
      /\ \A i \in 1..m, j \in 1..n : s[i] # t[j]
  BY DEF Distinct
<1> HIDE DEF u, m, n
<1>3. ASSUME NEW i \in 1..(m + n), NEW j \in 1..(m + n), u[i] = u[j] PROVE i = j
  <2>1. CASE i \in 1..m /\ j \in 1..m
    BY <1>1, <1>2, <1>3, <2>1
  <2>2. CASE i \in 1..m /\ j - m \in 1..n /\ j = m + (j - m)
    <3>1. u[j] = t[j - m] /\ u[i] = s[i]
      BY <1>1, <2>2
    <3> QED BY <1>2, <1>3, <2>2, <3>1
  <2>3. CASE j \in 1..m /\ i - m \in 1..n /\ i = m + (i - m)
    <3>1. u[i] = t[i - m] /\ u[j] = s[j]
      BY <1>1, <2>3
    <3> QED BY <1>2, <1>3, <2>3, <3>1
  <2>4. CASE i - m \in 1..n /\ i = m + (i - m) /\ j - m \in 1..n /\ j = m + (j - m)
    <3>1. u[i] = t[i - m] /\ u[j] = t[j - m]
      BY <1>1, <2>4
    <3>2. i - m = j - m
      BY <1>2, <1>3, <2>4, <3>1
    <3> QED BY <1>1, <3>2
  <2> QED BY <1>1, <2>1, <2>2, <2>3, <2>4
<1> QED BY <1>1, <1>3 DEF Distinct, u

\* A part of a sequence of distinct cells.
LEMMA PartDistinct ==
    ASSUME NEW S, NEW s \in Seq(S), Distinct(s), NEW i \in 1..(Len(s) + 1), NEW j \in (i - 1)..Len(s)
    PROVE  Distinct(SubSeq(s, i, j))
<1> DEFINE t == SubSeq(s, i, j)
           m == j - i + 1
<1>1. Len(t) = m /\ m \in Nat /\ \A k \in 1..m : t[k] = s[i + k - 1] /\ i + k - 1 \in 1..Len(s)
  BY PartIs
<1> HIDE DEF t, m
<1>2. ASSUME NEW k \in 1..m, NEW l \in 1..m, t[k] = t[l] PROVE k = l
  <2> DEFINE x == i + k - 1
             y == i + l - 1
  <2>1. x \in 1..Len(s) /\ y \in 1..Len(s) /\ s[x] = s[y]
    BY <1>1, <1>2
  <2>2. x = y
    <3> HIDE DEF x, y
    <3> QED BY <2>1 DEF Distinct
  <2> QED BY <1>1, <2>2
<1> QED BY <1>1, <1>2 DEF Distinct, t

\* One cell more than there were.
LEMMA MoreDistinct ==
    ASSUME NEW S, NEW s \in Seq(S), Distinct(s), NEW x \in S, \A i \in 1..Len(s) : s[i] # x
    PROVE  Append(s, x) \in Seq(S) /\ Len(Append(s, x)) = Len(s) + 1 /\ Distinct(Append(s, x))
           /\ \A i \in 1..(Len(s) + 1) : Append(s, x)[i] = x \/ \E j \in 1..Len(s) : Append(s, x)[i] = s[j]
<1> DEFINE t == Append(s, x)
           n == Len(s)
<1>1. /\ t \in Seq(S) /\ Len(t) = n + 1 /\ n \in Nat /\ t[n + 1] = x
      /\ \A i \in 1..n : t[i] = s[i]
      /\ \A i \in 1..(n + 1) : i \in 1..n \/ i = n + 1
  OBVIOUS
<1>2. \A i, j \in 1..n : s[i] = s[j] => i = j
  BY DEF Distinct
<1> HIDE DEF t, n
<1>3. \A i, j \in 1..(n + 1) : t[i] = t[j] => i = j
  BY <1>1, <1>2 DEF n
<1> QED BY <1>1, <1>3 DEF Distinct, t, n

-----------------------------------------------------------------------------
(* What operations leave                                                   *)

\* Some of the cells, in order: whatever the positions, no cell is there twice
\* that was not twice before.
LEMMA AtIs ==
    ASSUME NEW S, NEW cells \in Seq(S), NEW kept
    PROVE  At(cells, kept) \in Seq(S) /\ (Distinct(cells) => Distinct(At(cells, kept)))
<1> DEFINE n == Len(cells)
           E(i, s) == IF i \in kept THEN Append(s, cells[i]) ELSE s
           Good(i, s) == Distinct(cells) =>
               Distinct(s) /\ \A k \in 1..Len(s) : \E x \in 1..i : s[k] = cells[x]
           P == [i \in 0..n |-> {s \in Seq(S) : Good(i, s)}]
           g == [p \in (1..n) \X Seq(S) |-> E(p[1], p[2])]
           Is(f) == f = [i \in 0..n |-> IF i = 0 THEN <<>> ELSE E(i, f[i - 1])]
           u == CHOOSE f : Is(f)
<1>0. n \in Nat /\ \A i \in 1..n : cells[i] \in S /\ i - 1 \in 0..n /\ i \in 0..n
  OBVIOUS
<1>1. <<>> \in Seq(S) /\ Good(0, <<>>)
  BY DEF Distinct
<1>2. ASSUME NEW i \in 1..n, NEW s \in Seq(S), Good(i - 1, s) PROVE E(i, s) \in Seq(S) /\ Good(i, E(i, s))
  <2>0. 1..(i - 1) \subseteq 1..i /\ i \in 1..i
    OBVIOUS
  <2>1. CASE i \notin kept
    BY <1>2, <2>0, <2>1
  <2>2. CASE i \in kept
    <3>1. E(i, s) = Append(s, cells[i]) /\ cells[i] \in S /\ Append(s, cells[i]) \in Seq(S)
      BY <1>0, <2>2
    <3>2. ASSUME Distinct(cells) PROVE Good(i, Append(s, cells[i]))
      <4>1. Distinct(s) /\ \A k \in 1..Len(s) : \E x \in 1..(i - 1) : s[k] = cells[x]
        BY <1>2, <3>2
      <4>2. \A k \in 1..Len(s) : s[k] # cells[i]
        <5>1. \A x \in 1..(i - 1) : x \in 1..n /\ x # i /\ i \in 1..n
          OBVIOUS
        <5>2. \A x \in 1..(i - 1) : cells[x] # cells[i]
          BY <3>2, <5>1 DEF Distinct
        <5> QED BY <4>1, <5>2
      <4>3. /\ Distinct(Append(s, cells[i])) /\ Len(Append(s, cells[i])) = Len(s) + 1
            /\ \A k \in 1..(Len(s) + 1) : Append(s, cells[i])[k] = cells[i]
                                          \/ \E j \in 1..Len(s) : Append(s, cells[i])[k] = s[j]
        BY <3>1, <4>1, <4>2, MoreDistinct
      <4> QED BY <2>0, <4>1, <4>3
    <3> QED BY <3>1, <3>2
  <2> QED BY <2>1, <2>2
<1> HIDE DEF Good
<1>3. \E f : Is(f)
  <2>1. <<>> \in P[0] /\ \A i \in 1..n : \A s \in P[i - 1] : s \in Seq(S) /\ g[<<i, s>>] = E(i, s)
    BY <1>0, <1>1
  <2>2. \A i \in 1..n : \A s \in P[i - 1] : E(i, s) \in P[i]
    BY <1>0, <1>2
  <2>3. \A i \in 1..n : \A s \in P[i - 1] : g[<<i, s>>] \in P[i]
    BY <2>1, <2>2
  <2> HIDE DEF P, g, E
  <2>4. PICK f : Loops(f, n, <<>>, g) /\ \A i \in 0..n : f[i] \in P[i]
    BY <1>0, <2>1, <2>3, LoopExists
  <2>5. \A i \in 1..n : g[<<i, f[i - 1]>>] = E(i, f[i - 1])
    BY <1>0, <2>1, <2>4
  <2>6. \A i \in 0..n : (IF i = 0 THEN <<>> ELSE g[<<i, f[i - 1]>>])
                          = (IF i = 0 THEN <<>> ELSE E(i, f[i - 1]))
    <3>1. \A i \in 0..n : i = 0 \/ i \in 1..n
      BY <1>0
    <3> QED BY <2>5, <3>1
  <2>7. f = [i \in 0..n |-> IF i = 0 THEN <<>> ELSE g[<<i, f[i - 1]>>]]
    BY <2>4 DEF Loops
  <2>8. Is(f)
    BY <2>6, <2>7
  <2> QED BY <2>8
<1>4. u = [i \in 0..n |-> IF i = 0 THEN <<>> ELSE E(i, u[i - 1])]
  <2> HIDE DEF E
  <2> QED BY <1>3
<1>5. At(cells, kept) = u[n]
  BY DEF At
<1> HIDE DEF u
<1>6. \A i \in 0..n : u[i] \in P[i]
  <2>1. u[0] = <<>> /\ \A i \in 1..n : u[i] = E(i, u[i - 1])
    <3> HIDE DEF E
    <3> QED BY <1>0, <1>4
  <2>2. u[0] \in P[0] /\ \A i \in 1..n : u[i - 1] \in P[i - 1] => u[i] \in P[i]
    <3> HIDE DEF E
    <3> QED BY <1>0, <1>1, <1>2, <2>1
  <2> HIDE DEF P, E
  <2> QED BY <1>0, <2>2, LoopHolds
<1>7. u[n] \in Seq(S) /\ Good(n, u[n])
  BY <1>0, <1>6
<1> QED BY <1>5, <1>7 DEF Good

\* An array grows to what is needed.
LEMMA GrownIs ==
    ASSUME NEW cap \in Nat, NEW need \in Nat
    PROVE  Grown(cap, need) \in Nat /\ Grown(cap, need) >= cap /\ Grown(cap, need) >= need
<1> DEFINE n == need
           c0 == IF cap = 0 THEN 4 ELSE cap
           E(c) == IF c >= need THEN c ELSE 2 * c
           Good(i, c) == c >= need \/ c >= i + 1
           P == [i \in 0..n |-> {c \in Nat : Good(i, c)}]
           g == [p \in (1..n) \X Nat |-> E(p[2])]
           Is(f) == f = [i \in 0..n |-> IF i = 0 THEN c0 ELSE E(f[i - 1])]
           u == CHOOSE f : Is(f)
<1>0. n \in Nat /\ \A i \in 1..n : i - 1 \in 0..n /\ i \in 0..n
  OBVIOUS
<1>1. c0 \in Nat /\ Good(0, c0)
  OBVIOUS
<1>2. ASSUME NEW i \in 1..n, NEW s \in Nat, Good(i - 1, s) PROVE E(s) \in Nat /\ Good(i, E(s))
  BY <1>2
<1> HIDE DEF Good, c0
<1>3. \E f : Is(f)
  <2>1. c0 \in P[0] /\ \A i \in 1..n : \A s \in P[i - 1] : s \in Nat /\ g[<<i, s>>] = E(s)
    BY <1>0, <1>1
  <2>2. \A i \in 1..n : \A s \in P[i - 1] : E(s) \in P[i]
    BY <1>0, <1>2
  <2>3. \A i \in 1..n : \A s \in P[i - 1] : g[<<i, s>>] \in P[i]
    BY <2>1, <2>2
  <2> HIDE DEF P, g, E, c0
  <2>4. PICK f : Loops(f, n, c0, g) /\ \A i \in 0..n : f[i] \in P[i]
    BY <1>0, <2>1, <2>3, LoopExists
  <2>5. \A i \in 1..n : g[<<i, f[i - 1]>>] = E(f[i - 1])
    BY <1>0, <2>1, <2>4
  <2>6. \A i \in 0..n : (IF i = 0 THEN c0 ELSE g[<<i, f[i - 1]>>])
                          = (IF i = 0 THEN c0 ELSE E(f[i - 1]))
    <3>1. \A i \in 0..n : i = 0 \/ i \in 1..n
      BY <1>0
    <3> QED BY <2>5, <3>1
  <2>7. f = [i \in 0..n |-> IF i = 0 THEN c0 ELSE g[<<i, f[i - 1]>>]]
    BY <2>4 DEF Loops
  <2>8. Is(f)
    BY <2>6, <2>7
  <2> QED BY <2>8
<1>4. u = [i \in 0..n |-> IF i = 0 THEN c0 ELSE E(u[i - 1])]
  <2> HIDE DEF E, c0
  <2> QED BY <1>3
<1>5. Grown(cap, need) = IF cap >= need THEN cap ELSE u[n]
  BY DEF Grown, c0
<1> HIDE DEF u
<1>6. \A i \in 0..n : u[i] \in P[i]
  <2>1. u[0] = c0 /\ \A i \in 1..n : u[i] = E(u[i - 1])
    <3> HIDE DEF E, c0
    <3> QED BY <1>0, <1>4
  <2>2. u[0] \in P[0] /\ \A i \in 1..n : u[i - 1] \in P[i - 1] => u[i] \in P[i]
    <3> HIDE DEF E, c0
    <3> QED BY <1>0, <1>1, <1>2, <2>1
  <2> HIDE DEF P, E, c0
  <2> QED BY <1>0, <2>2, LoopHolds
<1>7. u[n] \in Nat /\ u[n] >= need
  <2>1. u[n] \in Nat /\ Good(n, u[n])
    BY <1>0, <1>6
  <2> QED BY <2>1 DEF Good
<1> QED BY <1>5, <1>7

\* Two runs are merged: whatever the comparison says, the cells are some of theirs,
\* and none is there twice.
LEMMA MergeIs ==
    ASSUME NEW S, NEW cells \in Seq(S), Distinct(cells), NEW hi \in 0..Len(cells),
           NEW mid \in 0..hi, NEW lo \in 0..mid
    PROVE  LET out == Merge(cells, lo, mid, hi) IN
           out \in Seq(S) /\ Distinct(out) /\ \A k \in 1..Len(out) : \E x \in (lo + 1)..hi : out[k] = cells[x]
<1> DEFINE n == hi - lo
           a == [out |-> <<>>, i |-> lo + 1, j |-> mid + 1]
           R == [out : Seq(S), i : Nat, j : Nat]
           Right(s) == s.i > mid \/ (s.j <= hi /\ TakesRight(cells[s.i], cells[s.j]))
           E(s) == IF Right(s)
                   THEN [out |-> Append(s.out, cells[s.j]), i |-> s.i, j |-> s.j + 1]
                   ELSE [out |-> Append(s.out, cells[s.i]), i |-> s.i + 1, j |-> s.j]
           Taken(s) == {x \in (lo + 1)..hi : x < s.i \/ (mid < x /\ x < s.j)}
           Good(k, s) == /\ s.i \in (lo + 1)..(mid + 1) /\ s.j \in (mid + 1)..(hi + 1)
                         /\ s.i + s.j = lo + mid + 2 + k
                         /\ Distinct(s.out)
                         /\ \A y \in 1..Len(s.out) : \E x \in Taken(s) : s.out[y] = cells[x]
           P == [k \in 0..n |-> {s \in R : Good(k, s)}]
           g == [p \in (1..n) \X R |-> E(p[2])]
           Is(f) == f = [k \in 0..n |-> IF k = 0 THEN a ELSE E(f[k - 1])]
           u == CHOOSE f : Is(f)
<1>0. /\ n \in Nat /\ \A i \in 1..n : i - 1 \in 0..n /\ i \in 0..n
      /\ lo \in Nat /\ mid \in Nat /\ hi \in Nat /\ lo <= mid /\ mid <= hi /\ hi <= Len(cells)
  OBVIOUS
<1>1. a \in R /\ Good(0, a)
  <2>1. Distinct(<<>>) /\ Len(<<>>) = 0 /\ <<>> \in Seq(S)
    BY DEF Distinct
  <2> QED BY <2>1
<1>t. ASSUME NEW s \in R, NEW k \in 1..n, Good(k - 1, s), NEW z \in (lo + 1)..hi, z \notin Taken(s),
             NEW t \in R, t.out = Append(s.out, cells[z]), Taken(t) = Taken(s) \cup {z}
      PROVE  Distinct(t.out) /\ \A y \in 1..Len(t.out) : \E x \in Taken(t) : t.out[y] = cells[x]
  <2>1. s.out \in Seq(S) /\ Distinct(s.out) /\ \A y \in 1..Len(s.out) : \E x \in Taken(s) : s.out[y] = cells[x]
    BY <1>t
  <2>2. z \in 1..Len(cells) /\ cells[z] \in S /\ Taken(s) \subseteq 1..Len(cells)
    OBVIOUS
  <2> HIDE DEF Taken
  <2>3. \A x \in Taken(s) : cells[x] # cells[z]
    BY <1>t, <2>2 DEF Distinct
  <2>4. \A y \in 1..Len(s.out) : s.out[y] # cells[z]
    BY <2>1, <2>3
  <2> DEFINE c == cells[z]
             o == s.out
             r == Append(o, c)
  <2>5. c \in S /\ o \in Seq(S) /\ Distinct(o) /\ \A y \in 1..Len(o) : o[y] # c
    BY <2>1, <2>2, <2>4
  <2> HIDE DEF c, o
  <2>6. /\ Distinct(r) /\ Len(r) = Len(o) + 1
        /\ \A y \in 1..(Len(o) + 1) : r[y] = c \/ \E w \in 1..Len(o) : r[y] = o[w]
    BY <2>5, MoreDistinct
  <2>7. t.out = r
    BY <1>t DEF c, o
  <2> HIDE DEF r
  <2>8. /\ Distinct(t.out) /\ Len(t.out) = Len(s.out) + 1
        /\ \A y \in 1..(Len(s.out) + 1) : t.out[y] = cells[z] \/ \E w \in 1..Len(s.out) : t.out[y] = s.out[w]
    BY <2>6, <2>7 DEF c, o
  <2>9. z \in Taken(t) /\ \A x \in Taken(s) : x \in Taken(t)
    BY <1>t
  <2> QED BY <2>1, <2>8, <2>9
<1>2. ASSUME NEW k \in 1..n, NEW s \in R, Good(k - 1, s) PROVE E(s) \in R /\ Good(k, E(s))
  <2>0. /\ s.i \in (lo + 1)..(mid + 1) /\ s.j \in (mid + 1)..(hi + 1) /\ s.i + s.j = lo + mid + 2 + (k - 1)
        /\ s.i \in Nat /\ s.j \in Nat /\ s.out \in Seq(S) /\ k \in Nat
    BY <1>2
  <2>1. CASE Right(s)
    <3> DEFINE t == [out |-> Append(s.out, cells[s.j]), i |-> s.i, j |-> s.j + 1]
    <3>1. E(s) = t
      BY <2>1
    <3>2. s.j \in (mid + 1)..hi
      <4>1. s.i > mid \/ s.j <= hi
        BY <2>1
      <4> QED BY <2>0, <4>1
    <3>3. cells[s.j] \in S
      BY <3>2
    <3>4. t \in R /\ t.out = Append(s.out, cells[s.j]) /\ t.i = s.i /\ t.j = s.j + 1
      <4>1. Append(s.out, cells[s.j]) \in Seq(S) /\ s.j + 1 \in Nat
        BY <2>0, <3>3
      <4> QED BY <2>0, <4>1
    <3> HIDE DEF t, E
    <3>5. Taken(t) = Taken(s) \cup {s.j} /\ s.j \notin Taken(s) /\ s.j \in (lo + 1)..hi
      <4>1. t.i = s.i /\ t.j = s.j + 1
        BY <3>4
      <4>2. s.i \in Nat /\ s.j \in Nat /\ s.i <= mid + 1 /\ s.i >= lo + 1 /\ s.j >= mid + 1 /\ s.j <= hi + 1
        BY <1>0, <2>0
      <4> HIDE DEF Good, R
      <4>3. s.j \in (lo + 1)..hi /\ s.j \notin Taken(s)
        BY <1>0, <3>2, <4>2
      <4>4. \A x \in (lo + 1)..hi : (x < t.i \/ (mid < x /\ x < t.j)) <=> (x < s.i \/ (mid < x /\ x < s.j) \/ x = s.j)
        BY <1>0, <3>2, <4>1, <4>2
      <4> QED BY <4>3, <4>4
    <3>6. Distinct(t.out) /\ \A y \in 1..Len(t.out) : \E x \in Taken(t) : t.out[y] = cells[x]
      <4> HIDE DEF Good, Taken, R
      <4> QED BY <1>2, <1>t, <3>4, <3>5
    <3>7. t.i \in (lo + 1)..(mid + 1) /\ t.j \in (mid + 1)..(hi + 1) /\ t.i + t.j = lo + mid + 2 + k
      <4> HIDE DEF Good, Taken, R
      <4>0. t.i = s.i /\ t.j = s.j + 1 /\ s.i \in Nat /\ s.j \in Nat
        BY <2>0, <3>4
      <4>1. t.i \in Nat /\ t.j \in Nat /\ t.i + t.j = s.i + s.j + 1
        <5> HIDE DEF Right
        <5> QED BY <4>0
      <4>2. t.i + t.j = lo + mid + 2 + k
        BY <1>0, <2>0, <4>1
      <4>3. t.i \in (lo + 1)..(mid + 1) /\ t.j \in (mid + 1)..(hi + 1)
        BY <1>0, <2>0, <3>2, <3>4
      <4> QED BY <4>2, <4>3
    <3> QED BY <3>1, <3>4, <3>6, <3>7
  <2>2. CASE ~Right(s)
    <3> DEFINE t == [out |-> Append(s.out, cells[s.i]), i |-> s.i + 1, j |-> s.j]
    <3>1. E(s) = t
      BY <2>2
    <3>2. s.i \in (lo + 1)..mid
      <4>1. ~(s.i > mid)
        BY <2>2
      <4> QED BY <2>0, <4>1
    <3>3. cells[s.i] \in S
      BY <3>2
    <3>4. t \in R /\ t.out = Append(s.out, cells[s.i]) /\ t.i = s.i + 1 /\ t.j = s.j
      <4>1. Append(s.out, cells[s.i]) \in Seq(S) /\ s.i + 1 \in Nat
        BY <2>0, <3>3
      <4> QED BY <2>0, <4>1
    <3> HIDE DEF t, E
    <3>5. Taken(t) = Taken(s) \cup {s.i} /\ s.i \notin Taken(s) /\ s.i \in (lo + 1)..hi
      <4>1. t.i = s.i + 1 /\ t.j = s.j
        BY <3>4
      <4>2. s.i \in Nat /\ s.j \in Nat /\ s.i <= mid + 1 /\ s.i >= lo + 1 /\ s.j >= mid + 1 /\ s.j <= hi + 1
        BY <1>0, <2>0
      <4> HIDE DEF Good, R
      <4>3. s.i \in (lo + 1)..hi /\ s.i \notin Taken(s)
        BY <1>0, <3>2, <4>2
      <4>4. \A x \in (lo + 1)..hi : (x < t.i \/ (mid < x /\ x < t.j)) <=> (x < s.i \/ (mid < x /\ x < s.j) \/ x = s.i)
        BY <1>0, <3>2, <4>1, <4>2
      <4> QED BY <4>3, <4>4
    <3>6. Distinct(t.out) /\ \A y \in 1..Len(t.out) : \E x \in Taken(t) : t.out[y] = cells[x]
      <4> HIDE DEF Good, Taken, R
      <4> QED BY <1>2, <1>t, <3>4, <3>5
    <3>7. t.i \in (lo + 1)..(mid + 1) /\ t.j \in (mid + 1)..(hi + 1) /\ t.i + t.j = lo + mid + 2 + k
      <4> HIDE DEF Good, Taken, R
      <4>0. t.i = s.i + 1 /\ t.j = s.j /\ s.i \in Nat /\ s.j \in Nat
        BY <2>0, <3>4
      <4>1. t.i \in Nat /\ t.j \in Nat /\ t.i + t.j = s.i + s.j + 1
        <5>1. \A x, y \in Nat : (x + 1) + y = x + y + 1 /\ x + 1 \in Nat
          OBVIOUS
        <5> HIDE DEF Right
        <5> QED BY <4>0, <5>1
      <4>2. t.i + t.j = lo + mid + 2 + k
        BY <1>0, <2>0, <4>1
      <4>3. t.i \in (lo + 1)..(mid + 1) /\ t.j \in (mid + 1)..(hi + 1)
        BY <1>0, <2>0, <3>2, <3>4, SMTT(30)
      <4> QED BY <4>2, <4>3
    <3> QED BY <3>1, <3>4, <3>6, <3>7
  <2> QED BY <2>1, <2>2
<1> HIDE DEF Good, a, R, E
<1>3. \E f : Is(f)
  <2>1. a \in P[0] /\ \A i \in 1..n : \A s \in P[i - 1] : s \in R /\ g[<<i, s>>] = E(s)
    BY <1>0, <1>1
  <2>2. \A i \in 1..n : \A s \in P[i - 1] : E(s) \in P[i]
    BY <1>0, <1>2
  <2>3. \A i \in 1..n : \A s \in P[i - 1] : g[<<i, s>>] \in P[i]
    BY <2>1, <2>2
  <2> HIDE DEF P, g, E, a, R
  <2>4. PICK f : Loops(f, n, a, g) /\ \A i \in 0..n : f[i] \in P[i]
    BY <1>0, <2>1, <2>3, LoopExists
  <2>5. \A i \in 1..n : g[<<i, f[i - 1]>>] = E(f[i - 1])
    BY <1>0, <2>1, <2>4
  <2>6. \A i \in 0..n : (IF i = 0 THEN a ELSE g[<<i, f[i - 1]>>])
                          = (IF i = 0 THEN a ELSE E(f[i - 1]))
    <3>1. \A i \in 0..n : i = 0 \/ i \in 1..n
      BY <1>0
    <3> QED BY <2>5, <3>1
  <2>7. f = [i \in 0..n |-> IF i = 0 THEN a ELSE g[<<i, f[i - 1]>>]]
    BY <2>4 DEF Loops
  <2>8. Is(f)
    BY <2>6, <2>7
  <2> QED BY <2>8
<1>4. u = [i \in 0..n |-> IF i = 0 THEN a ELSE E(u[i - 1])]
  <2> HIDE DEF E, a, R
  <2> QED BY <1>3
<1>5. Merge(cells, lo, mid, hi) = u[n].out
  BY DEF Merge, a, E
<1> HIDE DEF u
<1>6. \A i \in 0..n : u[i] \in P[i]
  <2>1. u[0] = a /\ \A i \in 1..n : u[i] = E(u[i - 1])
    <3> HIDE DEF E, a, R
    <3> QED BY <1>0, <1>4
  <2>2. u[0] \in P[0] /\ \A i \in 1..n : u[i - 1] \in P[i - 1] => u[i] \in P[i]
    <3> HIDE DEF E, a, R
    <3> QED BY <1>0, <1>1, <1>2, <2>1
  <2> HIDE DEF P, E, a, R
  <2> QED BY <1>0, <2>2, LoopHolds
<1>7. u[n] \in R /\ Good(n, u[n])
  BY <1>0, <1>6
<1>8. u[n].out \in Seq(S) /\ Distinct(u[n].out)
      /\ \A y \in 1..Len(u[n].out) : \E x \in (lo + 1)..hi : u[n].out[y] = cells[x]
  BY <1>7 DEF Good, R
<1> QED BY <1>5, <1>8

\* A pass merges the runs of a width, from left to right.
LEMMA PassIs ==
    ASSUME NEW S, NEW cells \in Seq(S), Distinct(cells), NEW width \in Nat
    PROVE  Pass(cells, width) \in Seq(S) /\ Distinct(Pass(cells, width))
<1> DEFINE n == Len(cells)
           a == [out |-> <<>>, lo |-> 0]
           R == [out : Seq(S), lo : 0..n]
           E(s) == LET hi == Least(s.lo + 2 * width, n)
                   IN  IF s.lo >= n THEN s
                       ELSE [out |-> s.out \o Merge(cells, s.lo, Least(s.lo + width, n), hi), lo |-> hi]
           Good(s) == Distinct(s.out) /\ \A y \in 1..Len(s.out) : \E x \in 1..s.lo : s.out[y] = cells[x]
           P == [k \in 0..n |-> {s \in R : Good(s)}]
           g == [p \in (1..n) \X R |-> E(p[2])]
           Is(f) == f = [k \in 0..n |-> IF k = 0 THEN a ELSE E(f[k - 1])]
           u == CHOOSE f : Is(f)
<1>0. n \in Nat /\ \A i \in 1..n : i - 1 \in 0..n /\ i \in 0..n
  OBVIOUS
<1>1. a \in R /\ Good(a)
  <2>1. Distinct(<<>>) /\ Len(<<>>) = 0 /\ <<>> \in Seq(S)
    BY DEF Distinct
  <2> QED BY <2>1
<1>2. ASSUME NEW k \in 1..n, NEW s \in R, Good(s) PROVE E(s) \in R /\ Good(E(s))
  <2>1. CASE s.lo >= n
    BY <1>2, <2>1
  <2>2. CASE ~(s.lo >= n)
    <3> DEFINE lo == s.lo
               mid == Least(lo + width, n)
               hi == Least(lo + 2 * width, n)
               more == Merge(cells, lo, mid, hi)
    <3>1. lo \in 0..n /\ mid \in lo..n /\ hi \in mid..n
      BY <1>0 DEF Least
    <3>2. E(s) = [out |-> s.out \o more, lo |-> hi]
      BY <2>2
    <3> HIDE DEF lo, mid, hi, E
    <3>3. more \in Seq(S) /\ Distinct(more) /\ \A y \in 1..Len(more) : \E x \in (lo + 1)..hi : more[y] = cells[x]
      <4>1. hi \in 0..Len(cells) /\ mid \in 0..hi /\ lo \in 0..mid
        BY <1>0, <3>1
      <4> QED BY <4>1, MergeIs
    <3>4. s.out \in Seq(S) /\ Distinct(s.out) /\ \A y \in 1..Len(s.out) : \E x \in 1..lo : s.out[y] = cells[x]
      BY <1>2 DEF lo
    <3> DEFINE o == s.out
    <3> HIDE DEF more, o, Good, R
    <3>5. \A x \in 1..lo, y \in (lo + 1)..hi : x \in 1..hi /\ y \in 1..hi /\ cells[x] # cells[y]
      <4>1. \A x \in 1..lo, y \in (lo + 1)..hi : x \in 1..n /\ y \in 1..n /\ x # y /\ x \in 1..hi /\ y \in 1..hi
        BY <1>0, <3>1
      <4> QED BY <4>1 DEF Distinct
    <3>6. o \in Seq(S) /\ Distinct(o) /\ \A y \in 1..Len(o) : \E x \in 1..lo : o[y] = cells[x]
      BY <3>4 DEF o
    <3>7. \A i \in 1..Len(o), j \in 1..Len(more) : o[i] # more[j]
      BY <3>3, <3>5, <3>6
    <3>8. Distinct(o \o more)
      BY <3>3, <3>6, <3>7, JoinDistinct
    <3> DEFINE t == o \o more
    <3>9. /\ t \in Seq(S) /\ Len(t) = Len(o) + Len(more)
          /\ \A i \in 1..Len(o) : t[i] = o[i]
          /\ \A i \in 1..Len(more) : t[Len(o) + i] = more[i]
          /\ \A i \in 1..(Len(o) + Len(more)) :
                i \in 1..Len(o) \/ (i - Len(o) \in 1..Len(more) /\ i = Len(o) + (i - Len(o)))
      BY <3>3, <3>6, JoinIs
    <3> HIDE DEF t
    <3>10. \A x \in 1..lo : x \in 1..hi
      BY <3>1, <1>0
    <3>11. \A y \in 1..Len(t) : \E x \in 1..hi : t[y] = cells[x]
      <4> TAKE y \in 1..Len(t)
      <4>1. CASE y \in 1..Len(o)
        BY <3>6, <3>9, <3>10, <4>1
      <4>2. CASE y - Len(o) \in 1..Len(more) /\ y = Len(o) + (y - Len(o))
        <5>1. t[y] = more[y - Len(o)]
          BY <3>9, <4>2
        <5>2. \A x \in (lo + 1)..hi : x \in 1..hi
          BY <3>1, <1>0
        <5> QED BY <3>3, <4>2, <5>1, <5>2
      <4> QED BY <3>9, <4>1, <4>2
    <3>12. hi \in 0..n
      BY <1>0, <3>1
    <3>13. E(s) = [out |-> t, lo |-> hi]
      BY <3>2 DEF t, o
    <3> QED BY <3>8, <3>9, <3>11, <3>12, <3>13 DEF t, Good, R
  <2> QED BY <2>1, <2>2
<1> HIDE DEF Good, a, R, E
<1>3. \E f : Is(f)
  <2>1. a \in P[0] /\ \A i \in 1..n : \A s \in P[i - 1] : s \in R /\ g[<<i, s>>] = E(s)
    BY <1>0, <1>1
  <2>2. \A i \in 1..n : \A s \in P[i - 1] : E(s) \in P[i]
    BY <1>0, <1>2
  <2>3. \A i \in 1..n : \A s \in P[i - 1] : g[<<i, s>>] \in P[i]
    BY <2>1, <2>2
  <2> HIDE DEF P, g, E, a, R
  <2>4. PICK f : Loops(f, n, a, g) /\ \A i \in 0..n : f[i] \in P[i]
    BY <1>0, <2>1, <2>3, LoopExists
  <2>5. \A i \in 1..n : g[<<i, f[i - 1]>>] = E(f[i - 1])
    BY <1>0, <2>1, <2>4
  <2>6. \A i \in 0..n : (IF i = 0 THEN a ELSE g[<<i, f[i - 1]>>])
                          = (IF i = 0 THEN a ELSE E(f[i - 1]))
    <3>1. \A i \in 0..n : i = 0 \/ i \in 1..n
      BY <1>0
    <3> QED BY <2>5, <3>1
  <2>7. f = [i \in 0..n |-> IF i = 0 THEN a ELSE g[<<i, f[i - 1]>>]]
    BY <2>4 DEF Loops
  <2>8. Is(f)
    BY <2>6, <2>7
  <2> QED BY <2>8
<1>4. u = [i \in 0..n |-> IF i = 0 THEN a ELSE E(u[i - 1])]
  <2> HIDE DEF E, a, R
  <2> QED BY <1>3
<1>5. Pass(cells, width) = u[n].out
  BY DEF Pass, a, E
<1> HIDE DEF u
<1>6. \A i \in 0..n : u[i] \in P[i]
  <2>1. u[0] = a /\ \A i \in 1..n : u[i] = E(u[i - 1])
    <3> HIDE DEF E, a, R
    <3> QED BY <1>0, <1>4
  <2>2. u[0] \in P[0] /\ \A i \in 1..n : u[i - 1] \in P[i - 1] => u[i] \in P[i]
    <3> HIDE DEF E, a, R
    <3> QED BY <1>0, <1>1, <1>2, <2>1
  <2> HIDE DEF P, E, a, R
  <2> QED BY <1>0, <2>2, LoopHolds
<1>7. u[n] \in R /\ Good(u[n])
  BY <1>0, <1>6
<1>8. u[n].out \in Seq(S) /\ Distinct(u[n].out)
  BY <1>7 DEF Good, R
<1> QED BY <1>5, <1>8

\* Sorting a block neither makes a cell nor doubles one.
LEMMA SortedIs ==
    ASSUME NEW S, NEW cells \in Seq(S), Distinct(cells)
    PROVE  Sorted(cells) \in Seq(S) /\ Distinct(Sorted(cells))
<1> DEFINE n == Len(cells)
           a == [src |-> cells, width |-> 1]
           R == [src : Seq(S), width : Nat]
           E(s) == IF s.width >= n THEN s ELSE [src |-> Pass(s.src, s.width), width |-> 2 * s.width]
           Good(s) == Distinct(s.src)
           P == [k \in 0..n |-> {s \in R : Good(s)}]
           g == [p \in (1..n) \X R |-> E(p[2])]
           Is(f) == f = [k \in 0..n |-> IF k = 0 THEN a ELSE E(f[k - 1])]
           u == CHOOSE f : Is(f)
<1>0. n \in Nat /\ \A i \in 1..n : i - 1 \in 0..n /\ i \in 0..n
  OBVIOUS
<1>1. a \in R /\ Good(a)
  OBVIOUS
<1>2. ASSUME NEW k \in 1..n, NEW s \in R, Good(s) PROVE E(s) \in R /\ Good(E(s))
  <2>1. s.src \in Seq(S) /\ s.width \in Nat /\ Distinct(s.src)
    BY <1>2
  <2> DEFINE c == s.src
             w == s.width
  <2> HIDE DEF c, w
  <2>2. Pass(c, w) \in Seq(S) /\ Distinct(Pass(c, w)) /\ 2 * w \in Nat
    <3>1. c \in Seq(S) /\ Distinct(c) /\ w \in Nat
      BY <2>1 DEF c, w
    <3>2. 2 * w \in Nat
      BY <3>1
    <3> HIDE DEF R, E
    <3>3. Pass(c, w) \in Seq(S) /\ Distinct(Pass(c, w))
      BY <3>1, PassIs
    <3> QED BY <3>2, <3>3
  <2> QED BY <1>2, <2>2 DEF c, w
<1> HIDE DEF Good, a, R, E
<1>3. \E f : Is(f)
  <2>1. a \in P[0] /\ \A i \in 1..n : \A s \in P[i - 1] : s \in R /\ g[<<i, s>>] = E(s)
    BY <1>0, <1>1
  <2>2. \A i \in 1..n : \A s \in P[i - 1] : E(s) \in P[i]
    BY <1>0, <1>2
  <2>3. \A i \in 1..n : \A s \in P[i - 1] : g[<<i, s>>] \in P[i]
    BY <2>1, <2>2
  <2> HIDE DEF P, g, E, a, R
  <2>4. PICK f : Loops(f, n, a, g) /\ \A i \in 0..n : f[i] \in P[i]
    BY <1>0, <2>1, <2>3, LoopExists
  <2>5. \A i \in 1..n : g[<<i, f[i - 1]>>] = E(f[i - 1])
    BY <1>0, <2>1, <2>4
  <2>6. \A i \in 0..n : (IF i = 0 THEN a ELSE g[<<i, f[i - 1]>>])
                          = (IF i = 0 THEN a ELSE E(f[i - 1]))
    <3>1. \A i \in 0..n : i = 0 \/ i \in 1..n
      BY <1>0
    <3> QED BY <2>5, <3>1
  <2>7. f = [i \in 0..n |-> IF i = 0 THEN a ELSE g[<<i, f[i - 1]>>]]
    BY <2>4 DEF Loops
  <2>8. Is(f)
    BY <2>6, <2>7
  <2> QED BY <2>8
<1>4. u = [i \in 0..n |-> IF i = 0 THEN a ELSE E(u[i - 1])]
  <2> HIDE DEF E, a, R
  <2> QED BY <1>3
<1>5. Sorted(cells) = u[n].src
  BY DEF Sorted, a, E
<1> HIDE DEF u
<1>6. \A i \in 0..n : u[i] \in P[i]
  <2>1. u[0] = a /\ \A i \in 1..n : u[i] = E(u[i - 1])
    <3> HIDE DEF E, a, R
    <3> QED BY <1>0, <1>4
  <2>2. u[0] \in P[0] /\ \A i \in 1..n : u[i - 1] \in P[i - 1] => u[i] \in P[i]
    <3> HIDE DEF E, a, R
    <3> QED BY <1>0, <1>1, <1>2, <2>1
  <2> HIDE DEF P, E, a, R
  <2> QED BY <1>0, <2>2, LoopHolds
<1>7. u[n] \in R /\ Good(u[n])
  BY <1>0, <1>6
<1>8. u[n].src \in Seq(S) /\ Distinct(u[n].src)
  BY <1>7 DEF Good, R
<1> QED BY <1>5, <1>8

\* The values of the blocks of a text, one behind the other.
LEMMA JoinedIs ==
    ASSUME NEW l \in Seq(Seq(Vals))
    PROVE  /\ \A b \in 0..Len(l) : Joined(l)[b] \in Seq(Vals) /\ Len(Joined(l)[b]) <= Len(Joined(l)[Len(l)])
           /\ \A b \in 1..Len(l) : Len(Joined(l)[b]) = Len(Joined(l)[b - 1]) + Len(l[b])
<1> DEFINE n == Len(l)
           S == Seq(Vals)
           E(i, s) == s \o l[i]
           P == [k \in 0..n |-> S]
           g == [p \in (1..n) \X S |-> E(p[1], p[2])]
           Is(f) == f = [b \in 0..n |-> IF b = 0 THEN <<>> ELSE E(b, f[b - 1])]
           u == CHOOSE f : Is(f)
<1>0. n \in Nat /\ \A i \in 1..n : i - 1 \in 0..n /\ i \in 0..n
  OBVIOUS
<1>1. <<>> \in S
  OBVIOUS
<1>2. ASSUME NEW k \in 1..n, NEW s \in S PROVE E(k, s) \in S
  OBVIOUS
<1> HIDE DEF S
<1>3. \E f : Is(f)
  <2>1. <<>> \in P[0] /\ \A i \in 1..n : \A s \in P[i - 1] : s \in S /\ g[<<i, s>>] = E(i, s)
    <3>1. <<>> \in P[0]
      BY <1>0, <1>1
    <3>2. \A i \in 1..n : \A s \in P[i - 1] : s \in S
      BY <1>0
    <3> HIDE DEF P
    <3>3. \A i \in 1..n : \A s \in S : g[<<i, s>>] = E(i, s)
      OBVIOUS
    <3> HIDE DEF g, E
    <3> QED BY <3>1, <3>2, <3>3
  <2>2. \A i \in 1..n : \A s \in P[i - 1] : E(i, s) \in P[i]
    BY <1>0, <1>2
  <2>3. \A i \in 1..n : \A s \in P[i - 1] : g[<<i, s>>] \in P[i]
    BY <2>1, <2>2
  <2> HIDE DEF P, g, E, S
  <2>4. PICK f : Loops(f, n, <<>>, g) /\ \A i \in 0..n : f[i] \in P[i]
    BY <1>0, <2>1, <2>3, LoopExists
  <2>5. \A i \in 1..n : g[<<i, f[i - 1]>>] = E(i, f[i - 1])
    BY <1>0, <2>1, <2>4
  <2>6. \A i \in 0..n : (IF i = 0 THEN <<>> ELSE g[<<i, f[i - 1]>>])
                          = (IF i = 0 THEN <<>> ELSE E(i, f[i - 1]))
    <3>1. \A i \in 0..n : i = 0 \/ i \in 1..n
      BY <1>0
    <3> QED BY <2>5, <3>1
  <2>7. f = [i \in 0..n |-> IF i = 0 THEN <<>> ELSE g[<<i, f[i - 1]>>]]
    BY <2>4 DEF Loops
  <2>8. Is(f)
    BY <2>6, <2>7
  <2> QED BY <2>8
<1>4. u = [i \in 0..n |-> IF i = 0 THEN <<>> ELSE E(i, u[i - 1])]
  <2> HIDE DEF E, S
  <2> QED BY <1>3
<1>5. Joined(l) = u
  BY DEF Joined
<1> HIDE DEF u
<1>6. \A i \in 0..n : u[i] \in P[i]
  <2>1. u[0] = <<>> /\ \A i \in 1..n : u[i] = E(i, u[i - 1])
    <3> HIDE DEF E, S
    <3> QED BY <1>0, <1>4, SMTT(30)
  <2>2. u[0] \in P[0] /\ \A i \in 1..n : u[i - 1] \in P[i - 1] => u[i] \in P[i]
    <3> HIDE DEF E, S
    <3> QED BY <1>0, <1>1, <1>2, <2>1
  <2> HIDE DEF P, E, S
  <2> QED BY <1>0, <2>2, LoopHolds
<1>7. \A i \in 0..n : u[i] \in S
  BY <1>0, <1>6
<1>8. \A i \in 1..n : u[i] = u[i - 1] \o l[i] /\ Len(u[i]) = Len(u[i - 1]) + Len(l[i]) /\ Len(l[i]) \in Nat
  <2> TAKE i \in 1..n
  <2>1. u[i] = u[i - 1] \o l[i]
    <3>1. i # 0 /\ i \in 0..n
      BY <1>0
    <3> QED BY <1>4, <3>1
  <2>2. u[i - 1] \in Seq(Vals) /\ l[i] \in Seq(Vals)
    BY <1>0, <1>7 DEF S
  <2> QED BY <2>1, <2>2
<1> DEFINE Q == [b \in 0..n |-> {s \in S : \A c \in 0..b : Len(u[c]) <= Len(s)}]
<1>9. \A b \in 0..n : u[b] \in Q[b]
  <2>1. u[0] \in Q[0]
    BY <1>0, <1>7
  <2>2. ASSUME NEW i \in 1..n, u[i - 1] \in Q[i - 1] PROVE u[i] \in Q[i]
    <3>1. \A c \in 0..(i - 1) : Len(u[c]) <= Len(u[i - 1])
      BY <1>0, <2>2
    <3>2. \A c \in 0..n : Len(u[c]) \in Nat
      BY <1>7 DEF S
    <3>3. Len(u[i - 1]) <= Len(u[i])
      <4>1. i - 1 \in 0..n /\ Len(u[i]) = Len(u[i - 1]) + Len(l[i]) /\ Len(l[i]) \in Nat
        BY <1>0, <1>8
      <4>2. Len(u[i - 1]) \in Nat
        BY <3>2, <4>1
      <4>3. \A x, y \in Nat : x <= x + y
        OBVIOUS
      <4> QED BY <4>1, <4>2, <4>3
    <3>4. \A c \in 0..i : c \in 0..n /\ (c \in 0..(i - 1) \/ c = i)
      OBVIOUS
    <3>5. \A c \in 0..i : Len(u[c]) <= Len(u[i])
      <4> TAKE c \in 0..i
      <4>1. CASE c = i
        <5>1. Len(u[i]) \in Nat
          BY <1>0, <3>2
        <5> QED BY <4>1, <5>1
      <4>2. CASE c \in 0..(i - 1)
        <5>1. Len(u[c]) <= Len(u[i - 1])
          BY <3>1, <4>2
        <5>2. Len(u[c]) \in Nat /\ Len(u[i - 1]) \in Nat /\ Len(u[i]) \in Nat
          BY <1>0, <3>2, <3>4
        <5> QED BY <3>3, <5>1, <5>2
      <4> QED BY <3>4, <4>1, <4>2
    <3> QED BY <1>0, <1>7, <3>5
  <2> HIDE DEF Q
  <2> QED BY <1>0, <2>1, <2>2, LoopHolds
<1>10. \A b \in 0..n : Len(u[b]) <= Len(u[n])
  BY <1>0, <1>9
<1> QED BY <1>5, <1>7, <1>8, <1>10 DEF S

-----------------------------------------------------------------------------
(* Bodies                                                                  *)

\* The live items of a block.
LEMMA LiveIs ==
    ASSUME Bodies, NEW b \in Blocks
    PROVE  /\ Live(b) \in Seq(1..Len(val)) /\ Len(Live(b)) = block[b].n /\ Distinct(Live(b))
           /\ block[b].n \in Nat /\ block[b].n <= Len(block[b].items) /\ Len(val) \in Nat
<1> DEFINE x == block[b]
           m == Len(val)
           s == x.items
           n == x.n
<1>1. Sound(x, m) /\ m \in Nat
  BY DEF Bodies, Blocks
<1> HIDE DEF x, m
<1>2. s \in Seq(1..m) /\ n \in 0..Len(s) /\ \A i, j \in 1..n : s[i] = s[j] => i = j
  BY <1>1 DEF Sound
<1>3. Live(b) = SubSeq(s, 1, n)
  BY DEF Live, x
<1> HIDE DEF s, n
<1>4. n \in Nat
  BY <1>2
<1>5. SubSeq(s, 1, n) \in Seq(1..m) /\ Len(SubSeq(s, 1, n)) = n /\ \A k \in 1..n : SubSeq(s, 1, n)[k] = s[k]
  BY <1>2, HeadIs
<1>7. Distinct(SubSeq(s, 1, n))
  BY <1>2, <1>5 DEF Distinct
<1> QED BY <1>1, <1>2, <1>3, <1>4, <1>5, <1>7 DEF n, s, x, m

\* More cells are cells still.
LEMMA SoundStill ==
    ASSUME NEW m \in Nat, NEW n \in Nat, m <= n, NEW x, Sound(x, m)
    PROVE  Sound(x, n)
<1>1. 1..m \subseteq 1..n
  OBVIOUS
<1>2. \A s \in Seq(1..m) : s \in Seq(1..n)
  BY <1>1
<1> QED BY <1>2 DEF Sound

\* What an operation gives a body, and what a new one holds.
LEMMA BodyIs ==
    ASSUME NEW m \in Nat, NEW x, Sound(x, m), NEW cells \in Seq(1..m), Distinct(cells)
    PROVE  Sound(Body(x, cells), m) /\ Len(x.items) <= Len(Body(x, cells).items)
<1> DEFINE s == x.items
           k == Len(cells)
           t == SubSeq(s, k + 1, Len(s))
           y == cells \o t
<1>1. /\ s \in Seq(1..m) /\ Len(s) \in Nat /\ Len(s) <= x.cap /\ x.cap \in Nat
      /\ s \in Seq(Nat) /\ cells \in Seq(Nat) /\ k \in Nat
  <2>1. /\ x.items \in Seq(1..m) /\ x.items \in Seq(Nat) /\ x.cap \in Nat /\ Len(x.items) <= x.cap
    BY DEF Sound, BodyType
  <2>2. \A z \in Seq(1..m) : z \in Seq(Nat)
    OBVIOUS
  <2> QED BY <2>1, <2>2
<1> HIDE DEF s, k
<1>2. t \in Seq(1..m) /\ Len(t) = (IF k <= Len(s) THEN Len(s) - k ELSE 0)
  <2>1. CASE k <= Len(s)
    <3>1. k + 1 \in 1..(Len(s) + 1) /\ Len(s) \in (k + 1 - 1)..Len(s)
      BY <1>1, <2>1
    <3>2. t \in Seq(1..m) /\ Len(t) = Len(s) - (k + 1) + 1
      BY <1>1, <3>1, PartIs
    <3> QED BY <1>1, <2>1, <3>2
  <2>2. CASE ~(k <= Len(s))
    <3>1. t = <<>>
      BY <1>1, <2>2
    <3>2. <<>> \in Seq(1..m) /\ Len(<<>>) = 0
      OBVIOUS
    <3> HIDE DEF t
    <3> QED BY <2>2, <3>1, <3>2
  <2> QED BY <2>1, <2>2
<1> HIDE DEF t
<1>3. /\ y \in Seq(1..m) /\ Len(y) = Len(cells) + Len(t)
      /\ \A i \in 1..Len(cells) : y[i] = cells[i]
  BY <1>2, JoinIs
<1>4. Len(y) >= k /\ Len(y) >= Len(s) /\ Len(y) \in Nat /\ (Len(y) = k \/ Len(y) = Len(s))
  BY <1>1, <1>2, <1>3 DEF k
<1>5. y \in Seq(Nat)
  <2>1. \A z \in Seq(1..m) : z \in Seq(Nat)
    OBVIOUS
  <2> QED BY <1>3, <2>1
<1> HIDE DEF y
<1> DEFINE c == Grown(x.cap, k)
<1>6. c \in Nat /\ c >= x.cap /\ c >= k
  BY <1>1, GrownIs
<1> HIDE DEF c
<1>7. Body(x, cells) = [items |-> y, n |-> k, cap |-> c]
  BY DEF Body, y, t, s, k, c
<1>8. \A i, j \in 1..k : y[i] = y[j] => i = j
  BY <1>3 DEF Distinct, k
<1>9. Len(y) <= c /\ k \in 0..Len(y)
  BY <1>1, <1>4, <1>6
<1>10. Len(s) <= Len(y)
  BY <1>1, <1>4
<1>11. [items |-> y, n |-> k, cap |-> c] \in BodyType
  BY <1>1, <1>5, <1>6 DEF BodyType
<1>12. Sound([items |-> y, n |-> k, cap |-> c], m)
  BY <1>3, <1>8, <1>9, <1>11 DEF Sound
<1> QED BY <1>7, <1>10, <1>12 DEF s

LEMMA NewBodyIs ==
    ASSUME NEW m \in Nat, NEW cells \in Seq(1..m), Distinct(cells), NEW n \in 0..Len(cells)
    PROVE  Sound([NewBody(cells) EXCEPT !.n = n], m)
<1>1. [NewBody(cells) EXCEPT !.n = n] = [items |-> cells, n |-> n, cap |-> Len(cells)]
  BY DEF NewBody
<1>2. cells \in Seq(Nat) /\ Len(cells) \in Nat /\ n \in Nat
  <2>1. \A z \in Seq(1..m) : z \in Seq(Nat)
    OBVIOUS
  <2> QED BY <2>1
<1>3. \A i, j \in 1..n : cells[i] = cells[j] => i = j
  <2>1. \A i \in 1..n : i \in 1..Len(cells)
    OBVIOUS
  <2> QED BY <2>1 DEF Distinct
<1> QED BY <1>1, <1>2, <1>3, SMTT(30) DEF Sound, BodyType

\* No block loses a slot.
Grows == /\ Len(block') \in Nat /\ Len(block) <= Len(block')
         /\ \A b \in Blocks : Len(block[b].items) <= Len(block'[b].items)

\* An operation that leaves cells in a block.
LEMMA BodyKeeps ==
    ASSUME Bodies, NEW b \in Blocks, val' \in Seq(Vals), Len(val) <= Len(val'),
           NEW cells \in Seq(1..Len(val')), Distinct(cells), block' = [block EXCEPT ![b] = Body(@, cells)]
    PROVE  Bodies' /\ Grows
<1>1. block \in Seq(BodyType) /\ Len(val) \in Nat /\ Len(val') \in Nat /\ val \in Seq(Vals)
      /\ \A c \in Blocks : Sound(block[c], Len(val))
  BY DEF Bodies
<1>2. Blocks = 1..Len(block) /\ Len(block) \in Nat
  BY <1>1 DEF Blocks
<1>3. \A c \in Blocks : Sound(block[c], Len(val'))
  BY <1>1, SoundStill
<1> DEFINE x == Body(block[b], cells)
<1>4. Sound(x, Len(val')) /\ Len(block[b].items) <= Len(x.items)
  BY <1>1, <1>3, BodyIs
<1> HIDE DEF x
<1>5. x \in BodyType
  BY <1>4 DEF Sound
<1>6. block' = [block EXCEPT ![b] = x]
  BY DEF x
<1>7. /\ block' \in Seq(BodyType) /\ Len(block') = Len(block)
      /\ \A c \in Blocks : block'[c] = IF c = b THEN x ELSE block[c]
  BY <1>1, <1>2, <1>5, <1>6
<1>8. \A c \in Blocks : Sound(block'[c], Len(val')) /\ Len(block[c].items) <= Len(block'[c].items)
  <2> TAKE c \in Blocks
  <2>1. CASE c = b
    BY <1>4, <1>7, <2>1
  <2>2. CASE c # b
    <3>1. Len(block[c].items) \in Nat
      <4>1. block[c].items \in Seq(Nat)
        BY <1>1 DEF Sound, BodyType
      <4> QED BY <4>1
    <3> QED BY <1>3, <1>7, <2>2, <3>1
  <2> QED BY <2>1, <2>2
<1>9. Blocks' = Blocks
  BY <1>7 DEF Blocks
<1> QED BY <1>2, <1>7, <1>8, <1>9 DEF Bodies, Grows

\* One that makes a block.
LEMMA NewBlockKeeps ==
    ASSUME Bodies, val' \in Seq(Vals), Len(val) <= Len(val'), NEW x, Sound(x, Len(val')),
           block' = Append(block, x)
    PROVE  Bodies' /\ Grows
<1>1. block \in Seq(BodyType) /\ Len(val) \in Nat /\ Len(val') \in Nat /\ val \in Seq(Vals)
      /\ \A c \in Blocks : Sound(block[c], Len(val))
  BY DEF Bodies
<1>2. Blocks = 1..Len(block) /\ Len(block) \in Nat
  BY <1>1 DEF Blocks
<1>3. \A c \in Blocks : Sound(block[c], Len(val'))
  BY <1>1, SoundStill
<1>4. x \in BodyType
  BY DEF Sound
<1>5. /\ block' \in Seq(BodyType) /\ Len(block') = Len(block) + 1
      /\ \A c \in 1..Len(block) : block'[c] = block[c]
      /\ block'[Len(block) + 1] = x
  BY <1>1, <1>4
<1>6. Blocks' = 1..(Len(block) + 1)
  BY <1>5 DEF Blocks
<1>7. \A c \in Blocks' : c \in Blocks \/ c = Len(block) + 1
  BY <1>2, <1>6
<1>8. \A c \in Blocks' : Sound(block'[c], Len(val'))
  BY <1>2, <1>3, <1>5, <1>7
<1>9. \A c \in Blocks : Len(block[c].items) <= Len(block'[c].items)
  <2> TAKE c \in Blocks
  <2>1. block[c].items \in Seq(Nat)
    BY <1>1 DEF Sound, BodyType
  <2> QED BY <1>2, <1>5, <2>1
<1>10. Len(block') \in Nat /\ Len(block) <= Len(block')
  BY <1>2, <1>5
<1> QED BY <1>5, <1>8, <1>9, <1>10 DEF Bodies, Grows

\* One that leaves the blocks alone.
LEMMA SameBlocksKeep ==
    ASSUME Bodies, val' \in Seq(Vals), Len(val) = Len(val'), block' = block
    PROVE  Bodies' /\ Grows
<1>1. \A c \in Blocks : block[c].items \in Seq(Nat)
  BY DEF Bodies, Sound, BodyType
<1>2. Len(block) \in Nat /\ \A c \in Blocks : Len(block[c].items) \in Nat
  BY <1>1 DEF Bodies
<1> QED BY <1>2 DEF Bodies, Grows, Blocks

-----------------------------------------------------------------------------
(* Operations                                                              *)

\* An operation leaves an iteration under way with the slots it counts on.
LEMMA OperationKeeps ==
    ASSUME BlocksAssumption, IInv, Operates, iter' = iter, touched' \in BOOLEAN, Bodies' /\ Grows
    PROVE  IInv'
<1>1. ops' \in 0..MaxOps
  BY DEF IInv, Operates, BlocksAssumption
<1>2. ASSUME iter # None PROVE Iterates'
  <2>1. Iterates
    BY <1>2 DEF IInv
  <2>2. Step' = Step
    BY DEF Step
  <2>3. iter.coll \in Blocks /\ block \in Seq(BodyType) /\ Len(block) \in Nat
    BY <2>1 DEF Iterates, Counts, Collects, Acts, IInv, Bodies
  <2>4. iter.coll \in Blocks' /\ Len(block[iter.coll].items) <= Len(block'[iter.coll].items)
    BY <2>3 DEF Grows, Blocks
  <2>5. block[iter.coll].items \in Seq(Nat) /\ block'[iter.coll].items \in Seq(Nat)
    <3>1. block[iter.coll] \in BodyType
      BY <2>3 DEF Blocks
    <3>2. block'[iter.coll] \in BodyType
      BY <2>4 DEF Bodies, Blocks
    <3> QED BY <3>1, <3>2 DEF BodyType
  <2>6. iter.cnt <= Len(block'[iter.coll].items)
    <3>1. iter.cnt \in Nat /\ iter.cnt <= Len(block[iter.coll].items)
      BY <2>1 DEF Iterates, Counts, Collects, Acts
    <3>2. Len(block[iter.coll].items) \in Nat /\ Len(block'[iter.coll].items) \in Nat
      BY <2>5
    <3>3. \A x, y, z \in Nat : x <= y /\ y <= z => x <= z
      OBVIOUS
    <3> QED BY <2>4, <3>1, <3>2, <3>3
  <2> QED BY <2>1, <2>2, <2>4, <2>6 DEF Iterates, Counts, Collects, Acts
<1> QED BY <1>1, <1>2 DEF IInv, None

LEMMA TouchIs ==
    ASSUME NEW now, Touch(now)
    PROVE  iter' = iter /\ touched' \in BOOLEAN
<1>1. touched' = (touched \/ (now /\ iter # None)) /\ iter' = iter
  BY DEF Touch
<1>2. touched' \in BOOLEAN
  BY <1>1, Zenon
<1> QED BY <1>1, <1>2

\* New cells.
LEMMA FreshIs ==
    ASSUME Bodies, NEW k \in Nat
    PROVE  /\ Fresh(k) \in Seq(1..(Len(val) + k)) /\ Len(Fresh(k)) = k /\ Distinct(Fresh(k))
           /\ \A i \in 1..k : Fresh(k)[i] = Len(val) + i
<1> DEFINE m == Len(val)
<1>1. m \in Nat
  BY DEF Bodies
<1>2. Fresh(k) = [i \in 1..k |-> m + i]
  BY DEF Fresh
<1> HIDE DEF m
<1>3. \A i \in 1..k : m + i \in 1..(m + k)
  BY <1>1
<1>4. Fresh(k) \in Seq(1..(m + k)) /\ Len(Fresh(k)) = k /\ \A i \in 1..k : Fresh(k)[i] = m + i
  BY <1>2, <1>3
<1>5. \A i, j \in 1..k : m + i = m + j => i = j
  BY <1>1
<1> QED BY <1>4, <1>5 DEF m, Distinct

\* Live cells with new ones behind them.
LEMMA LiveMore ==
    ASSUME Bodies, NEW k \in Nat, NEW s \in Seq(1..Len(val)), Distinct(s)
    PROVE  s \o Fresh(k) \in Seq(1..(Len(val) + k)) /\ Distinct(s \o Fresh(k))
<1> DEFINE m == Len(val)
           S == 1..(m + k)
           f == Fresh(k)
<1>1. m \in Nat /\ s \in Seq(S) /\ \A i \in 1..Len(s) : s[i] \in 1..m
  <2>1. m \in Nat
    BY DEF Bodies
  <2>2. s \in Seq(1..m)
    OBVIOUS
  <2> HIDE DEF m
  <2>3. 1..m \subseteq S
    BY <2>1
  <2> QED BY <2>1, <2>2, <2>3
<1>2. f \in Seq(S) /\ Len(f) = k /\ Distinct(f) /\ \A i \in 1..k : f[i] = m + i
  BY FreshIs
<1> HIDE DEF m, f, S
<1>3. \A i \in 1..Len(s), j \in 1..Len(f) : s[i] # f[j]
  BY <1>1, <1>2
<1>4. s \o f \in Seq(S)
  BY <1>1, <1>2, JoinIs
<1>5. Distinct(s \o f)
  BY <1>1, <1>2, <1>3, JoinDistinct
<1> QED BY <1>4, <1>5 DEF m, f, S

\* The values of some cells.
LEMMA ItemsAre ==
    ASSUME Bodies, NEW b \in Blocks
    PROVE  Items(b) \in Seq(Vals) /\ Len(Items(b)) = block[b].n
<1> DEFINE s == Live(b)
<1>1. s \in Seq(1..Len(val)) /\ Len(s) = block[b].n /\ block[b].n \in Nat /\ val \in Seq(Vals)
  BY LiveIs DEF Bodies
<1>2. Items(b) = [i \in 1..Len(s) |-> val[s[i]]]
  BY DEF Items, Values
<1> HIDE DEF s
<1>3. \A i \in 1..Len(s) : val[s[i]] \in Vals
  BY <1>1
<1> QED BY <1>1, <1>2, <1>3, SMTT(30)

LEMMA InsertKeeps ==
    ASSUME BlocksAssumption, IInv, NEW b \in Blocks, NEW at, NEW v \in Vals, Insert(b, at, v)
    PROVE  IInv'
<1> DEFINE s == Live(b)
           n == block[b].n
           m == Len(val)
           l == SubSeq(s, 1, at)
           q == at + 1
           r == SubSeq(s, q, n)
           f == Fresh(1)
           cells == l \o f \o r
           S == 1..(m + 1)
<1>1. /\ Operates /\ at \in 0..n /\ Touches(b) /\ val' = Append(val, v)
      /\ block' = [block EXCEPT ![b] = Body(@, cells)]
  BY DEF Insert, ToBody
<1>2. Bodies
  BY DEF IInv
<1>3. s \in Seq(1..m) /\ Len(s) = n /\ Distinct(s) /\ n \in Nat /\ m \in Nat
  BY <1>2, LiveIs
<1>4. val' \in Seq(Vals) /\ Len(val') = m + 1
  BY <1>1, <1>2 DEF Bodies
<1> HIDE DEF s, n, m
<1>5. s \in Seq(S) /\ \A i \in 1..n : s[i] \in 1..m
  <2>1. 1..m \subseteq S
    BY <1>3
  <2> QED BY <1>3, <2>1
<1>6. f \in Seq(S) /\ Len(f) = 1 /\ Distinct(f) /\ f[1] = m + 1
  <2>1. 1 \in Nat /\ 1 \in 1..1
    OBVIOUS
  <2> QED BY <1>2, <2>1, FreshIs DEF m
<1>7. at \in Nat /\ at \in 0..Len(s) /\ at + 1 \in 1..(Len(s) + 1) /\ n \in (at + 1 - 1)..Len(s)
  BY <1>1, <1>3
<1>8. /\ l \in Seq(S) /\ Len(l) = at /\ Distinct(l) /\ \A i \in 1..at : l[i] = s[i]
  <2>1. l \in Seq(S) /\ Len(l) = at /\ \A i \in 1..at : l[i] = s[i]
    BY <1>5, <1>7, HeadIs
  <2>2. \A i \in 1..at : i \in 1..Len(s)
    BY <1>7
  <2>3. Distinct(l)
    BY <1>3, <2>1, <2>2 DEF Distinct
  <2> QED BY <2>1, <2>3
<1>9. /\ r \in Seq(S) /\ Len(r) = n - at /\ Distinct(r) /\ \A i \in 1..(n - at) : r[i] = s[at + i]
  <2>0. q \in 1..(Len(s) + 1) /\ n \in (q - 1)..Len(s)
    BY <1>7
  <2>2. n - q + 1 = n - at /\ \A i \in 1..(n - at) : q + i - 1 = at + i
    BY <1>3, <1>7
  <2> HIDE DEF q
  <2>1. r \in Seq(S) /\ Len(r) = n - q + 1 /\ \A i \in 1..(n - q + 1) : r[i] = s[q + i - 1]
    <3>1. s \in Seq(S)
      BY <1>5
    <3> HIDE DEF r
    <3>2. SubSeq(s, q, n) \in Seq(S) /\ Len(SubSeq(s, q, n)) = n - q + 1
          /\ \A i \in 1..(n - q + 1) : SubSeq(s, q, n)[i] = s[q + i - 1]
      BY <2>0, <3>1, PartIs, ZenonT(30)
    <3> QED BY <3>2 DEF r
  <2>3. Distinct(r)
    BY <1>3, <1>5, <2>0, PartDistinct
  <2> QED BY <2>1, <2>2, <2>3
<1> HIDE DEF l, f, r, S, q
<1> DEFINE lf == l \o f
<1>10. /\ lf \in Seq(S) /\ Len(lf) = at + 1
       /\ \A i \in 1..at : lf[i] = l[i]
       /\ lf[at + 1] = f[1] /\ Distinct(lf)
  <2>1. /\ lf \in Seq(S) /\ Len(lf) = Len(l) + Len(f)
        /\ \A i \in 1..Len(l) : lf[i] = l[i]
        /\ \A i \in 1..Len(f) : lf[Len(l) + i] = f[i]
    BY <1>6, <1>8, JoinIs, SMTT(30)
  <2>2. \A i \in 1..Len(l), j \in 1..Len(f) : l[i] # f[j]
    <3>1. \A i \in 1..at : l[i] \in 1..m
      <4>1. \A i \in 1..at : i \in 1..n
        BY <1>3, <1>7
      <4> QED BY <1>5, <1>8, <4>1
    <3>2. \A j \in 1..1 : j = 1
      OBVIOUS
    <3>3. \A x \in 1..m : x # m + 1
      BY <1>3
    <3> QED BY <1>6, <1>8, <3>1, <3>2, <3>3
  <2>3. Distinct(lf)
    BY <1>6, <1>8, <2>2, JoinDistinct
  <2>4. 1 \in 1..1
    OBVIOUS
  <2> QED BY <1>6, <1>8, <2>1, <2>3, <2>4
<1> HIDE DEF lf
<1>11. \A i \in 1..Len(lf), j \in 1..Len(r) : lf[i] # r[j]
  <2> TAKE i \in 1..Len(lf), j \in 1..Len(r)
  <2>1. j \in 1..(n - at) /\ at + j \in 1..n /\ (i \in 1..at \/ i = at + 1)
    BY <1>3, <1>7, <1>9, <1>10
  <2>2. r[j] = s[at + j] /\ s[at + j] \in 1..m
    BY <1>5, <1>9, <2>1
  <2>3. CASE i \in 1..at
    <3>1. lf[i] = s[i] /\ i \in 1..n /\ i # at + j
      BY <1>3, <1>7, <1>8, <1>10, <2>1, <2>3
    <3>2. s[i] # s[at + j]
      BY <1>3, <2>1, <3>1 DEF Distinct
    <3> QED BY <2>2, <3>1, <3>2
  <2>4. CASE i = at + 1
    <3>1. lf[i] = m + 1
      BY <1>6, <1>10, <2>4
    <3> QED BY <1>3, <2>2, <3>1
  <2> QED BY <2>1, <2>3, <2>4
<1>12. cells \in Seq(S) /\ Distinct(cells)
  BY <1>9, <1>10, <1>11, JoinIs, JoinDistinct DEF lf
<1> HIDE DEF cells
<1>13. Bodies' /\ Grows
  <2>1. cells \in Seq(1..Len(val')) /\ Len(val) <= Len(val')
    BY <1>3, <1>4, <1>12 DEF S, m
  <2> QED BY <1>1, <1>2, <1>4, <1>12, <2>1, BodyKeeps
<1> QED BY <1>1, <1>13, OperationKeeps, TouchIs DEF Touches

LEMMA AppendBlockKeeps ==
    ASSUME BlocksAssumption, IInv, NEW b \in Blocks, NEW s \in Blocks, AppendBlock(b, s)
    PROVE  IInv'
<1> DEFINE k == block[s].n
           cells == Live(b) \o Fresh(k)
<1>1. /\ Operates /\ Touches(b) /\ val' = val \o Items(s)
      /\ block' = [block EXCEPT ![b] = Body(@, cells)]
  BY DEF AppendBlock, ToBody
<1>2. Bodies /\ val \in Seq(Vals)
  BY DEF IInv, Bodies
<1>3. /\ Live(b) \in Seq(1..Len(val)) /\ Distinct(Live(b)) /\ Len(val) \in Nat
      /\ k \in Nat /\ Items(s) \in Seq(Vals) /\ Len(Items(s)) = k
  BY <1>2, LiveIs, ItemsAre
<1> HIDE DEF k
<1>4. cells \in Seq(1..(Len(val) + k)) /\ Distinct(cells)
  BY <1>2, <1>3, LiveMore
<1>5. val' \in Seq(Vals) /\ Len(val') = Len(val) + k
  <2>1. val \o Items(s) \in Seq(Vals) /\ Len(val \o Items(s)) = Len(val) + Len(Items(s))
    BY <1>2, <1>3, JoinIs
  <2> QED BY <1>1, <1>3, <2>1
<1> HIDE DEF cells
<1>6. Len(val) <= Len(val')
  BY <1>3, <1>5
<1>7. Bodies' /\ Grows
  BY <1>1, <1>2, <1>4, <1>5, <1>6, BodyKeeps
<1> QED BY <1>1, <1>7, OperationKeeps, TouchIs DEF Touches

\* A block appended to itself grows while it is read: only an empty one, where
\* nothing is written, keeps within its array.
LEMMA AppendSelfKeeps ==
    ASSUME BlocksAssumption, ~SelfAppend, IInv, NEW b \in Blocks, AppendSelf(b)
    PROVE  IInv'
<1>1. Operates /\ Touches(b) /\ val' = val /\ block' = block
  BY DEF AppendSelf
<1>2. Bodies /\ val \in Seq(Vals)
  BY DEF IInv, Bodies
<1>3. Bodies' /\ Grows
  BY <1>1, <1>2, SameBlocksKeep
<1> QED BY <1>1, <1>3, OperationKeeps, TouchIs DEF Touches

LEMMA UnionKeeps ==
    ASSUME BlocksAssumption, IInv, NEW b \in Blocks, NEW s \in Blocks, Union(b, s)
    PROVE  IInv'
<1> DEFINE new == At(Items(s), {i \in 1..block[s].n : Items(s)[i] \notin ToSet(Items(b))})
           once == At(new, {i \in 1..Len(new) : \A j \in 1..(i - 1) : new[j] # new[i]})
           k == Len(once)
           cells == Live(b) \o Fresh(k)
<1>1. /\ Operates /\ Touches(b) /\ val' = val \o once
      /\ block' = [block EXCEPT ![b] = Body(@, cells)]
  BY DEF Union, ToBody
<1>2. Bodies /\ val \in Seq(Vals)
  BY DEF IInv, Bodies
<1>3. /\ Live(b) \in Seq(1..Len(val)) /\ Distinct(Live(b)) /\ Len(val) \in Nat
      /\ Items(s) \in Seq(Vals)
  BY <1>2, LiveIs, ItemsAre
<1>4. new \in Seq(Vals)
  BY <1>3, AtIs
<1> HIDE DEF new
<1>5. once \in Seq(Vals)
  BY <1>4, AtIs
<1> HIDE DEF once
<1>6. k \in Nat
  BY <1>5
<1>7. val' \in Seq(Vals) /\ Len(val') = Len(val) + k
  <2>1. val \o once \in Seq(Vals) /\ Len(val \o once) = Len(val) + Len(once)
    BY <1>2, <1>5, JoinIs
  <2> QED BY <1>1, <2>1
<1> HIDE DEF k
<1>8. cells \in Seq(1..(Len(val) + k)) /\ Distinct(cells)
  BY <1>2, <1>3, <1>6, LiveMore
<1> HIDE DEF cells
<1>9. Len(val) <= Len(val')
  BY <1>3, <1>6, <1>7
<1>10. Bodies' /\ Grows
  BY <1>1, <1>2, <1>7, <1>8, <1>9, BodyKeeps
<1> QED BY <1>1, <1>10, OperationKeeps, TouchIs DEF Touches

LEMMA ReduceKeeps ==
    ASSUME BlocksAssumption, IInv, NEW b \in Blocks, Reduce(b)
    PROVE  IInv'
<1>1. PICK kept \in Kept(b) : ToBody(b, At(Live(b), kept))
  BY DEF Reduce
<1> DEFINE cells == At(Live(b), kept)
<1>2. Operates /\ Touches(b) /\ val' = val /\ block' = [block EXCEPT ![b] = Body(@, cells)]
  BY <1>1 DEF Reduce, ToBody
<1>3. Bodies /\ val \in Seq(Vals)
  BY DEF IInv, Bodies
<1>4. Live(b) \in Seq(1..Len(val)) /\ Distinct(Live(b)) /\ Len(val) \in Nat
  BY <1>3, LiveIs
<1>5. cells \in Seq(1..Len(val')) /\ Distinct(cells)
  BY <1>2, <1>4, AtIs
<1> HIDE DEF cells
<1>6. Bodies' /\ Grows
  <2>1. val' \in Seq(Vals) /\ Len(val) <= Len(val')
    BY <1>2, <1>3, <1>4
  <2> QED BY <1>2, <1>3, <1>5, <2>1, BodyKeeps
<1> QED BY <1>2, <1>6, OperationKeeps, TouchIs DEF Touches

LEMMA SortKeeps ==
    ASSUME BlocksAssumption, IInv, NEW b \in Blocks, Sort(b)
    PROVE  IInv'
<1> DEFINE cells == Sorted(Live(b))
<1>2. Operates /\ Touches(b) /\ val' = val /\ block' = [block EXCEPT ![b] = Body(@, cells)]
  BY DEF Sort, ToBody
<1>3. Bodies /\ val \in Seq(Vals)
  BY DEF IInv, Bodies
<1>4. Live(b) \in Seq(1..Len(val)) /\ Distinct(Live(b)) /\ Len(val) \in Nat
  BY <1>3, LiveIs
<1>5. cells \in Seq(1..Len(val')) /\ Distinct(cells)
  BY <1>2, <1>4, SortedIs
<1> HIDE DEF cells
<1>6. Bodies' /\ Grows
  <2>1. val' \in Seq(Vals) /\ Len(val) <= Len(val')
    BY <1>2, <1>3, <1>4
  <2> QED BY <1>2, <1>3, <1>5, <2>1, BodyKeeps
<1> QED BY <1>2, <1>6, OperationKeeps, TouchIs DEF Touches

LEMMA SetItemKeeps ==
    ASSUME BlocksAssumption, IInv, NEW b \in Blocks, NEW i, NEW v \in Vals, SetItem(b, i, v)
    PROVE  IInv'
<1>1. Operates /\ Touch(TRUE) /\ val' = [val EXCEPT ![Live(b)[i]] = v] /\ block' = block
  BY DEF SetItem
<1>2. Bodies /\ val \in Seq(Vals)
  BY DEF IInv, Bodies
<1>3. val' \in Seq(Vals) /\ Len(val') = Len(val)
  <2> DEFINE c == Live(b)[i]
  <2>0. val' = [val EXCEPT ![c] = v]
    BY <1>1
  <2> HIDE DEF c
  <2>1. val' = [j \in 1..Len(val) |-> IF j = c THEN v ELSE val[j]] /\ Len(val) \in Nat
    <3>1. val' = [j \in DOMAIN val |-> IF j = c THEN v ELSE val[j]]
      BY <2>0
    <3>2. DOMAIN val = 1..Len(val) /\ Len(val) \in Nat
      BY <1>2
    <3> QED BY <3>1, <3>2
  <2>2. \A j \in 1..Len(val) : val[j] \in Vals
    BY <1>2
  <2> QED BY <2>1, <2>2
<1>4. Bodies' /\ Grows
  BY <1>1, <1>2, <1>3, SameBlocksKeep
<1> QED BY <1>1, <1>4, OperationKeeps, TouchIs

\* reverse, rotate, take, drop and slice give cells of their source.
LEMMA SharesAre ==
    ASSUME Bodies, NEW b \in Blocks, NEW cells \in Shares(b)
    PROVE  cells \in Seq(1..Len(val)) /\ Distinct(cells)
<1> DEFINE s == Live(b)
           S == 1..Len(val)
           n == Len(s)
<1>1. s \in Seq(S) /\ Distinct(s) /\ n \in Nat
  BY LiveIs
<1>2. \/ cells = Reverse(s)
      \/ \E k \in 1..n : cells = Rotated(s, k)
      \/ \E i \in 1..n + 1, j \in 0..n : cells = SubSeq(s, i, j)
  BY DEF Shares
<1> HIDE DEF s, S
<1>3. CASE cells = Reverse(s)
  <2>1. cells = [i \in 1..n |-> s[n - i + 1]]
    BY <1>3 DEF Reverse
  <2>2. \A i \in 1..n : n - i + 1 \in 1..n /\ s[n - i + 1] \in S
    BY <1>1
  <2>3. cells \in Seq(S) /\ Len(cells) = n /\ \A i \in 1..n : cells[i] = s[n - i + 1]
    BY <1>1, <2>1, <2>2
  <2>4. ASSUME NEW i \in 1..n, NEW j \in 1..n, cells[i] = cells[j] PROVE i = j
    <3> DEFINE x == n - i + 1
               y == n - j + 1
    <3>1. x \in 1..n /\ y \in 1..n /\ s[x] = s[y]
      BY <2>2, <2>3, <2>4
    <3>2. x = y
      <4> HIDE DEF x, y
      <4> QED BY <1>1, <3>1 DEF Distinct
    <3> QED BY <1>1, <3>2
  <2>5. \A i, j \in 1..n : cells[i] = cells[j] => i = j
    BY <2>4
  <2>6. \A i, j \in 1..Len(cells) : cells[i] = cells[j] => i = j
    BY <2>3, <2>5
  <2> QED BY <2>3, <2>6 DEF Distinct, S
<1>4. ASSUME NEW k \in 1..n, cells = Rotated(s, k) PROVE cells \in Seq(S) /\ Distinct(cells)
  <2> DEFINE p == k + 1
             l == SubSeq(s, p, n)
             r == SubSeq(s, 1, k)
  <2>1. p \in 1..(n + 1) /\ n \in (p - 1)..n /\ k \in 0..n /\ n - p + 1 = n - k /\ k \in Nat
    BY <1>1
  <2>2. cells = l \o r
    BY <1>4 DEF Rotated
  <2>3. \A i \in 1..(n - k) : p + i - 1 = k + i
    BY <1>1
  <2>4. 1 \in 1..(n + 1) /\ k \in (1 - 1)..n
    BY <1>1
  <2> HIDE DEF p
  <2>5. /\ l \in Seq(S) /\ Len(l) = n - p + 1 /\ Distinct(l) /\ \A i \in 1..(n - p + 1) : l[i] = s[p + i - 1]
    BY <1>1, <2>1, PartIs, PartDistinct
  <2>6. r \in Seq(S) /\ Len(r) = k /\ \A i \in 1..k : r[i] = s[i]
    BY <1>1, <2>1, HeadIs
  <2>7. Distinct(r)
    BY <1>1, <2>4, PartDistinct
  <2> HIDE DEF l, r
  <2>8. ASSUME NEW i \in 1..Len(l), NEW j \in 1..Len(r) PROVE l[i] # r[j]
    <3> DEFINE x == k + i
    <3>1. i \in 1..(n - k) /\ j \in 1..k
      BY <2>1, <2>5, <2>6
    <3>2. x \in 1..n /\ j \in 1..n /\ x # j /\ l[i] = s[x] /\ r[j] = s[j]
      <4>1. p + i - 1 = x
        BY <2>3, <3>1
      <4>2. l[i] = s[p + i - 1]
        BY <2>1, <2>5, <3>1
      <4>3. x \in 1..n /\ j \in 1..n /\ x # j
        BY <1>1, <2>1, <3>1
      <4> QED BY <2>6, <3>1, <4>1, <4>2, <4>3
    <3> HIDE DEF x
    <3> QED BY <1>1, <3>2 DEF Distinct
  <2> QED BY <2>2, <2>5, <2>6, <2>7, <2>8, JoinIs, JoinDistinct
<1>5. ASSUME NEW i \in 1..n + 1, NEW j \in 0..n, cells = SubSeq(s, i, j) PROVE cells \in Seq(S) /\ Distinct(cells)
  <2>1. CASE i <= j + 1
    <3>1. i \in 1..(n + 1) /\ j \in (i - 1)..n
      BY <1>1, <2>1
    <3> QED BY <1>1, <1>5, <3>1, PartIs, PartDistinct
  <2>2. CASE ~(i <= j + 1)
    <3>1. cells = <<>>
      BY <1>1, <1>5, <2>2
    <3>2. <<>> \in Seq(S) /\ Len(<<>>) = 0
      OBVIOUS
    <3> QED BY <3>1, <3>2 DEF Distinct
  <2> QED BY <2>1, <2>2
<1> QED BY <1>2, <1>3, <1>4, <1>5 DEF S

LEMMA ShareKeeps ==
    ASSUME BlocksAssumption, IInv, NEW b \in Blocks, Share(b)
    PROVE  IInv'
<1>1. PICK cells \in Shares(b) : block' = Append(block, NewBody(cells))
  BY DEF Share
<1>2. Operates /\ val' = val /\ iter' = iter /\ touched' = touched
  BY DEF Share
<1>3. Bodies /\ val \in Seq(Vals) /\ Len(val) \in Nat /\ touched \in BOOLEAN
  BY DEF IInv, Bodies
<1>4. cells \in Seq(1..Len(val)) /\ Distinct(cells)
  BY <1>3, SharesAre
<1> DEFINE x == [NewBody(cells) EXCEPT !.n = Len(cells)]
<1>5. Len(cells) \in 0..Len(cells)
  BY <1>4
<1>6. Sound(x, Len(val))
  BY <1>3, <1>4, <1>5, NewBodyIs
<1>7. x = NewBody(cells)
  BY DEF NewBody
<1>8. Sound(NewBody(cells), Len(val'))
  BY <1>2, <1>6, <1>7
<1>9. Bodies' /\ Grows
  BY <1>1, <1>2, <1>3, <1>8, NewBlockKeeps
<1> QED BY <1>2, <1>3, <1>9, OperationKeeps

LEMMA CopyKeeps ==
    ASSUME BlocksAssumption, IInv, NEW b \in Blocks, Copy(b)
    PROVE  IInv'
<1> DEFINE k == block[b].n
           f == Fresh(k)
           new == NewBody(f)
<1>1. PICK n \in {new.n, IF new.n = 0 THEN 0 ELSE new.n - 1} : block' = Append(block, [new EXCEPT !.n = n])
  BY DEF Copy
<1>2. Operates /\ val' = val \o Items(b) /\ iter' = iter /\ touched' = touched
  BY DEF Copy
<1>3. Bodies /\ val \in Seq(Vals) /\ Len(val) \in Nat /\ touched \in BOOLEAN
  BY DEF IInv, Bodies
<1>4. Items(b) \in Seq(Vals) /\ Len(Items(b)) = k /\ k \in Nat
  BY <1>3, ItemsAre, LiveIs
<1> HIDE DEF k
<1>5. val' \in Seq(Vals) /\ Len(val') = Len(val) + k
  <2>1. val \o Items(b) \in Seq(Vals) /\ Len(val \o Items(b)) = Len(val) + Len(Items(b))
    BY <1>3, <1>4, JoinIs
  <2> QED BY <1>2, <1>4, <2>1
<1>6. f \in Seq(1..(Len(val) + k)) /\ Len(f) = k /\ Distinct(f)
  BY <1>3, <1>4, FreshIs
<1> HIDE DEF f
<1>7. new.n = k /\ n \in 0..Len(f)
  <2>1. new.n = k
    BY <1>6 DEF NewBody
  <2> HIDE DEF new
  <2> QED BY <1>1, <1>4, <1>6, <2>1
<1> DEFINE m == Len(val')
<1>8. m \in Nat /\ f \in Seq(1..m) /\ Len(val) <= Len(val')
  BY <1>3, <1>4, <1>5, <1>6
<1>9. Sound([new EXCEPT !.n = n], m)
  <2> HIDE DEF m
  <2> QED BY <1>6, <1>7, <1>8, NewBodyIs
<1> DEFINE x == [new EXCEPT !.n = n]
<1> HIDE DEF x, new
<1>10. block' = Append(block, x) /\ Sound(x, Len(val'))
  BY <1>1, <1>9 DEF x
<1>11. Bodies' /\ Grows
  BY <1>3, <1>5, <1>8, <1>10, NewBlockKeeps
<1> QED BY <1>2, <1>3, <1>11, OperationKeeps

-----------------------------------------------------------------------------
(* Iterations                                                              *)

\* The items of a chunk are integers, whatever the block is by now.
LEMMA ChunkIs ==
    ASSUME BlocksAssumption, Bodies, iter # None, Iterates, NEW limit
    PROVE  Chunk(limit) \in Seq(Int) /\ Len(Chunk(limit)) = iter.width
<1> DEFINE x == block[iter.coll]
           s == x.items
           w == iter.width
           at == iter.at
<1>1. s \in Seq(1..Len(val)) /\ val \in Seq(Vals) /\ Vals \subseteq Int
  BY DEF Bodies, Iterates, Counts, Collects, Acts, Sound, BlocksAssumption
<1>2. w \in Nat /\ at \in Nat
  BY DEF Iterates, Counts, Collects, Acts
<1> DEFINE item(p) == IF p <= Len(s) THEN val[s[p]] ELSE Null
<1>3. Chunk(limit) = [j \in 1..w |-> IF at + j <= limit THEN item(at + j) ELSE Null]
  BY DEF Chunk, Item
<1> HIDE DEF s, w, at
<1>4. \A p \in Nat \ {0} : item(p) \in Int
  <2> TAKE p \in Nat \ {0}
  <2>1. CASE p <= Len(s)
    <3>1. p \in 1..Len(s)
      BY <1>1, <2>1
    <3>2. s[p] \in 1..Len(val)
      BY <1>1, <3>1
    <3>3. val[s[p]] \in Vals
      BY <1>1, <3>2
    <3> QED BY <1>1, <2>1, <3>3
  <2>2. CASE ~(p <= Len(s))
    BY <2>2 DEF Null
  <2> QED BY <2>1, <2>2
<1> HIDE DEF item
<1>5. \A j \in 1..w : at + j \in Nat \ {0}
  BY <1>2
<1>6. \A j \in 1..w : (IF at + j <= limit THEN item(at + j) ELSE Null) \in Int
  BY <1>4, <1>5 DEF Null
<1> QED BY <1>2, <1>3, <1>6 DEF w

LEMMA StartKeeps ==
    ASSUME BlocksAssumption, IInv, NEW kind \in Kinds, NEW b \in Blocks, NEW width \in Widths, NEW lim,
           Start(kind, b, width, lim)
    PROVE  IInv'
<1> DEFINE it == [kind |-> kind, coll |-> b, width |-> width, lim |-> lim,
                  cnt |-> block[b].n, at |-> 0, bound |-> <<>>, acting |-> FALSE,
                  over |-> FALSE, acc |-> Seed(kind)]
<1>1. /\ iter' = it /\ touched' = FALSE /\ val' = val /\ block' = block /\ ops' = ops
  BY DEF Start
<1>2. Bodies /\ ops \in 0..MaxOps
  BY DEF IInv
<1>3. block[b].n \in Nat /\ block[b].n <= Len(block[b].items)
  BY <1>2, LiveIs
<1>4. width \in Nat \ {0}
  BY DEF BlocksAssumption
<1>5. kind \in {"map", "select", "collect", "arrange"} => Seed(kind) = <<>>
  BY DEF Seed
<1>6. Bodies' /\ b \in Blocks'
  BY <1>1, <1>2 DEF Bodies, Blocks
<1>7. <<>> \in Seq(Int) /\ <<>> \in Seq(Pair) /\ Len(<<>>) = 0
  OBVIOUS
<1>8. /\ it.kind = kind /\ it.coll = b /\ it.width = width /\ it.cnt = block[b].n /\ it.at = 0
      /\ it.acting = FALSE /\ it.over = FALSE /\ it.acc = Seed(kind)
      /\ it = [f \in Fields |-> it[f]]
  BY DEF Fields
<1>9. 0 < block[b].n + width
  BY <1>3, <1>4
<1> HIDE DEF it
<1>10. Iterates'
  <2>0. /\ iter'.kind = kind /\ iter'.coll = b /\ iter'.width = width /\ iter'.cnt = block[b].n
        /\ iter'.at = 0 /\ iter'.acting = FALSE /\ iter'.over = FALSE /\ iter'.acc = Seed(kind)
        /\ iter' = [f \in Fields |-> iter'[f]]
    BY <1>1, <1>8
  <2> HIDE DEF Fields
  <2>1. Counts'
    <3>1. iter'.cnt <= Len(block'[iter'.coll].items) /\ iter'.at < iter'.cnt + iter'.width
      BY <1>1, <1>3, <1>9, <2>0
    <3>2. iter'.cnt \in Nat /\ iter'.at \in Nat /\ iter'.width \in Nat \ {0}
      BY <1>3, <1>4, <2>0
    <3>3. iter'.acting \in BOOLEAN /\ iter'.over \in BOOLEAN /\ iter'.kind \in Kinds
      BY <2>0
    <3>4. iter'.coll \in Blocks' /\ iter' = [f \in Fields |-> iter'[f]]
      BY <1>6, <2>0
    <3> QED BY <3>1, <3>2, <3>3, <3>4 DEF Counts
  <2>2. Collects'
    <3>1. Len(<<>>) <= 0 /\ 0 <= block[b].n
      BY <1>3
    <3> QED BY <1>5, <1>7, <2>0, <3>1 DEF Collects
  <2>3. Acts'
    BY <2>0 DEF Acts
  <2> QED BY <2>1, <2>2, <2>3 DEF Iterates
<1> QED BY <1>1, <1>2, <1>6, <1>10 DEF IInv

LEMMA RoundKeeps ==
    ASSUME BlocksAssumption, IInv, Round
    PROVE  IInv'
<1>1. /\ iter' = [iter EXCEPT !.acting = TRUE, !.bound = Chunk(Limit)]
      /\ GoesOn /\ val' = val /\ block' = block /\ ops' = ops /\ touched' = touched
  BY DEF Round, history
<1>2. iter # None /\ iter.at + Step <= iter.cnt
  BY <1>1 DEF GoesOn, Step
<1>3. Iterates /\ Bodies
  BY <1>2 DEF IInv
<1> DEFINE c == Chunk(Limit)
<1>4. c \in Seq(Int) /\ Len(c) = iter.width
  BY <1>2, <1>3, ChunkIs
<1> HIDE DEF c
<1>5. iter' = [iter EXCEPT !.acting = TRUE, !.bound = c] /\ iter = [f \in Fields |-> iter[f]]
  BY <1>1, <1>3 DEF c, Iterates, Counts, Collects, Acts
<1>6. /\ iter'.kind = iter.kind /\ iter'.coll = iter.coll /\ iter'.width = iter.width /\ iter'.lim = iter.lim
      /\ iter'.cnt = iter.cnt /\ iter'.at = iter.at /\ iter'.over = iter.over /\ iter'.acc = iter.acc
      /\ iter'.acting = TRUE /\ iter'.bound = c /\ iter' = [f \in Fields |-> iter'[f]]
  BY <1>5 DEF Fields
<1>7. Step' = Step
  BY <1>6 DEF Step
<1>8. Bodies' /\ Blocks' = Blocks
  BY <1>1, <1>3 DEF Bodies, Blocks
<1>9. Iterates'
  <2>1. Counts'
    <3>1. Counts
      BY <1>3 DEF Iterates
    <3>2. block' = block /\ Blocks' = Blocks
      BY <1>1, <1>8
    <3> HIDE DEF Fields
    <3> QED BY <1>6, <3>1, <3>2 DEF Counts
  <2>2. Collects'
    BY <1>3, <1>6 DEF Iterates, Collects
  <2>3. Acts'
    BY <1>2, <1>4, <1>6, <1>7 DEF Acts
  <2> QED BY <2>1, <2>2, <2>3 DEF Iterates
<1> QED BY <1>1, <1>8, <1>9 DEF IInv

\* arrange puts one more.
LEMMA ArrangedIs ==
    ASSUME NEW acc \in Seq(Pair), NEW key \in Int, NEW item \in Int
    PROVE  Arranged(acc, key, item) \in Seq(Pair) /\ Len(Arranged(acc, key, item)) = Len(acc) + 1
<1> DEFINE n == Len(acc)
           at == {n + 1} \cup Before(acc, key)
           i == CHOOSE i \in at : \A j \in at : i <= j
           e == [key |-> key, item |-> item]
           l == SubSeq(acc, 1, i - 1)
           r == SubSeq(acc, i, n)
<1>1. n \in Nat /\ e \in Pair
  BY DEF Pair
<1>2. at \in SUBSET Nat /\ at # {} /\ at \subseteq 1..(n + 1)
  BY <1>1 DEF Before
<1>3. i \in at
  <2> HIDE DEF at
  <2>1. \E x \in at : \A y \in at : x <= y
    BY <1>2, HasLeast
  <2> QED BY <2>1
<1>4. Arranged(acc, key, item) = (l \o <<e>>) \o r
  BY DEF Arranged, InsertAt
<1>5. i \in 1..(n + 1)
  BY <1>2, <1>3
<1> HIDE DEF i, e
<1>6. l \in Seq(Pair) /\ Len(l) = i - 1
  <2> DEFINE k == i - 1
  <2>1. k \in 0..n
    BY <1>1, <1>5
  <2> HIDE DEF k
  <2>2. SubSeq(acc, 1, k) \in Seq(Pair) /\ Len(SubSeq(acc, 1, k)) = k
    BY <2>1, HeadIs
  <2> QED BY <2>2 DEF k
<1>7. r \in Seq(Pair) /\ Len(r) = n - i + 1
  <2>1. i \in 1..(Len(acc) + 1) /\ n \in (i - 1)..Len(acc)
    BY <1>1, <1>5
  <2> QED BY <2>1, PartIs
<1> HIDE DEF l, r
<1>8. <<e>> \in Seq(Pair) /\ Len(<<e>>) = 1
  BY <1>1
<1> DEFINE le == l \o <<e>>
<1>9. le \in Seq(Pair) /\ Len(le) = i
  <2>1. le \in Seq(Pair) /\ Len(le) = Len(l) + Len(<<e>>)
    BY <1>6, <1>8, JoinIs
  <2> HIDE DEF le
  <2> QED BY <1>5, <1>6, <1>8, <2>1
<1> HIDE DEF le
<1>10. le \o r \in Seq(Pair) /\ Len(le \o r) = Len(le) + Len(r)
  BY <1>7, <1>9, JoinIs
<1>11. Len(le) + Len(r) = n + 1
  BY <1>1, <1>5, <1>7, <1>9
<1> QED BY <1>4, <1>10, <1>11 DEF le

\* A round gives the result of an iteration no more items than the round took.
LEMMA AfterIs ==
    ASSUME BlocksAssumption, IInv, iter # None, iter.acting, NEW r \in Int, r # Stop
    PROVE  /\ iter.kind \in {"map", "select", "collect"} =>
                 After(r) \in Seq(Int) /\ Len(After(r)) <= iter.at + iter.width
           /\ iter.kind = "arrange" =>
                 After(r) \in Seq(Pair) /\ Len(After(r)) <= iter.at + iter.width
<1> DEFINE acc == iter.acc
           k == iter.kind
           w == iter.width
           at == iter.at
<1>1. Iterates /\ Bodies
  BY DEF IInv
<1>2. w \in Nat \ {0} /\ at \in Nat /\ iter.bound \in Seq(Int) /\ Len(iter.bound) = w
  BY <1>1 DEF Iterates, Counts, Collects, Acts
<1>3. \A n \in Nat : n <= at => n <= at + w /\ n + 1 <= at + w /\ n + w <= at + w
  BY <1>2
<1>4. CASE k = "map"
  <2>1. acc \in Seq(Int) /\ Len(acc) <= at
    BY <1>1, <1>4 DEF Iterates, Counts, Collects, Acts
  <2>2. After(r) = IF r = Skip THEN acc ELSE Append(acc, r)
    BY <1>4 DEF After
  <2> HIDE DEF acc, w, at
  <2>3. Len(acc) \in Nat /\ Append(acc, r) \in Seq(Int) /\ Len(Append(acc, r)) = Len(acc) + 1
    BY <2>1
  <2> QED BY <1>3, <1>4, <2>1, <2>2, <2>3 DEF w, at
<1>5. CASE k \in {"select", "collect"}
  <2>1. acc \in Seq(Int) /\ Len(acc) <= at
    BY <1>1, <1>5 DEF Iterates, Counts, Collects, Acts
  <2>2. After(r) = IF r = Skip THEN acc ELSE IF r = 1 THEN acc \o Now ELSE acc
    BY <1>5 DEF After
  <2>3. Now \in Seq(Int) /\ Len(Now) = w
    BY <1>1, ChunkIs DEF Now
  <2> HIDE DEF acc, w, at
  <2>4. Len(acc) \in Nat /\ acc \o Now \in Seq(Int) /\ Len(acc \o Now) = Len(acc) + w
    <3>1. acc \o Now \in Seq(Int) /\ Len(acc \o Now) = Len(acc) + Len(Now)
      BY <2>1, <2>3, JoinIs, ZenonT(30)
    <3> QED BY <2>1, <2>3, <3>1
  <2> QED BY <1>3, <1>5, <2>1, <2>2, <2>4 DEF w, at
<1>6. CASE k = "arrange"
  <2>1. acc \in Seq(Pair) /\ Len(acc) <= at
    BY <1>1, <1>6 DEF Iterates, Counts, Collects, Acts
  <2> DEFINE item == iter.bound[1]
  <2>2. After(r) = IF r = Skip THEN acc ELSE Arranged(acc, r, item)
    BY <1>6 DEF After
  <2>3. item \in Int
    BY <1>2
  <2> HIDE DEF acc, w, at, item
  <2>4. /\ Len(acc) \in Nat /\ Arranged(acc, r, item) \in Seq(Pair)
        /\ Len(Arranged(acc, r, item)) = Len(acc) + 1
    BY <2>1, <2>3, ArrangedIs
  <2> QED BY <1>3, <1>6, <2>1, <2>2, <2>4 DEF w, at
<1> QED BY <1>4, <1>5, <1>6

LEMMA RoundEndsKeeps ==
    ASSUME BlocksAssumption, IInv, NEW r \in {0, 1, Skip, Stop}, RoundEnds(r)
    PROVE  IInv'
<1> DEFINE a == IF r = Stop /\ iter.kind # "fold" THEN iter.acc ELSE After(r)
           e == Ends(r)
           k == iter.at + iter.width
<1>1. /\ iter' = [iter EXCEPT !.acting = FALSE, !.at = k, !.over = e, !.bound = <<>>, !.acc = a]
      /\ iter # None /\ iter.acting /\ val' = val /\ block' = block /\ ops' = ops /\ touched' = touched
  BY DEF RoundEnds
<1>2. Iterates /\ Bodies /\ r \in Int
  BY <1>1 DEF IInv, Skip, Stop
<1>3. e \in BOOLEAN
  BY DEF Ends
<1>4. /\ iter.width \in Nat \ {0} /\ iter.at \in Nat /\ iter.cnt \in Nat
      /\ iter.at + Step <= iter.cnt /\ iter.kind \in Kinds
  BY <1>1, <1>2 DEF Iterates, Counts, Collects, Acts
<1>5. k \in Nat /\ k < iter.cnt + iter.width
  BY <1>4 DEF Step
<1>6. iter.kind \notin {"loop", "fold"} => k <= iter.cnt
  BY <1>4 DEF Step
<1>7. /\ iter.kind \in {"map", "select", "collect"} => a \in Seq(Int) /\ Len(a) <= k
      /\ iter.kind = "arrange" => a \in Seq(Pair) /\ Len(a) <= k
  <2>1. CASE r = Stop
    <3>1. /\ iter.kind \in {"map", "select", "collect"} => iter.acc \in Seq(Int) /\ Len(iter.acc) <= iter.at
          /\ iter.kind = "arrange" => iter.acc \in Seq(Pair) /\ Len(iter.acc) <= iter.at
      BY <1>2 DEF Iterates, Counts, Collects, Acts
    <3>2. \A n \in Nat : n <= iter.at => n <= k
      BY <1>4
    <3>3. /\ \A s \in Seq(Int) : Len(s) \in Nat
          /\ \A s \in Seq(Pair) : Len(s) \in Nat
      OBVIOUS
    <3>4. iter.kind # "fold" => a = iter.acc
      BY <2>1
    <3> HIDE DEF a, k
    <3> QED BY <3>1, <3>2, <3>3, <3>4
  <2>2. CASE r # Stop
    BY <1>1, <1>2, <2>2, AfterIs
  <2> QED BY <2>1, <2>2
<1> HIDE DEF a, e, k
<1>8. iter = [f \in Fields |-> iter[f]]
  BY <1>2 DEF Iterates, Counts, Collects, Acts
<1>9. /\ iter'.kind = iter.kind /\ iter'.coll = iter.coll /\ iter'.width = iter.width /\ iter'.lim = iter.lim
      /\ iter'.cnt = iter.cnt /\ iter'.at = k /\ iter'.over = e /\ iter'.acc = a
      /\ iter'.acting = FALSE /\ iter' = [f \in Fields |-> iter'[f]]
  BY <1>1, <1>8 DEF Fields
<1>10. Bodies' /\ Blocks' = Blocks
  BY <1>1, <1>2 DEF Bodies, Blocks
<1>11. iter.coll \in Blocks /\ iter.cnt <= Len(block[iter.coll].items)
  BY <1>2 DEF Iterates, Counts, Collects, Acts
<1>12. Iterates'
  <2>1. Counts'
    BY <1>1, <1>3, <1>4, <1>5, <1>9, <1>10, <1>11 DEF Counts
  <2>2. Collects'
    BY <1>6, <1>7, <1>9 DEF Collects
  <2>3. Acts'
    BY <1>9 DEF Acts
  <2> QED BY <2>1, <2>2, <2>3 DEF Iterates
<1> QED BY <1>1, <1>10, <1>12 DEF IInv

LEMMA FinishKeeps ==
    ASSUME IInv, Finish
    PROVE  IInv'
<1>1. iter' = None /\ touched' = FALSE /\ val' = val /\ block' = block /\ ops' = ops
  BY DEF Finish
<1>2. Bodies' /\ ops' \in 0..MaxOps
  BY <1>1 DEF IInv, Bodies, Blocks
<1> QED BY <1>1, <1>2 DEF IInv, None

-----------------------------------------------------------------------------
(* The invariant                                                           *)

\* The blocks of a program text have cells of their own.
LEMMA InvInit ==
    ASSUME BlocksAssumption, Init
    PROVE  IInv
<1>1. PICK l \in Literals :
        /\ val = Joined(l)[Len(l)]
        /\ block = [b \in 1..Len(l) |->
              NewBody([i \in 1..Len(l[b]) |-> Len(Joined(l)[b - 1]) + i])]
  BY DEF Init
<1> DEFINE u == Joined(l)
           cells(b) == [i \in 1..Len(l[b]) |-> Len(u[b - 1]) + i]
           m == Len(val)
<1>2. l \in Seq(Seq(Vals))
  BY DEF BlocksAssumption
<1>3. Len(l) \in Nat /\ Len(l) \in 0..Len(l) /\ \A b \in 1..Len(l) : b - 1 \in 0..Len(l) /\ b \in 0..Len(l) /\ l[b] \in Seq(Vals)
  BY <1>2
<1>4. /\ \A b \in 0..Len(l) : u[b] \in Seq(Vals) /\ Len(u[b]) <= Len(u[Len(l)])
      /\ \A b \in 1..Len(l) : Len(u[b]) = Len(u[b - 1]) + Len(l[b])
  BY <1>2, JoinedIs
<1> HIDE DEF u
<1>5. val = u[Len(l)] /\ block = [b \in 1..Len(l) |-> NewBody(cells(b))]
  BY <1>1 DEF u
<1>6. val \in Seq(Vals) /\ m \in Nat
  BY <1>3, <1>4, <1>5
<1>7. \A b \in 1..Len(l) : Sound(NewBody(cells(b)), m)
  <2> TAKE b \in 1..Len(l)
  <2> DEFINE c == cells(b)
             k == Len(l[b])
             o == Len(u[b - 1])
  <2>1. k \in Nat /\ o \in Nat /\ o + k <= m
    <3>1. u[b - 1] \in Seq(Vals) /\ l[b] \in Seq(Vals) /\ Len(u[b]) <= m /\ Len(u[b]) = o + k
      <4>1. u[b - 1] \in Seq(Vals) /\ l[b] \in Seq(Vals)
        BY <1>3, <1>4
      <4>2. Len(u[b]) <= Len(u[Len(l)]) /\ Len(u[b]) = Len(u[b - 1]) + Len(l[b])
        BY <1>3, <1>4
      <4> QED BY <1>5, <4>1, <4>2 DEF m
    <3>2. k \in Nat /\ o \in Nat /\ Len(u[b]) \in Nat
      <4>1. u[b] \in Seq(Vals)
        BY <1>3, <1>4
      <4>2. \A x \in Seq(Vals) : Len(x) \in Nat
        OBVIOUS
      <4> QED BY <3>1, <4>1, <4>2
    <3> HIDE DEF k, o
    <3> QED BY <1>6, <3>1, <3>2
  <2>2. c = [i \in 1..k |-> o + i]
    OBVIOUS
  <2> HIDE DEF c, k, o, m
  <2>3. \A i \in 1..k : o + i \in 1..m
    BY <1>6, <2>1
  <2>4. c \in Seq(1..m) /\ Len(c) = k /\ \A i \in 1..k : c[i] = o + i
    BY <2>1, <2>2, <2>3
  <2>5. \A i, j \in 1..k : o + i = o + j => i = j
    BY <2>1
  <2>6. Distinct(c) /\ Len(c) \in 0..Len(c)
    BY <2>1, <2>4, <2>5 DEF Distinct
  <2>7. Sound([NewBody(c) EXCEPT !.n = Len(c)], m)
    BY <1>6, <2>4, <2>6, NewBodyIs
  <2>8. [NewBody(c) EXCEPT !.n = Len(c)] = NewBody(c)
    BY DEF NewBody
  <2>9. Sound(NewBody(c), m)
    BY <2>7, <2>8
  <2> QED BY <2>9 DEF c
<1> HIDE DEF cells, m
<1>8. \A b \in 1..Len(l) : NewBody(cells(b)) \in BodyType
  BY <1>7 DEF Sound
<1>9. block \in Seq(BodyType) /\ Len(block) = Len(l) /\ \A b \in 1..Len(l) : block[b] = NewBody(cells(b))
  BY <1>3, <1>5, <1>8
<1>10. Bodies
  BY <1>6, <1>7, <1>9 DEF Bodies, Blocks, m
<1>11. iter = None /\ ops = 0 /\ touched = FALSE /\ 0 \in 0..MaxOps
  BY DEF Init, BlocksAssumption
<1> QED BY <1>10, <1>11 DEF IInv

LEMMA InvNext ==
    ASSUME BlocksAssumption, ~SelfAppend, IInv, [Next]_vars
    PROVE  IInv'
<1>1. ASSUME NEW b \in Blocks, Reduce(b) \/ Sort(b) \/ Share(b) \/ Copy(b) \/ AppendSelf(b)
      PROVE  IInv'
  BY <1>1, ReduceKeeps, SortKeeps, ShareKeeps, CopyKeeps, AppendSelfKeeps
<1>2. ASSUME NEW b \in Blocks, NEW v \in Vals, NEW i \in 0..MaxLen, Insert(b, i, v) \/ SetItem(b, i, v)
      PROVE  IInv'
  BY <1>2, InsertKeeps, SetItemKeeps
<1>3. ASSUME NEW b \in Blocks, NEW s \in Blocks, AppendBlock(b, s) \/ Union(b, s)
      PROVE  IInv'
  BY <1>3, AppendBlockKeeps, UnionKeeps
<1>4. ASSUME NEW kind \in Kinds, NEW b \in Blocks, NEW width \in Widths, NEW lim, Start(kind, b, width, lim)
      PROVE  IInv'
  BY <1>4, StartKeeps
<1>5. CASE Round
  BY <1>5, RoundKeeps
<1>6. ASSUME NEW r \in {0, 1, Skip, Stop}, RoundEnds(r) PROVE IInv'
  BY <1>6, RoundEndsKeeps
<1>7. CASE Finish
  BY <1>7, FinishKeeps
<1>8. CASE UNCHANGED vars
  BY <1>8 DEF vars, history, IInv, Bodies, Blocks, Iterates, Counts, Collects, Acts, Step, None
<1> QED BY <1>1, <1>2, <1>3, <1>4, <1>5, <1>6, <1>7, <1>8 DEF Next

\* The invariant is all that is claimed of the arrays, ...
LEMMA InvWithin ==
    ASSUME IInv
    PROVE  WithinArrays
<1>1. Bodies /\ ops \in 0..MaxOps /\ touched \in BOOLEAN
  BY DEF IInv
<1>2. \A b \in Blocks : Sound(block[b], Len(val))
  BY <1>1 DEF Bodies
<1>3. ASSUME iter # None
      PROVE  /\ iter.kind \in Kinds /\ iter.coll \in Blocks /\ iter.at \in Nat /\ iter.cnt \in Nat
             /\ iter.cnt <= Len(block[iter.coll].items) /\ iter.at < iter.cnt + iter.width
             /\ iter.kind \in {"map", "select", "collect", "arrange"} => Len(iter.acc) <= iter.cnt
  <2>1. Iterates
    BY <1>3 DEF IInv
  <2>2. iter.at \in Nat /\ iter.cnt \in Nat
    BY <2>1 DEF Iterates, Counts, Collects, Acts
  <2>3. ASSUME iter.kind \in {"map", "select", "collect", "arrange"} PROVE Len(iter.acc) <= iter.cnt
    <3>1. (iter.acc \in Seq(Int) \/ iter.acc \in Seq(Pair)) /\ Len(iter.acc) <= iter.at /\ iter.at <= iter.cnt
      BY <2>1, <2>3 DEF Iterates, Counts, Collects, Acts
    <3>2. Len(iter.acc) \in Nat
      BY <3>1
    <3> QED BY <2>2, <3>1, <3>2
  <2> QED BY <2>1, <2>3 DEF Iterates, Counts, Collects, Acts
<1>4. TypeOK
  BY <1>1, <1>2, <1>3 DEF TypeOK, Sound, BodyType, Bodies
<1>5. \A b \in Blocks : Len(block[b].items) <= block[b].cap
  BY <1>2 DEF Sound
<1> QED BY <1>3, <1>4, <1>5 DEF WithinArrays

\* ... and of the cells.
LEMMA InvDistinct ==
    ASSUME IInv
    PROVE  CellsDistinct
<1> SUFFICES ASSUME NEW b \in Blocks PROVE IsInjective(Live(b))
  BY DEF CellsDistinct
<1>1. Live(b) \in Seq(1..Len(val)) /\ Distinct(Live(b))
  BY LiveIs DEF IInv
<1>2. DOMAIN Live(b) = 1..Len(Live(b))
  BY <1>1
<1> QED BY <1>1, <1>2 DEF Distinct, IsInjective

LEMMA Invariant ==
    ASSUME ~SelfAppend
    PROVE  Spec => []IInv
<1>1. Init => IInv
  BY BlocksAssumption, InvInit
<1>2. IInv /\ [Next]_vars => IInv'
  BY BlocksAssumption, InvNext
<1> QED BY <1>1, <1>2, PTL DEF Spec

\* Whatever the action of an iteration does to the block iterated over, no array
\* is read or written behind its end and the iteration ends after as many rounds
\* as it counted, for any values, texts, widths and number of operations, as long
\* as no block is appended to itself (runtime.c:2482).
THEOREM NothingBehindArrays ==
    ASSUME ~SelfAppend
    PROVE  Spec => []WithinArrays
BY Invariant, InvWithin, PTL

\* No operation or sequence of operations leaves a cell in a block twice, so that
\* setting an item never changes another.
THEOREM CellsStayDistinct ==
    ASSUME ~SelfAppend
    PROVE  Spec => []CellsDistinct
BY Invariant, InvDistinct, PTL
=============================================================================
