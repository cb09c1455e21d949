--------------------------- MODULE SignalsProofs ---------------------------
(***************************************************************************)
(* Proofs about Signals for a C stack of any depth: types, the attributes  *)
(* of the innermost call, that nothing runs after a signal, and that       *)
(* Signals implements Control.                                             *)
(***************************************************************************)
EXTENDS Signals, TLAPS

Construct == [kind : Kinds, part : Parts, own : BOOLEAN, saved : 0..MaxDepth]

\* Below every position there is a last construct of some kinds, or none.
\* True of every finite sequence; stated as an invariant, it needs no
\* induction but that over the steps.
LastAmong(st, ks, n) ==
    \/ \A i \in 1..n : st[i].kind \notin ks
    \/ \E i \in 1..n : /\ st[i].kind \in ks
                       /\ \A j \in 1..n : st[j].kind \in ks => j <= i

HasLast(st) == \A ks \in SUBSET Kinds : \A n \in 0..Len(st) : LastAmong(st, ks, n)

\* a is the last call with attributes among the lowest n constructs.
IsLatest(st, n, a) ==
    \/ a = 0 /\ \A i \in 1..n : ~st[i].own
    \/ a \in 1..n /\ st[a].own /\ \A i \in 1..n : st[i].own => i <= a

\* Each construct saved the attributes of the last such call below it.
AttrChain(st, a) ==
    /\ IsLatest(st, Len(st), a)
    /\ \A i \in 1..Len(st) : IsLatest(st, i - 1, st[i].saved)

Shape ==
    /\ TypeOK
    /\ stack[1].kind = "seq"
    /\ HasLast(stack) /\ AttrChain(stack, attrs)

\* Two stacks that differ in parts only.
Same(st, tt) ==
    /\ Len(st) = Len(tt)
    /\ \A i \in 1..Len(st) : /\ st[i].kind = tt[i].kind
                             /\ st[i].own = tt[i].own
                             /\ st[i].saved = tt[i].saved

-----------------------------------------------------------------------------
(* Stacks                                                                  *)

\* What a push leaves: the old entries, and the new one on top.
LEMMA PushStack ==
    ASSUME NEW s \in Seq(Construct), NEW c \in Construct
    PROVE  /\ Append(s, c) \in Seq(Construct)
           /\ Len(Append(s, c)) = Len(s) + 1
           /\ \A i \in 1..Len(s) : Append(s, c)[i] = s[i]
           /\ Append(s, c)[Len(s) + 1] = c
  OBVIOUS

\* What is left of a stack cut down to its lowest k entries.
LEMMA CutStack ==
    ASSUME NEW s \in Seq(Construct), NEW k \in 0..Len(s)
    PROVE  /\ SubSeq(s, 1, k) \in Seq(Construct)
           /\ Len(SubSeq(s, 1, k)) = k
           /\ \A i \in 1..k : SubSeq(s, 1, k)[i] = s[i]
  OBVIOUS

\* A construct that changes its part changes nothing else.
LEMMA PartStack ==
    ASSUME NEW s \in Seq(Construct), NEW k \in 1..Len(s), NEW p \in Parts
    PROVE  LET t == [s EXCEPT ![k].part = p] IN
           /\ t \in Seq(Construct) /\ Same(s, t)
           /\ t[k].part = p
           /\ \A i \in 1..Len(s) : i # k => t[i] = s[i]
  <1> DEFINE t == [s EXCEPT ![k].part = p]
  <1>1. s \in [1..Len(s) -> Construct] /\ Len(s) \in Nat
    OBVIOUS
  <1>2. t = [i \in 1..Len(s) |-> IF i = k THEN [s[k] EXCEPT !.part = p] ELSE s[i]]
    BY <1>1
  <1>3. [s[k] EXCEPT !.part = p] \in Construct
    BY <1>1 DEF Construct
  <1>4. t \in Seq(Construct) /\ Len(t) = Len(s)
    BY <1>1, <1>2, <1>3
  <1>5. t[k].part = p /\ \A i \in 1..Len(s) : i # k => t[i] = s[i]
    BY <1>1, <1>2, <1>3 DEF Construct
  <1>6. t[k].kind = s[k].kind /\ t[k].own = s[k].own /\ t[k].saved = s[k].saved
    BY <1>1, <1>2, <1>3 DEF Construct
  <1>7. Same(s, t)
    BY <1>4, <1>5, <1>6 DEF Same
  <1> QED BY <1>4, <1>5, <1>7

\* Innermost names the last position of a construct of the kinds, or 0.
LEMMA InnermostIs ==
    ASSUME NEW st \in Seq(Construct), HasLast(st), NEW ks \in SUBSET Kinds
    PROVE  \/ /\ Innermost(st, ks) = 0
              /\ \A i \in 1..Len(st) : st[i].kind \notin ks
           \/ /\ Innermost(st, ks) \in 1..Len(st)
              /\ st[Innermost(st, ks)].kind \in ks
              /\ \A i \in 1..Len(st) : st[i].kind \in ks => i <= Innermost(st, ks)
  <1> DEFINE at == {i \in 1..Len(st) : st[i].kind \in ks}
  <1>1. CASE at = {}
    BY <1>1 DEF Innermost
  <1>2. CASE at # {}
    <2>1. \E i \in at : \A j \in at : j <= i
      <3>1. LastAmong(st, ks, Len(st))
        BY DEF HasLast
      <3> QED BY <3>1, <1>2 DEF LastAmong
    <2>2. /\ Innermost(st, ks) \in at
          /\ \A j \in at : j <= Innermost(st, ks)
      BY <1>2, <2>1 DEF Innermost
    <2> QED BY <2>2
  <1> QED BY <1>1, <1>2

-----------------------------------------------------------------------------
(* Types, attributes                                                       *)

\* Both look at the lowest n constructs, at their kinds and attributes.
LEMMA Agree ==
    ASSUME NEW s, NEW t, NEW n \in Nat,
           \A i \in 1..n : t[i].kind = s[i].kind /\ t[i].own = s[i].own
    PROVE  /\ \A ks : LastAmong(s, ks, n) => LastAmong(t, ks, n)
           /\ \A b : IsLatest(s, n, b) => IsLatest(t, n, b)
  <1>1. ASSUME NEW ks, LastAmong(s, ks, n) PROVE LastAmong(t, ks, n)
    <2>1. CASE \A i \in 1..n : s[i].kind \notin ks
      BY <2>1 DEF LastAmong
    <2>2. CASE \E i \in 1..n : /\ s[i].kind \in ks
                              /\ \A j \in 1..n : s[j].kind \in ks => j <= i
      <3>1. PICK i \in 1..n : /\ s[i].kind \in ks
                              /\ \A j \in 1..n : s[j].kind \in ks => j <= i
        BY <2>2
      <3>2. t[i].kind \in ks /\ \A j \in 1..n : t[j].kind \in ks => j <= i
        BY <3>1
      <3> QED BY <3>2 DEF LastAmong
    <2> QED BY <1>1, <2>1, <2>2 DEF LastAmong
  <1>2. ASSUME NEW b, IsLatest(s, n, b) PROVE IsLatest(t, n, b)
    BY <1>2 DEF IsLatest
  <1> QED BY <1>1, <1>2

\* Stacks that differ in parts share them, ...
LEMMA SameShape ==
    ASSUME NEW s \in Seq(Construct), NEW t \in Seq(Construct), Same(s, t), NEW a
    PROVE  /\ HasLast(s) => HasLast(t)
           /\ AttrChain(s, a) => AttrChain(t, a)
  <1>1. ASSUME NEW n \in 0..Len(s)
        PROVE  /\ \A ks : LastAmong(s, ks, n) => LastAmong(t, ks, n)
               /\ \A b : IsLatest(s, n, b) => IsLatest(t, n, b)
    <2>1. \A i \in 1..n : t[i].kind = s[i].kind /\ t[i].own = s[i].own
      BY DEF Same
    <2> QED BY <2>1, Agree
  <1>2. HasLast(s) => HasLast(t)
    BY <1>1 DEF HasLast, Same
  <1>3. AttrChain(s, a) => AttrChain(t, a)
    BY <1>1 DEF AttrChain, Same
  <1> QED BY <1>2, <1>3

\* ... a push keeps them, ...
LEMMA PushShape ==
    ASSUME NEW s \in Seq(Construct), NEW c \in Construct, NEW a,
           HasLast(s), AttrChain(s, a), c.saved = a
    PROVE  /\ HasLast(Append(s, c))
           /\ AttrChain(Append(s, c), IF c.own THEN Len(s) + 1 ELSE a)
  <1> DEFINE t == Append(s, c)
  <1>1. /\ t \in Seq(Construct) /\ Len(t) = Len(s) + 1 /\ t[Len(s) + 1] = c
        /\ \A i \in 1..Len(s) : t[i] = s[i]
    BY PushStack
  <1> HIDE DEF t
  <1>2. ASSUME NEW n \in 0..Len(s)
        PROVE  /\ \A ks : LastAmong(s, ks, n) => LastAmong(t, ks, n)
               /\ \A b : IsLatest(s, n, b) => IsLatest(t, n, b)
    <2>1. \A i \in 1..n : t[i].kind = s[i].kind /\ t[i].own = s[i].own
      BY <1>1
    <2> QED BY <2>1, Agree
  <1>3. ASSUME NEW ks \in SUBSET Kinds PROVE LastAmong(t, ks, Len(t))
    <2>1. CASE c.kind \in ks
      BY <1>1, <2>1 DEF LastAmong
    <2>2. CASE c.kind \notin ks /\ \A i \in 1..Len(s) : s[i].kind \notin ks
      BY <1>1, <2>2, SMTT(30) DEF LastAmong
    <2>3. ASSUME c.kind \notin ks, NEW i \in 1..Len(s), s[i].kind \in ks,
                 \A j \in 1..Len(s) : s[j].kind \in ks => j <= i
          PROVE  LastAmong(t, ks, Len(t))
      <3>1. i \in 1..Len(t) /\ t[i].kind \in ks
        BY <1>1, <2>3
      <3>2. \A j \in 1..Len(t) : t[j].kind \in ks => j <= i
        BY <1>1, <2>3
      <3> QED BY <3>1, <3>2 DEF LastAmong
    <2>4. LastAmong(s, ks, Len(s))
      BY DEF HasLast
    <2> QED BY <2>1, <2>2, <2>3, <2>4 DEF LastAmong
  <1>4. HasLast(t)
    <2>1. \A n \in 0..Len(t) : n \in 0..Len(s) \/ n = Len(t)
      BY <1>1
    <2> QED BY <1>2, <1>3, <2>1 DEF HasLast
  <1>5. \A i \in 1..Len(t) : IsLatest(t, i - 1, t[i].saved)
    <2>1. ASSUME NEW i \in 1..Len(t) PROVE IsLatest(t, i - 1, t[i].saved)
      <3>1. CASE i \in 1..Len(s)
        BY <1>1, <1>2, <3>1 DEF AttrChain
      <3>2. CASE i = Len(s) + 1
        BY <1>1, <1>2, <3>2 DEF AttrChain
      <3> QED BY <1>1, <3>1, <3>2
    <2> QED BY <2>1
  <1>6. IsLatest(t, Len(t), IF c.own THEN Len(s) + 1 ELSE a)
    <2>1. IsLatest(t, Len(s), a)
      BY <1>2 DEF AttrChain
    <2>2. CASE c.own
      BY <1>1, <2>2 DEF IsLatest
    <2>3. CASE ~c.own
      BY <1>1, <2>1, <2>3 DEF IsLatest
    <2> QED BY <2>2, <2>3
  <1> QED BY <1>4, <1>5, <1>6 DEF AttrChain, t

\* ... and so does dropping constructs.
LEMMA CutShape ==
    ASSUME NEW s \in Seq(Construct), NEW k \in 0..(Len(s) - 1), NEW a,
           HasLast(s), AttrChain(s, a)
    PROVE  /\ HasLast(SubSeq(s, 1, k))
           /\ AttrChain(SubSeq(s, 1, k), s[k + 1].saved)
  <1> DEFINE t == SubSeq(s, 1, k)
  <1>1. t \in Seq(Construct) /\ Len(t) = k /\ \A i \in 1..k : t[i] = s[i]
    BY CutStack
  <1>0. Len(s) \in Nat /\ k \in Nat
    OBVIOUS
  <1> HIDE DEF t
  <1>2. ASSUME NEW n \in 0..k
        PROVE  /\ \A ks : LastAmong(s, ks, n) => LastAmong(t, ks, n)
               /\ \A b : IsLatest(s, n, b) => IsLatest(t, n, b)
    <2>1. n \in Nat /\ \A i \in 1..n : t[i].kind = s[i].kind /\ t[i].own = s[i].own
      BY <1>0, <1>1
    <2> QED BY <2>1, Agree
  <1>3. HasLast(t)
    BY <1>1, <1>2 DEF HasLast
  <1>4. \A i \in 1..(k + 1) : IsLatest(t, i - 1, s[i].saved)
    <2>1. ASSUME NEW i \in 1..(k + 1) PROVE IsLatest(t, i - 1, s[i].saved)
      <3>1. i \in 1..Len(s) /\ i - 1 \in 0..k
        BY <1>0
      <3>2. IsLatest(s, i - 1, s[i].saved)
        BY <3>1 DEF AttrChain
      <3> QED BY <3>1, <3>2, <1>2
    <2> QED BY <2>1
  <1>5. AttrChain(t, s[k + 1].saved)
    <2>1. IsLatest(t, k, s[k + 1].saved)
      BY <1>0, <1>4
    <2>2. \A i \in 1..k : IsLatest(t, i - 1, t[i].saved)
      BY <1>0, <1>1, <1>4
    <2> QED BY <1>1, <2>1, <2>2 DEF AttrChain
  <1> QED BY <1>3, <1>5 DEF t

-----------------------------------------------------------------------------
(* Shape is inductive: the steps change the stack in three ways.           *)

\* The shape of the stack holds at the start.
LEMMA InitShape == Init => Shape
  <1> SUFFICES ASSUME Init PROVE Shape
    OBVIOUS
  <1> DEFINE m == [kind |-> "seq", part |-> "run", own |-> FALSE, saved |-> 0]
  <1>1. m \in Construct
    BY BoundsAssumption DEF Construct, Kinds, Polling, Compiled, Foldable, Parts
  <1>2. /\ stack = <<m>> /\ Len(stack) = 1 /\ stack[1] = m
        /\ flags = {} /\ attrs = 0 /\ back = FALSE
    BY DEF Init
  <1>3. stack \in Seq(Construct)
    BY <1>1, <1>2
  <1>4. TypeOK
    <2>1. stack \in Seq(Construct) /\ Len(stack) \in 1..MaxDepth /\ attrs \in 0..Len(stack)
      BY <1>2, <1>3, BoundsAssumption
    <2> QED BY <1>2, <2>1 DEF TypeOK, Depth, Construct
  <1>5. HasLast(stack)
    <2>1. ASSUME NEW ks \in SUBSET Kinds, NEW n \in 0..1 PROVE LastAmong(stack, ks, n)
      <3>1. CASE n = 0 \/ m.kind \notin ks
        BY <1>2, <3>1 DEF LastAmong
      <3>2. CASE n = 1 /\ m.kind \in ks
        BY <1>2, <3>2 DEF LastAmong
      <3> QED BY <3>1, <3>2
    <2> QED BY <1>2, <2>1 DEF HasLast
  <1>6. AttrChain(stack, attrs)
    BY <1>2 DEF AttrChain, IsLatest
  <1> QED BY <1>2, <1>4, <1>5, <1>6 DEF Shape

\* A construct starts on a stack that differs from the old one in parts.
LEMMA PushStep ==
    ASSUME Shape, NEW base \in Seq(Construct), Same(stack, base),
           NEW k \in Kinds, NEW own \in BOOLEAN, Push(base, k, own)
    PROVE  Shape'
  <1> DEFINE c == [kind |-> k, part |-> FirstPart(k), own |-> own, saved |-> attrs]
  <1>1. /\ stack \in Seq(Construct) /\ Len(stack) \in 1..MaxDepth
        /\ attrs \in 0..Len(stack) /\ flags \subseteq SignalSet
        /\ Len(stack) < MaxDepth /\ Len(base) = Len(stack)
    BY DEF Shape, TypeOK, Construct, Depth, Push, Same
  <1>2. c \in Construct /\ c.saved = attrs /\ c.own = own
    BY <1>1, BoundsAssumption DEF Construct, FirstPart, Parts
  <1>3. /\ stack' = Append(base, c) /\ flags' = flags \ AtEntry(k) /\ back' = FALSE
        /\ attrs' = IF c.own THEN Len(base) + 1 ELSE attrs
    BY <1>1 DEF Push, Depth
  <1> HIDE DEF c
  <1>4. /\ stack' \in Seq(Construct) /\ Len(stack') = Len(base) + 1
        /\ stack'[1] = base[1]
    BY <1>1, <1>2, <1>3, PushStack
  <1>5. HasLast(base) /\ AttrChain(base, attrs)
    BY <1>1, SameShape DEF Shape
  <1>6. HasLast(stack') /\ AttrChain(stack', attrs')
    BY <1>2, <1>3, <1>5, PushShape
  <1>7. TypeOK'
    <2>1. Len(stack') \in 1..MaxDepth /\ Len(stack') = Len(stack) + 1
      BY <1>1, <1>4, BoundsAssumption
    <2>2. attrs' \in 0..Len(stack')
      BY <1>1, <1>3, <2>1
    <2>3. flags' \subseteq SignalSet /\ back' \in BOOLEAN
      BY <1>1, <1>3
    <2> QED BY <1>4, <2>1, <2>2, <2>3 DEF TypeOK, Depth, Construct
  <1>8. stack'[1].kind = "seq"
    BY <1>1, <1>4 DEF Shape, Same
  <1> QED BY <1>6, <1>7, <1>8 DEF Shape

\* The bound on the attributes follows from the chain.
LEMMA CutStep ==
    ASSUME Shape, NEW k \in 1..(Len(stack) - 1), stack' = SubSeq(stack, 1, k),
           attrs' = stack[k + 1].saved, flags' \subseteq SignalSet, back' \in BOOLEAN
    PROVE  Shape'
  <1>1. /\ stack \in Seq(Construct) /\ Len(stack) \in 1..MaxDepth
        /\ k \in 0..Len(stack) /\ k \in 0..(Len(stack) - 1)
        /\ HasLast(stack) /\ AttrChain(stack, attrs) /\ stack[1].kind = "seq"
    BY DEF Shape, TypeOK, Construct, Depth
  <1>2. stack' \in Seq(Construct) /\ Len(stack') = k /\ stack'[1] = stack[1]
    BY <1>1, CutStack
  <1>3. HasLast(stack') /\ AttrChain(stack', attrs')
    BY <1>1, CutShape
  <1>4. attrs' \in 0..k
    BY <1>2, <1>3 DEF AttrChain, IsLatest
  <1>5. TypeOK'
    BY <1>1, <1>2, <1>4, BoundsAssumption DEF TypeOK, Depth, Construct
  <1> QED BY <1>1, <1>2, <1>3, <1>5 DEF Shape

\* Ending a construct keeps the shape.
LEMMA PopStep ==
    ASSUME Shape, NEW kept \in SUBSET SignalSet, Pop(kept)
    PROVE  Shape'
  <1>1. /\ stack \in Seq(Construct) /\ Len(stack) \in 1..MaxDepth /\ Len(stack) > 1
        /\ AttrChain(stack, attrs) /\ attrs \in 0..Len(stack)
    BY DEF Shape, TypeOK, Construct, Depth, Pop
  <1>2. /\ stack' = SubSeq(stack, 1, Len(stack) - 1) /\ flags' = kept /\ back' = TRUE
        /\ attrs' = IF stack[Len(stack)].own THEN stack[Len(stack)].saved ELSE attrs
    BY DEF Pop, Restore, Top, Depth
  <1>3. /\ IsLatest(stack, Len(stack), attrs)
        /\ IsLatest(stack, Len(stack) - 1, stack[Len(stack)].saved)
    BY <1>1 DEF AttrChain
  <1>4. attrs' = stack[Len(stack)].saved
    <2>1. CASE stack[Len(stack)].own
      BY <1>2, <2>1
    <2>2. CASE ~stack[Len(stack)].own
      <3>1. IsLatest(stack, Len(stack) - 1, attrs)
        BY <1>1, <1>3, <2>2 DEF IsLatest
      <3>2. attrs = stack[Len(stack)].saved
        BY <1>1, <1>3, <3>1 DEF IsLatest
      <3> QED BY <1>2, <2>2, <3>2
    <2> QED BY <2>1, <2>2
  <1>5. Len(stack) - 1 \in 1..(Len(stack) - 1) /\ (Len(stack) - 1) + 1 = Len(stack)
    BY <1>1
  <1>6. flags' \subseteq SignalSet /\ back' \in BOOLEAN
    BY <1>2
  <1> QED BY <1>2, <1>4, <1>5, <1>6, CutStep

\* Going on in a construct keeps the shape.
LEMMA PartStep ==
    ASSUME Shape, NEW p \in Parts, Part(p), attrs' = attrs,
           flags' \subseteq SignalSet, back' \in BOOLEAN
    PROVE  Shape'
  <1>1. /\ stack \in Seq(Construct) /\ Depth = Len(stack) /\ Depth \in 1..Len(stack)
        /\ attrs \in 0..Len(stack) /\ Len(stack) \in 1..MaxDepth
    BY DEF Shape, TypeOK, Construct, Depth
  <1>2. stack' \in Seq(Construct) /\ Same(stack, stack')
    BY <1>1, PartStack DEF Part
  <1>3. HasLast(stack') /\ AttrChain(stack', attrs')
    BY <1>1, <1>2, SameShape DEF Shape
  <1>4. Len(stack') = Len(stack) /\ stack'[1].kind = stack[1].kind
    BY <1>1, <1>2 DEF Same
  <1>5. TypeOK'
    BY <1>1, <1>2, <1>4 DEF TypeOK, Depth, Construct
  <1> QED BY <1>3, <1>4, <1>5 DEF Shape

\* Every action is one of these, or leaves the stack alone.
LEMMA NextShape == Shape /\ [Next]_vars => Shape'
  <1> SUFFICES ASSUME Shape, [Next]_vars PROVE Shape'
    OBVIOUS
  <1>0. /\ stack \in Seq(Construct) /\ Depth = Len(stack) /\ Depth \in 1..Len(stack)
        /\ flags \subseteq SignalSet /\ back \in BOOLEAN
    BY DEF Shape, TypeOK, Construct, Depth
  <1>k. {"seq", "tail", "body", "try"} \subseteq Kinds
    BY DEF Kinds, Polling, Foldable
  <1>s. ASSUME UNCHANGED <<stack, attrs>>, flags' \subseteq SignalSet, back' \in BOOLEAN
        PROVE  Shape'
    BY <1>s DEF Shape, TypeOK, Depth
  <1>p. ASSUME NEW p \in Parts, NEW k \in Kinds, Push([stack EXCEPT ![Depth].part = p], k, FALSE)
        PROVE  Shape'
    <2>1. /\ [stack EXCEPT ![Depth].part = p] \in Seq(Construct)
          /\ Same(stack, [stack EXCEPT ![Depth].part = p])
      BY <1>0, PartStack
    <2> QED BY <1>p, <2>1, PushStep
  <1>l. ASSUME Leaves PROVE Shape'
    BY <1>0, <1>l, PopStep DEF Leaves
  <1>1. ASSUME NEW k \in Kinds, NEW own \in BOOLEAN, Enter(k, own) PROVE Shape'
    BY <1>0, <1>1, PushStep DEF Enter, Same
  <1>2. ASSUME NEW s \in SignalSet, Raise(s) PROVE Shape'
    BY <1>0, <1>2, <1>s DEF Raise
  <1>3. CASE Statement
    BY <1>0, <1>3, <1>s DEF Statement
  <1>4. CASE NextStatement
    BY <1>0, <1>4, <1>s DEF NextStatement
  <1>5. CASE SequenceEnds \/ LoopEnds \/ CondStops \/ TailReturns \/ Folded
    BY <1>5, <1>l DEF SequenceEnds, LoopEnds, CondStops, TailReturns, Folded
  <1>6. CASE NextRound
    <2>1. AfterRound(Top.kind) \in Parts
      BY DEF AfterRound, Parts
    <2> QED BY <1>0, <1>6, <2>1, PartStep DEF NextRound
  <1>7. CASE CondGoesOn
    BY <1>0, <1>7, PartStep DEF CondGoesOn, Parts
  <1>8. CASE PathCall
    BY <1>8, <1>p, <1>k DEF PathCall, PathTail, Parts
  <1>9. CASE ReturnPath
    BY <1>9, <1>p, <1>k DEF ReturnPath, PathTail, Parts
  <1>10. CASE TailApplies
    BY <1>10, <1>p, <1>k DEF TailApplies, Parts
  <1>11. CASE PathCallDone
    BY <1>0, <1>11, <1>l, PartStep DEF PathCallDone, Parts
  <1>12. CASE ReturnAgain
    BY <1>0, <1>12, PartStep DEF ReturnAgain, Parts, SignalSet
  <1>13. CASE Fold
    BY <1>13, <1>p, <1>k DEF Fold, Parts
  <1>14. CASE Die
    <2> DEFINE t == Innermost(stack, {"try"})
    <2>1. t \in 1..Len(stack) /\ stack[t].kind = "try"
      BY <1>0, <1>14, <1>k, InnermostIs DEF Die, Shape
    <2>2. t # 1
      BY <2>1 DEF Shape
    <2>3. t - 1 \in 1..(Len(stack) - 1) /\ (t - 1) + 1 = t
      BY <1>0, <2>1, <2>2
    <2>4. /\ stack' = SubSeq(stack, 1, t - 1) /\ attrs' = stack[(t - 1) + 1].saved
          /\ flags' \subseteq SignalSet /\ back' \in BOOLEAN
      BY <1>0, <1>14, <2>3 DEF Die, Caught
    <2> HIDE DEF t
    <2> QED BY <2>3, <2>4, CutStep
  <1>15. CASE UNCHANGED vars
    BY <1>0, <1>15, <1>s DEF vars
  <1> QED
    BY <1>1, <1>2, <1>3, <1>4, <1>5, <1>6, <1>7, <1>8, <1>9, <1>10, <1>11,
       <1>12, <1>13, <1>14, <1>15 DEF Next

\* Every construct is well formed and the attributes are those of a call on
\* the stack, for a C stack of any depth.
THEOREM Types == Spec => []TypeOK
  <1>1. Shape => TypeOK
    BY DEF Shape
  <1> QED BY <1>1, InitShape, NextShape, PTL DEF Spec

\* However calls, errors and path calls nest, g_attrs are those of the
\* innermost call with attributes that is still on the stack.
THEOREM AttributesOfInnermostCall == Spec => []AttrsOfInnermost
  <1>1. Shape => AttrsOfInnermost
    <2> SUFFICES ASSUME Shape PROVE AttrsOfInnermost
      OBVIOUS
    <2> DEFINE own == {i \in 1..Depth : stack[i].own}
    <2>1. IsLatest(stack, Depth, attrs)
      BY DEF Shape, AttrChain, Depth
    <2>2. CASE own = {}
      BY <2>1, <2>2 DEF IsLatest, AttrsOfInnermost
    <2>3. CASE own # {}
      BY <2>1, <2>3 DEF IsLatest, AttrsOfInnermost
    <2> QED BY <2>2, <2>3
  <1> QED BY <1>1, InitShape, NextShape, PTL DEF Spec

-----------------------------------------------------------------------------
(* A raised signal: where it was raised every construct up to its owner    *)
(* only waits for the statement it runs, so nothing runs before the owner  *)
(* has cleared the flag.                                                   *)

Owners(s) == IF s = "ret" THEN {"body"} ELSE Loops

\* s belongs to f, and every construct from f on stops at its statement.
Waits(f, s) ==
    /\ f \in 1..Depth /\ stack[f].kind \in Owners(s)
    /\ \A i \in 1..Depth : i > f => stack[i].kind \notin Owners(s) \cup {"body"}
    /\ \A i \in 1..Depth : i >= f => AtStatement(i, s)

Raised ==
    \/ flags = {}
    \/ back /\ \E s \in SignalSet : flags = {s} /\ \E f \in 1..Depth : Waits(f, s)

\* A return that was put aside at i can be raised there later.
Returns(f, i) ==
    /\ f \in 1..i /\ stack[f].kind = "body"
    /\ \A j \in 1..i : j > f => stack[j].kind # "body"
    /\ \A j \in 1..i : j >= f /\ j # i => AtStatement(j, "ret")

PutAside(i) ==
    stack[i].part = "retPath" => stack[i].kind \in Foldable /\ \E f \in 1..i : Returns(f, i)

Parted(i) == (stack[i].kind = "try" => stack[i].part = "run") /\ PutAside(i)

AllParted == \A i \in 1..Depth : Parted(i)

Stopping == Shape /\ AllParted /\ Raised

\* What Shape says of the variables, in the form the steps below use.
LEMMA Plain ==
    ASSUME Shape
    PROVE  /\ stack \in Seq(Construct) /\ Depth = Len(stack) /\ Depth \in Nat \ {0}
           /\ Top = stack[Depth] /\ HasLast(stack) /\ flags \subseteq SignalSet
  BY DEF Shape, TypeOK, Construct, Depth, Top

\* A new part for the construct on top.
LEMMA PartTop ==
    ASSUME Shape, NEW p \in Parts
    PROVE  LET t == [stack EXCEPT ![Depth].part = p] IN
           /\ t \in Seq(Construct) /\ Same(stack, t)
           /\ t[Depth].part = p /\ Len(t) = Depth
           /\ \A i \in 1..Depth : t[i].kind = stack[i].kind
           /\ \A i \in 1..Depth : i # Depth => t[i] = stack[i]
  <1>1. stack \in Seq(Construct) /\ Depth \in 1..Len(stack) /\ Len(stack) = Depth
    BY Plain
  <1> DEFINE t == [stack EXCEPT ![Depth].part = p]
  <1>2. t \in Seq(Construct) /\ Same(stack, t)
    BY <1>1, PartStack
  <1>3. stack \in [1..Len(stack) -> Construct] /\ stack[Depth] \in Construct
    BY <1>1
  <1>4. t = [i \in 1..Len(stack) |->
               IF i = Depth THEN [stack[Depth] EXCEPT !.part = p] ELSE stack[i]]
    BY <1>3
  <1>5. t[Depth].part = p /\ \A i \in 1..Len(stack) : i # Depth => t[i] = stack[i]
    BY <1>1, <1>3, <1>4 DEF Construct
  <1> HIDE DEF t
  <1>6. Len(t) = Depth /\ \A i \in 1..Depth : t[i].kind = stack[i].kind
    BY <1>1, <1>2 DEF Same
  <1> QED BY <1>1, <1>2, <1>6, <1>5 DEF t

\* Where a signal may be raised it waits.
LEMMA MayRaiseWaits ==
    ASSUME Shape, ~Anywhere, NEW s \in SignalSet, MayRaise(s)
    PROVE  \E f \in 1..Depth : Waits(f, s)
  <1> DEFINE f == Owner(stack, s)
             b == Innermost(stack, {"body"})
             l == Innermost(stack, Loops)
  <1>1. /\ stack \in Seq(Construct) /\ Depth = Len(stack) /\ Depth \in Nat \ {0}
        /\ HasLast(stack)
    BY Plain
  <1>2. f # 0 /\ \A i \in f..Depth : AtStatement(i, s)
    BY DEF MayRaise
  <1>3. {"body"} \in SUBSET Kinds /\ Loops \in SUBSET Kinds
    BY DEF Kinds, Polling, Loops, Compiled, Foldable
  <1>4. \/ b = 0 /\ \A i \in 1..Depth : stack[i].kind \notin {"body"}
        \/ /\ b \in 1..Depth /\ stack[b].kind \in {"body"}
           /\ \A i \in 1..Depth : stack[i].kind \in {"body"} => i <= b
    BY <1>1, <1>3, InnermostIs
  <1>5. \/ l = 0 /\ \A i \in 1..Depth : stack[i].kind \notin Loops
        \/ /\ l \in 1..Depth /\ stack[l].kind \in Loops
           /\ \A i \in 1..Depth : stack[i].kind \in Loops => i <= l
    BY <1>1, <1>3, InnermostIs
  <1>6. f = IF s = "ret" THEN b ELSE IF l > b THEN l ELSE 0
    BY DEF Owner
  <1> HIDE DEF f, b, l
  <1>7. f \in 1..Depth /\ stack[f].kind \in Owners(s)
    BY <1>2, <1>4, <1>5, <1>6 DEF Owners
  <1>8. \A i \in 1..Depth : i > f => stack[i].kind \notin Owners(s) \cup {"body"}
    BY <1>1, <1>2, <1>4, <1>5, <1>6, <1>7 DEF Owners
  <1>9. \A i \in 1..Depth : i >= f => AtStatement(i, s)
    BY <1>1, <1>2, <1>7
  <1> QED BY <1>7, <1>8, <1>9 DEF Waits

\* A construct above which nothing changed is as it was.
LEMMA BelowParted ==
    ASSUME NEW n \in Nat, n <= Depth, Depth \in Nat, AllParted,
           \A i \in 1..n : stack'[i] = stack[i]
    PROVE  \A i \in 1..n : Parted(i)'
  <1> SUFFICES ASSUME NEW i \in 1..n PROVE Parted(i)'
    OBVIOUS
  <1>1. i \in 1..Depth /\ stack'[i] = stack[i] /\ Parted(i)
    BY DEF AllParted
  <1>2. \A f \in 1..i : Returns(f, i) => Returns(f, i)'
    <2>1. \A j \in 1..i : stack'[j] = stack[j]
      OBVIOUS
    <2> QED BY <2>1 DEF Returns, AtStatement
  <1> QED BY <1>1, <1>2 DEF Parted, PutAside

\* The constructs a step drops take no part in it.
LEMMA CutParted ==
    ASSUME Shape, AllParted, NEW k \in 1..Depth, stack' = SubSeq(stack, 1, k)
    PROVE  AllParted'
  <1>1. /\ Len(stack') = k /\ k \in Nat /\ k <= Depth /\ Depth \in Nat
        /\ \A i \in 1..k : stack'[i] = stack[i]
    BY Plain, CutStack
  <1>2. Depth' = k
    BY <1>1 DEF Depth
  <1> QED BY <1>1, <1>2, BelowParted DEF AllParted

\* A part other than retPath, of anything but a try, ...
LEMMA PartParted ==
    ASSUME Shape, AllParted, NEW p \in Parts \ {"retPath"}, Part(p),
           p # "run" => Top.kind # "try"
    PROVE  AllParted'
  <1>1. /\ stack \in Seq(Construct) /\ Depth = Len(stack) /\ Depth \in Nat \ {0}
        /\ Top = stack[Depth]
    BY Plain
  <1>2. /\ Len(stack') = Depth /\ stack'[Depth].part = p
        /\ stack'[Depth].kind = stack[Depth].kind
        /\ \A i \in 1..(Depth - 1) : stack'[i] = stack[i]
    BY <1>1, PartStack DEF Part, Same
  <1>3. \A i \in 1..(Depth - 1) : Parted(i)'
    BY <1>1, <1>2, BelowParted
  <1>4. Parted(Depth)'
    BY <1>1, <1>2 DEF Parted, PutAside, Depth
  <1> QED BY <1>1, <1>2, <1>3, <1>4 DEF AllParted, Depth

\* ... or a construct that starts, disturbs nobody, if the one that starts it
\* is in order itself.
LEMMA PushParted ==
    ASSUME Shape, AllParted, NEW base \in Seq(Construct), Same(stack, base),
           NEW k \in Kinds, NEW own \in BOOLEAN, Push(base, k, own),
           \A i \in 1..(Depth - 1) : base[i] = stack[i],
           base[Depth].kind = "try" => base[Depth].part = "run",
           base[Depth].part = "retPath" =>
               base[Depth].kind \in Foldable /\ \E f \in 1..Depth : Returns(f, Depth)
    PROVE  AllParted'
  <1> DEFINE c == [kind |-> k, part |-> FirstPart(k), own |-> own, saved |-> attrs]
  <1>1. /\ stack \in Seq(Construct) /\ Depth = Len(stack) /\ Depth \in Nat \ {0}
        /\ Len(base) = Depth /\ attrs \in 0..MaxDepth
    BY Plain, BoundsAssumption DEF Same, Shape, TypeOK
  <1>2. /\ c \in Construct /\ c.part # "retPath" /\ (c.kind = "try" => c.part = "run")
    BY <1>1 DEF Construct, FirstPart, Parts
  <1>3. stack' = Append(base, c)
    BY DEF Push
  <1> HIDE DEF c
  <1>4. /\ Len(stack') = Depth + 1 /\ stack'[Depth + 1] = c
        /\ \A i \in 1..Depth : stack'[i] = base[i]
    BY <1>1, <1>2, <1>3, PushStack
  <1>5. \A i \in 1..(Depth - 1) : Parted(i)'
    <2>1. /\ Depth - 1 \in Nat /\ Depth - 1 <= Depth
          /\ \A i \in 1..(Depth - 1) : stack'[i] = stack[i]
      BY <1>1, <1>4
    <2> QED BY <1>1, <2>1, BelowParted
  <1>6. ASSUME NEW i \in {Depth + 1} PROVE Parted(i)'
    BY <1>2, <1>4, <1>6 DEF Parted, PutAside
  <1>7. ASSUME NEW i \in {Depth} PROVE Parted(i)'
    <2>1. i = Depth /\ i \in Nat \ {0} /\ stack'[i] = base[i]
      BY <1>1, <1>4
    <2>2. ASSUME NEW f \in 1..i, Returns(f, i) PROVE Returns(f, i)'
      <3>1. \A j \in 1..i : stack'[j].kind = stack[j].kind
        BY <1>1, <1>4, <2>1 DEF Same
      <3>2. \A j \in 1..i : j # i => stack'[j] = stack[j]
        BY <1>1, <1>4, <2>1
      <3> QED BY <2>2, <3>1, <3>2 DEF Returns, AtStatement
    <2> QED BY <2>1, <2>2 DEF Parted, PutAside
  <1>8. \A i \in 1..(Depth + 1) : i \in 1..(Depth - 1) \/ i \in {Depth} \/ i \in {Depth + 1}
    BY <1>1
  <1>9. Depth' = Depth + 1
    BY <1>4 DEF Depth
  <1> QED BY <1>5, <1>6, <1>7, <1>8, <1>9 DEF AllParted

\* A construct that is over clears the signal it owns and keeps the others.
LEMMA LeavesRaised ==
    ASSUME Shape, Raised, Leaves
    PROVE  Raised'
  <1>1. /\ stack \in Seq(Construct) /\ Depth = Len(stack) /\ Depth \in Nat \ {0}
        /\ Top = stack[Depth]
    BY Plain
  <1>2. /\ Depth - 1 \in 1..Depth /\ stack' = SubSeq(stack, 1, Depth - 1) /\ back'
        /\ flags' = flags \ AtExit(Top.kind, flags)
    BY <1>1 DEF Leaves, Pop
  <1>3. CASE flags = {}
    BY <1>2, <1>3 DEF Raised
  <1>4. ASSUME NEW s \in SignalSet, flags = {s}, NEW f \in 1..Depth, Waits(f, s)
        PROVE  Raised'
    <2>1. CASE f = Depth
      <3>1. Top.kind \in Owners(s) /\ AtStatement(Depth, s)
        BY <1>1, <1>4, <2>1 DEF Waits
      <3>2. Top.kind # "storedLoop"
        BY <3>1, <1>1 DEF AtStatement, Polling, Compiled, Foldable
      <3>3. s \in AtExit(Top.kind, flags)
        BY <3>1, <3>2, <1>4 DEF AtExit, Owners, SignalSet, Loops, Compiled
      <3> QED BY <1>2, <1>4, <3>3 DEF Raised
    <2>2. CASE f # Depth
      <3>1. Top.kind \notin Owners(s) \cup {"body"}
        BY <1>1, <1>4, <2>2 DEF Waits
      <3>2. s \notin AtExit(Top.kind, flags)
        BY <3>1, <1>4 DEF AtExit, Owners, SignalSet, Loops, Compiled
      <3>3. flags' = {s}
        BY <1>2, <1>4, <3>2
      <3>4. Depth' = Depth - 1 /\ \A i \in 1..(Depth - 1) : stack'[i] = stack[i]
        BY <1>1, <1>2, CutStack DEF Depth
      <3>5. f \in 1..(Depth - 1)
        BY <1>1, <2>2
      <3>6. Waits(f, s)'
        BY <1>1, <1>4, <3>4, <3>5, SMTT(30) DEF Waits, AtStatement
      <3> QED BY <1>2, <3>3, <3>4, <3>5, <3>6 DEF Raised
    <2> QED BY <2>1, <2>2
  <1> QED BY <1>3, <1>4 DEF Raised

\* Whoever runs something else than its statement sees no flag.
LEMMA BusySeesNone ==
    ASSUME Shape, Raised,
           \/ ~back
           \/ Top.kind \in {"storedLoop", "plain", "tail"}
           \/ Top.part \notin {"run", "cond"} /\ Top.kind # "try"
    PROVE  flags = {}
  <1>1. Depth \in 1..Depth /\ Top = stack[Depth]
    BY Plain
  <1>2. ASSUME back, NEW s \in SignalSet, NEW f \in 1..Depth, Waits(f, s) PROVE FALSE
    <2>1. AtStatement(Depth, s)
      BY <1>1, <1>2 DEF Waits
    <2>2. \/ Top.kind = "try"
          \/ Top.kind \in Polling /\ Top.part \in {"run", "cond"}
      BY <1>1, <2>1 DEF AtStatement
    <2>3. Polling \cap {"storedLoop", "plain", "tail"} = {}
      BY DEF Polling, Compiled, Foldable
    <2> QED BY <1>2, <2>2, <2>3
  <1> QED BY <1>2 DEF Raised

\* No signal is raised at the start.
LEMMA InitStopping == Init => Stopping
  <1> SUFFICES ASSUME Init PROVE Stopping
    OBVIOUS
  <1>1. Depth = 1 /\ stack[1].kind = "seq" /\ stack[1].part = "run" /\ flags = {}
    BY DEF Init, Depth
  <1> QED BY <1>1, InitShape DEF Stopping, AllParted, Parted, PutAside, Raised

\* The steps that change the flags or the parts of the stack, one by one.
LEMMA NextStopping == ~Anywhere /\ Stopping /\ [Next]_vars => Stopping'
  <1> SUFFICES ASSUME ~Anywhere, Stopping, [Next]_vars PROVE Stopping'
    OBVIOUS
  <1>0. /\ Shape /\ AllParted /\ Raised /\ Shape'
    BY NextShape DEF Stopping
  <1>a. /\ stack \in Seq(Construct) /\ Depth = Len(stack) /\ Depth \in Nat \ {0}
        /\ Top = stack[Depth] /\ flags \subseteq SignalSet
        /\ Depth \in 1..Len(stack) /\ Parted(Depth)
    BY <1>0, Plain DEF AllParted
  <1>k. /\ {"seq", "tail", "body", "try"} \subseteq Kinds
        /\ "try" \notin Foldable \cup Loops
    BY DEF Kinds, Polling, Foldable, Loops, Compiled
  <1>s. ASSUME stack' = stack PROVE AllParted'
    BY <1>s, <1>0 DEF AllParted, Parted, PutAside, Returns, AtStatement, Depth
  <1>l. ASSUME Leaves PROVE Stopping'
    <2>1. Depth - 1 \in 1..Depth /\ stack' = SubSeq(stack, 1, Depth - 1)
      BY <1>a, <1>l DEF Leaves, Pop
    <2> QED BY <1>0, <1>l, <2>1, CutParted, LeavesRaised DEF Stopping
  <1>p. ASSUME NEW p \in Parts, NEW k \in Kinds, flags = {}, Top.kind # "try",
               Push([stack EXCEPT ![Depth].part = p], k, FALSE),
               p = "retPath" =>
                   Top.kind \in Foldable /\ \E f \in 1..Depth : Returns(f, Depth)
        PROVE  Stopping'
    <2> DEFINE base == [stack EXCEPT ![Depth].part = p]
    <2>1. /\ base \in Seq(Construct) /\ Same(stack, base) /\ base[Depth].part = p
          /\ \A i \in 1..Depth : base[i].kind = stack[i].kind
          /\ \A i \in 1..Depth : i # Depth => base[i] = stack[i]
      BY <1>0, PartTop
    <2>2. base[Depth].kind = Top.kind /\ \A i \in 1..(Depth - 1) : base[i] = stack[i]
      BY <1>a, <2>1
    <2>4. flags' = {}
      BY <1>p DEF Push
    <2> HIDE DEF base
    <2>5. AllParted'
      BY <1>0, <1>p, <2>1, <2>2, PushParted DEF base
    <2> QED BY <1>0, <2>4, <2>5 DEF Stopping, Raised
  <1>1. ASSUME NEW k \in Kinds, NEW own \in BOOLEAN, Enter(k, own) PROVE Stopping'
    <2>1. flags = {} /\ Push(stack, k, own) /\ Same(stack, stack)
      BY <1>0, <1>1, BusySeesNone DEF Enter, Same
    <2>2. AllParted'
      BY <1>0, <1>a, <2>1, PushParted DEF Parted, PutAside
    <2>3. flags' = {}
      BY <2>1 DEF Push
    <2> QED BY <1>0, <2>2, <2>3 DEF Stopping, Raised
  <1>2. ASSUME NEW s \in SignalSet, Raise(s) PROVE Stopping'
    <2>1. flags = {} /\ flags' = {s} /\ back' /\ stack' = stack
      BY <1>0, <1>2, BusySeesNone DEF Raise
    <2>2. PICK f \in 1..Depth : Waits(f, s)
      BY <1>0, <1>2, MayRaiseWaits DEF Raise
    <2>3. Depth' = Depth /\ Waits(f, s)'
      BY <2>1, <2>2 DEF Waits, AtStatement, Depth
    <2> QED BY <1>0, <1>s, <2>1, <2>3 DEF Stopping, Raised
  <1>3. CASE Statement
    BY <1>0, <1>3, <1>s, BusySeesNone DEF Statement, Stopping, Raised
  <1>4. CASE NextStatement
    <2>1. flags = {}
      <3>1. CASE Top.kind \in Polling \cup {"tail"}
        BY <1>4, <3>1 DEF NextStatement, GoesOn
      <3>2. CASE Top.kind \in {"storedLoop", "plain"}
        BY <1>0, <3>2, BusySeesNone
      <3>3. Top.kind \in Kinds /\ Top.kind # "try"
        <4>1. Top \in Construct
          BY <1>a
        <4> QED BY <1>4, <4>1 DEF Construct, NextStatement
      <3> QED BY <3>1, <3>2, <3>3 DEF Kinds
    <2> QED BY <1>0, <1>4, <1>s, <2>1 DEF NextStatement, Stopping, Raised
  <1>5. CASE SequenceEnds \/ LoopEnds \/ CondStops \/ TailReturns \/ Folded
    BY <1>5, <1>l DEF SequenceEnds, LoopEnds, CondStops, TailReturns, Folded
  <1>6. CASE NextRound
    <2>1. AfterRound(Top.kind) \in Parts \ {"retPath"} /\ Top.kind # "try"
      BY <1>6, <1>k DEF AfterRound, Parts, NextRound
    <2>2. AllParted'
      BY <1>0, <1>6, <2>1, PartParted DEF NextRound
    <2>3. flags' = {}
      <3>1. CASE flags = {}
        BY <1>6, <3>1 DEF NextRound
      <3>2. ASSUME NEW s \in SignalSet, flags = {s}, NEW f \in 1..Depth, Waits(f, s)
            PROVE  flags' = {}
        <4>1. AtStatement(Depth, s) /\ Top.kind \in Loops /\ Top.kind # "storedLoop"
          BY <1>a, <1>6, <1>k, <3>2
             DEF Waits, NextRound, AtStatement, Polling, Compiled, Foldable
        <4>2. s = "cont"
          BY <1>6, <3>2, <4>1 DEF NextRound, IsLast, SignalSet
        <4> QED BY <1>6, <3>2, <4>1, <4>2 DEF NextRound
      <3> QED BY <1>0, <3>1, <3>2 DEF Raised
    <2> QED BY <1>0, <2>2, <2>3 DEF Stopping, Raised
  <1>7. CASE CondGoesOn
    <2>1. AllParted'
      BY <1>0, <1>7, PartParted DEF CondGoesOn, Parts
    <2>2. flags = {}
      <3>1. ASSUME NEW s \in SignalSet, flags = {s}, NEW f \in 1..Depth, Waits(f, s)
            PROVE  FALSE
        <4>1. AtStatement(Depth, s) /\ Top.part = "cond" /\ Top.kind # "try"
          BY <1>a, <1>7, <3>1 DEF Waits, CondGoesOn, Parted
        <4>2. s = "ret" /\ Top.kind \in Polling
          BY <1>a, <4>1 DEF AtStatement
        <4>3. Top.kind # "storedLoop"
          BY <4>2 DEF Polling, Compiled, Foldable
        <4> QED BY <1>7, <3>1, <4>2, <4>3 DEF CondGoesOn, IsLast
      <3> QED BY <1>0, <3>1 DEF Raised
    <2> QED BY <1>0, <1>7, <2>1, <2>2 DEF CondGoesOn, Stopping, Raised
  <1>8. CASE PathCall
    BY <1>8, <1>p, <1>k DEF PathCall, PathTail, Parts
  <1>9. CASE ReturnPath
    <2>1. flags = {} /\ Top.kind \in Foldable /\ Top.kind # "try"
      BY <1>0, <1>9, <1>k, BusySeesNone DEF ReturnPath, PathTail
    <2>2. PICK f \in 1..Depth : Waits(f, "ret")
      BY <1>0, <1>9, MayRaiseWaits DEF ReturnPath, SignalSet
    <2>3. Returns(f, Depth)
      BY <1>a, <2>2 DEF Waits, Returns, Owners
    <2> QED BY <1>9, <1>p, <1>k, <2>1, <2>3 DEF ReturnPath, PathTail, Parts
  <1>10. CASE TailApplies
    BY <1>10, <1>p, <1>k DEF TailApplies, Parts
  <1>11. CASE PathCallDone
    <2>1. flags = {}
      BY <1>0, <1>a, <1>11, BusySeesNone DEF PathCallDone, Parted
    <2>2. ASSUME Part("run"), flags' = flags PROVE Stopping'
      BY <1>0, <2>1, <2>2, PartParted DEF Parts, Stopping, Raised
    <2> QED BY <1>11, <1>l, <2>2 DEF PathCallDone
  <1>12. CASE ReturnAgain
    <2>1. flags = {} /\ Top.kind # "try"
      BY <1>0, <1>a, <1>12, BusySeesNone DEF ReturnAgain, Parted
    <2>2. AllParted'
      BY <1>0, <1>12, PartParted DEF ReturnAgain, Parts
    <2>3. Top.kind \in Foldable /\ \E f \in 1..Depth : Returns(f, Depth)
      BY <1>a, <1>12 DEF ReturnAgain, Parted, PutAside
    <2>4. PICK f \in 1..Depth : Returns(f, Depth)
      BY <2>3
    <2>5. /\ Len(stack') = Depth /\ stack'[Depth].part = "run"
          /\ \A i \in 1..Depth : stack'[i].kind = stack[i].kind
          /\ \A i \in 1..Depth : i # Depth => stack'[i] = stack[i]
      BY <1>0, <1>12, PartTop DEF ReturnAgain, Part, Parts
    <2>7. Depth' = Depth
      BY <2>5 DEF Depth
    <2>8. ASSUME NEW i \in 1..Depth, i >= f PROVE AtStatement(i, "ret")'
      <3>1. CASE i # Depth
        BY <1>a, <2>4, <2>5, <2>8, <3>1 DEF Returns, AtStatement
      <3>2. CASE i = Depth
        BY <1>a, <2>3, <2>5, <3>2 DEF AtStatement, Polling
      <3> QED BY <3>1, <3>2
    <2>9. Waits(f, "ret")'
      BY <1>a, <2>4, <2>5, <2>7, <2>8 DEF Waits, Owners, Returns
    <2>10. flags' = {"ret"} /\ back'
      BY <1>12, <2>1 DEF ReturnAgain
    <2> QED BY <1>0, <2>2, <2>7, <2>9, <2>10 DEF Stopping, Raised, SignalSet
  <1>13. CASE Fold
    BY <1>13, <1>p, <1>k DEF Fold, FoldsValues, Parts
  <1>14. CASE Die
    <2> DEFINE t == Innermost(stack, {"try"})
    <2>1. flags = {} /\ flags' = {}
      BY <1>0, <1>14, BusySeesNone DEF Die
    <2>2. t \in 1..Depth /\ stack[t].kind = "try"
      BY <1>a, <1>0, <1>14, <1>k, InnermostIs DEF Die, Shape
    <2>3. t - 1 \in 1..Depth
      BY <1>0, <1>a, <2>2 DEF Shape
    <2>4. stack' = SubSeq(stack, 1, t - 1)
      BY <1>14 DEF Die
    <2> HIDE DEF t
    <2>5. AllParted'
      BY <1>0, <2>3, <2>4, CutParted
    <2> QED BY <1>0, <2>1, <2>5 DEF Stopping, Raised
  <1>15. CASE UNCHANGED vars
    <2>1. Raised'
      BY <1>0, <1>15 DEF Raised, Waits, AtStatement, Depth, vars
    <2> QED BY <1>0, <1>15, <1>s, <2>1 DEF vars, Stopping
  <1> QED
    BY <1>1, <1>2, <1>3, <1>4, <1>5, <1>6, <1>7, <1>8, <1>9, <1>10, <1>11,
       <1>12, <1>13, <1>14, <1>15 DEF Next

\* In a program that raises signals where a statement may stand, no code runs
\* between a signal and its owner, on a C stack of any depth.
THEOREM NoCodeAfterSignal == ~Anywhere => (Spec => []RaisedStopsAll)
  <1> SUFFICES ASSUME ~Anywhere PROVE Spec => []RaisedStopsAll
    OBVIOUS
  <1>1. Stopping => RaisedStopsAll
    BY DEF Stopping, Raised, RaisedStopsAll
  <1>2. Stopping /\ [Next]_vars => Stopping'
    BY NextStopping
  <1> QED BY <1>1, <1>2, InitStopping, PTL DEF Spec

-----------------------------------------------------------------------------
(* Signals implements Control, if signals are raised in statement position. *)

\* Of the constructs above n the abstract program knows nothing.
Seen(st, n) == [i \in 1..n |-> Class(st[i].kind)]

-----------------------------------------------------------------------------
(* What the refinement mapping sees                                        *)

\* The owner a signal waits for is the one Owner computes.
LEMMA OwnerWaits ==
    ASSUME Shape, NEW s \in SignalSet, NEW f \in 1..Depth, Waits(f, s)
    PROVE  Owner(stack, s) = f
  <1> DEFINE b == Innermost(stack, {"body"})
             l == Innermost(stack, Loops)
  <1>1. /\ stack \in Seq(Construct) /\ Depth = Len(stack) /\ Depth \in Nat \ {0}
        /\ HasLast(stack)
    BY Plain
  <1>2. /\ {"body"} \in SUBSET Kinds /\ Loops \in SUBSET Kinds
        /\ "body" \notin Loops
    BY DEF Kinds, Polling, Loops, Compiled, Foldable
  <1>3. \/ b = 0 /\ \A i \in 1..Depth : stack[i].kind \notin {"body"}
        \/ /\ b \in 1..Depth /\ stack[b].kind \in {"body"}
           /\ \A i \in 1..Depth : stack[i].kind \in {"body"} => i <= b
    BY <1>1, <1>2, InnermostIs
  <1>4. \/ l = 0 /\ \A i \in 1..Depth : stack[i].kind \notin Loops
        \/ /\ l \in 1..Depth /\ stack[l].kind \in Loops
           /\ \A i \in 1..Depth : stack[i].kind \in Loops => i <= l
    BY <1>1, <1>2, InnermostIs
  <1>5. Owner(stack, s) = IF s = "ret" THEN b ELSE IF l > b THEN l ELSE 0
    BY DEF Owner
  <1>6. /\ stack[f].kind \in Owners(s)
        /\ \A i \in 1..Depth : i > f => stack[i].kind \notin Owners(s) \cup {"body"}
    BY DEF Waits
  <1> HIDE DEF b, l
  <1>7. CASE s = "ret"
    <2>1. b \in 1..Depth /\ f <= b
      BY <1>1, <1>3, <1>6, <1>7 DEF Owners
    <2>2. ~(b > f)
      BY <1>3, <1>6, <1>7, <2>1
    <2> QED BY <1>1, <1>5, <1>7, <2>1, <2>2
  <1>8. CASE s # "ret"
    <2>1. l \in 1..Depth /\ f <= l
      BY <1>1, <1>4, <1>6, <1>8 DEF Owners
    <2>2. ~(l > f)
      BY <1>4, <1>6, <1>8, <2>1 DEF Owners
    <2>3. b < f
      <3>1. CASE b = 0
        BY <1>1, <3>1
      <3>2. CASE b \in 1..Depth /\ stack[b].kind \in {"body"}
        <4>1. ~(b > f) /\ b # f
          BY <1>2, <1>6, <1>8, <3>2 DEF Owners
        <4> QED BY <1>1, <3>2, <4>1
      <3> QED BY <1>3, <3>1, <3>2
    <2>4. l = f
      BY <1>1, <2>1, <2>2
    <2> QED BY <1>1, <1>5, <1>8, <2>3, <2>4
  <1> QED BY <1>7, <1>8

\* So does it after a step.
LEMMA OwnerWaitsNext ==
    (\A s \in SignalSet : \A f \in 1..Depth : Shape /\ Waits(f, s) => Owner(stack, s) = f)'
  <1>1. \A s \in SignalSet : \A f \in 1..Depth : Shape /\ Waits(f, s) => Owner(stack, s) = f
    BY OwnerWaits
  <1> QED BY <1>1, PTL

\* While nothing is raised all constructs are seen; a raised signal hides
\* those it leaves.
LEMMA ArrivedIs ==
    ASSUME Shape
    PROVE  /\ flags = {} => nestBar = Seen(stack, Depth)
           /\ \A s \in SignalSet : \A f \in 1..Depth :
                 flags = {s} /\ Waits(f, s)
                   => nestBar = Seen(stack, IF s = "cont" THEN f ELSE f - 1)
  <1>1. nestBar = Seen(stack, Arrived)
    BY DEF nestBar, Seen
  <1>2. flags = {} => Arrived = Depth
    BY DEF Arrived
  <1>3. ASSUME NEW s \in SignalSet, NEW f \in 1..Depth, flags = {s}, Waits(f, s)
        PROVE  Arrived = IF s = "cont" THEN f ELSE f - 1
    <2>1. Owner(stack, s) = f
      BY <1>3, OwnerWaits
    <2>2. CASE s = "ret"
      BY <1>3, <2>1, <2>2 DEF Arrived
    <2>3. CASE s = "brk"
      BY <1>3, <2>1, <2>3 DEF Arrived
    <2>4. CASE s = "cont"
      BY <1>3, <2>1, <2>4 DEF Arrived
    <2> QED BY <2>2, <2>3, <2>4 DEF SignalSet
  <1> QED BY <1>1, <1>2, <1>3

LEMMA SeenIs ==
    ASSUME NEW st, NEW n \in Nat
    PROVE  /\ Seen(st, n) \in Seq({"function", "loop", "try", "block"})
           /\ Len(Seen(st, n)) = n
           /\ \A i \in 1..n : Seen(st, n)[i] = Class(st[i].kind)
  <1>1. \A i \in 1..n : Class(st[i].kind) \in {"function", "loop", "try", "block"}
    BY DEF Class
  <1>2. Seen(st, n) \in [1..n -> {"function", "loop", "try", "block"}]
    BY <1>1 DEF Seen
  <1>3. Seen(st, n) \in Seq({"function", "loop", "try", "block"})
    BY <1>2
  <1>4. DOMAIN Seen(st, n) = 1..n /\ Len(Seen(st, n)) \in Nat
    BY <1>2, <1>3
  <1>5. Len(Seen(st, n)) = n
    BY <1>2, <1>3, <1>4
  <1> QED BY <1>3, <1>5 DEF Seen

\* Below m both stacks have the same kinds: the one is seen as the other up
\* to there.
LEMMA SeenCut ==
    ASSUME NEW s, NEW t, NEW n \in Nat, NEW m \in 0..n,
           \A i \in 1..m : t[i].kind = s[i].kind
    PROVE  Seen(t, m) = SubSeq(Seen(s, n), 1, m)
  <1>1. /\ Seen(s, n) \in Seq({"function", "loop", "try", "block"})
        /\ Len(Seen(s, n)) = n /\ \A i \in 1..n : Seen(s, n)[i] = Class(s[i].kind)
    BY SeenIs
  <1>2. SubSeq(Seen(s, n), 1, m) = [i \in 1..m |-> Seen(s, n)[i]]
    BY <1>1
  <1>3. \A i \in 1..m : Seen(s, n)[i] = Class(t[i].kind)
    BY <1>1
  <1> QED BY <1>2, <1>3 DEF Seen

LEMMA SeenSame ==
    ASSUME NEW s, NEW t, NEW n \in Nat, \A i \in 1..n : t[i].kind = s[i].kind
    PROVE  Seen(t, n) = Seen(s, n)
  BY DEF Seen

LEMMA SeenPush ==
    ASSUME NEW s, NEW t, NEW n \in Nat, \A i \in 1..n : t[i].kind = s[i].kind
    PROVE  Seen(t, n + 1) = Append(Seen(s, n), Class(t[n + 1].kind))
  <1>1. /\ Seen(s, n) \in Seq({"function", "loop", "try", "block"})
        /\ Len(Seen(s, n)) = n /\ \A i \in 1..n : Seen(s, n)[i] = Class(s[i].kind)
    BY SeenIs
  <1>2. Append(Seen(s, n), Class(t[n + 1].kind))
          = [i \in 1..(n + 1) |-> IF i = n + 1 THEN Class(t[n + 1].kind) ELSE Seen(s, n)[i]]
    BY <1>1
  <1>3. \A i \in 1..(n + 1) :
          Class(t[i].kind) = IF i = n + 1 THEN Class(t[n + 1].kind) ELSE Seen(s, n)[i]
    BY <1>1
  <1> QED BY <1>2, <1>3 DEF Seen

-----------------------------------------------------------------------------
(* The steps                                                               *)

\* Stacks whose constructs are of the same kinds are seen alike.
SameKinds(n) == \A i \in 1..n : stack'[i].kind = stack[i].kind

\* Classes tell apart what Control does.
LEMMA Classes ==
    \A k : /\ Class(k) \in {"function", "loop", "try", "block"}
           /\ Class(k) = "function" <=> k = "body"
           /\ Class(k) = "loop" <=> k \in Loops
           /\ Class(k) = "try" <=> k = "try"
  BY DEF Class, Loops, Compiled

\* Nothing is raised: the abstract program has the same constructs.
LEMMA Calm ==
    ASSUME Shape, flags = {}
    PROVE  /\ Depth \in Nat \ {0} /\ nestBar = Seen(stack, Depth) /\ Len(nestBar) = Depth
           /\ \A i \in 1..Depth : nestBar[i] = Class(stack[i].kind)
  BY Plain, ArrivedIs, SeenIs

\* A construct starts.
LEMMA StartsOne ==
    ASSUME Shape, Shape', flags = {}, flags' = {}, NEW k \in Kinds,
           Depth' = Depth + 1, SameKinds(Depth), stack'[Depth + 1].kind = k
    PROVE  Lang!Next
  <1>1. Depth \in Nat /\ nestBar = Seen(stack, Depth)
    BY Calm
  <1>2. nestBar' = Seen(stack', Depth + 1)
    BY DEF Seen, nestBar, Arrived
  <1>3. nestBar' = Append(nestBar, Class(k))
    BY <1>1, <1>2, SeenPush DEF SameKinds
  <1> QED BY <1>3, Classes DEF Lang!Next, Lang!Enter, Lang!Constructs

\* Nothing happens that Control could see.
LEMMA Unseen ==
    ASSUME Shape, flags = {}, flags' = {}, Depth' = Depth, SameKinds(Depth)
    PROVE  nestBar' = nestBar
  <1>1. Depth \in Nat /\ nestBar = Seen(stack, Depth)
    BY Calm
  <1>2. nestBar' = Seen(stack', Depth)
    BY DEF Seen, nestBar, Arrived
  <1> QED BY <1>1, <1>2, SeenSame DEF SameKinds

\* A signal is raised: it arrives at once.
LEMMA ArrivesAtOnce ==
    ASSUME Shape, Shape', flags = {}, NEW s \in SignalSet, flags' = {s},
           NEW f \in 1..Depth, Waits(f, s)', Depth' = Depth, SameKinds(Depth)
    PROVE  Lang!Next
  <1> DEFINE m == IF s = "cont" THEN f ELSE f - 1
  <1>1. /\ Depth \in Nat \ {0} /\ nestBar = Seen(stack, Depth) /\ Len(nestBar) = Depth
        /\ \A i \in 1..Depth : nestBar[i] = Class(stack[i].kind)
    BY Calm
  <1>2. Owner(stack, s)' = f
    BY OwnerWaitsNext
  <1>3. nestBar' = Seen(stack', m)
    BY <1>2 DEF nestBar, Seen, Arrived, SignalSet
  <1>4. nestBar' = SubSeq(nestBar, 1, m)
    <2>1. m \in 0..Depth /\ Depth \in Nat
      BY <1>1
    <2> HIDE DEF m
    <2>2. \A i \in 1..m : stack'[i].kind = stack[i].kind
      BY <2>1 DEF SameKinds
    <2> QED BY <1>1, <1>3, <2>1, <2>2, SeenCut
  <1>5. /\ stack[f].kind \in Owners(s)
        /\ \A i \in 1..Depth : i > f => stack[i].kind \notin Owners(s) \cup {"body"}
    BY DEF Waits, SameKinds
  <1>6. CASE s = "ret"
    <2>1. nestBar[f] = "function" /\ \A i \in 1..Depth : nestBar[i] = "function" => i <= f
      BY <1>1, <1>5, <1>6, Classes DEF Owners
    <2>2. Lang!IsInnermost(f, "function")
      BY <1>1, <2>1 DEF Lang!IsInnermost, Lang!Active
    <2> QED BY <1>1, <1>4, <1>6, <2>2 DEF Lang!Next, Lang!Return, Lang!Leave, SignalSet
  <1>7. CASE s # "ret"
    <2>1. /\ nestBar[f] = "loop" /\ \A i \in 1..Depth : nestBar[i] = "loop" => i <= f
          /\ \A i \in 1..Depth : nestBar[i] = "function" => i <= f
      BY <1>1, <1>5, <1>7, Classes DEF Owners
    <2>2. Lang!IsOwnLoop(f)
      BY <1>1, <2>1 DEF Lang!IsOwnLoop, Lang!IsInnermost, Lang!Active
    <2> QED BY <1>1, <1>4, <1>7, <2>2
            DEF Lang!Next, Lang!Break, Lang!Continue, Lang!Leave, Lang!BackTo, SignalSet
  <1> QED BY <1>6, <1>7

\* A construct is over: Control sees it, unless a signal has left it before.
LEMMA LeavesSeen ==
    ASSUME Shape, Shape', Raised, Leaves
    PROVE  Lang!Next \/ nestBar' = nestBar
  <1>1. /\ stack \in Seq(Construct) /\ Depth = Len(stack) /\ Depth \in Nat \ {0}
        /\ Top = stack[Depth]
    BY Plain
  <1>2. /\ Depth > 1 /\ stack' = SubSeq(stack, 1, Depth - 1) /\ back'
        /\ flags' = flags \ AtExit(Top.kind, flags)
    BY <1>1 DEF Leaves, Pop
  <1>3. Depth' = Depth - 1 /\ SameKinds(Depth - 1) /\ Depth - 1 \in 0..Depth
    BY <1>1, <1>2, CutStack DEF Depth, SameKinds
  <1>6. Seen(stack', Depth - 1) = SubSeq(Seen(stack, Depth), 1, Depth - 1)
    <2>1. Depth \in Nat /\ Depth - 1 \in 0..Depth
      BY <1>1, <1>3
    <2>2. \A i \in 1..(Depth - 1) : stack'[i].kind = stack[i].kind
      BY <1>3 DEF SameKinds
    <2> QED BY <2>1, <2>2, SeenCut
  <1>4. CASE flags = {}
    <2>1. nestBar = Seen(stack, Depth) /\ Len(nestBar) = Depth
      BY <1>4, Calm
    <2>2. nestBar' = Seen(stack', Depth - 1)
      BY <1>2, <1>3, <1>4 DEF nestBar, Seen, Arrived
    <2>3. nestBar' = SubSeq(nestBar, 1, Depth - 1)
      BY <1>6, <2>1, <2>2
    <2> QED BY <1>2, <2>1, <2>3 DEF Lang!Next, Lang!Finish, Lang!Leave
  <1>5. ASSUME NEW s \in SignalSet, flags = {s}, NEW f \in 1..Depth, Waits(f, s)
        PROVE  Lang!Next \/ nestBar' = nestBar
    <2>1. CASE f = Depth
      <3>1. flags' = {}
        <4>1. Top.kind \in Owners(s) /\ AtStatement(Depth, s)
          BY <1>1, <1>5, <2>1 DEF Waits
        <4>2. Top.kind # "storedLoop"
          BY <4>1, <1>1 DEF AtStatement, Polling, Compiled, Foldable
        <4>3. s \in AtExit(Top.kind, flags)
          BY <4>1, <4>2, <1>5 DEF AtExit, Owners, SignalSet, Loops, Compiled
        <4> QED BY <1>2, <1>5, <4>3
      <3>2. nestBar' = Seen(stack', Depth - 1)
        BY <1>3, <3>1 DEF nestBar, Seen, Arrived
      <3>3. CASE s # "cont"
        <4>1. nestBar = Seen(stack, Depth - 1)
          BY <1>5, <2>1, <3>3, ArrivedIs
        <4> QED BY <1>3, <3>2, <4>1, SeenSame DEF SameKinds
      <3>4. CASE s = "cont"
        <4>1. nestBar = Seen(stack, Depth) /\ Len(nestBar) = Depth
          BY <1>1, <1>5, <2>1, <3>4, ArrivedIs, SeenIs
        <4>2. nestBar' = SubSeq(nestBar, 1, Depth - 1)
          BY <1>6, <3>2, <4>1
        <4> QED BY <1>2, <4>1, <4>2 DEF Lang!Next, Lang!Finish, Lang!Leave
      <3> QED BY <3>3, <3>4
    <2>2. CASE f # Depth
      <3> DEFINE m == IF s = "cont" THEN f ELSE f - 1
      <3>1. Top.kind \notin Owners(s) \cup {"body"}
        BY <1>1, <1>5, <2>2 DEF Waits
      <3>2. s \notin AtExit(Top.kind, flags)
        BY <3>1, <1>5 DEF AtExit, Owners, SignalSet, Loops, Compiled
      <3>3. flags' = {s}
        BY <1>2, <1>5, <3>2
      <3>4. f \in 1..(Depth - 1) /\ \A i \in 1..(Depth - 1) : stack'[i] = stack[i]
        BY <1>1, <1>2, <2>2, CutStack
      <3>5. Waits(f, s)'
        BY <1>1, <1>3, <1>5, <3>4 DEF Waits, AtStatement
      <3>6. Owner(stack, s)' = f
        BY <1>3, <3>4, <3>5, OwnerWaitsNext
      <3>7. nestBar' = Seen(stack', m)
        BY <3>3, <3>6 DEF nestBar, Seen, Arrived, SignalSet
      <3>8. nestBar = Seen(stack, m)
        BY <1>5, ArrivedIs
      <3>9. m \in Nat /\ \A i \in 1..m : stack'[i].kind = stack[i].kind
        BY <1>1, <3>4
      <3> QED BY <3>7, <3>8, <3>9, SeenSame
    <2> QED BY <2>1, <2>2
  <1> QED BY <1>4, <1>5 DEF Raised

LEMMA PushSeen ==
    ASSUME Shape, Shape', flags = {}, NEW base \in Seq(Construct), Same(stack, base),
           NEW k \in Kinds, NEW own \in BOOLEAN, Push(base, k, own)
    PROVE  Lang!Next
  <1> DEFINE c == [kind |-> k, part |-> FirstPart(k), own |-> own, saved |-> attrs]
  <1>1. Depth = Len(base) /\ Depth = Len(stack) /\ Depth \in Nat /\ attrs \in 0..MaxDepth
    BY Plain, BoundsAssumption DEF Same, Shape, TypeOK
  <1>2. c \in Construct /\ c.kind = k
    BY <1>1 DEF Construct, FirstPart, Parts
  <1>3. stack' = Append(base, c) /\ flags' = {}
    BY DEF Push
  <1> HIDE DEF c
  <1>4. /\ Depth' = Depth + 1 /\ stack'[Depth + 1] = c
        /\ \A i \in 1..Depth : stack'[i] = base[i]
    BY <1>1, <1>2, <1>3, PushStack DEF Depth
  <1>5. SameKinds(Depth)
    BY <1>1, <1>4 DEF SameKinds, Same
  <1> QED BY <1>2, <1>3, <1>4, <1>5, StartsOne

LEMMA PartUnseen ==
    ASSUME Shape, flags = {}, flags' = {}, NEW p \in Parts, Part(p)
    PROVE  nestBar' = nestBar
  <1>1. Depth' = Depth /\ SameKinds(Depth)
    BY PartTop DEF Part, Depth, SameKinds
  <1> QED BY <1>1, Unseen

\* Every step is one of Control, or cannot be seen there.
LEMMA NextMaps ==
    ASSUME ~Anywhere, Stopping, Stopping', [Next]_vars
    PROVE  Lang!Next \/ nestBar' = nestBar
  <1>0. Shape /\ Shape' /\ AllParted /\ Raised /\ Raised'
    BY DEF Stopping
  <1>a. /\ stack \in Seq(Construct) /\ Depth = Len(stack) /\ Depth \in Nat \ {0}
        /\ Top = stack[Depth] /\ flags \subseteq SignalSet
        /\ Depth \in 1..Len(stack) /\ Parted(Depth)
    BY <1>0, Plain DEF AllParted
  <1>k. /\ {"seq", "tail", "body", "try"} \subseteq Kinds
        /\ "try" \notin Foldable \cup Loops
    BY DEF Kinds, Polling, Foldable, Loops, Compiled
  <1>s. ASSUME stack' = stack, flags' = flags PROVE nestBar' = nestBar
    BY <1>s DEF nestBar, Arrived, Depth
  <1>p. ASSUME NEW p \in Parts, NEW k \in Kinds, flags = {},
               Push([stack EXCEPT ![Depth].part = p], k, FALSE)
        PROVE  Lang!Next
    BY <1>0, <1>p, PartTop, PushSeen
  <1>1. ASSUME NEW k \in Kinds, NEW own \in BOOLEAN, Enter(k, own) PROVE Lang!Next
    <2>1. flags = {} /\ Push(stack, k, own) /\ Same(stack, stack)
      BY <1>0, <1>1, BusySeesNone DEF Enter, Same
    <2> QED BY <1>0, <1>a, <2>1, PushSeen
  <1>2. ASSUME NEW s \in SignalSet, Raise(s) PROVE Lang!Next
    <2>1. flags = {} /\ flags' = {s} /\ stack' = stack
      BY <1>0, <1>2, BusySeesNone DEF Raise
    <2>2. PICK f \in 1..Depth : Waits(f, s)
      BY <1>0, <1>2, MayRaiseWaits DEF Raise
    <2>3. Depth' = Depth /\ Waits(f, s)' /\ SameKinds(Depth)
      BY <2>1, <2>2 DEF Waits, AtStatement, Depth, SameKinds
    <2> QED BY <1>0, <2>1, <2>3, ArrivesAtOnce
  <1>3. CASE Statement \/ NextStatement \/ UNCHANGED vars
    BY <1>3, <1>s DEF Statement, NextStatement, vars
  <1>5. CASE SequenceEnds \/ LoopEnds \/ CondStops \/ TailReturns \/ Folded
    BY <1>0, <1>5, LeavesSeen DEF SequenceEnds, LoopEnds, CondStops, TailReturns, Folded
  <1>6. CASE NextRound
    <2>1. /\ Part(AfterRound(Top.kind)) /\ AfterRound(Top.kind) \in Parts
          /\ Top.kind \in Loops /\ Top.kind # "try" /\ ~back'
      BY <1>6, <1>k DEF NextRound, AfterRound, Parts
    <2>2. flags' = {}
      BY <1>0, <2>1 DEF Raised
    <2>3. CASE flags = {}
      BY <1>0, <2>1, <2>2, <2>3, PartUnseen
    <2>4. ASSUME NEW s \in SignalSet, flags = {s}, NEW f \in 1..Depth, Waits(f, s)
          PROVE  nestBar' = nestBar
      <3>1. AtStatement(Depth, s) /\ Top.kind # "storedLoop"
        BY <1>a, <2>1, <2>4 DEF Waits, AtStatement, Polling, Compiled, Foldable
      <3>2. s = "cont"
        BY <1>6, <2>4, <3>1 DEF NextRound, IsLast, SignalSet
      <3>3. f = Depth
        BY <1>a, <2>1, <2>4, <3>2 DEF Waits, Owners
      <3>4. nestBar = Seen(stack, Depth)
        BY <1>0, <2>4, <3>2, <3>3, ArrivedIs
      <3>5. Depth' = Depth /\ \A i \in 1..Depth : stack'[i].kind = stack[i].kind
        BY <1>0, <2>1, PartTop DEF Part, Depth
      <3>6. nestBar' = Seen(stack', Depth)
        BY <2>2, <3>5 DEF nestBar, Seen, Arrived
      <3>7. Depth \in Nat
        BY <1>a
      <3> QED BY <3>4, <3>5, <3>6, <3>7, SeenSame
    <2> QED BY <1>0, <2>3, <2>4 DEF Raised
  <1>7. CASE CondGoesOn
    <2>1. flags = {} /\ flags' = {}
      BY <1>0, <1>7 DEF Raised, CondGoesOn
    <2> QED BY <1>0, <1>7, <2>1, PartUnseen DEF CondGoesOn, Parts
  <1>8. CASE PathCall
    BY <1>8, <1>p, <1>k DEF PathCall, PathTail, Parts
  <1>9. CASE ReturnPath
    <2>1. flags = {}
      BY <1>0, <1>9, BusySeesNone DEF ReturnPath
    <2> QED BY <1>9, <1>p, <1>k, <2>1 DEF ReturnPath, PathTail, Parts
  <1>10. CASE TailApplies
    BY <1>10, <1>p, <1>k DEF TailApplies, Parts
  <1>11. CASE PathCallDone
    <2>1. flags = {}
      BY <1>0, <1>a, <1>11, BusySeesNone DEF PathCallDone, Parted
    <2>2. ASSUME Part("run"), flags' = flags PROVE nestBar' = nestBar
      BY <1>0, <2>1, <2>2, PartUnseen DEF Parts
    <2> QED BY <1>0, <1>11, <2>2, LeavesSeen DEF PathCallDone
  <1>12. CASE ReturnAgain
    <2>1. flags = {}
      BY <1>0, <1>a, <1>12, BusySeesNone DEF ReturnAgain, Parted
    <2>2. flags' = {"ret"} /\ "ret" \in SignalSet
      BY <1>12, <2>1 DEF ReturnAgain, SignalSet
    <2>3. Depth' = Depth /\ SameKinds(Depth)
      BY <1>0, <1>12, PartTop DEF ReturnAgain, Part, Parts, Depth, SameKinds
    <2>4. \E f \in 1..Depth : Waits(f, "ret")'
      BY <1>0, <2>2, <2>3 DEF Raised
    <2> QED BY <1>0, <2>1, <2>2, <2>3, <2>4, ArrivesAtOnce
  <1>13. CASE Fold
    BY <1>13, <1>p, <1>k DEF Fold, FoldsValues, Parts
  <1>14. CASE Die
    <2> DEFINE t == Innermost(stack, {"try"})
    <2>1. flags = {} /\ flags' = {}
      BY <1>0, <1>14, BusySeesNone DEF Die
    <2>2. /\ t \in 1..Depth /\ stack[t].kind = "try"
          /\ \A i \in 1..Depth : stack[i].kind = "try" => i <= t
      BY <1>a, <1>0, <1>14, <1>k, InnermostIs DEF Die, Shape
    <2>3. stack' = SubSeq(stack, 1, t - 1)
      BY <1>14 DEF Die
    <2> HIDE DEF t
    <2>4. t - 1 \in 0..Depth /\ t - 1 \in 0..Len(stack) /\ Depth \in Nat
      BY <1>a, <2>2
    <2>5. Depth' = t - 1 /\ \A i \in 1..(t - 1) : stack'[i].kind = stack[i].kind
      BY <1>a, <2>3, <2>4, CutStack DEF Depth
    <2>6. /\ nestBar = Seen(stack, Depth) /\ Len(nestBar) = Depth
          /\ \A i \in 1..Depth : nestBar[i] = Class(stack[i].kind)
      BY <1>0, <2>1, Calm
    <2>7. nestBar' = Seen(stack', t - 1)
      BY <2>1, <2>5 DEF nestBar, Seen, Arrived
    <2>8. nestBar' = SubSeq(nestBar, 1, t - 1)
      BY <2>4, <2>5, <2>6, <2>7, SeenCut
    <2>9. Lang!IsInnermost(t, "try")
      BY <2>2, <2>6, Classes DEF Lang!IsInnermost, Lang!Active
    <2> QED BY <2>2, <2>6, <2>8, <2>9 DEF Lang!Next, Lang!Throw, Lang!Leave
  <1> QED
    BY <1>1, <1>2, <1>3, <1>5, <1>6, <1>7, <1>8, <1>9, <1>10, <1>11,
       <1>12, <1>13, <1>14 DEF Next

\* The start is a start of Control.
LEMMA InitMaps == Init => Lang!Init
  <1> SUFFICES ASSUME Init PROVE nestBar = <<"block">>
    BY DEF Lang!Init
  <1>1. Depth = 1 /\ stack[1].kind = "seq" /\ flags = {}
    BY DEF Init, Depth
  <1>2. nestBar = [i \in 1..1 |-> "block"]
    BY <1>1 DEF nestBar, Arrived, Class, Loops, Compiled
  <1> QED BY <1>2

\* Flags and polls are structured jumps: in a program that raises signals where
\* a statement may stand, every step of the runtime is one of Control or hides
\* from it, on a C stack of any depth.
THEOREM SignalsAreJumps == ~Anywhere => (Spec => ImplementsControl)
  <1> SUFFICES ASSUME ~Anywhere PROVE Spec => ImplementsControl
    OBVIOUS
  <1>1. Stopping /\ Stopping' /\ [Next]_vars => [Lang!Next]_nestBar
    BY NextMaps
  <1>2. Stopping /\ [Next]_vars => Stopping'
    BY NextStopping
  <1> QED BY <1>1, <1>2, InitMaps, InitStopping, PTL DEF Spec, ImplementsControl, Lang!Spec
=============================================================================
