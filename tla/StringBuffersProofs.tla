------------------------ MODULE StringBuffersProofs ------------------------
(***************************************************************************)
(* Proofs about StringBuffers for any buffers, cells, lengths and depth of *)
(* the C stack.                                                            *)
(***************************************************************************)
EXTENDS StringBuffers, TLAPS

\* Growing in place, copying and doubling never write behind a buffer.
Fits == \A b \in Buffers : buf[b].len <= buf[b].cap

\* A constant is never grown in place: both its flags are set from the start.
LiteralsFlagged == \A b \in Literals : buf[b].owned /\ buf[b].shared

\* A statement that waits for its appendage holds no string.
StatementsHoldNothing == \A i \in 1..Top : stack[i].k = "self" => stack[i].b = None

IInv == TypeOK /\ Fits /\ LiteralsFlagged /\ StatementsHoldNothing /\ FlagsCoverOwners

-----------------------------------------------------------------------------
(* The C stack                                                             *)

\* What a push leaves.
LEMMA Pushed ==
    ASSUME NEW s \in Seq(Entry), NEW e \in Entry
    PROVE  /\ Append(s, e) \in Seq(Entry) /\ Len(Append(s, e)) = Len(s) + 1
           /\ \A i \in 1..Len(s) : Append(s, e)[i] = s[i]
           /\ Append(s, e)[Len(s) + 1] = e
  OBVIOUS

\* What is left of a stack without its n top entries.
LEMMA Dropped ==
    ASSUME NEW s \in Seq(Entry), NEW n \in 0..Len(s)
    PROVE  /\ SubSeq(s, 1, Len(s) - n) \in Seq(Entry)
           /\ Len(SubSeq(s, 1, Len(s) - n)) = Len(s) - n
           /\ \A i \in 1..(Len(s) - n) : SubSeq(s, 1, Len(s) - n)[i] = s[i]
  OBVIOUS

\* The top entries replaced by one.
LEMMA Replaced ==
    ASSUME NEW s \in Seq(Entry), NEW n \in 0..Len(s), NEW e \in Entry
    PROVE  LET t == Append(SubSeq(s, 1, Len(s) - n), e) IN
           /\ t \in Seq(Entry) /\ Len(t) = Len(s) - n + 1
           /\ \A i \in 1..(Len(s) - n) : t[i] = s[i]
           /\ t[Len(s) - n + 1] = e
  <1> DEFINE r == SubSeq(s, 1, Len(s) - n)
  <1>1. /\ r \in Seq(Entry) /\ Len(r) = Len(s) - n
        /\ \A i \in 1..(Len(s) - n) : r[i] = s[i]
    BY Dropped
  <1> HIDE DEF r
  <1>2. /\ Append(r, e) \in Seq(Entry) /\ Len(Append(r, e)) = Len(r) + 1
        /\ \A i \in 1..Len(r) : Append(r, e)[i] = r[i]
        /\ Append(r, e)[Len(r) + 1] = e
    BY <1>1, Pushed
  <1> QED BY <1>1, <1>2 DEF r

\* The local of one function changes.
LEMMA Bound ==
    ASSUME NEW s \in Seq(Entry), NEW i \in 1..Len(s), NEW b \in Ref
    PROVE  LET t == [s EXCEPT ![i].b = b] IN
           /\ t \in Seq(Entry) /\ Len(t) = Len(s)
           /\ \A j \in 1..Len(s) : j # i => t[j] = s[j]
           /\ t[i].b = b /\ t[i].k = s[i].k
  <1> DEFINE t == [s EXCEPT ![i].b = b]
  <1>1. s \in [1..Len(s) -> Entry] /\ Len(s) \in Nat
    OBVIOUS
  <1>2. t = [j \in 1..Len(s) |-> IF j = i THEN [s[i] EXCEPT !.b = b] ELSE s[j]]
    BY <1>1
  <1>3. [s[i] EXCEPT !.b = b] \in Entry
    BY <1>1 DEF Entry
  <1>4. t \in Seq(Entry) /\ Len(t) = Len(s)
    BY <1>1, <1>2, <1>3
  <1>5. \A j \in 1..Len(s) : j # i => t[j] = s[j]
    BY <1>1, <1>2, <1>3
  <1>6. t[i].b = b /\ t[i].k = s[i].k
    BY <1>1, <1>2, <1>3 DEF Entry
  <1> QED BY <1>4, <1>5, <1>6

\* The entries that are pushed are entries.
LEMMA Entries ==
    /\ \A b \in Ref : Val(b) \in Entry /\ Val(b).k = "val" /\ Val(b).b = b
    /\ Call \in Entry /\ Call.k = "call" /\ Call.b = None
    /\ \A b \in Ref : /\ [Call EXCEPT !.b = b] \in Entry
                      /\ [Call EXCEPT !.b = b].k = "call" /\ [Call EXCEPT !.b = b].b = b
    /\ \A l \in BOOLEAN : Self(l) \in Entry /\ Self(l).k = "self" /\ Self(l).b = None
  <1>1. \A b \in Ref : Val(b) \in Entry /\ Val(b).k = "val" /\ Val(b).b = b
    BY DEF Val, Entry, Ref
  <1>2. Call \in Entry /\ Call.k = "call" /\ Call.b = None
    BY DEF Call, Entry, Ref
  <1>3. ASSUME NEW b \in Ref
        PROVE  /\ [Call EXCEPT !.b = b] \in Entry
               /\ [Call EXCEPT !.b = b].k = "call" /\ [Call EXCEPT !.b = b].b = b
    BY <1>2 DEF Entry
  <1>5. ASSUME NEW l \in BOOLEAN
        PROVE  Self(l) \in Entry /\ Self(l).k = "self" /\ Self(l).b = None
    <2>1. None \in Ref /\ 1 \in 0..2
      BY DEF Ref
    <2> QED BY <2>1, Zenon DEF Self, Entry
  <1> QED BY <1>1, <1>2, <1>3, <1>5

-----------------------------------------------------------------------------
(* Buffers and slots                                                       *)

\* A fresh buffer is nobody's.
LEMMA FreshIsNobodys ==
    ASSUME NEW b, Fresh(b)
    PROVE  /\ b \in Buffers /\ b \notin Literals /\ b # global
           /\ \A c \in Cells : cells[c] # b
           /\ \A i \in 1..Top : stack[i].b # b
  BY DEF Fresh, Referenced

\* New headers, and what a mark does to one.
LEMMA Headers ==
    /\ \A n, c \in Nat : /\ New(n, c) \in Header /\ ~New(n, c).owned /\ ~New(n, c).shared
                         /\ New(n, c).len = n /\ New(n, c).cap = c
    /\ \A h \in Header : /\ Mark(h) \in Header /\ Mark(h).len = h.len /\ Mark(h).cap = h.cap
                         /\ Mark(h).owned /\ (h.owned => Mark(h).shared)
                         /\ (h.shared => Mark(h).shared)
                         /\ (~h.owned => Mark(h).shared = h.shared)
  BY DEF New, Mark, Header

\* Doubling and copying leave room for what is needed.
LEMMA Grown ==
    ASSUME NEW cap \in Nat, NEW need \in Nat, NEW c \in Nat, IsGrown(cap, need, c)
    PROVE  need <= c
  BY DEF IsGrown

LEMMA Copied ==
    ASSUME NEW need \in Nat
    PROVE  CopyCap(need) \in Nat /\ need <= CopyCap(need)
  BY BoundsAssumption DEF CopyCap

\* s lives in the global frame or in one of the functions that run.
LEMMA FrameIs ==
    ASSUME TypeOK, NEW i \in 0..Top, InFrame(i)
    PROVE  i = 0 \/ i \in Calls
  BY DEF InFrame, Innermost

LEMMA ResolvesTo ==
    ASSUME TypeOK, NEW i \in 0..Top, Resolves(i)
    PROVE  (i = 0 \/ i \in Calls) /\ Holds(i) \in Buffers
  <1>1. i = 0 \/ i \in Calls
    BY FrameIs DEF Resolves
  <1>2. CASE i = 0
    BY <1>2 DEF Holds, TypeOK
  <1>3. CASE i # 0
    <2>1. Holds(i) # None /\ Holds(i) = stack[i].b /\ i \in 1..Top
      BY <1>1, <1>3 DEF Resolves, Holds, Calls
    <2>2. stack[i] \in Entry
      BY <2>1 DEF TypeOK, Top
    <2> QED BY <1>1, <2>1, <2>2 DEF Entry, Ref
  <1> QED BY <1>1, <1>2, <1>3

\* The operand on top of the stack is a string.
LEMMA OperandIs ==
    ASSUME TypeOK, HasVal
    PROVE  Top \in Nat \ {0} /\ Operand \in Buffers /\ stack[Top] \in Entry /\ stack[Top].k = "val"
  BY DEF TypeOK, HasVal, Operand, Top

-----------------------------------------------------------------------------
(* What is pushed or dropped                                               *)

\* A slot and what it holds.
LEMMA SlotIs ==
    ASSUME TypeOK, NEW p \in Slots
    PROVE  \/ p \in Cells /\ At(p) = cells[p]
           \/ p = 0 /\ p \notin Cells /\ At(p) = global
           \/ p \in Calls /\ p \in 1..Top /\ p # 0 /\ p \notin Cells /\ At(p) = stack[p].b
  BY CellsAssumption DEF Slots, At, Holds, Calls, TypeOK, Top

\* What a slot holds, if anything, is a string.
LEMMA SlotsHoldStrings ==
    ASSUME TypeOK
    PROVE  \A p \in Slots : At(p) # None => At(p) \in Buffers
  <1>1. \A i \in 1..Top : stack[i] \in Entry
    BY DEF TypeOK, Top
  <1>2. \A i \in 1..Top : stack[i].b \in Ref
    BY <1>1 DEF Entry
  <1> QED BY <1>2, SlotIs DEF TypeOK, Ref

\* A step that gives no slot a string it did not hold, and takes no flag from one
\* it holds, leaves the slots flagged.
LEMMA SlotsKept ==
    ASSUME SlotsFlagged,
           \A p \in Slots' : At(p)' # None => p \in Slots /\ At(p)' = At(p),
           \A p \in Slots : At(p) # None => /\ buf'[At(p)].owned = buf[At(p)].owned
                                           /\ buf'[At(p)].shared = buf[At(p)].shared
    PROVE  SlotsFlagged'
  BY DEF SlotsFlagged

\* The n top entries give way to one that holds nothing, a string whose flags speak
\* for it, or a string one of them held; strings may have grown.
LEMMA ReplaceKeeps ==
    ASSUME IInv, NEW n \in 0..Top, NEW e \in Entry, Replace(n, e),
           e.b # None => e.k = "val",
           ~unmarked /\ e.b # None => \/ buf[e.b].owned
                                     \/ \E m \in (Top - n + 1)..Top : stack[m].b = e.b,
           e.k = "val" => e.b \in Buffers,
           buf' \in [Buffers -> Header], Fits',
           \A b \in Buffers : buf'[b].owned = buf[b].owned /\ buf'[b].shared = buf[b].shared,
           UNCHANGED <<global, cells, unmarked>>
    PROVE  IInv'
  <1> DEFINE k == Top - n
  <1>1. /\ stack' \in Seq(Entry) /\ Top' = k + 1 /\ Top \in Nat /\ k \in 0..Top
        /\ \A i \in 1..k : stack'[i] = stack[i]
        /\ stack'[k + 1] = e
    BY Replaced DEF IInv, TypeOK, Replace, Top
  <1> HIDE DEF k
  <1>2. TypeOK'
    <2>1. ASSUME NEW i \in 1..Top', stack'[i].k = "val" PROVE stack'[i].b \in Buffers
      <3>1. CASE i \in 1..k
        BY <1>1, <2>1, <3>1, SMTT(30) DEF IInv, TypeOK
      <3>2. CASE i = k + 1
        BY <1>1, <2>1, <3>2
      <3> QED BY <1>1, <3>1, <3>2
    <2> QED BY <1>1, <2>1 DEF IInv, TypeOK
  <1>3. LiteralsFlagged'
    BY LiteralsAssumption DEF IInv, LiteralsFlagged
  <1>4. StatementsHoldNothing'
    BY <1>1 DEF IInv, StatementsHoldNothing
  <1>5. ASSUME ~unmarked PROVE SlotsFlagged' /\ TemporariesUnshared'
    <2>1. \A p \in Slots' : At(p)' # None => p \in Slots /\ At(p)' = At(p)
      BY <1>1, CellsAssumption DEF Slots, At, Holds, Calls
    <2>2. SlotsFlagged /\ TemporariesUnshared
      BY <1>5 DEF IInv, FlagsCoverOwners
    <2>3. \A p \in Slots : At(p) # None => At(p) \in Buffers
      BY SlotsHoldStrings DEF IInv
    <2>4. SlotsFlagged'
      BY <2>1, <2>2, <2>3, SlotsKept
    <2>5. ASSUME NEW i \in 1..Top', stack'[i].b # None, ~buf'[stack'[i].b].owned
          PROVE  /\ stack'[i].b \notin {At(p)' : p \in Slots'}
                 /\ \A j \in 1..Top' : stack'[j].b = stack'[i].b => j = i
      <3>1. stack'[i].b \in Buffers
        <4>1. stack'[i] \in Entry
          BY <1>1 DEF Top
        <4> QED BY <4>1, <2>5 DEF Entry, Ref
      <3>2. CASE i \in 1..k
        <4>0. i \in 1..Top /\ stack'[i] = stack[i] /\ ~buf[stack[i].b].owned
          BY <1>1, <2>5, <3>1, <3>2
        <4>1. /\ stack[i].b \notin {At(p) : p \in Slots}
              /\ \A j \in 1..Top : stack[j].b = stack[i].b => j = i
          BY <2>2, <2>5, <4>0 DEF TemporariesUnshared
        <4>2. stack'[i].b # e.b
          <5>1. ASSUME stack'[i].b = e.b PROVE FALSE
            <6>1. PICK m \in (k + 1)..Top : stack[m].b = e.b
              BY <1>5, <2>5, <3>1, <5>1 DEF k
            <6> QED BY <1>1, <3>2, <4>1, <5>1, <6>1
          <5> QED BY <5>1
        <4>3. stack'[i].b \notin {At(p)' : p \in Slots'}
          BY <2>1, <2>5, <4>0, <4>1
        <4>4. ASSUME NEW j \in 1..Top', stack'[j].b = stack'[i].b PROVE j = i
          <5>1. j # k + 1
            BY <1>1, <4>2, <4>4
          <5> QED BY <1>1, <4>0, <4>1, <4>4, <5>1
        <4> QED BY <4>3, <4>4
      <3>3. CASE i = k + 1
        <4>1. PICK m \in (k + 1)..Top : stack[m].b = e.b
          BY <1>1, <1>5, <2>5, <3>1, <3>3 DEF k
        <4>2. /\ stack[m].b \notin {At(p) : p \in Slots}
              /\ \A j \in 1..Top : stack[j].b = stack[m].b => j = m
          BY <1>1, <2>2, <2>5, <3>1, <3>3, <4>1 DEF TemporariesUnshared
        <4>3. stack'[i].b \notin {At(p)' : p \in Slots'}
          BY <1>1, <2>1, <2>5, <3>3, <4>1, <4>2
        <4>4. ASSUME NEW j \in 1..k PROVE stack'[j].b # stack'[i].b
          <5>1. j \in 1..Top /\ j # m
            BY <1>1, <4>1
          <5>2. stack'[j] = stack[j] /\ stack'[i].b = stack[m].b
            BY <1>1, <3>3, <4>1
          <5> QED BY <4>2, <5>1, <5>2
        <4> QED BY <1>1, <3>3, <4>3, <4>4
      <3> QED BY <1>1, <3>2, <3>3
    <2> QED BY <2>4, <2>5 DEF TemporariesUnshared
  <1> QED BY <1>2, <1>3, <1>4, <1>5 DEF IInv, FlagsCoverOwners

\* A push is the case n = 0.
LEMMA PushKeeps ==
    ASSUME IInv, NEW e \in Entry, Push(e),
           e.b # None => e.k = "val", ~unmarked /\ e.b # None => buf[e.b].owned,
           e.k = "val" => e.b \in Buffers,
           UNCHANGED <<buf, global, cells, unmarked>>
    PROVE  IInv'
  <1>1. stack \in Seq(Entry) /\ Top \in Nat /\ 0 \in 0..Top
    BY DEF IInv, TypeOK, Top
  <1>2. Replace(0, e)
    <2>1. SubSeq(stack, 1, Top - 0) = stack
      BY <1>1 DEF Top
    <2> QED BY <2>1 DEF Push, Replace
  <1>3. buf' \in [Buffers -> Header] /\ Fits'
    BY DEF IInv, TypeOK, Fits
  <1> QED BY <1>1, <1>2, <1>3, ReplaceKeeps

\* Entries are dropped.
LEMMA DropKeeps ==
    ASSUME IInv, NEW n \in 0..Top, Drop(n), UNCHANGED <<buf, global, cells, unmarked>>
    PROVE  IInv'
  <1> DEFINE k == Top - n
  <1>1. /\ stack' \in Seq(Entry) /\ Top' = k /\ Top \in Nat /\ k \in 0..Top
        /\ \A i \in 1..k : stack'[i] = stack[i]
    BY Dropped DEF IInv, TypeOK, Drop, Top
  <1> HIDE DEF k
  <1>2. TypeOK'
    <2>1. \A i \in 1..Top' : stack'[i].k = "val" => stack'[i].b \in Buffers
      BY <1>1 DEF IInv, TypeOK
    <2> QED BY <1>1, <2>1 DEF IInv, TypeOK
  <1>3. Fits' /\ LiteralsFlagged' /\ StatementsHoldNothing'
    BY <1>1 DEF IInv, Fits, LiteralsFlagged, StatementsHoldNothing
  <1>4. ASSUME ~unmarked PROVE SlotsFlagged' /\ TemporariesUnshared'
    <2>1. \A p \in Slots' : p \in Slots /\ At(p)' = At(p)
      BY <1>1, CellsAssumption DEF Slots, At, Holds, Calls
    <2>2. SlotsFlagged /\ TemporariesUnshared
      BY <1>4 DEF IInv, FlagsCoverOwners
    <2>3. SlotsFlagged'
      BY <2>1, <2>2, SlotsKept
    <2>4. TemporariesUnshared'
      BY <1>1, <2>1, <2>2 DEF TemporariesUnshared
    <2> QED BY <2>3, <2>4
  <1> QED BY <1>2, <1>3, <1>4 DEF IInv, FlagsCoverOwners

-----------------------------------------------------------------------------
(* New strings, and strings that are stored                                *)

\* One new header.
LEMMA HeaderSet ==
    ASSUME TypeOK, Fits, NEW b \in Buffers, NEW h \in Header, h.len <= h.cap
    PROVE  LET new == [buf EXCEPT ![b] = h] IN
           /\ new \in [Buffers -> Header] /\ new[b] = h
           /\ \A x \in Buffers : x # b => new[x] = buf[x]
           /\ \A x \in Buffers : new[x].len <= new[x].cap
  BY DEF TypeOK, Fits

\* The n top entries give way to a new string, which no slot holds yet.
LEMMA FreshKeeps ==
    ASSUME IInv, NEW n \in 0..Top, NEW b, Fresh(b), Replace(n, Val(b)),
           NEW len \in Nat, NEW cap \in Nat, len <= cap, buf' = [buf EXCEPT ![b] = New(len, cap)],
           UNCHANGED <<global, cells, unmarked>>
    PROVE  IInv'
  <1> DEFINE k == Top - n
  <1>0. /\ b \in Buffers /\ b \notin Literals /\ b # global
        /\ \A c \in Cells : cells[c] # b
        /\ \A i \in 1..Top : stack[i].b # b
        /\ b \in Ref /\ b # None
    BY FreshIsNobodys, LiteralsAssumption DEF Ref
  <1>e. Val(b) \in Entry /\ Val(b).k = "val" /\ Val(b).b = b
    BY <1>0, Entries
  <1>1. /\ stack' \in Seq(Entry) /\ Top' = k + 1 /\ Top \in Nat /\ k \in 0..Top
        /\ \A i \in 1..k : stack'[i] = stack[i]
        /\ stack'[k + 1].k = "val" /\ stack'[k + 1].b = b
    BY <1>e, Replaced DEF IInv, TypeOK, Replace, Top
  <1> HIDE DEF k
  <1>2. /\ buf' \in [Buffers -> Header]
        /\ ~buf'[b].owned /\ ~buf'[b].shared
        /\ \A x \in Buffers : x # b => buf'[x] = buf[x]
        /\ Fits'
    BY <1>0, Headers, HeaderSet DEF IInv, Fits
  <1>3. TypeOK'
    <2>1. \A i \in 1..Top' : stack'[i].k = "val" => stack'[i].b \in Buffers
      BY <1>0, <1>1 DEF IInv, TypeOK
    <2> QED BY <1>1, <1>2, <2>1 DEF IInv, TypeOK
  <1>4. LiteralsFlagged' /\ StatementsHoldNothing'
    BY <1>0, <1>1, <1>2, LiteralsAssumption, SMTT(30) DEF IInv, LiteralsFlagged, StatementsHoldNothing
  <1>5. ASSUME ~unmarked PROVE SlotsFlagged' /\ TemporariesUnshared'
    <2>0. \A p \in Slots : At(p) # b /\ (At(p) # None => At(p) \in Buffers)
      BY <1>0, SlotIs, SlotsHoldStrings DEF IInv
    <2>1. \A p \in Slots' : At(p)' # None => p \in Slots /\ At(p)' = At(p)
      BY <1>1, CellsAssumption DEF Slots, At, Holds, Calls
    <2>2. SlotsFlagged /\ TemporariesUnshared
      BY <1>5 DEF IInv, FlagsCoverOwners
    <2>3. \A p \in Slots : At(p) # None => buf'[At(p)] = buf[At(p)]
      BY <1>2, <2>0
    <2>4. SlotsFlagged'
      BY <2>1, <2>2, <2>3, SlotsKept
    <2>5. ASSUME NEW i \in 1..Top', stack'[i].b # None, ~buf'[stack'[i].b].owned
          PROVE  /\ stack'[i].b \notin {At(p)' : p \in Slots'}
                 /\ \A j \in 1..Top' : stack'[j].b = stack'[i].b => j = i
      <3>1. CASE i \in 1..k
        <4>0. i \in 1..Top /\ stack'[i] = stack[i] /\ stack[i].b # b /\ stack[i] \in Entry
          BY <1>0, <1>1, <3>1 DEF IInv, TypeOK, Top
        <4>1. ~buf[stack[i].b].owned
          BY <1>2, <2>5, <4>0 DEF Entry, Ref
        <4>2. /\ stack[i].b \notin {At(p) : p \in Slots}
              /\ \A j \in 1..Top : stack[j].b = stack[i].b => j = i
          BY <2>2, <2>5, <4>0, <4>1 DEF TemporariesUnshared
        <4>3. stack'[i].b \notin {At(p)' : p \in Slots'}
          BY <2>1, <2>5, <4>0, <4>2
        <4>4. ASSUME NEW j \in 1..Top', stack'[j].b = stack'[i].b PROVE j = i
          <5>1. j # k + 1
            BY <1>1, <4>0, <4>4
          <5> QED BY <1>1, <4>0, <4>2, <4>4, <5>1
        <4> QED BY <4>3, <4>4
      <3>2. CASE i = k + 1
        BY <1>0, <1>1, <2>0, <2>1, <3>2
      <3> QED BY <1>1, <3>1, <3>2, SMTT(30)
    <2> QED BY <2>4, <2>5 DEF TemporariesUnshared
  <1> QED BY <1>2, <1>3, <1>4, <1>5 DEF IInv, FlagsCoverOwners

\* Slot s, and no other, comes to hold x, and x is marked for it.
LEMMA SlotsWritten ==
    ASSUME TypeOK, SlotsFlagged, NEW x \in Buffers, NEW s \in Slots', At(s)' = x,
           buf' = [buf EXCEPT ![x] = Mark(@)],
           \A p \in Slots' : p # s /\ At(p)' # None => p \in Slots /\ At(p)' = At(p)
    PROVE  SlotsFlagged'
  <1>1. /\ buf'[x].owned /\ (buf[x].owned => buf'[x].shared) /\ (buf[x].shared => buf'[x].shared)
        /\ \A y \in Buffers : y # x => buf'[y] = buf[y]
    BY Headers DEF TypeOK
  <1>2. ASSUME NEW p \in Slots', At(p)' # None
        PROVE  /\ buf'[At(p)'].owned
               /\ \A q \in Slots' : p # q /\ At(q)' = At(p)' => buf'[At(p)'].shared
    <2>1. CASE p = s
      <3>1. \A q \in Slots' : q # s /\ At(q)' = x => buf[x].owned
        BY <1>2, <2>1 DEF SlotsFlagged
      <3> QED BY <1>1, <2>1, <3>1
    <2>2. CASE p # s
      <3>1. p \in Slots /\ At(p)' = At(p) /\ At(p) \in Buffers
        BY <1>2, <2>2, SlotsHoldStrings
      <3>2. /\ buf[At(p)].owned
            /\ \A q \in Slots : p # q /\ At(q) = At(p) => buf[At(p)].shared
        BY <1>2, <3>1 DEF SlotsFlagged
      <3>3. CASE At(p) = x
        BY <1>1, <3>1, <3>2, <3>3
      <3>4. CASE At(p) # x
        BY <1>1, <1>2, <2>2, <3>1, <3>2, <3>4
      <3> QED BY <3>3, <3>4
    <2> QED BY <2>1, <2>2
  <1> QED BY <1>2 DEF SlotsFlagged

\* A string comes to slot s, marked for it; of the stack at most the top goes, and
\* what changes on it is that string.
LEMMA StoredKeeps ==
    ASSUME IInv, NEW x \in Buffers, NEW s \in Slots', At(s)' = x,
           buf' = [buf EXCEPT ![x] = Mark(@)],
           \A p \in Slots' : p # s /\ At(p)' # None => p \in Slots /\ At(p)' = At(p),
           stack' \in Seq(Entry), Top' \in 0..Top,
           \A i \in 1..Top' : stack'[i].b = stack[i].b \/ stack'[i].b = x,
           \A i \in 1..Top' : stack'[i].k = "val" => stack'[i].b \in Buffers,
           \A i \in 1..Top' : stack'[i].k = "self" => stack'[i].b = None,
           global' \in Buffers, cells' \in [Cells -> Ref], UNCHANGED unmarked
    PROVE  IInv'
  <1>1. /\ buf' \in [Buffers -> Header] /\ buf'[x].owned /\ (buf[x].shared => buf'[x].shared)
        /\ \A y \in Buffers : y # x => buf'[y] = buf[y]
        /\ \A y \in Buffers : buf'[y].len = buf[y].len /\ buf'[y].cap = buf[y].cap
    BY Headers DEF IInv, TypeOK
  <1>2. TypeOK' /\ StatementsHoldNothing'
    BY <1>1 DEF TypeOK, StatementsHoldNothing
  <1>3. Fits'
    BY <1>1 DEF IInv, Fits
  <1>4. LiteralsFlagged'
    BY <1>1, LiteralsAssumption DEF IInv, LiteralsFlagged
  <1>5. ASSUME ~unmarked PROVE SlotsFlagged' /\ TemporariesUnshared'
    <2>1. SlotsFlagged /\ TemporariesUnshared /\ TypeOK
      BY <1>5 DEF IInv, FlagsCoverOwners
    <2>2. SlotsFlagged'
      BY <2>1, SlotsWritten
    <2>3. ASSUME NEW i \in 1..Top', stack'[i].b # None, ~buf'[stack'[i].b].owned
          PROVE  /\ stack'[i].b \notin {At(p)' : p \in Slots'}
                 /\ \A j \in 1..Top' : stack'[j].b = stack'[i].b => j = i
      <3>1. stack'[i].b # x /\ i \in 1..Top
        BY <1>1, <2>3, <2>1 DEF Top, TypeOK
      <3>2. stack'[i].b = stack[i].b /\ stack'[i].b \in Buffers
        <4>1. stack'[i] \in Entry
          BY DEF Top
        <4> QED BY <2>3, <3>1, <4>1 DEF Entry, Ref
      <3>3. ~buf[stack[i].b].owned
        BY <1>1, <2>3, <3>1, <3>2
      <3>4. /\ stack[i].b \notin {At(p) : p \in Slots}
            /\ \A j \in 1..Top : stack[j].b = stack[i].b => j = i
        BY <2>1, <2>3, <3>1, <3>2, <3>3 DEF TemporariesUnshared
      <3>5. stack'[i].b \notin {At(p)' : p \in Slots'}
        BY <2>3, <3>1, <3>2, <3>4
      <3>6. ASSUME NEW j \in 1..Top', stack'[j].b = stack'[i].b PROVE j = i
        <4>1. stack'[j].b = stack[j].b /\ j \in 1..Top
          BY <2>1, <3>1, <3>6 DEF Top, TypeOK
        <4> QED BY <3>2, <3>4, <3>6, <4>1
      <3> QED BY <3>5, <3>6
    <2> QED BY <2>2, <2>3 DEF TemporariesUnshared
  <1> QED BY <1>2, <1>3, <1>4, <1>5 DEF IInv, FlagsCoverOwners

\* A slot that is given the string it holds.
LEMMA SameKeeps == IInv /\ UNCHANGED vars => IInv'
  BY SMTT(30) DEF vars, IInv, TypeOK, Fits, LiteralsFlagged, StatementsHoldNothing, FlagsCoverOwners,
         SlotsFlagged, TemporariesUnshared, Slots, At, Holds, Calls, Top

\* The operand is stored in s, wherever s lives.
LEMMA StoreVarKeeps ==
    ASSUME IInv, NEW i \in 0..Top, i = 0 \/ i \in Calls, StoreVar(i), UNCHANGED unmarked
    PROVE  IInv'
  <1> DEFINE x == Operand
  <1>0. TypeOK /\ x \in Buffers /\ Top \in Nat \ {0} /\ x \in Ref
    BY OperandIs DEF IInv, StoreVar, Ref
  <1>1. CASE Holds(i) = x
    <2>1. buf' = buf
      BY <1>0, <1>1 DEF StoreVar, StoreMark, TypeOK
    <2>2. global' = global /\ stack' = stack
      <3>1. CASE i = 0
        BY <1>1, <3>1 DEF StoreVar, Holds
      <3>2. CASE i # 0
        <4>1. i \in 1..Len(stack) /\ stack[i] \in Entry /\ stack[i].b = x
          BY <1>0, <1>1, <3>2 DEF Holds, TypeOK, Calls, Top
        <4>2. [stack[i] EXCEPT !.b = x] = stack[i]
          BY <4>1 DEF Entry
        <4>3. [stack EXCEPT ![i].b = x] = stack
          BY <1>0, <4>1, <4>2 DEF TypeOK
        <4> QED BY <3>2, <4>3 DEF StoreVar
      <3> QED BY <3>1, <3>2
    <2> QED BY <2>1, <2>2, SameKeeps DEF StoreVar, vars
  <1>2. CASE Holds(i) # x
    <2>1. buf' = [buf EXCEPT ![x] = Mark(@)]
      BY <1>0, <1>2 DEF StoreVar, StoreMark
    <2>2. /\ stack' \in Seq(Entry) /\ Top' = Top /\ global' \in Buffers
          /\ \A j \in 1..Top : stack'[j].k = stack[j].k
          /\ \A j \in 1..Top : j # i => stack'[j] = stack[j]
          /\ IF i = 0 THEN global' = x ELSE global' = global /\ stack'[i].b = x
      <3>1. CASE i = 0
        BY <1>0, <3>1 DEF StoreVar, TypeOK, Top
      <3>2. CASE i # 0
        <4>1. i \in 1..Len(stack) /\ stack \in Seq(Entry)
          BY <1>0, <3>2 DEF Calls, TypeOK, Top
        <4>2. stack' = [stack EXCEPT ![i].b = x] /\ global' = global
          BY <3>2 DEF StoreVar
        <4>3. /\ stack' \in Seq(Entry) /\ Len(stack') = Len(stack)
              /\ \A j \in 1..Len(stack) : j # i => stack'[j] = stack[j]
              /\ stack'[i].b = x /\ stack'[i].k = stack[i].k
          BY <1>0, <4>1, <4>2, Bound
        <4> QED BY <1>0, <3>2, <4>1, <4>2, <4>3 DEF TypeOK, Top
      <3> QED BY <3>1, <3>2
    <2>3. cells' = cells /\ Calls' = Calls
      BY <2>2 DEF StoreVar, Calls
    <2>4. i \in Slots' /\ At(i)' = x
      BY <2>2, <2>3, CellsAssumption DEF Slots, At, Holds, Calls
    <2>5. \A p \in Slots' : p # i /\ At(p)' # None => p \in Slots /\ At(p)' = At(p)
      BY <2>2, <2>3, CellsAssumption DEF Slots, At, Holds, Calls
    <2>6. ASSUME NEW j \in 1..Top'
          PROVE  /\ stack'[j].b = stack[j].b \/ stack'[j].b = x
                 /\ stack'[j].k = "val" => stack'[j].b \in Buffers
                 /\ stack'[j].k = "self" => stack'[j].b = None
      <3>1. j \in 1..Top /\ stack'[j].k = stack[j].k
        BY <2>2
      <3>2. CASE j # i
        BY <2>2, <3>1, <3>2 DEF IInv, TypeOK, StatementsHoldNothing
      <3>3. CASE j = i
        <4>1. stack'[j].b = x /\ stack'[j].k = "call"
          BY <2>2, <3>1, <3>3 DEF Calls
        <4> QED BY <1>0, <4>1
      <3> QED BY <3>2, <3>3
    <2>7. cells' \in [Cells -> Ref] /\ Top' \in 0..Top
      BY <1>0, <2>2, <2>3 DEF TypeOK
    <2> QED BY <1>0, <2>1, <2>2, <2>4, <2>5, <2>6, <2>7, StoredKeeps
  <1> QED BY <1>1, <1>2

\* The operand is stored in a cell.
LEMMA StoreCellKeeps ==
    ASSUME IInv, NEW c \in Cells, StoreCell(c), UNCHANGED unmarked
    PROVE  IInv'
  <1> DEFINE x == Operand
  <1>0. TypeOK /\ x \in Buffers /\ Top \in Nat \ {0} /\ x \in Ref
    BY OperandIs DEF IInv, StoreCell, Ref
  <1>1. CASE cells[c] = x
    BY <1>0, <1>1, SameKeeps DEF StoreCell, StoreMark, TypeOK, vars
  <1>2. CASE cells[c] # x
    <2>1. /\ buf' = [buf EXCEPT ![x] = Mark(@)]
          /\ stack' = stack /\ global' = global /\ Top' = Top /\ Calls' = Calls
      BY <1>0, <1>2 DEF StoreCell, StoreMark, Top, Calls
    <2>2. /\ cells' \in [Cells -> Ref] /\ cells'[c] = x
          /\ \A d \in Cells : d # c => cells'[d] = cells[d]
      BY <1>0 DEF StoreCell, TypeOK
    <2>3. c \in Slots' /\ At(c)' = x
      BY <2>2 DEF Slots, At
    <2>4. \A p \in Slots' : p # c /\ At(p)' # None => p \in Slots /\ At(p)' = At(p)
      BY <2>1, <2>2 DEF Slots, At, Holds
    <2>5. ASSUME NEW j \in 1..Top'
          PROVE  /\ stack'[j].b = stack[j].b
                 /\ stack'[j].k = "val" => stack'[j].b \in Buffers
                 /\ stack'[j].k = "self" => stack'[j].b = None
      BY <2>1 DEF IInv, TypeOK, StatementsHoldNothing
    <2>6. stack' \in Seq(Entry) /\ Top' \in 0..Top /\ global' \in Buffers
      BY <1>0, <2>1 DEF TypeOK
    <2> QED BY <1>0, <2>1, <2>2, <2>3, <2>4, <2>5, <2>6, StoredKeeps
  <1> QED BY <1>1, <1>2

\* The operand becomes an item of a new container.
LEMMA MakeItemKeeps ==
    ASSUME IInv, NEW c \in Cells, MakeItem(c), UNCHANGED unmarked
    PROVE  IInv'
  <1> DEFINE x == Operand
  <1>0. TypeOK /\ x \in Buffers /\ Top \in Nat \ {0} /\ x \in Ref
    BY OperandIs DEF IInv, MakeItem, Ref
  <1>1. /\ stack' \in Seq(Entry) /\ Top' = Top - 1
        /\ \A i \in 1..(Top - 1) : stack'[i] = stack[i]
    <2>1. stack \in Seq(Entry) /\ 1 \in 0..Len(stack) /\ stack' = SubSeq(stack, 1, Len(stack) - 1)
      BY <1>0 DEF MakeItem, Drop, TypeOK, Top
    <2> QED BY <2>1, Dropped DEF Top
  <1>2. /\ buf' = [buf EXCEPT ![x] = Mark(@)] /\ global' = global
        /\ cells' \in [Cells -> Ref] /\ cells'[c] = x
        /\ \A d \in Cells : d # c => cells'[d] = cells[d]
    BY <1>0 DEF MakeItem, TypeOK
  <1>3. c \in Slots' /\ At(c)' = x
    BY <1>2 DEF Slots, At
  <1>4. \A p \in Slots' : p # c /\ At(p)' # None => p \in Slots /\ At(p)' = At(p)
    BY <1>0, <1>1, <1>2, CellsAssumption DEF Slots, At, Holds, Calls
  <1>5. ASSUME NEW j \in 1..Top'
        PROVE  /\ stack'[j].b = stack[j].b
               /\ stack'[j].k = "val" => stack'[j].b \in Buffers
               /\ stack'[j].k = "self" => stack'[j].b = None
    BY <1>0, <1>1 DEF IInv, TypeOK, StatementsHoldNothing
  <1>6. Top' \in 0..Top /\ global' \in Buffers
    BY <1>0, <1>1, <1>2 DEF TypeOK
  <1> QED BY <1>0, <1>1, <1>2, <1>3, <1>4, <1>5, <1>6, StoredKeeps

\* The operand becomes a parameter of a function that starts.
LEMMA EnterWithKeeps ==
    ASSUME IInv, EnterWith, UNCHANGED unmarked
    PROVE  IInv'
  <1> DEFINE x == Operand
  <1>0. TypeOK /\ x \in Buffers /\ Top \in Nat \ {0} /\ x \in Ref /\ 1 \in 0..Top
    BY OperandIs DEF IInv, EnterWith, Ref
  <1>e. /\ [Call EXCEPT !.b = x] \in Entry
        /\ [Call EXCEPT !.b = x].k = "call" /\ [Call EXCEPT !.b = x].b = x
    BY <1>0, Entries
  <1>1. /\ stack' \in Seq(Entry) /\ Top' = Top
        /\ \A i \in 1..(Top - 1) : stack'[i] = stack[i]
        /\ stack'[Top].k = "call" /\ stack'[Top].b = x
    <2>1. stack' = Append(SubSeq(stack, 1, Len(stack) - 1), [Call EXCEPT !.b = x])
      BY DEF EnterWith, Replace, Top
    <2>2. /\ stack' \in Seq(Entry) /\ Len(stack') = Len(stack) - 1 + 1
          /\ \A i \in 1..(Len(stack) - 1) : stack'[i] = stack[i]
          /\ stack'[Len(stack) - 1 + 1] = [Call EXCEPT !.b = x]
      <3>1. stack \in Seq(Entry) /\ 1 \in 0..Len(stack)
        BY <1>0 DEF TypeOK, Top
      <3> DEFINE e == [Call EXCEPT !.b = x]
      <3>2. e \in Entry /\ stack' = Append(SubSeq(stack, 1, Len(stack) - 1), e)
        BY <1>e, <2>1
      <3> HIDE DEF e
      <3>3. /\ stack' \in Seq(Entry) /\ Len(stack') = Len(stack) - 1 + 1
            /\ \A i \in 1..(Len(stack) - 1) : stack'[i] = stack[i]
            /\ stack'[Len(stack) - 1 + 1] = e
        BY <3>1, <3>2, Replaced
      <3> QED BY <3>3 DEF e
    <2>3. Len(stack) - 1 + 1 = Len(stack)
      BY <1>0 DEF Top
    <2> QED BY <1>e, <2>2, <2>3 DEF Top
  <1>2. buf' = [buf EXCEPT ![x] = Mark(@)] /\ global' = global /\ cells' = cells
    BY DEF EnterWith
  <1>3. Top \in Slots' /\ At(Top)' = x
    BY <1>0, <1>1, <1>2, CellsAssumption DEF Slots, At, Holds, Calls
  <1>4. \A p \in Slots' : p # Top /\ At(p)' # None => p \in Slots /\ At(p)' = At(p)
    BY <1>0, <1>1, <1>2, CellsAssumption DEF Slots, At, Holds, Calls
  <1>5. ASSUME NEW j \in 1..Top'
        PROVE  /\ stack'[j].b = stack[j].b \/ stack'[j].b = x
               /\ stack'[j].k = "val" => stack'[j].b \in Buffers
               /\ stack'[j].k = "self" => stack'[j].b = None
    <2>1. CASE j = Top
      BY <1>0, <1>1, <2>1
    <2>2. CASE j \in 1..(Top - 1)
      BY <1>0, <1>1, <2>2 DEF IInv, TypeOK, StatementsHoldNothing
    <2> QED BY <1>0, <1>1, <2>1, <2>2
  <1>6. Top' \in 0..Top /\ global' \in Buffers /\ cells' \in [Cells -> Ref]
    BY <1>0, <1>1, <1>2 DEF TypeOK
  <1> QED BY <1>0, <1>1, <1>2, <1>3, <1>4, <1>5, <1>6, StoredKeeps

-----------------------------------------------------------------------------
(* Statements s: s ++ x                                                    *)

\* The statement that waits below the operand.
LEMMA StatementIs ==
    ASSUME TypeOK, NEW n, SelfReady(n)
    PROVE  /\ Top \in Nat /\ Top >= 2 /\ HasVal /\ Operand \in Buffers
           /\ stack[Top - 1] \in Entry /\ stack[Top - 1].k = "self"
           /\ \A i \in Calls : i \in 1..(Top - 2)
  BY OperandIs DEF SelfReady, HasVal, TypeOK, Top, Calls

\* A new string, marked, comes to slot i of s and is the value of the statement.
LEMMA StoreAndReplaceIs ==
    ASSUME TypeOK, NEW n, SelfReady(n), NEW i, i = 0 \/ i \in Calls, NEW b \in Buffers,
           StoreAndReplace(i, b)
    PROVE  /\ stack' \in Seq(Entry) /\ Top' = Top - 1 /\ global' \in Buffers
           /\ \A j \in 1..(Top - 2) : stack'[j].k = stack[j].k
           /\ \A j \in 1..(Top - 2) : j # i => stack'[j] = stack[j]
           /\ stack'[Top - 1].k = "val" /\ stack'[Top - 1].b = b
           /\ IF i = 0 THEN global' = b ELSE global' = global /\ stack'[i].b = b
  <1> DEFINE r == SubSeq(stack, 1, Top - 2)
             t == IF i = 0 THEN r ELSE [r EXCEPT ![i].b = b]
  <1>0. Top \in Nat /\ Top >= 2 /\ b \in Ref /\ (i # 0 => i \in 1..(Top - 2))
    BY StatementIs DEF Ref
  <1>1. r \in Seq(Entry) /\ Len(r) = Top - 2 /\ \A j \in 1..(Top - 2) : r[j] = stack[j]
    <2>1. stack \in Seq(Entry) /\ 2 \in 0..Len(stack) /\ r = SubSeq(stack, 1, Len(stack) - 2)
      BY <1>0 DEF TypeOK, Top
    <2> HIDE DEF r
    <2> QED BY <2>1, Dropped DEF Top
  <1>2. stack' = Append(t, Val(b)) /\ global' = IF i = 0 THEN b ELSE global
    BY <1>0 DEF StoreAndReplace
  <1> HIDE DEF r
  <1>3. /\ t \in Seq(Entry) /\ Len(t) = Top - 2
        /\ \A j \in 1..(Top - 2) : j # i => t[j] = stack[j]
        /\ i # 0 => t[i].b = b /\ t[i].k = stack[i].k
    <2>1. CASE i = 0
      BY <1>0, <1>1, <2>1
    <2>2. CASE i # 0
      <3>1. i \in 1..Len(r)
        BY <1>0, <1>1, <2>2
      <3>2. /\ t \in Seq(Entry) /\ Len(t) = Len(r)
            /\ \A j \in 1..Len(r) : j # i => t[j] = r[j]
            /\ t[i].b = b /\ t[i].k = r[i].k
        <4>1. t = [r EXCEPT ![i].b = b]
          BY <2>2
        <4> QED BY <1>0, <1>1, <3>1, <4>1, Bound
      <3> QED BY <1>0, <1>1, <2>2, <3>2
    <2> QED BY <2>1, <2>2
  <1> HIDE DEF t
  <1>4. Val(b) \in Entry /\ Val(b).k = "val" /\ Val(b).b = b
    BY <1>0, Entries
  <1>5. /\ stack' \in Seq(Entry) /\ Len(stack') = Top - 1
        /\ \A j \in 1..(Top - 2) : stack'[j] = t[j]
        /\ stack'[Top - 1] = Val(b)
    <2>1. /\ stack' \in Seq(Entry) /\ Len(stack') = Len(t) + 1
          /\ \A j \in 1..Len(t) : stack'[j] = t[j]
          /\ stack'[Len(t) + 1] = Val(b)
      BY <1>2, <1>3, <1>4, Pushed
    <2>2. Len(t) + 1 = Top - 1
      BY <1>0, <1>3
    <2> QED BY <1>3, <2>1, <2>2
  <1>6. Top' = Top - 1 /\ stack'[Top - 1].k = "val" /\ stack'[Top - 1].b = b
    BY <1>4, <1>5 DEF Top
  <1>7. global' \in Buffers /\ IF i = 0 THEN global' = b ELSE global' = global /\ t[i].b = b
    BY <1>2, <1>3 DEF TypeOK
  <1>8. \A j \in 1..(Top - 2) : stack'[j].k = stack[j].k
    BY <1>3, <1>5
  <1> QED BY <1>0, <1>3, <1>5, <1>6, <1>7, <1>8

\* Such a step keeps the invariant.
LEMMA SelfStoredKeeps ==
    ASSUME IInv, NEW n, SelfReady(n), NEW i, i = 0 \/ i \in Calls, NEW b, Fresh(b),
           StoreAndReplace(i, b),
           NEW len \in Nat, NEW cap \in Nat, len <= cap, buf' = [buf EXCEPT ![b] = Mark(New(len, cap))],
           UNCHANGED <<cells, unmarked>>
    PROVE  IInv'
  <1>0. /\ b \in Buffers /\ b \notin Literals /\ b # None
        /\ \A c \in Cells : cells[c] # b
        /\ b # global /\ \A j \in 1..Top : stack[j].b # b
        /\ Top \in Nat /\ Top >= 2 /\ (i # 0 => i \in 1..(Top - 2)) /\ TypeOK
    BY FreshIsNobodys, LiteralsAssumption, StatementIs DEF IInv
  <1>1. /\ stack' \in Seq(Entry) /\ Top' = Top - 1 /\ global' \in Buffers
        /\ \A j \in 1..(Top - 2) : stack'[j].k = stack[j].k
        /\ \A j \in 1..(Top - 2) : j # i => stack'[j] = stack[j]
        /\ stack'[Top - 1].k = "val" /\ stack'[Top - 1].b = b
        /\ IF i = 0 THEN global' = b ELSE global' = global /\ stack'[i].b = b
    BY <1>0, StoreAndReplaceIs
  <1>2. /\ buf' \in [Buffers -> Header] /\ buf'[b].owned
        /\ \A x \in Buffers : x # b => buf'[x] = buf[x]
        /\ Fits'
    <2>1. Mark(New(len, cap)) \in Header /\ Mark(New(len, cap)).owned
          /\ Mark(New(len, cap)).len <= Mark(New(len, cap)).cap
      BY Headers
    <2> QED BY <1>0, <2>1, HeaderSet DEF IInv, Fits
  <1>3. ASSUME NEW j \in 1..Top'
        PROVE  /\ stack'[j].b = stack[j].b \/ stack'[j].b = b
               /\ stack'[j].k = "val" => stack'[j].b \in Buffers
               /\ stack'[j].k = "self" => stack'[j].b = None
    <2>1. CASE j = Top - 1
      BY <1>0, <1>1, <2>1
    <2>2. CASE j \in 1..(Top - 2) /\ j = i
      BY <1>0, <1>1, <2>2 DEF Calls
    <2>3. CASE j \in 1..(Top - 2) /\ j # i
      BY <1>0, <1>1, <2>3 DEF IInv, TypeOK, StatementsHoldNothing
    <2> QED BY <1>0, <1>1, <2>1, <2>2, <2>3
  <1>4. TypeOK' /\ StatementsHoldNothing'
    BY <1>0, <1>1, <1>2, <1>3 DEF TypeOK, StatementsHoldNothing
  <1>5. LiteralsFlagged'
    BY <1>0, <1>2, LiteralsAssumption DEF IInv, LiteralsFlagged
  <1>6. ASSUME ~unmarked PROVE SlotsFlagged' /\ TemporariesUnshared'
    <2>1. SlotsFlagged /\ TemporariesUnshared
      BY <1>6 DEF IInv, FlagsCoverOwners
    <2>2. Calls' = Calls
      BY <1>0, <1>1, StatementIs DEF Calls
    <2>3. i \in Slots' /\ At(i)' = b
      BY <1>1, <2>2, CellsAssumption DEF Slots, At, Holds, Calls
    <2>4. \A p \in Slots' : p # i /\ At(p)' # None => p \in Slots /\ At(p)' = At(p)
      <3>1. \A p \in Calls : p # i => stack'[p].b = stack[p].b
        BY <1>0, <1>1, StatementIs
      <3> QED BY <1>1, <2>2, <3>1, CellsAssumption DEF Slots, At, Holds, Calls
    <2>5. \A p \in Slots : At(p) # b /\ (At(p) # None => At(p) \in Buffers)
      BY <1>0, SlotIs, SlotsHoldStrings
    <2>6. SlotsFlagged'
      <3>1. \A p \in Slots' : p # i /\ At(p)' # None => At(p)' # b /\ buf'[At(p)'] = buf[At(p)]
        BY <1>2, <2>4, <2>5
      <3> QED BY <1>2, <2>1, <2>3, <2>4, <3>1, <1>0 DEF SlotsFlagged
    <2>7. ASSUME NEW j \in 1..Top', stack'[j].b # None, ~buf'[stack'[j].b].owned
          PROVE  /\ stack'[j].b \notin {At(p)' : p \in Slots'}
                 /\ \A m \in 1..Top' : stack'[m].b = stack'[j].b => m = j
      <3>1. stack'[j].b # b /\ j \in 1..Top
        BY <1>0, <1>1, <1>2, <2>7
      <3>2. stack'[j].b = stack[j].b /\ stack'[j].b \in Buffers
        <4>1. stack'[j] \in Entry
          BY <1>1 DEF Top
        <4> QED BY <1>3, <2>7, <3>1, <4>1 DEF Entry, Ref
      <3>3. ~buf[stack[j].b].owned
        BY <1>2, <2>7, <3>1, <3>2
      <3>4. /\ stack[j].b \notin {At(p) : p \in Slots}
            /\ \A m \in 1..Top : stack[m].b = stack[j].b => m = j
        BY <2>1, <2>7, <3>1, <3>2, <3>3 DEF TemporariesUnshared
      <3>5. stack'[j].b \notin {At(p)' : p \in Slots'}
        BY <2>3, <2>4, <2>7, <3>1, <3>2, <3>4
      <3>6. ASSUME NEW m \in 1..Top', stack'[m].b = stack'[j].b PROVE m = j
        <4>1. stack'[m].b = stack[m].b /\ m \in 1..Top
          BY <1>0, <1>1, <1>3, <3>1, <3>6
        <4> QED BY <3>2, <3>4, <3>6, <4>1
      <3> QED BY <3>5, <3>6
    <2> QED BY <2>6, <2>7 DEF TemporariesUnshared
  <1> QED BY <1>4, <1>2, <1>5, <1>6 DEF IInv, FlagsCoverOwners

-----------------------------------------------------------------------------
(* The invariant                                                           *)

\* The invariant holds at the start.
LEMMA InitHolds == Init => IInv
  <1> SUFFICES ASSUME Init PROVE IInv
    OBVIOUS
  <1>1. Top = 0 /\ Calls = {} /\ stack \in Seq(Entry) /\ global \in Buffers /\ None \in Ref
    BY LiteralsAssumption DEF Init, Top, Calls, Ref
  <1> DEFINE v(b) == IF b \in Literals
                     THEN [New(LiteralLen, LiteralLen) EXCEPT !.owned = TRUE, !.shared = TRUE]
                     ELSE New(0, 0)
  <1>b. buf = [b \in Buffers |-> v(b)]
    BY DEF Init
  <1> HIDE DEF v
  <1>i. (\A b \in Buffers : buf[b] = v(b)) /\ buf = [b \in Buffers |-> buf[b]]
    BY <1>b
  <1>2. ASSUME NEW b \in Buffers
        PROVE  /\ buf[b] \in Header /\ buf[b].len <= buf[b].cap
               /\ b \in Literals => buf[b].owned /\ buf[b].shared
    <2>1. LiteralLen \in Nat
      BY BoundsAssumption
    <2> DEFINE h == New(LiteralLen, LiteralLen)
               f == [h EXCEPT !.owned = TRUE, !.shared = TRUE]
    <2>2. h \in Header /\ h.len = LiteralLen /\ h.cap = LiteralLen
      BY <2>1, Headers
    <2>3. f \in Header /\ f.len = LiteralLen /\ f.cap = LiteralLen /\ f.owned /\ f.shared
      <3> HIDE DEF h
      <3> QED BY <2>2 DEF Header
    <2>4. New(0, 0) \in Header /\ New(0, 0).len <= New(0, 0).cap
      BY Headers
    <2>5. b \in Literals => buf[b] = f
      BY <1>i, Zenon DEF v
    <2>6. b \notin Literals => buf[b] = New(0, 0)
      BY <1>i, Zenon DEF v
    <2> HIDE DEF f
    <2>7. CASE b \in Literals
      BY <2>1, <2>3, <2>5, <2>7
    <2>8. CASE b \notin Literals
      BY <2>4, <2>6, <2>8
    <2> QED BY <2>7, <2>8
  <1>3. TypeOK /\ Fits /\ LiteralsFlagged /\ StatementsHoldNothing
    <2>1. buf \in [Buffers -> Header]
      BY <1>i, <1>2
    <2>2. cells \in [Cells -> Ref]
      BY <1>1 DEF Init
    <2>3. Fits /\ LiteralsFlagged
      BY <1>2, LiteralsAssumption DEF Fits, LiteralsFlagged
    <2> QED BY <1>1, <2>1, <2>2, <2>3 DEF TypeOK, StatementsHoldNothing
  <1>4. SlotsFlagged /\ TemporariesUnshared
    <2>1. \A p \in Slots : At(p) # None => p = 0 /\ At(p) = global /\ global \in Literals
      BY <1>1 DEF Init, Slots, At, Holds
    <2>2. SlotsFlagged
      BY <1>2, <1>1, <2>1, LiteralsAssumption DEF SlotsFlagged
    <2> QED BY <1>1, <2>2 DEF TemporariesUnshared
  <1> QED BY <1>3, <1>4 DEF IInv, FlagsCoverOwners

\* A string that a slot holds is owned, and one another slot holds too is shared,
\* while every store is marked.
LEMMA SlotOwned ==
    ASSUME IInv, ~unmarked, NEW p \in Slots, At(p) # None
    PROVE  At(p) \in Buffers /\ buf[At(p)].owned
  BY SlotsHoldStrings DEF IInv, FlagsCoverOwners, SlotsFlagged

\* The string s holds, as code finds it.
LEMMA ResolvedIs ==
    ASSUME IInv, NEW i \in 0..Top, Resolves(i)
    PROVE  /\ (i = 0 \/ i \in Calls) /\ Holds(i) \in Buffers /\ Holds(i) # None
           /\ i \in Slots /\ At(i) = Holds(i)
           /\ (~unmarked => buf[Holds(i)].owned)
  <1>1. (i = 0 \/ i \in Calls) /\ Holds(i) \in Buffers /\ Holds(i) # None
    BY ResolvesTo, LiteralsAssumption DEF IInv
  <1>2. i \in Slots /\ At(i) = Holds(i)
    BY <1>1, CellsAssumption DEF Slots, At, Calls
  <1> QED BY <1>1, <1>2, SlotOwned

LEMMA LoadVarKeeps == IInv /\ LoadVar /\ UNCHANGED unmarked => IInv'
  <1> SUFFICES ASSUME IInv, LoadVar, UNCHANGED unmarked PROVE IInv'
    OBVIOUS
  <1>1. PICK i \in 0..Top : Resolves(i) /\ Push(Val(Holds(i)))
    BY DEF LoadVar
  <1>2. Holds(i) \in Buffers /\ Holds(i) \in Ref /\ (~unmarked => buf[Holds(i)].owned)
    BY <1>1, ResolvedIs DEF Ref
  <1>3. Val(Holds(i)) \in Entry /\ Val(Holds(i)).k = "val" /\ Val(Holds(i)).b = Holds(i)
    BY <1>2, Entries
  <1> QED BY <1>1, <1>2, <1>3, PushKeeps DEF LoadVar

LEMMA LoadCellKeeps ==
    ASSUME IInv, NEW c \in Cells, LoadCell(c), UNCHANGED unmarked PROVE IInv'
  <1>1. cells[c] # None /\ c \in Slots /\ At(c) = cells[c] /\ cells[c] \in Buffers /\ cells[c] \in Ref
    BY DEF LoadCell, IInv, TypeOK, Ref, Slots, At
  <1>2. ~unmarked => buf[cells[c]].owned
    BY <1>1, SlotOwned
  <1>3. Val(cells[c]) \in Entry /\ Val(cells[c]).k = "val" /\ Val(cells[c]).b = cells[c]
    BY <1>1, Entries
  <1> QED BY <1>1, <1>2, <1>3, PushKeeps DEF LoadCell

LEMMA LoadLiteralKeeps ==
    ASSUME IInv, NEW b \in Literals, LoadLiteral(b), UNCHANGED unmarked PROVE IInv'
  <1>1. b \in Buffers /\ b \in Ref /\ buf[b].owned
    BY LiteralsAssumption DEF IInv, LiteralsFlagged, Ref
  <1>2. Val(b) \in Entry /\ Val(b).k = "val" /\ Val(b).b = b
    BY <1>1, Entries
  <1> QED BY <1>1, <1>2, PushKeeps DEF LoadLiteral

LEMMA BeginSelfKeeps ==
    ASSUME IInv, NEW let \in BOOLEAN, BeginSelf(let), UNCHANGED unmarked PROVE IInv'
  BY Entries, PushKeeps DEF BeginSelf

LEMMA EnterKeeps == IInv /\ Enter /\ UNCHANGED unmarked => IInv'
  BY Entries, PushKeeps DEF Enter

LEMMA MakeStringKeeps ==
    ASSUME IInv, NEW b \in Buffers, NEW n \in Lengths, MakeString(b, n), UNCHANGED unmarked
    PROVE  IInv'
  <1>1. stack \in Seq(Entry) /\ Top \in Nat /\ 0 \in 0..Top /\ n \in Nat /\ n <= n
    BY BoundsAssumption DEF IInv, TypeOK, Top
  <1>2. Replace(0, Val(b))
    <2>1. SubSeq(stack, 1, Top - 0) = stack
      BY <1>1 DEF Top
    <2> QED BY <2>1 DEF MakeString, Push, Replace
  <1> QED BY <1>1, <1>2, FreshKeeps DEF MakeString

\* The two operands of an append.
LEMMA OperandsAre ==
    ASSUME IInv, Top >= 2, HasVal, stack[Top - 1].k = "val"
    PROVE  /\ Top \in Nat /\ 2 \in 0..Top /\ Operand \in Buffers /\ stack[Top - 1].b \in Buffers
           /\ buf[Operand].len \in Nat
           /\ buf[stack[Top - 1].b].len \in Nat /\ buf[stack[Top - 1].b].cap \in Nat
  <1>1. Top \in Nat /\ Top - 1 \in 1..Top /\ Operand \in Buffers
    BY OperandIs DEF IInv
  <1>2. stack[Top - 1].b \in Buffers
    BY <1>1 DEF IInv, TypeOK
  <1>3. buf[Operand] \in Header /\ buf[stack[Top - 1].b] \in Header
    BY <1>1, <1>2 DEF IInv, TypeOK
  <1> QED BY <1>1, <1>2, <1>3 DEF Header

\* A string longer by as much as its buffer has room for.
LEMMA GrownInPlace ==
    ASSUME IInv, NEW b \in Buffers, NEW need \in Nat, need <= buf[b].cap,
           buf' = [buf EXCEPT ![b].len = need]
    PROVE  /\ buf' \in [Buffers -> Header] /\ Fits'
           /\ \A x \in Buffers : buf'[x].owned = buf[x].owned /\ buf'[x].shared = buf[x].shared
           /\ \A x \in Buffers : x # b => buf'[x] = buf[x]
  <1> DEFINE h == [buf[b] EXCEPT !.len = need]
  <1>1. buf \in [Buffers -> Header] /\ buf[b] \in Header
    BY DEF IInv, TypeOK
  <1>2. /\ h \in Header /\ h.len = need /\ h.cap = buf[b].cap
        /\ h.owned = buf[b].owned /\ h.shared = buf[b].shared
    BY <1>1 DEF Header
  <1>3. buf' = [buf EXCEPT ![b] = h]
    BY <1>1
  <1> HIDE DEF h
  <1>4. /\ buf' \in [Buffers -> Header] /\ buf'[b] = h
        /\ \A x \in Buffers : x # b => buf'[x] = buf[x]
    BY <1>1, <1>2, <1>3
  <1>5. Fits'
    BY <1>2, <1>4 DEF IInv, Fits
  <1> QED BY <1>2, <1>4, <1>5

\* b_append on an exclusive left operand.
LEMMA AppendInPlaceKeeps == IInv /\ AppendInPlace /\ UNCHANGED unmarked => IInv'
  <1> SUFFICES ASSUME IInv, AppendInPlace, UNCHANGED unmarked PROVE IInv'
    OBVIOUS
  <1> DEFINE v == stack[Top - 1].b
             need == buf[v].len + buf[Operand].len
  <1>1. /\ Top >= 2 /\ HasVal /\ stack[Top - 1].k = "val" /\ need <= buf[v].cap
        /\ buf' = [buf EXCEPT ![v].len = need] /\ Replace(2, Val(v))
        /\ UNCHANGED <<global, cells>>
    BY DEF AppendInPlace
  <1>2. /\ Top \in Nat /\ 2 \in 0..Top /\ v \in Buffers /\ v \in Ref
        /\ Top - 1 \in (Top - 2 + 1)..Top /\ need \in Nat
    BY <1>1, OperandsAre DEF Ref
  <1>3. Val(v) \in Entry /\ Val(v).k = "val" /\ Val(v).b = v
    BY <1>2, Entries
  <1> HIDE DEF need
  <1>4. /\ buf' \in [Buffers -> Header] /\ Fits'
        /\ \A x \in Buffers : buf'[x].owned = buf[x].owned /\ buf'[x].shared = buf[x].shared
    BY <1>1, <1>2, GrownInPlace
  <1>5. \E m \in (Top - 2 + 1)..Top : stack[m].b = Val(v).b
    BY <1>2, <1>3
  <1> HIDE DEF v
  <1> QED BY <1>1, <1>2, <1>3, <1>4, <1>5, ReplaceKeeps

LEMMA AppendCopyKeeps ==
    ASSUME IInv, NEW b \in Buffers, AppendCopy(b), UNCHANGED unmarked PROVE IInv'
  <1> DEFINE v == stack[Top - 1].b
             need == buf[v].len + buf[Operand].len
  <1>1. /\ Top >= 2 /\ HasVal /\ stack[Top - 1].k = "val" /\ Fresh(b) /\ Replace(2, Val(b))
        /\ UNCHANGED <<global, cells>>
        /\ \/ buf' = [buf EXCEPT ![b] = New(need, CopyCap(need))]
           \/ \E c \in 0..(2 * need + MinCap) :
                IsGrown(buf[v].cap, need, c) /\ buf' = [buf EXCEPT ![b] = New(need, c)]
    BY DEF AppendCopy
  <1>2. Top \in Nat /\ 2 \in 0..Top /\ need \in Nat /\ buf[v].cap \in Nat
    BY <1>1, OperandsAre
  <1> HIDE DEF need, v
  <1>3. CASE buf' = [buf EXCEPT ![b] = New(need, CopyCap(need))]
    BY <1>1, <1>2, <1>3, Copied, FreshKeeps
  <1>4. CASE \E c \in 0..(2 * need + MinCap) :
               IsGrown(buf[v].cap, need, c) /\ buf' = [buf EXCEPT ![b] = New(need, c)]
    <2>1. PICK c \in 0..(2 * need + MinCap) :
            IsGrown(buf[v].cap, need, c) /\ buf' = [buf EXCEPT ![b] = New(need, c)]
      BY <1>4
    <2>2. c \in Nat /\ need <= c
      BY <1>2, <2>1, BoundsAssumption, Grown
    <2> QED BY <1>1, <1>2, <2>1, <2>2, FreshKeeps
  <1> QED BY <1>1, <1>3, <1>4

LEMMA SelfInPlaceKeeps == IInv /\ SelfInPlace /\ UNCHANGED unmarked => IInv'
  <1> SUFFICES ASSUME IInv, SelfInPlace, UNCHANGED unmarked PROVE IInv'
    OBVIOUS
  <1>1. PICK i \in 0..Top :
          LET cur == Holds(i)
              need == buf[cur].len + buf[Operand].len
          IN  /\ SelfReady(1) /\ Resolves(i) /\ need <= buf[cur].cap
              /\ buf' = [buf EXCEPT ![cur].len = need] /\ Replace(2, Val(cur))
              /\ UNCHANGED <<global, cells>>
    BY DEF SelfInPlace
  <1> DEFINE cur == Holds(i)
             need == buf[cur].len + buf[Operand].len
  <1>2. /\ Top \in Nat /\ 2 \in 0..Top /\ Operand \in Buffers
        /\ cur \in Buffers /\ cur \in Ref /\ (~unmarked => buf[cur].owned)
    BY <1>1, StatementIs, ResolvedIs DEF IInv, Ref
  <1>3. need \in Nat
    <2>1. buf[cur] \in Header /\ buf[Operand] \in Header
      BY <1>2 DEF IInv, TypeOK
    <2> QED BY <2>1 DEF Header
  <1>4. Val(cur) \in Entry /\ Val(cur).k = "val" /\ Val(cur).b = cur
    BY <1>2, Entries
  <1>5. /\ need <= buf[cur].cap /\ buf' = [buf EXCEPT ![cur].len = need] /\ Replace(2, Val(cur))
        /\ UNCHANGED <<global, cells>>
    BY <1>1
  <1> HIDE DEF need, cur
  <1>6. /\ buf' \in [Buffers -> Header] /\ Fits'
        /\ \A x \in Buffers : buf'[x].owned = buf[x].owned /\ buf'[x].shared = buf[x].shared
    BY <1>2, <1>3, <1>5, GrownInPlace
  <1> QED BY <1>2, <1>4, <1>5, <1>6, ReplaceKeeps

LEMMA SelfFallbackKeeps == IInv /\ SelfFallback /\ UNCHANGED unmarked => IInv'
  <1> SUFFICES ASSUME IInv, SelfFallback, UNCHANGED unmarked PROVE IInv'
    OBVIOUS
  <1> DEFINE e == [stack[Top - 1] EXCEPT !.evals = @ + 1]
  <1>1. SelfReady(1) /\ Replace(2, e) /\ UNCHANGED <<buf, global, cells>>
    BY DEF SelfFallback
  <1>2. /\ Top \in Nat /\ 2 \in 0..Top /\ Top - 1 \in 1..Top
        /\ stack[Top - 1] \in Entry /\ stack[Top - 1].k = "self"
    BY <1>1, StatementIs DEF IInv
  <1>3. stack[Top - 1].evals = 1 /\ stack[Top - 1].b = None
    BY <1>1, <1>2 DEF SelfReady, IInv, StatementsHoldNothing
  <1>4. e \in Entry /\ e.k = "self" /\ e.b = None
    BY <1>2, <1>3 DEF Entry
  <1>5. buf' \in [Buffers -> Header] /\ Fits'
    BY <1>1 DEF IInv, TypeOK, Fits
  <1> HIDE DEF e
  <1> QED BY <1>1, <1>2, <1>4, <1>5, ReplaceKeeps

LEMMA SelfGrowKeeps ==
    ASSUME IInv, NEW b \in Buffers, SelfGrow(b), UNCHANGED unmarked PROVE IInv'
  <1>1. PICK i \in 0..Top, j \in 0..Top :
          LET cur == Holds(i)
              need == buf[cur].len + buf[Operand].len
          IN  /\ SelfReady(1) /\ Resolves(i) /\ SelfSlot(stack[Top - 1].let, j)
              /\ Fresh(b) /\ StoreAndReplace(j, b) /\ UNCHANGED cells
              /\ \E c \in 0..(2 * need + MinCap) :
                   IsGrown(buf[cur].cap, need, c) /\ buf' = [buf EXCEPT ![b] = Mark(New(need, c))]
    BY DEF SelfGrow
  <1> DEFINE cur == Holds(i)
             need == buf[cur].len + buf[Operand].len
  <1>2. j = 0 \/ j \in Calls
    BY <1>1, FrameIs, ResolvesTo DEF SelfSlot, IInv
  <1>3. Operand \in Buffers /\ cur \in Buffers
    BY <1>1, StatementIs, ResolvedIs DEF IInv
  <1>4. need \in Nat /\ buf[cur].cap \in Nat
    <2>1. buf[cur] \in Header /\ buf[Operand] \in Header
      BY <1>3 DEF IInv, TypeOK
    <2> QED BY <2>1 DEF Header
  <1>5. PICK c \in 0..(2 * need + MinCap) :
          IsGrown(buf[cur].cap, need, c) /\ buf' = [buf EXCEPT ![b] = Mark(New(need, c))]
    BY <1>1
  <1> HIDE DEF need, cur
  <1>6. c \in Nat /\ need <= c
    BY <1>4, <1>5, BoundsAssumption, Grown
  <1> QED BY <1>1, <1>2, <1>4, <1>5, <1>6, SelfStoredKeeps

LEMMA SelfCopyKeeps ==
    ASSUME IInv, NEW b \in Buffers, SelfCopy(b), UNCHANGED unmarked PROVE IInv'
  <1>1. PICK i \in 0..Top, j \in 0..Top :
          LET need == buf[Holds(i)].len + buf[Operand].len
          IN  /\ SelfReady(2) /\ Resolves(i) /\ SelfSlot(stack[Top - 1].let, j)
              /\ Fresh(b) /\ StoreAndReplace(j, b) /\ UNCHANGED cells
              /\ buf' = [buf EXCEPT ![b] = Mark(New(need, CopyCap(need)))]
    BY DEF SelfCopy
  <1> DEFINE need == buf[Holds(i)].len + buf[Operand].len
  <1>2. j = 0 \/ j \in Calls
    BY <1>1, FrameIs, ResolvesTo DEF SelfSlot, IInv
  <1>3. Operand \in Buffers /\ Holds(i) \in Buffers
    BY <1>1, StatementIs, ResolvedIs DEF IInv
  <1>4. need \in Nat
    <2>1. buf[Holds(i)] \in Header /\ buf[Operand] \in Header
      BY <1>3 DEF IInv, TypeOK
    <2> QED BY <2>1 DEF Header
  <1>5. buf' = [buf EXCEPT ![b] = Mark(New(need, CopyCap(need)))]
    BY <1>1
  <1> HIDE DEF need
  <1>6. CopyCap(need) \in Nat /\ need <= CopyCap(need)
    BY <1>4, Copied
  <1> QED BY <1>1, <1>2, <1>4, <1>5, <1>6, SelfStoredKeeps

LEMMA ReturnKeeps == IInv /\ Return /\ UNCHANGED unmarked => IInv'
  <1> SUFFICES ASSUME IInv, Return, UNCHANGED unmarked PROVE IInv'
    OBVIOUS
  <1> DEFINE e == stack[Top]
  <1>1. /\ Top \in Nat /\ 2 \in 0..Top /\ Top \in (Top - 2 + 1)..Top
        /\ e \in Entry /\ e.k = "val" /\ e.b \in Buffers
        /\ stack[Top].b = e.b
    BY OperandIs DEF Return, IInv, Operand
  <1>2. Replace(2, e) /\ UNCHANGED <<buf, global, cells>>
    BY DEF Return
  <1>3. buf' \in [Buffers -> Header] /\ Fits'
    BY <1>2 DEF IInv, TypeOK, Fits
  <1> HIDE DEF e
  <1> QED BY <1>1, <1>2, <1>3, ReplaceKeeps

\* A slot that is written and not marked: from here on the flags may claim too few.
LEMMA StoreUnmarkedKeeps ==
    ASSUME IInv, NEW c \in Cells, StoreUnmarked(c) PROVE IInv'
  <1>1. Operand \in Ref /\ unmarked' = TRUE /\ UNCHANGED <<buf, global, stack>> /\ Top' = Top
    BY OperandIs DEF StoreUnmarked, IInv, Ref, Top
  <1>2. cells' \in [Cells -> Ref]
    BY <1>1 DEF StoreUnmarked, IInv, TypeOK
  <1> QED BY <1>1, <1>2
          DEF IInv, TypeOK, Fits, LiteralsFlagged, StatementsHoldNothing, FlagsCoverOwners

\* Every step keeps the invariant.
LEMMA NextKeeps == IInv /\ [Next]_vars => IInv'
  <1> SUFFICES ASSUME IInv, [Next]_vars PROVE IInv'
    OBVIOUS
  <1>1. CASE UNCHANGED vars
    BY <1>1, SameKeeps
  <1>2. CASE \E c \in Cells : StoreUnmarked(c)
    BY <1>2, StoreUnmarkedKeeps
  <1>3. CASE Marking /\ UNCHANGED unmarked
    <2>1. CASE LoadVar \/ AppendInPlace \/ SelfInPlace \/ SelfFallback \/ Enter \/ EnterWith \/ Return
      BY <1>3, <2>1, LoadVarKeeps, AppendInPlaceKeeps, SelfInPlaceKeeps, SelfFallbackKeeps,
         EnterKeeps, EnterWithKeeps, ReturnKeeps
    <2>2. CASE Discard
      <3>1. 1 \in 0..Top
        BY <2>2, OperandIs DEF Discard, IInv
      <3> QED BY <1>3, <2>2, <3>1, DropKeeps DEF Discard
    <2>3. CASE Unwind
      <3>1. PICK n \in 1..Top : Drop(n)
        BY <2>3 DEF Unwind
      <3>2. n \in 0..Top
        BY DEF IInv, TypeOK, Top
      <3> QED BY <1>3, <2>3, <3>1, <3>2, DropKeeps DEF Unwind
    <2>4. CASE Define \/ Let
      <3>1. PICK i \in 0..Top : (InFrame(i) \/ Resolves(i)) /\ StoreVar(i)
        BY <2>4 DEF Define, Let
      <3> QED BY <1>3, <3>1, FrameIs, ResolvesTo, StoreVarKeeps DEF IInv
    <2>5. CASE \E c \in Cells : LoadCell(c) \/ StoreCell(c) \/ MakeItem(c)
      BY <1>3, <2>5, LoadCellKeeps, StoreCellKeeps, MakeItemKeeps
    <2>6. CASE \E b \in Literals : LoadLiteral(b)
      BY <1>3, <2>6, LoadLiteralKeeps
    <2>7. CASE \E b \in Buffers, n \in Lengths : MakeString(b, n)
      BY <1>3, <2>7, MakeStringKeeps
    <2>8. CASE \E b \in Buffers : AppendCopy(b) \/ SelfGrow(b) \/ SelfCopy(b)
      BY <1>3, <2>8, AppendCopyKeeps, SelfGrowKeeps, SelfCopyKeeps
    <2>9. CASE \E let \in BOOLEAN : BeginSelf(let)
      BY <1>3, <2>9, BeginSelfKeeps
    <2> QED BY <1>3, <2>1, <2>2, <2>3, <2>4, <2>5, <2>6, <2>7, <2>8, <2>9 DEF Marking
  <1> QED BY <1>1, <1>2, <1>3 DEF Next

\* What every reachable state satisfies: the types, lengths within capacities, constants
\* with both flags set, statements that hold nothing, flags that cover the owners.
THEOREM Invariant == Spec => []IInv
  <1>1. Init => IInv
    BY InitHolds
  <1>2. IInv /\ [Next]_vars => IInv'
    BY NextKeeps
  <1> QED BY <1>1, <1>2, PTL DEF Spec

\* However strings are grown in place, doubled and copied, a length never passes the
\* capacity of its buffer: define_self_append and b_append write inside it.
THEOREM Capacity == Spec => []WithinCapacity
  <1>1. IInv => WithinCapacity
    <2> SUFFICES ASSUME IInv PROVE WithinCapacity
      OBVIOUS
    <2>1. \A i \in 1..Top : stack[i].b \in Ref
      <3>1. \A i \in 1..Top : stack[i] \in Entry
        BY DEF IInv, TypeOK, Top
      <3> QED BY <3>1 DEF Entry
    <2>2. Referenced \ {None} \subseteq Buffers
      BY <2>1, LiteralsAssumption DEF Referenced, IInv, TypeOK, Ref
    <2> QED BY <2>2 DEF WithinCapacity, IInv, Fits
  <1> QED BY <1>1, Invariant, PTL

\* Two flags suffice for a reference count as long as every store is marked: a string in
\* two slots is shared, one in a slot is owned, and one no slot claims has one operand.
THEOREM Flags == Spec => []FlagsCoverOwners
  <1>1. IInv => FlagsCoverOwners
    BY DEF IInv
  <1> QED BY <1>1, Invariant, PTL

-----------------------------------------------------------------------------
(* Aliases                                                                 *)

\* A mark changes flags only.
LEMMA MarkKeepsLen ==
    ASSUME TypeOK, NEW x \in Buffers, NEW y \in Buffers, NEW old,
           \/ buf' = [buf EXCEPT ![y] = Mark(@)]
           \/ buf' = [buf EXCEPT ![y] = StoreMark(@, old, y)]
    PROVE  buf'[x].len = buf[x].len
  BY Headers DEF TypeOK, StoreMark

\* A shared string that something holds keeps its length in every step.
LEMMA SharedKept ==
    ASSUME IInv, [Next]_vars, NEW x \in Buffers, buf[x].shared, ~Fresh(x)
    PROVE  buf'[x].len = buf[x].len
  <1>0. TypeOK /\ buf \in [Buffers -> Header]
    BY DEF IInv, TypeOK
  <1>1. CASE UNCHANGED vars \/ \E c \in Cells : StoreUnmarked(c)
    BY <1>1 DEF vars, StoreUnmarked
  <1>2. CASE Marking
    <2>1. CASE LoadVar \/ Discard \/ SelfFallback \/ Enter \/ Return \/ Unwind
      BY <2>1 DEF LoadVar, Discard, SelfFallback, Enter, Return, Unwind
    <2>2. CASE AppendInPlace
      <3>1. PICK n : /\ ~buf[stack[Top - 1].b].shared
                     /\ buf' = [buf EXCEPT ![stack[Top - 1].b].len = n]
        BY <2>2 DEF AppendInPlace
      <3> QED BY <1>0, <3>1
    <2>3. CASE SelfInPlace
      <3>1. PICK i \in 0..Top : /\ ~buf[Holds(i)].shared
                             /\ \E n : buf' = [buf EXCEPT ![Holds(i)].len = n]
        BY <2>3 DEF SelfInPlace, Growable
      <3> QED BY <1>0, <3>1
    <2>4. CASE Define \/ Let
      <3>1. PICK i \in 0..Top : StoreVar(i)
        BY <2>4 DEF Define, Let
      <3> QED BY <1>0, <3>1, OperandIs, MarkKeepsLen DEF StoreVar
    <2>5. CASE EnterWith
      BY <1>0, <2>5, OperandIs, MarkKeepsLen DEF EnterWith
    <2>6. CASE \E c \in Cells : LoadCell(c) \/ StoreCell(c) \/ MakeItem(c)
      BY <1>0, <2>6, OperandIs, MarkKeepsLen DEF LoadCell, StoreCell, MakeItem
    <2>7. CASE \E b \in Literals : LoadLiteral(b)
      BY <2>7 DEF LoadLiteral
    <2>8. CASE \E b \in Buffers, n \in Lengths : MakeString(b, n)
      BY <1>0, <2>8 DEF MakeString
    <2>9. CASE \E b \in Buffers : AppendCopy(b) \/ SelfGrow(b) \/ SelfCopy(b)
      <3>1. PICK b \in Buffers : Fresh(b) /\ \E h : buf' = [buf EXCEPT ![b] = h]
        BY <2>9 DEF AppendCopy, SelfGrow, SelfCopy
      <3> QED BY <1>0, <3>1
    <2>10. CASE \E let \in BOOLEAN : BeginSelf(let)
      BY <2>10 DEF BeginSelf
    <2> QED BY <1>2, <2>1, <2>2, <2>3, <2>4, <2>5, <2>6, <2>7, <2>8, <2>9, <2>10 DEF Marking
  <1> QED BY <1>1, <1>2 DEF Next

\* As long as every store is marked, no step changes the string that two slots hold: the
\* growth in place of define_self_append and b_append is unseen through another name.
THEOREM NoAlias == Spec => NoAliasMutated
  <1> DEFINE Kept == ~unmarked' => \A p, q \in Slots \cap Slots' :
                       p # q /\ At(p) = At(q) /\ At(p) # None /\ At(p)' = At(p) /\ At(q)' = At(q)
                          => buf'[At(p)].len = buf[At(p)].len
  <1>1. IInv /\ [Next]_vars => [Kept]_vars
    <2> SUFFICES ASSUME IInv, Next, ~unmarked',
                        NEW p \in Slots, NEW q \in Slots, p # q, At(p) = At(q), At(p) # None
                 PROVE  buf'[At(p)].len = buf[At(p)].len
      OBVIOUS
    <2>1. ~unmarked
      BY DEF Next, StoreUnmarked
    <2>2. At(p) \in Buffers /\ buf[At(p)].shared
      BY <2>1, SlotsHoldStrings DEF IInv, FlagsCoverOwners, SlotsFlagged
    <2>3. ~Fresh(At(p))
      <3>1. At(p) \in Referenced
        BY SlotIs DEF Referenced, IInv
      <3> QED BY <3>1 DEF Fresh
    <2> QED BY <2>2, <2>3, SharedKept
  <1> HIDE DEF Kept
  <1>2. Spec => [][Kept]_vars
    BY <1>1, Invariant, PTL DEF Spec
  <1> QED BY <1>2 DEF NoAliasMutated, Kept
=============================================================================
