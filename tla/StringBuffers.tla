--------------------------- MODULE StringBuffers ---------------------------
(***************************************************************************)
(* Growable strings of the native runtime (src/runtime/runtime.c).  A      *)
(* string value is a pointer to a buffer with a header: len, cap, and two  *)
(* flags that stand in for a reference count.  str_heap_mark sets `owned`  *)
(* at the first store of the pointer into a heap slot (a variable, an item *)
(* of a block, a dictionary entry) and `shared`, for good, at the second.  *)
(* `s: s ++ x` (define_self_append) grows the buffer of s in place when    *)
(* it is not shared; b_append grows its left operand in place when no heap *)
(* slot owns it; every other append copies.                                *)
(*                                                                         *)
(* Strings are over one letter, so a string value is its length.  There is *)
(* one variable s, which functions may shadow, and cells, the slots of     *)
(* blocks and dictionaries and of the other variables.                     *)
(***************************************************************************)
EXTENDS Naturals, Sequences

CONSTANTS
    Buffers,    \* addresses of string buffers
    Literals,   \* those of the string constants of the program
    None,       \* an empty slot
    Cells,      \* heap slots other than s
    LiteralLen, \* the length of a string constant
    MinCap,     \* 16 in the source: first capacity of an empty buffer
    Lengths,    \* of the strings that are made
    MaxLen,     \* bound of the model: length of a string
    MaxStack    \* bound of the model: depth of the C stack

ASSUME LiteralsAssumption == Literals \subseteq Buffers /\ None \notin Buffers
ASSUME CellsAssumption == \A c \in Cells : c \notin Nat  \* which name the frames
ASSUME BoundsAssumption ==
    MinCap \in Nat \ {0} /\ {LiteralLen, MaxLen, MaxStack} \cup Lengths \subseteq Nat

Ref == Buffers \cup {None}

VARIABLES
    buf,     \* StrHead of each buffer: len, cap, owned, shared
    global,  \* the buffer of s in the global frame
    cells,   \* the buffers in the other heap slots
    stack,   \* the C stack: evaluated operands, functions and statements
    unmarked \* has a slot been written that is never marked?  (history)

vars == <<buf, global, cells, stack, unmarked>>

Header == [len : Nat, cap : Nat, owned : BOOLEAN, shared : BOOLEAN]

\* "val":  an evaluated operand, the buffer b
\* "call": a running function whose local s, if it has one, is in b
\* "self": a statement `s: s ++ x` (or let) inside define_self_append, which
\*         has begun to evaluate x for the evals-th time
Entry == [k : {"val", "call", "self"}, b : Ref, evals : 0..2, let : BOOLEAN]

Val(b)  == [k |-> "val",  b |-> b,    evals |-> 0, let |-> FALSE]
Call    == [k |-> "call", b |-> None, evals |-> 0, let |-> FALSE]
Self(l) == [k |-> "self", b |-> None, evals |-> 1, let |-> l]

Top == Len(stack)

\* The operand on top of the stack.
HasVal == Top >= 1 /\ stack[Top].k = "val"
Operand == stack[Top].b

-----------------------------------------------------------------------------
(* Where the variable s lives.  Slot 0 is the global one, slot i the local  *)
(* of the function at stack position i; functions are written at top       *)
(* level, so a function sees its own frame and the global one.              *)

Calls == {i \in 1..Top : stack[i].k = "call"}
Innermost(i) == i \in Calls /\ \A j \in Calls : j <= i

Holds(i) == IF i = 0 THEN global ELSE stack[i].b

\* The frame that code runs in.
InFrame(i) == IF Calls = {} THEN i = 0 ELSE Innermost(i)

\* env_get and env_let: the nearest binding of s.
Resolves(i) ==
    \/ InFrame(i) /\ Holds(i) # None
    \/ i = 0 /\ \E f \in Calls : Innermost(f) /\ stack[f].b = None

-----------------------------------------------------------------------------
(* Buffers                                                                 *)

\* Every pointer some slot, operand or constant holds.
Referenced ==
    Literals \cup {global} \cup {cells[c] : c \in Cells}
             \cup {stack[i].b : i \in 1..Top}

\* A buffer the allocator may hand out; one nothing refers to is as good as
\* new, whether or not the arena has taken it back.
Fresh(b) == b \in Buffers /\ b \notin Referenced

New(n, c) == [len |-> n, cap |-> c, owned |-> FALSE, shared |-> FALSE]

MarkForgetsShare(h) == [h EXCEPT !.owned = TRUE]

\* str_heap_mark on the header h.
Mark(h) == IF h.owned THEN [h EXCEPT !.shared = TRUE] ELSE [h EXCEPT !.owned = TRUE]

\* The mark is skipped when a slot is rewritten with the pointer it holds.
StoreMark(h, old, b) == IF old = b THEN h ELSE Mark(h)

\* The first capacity to double, MinCap for an empty buffer.
Base(cap) == IF cap = 0 THEN MinCap ELSE cap

IsGrownOnce(cap, need, new) == new = IF Base(cap) >= need THEN Base(cap) ELSE Base(cap) * 2

\* Doubling from the present capacity, or from MinCap, up to `need`.
IsGrown(cap, need, new) ==
    LET base == Base(cap) IN
    /\ new >= need
    /\ \E k \in 0..need : new = base * 2^k /\ (k = 0 \/ base * 2^k < 2 * need)

\* The capacity of a copy made by b_append.
CopyCap(need) == IF need = 0 THEN MinCap ELSE need * 2

-----------------------------------------------------------------------------
Init ==
    /\ buf = [b \in Buffers |->
                IF b \in Literals
                THEN [New(LiteralLen, LiteralLen) EXCEPT !.owned = TRUE, !.shared = TRUE]
                ELSE New(0, 0)]
    /\ global \in Literals
    /\ cells = [c \in Cells |-> None]
    /\ stack = <<>>
    /\ unmarked = FALSE

Push(e) == Top < MaxStack /\ stack' = Append(stack, e)

\* The stack without its n top entries, then e.
Replace(n, e) == stack' = Append(SubSeq(stack, 1, Top - n), e)
Drop(n) == stack' = SubSeq(stack, 1, Top - n)

\* OP_LOAD of s: the pointer is copied, the buffer is not.
LoadVar ==
    /\ \E i \in 0..Top : Resolves(i) /\ Push(Val(Holds(i)))
    /\ UNCHANGED <<buf, global, cells>>

LoadCell(c) ==
    /\ cells[c] # None
    /\ Push(Val(cells[c]))
    /\ UNCHANGED <<buf, global, cells>>

\* OP_CONST: ir_const marked the buffer shared when the program was built.
LoadLiteral(b) ==
    /\ Push(Val(b))
    /\ UNCHANGED <<buf, global, cells>>

\* v_str, from any intrinsic that makes a string.
MakeString(b, n) ==
    /\ Fresh(b)
    /\ buf' = [buf EXCEPT ![b] = New(n, n)]
    /\ Push(Val(b))
    /\ UNCHANGED <<global, cells>>

\* b_append on two strings: v ++ x.
AppendInPlace ==
    LET v == stack[Top - 1].b
        need == buf[v].len + buf[Operand].len
    IN
    /\ Top >= 2 /\ HasVal /\ stack[Top - 1].k = "val"
    /\ need <= MaxLen
    /\ ~buf[v].owned /\ ~buf[v].shared /\ need <= buf[v].cap
    /\ buf' = [buf EXCEPT ![v].len = need]
    /\ Replace(2, Val(v))
    /\ UNCHANGED <<global, cells>>

AppendCopy(b) ==
    LET v == stack[Top - 1].b
        need == buf[v].len + buf[Operand].len
    IN
    /\ Top >= 2 /\ HasVal /\ stack[Top - 1].k = "val"
    /\ need <= MaxLen
    /\ Fresh(b)
    /\ IF buf[v].owned \/ buf[v].shared
       THEN buf' = [buf EXCEPT ![b] = New(need, CopyCap(need))]
       ELSE /\ need > buf[v].cap
            /\ \E c \in 0..(2 * need + MinCap) :
                 /\ IsGrown(buf[v].cap, need, c)
                 /\ buf' = [buf EXCEPT ![b] = New(need, c)]
    /\ Replace(2, Val(b))
    /\ UNCHANGED <<global, cells>>

\* The value of a statement is dropped.
Discard ==
    /\ HasVal
    /\ Drop(1)
    /\ UNCHANGED <<buf, global, cells>>

\* The operand is stored in slot i of s, and stays the value of the statement.
StoreVar(i) ==
    /\ HasVal
    /\ buf' = [buf EXCEPT ![Operand] = StoreMark(@, Holds(i), Operand)]
    /\ IF i = 0 THEN global' = Operand /\ UNCHANGED stack
                ELSE global' = global /\ stack' = [stack EXCEPT ![i].b = Operand]
    /\ UNCHANGED cells

\* `s: value`, when define_self_append does not apply: env_define_body writes
\* the current frame.
Define == \E i \in 0..Top : InFrame(i) /\ StoreVar(i)

\* `let 's value`, and labels in action bodies: the nearest binding.
Let == \E i \in 0..Top : Resolves(i) /\ StoreVar(i)

\* path_store, b_set, b_insert, block_append.
StoreCell(c) ==
    /\ HasVal
    /\ buf' = [buf EXCEPT ![Operand] = StoreMark(@, cells[c], Operand)]
    /\ cells' = [cells EXCEPT ![c] = Operand]
    /\ UNCHANGED <<global, stack>>

\* v_block, v_dict: the operand becomes an item of a new container, whose slot
\* held nothing.  A container of n items is n such steps.
MakeItem(c) ==
    /\ HasVal
    /\ buf' = [buf EXCEPT ![Operand] = Mark(@)]
    /\ cells' = [cells EXCEPT ![c] = Operand]
    /\ Drop(1)
    /\ UNCHANGED global

\* b_prepend on a block, path_write in a stored block, the positional fields of
\* runtime_construct: the slot is written and nothing is marked.
StoreUnmarked(c) ==
    /\ HasVal
    /\ cells' = [cells EXCEPT ![c] = Operand]
    /\ unmarked' = TRUE
    /\ UNCHANGED <<buf, global, stack>>

-----------------------------------------------------------------------------
(* define_self_append: `s: s ++ x` and `let 's s ++ x`.                    *)

\* The appendage is evaluated first, with the statement on the C stack.
BeginSelf(let) ==
    /\ Push(Self(let))
    /\ UNCHANGED <<buf, global, cells>>

\* x is now the operand above statement `a`, which has evaluated it n times.
SelfReady(n) ==
    /\ Top >= 2 /\ HasVal
    /\ stack[Top - 1].k = "self" /\ stack[Top - 1].evals = n

GrowableAlways(h) == TRUE
\* In-place growth needs an unshared buffer.
Growable(h) == ~h.shared

\* The buffer has room: it is grown in place and the slot is left alone,
\* whichever frame's slot env_get found.
SelfInPlace ==
    \E i \in 0..Top :
        LET cur == Holds(i)
            need == buf[cur].len + buf[Operand].len
        IN
        /\ SelfReady(1) /\ Resolves(i)
        /\ Growable(buf[cur])
        /\ need <= MaxLen /\ need <= buf[cur].cap
        /\ buf' = [buf EXCEPT ![cur].len = need]
        /\ Replace(2, Val(cur))
        /\ UNCHANGED <<global, cells>>

\* The slot that env_define_body or env_let writes.
SelfSlot(let, i) == IF let THEN Resolves(i) ELSE InFrame(i)

\* Slot i of s becomes b, and the two top entries become the value b.
StoreAndReplace(i, b) ==
    LET rest == SubSeq(stack, 1, Top - 2)
    IN  IF i = 0 THEN global' = b /\ stack' = Append(rest, Val(b))
        ELSE global' = global /\ stack' = Append([rest EXCEPT ![i].b = b], Val(b))

\* It has no room: a larger copy takes its place in the slot.
SelfGrow(b) ==
    \E i \in 0..Top, j \in 0..Top :
        LET cur == Holds(i)
            need == buf[cur].len + buf[Operand].len
        IN
        /\ SelfReady(1) /\ Resolves(i) /\ SelfSlot(stack[Top - 1].let, j)
        /\ Growable(buf[cur])
        /\ need <= MaxLen /\ need > buf[cur].cap
        /\ Fresh(b)
        /\ \E c \in 0..(2 * need + MinCap) :
             /\ IsGrown(buf[cur].cap, need, c)
             /\ buf' = [buf EXCEPT ![b] = Mark(New(need, c))]
        /\ StoreAndReplace(j, b)
        /\ UNCHANGED cells

\* The buffer is shared: define_self_append gives up, and the caller runs the
\* whole right-hand side, appendage included.
SelfFallback ==
    \E i \in 0..Top :
        /\ SelfReady(1) /\ Resolves(i)
        /\ ~Growable(buf[Holds(i)])
        /\ Replace(2, [stack[Top - 1] EXCEPT !.evals = @ + 1])
        /\ UNCHANGED <<buf, global, cells>>

\* The appendage has been evaluated again; s is loaded (arguments are
\* evaluated from the last to the first), b_append copies, and the result is
\* stored.  The left operand is in a slot, so it is owned.
SelfCopy(b) ==
    \E i \in 0..Top, j \in 0..Top :
        LET need == buf[Holds(i)].len + buf[Operand].len IN
        /\ SelfReady(2) /\ Resolves(i) /\ SelfSlot(stack[Top - 1].let, j)
        /\ need <= MaxLen
        /\ Fresh(b)
        /\ buf' = [buf EXCEPT ![b] = Mark(New(need, CopyCap(need)))]
        /\ StoreAndReplace(j, b)
        /\ UNCHANGED cells

-----------------------------------------------------------------------------
\* applyFunc: a function with no local s yet.
Enter ==
    /\ Push(Call)
    /\ UNCHANGED <<buf, global, cells>>

\* The same with the operand bound to a parameter named s.
EnterWith ==
    /\ HasVal
    /\ buf' = [buf EXCEPT ![Operand] = Mark(@)]
    /\ Replace(1, [Call EXCEPT !.b = Operand])
    /\ UNCHANGED <<global, cells>>

\* It returns the operand; its frame is gone.
Return ==
    /\ Top >= 2 /\ HasVal /\ stack[Top - 1].k = "call"
    /\ Replace(2, stack[Top])
    /\ UNCHANGED <<buf, global, cells>>

\* die() unwinds to a try around any of the activations.
Unwind ==
    /\ \E n \in 1..Top : Drop(n)
    /\ UNCHANGED <<buf, global, cells>>

Marking ==
    \/ LoadVar \/ Discard \/ AppendInPlace \/ Define \/ Let
    \/ SelfInPlace \/ SelfFallback \/ Enter \/ EnterWith \/ Return \/ Unwind
    \/ \E c \in Cells : LoadCell(c) \/ StoreCell(c) \/ MakeItem(c)
    \/ \E b \in Literals : LoadLiteral(b)
    \/ \E b \in Buffers, n \in Lengths : MakeString(b, n)
    \/ \E b \in Buffers : AppendCopy(b) \/ SelfGrow(b) \/ SelfCopy(b)
    \/ \E let \in BOOLEAN : BeginSelf(let)

Next == (Marking /\ UNCHANGED unmarked) \/ \E c \in Cells : StoreUnmarked(c)

Spec == Init /\ [][Next]_vars

-----------------------------------------------------------------------------
(* Properties                                                              *)

TypeOK ==
    /\ buf \in [Buffers -> Header]
    /\ global \in Buffers
    /\ cells \in [Cells -> Ref]
    /\ stack \in Seq(Entry)
    /\ \A i \in 1..Top : stack[i].k = "val" => stack[i].b \in Buffers

\* Every heap slot: the global s, the locals of running functions, the cells.
Slots == {0} \cup Calls \cup Cells
At(p) == IF p \in Cells THEN cells[p] ELSE Holds(p)

\* Whatever grew in place, and however often, still fits its buffer.
WithinCapacity == TypeOK /\ \A b \in Referenced \ {None} : buf[b].len <= buf[b].cap

\* A string two heap slots hold is flagged shared, and one that any slot holds
\* is flagged owned.
SlotsFlagged ==
    \A p \in Slots : At(p) # None =>
        /\ buf[At(p)].owned
        /\ \A q \in Slots : p # q /\ At(q) = At(p) => buf[At(p)].shared

\* A string no flag claims is a temporary: one operand refers to it and nothing
\* else, so b_append may grow it in place unseen.
TemporariesUnshared ==
    \A i \in 1..Top : (stack[i].b # None /\ ~buf[stack[i].b].owned) =>
        /\ stack[i].b \notin {At(p) : p \in Slots}
        /\ \A j \in 1..Top : stack[j].b = stack[i].b => j = i

\* The flags never claim fewer owners than there are, along any sequence of
\* stores, appends, calls and errors, until a slot is written unmarked.
FlagsCoverOwners == ~unmarked => SlotsFlagged /\ TemporariesUnshared

\* Growing one variable's string never changes what another slot holds, "without
\* ever mutating an alias".  Until a slot is written unmarked.
NoAliasMutated ==
    [][~unmarked' => \A p, q \in Slots \cap Slots' :
          p # q /\ At(p) = At(q) /\ At(p) # None /\ At(p)' = At(p) /\ At(q)' = At(q)
             => buf'[At(p)].len = buf[At(p)].len]_vars

-----------------------------------------------------------------------------
(* What the comments in the source say and the code does not do.           *)

\* "grow s in place when it is an exclusive V_STR ... without ever mutating an
\* alias": an operand that waits on the C stack keeps its value.
WaitingOperandsKept ==
    [][\A i \in 1..Top : 
          i < Top' /\ stack[i].k = "val" /\ stack'[i] = stack[i]
             => buf'[stack[i].b].len = buf[stack[i].b].len]_vars

\* "x: value at FUNCTION scope ... LOCAL only": a label `s: s ++ x` that ends
\* inside a function leaves the outer s as it was.
LabelsAreLocal ==
    [][Calls # {} /\ SelfReady(1) /\ ~stack[Top - 1].let /\ Top' = Top - 1
          => global' = global /\ buf'[global].len = buf[global].len]_vars

\* "evaluate the appendage first (preserves side-effect order)": the program's
\* appendage expression is evaluated once per statement.
AppendageOnce == \A i \in 1..Top : stack[i].k = "self" => stack[i].evals = 1
=============================================================================
