------------------------------ MODULE Signals ------------------------------
(***************************************************************************)
(* How return, break and continue travel in src/runtime/runtime.c: each    *)
(* raises a global flag, and every construct polls the flags when the      *)
(* statement it ran comes back, stops its sequence, and the construct the  *)
(* signal belongs to clears the flag.  Errors longjmp to the innermost try *)
(* instead.  The attributes of a call are a global too, swapped when a     *)
(* call with attributes starts and restored when it ends.                  *)
(*                                                                         *)
(* The stack is the part of the C stack that runs statements or operands;  *)
(* each construct holds the sequence it is running, so a runSeq that is    *)
(* only the body of a loop has no entry of its own.  `back` is the moment  *)
(* between a statement that came back and the poll.                        *)
(***************************************************************************)
EXTENDS Integers, Sequences

CONSTANTS
    Anywhere,  \* may operands, conditions and stored blocks raise signals?
    MaxDepth   \* bound of the model: constructs on the stack

ASSUME BoundsAssumption == Anywhere \in BOOLEAN /\ MaxDepth \in Nat \ {0}

VARIABLES
    stack, \* constructs, innermost last: [kind, part, own, saved]
    flags, \* which of rt_ret_set, rt_brk_set, rt_cont_set are set
    attrs, \* g_attrs: the call on the stack they belong to, 0 for none
    back   \* a statement of the top construct has just come back

vars == <<stack, flags, attrs, back>>

SignalSet == {"ret", "brk", "cont"}

\* body: applyFunc.  do: runDoSeq.  seq: runSeq where no construct here owns
\* it.  loop: OP_LOOP.  higher: the 13 intrinsics with a compiled action.
\* storedLoop: b_loop.  tail: path_call_tail.  plain: whatever evaluates code
\* and looks at no flag: operands, values to bind, stored blocks.
Compiled == {"while", "until", "loop"}
Loops    == Compiled \cup {"higher", "storedLoop"}
Foldable == {"body", "do"}
Polling  == Compiled \cup Foldable \cup {"higher", "seq"}
Kinds    == Polling \cup {"storedLoop", "plain", "tail", "try"}

\* Calls that may have attributes of their own.
Calls == {"body", "higher", "storedLoop", "plain"}

\* run: the sequence of a construct.  cond: the condition of while, until.
\* path, retPath: a path call consumes the statements after it, read by a
\* statement or by a return.  fold: the two values of a sequence are applied.
\* args, call: the two halves of path_call_tail.
Parts == {"run", "cond", "path", "retPath", "fold", "args", "call"}

FirstPart(k) == CASE k = "while" -> "cond" [] k = "tail" -> "args" [] OTHER -> "run"

Depth == Len(stack)
Top   == stack[Depth]

-----------------------------------------------------------------------------
(* The flags: who clears what.                                             *)

\* A call starts with no return raised, a loop with no break or continue;
\* which matters only when something was raised in an operand.
AtEntry(k) ==
    CASE k = "body" -> {"ret"}
      [] k \in Compiled -> {"brk", "cont"}
      [] k = "storedLoop" -> {"brk"}
      [] OTHER -> {}

AtExitLoopsTakeAll(k, raised) ==
    CASE k = "body" -> {"ret"}
      [] k \in Loops -> {"brk", "cont", "ret"}
      [] OTHER -> {}

\* What a construct clears when it is over.
AtExit(k, raised) ==
    CASE k = "body" -> {"ret"}
      [] k \in Compiled -> {"brk", "cont"}
      [] k = "storedLoop" -> {"brk"}
      [] k = "higher" -> IF "ret" \in raised THEN {}
                         ELSE IF "brk" \in raised THEN {"brk"} ELSE {"cont"}
      [] OTHER -> {}

\* A round of a loop that sees these flags is its last.
IsLast(k, part, raised) ==
    \/ "ret" \in raised /\ k # "storedLoop"
    \/ "brk" \in raised /\ part = "run"

-----------------------------------------------------------------------------
(* Where signals may be raised.                                            *)

Innermost(st, ks) ==
    LET at == {i \in 1..Len(st) : st[i].kind \in ks}
    IN  IF at = {} THEN 0 ELSE CHOOSE i \in at : \A j \in at : j <= i

\* The construct a signal belongs to; 0 if the program has none.
Owner(st, s) ==
    IF s = "ret" THEN Innermost(st, {"body"})
    ELSE LET l == Innermost(st, Loops)
         IN  IF l > Innermost(st, {"body"}) THEN l ELSE 0

\* Nothing is left to do between i and its statement once a signal is seen.
AtStatement(i, s) ==
    LET c == stack[i] IN
    \/ c.kind = "try"
    \/ c.kind \in Polling /\ (c.part = "run" \/ (s = "ret" /\ c.part = "cond"))

MayRaise(s) ==
    /\ Owner(stack, s) # 0
    /\ Anywhere \/ \A i \in Owner(stack, s)..Depth : AtStatement(i, s)

-----------------------------------------------------------------------------
(* Actions.                                                                *)

Part(p) == stack' = [stack EXCEPT ![Depth].part = p]

Init ==
    /\ stack = <<[kind |-> "seq", part |-> "run", own |-> FALSE, saved |-> 0]>>
    /\ flags = {} /\ attrs = 0 /\ back = FALSE

Push(base, k, own) ==
    /\ Depth < MaxDepth
    /\ stack' = Append(base, [kind |-> k, part |-> FirstPart(k), own |-> own,
                              saved |-> attrs])
    /\ flags' = flags \ AtEntry(k)
    /\ attrs' = IF own THEN Depth + 1 ELSE attrs
    /\ back' = FALSE

\* A statement or an operand that starts a construct.
Enter(k, own) ==
    /\ ~back /\ k # "tail" /\ (own => k \in Calls)
    /\ Push(stack, k, own)

\* Any other statement: a load, an intrinsic, a binding.
Statement ==
    /\ ~back /\ back' = TRUE
    /\ UNCHANGED <<stack, flags, attrs>>

\* OP_RETURN once its operand is a value, OP_BREAK, OP_CONTINUE.
Raise(s) ==
    /\ ~back /\ MayRaise(s)
    /\ flags' = flags \cup {s} /\ back' = TRUE
    /\ UNCHANGED <<stack, attrs>>

\* The next statement of the sequence.
GoesOnAfterContinue == Top.kind \in Polling => flags \subseteq {"cont"}

GoesOn == Top.kind \in Polling \cup {"tail"} => flags = {}

NextStatement ==
    /\ back /\ Top.kind # "try" /\ Top.part \in {"run", "cond", "args"} /\ GoesOn
    /\ back' = FALSE
    /\ UNCHANGED <<stack, flags, attrs>>

\* The construct returns to the one that runs it.
Restore(c) == IF c.own THEN c.saved ELSE attrs

Pop(kept) ==
    /\ Depth > 1
    /\ stack' = SubSeq(stack, 1, Depth - 1)
    /\ flags' = kept /\ attrs' = Restore(Top) /\ back' = TRUE

Leaves == Pop(flags \ AtExit(Top.kind, flags))

\* A sequence ends, and with it a construct that runs one only once.
SequenceEnds ==
    /\ back /\ Top.kind \in Foldable \cup {"seq", "plain", "try"} /\ Top.part = "run"
    /\ Leaves

\* A round of a loop ends: the last one, or one more follows.
LoopEnds ==
    /\ back /\ Top.kind \in Loops /\ Top.part = "run"
    /\ \/ IsLast(Top.kind, "run", flags)
       \/ Top.kind \notin {"while", "until"}
    /\ Leaves

AfterRound(k) == IF k \in {"while", "until"} THEN "cond" ELSE "run"

NextRound ==
    /\ back /\ Top.kind \in Loops /\ Top.part = "run"
    /\ ~IsLast(Top.kind, "run", flags)
    /\ Part(AfterRound(Top.kind))
    /\ flags' = IF Top.kind = "storedLoop" THEN flags ELSE flags \ {"cont"}
    /\ back' = FALSE /\ UNCHANGED attrs

\* while and until, once the condition is known.
CondStops == back /\ Top.part = "cond" /\ Leaves

CondGoesOn ==
    /\ back /\ Top.part = "cond" /\ ~IsLast(Top.kind, "cond", flags)
    /\ Part("run") /\ back' = FALSE /\ UNCHANGED <<flags, attrs>>

\* The value of a statement is a function read through a path:
\* path_call_tail takes the statements after it as its arguments.
PathTail(p) ==
    /\ Top.kind \in Foldable /\ Top.part = "run"
    /\ Push([stack EXCEPT ![Depth].part = p], "tail", FALSE)

PathCall == back /\ flags = {} /\ PathTail("path")

\* A return of such a function is put aside until it has been applied.
ReturnPath == ~back /\ MayRaise("ret") /\ PathTail("retPath")

\* path_call_tail applies the function, unless an argument raised a signal.
TailApplies ==
    /\ back /\ Top.kind = "tail" /\ Top.part = "args" /\ flags = {}
    /\ Push([stack EXCEPT ![Depth].part = "call"], "body", FALSE)

TailReturns ==
    /\ back /\ Top.kind = "tail" /\ (Top.part = "call" \/ flags # {})
    /\ Leaves

\* The sequence goes on behind the arguments, or on the first of them again
\* if one of them raised a signal, without a poll; ...
PathCallDone ==
    /\ back /\ Top.part = "path"
    /\ \/ Part("run") /\ back' = FALSE /\ UNCHANGED <<flags, attrs>>
       \/ Leaves

\* ... a return is raised again, with the result.
ReturnAgain ==
    /\ back /\ Top.part = "retPath"
    /\ Part("run")
    /\ flags' = flags \cup {"ret"} /\ UNCHANGED <<attrs, back>>

\* The operands of a fold are statements: one that raised is not a value.
FoldsValues ==
    IF Anywhere THEN Top.kind = "body" => "ret" \notin flags ELSE flags = {}

\* apply_tail_two: of two values one is a function, and the sequence gives
\* its result.  The values are its operands.
Fold ==
    /\ back /\ Top.kind \in Foldable /\ Top.part = "run"
    /\ FoldsValues
    /\ Push([stack EXCEPT ![Depth].part = "fold"], "body", FALSE)

Folded == back /\ Top.part = "fold" /\ Leaves

\* die, longjmp and the handler, which puts the attributes back.
CaughtForgets(t) == attrs

Caught(t) == stack[t].saved

Die ==
    /\ ~back
    /\ LET t == Innermost(stack, {"try"}) IN
       /\ t # 0
       /\ stack' = SubSeq(stack, 1, t - 1)
       /\ attrs' = Caught(t)
    /\ back' = TRUE /\ UNCHANGED flags

Next ==
    \/ \E k \in Kinds, own \in BOOLEAN : Enter(k, own)
    \/ \E s \in SignalSet : Raise(s)
    \/ Statement \/ NextStatement \/ SequenceEnds
    \/ LoopEnds \/ NextRound \/ CondStops \/ CondGoesOn
    \/ PathCall \/ ReturnPath \/ TailApplies \/ TailReturns \/ PathCallDone \/ ReturnAgain
    \/ Fold \/ Folded \/ Die

Spec == Init /\ [][Next]_vars

-----------------------------------------------------------------------------
(* Properties                                                              *)

TypeOK ==
    /\ stack \in Seq([kind : Kinds, part : Parts, own : BOOLEAN, saved : 0..MaxDepth])
    /\ Depth \in 1..MaxDepth
    /\ flags \subseteq SignalSet
    /\ attrs \in 0..Depth
    /\ back \in BOOLEAN

\* No code runs while a signal is on its way: every construct between the
\* statement that raised it and its owner polls, and no flag outlives its
\* owner to stop a later sequence.
RaisedStopsAll == flags # {} => back

\* g_attrs are those of the innermost call that has any, also after an error
\* dropped calls that would have restored them: they never point into the C
\* frame of a call that is gone.
AttrsOfInnermost ==
    LET own == {i \in 1..Depth : stack[i].own}
    IN  IF own = {} THEN attrs = 0 ELSE attrs \in own /\ \A i \in own : i <= attrs

\* "continue skips the remainder of the current iteration; break exits only
\* the innermost loop": neither survives the loop it was raised in.
EndsWithItsLoop ==
    [][(Top.kind \in Loops /\ Len(stack') = Depth - 1 /\ "ret" \notin flags)
         => flags' \subseteq {"ret"}]_vars

-----------------------------------------------------------------------------
(* The refinement: a signal that is raised has already arrived.            *)

Class(k) == CASE k = "body" -> "function" [] k \in Loops -> "loop"
              [] k = "try" -> "try" [] OTHER -> "block"

Arrived ==
    CASE "ret" \in flags -> Owner(stack, "ret") - 1
      [] "brk" \in flags -> Owner(stack, "brk") - 1
      [] "cont" \in flags -> Owner(stack, "cont")
      [] OTHER -> Depth

nestBar == [i \in 1..Arrived |-> Class(stack[i].kind)]

Lang == INSTANCE Control WITH nest <- nestBar

\* Flags and polls behave like structured jumps: a return ends its function,
\* a break or continue its loop or iteration, an error the innermost try,
\* whatever constructs lie between.
ImplementsControl == Lang!Spec
=============================================================================
