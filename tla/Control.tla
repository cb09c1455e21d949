------------------------------ MODULE Control ------------------------------
(***************************************************************************)
(* Structured control as the language promises it: constructs nest, and a  *)
(* return, a break, a continue or an error goes in one step to the         *)
(* construct it belongs to.  corpus/44_loop_control.art: "continue skips   *)
(* the remainder of the current iteration; break exits only the innermost  *)
(* loop".  There are no flags and nothing to poll.  Signals implements it. *)
(***************************************************************************)
EXTENDS Naturals, Sequences

VARIABLE nest   \* the active constructs, innermost last

Constructs == {"function", "loop", "try", "block"}

\* The active constructs of a sort, and the innermost of them.
Active(c) == {i \in 1..Len(nest) : nest[i] = c}
IsInnermost(i, c) == i \in Active(c) /\ \A j \in Active(c) : j <= i

\* A loop of the function that is running.
IsOwnLoop(i) == IsInnermost(i, "loop") /\ \A f \in Active("function") : f < i

\* The construct at i is over, or those inside it are.
Leave(i) == nest' = SubSeq(nest, 1, i - 1)
BackTo(i) == nest' = SubSeq(nest, 1, i)

Init == nest = <<"block">>

Enter(c) == nest' = Append(nest, c)

Finish == Len(nest) > 1 /\ Leave(Len(nest))

Return == \E i \in 1..Len(nest) : IsInnermost(i, "function") /\ Leave(i)

Break == \E i \in 1..Len(nest) : IsOwnLoop(i) /\ Leave(i)

Continue == \E i \in 1..Len(nest) : IsOwnLoop(i) /\ BackTo(i)

Throw == \E i \in 1..Len(nest) : IsInnermost(i, "try") /\ Leave(i)

Next == (\E c \in Constructs : Enter(c)) \/ Finish \/ Return \/ Break
        \/ Continue \/ Throw

Spec == Init /\ [][Next]_nest
=============================================================================
