-------------------------- MODULE MCStringBuffers --------------------------
(* Model checking StringBuffers: buffers that are not literals are          *)
(* interchangeable, and so are the cells.                                   *)
EXTENDS StringBuffers, TLC

\* What a buffer held before nothing referred to it any more does not matter:
\* its header is written before it is read again.
View == <<[b \in Referenced \cap Buffers |-> buf[b]], global, cells, stack, unmarked>>

Symmetry == Permutations(Buffers \ Literals) \cup Permutations(Cells)
=============================================================================
