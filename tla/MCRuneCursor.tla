---------------------------- MODULE MCRuneCursor ----------------------------
(* Model checking RuneCursor: addresses are interchangeable.                *)
EXTENDS RuneCursor, TLC

Symmetry == Permutations(Strings)
=============================================================================
