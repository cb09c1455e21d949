------------------------------ MODULE MCBlocks ------------------------------
(* One block and one made of it, or two blocks; two values.                 *)
EXTENDS Blocks

MCLiterals == {<<<<0, 1, 1>>>>, <<<<0>>, <<1>>>>}
=============================================================================
