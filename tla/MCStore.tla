------------------------------ MODULE MCStore ------------------------------
(* Two files, two keys: two handles may share a file.                       *)
EXTENDS Store
=============================================================================
