----------------------------- MODULE MCSockets -----------------------------
(* Sockets with an empty message, one of two lines, and one longer than     *)
(* the smaller size.                                                        *)
EXTENDS Sockets

MCMessages == {<<>>, <<"x", LF, "x">>, <<"x", "x", "x">>}
MCSizes == {2, 4}
=============================================================================
