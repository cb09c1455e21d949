------------------------------ MODULE MCServe ------------------------------
(* Serve with a plain request, one with a body, one whose header ends the   *)
(* connection, and one of HTTP/1.0 that no route matches, after an empty    *)
(* line.                                                                    *)
EXTENDS Serve

Plain == [routed |-> TRUE, body |-> 0, ends |-> "none", blank |-> FALSE]
Posted == [routed |-> TRUE, body |-> 1, ends |-> "none", blank |-> FALSE]
Final == [routed |-> TRUE, body |-> 0, ends |-> "header", blank |-> FALSE]
Old == [routed |-> FALSE, body |-> 0, ends |-> "version", blank |-> TRUE]

\* The first client may pipeline, the second waits behind it.
MCQuota == <<2, 1>>
MCRequests == <<{Posted, Final, Old}, {Plain}>>
=============================================================================
