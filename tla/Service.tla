------------------------------ MODULE Service ------------------------------
(***************************************************************************)
(* What serve promises its clients: one connection at a time is served,    *)
(* once; its requests are answered one by one, in the order they were      *)
(* made, up to the one that ends it.                                       *)
(***************************************************************************)
EXTENDS Integers, Sequences

CONSTANTS Clients, Nobody, Requests, Closing(_)

VARIABLES
    asked,    \* the requests of every client
    answered, \* how many of them were answered
    holder,   \* the client whose connection is served, or Nobody
    served    \* those whose connection is or was served

vars == <<asked, answered, holder, served>>

Init ==
    /\ asked = [c \in Clients |-> <<>>] /\ answered = [c \in Clients |-> 0]
    /\ holder = Nobody /\ served = {}

Ask(c, r) ==
    /\ asked' = [asked EXCEPT ![c] = Append(@, r)]
    /\ UNCHANGED <<answered, holder, served>>

Open(c) ==
    /\ holder = Nobody /\ c \notin served
    /\ holder' = c /\ served' = served \cup {c}
    /\ UNCHANGED <<asked, answered>>

Answer(c) ==
    /\ holder = c /\ answered[c] < Len(asked[c])
    /\ \A i \in 1..answered[c] : ~Closing(asked[c][i])
    /\ answered' = [answered EXCEPT ![c] = @ + 1]
    /\ holder' \in {c, Nobody}
    /\ UNCHANGED <<asked, served>>

HangUp ==
    /\ holder # Nobody /\ holder' = Nobody
    /\ UNCHANGED <<asked, answered, served>>

Next ==
    \/ HangUp
    \/ \E c \in Clients : Open(c) \/ Answer(c) \/ \E r \in Requests : Ask(c, r)

Spec == Init /\ [][Next]_vars
=============================================================================
