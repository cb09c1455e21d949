------------------------------- MODULE Scopes -------------------------------
(***************************************************************************)
(* What the language promises about variables and scopes (SPEC.md, the     *)
(* comments on env_set, env_define_local and env_let in                    *)
(* src/runtime/runtime.c), with no memory management: scopes are objects,  *)
(* and a scope may be forgotten only when nothing can reach it.  There is  *)
(* no serial number, no captured flag and no list of live frames here.     *)
(* Frames implements it.                                                   *)
(***************************************************************************)
EXTENDS Naturals, Sequences

CONSTANTS Names, Data, Null, Unbound,
          Ids     \* names for scopes; a function value names its scope

VARIABLES
    heap,      \* the scopes that exist: id -> [parent, rebind, slots]
    acts,      \* running activations, innermost last: [kind, env]
    acc,       \* the value just computed
    running

vars == <<heap, acts, acc, running>>

NoParent == 0
Empty    == [x \in Names |-> Unbound]
Cur      == acts[Len(acts)].env

\* The scope that binds x, seen from scope e: follow the parents.
Binder(e, x) ==
    LET walk[f \in DOMAIN heap \cup {NoParent}] ==
            IF f = NoParent \/ heap[f].slots[x] # Unbound THEN f
            ELSE walk[heap[f].parent]
    IN  walk[e]

Bound(e, x) == Binder(e, x) # NoParent

\* Assignment reaches an existing binding and otherwise makes one here.
AssignScope(e, x) == IF Bound(e, x) THEN Binder(e, x) ELSE e

\* A label `x:` belongs to its function, but in an action body it assigns to
\* the scope around the body.
LabelScope(e, x) ==
    IF heap[e].rebind THEN AssignScope(heap[e].parent, x) ELSE e

Put(h, f, x, v) == [h EXCEPT ![f].slots[x] = v]

\* A set of scopes that no reference leaves.
Closed(h, keep) ==
    \A f \in keep : 
        /\ h[f].parent \in keep \cup {NoParent}
        /\ \A x \in Names : h[f].slots[x] \in Ids => h[f].slots[x] \in keep

Roots == {acts[i].env : i \in 1..Len(acts)} \cup ({acc} \cap Ids)

\* The scopes are now those of h, less some that nothing reaches.
Becomes(h) ==
    \E keep \in SUBSET DOMAIN h :
        /\ heap' = [f \in keep |-> h[f]]
        /\ Roots' \subseteq keep
        /\ Closed(h, keep)

WithScope(h, id, p, slots, r) ==
    [f \in DOMAIN h \cup {id} |->
        IF f = id THEN [parent |-> p, rebind |-> r, slots |-> slots] ELSE h[f]]

Callable(e) ==
    {f \in Ids : f = acc \/ \E x \in Names : Bound(e, x)
                                /\ heap[Binder(e, x)].slots[x] = f}

Params == {Empty} \cup {[Empty EXCEPT ![x] = acc] : x \in Names}

-----------------------------------------------------------------------------
Init ==
    /\ \E id \in Ids :
         /\ heap = [f \in {id} |-> [parent |-> NoParent, rebind |-> FALSE, slots |-> Empty]]
         /\ acts = <<[kind |-> "top", env |-> id]>>
    /\ acc = Null
    /\ running = TRUE

\* Computations that touch no variable, read one, or make a function.
Compute ==
    /\ \/ acc' \in Data
       \/ \E x \in Names : Bound(Cur, x) /\ acc' = heap[Binder(Cur, x)].slots[x]
       \/ acc' = Cur
    /\ Becomes(heap)
    /\ UNCHANGED <<acts, running>>

Define(x) ==
    /\ Becomes(Put(heap, LabelScope(Cur, x), x, acc))
    /\ UNCHANGED <<acts, acc, running>>

Assign(x) ==
    /\ Becomes(Put(heap, AssignScope(Cur, x), x, acc))
    /\ UNCHANGED <<acts, acc, running>>

Unset(x) ==
    /\ Bound(Cur, x)
    /\ acc' = Null
    /\ Becomes(Put(heap, Binder(Cur, x), x, Unbound))
    /\ UNCHANGED <<acts, running>>

\* A method of a new object closes over a scope that holds the receiver.
Construct(x) ==
    \E m \in Callable(Cur), id \in Ids \ DOMAIN heap :
        /\ acc' = id
        /\ Becomes(WithScope(heap, id, m, [Empty EXCEPT ![x] = Null], FALSE))
        /\ UNCHANGED <<acts, running>>

\* A function body runs in a scope inside the one it was written in; a body
\* or block in a scope inside the current one.
Enter ==
    \E kind \in {"call", "body", "plain"}, slots \in Params, id \in Ids \ DOMAIN heap :
        /\ \E p \in IF kind = "call" THEN Callable(Cur) ELSE {Cur} :
             Becomes(WithScope(heap, id, p, slots, kind = "body"))
        /\ acts' = Append(acts, [kind |-> kind, env |-> id])
        /\ UNCHANGED <<acc, running>>

\* A function may export locals to the scope it was written in.
Return(exports) ==
    LET child == Cur 
        out   == heap[child].parent
    IN
    /\ acts[Len(acts)].kind = "call"
    /\ \A x \in exports : heap[child].slots[x] # Unbound
    /\ acts' = SubSeq(acts, 1, Len(acts) - 1)
    /\ Becomes([f \in DOMAIN heap |->
          [heap[f] EXCEPT !.slots = [x \in Names |->
              IF x \in exports /\ AssignScope(out, x) = f THEN heap[child].slots[x]
                                                          ELSE heap[f].slots[x]]]])
    /\ UNCHANGED <<acc, running>>

Leave ==
    /\ acts[Len(acts)].kind \in {"body", "plain"}
    /\ acts' = SubSeq(acts, 1, Len(acts) - 1)
    /\ Becomes(heap)
    /\ UNCHANGED <<acc, running>>

\* `with` assigns in a scope of its own, which is over at once: to what is
\* bound outside, or to nothing that lasts.
With(x) ==
    \E id \in Ids \ DOMAIN heap :
        /\ acc' = Null
        /\ Becomes(Put(WithScope(heap, id, Cur, Empty, FALSE),
                       IF Bound(Cur, x) THEN Binder(Cur, x) ELSE id, x, acc))
        /\ UNCHANGED <<acts, running>>

EnterTry ==
    /\ acts' = Append(acts, [kind |-> "try", env |-> Cur])
    /\ Becomes(heap)
    /\ UNCHANGED <<acc, running>>

LeaveTry ==
    /\ acts[Len(acts)].kind = "try"
    /\ acts' = SubSeq(acts, 1, Len(acts) - 1)
    /\ acc' = Null
    /\ Becomes(heap)
    /\ UNCHANGED running

Tries == {i \in 1..Len(acts) : acts[i].kind = "try"}

\* An error unwinds to the innermost try and changes no variable.
Throw ==
    /\ \E k \in Tries : 
        /\ \A i \in Tries : i <= k
        /\ acts' = SubSeq(acts, 1, k - 1)
    /\ acc' = Null
    /\ Becomes(heap)
    /\ UNCHANGED running

\* With no try around it, it ends the program.
Abort ==
    /\ Tries = {}
    /\ running' = FALSE
    /\ UNCHANGED <<heap, acts, acc>>

Next ==
    /\ running
    /\ \/ Compute \/ Enter \/ Leave \/ EnterTry \/ LeaveTry \/ Throw \/ Abort
       \/ \E x \in Names : Define(x) \/ Assign(x) \/ Unset(x) \/ Construct(x) \/ With(x)
       \/ \E exports \in SUBSET Names : Return(exports)

Spec == Init /\ [][Next]_vars
=============================================================================
