------------------------------- MODULE Frames -------------------------------
(***************************************************************************)
(* Lifetime of the environment frames of the native runtime               *)
(* (src/runtime/runtime.c, "environments").  A frame is allocated by      *)
(* env_new when a function, a loop body, a dictionary body, ... starts,   *)
(* and freed by env_release when it ends, unless a function value has     *)
(* captured it meanwhile.  die() leaves by longjmp, past every            *)
(* env_release on the C stack; the catching try calls env_rewind, which   *)
(* sweeps the list of live frames by serial number instead.               *)
(*                                                                        *)
(* A frame is named by its serial (Env.created).  A function value is     *)
(* represented by the serial of the frame it closes over: its code does   *)
(* not matter, since the model lets a running body do anything.           *)
(***************************************************************************)
EXTENDS Naturals, Sequences

CONSTANTS
    Names,       \* variable names
    Data,        \* values that are not functions
    Null,        \* one of them, the value of v_null()
    Unbound,     \* "the frame has no slot of this name"
    HeapCheck,   \* ARTURO_NATIVE_HEAPCHECK: env_release does nothing
    MaxSerial,   \* bound of the model: frames ever created
    MaxDepth     \* bound of the model: depth of the C stack

ASSUME DataAssumption == Null \in Data /\ Data \cap Nat = {}
ASSUME UnboundAssumption == Unbound \notin Data \cup Nat
ASSUME BoundsAssumption == MaxSerial \in Nat \ {0} /\ MaxDepth \in Nat
ASSUME HeapCheckAssumption == HeapCheck \in BOOLEAN

Serial == 1..MaxSerial

\* A value is plain data or a function closing over a frame.
Values == Data \cup Serial
Slots  == [Names -> Values \cup {Unbound}]
Empty  == [x \in Names |-> Unbound]

VARIABLES
    serial,     \* g_env_serial
    live,       \* the frames on the g_env_live list
    parent,     \* Env.parent, 0 for NULL
    scope,      \* the frames a walk e, e->parent, ... visits
    captured,   \* the frames with Env.captured set
    rebind,     \* the frames with Env.rebind_parent set
    vals,       \* Env.names / Env.vals
    stack,      \* the C activations that hold a frame or a jmp_buf
    tryTop,     \* g_try_jmp: the position in stack of the jmp_buf, 0 for NULL
    acc,        \* the value the last evaluation left on the C stack
    running     \* FALSE after exit(1)

frameVars == <<serial, live, parent, scope, captured, rebind>>
vars == <<serial, live, parent, scope, captured, rebind, vals, stack, tryTop,
          acc, running>>

Kinds == {"top", "call", "body", "plain", "try"}
Activation == [kind : Kinds, env : Serial, saved : Nat, prev : Nat]

\* Frame f is held by the C activation a, which will release it.
Holds(a, f) == a.kind # "try" /\ a.env = f

Cur == stack[Len(stack)].env

-----------------------------------------------------------------------------
(* Lookup: env_get, env_bound.  Serials decrease from a frame to its       *)
(* parent, so the nearest binding is the one of the youngest frame.        *)

Binders(e, x) == {f \in scope[e] : vals[f][x] # Unbound}
Nearest(e, x) == {f \in Binders(e, x) : \A g \in Binders(e, x) : g <= f}

\* Where env_set and env_let write: the nearest binding, or e itself.
SetTargets(e, x) == IF Binders(e, x) = {} THEN {e} ELSE Nearest(e, x)

\* A bug a reader might write: only the parent is consulted.
DefineTargetsNoWalk(e, x) ==
    IF e \in rebind /\ parent[e] # 0 THEN {parent[e]} ELSE {e}

\* env_define_body: an action body writes through to its parent's scope.
DefineTargets(e, x) ==
    IF e \in rebind /\ parent[e] # 0 THEN SetTargets(parent[e], x) ELSE {e}

Write(f, x, v) == vals' = [vals EXCEPT ![f][x] = v]

-----------------------------------------------------------------------------
(* Creation, capture and release.                                          *)

\* env_new(p) followed by the bindings `slots` and rebind_parent = r.
EnvNew(p, slots, r) ==
    LET e == serial + 1 IN
    /\ serial < MaxSerial
    /\ serial' = e
    /\ live' = live \cup {e}
    /\ parent' = [parent EXCEPT ![e] = p]
    /\ scope' = [scope EXCEPT ![e] = {e} \cup scope[p]]
    /\ vals' = [vals EXCEPT ![e] = slots]
    /\ rebind' = IF r THEN rebind \cup {e} ELSE rebind

EnvCaptureSelf(e) == captured \cup {e}

\* env_capture marks the frame and its whole parent chain.
EnvCapture(e) == captured \cup scope[e]

\* The frames env_release(e) frees.
EnvRelease(e) == IF e \in captured \/ HeapCheck THEN {} ELSE {e}

\* The frames env_rewind(saved) frees.
EnvRewindOffByOne(saved) ==
    IF HeapCheck THEN {} ELSE {f \in live : f > saved + 1 /\ f \notin captured}
EnvRewind(saved) ==
    IF HeapCheck THEN {} ELSE {f \in live : f > saved /\ f \notin captured}

\* Of the allocated frames, those in F go back to the allocator, with all they
\* held; the others hold slots.
Free(allocated, F, up, walk, slots) ==
    /\ live' = allocated \ F
    /\ parent' = [f \in Serial |-> IF f \in F THEN 0 ELSE up[f]]
    /\ scope' = [f \in Serial |-> IF f \in F THEN {} ELSE walk[f]]
    /\ vals' = [f \in Serial |-> IF f \in F THEN Empty ELSE slots[f]]
    /\ rebind' = rebind \ F

Push(k, e) ==
    /\ Len(stack) < MaxDepth
    /\ stack' = Append(stack, [kind |-> k, env |-> e, saved |-> 0, prev |-> 0])

Pop == stack' = SubSeq(stack, 1, Len(stack) - 1)

Bind(x, v) == [Empty EXCEPT ![x] = v]

\* The functions the running code can name: one it has just computed, or the
\* nearest binding of a name.
Callable(e) ==
    {f \in Serial : f = acc \/ \E x \in Names, g \in scope[e] :
                                 g \in Nearest(e, x) /\ vals[g][x] = f}

-----------------------------------------------------------------------------
Init ==
    /\ serial = 1
    /\ live = {1}
    /\ parent = [f \in Serial |-> 0]
    /\ scope = [f \in Serial |-> IF f = 1 THEN {1} ELSE {}]
    /\ captured = {}
    /\ rebind = {}
    /\ vals = [f \in Serial |-> Empty]
    /\ stack = <<[kind |-> "top", env |-> 1, saved |-> 0, prev |-> 0]>>
    /\ tryTop = 0
    /\ acc = Null
    /\ running = TRUE

\* A constant, or any computation that yields no function.
Const(d) ==
    /\ acc' = d
    /\ UNCHANGED <<frameVars, vals, stack, tryTop, running>>

\* OP_LOAD of a bound name.  An unbound one is a name error: Die.
Load(x) ==
    /\ \E f \in Nearest(Cur, x) : acc' = vals[f][x]
    /\ UNCHANGED <<frameVars, vals, stack, tryTop, running>>

\* OP_DEFINE: `x: value`.
Define(x) ==
    /\ \E f \in DefineTargets(Cur, x) : Write(f, x, acc)
    /\ UNCHANGED <<frameVars, stack, tryTop, acc, running>>

\* OP_LET, and the in-place intrinsics that write a variable back.
Let(x) ==
    /\ \E f \in SetTargets(Cur, x) : Write(f, x, acc)
    /\ UNCHANGED <<frameVars, stack, tryTop, acc, running>>

\* `unset 'x` drops the nearest binding, if any.
Unset(x) ==
    /\ \E f \in Nearest(Cur, x) : Write(f, x, Unbound)
    /\ acc' = Null
    /\ UNCHANGED <<frameVars, stack, tryTop, running>>

\* OP_FUNCTION, OP_METHOD, OP_CONSTRUCTOR: v_func captures the scope.
MakeFunction ==
    /\ acc' = Cur
    /\ captured' = EnvCapture(Cur)
    /\ UNCHANGED <<serial, live, parent, scope, rebind, vals, stack, tryTop,
                   running>>

\* runtime_construct: a member function gets a receiver frame of its own.
\* The instance bound to `this` is data here.
Construct(x) ==
    \E m \in Callable(Cur) :
        /\ EnvNew(m, Bind(x, Null), FALSE)
        /\ captured' = captured \cup {serial + 1} \cup scope[m]
        /\ acc' = serial + 1
        /\ UNCHANGED <<stack, tryTop, running>>

\* applyFunc: the child's parent is the closure, not the caller.
Call(slots) ==
    \E f \in Callable(Cur) :
        /\ EnvNew(f, slots, FALSE)
        /\ Push("call", serial + 1)
        /\ UNCHANGED <<captured, tryTop, acc, running>>

\* OP_LOOP, OP_USING, the higher-order intrinsics on compiled bodies.
EnterBody(slots) ==
    /\ EnvNew(Cur, slots, TRUE)
    /\ Push("body", serial + 1)
    /\ UNCHANGED <<captured, tryTop, acc, running>>

\* b_loop and the intrinsics on stored blocks, templates, OP_DICTIONARY.
EnterPlain(slots) ==
    /\ EnvNew(Cur, slots, FALSE)
    /\ Push("plain", serial + 1)
    /\ UNCHANGED <<captured, tryTop, acc, running>>

\* The end of applyFunc: .export writes, then env_release.
Return(exports) ==
    LET child == Cur 
        out   == parent[child]
    IN
    /\ stack[Len(stack)].kind = "call"
    /\ Pop
    /\ \E to \in [exports -> Serial] :
        /\ \A x \in exports : vals[child][x] # Unbound /\ to[x] \in SetTargets(out, x)
        /\ Free(live, EnvRelease(child), parent, scope,
                [f \in Serial |-> [x \in Names |->
                    IF x \in exports /\ to[x] = f THEN vals[child][x]
                                                  ELSE vals[f][x]]])
    /\ UNCHANGED <<serial, captured, tryTop, acc, running>>

\* One iteration, or one dictionary, template, ... is over.
Leave ==
    /\ stack[Len(stack)].kind \in {"body", "plain"}
    /\ Pop
    /\ Free(live, EnvRelease(Cur), parent, scope, vals)
    /\ UNCHANGED <<serial, captured, tryTop, acc, running>>

\* b_with: a frame that lives within one intrinsic.  env_set on it writes the
\* nearest existing binding; one made in the new frame dies with it.
With(x) ==
    LET child == serial + 1
        new   == [vals EXCEPT ![child] = Empty]
        to    == IF Binders(Cur, x) = {} THEN {child} ELSE Nearest(Cur, x)
    IN
    /\ serial < MaxSerial
    /\ serial' = child
    /\ \E f \in to :
         Free(live \cup {child}, EnvRelease(child),
              [parent EXCEPT ![child] = Cur],
              [scope EXCEPT ![child] = {child} \cup scope[Cur]],
              [new EXCEPT ![f][x] = acc])
    /\ acc' = Null
    /\ UNCHANGED <<captured, stack, tryTop, running>>

-----------------------------------------------------------------------------
(* try, throws?, the guarded request handler of serve; die().             *)

EnterTry ==
    /\ Len(stack) < MaxDepth
    /\ stack' = Append(stack, [kind |-> "try", env |-> Cur, saved |-> serial,
                               prev |-> tryTop])
    /\ tryTop' = Len(stack) + 1
    /\ UNCHANGED <<frameVars, vals, acc, running>>

\* Two ways of forgetting it: no try is left, or the one that is over still is.
RestorePrevDropped(a) == 0
RestorePrevKept(a) == tryTop
\* Both ways out of a try put the enclosing jmp_buf back.
RestorePrev(a) == a.prev

LeaveTry ==
    /\ stack[Len(stack)].kind = "try"
    /\ tryTop' = RestorePrev(stack[Len(stack)])
    /\ Pop
    /\ acc' = Null
    /\ UNCHANGED <<frameVars, vals, running>>

\* longjmp to g_try_jmp: every activation above it is gone at once.
Catch ==
    /\ tryTop # 0
    /\ LET a == stack[tryTop] IN
        /\ stack' = SubSeq(stack, 1, tryTop - 1)
        /\ tryTop' = RestorePrev(a)
        /\ Free(live, EnvRewind(a.saved), parent, scope, vals)
    /\ acc' = Null
    /\ UNCHANGED <<serial, captured, running>>

\* die() without a try: exit(1).
Exit ==
    /\ tryTop = 0
    /\ running' = FALSE
    /\ UNCHANGED <<frameVars, vals, stack, tryTop, acc>>

\* Frames are entered with no binding, or with one parameter.
Params == {Empty} \cup {Bind(x, acc) : x \in Names}

Step ==
    \/ \E d \in Data : Const(d)
    \/ \E x \in Names : Load(x)
    \/ \E x \in Names : Define(x)
    \/ \E x \in Names : Let(x)
    \/ \E x \in Names : Unset(x)
    \/ MakeFunction
    \/ \E x \in Names : Construct(x)
    \/ \E slots \in Params : Call(slots)
    \/ \E slots \in Params : EnterBody(slots)
    \/ \E slots \in Params : EnterPlain(slots)
    \/ \E exports \in SUBSET Names : Return(exports)
    \/ Leave
    \/ \E x \in Names : With(x)
    \/ EnterTry
    \/ LeaveTry
    \/ Catch
    \/ Exit

Next == running /\ Step

Spec == Init /\ [][Next]_vars

-----------------------------------------------------------------------------
(* Properties                                                              *)

TypeOK ==
    /\ serial \in Serial
    /\ live \subseteq 1..serial
    /\ parent \in [Serial -> Serial \cup {0}]
    /\ scope \in [Serial -> SUBSET Serial]
    /\ captured \subseteq Serial
    /\ rebind \subseteq Serial
    /\ vals \in [Serial -> Slots]
    /\ stack \in Seq(Activation) /\ Len(stack) >= 1
    /\ tryTop \in 0..Len(stack)
    /\ acc \in Values
    /\ running \in BOOLEAN

\* No frame the program can still reach has been given back to the allocator:
\* not the environment of a running activation, not one a function value
\* closes over, not one further up a scope.  env_release, env_rewind after a
\* longjmp, and the captured flags must agree for this.
NoDangling ==
    /\ \A i \in 1..Len(stack) : stack[i].env \in live
    /\ acc \in Serial => acc \in live
    /\ \A f \in live :
        /\ scope[f] \subseteq live
        /\ \A x \in Names : vals[f][x] \in Serial => vals[f][x] \in live

\* Every frame that no function captured is held by a C activation that will
\* release it: also after a longjmp over any number of activations, whose
\* frames nobody but env_rewind can free.
NoLeak ==
    ~HeapCheck =>
        \A f \in live : \/ f \in captured
                       \/ \E i \in 1..Len(stack) : Holds(stack[i], f)

\* g_try_jmp is the jmp_buf of the innermost active try: die() never jumps
\* into a C frame that has returned, and never past an active handler.
TryTarget ==
    /\ tryTop # 0 => stack[tryTop].kind = "try"
    /\ \A i \in 1..Len(stack) : i > tryTop => stack[i].kind # "try"

-----------------------------------------------------------------------------
(* The refinement: the frames on the live list are the scopes.             *)

heapBar == [f \in live |-> [parent |-> parent[f], rebind |-> f \in rebind,
                            slots |-> vals[f]]]
actsBar == [i \in 1..Len(stack) |-> [kind |-> stack[i].kind, env |-> stack[i].env]]

Lang == INSTANCE Scopes WITH Ids <- Serial, heap <- heapBar, acts <- actsBar

\* Programs see the scoping of the language: whatever is freed, captured or
\* unwound, every load, label, assignment, export and handler behaves as if
\* scopes were never reclaimed while anything can reach them.
ImplementsScopes == Lang!Spec
=============================================================================
