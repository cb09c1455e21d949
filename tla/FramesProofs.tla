---------------------------- MODULE FramesProofs ----------------------------
(***************************************************************************)
(* Proofs about Frames for any number of names, values, frames and C       *)
(* activations: types, no dangling frame, no leaked frame, the target of   *)
(* die(), and that Frames implements Scopes.                               *)
(***************************************************************************)
EXTENDS Frames, WellFoundedInduction, TLAPS

\* Scopes: a frame is in its own scope with everything its parents see, and
\* is the youngest there.
Chains ==
    \A f \in live :
        /\ f \in scope[f]
        /\ scope[f] \subseteq live
        /\ \A g \in scope[f] : g <= f /\ scope[g] \subseteq scope[f]

\* A captured frame is allocated, and so is captured all it can see.
CapturedClosed ==
    /\ captured \subseteq live
    /\ \A f \in captured : scope[f] \subseteq captured

\* Every function value in reach closes over a captured frame.
FunctionsCaptured ==
    /\ acc \in Serial => acc \in captured
    /\ \A f \in live : \A x \in Names : vals[f][x] \in Serial => vals[f][x] \in captured

\* The C stack holds older frames below younger ones.
StackOrder ==
    /\ \A i \in 1..Len(stack) : stack[i].env \in live
    /\ \A i, j \in 1..Len(stack) : i < j =>
        /\ stack[i].env <= stack[j].env
        /\ stack[j].kind # "try" => stack[i].env < stack[j].env

\* The serial saved by a try separates the frames held below it from those
\* held above it.
TrySaved ==
    \A k, i \in 1..Len(stack) : stack[k].kind = "try" =>
        /\ i < k => stack[i].env <= stack[k].saved
        /\ i > k /\ stack[i].kind # "try" => stack[i].env > stack[k].saved

\* prev links each try to the next one out.
TryChain ==
    \A k \in 1..Len(stack) : stack[k].kind = "try" =>
        /\ stack[k].prev \in 0..(k - 1)
        /\ stack[k].prev # 0 => stack[stack[k].prev].kind = "try"
        /\ \A i \in 1..(k - 1) : i > stack[k].prev => stack[i].kind # "try"

\* A try saved a serial that was given out.
SavedBound == \A k \in 1..Len(stack) : stack[k].kind = "try" => stack[k].saved <= serial

IInv ==
    /\ TypeOK /\ Chains /\ CapturedClosed /\ FunctionsCaptured /\ StackOrder
    /\ TrySaved /\ SavedBound /\ TryChain /\ TryTarget /\ NoLeak
    /\ stack[1].kind = "top"

-----------------------------------------------------------------------------
(* Stacks                                                                  *)

\* What a push leaves: the old entries, and the new one on top.
LEMMA PushStack ==
    ASSUME NEW s \in Seq(Activation), NEW a \in Activation
    PROVE  /\ Append(s, a) \in Seq(Activation)
           /\ Len(Append(s, a)) = Len(s) + 1
           /\ \A i \in 1..Len(s) : Append(s, a)[i] = s[i]
           /\ Append(s, a)[Len(s) + 1] = a
  OBVIOUS

\* What is left of a stack cut down to its lowest k entries.
LEMMA CutStack ==
    ASSUME NEW s \in Seq(Activation), NEW k \in 0..Len(s)
    PROVE  /\ SubSeq(s, 1, k) \in Seq(Activation)
           /\ Len(SubSeq(s, 1, k)) = k
           /\ \A i \in 1..k : SubSeq(s, 1, k)[i] = s[i]
  OBVIOUS

\* The bounds and the data are what the ASSUMEs say.
LEMMA Constants ==
    /\ Null \in Data /\ Data \cap Nat = {}
    /\ Unbound \notin Data /\ Unbound \notin Nat
    /\ MaxSerial \in Nat /\ MaxSerial >= 1
    /\ 1 \in Serial /\ Serial \subseteq Nat
    /\ Data \subseteq Values /\ Serial \subseteq Values
    /\ Data \cap Serial = {} /\ Unbound \notin Values
  BY DataAssumption, UnboundAssumption, BoundsAssumption DEF Serial, Values

\* Each activation has a frame, a kind and the serial it saved.
LEMMA CurType == 
    ASSUME TypeOK
    PROVE  /\ Len(stack) \in Nat /\ Len(stack) >= 1
           /\ \A i \in 1..Len(stack) : /\ stack[i] \in Activation
                                       /\ stack[i].env \in Serial
                                       /\ stack[i].kind \in Kinds
                                       /\ stack[i].saved \in Nat
                                       /\ stack[i].prev \in Nat
           /\ Cur \in Serial
<1>1. Len(stack) \in Nat /\ Len(stack) >= 1
  BY DEF TypeOK
<1>2. \A i \in 1..Len(stack) : stack[i] \in Activation
  BY DEF TypeOK
<1>3. \A a \in Activation : a.env \in Serial /\ a.kind \in Kinds /\ a.saved \in Nat /\ a.prev \in Nat
  BY DEF Activation
<1>4. Len(stack) \in 1..Len(stack)
  BY <1>1
<1> QED
  BY <1>1, <1>2, <1>3, <1>4 DEF Cur

\* Every allocated frame has a serial already given out.
LEMMA LiveSerial ==
    ASSUME TypeOK
    PROVE  live \subseteq Serial /\ \A f \in live : f \in Nat /\ f >= 1 /\ f <= serial
<1>1. serial \in Nat /\ serial <= MaxSerial
  BY Constants DEF TypeOK, Serial
<1>2. live \subseteq 1..serial
  BY DEF TypeOK
<1> QED
  BY <1>1, <1>2, Constants DEF Serial

\* Binding a name keeps the type of the frames.
LEMMA BindType ==
    ASSUME NEW v \in Values
    PROVE  /\ Empty \in Slots
           /\ \A x \in Names : Bind(x, v) \in Slots
  BY DEF Empty, Slots, Bind

\* Parameters are slots of a frame.
LEMMA ParamsType == TypeOK => Params \subseteq Slots
  BY BindType DEF Params, TypeOK

-----------------------------------------------------------------------------
(* Types                                                                   *)

\* At the start everything is of its type.
LEMMA TypeInit == Init => TypeOK
<1> SUFFICES ASSUME Init PROVE TypeOK
  OBVIOUS
<1>1. [kind |-> "top", env |-> 1, saved |-> 0, prev |-> 0] \in Activation
  BY Constants DEF Activation, Kinds
<1>2. Empty \in Slots
  BY BindType, Constants
<1> QED
  BY <1>1, <1>2, Constants DEF Init, TypeOK

\* A new frame keeps the types of all it touches.
LEMMA EnvNewType ==
    ASSUME TypeOK, NEW p \in Serial, NEW slots \in Slots, NEW r \in BOOLEAN,
           EnvNew(p, slots, r)
    PROVE  /\ serial' = serial + 1 /\ serial + 1 \in Serial
           /\ live' \subseteq 1..serial'
           /\ parent' \in [Serial -> Serial \cup {0}]
           /\ scope' \in [Serial -> SUBSET Serial]
           /\ rebind' \subseteq Serial
           /\ vals' \in [Serial -> Slots]
<1>1. serial' = serial + 1 /\ serial + 1 \in Serial
  BY Constants DEF EnvNew, TypeOK, Serial
<1>2. live' \subseteq 1..serial'
  BY <1>1 DEF EnvNew, TypeOK, Serial
<1>3. \A S \in SUBSET Serial : {serial + 1} \cup S \in SUBSET Serial
  BY <1>1
<1> QED
  BY <1>1, <1>2, <1>3 DEF EnvNew, TypeOK

\* So does the release of frames.
LEMMA FreeType ==
    ASSUME NEW allocated, NEW F \in SUBSET Serial,
           NEW up \in [Serial -> Serial \cup {0}],
           NEW walk \in [Serial -> SUBSET Serial],
           NEW slots \in [Serial -> Slots], TypeOK,
           Free(allocated, F, up, walk, slots)
    PROVE  /\ live' = allocated \ F
           /\ parent' \in [Serial -> Serial \cup {0}]
           /\ scope' \in [Serial -> SUBSET Serial]
           /\ rebind' \subseteq Serial
           /\ vals' \in [Serial -> Slots]
<1>1. Empty \in Slots
  BY BindType, Constants
<1> QED
  BY <1>1 DEF Free, TypeOK

\* Entering an activation keeps the type of the stack.
LEMMA PushType ==
    ASSUME TypeOK, NEW k \in Kinds, NEW e \in Serial, Push(k, e)
    PROVE  /\ stack' \in Seq(Activation) /\ Len(stack') = Len(stack) + 1
           /\ stack' = Append(stack, [kind |-> k, env |-> e, saved |-> 0, prev |-> 0])
<1>1. [kind |-> k, env |-> e, saved |-> 0, prev |-> 0] \in Activation
  BY DEF Activation
<1> QED
  BY <1>1, PushStack DEF Push, TypeOK

\* Ending some keeps it too.
LEMMA PopType ==
    ASSUME TypeOK, Pop, stack[1].kind = "top", stack[Len(stack)].kind # "top"
    PROVE  /\ stack' \in Seq(Activation)
           /\ Len(stack') = Len(stack) - 1 /\ Len(stack') >= 1
           /\ \A i \in 1..Len(stack') : stack'[i] = stack[i]
<1>1. Len(stack) \in Nat /\ Len(stack) >= 2
  BY CurType
<1>2. Len(stack) - 1 \in 0..Len(stack)
  BY <1>1
<1> QED
  BY <1>1, <1>2, CutStack DEF Pop, TypeOK

\* The nearest frame that binds a name is a frame.
LEMMA NearestType ==
    ASSUME TypeOK, NEW e \in Serial, NEW x \in Names
    PROVE  Nearest(e, x) \subseteq Serial /\ SetTargets(e, x) \subseteq Serial
           /\ \A f \in Nearest(e, x) : vals[f][x] \in Values
<1>1. scope[e] \subseteq Serial
  BY DEF TypeOK
<1>2. \A f \in Serial : vals[f][x] \in Values \cup {Unbound}
  BY DEF TypeOK, Slots
<1>3. Nearest(e, x) \subseteq Binders(e, x) /\ Binders(e, x) \subseteq scope[e]
      /\ \A f \in Binders(e, x) : vals[f][x] # Unbound
  BY DEF Nearest, Binders
<1> QED
  BY <1>1, <1>2, <1>3 DEF SetTargets

\* A write-through keeps the type of the frames.
LEMMA WriteType ==
    ASSUME NEW m \in [Serial -> Slots], NEW f \in Serial, NEW x \in Names,
           NEW v \in Values \cup {Unbound}
    PROVE  [m EXCEPT ![f][x] = v] \in [Serial -> Slots]
  BY DEF Slots

\* Everything a program step can do keeps the types.  That g_try_jmp stays
\* within the stack rests on TryTarget and TryChain.
LEMMA TypeNext ==
    ASSUME IInv, Next
    PROVE  TypeOK'
<1> USE Constants, CurType
<1>i. TypeOK /\ TryTarget /\ TryChain /\ stack[1].kind = "top"
  BY DEF IInv
<1> USE <1>i
<1>u1. ASSUME UNCHANGED <<frameVars, vals, stack, tryTop, running>>, acc' \in Values
       PROVE  TypeOK'
  BY <1>u1 DEF TypeOK, frameVars, Activation, Serial
<1>u2. ASSUME UNCHANGED <<frameVars, stack, tryTop, running>>, acc' \in Values,
              vals' \in [Serial -> Slots]
       PROVE  TypeOK'
  BY <1>u2 DEF TypeOK, frameVars, Activation, Serial
<1>n. ASSUME NEW k \in {"call", "body", "plain"}, NEW p \in Serial,
             NEW slots \in Slots, NEW r \in BOOLEAN,
             EnvNew(p, slots, r), Push(k, serial + 1),
             UNCHANGED <<captured, tryTop, acc, running>>
      PROVE  TypeOK'
  <2>1. k \in Kinds
    BY <1>n DEF Kinds
  <2>2. serial + 1 \in Serial
    BY <1>n, EnvNewType
  <2>3. stack' \in Seq(Activation) /\ Len(stack') = Len(stack) + 1
    BY <1>n, <2>1, <2>2, PushType
  <2>4. tryTop' \in 0..Len(stack')
    BY <1>n, <2>3 DEF TypeOK
  <2>7. serial' \in Serial
    BY <1>n, EnvNewType
  <2>8. Len(stack') >= 1
    BY <2>3
  <2>5. /\ live' \subseteq 1..serial'
        /\ parent' \in [Serial -> Serial \cup {0}]
        /\ scope' \in [Serial -> SUBSET Serial]
        /\ rebind' \subseteq Serial
        /\ vals' \in [Serial -> Slots]
    BY <1>n, EnvNewType
  <2>6. captured' \subseteq Serial /\ acc' \in Values /\ running' \in BOOLEAN
    BY <1>n DEF TypeOK
  <2> QED
    BY <2>3, <2>4, <2>5, <2>6, <2>7, <2>8 DEF TypeOK
<1>c. \A f \in Callable(Cur) : f \in Serial
  BY DEF Callable
<1>p. \A slots \in Params : slots \in Slots
  BY ParamsType
<1>0. running /\ Step
  BY DEF Next
<1>1. ASSUME NEW d \in Data, Const(d) PROVE TypeOK'
  BY <1>1, <1>u1 DEF Const
<1>2. ASSUME NEW x \in Names, Load(x) PROVE TypeOK'
  BY <1>2, <1>u1, NearestType DEF Load
<1>3. ASSUME NEW x \in Names, Define(x) PROVE TypeOK'
  <2>1. PICK f \in DefineTargets(Cur, x) : Write(f, x, acc)
    BY <1>3 DEF Define
  <2>2. f \in Serial
    BY NearestType DEF DefineTargets, TypeOK
  <2>3. vals' \in [Serial -> Slots] /\ acc \in Values
    BY <2>1, <2>2, WriteType DEF Write, TypeOK
  <2> QED
    BY <1>3, <2>3, <1>u2 DEF Define
<1>4. ASSUME NEW x \in Names, Let(x) PROVE TypeOK'
  <2>1. PICK f \in SetTargets(Cur, x) : Write(f, x, acc)
    BY <1>4 DEF Let
  <2>2. f \in Serial
    BY NearestType
  <2>3. vals' \in [Serial -> Slots] /\ acc \in Values
    BY <2>1, <2>2, WriteType DEF Write, TypeOK
  <2> QED
    BY <1>4, <2>3, <1>u2 DEF Let
<1>5. ASSUME NEW x \in Names, Unset(x) PROVE TypeOK'
  <2>1. PICK f \in Nearest(Cur, x) : Write(f, x, Unbound)
    BY <1>5 DEF Unset
  <2>2. f \in Serial
    BY NearestType
  <2>3. vals' \in [Serial -> Slots]
    BY <2>1, <2>2, WriteType DEF Write, TypeOK
  <2> QED
    BY <1>5, <2>3, <1>u2 DEF Unset
<1>6. CASE MakeFunction
  <2>1. captured' \subseteq Serial
    BY <1>6 DEF MakeFunction, EnvCapture, TypeOK
  <2> QED
    BY <1>6, <2>1 DEF MakeFunction, TypeOK
<1>7. ASSUME NEW x \in Names, Construct(x) PROVE TypeOK'
  <2>1. PICK m \in Callable(Cur) :
          /\ EnvNew(m, Bind(x, Null), FALSE)
          /\ captured' = captured \cup {serial + 1} \cup scope[m]
          /\ acc' = serial + 1
          /\ UNCHANGED <<stack, tryTop, running>>
    BY <1>7 DEF Construct
  <2>2. m \in Serial /\ Bind(x, Null) \in Slots
    BY <1>c, BindType
  <2>3. serial' = serial + 1 /\ serial + 1 \in Serial
    BY <2>1, <2>2, EnvNewType
  <2>4. captured' \subseteq Serial
    BY <2>1, <2>2, <2>3 DEF TypeOK
  <2> QED
    BY <2>1, <2>2, <2>3, <2>4, EnvNewType DEF TypeOK
<1>8. ASSUME NEW slots \in Params, Call(slots) PROVE TypeOK'
  BY <1>8, <1>n, <1>c, <1>p DEF Call
<1>9. ASSUME NEW slots \in Params, EnterBody(slots) PROVE TypeOK'
  BY <1>9, <1>n, <1>p DEF EnterBody
<1>10. ASSUME NEW slots \in Params, EnterPlain(slots) PROVE TypeOK'
  BY <1>10, <1>n, <1>p DEF EnterPlain
<1>f. ASSUME NEW F \in SUBSET Serial, NEW slots \in [Serial -> Slots],
             Free(live, F, parent, scope, slots),
             stack' \in Seq(Activation), Len(stack') >= 1,
             tryTop' \in 0..Len(stack'), acc' \in Values,
             UNCHANGED <<serial, captured, running>>
      PROVE  TypeOK'
  <2>1. parent \in [Serial -> Serial \cup {0}] /\ scope \in [Serial -> SUBSET Serial]
    BY DEF TypeOK
  <2>2. /\ live' = live \ F
        /\ parent' \in [Serial -> Serial \cup {0}]
        /\ scope' \in [Serial -> SUBSET Serial]
        /\ rebind' \subseteq Serial
        /\ vals' \in [Serial -> Slots]
    BY <1>f, <2>1, FreeType
  <2> QED
    BY <1>f, <2>2 DEF TypeOK
<1>r. \A e \in Serial : EnvRelease(e) \subseteq Serial
  BY DEF EnvRelease
<1>11. ASSUME NEW exports \in SUBSET Names, Return(exports) PROVE TypeOK'
  <2> DEFINE child == Cur
             out == parent[child]
             V(to) == [f \in Serial |-> [x \in Names |->
                          IF x \in exports /\ to[x] = f THEN vals[child][x]
                                                        ELSE vals[f][x]]]
  <2>1. PICK to \in [exports -> Serial] : 
           /\ \A x \in exports : vals[child][x] # Unbound
           /\ Free(live, EnvRelease(child), parent, scope, V(to))
    BY <1>11 DEF Return
  <2>2. V(to) \in [Serial -> Slots]
    <3>1. \A f \in Serial : vals[f] \in Slots
      BY DEF TypeOK
    <3>2. \A f \in Serial, x \in Names : vals[f][x] \in Values \cup {Unbound}
      BY <3>1 DEF Slots
    <3>3. \A f \in Serial : [x \in Names |->
                          IF x \in exports /\ to[x] = f THEN vals[child][x]
                                                        ELSE vals[f][x]] \in Slots
      BY <3>2 DEF Slots
    <3> QED
      BY <3>3
  <2>3. /\ stack' \in Seq(Activation)
        /\ Len(stack') = Len(stack) - 1 /\ Len(stack') >= 1
    BY <1>11, PopType DEF Return
  <2> QED
    <3>1. UNCHANGED <<serial, captured, tryTop, acc, running>>
      BY <1>11 DEF Return
    <3>2. EnvRelease(child) \in SUBSET Serial
      BY <1>r
    <3>3. tryTop' \in 0..Len(stack')
      BY <1>11, <2>3, <3>1 DEF Return, TryTarget, TypeOK
    <3>4. acc' \in Values
      BY <3>1 DEF TypeOK
    <3> HIDE DEF V, child
    <3> QED
      BY <2>1, <2>2, <2>3, <3>1, <3>2, <3>3, <3>4, <1>f
<1>v. vals \in [Serial -> Slots] /\ acc \in Values
  BY DEF TypeOK
<1>12. CASE Leave
  <2>1. Free(live, EnvRelease(Cur), parent, scope, vals)
    BY <1>12 DEF Leave
  <2>2. /\ stack' \in Seq(Activation)
        /\ Len(stack') = Len(stack) - 1 /\ Len(stack') >= 1
    BY <1>12, PopType DEF Leave
  <2>3. tryTop' \in 0..Len(stack')
    BY <1>12, <2>2 DEF Leave, TryTarget, TypeOK
  <2>4. UNCHANGED <<serial, captured, running, acc>>
    BY <1>12 DEF Leave
  <2> QED
    BY <2>1, <2>2, <2>3, <2>4, <1>f, <1>r, <1>v
<1>13. ASSUME NEW x \in Names, With(x) PROVE TypeOK'
  <2> DEFINE child == serial + 1
             up    == [parent EXCEPT ![child] = Cur]
             walk  == [scope EXCEPT ![child] = {child} \cup scope[Cur]]
             new   == [vals EXCEPT ![child] = Empty]
  <2>1. PICK f \in IF Binders(Cur, x) = {} THEN {child} ELSE Nearest(Cur, x) :
          Free(live \cup {child}, EnvRelease(child), up, walk, [new EXCEPT ![f][x] = acc])
    BY <1>13 DEF With
  <2>2. child \in Serial /\ serial' = child /\ serial < MaxSerial
    BY <1>13 DEF With, TypeOK, Serial
  <2>3. f \in Serial
    BY <2>2, NearestType
  <2>4. [new EXCEPT ![f][x] = acc] \in [Serial -> Slots]
    <3>1. new \in [Serial -> Slots]
      BY <1>v, BindType
    <3> HIDE DEF new
    <3> QED
      BY <2>3, <3>1, <1>v, WriteType
  <2>5. up \in [Serial -> Serial \cup {0}] /\ walk \in [Serial -> SUBSET Serial]
    BY <2>2 DEF TypeOK
  <2>6. /\ live' = (live \cup {child}) \ EnvRelease(child)
        /\ parent' \in [Serial -> Serial \cup {0}]
        /\ scope' \in [Serial -> SUBSET Serial]
        /\ rebind' \subseteq Serial
        /\ vals' \in [Serial -> Slots]
    <3> HIDE DEF up, walk, child, new
    <3> QED BY <2>1, <2>2, <2>4, <2>5, <1>r, FreeType
  <2>7. live' \subseteq 1..serial'
    <3>1. live \cup {child} \subseteq 1..child
      <4> serial \in Nat
        BY DEF TypeOK, Serial
      <4>1. \A g \in live : g \in 1..child
        BY LiveSerial
      <4> QED BY <4>1
    <3> QED BY <2>2, <2>6, <3>1
  <2> QED
    BY <1>13, <2>2, <2>6, <2>7 DEF With, TypeOK
<1>14. CASE EnterTry
  <2> DEFINE a == [kind |-> "try", env |-> Cur, saved |-> serial, prev |-> tryTop]
  <2>1. a \in Activation
    <3>1. Cur \in Serial /\ serial \in Nat /\ tryTop \in Nat /\ "try" \in Kinds
      BY DEF TypeOK, Serial, Kinds
    <3> QED
      BY <3>1 DEF Activation
  <2>2. stack' \in Seq(Activation) /\ Len(stack') = Len(stack) + 1
    BY <1>14, <2>1, PushStack DEF EnterTry, TypeOK
  <2> QED
    BY <1>14, <2>2, SMTT(30) DEF EnterTry, TypeOK, frameVars
<1>15. CASE LeaveTry
  <2>1. /\ stack' \in Seq(Activation)
        /\ Len(stack') = Len(stack) - 1 /\ Len(stack') >= 1
    BY <1>15, PopType DEF LeaveTry
  <2>2. tryTop' \in 0..Len(stack')
    BY <1>15, <2>1 DEF LeaveTry, RestorePrev, TryChain
  <2> QED
    BY <1>15, <2>1, <2>2 DEF LeaveTry, TypeOK, frameVars
<1>16. CASE Catch
  <2>1. tryTop \in 1..Len(stack) /\ stack[tryTop].kind = "try" /\ tryTop # 1
    BY <1>16 DEF Catch, TryTarget, TypeOK
  <2>2. tryTop - 1 \in 0..Len(stack) /\ tryTop - 1 >= 1
    BY <2>1
  <2>3. stack' \in Seq(Activation) /\ Len(stack') = tryTop - 1
    BY <1>16, <2>2, CutStack DEF Catch, TypeOK
  <2>4. tryTop' \in 0..Len(stack')
    BY <1>16, <2>1, <2>3 DEF Catch, RestorePrev, TryChain
  <2>5. EnvRewind(stack[tryTop].saved) \in SUBSET Serial
    BY LiveSerial DEF EnvRewind
  <2>6. /\ Free(live, EnvRewind(stack[tryTop].saved), parent, scope, vals)
        /\ acc' \in Values /\ UNCHANGED <<serial, captured, running>>
    BY <1>16 DEF Catch
  <2> QED
    BY <2>2, <2>3, <2>4, <2>5, <2>6, <1>f, <1>v
<1>17. CASE Exit
  BY <1>17, <1>u1 DEF Exit, TypeOK, frameVars
<1> QED
  BY <1>0, <1>1, <1>2, <1>3, <1>4, <1>5, <1>6, <1>7, <1>8, <1>9, <1>10, <1>11,
     <1>12, <1>13, <1>14, <1>15, <1>16, <1>17 DEF Step

-----------------------------------------------------------------------------
(* The inductive invariant                                                 *)

\* The invariant holds at the start.
LEMMA InvInit == Init => IInv
<1> SUFFICES ASSUME Init PROVE IInv
  OBVIOUS
<1>1. TypeOK
  BY TypeInit
<1>2. Len(stack) = 1 /\ stack[1] = [kind |-> "top", env |-> 1, saved |-> 0, prev |-> 0]
  BY DEF Init
<1>3. \A f \in live : f = 1 /\ scope[f] = {1}
  BY Constants DEF Init
<1>4. \A f \in live, x \in Names : vals[f][x] = Unbound
  BY Constants DEF Init, Empty
<1>5. Chains /\ CapturedClosed
  BY <1>3 DEF Chains, CapturedClosed, Init
<1>6. FunctionsCaptured
  BY <1>4, Constants DEF FunctionsCaptured, Init
<1>7. StackOrder /\ TrySaved /\ SavedBound /\ TryChain /\ TryTarget
  BY <1>2 DEF StackOrder, TrySaved, SavedBound, TryChain, TryTarget, Init
<1>8. NoLeak
  BY <1>2, <1>3 DEF NoLeak, Holds
<1> QED
  BY <1>1, <1>2, <1>5, <1>6, <1>7, <1>8 DEF IInv

\* A step that only computes values or writes slots: what it computes or
\* writes is data, or a function that captured its scope when it was made.
LEMMA StoreInv ==
    ASSUME IInv, TypeOK',
           UNCHANGED <<live, captured, stack, tryTop>>, serial' \in {serial, serial + 1},
           \A f \in live : scope'[f] = scope[f],
           acc' \in Serial => acc' \in captured,
           \A f \in live, x \in Names : vals'[f][x] \in Serial => vals'[f][x] \in captured
    PROVE  IInv'
<1>1. Chains' /\ CapturedClosed'
  BY DEF IInv, Chains, CapturedClosed
<1>2. FunctionsCaptured'
  BY DEF FunctionsCaptured
<1>3. StackOrder' /\ TrySaved' /\ TryChain' /\ TryTarget'
  BY DEF IInv, StackOrder, TrySaved, TryChain, TryTarget
<1>4. NoLeak' /\ stack'[1].kind = "top"
  BY DEF IInv, NoLeak, Holds
<1>5. SavedBound'
  <2>1. TypeOK /\ SavedBound
    BY DEF IInv
  <2>2. serial \in Nat /\ serial' \in Nat /\ serial <= serial'
    BY <2>1, Constants DEF TypeOK, Serial
  <2>3. \A k \in 1..Len(stack) : stack[k].saved \in Nat
    BY <2>1, CurType
  <2> QED
    BY <2>1, <2>2, <2>3 DEF SavedBound
<1> QED
  BY <1>1, <1>2, <1>3, <1>4, <1>5 DEF IInv

\* The stack is cut down to its lowest k activations and the frames in F are
\* freed.  F holds no captured frame, only frames younger than t, and every
\* uncaptured frame younger than t.
LEMMA CutInv ==
    ASSUME IInv, TypeOK', NEW k \in 1..(Len(stack) - 1), NEW t \in Nat,
           NEW F \in SUBSET live, NEW slots,
           stack' = SubSeq(stack, 1, k),
           Free(live, F, parent, scope, slots),
           F \cap captured = {},
           \A f \in F : f > t,
           F # {} => \A f \in live : f \in F \/ f \in captured \/ f <= t,
           \A i \in 1..k : stack[i].env <= t,
           ~HeapCheck => \A i \in (k + 1)..Len(stack), f \in live :
                            Holds(stack[i], f) => f \in F \cup captured,
           tryTop' \in 0..k,
           tryTop' # 0 => stack[tryTop'].kind = "try",
           \A i \in 1..k : i > tryTop' => stack[i].kind # "try",
           UNCHANGED <<serial, captured>>,
           acc' \in Serial => acc' \in captured,
           \A f \in live, x \in Names : slots[f][x] \in Serial => slots[f][x] \in captured
    PROVE  IInv'
<1> USE Constants, CurType, LiveSerial
<1>i. /\ TypeOK /\ Chains /\ CapturedClosed /\ StackOrder /\ TrySaved
      /\ TryChain /\ NoLeak /\ stack[1].kind = "top"
  BY DEF IInv
<1>s. /\ Len(stack') = k /\ k \in Nat /\ k < Len(stack)
      /\ \A i \in 1..k : stack'[i] = stack[i] /\ i \in 1..Len(stack)
  <2>1. k \in 0..Len(stack)
    BY <1>i
  <2> QED
    BY <2>1, <1>i, CutStack DEF TypeOK
<1>l. live' = live \ F /\ captured' = captured
  BY DEF Free
<1>v. \A f \in live' : scope'[f] = scope[f] /\ vals'[f] = slots[f]
  BY <1>l, <1>i DEF Free
<1>a. \A f \in live' : scope[f] \subseteq live'
  <2> SUFFICES ASSUME NEW f \in live', NEW g \in scope[f], g \in F PROVE FALSE
    BY <1>i, <1>l DEF Chains
  <2>1. g > t /\ g \notin captured /\ g <= f
    BY <1>i, <1>l DEF Chains
  <2>2. f \notin captured
    BY <2>1, <1>i DEF CapturedClosed
  <2>3. f <= t
    BY <2>2, <1>l
  <2>4. f \in Nat /\ g \in Nat
    BY <1>i, <1>l
  <2> QED
    BY <2>1, <2>3, <2>4
<1>1. Chains'
  <2> SUFFICES ASSUME NEW f \in live'
               PROVE  /\ f \in scope[f]
                      /\ \A g \in scope[f] : g <= f /\ scope'[g] \subseteq scope[f]
    BY <1>v, <1>a DEF Chains
  <2>1. f \in live
    BY <1>l
  <2>2. \A g \in scope[f] : scope'[g] = scope[g]
    BY <1>a, <1>v
  <2> QED
    BY <2>1, <2>2, <1>i DEF Chains
<1>2. CapturedClosed'
  <2>1. captured \subseteq live'
    BY <1>i, <1>l DEF CapturedClosed
  <2> QED
    BY <2>1, <1>i, <1>l, <1>v DEF CapturedClosed
<1>3. FunctionsCaptured'
  BY <1>l, <1>v DEF FunctionsCaptured
<1>4. StackOrder'
  <2>1. \A i \in 1..k : stack[i].env \in live'
    <3> SUFFICES ASSUME NEW i \in 1..k, stack[i].env \in F PROVE FALSE
      BY <1>s, <1>i, <1>l DEF StackOrder
    <3>1. stack[i].env > t /\ stack[i].env <= t /\ stack[i].env \in Nat
      BY <1>s, <1>i
    <3> QED
      BY <3>1
  <2> QED
    BY <2>1, <1>s, <1>i DEF StackOrder
<1>5. TrySaved'
  BY <1>s, <1>i DEF TrySaved
<1>6. TryChain'
  <2> SUFFICES ASSUME NEW j \in 1..k, stack[j].kind = "try"
               PROVE  /\ stack[j].prev \in 0..(j - 1)
                      /\ stack[j].prev # 0 => stack'[stack[j].prev].kind = "try"
                      /\ \A i \in 1..(j - 1) : i > stack[j].prev => stack'[i].kind # "try"
    BY <1>s DEF TryChain
  <2>1. /\ stack[j].prev \in 0..(j - 1)
        /\ stack[j].prev # 0 => stack[stack[j].prev].kind = "try"
        /\ \A i \in 1..(j - 1) : i > stack[j].prev => stack[i].kind # "try"
    BY <1>s, <1>i DEF TryChain
  <2>2. \A i \in 1..(j - 1) : i \in 1..k
    BY <1>s
  <2> QED
    BY <2>1, <2>2, <1>s, SMTT(30)
<1>7. TryTarget'
  BY <1>s DEF TryTarget
<1>8. NoLeak'
  <2> SUFFICES ASSUME ~HeapCheck, NEW f \in live', f \notin captured
               PROVE  \E i \in 1..k : Holds(stack[i], f)
    BY <1>s, <1>l DEF NoLeak, Holds
  <2>1. PICK i \in 1..Len(stack) : Holds(stack[i], f)
    BY <1>i, <1>l DEF NoLeak
  <2>2. i \notin (k + 1)..Len(stack)
    BY <2>1, <1>l
  <2> QED
    BY <2>1, <2>2, <1>s
<1>9. stack'[1].kind = "top"
  BY <1>s, <1>i
<1>10. SavedBound'
  BY <1>s, <1>i DEF SavedBound, IInv
<1> QED
  BY <1>1, <1>2, <1>3, <1>4, <1>5, <1>6, <1>7, <1>8, <1>9, <1>10 DEF IInv

\* A frame e is created inside the scope of p, and either pushed with the C
\* activation a that holds it, or captured at once, or never to be freed.
LEMMA NewInv ==
    ASSUME IInv, TypeOK', NEW p \in live, NEW e, e = serial + 1, e \in Serial,
           NEW a \in Activation,
           live' = live \cup {e}, serial' = e, scope'[e] = {e} \cup scope[p],
           \A f \in live : scope'[f] = scope[f],
           \/ captured' = captured
           \/ captured' = captured \cup {e} \cup scope[p],
           acc' \in Serial => acc' \in captured',
           \A f \in live', x \in Names : vals'[f][x] \in Serial => vals'[f][x] \in captured',
           \/ stack' = Append(stack, a) /\ a.kind \notin {"try", "top"} /\ a.env = e
           \/ stack' = stack /\ (HeapCheck \/ e \in captured'),
           tryTop' = tryTop
    PROVE  IInv'
<1> USE Constants, CurType, LiveSerial
<1>i. /\ TypeOK /\ Chains /\ CapturedClosed /\ StackOrder /\ TrySaved
      /\ SavedBound /\ TryChain /\ TryTarget /\ NoLeak /\ stack[1].kind = "top"
  BY DEF IInv
<1>e. e \notin live /\ e \in Nat /\ \A f \in live : f < e
  BY <1>i DEF TypeOK
<1>b. \A j \in 1..Len(stack) : stack[j].kind = "try" =>
        stack[j].saved \in Nat /\ stack[j].saved <= serial /\ stack[j].saved < e
  <2>1. \A j \in 1..Len(stack) : stack[j].saved \in Nat
    BY <1>i
  <2>2. serial \in Nat
    BY <1>i DEF TypeOK, Serial
  <2> QED
    BY <2>1, <2>2, <1>i DEF SavedBound
<1>x. serial' \in Nat /\ serial' <= MaxSerial /\ \A f \in live' : f <= serial'
  <2>1. live' \subseteq 1..serial' /\ serial' \in Serial
    BY DEF TypeOK
  <2>2. serial' \in Nat /\ serial' <= MaxSerial
    BY <2>1 DEF Serial
  <2> QED
    BY <2>1, <2>2
<1>y. serial \in Nat /\ serial <= serial'
  <2>1. serial \in Nat
    BY <1>i DEF TypeOK, Serial
  <2> QED
    BY <2>1
<1>1. Chains'
  <2>1. scope[p] \subseteq live
    BY <1>i DEF Chains
  <2>2. /\ e \in scope'[e] /\ scope'[e] \subseteq live'
        /\ \A g \in scope'[e] : g <= e /\ scope'[g] \subseteq scope'[e]
    <3>1. \A g \in scope[p] : g < e /\ scope'[g] \subseteq scope[p]
      BY <2>1, <1>e, <1>i DEF Chains
    <3>2. \A g \in {e} \cup scope[p] : g <= e /\ scope'[g] \subseteq {e} \cup scope[p]
      <4>1. \A g \in scope[p] : g \in Nat /\ g <= e
        BY <2>1, <3>1, <1>e, <1>i
      <4> QED
        BY <3>1, <4>1, <1>e
    <3> QED
      BY <2>1, <3>2
  <2>3. \A f \in live : /\ f \in scope'[f] /\ scope'[f] \subseteq live'
                        /\ \A g \in scope'[f] : g <= f /\ scope'[g] \subseteq scope'[f]
    BY <1>i DEF Chains
  <2> QED
    BY <2>2, <2>3 DEF Chains
<1>2. CapturedClosed'
  <2>1. CASE captured' = captured
    BY <2>1, <1>i DEF CapturedClosed
  <2>2. CASE captured' = captured \cup {e} \cup scope[p]
    <3>1. scope[p] \subseteq live /\ \A g \in scope[p] : scope[g] \subseteq scope[p]
      BY <1>i DEF Chains
    <3>2. captured \subseteq live
      BY <1>i DEF CapturedClosed
    <3>3. \A f \in captured : scope'[f] \subseteq captured'
      BY <2>2, <3>2, <1>i DEF CapturedClosed
    <3> QED
      BY <2>2, <3>1, <3>2, <3>3 DEF CapturedClosed
  <2> QED
    BY <2>1, <2>2
<1>3. FunctionsCaptured'
  BY DEF FunctionsCaptured
<1>c. captured \subseteq captured'
  OBVIOUS
<1>4. CASE stack' = stack /\ (HeapCheck \/ e \in captured')
  <2>1. StackOrder' /\ TrySaved' /\ TryChain' /\ TryTarget'
    BY <1>4, <1>i DEF StackOrder, TrySaved, TryChain, TryTarget
  <2>2. NoLeak'
    BY <1>4, <1>i, <1>c DEF NoLeak, Holds
  <2>3. SavedBound'
    BY <1>4, <1>b, <1>y, <1>x, <1>i DEF SavedBound, TypeOK, Serial
  <2> QED
    BY <1>1, <1>2, <1>3, <1>4, <1>i, <2>1, <2>2, <2>3 DEF IInv
<1>5. CASE stack' = Append(stack, a) /\ a.kind \notin {"try", "top"} /\ a.env = e
  <2> DEFINE n == Len(stack)
  <2>s. /\ n \in Nat /\ n >= 1 /\ Len(stack') = n + 1
        /\ \A i \in 1..n : stack'[i] = stack[i]
        /\ stack'[n + 1] = a
    BY <1>5, <1>i, PushStack DEF TypeOK
  <2> HIDE DEF n
  <2>i. \A i \in 1..Len(stack') : i \in 1..n \/ i = n + 1
    BY <2>s
  <2>n. n = Len(stack)
    BY DEF n
  <2>b. \A i \in 1..n : stack[i].env \in live /\ stack[i].env < e
    BY <1>i, <1>e, <2>n DEF StackOrder
  <2>1. StackOrder'
    <3>1. \A i \in 1..Len(stack') : stack'[i].env \in live'
      BY <2>s, <2>i, <2>b, <1>5
    <3>2. ASSUME NEW i \in 1..Len(stack'), NEW j \in 1..Len(stack'), i < j
          PROVE  /\ stack'[i].env <= stack'[j].env
                 /\ stack'[j].kind # "try" => stack'[i].env < stack'[j].env
      <4>1. CASE j \in 1..n
        <5>1. i \in 1..n
          BY <4>1, <3>2, <2>s
        <5> QED
          BY <4>1, <5>1, <3>2, <2>s, <2>n, <1>i DEF StackOrder
      <4>2. CASE j = n + 1
        <5>1. i \in 1..n
          BY <4>2, <3>2, <2>s
        <5>2. stack'[i].env < e /\ stack'[i].env \in Nat
          BY <5>1, <2>b, <2>s, <1>i
        <5> QED
          BY <4>2, <5>2, <2>s, <1>5, <1>e
      <4> QED
        BY <4>1, <4>2, <2>i
    <3> QED
      BY <3>1, <3>2 DEF StackOrder
  <2>2. TrySaved'
    <3> SUFFICES ASSUME NEW j \in 1..Len(stack'), NEW i \in 1..Len(stack'),
                        stack'[j].kind = "try"
                 PROVE  /\ i < j => stack'[i].env <= stack'[j].saved
                        /\ i > j /\ stack'[i].kind # "try" => stack'[i].env > stack'[j].saved
      BY DEF TrySaved
    <3>1. j \in 1..n
      BY <2>i, <2>s, <1>5
    <3>2. CASE i \in 1..n
      BY <3>1, <3>2, <2>s, <2>n, <1>i DEF TrySaved
    <3>3. CASE i = n + 1
      <4>1. stack'[i].env = e /\ stack'[j] = stack[j] /\ ~(i < j)
        BY <3>1, <3>3, <2>s, <1>5
      <4>2. stack[j].saved \in Nat /\ stack[j].saved < e
        BY <3>1, <4>1, <1>b, <2>n
      <4> QED
        BY <4>1, <4>2, <1>e
    <3> QED
      BY <3>2, <3>3, <2>i
  <2>3. TryChain'
    <3> SUFFICES ASSUME NEW j \in 1..Len(stack'), stack'[j].kind = "try"
                 PROVE  /\ stack'[j].prev \in 0..(j - 1)
                        /\ stack'[j].prev # 0 => stack'[stack'[j].prev].kind = "try"
                        /\ \A i \in 1..(j - 1) : i > stack'[j].prev => stack'[i].kind # "try"
      BY DEF TryChain
    <3>1. j \in 1..n
      BY <2>i, <2>s, <1>5
    <3>2. /\ stack[j].prev \in 0..(j - 1)
          /\ stack[j].prev # 0 => stack[stack[j].prev].kind = "try"
          /\ \A i \in 1..(j - 1) : i > stack[j].prev => stack[i].kind # "try"
      BY <3>1, <2>s, <2>n, <1>i DEF TryChain
    <3>3. \A i \in 1..(j - 1) : i \in 1..n
      BY <3>1, <2>s
    <3> QED
      BY <3>1, <3>2, <3>3, <2>s
  <2>4. TryTarget'
    <3>1. tryTop \in 0..n
      BY <1>i, <2>n DEF TypeOK
    <3> QED
      BY <3>1, <2>i, <2>s, <2>n, <1>5, <1>i DEF TryTarget
  <2>5. NoLeak'
    <3> SUFFICES ASSUME ~HeapCheck, NEW f \in live', f \notin captured'
                 PROVE  \E i \in 1..Len(stack') : Holds(stack'[i], f)
      BY DEF NoLeak, Holds
    <3>1. CASE f \in live
      <4>1. PICK i \in 1..n : Holds(stack[i], f)
        BY <3>1, <1>c, <1>i, <2>n DEF NoLeak
      <4> QED
        BY <4>1, <2>s
    <3>2. CASE f = e
      BY <3>2, <2>s, <1>5 DEF Holds
    <3> QED
      BY <3>1, <3>2
  <2>6. SavedBound'
    <3> SUFFICES ASSUME NEW j \in 1..n, stack[j].kind = "try"
                 PROVE  stack[j].saved <= serial'
      BY <2>i, <2>s, <1>5 DEF SavedBound
    <3>1. stack[j].saved \in Nat /\ stack[j].saved <= serial
      BY <1>b, <2>n
    <3>2. serial \in Nat
      BY <1>i DEF TypeOK, Serial
    <3> QED
      BY <3>1, <3>2, <1>y, <1>x
  <2> QED
    BY <1>1, <1>2, <1>3, <1>i, <2>s, <2>1, <2>2, <2>3, <2>4, <2>5, <2>6 DEF IInv
<1> QED
  BY <1>4, <1>5

\* Every function the running code can name closes over a captured frame.
LEMMA CallableCaptured ==
    ASSUME IInv
    PROVE  Callable(Cur) \subseteq captured /\ Cur \in live /\ captured \subseteq live
<1>1. Cur \in live
  BY CurType DEF IInv, StackOrder, Cur
<1>2. scope[Cur] \subseteq live
  BY <1>1 DEF IInv, Chains
<1> QED
  BY <1>1, <1>2 DEF IInv, Callable, FunctionsCaptured, CapturedClosed

\* A loaded variable holds data or a captured function.
LEMMA NearestCaptured ==
    ASSUME IInv, NEW x \in Names, NEW f \in Nearest(Cur, x)
    PROVE  f \in live /\ (vals[f][x] \in Serial => vals[f][x] \in captured)
<1>1. f \in scope[Cur]
  BY DEF Nearest, Binders
<1>2. scope[Cur] \subseteq live
  BY CallableCaptured DEF IInv, Chains
<1> QED
  BY <1>1, <1>2 DEF IInv, FunctionsCaptured

\* Writing such a value anywhere keeps all slots so.
LEMMA WriteCaptured ==
    ASSUME NEW m \in [Serial -> Slots], NEW F \in SUBSET Serial,
           \A g \in F, y \in Names : m[g][y] \in Serial => m[g][y] \in captured,
           NEW f \in Serial, NEW x \in Names, NEW v, v \in Serial => v \in captured
    PROVE  \A g \in F, y \in Names :
             [m EXCEPT ![f][x] = v][g][y] \in Serial
                => [m EXCEPT ![f][x] = v][g][y] \in captured
<1>1. \A g \in F, y \in Names : [m EXCEPT ![f][x] = v][g][y] = 
         IF g = f /\ y = x THEN v ELSE m[g][y]
  BY DEF Slots
<1> QED
  BY <1>1

\* A function that is handed over as an argument is captured.
LEMMA ParamsCaptured ==
    ASSUME IInv, NEW slots \in Params, NEW x \in Names
    PROVE  slots[x] \in Serial => slots[x] \in captured
<1>1. \A y \in Names : slots[y] \in {Unbound, acc}
  BY DEF Params, Bind, Empty
<1> QED
  BY <1>1, Constants DEF IInv, FunctionsCaptured

\* The slots of a frame just made are its parameters; the others keep theirs.
LEMMA EnterInv ==
    ASSUME IInv, TypeOK', NEW k \in {"call", "body", "plain"}, NEW p \in live,
           NEW slots \in Params, NEW r \in BOOLEAN,
           EnvNew(p, slots, r), Push(k, serial + 1), UNCHANGED <<captured, tryTop, acc>>
    PROVE  IInv'
<1> DEFINE e == serial + 1
           a == [kind |-> k, env |-> e, saved |-> 0, prev |-> 0]
<1>i. TypeOK /\ FunctionsCaptured
  BY DEF IInv
<1>1. e \in Serial /\ a \in Activation /\ e \notin live
  <2>1. p \in Serial /\ slots \in Slots
    BY <1>i, LiveSerial, ParamsType
  <2>2. e \in Serial
    BY <1>i, <2>1, EnvNewType
  <2>3. e \notin live
    BY <1>i, LiveSerial, Constants DEF TypeOK, Serial
  <2> QED
    BY <2>2, <2>3 DEF Activation, Kinds
<1>2. /\ live' = live \cup {e} /\ serial' = e
      /\ scope'[e] = {e} \cup scope[p]
      /\ \A f \in live : scope'[f] = scope[f] /\ vals'[f] = vals[f]
      /\ vals'[e] = slots
  BY <1>1, <1>i, LiveSerial DEF EnvNew, TypeOK
<1>3. \A f \in live', x \in Names : vals'[f][x] \in Serial => vals'[f][x] \in captured'
  BY <1>2, <1>i, ParamsCaptured DEF FunctionsCaptured
<1>4. acc' \in Serial => acc' \in captured'
  BY <1>i DEF FunctionsCaptured
<1>5. stack' = Append(stack, a) /\ a.kind \notin {"try", "top"} /\ a.env = e
  BY DEF Push
<1> HIDE DEF e, a
<1>6. e = serial + 1
  BY DEF e
<1> QED
  BY <1>1, <1>2, <1>3, <1>4, <1>5, <1>6, NewInv

\* The end of an activation that holds a frame.
LEMMA DropInv ==
    ASSUME IInv, TypeOK', stack[Len(stack)].kind \in {"call", "body", "plain"},
           Pop, NEW slots, Free(live, EnvRelease(Cur), parent, scope, slots),
           UNCHANGED <<serial, captured, tryTop, acc>>,
           \A f \in live, x \in Names : slots[f][x] \in Serial => slots[f][x] \in captured
    PROVE  IInv'
<1> DEFINE n == Len(stack)
           k == n - 1
           t == Cur - 1
           F == EnvRelease(Cur)
<1>i. /\ TypeOK /\ CapturedClosed /\ StackOrder /\ TryTarget /\ NoLeak
      /\ stack[1].kind = "top" /\ FunctionsCaptured
  BY DEF IInv
<1>1. n \in Nat /\ n >= 2 /\ k \in 1..(Len(stack) - 1) /\ Cur = stack[n].env
  BY <1>i, CurType DEF Cur
<1>2. Cur \in live /\ Cur \in Nat /\ t \in Nat
  BY <1>i, CallableCaptured, LiveSerial
<1>3. \A i \in 1..k : stack[i].env < Cur /\ stack[i].env \in Nat /\ stack[i].env <= t
  <2>1. \A i \in 1..k : stack[i].env < Cur
    BY <1>1, <1>i DEF StackOrder
  <2>2. \A i \in 1..k : stack[i].env \in Nat
    <3>1. \A i \in 1..k : i \in 1..Len(stack)
      BY <1>1
    <3>2. \A i \in 1..Len(stack) : stack[i].env \in Serial
      BY <1>i, CurType
    <3> QED
      BY <3>1, <3>2, Constants
  <2> QED
    BY <2>1, <2>2, <1>2
<1>4. F \in SUBSET live /\ F \cap captured = {} /\ F \subseteq {Cur}
  BY <1>2 DEF EnvRelease
<1>5. \A f \in F : f > t
  BY <1>2, <1>4
<1>6. F # {} => \A f \in live : f \in F \/ f \in captured \/ f <= t
  <2> SUFFICES ASSUME F # {}, NEW f \in live, f \notin F, f \notin captured
               PROVE  f <= t
    OBVIOUS
  <2>1. ~HeapCheck /\ F = {Cur}
    BY DEF EnvRelease
  <2>2. PICK i \in 1..n : stack[i].env = f
    BY <2>1, <1>i DEF NoLeak, Holds
  <2>3. i # n
    BY <2>1, <2>2, <1>1
  <2> QED
    BY <2>2, <2>3, <1>1, <1>3
<1>7. ~HeapCheck => \A i \in (k + 1)..Len(stack), f \in live :
                       Holds(stack[i], f) => f \in F \cup captured
  BY <1>1 DEF Holds, EnvRelease
<1>8. /\ tryTop' \in 0..k
      /\ tryTop' # 0 => stack[tryTop'].kind = "try"
      /\ \A i \in 1..k : i > tryTop' => stack[i].kind # "try"
  BY <1>1, <1>i DEF TryTarget, TypeOK
<1>9. stack' = SubSeq(stack, 1, k)
  BY DEF Pop
<1>10. acc' \in Serial => acc' \in captured
  BY <1>i DEF FunctionsCaptured
<1>11. \A i \in 1..k : stack[i].env <= t
  BY <1>3
<1>12. Free(live, F, parent, scope, slots)
  OBVIOUS
<1> HIDE DEF F, k, t, n
<1> QED
  BY <1>1, <1>2, <1>4, <1>5, <1>6, <1>7, <1>8, <1>9, <1>10, <1>11, <1>12, CutInv

\* Every step of the runtime preserves the inductive invariant.
LEMMA InvNext == IInv /\ [Next]_vars => IInv'
<1> SUFFICES ASSUME IInv, [Next]_vars PROVE IInv'
  OBVIOUS
<1> USE Constants
<1>i. TypeOK /\ FunctionsCaptured /\ Chains /\ CapturedClosed
  BY DEF IInv
<1>m. vals \in [Serial -> Slots] /\ live \in SUBSET Serial
  BY <1>i, LiveSerial DEF TypeOK
<1>t. CASE UNCHANGED vars
  BY <1>t DEF vars, IInv, TypeOK, Chains, CapturedClosed, FunctionsCaptured,
     StackOrder, TrySaved, SavedBound, TryChain, TryTarget, NoLeak, Holds
<1>n. CASE Next
  <2>0. TypeOK' /\ Step
    BY <1>n, TypeNext DEF Next
  <2> USE <2>0
  <2>a. acc \in Serial => acc \in captured
    BY <1>i DEF FunctionsCaptured
  <2>v. \A f \in live, x \in Names : vals[f][x] \in Serial => vals[f][x] \in captured
    BY <1>i DEF FunctionsCaptured
  <2>c. Cur \in live /\ Cur \in Serial /\ Callable(Cur) \subseteq captured
        /\ captured \subseteq live
    BY <1>i, CurType, CallableCaptured
  <2>1. ASSUME NEW d \in Data, Const(d) PROVE IInv'
    BY <2>1, <2>v, StoreInv DEF Const, frameVars
  <2>2. ASSUME NEW x \in Names, Load(x) PROVE IInv'
    <3>1. acc' \in Serial => acc' \in captured
      BY <2>2, NearestCaptured DEF Load
    <3> QED
      BY <2>2, <3>1, <2>v, StoreInv DEF Load, frameVars
  <2>3. ASSUME NEW x \in Names, Define(x) PROVE IInv'
    <3>1. PICK f \in DefineTargets(Cur, x) : Write(f, x, acc)
      BY <2>3 DEF Define
    <3>2. f \in Serial
      BY <2>c, <1>i, NearestType DEF DefineTargets, TypeOK
    <3>3. \A g \in live, y \in Names : vals'[g][y] \in Serial => vals'[g][y] \in captured
      BY <3>1, <3>2, <2>a, <2>v, <1>m, WriteCaptured DEF Write
    <3> QED
      BY <2>3, <3>3, <2>a, StoreInv DEF Define, frameVars
  <2>4. ASSUME NEW x \in Names, Let(x) PROVE IInv'
    <3>1. PICK f \in SetTargets(Cur, x) : Write(f, x, acc)
      BY <2>4 DEF Let
    <3>2. f \in Serial
      BY <2>c, <1>i, NearestType
    <3>3. \A g \in live, y \in Names : vals'[g][y] \in Serial => vals'[g][y] \in captured
      BY <3>1, <3>2, <2>a, <2>v, <1>m, WriteCaptured DEF Write
    <3> QED
      BY <2>4, <3>3, <2>a, StoreInv DEF Let, frameVars
  <2>5. ASSUME NEW x \in Names, Unset(x) PROVE IInv'
    <3>1. PICK f \in Nearest(Cur, x) : Write(f, x, Unbound)
      BY <2>5 DEF Unset
    <3>2. f \in Serial
      BY <2>c, <1>i, NearestType
    <3>3. \A g \in live, y \in Names : vals'[g][y] \in Serial => vals'[g][y] \in captured
      BY <3>1, <3>2, <2>v, <1>m, Constants, WriteCaptured DEF Write, Values
    <3> QED
      BY <2>5, <3>3, StoreInv DEF Unset, frameVars
  <2>6. CASE MakeFunction
    <3>1. captured' = captured \cup scope[Cur]
      BY <2>6 DEF MakeFunction, EnvCapture
    <3>2. Cur \in captured' /\ captured \subseteq captured'
      BY <3>1, <2>c, <1>i DEF Chains
    <3>3. CapturedClosed'
      BY <2>6, <3>1, <2>c, <1>i DEF MakeFunction, CapturedClosed, Chains
    <3>4. FunctionsCaptured' /\ Chains'
      BY <2>6, <3>2, <1>i DEF MakeFunction, FunctionsCaptured, Chains
    <3>5. StackOrder' /\ TrySaved' /\ SavedBound' /\ TryChain' /\ TryTarget'
      BY <2>6 DEF MakeFunction, IInv, StackOrder, TrySaved, SavedBound, TryChain, TryTarget
    <3>6. NoLeak' /\ stack'[1].kind = "top"
      BY <2>6, <3>2 DEF MakeFunction, IInv, NoLeak, Holds
    <3> QED
      BY <3>3, <3>4, <3>5, <3>6 DEF IInv
  <2>7. ASSUME NEW x \in Names, Construct(x) PROVE IInv'
    <3> DEFINE e == serial + 1
    <3>1. PICK m \in Callable(Cur) :
            /\ EnvNew(m, Bind(x, Null), FALSE)
            /\ captured' = captured \cup {e} \cup scope[m]
            /\ acc' = e
            /\ UNCHANGED <<stack, tryTop, running>>
      BY <2>7 DEF Construct
    <3>2. m \in live /\ m \in Serial /\ Bind(x, Null) \in Slots
      BY <2>c, <1>i, LiveSerial, BindType
    <3>3. e \in Serial /\ e \notin live /\ serial' = e
      <4>1. e \in Serial /\ serial' = e
        BY <3>1, <3>2, <1>i, EnvNewType
      <4>2. serial \in Nat
        BY <1>i DEF TypeOK, Serial
      <4> QED
        BY <4>1, <4>2, <1>i, LiveSerial
    <3>4. /\ live' = live \cup {e}
          /\ scope'[e] = {e} \cup scope[m]
          /\ \A f \in live : scope'[f] = scope[f] /\ vals'[f] = vals[f]
          /\ vals'[e] = Bind(x, Null)
      BY <3>1, <3>3, <1>i, LiveSerial DEF EnvNew, TypeOK
    <3>5. \A y \in Names : Bind(x, Null)[y] \notin Serial
      BY DEF Bind, Empty, Values
    <3>6. captured' = captured \cup {e} \cup scope[m] /\ e \in captured' /\ captured \subseteq captured'
      BY <3>1
    <3>7. \A f \in live', y \in Names : vals'[f][y] \in Serial => vals'[f][y] \in captured'
      BY <3>4, <3>5, <3>6, <2>v
    <3>8. acc' \in captured' /\ stack' = stack /\ tryTop' = tryTop /\ stack[1] \in Activation
      BY <3>1, <3>6, <1>i, CurType
    <3>9. e = serial + 1
      OBVIOUS
    <3> HIDE DEF e
    <3> QED
      BY <3>2, <3>3, <3>4, <3>6, <3>7, <3>8, <3>9, NewInv
  <2>8. ASSUME NEW slots \in Params, Call(slots) PROVE IInv'
    <3>1. PICK f \in Callable(Cur) : EnvNew(f, slots, FALSE)
      BY <2>8 DEF Call
    <3> QED
      BY <2>8, <3>1, <2>c, EnterInv DEF Call
  <2>9. ASSUME NEW slots \in Params, EnterBody(slots) PROVE IInv'
    BY <2>9, <2>c, EnterInv DEF EnterBody
  <2>10. ASSUME NEW slots \in Params, EnterPlain(slots) PROVE IInv'
    BY <2>10, <2>c, EnterInv DEF EnterPlain
  <2>11. ASSUME NEW exports \in SUBSET Names, Return(exports) PROVE IInv'
    <3> DEFINE V(to) == [f \in Serial |-> [x \in Names |->
                           IF x \in exports /\ to[x] = f THEN vals[Cur][x]
                                                         ELSE vals[f][x]]]
    <3>1. PICK to \in [exports -> Serial] :
            Free(live, EnvRelease(Cur), parent, scope, V(to))
      BY <2>11 DEF Return
    <3>2. \A f \in live, x \in Names : V(to)[f][x] = vals[Cur][x] \/ V(to)[f][x] = vals[f][x]
      BY <1>i, LiveSerial
    <3>3. \A f \in live, x \in Names : V(to)[f][x] \in Serial => V(to)[f][x] \in captured
      BY <3>2, <2>v, <2>c
    <3> HIDE DEF V
    <3> QED
      BY <2>11, <3>1, <3>3, DropInv DEF Return
  <2>12. CASE Leave
    BY <2>12, <2>v, DropInv DEF Leave
  <2>13. ASSUME NEW x \in Names, With(x) PROVE IInv'
    <3> DEFINE e   == serial + 1
               new == [vals EXCEPT ![e] = Empty]
    <3>1. PICK f \in IF Binders(Cur, x) = {} THEN {e} ELSE Nearest(Cur, x) :
            Free(live \cup {e}, EnvRelease(e), [parent EXCEPT ![e] = Cur],
                 [scope EXCEPT ![e] = {e} \cup scope[Cur]], [new EXCEPT ![f][x] = acc])
      BY <2>13 DEF With
    <3>2. e \in Serial /\ serial' = e /\ e \notin live
      <4>1. serial \in Nat /\ serial < MaxSerial
        BY <2>13, <1>i DEF With, TypeOK, Serial
      <4> QED
        BY <2>13, <4>1, <1>i, LiveSerial DEF With, Serial
    <3>3. f \in Serial
      BY <3>2, <2>c, <1>i, NearestType
    <3>4. UNCHANGED <<captured, stack, tryTop>> /\ acc' = Null /\ acc' \notin Serial
      BY <2>13 DEF With
    <3>5. \A g \in live : scope'[g] = scope[g]
      <4>1. \A g \in live : g \in Serial /\ g # e
        BY <3>2, <1>i, LiveSerial
      <4> QED
        BY <4>1, <3>1, <3>2, <1>i DEF Free, EnvRelease, TypeOK
    <3>0. \A y \in Names : Empty[y] \notin Serial
      BY DEF Empty, Values
    <3>6. \A g \in live \cup {e}, y \in Names : vals'[g][y] \in Serial => vals'[g][y] \in captured
      <4>1. \A g \in live \cup {e} : g \in Serial /\ vals'[g] \in {[new EXCEPT ![f][x] = acc][g], Empty}
        BY <3>1, <3>2, <1>m DEF Free
      <4>2. new \in [Serial -> Slots]
        BY <1>m, BindType, <2>c
      <4>3. \A g \in live \cup {e}, y \in Names : new[g][y] \in Serial => new[g][y] \in captured
        BY <3>0, <3>2, <1>m, <2>v
      <4>4. live \cup {e} \in SUBSET Serial
        BY <3>2, <1>m
      <4> HIDE DEF new, e
      <4> DEFINE L == live \cup {e}
                 w == [new EXCEPT ![f][x] = acc]
      <4>5. \A g \in L, y \in Names : w[g][y] \in Serial => w[g][y] \in captured
        <5> HIDE DEF L
        <5> QED
          BY <4>2, <4>3, <4>4, <3>3, <2>a, WriteCaptured DEF L
      <4> HIDE DEF w
      <4>6. \A g \in L : vals'[g] = w[g] \/ vals'[g] = Empty
        BY <4>1 DEF w
      <4> QED
        BY <4>5, <4>6, <3>0
    <3>7. CASE HeapCheck
      <4>1. live' = live \cup {e} /\ scope'[e] = {e} \cup scope[Cur]
        BY <3>7, <3>1, <3>2, <1>i DEF Free, EnvRelease, TypeOK
      <4>3. \A g \in live', y \in Names : vals'[g][y] \in Serial => vals'[g][y] \in captured'
        BY <4>1, <3>4, <3>6
      <4>4. e = serial + 1 /\ stack[1] \in Activation
        BY <1>i, CurType
      <4> HIDE DEF e
      <4> QED
        BY <2>c, <3>2, <3>4, <3>5, <3>7, <4>1, <4>3, <4>4, NewInv
    <3>8. CASE ~HeapCheck
      <4>1. live' = live
        BY <3>8, <3>1, <3>2, <2>c DEF Free, EnvRelease
      <4> QED
        BY <4>1, <3>2, <3>4, <3>5, <3>6, StoreInv
    <3> QED
      BY <3>7, <3>8
  <2>14. CASE EnterTry
    <3> DEFINE a == [kind |-> "try", env |-> Cur, saved |-> serial, prev |-> tryTop]
               n == Len(stack)
    <3>i. /\ StackOrder /\ TrySaved /\ SavedBound /\ TryChain /\ TryTarget /\ NoLeak
          /\ stack[1].kind = "top"
      BY DEF IInv
    <3>1. a \in Activation /\ serial \in Nat /\ n \in Nat /\ n >= 1 /\ tryTop \in 0..n
      BY <1>i, <2>c DEF Activation, Kinds, TypeOK, Serial
    <3>2. /\ Len(stack') = n + 1 /\ stack'[n + 1] = a
          /\ \A i \in 1..n : stack'[i] = stack[i]
      BY <2>14, <3>1, <1>i, PushStack DEF EnterTry, TypeOK
    <3>3. \A i \in 1..Len(stack') : i \in 1..n \/ i = n + 1
      BY <3>1, <3>2
    <3>4. /\ UNCHANGED <<serial, live, parent, scope, captured, rebind, vals, acc>>
          /\ tryTop' = n + 1
      BY <2>14 DEF EnterTry, frameVars
    <3>5. \A i \in 1..n : /\ stack[i].env \in live /\ stack[i].env <= Cur
                          /\ stack[i].env <= serial
                          /\ stack[i].env \in Nat
      <4>1. \A i \in 1..n : stack[i].env \in live /\ stack[i].env \in Nat
        BY <3>i, <1>i, LiveSerial DEF StackOrder
      <4>2. \A i \in 1..n : i < n => stack[i].env <= Cur
        BY <3>1, <3>i DEF StackOrder, Cur
      <4>3. \A i \in 1..n : stack[i].env <= Cur
        BY <4>1, <4>2, <3>1 DEF Cur
      <4> QED
        BY <4>1, <4>3, <1>i, LiveSerial
    <3>6. StackOrder'
      <4>1. \A i \in 1..Len(stack') : stack'[i].env \in live'
        BY <3>2, <3>3, <3>4, <3>5, <2>c
      <4>2. ASSUME NEW i \in 1..Len(stack'), NEW j \in 1..Len(stack'), i < j
            PROVE  /\ stack'[i].env <= stack'[j].env
                   /\ stack'[j].kind # "try" => stack'[i].env < stack'[j].env
        <5>1. i \in 1..n
          BY <4>2, <3>1, <3>3
        <5>2. CASE j \in 1..n
          BY <4>2, <5>1, <5>2, <3>2, <3>i DEF StackOrder
        <5>3. CASE j = n + 1
          BY <5>1, <5>3, <3>2, <3>5
        <5> QED
          BY <5>2, <5>3, <3>3
      <4> QED
        BY <4>1, <4>2 DEF StackOrder
    <3>7. TrySaved'
      <4> SUFFICES ASSUME NEW j \in 1..Len(stack'), NEW i \in 1..Len(stack'),
                          stack'[j].kind = "try"
                   PROVE  /\ i < j => stack'[i].env <= stack'[j].saved
                          /\ i > j /\ stack'[i].kind # "try" => stack'[i].env > stack'[j].saved
        BY DEF TrySaved
      <4>1. CASE j \in 1..n /\ i \in 1..n
        BY <4>1, <3>2, <3>i DEF TrySaved
      <4>2. CASE j \in 1..n /\ i = n + 1
        BY <4>2, <3>1, <3>2
      <4>3. CASE j = n + 1
        BY <4>3, <3>1, <3>2, <3>3, <3>5
      <4> QED
        BY <4>1, <4>2, <4>3, <3>3
    <3>8. TryChain'
      <4> SUFFICES ASSUME NEW j \in 1..Len(stack'), stack'[j].kind = "try"
                   PROVE  /\ stack'[j].prev \in 0..(j - 1)
                          /\ stack'[j].prev # 0 => stack'[stack'[j].prev].kind = "try"
                          /\ \A i \in 1..(j - 1) : i > stack'[j].prev => stack'[i].kind # "try"
        BY DEF TryChain
      <4>1. CASE j \in 1..n
        <5>1. /\ stack[j].prev \in 0..(j - 1)
              /\ stack[j].prev # 0 => stack[stack[j].prev].kind = "try"
              /\ \A i \in 1..(j - 1) : i > stack[j].prev => stack[i].kind # "try"
          BY <4>1, <3>2, <3>i DEF TryChain
        <5>2. \A i \in 1..(j - 1) : i \in 1..n
          BY <4>1, <3>1
        <5> QED
          BY <4>1, <5>1, <5>2, <3>1, <3>2
      <4>2. CASE j = n + 1
        <5>1. stack'[j].prev = tryTop /\ j - 1 = n
          BY <4>2, <3>1, <3>2
        <5> QED
          BY <5>1, <3>1, <3>2, <3>i DEF TryTarget
      <4> QED
        BY <4>1, <4>2, <3>3
    <3>9. TryTarget'
      BY <3>1, <3>2, <3>3, <3>4 DEF TryTarget
    <3>10. NoLeak' /\ stack'[1].kind = "top"
      BY <3>1, <3>2, <3>4, <3>i DEF NoLeak, Holds
    <3>11. SavedBound'
      BY <3>1, <3>2, <3>3, <3>4, <3>i DEF SavedBound
    <3>12. Chains' /\ CapturedClosed' /\ FunctionsCaptured'
      BY <3>4, <1>i DEF Chains, CapturedClosed, FunctionsCaptured
    <3> QED
      BY <3>6, <3>7, <3>8, <3>9, <3>10, <3>11, <3>12 DEF IInv
  <2>15. CASE LeaveTry
    <3> DEFINE n == Len(stack)
               k == n - 1
    <3>i. StackOrder /\ TryChain /\ TryTarget /\ NoLeak /\ stack[1].kind = "top"
      BY DEF IInv
    <3>1. n \in Nat /\ n >= 2 /\ k \in 1..(Len(stack) - 1) /\ n \in 1..Len(stack)
      BY <2>15, <3>i, <1>i, CurType DEF LeaveTry
    <3>2. /\ tryTop' \in 0..k
          /\ tryTop' # 0 => stack[tryTop'].kind = "try"
          /\ \A i \in 1..k : i > tryTop' => stack[i].kind # "try"
      BY <2>15, <3>1, <3>i DEF LeaveTry, RestorePrev, TryChain
    <3>3. Free(live, {}, parent, scope, vals)
      BY <2>15, <1>i DEF LeaveTry, frameVars, Free, TypeOK
    <3>4. \A i \in 1..k : stack[i].env <= serial
      BY <3>1, <3>i, <1>i, LiveSerial DEF StackOrder
    <3>5. \A i \in (k + 1)..Len(stack), f \in live : Holds(stack[i], f) => f \in {} \cup captured
      BY <2>15, <3>1 DEF LeaveTry, Holds
    <3>6. stack' = SubSeq(stack, 1, k) /\ serial \in Nat
      BY <2>15, <1>i DEF LeaveTry, Pop, TypeOK, Serial
    <3>7. UNCHANGED <<serial, captured>> /\ acc' \notin Serial
      BY <2>15 DEF LeaveTry, frameVars
    <3>8. /\ {} \in SUBSET live /\ {} \cap captured = {}
          /\ \A f \in {} : f > serial
      OBVIOUS
    <3> HIDE DEF n, k
    <3> DEFINE F == {}
    <3>9. F = {}
      OBVIOUS
    <3> HIDE DEF F
    <3> QED
      BY <3>1, <3>2, <3>3, <3>4, <3>5, <3>6, <3>7, <3>8, <3>9, <2>v, CutInv
  <2>16. CASE Catch
    <3> DEFINE k == tryTop - 1
               t == stack[tryTop].saved
               F == EnvRewind(t)
    <3>i. /\ StackOrder /\ TryChain /\ TryTarget /\ NoLeak /\ TrySaved
          /\ stack[1].kind = "top"
      BY DEF IInv
    <3>1. /\ tryTop \in 1..Len(stack) /\ stack[tryTop].kind = "try" /\ tryTop # 1
          /\ k \in 1..(Len(stack) - 1) /\ t \in Nat
      BY <2>16, <3>i, <1>i, CurType DEF Catch, TryTarget, TypeOK
    <3>2. /\ tryTop' \in 0..k
          /\ tryTop' # 0 => stack[tryTop'].kind = "try"
          /\ \A i \in 1..k : i > tryTop' => stack[i].kind # "try"
      BY <2>16, <3>1, <3>i DEF Catch, RestorePrev, TryChain
    <3>3. /\ F \in SUBSET live /\ F \cap captured = {} /\ \A f \in F : f > t
      BY DEF EnvRewind
    <3>4. F # {} => \A f \in live : f \in F \/ f \in captured \/ f <= t
      BY <3>1, <1>i, LiveSerial DEF EnvRewind
    <3>5. \A i \in 1..k : stack[i].env <= t
      BY <3>1, <3>i DEF TrySaved
    <3>6. ~HeapCheck => \A i \in (k + 1)..Len(stack), f \in live :
                           Holds(stack[i], f) => f \in F \cup captured
      <4> SUFFICES ASSUME ~HeapCheck, NEW i \in (k + 1)..Len(stack), NEW f \in live,
                          Holds(stack[i], f)
                   PROVE  f \in F \cup captured
        OBVIOUS
      <4>1. i # tryTop /\ i > tryTop /\ i \in 1..Len(stack)
        BY <3>1 DEF Holds
      <4>2. f > t
        BY <4>1, <3>1, <3>i DEF TrySaved, Holds
      <4> QED
        BY <4>2 DEF EnvRewind
    <3>7. stack' = SubSeq(stack, 1, k) /\ Free(live, F, parent, scope, vals)
          /\ UNCHANGED <<serial, captured>> /\ acc' \notin Serial
      BY <2>16 DEF Catch
    <3> HIDE DEF k, t, F
    <3> QED
      BY <3>1, <3>2, <3>3, <3>4, <3>5, <3>6, <3>7, <2>v, CutInv
  <2>17. CASE Exit
    BY <2>17, <2>a, <2>v, StoreInv DEF Exit, frameVars
  <2> QED
    BY <2>1, <2>2, <2>3, <2>4, <2>5, <2>6, <2>7, <2>8, <2>9, <2>10, <2>11, <2>12,
       <2>13, <2>14, <2>15, <2>16, <2>17 DEF Step
<1> QED
  BY <1>t, <1>n

-----------------------------------------------------------------------------
(* Theorems                                                                *)

\* The strengthened invariant holds throughout every execution.
THEOREM Inductive == Spec => []IInv
<1>1. Init => IInv
  BY InvInit
<1>2. IInv /\ [Next]_vars => IInv'
  BY InvNext
<1> QED
  BY <1>1, <1>2, PTL DEF Spec

\* Every variable keeps its type, however env_new, env_release, env_rewind and
\* the try stack interleave.
THEOREM Types == Spec => []TypeOK
<1>1. IInv => TypeOK
  BY DEF IInv
<1> QED
  BY <1>1, Inductive, PTL

\* env_release and env_rewind never free a frame that a running activation, a
\* function value or another scope can still reach.
THEOREM NoDanglingFrames == Spec => []NoDangling
<1>1. IInv => NoDangling
  <2> SUFFICES ASSUME IInv PROVE NoDangling
    OBVIOUS
  <2>1. captured \subseteq live
    BY DEF IInv, CapturedClosed
  <2> QED
    BY <2>1 DEF IInv, NoDangling, StackOrder, Chains, FunctionsCaptured
<1> QED
  BY <1>1, Inductive, PTL

\* Outside heap checking, every frame that no function captured is held by an
\* activation that will release it, after any number of longjmps.
THEOREM NoLeakedFrames == Spec => []NoLeak
<1>1. IInv => NoLeak
  BY DEF IInv
<1> QED
  BY <1>1, Inductive, PTL

\* die() always jumps to the innermost try that is still running.
THEOREM DieReachesInnermostTry == Spec => []TryTarget
<1>1. IInv => TryTarget
  BY DEF IInv
<1> QED
  BY <1>1, Inductive, PTL

-----------------------------------------------------------------------------
(* Scopes                                                                  *)

\* Parents are older and allocated; a frame sees itself and what its parent
\* sees; only the first has none.
Parents ==
    \A f \in live :
        /\ parent[f] \in live \cup {0} /\ parent[f] < f
        /\ parent[f] = 0 => f = 1 /\ scope[f] = {f}
        /\ parent[f] # 0 => scope[f] = {f} \cup scope[parent[f]]

\* Bodies write through to a parent they have.
Marked == rebind \subseteq live \ {1}

\* Only the program itself runs in the first frame.
Root == stack[1].env = 1

SInv == IInv /\ Parents /\ Marked /\ Root

\* What Scopes sees of the frames holds at the start.
LEMMA ScopesInit == Init => SInv
<1> SUFFICES ASSUME Init PROVE SInv
  OBVIOUS
<1>1. IInv
  BY InvInit
<1>2. live = {1} /\ parent[1] = 0 /\ scope[1] = {1} /\ rebind = {} /\ stack[1].env = 1
  BY Constants DEF Init
<1> QED
  BY <1>1, <1>2 DEF SInv, Parents, Marked, Root

\* What is freed is nobody's parent.
LEMMA ScopesFree ==
    ASSUME SInv, IInv', NEW F, NEW slots, Free(live, F, parent, scope, slots),
           stack'[1] = stack[1]
    PROVE  SInv'
<1>1. TypeOK /\ Chains /\ Chains' /\ Parents /\ Marked /\ Root
  BY DEF SInv, IInv
<1>2. live' = live \ F /\ live \subseteq Serial /\ rebind' = rebind \ F
  BY <1>1, LiveSerial DEF Free
<1>3. \A f \in live' : parent'[f] = parent[f] /\ scope'[f] = scope[f] /\ f \in live
  BY <1>2 DEF Free
<1>4. ASSUME NEW f \in live'
      PROVE  /\ parent'[f] \in live' \cup {0} /\ parent'[f] < f
             /\ parent'[f] = 0 => f = 1 /\ scope'[f] = {f}
             /\ parent'[f] # 0 => scope'[f] = {f} \cup scope'[parent'[f]]
  <2>1. CASE parent[f] = 0
    BY <1>1, <1>3, <2>1 DEF Parents
  <2>2. CASE parent[f] # 0
    <3>1. /\ parent[f] \in live /\ parent[f] < f
          /\ scope[f] = {f} \cup scope[parent[f]] /\ parent[f] \in scope[parent[f]]
      BY <1>1, <1>3, <2>2 DEF Parents, Chains
    <3>2. scope[f] \subseteq live'
      BY <1>1, <1>3 DEF Chains
    <3> QED BY <1>3, <2>2, <3>1, <3>2
  <2> QED BY <2>1, <2>2
<1> QED
  BY <1>1, <1>2, <1>4 DEF SInv, Parents, Marked, Root

\* Nothing happens to frames.
LEMMA ScopesStay ==
    ASSUME SInv, IInv', UNCHANGED <<live, parent, scope, rebind>>, stack'[1] = stack[1]
    PROVE  SInv'
  BY DEF SInv, Parents, Marked, Root

\* A new frame has its parent's scope.
LEMMA ScopesNew ==
    ASSUME SInv, IInv', NEW p \in live, NEW slots, NEW r \in BOOLEAN, EnvNew(p, slots, r),
           stack'[1] = stack[1]
    PROVE  SInv'
<1> DEFINE e == serial + 1
<1>1. TypeOK /\ TypeOK' /\ Parents /\ Marked /\ Root
  BY DEF SInv, IInv
<1>2. /\ e \in Nat /\ e > 1 /\ e \notin live /\ \A f \in live : f \in Nat /\ f < e /\ f \in Serial /\ f >= 1
      /\ e \in Serial
  BY <1>1, LiveSerial, Constants DEF TypeOK, Serial, EnvNew
<1>3. /\ live' = live \cup {e} /\ parent'[e] = p /\ scope'[e] = {e} \cup scope[p]
      /\ \A f \in live : parent'[f] = parent[f] /\ scope'[f] = scope[f]
      /\ rebind' \subseteq rebind \cup {e}
  BY <1>1, <1>2 DEF EnvNew, TypeOK
<1> HIDE DEF e
<1>4. p # 0 /\ p < e
  BY <1>2
<1>5. \A f \in live : f # e
  BY <1>2
<1>6. Parents'
  <2> SUFFICES ASSUME NEW f \in live'
               PROVE  /\ parent'[f] \in live' \cup {0} /\ parent'[f] < f
                      /\ parent'[f] = 0 => f = 1 /\ scope'[f] = {f}
                      /\ parent'[f] # 0 => scope'[f] = {f} \cup scope'[parent'[f]]
    BY DEF Parents
  <2>1. CASE f = e
    BY <1>3, <1>4, <2>1
  <2>2. CASE f \in live
    BY <1>1, <1>3, <2>2 DEF Parents
  <2> QED BY <1>3, <2>1, <2>2
<1> QED
  BY <1>1, <1>2, <1>3, <1>6 DEF SInv, Marked, Root

\* Every step keeps them so.
LEMMA ScopesNext == SInv /\ [Next]_vars => SInv'
<1> SUFFICES ASSUME SInv, [Next]_vars PROVE SInv'
  OBVIOUS
<1>i. IInv /\ IInv' /\ TypeOK /\ stack[1].kind = "top"
  BY InvNext DEF SInv, IInv
<1>s. /\ stack \in Seq(Activation) /\ Len(stack) \in Nat /\ Len(stack) >= 1
      /\ Cur \in live /\ Callable(Cur) \subseteq live
  BY <1>i, CallableCaptured DEF TypeOK
<1>p. ASSUME NEW a \in Activation, stack' = Append(stack, a) PROVE stack'[1] = stack[1]
  BY <1>s, <1>p, PushStack
<1>c. ASSUME NEW k \in 1..Len(stack), stack' = SubSeq(stack, 1, k) PROVE stack'[1] = stack[1]
  BY <1>s, <1>c, CutStack
<1>o. ASSUME Pop, stack[Len(stack)].kind # "top" PROVE stack'[1] = stack[1]
  <2>1. Len(stack) - 1 \in 1..Len(stack)
    BY <1>i, <1>s, <1>o
  <2> QED BY <1>c, <1>o, <2>1 DEF Pop
<1>n. ASSUME NEW k \in {"call", "body", "plain"}, NEW p \in live, NEW slots, NEW r \in BOOLEAN,
             EnvNew(p, slots, r), Push(k, serial + 1)
      PROVE  SInv'
  <2>1. serial + 1 \in Serial
    BY <1>i, <1>n, Constants DEF EnvNew, TypeOK, Serial
  <2>2. [kind |-> k, env |-> serial + 1, saved |-> 0, prev |-> 0] \in Activation
    BY <2>1 DEF Activation, Kinds
  <2>3. stack' = Append(stack, [kind |-> k, env |-> serial + 1, saved |-> 0, prev |-> 0])
    BY <1>n DEF Push
  <2> QED BY <1>i, <1>n, <1>p, <2>2, <2>3, ScopesNew
<1>1. CASE UNCHANGED vars
  BY <1>1, <1>i, ScopesStay DEF vars
<1>2. CASE (\E d \in Data : Const(d)) \/ (\E x \in Names : Load(x) \/ Define(x) \/ Let(x) \/ Unset(x))
           \/ MakeFunction \/ Exit
  BY <1>2, <1>i, ScopesStay DEF Const, Load, Define, Let, Unset, MakeFunction, Exit, frameVars
<1>3. ASSUME NEW x \in Names, Construct(x) PROVE SInv'
  BY <1>3, <1>i, <1>s, ScopesNew DEF Construct
<1>4. ASSUME NEW slots \in Params, Call(slots) \/ EnterBody(slots) \/ EnterPlain(slots) PROVE SInv'
  BY <1>4, <1>s, <1>n DEF Call, EnterBody, EnterPlain
<1>5. ASSUME NEW exports \in SUBSET Names, Return(exports) PROVE SInv'
  <2>1. stack'[1] = stack[1]
    BY <1>5, <1>o DEF Return
  <2>2. PICK slots : Free(live, EnvRelease(Cur), parent, scope, slots)
    BY <1>5 DEF Return
  <2> QED BY <1>i, <2>1, <2>2, ScopesFree
<1>6. CASE Leave
  BY <1>6, <1>i, <1>o, ScopesFree DEF Leave
<1>7. ASSUME NEW x \in Names, With(x) PROVE SInv'
  <2> DEFINE e == serial + 1
             up == [parent EXCEPT ![e] = Cur]
             walk == [scope EXCEPT ![e] = {e} \cup scope[Cur]]
  <2>0. PICK slots : Free(live \cup {e}, EnvRelease(e), up, walk, slots)
    BY <1>7 DEF With
  <2>1. /\ e \in Serial /\ e \in Nat /\ e > 1 /\ e \notin live /\ serial' = e /\ stack' = stack
        /\ \A f \in live : f \in Nat /\ f < e /\ f \in Serial /\ f # e /\ f >= 1
    BY <1>7, <1>i, LiveSerial, Constants DEF TypeOK, Serial, With
  <2>2. EnvRelease(e) \in {{}, {e}}
    BY DEF EnvRelease
  <2>3. /\ up[e] = Cur /\ walk[e] = {e} \cup scope[Cur]
        /\ \A f \in live : up[f] = parent[f] /\ walk[f] = scope[f]
    BY <1>i, <2>1 DEF TypeOK
  <2>4. Parents /\ Marked /\ Root
    BY DEF SInv
  <2> HIDE DEF up, walk, e
  <2>5. CASE EnvRelease(e) = {}
    <3>1. /\ live' = live \cup {e} /\ rebind' = rebind
          /\ \A f \in live' : f \in Serial /\ parent'[f] = up[f] /\ scope'[f] = walk[f]
      BY <2>0, <2>1, <2>5 DEF Free
    <3>2. Parents'
      <4> SUFFICES ASSUME NEW f \in live'
                   PROVE  /\ parent'[f] \in live' \cup {0} /\ parent'[f] < f
                          /\ parent'[f] = 0 => f = 1 /\ scope'[f] = {f}
                          /\ parent'[f] # 0 => scope'[f] = {f} \cup scope'[parent'[f]]
        BY DEF Parents
      <4>1. CASE f = e
        BY <1>s, <2>1, <2>3, <3>1, <4>1
      <4>2. CASE f \in live
        BY <2>3, <2>4, <3>1, <4>2 DEF Parents
      <4> QED BY <3>1, <4>1, <4>2
    <3> QED BY <1>i, <2>1, <2>4, <3>1, <3>2 DEF SInv, Marked, Root
  <2>6. CASE EnvRelease(e) = {e}
    <3>1. /\ live' = live /\ rebind' \subseteq rebind
          /\ \A f \in live : parent'[f] = parent[f] /\ scope'[f] = scope[f]
      BY <2>0, <2>1, <2>3, <2>6 DEF Free
    <3>2. Parents'
      BY <2>4, <3>1 DEF Parents
    <3> QED BY <1>i, <2>1, <2>4, <3>1, <3>2 DEF SInv, Marked, Root
  <2> QED BY <2>2, <2>5, <2>6
<1>8. CASE EnterTry
  <2> DEFINE a == [kind |-> "try", env |-> Cur, saved |-> serial, prev |-> tryTop]
  <2>0. Cur \in Serial
    BY <1>i, CurType
  <2>1. a \in Activation
    BY <2>0, <1>i, Constants DEF Activation, Kinds, TypeOK, Serial
  <2>2. stack' = Append(stack, a)
    BY <1>8 DEF EnterTry
  <2> HIDE DEF a
  <2>3. stack'[1] = stack[1]
    BY <1>p, <2>1, <2>2
  <2> QED BY <1>8, <1>i, <2>3, ScopesStay DEF EnterTry, frameVars
<1>9. CASE LeaveTry
  BY <1>9, <1>i, <1>o, ScopesStay DEF LeaveTry, frameVars
<1>10. CASE Catch
  <2>1. tryTop \in 1..Len(stack) /\ tryTop # 1
    BY <1>10, <1>i DEF Catch, IInv, TypeOK, TryTarget
  <2>2. tryTop - 1 \in 1..Len(stack)
    BY <2>1
  <2>3. stack'[1] = stack[1]
    BY <1>10, <1>c, <2>2 DEF Catch
  <2> QED BY <1>10, <1>i, <2>3, ScopesFree DEF Catch
<1> QED
  BY <1>1, <1>2, <1>3, <1>4, <1>5, <1>6, <1>7, <1>8, <1>9, <1>10 DEF Next, Step

-----------------------------------------------------------------------------
(* Lookups                                                                 *)

\* A set of numbers has a least one.
LEMMA Least ==
    ASSUME NEW T \in SUBSET Nat, T # {}
    PROVE  \E m \in T : \A n \in T : m <= n
<1>1. PICK m \in T : \A n \in T : ~(<<n, m>> \in OpToRel(<, Nat))
  BY NatLessThanWellFounded, WFMin
<1>2. \A n \in T : n \in Nat /\ m \in Nat
  OBVIOUS
<1>3. \A n \in T : ~(n < m)
  BY <1>1, <1>2 DEF OpToRel
<1> QED BY <1>3

\* What a frame does not bind itself it binds as its parent does.
LEMMA BindsAsParent ==
    ASSUME SInv, NEW f \in live, NEW x \in Names
    PROVE  /\ vals[f][x] # Unbound => Nearest(f, x) = {f}
           /\ vals[f][x] = Unbound /\ parent[f] = 0 => Binders(f, x) = {}
           /\ vals[f][x] = Unbound /\ parent[f] # 0 =>
                /\ parent[f] \in live /\ parent[f] < f
                /\ Binders(f, x) = Binders(parent[f], x) /\ Nearest(f, x) = Nearest(parent[f], x)
<1>1. /\ Chains /\ Parents /\ TypeOK
  BY DEF SInv, IInv
<1>2. f \in scope[f] /\ \A g \in scope[f] : g <= f /\ g \in Nat /\ f \in Nat
  BY <1>1, LiveSerial DEF Chains
<1>3. ASSUME vals[f][x] # Unbound PROVE Nearest(f, x) = {f}
  <2>1. f \in Binders(f, x) /\ \A g \in Binders(f, x) : g <= f /\ g \in Nat /\ f \in Nat
    BY <1>2, <1>3 DEF Binders
  <2>2. f \in Nearest(f, x)
    BY <2>1 DEF Nearest
  <2>3. \A g \in Nearest(f, x) : g \in Binders(f, x) /\ f <= g
    BY <2>1 DEF Nearest
  <2>4. \A g \in Nearest(f, x) : g = f
    BY <2>1, <2>3
  <2> QED BY <2>2, <2>4
<1>4. ASSUME vals[f][x] = Unbound, parent[f] = 0 PROVE Binders(f, x) = {}
  BY <1>1, <1>4 DEF Parents, Binders
<1>5. ASSUME vals[f][x] = Unbound, parent[f] # 0
      PROVE  /\ parent[f] \in live /\ parent[f] < f
             /\ Binders(f, x) = Binders(parent[f], x) /\ Nearest(f, x) = Nearest(parent[f], x)
  <2>1. parent[f] \in live /\ parent[f] < f /\ scope[f] = {f} \cup scope[parent[f]]
    BY <1>1, <1>5 DEF Parents
  <2>2. Binders(f, x) = Binders(parent[f], x)
    BY <1>5, <2>1 DEF Binders
  <2> QED BY <2>1, <2>2 DEF Nearest
<1> QED BY <1>3, <1>4, <1>5

\* A name that is bound at all has one nearest binding.
LEMMA OneNearest ==
    ASSUME SInv, NEW f \in live, NEW x \in Names
    PROVE  Binders(f, x) = {} \/ \E g \in live : Nearest(f, x) = {g} /\ g \in Binders(f, x)
<1> DEFINE Fine(h) == Binders(h, x) = {} \/ \E g \in live : Nearest(h, x) = {g} /\ g \in Binders(h, x)
           T == {h \in live : ~Fine(h)}
<1>1. live \subseteq Nat
  BY LiveSerial DEF SInv, IInv
<1>2. SUFFICES ASSUME T # {} PROVE FALSE
  OBVIOUS
<1>3. PICK h \in T : \A k \in T : h <= k
  <2> HIDE DEF Fine
  <2>1. T \in SUBSET Nat
    BY <1>1
  <2> HIDE DEF T
  <2> QED BY <1>2, <2>1, Least
<1>4. h \in live /\ ~Fine(h)
  OBVIOUS
<1>5. vals[h][x] = Unbound
  BY <1>4, BindsAsParent DEF Nearest
<1>6. parent[h] # 0
  BY <1>4, <1>5, BindsAsParent
<1>7. /\ parent[h] \in live /\ parent[h] < h
      /\ Binders(h, x) = Binders(parent[h], x) /\ Nearest(h, x) = Nearest(parent[h], x)
  BY <1>4, <1>5, <1>6, BindsAsParent
<1>8. ~Fine(parent[h])
  BY <1>4, <1>7
<1>9. parent[h] \in T /\ parent[h] \in Nat /\ h \in Nat
  BY <1>1, <1>4, <1>7, <1>8
<1> HIDE DEF T
<1> QED BY <1>3, <1>7, <1>9

\* What the scope of an allocated frame is seen as.
LEMMA HeapIs ==
    ASSUME SInv
    PROVE  /\ DOMAIN heapBar = live /\ 0 \notin live /\ live \subseteq Nat
           /\ \A f \in live : /\ heapBar[f].parent = parent[f] /\ parent[f] \in live \cup {0}
                               /\ heapBar[f].slots = vals[f]
                               /\ heapBar[f].rebind = (f \in rebind)
<1>1. 0 \notin live /\ live \subseteq Nat
  BY LiveSerial DEF SInv, IInv
<1>2. \A f \in live : parent[f] \in live \cup {0}
  BY DEF SInv, Parents
<1>3. DOMAIN heapBar = live
  BY DEF heapBar
<1>4. \A f \in live : heapBar[f].parent = parent[f]
  BY DEF heapBar
<1>5. \A f \in live : heapBar[f].slots = vals[f]
  BY DEF heapBar
<1>6. \A f \in live : heapBar[f].rebind = (f \in rebind)
  BY DEF heapBar
<1> QED BY <1>1, <1>2, <1>3, <1>4, <1>5, <1>6

\* The binding that following the parents finds is the nearest one.
LEMMA BinderIs ==
    ASSUME SInv, NEW e \in live, NEW x \in Names
    PROVE  /\ Binders(e, x) = {} => Lang!Binder(e, x) = 0
           /\ Binders(e, x) # {} => /\ Lang!Binder(e, x) \in live
                                    /\ Nearest(e, x) = {Lang!Binder(e, x)}
<1> DEFINE D == DOMAIN heapBar \cup {0}
           Here(f) == f = 0 \/ heapBar[f].slots[x] # Unbound
           Found(f) == IF f = 0 \/ Binders(f, x) = {} THEN 0
                       ELSE CHOOSE g \in live : Nearest(f, x) = {g}
           walked == [f \in D |-> Found(f)]
           w == CHOOSE w : w = [f \in D |-> IF Here(f) THEN f ELSE w[heapBar[f].parent]]
<1>0. /\ 0 \notin live /\ D = live \cup {0} /\ live \subseteq Nat
      /\ \A f \in live : heapBar[f].parent = parent[f] /\ parent[f] \in live \cup {0}
      /\ Here(0) /\ \A f \in live : Here(f) <=> vals[f][x] # Unbound
      /\ Found(0) = 0
  BY HeapIs
<1>1. Lang!Binder(e, x) = w[e]
  BY DEF Lang!Binder, Lang!NoParent
<1>2. \A f \in live : vals[f][x] # Unbound => Found(f) = f
  <2> TAKE f \in live
  <2> HAVE vals[f][x] # Unbound
  <2>1. Nearest(f, x) = {f} /\ f # 0
    BY <1>0, BindsAsParent
  <2>2. Binders(f, x) # {}
    BY <2>1 DEF Nearest
  <2>3. \A g \in live : Nearest(f, x) = {g} => g = f
    BY <2>1
  <2>4. (CHOOSE g \in live : Nearest(f, x) = {g}) = f
    BY <2>1, <2>3
  <2> QED BY <2>1, <2>2, <2>4
<1>3. \A f \in live : vals[f][x] = Unbound => Found(f) = Found(parent[f])
  <2> TAKE f \in live
  <2> HAVE vals[f][x] = Unbound
  <2>1. CASE parent[f] = 0
    BY <2>1, BindsAsParent
  <2>2. CASE parent[f] # 0
    <3>1. Binders(f, x) = Binders(parent[f], x) /\ Nearest(f, x) = Nearest(parent[f], x)
      BY <2>2, BindsAsParent
    <3> QED BY <1>0, <2>2, <3>1
  <2> QED BY <2>1, <2>2
<1>4. walked = [f \in D |-> IF Here(f) THEN f ELSE walked[heapBar[f].parent]]
  <2> HIDE DEF Found, Here, D
  <2>1. \A f \in D : Found(f) = IF Here(f) THEN f ELSE walked[heapBar[f].parent]
    <3> TAKE f \in D
    <3>1. CASE f = 0
      BY <1>0, <3>1
    <3>2. CASE f \in live /\ vals[f][x] # Unbound
      BY <1>0, <1>2, <3>2
    <3>3. CASE f \in live /\ vals[f][x] = Unbound
      <4>1. ~Here(f) /\ heapBar[f].parent = parent[f] /\ parent[f] \in D
        BY <1>0, <3>3
      <4> QED BY <1>3, <3>3, <4>1
    <3> QED BY <1>0, <3>1, <3>2, <3>3
  <2> QED BY <2>1
<1>5. \A f \in D : w[f] = IF Here(f) THEN f ELSE w[heapBar[f].parent]
  <2> HIDE DEF walked, Here, D
  <2>1. \E v : v = [f \in D |-> IF Here(f) THEN f ELSE v[heapBar[f].parent]]
    BY <1>4
  <2>2. w = [f \in D |-> IF Here(f) THEN f ELSE w[heapBar[f].parent]]
    BY <2>1
  <2> DEFINE F(f) == IF Here(f) THEN f ELSE w[heapBar[f].parent]
  <2>3. w = [f \in D |-> F(f)]
    BY <2>2
  <2> HIDE DEF F, w
  <2>4. \A f \in D : w[f] = F(f)
    BY <2>3
  <2> QED BY <2>4 DEF F
<1> HIDE DEF w, Found, Here, D
<1>6. \A f \in live : w[f] = Found(f)
  <2> DEFINE T == {f \in live : w[f] # Found(f)}
  <2>1. SUFFICES ASSUME T # {} PROVE FALSE
    OBVIOUS
  <2>2. PICK h \in T : \A k \in T : h <= k
    <3>1. T \in SUBSET Nat
      BY <1>0
    <3> HIDE DEF T
    <3> QED BY <2>1, <3>1, Least
  <2>3. h \in live /\ w[h] # Found(h) /\ h \in D /\ h # 0
    BY <1>0
  <2>4. vals[h][x] = Unbound
    BY <1>0, <1>2, <1>5, <2>3
  <2>5. w[h] = w[parent[h]] /\ Found(h) = Found(parent[h])
    BY <1>0, <1>3, <1>5, <2>3, <2>4
  <2>6. CASE parent[h] = 0
    <3>1. w[0] = 0
      BY <1>0, <1>5
    <3> QED BY <1>0, <2>3, <2>5, <2>6, <3>1
  <2>7. CASE parent[h] # 0
    <3>1. parent[h] \in live /\ parent[h] < h
      BY <2>3, <2>4, <2>7, BindsAsParent
    <3>2. parent[h] \in T /\ parent[h] \in Nat /\ h \in Nat
      BY <1>0, <2>3, <2>5, <3>1
    <3> HIDE DEF T
    <3> QED BY <2>2, <3>1, <3>2
  <2> QED BY <2>6, <2>7
<1>7. CASE Binders(e, x) = {}
  BY <1>1, <1>6, <1>7 DEF Found
<1>8. CASE Binders(e, x) # {}
  <2>1. PICK g \in live : Nearest(e, x) = {g}
    BY <1>8, OneNearest
  <2>2. e # 0
    BY <1>0
  <2>3. Found(e) = g
    BY <1>8, <2>1, <2>2 DEF Found
  <2>4. Lang!Binder(e, x) = g
    BY <1>1, <1>6, <2>3
  <2> QED BY <1>8, <2>1, <2>4
<1> QED BY <1>7, <1>8

\* Assignments write where the language says.
LEMMA AssignIs ==
    ASSUME SInv, NEW e \in live, NEW x \in Names
    PROVE  /\ Lang!Bound(e, x) <=> Binders(e, x) # {}
           /\ Lang!AssignScope(e, x) \in live
           /\ SetTargets(e, x) = {Lang!AssignScope(e, x)}
<1>1. 0 \notin live
  BY LiveSerial DEF SInv, IInv
<1>2. CASE Binders(e, x) = {}
  BY <1>1, <1>2, BinderIs DEF Lang!Bound, Lang!AssignScope, Lang!NoParent, SetTargets
<1>3. CASE Binders(e, x) # {}
  BY <1>1, <1>3, BinderIs DEF Lang!Bound, Lang!AssignScope, Lang!NoParent, SetTargets
<1> QED BY <1>2, <1>3

\* So do labels, in action bodies and elsewhere.
LEMMA LabelIs ==
    ASSUME SInv, NEW e \in live, NEW x \in Names
    PROVE  /\ Lang!LabelScope(e, x) \in live
           /\ DefineTargets(e, x) = {Lang!LabelScope(e, x)}
<1>1. /\ heapBar[e].rebind <=> e \in rebind
      /\ heapBar[e].parent = parent[e] /\ parent[e] \in live \cup {0} /\ 0 \notin live
      /\ e \in rebind => parent[e] # 0
  BY HeapIs DEF SInv, Parents, Marked
<1>2. CASE e \in rebind
  <2>1. parent[e] \in live /\ parent[e] # 0
    BY <1>1, <1>2
  <2> QED BY <1>1, <1>2, <2>1, AssignIs DEF Lang!LabelScope, DefineTargets
<1>3. CASE e \notin rebind
  BY <1>1, <1>3 DEF Lang!LabelScope, DefineTargets
<1> QED BY <1>2, <1>3

-----------------------------------------------------------------------------
(* The steps of the language                                               *)

\* What is still allocated after a step is what the language made, and nothing
\* refers to what is not.
LEMMA BecomesBar ==
    ASSUME SInv, SInv', NEW h, live' \subseteq DOMAIN h, \A f \in live' : h[f] = heapBar'[f]
    PROVE  Lang!Becomes(h)
<1> DEFINE keep == live'
<1>1. /\ DOMAIN heapBar' = live' /\ heapBar' = [f \in live' |-> heapBar'[f]]
      /\ \A f \in live' : heapBar'[f].parent = parent'[f] /\ heapBar'[f].slots = vals'[f]
      /\ \A f \in live' : parent'[f] \in live' \cup {0}
  <2>1. DOMAIN heapBar' = live' /\ heapBar' = [f \in live' |-> heapBar'[f]]
    BY DEF heapBar
  <2>2. \A f \in live' : heapBar'[f].parent = parent'[f]
    BY DEF heapBar
  <2>3. \A f \in live' : heapBar'[f].slots = vals'[f]
    BY DEF heapBar
  <2>4. \A f \in live' : parent'[f] \in live' \cup {0}
    BY DEF SInv, Parents
  <2> QED BY <2>1, <2>2, <2>3, <2>4
<1>2. /\ \A i \in 1..Len(stack') : stack'[i].env \in live'
      /\ acc' \in Serial => acc' \in live'
      /\ \A f \in live', x \in Names : vals'[f][x] \in Serial => vals'[f][x] \in live'
  BY DEF SInv, IInv, StackOrder, CapturedClosed, FunctionsCaptured
<1>3. heapBar' = [f \in keep |-> h[f]]
  BY <1>1
<1>4. Lang!Roots' \subseteq keep
  <2>1. \A i \in 1..Len(actsBar') : actsBar'[i].env \in live'
    <3>1. /\ Len(stack') \in Nat
          /\ actsBar' = [i \in 1..Len(stack') |-> [kind |-> stack'[i].kind, env |-> stack'[i].env]]
      BY DEF actsBar, SInv, IInv, TypeOK
    <3>2. Len(actsBar') = Len(stack')
      BY <3>1
    <3> QED BY <1>2, <3>1, <3>2
  <2> QED BY <1>2, <2>1 DEF Lang!Roots
<1>5. Lang!Closed(h, keep)
  BY <1>1, <1>2 DEF Lang!Closed, Lang!NoParent
<1> QED BY <1>3, <1>4, <1>5 DEF Lang!Becomes

\* The activations of the language are those of the C stack.
Acts(s) == [i \in 1..Len(s) |-> [kind |-> s[i].kind, env |-> s[i].env]]

Act == [kind : Kinds, env : Serial]

\* Each activation of the language is one of the C stack.
LEMMA ActsAre ==
    ASSUME NEW s \in Seq(Activation)
    PROVE  /\ Acts(s) \in Seq(Act) /\ Len(Acts(s)) = Len(s)
           /\ \A i \in 1..Len(s) : Acts(s)[i] = [kind |-> s[i].kind, env |-> s[i].env]
           /\ \A i \in 1..Len(s) : Acts(s)[i].kind = s[i].kind /\ Acts(s)[i].env = s[i].env
<1>0. \A i \in 1..Len(s) : s[i].kind \in Kinds /\ s[i].env \in Serial
  <2>1. \A a \in Activation : a.kind \in Kinds /\ a.env \in Serial
    BY DEF Activation
  <2>2. \A i \in 1..Len(s) : s[i] \in Activation
    OBVIOUS
  <2> QED BY <2>1, <2>2
<1>1. \A i \in 1..Len(s) : [kind |-> s[i].kind, env |-> s[i].env] \in Act
  BY <1>0 DEF Act
<1> DEFINE n == Len(s)
<1>2. Acts(s) \in [1..n -> Act] /\ n \in Nat
  BY <1>1 DEF Acts
<1> HIDE DEF n
<1>3. Acts(s) \in Seq(Act)
  BY <1>2
<1>4. Len(Acts(s)) = n
  BY <1>2, <1>3
<1> QED BY <1>3, <1>4 DEF Acts, n

\* A pushed sequence, as a function.
LEMMA AppendIs ==
    ASSUME NEW S, NEW s \in Seq(S), NEW b \in S
    PROVE  Append(s, b) = [i \in 1..(Len(s) + 1) |-> IF i = Len(s) + 1 THEN b ELSE s[i]]
<1> DEFINE r == Append(s, b)
           n == Len(s)
<1>1. /\ r \in Seq(S) /\ Len(r) = n + 1 /\ n \in Nat
      /\ \A i \in 1..n : r[i] = s[i]
      /\ r[n + 1] = b
  OBVIOUS
<1> HIDE DEF r, n
<1>2. r = [i \in 1..(n + 1) |-> r[i]]
  BY <1>1
<1>3. \A i \in 1..(n + 1) : r[i] = IF i = n + 1 THEN b ELSE s[i]
  BY <1>1
<1>4. r = [i \in 1..(n + 1) |-> IF i = n + 1 THEN b ELSE s[i]]
  BY <1>2, <1>3
<1> QED BY <1>4 DEF r, n

\* To enter on one is to enter on the other.
LEMMA ActsPush ==
    ASSUME NEW s \in Seq(Activation), NEW a \in Activation
    PROVE  Acts(Append(s, a)) = Append(Acts(s), [kind |-> a.kind, env |-> a.env])
<1> DEFINE b == [kind |-> a.kind, env |-> a.env]
           n == Len(s)
           t == Acts(s)
<1>1. /\ t \in Seq(Act) /\ Len(t) = n /\ n \in Nat
      /\ \A i \in 1..n : t[i] = [kind |-> s[i].kind, env |-> s[i].env]
  BY ActsAre
<1>2. /\ Len(Append(s, a)) = n + 1
      /\ \A i \in 1..n : Append(s, a)[i] = s[i]
      /\ Append(s, a)[n + 1] = a
  BY PushStack
<1>3. b \in Act
  BY DEF Act, Activation
<1>4. Acts(Append(s, a)) = [i \in 1..(n + 1) |->
                              [kind |-> Append(s, a)[i].kind, env |-> Append(s, a)[i].env]]
  BY <1>2 DEF Acts
<1>5. \A i \in 1..(n + 1) : [kind |-> Append(s, a)[i].kind, env |-> Append(s, a)[i].env]
                               = IF i = n + 1 THEN b ELSE t[i]
  BY <1>1, <1>2
<1> HIDE DEF b, n, t
<1>6. Append(t, b) = [i \in 1..(n + 1) |-> IF i = n + 1 THEN b ELSE t[i]]
  BY <1>1, <1>3, AppendIs
<1>7. Acts(Append(s, a)) = Append(t, b)
  BY <1>4, <1>5, <1>6
<1> QED BY <1>7 DEF b, t

\* To end some on one is to end them on the other.
LEMMA ActsCut ==
    ASSUME NEW s \in Seq(Activation), NEW k \in 0..Len(s)
    PROVE  Acts(SubSeq(s, 1, k)) = SubSeq(Acts(s), 1, k)
<1>1. /\ Acts(s) \in Seq(Act) /\ Len(Acts(s)) = Len(s)
      /\ \A i \in 1..Len(s) : Acts(s)[i] = [kind |-> s[i].kind, env |-> s[i].env]
  BY ActsAre
<1>2. Len(SubSeq(s, 1, k)) = k /\ \A i \in 1..k : SubSeq(s, 1, k)[i] = s[i]
  BY CutStack
<1>3. SubSeq(Acts(s), 1, k) = [i \in 1..k |-> Acts(s)[i]]
  BY <1>1
<1> QED BY <1>1, <1>2, <1>3 DEF Acts

\* The current scope, and the activations that are seen.
LEMMA CurIs ==
    ASSUME SInv
    PROVE  /\ stack \in Seq(Activation) /\ Len(stack) \in Nat /\ Len(stack) >= 1
           /\ actsBar = Acts(stack) /\ Len(actsBar) = Len(stack)
           /\ Lang!Cur = Cur /\ Cur \in live /\ live \subseteq Serial
           /\ \A i \in 1..Len(stack) : actsBar[i].kind = stack[i].kind
<1>1. /\ stack \in Seq(Activation) /\ Len(stack) \in Nat /\ Len(stack) >= 1
      /\ Cur \in live /\ live \subseteq Serial
  BY CallableCaptured, LiveSerial DEF SInv, IInv, TypeOK
<1>2. actsBar = Acts(stack)
  BY DEF actsBar, Acts
<1>3. Len(stack) \in 1..Len(stack)
  BY <1>1
<1>4. /\ Len(Acts(stack)) = Len(stack)
      /\ \A i \in 1..Len(stack) : Acts(stack)[i].kind = stack[i].kind /\ Acts(stack)[i].env = stack[i].env
  BY <1>1, ActsAre
<1>5. Lang!Cur = Cur
  BY <1>2, <1>3, <1>4 DEF Lang!Cur, Cur
<1> QED BY <1>1, <1>2, <1>4, <1>5

\* A write to one slot of an allocated frame, seen in the language.
LEMMA PutIs ==
    ASSUME SInv, NEW f \in live, NEW x \in Names, NEW v, Write(f, x, v),
           UNCHANGED <<live, parent, rebind>>, SInv'
    PROVE  Lang!Becomes(Lang!Put(heapBar, f, x, v))
<1>1. /\ DOMAIN heapBar = live /\ vals \in [Serial -> Slots] /\ live \subseteq Serial
      /\ \A g \in live : heapBar[g] = [parent |-> parent[g], rebind |-> g \in rebind, slots |-> vals[g]]
  BY LiveSerial DEF SInv, IInv, TypeOK, heapBar
<1> DEFINE h == Lang!Put(heapBar, f, x, v)
<1>2. h = [heapBar EXCEPT ![f].slots[x] = v]
  BY DEF Lang!Put
<1>3. DOMAIN h = live
  BY <1>1, <1>2
<1>4. ASSUME NEW g \in live PROVE h[g] = heapBar'[g]
  <2>1. heapBar'[g] = [parent |-> parent[g], rebind |-> g \in rebind, slots |-> vals'[g]]
    BY <1>4 DEF heapBar
  <2>2. CASE g # f
    <3>1. h[g] = heapBar[g]
      BY <1>1, <1>2, <2>2
    <3>2. vals'[g] = vals[g]
      BY <1>1, <2>2 DEF Write
    <3> QED BY <1>1, <2>1, <3>1, <3>2
  <2>3. CASE g = f
    <3>1. h[f] = [heapBar[f] EXCEPT !.slots[x] = v]
      BY <1>1, <1>2
    <3>2. vals'[f] = [vals[f] EXCEPT ![x] = v]
      BY <1>1 DEF Write
    <3>3. heapBar[f] = [parent |-> parent[f], rebind |-> f \in rebind, slots |-> vals[f]]
      BY <1>1
    <3>4. h[f] = [parent |-> parent[f], rebind |-> f \in rebind, slots |-> [vals[f] EXCEPT ![x] = v]]
      <4> DEFINE s == vals[f]
                 b == f \in rebind
                 q == parent[f]
      <4>1. heapBar[f] = [parent |-> q, rebind |-> b, slots |-> s]
        BY <3>3
      <4> HIDE DEF s, b, q
      <4>2. h[f] = [parent |-> q, rebind |-> b, slots |-> [s EXCEPT ![x] = v]]
        BY <3>1, <4>1
      <4> QED BY <4>2 DEF s, b, q
    <3> QED BY <2>1, <2>3, <3>2, <3>4
  <2> QED BY <2>2, <2>3
<1> HIDE DEF h
<1>5. Lang!Becomes(h)
  BY <1>3, <1>4, BecomesBar
<1> QED BY <1>5 DEF h

\* A scope as the language sees it, field by field.
LEMMA ScopeIs ==
    ASSUME NEW f \in live, NEW p, NEW b, NEW s,
           parent[f] = p, (f \in rebind) = b, vals[f] = s
    PROVE  heapBar[f] = [parent |-> p, rebind |-> b, slots |-> s]
<1>1. heapBar[f] = [parent |-> parent[f], rebind |-> f \in rebind, slots |-> vals[f]]
  BY DEF heapBar
<1> QED BY <1>1, Zenon

\* The same after a step.
LEMMA ScopeIsNext ==
    ASSUME NEW f \in live', NEW p, NEW b, NEW s,
           parent'[f] = p, (f \in rebind') = b, vals'[f] = s
    PROVE  heapBar'[f] = [parent |-> p, rebind |-> b, slots |-> s]
<1>1. heapBar'[f] = [parent |-> parent'[f], rebind |-> f \in rebind', slots |-> vals'[f]]
  BY DEF heapBar
<1> QED BY <1>1, Zenon

\* A step that touches no frame, or only frees some.
LEMMA KeepIs ==
    ASSUME SInv, SInv', live' \subseteq live,
           \A f \in live' : parent'[f] = parent[f] /\ vals'[f] = vals[f]
                            /\ (f \in rebind' <=> f \in rebind)
    PROVE  Lang!Becomes(heapBar)
<1>1. ASSUME NEW f \in live' PROVE heapBar[f] = heapBar'[f]
  <2> DEFINE b == f \in rebind
  <2>1. f \in live /\ (f \in rebind') = b /\ (f \in rebind) = b
    BY <1>1
  <2>2. parent'[f] = parent[f] /\ vals'[f] = vals[f]
    BY <1>1
  <2> HIDE DEF b
  <2>3. heapBar[f] = [parent |-> parent[f], rebind |-> b, slots |-> vals[f]]
    BY <2>1, ScopeIs
  <2>4. heapBar'[f] = [parent |-> parent[f], rebind |-> b, slots |-> vals[f]]
    BY <2>1, <2>2, ScopeIsNext
  <2> QED BY <2>3, <2>4
<1>2. DOMAIN heapBar = live
  BY DEF heapBar
<1> QED BY <1>1, <1>2, BecomesBar

\* Freeing is forgetting.
LEMMA FreeIs ==
    ASSUME SInv, SInv', NEW F, Free(live, F, parent, scope, vals)
    PROVE  Lang!Becomes(heapBar)
<1>1. live' = live \ F /\ rebind' = rebind \ F /\ live \subseteq Serial
  BY LiveSerial DEF Free, SInv, IInv
<1>2. \A f \in live' : parent'[f] = parent[f] /\ vals'[f] = vals[f]
                       /\ (f \in rebind' <=> f \in rebind)
  BY <1>1 DEF Free
<1> QED BY <1>1, <1>2, KeepIs

\* env_new makes a scope under a name that was free.
LEMMA NewIs ==
    ASSUME SInv, SInv', NEW p \in live, NEW slots, NEW r \in BOOLEAN, EnvNew(p, slots, r)
    PROVE  /\ serial + 1 \in Serial \ DOMAIN heapBar
           /\ Lang!Becomes(Lang!WithScope(heapBar, serial + 1, p, slots, r))
<1> DEFINE e == serial + 1
           h == Lang!WithScope(heapBar, e, p, slots, r)
<1>1. TypeOK /\ Marked /\ DOMAIN heapBar = live /\ live \subseteq Serial
  BY LiveSerial, HeapIs DEF SInv, IInv
<1>2. e \in Serial /\ e \notin live /\ e \notin rebind /\ \A f \in live : f # e
  BY <1>1, Constants DEF EnvNew, TypeOK, Serial, Marked
<1>3. /\ live' = live \cup {e} /\ parent'[e] = p /\ vals'[e] = slots
      /\ \A f \in live : parent'[f] = parent[f] /\ vals'[f] = vals[f]
  BY <1>1, <1>2 DEF EnvNew, TypeOK
<1>4. rebind' = IF r THEN rebind \cup {e} ELSE rebind
  BY DEF EnvNew
<1>5. h = [f \in live \cup {e} |-> IF f = e THEN [parent |-> p, rebind |-> r, slots |-> slots]
                                            ELSE heapBar[f]]
  BY <1>1 DEF Lang!WithScope
<1> HIDE DEF h, e
<1>6. ASSUME NEW f \in live' PROVE h[f] = heapBar'[f]
  <2>1. CASE f = e
    <3>1. (f \in rebind') = r
      BY <1>2, <1>4, <2>1
    <3>2. heapBar'[f] = [parent |-> p, rebind |-> r, slots |-> slots]
      BY <1>3, <2>1, <3>1, ScopeIsNext
    <3> QED BY <1>5, <2>1, <3>2
  <2>2. CASE f \in live
    <3> DEFINE b == f \in rebind
    <3>1. (f \in rebind') = b /\ (f \in rebind) = b
      BY <1>2, <1>4, <2>2
    <3>2. parent'[f] = parent[f] /\ vals'[f] = vals[f] /\ f # e
      BY <1>2, <1>3, <2>2
    <3> HIDE DEF b
    <3>3. heapBar[f] = [parent |-> parent[f], rebind |-> b, slots |-> vals[f]]
      BY <2>2, <3>1, ScopeIs
    <3>4. heapBar'[f] = [parent |-> parent[f], rebind |-> b, slots |-> vals[f]]
      BY <3>1, <3>2, ScopeIsNext
    <3> QED BY <1>5, <2>2, <3>2, <3>3, <3>4
  <2> QED BY <1>3, <2>1, <2>2
<1>7. DOMAIN h = live \cup {e}
  BY <1>5
<1>8. Lang!Becomes(h)
  BY <1>3, <1>6, <1>7, BecomesBar
<1> QED BY <1>1, <1>2, <1>8 DEF h, e

\* The stack under a push and under a cut.
LEMMA PushIs ==
    ASSUME SInv, NEW a \in Activation, stack' = Append(stack, a)
    PROVE  actsBar' = Append(actsBar, [kind |-> a.kind, env |-> a.env])
<1>1. stack \in Seq(Activation) /\ actsBar = Acts(stack)
  BY CurIs
<1>2. actsBar' = Acts(stack')
  BY DEF actsBar, Acts
<1> QED BY <1>1, <1>2, ActsPush

\* See above.
LEMMA CutIs ==
    ASSUME SInv, NEW k \in 0..Len(stack), stack' = SubSeq(stack, 1, k)
    PROVE  actsBar' = SubSeq(actsBar, 1, k)
<1>1. stack \in Seq(Activation) /\ actsBar = Acts(stack)
  BY CurIs
<1>2. actsBar' = Acts(stack')
  BY DEF actsBar, Acts
<1> QED BY <1>1, <1>2, ActsCut

\* The functions the running code can name.
LEMMA CallableIs == SInv => Lang!Callable(Lang!Cur) = Callable(Cur) /\ Callable(Cur) \subseteq live
<1> SUFFICES ASSUME SInv
             PROVE  Lang!Callable(Lang!Cur) = Callable(Cur) /\ Callable(Cur) \subseteq live
  OBVIOUS
<1>1. Lang!Cur = Cur /\ Cur \in live
  BY CurIs
<1>2. Callable(Cur) \subseteq live
  BY CallableCaptured DEF SInv
<1>3. ASSUME NEW f, NEW x \in Names
      PROVE  (Lang!Bound(Cur, x) /\ heapBar[Lang!Binder(Cur, x)].slots[x] = f)
               <=> (\E g \in scope[Cur] : g \in Nearest(Cur, x) /\ vals[g][x] = f)
  <2>1. CASE Binders(Cur, x) = {}
    BY <1>1, <2>1, AssignIs DEF Nearest
  <2>2. CASE Binders(Cur, x) # {}
    <3>1. /\ Lang!Bound(Cur, x) /\ Nearest(Cur, x) = {Lang!Binder(Cur, x)}
          /\ Lang!Binder(Cur, x) \in live
      BY <1>1, <2>2, AssignIs, BinderIs
    <3>2. heapBar[Lang!Binder(Cur, x)].slots = vals[Lang!Binder(Cur, x)]
      BY <3>1, HeapIs
    <3>3. \A g \in Nearest(Cur, x) : g \in scope[Cur]
      BY DEF Nearest, Binders
    <3> QED BY <3>1, <3>2, <3>3
  <2> QED BY <2>1, <2>2
<1>4. Lang!Callable(Cur) = Callable(Cur)
  BY <1>3 DEF Lang!Callable, Callable
<1> QED BY <1>1, <1>2, <1>4

\* A push of a new frame is the language's Enter.
LEMMA EnterIs ==
    ASSUME SInv, SInv', NEW kind \in {"call", "body", "plain"}, NEW slots \in Params,
           NEW p \in live, kind = "call" => p \in Callable(Cur), kind # "call" => p = Cur,
           EnvNew(p, slots, kind = "body"), Push(kind, serial + 1), UNCHANGED <<acc, running>>
    PROVE  Lang!Enter
<1> DEFINE e == serial + 1
           a == [kind |-> kind, env |-> e, saved |-> 0, prev |-> 0]
<1>1. e \in Serial \ DOMAIN heapBar
      /\ Lang!Becomes(Lang!WithScope(heapBar, e, p, slots, kind = "body"))
  <2>1. (kind = "body") \in BOOLEAN
    OBVIOUS
  <2> QED BY <2>1, NewIs
<1>2. a \in Activation /\ stack' = Append(stack, a)
  BY <1>1 DEF Activation, Kinds, Push
<1>3. a.kind = kind /\ a.env = e
  OBVIOUS
<1> HIDE DEF a, e
<1>4. actsBar' = Append(actsBar, [kind |-> kind, env |-> e])
  <2>1. actsBar' = Append(actsBar, [kind |-> a.kind, env |-> a.env])
    BY <1>2, PushIs
  <2> QED BY <1>3, <2>1
<1>5. slots \in Lang!Params
  BY DEF Lang!Params, Lang!Empty, Params, Bind, Empty
<1>6. p \in IF kind = "call" THEN Lang!Callable(Lang!Cur) ELSE {Lang!Cur}
  BY CallableIs, CurIs
<1> QED BY <1>1, <1>4, <1>5, <1>6 DEF Lang!Enter

\* What is left of the stack by a pop.
LEMMA PopIs ==
    ASSUME SInv, Pop, stack[Len(stack)].kind # "top"
    PROVE  /\ actsBar' = SubSeq(actsBar, 1, Len(actsBar) - 1)
           /\ actsBar[Len(actsBar)].kind = stack[Len(stack)].kind
<1>1. /\ Len(stack) \in Nat /\ Len(stack) >= 1 /\ Len(actsBar) = Len(stack)
      /\ \A i \in 1..Len(stack) : actsBar[i].kind = stack[i].kind
  BY CurIs
<1>2. Len(stack) - 1 \in 0..Len(stack) /\ Len(stack) \in 1..Len(stack)
  BY <1>1
<1>3. actsBar' = SubSeq(actsBar, 1, Len(stack) - 1)
  BY <1>2, CutIs DEF Pop
<1> QED BY <1>1, <1>2, <1>3

\* Returning from a function exports to where the language says.
LEMMA ReturnIs ==
    ASSUME SInv, SInv', NEW exports \in SUBSET Names, Return(exports)
    PROVE  Lang!Return(exports)
<1> DEFINE child == Cur
           out   == parent[child]
           h     == [f \in live |-> [heapBar[f] EXCEPT !.slots = [x \in Names |->
                       IF x \in exports /\ Lang!AssignScope(out, x) = f THEN vals[child][x]
                                                                   ELSE vals[f][x]]]]
<1>1. /\ child \in live /\ Lang!Cur = child /\ stack[Len(stack)].kind = "call"
      /\ UNCHANGED <<acc, running>>
      /\ heapBar[child].parent = out /\ DOMAIN heapBar = live /\ live \subseteq Serial
      /\ \A f \in live : heapBar[f].slots = vals[f]
  BY CurIs, HeapIs DEF Return
<1>2. out \in live
  <2>1. Len(stack) \in Nat /\ Len(stack) >= 1 /\ stack[1].kind = "top" /\ stack[1].env = 1 
        /\ StackOrder /\ Parents /\ live \subseteq Nat
    BY CurIs, HeapIs DEF SInv, IInv, Root
  <2>2. Len(stack) # 1
    BY <1>1, <2>1
  <2>3. 1 \in 1..Len(stack) /\ Len(stack) \in 1..Len(stack) /\ 1 < Len(stack)
    <3> DEFINE n == Len(stack)
    <3>1. n \in Nat /\ n >= 1 /\ n # 1
      BY <2>1, <2>2
    <3> HIDE DEF n
    <3>2. 1 \in 1..n /\ n \in 1..n /\ 1 < n
      BY <3>1
    <3> QED BY <3>2 DEF n
  <2>4. stack[1].env < stack[Len(stack)].env
    <3>1. \A i, j \in 1..Len(stack) :
            i < j /\ stack[j].kind # "try" => stack[i].env < stack[j].env
      BY <2>1 DEF StackOrder
    <3>2. stack[Len(stack)].kind # "try"
      BY <1>1
    <3> QED BY <2>3, <3>1, <3>2
  <2>5. child # 1
    BY <1>1, <2>1, <2>4 DEF Cur
  <2> QED BY <1>1, <2>1, <2>5 DEF Parents
<1>3. PICK to \in [exports -> Serial] :
        /\ \A x \in exports : vals[child][x] # Unbound /\ to[x] \in SetTargets(out, x)
        /\ Free(live, EnvRelease(child), parent, scope,
                [f \in Serial |-> [x \in Names |->
                    IF x \in exports /\ to[x] = f THEN vals[child][x]
                                                  ELSE vals[f][x]]])
  BY DEF Return
<1>4. \A x \in exports : to[x] = Lang!AssignScope(out, x)
  BY <1>2, <1>3, AssignIs
<1>5. /\ live' = live \ EnvRelease(child) /\ rebind' = rebind \ EnvRelease(child)
      /\ \A f \in live' : parent'[f] = parent[f]
      /\ \A f \in live' : vals'[f] = [x \in Names |->
                              IF x \in exports /\ to[x] = f THEN vals[child][x] ELSE vals[f][x]]
  BY <1>1, <1>3 DEF Free
<1> HIDE DEF child, out
<1>6. ASSUME NEW f \in live' PROVE h[f] = heapBar'[f]
  <2> DEFINE b == f \in rebind
             s == [x \in Names |-> IF x \in exports /\ Lang!AssignScope(out, x) = f
                                   THEN vals[child][x] ELSE vals[f][x]]
             q == parent[f]
             v == vals[f]
  <2>1. f \in live /\ (f \in rebind') = b /\ (f \in rebind) = b
    BY <1>5
  <2>2. vals'[f] = s
    BY <1>4, <1>5
  <2>3. h[f] = [heapBar[f] EXCEPT !.slots = s]
    BY <2>1
  <2>4. parent'[f] = q /\ parent[f] = q /\ vals[f] = v
    BY <1>5
  <2> HIDE DEF b, s, h, q, v
  <2>5. heapBar[f] = [parent |-> q, rebind |-> b, slots |-> v]
    BY <2>1, <2>4, ScopeIs
  <2>6. heapBar'[f] = [parent |-> q, rebind |-> b, slots |-> s]
    BY <2>1, <2>2, <2>4, ScopeIsNext
  <2> QED BY <2>3, <2>5, <2>6
<1>7. Lang!Becomes(h)
  <2>1. DOMAIN h = live
    OBVIOUS
  <2> HIDE DEF h
  <2> QED BY <1>5, <1>6, <2>1, BecomesBar
<1>8. h = [f \in DOMAIN heapBar |->
             [heapBar[f] EXCEPT !.slots = [x \in Names |->
                IF x \in exports /\ Lang!AssignScope(out, x) = f THEN heapBar[child].slots[x]
                                                            ELSE heapBar[f].slots[x]]]]
  BY <1>1
<1>9. \A x \in exports : heapBar[child].slots[x] # Unbound
  BY <1>1, <1>3
<1>10. /\ actsBar' = SubSeq(actsBar, 1, Len(actsBar) - 1)
       /\ actsBar[Len(actsBar)].kind = "call"
  <2>1. Pop /\ stack[Len(stack)].kind # "top"
    BY <1>1 DEF Return
  <2> QED BY <1>1, <2>1, PopIs
<1> HIDE DEF h
<1>11. Lang!Becomes([f \in DOMAIN heapBar |->
             [heapBar[f] EXCEPT !.slots = [x \in Names |->
                IF x \in exports /\ Lang!AssignScope(out, x) = f THEN heapBar[child].slots[x]
                                                            ELSE heapBar[f].slots[x]]]])
  BY <1>7, <1>8
<1>12. out = heapBar[child].parent /\ child = Lang!Cur
  BY <1>1
<1> QED BY <1>1, <1>9, <1>10, <1>11, <1>12 DEF Lang!Return

\* The frame of `with` is over at once, unless nothing is freed at all.
LEMMA WithIs ==
    ASSUME SInv, SInv', NEW x \in Names, With(x)
    PROVE  Lang!With(x)
<1> DEFINE e == serial + 1
           new == [vals EXCEPT ![e] = Empty]
           to == IF Binders(Cur, x) = {} THEN {e} ELSE Nearest(Cur, x)
           g == Lang!WithScope(heapBar, e, Cur, Empty, FALSE)
           t == IF Lang!Bound(Cur, x) THEN Lang!Binder(Cur, x) ELSE e
           h == Lang!Put(g, t, x, acc)
<1>1. PICK f \in to : Free(live \cup {e}, EnvRelease(e), [parent EXCEPT ![e] = Cur],
                           [scope EXCEPT ![e] = {e} \cup scope[Cur]], [new EXCEPT ![f][x] = acc])
  BY DEF With
<1>2. /\ e \in Serial /\ e \notin live /\ e \notin rebind /\ serial' = e
      /\ UNCHANGED <<stack, running>> /\ acc' = Null
      /\ live \subseteq Serial /\ DOMAIN heapBar = live /\ Cur \in live /\ Lang!Cur = Cur
      /\ parent \in [Serial -> Serial \cup {0}] /\ vals \in [Serial -> Slots]
      /\ \A k \in live : k # e
  <2>1. TypeOK /\ Marked /\ live \subseteq Serial /\ DOMAIN heapBar = live
        /\ Cur \in live /\ Lang!Cur = Cur
    BY CurIs, HeapIs DEF SInv, IInv
  <2>2. /\ serial < MaxSerial /\ serial' = e
        /\ UNCHANGED <<stack, running>> /\ acc' = Null
    BY DEF With
  <2>3. e \in Serial /\ e \notin live /\ \A k \in live : k # e
    BY <2>1, <2>2, Constants DEF TypeOK, Serial
  <2>4. e \notin rebind
    BY <2>1, <2>3 DEF Marked
  <2> QED BY <2>1, <2>2, <2>3, <2>4 DEF TypeOK
<1>3. f = t /\ t \in live \cup {e}
  <2>1. CASE Binders(Cur, x) = {}
    BY <1>1, <1>2, <2>1, AssignIs
  <2>2. CASE Binders(Cur, x) # {}
    BY <1>1, <1>2, <2>2, AssignIs, BinderIs
  <2> QED BY <2>1, <2>2
<1> HIDE DEF t, to
<1>4. /\ EnvRelease(e) \in {{}, {e}}
      /\ live' = (live \cup {e}) \ EnvRelease(e) /\ rebind' = rebind \ EnvRelease(e)
      /\ \A k \in live' : /\ parent'[k] = IF k = e THEN Cur ELSE parent[k]
                          /\ vals'[k] = [new EXCEPT ![f][x] = acc][k]
  BY <1>1, <1>2 DEF Free, EnvRelease
<1> DEFINE sl(k) == IF k = e THEN Empty ELSE vals[k]
<1>5. \A k \in live \cup {e} : 
         [new EXCEPT ![f][x] = acc][k] = IF k = t THEN [sl(k) EXCEPT ![x] = acc] ELSE sl(k)
  <2>1. \A k \in Serial : new[k] = sl(k)
    BY <1>2
  <2>2. DOMAIN new = Serial
    BY <1>2
  <2> HIDE DEF new, sl
  <2> QED BY <1>2, <1>3, <2>1, <2>2
<1>6. g = [k \in live \cup {e} |-> IF k = e THEN [parent |-> Cur, rebind |-> FALSE, slots |-> Empty]
                                             ELSE heapBar[k]]
  BY <1>2 DEF Lang!WithScope
<1> HIDE DEF g, new
<1>7. h = [g EXCEPT ![t].slots[x] = acc]
  BY DEF Lang!Put
<1> HIDE DEF h
<1>8. DOMAIN h = live \cup {e}
  BY <1>6, <1>7
<1>9. ASSUME NEW k \in live' PROVE h[k] = heapBar'[k]
  <2> DEFINE q == IF k = e THEN Cur ELSE parent[k]
             s == sl(k)
             b == k \in rebind
             s2 == IF k = t THEN [s EXCEPT ![x] = acc] ELSE s
  <2>1. k \in live \cup {e}
    BY <1>4
  <2>2. (k \in rebind') = b /\ parent'[k] = q /\ vals'[k] = s2
    BY <1>4, <1>5, <2>1
  <2>3. g[k] = [parent |-> q, rebind |-> b, slots |-> s]
    <3>1. CASE k = e
      <4>1. b = FALSE /\ q = Cur /\ s = Empty
        BY <1>2, <3>1
      <4> HIDE DEF b, q, s
      <4> QED BY <1>6, <3>1, <4>1
    <3>2. CASE k # e
      <4>1. k \in live /\ q = parent[k] /\ s = vals[k] /\ (k \in rebind) = b
        BY <2>1, <3>2
      <4> HIDE DEF b, q, s
      <4>2. heapBar[k] = [parent |-> q, rebind |-> b, slots |-> s]
        BY <4>1, ScopeIs
      <4> QED BY <1>6, <3>2, <4>1, <4>2
    <3> QED BY <3>1, <3>2
  <2> HIDE DEF q, s, b
  <2>4. heapBar'[k] = [parent |-> q, rebind |-> b, slots |-> s2]
    <3> HIDE DEF s2
    <3> QED BY <2>2, ScopeIsNext
  <2>5. h[k] = [parent |-> q, rebind |-> b, slots |-> s2]
    <3>1. CASE k = t
      <4>1. h[k] = [g[k] EXCEPT !.slots[x] = acc]
        BY <1>6, <1>7, <2>1, <3>1
      <4>2. h[k] = [parent |-> q, rebind |-> b, slots |-> [s EXCEPT ![x] = acc]]
        BY <2>3, <4>1
      <4> QED BY <3>1, <4>2
    <3>2. CASE k # t
      BY <1>6, <1>7, <2>1, <2>3, <3>2
    <3> QED BY <3>1, <3>2
  <2> QED BY <2>4, <2>5
<1>10. Lang!Becomes(h)
  <2>1. live' \subseteq DOMAIN h
    BY <1>4, <1>8
  <2> QED BY <1>9, <2>1, BecomesBar
<1>11. actsBar' = actsBar
  BY <1>2 DEF actsBar
<1>12. e \in Serial \ DOMAIN heapBar
  BY <1>2
<1>13. Lang!Becomes(Lang!Put(Lang!WithScope(heapBar, e, Lang!Cur, Lang!Empty, FALSE),
          IF Lang!Bound(Lang!Cur, x) THEN Lang!Binder(Lang!Cur, x) ELSE e, x, acc))
  BY <1>2, <1>10 DEF h, g, t, Lang!Empty, Empty
<1> HIDE DEF e
<1> QED BY <1>2, <1>11, <1>12, <1>13 DEF Lang!With

\* The try that die() reaches is the language's innermost.
LEMMA CatchIs ==
    ASSUME SInv, SInv', Catch
    PROVE  Lang!Throw
<1> DEFINE k == tryTop
<1>1. /\ k \in 1..Len(stack) /\ stack[k].kind = "try" /\ acc' = Null /\ UNCHANGED running
      /\ \A i \in 1..Len(stack) : i > k => stack[i].kind # "try"
      /\ stack' = SubSeq(stack, 1, k - 1)
  <2>1. tryTop # 0 /\ acc' = Null /\ UNCHANGED running /\ stack' = SubSeq(stack, 1, tryTop - 1)
    BY DEF Catch
  <2>2. TypeOK /\ TryTarget
    BY DEF SInv, IInv
  <2>3. tryTop \in 1..Len(stack)
    BY <2>1, <2>2 DEF TypeOK
  <2> QED BY <2>1, <2>2, <2>3 DEF TryTarget
<1>2. /\ Len(stack) \in Nat /\ Len(actsBar) = Len(stack)
      /\ \A i \in 1..Len(stack) : actsBar[i].kind = stack[i].kind
  BY CurIs
<1>3. Lang!Becomes(heapBar)
  BY FreeIs DEF Catch
<1> HIDE DEF k
<1>4. k \in Lang!Tries /\ \A i \in Lang!Tries : i <= k
  BY <1>1, <1>2 DEF Lang!Tries
<1>5. k - 1 \in 0..Len(stack)
  BY <1>1, <1>2
<1>6. actsBar' = SubSeq(actsBar, 1, k - 1)
  BY <1>1, <1>5, CutIs
<1> QED BY <1>1, <1>3, <1>4, <1>6 DEF Lang!Throw

\* Every step of the frames is a step of the scopes, or changes nothing there.
LEMMA StepIs == SInv /\ SInv' /\ [Next]_vars => [Lang!Next]_(Lang!vars)
<1> SUFFICES ASSUME SInv, SInv', [Next]_vars PROVE [Lang!Next]_(Lang!vars)
  OBVIOUS
<1>c. Lang!Cur = Cur /\ Cur \in live /\ live \subseteq Serial
      /\ Callable(Cur) \subseteq live /\ Lang!Callable(Lang!Cur) = Callable(Cur)
  BY CurIs, CallableIs
<1>s. UNCHANGED stack => UNCHANGED actsBar
  BY DEF actsBar
<1>k. UNCHANGED <<live, parent, rebind, vals>> => Lang!Becomes(heapBar)
  BY KeepIs
<1>1. CASE UNCHANGED vars
  <2>1. UNCHANGED <<heapBar, actsBar, acc, running>>
    BY <1>1 DEF vars, heapBar, actsBar
  <2> QED BY <2>1 DEF Lang!vars
<1>2. ASSUME NEW d \in Data, Const(d) PROVE Lang!Compute
  BY <1>2, <1>s, <1>k DEF Const, frameVars, Lang!Compute
<1>3. ASSUME NEW x \in Names, Load(x) PROVE Lang!Compute
  <2>1. PICK f \in Nearest(Cur, x) : acc' = vals[f][x]
    BY <1>3 DEF Load
  <2>2. Binders(Cur, x) # {}
    BY <2>1 DEF Nearest
  <2>3. Lang!Bound(Cur, x) /\ f = Lang!Binder(Cur, x) /\ f \in live
    BY <1>c, <2>1, <2>2, AssignIs, BinderIs
  <2>4. Lang!Bound(Lang!Cur, x) /\ acc' = heapBar[Lang!Binder(Lang!Cur, x)].slots[x]
    BY <1>c, <2>1, <2>3, HeapIs
  <2>5. Lang!Becomes(heapBar) /\ UNCHANGED <<actsBar, running>>
    BY <1>3, <1>s, <1>k DEF Load, frameVars
  <2> QED BY <2>4, <2>5 DEF Lang!Compute
<1>4. ASSUME NEW x \in Names, Define(x) PROVE Lang!Define(x)
  <2>1. PICK f \in DefineTargets(Cur, x) : Write(f, x, acc)
    BY <1>4 DEF Define
  <2>2. f = Lang!LabelScope(Lang!Cur, x) /\ f \in live
    BY <1>c, <2>1, LabelIs
  <2>3. Lang!Becomes(Lang!Put(heapBar, f, x, acc))
    BY <1>4, <2>1, <2>2, PutIs DEF Define, frameVars
  <2> QED BY <1>4, <1>s, <2>2, <2>3 DEF Define, frameVars, Lang!Define
<1>5. ASSUME NEW x \in Names, Let(x) PROVE Lang!Assign(x)
  <2>1. PICK f \in SetTargets(Cur, x) : Write(f, x, acc)
    BY <1>5 DEF Let
  <2>2. f = Lang!AssignScope(Lang!Cur, x) /\ f \in live
    BY <1>c, <2>1, AssignIs
  <2>3. Lang!Becomes(Lang!Put(heapBar, f, x, acc))
    BY <1>5, <2>1, <2>2, PutIs DEF Let, frameVars
  <2> QED BY <1>5, <1>s, <2>2, <2>3 DEF Let, frameVars, Lang!Assign
<1>6. ASSUME NEW x \in Names, Unset(x) PROVE Lang!Unset(x)
  <2>1. PICK f \in Nearest(Cur, x) : Write(f, x, Unbound)
    BY <1>6 DEF Unset
  <2>2. Binders(Cur, x) # {}
    BY <2>1 DEF Nearest
  <2>3. Lang!Bound(Lang!Cur, x) /\ f = Lang!Binder(Lang!Cur, x) /\ f \in live
    BY <1>c, <2>1, <2>2, AssignIs, BinderIs
  <2>4. Lang!Becomes(Lang!Put(heapBar, f, x, Unbound))
    BY <1>6, <2>1, <2>3, PutIs DEF Unset, frameVars
  <2> QED BY <1>6, <1>s, <2>3, <2>4 DEF Unset, frameVars, Lang!Unset
<1>7. ASSUME MakeFunction PROVE Lang!Compute
  <2>1. acc' = Lang!Cur /\ Lang!Becomes(heapBar) /\ UNCHANGED <<actsBar, running>>
    BY <1>7, <1>c, <1>s, <1>k DEF MakeFunction
  <2> QED BY <2>1 DEF Lang!Compute
<1>8. ASSUME NEW x \in Names, Construct(x) PROVE Lang!Construct(x)
  <2>1. PICK m \in Callable(Cur) :
          EnvNew(m, Bind(x, Null), FALSE) /\ acc' = serial + 1 /\ UNCHANGED <<stack, running>>
    BY <1>8 DEF Construct
  <2>2. /\ serial + 1 \in Serial \ DOMAIN heapBar
        /\ Lang!Becomes(Lang!WithScope(heapBar, serial + 1, m, Bind(x, Null), FALSE))
    BY <1>c, <2>1, NewIs
  <2>3. Bind(x, Null) = [Lang!Empty EXCEPT ![x] = Null]
    BY DEF Bind, Empty, Lang!Empty
  <2>4. UNCHANGED <<actsBar, running>> /\ m \in Lang!Callable(Lang!Cur)
    BY <1>c, <1>s, <2>1
  <2> DEFINE e == serial + 1
  <2>5. e \in Serial \ DOMAIN heapBar /\ acc' = e
        /\ Lang!Becomes(Lang!WithScope(heapBar, e, m, [Lang!Empty EXCEPT ![x] = Null], FALSE))
    BY <2>1, <2>2, <2>3
  <2> HIDE DEF e
  <2> QED BY <2>4, <2>5 DEF Lang!Construct
<1>9. ASSUME NEW slots \in Params, Call(slots) PROVE Lang!Enter
  <2>1. PICK f \in Callable(Cur) : EnvNew(f, slots, FALSE) /\ Push("call", serial + 1)
                                   /\ UNCHANGED <<acc, running>>
    BY <1>9 DEF Call
  <2>2. EnvNew(f, slots, "call" = "body")
    <3>1. ("call" = "body") = FALSE
      OBVIOUS
    <3> QED BY <2>1, <3>1
  <2> QED BY <1>c, <2>1, <2>2, EnterIs
<1>10. ASSUME NEW slots \in Params, EnterBody(slots) PROVE Lang!Enter
  <2>1. EnvNew(Cur, slots, TRUE) /\ Push("body", serial + 1) /\ UNCHANGED <<acc, running>>
    BY <1>10 DEF EnterBody
  <2>2. EnvNew(Cur, slots, "body" = "body")
    <3>1. ("body" = "body") = TRUE
      OBVIOUS
    <3> QED BY <2>1, <3>1
  <2> QED BY <1>c, <2>1, <2>2, EnterIs
<1>11. ASSUME NEW slots \in Params, EnterPlain(slots) PROVE Lang!Enter
  <2>1. EnvNew(Cur, slots, FALSE) /\ Push("plain", serial + 1) /\ UNCHANGED <<acc, running>>
    BY <1>11 DEF EnterPlain
  <2>2. EnvNew(Cur, slots, "plain" = "body")
    <3>1. ("plain" = "body") = FALSE
      OBVIOUS
    <3> QED BY <2>1, <3>1
  <2> QED BY <1>c, <2>1, <2>2, EnterIs
<1>12. ASSUME Leave PROVE Lang!Leave
  <2>1. Pop /\ stack[Len(stack)].kind \in {"body", "plain"} /\ UNCHANGED <<acc, running>>
    BY <1>12 DEF Leave
  <2>2. /\ actsBar' = SubSeq(actsBar, 1, Len(actsBar) - 1)
        /\ actsBar[Len(actsBar)].kind = stack[Len(stack)].kind
    BY <2>1, PopIs
  <2>3. Lang!Becomes(heapBar)
    BY <1>12, FreeIs DEF Leave
  <2> QED BY <2>1, <2>2, <2>3 DEF Lang!Leave
<1>13. ASSUME EnterTry PROVE Lang!EnterTry
  <2> DEFINE a == [kind |-> "try", env |-> Cur, saved |-> serial, prev |-> tryTop]
  <2>0. TypeOK /\ Cur \in Serial
    BY <1>c DEF SInv, IInv
  <2>1. a \in Activation /\ a.kind = "try" /\ a.env = Cur
    BY <2>0, Constants DEF Activation, Kinds, TypeOK, Serial
  <2>2. stack' = Append(stack, a) /\ UNCHANGED <<acc, running>> /\ Lang!Becomes(heapBar)
    BY <1>13, <1>k DEF EnterTry, frameVars
  <2> HIDE DEF a
  <2>3. actsBar' = Append(actsBar, [kind |-> a.kind, env |-> a.env])
    BY <2>1, <2>2, PushIs
  <2> QED BY <1>c, <2>1, <2>2, <2>3 DEF Lang!EnterTry
<1>14. ASSUME LeaveTry PROVE Lang!LeaveTry
  <2>1. Pop /\ stack[Len(stack)].kind = "try" /\ acc' = Null /\ UNCHANGED running
        /\ Lang!Becomes(heapBar)
    BY <1>14, <1>k DEF LeaveTry, frameVars
  <2>2. /\ actsBar' = SubSeq(actsBar, 1, Len(actsBar) - 1)
        /\ actsBar[Len(actsBar)].kind = stack[Len(stack)].kind
    BY <2>1, PopIs
  <2> QED BY <2>1, <2>2 DEF Lang!LeaveTry
<1>15. ASSUME Exit PROVE Lang!Abort
  <2>1. /\ running' = FALSE /\ UNCHANGED <<heapBar, actsBar, acc>>
    BY <1>15 DEF Exit, frameVars, heapBar, actsBar
  <2>2. \A i \in 1..Len(stack) : stack[i].kind # "try"
    BY <1>15 DEF Exit, SInv, IInv, TryTarget
  <2>3. Lang!Tries = {}
    BY <2>2, CurIs DEF Lang!Tries
  <2> QED BY <2>1, <2>3 DEF Lang!Abort
<1>16. ASSUME running, Step PROVE Lang!Next
  <2>1. CASE \E d \in Data : Const(d)
    BY <1>2, <1>16, <2>1 DEF Lang!Next
  <2>2. CASE \E x \in Names : Load(x)
    BY <1>3, <1>16, <2>2 DEF Lang!Next
  <2>3. CASE \E x \in Names : Define(x)
    BY <1>4, <1>16, <2>3 DEF Lang!Next
  <2>4. CASE \E x \in Names : Let(x)
    BY <1>5, <1>16, <2>4 DEF Lang!Next
  <2>5. CASE \E x \in Names : Unset(x)
    BY <1>6, <1>16, <2>5 DEF Lang!Next
  <2>6. CASE MakeFunction
    BY <1>7, <1>16, <2>6 DEF Lang!Next
  <2>7. CASE \E x \in Names : Construct(x)
    BY <1>8, <1>16, <2>7 DEF Lang!Next
  <2>8. CASE \E slots \in Params : Call(slots) \/ EnterBody(slots) \/ EnterPlain(slots)
    BY <1>9, <1>10, <1>11, <1>16, <2>8 DEF Lang!Next
  <2>9. CASE \E exports \in SUBSET Names : Return(exports)
    BY <1>16, <2>9, ReturnIs DEF Lang!Next
  <2>10. CASE Leave
    BY <1>12, <1>16, <2>10 DEF Lang!Next
  <2>11. CASE \E x \in Names : With(x)
    BY <1>16, <2>11, WithIs DEF Lang!Next
  <2>12. CASE EnterTry
    BY <1>13, <1>16, <2>12 DEF Lang!Next
  <2>13. CASE LeaveTry
    BY <1>14, <1>16, <2>13 DEF Lang!Next
  <2>14. CASE Catch
    BY <1>16, <2>14, CatchIs DEF Lang!Next
  <2>15. CASE Exit
    BY <1>15, <1>16, <2>15 DEF Lang!Next
  <2> QED BY <1>16, <2>1, <2>2, <2>3, <2>4, <2>5, <2>6, <2>7, <2>8, <2>9, <2>10, <2>11,
             <2>12, <2>13, <2>14, <2>15 DEF Step
<1> QED BY <1>1, <1>16 DEF Next

\* A program starts in the language's first state, in a scope named 1.
LEMMA StartIs == Init => Lang!Init
<1> SUFFICES ASSUME Init PROVE Lang!Init
  OBVIOUS
<1>1. 1 \in Serial
  BY Constants DEF Serial
<1>2. live = {1} /\ parent[1] = 0 /\ rebind = {} /\ vals[1] = Empty /\ acc = Null /\ running = TRUE
      /\ stack = <<[kind |-> "top", env |-> 1, saved |-> 0, prev |-> 0]>>
  BY <1>1 DEF Init
<1>3. heapBar = [f \in {1} |-> [parent |-> Lang!NoParent, rebind |-> FALSE, slots |-> Lang!Empty]]
  <2>1. heapBar = [f \in {1} |-> [parent |-> parent[f], rebind |-> f \in rebind, slots |-> vals[f]]]
    BY <1>2 DEF heapBar
  <2>2. (1 \in rebind) = FALSE
    BY <1>2
  <2> QED BY <1>2, <2>1, <2>2 DEF Lang!NoParent, Lang!Empty, Empty
<1>4. actsBar = <<[kind |-> "top", env |-> 1]>>
  <2>1. Len(stack) = 1 /\ stack[1].kind = "top" /\ stack[1].env = 1
    BY <1>2
  <2>2. actsBar = [i \in 1..1 |-> [kind |-> "top", env |-> 1]]
    BY <2>1 DEF actsBar
  <2> QED BY <2>2
<1> QED BY <1>1, <1>2, <1>3, <1>4 DEF Lang!Init

-----------------------------------------------------------------------------
\* Programs see the scoping of the language: the frames, with their serials,
\* captured flags, releases and sweeps, implement scopes that are forgotten
\* only when nothing can reach them.
THEOREM FramesImplementScopes == Spec => ImplementsScopes
<1>1. SInv /\ [Next]_vars => SInv'
  BY ScopesNext
<1>2. SInv /\ SInv' /\ [Next]_vars => [Lang!Next]_(Lang!vars)
  BY StepIs
<1> QED
  BY ScopesInit, StartIs, <1>1, <1>2, PTL DEF Spec, ImplementsScopes, Lang!Spec
=============================================================================
