----------------------------- MODULE Optimizer -----------------------------
(* The IR passes of optimizer.hpp and the verifier of verify.hpp, next to   *)
(* what runtime.c does with the IR, so that the contract of the passes can  *)
(* be stated: running the program shows the same before and after each.     *)
EXTENDS IR

CONSTANT MaxIter    \* the rounds run makes at most (8)

VARIABLES
    nodes,      \* the arena
    root,       \* its root
    pass,       \* the pass that runs next
    iter,       \* rounds begun
    count,      \* what the passes have rewritten, all statistics together
    before,     \* count when the round began
    shown       \* what the program as emitted shows when it runs

-----------------------------------------------------------------------------
(* The passes.  Each takes and returns an arena and the count.              *)

Work(p, n) == [p |-> p, n |-> n]

\* A result that leaves the machine integers is not folded.
Folded(n) == IF Fits(n) THEN Num(n) ELSE None

\* A power is given up at the first product that does not fit.
FoldedPow(x, y) ==
    LET Each(r, i) == IF Fits(r) THEN r * x ELSE r
    IN  IF y \in 0..62 THEN Folded(FoldLeft(Each, 1, Idx(y))) ELSE None

FoldedInts(f, x, y) ==
    CASE f = "add" -> Folded(x + y)
      [] f = "sub" -> Folded(x - y)
      [] f = "mul" -> Folded(x * y)
      [] f = "div" -> IF y = 0 THEN None ELSE Folded(Quot(x, y))
      [] f = "mod" -> IF y = 0 THEN None ELSE Folded(Rem(x, y))
      [] f = "pow" -> FoldedPow(x, y)
      [] f = "inc" -> Folded(x + 1)
      [] f = "dec" -> Folded(x - 1)

\* Evaluates a call of a pure intrinsic on constants, or gives None.
EvalPure(f, v) ==
    IF f = "not?" THEN Bool(~Truthy(v[1]))
    ELSE IF \A i \in 1..Len(v) : v[i][1] = "int" THEN FoldedInts(f, v[1][2], v[2][2]) ELSE None

Arithmetics == {"add", "sub", "mul", "div", "mod", "pow", "inc", "dec"}
Pure == Arithmetics \cup {"not?"}

RECURSIVE FoldAll(_, _)
FoldAll(w, id) ==
    LET q == FoldLeft(FoldAll, w, w.p[id].kids \o w.p[id].attrs)
        n == q.p[id]
        f == q.p[n.kids[1]]
        args == [i \in 1..(Len(n.kids) - 1) |-> q.p[n.kids[i + 1]]]
        v == EvalPure(f.name, [i \in DOMAIN args |-> args[i].con])
    IN  IF /\ n.op = "Call"
           /\ f.op = "Intrinsic" /\ f.name \in Pure
           /\ \A i \in DOMAIN args : args[i].op = "Const"
           /\ v # None
        THEN Work([q.p EXCEPT ![id] = Constant(v)], q.n + 1) ELSE q

\* What a branch that is not taken leaves.
NotTaken == Constant(Null)

RECURSIVE FoldBranches(_, _)
FoldBranches(w, id) ==
    LET q == FoldLeft(FoldBranches, w, w.p[id].kids)
        n == q.p[id]
        c == q.p[n.kids[1]]
        taken == Truthy(c.con) <=> n.op = "If"
    IN  IF n.op \in {"If", "Unless"} /\ c.op = "Const"
        THEN Work([q.p EXCEPT ![id] = IF taken THEN q.p[n.kids[2]] ELSE NotTaken], q.n + 1)
        ELSE q

Ends == {"Return", "Break", "Continue"}

\* As Cleaned, when a flattened sequence also stays where it was.
CleanedTwice(p, kids) ==
    LET Each(r, id) == (IF p[id].op = "Seq" THEN r \o p[id].kids ELSE r) \o <<id>>
        out == FoldLeft(Each, <<>>, kids)
    IN  [out |-> out, n |-> Len(out) - Len(kids)]

\* One list of statements: nested ones flattened, constants that are not last
\* and whatever follows a jump dropped; with the number of changes.
Cleaned(p, kids) ==
    LET Each(r, i) ==
            LET n == p[kids[i]]
            IN  IF r.over THEN r
                ELSE IF n.op = "Seq" THEN [r EXCEPT !.out = @ \o n.kids, !.n = @ + 1]
                ELSE IF n.op = "Const" /\ i # Len(kids) THEN [r EXCEPT !.n = @ + 1]
                ELSE IF n.op \in Ends
                THEN [out |-> Append(r.out, kids[i]), n |-> r.n + Len(kids) - i, over |-> TRUE]
                ELSE [r EXCEPT !.out = Append(@, kids[i])]
    IN  FoldLeft(Each, [out |-> <<>>, n |-> 0, over |-> FALSE], [i \in 1..Len(kids) |-> i])

RECURSIVE CleanSeq(_, _)
CleanSeq(w, id) ==
    LET q == FoldLeft(CleanSeq, w, w.p[id].kids)
        c == Cleaned(q.p, q.p[id].kids)
    IN  IF q.p[id].op # "Seq" THEN q
        ELSE Work([q.p EXCEPT ![id].kids = c.out], q.n + c.n)

RECURSIVE SubtreeHasCallOrControl(_, _)
SubtreeHasCallOrControl(p, id) ==
    \/ p[id].op \in {"Call", "If", "Loop", "Function", "Define", "Return"}
    \/ \E k \in ToSet(p[id].kids) : SubtreeHasCallOrControl(p, k)

\* Functions are only made here, their bodies run later.
RECURSIVE SubtreeExecutes(_, _)
SubtreeExecutes(p, id) ==
    \/ p[id].op \in {"Call", "If", "Unless", "Switch", "Loop", "Define", "Return", "Break", "Continue"}
    \/ /\ p[id].op # "Function"
       /\ \E k \in ToSet(p[id].kids) \cup ToSet(p[id].attrs) : SubtreeExecutes(p, k)

RECURSIVE Substitute(_, _, _)
Substitute(p, id, env) ==
    IF p[id].op = "Load" /\ p[id].name \in Names /\ env[p[id].name] # None
    THEN [p EXCEPT ![id] = Constant(env[p[id].name])]
    ELSE LET Each(q, k) == Substitute(q, k, env) IN FoldLeft(Each, p, p[id].kids)

NoConstants == [x \in Names |-> None]

\* As Known, when a statement that runs code only unbinds nothing.
KnownAfterCode(p, k, env) ==
    IF p[k].op = "Define"
    THEN [env EXCEPT ![p[k].name] = IF p[p[k].kids[1]].op = "Const" THEN p[p[k].kids[1]].con ELSE None]
    ELSE env

\* The constants known after statement k, from those known before it.
Known(p, k, env) ==
    LET n == p[k]
        e == n.kids[1]
    IN  IF n.op = "Define"
        THEN IF p[e].op = "Const" THEN [env EXCEPT ![n.name] = p[e].con]
             ELSE IF SubtreeExecutes(p, e) THEN NoConstants
             ELSE [env EXCEPT ![n.name] = None]
        ELSE IF SubtreeExecutes(p, k) THEN NoConstants ELSE env

RECURSIVE PropagateSeq(_, _)
PropagateSeq(p, id) ==
    LET q == FoldLeft(PropagateSeq, p, p[id].kids)
        Each(r, k) ==
            LET t == IF SubtreeHasCallOrControl(r.p, k) THEN r.p ELSE Substitute(r.p, k, r.env)
            IN  [p |-> t, env |-> Known(t, k, r.env)]
    IN  IF q[id].op # "Seq" THEN q
        ELSE FoldLeft(Each, [p |-> q, env |-> NoConstants], q[id].kids).p

\* The nodes reached from the root, each before what it refers to.
RECURSIVE Mark(_, _, _)
Mark(p, seen, id) ==
    LET Each(r, k) == Mark(p, r, k)
    IN  IF Contains(seen, id) THEN seen
        ELSE FoldLeft(Each, Append(seen, id), p[id].kids \o p[id].attrs)

Compacted(p, r) ==
    LET kept == Mark(p, <<>>, r)
        remap(id) == CHOOSE i \in 1..Len(kept) : kept[i] = id
        Moved(ids) == [i \in DOMAIN ids |-> remap(ids[i])]
    IN  [i \in 1..Len(kept) |-> [p[kept[i]] EXCEPT !.kids = Moved(@), !.attrs = Moved(@)]]

-----------------------------------------------------------------------------
(* run, which main starts on the arena of the emitter.                     *)

Then(w, next) ==
    /\ nodes' = w.p /\ count' = w.n
    /\ pass' = next
    /\ UNCHANGED <<root, shown>>

Fold     == pass = "fold"   /\ Then(FoldAll(Work(nodes, count), root), "branch") /\ UNCHANGED <<iter, before>>
Branches == pass = "branch" /\ Then(FoldBranches(Work(nodes, count), root), "clean") /\ UNCHANGED <<iter, before>>
Clean    == pass = "clean"  /\ Then(CleanSeq(Work(nodes, count), root), "propagate") /\ UNCHANGED <<iter, before>>

\* The last pass of a round; a round that rewrote nothing is the last.
Propagate ==
    /\ pass = "propagate"
    /\ LET over == count = before \/ iter = MaxIter
       IN  /\ Then(Work(PropagateSeq(nodes, root), count), IF over THEN "compact" ELSE "fold")
           /\ iter' = IF over THEN iter ELSE iter + 1
    /\ before' = count

Compact ==
    /\ pass = "compact"
    /\ nodes' = Compacted(nodes, root) /\ root' = 1
    /\ pass' = "done"
    /\ UNCHANGED <<iter, count, before, shown>>

Next == Fold \/ Branches \/ Clean \/ Propagate \/ Compact

-----------------------------------------------------------------------------
(* Properties                                                              *)

TypeOK ==
    /\ root \in 1..Len(nodes)
    /\ pass \in {"fold", "branch", "clean", "propagate", "compact", "done"}
    /\ iter \in 1..MaxIter
    /\ before \in 0..count

\* verifyProgram: what every back end relies on holds between any two passes,
\* not only where main asks for it.
Verified == WellFormed(nodes)

\* The passes rewrite nodes in place, which is sound only while no node is seen
\* from two places: along any sequence of passes the program stays a tree.
StaysTree ==
    LET seen == Mark(nodes, <<>>, root)
        below == FoldLeft(LAMBDA r, id : r \o nodes[id].kids \o nodes[id].attrs, <<>>, seen)
    IN  Len(below) = Len(seen) - 1

\* "eval(emit(n)) == eval(n)": after every pass the program shows what it showed
\* as emitted - every print, in order, and whether it ends in an error.
MeaningKept == Shows(nodes, root) = shown

\* "int64 arithmetic with promotion on overflow": however numbers grow, every sum,
\* product, quotient and power is the number it should be, written as it should be.
\* What is made of machine integers is one exactly where it fits, and what is made of
\* others never - save in the cases Inexact lists.
ArithmeticExact ==
    LET IsExactly(r, exact, small) ==
            IF small THEN r = Num(exact)
            ELSE r[1] = "big" /\ Canonical(r[2]) /\ Meaning(r[2]) = exact
        Ints(v) == \A k \in DOMAIN v : v[k][1] = "int"
        Right(f, v, r) ==
            (\A k \in DOMAIN v : IsNumber(v[k])) /\ ~Inexact(f, v) =>
                IsExactly(r, Exact(f, v), Ints(v) /\ Exact(f, v) \in MinInt..MaxInt)
        value(i) == Run(nodes, i, Start).v
        Kids(n) == [k \in 1..(Len(n.kids) - 1) |-> value(n.kids[k + 1])]
    IN  \A i \in 1..Len(nodes) :
            LET n == nodes[i]
                f == nodes[n.kids[1]].name
            IN  n.op = "Call" /\ f \in Arithmetics \cup {"neg"} => Right(f, Kids(n), value(i))
=============================================================================
