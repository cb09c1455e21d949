------------------------------ MODULE Emitter ------------------------------
(* emit.hpp: the call tree of the parser becomes IR.  Constructs that do    *)
(* not evaluate their operands first have nodes of their own, everything    *)
(* else is a call.  Blocks that are run in place are grouped here, when all *)
(* the tokens around them have been read.                                   *)
EXTENDS Grouping, IR

CONSTANTS
    Constants,  \* for each literal and constant its value
    Shadow      \* for each word the variable _shadow_word

\* The words known after it (grouping a block may define some), and the node.
Makes(n, t) == [n |-> n, t |-> t]
IRNode(op, name, kids) == [Plain EXCEPT !.op = op, !.name = name, !.kids = kids]
Code == [Plain EXCEPT !.op = "Block", !.con = <<"code", 1>>]
TooFew == IRNode("Error", "", <<>>)

\* What is emitted for several nodes is one node's operands.
Wraps(e, op, name) == Makes(e.n, IRNode(op, name, e.ts))

RECURSIVE Emit(_, _)
EmitAll(n, gs) ==
    LET Adds(ts, e) == [n |-> e.n, ts |-> Append(ts, e.t)]
        Each(r, g) == Adds(r.ts, Emit(r.n, g))
    IN  FoldLeft(Each, [n |-> n, ts |-> <<>>], gs)

EmitSeq(n, gs) == Wraps(EmitAll(n, gs), "Seq", "")

EmitName(n, g) == IF g.how = "shadow" \/ g.name \in n.shadowed THEN Shadow[g.name] ELSE g.name

IsLiteralBlock(g) == g.kind = "block" /\ g.how = "raw"

\* The statements of a body; one that is not written in place stays an expression.
BodyOf(n, g) ==
    LET Stmts(sub) == EmitSeq(sub.n, sub.roots)
    IN  IF IsLiteralBlock(g) \/ g.kind = "inline" THEN Stmts(ParseSeq(n, g.toks))
        ELSE IF g.kind = "body" THEN EmitSeq(n, g.args) ELSE Emit(n, g)

AttachAttrs(r, g) ==
    LET Attached(a) == Makes(a.n, [r.t EXCEPT !.attrs = a.ts])
    IN  Attached(EmitAll(r.n, [k \in DOMAIN g.attrs |-> g.attrs[k][2]]))

EmitLeaf(n, g) ==
    Makes(n, CASE g.kind = "name" /\ g.name = "true"    -> Constant(Bool(TRUE))
               [] g.kind = "name" /\ g.name = "null"    -> Constant(Null)
               [] g.kind = "name" /\ g.how = "intrinsic" -> IRNode("Intrinsic", g.name, <<>>)
               [] g.kind = "name" /\ g.how = "load"      -> IRNode("Load", g.name, <<>>)
               [] g.kind = "name" /\ g.how = "shadow"    -> IRNode("Load", Shadow[g.name], <<>>)
               [] g.kind = "leaf" -> Constant(IF g.how \in {"literal", "constant"} THEN Constants[g.name]
                                              ELSE <<"token", 0>>))

\* Constructs: the operands that are evaluated, what stands between, then the body.
Joins(op, ts, b) == Makes(b.n, IRNode(op, "", Append(ts, b.t)))
Construct(n, op, g) ==
    LET Operands(c) == Joins(op, c.ts, BodyOf(c.n, Last(g.args)))
    IN  Operands(EmitAll(n, Front(g.args)))

\* switch: a condition and two bodies.
EmitSwitch(n, g) ==
    LET Switched(c, yes, no) == Makes(no.n, IRNode("Switch", "", <<c.t, yes.t, no.t>>))
        Otherwise(c, yes) == Switched(c, yes, BodyOf(yes.n, g.args[3]))
        Condition(c) == Otherwise(c, BodyOf(c.n, g.args[2]))
    IN  Condition(Emit(n, g.args[1]))

NoParams == IRNode("Params", "", <<>>)
EmitFunction(n, g) ==
    LET Built(b) == Makes(b.n, IRNode("Function", "", <<NoParams>> \o b.t.kids))
    IN  AttachAttrs(Built(BodyOf(n, g.args[2])), g)

\* As EmitLoop, when a loop without parameters has no list of them.
EmitLoopBare(n, g) ==
    LET Looped(c) == Joins("Loop", <<c.t>>, BodyOf(c.n, g.args[3]))
    IN  AttachAttrs(Looped(Emit(n, g.args[1])), g)

EmitLoop(n, g) ==
    LET Looped(c) == Joins("Loop", <<c.t, NoParams>>, BodyOf(c.n, g.args[3]))
    IN  AttachAttrs(Looped(Emit(n, g.args[1])), g)

EmitReturn(n, g) ==
    IF g.args = <<>> THEN Makes(n, IRNode("Return", "", <<Constant(Null)>>))
    ELSE Wraps(EmitAll(n, <<g.args[1]>>), "Return", "")

\* Whatever is called decides at run time.
EmitGeneric(n, g) ==
    AttachAttrs(Wraps(EmitAll(n, <<[g EXCEPT !.kind = "name", !.args = <<>>, !.attrs = <<>>]>> \o g.args),
                      "Call", ""), g)

Attributed == {"if"}
ConstructOp(f) == CASE f = "if" -> "If" [] f = "unless" -> "Unless" [] f = "do" -> "Do"

Needs(f) == CASE f \in {"function", "if", "unless"} -> 2 [] f \in {"switch", "loop"} -> 3 [] f = "do" -> 1 [] OTHER -> 0

EmitCall(n, g) ==
    LET f == IF g.how = "intrinsic" THEN g.name ELSE ""
        literal(b) == IsLiteralBlock(b) \/ b.kind = "body"
    IN  CASE Len(g.args) < Needs(f)              -> Makes(n, TooFew)
          [] f = "function"                      -> EmitFunction(n, g)
          [] f \in {"if", "unless", "do"} ->
                AttachAttrs(Construct(n, ConstructOp(f), g),
                            IF f \in Attributed THEN g ELSE [g EXCEPT !.attrs = <<>>])
          [] f = "switch"                        -> EmitSwitch(n, g)
          [] f = "return"                        -> EmitReturn(n, g)
          [] f = "loop" /\ literal(g.args[3])    -> EmitLoop(n, g)
          [] f \in {"break", "continue"} -> Makes(n, IRNode(IF f = "break" THEN "Break" ELSE "Continue", "", <<>>))
          [] OTHER -> EmitGeneric(n, g)

Emit(n, g) ==
    LET Defined(e) == Makes(e.n, IRNode("Define", EmitName(e.n, g), IF g.args = <<>> THEN <<Constant(Null)>> ELSE e.ts))
        Dict(e) == Makes(e.n, IRNode("Call", "", <<IRNode("Load", "makeDict", <<>>)>> \o e.ts))
        Runs(b) == Makes(b.n, IRNode("Do", "", <<b.t>>))
        Items(sub) == Wraps(EmitAll(sub.n, sub.roots), "Block", "")
    IN  CASE g.kind = "define" -> Defined(EmitAll(n, g.args))
          [] g.kind = "block" /\ g.how = "evaluated" -> Items(ParseSeq(n, g.toks))
          [] IsLiteralBlock(g) \/ (g.kind = "body" /\ g.toks # <<>>) -> Makes(n, Code)
          [] g.kind = "inline" \/ (g.kind = "body" /\ g.toks = <<>>) -> Runs(BodyOf(n, g))
          [] g.kind = "dict"   -> Dict(EmitAll(n, g.args))
          [] g.kind = "call"   -> EmitCall(n, g)
          [] OTHER             -> EmitLeaf(n, g)
=============================================================================
