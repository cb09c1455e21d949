--------------------------------- MODULE IR ---------------------------------
(* The IR of arturoc as the emitter lays it out (ir.hpp) and as runtime.c    *)
(* runs it.  A program is an arena of nodes that refer to each other by      *)
(* index.  A node is one record; a constant is its value instead of an index *)
(* into a pool, attributes are the nodes of their values.                    *)
EXTENDS Numbers

CONSTANT Names  \* the variables of the programs

-----------------------------------------------------------------------------
(* Values and nodes                                                        *)

Null    == <<"null", 0>>
Bool(b) == <<"bool", IF b THEN 1 ELSE 0>>
None    == <<"none", 0>>

Truthy(v) == v \notin {Null, Bool(FALSE)}

Plain == [op |-> "Const", name |-> "", con |-> None, kids |-> <<>>, attrs |-> <<>>]
Constant(v) == [Plain EXCEPT !.con = v]

\* emit builds the children of a node before the node; kids and attrs of a tree
\* are trees.
RECURSIVE Lay(_, _)
Lay(p, t) ==
    LET Each(r, u) == LET q == Lay(r.p, u) IN [p |-> q, at |-> Append(r.at, Len(q))]
        k == FoldLeft(Each, [p |-> p, at |-> <<>>], t.kids)
        a == FoldLeft(Each, [p |-> k.p, at |-> <<>>], t.attrs)
    IN  Append(a.p, [t EXCEPT !.kids = k.at, !.attrs = a.at])

Emitted(t) == Lay(<<>>, t)

-----------------------------------------------------------------------------
(* Running the IR: what runtime.c makes of a node.  The state is the        *)
(* variables, what was printed, and the signal that is raised.              *)

Start == [env |-> [x \in Names |-> None], out |-> <<>>, sig |-> "none", ret |-> Null]

Says(v, s) == [v |-> v, s |-> s]
Dies(s)    == Says(Null, [s EXCEPT !.sig = "die"])

Statements == {"Define", "If", "Unless", "Switch", "Loop", "Return", "Break", "Continue"}

\* What an intrinsic does with its arguments.
DiesOr(r, s) == IF r = Fails THEN Dies(s) ELSE Says(r, s)
Primitive(f, v, s) ==
    CASE f = "print" -> Says(Null, [s EXCEPT !.out = Append(@, v[1])])
      [] f = "not?"  -> Says(Bool(~Truthy(v[1])), s)
      [] OTHER       -> DiesOr(Arithmetic(f, v), s)

RECURSIVE Run(_, _, _)

\* The nodes of a list one after the other, until a signal is raised.
RunSeq(p, ids, s) ==
    LET Each(r, id) == IF r.s.sig # "none" THEN r ELSE Run(p, id, r.s)
    IN  FoldLeft(Each, Says(Null, s), ids)

\* Operands: all of them, whatever is raised short of an error; r.v is the list.
RunAll(p, ids, s) ==
    LET Each(r, id) == IF r.s.sig = "die" THEN r
                       ELSE LET q == Run(p, id, r.s) IN Says(Append(r.v, q.v), q.s)
    IN  FoldLeft(Each, Says(<<>>, s), ids)

\* The body of a function: it has its own variables, reads the others where
\* they are, and a return ends here.
ApplyFunc(p, f, s) ==
    LET r == RunSeq(p, Tail(p[f[2]].kids), [s EXCEPT !.sig = "none"])
    IN  Says(IF r.s.sig = "ret" THEN r.s.ret ELSE r.v,
             [r.s EXCEPT !.env = s.env, !.sig = IF @ = "ret" THEN "none" ELSE @])

\* A block run for its value.  When it is two values and one is a function, the
\* function is applied to the other.
RunDoSeq(p, ids, s) ==
    LET r == RunSeq(p, ids, s)
        one == Run(p, ids[1], s)
        isF(v) == v[1] = "func"
    IN  IF Len(ids) # 2 \/ r.s.sig # "none" \/ {p[ids[1]].op, p[ids[2]].op} \cap Statements # {} THEN r
        ELSE IF isF(r.v) /\ ~isF(one.v) THEN ApplyFunc(p, r.v, r.s)
        ELSE IF isF(one.v) /\ ~isF(r.v) THEN ApplyFunc(p, one.v, r.s) ELSE r

\* The one block of code the programs store in a variable: it sets x to 2.
RunBlockValue(s) == Says(Num(2), [s EXCEPT !.env["x"] = Num(2)])

\* Two rounds of a loop: break and continue end with it.
RunLoop(p, body, s) ==
    LET Round(r, i) == IF r.sig \in {"die", "ret", "brk"} THEN r
                       ELSE LET q == RunSeq(p, p[body].kids, r).s
                            IN  IF q.sig = "cont" THEN [q EXCEPT !.sig = "none"] ELSE q
        t == FoldLeft(Round, [s EXCEPT !.sig = "none"], <<1, 2>>)
    IN  Says(IF t.sig = "ret" THEN t.ret ELSE Null, [t EXCEPT !.sig = IF @ = "brk" THEN "none" ELSE @])

\* Attributes first, then the arguments from the last to the first.
RunCall(p, n, s) ==
    LET a == RunAll(p, n.attrs, s)
        r == RunAll(p, Reverse(Tail(n.kids)), a.s)
        callee == p[n.kids[1]]
        f == Run(p, n.kids[1], r.s)
    IN  IF r.s.sig = "die" THEN r
        ELSE IF callee.op = "Intrinsic" THEN Primitive(callee.name, Reverse(r.v), r.s)
        ELSE IF f.v[1] = "func" THEN ApplyFunc(p, f.v, f.s) ELSE Dies(f.s)

Run(p, id, s) ==
    LET n == p[id]
        first == Run(p, n.kids[1], s)
    IN  CASE n.op \in {"Const", "Block"} -> Says(n.con, s)
          [] n.op = "Load"     -> IF s.env[n.name] = None THEN Dies(s) ELSE Says(s.env[n.name], s)
          [] n.op = "Seq"      -> RunSeq(p, n.kids, s)
          [] n.op = "Function" -> Says(<<"func", id>>, s)
          [] n.op = "Call"     -> RunCall(p, n, s)
          [] n.op = "Define"   -> IF first.s.sig = "die" THEN first
                                  ELSE Says(first.v, [first.s EXCEPT !.env[n.name] = first.v])
          [] n.op = "If"       -> IF first.s.sig = "die" THEN first
                                  ELSE IF Truthy(first.v) THEN Run(p, n.kids[2], first.s)
                                  ELSE Says(Null, first.s)
          [] n.op = "Unless"   -> IF first.s.sig = "die" THEN first
                                  ELSE IF Truthy(first.v) THEN Says(Null, first.s)
                                  ELSE Run(p, n.kids[2], first.s)
          [] n.op = "Switch"   -> IF first.s.sig = "die" THEN first
                                  ELSE Run(p, n.kids[IF Truthy(first.v) THEN 2 ELSE 3], first.s)
          [] n.op = "Loop"     -> RunLoop(p, n.kids[3], s)
          [] n.op = "Do"       -> IF p[n.kids[1]].op = "Seq" THEN RunDoSeq(p, p[n.kids[1]].kids, s)
                                  ELSE IF first.v[1] = "code" THEN RunBlockValue(first.s) ELSE first
          [] n.op = "Return"   -> IF first.s.sig = "die" THEN first
                                  ELSE Says(first.v, [first.s EXCEPT !.sig = "ret", !.ret = first.v])
          [] n.op = "Break"    -> Says(Null, [s EXCEPT !.sig = "brk"])
          [] n.op = "Continue" -> Says(Null, [s EXCEPT !.sig = "cont"])

\* What a user sees of a run: the values printed, and whether it ends in an error.
Shows(p, r) == LET s == Run(p, r, Start).s IN <<s.out, s.sig = "die">>

-----------------------------------------------------------------------------
\* verifyProgram: what every back end relies on.
WellFormed(nodes) ==
    \A i \in 1..Len(nodes) :
        LET n == nodes[i]
            k == Len(n.kids)
        IN  /\ ToSet(n.kids) \cup ToSet(n.attrs) \subseteq 1..Len(nodes)
            /\ n.op = "Const" => n.con # None
            /\ n.op \in {"Load", "Intrinsic"} => n.name # ""
            /\ n.op = "Define" => n.name # "" /\ k = 1
            /\ n.op = "Call" => k > 0
            /\ n.op = "Function" => k > 0 /\ nodes[n.kids[1]].op = "Params"
            /\ n.op = "If" => k \in 2..3
            /\ n.op = "Switch" => k = 3
            /\ n.op = "Loop" => k = 3 /\ nodes[n.kids[2]].op = "Params"
            /\ n.op = "Return" => k <= 1
=============================================================================
