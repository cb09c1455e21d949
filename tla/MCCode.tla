------------------------------- MODULE MCCode -------------------------------
(* Model checking Code.  Programs that are grouped and compiled: every        *)
(* sequence of up to four tokens, and of three behind a function, an alias,   *)
(* a hidden builtin, an arrow.  Programs that are also run: up to three       *)
(* statements on one or two variables.                                        *)
EXTENDS Code, TLC

MCWords == {"x", "y", "f", "x1", "x2", "x3", "big?", "add", "div", "print", "not?", "now", "if", "do", "loop", "switch",
            "function", "return", "to", "alias"}
MCPredicates == {"big?", "not?"}
MCBuiltins   == {"add", "div", "print", "not?", "now", "if", "do", "loop", "switch", "function", "return", "to", "alias"}
MCArity == [w \in MCWords |->
    CASE w \in {"add", "div", "if", "function", "to", "alias"} -> 2 [] w \in {"loop", "switch"} -> 3
      [] w \in {"print", "not?", "do", "return"} -> 1 [] w = "now" -> 0 [] OTHER -> -1]
Symbols == {"+", "/", "~", "%", "->", "=>", "$", "#", "@", "&"}
MCInfix  == [s \in Symbols |-> CASE s = "+" -> "add" [] s = "/" -> "div" [] OTHER -> ""]
MCPrefix == [s \in Symbols |-> IF s = "~" THEN "not?" ELSE ""]

MCConstants == ("1" :> Num(1)) @@ ("2" :> Num(2)) @@ ("false" :> Bool(FALSE)) @@ ("a" :> <<"token", 0>>)
MCShadow == [w \in MCWords |-> "_shadow_"]
MCFixed == [w \in MCBuiltins |-> CASE w \in {"add", "div", "to"} -> 2 [] w = "loop" -> 3
                                   [] w \in {"not?", "do"} -> 1 [] OTHER -> -1]
MCVerbatim == {<<"do", 0>>, <<"loop", 1>>, <<"loop", 2>>}

W(w)   == Word(w)
Sym(s) == Token("symbol", s, <<>>)
Lit(s) == Token("literal", s, <<>>)
Lab(w) == Token("label", w, <<>>)
Blk(ts) == Token("block", "", ts)
One    == Lit("1")
False  == Token("constant", "false", <<>>)
Key    == Token("attr", "k", <<>>)
KeyTo  == Token("attrlabel", "k", <<>>)
PathA(kind) == Token(kind, "x", <<Lit("a")>>)
PathB(kind) == Token(kind, "x", <<Lit("a"), Blk(<<W("x"), Sym("+"), One>>)>>)

Alphabet == {Lab("x"), Lab("add"), W("x"), W("add"), W("not?"), W("now"), Sym("+"), Sym("->"), Sym("~"),
             Key, KeyTo, One, PathA("pathlabel")}
Others   == {Lab("f"), W("f"), W("big?"), Lab("big?"), W("return"), Sym("$"), Sym("#"), Sym("@"), Sym("&"), Sym("%"),
             Blk(<<W("x"), One>>), Blk(<<Lab("x"), One, Sym("#"), Blk(<<>>)>>), Token("inline", "", <<W("x")>>),
             PathA("path"), PathB("path"), PathB("pathlabel")}

Strings(A, k) == UNION {[1..n -> A] : n \in 1..k}

\* An operator right behind an arrow or @ is read twice, and an @ at the end of a block is dropped.
Plain2(ts) == Last(ts) # Sym("@") /\ \A k \in 1..(Len(ts) - 1) : ts[k] \in {Sym("->"), Sym("@")} => ts[k + 1] \notin {Sym("+"), Sym("%")}

\* A placeholder for the first of two arguments, when there is no second: the arrow
\* would read behind the tokens.
Connected(ts) == \A k \in 1..(Len(ts) - 2) :
    ts[k] = Sym("=>") /\ ts[k + 1] = W("add") /\ ts[k + 2] = Sym("&") => k + 3 <= Len(ts)

FunctionF == <<Lab("f"), Sym("$"), Blk(<<W("x"), W("y")>>), Blk(<<W("x")>>)>>
Before == {<<>>, FunctionF, <<Lab("add"), One>>, <<W("loop"), W("x")>>, <<W("alias"), Sym("%"), W("add")>>,
           <<W("alias"), Token("attr", "infix", <<>>), Sym("%"), W("add")>>,
           <<W("loop"), One, Sym("=>"), W("add")>>, <<W("loop"), One, Sym("=>")>>}

Grouping1 == {ts \in Strings(Alphabet, 4) : Plain2(ts)}
Grouping2 == {q \in {b \o ts : b \in Before, ts \in {u \in Strings(Alphabet \cup Others, 2) : Plain2(u)}} : Connected(q)}
Small == {W("f"), W("x"), W("add"), One, Sym("+"), Sym("->"), Sym("$"), Key, Lab("f"), Blk(<<W("x"), One>>)}
Grouping3 == {b \o ts : b \in {FunctionF, <<Lab("add"), One>>}, ts \in {u \in [1..3 -> Small] : Plain2(u)}}

\* Expressions and statements that the two evaluators read alike: print, whose
\* arguments the stored one searches for, ends its block or has a definition behind it.
X == W("x")
Plus == Sym("+")
Inl(ts) == Token("inline", "", ts)
Exprs == {<<One>>, <<X>>, <<False>>, <<W("add"), X, One>>, <<X, Plus, One>>, <<One, Plus, X, Plus, Lit("2")>>,
          <<W("not?"), X>>, <<W("not?"), X, Plus, One>>, <<Inl(<<X, Plus, One>>), Plus, X>>, <<Lit("2"), Sym("/"), Lit("2"), Sym("/"), Lit("2")>>,
          <<W("add"), One, W("add"), X, Plus, One, X>>, <<One, Plus, W("add"), X, One>>}
Defs   == {<<Lab(v)>> \o e : v \in {"x", "y"}, e \in Exprs}
Prints == {<<W("print")>> \o e : e \in Exprs}
Inner  == {<<Lab("x")>> \o e : e \in {<<One>>, <<X, Plus, One>>, <<False>>}} \cup {<<W("print"), X>>}
Ifs    == {<<W("if")>> \o e \o <<Blk(i)>> : e \in Exprs, i \in Inner}
Dos    == {<<W("do"), Blk(i)>> : i \in Inner}
Firsts == {<<Lab("x"), One>>, <<Lab("x"), False>>}
Next3  == {<<Lab("x"), X, Plus, One>>, <<Lab("y")>> \o <<W("add"), X, Lit("2")>>}
Switches == {<<W("switch")>> \o e \o <<Blk(i), Blk(j)>> :
                e \in {<<X>>, <<False>>, <<W("not?"), X>>, <<W("not?"), X, Plus, One>>}, i \in Inner, j \in Inner}
Runnable == {f \o a \o b \o c : f \in Firsts, a \in Defs \cup Ifs \cup Dos, b \in Next3, c \in Prints \cup Exprs}
            \cup {f \o a \o b \o c : f \in Firsts, a \in Prints, b \in Next3, c \in Ifs}
            \cup {f \o a \o b \o c : f \in Firsts, a \in Switches, b \in Next3, c \in {<<X>>, <<W("print"), X>>}}

\* As strings, which a block may also hold: a statement behind an arrow.  Some are read
\* differently by the two walks (ReadAlike); what they leave is gone through as well.
Str(s) == Token("string", s, <<>>)
YPath == Token("path", "y", <<>>)
Arrows == {<<Str("if")>> \o c \o <<Str("->")>> : c \in {<<X>>, <<Str("not?"), X>>, <<False>>}}
Guarded == {<<Str("print")>> \o e : e \in {<<X>>, <<YPath>>, <<X, Str("+"), One>>}}
           \cup {<<Lab("x"), One, Str("+"), X>>, <<Str("not?"), X>>, <<YPath, One>>, <<YPath, X, Str("+"), One>>,
                  <<YPath, Str("+"), X>>, <<Str("add"), YPath, X>>, <<Str("add"), X, One, Str("+"), X>>}
Stored1 == {f \o <<Lab("y"), One>> \o a \o g \o <<Lab("y"), X>> \o a \o h : f \in Firsts, a \in Arrows, g \in Guarded, h \in Guarded}

\* A builtin that is bound is a value, with tokens behind it or at the end.
BoundAdd == {<<Lab("x"), One, Lab("add"), X>> \o a \o g \o h :
                a \in Arrows, g \in {<<Str("add")>>, <<Str("add"), Str("+"), X>>, <<YPath, Str("add")>>},
                h \in {<<Lab("y"), Str("add"), Str("+"), X>>, <<Lab("y"), W("add")>>, <<Str("print"), Str("add"), X>>}}

Group(P, how) == [toks |-> P, runs |-> how]

MCPrograms == <<Group(Grouping1, {}), Group(Grouping2, {}), Group(Grouping3, {}),
                Group(Runnable, {"inline", "stored"}), Group(Stored1 \cup BoundAdd, {"stored"})>>

\* A path that is read by an operator, behind an arrow: `if false -> y\a + [print x  x: x]`.
MCBeyond == <<Group({<<Lab("x"), One, Lab("y"), One>> \o a \o <<YPath, Str("+"), Blk(<<Str("print"), X, Lab("x"), X>>), Str("print"), Lit("2")>> :
                       a \in Arrows}, {"stored"})>>

\* Programs that run otherwise when they are stored: `b: [print 1 print 2] do b`.
MCRunnable == <<Group({<<Lab("x"), One>> \o a \o b : a \in Prints, b \in Prints}, {"inline", "stored"})>>
=============================================================================
