------------------------------ MODULE MCDriver ------------------------------
(* Model checking Driver.  The sources: a main file of up to two lines, a   *)
(* file and a package of two files, with every way the three may import     *)
(* each other.  The programs: a definition, then one construct with a body  *)
(* of one or two statements, then a use of what was known before it.        *)
EXTENDS Driver, Integers, TLC

Line(form, path) == I!Import(form, path)
Plain(paths) == {<<Line("import", p)>> : p \in paths}
MainLines == {I!Text, Line("import", "a"), Line("only", "a"), Line("import", "d"), Line("lean", "d"), Line("both", "a")}
Mains == {<<>>} \cup {<<l>> : l \in MainLines} \cup {<<l, m>> : l \in MainLines, m \in MainLines}
As    == {<<>>, <<I!Text>>, <<Line("only", "d/e")>>} \cup {<<Line("import", p)>> : p \in {"main", "d/main"}}
DMs   == {<<>>, <<I!Text>>, <<Line("only", "d/e"), I!Text>>, <<Line("import", "a")>>}
DEs   == {<<>>, <<I!Text>>, <<Line("only", "a")>>, <<Line("import", "d/main")>>}

MCMainOf  == "d" :> "d/main"
MCEntries == {"d" :> f : f \in {"d/main", "d/e", "d/x"}}
MCSources ==
    {("main" :> m) @@ ("a" :> a) @@ ("d/main" :> dm) @@ ("d/e" :> de) @@ ("d/x" :> <<>>) :
        m \in Mains, a \in As, dm \in DMs, de \in DEs}

-----------------------------------------------------------------------------
N(op, name, kids) == [O!Plain EXCEPT !.op = op, !.name = name, !.kids = kids]
K(n)         == O!Constant(O!Num(n))
False        == O!Constant(O!Bool(FALSE))
X            == N("Load", "x", <<>>)
Prim(f, a)   == N("Call", "", <<N("Intrinsic", f, <<>>)>> \o a)
Show(e)      == Prim("print", <<e>>)
ShowWith(e)  == [Show(X) EXCEPT !.attrs = <<e>>]
Set(e)       == N("Define", "x", <<e>>)
Params       == N("Params", "", <<>>)
Seq1(b)      == N("Seq", "", b)
Do(b)        == N("Do", "", <<Seq1(b)>>)
Fun(b)       == N("Function", "", <<Params>> \o b)
SetF(b)      == N("Define", "f", <<Fun(b)>>)
CallF        == N("Call", "", <<N("Load", "f", <<>>)>>)

Atoms == {K(1), False, X}
Exprs == Atoms \cup {Prim("add", <<X, K(1)>>), Prim("add", <<K(1), K(1)>>), Prim("add", <<K(MaxInt), K(1)>>),
                     Prim("div", <<K(1), K(0)>>), Prim("not?", <<False>>), Prim("not?", <<X>>)}

Inner  == {K(1), Set(Prim("add", <<K(1), K(1)>>)), Show(X), N("Return", "", <<X>>), N("Break", "", <<>>)}
Bodies == {<<a>> : a \in Inner} \cup {<<a, b>> : a \in Inner, b \in Inner}

Within(B) ==
    UNION {{N("If", "", <<c, Seq1(b)>>), N("Unless", "", <<c, Seq1(b)>>),
            N("Switch", "", <<c, Seq1(b), Seq1(<<Show(X)>>)>>)} : c \in Atoms, b \in B}
    \cup UNION {{N("Loop", "", <<K(2), Params, Seq1(b)>>), Do(b), Show(Do(b)), Set(Do(b)), SetF(b)} : b \in B}

Simple == {K(1), X, CallF, Show(X)} \cup {Set(e) : e \in Atoms}
Middle == Within(Bodies) \cup UNION {{Set(e), Show(e), ShowWith(e)} : e \in Exprs}
Uses   == {X, Do(<<X>>), N("Unless", "", <<X, Seq1(<<K(2)>>)>>)}
Known3 == {<<Set(c), m, u>> : c \in {K(1), False}, m \in Middle, u \in Uses}

\* Numbers around the limits and beyond them, and what can be done with one.
Numerals   == {-MaxInt - 1, -3, 2, MaxInt}
Firsts     == {<<f, a, b>> : f \in {"add", "sub", "mul"}, a \in Numerals, b \in Numerals \cup {-1, 0}}
              \cup {<<"pow", a, b>> : a \in Numerals \cup {-2, -1, 0}, b \in {0, 2, 3}}
Further(e, exact) ==
    {Prim(f, <<e, K(c)>>) : f \in {"add", "sub", "mul", "div", "mod"}, c \in {-2, 3}}
    \cup {Prim(f, <<e, e>>) : f \in {"add", "sub", "mul"}}
    \cup {Prim("sub", <<K(MaxInt), e>>), Prim("sub", <<Prim("mul", <<e, e>>), e>>), Prim("pow", <<e, K(3)>>), Prim("neg", <<e>>)}
    \cup (IF exact = 0 THEN {} ELSE {Prim("div", <<Prim("mul", <<e, e>>), e>>), Prim("mod", <<K(MaxInt), e>>)})
    \cup (IF O!Fits(exact) THEN {Prim("inc", <<e>>), Prim("dec", <<e>>)} ELSE {})
Calculations == UNION {
    {Seq1(<<Show(c)>>) : c \in Further(Prim(t[1], <<K(t[2]), K(t[3])>>), O!Exact(t[1], <<O!Num(t[2]), O!Num(t[3])>>))} :
        t \in Firsts}

MCSmall == Seq1(<<Show(K(1))>>)

OneFile == ("main" :> <<I!Text>>) @@ [f \in Files |-> <<>>]
Programs(P) == [sources |-> {OneFile}, programs |-> P]

MCInputs == <<
    [sources |-> MCSources, programs |-> {MCSmall}],
    Programs(Calculations),
    Programs({Seq1(<<Set(K(1)), a, m, z>>) : a \in {K(1), CallF, Set(False)}, m \in Middle, z \in Simple}),
    Programs({Seq1(<<Set(K(1)), Show(Do(b))>>) : b \in Known3}),
    Programs({Seq1(<<Set(K(1)), SetF(b), Set(K(2)), Show(CallF)>>) : b \in Known3})>>

\* For what concerns files only, the program does not matter.
MCOne == <<Programs({MCSmall})>>

\* What the passes do not keep: a body without statements in the last place, an
\* attribute with an effect, a remainder the machine does not have, a stored block that
\* is run, and a function that becomes one of two values.
EffectOf(e) == [Prim("not?", <<False>>) EXCEPT !.attrs = <<e>>]
Stored      == [O!Plain EXCEPT !.op = "Block", !.con = <<"code", 1>>]

MCBeyond == <<
    Programs({Seq1(<<Set(K(1)), Show(m)>>) : m \in
        {Do(<<X, N("If", "", <<K(1), Seq1(<<>>)>>)>>),
         EffectOf(Show(X)), Prim("mod", <<K(-MaxInt - 1), K(-1)>>),
         Do(<<Set(K(1)), N("Do", "", <<Stored>>), X>>)}}),
    Programs({Seq1(<<N("Define", "f", <<Do(<<Fun(<<Show(K(1))>>)>>)>>), Do(<<K(1), N("Load", "f", <<>>), K(2)>>)>>)})>>
=============================================================================
