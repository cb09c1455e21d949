------------------------------ MODULE Grouping ------------------------------
(* The parser of arturoc, parser.hpp: tokens are grouped into a call tree   *)
(* by the arities of words.  A word with an arity opens a frame, a frame is *)
(* closed once it has its arguments, and an infix symbol takes the value    *)
(* before it as first argument.  Labels change what words mean from there   *)
(* on.  One action per token of the program; the parts parsed on the way    *)
(* (bodies after ->, values of attributes, dictionaries, path segments) are *)
(* parsed within the action, as in the code.                                *)
EXTENDS Integers, SequencesExt

CONSTANTS
    Words,          \* all words
    Predicates,     \* those that end in "?"
    Builtins,       \* those tables.inc lists
    BuiltinArity,   \* for each word its arity there, -1 for other words
    InfixAlias,     \* for each symbol the builtin it stands for between values, or ""
    PrefixAlias,    \* for each symbol the builtin it stands for in front of one, or ""
    Shadowable      \* kShadowable

ASSUME TablesAssumption ==
    /\ Builtins \cup Predicates \subseteq Words
    /\ BuiltinArity \in [Words -> -1..3]
    /\ DOMAIN InfixAlias = DOMAIN PrefixAlias

VARIABLES
    toks,   \* the tokens of the program
    p       \* parseRange

-----------------------------------------------------------------------------
(* Tokens and trees                                                        *)

\* text is a word, a symbol, a key or a literal; kids are the tokens of a block or
\* the segments of a path.
Token(kind, text, kids) == [kind |-> kind, text |-> text, kids |-> kids]
Word(w) == Token("word", w, <<>>)
IsSymbol(t, s) == t.kind = "symbol" /\ t.text = s

\* A node of the tree.  A call is its callee with arguments; how a name is found is
\* "intrinsic", "load" or "shadow" (under _shadow_name).  A block has its tokens, a
\* body both its tokens and what they are grouped to.
Node(kind, name, how, args) ==
    [kind |-> kind, name |-> name, how |-> how, args |-> args, attrs |-> <<>>, toks |-> <<>>]
Leaf(t)        == [Node("leaf", t.text, t.kind, <<>>) EXCEPT !.toks = <<t>>]
Name(w, how)   == Node("name", w, how, <<>>)
Call(f, args)  == [f EXCEPT !.kind = "call", !.args = args]
Block(ts, how) == [Node("block", "", how, <<>>) EXCEPT !.toks = ts]
Body(args, ts) == [Node("body", "", "", args) EXCEPT !.toks = ts]

-----------------------------------------------------------------------------
(* What the parser knows of words                                          *)

Known ==
    [arity |-> BuiltinArity, infix |-> InfixAlias, prefix |-> PrefixAlias,
     shadowed |-> {}, callable |-> {}, defined |-> {}]

ArityOf(n, w) ==
    IF n.arity[w] # -1 THEN n.arity[w] ELSE IF w \in Predicates \ n.defined THEN 1 ELSE -1

WordNode(n, w) ==
    Name(w, IF w \in n.shadowed THEN "shadow"
            ELSE IF w \in Builtins \ n.callable THEN "intrinsic" ELSE "load")

AliasTarget(w) == Name(w, IF w \in Builtins THEN "intrinsic" ELSE "load")

\* `alias '+ 'add` and `alias.infix '+ 'add` anywhere in a block hold in all of it.
RegisterAliases(n, ts) ==
    LET Each(m, i) ==
            LET infix == i < Len(ts) /\ ts[i + 1].kind = "attr" /\ ts[i + 1].text = "infix"
                j == IF infix THEN i + 2 ELSE i + 1
            IN  IF ts[i] # Word("alias") \/ j + 1 > Len(ts) THEN m
                ELSE IF infix THEN [m EXCEPT !.infix[ts[j].text] = ts[j + 1].text]
                ELSE [m EXCEPT !.prefix[ts[j].text] = ts[j + 1].text]
    IN  FoldLeft(Each, n, [i \in 1..Len(ts) |-> i])

Params(b) == IF b.kind = "block" THEN Cardinality({i \in DOMAIN b.toks : b.toks[i].kind = "word"}) ELSE 1

Makers == {"function", "method", "constructor", "sortable"}
Made(c) == c.kind = "call" /\ c.how # "shadow" /\ c.name \in Makers
ValueOf(d) == IF d.args = <<>> THEN Name("", "") ELSE d.args[1]

\* A definition is complete: a function gets its arity, another value takes it away
\* and hides a builtin.
OnDefine(n, d) ==
    LET w == d.name
        Learns(c, made) ==
            [n EXCEPT !.defined = @ \cup {w},
                      !.arity[w] = IF ~made THEN -1
                                   ELSE IF c.name = "function" /\ c.args # <<>> THEN Params(c.args[1]) ELSE @,
                      !.callable = IF made /\ w \in Shadowable THEN @ \cup {w} ELSE @,
                      !.shadowed = IF ~made /\ w \in Builtins THEN @ \cup {w} ELSE @]
        Both(m, made) == [n |-> m, d |-> IF ~made /\ w \in m.shadowed THEN [d EXCEPT !.how = "shadow"] ELSE d]
    IN  Both(Learns(ValueOf(d), Made(ValueOf(d))), Made(ValueOf(d)))

-----------------------------------------------------------------------------
(* parseRange: its position, what it has grouped, and the frames that are   *)
(* open.  The node of a frame goes to its place when the frame is closed,   *)
(* the argument it fills in the frame below is counted when it is opened.   *)

Parser(n, ts, start, stop) ==
    [n |-> n, toks |-> ts, i |-> start, stop |-> stop, roots |-> <<>>, stack |-> <<>>]

Top(q)  == q.stack[Len(q.stack)]
Here(q) == q.toks[q.i]
Ahead(q, k) == q.i + k <= Len(q.toks)

Over(q) == q.i > Len(q.toks) \/ (q.stop /\ q.roots # <<>> /\ q.stack = <<>>)

Place(q, g) ==
    IF q.stack = <<>> THEN [q EXCEPT !.roots = Append(@, g)]
    ELSE [q EXCEPT !.stack[Len(q.stack)].node.args = Append(@, g)]

Count(q) == IF q.stack = <<>> THEN q ELSE [q EXCEPT !.stack[Len(q.stack)].needed = @ - 1]

Close(q) ==
    LET g == Top(q).node
        Leave(d) == Place([q EXCEPT !.stack = Front(@), !.n = d.n], d.d)
    IN  Leave(IF Top(q).needed <= 0 /\ g.kind = "define" THEN OnDefine(q.n, g) ELSE [n |-> q.n, d |-> g])

RECURSIVE Closed(_)
Closed(q) == IF q.stack # <<>> /\ Top(q).needed <= 0 THEN Closed(Close(q)) ELSE q
Rewind(q) == Closed(q)

RECURSIVE CloseAll(_)
CloseAll(q) == IF q.stack = <<>> THEN q ELSE CloseAll(Close(q))

Open(q, g, k) == [Count(q) EXCEPT !.stack = Append(@, [node |-> g, needed |-> k])]

AppendValue(q, g) == Rewind(Count(Place(q, g)))
Descend(q, g, k)  == Rewind(Open(q, g, k))

\* A value that becomes the first argument of the operator after it, if there is one.
AppendInfixAware(q, g) ==
    LET Aware(r) ==
            LET op == r.n.infix[r.toks[r.i + 1].text]
            IN  IF Ahead(r, 1) /\ r.toks[r.i + 1].kind = "symbol" /\ op # ""
                THEN [Open(r, Call(AliasTarget(op), <<>>),
                           IF op \in Builtins THEN BuiltinArity[op] ELSE ArityOf(r.n, op)) EXCEPT !.i = @ + 1]
                ELSE r
    IN  AppendValue(Aware(Rewind(q)), g)

RECURSIVE ParseRange(_, _, _, _)
ParseSeq(n, ts) == ParseRange(RegisterAliases(n, ts), ts, 1, FALSE)

\* One node for what a block is grouped to.
OneNode(roots) == IF Len(roots) = 1 THEN roots[1] ELSE Body(roots, <<>>)

SegNode(n, seg) ==
    LET Alone(sub) == [n |-> sub.n, g |-> OneNode(sub.roots)]
    IN  IF seg.kind # "block" THEN [n |-> n, g |-> Leaf(seg)] ELSE Alone(ParseSeq(n, seg.kids))

\* Reads along a path, all of its segments or all but the last.
Getter(f) == Name(f, "intrinsic")
Reads(getter, g, seg) == [n |-> seg.n, g |-> Call(Getter(getter), <<g, seg.g>>)]
PathGet(n, t, last, getter) ==
    LET Each(r, j) == Reads(IF j = Len(t.kids) THEN getter ELSE "get", r.g, SegNode(r.n, t.kids[j]))
    IN  FoldLeft(Each, [n |-> n, g |-> WordNode(n, t.text)], [j \in 1..last |-> j])

PathSetFrame(n, t) ==
    LET Sets(r) == Reads("set", r.g, SegNode(r.n, Last(t.kids)))
    IN  Sets(PathGet(n, t, Len(t.kids) - 1, "get"))

\* #[key: value ...]; the values are grouped each for itself.
RECURSIVE DictLit(_, _)
DictLit(n, ts) ==
    LET labels == SelectSeq([i \in 1..Len(ts) |-> i], LAMBDA i : ts[i].kind = "label")
        upTo(k) == IF k = Len(labels) THEN Len(ts) ELSE labels[k + 1] - 1
        value(k) == SubSeq(ts, labels[k] + 1, upTo(k))
        two(v, s) == Len(v) = 2 /\ IsSymbol(v[1], s) /\ v[2].kind = "block"
        Item(m, g) == [n |-> m, g |-> g]
        Parsed(sub) == Item(sub.n, OneNode(sub.roots))
        Entry(m, v) ==
            IF v = <<>> THEN Item(m, Name("null", "intrinsic"))
            ELSE IF two(v, "@") THEN Item(m, Block(v[2].kids, "evaluated"))
            ELSE IF two(v, "#") THEN DictLit(m, v[2].kids) ELSE Parsed(ParseSeq(m, v))
        Adds(d, label, e) == Item(e.n, [d EXCEPT !.args = Append(@, e.g), !.toks = Append(@, label)])
        Each(r, k) == Adds(r.g, ts[labels[k]], Entry(r.n, value(k)))
    IN  FoldLeft(Each, [n |-> n, g |-> Node("dict", "", "", <<>>)], [k \in 1..Len(labels) |-> k])

-----------------------------------------------------------------------------
(* The thick arrow: a block of parameters and a block of code               *)

Hole(k) == Word(<<"x1", "x2", "x3">>[k])
IsHole(t) == IsSymbol(t, "&")
Filled(ts) ==
    LET upTo(j) == Cardinality({k \in 1..j : IsHole(ts[k])})
    IN  [params |-> [k \in 1..upTo(Len(ts)) |-> Hole(k)],
         code   |-> [j \in 1..Len(ts) |-> IF IsHole(ts[j]) THEN Hole(upTo(j)) ELSE ts[j]]]

Uses(k, params, code) == [used |-> k, params |-> params, code |-> code]
Thick(q) ==
    LET f == q.toks[q.i + 1]
        a == IF Ahead(q, 1) /\ f.kind = "word" THEN ArityOf(q.n, f.text) ELSE 0
        next(k) == SubSeq(q.toks, q.i + 2, IF Ahead(q, 1 + k) THEN q.i + 1 + k ELSE Len(q.toks))
        Applies(k) ==
            LET explicit == Filled(next(k))
                holes == [j \in 1..k |-> Hole(j)]
            IN  IF explicit.params # <<>> THEN Uses(1 + k, explicit.params, <<f>> \o explicit.code)
                ELSE IF k > 1 /\ Ahead(q, 2) /\ q.toks[q.i + 2].kind # "word"
                THEN Uses(k, <<Hole(1)>>, <<f, Hole(1)>> \o next(k - 1))
                ELSE Uses(1, holes, <<f>> \o holes)
    IN  IF ~Ahead(q, 1) THEN Uses(0, <<>>, <<>>)
        ELSE IF f.kind = "block" THEN Uses(1, Filled(f.kids).params, Filled(f.kids).code)
        ELSE IF a <= 0 THEN Uses(1, <<>>, <<f>>)
        ELSE Applies(a)

ThickArrow(q) ==
    LET Blocks(t) == [AppendValue(AppendValue(q, Block(t.params, "raw")), Block(t.code, "raw")) EXCEPT !.i = @ + t.used]
    IN  Blocks(Thick(q))

-----------------------------------------------------------------------------
(* One token                                                               *)

\* As ReadLabel, when the word has its meaning before its value is read.
ReadLabelAtOnce(q) ==
    LET g == Node("define", Here(q).text, "", <<>>) IN Descend([q EXCEPT !.n = OnDefine(q.n, g).n], g, 1)

ReadLabel(q) == Descend(q, Node("define", Here(q).text, "", <<>>), 1)

\* A word that names a builtin or function, or an alias for one.
Opening(q, g) ==
    LET Opens(a) == IF a > 0 THEN Descend(q, Call(g, <<>>), a)
                    ELSE AppendInfixAware(q, IF a = 0 THEN Call(g, <<>>) ELSE g)
    IN  Opens(ArityOf(q.n, g.name))

ReadWord(q) == Opening(q, WordNode(q.n, Here(q).text))

\* What stands behind the token, up to the end of one value.
Behind(q) == ParseRange(q.n, q.toks, q.i + 1, TRUE)

\* With what has been read behind the token as a value, in place of it.
Takes(q, sub, g) == [AppendInfixAware([q EXCEPT !.n = sub.n], g) EXCEPT !.i = sub.i - 1]

ReadArrow(q) ==
    LET Arrow(sub) == Takes(q, sub, Body(sub.roots, SubSeq(q.toks, q.i + 1, sub.i - 1)))
    IN  Arrow(Behind(q))

\* @ in front of something else than a block converts it to one.
ReadAt(q) ==
    LET type == Leaf(Token("type", "block", <<>>))
        Converts(sub) == IF sub.roots = <<>> THEN q
                         ELSE Takes(q, sub, Call(Name("to", "intrinsic"), <<type, sub.roots[1]>>))
    IN  IF Ahead(q, 1) /\ q.toks[q.i + 1].kind = "block"
        THEN AppendInfixAware([q EXCEPT !.i = @ + 1], Block(q.toks[q.i + 1].kids, "evaluated"))
        ELSE Converts(Behind(q))

ReadHash(q) ==
    LET Dict(d) == AppendInfixAware([q EXCEPT !.i = @ + 1, !.n = d.n], d.g)
    IN  IF Ahead(q, 1) /\ q.toks[q.i + 1].kind = "block" THEN Dict(DictLit(q.n, q.toks[q.i + 1].kids))
        ELSE AppendInfixAware(q, Leaf(Here(q)))

ReadSymbol(q) ==
    LET s == Here(q).text
    IN  CASE s = "=>" -> ThickArrow(q)
          [] s = "->" -> ReadArrow(q)
          [] s = "$"  -> Descend(q, Call(Name("function", "intrinsic"), <<>>), 2)
          [] s = "#"  -> ReadHash(q)
          [] s = "@"  -> ReadAt(q)
          [] OTHER    -> IF q.n.prefix[s] # "" THEN Opening(q, AliasTarget(q.n.prefix[s]))
                         ELSE AppendInfixAware(q, Leaf(Here(q)))

ReadPath(q) ==
    LET Along(r) == AppendInfixAware([q EXCEPT !.n = r.n], r.g)
    IN  Along(PathGet(q.n, Here(q), Len(Here(q).kids), "pathGet"))

ReadPathLabel(q) ==
    LET Sets(r) == Open([q EXCEPT !.n = r.n], r.g, 1) IN Sets(PathSetFrame(q.n, Here(q)))

\* An attribute belongs to the call that is open; elsewhere it is a value.
ReadAttr(q) ==
    LET Attach(r, g) == [r EXCEPT !.stack[Len(r.stack)].node.attrs = Append(@, <<Here(q).text, g>>)]
        Valued(sub) == IF sub.roots = <<>> THEN q
                       ELSE [Attach(q, sub.roots[1]) EXCEPT !.n = sub.n, !.i = sub.i - 1]
    IN  IF q.stack = <<>> \/ Top(q).node.kind # "call" THEN AppendInfixAware(q, Leaf(Here(q)))
        ELSE IF Here(q).kind = "attr" THEN Attach(q, Name("true", "intrinsic"))
        ELSE Valued(Behind(q))

ReadValue(q) ==
    LET t == Here(q)
    IN  AppendInfixAware(q, IF t.kind = "block" THEN Block(t.kids, "raw")
                            ELSE IF t.kind = "inline" THEN [Block(t.kids, "") EXCEPT !.kind = "inline"]
                            ELSE Leaf(t))

Read(q) ==
    CASE Here(q).kind = "label"                 -> ReadLabel(q)
      [] Here(q).kind = "word"                  -> ReadWord(q)
      [] Here(q).kind = "symbol"                -> ReadSymbol(q)
      [] Here(q).kind = "path"                  -> ReadPath(q)
      [] Here(q).kind = "pathlabel"             -> ReadPathLabel(q)
      [] Here(q).kind \in {"attr", "attrlabel"} -> ReadAttr(q)
      [] OTHER                                  -> ReadValue(q)

Onward(q) == [q EXCEPT !.i = @ + 1]
Step(q) == Onward(Read(q))

RECURSIVE ParseToEnd(_)
ParseToEnd(q) == IF Over(q) THEN CloseAll(q) ELSE ParseToEnd(Step(q))
ParseRange(n, ts, start, stop) == ParseToEnd(Parser(n, ts, start, stop))

-----------------------------------------------------------------------------
(* The program                                                             *)

Init(ts) == toks = ts /\ p = Parser(RegisterAliases(Known, ts), ts, 1, FALSE)

Reading(kinds) == ~Over(p) /\ Here(p).kind \in kinds /\ UNCHANGED toks

Label     == Reading({"label"})            /\ p' = Onward(ReadLabel(p))
NameWord  == Reading({"word"})             /\ p' = Onward(ReadWord(p))
Symbol    == Reading({"symbol"})           /\ p' = Onward(ReadSymbol(p))
Path      == Reading({"path"})             /\ p' = Onward(ReadPath(p))
PathLabel == Reading({"pathlabel"})        /\ p' = Onward(ReadPathLabel(p))
Attr      == Reading({"attr", "attrlabel"}) /\ p' = Onward(ReadAttr(p))
Value     == Reading({"literal", "constant", "string", "block", "inline"}) /\ p' = Onward(ReadValue(p))

\* Calls that miss arguments stay as they are.
End == Over(p) /\ p.stack # <<>> /\ p' = CloseAll(p) /\ UNCHANGED toks

Next == Label \/ NameWord \/ Symbol \/ Path \/ PathLabel \/ Attr \/ Value \/ End

Grouped == Over(p) /\ p.stack = <<>>

-----------------------------------------------------------------------------
(* The grammar: the same language read from the top down.  Each operator    *)
(* gives the node it reads, where the next begins, and the words known.     *)

RECURSIVE Expr(_, _, _)

Gives(n, i, g) == [n |-> n, i |-> i, g |-> g]

\* k more arguments for a call or a definition, with the attributes among them.
RECURSIVE Arguments(_, _, _, _, _)
Arguments(n, ts, i, g, k) ==
    LET t == ts[i]
        With(a) == [g EXCEPT !.attrs = Append(@, <<t.text, a>>)]
        Argument(e) == Arguments(e.n, ts, e.i, [g EXCEPT !.args = Append(@, e.g)], k - 1)
        Attribute(v) == Arguments(v.n, ts, v.i, With(v.g), k)
        Arrow(thick) == Arguments(n, ts, i + 1 + thick.used,
                                  [g EXCEPT !.args = @ \o <<Block(thick.params, "raw"), Block(thick.code, "raw")>>], k - 2)
    IN  IF k <= 0 \/ i > Len(ts) THEN Gives(n, i, g)
        ELSE IF g.kind = "call" /\ t.kind = "attr"
        THEN Arguments(n, ts, i + 1, With(Name("true", "intrinsic")), k)
        ELSE IF g.kind = "call" /\ t.kind = "attrlabel"
        THEN IF i = Len(ts) THEN Gives(n, i + 1, g) ELSE Attribute(Expr(n, ts, i + 1))
        ELSE IF IsSymbol(t, "=>") /\ k > 1 THEN Arrow(Thick(Parser(n, ts, i, TRUE)))
        ELSE Argument(Expr(n, ts, i))

\* A value, or the operation whose first argument it is.
Operation(n, ts, i, g) ==
    LET op == n.infix[ts[i].text]
    IN  IF i <= Len(ts) /\ ts[i].kind = "symbol" /\ op # ""
        THEN Arguments(n, ts, i + 1, Call(AliasTarget(op), <<g>>),
                       (IF op \in Builtins THEN BuiltinArity[op] ELSE ArityOf(n, op)) - 1)
        ELSE Gives(n, i, g)

Applied(n, ts, i, g) ==
    LET With(a) == IF a > 0 THEN Arguments(n, ts, i + 1, Call(g, <<>>), a)
                   ELSE Operation(n, ts, i + 1, IF a = 0 THEN Call(g, <<>>) ELSE g)
    IN  With(ArityOf(n, g.name))

\* A definition counts as soon as its value is there.
Definition(n, ts, i) ==
    LET Counts(d, next) == Gives(d.n, next, d.d)
        Complete(r) == IF r.g.args = <<>> THEN r ELSE Counts(OnDefine(r.n, r.g), r.i)
    IN  Complete(Arguments(n, ts, i + 1, Node("define", ts[i].text, "", <<>>), 1))

Expr(n, ts, i) ==
    LET t == ts[i]
        next(s) == IsSymbol(t, s) /\ i < Len(ts)
        Along(r) == Operation(r.n, ts, i + 1, r.g)
        Sets(r) == Arguments(r.n, ts, i + 1, r.g, 1)
        Dict(d) == Operation(d.n, ts, i + 2, d.g)
        Arrow(e) == Gives(e.n, e.i, Body(<<e.g>>, SubSeq(ts, i + 1, e.i - 1)))
        Converts(e) == Gives(e.n, e.i, Call(Name("to", "intrinsic"), <<Leaf(Token("type", "block", <<>>)), e.g>>))
    IN  CASE t.kind = "label"     -> Definition(n, ts, i)
          [] t.kind = "word"      -> Applied(n, ts, i, WordNode(n, t.text))
          [] t.kind = "path"      -> Along(PathGet(n, t, Len(t.kids), "pathGet"))
          [] t.kind = "pathlabel" -> Sets(PathSetFrame(n, t))
          [] IsSymbol(t, "->") ->
                IF i = Len(ts) THEN Gives(n, i + 1, Body(<<>>, <<>>)) ELSE Arrow(Expr(n, ts, i + 1))
          [] IsSymbol(t, "$") -> Arguments(n, ts, i + 1, Call(Name("function", "intrinsic"), <<>>), 2)
          [] next("#") /\ ts[i + 1].kind = "block" -> Dict(DictLit(n, ts[i + 1].kids))
          [] next("@") /\ ts[i + 1].kind = "block" -> Operation(n, ts, i + 2, Block(ts[i + 1].kids, "evaluated"))
          [] next("@") /\ ts[i + 1].kind # "block" -> Converts(Expr(n, ts, i + 1))
          [] t.kind = "symbol" /\ n.prefix[t.text] # "" -> Applied(n, ts, i, AliasTarget(n.prefix[t.text]))
          [] OTHER -> Operation(n, ts, i + 1,
                                CASE t.kind = "block"  -> Block(t.kids, "raw")
                                  [] t.kind = "inline" -> [Block(t.kids, "") EXCEPT !.kind = "inline"]
                                  [] OTHER             -> Leaf(t))

RECURSIVE Grammar(_, _, _)
Grammar(n, ts, i) ==
    LET First(e) == <<e.g>> \o Grammar(e.n, ts, e.i)
    IN  IF i > Len(ts) THEN <<>> ELSE First(Expr(n, ts, i))

-----------------------------------------------------------------------------
(* Properties                                                              *)

TypeOK ==
    /\ p.i \in 1..(Len(toks) + 1)
    /\ p.stack # <<>> => Top(p).needed > 0
    /\ p.n.callable \subseteq p.n.defined /\ p.n.shadowed \subseteq Builtins \cap p.n.defined

\* "left-to-right build, a word's declared arity opens a call frame ...": the frames
\* build what a reading of the grammar from the top down gives, attributes, bodies,
\* operators and words that change their meaning half way included.
GroupedAsGrammar == Grouped => p.roots = Grammar(RegisterAliases(Known, toks), toks, 1)
=============================================================================
