------------------------------- MODULE Stored -------------------------------
(* The evaluator of stored blocks in runtime.c: the tokens of a block that   *)
(* is a value are grouped and run at once, every time the block is run.      *)
(* Which tokens belong to a call is decided by a table of arities for some   *)
(* builtins, by a search for the end of the statement for the others.        *)
(*                                                                          *)
(* A token is a record as in Grouping.  A token of kind "string" stands for  *)
(* a string, which the evaluator takes for the word it spells.  A dynamic    *)
(* path is one variable; names, values and states are those of IR.           *)
EXTENDS IR

CONSTANTS
    Constants,  \* for each literal and constant its value
    Known,      \* rt_builtin_known
    Fixed,      \* fn_arity: for each word its arity, -1 for a search
    Verbatim,   \* block_arg: the words and argument positions that take a block as it is
    Binop,      \* binop_name: for each symbol its builtin, or ""
    Hidable     \* is_shadowable

VARIABLES
    it,         \* the tokens of the block
    at,         \* the token that is next
    state,      \* variables, output, signal
    value       \* of the last statement

Wordy(t)   == t.kind \in {"word", "string"}
IsBinop(t) == t.kind \in {"symbol", "string"} /\ t.text \in DOMAIN Binop /\ Binop[t.text] # ""
IsIf(t)    == Wordy(t) /\ t.text = "if"

\* "@LBL:x" for a label, and the symbol between a condition and a statement, are
\* recognised among strings.
IsLabel(t) == t.kind = "label"
IsArrow(t) == t.kind = "string" /\ t.text = "->"

StartsStmt(t) == t.kind = "path" \/ IsLabel(t) \/ (t.kind = "string" /\ t.text = "if")

\* Where the search for arguments ends: a path is an argument unless it is assigned.
ArgBoundary(ts, i) ==
    IF ts[i].kind = "path" THEN i < Len(ts) /\ ~IsBinop(ts[i + 1]) /\ ~StartsStmt(ts[i + 1])
    ELSE IsArrow(ts[i]) \/ StartsStmt(ts[i])

Bound(s, t) == t.text \in Names /\ s.env[t.text] # None
Data(t)     == IF t.kind \in {"literal", "constant"} THEN Constants[t.text] ELSE <<"token", t.text>>

\* What an evaluation gives: the value, the state, and where the next token is.
Yields(v, s, i) == [v |-> v, s |-> s, i |-> i]
Up(q, i) == Yields(q.v, q.s, i)
Halted(r) == r.s.sig # "none"

RECURSIVE EvalExpr(_, _, _)
RECURSIVE EvalSeq(_, _)
RECURSIVE Statement(_, _)

\* What is evaluated is carried along: r.v has the arguments so far.
More(r, e) == [e EXCEPT !.v = Append(r.v, @)]

\* Attributes behind the word that is called; their values are evaluated.
RECURSIVE CollectBlockAttrs(_, _)
CollectBlockAttrs(r, ts) ==
    IF r.i > Len(ts) \/ ts[r.i].kind \notin {"attr", "attrlabel"} THEN [r EXCEPT !.v = <<>>]
    ELSE IF ts[r.i].kind = "attr" THEN CollectBlockAttrs([r EXCEPT !.i = @ + 1], ts)
    ELSE CollectBlockAttrs(EvalExpr(r.s, ts, r.i + 1), ts)

\* The arguments of a call up to the end of its statement.
RECURSIVE Searched(_, _)
Searched(r, ts) ==
    IF r.i > Len(ts) \/ Halted(r) \/ IsBinop(ts[r.i]) \/ ArgBoundary(ts, r.i) THEN r
    ELSE Searched(More(r, EvalExpr(r.s, ts, r.i)), ts)

\* A known number of arguments, some of them blocks that are not evaluated.
RECURSIVE Taken(_, _, _, _)
Taken(r, ts, w, k) ==
    IF k = 0 \/ r.i > Len(ts) \/ Halted(r) THEN r
    ELSE Taken(More(r, IF <<w, Len(r.v)>> \in Verbatim /\ ts[r.i].kind = "block"
                       THEN Yields(<<"code", ts[r.i].kids>>, r.s, r.i + 1)
                       ELSE EvalExpr(r.s, ts, r.i)), ts, w, k - 1)

\* A builtin with the arguments found for it; it sees the first it needs.
Builtin(f, r) ==
    IF Halted(r) THEN Yields(Null, r.s, r.i)
    ELSE Up(IF f # "do" THEN Primitive(f, r.v, r.s)
            ELSE IF r.v[1][1] = "code" THEN EvalSeq(r.s, r.v[1][2]) ELSE Says(r.v[1], r.s), r.i)

ParsePrimary(s, ts, i) ==
    LET t == ts[i]
        w == t.text
        operand == i < Len(ts) /\ IsBinop(ts[i + 1])
        Called(a) == Builtin(w, IF Fixed[w] >= 0 THEN Taken(a, ts, w, Fixed[w]) ELSE Searched(a, ts))
    IN  CASE t.kind \in {"block", "inline"} -> Up(EvalSeq(s, t.kids), i + 1)
          [] Wordy(t) /\ i < Len(ts) /\ w \in Known /\ (~Bound(s, t) \/ w \notin Hidable) ->
                IF operand \/ (Fixed[w] >= 0 /\ i + Fixed[w] > Len(ts)) THEN Yields(Data(t), s, i + 1)
                ELSE Called(CollectBlockAttrs(Yields(<<>>, s, i + 1), ts))
          [] t.kind = "path" \/ (Wordy(t) /\ Bound(s, t) /\ (i = Len(ts) \/ w \notin Known \ Hidable)) ->
                Yields(s.env[w], s, i + 1)
          [] OTHER -> Yields(Data(t), s, i + 1)

\* Operands and operators from the left, then the operators from the right: one
\* precedence, right-associative.
RECURSIVE Chain(_, _, _)
Chain(r, ts, got) ==
    IF r.i < Len(ts) /\ IsBinop(ts[r.i]) /\ ~Halted(r)
    THEN Chain(ParsePrimary(r.s, ts, r.i + 1), ts, got \o <<r.v, ts[r.i]>>)
    ELSE [r EXCEPT !.v = Append(got, @)]

Combine(v, op, q) == IF q.s.sig # "none" THEN q ELSE Primitive(Binop[op.text], <<v, q.v>>, q.s)

\* As Applied, from the left.
RECURSIVE AppliedLeft(_, _)
AppliedLeft(s, chain) ==
    LET n == Len(chain) IN
    IF n = 1 \/ s.sig # "none" THEN Says(chain[1], s)
    ELSE LET Last2(q) == IF q.s.sig # "none" THEN q
                         ELSE Primitive(Binop[chain[n - 1].text], <<q.v, chain[n]>>, q.s)
         IN  Last2(AppliedLeft(s, SubSeq(chain, 1, n - 2)))

RECURSIVE AppliedRight(_, _)
AppliedRight(s, chain) ==
    IF Len(chain) = 1 \/ s.sig # "none" THEN Says(chain[1], s)
    ELSE Combine(chain[1], chain[2], AppliedRight(s, SubSeq(chain, 3, Len(chain))))
Applied(s, chain) == AppliedRight(s, chain)

\* (Behind the last token the code reads on; no block of the model gets there.)
EvalExpr(s, ts, i) ==
    LET Result(c) == Up(Applied(c.s, c.v), c.i)
    IN  Result(Chain(ParsePrimary(s, ts, i), ts, <<>>))

Bind(r, w) == IF Halted(r) THEN r ELSE [r EXCEPT !.s.env[w] = r.v]

\* A path in front of a value, unless that is an operator.
Assigned(ts, i) == ts[i].kind = "path" /\ i < Len(ts) /\ ~IsBinop(ts[i + 1])

\* One statement: a definition, an assignment to a path, or an expression.
EvalStmt(s, ts, i) ==
    IF IsLabel(ts[i]) \/ Assigned(ts, i) THEN Bind(EvalExpr(s, ts, i + 1), ts[i].text) ELSE EvalExpr(s, ts, i)

-----------------------------------------------------------------------------
(* Passing over a statement that is not run                                 *)

RECURSIVE SkipExpr(_, _, _)
RECURSIVE SkipWhile(_, _, _)
SkipWhile(s, ts, i) ==
    IF i > Len(ts) \/ IsBinop(ts[i]) \/ ArgBoundary(ts, i) THEN i ELSE SkipWhile(s, ts, SkipExpr(s, ts, i))

SkipPrimary(s, ts, i) ==
    IF ts[i].kind = "string" /\ ts[i].text \in Known /\ ~Bound(s, ts[i]) THEN SkipWhile(s, ts, i + 1) ELSE i + 1

RECURSIVE SkipChain(_, _, _)
SkipChain(s, ts, i) ==
    IF i < Len(ts) /\ IsBinop(ts[i]) THEN SkipChain(s, ts, SkipPrimary(s, ts, i + 1)) ELSE i

SkipExpr(s, ts, i) == SkipChain(s, ts, SkipPrimary(s, ts, i))

\* As SkipStmt, when an assignment to a path is passed over like a read of it.
SkipStmtLabel(s, ts, i) == IF IsLabel(ts[i]) THEN SkipExpr(s, ts, i + 1) ELSE SkipExpr(s, ts, i)

SkipStmt(s, ts, i) ==
    IF IsLabel(ts[i]) \/ (ts[i].kind = "path" /\ i < Len(ts)) THEN SkipExpr(s, ts, i + 1) ELSE SkipExpr(s, ts, i)

-----------------------------------------------------------------------------
(* evalSeq                                                                  *)

\* if: the statement behind an arrow, or the block behind the condition; r.v is the
\* value so far.
EvalIf(r, ts) ==
    LET Then(c) ==
            LET block == c.i <= Len(ts) /\ ts[c.i].kind = "block"
                arrow == c.i < Len(ts) /\ IsArrow(ts[c.i])
            IN  IF Halted(c) \/ ~(arrow \/ block) THEN c
                ELSE IF ~Truthy(c.v)
                THEN Yields(r.v, c.s, IF arrow THEN SkipStmt(c.s, ts, c.i + 1) ELSE c.i + 1)
                ELSE IF arrow THEN EvalStmt(c.s, ts, c.i + 1)
                ELSE Up(EvalSeq(c.s, ts[c.i].kids), c.i + 1)
    IN  Then(EvalExpr(r.s, ts, r.i + 1))

\* switch: one of the two blocks behind the condition.
EvalSwitch(r, ts) ==
    LET Then(c) ==
            LET blocks == c.i < Len(ts) /\ ts[c.i].kind = "block" /\ ts[c.i + 1].kind = "block"
            IN  IF Halted(c) \/ ~blocks THEN c
                ELSE Up(EvalSeq(c.s, ts[IF Truthy(c.v) THEN c.i ELSE c.i + 1].kids), c.i + 2)
    IN  Then(EvalExpr(r.s, ts, r.i + 1))

\* An assignment to a path has no value here.
Statement(r, ts) ==
    CASE IsIf(ts[r.i]) -> EvalIf(r, ts)
      [] Wordy(ts[r.i]) /\ ts[r.i].text = "switch" -> EvalSwitch(r, ts)
      [] Assigned(ts, r.i) -> [EvalStmt(r.s, ts, r.i) EXCEPT !.v = r.v]
      [] OTHER -> EvalStmt(r.s, ts, r.i)

RECURSIVE EvalFrom(_, _)
EvalFrom(r, ts) == IF r.i > Len(ts) \/ Halted(r) THEN r ELSE EvalFrom(Statement(r, ts), ts)
EvalSeq(s, ts) == EvalFrom(Yields(Null, s, 1), ts)

Init(ts) == it = ts /\ at = 1 /\ state = Start /\ value = Null

Run1 ==
    /\ at <= Len(it) /\ state.sig = "none"
    /\ \E r \in {Statement(Yields(value, state, at), it)} : at' = r.i /\ state' = r.s /\ value' = r.v
    /\ UNCHANGED it

Over == at > Len(it) \/ state.sig # "none"

-----------------------------------------------------------------------------
(* Properties                                                              *)

TypeOK ==
    /\ at \in 1..(Len(it) + 1)
    /\ \A x \in Names : state.env[x][1] \in {"none", "int", "bool", "null", "token", "code"}

\* What the two walks are known to read differently: a path that heads a statement and
\* is read by an operator, words with a fixed number of arguments, words that are not
\* strings, and the values of attributes.
ReadAlike(ts, i, j) ==
    /\ ~(ts[i].kind = "path" /\ i < Len(ts) /\ IsBinop(ts[i + 1]))
    /\ \A k \in i..(j - 1) :
        /\ ts[k].kind # "attrlabel"
        /\ Wordy(ts[k]) /\ ts[k].text \in Known => ts[k].kind = "string" /\ Fixed[ts[k].text] < 0

\* Where a statement begins, next or behind an arrow.
Heads == {k \in {at} \cup {i \in 2..Len(it) : IsArrow(it[i - 1])} : k <= Len(it) /\ ~IsIf(it[k])}

\* "Mirrors evalExpr/parsePrimary traversal only": passing over a statement ends where
\* running it ends, if it has none of what the two read differently.
SkipsWhatRuns ==
    \A k \in Heads :
        LET Ends(r) == ~Halted(r) /\ ReadAlike(it, k, r.i) => SkipStmt(state, it, k) = r.i
        IN  Ends(EvalStmt(state, it, k))

\* "structural skip of one statement (mirrors evalStmt)": it ends where evalStmt ends.
\* The code does not keep it for a path that is read by an operator.
MirrorsEvalStmt ==
    \A k \in Heads :
        LET Ends(r) == ~Halted(r) => SkipStmt(state, it, k) = r.i
        IN  Ends(EvalStmt(state, it, k))
=============================================================================
