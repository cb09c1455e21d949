------------------------------- MODULE Blocks -------------------------------
(***************************************************************************)
(* Blocks of src/runtime/runtime.c and the intrinsics that iterate over    *)
(* them.  A block is a body every copy of its value refers to: an array of *)
(* pointers to cells, a count and a capacity.  Operations change it in     *)
(* place, also while an iteration over it is between two of its items.     *)
(*                                                                         *)
(* One iteration is modelled at a time: one that runs inside the action of *)
(* another touches the blocks as other operations do.  Items are small     *)
(* values, and the receiver of an operation is a block already resolved.   *)
(***************************************************************************)
EXTENDS Integers, Sequences, SequencesExt, FiniteSets

CONSTANTS
    Vals,      \* values of items, integers
    Literals,  \* what the program text may hold: sequences of blocks of values
    Widths,    \* parameters of an action
    MaxLen,    \* bound of the model: items of a block that grows
    MaxBlocks, \* bound of the model: blocks
    MaxOps,    \* bound of the model: operations
    SelfAppend \* may a block be appended to itself?

ASSUME BlocksAssumption ==
    /\ Vals \subseteq Int /\ Literals \subseteq Seq(Seq(Vals)) /\ Widths \subseteq Nat \ {0}
    /\ MaxLen \in Nat /\ MaxBlocks \in Nat /\ MaxOps \in Nat /\ SelfAppend \in BOOLEAN

VARIABLES
    val,     \* for every cell, its value
    block,   \* for every block: items, the slots written so far, n, cap
    iter,    \* the iteration that runs, or None
    ops,     \* history: operations so far
    from,    \* history: what the iteration, sort or append began with
    seen,    \* history: its rounds, [chunk, r]
    touched, \* history: was the block changed meanwhile?
    last     \* history: what ended last, [kind, lim, from, seen, out], or None

history == <<ops, from, seen, touched, last>>
vars == <<val, block, iter, history>>

None == [kind |-> "none"]
Null == -1
Skip == 2 \* the action was left by continue
Stop == 3 \* by break, return or an error caught in it

Live(b) == SubSeq(block[b].items, 1, block[b].n)
Values(cells) == [i \in 1..Len(cells) |-> val[cells[i]]]
Items(b) == Values(Live(b))
Blocks == 1..Len(block)

-----------------------------------------------------------------------------
(* Bodies.                                                                 *)

\* block_grow doubles, from 4 or from what there is.
Grown(cap, need) ==
    LET grown[i \in 0..need] ==
            IF i = 0 THEN IF cap = 0 THEN 4 ELSE cap
            ELSE IF grown[i - 1] >= need THEN grown[i - 1] ELSE 2 * grown[i - 1]
    IN  IF cap >= need THEN cap ELSE grown[need]

\* The live items of a body become cells; slots behind them keep what they
\* held, and the array never shrinks.
Body(old, cells) ==
    [items |-> cells \o SubSeq(old.items, Len(cells) + 1, Len(old.items)),
     n |-> Len(cells), cap |-> Grown(old.cap, Len(cells))]

NewBody(cells) == [items |-> cells, n |-> Len(cells), cap |-> Len(cells)]

Fresh(k) == [i \in 1..k |-> Len(val) + i]

-----------------------------------------------------------------------------
(* What operations leave of a sequence of cells: the positions they keep.  *)

\* The cells at some positions, in order.
At(cells, kept) ==
    LET upTo[i \in 0..Len(cells)] ==
            IF i = 0 THEN <<>>
            ELSE IF i \in kept THEN Append(upTo[i - 1], cells[i]) ELSE upTo[i - 1]
    IN  upTo[Len(cells)]

Where(cells, v) == {i \in 1..Len(cells) : val[cells[i]] = v}
First(at) == {i \in at : \A j \in at : i <= j}

\* b_remove of a block: occurrences of the needle, from the left, or one.
WithoutRun(cells, needle, once) ==
    LET k == Len(needle)
        kept[i \in 1..Len(cells) + 1] ==
            IF i > Len(cells) THEN {}
            ELSE IF k > 0 /\ i + k - 1 <= Len(cells)
                          /\ Values(SubSeq(cells, i, i + k - 1)) = needle
                 THEN IF once THEN (i + k)..Len(cells) ELSE kept[i + k]
            ELSE {i} \cup kept[i + 1]
    IN  kept[1]

\* unique keeps the first of equal items, squeeze the first of a run.
Unique(cells) == {i \in 1..Len(cells) : \A j \in 1..(i - 1) : val[cells[j]] # val[cells[i]]}
Squeeze(cells) == {i \in 1..Len(cells) : i = 1 \/ val[cells[i - 1]] # val[cells[i]]}

Among(cells, s) == {i \in 1..Len(cells) : val[cells[i]] \in ToSet(Items(s))}

\* sort_block_items merges runs of 1, 2, 4, ..., an item of the right run
\* first only if it is smaller.
TakesRight(x, y) == val[x] > val[y]

\* The cells behind lo up to mid and those up to hi.
Merge(cells, lo, mid, hi) ==
    LET to[k \in 0..(hi - lo)] ==
            IF k = 0 THEN [out |-> <<>>, i |-> lo + 1, j |-> mid + 1]
            ELSE LET s == to[k - 1] IN
                 IF s.i > mid \/ (s.j <= hi /\ TakesRight(cells[s.i], cells[s.j]))
                 THEN [out |-> Append(s.out, cells[s.j]), i |-> s.i, j |-> s.j + 1]
                 ELSE [out |-> Append(s.out, cells[s.i]), i |-> s.i + 1, j |-> s.j]
    IN  to[hi - lo].out

Least(i, j) == IF i < j THEN i ELSE j

Pass(cells, width) ==
    LET n == Len(cells)
        to[r \in 0..n] ==
            IF r = 0 THEN [out |-> <<>>, lo |-> 0]
            ELSE LET s == to[r - 1]
                     hi == Least(s.lo + 2 * width, n)
                 IN  IF s.lo >= n THEN s
                     ELSE [out |-> s.out \o Merge(cells, s.lo, Least(s.lo + width, n), hi), lo |-> hi]
    IN  to[n].out

Sorted(cells) ==
    LET n == Len(cells)
        to[r \in 0..n] ==
            IF r = 0 THEN [src |-> cells, width |-> 1]
            ELSE LET s == to[r - 1] IN
                 IF s.width >= n THEN s ELSE [src |-> Pass(s.src, s.width), width |-> 2 * s.width]
    IN  to[n].src

-----------------------------------------------------------------------------
(* Operations.  An error (an empty block popped, an index out of range)    *)
(* changes nothing and is left out.                                        *)

\* The values of the first b blocks of the text.
Joined(l) ==
    LET upTo[b \in 0..Len(l)] == IF b = 0 THEN <<>> ELSE upTo[b - 1] \o l[b]
    IN  upTo

Init ==
    /\ \E l \in Literals :
          /\ val = Joined(l)[Len(l)]
          /\ block = [b \in 1..Len(l) |->
                NewBody([i \in 1..Len(l[b]) |-> Len(Joined(l)[b - 1]) + i])]
    /\ iter = None
    /\ ops = 0 /\ from = <<>> /\ seen = <<>> /\ touched = FALSE /\ last = None

\* Code runs outside of iterations and in the action of one.
Operates == (iter # None => iter.acting) /\ ops < MaxOps /\ ops' = ops + 1

\* What an iteration promises of a block that is changed is not recorded.
Touch(now) ==
    /\ touched' = (touched \/ (now /\ iter # None))
    /\ from' = IF touched' THEN <<>> ELSE from
    /\ seen' = IF touched' THEN <<>> ELSE seen
    /\ UNCHANGED iter

Touches(b) == Touch(iter # None /\ iter.coll = b)

ToBody(b, cells) ==
    /\ Len(cells) <= MaxLen
    /\ block' = [block EXCEPT ![b] = Body(@, cells)]
    /\ Touches(b)

InsertMovesOneMore(b, at, v) ==
    /\ Operates /\ at \in 1..block[b].n
    /\ ToBody(b, SubSeq(Live(b), 1, at) \o Fresh(1) \o SubSeq(Live(b), at, block[b].n))
    /\ val' = Append(val, v)
    /\ last' = None

\* append of a value, and insert and prepend: a new cell.
Insert(b, at, v) ==
    /\ Operates /\ at \in 0..block[b].n
    /\ ToBody(b, SubSeq(Live(b), 1, at) \o Fresh(1) \o SubSeq(Live(b), at + 1, block[b].n))
    /\ val' = Append(val, v)
    /\ last' = None

\* append of a block copies its items; b grows once, by what s had.
AppendBlock(b, s) ==
    /\ Operates /\ s # b
    /\ ToBody(b, Live(b) \o Fresh(block[s].n))
    /\ val' = val \o Items(s)
    /\ last' = None

\* Appending b to itself the loop bound grows with b: unless it is empty, the
\* loop writes on behind the array until something breaks.
AppendSelf(b) ==
    /\ block[b].n = 0 \/ SelfAppend
    /\ Operates
    /\ LET more == Fresh(Grown(block[b].cap, 2 * block[b].n) + 1) IN
       IF block[b].n = 0 THEN last' = None /\ UNCHANGED <<val, block>>
       ELSE /\ val' = val \o [i \in 1..Len(more) |-> Items(b)[((i - 1) % block[b].n) + 1]]
            /\ block' = [block EXCEPT ![b].items = Live(b) \o more, ![b].n = @ + Len(more)]
            /\ last' = [kind |-> "append", from |-> Items(b) \o Items(b),
                        out |-> [i \in 1..block'[b].n |-> val'[block'[b].items[i]]]]
    /\ Touches(b)

Union(b, s) ==
    /\ Operates
    /\ LET new == At(Items(s), {i \in 1..block[s].n : Items(s)[i] \notin ToSet(Items(b))})
           once == At(new, {i \in 1..Len(new) : \A j \in 1..(i - 1) : new[j] # new[i]})
       IN  ToBody(b, Live(b) \o Fresh(Len(once))) /\ val' = val \o once
    /\ last' = None

\* Operations that only drop pointers: pop, chop and empty; remove of an index,
\* a value or a run; unique, squeeze, difference and intersection.
Kept(b) ==
    LET cells == Live(b)
        all == 1..block[b].n
    IN  {1..k : k \in 0..block[b].n} \cup {all \ {i} : i \in all}
            \cup UNION {{all \ Where(cells, v), all \ First(Where(cells, v))} : v \in Vals}
            \cup {Unique(cells), Squeeze(cells)}
            \cup UNION {{WithoutRun(cells, Items(s), TRUE), WithoutRun(cells, Items(s), FALSE),
                         all \ Among(cells, s), Unique(cells) \cap Among(cells, s)} : s \in Blocks}

Reduce(b) ==
    /\ Operates
    /\ \E kept \in Kept(b) : ToBody(b, At(Live(b), kept))
    /\ last' = None /\ UNCHANGED val

Tagged(cells) == [i \in 1..Len(cells) |-> [cell |-> cells[i], r |-> val[cells[i]]]]

Sort(b) ==
    /\ Operates
    /\ ToBody(b, Sorted(Live(b)))
    /\ last' = [kind |-> "sort", from |-> Tagged(Live(b)), out |-> Tagged(Live(b)')]
    /\ UNCHANGED val

\* set of an item writes into its cell.
SetItem(b, i, v) ==
    /\ Operates /\ i \in 1..block[b].n
    /\ val' = [val EXCEPT ![Live(b)[i]] = v]
    /\ Touch(TRUE) /\ last' = None
    /\ UNCHANGED block

\* reverse, rotate, take, drop, slice, first.n share cells with their source.
Rotated(cells, k) == SubSeq(cells, k + 1, Len(cells)) \o SubSeq(cells, 1, k)
Shares(b) ==
    LET cells == Live(b) IN
    {Reverse(cells)} \cup {Rotated(cells, k) : k \in 1..Len(cells)}
        \cup {SubSeq(cells, i, j) : i \in 1..Len(cells) + 1, j \in 0..Len(cells)}

Share(b) ==
    /\ Operates /\ Len(block) < MaxBlocks
    /\ \E cells \in Shares(b) : block' = Append(block, NewBody(cells))
    /\ last' = None /\ UNCHANGED <<val, iter, from, seen, touched>>

\* pop.n, chop of a value and repeat copy; chop keeps the slot behind.
Copy(b) ==
    /\ Operates /\ Len(block) < MaxBlocks
    /\ val' = val \o Items(b)
    /\ LET new == NewBody(Fresh(block[b].n)) IN
       \E n \in {new.n, IF new.n = 0 THEN 0 ELSE new.n - 1} :
           block' = Append(block, [new EXCEPT !.n = n])
    /\ last' = None /\ UNCHANGED <<iter, from, seen, touched>>

-----------------------------------------------------------------------------
(* Iterations.                                                             *)

Single == {"chunk", "cluster", "arrange", "enumerate", "maximum"}
Chunked == {"map", "select", "filter", "every", "some", "collect"}
Kinds == Single \cup Chunked \cup {"loop", "fold"}

Seed(kind) == CASE kind \in {"loop", "fold"} -> Null [] kind = "enumerate" -> 0
              [] kind = "every" -> 1 [] kind = "some" -> 0 [] OTHER -> <<>>

\* The count is taken once.  (Bound of the model: an operation is left.)
Start(kind, b, width, lim) ==
    /\ iter = None /\ ops < MaxOps
    /\ iter' = [kind |-> kind, coll |-> b, width |-> width, lim |-> lim,
                cnt |-> block[b].n, at |-> 0, bound |-> <<>>, acting |-> FALSE,
                over |-> FALSE, acc |-> Seed(kind)]
    /\ from' = Items(b) /\ seen' = <<>> /\ touched' = FALSE /\ last' = None
    /\ UNCHANGED <<val, block, ops>>

GoesOnWithBlock ==
    /\ iter # None /\ ~iter.acting /\ ~iter.over
    /\ iter.at + (IF iter.kind \in {"loop", "fold"} THEN 1 ELSE iter.width) <= block[iter.coll].n

GoesOn ==
    /\ iter # None /\ ~iter.acting /\ ~iter.over
    /\ iter.at + (IF iter.kind \in {"loop", "fold"} THEN 1 ELSE iter.width) <= iter.cnt

\* iterator_item, of a slot that may be behind the count by now.
Item(p) == IF p <= Len(block[iter.coll].items) THEN val[block[iter.coll].items[p]] ELSE Null
Chunk(limit) ==
    [j \in 1..iter.width |-> IF iter.at + j <= limit THEN Item(iter.at + j) ELSE Null]

\* bindActionChunk pads with null, from the count taken at the beginning in
\* loop, from the present one in applyActionAt.
Limit == IF iter.kind \in Chunked \cup {"fold"} THEN block[iter.coll].n ELSE iter.cnt

Round ==
    /\ GoesOn
    /\ iter' = [iter EXCEPT !.acting = TRUE, !.bound = Chunk(Limit)]
    /\ UNCHANGED <<val, block, history>>

\* Groups by equal keys: chunk looks at the last group, cluster at all.
Grouped(acc, key, item) ==
    LET found == {g \in 1..Len(acc) : acc[g].key = key /\ (iter.kind = "cluster" \/ g = Len(acc))}
    IN  IF found = {} THEN Append(acc, [key |-> key, items |-> <<item>>])
        ELSE [g \in 1..Len(acc) |-> IF g \in found THEN [acc[g] EXCEPT !.items = Append(@, item)]
                                     ELSE acc[g]]

\* arrange inserts before the first greater key.
BeforeEqual(acc, key) == {j \in 1..Len(acc) : key <= acc[j].key}
Before(acc, key) == {j \in 1..Len(acc) : key < acc[j].key}
Arranged(acc, key, item) ==
    LET at == {Len(acc) + 1} \cup Before(acc, key)
    IN  InsertAt(acc, CHOOSE i \in at : \A j \in at : i <= j, [key |-> key, item |-> item])

\* The chunk as it is when the action is over: what select and collect take.
Now == Chunk(iter.cnt)

After(r) ==
    LET acc == iter.acc  item == iter.bound[1]  k == iter.kind IN
    IF r = Skip /\ k \notin {"loop", "fold", "filter"} THEN acc
    ELSE CASE k = "loop"      -> Null
           [] k = "fold"      -> r
           [] k = "map"       -> Append(acc, r)
           [] k = "filter"    -> Append(acc, IF r = Skip THEN 0 ELSE r)
           [] k = "enumerate" -> acc + r
           [] k \in {"every", "some"} -> r
           [] k \in {"select", "collect"} -> IF r = 1 THEN acc \o Now ELSE acc
           [] k \in {"chunk", "cluster"} -> Grouped(acc, r, item)
           [] k = "arrange"   -> Arranged(acc, r, item)
           [] k = "maximum"   ->
                 IF acc = <<>> \/ r > acc[1].key THEN <<[key |-> r, item |-> item]>> ELSE acc

\* every and collect end at the first 0, some at the first 1.
Ends(r) == r = Stop \/ (r = 0 /\ iter.kind \in {"every", "collect"})
                    \/ (r = 1 /\ iter.kind = "some")

RoundEnds(r) ==
    /\ iter # None /\ iter.acting
    /\ iter' = [iter EXCEPT !.acting = FALSE, !.at = @ + iter.width, !.over = Ends(r),
                            !.bound = <<>>,
                            !.acc = IF r = Stop /\ iter.kind # "fold" THEN @ ELSE After(r)]
    /\ seen' = IF touched THEN <<>> ELSE Append(seen, [chunk |-> iter.bound, r |-> r])
    /\ UNCHANGED <<val, block, ops, from, touched, last>>

\* select keeps the first or the last item, filter drops the first or last
\* match, if asked to: lim is the attribute, with the value 1.
Limited(s, lim) ==
    IF s = <<>> \/ lim = "all" THEN s ELSE IF lim = "first" THEN <<s[1]>> ELSE <<Last(s)>>

Removed(marks, g) ==
    LET seenSo == Cardinality({h \in 1..(g - 1) : marks[h] = 1})
        matches == Cardinality({h \in 1..Len(marks) : marks[h] = 1})
    IN  marks[g] = 1 /\ (iter.lim = "first" => seenSo < 1)
                     /\ (iter.lim = "last" => seenSo >= matches - 1)

\* filter reads its items when all rounds are over.
Unfiltered ==
    FlattenSeq([g \in 1..Len(iter.acc) |->
        IF Removed(iter.acc, g) THEN <<>>
        ELSE [j \in 1..iter.width |-> Item((g - 1) * iter.width + j)]])

Out ==
    CASE iter.kind = "select" -> Limited(iter.acc, iter.lim)
      [] iter.kind = "filter" -> Unfiltered
      [] OTHER -> iter.acc

Finish ==
    /\ iter # None /\ ~iter.acting /\ ~GoesOn
    /\ iter' = None
    /\ last' = IF touched THEN None
               ELSE [kind |-> iter.kind, width |-> iter.width, lim |-> iter.lim,
                     from |-> from, seen |-> seen, out |-> Out]
    /\ from' = <<>> /\ seen' = <<>> /\ touched' = FALSE
    /\ UNCHANGED <<val, block, ops>>

Next ==
    \/ \E b \in Blocks :
          \/ Reduce(b) \/ Sort(b) \/ Share(b) \/ Copy(b) \/ AppendSelf(b)
          \/ \E v \in Vals, i \in 0..MaxLen : Insert(b, i, v) \/ SetItem(b, i, v)
          \/ \E s \in Blocks : AppendBlock(b, s) \/ Union(b, s)
    \/ \E kind \in Kinds, b \in Blocks, width \in Widths, lim \in {"all", "first", "last"} :
          /\ kind \in Single => width = 1
          /\ lim # "all" => kind \in {"select", "filter"}
          /\ Start(kind, b, width, lim)
    \/ Round \/ (\E r \in {0, 1, Skip, Stop} : RoundEnds(r)) \/ Finish

Spec == Init /\ [][Next]_vars

-----------------------------------------------------------------------------
(* Properties                                                              *)

TypeOK ==
    /\ val \in Seq(Vals)
    /\ \A b \in Blocks :
          /\ block[b].items \in Seq(1..Len(val))
          /\ block[b].n \in 0..Len(block[b].items) /\ block[b].cap \in Nat
    /\ iter # None => /\ iter.kind \in Kinds /\ iter.coll \in Blocks
                      /\ iter.at \in Nat /\ iter.cnt \in Nat
    /\ ops \in 0..MaxOps /\ touched \in BOOLEAN

\* Nothing is written behind an array.  An iteration goes by the count it took:
\* whatever its action does to the block, it reads no slot that was never written,
\* collects no more items than it made room for, and ends after as many rounds as
\* the block had items when it began.
WithinArrays ==
    /\ TypeOK
    /\ \A b \in Blocks : Len(block[b].items) <= block[b].cap
    /\ iter # None => /\ iter.cnt <= Len(block[iter.coll].items)
                      /\ iter.kind \in {"map", "select", "collect", "arrange"} =>
                            Len(iter.acc) <= iter.cnt
                      /\ iter.at < iter.cnt + iter.width

\* A cell is in one place of a block at most: setting one item never changes
\* another of the same block, whatever was removed, moved and added before.
CellsDistinct == \A b \in Blocks : IsInjective(Live(b))

\* What the intrinsics promise of the rounds they made, with the keys or truth
\* values 0 and 1 the actions gave.
Chosen(rounds, rs) == SelectSeq(rounds, LAMBDA x : x.r \in rs)
Chunks(rounds) == FlattenSeq([i \in 1..Len(rounds) |-> rounds[i].chunk])
Firsts(rounds) == [i \in 1..Len(rounds) |-> rounds[i].chunk[1]]
Matches(rounds) == {i \in 1..Len(rounds) : rounds[i].r = 1}
Dropped(rounds, lim) ==
    CASE lim = "all"   -> Matches(rounds)
      [] lim = "first" -> {i \in Matches(rounds) : \A j \in Matches(rounds) : i <= j}
      [] lim = "last"  -> {i \in Matches(rounds) : \A j \in Matches(rounds) : j <= i}
UpTo0(rounds) ==
    LET zero == {i \in 1..Len(rounds) : rounds[i].r = 0}
    IN  IF zero = {} THEN rounds
        ELSE SubSeq(rounds, 1, (CHOOSE i \in zero : \A j \in zero : i <= j) - 1)

Promised(rounds) ==
    LET k == last.kind  out == last.out  done == Chosen(rounds, {0, 1}) IN
    CASE k = "map"       -> out = [i \in 1..Len(done) |-> done[i].r]
      [] k = "select"    -> out = Limited(Chunks(Chosen(rounds, {1})), last.lim)
      [] k = "filter"    ->
            LET kept == Chosen(rounds, {0, 1, Skip}) IN
            out = Chunks(At(kept, (1..Len(kept)) \ Dropped(kept, last.lim)))
      [] k = "every"     -> (out = 0) <=> (Chosen(rounds, {0}) # <<>>)
      [] k = "some"      -> (out = 1) <=> (Chosen(rounds, {1}) # <<>>)
      [] k = "collect"   -> out = Chunks(Chosen(UpTo0(rounds), {1}))
      [] k = "arrange"   -> [i \in 1..Len(out) |-> out[i].item]
                              = Firsts(Chosen(rounds, {0}) \o Chosen(rounds, {1}))
      [] k = "enumerate" -> out = Len(Chosen(rounds, {1}))
      [] k = "cluster"   -> \A g \in 1..Len(out) : out[g].items = Firsts(Chosen(rounds, {out[g].key}))
      [] k = "chunk"     ->
            /\ FlattenSeq([g \in 1..Len(out) |-> out[g].items]) = Firsts(done)
            /\ \A g \in 2..Len(out) : out[g].key # out[g - 1].key
      [] k = "maximum"   ->
            done # <<>> => out[1].item = Firsts(Chosen(rounds, {1}) \o Chosen(rounds, {0}))[1]
      [] OTHER           -> TRUE

InOrder(rounds) ==
    /\ \A g \in 1..Len(rounds), j \in 1..last.width :
          LET p == (g - 1) * last.width + j
          IN  rounds[g].chunk[j] = IF p <= Len(last.from) THEN last.from[p] ELSE Null
    /\ Chosen(rounds, {Stop}) = <<>> /\ last.kind \notin {"every", "some", "collect"} =>
          LET padded == IF last.kind \in {"loop", "fold"} THEN last.width - 1 ELSE 0
          IN  Len(rounds) = (Len(last.from) + padded) \div last.width

\* An iteration over a block its action leaves alone goes through the items in
\* order, all of them unless it is told to stop, and gives what is promised of
\* it; a sort is stable.
AsDefined ==
    CASE last = None -> TRUE
      [] last.kind \in Kinds -> InOrder(last.seen) /\ Promised(last.seen)
      [] last.kind = "sort"  -> last.out = Chosen(last.from, {0}) \o Chosen(last.from, {1})
      [] OTHER -> TRUE

\* "the host's append FLATTENS a block argument", any block: [1] [2 3] gives
\* [1 2 3].
AppendFlattens ==
    (last # None /\ last.kind = "append") => last.out = last.from
=============================================================================
