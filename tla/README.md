# A verification of the Arturo compiler and its runtime in TLA+

The repository holds two compilers for the Arturo language, one in Arturo itself
(`src/src/*.art`) and one in C++ (`src/cpp26/src`), and the native runtime both
of them target (`src/runtime/runtime.c`).  A compiled program is a tree of IR
nodes that `runNode0` walks, so the behaviour of every program is decided by a
few mechanisms of the runtime: how frames live and die, who owns a string, how
a dictionary finds a key, how `return` and errors travel, how a loop survives
what its body does to its block.  They are sequential C, but the program that
drives them is arbitrary: it may interleave calls, captures, stores and errors
in any order, which no test suite enumerates.  The modules of the runtime let
the program do anything its IR could do and check what the mechanism promises.

Files, peers and clients fail and interleave for real: the modules of the
stores, the sockets, the web server and the compiler's driver have crashes,
restarts, pieces, timeouts and hang-ups.  The modules of the C++ compiler check
that what it makes of a source means what the runtime would make of it.

Paths are relative to the repository root, `runtime.c:N` is
`src/runtime/runtime.c`, line N, and `parser.hpp` and the like are in
`src/cpp26/src`.

## Inventory

| Component | State | Operations | Interacts with | Hard because | Correct when | Modules |
|---|---|---|---|---|---|---|
| Environment frames (runtime.c:1180-1275, 1401-1451, 2856-2877, 7504-7513) | `g_env_live`, `g_env_serial`, per frame parent / captured / rebind_parent / slots; `g_try_jmp` | env_new, env_capture, env_release, env_rewind, env_get/set/define/let, applyFunc, loops, try, die | every evaluator and intrinsic that binds or calls | manual lifetimes with longjmp across them | nothing reachable is freed, nothing unreachable is kept by mistake, scoping is lexical, die finds the innermost try | Frames, Scopes, FramesProofs |
| String buffers (876-905, 2491-2543, 7302-7363) | header len / cap / owned / shared of each buffer; slots that point to it | v_str, stores, b_append, define_self_append | frames, blocks, dictionaries | two sticky flags stand for a reference count | growth in place is never visible through another reference, constants never change | StringBuffers, StringBuffersProofs |
| Control signals (1338-1342, 7084-7090, 7176-7300, 7530-7575) | rt_ret_set, rt_ret_val, rt_brk_set, rt_cont_set, g_attrs | return, break, continue, calls with attributes | applyFunc, loops, higher-order intrinsics, try | global flags polled by whoever runs next | a signal reaches the construct it belongs to and no other | Signals, Control, SignalsProofs |
| Dictionaries (918-924, 2900-3016, 5846-5851, 5894-5898, 5958-5985) | keys / vals in insertion order; index, index_cap, index_n | dict_find, set, remove, sort, empty, path assignment | objects, stores, serve | a cache built lazily and dropped by hand | the indexed lookup is the linear scan | DictIndex, CachesProofs |
| Blocks and iteration (342, 2442-2590, 2606-2806, 5837-6297, 7124-7174, 7576-7622) | shared, growable arrays of items | append, insert, pop, remove, sort, slices; loop, map, select, fold, ... | strings, frames, signals | loops cache counts while bodies mutate | a loop visits what it promises and stays in bounds | Blocks, BlocksProofs |
| Rune cursor (98-102, 154-155, 1012-1032) | one cached (string, index, position, count) | rune_count, rune_offset, forget | string growth, byte stores | writers must forget it | a lookup equals a scan from the start and stays in the string | RuneCursor, CachesProofs |
| Stored-block evaluator (6668-7080) | position in a token array | evalExpr, evalStmt, skipExpr | lexer, intrinsics | skip must consume what eval consumes, eval must group as the compiler does | skipping, running and compiling agree | Stored, Code |
| Stores (4950-5245) | dictionary, path, autosave | open, set, save, exit flush | dictionaries, file system | crashes, deferred writes | what was promised to be on file is there | Store, StoreProofs |
| Sockets (3587-3718) | receive buffer | listen, connect, accept, send, receive, unplug | try | partial reads and writes, timeouts | every line once and in order | Sockets, SocketsProofs |
| HTTP server (4040-4520) | one connection, its buffer, three globals of the response | serve, emit | try, dictionaries, frames | kept connections, pipelining, hang-ups, failing actions | one response per request, its own | Serve, Service, ServeProofs |
| C++ front end (`lexer.hpp`, `parser.hpp`) | token cursor, frames of open calls, known arities | arity-directed grouping | emitter, stored-block evaluator | words change meaning half way | the frames build what the grammar reads | Grouping |
| C++ IR and back ends (`ir.hpp`, `emit.hpp`, `emit_c.hpp`, `direct_c.hpp`) | arena of nodes | lowering, serialisation, C text | optimizer, runtime | special forms | the IR is well formed and runs as the tokens would | IR, Emitter, Code |
| C++ modules (`modules.hpp`) | active path, what each file has expanded to | resolve, import | front end | cycles, diamonds, packages | cycles refused, each import in its place | Imports |
| C++ optimizer (`optimizer.hpp`, `verify.hpp`) | the arena, constants known | fold, prune, clean, propagate, compact | IR | soundness with effects, nodes overwritten in place | the program shows the same | Optimizer, IR |
| C++ driver (`main.cpp`, `stub.cpp`) | stage, intermediate files, child processes, the output | one compilation | file system | crashes, failing children | the output is the old one or a whole new one | Driver |
| Integers (1473-1745) | none: texts of digits | add, sub, mul, div, mod, pow, neg, inc, dec | optimizer, which folds what the runtime would compute | promotion and demotion at the limits, carries and borrows | the result is the exact one | Numbers |
| Arena (49-211), runtime lexer, intrinsics, AIR loader, the self-hosted compiler | see `PROJECT.json` | | | | | none: see "Not modelled" |

Generated tables, tools, tests and corpora are not components of the system;
they were read as evidence of what is intended.

## Plan

Done, in this order: frames; strings; signals; dictionaries; the rune cursor;
then sockets, server and stores; blocks; imports, optimizer and driver; grouping,
emitter and stored blocks.

Proved: every safety property of `Frames` with `Scopes`, `Signals` with
`Control`, `Store`, `StringBuffers`, `DictIndex`, `RuneCursor`, `Sockets`, and
`Serve` with `Service`; of `Blocks`, what concerns arrays and cells.

Next, proofs first:

1. `Driver`: its back ends in a module without the programs, so that `OutputWhole`
   and `IntermediatesRemoved` can be proved; as it stands it reaches the
   RECURSIVE operators of `IR` and `Imports`.
2. `Emitter`: the special forms of emit.hpp that are still missing, and with
   them the serialised IR.

## Modules

### Frames and Scopes

`Frames` names a frame by its serial number (`Env.created`).  `live` is the
`g_env_live` list, `parent`, `captured`, `rebind`, `vals` are the fields of
`Env`, `scope` caches the set of frames a walk to the root visits, `stack` is
the part of the C stack that holds a frame or a `jmp_buf`, `tryTop` is
`g_try_jmp`, and `acc` is the value most recently computed, which the program
may bind, call, export or drop.  A function value is the serial of its closure.

The running code is unconstrained: at each step it loads, labels (`Define`,
with the write-through of action bodies), lets, unsets, makes a function,
constructs an object (receiver frames), calls anything it can name, enters or
leaves a body, tries, returns with exports, or dies.  Each action is one
operation of the runtime with its whole effect on these variables; `Catch` is
`longjmp` to `g_try_jmp` followed by the handler's `env_rewind`, and it drops
any number of C activations at once.

`Scopes` is what the language promises: lexical scopes that are reclaimed only
when nothing can reach them, with none of the runtime's serials, flags or
rewinding.  `Frames!ImplementsScopes` is the refinement, with the frames on the
live list as the scopes and the C activations as the activations.

`serve` is outside: it allocates frames per request and releases none
(runtime.c:4431, 4442), so `NoLeak` says nothing of it.  `with` over a
dictionary is one `With` per entry.

### StringBuffers

A buffer is its header.  Strings are over one letter, so a string value is a
length, and "s was changed" is "its length changed".  There is one variable
`s`, bound globally and possibly by running functions, and `cells` stand for
every other heap slot.  `stack` holds evaluated operands, running functions and
statements `s: s ++ x` inside `define_self_append`.  `Init` has the string
constants already marked by `ir_const`.  A buffer nothing refers to may be
handed out again: its old header is irrelevant (the `VIEW` hides it).

Three operations store a string and forget `str_heap_mark`: `prepend` on a block
(runtime.c:5889), a path assignment in a stored block (6962-6974), and
positional fields of an object (3388).  They are the action `StoreUnmarked`, and
the history variable `unmarked` says that one has happened: from then on the
flags promise nothing, and the properties about them say so.

### Signals and Control

`stack` is the part of the C stack that runs code: function bodies, `do`, other
sequences, the three compiled loops, the intrinsics with a compiled action, the
loop over a stored block, path calls, tries, and `plain` for everything that
evaluates code and looks at no flag (operands, values to bind, stored blocks).
`flags` are the three globals, `back` is the moment between a statement that
came back and the poll of the construct that ran it; values and conditions are
free choices.  `attrs` is `g_attrs`, named by the call whose C frame it points
into.

`Control` has neither flags nor polls: a return, break, continue or error goes
to its construct in one step.  In `Signals!ImplementsControl` a signal that is
raised counts as arrived, so all the polling up to its owner must be invisible,
and clearing a flag too late, too early or in the wrong construct is not.

The constant `Anywhere` says where signals may be raised.  If FALSE, in statement position:
each construct between the statement and the owner stops at once.  If TRUE, in
operands, conditions and stored blocks as well, where the runtime goes on with
the expression or the block: `do [g do [return 1]]`, with `g` a parameter, calls
`g`, which clears the flag, and the return is lost.  A break or continue belongs
to a loop of the function that is running; the runtime would also let it end a
loop of a caller.

### RuneCursor

`text` is the bytes at each address, `cursor` is `g_rune_cache`.  Runes have one
or two bytes; stray continuation bytes count as runes of their own, as
`utf8_rune_len` has it.  Strings that end inside a rune, which `chop` and `set` on a
string can make, are left out (`EndsWithRune`).  Buffers are never freed before the end
(runtime.c:896-898), so addresses are not reused; that `arena_free` forgets the
address it frees is not needed.  The names every specification has begin with
`Cursor` here, since the proofs of two modules share one.

### DictIndex

One dictionary.  `entries` are keys and values in order, `index` the slots, the
capacity and `index_n`, `object` the cached type name.  Keys may occur twice
(`b_makeDict` and `runtime_construct` do not look).  Every operation that
changes the entries in place is an action, with its lookup first where it has
one.  `BeginRender` and `EndRender` are the two halves of `render` on a path,
the one operation that runs program code between `mut_load` and `mut_store`:
any other action may come between.  Null keys, which `dict_find` steps over,
are left out: no operation makes one.


### Blocks

A block is its body: the cells in its array (`items`, with those behind the
length that removals left there), the count `n` and the capacity.  `iter` is one
iteration that is between two of its rounds, with the count it took at the
start, and any operation on any block may come in between.  An operation that
drops items is the set of positions it keeps (`Kept`).  Each iterating
intrinsic keeps its own accumulator and its own rule for what continue, break
and an empty result do (`After`, `Ends`, `Finish`).  `from`, `seen` and `touched`
record what an iteration began with and which rounds it made, so that
`AsDefined` can say what the results are of every iteration whose block was left
alone; `WithinArrays` is about the others too.

`SelfAppend` allows a block to be appended to itself, which runs past its array
(see the disagreements); the run has it FALSE.

### Sockets

One connection in one direction.  `send` puts its pieces in `sending`, each turn
of `send_all` moves as many bytes as the kernel takes to `wire`, each `recv`
moves any number of them to `rbuf`.  A receive that is running is `call`;
`Timeout` and `Eof` end it without a line.  `got` are the lines returned, with
the number of the line in the stream each belongs to.

### Serve and Service

`Serve` is the loop of `serve` over connections, cut at every `recv`: one action
per line read, per header, per body, per way an action may end.  Requests are
the tokens of their lines, each with the number of its request, so that a token
read as part of the wrong request shows.  Clients ask up to `Quota` requests,
pipelined, some in two pieces, and close at any moment.  `Service` promises that
connections are served one at a time and requests answered once, in order, up
to the one that ends the connection; `Serve!ImplementsService` is the refinement.

### Store

`stores` are the open handles, `file` what is on disk, `saving` and `left` the
save that is under way, entry by entry.  `handlers` is the stack of `atexit`;
`Exit` runs it, `Kill` ends the process between any two steps, and `Restart` is
the next process, which opens what it finds.  `SetInside` is an assignment
inside a value of a store (`st\a\b: 1`), which changes memory only.

### IR, Optimizer, Imports and Driver

`IR` has the nodes of `ir.hpp` as records in a sequence, indices as references,
and `Run`, a function from programs to what they print, translated from
`runNode0`, `runDoSeq`, `callIntrinsic`, `applyFunc` and the loops for the
operations the programs use.  `Optimizer` has one action per pass, in the order
and with the loop of `run`; a pass works on the arena in place, so two parents
that came to share a node would show (`StaysTree`).  `Imports` expands sources
line by line with the active path the code keeps.  `Driver` composes the two:
resolve, some program that the sources may hold, verify, optimise, verify again,
then one of the back ends with its files and children; any write, child or
rename may fail, and `Kill` may come at every step.  A write fails in one of two
ways: `writeAll` sees it and throws (`ShortWrite`), or it shows only when the
destructor of the stream flushes and closes it, which nobody looks at: then the
file is cut short, `unseen` says so, and main goes on (`Wrote`).  Then another
compilation with the same output may follow.

Assumed of what is outside: `fs::remove` and `chmod` succeed, a compiler or
linker that cannot write says so, and a C text that was cut short does not compile
or does not link, since `main` is written last (emit_c.hpp:61, direct_c.hpp:104).

### Numbers

`Numbers` is the arithmetic that `IR!Run` and the folder of `Optimizer` use:
machine integers of the code's rules with a small `MaxInt`, and, beyond them, big
integers as the code keeps them, a sign and the text of the digits, computed digit
by digit (or limb by limb) as the code does.  The number of digits of
`MaxInt` and of `MaxInt + 1` agree (`NumbersAssumption`), as 2^63 - 1 and 2^63
do, for `BigFits` compares texts of one length.  `ArithmeticExact` compares what a
program prints with the integers of TLA+ (`Exact`).

### Grouping, Emitter, Stored and Code

`Grouping` is `parseRange`: the stack of open calls, filled value by value, closed
by `rewind`.  Next to it stands the grammar the comments of `parser.hpp` describe,
read from the top down, and `GroupedAsGrammar` compares the two.  `Emitter` lowers
the result to the nodes of `IR`.  `Stored` is the runtime's own evaluator of
tokens, with the walk over what is not run (`SkipStmt`, ...).  `Code` takes a
token sequence through both lives: compiled and run by `IR!Run`, stored and run
by `Stored`.

## Runs

| Run | Bounds | Shows |
|---|---|---|
| frames | 3 frames, 5 activations, 1 name | TypeOK, NoDangling, NoLeak, TryTarget, ImplementsScopes |
| string_buffers | 1 constant of length 2, 2 more buffers, 1 cell, stack of 3; strings made with length 1, grown to 3 | WithinCapacity, FlagsCoverOwners, NoAliasMutated |
| signals | 5 constructs, signals in statement position | RaisedStopsAll, AttrsOfInnermost, ImplementsControl |
| rune_cursor | 2 strings, 4 bytes | LookupsScan |
| dict_index | 3 keys, two values, 4 entries; index from 1 entry, 2 slots | ProbesEnd, FindIsLinear, TypeNameFresh |
| blocks | one block of 3 items or two of 1, 3 to grow to, 2 values, chunks of 1 and 2, 2 operations | WithinArrays, CellsDistinct, AsDefined |
| sockets | 3 messages (empty, two lines, one overlong), 3 receives of 2 or 4 bytes, 5 bytes on the wire | ShortLinesWhole, ReceiveReturns |
| serve | 2 clients, the first with two requests of four kinds and in pieces, the second with one | WholeRequests, RepliesAreOwn, ImplementsService, Answered, Patience |
| store | 2 files, 2 keys, 2 values, 3 assignments, 2 handles, any number of kills | AutosavedIsOnFile, ExitSaves, FilesArePrefixes |
| compiler | 1 main file of up to two lines, a file, a package of three; some 15000 programs of up to four statements, and some 1900 calculations of two operations with integers up to 7, base 3, limbs of 2 digits; 2 compilations | VerdictRight, InPlace, StaysTree, MeaningKept, ArithmeticExact, IntermediatesRemoved, SuccessIsBuilt, OutputWhole |
| code | all sequences of up to four tokens of 13, and of two or three behind eight openings; three or four statements that are run, or stored and passed over | GroupedAsGrammar, EmittedWellFormed, StoredAsInline, SkipsWhatRuns |
| optimizer_contract | five programs outside those of compiler | MeaningKept is violated: "Optimizer" below |

The first invariant of a run includes the module's type invariant, where that is not
one of its own (`TypeOK` is a conjunct of `WithinCapacity`, `LookupsScan`,
`ProbesEnd`, `WithinArrays`, `ShortLinesWhole`, `WholeRequests`,
`FilesArePrefixes`, `StaysTree` and, as `CodeTypeOK`, of `EmittedWellFormed`).

Three frames are the top frame, a closure's and a callee's: enough for a
capture to outlive its activation, for a rewind that frees one frame and keeps
another, and for a write-through past a shadowing frame.  Five activations nest
two tries with bodies between them.  Two buffers besides the constant are the
least with which an operand and the variable differ from a fresh copy, and a
constant of length 2 makes a buffer of one byte double twice.

Five constructs put two between a statement and the owner of its signal, with an
outer construct that must not notice, or a path call with its function.

Four bytes hold two runes of two bytes and every mix with ASCII; one cursor and
two strings make it move between them.  The thresholds of the index are scaled
from 12 entries and 16 slots to 1 and 2, so that four entries see the linear
scan, an index built full, one that is extended and one that is dropped.

Three items and chunks of two make an iteration whose last chunk is padded; two
operations within it shrink and grow, or replace and write.  Capacities are those
of the code: a literal has room for one more item, a block that an operation made
is full, and the next insertion moves its array.

A wire of five bytes holds a line with its CR and LF and the first byte of the
next, and cuts both; three receives are one that times out half way, one that
returns and one that goes on behind it.  Four kinds of request have every reason to
end a connection, bodies and empty lines; the second client is the one that
waits.  Two handles are one file opened twice or two files, of which a deferred
one is flushed after a handler of the other was registered.

In the package of three files `info.art` may name any of them as its entry, one
of which does not exist.  Four statements are a constant, what may lose it, what
uses it and a last value.  Four tokens are the least in which an operator, an
attribute and the call it belongs to differ from the value they follow; the
openings change what a word means first.

With 7 as the largest machine integer, 8 its negative counterpart, and base 3, the
limits have as many digits as each other, two more than a limb; two operations reach
numbers of several limbs with carries between them, cancel them and bring them
back under the limits.

`CHECK_DEADLOCK FALSE` stands for models that stop at a bound or where the
program may stop: Frames, StringBuffers and Blocks at their bounds, Sockets when
both ends are closed or the calls used up, Serve when every client has had its
say, Driver after its last compilation.

## Fairness

The modules whose steps are the running program's have none, and claim no
liveness: a program may loop for ever.

* `Serve`: `WF(ServerStep)`.  The server is one thread in a blocking loop, which
  goes on whenever a connection, bytes or an end of file are there, and the
  actions of the routes are assumed to come to an end (an action that does not
  stops the server for good).  Clients need never do anything.  `Answered` holds
  for the client whose connection is served; that the others are served at all
  (`Patience`) needs those before them to hang up some day, which is its premise.
* `Sockets`: weak fairness of what a call that was made does by itself: the
  turns of `send_all`, the steps of a receive with bytes in reach or an end of
  file.  No call need ever be made, and no timeout need ever happen.

## Proofs

`FramesProofs` proves `TypeOK`, `NoDangling`, `NoLeak` and `TryTarget` of
`Frames` for any names, data, number of frames and depth, from the assumptions
on the constants alone (data values are not numbers, `Unbound` is neither).

None of the four is inductive.  The invariant `IInv` adds: the frames of a scope
are closed under parents and older than the frame (`Chains`); what a captured
frame can reach is captured (`CapturedClosed`); a function value's closure is
captured (`FunctionsCaptured`); the frames activations hold grow along the stack
(`StackOrder`); a try's saved serial separates the frames entered before it from
those entered after (`TrySaved`, `SavedBound`); and the jmp_bufs form a list down
the stack (`TryChain`).  `TrySaved` is the heart: it is why `env_rewind`, which
knows serials only, frees exactly the frames of the activations that longjmp
dropped.  The proof has one lemma per action.

The same module proves `ImplementsScopes`.  The scopes of the language are the
frames on the live list and its activations the C stack without serials and
`jmp_buf`s (`heapBar`, `actsBar`), so three things have to be shown.  A walk
over the parents must find what the cached set of visible frames says is nearest
(`BinderIs`), for which parents are older and visible frames are the frame and what its parent
sees (`Parents`).  What a step makes of variables must be what the language
says: a write-through has a parent to go to (`Marked`, `Root`), an export lands
where an assignment there would (`ReturnIs`), `with` assigns to what is bound
outside or to a scope that is over at once (`WithIs`).  And whatever the step
freed, nothing that is left may refer to it (`BecomesBar`), which is the safety
proved before.  `StepIs` puts the actions together.

`SignalsProofs` proves of `Signals`, for a C stack of any depth, `TypeOK` and
`AttrsOfInnermost` whatever `Anywhere` is, and `RaisedStopsAll` if it is FALSE.

For the first two the invariant `Shape` says what each construct saved: the
attributes of the last call below it that has any (`AttrChain`).  That is why a
handler, which puts back what its try saved, needs to know nothing of the calls
longjmp dropped.  `HasLast`, true of every finite sequence, is carried along
because the provers cannot do the induction over the length.

For `RaisedStopsAll` the invariant `Stopping` adds where a raised signal stands
(`Waits`): its owner is on the stack, nothing above it owns such a signal, and
every construct from the owner up only waits for the statement it runs.  The step
that needs more is a return put aside for a path call, raised again when the call
is over: `PutAside` says that its owner still waits for it then.

`SignalsProofs` proves `ImplementsControl` from the same invariant: the owner at
which a signal waits is the one the refinement mapping computes (`OwnerWaits`),
so raising it is the abstract jump (`ArrivesAtOnce`), and the constructs that end
between the two steps cannot be seen (`LeavesSeen`).

`StringBuffersProofs` proves `WithinCapacity`, `FlagsCoverOwners` and
`NoAliasMutated` of `StringBuffers` for any buffers, cells, lengths and depth.  Its
invariant adds to the first two that a constant has both flags set from the start
(`LiteralsFlagged`), so that it is never grown in place, and that a statement that
waits for its appendage holds no string (`StatementsHoldNothing`), so that
`define_self_append` may look at the variable again when the appendage is there.
`NoAliasMutated` follows: what grows in place is unflagged, so no second slot has it.
`CellsAssumption` says that the names of heap slots are not numbers, which name the
frames.  All of it is about programs that have not yet used one of the three
unmarked stores (`unmarked`).

`CachesProofs` proves `ProbesEnd`, `FindIsLinear` and `TypeNameFresh` of
`DictIndex` for any keys, hash, order, capacities and number of entries.  The index
is `Sound`: its slots hold the first entry of every key, each once, and no slot is
empty between where a key hashes to and its entry; and it is at most half full.
That probing ends is then the pigeonhole; that the linear scan finds the same is
that it, too, finds the first.  The index is built by a recursive function (`Filled`
over the entries, `CapFor` over the doublings); what these compute is shown by the
least number for which it would fail.

`CachesProofs` proves `LookupsScan` of `RuneCursor` for any strings, whose bytes
are well formed as `CursorInit` and the operations make them.  A walk of k + 1 steps is
one of k steps and one more (`WalkSteps`), a walk from where a walk ended is the rest
of it (`Composed`), and one that starts in a string that does not end inside a rune
stays in it (`Inside`).  The invariant: strings do not end inside a rune, and the cursor
stands where a scan of its index stands.  Appending leaves the walk as it was
(`Grown`), which is why growth in place need not forget the cursor.

`BlocksProofs` proves `WithinArrays` and `CellsDistinct` of `Blocks` for any values,
texts, widths and number of blocks and operations, as long as no block is appended to
itself (`~SelfAppend`: with it `WithinArrays` does not hold).  The invariant says of
every body (`Sound`) that its array has room for its slots, that they name cells there
are, and that no live cell is there twice.  What operations leave is computed by loops,
recursive functions of the number of rounds: that there is such a function and what
every round keeps of it (`LoopExists`, `LoopHolds`) is shown once, and used for the
doubling of a capacity (`GrownIs`), for the compaction in place (`AtIs`: whatever
positions are kept), and for the merge sort, of which it is enough that a merge
takes from each run what it has not yet taken (`MergeIs`, `PassIs`, `SortedIs`).
New cells are behind all others (`FreshIs`).  An iteration counts once: that count is
not above the slots of the array, which never shrinks (`Grows`), the next round begins
below it, and what was collected has no more items than the rounds so far took
(`Counts`, `Collects`, `Acts`).  `AsDefined`, which compares values with what an
iteration promises, is only model-checked.

`StoreProofs` proves `AutosavedIsOnFile`, `ExitSaves` and `FilesArePrefixes` of
`Store` for any files, entries and number of handles and crashes.  Its invariant
follows a deferred store through the end of the process (`AtExit`): it has its
handler, its place in the queue or its save still before it, or is on file; and one
that saves at once through its save (`AtOnce`).  `Handling` says in which order the
exit handlers stand on their stack: that is why the arena is freed last.  Both need
that the only handle of a path has the dictionary the program set (`DictsWanted`),
and that a save that has nothing left has written all of it (`Prefix`).

`ServeProofs` proves `WholeRequests`, `RepliesAreOwn` and `ImplementsService` of
`Serve` for any clients, requests, bodies of any length, quotas and pieces.  What a
client has still to send, what is on its way and what is buffered are one stream,
and `Stream(a, s, k, p)` says that s goes on at token p of request k of what was
asked (a function gives the place where each request begins).  Reading m tokens
moves p (`Read`), the end of a request is the beginning of the next (`Through`),
asking makes the stream longer at its end (`OneMore`), and sending and receiving
leave it as it is.  The invariant says for each place of the server where in the
stream it stands (`Stands`): before a line, before one of the headers with what
the headers so far have said, before the body, or behind it; that a stream which ends
early ends in the last request (`LastUnsent`, `CutWithin`), so that what is answered
cut is the last; that the globals are what the running action has emitted (`Own`);
and that nothing of a queued client has been read (`Waiting`, `Queue`).  The promise
of `Service` follows step by step: to accept is to open, a response is the next answer,
to close is to hang up, and nothing else can be seen of it.

`SocketsProofs` proves `ShortLinesWhole` of `Sockets` for any messages, sizes,
pieces and number of calls.  Everything that was ever sent is one stream,
`written`, and the receiver stands at some position p of it (`Taken`): what it has
buffered, what is on the wire and the pieces a send has still to write follow
behind p in order (`Follows`); the lines that were taken end at or before p, one
after the other (`LinesTaken`); and of the line p is in, either nothing was taken
or its head was returned, as long as was asked for, and the line goes on
(`HeadTaken`).  That is the one case in which a line gives two results, and such
a line is not short.  Without `HeadTaken` the rest of an overlong line could pass
for a short one.  Only `TakeLine` and `TakeHead` move p (`LineNext`, `HeadNext`);
whatever else happens, to a timeout and the end of the stream, keeps it
(`FollowsNext`).  A receiver that has hung up has lost its place, so `Follows` is
claimed as long as it has not; what it returned before stays right (`OldLines`).
A line's end is the place with as many line feeds up to it as its number
(`LineEnd`), of which there is one (`LineEndIs`).

Model-checked only:

* liveness (`Answered`, `Patience`, `ReceiveReturns`), which the prover does not
  reach;
* `AsDefined` of `Blocks`: what a whole iteration or sort computes is a matter of
  induction over its rounds and of values, not of arrays;
* `IR`, `Optimizer`, `Imports`, `Grouping`, `Emitter`, `Stored`, `Code`,
  `Driver` and `Numbers`, whose walks over trees, tokens and digits are RECURSIVE
  operators, about which it proves nothing.

## Disagreements between the code and its comments

Each was reproduced with the real compiler or runtime.  The first is a run; the
others are named by a definition of the module where there is one, which can be
checked by adding it to the cfg.

* **Optimizer** (optimizer.hpp:3-7: every pass preserves eval(emit(n)) == eval(n)).
  `b: [x: 2]` then `print do [x: 1 do b x]` prints 2 at -O0 and 1 at -O2: a stored
  block that `do` runs is not counted as code (363-385).  `print not?.k: (print 7)
  false` loses its 7: folding drops attributes (276).  `print do [x: 5 if true []]`
  prints 5 instead of null: the null is cleaned away.  `f: do [function [y][print
  1]]` makes `do [1 f 2]` print 1: a spliced function is applied to what follows
  (321).  `mod` of the least integer by -1 is folded to 0 (135), where the
  runtime dies of SIGFPE.  Run optimizer_contract.
* **Stored blocks** (runtime.c:6818-6822, 6914-6915, 6687, 7012).  `b: [print 1
  print 2] do b` prints 2 and then 1: the search for the arguments of `print` goes
  on into the next statement.  `b: [if false -> print 5] do b` prints 5: the arrow is
  recognised as a string only (7057).  The runs leave these programs out; see the
  comments of `MCCode` (`MCRunnable` has the first).
  `skipStmt` does not always mirror `evalStmt` (7012). In a block that holds `if false
  -> y\a + [print 5]` as strings, 5 is printed: running looks for an operator behind
  the path (7002), passing over does not (7026), takes the operator for the assigned
  value and ends before the operand (`MirrorsEvalStmt`, with `Programs <- MCBeyond`).
  It ends elsewhere, too, at words with a fixed arity, whose arguments are searched
  for instead of counted (6696), at words that are not strings, and at the values of
  attributes. `SkipsWhatRuns` claims that the two walks agree on the statements that
  have none of these (`ReadAlike`); the run goes through some that have.
* **Parser**.  A block is grouped when it is emitted, with the names known
  at the end of its sequence: `if true [print add 1 2]` before `add: 5` fails, with
  `->` it prints 3.  An operator behind `->` or `@` is read twice (parser.hpp:437-449,
  463-478), an `@` at the end of a block is dropped.
* **Imports** (modules.hpp:8-9: cycles are compile errors).  A package that imports
  its own directory crashes the compiler: the active path has its entry file
  (161), the check looks for the directory (139).
* **Driver** (main.cpp:62-65, 265-266).  The executables of the c and direct back
  ends are not replaced atomically, the linker writes the output (284); and when
  a write fails half way, the C text or the sibling stays behind (68, 251).
  `OutputWhole` and `IntermediatesRemoved` say so.  Of the fast back end, `writeAll`
  tests the stream behind `write` (60) and not behind the flush and close of its
  destructor: if the disk is full only then, a truncated sibling is renamed over
  the executable and the exit status is 0 (`arturoc --emit-ir /dev/full s1.art s2`
  exits with 0 in the same way).  `SuccessIsBuilt` and `OutputWhole` except it;
  `ReplacedWhole` says that it does not happen, and TLC refutes it (`Inputs <- MCOne`).
* **Blocks** (runtime.c:2475-2477).  A block appended to itself runs past its array
  (2482): with `SelfAppend` = TRUE the run violates `WithinArrays`.
* **Sockets** (3684).  The rest of an overlong line is not dropped through its line
  feed but returned as lines of their own (`OverlongDropped`).
* **Stores**.  An assignment inside a value of a store that saves at once is not
  saved (`SavesImmediately`).
* **Strings**.  `prepend 'xs s` followed by `s: s ++ "c"` changes the item of `xs`
  (`NoAliasMutated` without its premise).  `print @[s grow]`, where `grow` appends to
  `s`, prints the grown string twice (`WaitingOperandsKept`).  `s: s ++ "c"` in a
  function changes the outer `s` when its buffer has room, and binds a local
  otherwise (`LabelsAreLocal`).  `xs: xs ++ next`, with `xs` a constant, calls `next`
  twice (`AppendageOnce`).
* **Integers** (runtime.c:1473: overflow promotes; 1525: the sum of different signs is
  the difference with the sign of the larger).  `18446744073709551616 -
  18446744073709551615` prints -99999999999999999999: which one is larger is found by
  comparing texts that still have their sign (1549-1553).  The remainder of a big
  integer has no sign; division by a big zero never ends (1642-1665); `inc` and
  `neg` wrap at the limits (5725-5729); the least integer divided by -1 dies of SIGFPE; a
  big result that fits a machine integer again is not demoted by every operation.
  `Numbers` has all of this as the code does it, and the calculations of the run
  leave these cases out.
* **Signals**.  `continue` in a stored block that `loop` runs skips nothing, and ends
  the function around the loop, and its callers, once the loop is over
  (`EndsWithItsLoop`, with `Anywhere` = TRUE).
* **Dictionaries**.  `render 'd\a`, where the template removes `a` from `d`, overwrites
  another key (`WrittenToItsKey`).

## Not modelled

* Arena: pointer arithmetic local to one file, whose state no other component reads.
* Floats, and the conversion of numbers: `Numbers` has integers only.
* The lexers, of the compiler and of the runtime, and the intrinsics: characters and values without protocol.
* The AIR codec and the C text of the back ends: layout.
* The self-hosted compiler: the second implementation of what is modelled from the
  first, in Arturo.
* In the components that are `partly` modelled, what their notes in
  `PROJECT.json` name.
