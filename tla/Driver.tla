------------------------------- MODULE Driver -------------------------------
(* arturoc, main.cpp: one compilation after the other with the same output  *)
(* path.  The imports are resolved (Imports), the IR is optimised and       *)
(* verified (Optimizer), and one of the back ends writes the executable;    *)
(* every write, child process and rename may fail, and the process may be   *)
(* killed between any two steps.  Lexer, parser and emitter are one step    *)
(* that yields some program or an error.                                    *)
EXTENDS Naturals, Sequences

CONSTANTS
    Files, Packages, Main, MainOf, Entries, MaxDepth,   \* of Imports
    MaxInt, Radix, LimbDigits, PowLoops, Names, MaxIter,        \* of Optimizer
    Inputs,     \* families of sources and of the programs they may hold
    Small,      \* the program compiled by any but the first compilation
    MaxRuns     \* compilations

ASSUME PathsAssumption ==
    /\ Main \in Files /\ Files \cap Packages = {}
    /\ MainOf \in [Packages -> Files]
    /\ MaxDepth \in Nat \ {0}
ASSUME RunsAssumption == MaxRuns \in Nat /\ MaxIter \in Nat \ {0}

VARIABLES
    src, entry, stack, counter, status,                 \* of Imports
    nodes, root, pass, iter, count, before, shown,      \* of Optimizer
    tree,       \* the program the sources hold
    stage,      \* where main is
    rc,         \* the exit status, "none" while main runs
    run,        \* which compilation this is
    backend,    \* "fast" or "c"; direct is c with other text
    payload,    \* whether what is written shows what the source does
    out,        \* the executable at the output path
    temps,      \* the other files main makes
    built,      \* builtRuntime: this compilation makes its own runtime object
    short,      \* a write of this compilation was seen to fail half way
    unseen      \* one fell short and nobody noticed

resolver  == <<src, entry, stack, counter, status>>
optimizer == <<tree, nodes, root, pass, iter, count, before, shown>>
disk      == <<out, temps, built, short, unseen>>
vars == <<resolver, optimizer, disk, stage, rc, run, backend, payload>>

I == INSTANCE Imports
O == INSTANCE Optimizer

\* The file the fast back end renames has the process in its name; the C text and
\* the objects of the others have the name of the output.
Sibling(r) == <<"sibling", r>>
C       == <<"c", 0>>
Object  == <<"object", 0>>
Runtime == <<"runtime", 0>>
Temps == {C, Object, Runtime} \cup {Sibling(r) : r \in 1..MaxRuns}

\* A file and the compilation that wrote it; the output also has what it shows.
Nothing == [is |-> "none", run |-> 0]
NoFile  == [is |-> "none", run |-> 0, same |-> TRUE]
Written(is) == [is |-> is, run |-> run, same |-> payload]

At(s)   == stage = s /\ rc = "none"
Goto(s) == stage' = s /\ UNCHANGED rc
Exit(r) == stage' = "over" /\ rc' = r

\* What no later stage reads is forgotten.
NoSources ==
    /\ src' = [f \in Files |-> <<>>] /\ entry' = MainOf
    /\ stack' = <<>> /\ counter' = 0 /\ status' = "done"
NoProgram ==
    /\ nodes' = <<>> /\ root' = 0 /\ pass' = "done"
    /\ iter' = 0 /\ count' = 0 /\ before' = 0 /\ shown' = <<>>
    /\ tree' = Small

Init ==
    /\ \E i \in DOMAIN Inputs : \E s \in Inputs[i].sources, t \in Inputs[i].programs :
          I!Init(s) /\ tree = t
    /\ nodes = <<>> /\ root = 0 /\ pass = "done" /\ iter = 0 /\ count = 0 /\ before = 0 /\ shown = <<>>
    /\ stage = "resolve" /\ rc = "none" /\ run = 1
    /\ backend = "fast" /\ payload = TRUE
    /\ out = NoFile /\ temps = [t \in Temps |-> Nothing]
    /\ built = FALSE /\ short = FALSE /\ unseen = FALSE

-----------------------------------------------------------------------------
(* From the sources to verified IR                                         *)

\* resolveImportsFromFile.
Resolve ==
    /\ At("resolve") /\ I!Next
    /\ UNCHANGED <<optimizer, disk, stage, rc, run, backend, payload>>

Resolved ==
    /\ At("resolve") /\ status = "done"
    /\ Goto("front") /\ NoSources
    /\ UNCHANGED <<optimizer, disk, run, backend, payload>>

\* A CompileError of the resolver, the lexer, the parser or the emitter.
Reject ==
    /\ (At("resolve") /\ status = "error") \/ At("front")
    /\ Exit("failed") /\ NoSources
    /\ UNCHANGED <<optimizer, disk, run, backend, payload>>

\* The program as the emitter leaves it.
Front ==
    /\ At("front")
    /\ nodes' = O!Emitted(tree) /\ root' = Len(nodes') /\ tree' = Small
    /\ iter' = 1 /\ count' = 0 /\ before' = 0
    /\ pass' = "fold" /\ shown' = <<>>
    /\ Goto("verify")
    /\ UNCHANGED <<resolver, disk, run, backend, payload>>

\* The first verifyProgram; with -O0 no pass runs.
Verify ==
    /\ At("verify")
    /\ shown' = O!Shows(nodes, root)
    /\ pass' \in {"fold", "done"}
    /\ IF O!Verified THEN Goto("optimize") ELSE Exit("failed")
    /\ UNCHANGED <<tree, nodes, root, iter, count, before, resolver, disk, run, backend, payload>>

Optimize ==
    /\ At("optimize") /\ O!Next
    /\ UNCHANGED <<tree, resolver, disk, stage, rc, run, backend, payload>>

\* The verifier once more, and on to the back end.
Optimized ==
    /\ At("optimize") /\ pass = "done"
    /\ payload' = (O!Shows(nodes, root) = shown)
    /\ backend' \in {"fast", "c"}
    /\ IF O!Verified THEN Goto("write") ELSE Exit("failed")
    /\ NoProgram
    /\ UNCHANGED <<resolver, disk, run>>

-----------------------------------------------------------------------------
(* The fast back end                                                       *)

Back == UNCHANGED <<resolver, optimizer, run, backend, payload>>
Becomes(t, is) == temps' = [temps EXCEPT ![t] = IF is = "none" THEN Nothing ELSE [is |-> is, run |-> run]]

\* No stub, no runtime directory, a file that cannot be opened.
CannotWrite ==
    /\ At("write") /\ Exit("failed")
    /\ UNCHANGED disk /\ Back

\* As OpenSibling, when the output itself is written.
OpenSiblingInPlace ==
    /\ At("write") /\ backend = "fast"
    /\ Becomes(Sibling(run), "part") /\ Goto("sibling")
    /\ out' = Written("part") /\ UNCHANGED <<built, short, unseen>> /\ Back

\* writeAll opens and truncates, then writes.
OpenSibling ==
    /\ At("write") /\ backend = "fast"
    /\ Becomes(Sibling(run), "part") /\ Goto("sibling")
    /\ UNCHANGED <<out, built, short, unseen>> /\ Back

\* writeAll looks at the stream once, behind write.  What its destructor cannot flush
\* or close is missing from file t, and main goes on as if it were there.
Wrote(t, next) ==
    /\ \E is \in {"whole", "part"} : Becomes(t, is) /\ unseen' = (is = "part")
    /\ Goto(next)
    /\ UNCHANGED <<out, built, short>> /\ Back

\* (What readAll misses of the stub is missing from the sibling as well.)
WriteSibling == At("sibling") /\ Wrote(Sibling(run), "rename")

\* The disk is full and write itself fails: writeAll throws, and what it wrote stays.
ShortWrite ==
    /\ At("sibling") \/ At("text")
    /\ short' = TRUE /\ Exit("failed")
    /\ UNCHANGED <<out, temps, built, unseen>> /\ Back

\* As Rename, when nobody looks at what rename returns.
RenameUnchecked ==
    /\ At("rename") /\ Becomes(Sibling(run), "none")
    /\ out' \in {out, Written(temps[Sibling(run)].is)} /\ Exit("ok")
    /\ UNCHANGED <<built, short, unseen>> /\ Back

Rename ==
    /\ At("rename") /\ Becomes(Sibling(run), "none")
    /\ \/ out' = Written(temps[Sibling(run)].is) /\ Exit("ok")
       \/ UNCHANGED out /\ Exit("failed")
    /\ UNCHANGED <<built, short, unseen>> /\ Back

-----------------------------------------------------------------------------
(* The C back ends                                                         *)

OpenText ==
    /\ At("write") /\ backend = "c"
    /\ Becomes(C, "part") /\ Goto("text")
    /\ UNCHANGED <<out, built, short, unseen>> /\ Back

WriteText == At("text") /\ Wrote(C, "compile")

\* A child process makes file t; it may fail and leave a part of it.
Makes(s, t, next) ==
    /\ At(s)
    /\ LET begun == temps[t] = [is |-> "part", run |-> run]
       IN  \/ ~begun /\ Becomes(t, "part") /\ UNCHANGED <<stage, rc>>
           \/ begun /\ Becomes(t, "whole") /\ Goto(next)
           \/ begun /\ \E is \in {"none", "part"} : Becomes(t, is) /\ Goto("undo")
    /\ UNCHANGED <<out, built, short, unseen>> /\ Back

CompileText == Makes("compile", Object, "runtime")

\* runtime.o of the installation, or one made here.
FindRuntime ==
    /\ At("runtime") /\ built' \in BOOLEAN
    /\ Goto(IF built' THEN "build" ELSE "link")
    /\ UNCHANGED <<out, temps, short, unseen>> /\ Back

BuildRuntime == Makes("build", Runtime, "link")

\* The linker writes the output itself, and removes it when it fails; it may also fail
\* before it begins.  A text that was cut short has no main, which is written last.
Link ==
    /\ At("link")
    /\ LET begun == out = Written("part")
       IN  \/ ~begun /\ out' = Written("part") /\ UNCHANGED <<stage, rc>>
           \/ ~begun /\ UNCHANGED out /\ Goto("undo")
           \/ begun /\ ~unseen /\ out' = Written("whole") /\ Goto("finish")
           \/ begun /\ out' = NoFile /\ Goto("undo")
    /\ UNCHANGED <<temps, built, short, unseen>> /\ Back

\* As Removes, when a failing compilation keeps the objects.
RemovesOnSuccess == IF stage = "finish" THEN {C, Object, Runtime} ELSE {C}

\* cleanup: the runtime's object only when this compilation made it.
Removes == {C, Object} \cup (IF built THEN {Runtime} ELSE {})

\* Then main exits or throws.
Cleanup ==
    /\ At("finish") \/ At("undo")
    /\ temps' = [t \in Temps |-> IF t \in Removes THEN Nothing ELSE temps[t]]
    /\ Exit(IF stage = "finish" THEN "ok" ELSE "failed")
    /\ UNCHANGED <<out, built, short, unseen>> /\ Back

-----------------------------------------------------------------------------
(* The specification                                                       *)

Kill ==
    /\ rc = "none" /\ Exit("killed")
    /\ NoSources /\ NoProgram
    /\ UNCHANGED <<disk, run, backend, payload>>

\* Another compilation with the same output path; its sources resolve.
Again ==
    /\ stage = "over" /\ run < MaxRuns
    /\ run' = run + 1 /\ stage' = "front" /\ rc' = "none"
    /\ NoSources /\ NoProgram
    /\ payload' = TRUE /\ built' = FALSE /\ short' = FALSE /\ unseen' = FALSE
    /\ UNCHANGED <<out, temps, backend>>

Step ==
    \/ Resolve \/ Resolved \/ Reject \/ Front \/ Verify \/ Optimize \/ Optimized
    \/ CannotWrite \/ OpenSibling \/ WriteSibling \/ ShortWrite \/ Rename
    \/ OpenText \/ WriteText \/ CompileText \/ FindRuntime \/ BuildRuntime \/ Link \/ Cleanup

Next == Step \/ Kill \/ Again

Spec == Init /\ [][Next]_vars

-----------------------------------------------------------------------------
(* Properties                                                              *)

Stages == {"resolve", "front", "verify", "optimize", "write", "sibling", "rename", "text", "compile",
           "runtime", "build", "link", "finish", "undo", "over"}

TypeOK ==
    /\ stage \in Stages /\ rc \in {"none", "ok", "failed", "killed"}
    /\ stage = "over" <=> rc # "none"
    /\ stage = "resolve" => I!TypeOK
    /\ stage = "optimize" => O!TypeOK
    /\ \A t \in Temps : temps[t].is = "none" \/ temps[t].run \in 1..run

VerdictRight == stage = "resolve" => I!VerdictRight
InPlace      == stage = "resolve" => I!InPlace
StaysTree    == TypeOK /\ (stage = "optimize" => O!Verified /\ O!StaysTree)
MeaningKept  == stage = "optimize" => O!MeaningKept
ArithmeticExact == stage = "verify" => O!ArithmeticExact

\* Short of a linker at work, no step, kill or failure leaves anything at the output
\* path but what was there, or the executable of a compilation that reports success:
\* a whole one, unless a write fell short that nobody noticed (ReplacedWhole).
OutputWhole ==
    [][out' # out => stage = "link" \/ (rc' = "ok" /\ (out'.is = "whole" \/ unseen))]_vars

\* "remove them on success and failure": a compilation that ends by itself leaves
\* none of its intermediate files, whatever failed and whatever earlier ones left
\* behind - except when a write was seen to fail half way.
IntermediatesRemoved ==
    rc \in {"ok", "failed"} /\ ~short => \A t \in Temps : temps[t].run # run

\* Exit status 0: the output is the executable of this compilation, and it shows what
\* the source does.  The C back ends never report success for less than a whole one,
\* whatever went wrong; the fast one does only if a write fell short that nobody
\* noticed.
SuccessIsBuilt ==
    rc = "ok" =>
        /\ out.run = run /\ out.same
        /\ out.is = "whole" \/ (backend = "fast" /\ unseen)

\* "Executables are replaced atomically": what the fast back end puts in the place of
\* the old executable is never a partially written file.  The code does not keep it:
\* writeAll does not see the stream fail when its destructor flushes and closes it.
ReplacedWhole == rc = "ok" /\ backend = "fast" => out.is = "whole"
=============================================================================
