------------------------------ MODULE Imports ------------------------------
(* The resolver of local imports, modules.hpp: the source of a program with *)
(* every imported file in the place of its import.  A file is a list of     *)
(* lines, each an import or other text; a path names a file or a package    *)
(* (a directory), and a package stands for the file its info.art names.     *)
EXTENDS Naturals, SequencesExt

CONSTANTS
    Files,      \* paths of files
    Packages,   \* paths of directories
    Main,       \* the file that is compiled
    MainOf,     \* for each package, its main.art
    Entries,    \* what the info.art of the packages may name
    MaxDepth    \* how deep resolve recurses before the C++ stack is full

VARIABLES
    src,        \* the files: <<>> stands for one that is not there or is empty
    entry,      \* what info.art names, the package's main.art when there is none
    stack,      \* the activations of resolve
    counter,    \* names given to dictionaries of selective imports
    status      \* "resolving", "done", "error" or "overflow"

Text == [form |-> "text"]
Import(form, path) == [form |-> form, path |-> path]

\* An activation: the file, its next line, what it has expanded to, and the form
\* of the import it is for.
Activation(f, form) == [file |-> f, line |-> 1, out |-> <<>>, form |-> form]

Top == stack[Len(stack)]
Line == src[Top.file][Top.line]

Init(files) ==
    /\ src = files /\ entry \in Entries
    /\ counter = 0
    /\ stack = <<Activation(Main, "import")>>
    /\ status = IF src[Main] = <<>> THEN "error" ELSE "resolving"

\* The file an import of path p reads: that of a package is the one info.art names
\* or, when that cannot be read, its main.art.
Denotes(p) ==
    IF p \notin Packages THEN p
    ELSE IF src[entry[p]] # <<>> THEN entry[p] ELSE MainOf[p]

\* resolveFromFile starts active with the compiled file, and each activation adds
\* the file it reads.
Active == {stack[i].file : i \in DOMAIN stack}

Resolving == status = "resolving" /\ Top.line <= Len(src[Top.file])

Emit(out) == stack' = [stack EXCEPT ![Len(stack)] = [@ EXCEPT !.out = @ \o out, !.line = @ + 1]]

CopyLine ==
    /\ Resolving /\ Line.form = "text"
    /\ Emit(<<<<"text", Top.file, 0>>>>)
    /\ UNCHANGED <<src, entry, counter, status>>

\* As Refused, when only the file that imports is looked at.
RefusedSelf(l) == l.form = "both" \/ l.path = Top.file \/ src[Denotes(l.path)] = <<>>

\* A combined import.lean.only, a path that is being resolved, or nothing to read.
Refused(l) == l.form = "both" \/ l.path \in Active \/ src[Denotes(l.path)] = <<>>

RefuseLine ==
    /\ Resolving /\ Line.form # "text" /\ Refused(Line)
    /\ status' = "error"
    /\ UNCHANGED <<src, entry, stack, counter>>

EnterFile ==
    /\ Resolving /\ Line.form # "text" /\ ~Refused(Line)
    /\ IF Len(stack) < MaxDepth
       THEN /\ stack' = Append(stack, Activation(Denotes(Line.path), Line.form))
            /\ UNCHANGED status
       ELSE status' = "overflow" /\ UNCHANGED stack
    /\ UNCHANGED <<src, entry, counter>>

\* What replaces the import: the expanded file, the dictionary of its definitions,
\* or such a dictionary under a new name from which names are taken.
Replacement(form, out, n) ==
    CASE form = "import" -> out
      [] form = "lean"   -> <<<<"dictionary", "", 0>>>> \o out \o <<<<"end", "", 0>>>>
      [] form = "only"   -> <<<<"dictionary", "", n>>>> \o out \o <<<<"end", "", 0>>, <<"project", "", n>>>>

\* As Placed, when imports are hoisted to the top.
PlacedOnTop(out, import) == import \o out

\* The expansion goes where the import stands.
Placed(out, import) == out \o import

LeaveFile ==
    /\ status = "resolving" /\ Top.line > Len(src[Top.file])
    /\ IF Len(stack) = 1 THEN status' = "done" /\ UNCHANGED <<stack, counter>>
       ELSE /\ counter' = IF Top.form = "only" THEN counter + 1 ELSE counter
            /\ stack' = [i \in 1..(Len(stack) - 1) |->
                  IF i < Len(stack) - 1 THEN stack[i]
                  ELSE [stack[i] EXCEPT !.line = @ + 1,
                                        !.out = Placed(@, Replacement(Top.form, Top.out, counter'))]]
            /\ UNCHANGED status
    /\ UNCHANGED <<src, entry>>

Next == CopyLine \/ RefuseLine \/ EnterFile \/ LeaveFile

-----------------------------------------------------------------------------
(* Properties                                                              *)

TypeOK ==
    /\ status \in {"resolving", "done", "error", "overflow"}
    /\ Len(stack) \in 1..MaxDepth
    /\ counter \in Nat
    /\ \A i \in DOMAIN stack : stack[i].file \in Files /\ stack[i].line \in 1..(Len(src[stack[i].file]) + 1)

\* The files an import statement of file f leads to.
Imported(f) == {Denotes(l.path) : l \in {m \in ToSet(src[f]) : m.form # "text"}}

RECURSIVE Reached(_)
Reached(F) == LET G == F \cup UNION {Imported(f) : f \in F} IN IF G = F THEN F ELSE Reached(G)

Cyclic  == \E f \in Reached({Main}) : f \in Reached(Imported(f))
Missing == \E f \in Reached({Main}) : src[f] = <<>>
Mixed   == \E f \in Reached({Main}) : \E l \in ToSet(src[f]) : l.form = "both"

\* "Cycles and missing files are compile errors", and nothing else is: the answer
\* found along the imports is the one the graph of all imports gives, and it is
\* found before the stack is full.
VerdictRight ==
    /\ status # "overflow"
    /\ status = "done" => ~(Cyclic \/ Missing \/ Mixed)
    /\ status = "error" => Cyclic \/ Missing \/ Mixed

\* "executes a file unscoped at the import position": the lines of the result are
\* those of a program that read each file where it is imported, every time.
RECURSIVE Executed(_, _)
Executed(f, i) ==
    IF i > Len(src[f]) THEN <<>>
    ELSE LET l == src[f][i]
         IN  (IF l.form = "text" THEN <<f>> ELSE Executed(Denotes(l.path), 1)) \o Executed(f, i + 1)

Lines(out) == LET t == SelectSeq(out, LAMBDA m : m[1] = "text") IN [i \in DOMAIN t |-> t[i][2]]

\* Names taken from a selective import are taken from the dictionary made just
\* before for it, though files imported in between made others.
OwnDictionary ==
    \A i \in DOMAIN Top.out : Top.out[i][1] = "project" =>
        /\ \E j \in 1..(i - 1) : Top.out[j] = <<"dictionary", "", Top.out[i][3]>>
        /\ \A j \in DOMAIN Top.out : j # i => Top.out[j] # Top.out[i]

\* The expansion has every line in its place, and names from the right dictionary.
InPlace == OwnDictionary /\ (status = "done" => Lines(Top.out) = Executed(Main, 1))
=============================================================================
