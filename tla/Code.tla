-------------------------------- MODULE Code --------------------------------
(* A block of code in its two lives: compiled where it stands (Grouping,    *)
(* Emitter, IR), and stored, grouped and run by the runtime (Stored).       *)
EXTENDS Emitter

CONSTANTS
    Fixed, Verbatim, Binop, Hidable,    \* of Stored
    Programs    \* groups of programs: the tokens of each, and whether they are run
                \* "inline", "stored" or both

ASSUME ProgramsAssumption == \A k \in DOMAIN Programs : Programs[k].runs \subseteq {"inline", "stored"}

VARIABLES
    it, at, state, value,   \* of Stored
    runs,       \* how the program is run
    stage,      \* "parse", "inline", "stored", "over" or "rejected"
    ir,         \* what it is compiled to
    ended       \* the state in which the compiled program ends

vars == <<toks, p, it, at, state, value, runs, stage, ir, ended>>

S == INSTANCE Stored WITH Known <- Builtins

evaluator == <<it, at, state, value>>

Start0 == /\ \E k \in DOMAIN Programs : \E ts \in Programs[k].toks :
                Init(ts) /\ S!Init(ts) /\ runs = Programs[k].runs
          /\ stage = "parse" /\ ir = <<>> /\ ended = Start

Parse == stage = "parse" /\ Next /\ UNCHANGED <<evaluator, runs, stage, ir, ended>>

\* Emission, or a CompileError for a construct that misses operands.
Lower ==
    /\ stage = "parse" /\ Grouped
    /\ ir' = Emitted(EmitSeq(p.n, p.roots).t)
    /\ stage' = IF \E k \in DOMAIN ir' : ir'[k].op = "Error" THEN "rejected"
                ELSE IF "inline" \in runs THEN "inline" ELSE IF runs = {} THEN "over" ELSE "stored"
    /\ UNCHANGED <<toks, p, evaluator, runs, ended>>

RunInline ==
    /\ stage = "inline"
    /\ ended' = Run(ir, Len(ir), Start).s
    /\ stage' = IF "stored" \in runs THEN "stored" ELSE "over"
    /\ UNCHANGED <<toks, p, evaluator, runs, ir>>

RunStored ==
    /\ stage = "stored" /\ S!Run1
    /\ stage' = IF S!Over' THEN "over" ELSE "stored"
    /\ UNCHANGED <<toks, p, runs, ir, ended>>

Finished == stage \in {"over", "rejected"} /\ UNCHANGED vars

CodeNext == Parse \/ Lower \/ RunInline \/ RunStored \/ Finished
Spec == Start0 /\ [][CodeNext]_vars

-----------------------------------------------------------------------------
(* Properties                                                              *)

CodeTypeOK ==
    /\ TypeOK
    /\ stage = "stored" => S!TypeOK
    /\ stage \in {"inline", "stored", "over"} => Grouped

\* What the emitter makes of any tokens is IR that verifyProgram accepts: its
\* message is for errors of the compiler, never of the program.
EmittedWellFormed == CodeTypeOK /\ (stage \notin {"parse", "rejected"} => WellFormed(ir))

\* "matching the host": a block prints the same and leaves the same variables whether
\* it is compiled in place or stored and run, and it ends in an error both ways or
\* in none.
StoredAsInline ==
    stage = "over" /\ runs = {"inline", "stored"} =>
        /\ state.out = ended.out
        /\ state.sig = ended.sig
        /\ state.env = ended.env

\* A statement behind an arrow that is not run is passed over to where running it would
\* have ended, as far as the two walks read alike.
SkipsWhatRuns == stage \in {"stored", "over"} /\ runs = {"stored"} => S!SkipsWhatRuns

\* As the comment on skipStmt has it: that is so whatever the statement is.
MirrorsEvalStmt == stage \in {"stored", "over"} /\ runs = {"stored"} => S!MirrorsEvalStmt
=============================================================================
