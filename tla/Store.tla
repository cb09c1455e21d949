------------------------------- MODULE Store -------------------------------
(***************************************************************************)
(* Stores of src/runtime/runtime.c: dictionaries kept in files.  A store   *)
(* is read when it is opened; set and path assignments save it at once,    *)
(* or at exit if it was opened .deferred; saving truncates the file and    *)
(* writes it anew.  The process may be killed between any two steps, and   *)
(* started again.                                                          *)
(*                                                                         *)
(* A key stands for a whole entry: its value is either set as a whole or,  *)
(* being a dictionary itself, changed inside.  The file is that of the      *)
(* native format, one line for an entry; JSON, and a file that cannot be   *)
(* opened (then nothing is saved, silently), are left out.                 *)
(***************************************************************************)
EXTENDS Integers, Sequences, SequencesExt

CONSTANTS
    Paths, Keys, Values,
    MaxSets,  \* bound of the model: assignments
    MaxOpens, \* bound of the model: opened stores, of all processes
    Torn      \* what is left of an entry cut in two

ASSUME StoreAssumption == Torn \notin Values /\ MaxSets \in Nat /\ MaxOpens \in Nat

VARIABLES
    file,    \* for every path: is it there, its entries, and one cut in two
    phase,   \* running, exiting, exited, killed
    stores,  \* g_stores: [path, dict, autosave]
    handlers,\* what atexit has still to run, last registered last
    saving,  \* the store being saved, 0 for none; entries it has still to write
    left,
    flush,   \* stores the exit handler has still to look at
    freed,   \* has runtime_cleanup freed the arena?
    wanted,  \* history: for every path, the entries the program set
    inside,  \* history: paths changed inside an entry since the last save
    sets, opens \* history: how often

history == <<wanted, inside, sets, opens>>
vars == <<file, phase, stores, handlers, saving, left, flush, freed, history>>

Entries == Seq([key : Keys, val : Values \cup {Torn}])

Content(p) == file[p].entries \o file[p].cut

Idle == saving = 0 /\ flush = <<>>
Alive == phase \in {"running", "exiting"}

-----------------------------------------------------------------------------
(* Dictionaries.                                                           *)

At(d, k) == {i \in 1..Len(d) : d[i].key = k}

Put(d, k, v) ==
    IF At(d, k) = {} THEN Append(d, [key |-> k, val |-> v])
    ELSE [i \in 1..Len(d) |-> IF i \in At(d, k) THEN [d[i] EXCEPT !.val = v] ELSE d[i]]

-----------------------------------------------------------------------------
Init ==
    /\ file = [p \in Paths |-> [there |-> FALSE, entries |-> <<>>, cut |-> <<>>]]
    /\ phase = "running" /\ stores = <<>> /\ handlers = <<"cleanup">>
    /\ saving = 0 /\ left = <<>> /\ flush = <<>> /\ freed = FALSE
    /\ wanted = [p \in Paths |-> <<>>] /\ inside = {} /\ sets = 0 /\ opens = 0

\* As Handlers, when the handler of the stores is to run last.
HandlersFirst == IF stores = <<>> THEN <<"flush">> \o handlers ELSE handlers

\* The first store registers the exit handler.
Handlers == IF stores = <<>> THEN Append(handlers, "flush") ELSE handlers

\* store_open: a missing file is created, an existing one read.
Open(p, autosave) ==
    /\ phase = "running" /\ Idle /\ opens < MaxOpens
    /\ stores' = Append(stores,
                        [path |-> p, dict |-> Content(p), autosave |-> autosave])
    /\ file' = [file EXCEPT ![p].there = TRUE]
    /\ handlers' = Handlers
    /\ wanted' = [wanted EXCEPT ![p] =
          IF \E i \in 1..Len(stores) : stores[i].path = p THEN @ ELSE Content(p)]
    /\ opens' = opens + 1
    /\ UNCHANGED <<phase, saving, left, flush, freed, inside, sets>>

TruncateNot(s) == saving' = s /\ UNCHANGED file /\ left' = stores'[s].dict

\* store_save: the file is truncated first.
Truncate(s) ==
    /\ saving' = s
    /\ file' = [file EXCEPT ![stores[s].path] = [there |-> TRUE, entries |-> <<>>, cut |-> <<>>]]
    /\ left' = stores'[s].dict

SavesNewKeys(s, k) == stores[s].autosave /\ At(stores[s].dict, k) = {}
SavesAtOnce(s, k) == stores[s].autosave

\* b_set on a store: a path assignment of one step compiles to it.
Set(s, k, v) ==
    /\ phase = "running" /\ Idle /\ sets < MaxSets
    /\ stores' = [stores EXCEPT ![s].dict = Put(@, k, v)]
    /\ IF SavesAtOnce(s, k) THEN Truncate(s) ELSE UNCHANGED <<saving, file, left>>
    /\ wanted' = [wanted EXCEPT ![stores[s].path] = Put(@, k, v)]
    /\ sets' = sets + 1
    /\ UNCHANGED <<phase, handlers, flush, freed, inside, opens>>

\* A longer path compiles to a set on the inner dictionary, which is not a
\* store.
SetInside(s, k, v) ==
    /\ phase = "running" /\ Idle /\ sets < MaxSets /\ At(stores[s].dict, k) # {}
    /\ stores' = [stores EXCEPT ![s].dict = Put(@, k, v)]
    /\ wanted' = [wanted EXCEPT ![stores[s].path] = Put(@, k, v)]
    /\ inside' = inside \cup {stores[s].path}
    /\ sets' = sets + 1
    /\ UNCHANGED <<file, phase, handlers, saving, left, flush, freed, opens>>

\* An entry reaches the file, or the first part of it.
WriteEntry ==
    /\ Alive /\ saving # 0 /\ left # <<>>
    /\ LET p == stores[saving].path IN
       file' = [file EXCEPT ![p].entries = Append(@, left[1]), ![p].cut = <<>>]
    /\ left' = Tail(left)
    /\ UNCHANGED <<phase, stores, handlers, saving, flush, freed, history>>

WritePart ==
    /\ Alive /\ saving # 0 /\ left # <<>>
    /\ file' = [file EXCEPT ![stores[saving].path].cut = <<[left[1] EXCEPT !.val = Torn]>>]
    /\ UNCHANGED <<phase, stores, handlers, saving, left, flush, freed, history>>

SaveEnds ==
    /\ Alive /\ saving # 0 /\ left = <<>>
    /\ saving' = 0 /\ inside' = inside \ {stores[saving].path}
    /\ UNCHANGED <<file, phase, stores, handlers, left, flush, freed, wanted, sets, opens>>

-----------------------------------------------------------------------------
(* The end of the process.                                                 *)

\* The program ends, calls exit or dies of an error.
Exit ==
    /\ phase = "running" /\ Idle /\ phase' = "exiting"
    /\ UNCHANGED <<file, stores, handlers, saving, left, flush, freed, history>>

\* The handler registered last runs first.
RunHandler ==
    /\ phase = "exiting" /\ Idle /\ handlers # <<>>
    /\ handlers' = Front(handlers)
    /\ IF Last(handlers) = "flush"
       THEN flush' = [i \in 1..Len(stores) |-> i] /\ UNCHANGED freed
       ELSE freed' = TRUE /\ UNCHANGED flush
    /\ UNCHANGED <<file, phase, stores, saving, left, history>>

Deferred(s) == ~stores[s].autosave

\* store_flush_deferred saves the deferred stores in the order of opening.
FlushNext ==
    /\ Alive /\ saving = 0 /\ flush # <<>> /\ flush' = Tail(flush)
    /\ IF Deferred(flush[1]) THEN UNCHANGED stores /\ Truncate(flush[1])
       ELSE UNCHANGED <<file, saving, left, stores>>
    /\ UNCHANGED <<phase, handlers, freed, history>>

Exited ==
    /\ phase = "exiting" /\ Idle /\ handlers = <<>> /\ phase' = "exited"
    /\ UNCHANGED <<file, stores, handlers, saving, left, flush, freed, history>>

Kill ==
    /\ Alive /\ phase' = "killed"
    /\ UNCHANGED <<file, stores, handlers, saving, left, flush, freed, history>>

\* The next process finds the files.
Restart ==
    /\ phase \in {"exited", "killed"} /\ phase' = "running"
    /\ stores' = <<>> /\ handlers' = <<"cleanup">> /\ saving' = 0 /\ left' = <<>>
    /\ flush' = <<>> /\ freed' = FALSE /\ inside' = {}
    /\ UNCHANGED <<file, wanted, sets, opens>>

Step == WriteEntry \/ SaveEnds \/ RunHandler \/ FlushNext \/ Exited

Next ==
    \/ \E p \in Paths, autosave \in BOOLEAN : Open(p, autosave)
    \/ \E s \in 1..Len(stores), k \in Keys, v \in Values :
          Set(s, k, v) \/ SetInside(s, k, v)
    \/ WritePart \/ Step \/ Exit \/ Kill \/ Restart

Spec == Init /\ [][Next]_vars

-----------------------------------------------------------------------------
(* Properties                                                              *)

TypeOK ==
    /\ file \in [Paths -> [there : BOOLEAN, entries : Entries, cut : Entries]]
    /\ phase \in {"running", "exiting", "exited", "killed"}
    /\ stores \in Seq([path : Paths, dict : Entries, autosave : BOOLEAN])
    /\ handlers \in Seq({"cleanup", "flush"}) /\ Len(handlers) <= 2
    /\ saving \in 0..Len(stores) /\ left \in Entries
    /\ flush \in Seq(1..Len(stores)) /\ freed \in BOOLEAN
    /\ wanted \in [Paths -> Entries] /\ inside \subseteq Paths

Handles(p) == {s \in 1..Len(stores) : stores[s].path = p}

\* A store that saves at once is always on file, between statements and after
\* an exit or a kill between two of them, as far as it was assigned as a whole.
AutosavedIsOnFile ==
    \A p \in Paths :
        (Idle /\ p \notin inside /\ \E s \in Handles(p) : Handles(p) = {s} /\ stores[s].autosave)
            => Content(p) = wanted[p]

\* An exit, also one by an error, loses nothing of a deferred store: the handlers
\* save all of them, and before the arena, which holds them, is freed.
ExitSaves ==
    /\ freed => Idle
    /\ \A p \in Paths :
          (phase = "exited" /\ \E s \in Handles(p) : Handles(p) = {s} /\ ~stores[s].autosave)
              => Content(p) = wanted[p]

\* Whatever kills the process leaves every file with what was saved last, or
\* with the first part of what was being saved.
FilesArePrefixes ==
    TypeOK /\ (saving # 0 => file[stores[saving].path].entries \o left = stores[saving].dict)

\* "Mutations through set/path-assignment save immediately unless the store
\* was opened .deferred, in which case they are written at exit."
SavesImmediately ==
    \A p \in Paths :
        (Idle /\ \E s \in Handles(p) : Handles(p) = {s} /\ stores[s].autosave)
            => Content(p) = wanted[p]

=============================================================================
