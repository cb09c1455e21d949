---------------------------- MODULE StoreProofs ----------------------------
(***************************************************************************)
(* Proofs about Store for any files, entries and bounds.                   *)
(***************************************************************************)
EXTENDS Store, SequenceTheorems, TLAPS

Entry  == [key : Keys, val : Values \cup {Torn}]
Handler == {"cleanup", "flush"}
Handle == [path : Paths, dict : Entries, autosave : BOOLEAN]

\* s is the only handle on path p.
Only(st, p, s) ==
    /\ s \in 1..Len(st) /\ st[s].path = p
    /\ \A i \in 1..Len(st) : st[i].path = p => i = s

\* The handlers are a stack, of which a process that opened a store has both; they
\* are taken from it one by one, and nothing is saved when the last is gone.
Handling ==
    /\ Len(handlers) >= 1 => handlers[1] = "cleanup"
    /\ Len(handlers) = 2 => handlers[2] = "flush"
    /\ phase = "running" => /\ flush = <<>> /\ ~freed
                            /\ Len(handlers) = IF stores = <<>> THEN 1 ELSE 2
    /\ phase = "exited" \/ freed => Idle /\ Len(handlers) = 0
    /\ flush # <<>> => Len(handlers) = 1

\* A file that is written holds a prefix of its store, and nothing else when the
\* last entry is written.
Prefix ==
    saving # 0 =>
        /\ file[stores[saving].path].entries \o left = stores[saving].dict
        /\ left = <<>> => file[stores[saving].path].cut = <<>>

\* The dictionary of a store is what the program set.
DictsWanted ==
    \A p \in Paths, s \in 1..Len(stores) : Only(stores, p, s) => stores[s].dict = wanted[p]

\* A store that saves at once is on file, or on the way to it.
AtOnce ==
    \A p \in Paths, s \in 1..Len(stores) :
        Only(stores, p, s) /\ stores[s].autosave /\ p \notin inside
            => saving = s \/ Content(p) = wanted[p]

\* A deferred one is on file once the process exits, or has its handler, its
\* place in the queue or its save still before it.
AtExit ==
    phase \in {"exiting", "exited"} =>
        \A p \in Paths, s \in 1..Len(stores) :
            Only(stores, p, s) /\ ~stores[s].autosave
                => \/ Len(handlers) = 2 \/ \E i \in 1..Len(flush) : flush[i] = s
                   \/ saving = s \/ Content(p) = wanted[p]

IInv == TypeOK /\ Handling /\ Prefix /\ DictsWanted /\ AtOnce /\ AtExit

-----------------------------------------------------------------------------
(* Sequences                                                               *)

\* Files and dictionaries are sequences of entries.
LEMMA EntriesAre == Entries = Seq(Entry)
  BY DEF Entries, Entry

\* An assignment gives entries.
LEMMA PutEntries ==
    ASSUME NEW d \in Entries, NEW k \in Keys, NEW v \in Values
    PROVE  Put(d, k, v) \in Entries
  <1>1. [key |-> k, val |-> v] \in Entry
    BY DEF Entry
  <1>2. CASE At(d, k) = {}
    BY <1>1, <1>2, EntriesAre DEF Put
  <1>3. CASE At(d, k) # {}
    <2> DEFINE f == [i \in 1..Len(d) |-> IF i \in At(d, k) THEN [d[i] EXCEPT !.val = v] ELSE d[i]]
    <2>1. Put(d, k, v) = f
      BY <1>3 DEF Put
    <2>2. Len(d) \in Nat /\ \A i \in 1..Len(d) : d[i] \in Entry
      BY EntriesAre
    <2>3. ASSUME NEW i \in 1..Len(d)
          PROVE  [d[i] EXCEPT !.val = v] \in Entry
      BY <2>2 DEF Entry
    <2>4. f \in [1..Len(d) -> Entry]
      BY <2>2, <2>3
    <2>5. f \in Seq(Entry)
      BY <2>2, <2>4
    <2> QED BY <2>1, <2>5, EntriesAre
  <1> QED BY <1>2, <1>3

\* The next entry moves from what is left to what is written.
LEMMA EntryMoves ==
    ASSUME NEW e \in Entries, NEW l \in Entries, l # <<>>
    PROVE  /\ l[1] \in Entry /\ Tail(l) \in Entries /\ Append(e, l[1]) \in Entries
           /\ Append(e, l[1]) \o Tail(l) = e \o l
  <1>1. /\ Len(l) \in Nat \ {0} /\ l[1] \in Entry /\ Tail(l) \in Seq(Entry)
        /\ Append(e, l[1]) \in Seq(Entry)
    BY EntriesAre
  <1>2. Append(e, l[1]) \o Tail(l) = e \o l
    BY <1>1, EntriesAre
  <1> QED BY <1>1, <1>2, EntriesAre

\* The first part of an entry.
LEMMA EntryCut ==
    ASSUME NEW x \in Entry
    PROVE  <<[x EXCEPT !.val = Torn]>> \in Entries
  <1>1. [x EXCEPT !.val = Torn] \in Entry
    BY DEF Entry
  <1> QED BY <1>1, EntriesAre

\* Nothing before or behind a sequence.
LEMMA Joined ==
    /\ <<>> \in Entries
    /\ \A d \in Entries : <<>> \o d = d /\ d \o <<>> = d
    /\ \A d, e \in Entries : d \o e \in Entries
  BY EntriesAre

\* A second element.
LEMMA Second ==
    ASSUME NEW S, NEW h \in Seq(S), NEW x \in S
    PROVE  Len(h) = 1 => Append(h, x)[1] = h[1] /\ Append(h, x)[2] = x
  <1>1. \A i \in 1..Len(h) : Append(h, x)[i] = h[i]
    OBVIOUS
  <1>2. Append(h, x)[Len(h) + 1] = x
    BY AppendProperties, Zenon
  <1>3. ASSUME Len(h) = 1 PROVE Append(h, x)[1] = h[1] /\ Append(h, x)[2] = x
    <2>1. 1 \in 1..Len(h) /\ Len(h) + 1 = 2
      BY <1>3
    <2> QED BY <2>1, <1>1, <1>2, Zenon
  <1> QED BY <1>3

-----------------------------------------------------------------------------
(* Types                                                                   *)

\* What the type invariant says of a store and of a file.
LEMMA Typed ==
    ASSUME TypeOK
    PROVE  /\ stores \in Seq(Handle) /\ Len(stores) \in Nat
           /\ \A s \in 1..Len(stores) :
                 /\ stores[s] \in Handle /\ stores[s].path \in Paths
                 /\ stores[s].dict \in Entries /\ stores[s].autosave \in BOOLEAN
           /\ \A p \in Paths :
                 /\ file[p].there \in BOOLEAN /\ file[p].entries \in Entries
                 /\ file[p].cut \in Entries /\ Content(p) \in Entries /\ wanted[p] \in Entries
           /\ saving # 0 => saving \in 1..Len(stores)
  <1>1. stores \in Seq(Handle)
    BY DEF TypeOK, Handle
  <1>2. Len(stores) \in Nat /\ \A s \in 1..Len(stores) : stores[s] \in Handle
    BY <1>1
  <1>3. \A h \in Handle : h.path \in Paths /\ h.dict \in Entries /\ h.autosave \in BOOLEAN
    BY DEF Handle
  <1>4. \A p \in Paths : /\ file[p].there \in BOOLEAN /\ file[p].entries \in Entries
                         /\ file[p].cut \in Entries /\ wanted[p] \in Entries
    BY DEF TypeOK
  <1>5. \A p \in Paths : Content(p) \in Entries
    BY <1>4, Joined DEF Content
  <1>6. saving # 0 => saving \in 1..Len(stores)
    BY <1>2 DEF TypeOK
  <1> QED BY <1>1, <1>2, <1>3, <1>4, <1>5, <1>6

\* What the invariant says of the handlers.
LEMMA HandlersAre ==
    ASSUME TypeOK, Handling
    PROVE  /\ handlers \in Seq(Handler) /\ Len(handlers) \in 0..2
           /\ Len(handlers) >= 1 => handlers[1] = "cleanup"
           /\ Len(handlers) = 2 => handlers[2] = "flush"
           /\ phase = "running" /\ stores = <<>> => Len(handlers) = 1
           /\ phase = "running" /\ stores # <<>> => Len(handlers) = 2
  <1>1. handlers \in Seq(Handler) /\ Len(handlers) <= 2
    BY DEF TypeOK, Handler
  <1>2. Len(handlers) \in 0..2
    <2>1. Len(handlers) \in Nat
      BY <1>1
    <2>2. \A n \in Nat : n <= 2 => n \in 0..2
      OBVIOUS
    <2> QED BY <2>1, <2>2, <1>1
  <1>3. /\ Len(handlers) >= 1 => handlers[1] = "cleanup"
        /\ Len(handlers) = 2 => handlers[2] = "flush"
    BY DEF Handling
  <1>4. phase = "running" => Len(handlers) = IF stores = <<>> THEN 1 ELSE 2
    BY DEF Handling
  <1> QED BY <1>1, <1>2, <1>3, <1>4

\* A changed dictionary leaves the handles on their paths.
LEMMA DictChanges ==
    ASSUME TypeOK, NEW s \in 1..Len(stores), NEW d \in Entries,
           stores' = [stores EXCEPT ![s].dict = d]
    PROVE  /\ stores' \in Seq(Handle) /\ Len(stores') = Len(stores)
           /\ \A i \in 1..Len(stores) : /\ stores'[i].path = stores[i].path
                                        /\ stores'[i].autosave = stores[i].autosave
                                        /\ stores'[i].dict = IF i = s THEN d ELSE stores[i].dict
           /\ \A p \in Paths, i \in 1..Len(stores) : Only(stores', p, i) <=> Only(stores, p, i)
  <1>1. /\ stores \in Seq(Handle) /\ Len(stores) \in Nat
        /\ \A i \in 1..Len(stores) : stores[i] \in Handle
    BY Typed
  <1>2. [stores[s] EXCEPT !.dict = d] \in Handle
    BY <1>1 DEF Handle
  <1>3. stores' = [stores EXCEPT ![s] = [stores[s] EXCEPT !.dict = d]]
    OBVIOUS
  <1>4. stores' \in Seq(Handle) /\ Len(stores') = Len(stores)
    BY <1>1, <1>2, <1>3
  <1>5. ASSUME NEW i \in 1..Len(stores)
        PROVE  /\ stores'[i].path = stores[i].path /\ stores'[i].autosave = stores[i].autosave
               /\ stores'[i].dict = IF i = s THEN d ELSE stores[i].dict
    BY <1>1, <1>3 DEF Handle
  <1>6. \A p \in Paths, i \in 1..Len(stores) : Only(stores', p, i) <=> Only(stores, p, i)
    BY <1>4, <1>5 DEF Only
  <1> QED BY <1>4, <1>5, <1>6

\* A file that is written anew is a file.
LEMMA FileChanges ==
    ASSUME TypeOK, NEW p \in Paths, NEW b \in BOOLEAN, NEW e \in Entries, NEW c \in Entries
    PROVE  [file EXCEPT ![p] = [there |-> b, entries |-> e, cut |-> c]]
               \in [Paths -> [there : BOOLEAN, entries : Entries, cut : Entries]]
  <1>1. [there |-> b, entries |-> e, cut |-> c] \in [there : BOOLEAN, entries : Entries, cut : Entries]
    OBVIOUS
  <1> QED BY <1>1 DEF TypeOK

\* A file of which a part changes is one, and the others stay.
LEMMA EntryAdded ==
    ASSUME TypeOK, NEW p \in Paths, NEW e \in Entries, NEW c \in Entries,
           file' = [file EXCEPT ![p].entries = e, ![p].cut = c]
    PROVE  /\ file' \in [Paths -> [there : BOOLEAN, entries : Entries, cut : Entries]]
           /\ file'[p].entries = e /\ file'[p].cut = c
           /\ \A q \in Paths : q # p => file'[q] = file[q]
  <1> DEFINE F == [there : BOOLEAN, entries : Entries, cut : Entries]
             f == [[file[p] EXCEPT !.entries = e] EXCEPT !.cut = c]
  <1>1. file \in [Paths -> F] /\ file[p] \in F
    BY DEF TypeOK
  <1>2. f \in F /\ f.entries = e /\ f.cut = c
    BY <1>1
  <1>3. file' = [file EXCEPT ![p] = f]
    BY <1>1
  <1> HIDE DEF F, f
  <1>4. file' \in [Paths -> F] /\ file'[p] = f /\ \A q \in Paths : q # p => file'[q] = file[q]
    BY <1>1, <1>2, <1>3
  <1> QED BY <1>2, <1>4 DEF F

\* A save that is cut short changes no whole entry of a file.
LEMMA EntryTorn ==
    ASSUME TypeOK, NEW p \in Paths, NEW c \in Entries, file' = [file EXCEPT ![p].cut = c]
    PROVE  /\ file' \in [Paths -> [there : BOOLEAN, entries : Entries, cut : Entries]]
           /\ file'[p].entries = file[p].entries
           /\ \A q \in Paths : q # p => file'[q] = file[q]
  <1> DEFINE F == [there : BOOLEAN, entries : Entries, cut : Entries]
             f == [file[p] EXCEPT !.cut = c]
  <1>1. file \in [Paths -> F] /\ file[p] \in F
    BY DEF TypeOK
  <1>2. f \in F /\ f.entries = file[p].entries
    BY <1>1
  <1>3. file' = [file EXCEPT ![p] = f]
    BY <1>1
  <1> HIDE DEF F, f
  <1>4. file' \in [Paths -> F] /\ file'[p] = f /\ \A q \in Paths : q # p => file'[q] = file[q]
    BY <1>1, <1>2, <1>3
  <1> QED BY <1>2, <1>4 DEF F

\* The only handle on a path that is saved is the one saved.
LEMMA OnlySaved ==
    ASSUME TypeOK, saving # 0, NEW p \in Paths, NEW s \in 1..Len(stores), Only(stores, p, s),
           saving # s
    PROVE  stores[saving].path # p
  BY Typed DEF Only

-----------------------------------------------------------------------------
(* The invariant                                                           *)

\* It holds before the first step.
LEMMA InitIInv == Init => IInv
  <1> SUFFICES ASSUME Init PROVE IInv
    OBVIOUS
  <1>1. TypeOK
    <2>1. file \in [Paths -> [there : BOOLEAN, entries : Entries, cut : Entries]]
      BY Joined DEF Init
    <2>2. stores \in Seq([path : Paths, dict : Entries, autosave : BOOLEAN]) /\ Len(stores) = 0
      BY DEF Init
    <2>3. handlers \in Seq({"cleanup", "flush"}) /\ Len(handlers) = 1
      BY DEF Init
    <2>4. flush \in Seq(1..Len(stores)) /\ left \in Entries /\ wanted \in [Paths -> Entries]
      BY Joined DEF Init
    <2>5. phase = "running" /\ freed = FALSE /\ inside = {} /\ saving = 0
      BY DEF Init
    <2>6. saving \in 0..Len(stores) /\ Len(handlers) <= 2
      BY <2>2, <2>3, <2>5
    <2>7. inside \subseteq Paths /\ phase \in {"running", "exiting", "exited", "killed"}
      BY <2>5
    <2> QED BY <2>1, <2>2, <2>3, <2>4, <2>5, <2>6, <2>7 DEF TypeOK
  <1>2. Handling
    BY DEF Init, Handling, Idle
  <1>3. Prefix /\ DictsWanted /\ AtOnce /\ AtExit
    BY DEF Init, Prefix, DictsWanted, AtOnce, AtExit
  <1> QED BY <1>1, <1>2, <1>3 DEF IInv

\* Assignments: the dictionary and what is wanted change alike, and a store that
\* saves at once begins to.
LEMMA SetKeeps ==
    ASSUME IInv, NEW s \in 1..Len(stores), NEW k \in Keys, NEW v \in Values, Set(s, k, v)
    PROVE  IInv'
  <1> DEFINE d == Put(stores[s].dict, k, v)
             p == stores[s].path
  <1> USE DEF IInv
  <1>1. /\ stores[s].dict \in Entries /\ p \in Paths /\ stores[s].autosave \in BOOLEAN
        /\ d \in Entries /\ Put(wanted[p], k, v) \in Entries
    BY Typed, PutEntries
  <1>2. /\ stores' = [stores EXCEPT ![s].dict = d] /\ stores' \in Seq(Handle)
        /\ Len(stores') = Len(stores)
        /\ \A i \in 1..Len(stores) : /\ stores'[i].path = stores[i].path
                                     /\ stores'[i].autosave = stores[i].autosave
                                     /\ stores'[i].dict = IF i = s THEN d ELSE stores[i].dict
        /\ \A q \in Paths, i \in 1..Len(stores) : Only(stores', q, i) <=> Only(stores, q, i)
    <2>1. stores' = [stores EXCEPT ![s].dict = d]
      BY DEF Set
    <2> QED BY <2>1, <1>1, DictChanges
  <1>3. /\ wanted' = [wanted EXCEPT ![p] = Put(wanted[p], k, v)]
        /\ wanted' \in [Paths -> Entries]
    BY <1>1 DEF Set, TypeOK
  <1>4. IF stores[s].autosave
        THEN saving' = s /\ left' = d
             /\ file' = [file EXCEPT ![p] = [there |-> TRUE, entries |-> <<>>, cut |-> <<>>]]
        ELSE saving' = saving /\ left' = left /\ file' = file
    BY <1>2 DEF Set, Truncate, SavesAtOnce
  <1>5. /\ saving = 0 /\ flush = <<>> /\ phase = "running"
        /\ phase' = phase /\ handlers' = handlers /\ flush' = flush /\ freed' = freed
        /\ inside' = inside
    BY DEF Set, Idle
  <1>6. file' \in [Paths -> [there : BOOLEAN, entries : Entries, cut : Entries]]
    <2>1. [file EXCEPT ![p] = [there |-> TRUE, entries |-> <<>>, cut |-> <<>>]]
              \in [Paths -> [there : BOOLEAN, entries : Entries, cut : Entries]]
      BY <1>1, FileChanges, Joined
    <2> QED BY <2>1, <1>4 DEF TypeOK
  <1>7. TypeOK'
    <2>1. stores' \in Seq([path : Paths, dict : Entries, autosave : BOOLEAN])
      BY <1>2 DEF Handle
    <2>2. saving' \in 0..Len(stores') /\ left' \in Entries
      BY <1>1, <1>2, <1>4 DEF TypeOK
    <2>3. flush' \in Seq(1..Len(stores'))
      BY <1>2, <1>5 DEF TypeOK
    <2> QED BY <2>1, <2>2, <2>3, <1>3, <1>5, <1>6 DEF TypeOK
  <1>8. Handling'
    <2>1. stores' = <<>> <=> stores = <<>>
      BY <1>2
    <2> QED BY <2>1, <1>5 DEF Handling, Idle
  <1>9. Prefix'
    <2> SUFFICES ASSUME saving' # 0 PROVE /\ (file[stores[saving].path].entries \o left)' = stores[saving].dict'
                                          /\ left' = <<>> => file[stores[saving].path].cut' = <<>>
      BY DEF Prefix
    <2>1. saving' = s /\ left' = d /\ stores'[s].path = p /\ stores'[s].dict = d
      BY <1>2, <1>4, <1>5
    <2>2. file'[p] = [there |-> TRUE, entries |-> <<>>, cut |-> <<>>]
      BY <1>1, <1>4, <1>5 DEF TypeOK
    <2> QED BY <2>1, <2>2, <1>1, Joined
  <1>10. DictsWanted'
    <2> SUFFICES ASSUME NEW q \in Paths, NEW i \in 1..Len(stores), Only(stores, q, i)
                 PROVE  stores'[i].dict = wanted'[q]
      BY <1>2 DEF DictsWanted
    <2>1. CASE i = s
      <3>1. q = p /\ stores[s].dict = wanted[p]
        BY <2>1 DEF Only, DictsWanted
      <3> QED BY <3>1, <2>1, <1>1, <1>2, <1>3 DEF TypeOK
    <2>2. CASE i # s
      <3>1. q # p
        BY <2>2 DEF Only
      <3> QED BY <3>1, <2>2, <1>2, <1>3 DEF DictsWanted, TypeOK
    <2> QED BY <2>1, <2>2
  <1>11. AtOnce'
    <2> SUFFICES ASSUME NEW q \in Paths, NEW i \in 1..Len(stores), Only(stores, q, i),
                        stores[i].autosave, q \notin inside
                 PROVE  saving' = i \/ Content(q)' = wanted'[q]
      BY <1>2, <1>5 DEF AtOnce
    <2>1. CASE i = s
      BY <2>1, <1>4
    <2>2. CASE i # s
      <3>1. q # p
        BY <2>2 DEF Only
      <3>2. Content(q) = wanted[q]
        BY <1>5, Typed DEF AtOnce
      <3>3. wanted'[q] = wanted[q] /\ file'[q] = file[q]
        BY <3>1, <1>3, <1>4 DEF TypeOK
      <3> QED BY <3>2, <3>3 DEF Content
    <2> QED BY <2>1, <2>2
  <1>12. AtExit'
    BY <1>5 DEF AtExit
  <1> QED BY <1>7, <1>8, <1>9, <1>10, <1>11, <1>12

\* Opening: the new handle is that of its path if no other is.
LEMMA OpenKeeps ==
    ASSUME IInv, NEW p \in Paths, NEW autosave \in BOOLEAN, Open(p, autosave)
    PROVE  IInv'
  <1> DEFINE h == [path |-> p, dict |-> Content(p), autosave |-> autosave]
             n == Len(stores) + 1
  <1> USE DEF IInv
  <1>1. /\ phase = "running" /\ saving = 0 /\ flush = <<>>
        /\ phase' = phase /\ saving' = saving /\ left' = left /\ flush' = flush
        /\ freed' = freed /\ inside' = inside
    BY DEF Open, Idle
  <1>2. h \in Handle /\ Content(p) \in Entries
    BY Typed DEF Handle
  <1>3. /\ stores' = Append(stores, h) /\ stores' \in Seq(Handle) /\ Len(stores') = n
        /\ stores'[n] = h /\ \A i \in 1..Len(stores) : stores'[i] = stores[i]
        /\ Len(stores) \in Nat
    <2>1. stores' = Append(stores, h)
      BY DEF Open
    <2> QED BY <2>1, <1>2, Typed
  <1>4. file' = [file EXCEPT ![p] = [file[p] EXCEPT !.there = TRUE]]
    BY DEF Open
  <1>5. file' \in [Paths -> [there : BOOLEAN, entries : Entries, cut : Entries]]
    <2>1. file[p] \in [there : BOOLEAN, entries : Entries, cut : Entries]
      BY DEF TypeOK
    <2>2. [file[p] EXCEPT !.there = TRUE] \in [there : BOOLEAN, entries : Entries, cut : Entries]
      BY <2>1
    <2> QED BY <2>2, <1>4 DEF TypeOK
  <1>6. \A q \in Paths : Content(q)' = Content(q)
    <2>1. file[p] \in [there : BOOLEAN, entries : Entries, cut : Entries]
      BY DEF TypeOK
    <2>2. \A q \in Paths : file'[q].entries = file[q].entries /\ file'[q].cut = file[q].cut
      BY <2>1, <1>4 DEF TypeOK
    <2> QED BY <2>2 DEF Content
  <1>7. /\ wanted' \in [Paths -> Entries]
        /\ \A q \in Paths : wanted'[q] = IF q # p THEN wanted[q]
                 ELSE IF \E i \in 1..Len(stores) : stores[i].path = p THEN wanted[p]
                 ELSE Content(p)
    <2>1. wanted' = [wanted EXCEPT ![p] =
              IF \E i \in 1..Len(stores) : stores[i].path = p THEN wanted[p] ELSE Content(p)]
      BY DEF Open
    <2> QED BY <2>1, <1>2 DEF TypeOK
  <1>8. handlers' = IF stores = <<>> THEN Append(handlers, "flush") ELSE handlers
    BY DEF Open, Handlers
  <1>9. handlers' \in Seq(Handler) /\ handlers'[1] = "cleanup" /\ Len(handlers') = 2
        /\ handlers'[2] = "flush"
    <2>1. handlers \in Seq(Handler) /\ handlers[1] = "cleanup"
      BY <1>1, HandlersAre
    <2>2. CASE stores = <<>>
      <3>1. Len(handlers) = 1
        BY <2>2, <1>1, HandlersAre
      <3>2. "flush" \in Handler /\ handlers' = Append(handlers, "flush")
        BY <2>2, <1>8 DEF Handler
      <3>3. handlers' \in Seq(Handler) /\ Len(handlers') = Len(handlers) + 1
        BY <2>1, <3>2
      <3>4. handlers'[1] = handlers[1] /\ handlers'[2] = "flush"
        BY <2>1, <3>1, <3>2, Second
      <3> QED BY <2>1, <3>1, <3>3, <3>4
    <2>3. CASE stores # <<>>
      BY <2>1, <2>3, <1>1, <1>8, HandlersAre
    <2> QED BY <2>2, <2>3
  <1>10. TypeOK'
    <2>1. stores' \in Seq([path : Paths, dict : Entries, autosave : BOOLEAN])
      BY <1>3 DEF Handle
    <2>2. saving' \in 0..Len(stores') /\ left' \in Entries
      BY <1>1, <1>3 DEF TypeOK
    <2>3. flush' \in Seq(1..Len(stores'))
      BY <1>1
    <2> QED BY <2>1, <2>2, <2>3, <1>1, <1>5, <1>7, <1>9 DEF TypeOK, Handler
  <1>11. Handling'
    <2>1. stores' # <<>>
      BY <1>3
    <2> QED BY <2>1, <1>1, <1>9 DEF Handling, Idle
  <1>12. Prefix'
    BY <1>1 DEF Prefix
  <1>13. \A q \in Paths, i \in 1..Len(stores) :
             Only(stores', q, i) => Only(stores, q, i) /\ q # p
    <2> SUFFICES ASSUME NEW q \in Paths, NEW i \in 1..Len(stores), Only(stores', q, i)
                 PROVE  Only(stores, q, i) /\ q # p
      OBVIOUS
    <2>1. n \in 1..Len(stores') /\ n # i /\ \A j \in 1..Len(stores) : j \in 1..Len(stores')
      BY <1>3
    <2> QED BY <2>1, <1>3 DEF Only
  <1>14. \A q \in Paths : Only(stores', q, n) => q = p /\ ~\E i \in 1..Len(stores) : stores[i].path = p
    <2> SUFFICES ASSUME NEW q \in Paths, Only(stores', q, n)
                 PROVE  q = p /\ ~\E i \in 1..Len(stores) : stores[i].path = p
      OBVIOUS
    <2>1. \A j \in 1..Len(stores) : j \in 1..Len(stores') /\ n # j
      BY <1>3
    <2> QED BY <2>1, <1>3 DEF Only
  <1>15. 1..Len(stores') = 1..Len(stores) \cup {n}
    BY <1>3
  <1>16. DictsWanted'
    <2> SUFFICES ASSUME NEW q \in Paths, NEW i \in 1..Len(stores'), Only(stores', q, i)
                 PROVE  stores'[i].dict = wanted'[q]
      BY DEF DictsWanted
    <2>1. CASE i = n
      BY <2>1, <1>3, <1>7, <1>14
    <2>2. CASE i \in 1..Len(stores)
      BY <2>2, <1>3, <1>7, <1>13 DEF DictsWanted
    <2> QED BY <2>1, <2>2, <1>15
  <1>17. AtOnce'
    <2> SUFFICES ASSUME NEW q \in Paths, NEW i \in 1..Len(stores'), Only(stores', q, i),
                        stores'[i].autosave, q \notin inside
                 PROVE  Content(q)' = wanted'[q]
      BY <1>1 DEF AtOnce
    <2>1. CASE i = n
      BY <2>1, <1>6, <1>7, <1>14
    <2>2. CASE i \in 1..Len(stores)
      <3>1. Only(stores, q, i) /\ q # p /\ stores[i].autosave
        BY <2>2, <1>3, <1>13
      <3>2. saving # i
        BY <1>1, <2>2, <1>3
      <3>3. Content(q) = wanted[q]
        BY <3>1, <3>2, <2>2 DEF AtOnce
      <3> QED BY <3>1, <3>3, <1>6, <1>7
    <2> QED BY <2>1, <2>2, <1>15
  <1>18. AtExit'
    BY <1>1 DEF AtExit
  <1> QED BY <1>10, <1>11, <1>12, <1>16, <1>17, <1>18

\* An assignment inside an entry leaves the file behind, and says so.
LEMMA SetInsideKeeps ==
    ASSUME IInv, NEW s \in 1..Len(stores), NEW k \in Keys, NEW v \in Values, SetInside(s, k, v)
    PROVE  IInv'
  <1> DEFINE d == Put(stores[s].dict, k, v)
             p == stores[s].path
  <1> USE DEF IInv
  <1>1. /\ stores[s].dict \in Entries /\ p \in Paths
        /\ d \in Entries /\ Put(wanted[p], k, v) \in Entries
    BY Typed, PutEntries
  <1>2. /\ stores' \in Seq(Handle) /\ Len(stores') = Len(stores)
        /\ \A i \in 1..Len(stores) : /\ stores'[i].path = stores[i].path
                                     /\ stores'[i].autosave = stores[i].autosave
                                     /\ stores'[i].dict = IF i = s THEN d ELSE stores[i].dict
        /\ \A q \in Paths, i \in 1..Len(stores) : Only(stores', q, i) <=> Only(stores, q, i)
    <2>1. stores' = [stores EXCEPT ![s].dict = d]
      BY DEF SetInside
    <2> QED BY <2>1, <1>1, DictChanges
  <1>3. /\ wanted' = [wanted EXCEPT ![p] = Put(wanted[p], k, v)]
        /\ wanted' \in [Paths -> Entries]
    BY <1>1 DEF SetInside, TypeOK
  <1>4. /\ saving = 0 /\ flush = <<>> /\ phase = "running"
        /\ phase' = phase /\ handlers' = handlers /\ flush' = flush /\ freed' = freed
        /\ saving' = saving /\ left' = left /\ file' = file /\ inside' = inside \cup {p}
    BY DEF SetInside, Idle
  <1>5. TypeOK'
    <2>1. stores' \in Seq([path : Paths, dict : Entries, autosave : BOOLEAN])
      BY <1>2 DEF Handle
    <2>2. saving' \in 0..Len(stores')
      BY <1>2, <1>4 DEF TypeOK
    <2>3. flush' \in Seq(1..Len(stores')) /\ inside' \subseteq Paths
      BY <1>1, <1>2, <1>4 DEF TypeOK
    <2> QED BY <2>1, <2>2, <2>3, <1>3, <1>4 DEF TypeOK
  <1>6. Handling'
    <2>1. stores' = <<>> <=> stores = <<>>
      BY <1>2
    <2> QED BY <2>1, <1>4 DEF Handling, Idle
  <1>7. Prefix' /\ AtExit'
    BY <1>4 DEF Prefix, AtExit
  <1>8. DictsWanted'
    <2> SUFFICES ASSUME NEW q \in Paths, NEW i \in 1..Len(stores), Only(stores, q, i)
                 PROVE  stores'[i].dict = wanted'[q]
      BY <1>2 DEF DictsWanted
    <2>1. CASE i = s
      <3>1. q = p /\ stores[s].dict = wanted[p]
        BY <2>1 DEF Only, DictsWanted
      <3> QED BY <3>1, <2>1, <1>1, <1>2, <1>3 DEF TypeOK
    <2>2. CASE i # s
      <3>1. q # p
        BY <2>2 DEF Only
      <3> QED BY <3>1, <2>2, <1>2, <1>3 DEF DictsWanted, TypeOK
    <2> QED BY <2>1, <2>2
  <1>9. AtOnce'
    <2> SUFFICES ASSUME NEW q \in Paths, NEW i \in 1..Len(stores), Only(stores, q, i),
                        stores[i].autosave, q \notin inside \cup {p}
                 PROVE  Content(q)' = wanted'[q]
      BY <1>2, <1>4 DEF AtOnce
    <2>1. saving # i
      BY <1>4, Typed
    <2>2. Content(q) = wanted[q]
      BY <2>1 DEF AtOnce
    <2>3. wanted'[q] = wanted[q]
      BY <1>3 DEF TypeOK
    <2> QED BY <2>2, <2>3, <1>4 DEF Content
  <1> QED BY <1>5, <1>6, <1>7, <1>8, <1>9

\* While a save goes on, only its file changes, and no deferred or saved store's.
LEMMA OthersKept ==
    ASSUME TypeOK, AtOnce, AtExit, saving # 0,
           phase' = phase, stores' = stores, handlers' = handlers, saving' = saving,
           flush' = flush, wanted' = wanted, inside' = inside,
           \A q \in Paths : q # stores[saving].path => file'[q] = file[q]
    PROVE  AtOnce' /\ AtExit'
  <1>1. ASSUME NEW q \in Paths, NEW i \in 1..Len(stores), Only(stores, q, i), saving # i
        PROVE  Content(q)' = Content(q)
    BY <1>1, OnlySaved DEF Content
  <1>2. AtOnce'
    BY <1>1 DEF AtOnce
  <1>3. AtExit'
    BY <1>1 DEF AtExit
  <1> QED BY <1>2, <1>3

\* An entry is written.
LEMMA WriteEntryKeeps ==
    ASSUME IInv, WriteEntry
    PROVE  IInv'
  <1> DEFINE p == stores[saving].path
             e == Append(file[p].entries, left[1])
  <1> USE DEF IInv
  <1>1. /\ saving # 0 /\ left # <<>> /\ left' = Tail(left)
        /\ phase' = phase /\ stores' = stores /\ handlers' = handlers /\ saving' = saving
        /\ flush' = flush /\ freed' = freed /\ wanted' = wanted /\ inside' = inside
    BY DEF WriteEntry, history
  <1>2. /\ p \in Paths /\ saving \in 1..Len(stores) /\ file[p].entries \in Entries
        /\ file[p].there \in BOOLEAN /\ left \in Entries
        /\ file[p] \in [there : BOOLEAN, entries : Entries, cut : Entries]
    BY <1>1, Typed DEF TypeOK
  <1>3. e \in Entries /\ Tail(left) \in Entries /\ e \o Tail(left) = file[p].entries \o left
    BY <1>1, <1>2, EntryMoves
  <1>4. file' = [file EXCEPT ![p].entries = e, ![p].cut = <<>>]
    BY DEF WriteEntry
  <1>5. file' \in [Paths -> [there : BOOLEAN, entries : Entries, cut : Entries]]
    BY <1>2, <1>3, <1>4, EntryAdded, Joined
  <1>6. /\ file'[p].entries = e /\ file'[p].cut = <<>>
        /\ \A q \in Paths : q # p => file'[q] = file[q]
    <2>1. <<>> \in Entries
      BY Joined
    <2> HIDE DEF p, e
    <2> QED BY <2>1, <1>2, <1>3, <1>4, EntryAdded
  <1>7. TypeOK'
    BY <1>1, <1>3, <1>5 DEF TypeOK
  <1>8. Handling'
    BY <1>1 DEF Handling, Idle
  <1>9. Prefix'
    BY <1>1, <1>3, <1>6 DEF Prefix
  <1>10. DictsWanted'
    BY <1>1 DEF DictsWanted
  <1>11. AtOnce' /\ AtExit'
    BY <1>1, <1>6, OthersKept
  <1> QED BY <1>7, <1>8, <1>9, <1>10, <1>11

\* The first part of one is.
LEMMA WritePartKeeps ==
    ASSUME IInv, WritePart
    PROVE  IInv'
  <1> DEFINE p == stores[saving].path
             c == <<[left[1] EXCEPT !.val = Torn]>>
  <1> USE DEF IInv
  <1>1. /\ saving # 0 /\ left # <<>> /\ left' = left
        /\ phase' = phase /\ stores' = stores /\ handlers' = handlers /\ saving' = saving
        /\ flush' = flush /\ freed' = freed /\ wanted' = wanted /\ inside' = inside
    BY DEF WritePart, history
  <1>2. /\ p \in Paths /\ saving \in 1..Len(stores) /\ file[p].entries \in Entries
        /\ file[p].there \in BOOLEAN /\ left \in Entries
        /\ file[p] \in [there : BOOLEAN, entries : Entries, cut : Entries]
    BY <1>1, Typed DEF TypeOK
  <1>3. c \in Entries
    BY <1>1, <1>2, EntryMoves, EntryCut
  <1>4. file' = [file EXCEPT ![p].cut = c]
    BY DEF WritePart
  <1>5. file' \in [Paths -> [there : BOOLEAN, entries : Entries, cut : Entries]]
    BY <1>2, <1>3, <1>4, EntryTorn
  <1>6. /\ file'[p].entries = file[p].entries
        /\ \A q \in Paths : q # p => file'[q] = file[q]
    BY <1>2, <1>3, <1>4, EntryTorn
  <1>7. TypeOK'
    BY <1>1, <1>5 DEF TypeOK
  <1>8. Handling'
    BY <1>1 DEF Handling, Idle
  <1>9. Prefix'
    BY <1>1, <1>6 DEF Prefix
  <1>10. DictsWanted'
    BY <1>1 DEF DictsWanted
  <1>11. AtOnce' /\ AtExit'
    BY <1>1, <1>6, OthersKept
  <1> QED BY <1>7, <1>8, <1>9, <1>10, <1>11

\* A save ends with the whole dictionary on file, which is what was wanted.
LEMMA SaveEndsKeeps ==
    ASSUME IInv, SaveEnds
    PROVE  IInv'
  <1> DEFINE p == stores[saving].path
  <1> USE DEF IInv
  <1>1. /\ saving # 0 /\ left = <<>> /\ saving' = 0 /\ left' = left /\ inside' = inside \ {p}
        /\ phase' = phase /\ stores' = stores /\ handlers' = handlers /\ file' = file
        /\ flush' = flush /\ freed' = freed /\ wanted' = wanted
    BY DEF SaveEnds
  <1>2. saving \in 1..Len(stores) /\ p \in Paths /\ stores[saving].dict \in Entries
    BY <1>1, Typed
  <1>3. Content(p) = stores[saving].dict
    <2>1. file[p].entries \o <<>> = stores[saving].dict /\ file[p].cut = <<>>
      BY <1>1 DEF Prefix
    <2> QED BY <2>1 DEF Content
  <1>4. ASSUME NEW q \in Paths, Only(stores, q, saving)
        PROVE  Content(q)' = wanted[q]
    <2>1. q = p
      BY <1>4 DEF Only
    <2>2. stores[saving].dict = wanted[q]
      BY <1>2, <1>4 DEF DictsWanted
    <2> QED BY <2>1, <2>2, <1>1, <1>3 DEF Content
  <1>5. TypeOK'
    <2>1. saving' \in 0..Len(stores')
      BY <1>1, <1>2
    <2> QED BY <2>1, <1>1 DEF TypeOK
  <1>6. Handling'
    BY <1>1 DEF Handling, Idle
  <1>7. Prefix' /\ DictsWanted'
    BY <1>1 DEF Prefix, DictsWanted
  <1>8. AtOnce'
    <2> SUFFICES ASSUME NEW q \in Paths, NEW i \in 1..Len(stores), Only(stores, q, i),
                        stores[i].autosave, q \notin inside \ {p}
                 PROVE  Content(q)' = wanted[q]
      BY <1>1 DEF AtOnce
    <2>1. CASE i = saving
      BY <2>1, <1>4
    <2>2. CASE i # saving
      <3>1. q # p
        BY <2>2, <1>1, OnlySaved
      <3>2. Content(q) = wanted[q]
        BY <2>2, <3>1 DEF AtOnce
      <3> QED BY <3>2, <1>1 DEF Content
    <2> QED BY <2>1, <2>2
  <1>9. AtExit'
    <2> SUFFICES ASSUME phase \in {"exiting", "exited"},
                        NEW q \in Paths, NEW i \in 1..Len(stores), Only(stores, q, i),
                        ~stores[i].autosave
                 PROVE  \/ Len(handlers) = 2 \/ \E j \in 1..Len(flush) : flush[j] = i
                        \/ Content(q)' = wanted[q]
      BY <1>1 DEF AtExit
    <2>1. CASE i = saving
      BY <2>1, <1>4
    <2>2. CASE i # saving
      BY <2>2, <1>1 DEF AtExit, Content
    <2> QED BY <2>1, <2>2
  <1> QED BY <1>5, <1>6, <1>7, <1>8, <1>9

\* A process that ends has the handler of its stores before it.
LEMMA ExitKeeps ==
    ASSUME IInv, Exit
    PROVE  IInv'
  <1> USE DEF IInv
  <1>1. /\ phase = "running" /\ phase' = "exiting" /\ saving = 0 /\ flush = <<>>
        /\ stores' = stores /\ handlers' = handlers /\ file' = file /\ saving' = saving
        /\ left' = left /\ flush' = flush /\ freed' = freed /\ wanted' = wanted
        /\ inside' = inside
    BY DEF Exit, Idle, history
  <1>2. TypeOK'
    BY <1>1 DEF TypeOK
  <1>3. Handling'
    BY <1>1 DEF Handling, Idle
  <1>4. Prefix' /\ DictsWanted'
    BY <1>1 DEF Prefix, DictsWanted
  <1>5. AtOnce'
    BY <1>1 DEF AtOnce, Content
  <1>6. AtExit'
    <2> SUFFICES ASSUME NEW q \in Paths, NEW i \in 1..Len(stores)
                 PROVE  Len(handlers) = 2
      BY <1>1 DEF AtExit
    <2>1. stores # <<>>
      OBVIOUS
    <2> QED BY <2>1, <1>1, HandlersAre
  <1> QED BY <1>2, <1>3, <1>4, <1>5, <1>6

\* The handler of the stores queues all of them; the other one frees the arena.
LEMMA RunHandlerKeeps ==
    ASSUME IInv, RunHandler
    PROVE  IInv'
  <1> USE DEF IInv
  <1>1. /\ phase = "exiting" /\ saving = 0 /\ flush = <<>> /\ handlers # <<>>
        /\ phase' = phase /\ saving' = saving /\ stores' = stores /\ file' = file
        /\ left' = left /\ wanted' = wanted /\ inside' = inside
    BY DEF RunHandler, Idle, history
  <1>2. handlers \in Seq(Handler) /\ Len(handlers) \in {1, 2}
    <2>1. handlers \in Seq(Handler) /\ Len(handlers) \in 0..2
      BY HandlersAre
    <2>2. Len(handlers) # 0
      BY <2>1, <1>1
    <2> QED BY <2>1, <2>2
  <1>3. handlers' = SubSeq(handlers, 1, Len(handlers) - 1)
    BY DEF RunHandler, Front
  <1>4. handlers' \in Seq(Handler) /\ Len(handlers') = Len(handlers) - 1
    <2>1. \A h \in Seq(Handler) : Len(h) \in {1, 2} =>
              SubSeq(h, 1, Len(h) - 1) \in Seq(Handler) /\ Len(SubSeq(h, 1, Len(h) - 1)) = Len(h) - 1
      BY SMTT(30)
    <2> QED BY <2>1, <1>2, <1>3
  <1>5. Last(handlers) = handlers[Len(handlers)]
    BY DEF Last
  <1>6. Len(stores) \in Nat
    BY Typed
  <1>7. Prefix' /\ DictsWanted'
    BY <1>1 DEF Prefix, DictsWanted
  <1>8. AtOnce'
    BY <1>1 DEF AtOnce, Content
  <1>9. CASE Len(handlers) = 2
    <2>1. flush' = [i \in 1..Len(stores) |-> i] /\ freed' = freed
      BY <1>5, <1>9 DEF RunHandler, Handling
    <2>2. /\ flush' \in Seq(1..Len(stores)) /\ Len(flush') = Len(stores)
          /\ \A i \in 1..Len(stores) : flush'[i] = i
      BY <2>1, <1>6
    <2>3. handlers'[1] = "cleanup"
      <3>1. \A h \in Seq(Handler) : Len(h) = 2 => SubSeq(h, 1, Len(h) - 1)[1] = h[1]
        OBVIOUS
      <3>2. handlers[1] = "cleanup"
        BY <1>9 DEF Handling
      <3> QED BY <3>1, <3>2, <1>2, <1>3, <1>9
    <2>4. TypeOK'
      BY <2>1, <2>2, <1>1, <1>4, <1>9 DEF TypeOK, Handler
    <2>5. Handling'
      <3>1. ~freed
        BY <1>9 DEF Handling
      <3> QED BY <3>1, <2>1, <2>3, <1>1, <1>4, <1>9 DEF Handling
    <2>6. AtExit'
      BY <2>2, <1>1 DEF AtExit
    <2> QED BY <2>4, <2>5, <2>6, <1>7, <1>8
  <1>10. CASE Len(handlers) = 1
    <2>1. flush' = <<>> /\ freed' = TRUE
      BY <1>1, <1>5, <1>10 DEF RunHandler, Handling
    <2>2. TypeOK'
      BY <2>1, <1>1, <1>4, <1>10 DEF TypeOK, Handler
    <2>3. Handling'
      BY <2>1, <1>1, <1>4, <1>10 DEF Handling, Idle
    <2>4. AtExit'
      <3>1. \A i \in 1..Len(stores) : i # saving
        BY <1>1, <1>6
      <3>2. ~\E i \in 1..Len(flush) : TRUE
        BY <1>1
      <3>3. \A q \in Paths, i \in 1..Len(stores) :
                Only(stores, q, i) /\ ~stores[i].autosave => Content(q) = wanted[q]
        BY <3>1, <3>2, <1>1, <1>10 DEF AtExit
      <3> QED BY <3>3, <1>1 DEF AtExit, Content
    <2> QED BY <2>2, <2>3, <2>4, <1>7, <1>8
  <1> QED BY <1>2, <1>9, <1>10

\* The next store of the queue is saved, if it is a deferred one.
LEMMA FlushNextKeeps ==
    ASSUME IInv, FlushNext
    PROVE  IInv'
  <1> DEFINE s == flush[1]
             p == stores[s].path
  <1> USE DEF IInv
  <1>1. /\ saving = 0 /\ flush # <<>> /\ flush' = Tail(flush)
        /\ phase' = phase /\ stores' = stores /\ handlers' = handlers /\ freed' = freed
        /\ wanted' = wanted /\ inside' = inside
    BY DEF FlushNext, history
  <1>2. flush \in Seq(1..Len(stores)) /\ Len(flush) \in Nat \ {0} /\ s \in 1..Len(stores)
    BY <1>1 DEF TypeOK
  <1>3. /\ p \in Paths /\ stores[s].dict \in Entries /\ stores[s].autosave \in BOOLEAN
    BY <1>2, Typed
  <1>4. IF ~stores[s].autosave
        THEN saving' = s /\ left' = stores[s].dict
             /\ file' = [file EXCEPT ![p] = [there |-> TRUE, entries |-> <<>>, cut |-> <<>>]]
        ELSE saving' = saving /\ left' = left /\ file' = file
    BY <1>1 DEF FlushNext, Truncate, Deferred
  <1>5. file' \in [Paths -> [there : BOOLEAN, entries : Entries, cut : Entries]]
    <2>1. [file EXCEPT ![p] = [there |-> TRUE, entries |-> <<>>, cut |-> <<>>]]
              \in [Paths -> [there : BOOLEAN, entries : Entries, cut : Entries]]
      BY <1>3, FileChanges, Joined
    <2> QED BY <2>1, <1>4 DEF TypeOK
  <1>6. /\ Tail(flush) \in Seq(1..Len(stores)) /\ Len(Tail(flush)) = Len(flush) - 1
        /\ \A i \in 1..Len(flush) : i # 1 => Tail(flush)[i - 1] = flush[i]
    BY <1>1, <1>2
  <1>7. TypeOK'
    <2>1. saving' \in 0..Len(stores') /\ left' \in Entries
      BY <1>1, <1>2, <1>3, <1>4 DEF TypeOK
    <2> QED BY <2>1, <1>1, <1>5, <1>6 DEF TypeOK
  <1>8. Handling'
    BY <1>1 DEF Handling, Idle
  <1>9. Prefix'
    <2> SUFFICES ASSUME saving' # 0 PROVE /\ (file[stores[saving].path].entries \o left)' = stores[saving].dict'
                                          /\ left' = <<>> => file[stores[saving].path].cut' = <<>>
      BY DEF Prefix
    <2>1. saving' = s /\ left' = stores[s].dict
          /\ file' = [file EXCEPT ![p] = [there |-> TRUE, entries |-> <<>>, cut |-> <<>>]]
      BY <1>1, <1>4
    <2>2. file'[p] = [there |-> TRUE, entries |-> <<>>, cut |-> <<>>]
      BY <2>1, <1>3 DEF TypeOK
    <2>3. file'[p].entries \o left' = stores[s].dict /\ file'[p].cut = <<>>
      <3>1. <<>> \o stores[s].dict = stores[s].dict
        BY <1>3, Joined
      <3>2. file'[p].entries = <<>> /\ file'[p].cut = <<>> /\ left' = stores[s].dict
        BY <2>1, <2>2
      <3> HIDE DEF p
      <3> QED BY <3>1, <3>2
    <2> QED BY <2>1, <2>3, <1>1
  <1>10. DictsWanted'
    BY <1>1 DEF DictsWanted
  <1>11. ASSUME NEW q \in Paths, NEW i \in 1..Len(stores), Only(stores, q, i),
                i # s \/ stores[s].autosave
         PROVE  Content(q)' = Content(q)
    <2>1. CASE stores[s].autosave
      BY <2>1, <1>4 DEF Content
    <2>2. CASE i # s
      <3>1. q # p
        BY <2>2, <1>2, <1>11 DEF Only
      <3>2. file'[q] = file[q]
        BY <3>1, <1>3, <1>4 DEF TypeOK
      <3> QED BY <3>2 DEF Content
    <2> QED BY <2>1, <2>2, <1>11
  <1>12. AtOnce'
    <2> SUFFICES ASSUME NEW q \in Paths, NEW i \in 1..Len(stores), Only(stores, q, i),
                        stores[i].autosave, q \notin inside
                 PROVE  Content(q)' = wanted[q]
      BY <1>1 DEF AtOnce
    <2>1. saving # i
      BY <1>1, Typed
    <2>2. Content(q) = wanted[q]
      BY <2>1 DEF AtOnce
    <2>3. i # s \/ stores[s].autosave
      OBVIOUS
    <2> QED BY <2>2, <2>3, <1>11
  <1>13. AtExit'
    <2> SUFFICES ASSUME phase \in {"exiting", "exited"},
                        NEW q \in Paths, NEW i \in 1..Len(stores), Only(stores, q, i),
                        ~stores[i].autosave
                 PROVE  \/ Len(handlers) = 2 \/ \E j \in 1..Len(flush') : flush'[j] = i
                        \/ saving' = i \/ Content(q)' = wanted[q]
      BY <1>1 DEF AtExit
    <2>1. CASE i = s
      BY <2>1, <1>4
    <2>2. CASE i # s
      <3>1. saving # i
        BY <1>1, Typed
      <3>2. CASE Len(handlers) = 2
        BY <3>2
      <3>3. CASE \E j \in 1..Len(flush) : flush[j] = i
        <4>1. PICK j \in 1..Len(flush) : flush[j] = i
          BY <3>3
        <4>2. j # 1
          BY <4>1, <2>2
        <4>3. j - 1 \in 1..Len(flush') /\ flush'[j - 1] = i
          BY <4>1, <4>2, <1>1, <1>2, <1>6
        <4> QED BY <4>3
      <3>4. CASE Content(q) = wanted[q]
        BY <3>4, <2>2, <1>11
      <3> QED BY <3>1, <3>2, <3>3, <3>4 DEF AtExit
    <2> QED BY <2>1, <2>2
  <1> QED BY <1>7, <1>8, <1>9, <1>10, <1>12, <1>13

\* The process has exited when no handler is left, and when it is killed.
LEMMA EndKeeps ==
    ASSUME IInv, Exited \/ Kill
    PROVE  IInv'
  <1> USE DEF IInv
  <1>1. /\ \/ phase' = "exited" /\ phase = "exiting" /\ Idle /\ handlers = <<>>
           \/ phase' = "killed"
        /\ stores' = stores /\ handlers' = handlers /\ file' = file /\ saving' = saving
        /\ left' = left /\ flush' = flush /\ freed' = freed /\ wanted' = wanted
        /\ inside' = inside
    BY DEF Exited, Kill, history
  <1>2. TypeOK'
    BY <1>1 DEF TypeOK
  <1>3. Handling'
    <2>1. CASE phase' = "killed"
      BY <2>1, <1>1 DEF Handling, Idle
    <2>2. CASE phase' = "exited" /\ Idle /\ handlers = <<>>
      BY <2>2, <1>1 DEF Handling, Idle
    <2> QED BY <2>1, <2>2, <1>1
  <1>4. Prefix' /\ DictsWanted'
    BY <1>1 DEF Prefix, DictsWanted
  <1>5. AtOnce'
    BY <1>1 DEF AtOnce, Content
  <1>6. AtExit'
    BY <1>1 DEF AtExit, Content
  <1> QED BY <1>2, <1>3, <1>4, <1>5, <1>6

\* A new process has no store.
LEMMA RestartKeeps ==
    ASSUME IInv, Restart
    PROVE  IInv'
  <1> USE DEF IInv
  <1>1. /\ phase' = "running" /\ stores' = <<>> /\ handlers' = <<"cleanup">> /\ saving' = 0
        /\ left' = <<>> /\ flush' = <<>> /\ freed' = FALSE /\ inside' = {}
        /\ file' = file /\ wanted' = wanted
    BY DEF Restart
  <1>2. /\ stores' \in Seq([path : Paths, dict : Entries, autosave : BOOLEAN]) /\ Len(stores') = 0
        /\ handlers' \in Seq({"cleanup", "flush"}) /\ Len(handlers') = 1 /\ handlers'[1] = "cleanup"
        /\ flush' \in Seq(1..Len(stores')) /\ left' \in Entries
    BY <1>1, Joined
  <1>3. TypeOK'
    <2>1. saving' \in 0..Len(stores') /\ Len(handlers') <= 2
      BY <1>1, <1>2
    <2>2. inside' \subseteq Paths /\ phase' \in {"running", "exiting", "exited", "killed"}
      BY <1>1
    <2> QED BY <2>1, <2>2, <1>1, <1>2 DEF TypeOK
  <1>4. Handling'
    BY <1>1, <1>2 DEF Handling, Idle
  <1>5. Prefix' /\ DictsWanted' /\ AtOnce' /\ AtExit'
    BY <1>1, <1>2 DEF Prefix, DictsWanted, AtOnce, AtExit
  <1> QED BY <1>3, <1>4, <1>5

\* Every step keeps the invariant.
LEMMA NextKeeps == IInv /\ [Next]_vars => IInv'
  <1> SUFFICES ASSUME IInv, [Next]_vars PROVE IInv'
    OBVIOUS
  <1>1. ASSUME NEW p \in Paths, NEW autosave \in BOOLEAN, Open(p, autosave)
        PROVE  IInv'
    BY <1>1, OpenKeeps
  <1>2. ASSUME NEW s \in 1..Len(stores), NEW k \in Keys, NEW v \in Values,
               Set(s, k, v) \/ SetInside(s, k, v)
        PROVE  IInv'
    BY <1>2, SetKeeps, SetInsideKeeps
  <1>3. CASE WritePart \/ WriteEntry \/ SaveEnds
    BY <1>3, WritePartKeeps, WriteEntryKeeps, SaveEndsKeeps
  <1>4. CASE RunHandler \/ FlushNext
    BY <1>4, RunHandlerKeeps, FlushNextKeeps
  <1>5. CASE Exit \/ Exited \/ Kill \/ Restart
    BY <1>5, ExitKeeps, EndKeeps, RestartKeeps
  <1>6. CASE UNCHANGED vars
    BY <1>6 DEF vars, history, IInv, TypeOK, Handling, Idle, Prefix, DictsWanted, AtOnce,
                AtExit, Content
  <1> QED BY <1>1, <1>2, <1>3, <1>4, <1>5, <1>6 DEF Next, Step

\* The invariant holds throughout, for any files, entries, handles and crashes.
THEOREM Invariant == Spec => []IInv
  BY InitIInv, NextKeeps, PTL DEF Spec

-----------------------------------------------------------------------------
(* What it gives                                                           *)

\* What a file holds is a prefix of what is saved into it, at any time, and so
\* whenever the process is killed: store_save writes entry after entry.
THEOREM FilesArePrefixesHolds == Spec => []FilesArePrefixes
  <1>1. IInv => FilesArePrefixes
    BY DEF IInv, Prefix, FilesArePrefixes
  <1> QED BY <1>1, Invariant, PTL

\* The stores opened .deferred are all on file when the process has exited, and
\* store_flush_deferred has read them before runtime_cleanup frees the arena.
THEOREM ExitSavesHolds == Spec => []ExitSaves
  <1>1. ASSUME IInv PROVE ExitSaves
    <2> USE <1>1 DEF IInv
    <2>1. freed => Idle
      BY DEF Handling
    <2>2. ASSUME phase = "exited", NEW p \in Paths, NEW s \in Handles(p),
                 Handles(p) = {s}, ~stores[s].autosave
          PROVE  Content(p) = wanted[p]
      <3>1. s \in 1..Len(stores) /\ Only(stores, p, s)
        BY <2>2 DEF Handles, Only
      <3>2. saving = 0 /\ flush = <<>> /\ Len(handlers) = 0
        BY <2>2 DEF Handling, Idle
      <3>3. saving # s /\ ~\E i \in 1..Len(flush) : flush[i] = s
        BY <3>1, <3>2, Typed
      <3> QED BY <2>2, <3>1, <3>2, <3>3 DEF AtExit
    <2> QED BY <2>1, <2>2 DEF ExitSaves
  <1> QED BY <1>1, Invariant, PTL

\* A store that saves at once is on file whenever no save goes on, unless an
\* entry of it was changed inside.
THEOREM AutosavedIsOnFileHolds == Spec => []AutosavedIsOnFile
  <1>1. ASSUME IInv PROVE AutosavedIsOnFile
    <2> USE <1>1 DEF IInv
    <2>1. ASSUME Idle, NEW p \in Paths, p \notin inside, NEW s \in Handles(p),
                 Handles(p) = {s}, stores[s].autosave
          PROVE  Content(p) = wanted[p]
      <3>1. s \in 1..Len(stores) /\ Only(stores, p, s)
        BY <2>1 DEF Handles, Only
      <3>2. saving # s
        BY <2>1, <3>1, Typed DEF Idle
      <3> QED BY <2>1, <3>1, <3>2 DEF AtOnce
    <2> QED BY <2>1 DEF AutosavedIsOnFile
  <1> QED BY <1>1, Invariant, PTL

=============================================================================
