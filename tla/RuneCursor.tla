----------------------------- MODULE RuneCursor -----------------------------
(***************************************************************************)
(* The rune cursor of the native runtime (src/runtime/runtime.c): strings  *)
(* are UTF-8, programs index them by rune, and loops look up runes 0, 1,   *)
(* 2, ... in order.  g_rune_cache remembers where the last lookup ended in *)
(* one string, named by its address, and how many runes the string has.    *)
(* Whoever rewrites the bytes must forget the cursor.  String buffers are  *)
(* never freed before the program ends, so an address names one string.    *)
(*                                                                         *)
(* Runes take one or two bytes: "a" is an ASCII byte, "l" the first byte   *)
(* of a two-byte rune and "c" its second.  Positions count from 1, and the *)
(* terminating NUL of a string is at Len + 1.                              *)
(***************************************************************************)
EXTENDS Integers, Sequences, FiniteSetsExt

CONSTANTS
    Strings,  \* addresses of string data
    NoString, \* NULL
    MaxBytes  \* bound of the model: bytes of a string

ASSUME NoStringAssumption == NoString \notin Strings
ASSUME MaxBytesAssumption == MaxBytes \in Nat \ {0}

VARIABLES
    text,    \* the bytes at each address
    live,    \* the allocated addresses
    cursor   \* g_rune_cache

cursorVars == <<text, live, cursor>>

Byte == {"a", "l", "c"}
Bytes == UNION {[1..n -> Byte] : n \in 0..MaxBytes}

\* What v_str is given: sequences of whole runes.
WholeRunes(t) ==
    /\ \A p \in 1..Len(t) : t[p] = "c" <=> p > 1 /\ t[p - 1] = "l"
    /\ t # <<>> => t[Len(t)] # "l"

Utf8 == {t \in Bytes : WholeRunes(t)}

\* utf8_rune_len: only the first byte is looked at.
RuneLen(b) == IF b = "l" THEN 2 ELSE 1

\* while (k runes are left && *p) p += utf8_rune_len(p)
Walk(t, from, k) ==
    LET walk[n \in 0..k] ==
          IF n = 0 THEN [at |-> from, seen |-> 0]
          ELSE LET w == walk[n - 1] IN
               IF w.at > Len(t) THEN w
               ELSE [at |-> w.at + RuneLen(t[w.at]), seen |-> n]
    IN  walk[k]

\* The reference: positions counted from the start of the string.
RuneStart(t, i) == Walk(t, 1, i).at
Runes(t) == Walk(t, 1, Len(t)).seen

\* Stray bytes count as runes.  A rune cut off at the end takes in the NUL;
\* the model stops at bytes that chop or a store would leave like that.
EndsWithRune(t) == RuneStart(t, Len(t)) = Len(t) + 1

-----------------------------------------------------------------------------
(* rune_count and rune_offset: what they return, and the cursor they leave. *)

ForgetNever(s) == cursor

\* rune_cache_forget
Forget(s) == IF cursor.s = s THEN [cursor EXCEPT !.s = NoString] ELSE cursor

CountOf(s) ==
    IF cursor.s = s /\ cursor.count >= 0 THEN cursor.count ELSE Runes(text[s])

AfterCount(s) ==
    LET c == IF cursor.s = s THEN cursor
             ELSE [cursor EXCEPT !.s = s, !.index = 0, !.at = 1]
    IN  [c EXCEPT !.count = CountOf(s)]

\* A lookup at or after the cursor walks on from it.
From(s, i) == IF cursor.s = s /\ cursor.index <= i
              THEN [index |-> cursor.index, at |-> cursor.at]
              ELSE [index |-> 0, at |-> 1]

OffsetOf(s, i) == Walk(text[s], From(s, i).at, i - From(s, i).index)

AfterOffset(s, i) ==
    [s |-> s, index |-> From(s, i).index + OffsetOf(s, i).seen,
     at |-> OffsetOf(s, i).at, count |-> IF cursor.s = s THEN cursor.count ELSE -1]

-----------------------------------------------------------------------------
CursorInit ==
    /\ text = [s \in Strings |-> <<>>]
    /\ live = {}
    /\ cursor = [s |-> NoString, index |-> 0, at |-> 1, count |-> 0]

\* v_str
Alloc(s, t) ==
    /\ s \notin live
    /\ live' = live \cup {s}
    /\ text' = [text EXCEPT ![s] = t]
    /\ UNCHANGED cursor

\* b_append and define_self_append, when the buffer has room.
AppendInPlace(s, t) ==
    /\ s \in live /\ Len(text[s]) + Len(t) <= MaxBytes
    /\ cursor' = Forget(s)
    /\ text' = [text EXCEPT ![s] = @ \o t]
    /\ UNCHANGED live

\* ... and when they move a string nobody else owns to a larger buffer, or
\* copy one that others own (the old text stays where it is in both cases).
AppendToNew(s, t, r) ==
    /\ s \in live /\ r \notin live /\ Len(text[s]) + Len(t) <= MaxBytes
    /\ live' = live \cup {r}
    /\ text' = [text EXCEPT ![r] = text[s] \o t]
    /\ cursor' \in {Forget(s), cursor}

\* b_set on a string: the first byte of the replacement is stored.
SetByte(s, p, b) ==
    /\ s \in live /\ p \in 1..Len(text[s])
    /\ cursor' = Forget(s)
    /\ text' = [text EXCEPT ![s][p] = b]
    /\ EndsWithRune(text'[s])
    /\ UNCHANGED live

\* b_chop: a copy without the last byte.
Chop(s, r) ==
    /\ s \in live /\ text[s] # <<>> /\ r \notin live
    /\ live' = live \cup {r}
    /\ text' = [text EXCEPT ![r] = SubSeq(text[s], 1, Len(text[s]) - 1)]
    /\ EndsWithRune(text'[r])
    /\ UNCHANGED cursor

RuneCount(s) ==
    /\ s \in live
    /\ cursor' = AfterCount(s)
    /\ UNCHANGED <<text, live>>

\* iterator_item, b_get and slice have checked the index with rune_count.
RuneOffset(s, i) ==
    /\ s \in live /\ i <= CountOf(s)
    /\ cursor' = AfterOffset(s, i)
    /\ UNCHANGED <<text, live>>

CursorNext ==
    \E s \in Strings :
        \/ RuneCount(s)
        \/ \E t \in Utf8 : Alloc(s, t) \/ AppendInPlace(s, t)
        \/ \E p \in 1..MaxBytes, b \in {"a", "l"} : SetByte(s, p, b)
        \/ \E r \in Strings : Chop(s, r) \/ \E t \in Utf8 : AppendToNew(s, t, r)
        \/ \E i \in 0..MaxBytes : RuneOffset(s, i)

CursorSpec == CursorInit /\ [][CursorNext]_cursorVars

-----------------------------------------------------------------------------
(* Properties                                                              *)

\* Types; the cursor names an allocated string.
CursorTypeOK ==
    /\ text \in [Strings -> Bytes]
    /\ live \subseteq Strings
    /\ cursor \in [s : live \cup {NoString}, index : 0..MaxBytes, at : 1..(MaxBytes + 1),
                  count : -1..MaxBytes]

\* A lookup finds the rune, and a count the number of runes, that a scan from the
\* start of the string finds, whatever was looked up, counted, appended and
\* rewritten before.
LookupsScan ==
    /\ CursorTypeOK
    /\ \A s \in live : \A i \in 0..Runes(text[s]) :
          OffsetOf(s, i).at = RuneStart(text[s], i)
    /\ \A s \in live : CountOf(s) = Runes(text[s])
=============================================================================
