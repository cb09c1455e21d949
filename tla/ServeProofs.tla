---------------------------- MODULE ServeProofs ----------------------------
(***************************************************************************)
(* That the web server reads requests whole, that its responses are their  *)
(* own, and that it keeps the promise of module Service, whatever the      *)
(* clients ask and however their streams are cut.                          *)
(*                                                                         *)
(* The argument is about the stream of a client: what the server has       *)
(* buffered, what is on the way and what the client has still to send, one *)
(* behind the other.  Stream says that it goes on at token p of request k; *)
(* reading a line or a body moves that place, asking makes the stream      *)
(* longer, sending and receiving leave it as it is.                        *)
(***************************************************************************)
EXTENDS Serve, SequenceTheorems, TLAPS

Request == [routed : BOOLEAN, body : Nat, ends : {"none", "header", "version"}, blank : BOOLEAN]

W(a, i) == OnWire(a[i], i)

\* Request i begins at off[i], before the stream if part of it has been read.
IsStream(a, s, k, p, off) ==
    /\ off[k] = 2 - p
    /\ \A i \in k..Len(a) :
        /\ off[i + 1] = off[i] + Len(W(a, i))
        /\ \A x \in 1..Len(W(a, i)) : off[i] + x > 1 => s[off[i] + x - 1] = W(a, i)[x]
    /\ \A i, j \in k..(Len(a) + 1) : i <= j => off[i] <= off[j]
    /\ off[Len(a) + 1] = Len(s) + 1

Stream(a, s, k, p) == \E off \in [Nat -> Int] : IsStream(a, s, k, p, off)

-----------------------------------------------------------------------------
(* Sequences of tokens                                                     *)

\* One sequence of tokens behind another.
LEMMA ConcatIs ==
    ASSUME NEW s \in Seq(Tokens), NEW u \in Seq(Tokens)
    PROVE  /\ s \o u \in Seq(Tokens) /\ Len(s \o u) = Len(s) + Len(u)
           /\ Len(s) \in Nat /\ Len(u) \in Nat
           /\ \A i \in 1..Len(s) : (s \o u)[i] = s[i]
           /\ \A i \in 1..Len(u) : (s \o u)[Len(s) + i] = u[i]
  OBVIOUS

\* What is left of a sequence behind its first m tokens.
LEMMA RestIs ==
    ASSUME NEW s \in Seq(Tokens), NEW m \in 0..Len(s)
    PROVE  LET r == SubSeq(s, m + 1, Len(s)) IN
           /\ r \in Seq(Tokens) /\ Len(r) = Len(s) - m
           /\ \A i \in 1..(Len(s) - m) : r[i] = s[m + i]
  OBVIOUS

\* What is received is behind what is buffered.
LEMMA Regroup ==
    ASSUME NEW x \in Seq(Tokens), NEW y \in Seq(Tokens), NEW z \in Seq(Tokens)
    PROVE  (x \o y) \o z = x \o (y \o z)
  <1> HIDE DEF Tokens
  <1> QED BY ConcatAssociative

\* A request sent in two pieces.
LEMMA Split ==
    ASSUME NEW w \in Seq(Tokens), NEW n \in 0..Len(w)
    PROVE  /\ SubSeq(w, 1, n) \o SubSeq(w, n + 1, Len(w)) = w
           /\ SubSeq(w, 1, n) \in Seq(Tokens) /\ SubSeq(w, n + 1, Len(w)) \in Seq(Tokens)
           /\ Len(SubSeq(w, n + 1, Len(w))) <= Len(w)
  <1> DEFINE x == SubSeq(w, 1, n)
             y == SubSeq(w, n + 1, Len(w))
             v == x \o y
  <1>1. x \in Seq(Tokens) /\ Len(x) = n /\ \A i \in 1..n : x[i] = w[i]
    OBVIOUS
  <1>2. y \in Seq(Tokens) /\ Len(y) = Len(w) - n /\ \A i \in 1..(Len(w) - n) : y[i] = w[n + i]
    BY RestIs
  <1> HIDE DEF x, y
  <1>3. /\ v \in Seq(Tokens) /\ Len(v) = Len(x) + Len(y)
        /\ \A i \in 1..Len(x) : v[i] = x[i]
        /\ \A i \in 1..Len(y) : v[Len(x) + i] = y[i]
    BY <1>1, <1>2, ConcatIs
  <1> HIDE DEF v
  <1>4. Len(v) = Len(w)
    BY <1>1, <1>2, <1>3
  <1>5. ASSUME NEW i \in 1..Len(w) PROVE v[i] = w[i]
    <2>1. CASE i <= n
      <3>1. i \in 1..n /\ i \in 1..Len(x)
        BY <1>1, <2>1
      <3> QED BY <1>1, <1>3, <3>1
    <2>2. CASE ~(i <= n)
      <3> DEFINE j == i - n
      <3>1. j \in 1..Len(y) /\ j \in 1..(Len(w) - n) /\ n + j = i
        BY <1>2, <2>2
      <3> HIDE DEF j
      <3> QED BY <1>1, <1>2, <1>3, <3>1
    <2> QED BY <2>1, <2>2
  <1>6. v = w
    BY <1>3, <1>4, <1>5, SeqEqual, Zenon
  <1>7. Len(y) <= Len(w)
    BY <1>2
  <1> QED BY <1>1, <1>2, <1>6, <1>7, Zenon DEF v, x, y

\* Reading from the front of what comes first reads from the front of all.
LEMMA FrontRead ==
    ASSUME NEW s \in Seq(Tokens), NEW u \in Seq(Tokens), NEW m \in 0..Len(s)
    PROVE  SubSeq(s, m + 1, Len(s)) \o u = SubSeq(s \o u, m + 1, Len(s \o u))
  <1> DEFINE r == SubSeq(s, m + 1, Len(s))
             v == s \o u
             t == SubSeq(v, m + 1, Len(v))
  <1>1. r \in Seq(Tokens) /\ Len(r) = Len(s) - m /\ \A i \in 1..(Len(s) - m) : r[i] = s[m + i]
    BY RestIs
  <1>2. /\ v \in Seq(Tokens) /\ Len(v) = Len(s) + Len(u) /\ Len(s) \in Nat /\ Len(u) \in Nat
        /\ \A i \in 1..Len(s) : v[i] = s[i]
        /\ \A i \in 1..Len(u) : v[Len(s) + i] = u[i]
    BY ConcatIs
  <1> HIDE DEF r, v
  <1>3. m \in 0..Len(v)
    BY <1>2
  <1>4. t \in Seq(Tokens) /\ Len(t) = Len(v) - m /\ \A i \in 1..(Len(v) - m) : t[i] = v[m + i]
    BY <1>2, <1>3, RestIs
  <1> HIDE DEF t
  <1>5. /\ r \o u \in Seq(Tokens) /\ Len(r \o u) = Len(r) + Len(u)
        /\ \A i \in 1..Len(r) : (r \o u)[i] = r[i]
        /\ \A i \in 1..Len(u) : (r \o u)[Len(r) + i] = u[i]
    BY <1>1, ConcatIs
  <1>6. Len(r \o u) = Len(t)
    BY <1>1, <1>2, <1>4, <1>5
  <1>7. ASSUME NEW i \in 1..Len(t) PROVE (r \o u)[i] = t[i]
    <2>1. t[i] = v[m + i]
      BY <1>4
    <2>2. CASE i <= Len(r)
      <3>1. i \in 1..Len(r) /\ m + i \in 1..Len(s)
        BY <1>1, <1>2, <2>2
      <3> QED BY <1>1, <1>2, <1>5, <2>1, <3>1
    <2>3. CASE ~(i <= Len(r))
      <3> DEFINE j == i - Len(r)
      <3>1. j \in 1..Len(u) /\ i = Len(r) + j /\ m + i = Len(s) + j
        BY <1>1, <1>2, <1>4, <2>3
      <3> HIDE DEF j
      <3> QED BY <1>2, <1>5, <2>1, <3>1
    <2> QED BY <2>2, <2>3, Zenon
  <1>8. r \o u = t
    BY <1>4, <1>5, <1>6, <1>7, SeqEqual, Zenon
  <1> QED BY <1>8 DEF r, v, t

-----------------------------------------------------------------------------
(* Requests on the wire                                                    *)

\* Where the line of a request begins, its headers, the empty line that ends
\* them, its body.
LineAt(r)   == IF r.blank THEN 3 ELSE 1
LengthAt(r) == LineAt(r) + 3
CloseAt(r)  == LengthAt(r) + (IF r.body > 0 THEN 3 ELSE 0)
EmptyAt(r)  == CloseAt(r) + (IF r.ends = "header" THEN 3 ELSE 0)
BodyAt(r)   == EmptyAt(r) + 2

Begins(v, w) == v \in Seq(Tokens) /\ w \in Seq(Tokens) /\ Len(v) <= Len(w) /\ \A i \in 1..Len(v) : w[i] = v[i]

\* What begins with v begins with what v begins with.
LEMMA Further ==
    ASSUME NEW u, NEW v, NEW w, Begins(u, v), Begins(v, w)
    PROVE  Begins(u, w)
  <1>1. Len(u) \in Nat /\ Len(v) \in Nat /\ Len(w) \in Nat
    BY DEF Begins
  <1>2. \A i \in 1..Len(u) : i \in 1..Len(v)
    BY <1>1 DEF Begins
  <1> QED BY <1>1, <1>2 DEF Begins

\* A name alone on its line.
NameLine(t, k) == <<Tok(t, k)>> \o EndOfLine

\* The tokens of a line, one by one.
LEMMA PiecesAre ==
    ASSUME NEW k \in Nat, NEW t \in {"line", "length", "close"}
    PROVE  /\ CR \in Tokens /\ LF \in Tokens /\ CR # LF
           /\ EndOfLine \in Seq(Tokens) /\ Len(EndOfLine) = 2 /\ EndOfLine[1] = CR /\ EndOfLine[2] = LF
           /\ Tok(t, k) \in Tokens /\ Tok(t, k) # CR /\ <<Tok(t, k)>> \in Seq(Tokens)
           /\ NameLine(t, k) \in Seq(Tokens) /\ Len(NameLine(t, k)) = 3
           /\ NameLine(t, k)[1] = Tok(t, k) /\ NameLine(t, k)[2] = CR /\ NameLine(t, k)[3] = LF
  <1>1. CR \in Tokens /\ LF \in Tokens /\ CR # LF /\ Tok(t, k) \in Tokens /\ Tok(t, k) # CR
    BY DEF CR, LF, Tok, Tokens
  <1> HIDE DEF CR, LF
  <1>2. EndOfLine \in Seq(Tokens) /\ Len(EndOfLine) = 2 /\ EndOfLine[1] = CR /\ EndOfLine[2] = LF
    BY <1>1 DEF EndOfLine
  <1>3. <<Tok(t, k)>> \in Seq(Tokens) /\ Len(<<Tok(t, k)>>) = 1 /\ <<Tok(t, k)>>[1] = Tok(t, k)
    BY <1>1
  <1> DEFINE x == <<Tok(t, k)>>
             h == x \o EndOfLine
  <1> HIDE DEF x
  <1>4. /\ h \in Seq(Tokens) /\ Len(h) = Len(x) + Len(EndOfLine)
        /\ \A i \in 1..Len(x) : h[i] = x[i]
        /\ \A i \in 1..Len(EndOfLine) : h[Len(x) + i] = EndOfLine[i]
    BY <1>2, <1>3, ConcatIs DEF x
  <1> HIDE DEF h
  <1>5. Len(h) = 3 /\ h[1] = Tok(t, k) /\ h[1 + 1] = CR /\ h[1 + 2] = LF
    BY <1>2, <1>3, <1>4 DEF x
  <1>6. NameLine(t, k) = h
    BY DEF NameLine, h, x
  <1>7. NameLine(t, k)[2] = CR /\ NameLine(t, k)[3] = LF
    BY <1>5, <1>6
  <1> QED BY <1>1, <1>2, <1>3, <1>4, <1>5, <1>6, <1>7, Zenon

\* A piece written behind what there is.
LEMMA Written ==
    ASSUME NEW v \in Seq(Tokens), NEW u \in Seq(Tokens)
    PROVE  /\ Begins(v, v \o u) /\ Len(v \o u) = Len(v) + Len(u)
           /\ \A i \in 1..Len(u) : (v \o u)[Len(v) + i] = u[i]
  <1>1. /\ v \o u \in Seq(Tokens) /\ Len(v \o u) = Len(v) + Len(u)
        /\ Len(v) \in Nat /\ Len(u) \in Nat
        /\ \A i \in 1..Len(v) : (v \o u)[i] = v[i]
        /\ \A i \in 1..Len(u) : (v \o u)[Len(v) + i] = u[i]
    BY ConcatIs
  <1> QED BY <1>1 DEF Begins

\* w has a name and a line ending at p, or a line ending alone.
HasName(w, p, x) == p + 2 <= Len(w) /\ w[p] = x /\ w[p + 1] = CR /\ w[p + 2] = LF
HasEmpty(w, p) == p + 1 <= Len(w) /\ w[p] = CR /\ w[p + 1] = LF

\* What a sequence has at a place it has when more is written.
LEMMA NameStays ==
    ASSUME NEW v, NEW w, Begins(v, w), NEW p \in Nat \ {0}, NEW x
    PROVE  /\ HasName(v, p, x) => HasName(w, p, x)
           /\ HasEmpty(v, p) => HasEmpty(w, p)
  <1>1. Len(v) \in Nat /\ Len(w) \in Nat /\ Len(v) <= Len(w)
    BY DEF Begins
  <1>2. ASSUME HasName(v, p, x) PROVE HasName(w, p, x)
    <2>1. p \in 1..Len(v) /\ p + 1 \in 1..Len(v) /\ p + 2 \in 1..Len(v)
      BY <1>1, <1>2 DEF HasName
    <2>2. w[p] = v[p] /\ w[p + 1] = v[p + 1] /\ w[p + 2] = v[p + 2]
      BY <2>1 DEF Begins
    <2> QED BY <1>1, <1>2, <2>2 DEF HasName
  <1>3. ASSUME HasEmpty(v, p) PROVE HasEmpty(w, p)
    <2>1. p \in 1..Len(v) /\ p + 1 \in 1..Len(v)
      BY <1>1, <1>3 DEF HasEmpty
    <2>2. w[p] = v[p] /\ w[p + 1] = v[p + 1]
      BY <2>1 DEF Begins
    <2> QED BY <1>1, <1>3, <2>2 DEF HasEmpty
  <1> QED BY <1>2, <1>3

\* A header that is there, or not.
LEMMA HeaderWritten ==
    ASSUME NEW v \in Seq(Tokens), NEW t \in {"length", "close"}, NEW k \in Nat, NEW present \in BOOLEAN
    PROVE  LET w == v \o Header(t, k, present) IN
           /\ Begins(v, w) /\ Len(w) = Len(v) + (IF present THEN 3 ELSE 0)
           /\ present => HasName(w, Len(v) + 1, Tok(t, k))
  <1>0. Len(v) \in Nat
    OBVIOUS
  <1>1. CASE present = TRUE
    <2> DEFINE u == NameLine(t, k)
               w == v \o u
    <2>1. Header(t, k, present) = u
      BY <1>1 DEF Header, NameLine
    <2>2. u \in Seq(Tokens) /\ Len(u) = 3 /\ u[1] = Tok(t, k) /\ u[2] = CR /\ u[3] = LF
      BY PiecesAre
    <2> HIDE DEF u
    <2>3. /\ Begins(v, w) /\ Len(w) = Len(v) + Len(u)
          /\ \A i \in 1..Len(u) : w[Len(v) + i] = u[i]
      BY <2>2, Written
    <2> HIDE DEF w
    <2>4. w[Len(v) + 1] = Tok(t, k) /\ w[Len(v) + 2] = CR /\ w[Len(v) + 3] = LF
      BY <2>2, <2>3
    <2>5. HasName(w, Len(v) + 1, Tok(t, k))
      <3>1. (Len(v) + 1) + 1 = Len(v) + 2 /\ (Len(v) + 1) + 2 = Len(v) + 3 /\ Len(w) = Len(v) + 3
        BY <1>0, <2>2, <2>3
      <3> QED BY <1>0, <2>4, <3>1 DEF HasName
    <2> QED BY <1>1, <2>1, <2>2, <2>3, <2>5 DEF w
  <1>2. CASE present = FALSE
    <2>1. Header(t, k, present) = <<>> /\ v \o <<>> = v
      BY <1>2 DEF Header
    <2> QED BY <1>0, <1>2, <2>1 DEF Begins
  <1> QED BY <1>1, <1>2

\* What stands where.
LEMMA WireIs ==
    ASSUME NEW r \in Request, NEW k \in Nat
    PROVE  LET w == OnWire(r, k) IN
           /\ w \in Seq(Tokens) /\ Len(w) = BodyAt(r) - 1 + r.body
           /\ LineAt(r) \in Nat \ {0} /\ LengthAt(r) \in Nat \ {0} /\ CloseAt(r) \in Nat \ {0}
           /\ EmptyAt(r) \in Nat \ {0} /\ BodyAt(r) \in Nat \ {0} /\ r.body \in Nat
           /\ r.blank => HasEmpty(w, 1)
           /\ HasName(w, LineAt(r), Tok("line", k))
           /\ r.body > 0 => HasName(w, LengthAt(r), Tok("length", k))
           /\ r.ends = "header" => HasName(w, CloseAt(r), Tok("close", k))
           /\ HasEmpty(w, EmptyAt(r))
  <1>0. r.body \in Nat /\ r.blank \in BOOLEAN /\ (r.body > 0) \in BOOLEAN /\ (r.ends = "header") \in BOOLEAN
    BY DEF Request
  <1>1. /\ EndOfLine \in Seq(Tokens) /\ Len(EndOfLine) = 2 /\ EndOfLine[1] = CR /\ EndOfLine[2] = LF
        /\ <<Tok("line", k)>> \in Seq(Tokens) /\ Tok("body", k) \in Tokens
    BY PiecesAre DEF Tokens, Tok
  <1> DEFINE w1 == IF r.blank THEN EndOfLine ELSE <<>>
             x  == <<Tok("line", k)>>
             w2 == w1 \o x
             w3 == w2 \o EndOfLine
             w4 == w3 \o Header("length", k, r.body > 0)
             w5 == w4 \o Header("close", k, r.ends = "header")
             w6 == w5 \o EndOfLine
             y  == [i \in 1..r.body |-> Tok("body", k)]
             w7 == w6 \o y
  <1>2. OnWire(r, k) = w7
    BY DEF OnWire
  <1>3. w1 \in Seq(Tokens) /\ Len(w1) = LineAt(r) - 1 /\ LineAt(r) \in Nat \ {0}
        /\ (r.blank => HasEmpty(w1, 1))
    <2>1. CASE r.blank = TRUE
      <3>1. w1 = EndOfLine /\ LineAt(r) = 3
        BY <2>1 DEF LineAt
      <3> HIDE DEF w1
      <3>2. HasEmpty(w1, 1)
        BY <1>1, <3>1 DEF HasEmpty
      <3> QED BY <1>1, <3>1, <3>2
    <2>2. CASE r.blank = FALSE
      BY <2>2 DEF LineAt
    <2> QED BY <1>0, <2>1, <2>2
  <1>4. x \in Seq(Tokens) /\ Len(x) = 1 /\ x[1] = Tok("line", k)
    BY <1>1
  <1>5. y \in Seq(Tokens) /\ Len(y) = r.body
    BY <1>0, <1>1
  <1> HIDE DEF w1, x, y
  <1>6. Begins(w1, w2) /\ Len(w2) = LineAt(r) /\ w2[LineAt(r)] = Tok("line", k)
    <2>1. /\ Begins(w1, w2) /\ Len(w2) = Len(w1) + Len(x)
          /\ \A i \in 1..Len(x) : w2[Len(w1) + i] = x[i]
      BY <1>3, <1>4, Written
    <2>2. w2[Len(w1) + 1] = x[1]
      BY <1>4, <2>1
    <2>3. Len(w1) + 1 = LineAt(r)
      BY <1>3
    <2> QED BY <1>4, <2>1, <2>2, <2>3
  <1>7. w2 \in Seq(Tokens)
    BY <1>6 DEF Begins
  <1> HIDE DEF w2
  <1>8. Begins(w2, w3) /\ Len(w3) = LineAt(r) + 2 /\ HasName(w3, LineAt(r), Tok("line", k))
    <2>1. /\ Begins(w2, w3) /\ Len(w3) = Len(w2) + Len(EndOfLine)
          /\ \A i \in 1..Len(EndOfLine) : w3[Len(w2) + i] = EndOfLine[i]
      BY <1>1, <1>7, Written
    <2>2. w3[LineAt(r) + 1] = CR /\ w3[LineAt(r) + 2] = LF /\ Len(w3) = LineAt(r) + 2
      BY <1>1, <1>6, <2>1
    <2>3. w3[LineAt(r)] = w2[LineAt(r)]
      <3>1. LineAt(r) \in 1..Len(w2)
        BY <1>3, <1>6
      <3> QED BY <2>1, <3>1 DEF Begins
    <2> QED BY <1>3, <1>6, <2>1, <2>2, <2>3 DEF HasName
  <1>9. w3 \in Seq(Tokens)
    BY <1>8 DEF Begins
  <1> HIDE DEF w3
  <1>10. /\ Begins(w3, w4) /\ Len(w4) = CloseAt(r) - 1 /\ w4 \in Seq(Tokens)
         /\ r.body > 0 => HasName(w4, LengthAt(r), Tok("length", k))
         /\ LengthAt(r) \in Nat \ {0} /\ CloseAt(r) \in Nat \ {0}
    <2>1. /\ Begins(w3, w4) /\ Len(w4) = Len(w3) + (IF r.body > 0 THEN 3 ELSE 0)
          /\ r.body > 0 => HasName(w4, Len(w3) + 1, Tok("length", k))
      BY <1>0, <1>9, HeaderWritten
    <2> HIDE DEF w4
    <2>2. w4 \in Seq(Tokens) /\ Len(w3) + 1 = LengthAt(r) /\ LengthAt(r) \in Nat \ {0}
      BY <1>3, <1>8, <2>1 DEF Begins, LengthAt
    <2> QED BY <1>0, <2>1, <2>2 DEF CloseAt
  <1> HIDE DEF w4
  <1>11. /\ Begins(w4, w5) /\ Len(w5) = EmptyAt(r) - 1 /\ w5 \in Seq(Tokens)
         /\ r.ends = "header" => HasName(w5, CloseAt(r), Tok("close", k))
         /\ EmptyAt(r) \in Nat \ {0}
    <2>1. /\ Begins(w4, w5) /\ Len(w5) = Len(w4) + (IF r.ends = "header" THEN 3 ELSE 0)
          /\ r.ends = "header" => HasName(w5, Len(w4) + 1, Tok("close", k))
      BY <1>0, <1>10, HeaderWritten
    <2> HIDE DEF w5
    <2>2. w5 \in Seq(Tokens) /\ Len(w4) + 1 = CloseAt(r)
      BY <1>10, <2>1 DEF Begins
    <2> QED BY <1>0, <1>10, <2>1, <2>2 DEF EmptyAt
  <1> HIDE DEF w5
  <1>12. /\ Begins(w5, w6) /\ Len(w6) = BodyAt(r) - 1 /\ w6 \in Seq(Tokens) /\ HasEmpty(w6, EmptyAt(r))
         /\ BodyAt(r) \in Nat \ {0}
    <2>1. /\ Begins(w5, w6) /\ Len(w6) = Len(w5) + Len(EndOfLine)
          /\ \A i \in 1..Len(EndOfLine) : w6[Len(w5) + i] = EndOfLine[i]
      BY <1>1, <1>11, Written
    <2> HIDE DEF w6
    <2>2. w6[Len(w5) + 1] = CR /\ w6[Len(w5) + 2] = LF
      BY <1>1, <2>1
    <2>3. Len(w5) + 1 = EmptyAt(r) /\ Len(w5) + 2 = EmptyAt(r) + 1 /\ Len(w6) = EmptyAt(r) + 1
      BY <1>1, <1>11, <2>1
    <2>4. HasEmpty(w6, EmptyAt(r))
      BY <1>11, <2>2, <2>3 DEF HasEmpty
    <2> QED BY <1>11, <2>1, <2>3, <2>4, SMTT(30) DEF BodyAt, Begins
  <1> HIDE DEF w6
  <1>13. Begins(w6, w7) /\ Len(w7) = BodyAt(r) - 1 + r.body /\ w7 \in Seq(Tokens)
    <2>1. Begins(w6, w7) /\ Len(w7) = Len(w6) + Len(y)
      BY <1>5, <1>12, Written
    <2> HIDE DEF w7
    <2> QED BY <1>5, <1>12, <2>1 DEF Begins
  <1> HIDE DEF w7
  <1>14. Begins(w5, w7) /\ Begins(w4, w7) /\ Begins(w3, w7) /\ Begins(w1, w7)
    <2>1. Begins(w5, w7)
      BY <1>12, <1>13, Further
    <2>2. Begins(w4, w7)
      BY <1>11, <2>1, Further
    <2>3. Begins(w3, w7)
      BY <1>10, <2>2, Further
    <2>4. Begins(w2, w7)
      BY <1>8, <2>3, Further
    <2> QED BY <1>6, <2>1, <2>2, <2>3, <2>4, Further
  <1>15. 1 \in Nat \ {0}
    OBVIOUS
  <1>16. /\ r.blank => HasEmpty(w7, 1)
         /\ HasName(w7, LineAt(r), Tok("line", k))
         /\ r.body > 0 => HasName(w7, LengthAt(r), Tok("length", k))
         /\ r.ends = "header" => HasName(w7, CloseAt(r), Tok("close", k))
         /\ HasEmpty(w7, EmptyAt(r))
    BY <1>3, <1>8, <1>10, <1>11, <1>12, <1>13, <1>14, <1>15, NameStays, Zenon
  <1> QED BY <1>0, <1>2, <1>3, <1>10, <1>11, <1>12, <1>13, <1>16

\* Request i of a client on the wire is a sequence of tokens.
LEMMA WireLen ==
    ASSUME NEW a \in Seq(Request), NEW i \in 1..Len(a)
    PROVE  W(a, i) \in Seq(Tokens) /\ Len(W(a, i)) \in Nat /\ a[i] \in Request /\ i \in Nat
  <1>1. a[i] \in Request /\ i \in Nat
    OBVIOUS
  <1>2. OnWire(a[i], i) \in Seq(Tokens)
    BY <1>1, WireIs
  <1> QED BY <1>1, <1>2 DEF W

-----------------------------------------------------------------------------
(* Streams                                                                 *)

\* Of places in a stream.
LEMMA Moved ==
    ASSUME NEW o \in Int, NEW l \in Nat, NEW len \in Nat, NEW m \in 0..len, o + l <= len + 1
    PROVE  /\ (o + l) - m = (o - m) + l
           /\ \A x \in 1..l : (o - m) + x > 1 =>
                /\ (o - m) + x - 1 \in 1..(len - m) /\ m + ((o - m) + x - 1) = o + x - 1
                /\ o + x > 1
  OBVIOUS

\* A token of a request that is in the stream has a place in it.
LEMMA Room ==
    ASSUME NEW o \in Int, NEW l \in Nat, NEW len \in Nat, o + l <= len + 1
    PROVE  \A x \in 1..l : o + x > 1 => o + x - 1 \in 1..len
  OBVIOUS

\* So much of a request is left, so long is the stream.
LEMMA Ahead0 ==
    ASSUME NEW p \in Nat, NEW l \in Nat, NEW len \in Nat, (2 - p) + l <= len + 1
    PROVE  len >= l - p + 1
  OBVIOUS

\* What is left of one request and m tokens of the last are in the stream.
LEMMA Behind0 ==
    ASSUME NEW p \in Nat, NEW l \in Nat, NEW len \in Nat, NEW m \in Nat, NEW o \in Int,
           (2 - p) + l <= o, o + m = len + 1
    PROVE  len >= (l - p + 1) + m
  OBVIOUS

\* Orders are chained.
LEMMA AtMost == \A x, y, z \in Int : x <= y /\ y <= z => x <= z
  OBVIOUS

\* Offsets are integers.
LEMMA Offsets ==
    ASSUME NEW off \in [Nat -> Int], NEW i \in Nat
    PROVE  off[i] \in Int
  OBVIOUS

\* Nobody has sent what nobody has asked.
LEMMA NothingAsked == Stream(<<>>, <<>>, 1, 1)
  <1> DEFINE off == [i \in Nat |-> 1]
  <1>1. off \in [Nat -> Int] /\ Len(<<>>) = 0 /\ \A i \in Nat : off[i] = 1
    OBVIOUS
  <1> HIDE DEF off
  <1>2. IsStream(<<>>, <<>>, 1, 1, off)
    BY <1>1 DEF IsStream
  <1> QED BY <1>1, <1>2 DEF Stream

\* Reading m tokens.
LEMMA Read ==
    ASSUME NEW a \in Seq(Request), NEW s \in Seq(Tokens), NEW k \in 1..(Len(a) + 1), NEW p \in Nat \ {0},
           Stream(a, s, k, p), NEW m \in 0..Len(s)
    PROVE  Stream(a, SubSeq(s, m + 1, Len(s)), k, p + m)
  <1> DEFINE r == SubSeq(s, m + 1, Len(s))
  <1>1. r \in Seq(Tokens) /\ Len(r) = Len(s) - m /\ \A i \in 1..(Len(s) - m) : r[i] = s[m + i]
    BY RestIs
  <1> HIDE DEF r
  <1>2. PICK off \in [Nat -> Int] : IsStream(a, s, k, p, off)
    BY DEF Stream
  <1> DEFINE new == [i \in Nat |-> off[i] - m]
  <1>3. /\ new \in [Nat -> Int] /\ \A i \in Nat : new[i] = off[i] - m
        /\ Len(a) \in Nat /\ Len(s) \in Nat /\ m \in Nat /\ \A i \in Nat : off[i] \in Int
    BY Offsets
  <1> HIDE DEF new
  <1>m. m \in Nat /\ Len(s) \in Nat /\ m <= Len(s)
    OBVIOUS
  <1>4. new[k] = 2 - (p + m)
    BY <1>2, <1>3 DEF IsStream
  <1>5. ASSUME NEW i \in k..Len(a)
        PROVE  /\ new[i + 1] = new[i] + Len(W(a, i))
               /\ \A x \in 1..Len(W(a, i)) : new[i] + x > 1 => r[new[i] + x - 1] = W(a, i)[x]
    <2>1. /\ off[i + 1] = off[i] + Len(W(a, i)) /\ i \in Nat /\ i + 1 \in Nat
          /\ \A x \in 1..Len(W(a, i)) : off[i] + x > 1 => s[off[i] + x - 1] = W(a, i)[x]
      BY <1>2, <1>3 DEF IsStream
    <2>2. off[i] \in Int /\ Len(W(a, i)) \in Nat
      <3>1. i \in 1..Len(a)
        OBVIOUS
      <3> QED BY <2>1, <3>1, Offsets, WireLen
    <2>3. off[i] + Len(W(a, i)) <= Len(s) + 1
      <3>1. i + 1 \in k..(Len(a) + 1) /\ Len(a) + 1 \in k..(Len(a) + 1) /\ i + 1 <= Len(a) + 1
        BY <1>3
      <3>2. off[i + 1] <= off[Len(a) + 1] /\ off[Len(a) + 1] = Len(s) + 1
        BY <1>2, <3>1 DEF IsStream
      <3> QED BY <2>1, <3>2, Zenon
    <2>4. new[i + 1] = off[i + 1] - m /\ new[i] = off[i] - m
      BY <1>3, <2>1
    <2> DEFINE o == off[i]
               l == Len(W(a, i))
               len == Len(s)
    <2>5. o \in Int /\ l \in Nat /\ len \in Nat /\ m \in 0..len /\ o + l <= len + 1
      BY <1>m, <2>2, <2>3
    <2> HIDE DEF o, l, len
    <2>6. /\ (o + l) - m = (o - m) + l
          /\ \A x \in 1..l : (o - m) + x > 1 =>
                /\ (o - m) + x - 1 \in 1..(len - m) /\ m + ((o - m) + x - 1) = o + x - 1
                /\ o + x > 1
      BY <2>5, Moved
    <2>7. new[i + 1] = new[i] + l
      BY <2>1, <2>4, <2>6, Zenon DEF o, l
    <2>8. ASSUME NEW x \in 1..l, new[i] + x > 1 PROVE r[new[i] + x - 1] = W(a, i)[x]
      <3>1. new[i] + x - 1 \in 1..(len - m) /\ m + (new[i] + x - 1) = o + x - 1 /\ o + x > 1
        BY <2>4, <2>6, <2>8, Zenon DEF o
      <3>2. r[new[i] + x - 1] = s[m + (new[i] + x - 1)]
        BY <1>1, <3>1, Zenon DEF len
      <3>3. s[o + x - 1] = W(a, i)[x]
        BY <2>1, <2>8, <3>1, Zenon DEF o, l
      <3> QED BY <3>1, <3>2, <3>3, Zenon
    <2> QED BY <2>7, <2>8 DEF l
  <1>6. ASSUME NEW i \in k..(Len(a) + 1), NEW j \in k..(Len(a) + 1), i <= j
        PROVE  new[i] <= new[j]
    <2>1. off[i] <= off[j] /\ i \in Nat /\ j \in Nat
      BY <1>2, <1>3, <1>6 DEF IsStream
    <2> QED BY <1>3, <2>1, SMTT(30)
  <1>7. new[Len(a) + 1] = Len(r) + 1
    <2>1. off[Len(a) + 1] = Len(s) + 1 /\ Len(a) + 1 \in Nat
      BY <1>2, <1>3 DEF IsStream
    <2> QED BY <1>1, <1>3, <2>1
  <1>8. IsStream(a, r, k, p + m, new)
    BY <1>4, <1>5, <1>6, <1>7, Zenon DEF IsStream
  <1> QED BY <1>3, <1>8 DEF Stream, r

\* At the end of a request the next one begins.
LEMMA Through ==
    ASSUME NEW a \in Seq(Request), NEW s \in Seq(Tokens), NEW k \in 1..Len(a),
           Stream(a, s, k, Len(W(a, k)) + 1)
    PROVE  Stream(a, s, k + 1, 1)
  <1>1. PICK off \in [Nat -> Int] : IsStream(a, s, k, Len(W(a, k)) + 1, off)
    BY DEF Stream
  <1>0. Len(W(a, k)) \in Nat
    BY WireLen
  <1>2. off[k + 1] = 2 - 1
    <2>1. /\ off[k] = 2 - (Len(W(a, k)) + 1) /\ k \in k..Len(a)
      BY <1>1 DEF IsStream
    <2>2. off[k + 1] = off[k] + Len(W(a, k))
      BY <1>1, <2>1 DEF IsStream
    <2> QED BY <1>0, <2>1, <2>2
  <1>3. \A i : /\ i \in (k + 1)..Len(a) => i \in k..Len(a)
               /\ i \in (k + 1)..(Len(a) + 1) => i \in k..(Len(a) + 1)
    OBVIOUS
  <1>4. IsStream(a, s, k + 1, 1, off)
    BY <1>1, <1>2, <1>3 DEF IsStream
  <1> QED BY <1>4 DEF Stream

\* What is left of request k comes first.
LEMMA Ahead ==
    ASSUME NEW a \in Seq(Request), NEW s \in Seq(Tokens), NEW k \in 1..Len(a), NEW p \in Nat \ {0},
           Stream(a, s, k, p)
    PROVE  /\ Len(s) >= Len(W(a, k)) - p + 1
           /\ \A i \in 1..(Len(W(a, k)) - p + 1) : s[i] = W(a, k)[p + i - 1]
  <1>1. PICK off \in [Nat -> Int] : IsStream(a, s, k, p, off)
    BY DEF Stream
  <1>2. k \in k..Len(a) /\ k + 1 \in k..(Len(a) + 1) /\ Len(a) + 1 \in k..(Len(a) + 1) /\ k + 1 <= Len(a) + 1
        /\ k \in Nat /\ Len(s) \in Nat /\ Len(W(a, k)) \in Nat
    BY WireLen
  <1>3. /\ off[k] = 2 - p /\ off[k + 1] = off[k] + Len(W(a, k))
        /\ \A x \in 1..Len(W(a, k)) : off[k] + x > 1 => s[off[k] + x - 1] = W(a, k)[x]
        /\ off[k + 1] <= off[Len(a) + 1] /\ off[Len(a) + 1] = Len(s) + 1
    BY <1>1, <1>2 DEF IsStream
  <1>4. Len(s) >= Len(W(a, k)) - p + 1
    <2>1. off[k] \in Int /\ off[k + 1] \in Int
      BY <1>2, Offsets
    <2>2. (2 - p) + Len(W(a, k)) <= Len(s) + 1 /\ p \in Nat
      BY <1>3
    <2> QED BY <1>2, <2>2, Ahead0
  <1>5. ASSUME NEW i \in 1..(Len(W(a, k)) - p + 1) PROVE s[i] = W(a, k)[p + i - 1]
    <2> DEFINE x == p + i - 1
    <2>1. x \in 1..Len(W(a, k)) /\ off[k] + x > 1 /\ off[k] + x - 1 = i
      BY <1>3
    <2> HIDE DEF x
    <2>2. s[off[k] + x - 1] = W(a, k)[x]
      BY <1>3, <2>1
    <2> QED BY <2>1, <2>2 DEF x
  <1> QED BY <1>4, <1>5

\* The whole last request comes behind what is left of an earlier one.
LEMMA LastBehind ==
    ASSUME NEW a \in Seq(Request), NEW s \in Seq(Tokens), NEW k \in 1..Len(a), k # Len(a), NEW p \in Nat \ {0},
           Stream(a, s, k, p)
    PROVE  Len(s) >= (Len(W(a, k)) - p + 1) + Len(W(a, Len(a)))
  <1>1. PICK off \in [Nat -> Int] : IsStream(a, s, k, p, off)
    BY DEF Stream
  <1> DEFINE n == Len(a)
  <1>2. /\ k \in k..n /\ n \in k..n /\ k + 1 \in k..(n + 1) /\ n \in k..(n + 1) /\ k + 1 <= n
        /\ k \in Nat /\ n \in Nat /\ n + 1 \in Nat /\ k + 1 \in Nat /\ Len(s) \in Nat
    OBVIOUS
  <1>w. Len(W(a, k)) \in Nat /\ Len(W(a, n)) \in Nat
    <2>1. n \in 1..Len(a)
      OBVIOUS
    <2> QED BY <2>1, WireLen
  <1>3. /\ off[k] = 2 - p /\ off[k + 1] = off[k] + Len(W(a, k))
        /\ off[n + 1] = off[n] + Len(W(a, n))
        /\ off[k + 1] <= off[n] /\ off[n + 1] = Len(s) + 1
    <2> HIDE DEF n
    <2> QED BY <1>1, <1>2 DEF IsStream, n
  <1>4. off[k] \in Int /\ off[k + 1] \in Int /\ off[n] \in Int /\ off[n + 1] \in Int
    <2> HIDE DEF n
    <2> QED BY <1>2, Offsets
  <1> HIDE DEF n
  <1>5. (2 - p) + Len(W(a, k)) <= off[n] /\ off[n] + Len(W(a, n)) = Len(s) + 1
    BY <1>3, Zenon
  <1>6. p \in Nat
    OBVIOUS
  <1>7. Len(s) >= (Len(W(a, k)) - p + 1) + Len(W(a, n))
    BY <1>2, <1>4, <1>5, <1>6, <1>w, Behind0
  <1> QED BY <1>7 DEF n

\* The client asks one more.
LEMMA OneMore ==
    ASSUME NEW a \in Seq(Request), NEW r \in Request, NEW s \in Seq(Tokens), NEW k \in 1..(Len(a) + 1),
           NEW p \in Nat \ {0}, Stream(a, s, k, p), NEW w \in Seq(Tokens), w = OnWire(r, Len(a) + 1),
           NEW t \in Seq(Tokens), t = s \o w
    PROVE  Stream(Append(a, r), t, k, p)
  <1> DEFINE b == Append(a, r)
             n == Len(a)
  <1>1. /\ b \in Seq(Request) /\ Len(b) = n + 1 /\ n \in Nat
        /\ \A i \in 1..n : b[i] = a[i]
        /\ b[n + 1] = r
    OBVIOUS
  <1>2. /\ Len(t) = Len(s) + Len(w) /\ Len(s) \in Nat /\ Len(w) \in Nat
        /\ \A i \in 1..Len(s) : t[i] = s[i]
        /\ \A i \in 1..Len(w) : t[Len(s) + i] = w[i]
    BY ConcatIs
  <1>3. PICK off \in [Nat -> Int] : IsStream(a, s, k, p, off)
    BY DEF Stream
  <1> DEFINE new == [i \in Nat |-> IF i = n + 2 THEN Len(t) + 1 ELSE off[i]]
  <1>4. /\ new \in [Nat -> Int] /\ new[n + 2] = Len(t) + 1 /\ \A i \in 1..(n + 1) : new[i] = off[i]
    <2> HIDE DEF n
    <2>1. /\ new \in [Nat -> Int] /\ n + 2 \in Nat /\ \A i \in Nat : new[i] = IF i = n + 2 THEN Len(t) + 1 ELSE off[i]
      BY <1>1, <1>2
    <2> HIDE DEF new
    <2>2. ASSUME NEW i \in 1..(n + 1) PROVE new[i] = off[i]
      <3>1. i \in Nat /\ i # n + 2
        BY <1>1
      <3> QED BY <2>1, <3>1, Zenon
    <2>3. new[n + 2] = Len(t) + 1
      BY <2>1, Zenon
    <2> QED BY <2>1, <2>2, <2>3, Zenon
  <1>5. \A i \in 1..n : W(b, i) = W(a, i)
    BY <1>1 DEF W
  <1>6. W(b, n + 1) = w
    BY <1>1 DEF W
  <1> HIDE DEF b, n, new
  <1>7. /\ off[n + 1] = Len(s) + 1 /\ off[k] = 2 - p /\ \A i \in 1..(n + 1) : off[i] \in Int
        /\ \A i \in k..(n + 1) : off[i] <= Len(s) + 1
    <2>1. off[n + 1] = Len(s) + 1 /\ off[k] = 2 - p
      BY <1>3 DEF IsStream, n
    <2>2. \A i \in 1..(n + 1) : off[i] \in Int
      BY <1>1
    <2>3. ASSUME NEW i \in k..(n + 1) PROVE off[i] <= Len(s) + 1
      <3>1. n + 1 \in k..(n + 1) /\ i <= n + 1
        BY <1>1 DEF n
      <3>2. off[i] <= off[n + 1]
        BY <1>3, <3>1 DEF IsStream, n
      <3> QED BY <2>1, <3>2
    <2> QED BY <2>1, <2>2, <2>3
  <1>k. k \in 1..(n + 1)
    BY DEF n
  <1>8. ASSUME NEW i \in k..(n + 1)
        PROVE  /\ new[i + 1] = new[i] + Len(W(b, i))
               /\ \A x \in 1..Len(W(b, i)) : new[i] + x > 1 => t[new[i] + x - 1] = W(b, i)[x]
    <2>1. CASE i = n + 1
      <3>1. new[i] = Len(s) + 1 /\ new[i + 1] = Len(s) + Len(w) + 1
        BY <1>1, <1>2, <1>4, <1>7, <2>1
      <3>2. ASSUME NEW x \in 1..Len(w) PROVE t[new[i] + x - 1] = w[x]
        <4>1. new[i] + x - 1 = Len(s) + x
          BY <1>2, <3>1
        <4> QED BY <1>2, <4>1
      <3>3. Len(W(b, i)) = Len(w) /\ \A x \in 1..Len(W(b, i)) : t[new[i] + x - 1] = W(b, i)[x]
        BY <1>6, <2>1, <3>2
      <3>4. (Len(s) + 1) + Len(w) = Len(s) + Len(w) + 1
        BY <1>2
      <3>5. new[i + 1] = new[i] + Len(W(b, i))
        BY <3>1, <3>3, <3>4, Zenon
      <3> QED BY <3>3, <3>5
    <2>2. CASE i # n + 1
      <3>1. i \in k..n /\ i \in 1..n /\ i + 1 \in 1..(n + 1) /\ i \in 1..(n + 1) /\ i + 1 \in k..(n + 1)
        <4>1. k \in Nat /\ k >= 1 /\ n \in Nat /\ i \in Nat /\ i >= k /\ i <= n
          BY <1>1, <1>k, <2>2
        <4> QED BY <4>1
      <3>2. /\ off[i + 1] = off[i] + Len(W(a, i))
            /\ \A x \in 1..Len(W(a, i)) : off[i] + x > 1 => s[off[i] + x - 1] = W(a, i)[x]
        BY <1>3, <3>1 DEF IsStream, n
      <3>3. new[i] = off[i] /\ new[i + 1] = off[i + 1] /\ W(b, i) = W(a, i)
        BY <1>4, <1>5, <3>1
      <3>4. ASSUME NEW x \in 1..Len(W(a, i)), off[i] + x > 1 PROVE t[off[i] + x - 1] = W(a, i)[x]
        <4>1. off[i] \in Int /\ Len(W(a, i)) \in Nat /\ off[i] + Len(W(a, i)) <= Len(s) + 1
          <5>1. i \in 1..Len(a)
            BY <3>1 DEF n
          <5>2. off[i + 1] <= Len(s) + 1 /\ off[i] \in Int
            BY <1>7, <3>1, Zenon
          <5>3. Len(W(a, i)) \in Nat
            BY <5>1, WireLen
          <5> QED BY <3>2, <5>2, <5>3, Zenon
        <4>2. off[i] + x - 1 \in 1..Len(s)
          BY <1>2, <3>4, <4>1, Room, Zenon
        <4> QED BY <1>2, <3>2, <3>4, <4>2, Zenon
      <3> QED BY <3>2, <3>3, <3>4
    <2> QED BY <2>1, <2>2
  <1>9. ASSUME NEW i \in k..(n + 2), NEW j \in k..(n + 2), i <= j
        PROVE  new[i] <= new[j]
    <2>1. CASE j = n + 2 /\ i # n + 2
      <3>1. i \in k..(n + 1) /\ i \in 1..(n + 1)
        BY <1>1, <1>k, <2>1
      <3>2. new[i] = off[i] /\ off[i] <= Len(s) + 1 /\ off[i] \in Int /\ new[j] = Len(t) + 1
        BY <1>4, <1>7, <2>1, <3>1, Zenon
      <3>3. Len(s) + 1 <= Len(t) + 1 /\ Len(s) + 1 \in Int /\ Len(t) + 1 \in Int
        BY <1>2
      <3>4. off[i] <= Len(t) + 1
        BY <3>2, <3>3, AtMost, Zenon
      <3> QED BY <3>2, <3>4, Zenon
    <2>2. CASE i = n + 2
      <3>1. i = j
        BY <1>1, <1>9, <2>2
      <3>2. Len(t) + 1 <= Len(t) + 1
        BY <1>2
      <3> QED BY <1>4, <2>2, <3>1, <3>2, Zenon
    <2>3. CASE j # n + 2 /\ i # n + 2
      <3>1. i \in k..(n + 1) /\ j \in k..(n + 1) /\ i \in 1..(n + 1) /\ j \in 1..(n + 1)
        BY <1>1, <1>k, <2>3
      <3>2. off[i] <= off[j]
        BY <1>3, <1>9, <3>1 DEF IsStream, n
      <3> QED BY <1>4, <3>1, <3>2
    <2> QED BY <2>1, <2>2, <2>3
  <1>10. new[k] = 2 - p
    BY <1>4, <1>7, <1>k
  <1>11. IsStream(b, t, k, p, new)
    <2>1. Len(b) + 1 = n + 2
      BY <1>1
    <2> QED BY <1>1, <1>4, <1>8, <1>9, <1>10, <2>1 DEF IsStream
  <1> QED BY <1>4, <1>11 DEF Stream, b

-----------------------------------------------------------------------------
(* Lines                                                                   *)

\* What the server has buffered begins the stream.
LEMMA LineEndIs ==
    ASSUME buf \in Seq(Tokens), NEW e \in 1..(Len(buf) - 1), buf[e] = CR, buf[e + 1] = LF,
           \A i \in 1..(e - 1) : buf[i] # CR
    PROVE  LineEnd = e
  <1> DEFINE ends == {i \in 1..Len(buf) - 1 : buf[i] = CR /\ buf[i + 1] = LF}
  <1>1. e \in ends /\ \A j \in ends : e <= j
    <2>1. e \in ends
      OBVIOUS
    <2>2. ASSUME NEW j \in ends PROVE e <= j
      <3>1. j \in Nat /\ j >= 1 /\ buf[j] = CR
        OBVIOUS
      <3>2. ~(j \in 1..(e - 1))
        BY <3>1
      <3> QED BY <3>1, <3>2
    <2> QED BY <2>1, <2>2
  <1>2. \A i \in ends : (\A j \in ends : i <= j) => i = e
    <2>1. ASSUME NEW i \in ends, \A j \in ends : i <= j PROVE i = e
      <3>1. i <= e /\ e <= i
        BY <1>1, <2>1
      <3> QED BY <3>1
    <2> QED BY <2>1
  <1>3. LineEnd = CHOOSE i \in ends : \A j \in ends : i <= j
    BY <1>1 DEF LineEnd
  <1> HIDE DEF ends
  <1> QED BY <1>1, <1>2, <1>3, Zenon

\* LineEnd is 0 if the buffer has no line ending.
LEMMA NoLineEnd ==
    ASSUME buf \in Seq(Tokens), \A i \in 1..(Len(buf) - 1) : buf[i] # CR \/ buf[i + 1] # LF
    PROVE  LineEnd = 0
  BY DEF LineEnd

\* A name and its line ending come first: it is the first line of the buffer.
LEMMA NameNext ==
    ASSUME buf \in Seq(Tokens), NEW s, Begins(buf, s), NEW x, x # CR, HasName(s, 1, x)
    PROVE  /\ Len(buf) >= 3 => LineEnd = 2 /\ Text = <<x>> /\ Rest = SubSeq(buf, 3 + 1, Len(buf))
           /\ Len(buf) < 3 => LineEnd = 0
           /\ buf # <<>> => buf[1] = x
  <1>0. CR # LF /\ s[1] = x /\ s[1 + 1] = CR /\ s[1 + 2] = LF /\ Len(buf) \in Nat
        /\ \A i \in 1..Len(buf) : buf[i] = s[i]
    BY DEF CR, LF, Tok, HasName, Begins
  <1>1. ASSUME Len(buf) >= 3 PROVE LineEnd = 2 /\ Text = <<x>> /\ Rest = SubSeq(buf, 3 + 1, Len(buf))
    <2>1. 2 \in 1..(Len(buf) - 1) /\ 1 \in 1..Len(buf) /\ 2 \in 1..Len(buf) /\ 3 \in 1..Len(buf)
      BY <1>0, <1>1
    <2>2. buf[1] = x /\ buf[2] = CR /\ buf[2 + 1] = LF
      BY <1>0, <2>1
    <2>3. \A i \in 1..(2 - 1) : buf[i] # CR
      BY <2>2
    <2>4. LineEnd = 2
      BY <2>1, <2>2, <2>3, LineEndIs
    <2>5. SubSeq(buf, 1, 2 - 1) = <<buf[1]>>
      <3> DEFINE t == SubSeq(buf, 1, 1)
      <3>1. t \in Seq(Tokens) /\ Len(t) = 1 /\ t[1] = buf[1]
        BY <1>0, <2>1
      <3> HIDE DEF t
      <3>2. t = <<t[1]>>
        BY <3>1
      <3>3. 2 - 1 = 1
        OBVIOUS
      <3> QED BY <3>1, <3>2, <3>3, Zenon DEF t
    <2>6. Text = <<x>>
      BY <2>2, <2>4, <2>5 DEF Text
    <2>7. Rest = SubSeq(buf, 3 + 1, Len(buf))
      BY <2>4 DEF Rest
    <2> QED BY <2>4, <2>6, <2>7
  <1>2. ASSUME Len(buf) < 3 PROVE LineEnd = 0
    <2>1. ASSUME NEW i \in 1..(Len(buf) - 1) PROVE buf[i] # CR \/ buf[i + 1] # LF
      <3>1. i = 1 /\ 1 \in 1..Len(buf)
        BY <1>0, <1>2
      <3> QED BY <1>0, <3>1
    <2> QED BY <2>1, NoLineEnd
  <1>3. ASSUME buf # <<>> PROVE buf[1] = x
    <2>1. 1 \in 1..Len(buf)
      BY <1>0, <1>3
    <2> QED BY <1>0, <2>1
  <1> QED BY <1>1, <1>2, <1>3

\* A line ending comes first: the first line of the buffer is empty.
LEMMA EmptyNext ==
    ASSUME buf \in Seq(Tokens), NEW s, Begins(buf, s), HasEmpty(s, 1)
    PROVE  /\ Len(buf) >= 2 => LineEnd = 1 /\ Text = <<>> /\ Rest = SubSeq(buf, 2 + 1, Len(buf))
           /\ Len(buf) < 2 => LineEnd = 0
           /\ buf # <<>> => buf[1] = CR
  <1>0. s[1] = CR /\ s[1 + 1] = LF /\ Len(buf) \in Nat
        /\ \A i \in 1..Len(buf) : buf[i] = s[i]
    BY DEF HasEmpty, Begins
  <1>1. ASSUME Len(buf) >= 2 PROVE LineEnd = 1 /\ Text = <<>> /\ Rest = SubSeq(buf, 2 + 1, Len(buf))
    <2>1. 1 \in 1..(Len(buf) - 1) /\ 1 \in 1..Len(buf) /\ 2 \in 1..Len(buf)
      BY <1>0, <1>1
    <2>2. buf[1] = CR /\ buf[1 + 1] = LF
      BY <1>0, <2>1
    <2>3. \A i \in 1..(1 - 1) : buf[i] # CR
      OBVIOUS
    <2>4. LineEnd = 1
      BY <2>1, <2>2, <2>3, LineEndIs
    <2>5. SubSeq(buf, 1, 1 - 1) = <<>>
      BY <1>0
    <2>6. Text = <<>>
      BY <2>4, <2>5 DEF Text
    <2>7. Rest = SubSeq(buf, 2 + 1, Len(buf))
      BY <2>4 DEF Rest
    <2> QED BY <2>4, <2>6, <2>7
  <1>2. ASSUME Len(buf) < 2 PROVE LineEnd = 0
    <2>1. \A i \in 1..(Len(buf) - 1) : buf[i] # CR \/ buf[i + 1] # LF
      BY <1>0, <1>2
    <2> QED BY <2>1, NoLineEnd
  <1>3. ASSUME buf # <<>> PROVE buf[1] = CR
    <2>1. 1 \in 1..Len(buf)
      BY <1>0, <1>3
    <2> QED BY <1>0, <2>1
  <1> QED BY <1>1, <1>2, <1>3

\* What stands on the wire stands in the stream.
LEMMA InStream ==
    ASSUME NEW a \in Seq(Request), NEW s \in Seq(Tokens), NEW k \in 1..Len(a), NEW p \in Nat \ {0},
           Stream(a, s, k, p), NEW x
    PROVE  /\ HasName(W(a, k), p, x) => HasName(s, 1, x) /\ Len(W(a, k)) - p + 1 >= 3
           /\ HasEmpty(W(a, k), p) => HasEmpty(s, 1) /\ Len(W(a, k)) - p + 1 >= 2
  <1> DEFINE w == W(a, k)
             l == Len(w)
  <1>1. l \in Nat /\ p \in Nat /\ Len(s) \in Nat
    BY WireLen
  <1>2. Len(s) >= l - p + 1 /\ \A i \in 1..(l - p + 1) : s[i] = w[p + i - 1]
    BY Ahead
  <1> HIDE DEF w, l
  <1>3. ASSUME HasName(w, p, x) PROVE HasName(s, 1, x) /\ l - p + 1 >= 3
    <2>1. l - p + 1 >= 3 /\ 1 \in 1..(l - p + 1) /\ 2 \in 1..(l - p + 1) /\ 3 \in 1..(l - p + 1)
          /\ p + 1 - 1 = p /\ p + 2 - 1 = p + 1 /\ p + 3 - 1 = p + 2
      BY <1>1, <1>3 DEF HasName, l
    <2>2. s[1] = w[p] /\ s[2] = w[p + 1] /\ s[3] = w[p + 2]
      BY <1>2, <2>1
    <2>3. 1 + 2 <= Len(s)
      BY <1>1, <1>2, <2>1
    <2> QED BY <1>3, <2>1, <2>2, <2>3 DEF HasName
  <1>4. ASSUME HasEmpty(w, p) PROVE HasEmpty(s, 1) /\ l - p + 1 >= 2
    <2>1. l - p + 1 >= 2 /\ 1 \in 1..(l - p + 1) /\ 2 \in 1..(l - p + 1)
          /\ p + 1 - 1 = p /\ p + 2 - 1 = p + 1
      BY <1>1, <1>4 DEF HasEmpty, l
    <2>2. s[1] = w[p] /\ s[2] = w[p + 1]
      BY <1>2, <2>1
    <2>3. 1 + 1 <= Len(s)
      BY <1>1, <1>2, <2>1
    <2> QED BY <1>4, <2>1, <2>2, <2>3 DEF HasEmpty
  <1> QED BY <1>3, <1>4 DEF w, l

\* The next line of the stream, when the server takes it.
LEMMA TakesName ==
    ASSUME buf \in Seq(Tokens), NEW u \in Seq(Tokens), NEW a \in Seq(Request), NEW k \in 1..Len(a),
           NEW p \in Nat \ {0}, Stream(a, buf \o u, k, p),
           NEW x, x # CR, HasName(W(a, k), p, x)
    PROVE  /\ LineEnd # 0 => Text = <<x>> /\ Rest \in Seq(Tokens) /\ Stream(a, Rest \o u, k, p + 3)
           /\ LineEnd = 0 => Len(buf) < Len(W(a, k)) - p + 1 /\ (buf # <<>> => buf[1] = x)
  <1> DEFINE s == buf \o u
  <1>1. s \in Seq(Tokens) /\ Begins(buf, s)
    BY Written DEF Begins
  <1>2. Stream(a, s, k, p)
    OBVIOUS
  <1> HIDE DEF s
  <1>3. HasName(s, 1, x) /\ Len(W(a, k)) - p + 1 >= 3
    BY <1>1, <1>2, InStream
  <1>4. /\ Len(buf) >= 3 => LineEnd = 2 /\ Text = <<x>> /\ Rest = SubSeq(buf, 3 + 1, Len(buf))
        /\ Len(buf) < 3 => LineEnd = 0
        /\ buf # <<>> => buf[1] = x
    BY <1>1, <1>3, NameNext
  <1>5. Len(buf) \in Nat /\ Len(W(a, k)) \in Nat /\ p \in Nat
    BY WireLen
  <1>6. ASSUME LineEnd # 0 PROVE Text = <<x>> /\ Rest \in Seq(Tokens) /\ Stream(a, Rest \o u, k, p + 3)
    <2>1. ~(Len(buf) < 3)
      BY <1>4, <1>6
    <2>2. 3 \in 0..Len(buf) /\ 3 \in 0..Len(s)
      BY <1>1, <1>5, <2>1 DEF Begins
    <2>3. Rest = SubSeq(buf, 3 + 1, Len(buf)) /\ Text = <<x>>
      BY <1>4, <1>5, <2>1
    <2>4. Rest \in Seq(Tokens) /\ Rest \o u = SubSeq(s, 3 + 1, Len(s))
      BY <2>2, <2>3, RestIs, FrontRead DEF s
    <2>5. k \in 1..(Len(a) + 1)
      OBVIOUS
    <2>6. Stream(a, SubSeq(s, 3 + 1, Len(s)), k, p + 3)
      BY <1>1, <1>2, <2>2, <2>5, Read
    <2> QED BY <2>3, <2>4, <2>6
  <1>7. ASSUME LineEnd = 0 PROVE Len(buf) < Len(W(a, k)) - p + 1 /\ (buf # <<>> => buf[1] = x)
    <2>1. Len(buf) < 3
      BY <1>4, <1>5, <1>7
    <2> QED BY <1>3, <1>4, <1>5, <2>1
  <1> QED BY <1>6, <1>7

\* The same for the line ending of an empty line.
LEMMA TakesEmpty ==
    ASSUME buf \in Seq(Tokens), NEW u \in Seq(Tokens), NEW a \in Seq(Request), NEW k \in 1..Len(a),
           NEW p \in Nat \ {0}, Stream(a, buf \o u, k, p), HasEmpty(W(a, k), p)
    PROVE  /\ LineEnd # 0 => Text = <<>> /\ Rest \in Seq(Tokens) /\ Stream(a, Rest \o u, k, p + 2)
           /\ LineEnd = 0 => Len(buf) < Len(W(a, k)) - p + 1 /\ (buf # <<>> => buf[1] = CR)
  <1> DEFINE s == buf \o u
  <1>1. s \in Seq(Tokens) /\ Begins(buf, s)
    BY Written DEF Begins
  <1>2. Stream(a, s, k, p)
    OBVIOUS
  <1> HIDE DEF s
  <1>3. HasEmpty(s, 1) /\ Len(W(a, k)) - p + 1 >= 2
    BY <1>1, <1>2, InStream
  <1>4. /\ Len(buf) >= 2 => LineEnd = 1 /\ Text = <<>> /\ Rest = SubSeq(buf, 2 + 1, Len(buf))
        /\ Len(buf) < 2 => LineEnd = 0
        /\ buf # <<>> => buf[1] = CR
    BY <1>1, <1>3, EmptyNext
  <1>5. Len(buf) \in Nat /\ Len(W(a, k)) \in Nat /\ p \in Nat
    BY WireLen
  <1>6. ASSUME LineEnd # 0 PROVE Text = <<>> /\ Rest \in Seq(Tokens) /\ Stream(a, Rest \o u, k, p + 2)
    <2>1. ~(Len(buf) < 2)
      BY <1>4, <1>6
    <2>2. 2 \in 0..Len(buf) /\ 2 \in 0..Len(s)
      BY <1>1, <1>5, <2>1 DEF Begins
    <2>3. Rest = SubSeq(buf, 2 + 1, Len(buf)) /\ Text = <<>>
      BY <1>4, <1>5, <2>1
    <2>4. Rest \in Seq(Tokens) /\ Rest \o u = SubSeq(s, 2 + 1, Len(s))
      BY <2>2, <2>3, RestIs, FrontRead DEF s
    <2>5. k \in 1..(Len(a) + 1)
      OBVIOUS
    <2>6. Stream(a, SubSeq(s, 2 + 1, Len(s)), k, p + 2)
      BY <1>1, <1>2, <2>2, <2>5, Read
    <2> QED BY <2>3, <2>4, <2>6
  <1>7. ASSUME LineEnd = 0 PROVE Len(buf) < Len(W(a, k)) - p + 1 /\ (buf # <<>> => buf[1] = CR)
    <2>1. Len(buf) < 2
      BY <1>4, <1>5, <1>7
    <2> QED BY <1>3, <1>4, <1>5, <2>1
  <1> QED BY <1>6, <1>7

\* A client that has hung up in the middle of a request asked for no other after it.
LEMMA CutIsLast ==
    ASSUME buf \in Seq(Tokens), NEW u \in Seq(Tokens), NEW a \in Seq(Request), NEW k \in 1..Len(a),
           NEW p \in Nat \ {0}, Stream(a, buf \o u, k, p),
           Len(buf) < Len(W(a, k)) - p + 1, Len(u) <= Len(W(a, Len(a)))
    PROVE  k = Len(a)
  <1> DEFINE s == buf \o u
  <1>1. s \in Seq(Tokens) /\ Len(s) = Len(buf) + Len(u) /\ Len(buf) \in Nat /\ Len(u) \in Nat
    BY ConcatIs
  <1>2. Stream(a, s, k, p)
    OBVIOUS
  <1> HIDE DEF s
  <1>3. SUFFICES ASSUME k # Len(a) PROVE FALSE
    OBVIOUS
  <1>4. Len(s) >= (Len(W(a, k)) - p + 1) + Len(W(a, Len(a)))
    BY <1>1, <1>2, <1>3, LastBehind
  <1>5. Len(a) \in 1..Len(a)
    OBVIOUS
  <1>6. Len(W(a, k)) \in Nat /\ Len(W(a, Len(a))) \in Nat /\ p \in Nat
    BY <1>5, WireLen
  <1> QED BY <1>1, <1>4, <1>6

-----------------------------------------------------------------------------
(* Where the server stands in the stream of its client, which has asked a  *)
(* and been answered q times; s is what has not been read.  over: it has   *)
(* hung up and all it has sent has been read.                              *)

\* No response so far has ended the connection.
NoneEnds(a, q) == \A i \in 1..q : a[i].ends = "none"

AtLine(a, s, q, over) ==
    over \/ /\ NoneEnds(a, q)
            /\ \/ Stream(a, s, q + 1, 1)
               \/ q + 1 <= Len(a) /\ a[q + 1].blank /\ Stream(a, s, q + 1, 3)

\* The request that is read is the next one.
IsNext(a, q, c) == c.k = q + 1 /\ q + 1 <= Len(a) /\ NoneEnds(a, q)

\* It is the last, and the rest of it will not come.
IsCut(a, q, over, c) == over /\ IsNext(a, q, c) /\ q + 1 = Len(a)

HasLength(a, q, c) == c.length = a[q + 1].body
HasClose(a, q, c)  == c.close = (a[q + 1].ends = "header")

AtHeaders(a, s, q, over, c) ==
    /\ ~c.cut
    /\ \/ over /\ c.k = 0
       \/ IsCut(a, q, over, c)
       \/ /\ IsNext(a, q, c)
          /\ LET r == a[q + 1] IN
             \/ r.body > 0 /\ c.length = 0 /\ ~c.close /\ Stream(a, s, q + 1, LengthAt(r))
             \/ r.ends = "header" /\ HasLength(a, q, c) /\ ~c.close /\ Stream(a, s, q + 1, CloseAt(r))
             \/ HasLength(a, q, c) /\ HasClose(a, q, c) /\ Stream(a, s, q + 1, EmptyAt(r))

WholeOrCut(a, q, over, c) ==
    \/ IsCut(a, q, over, c) /\ c.cut
    \/ IsNext(a, q, c) /\ ~c.cut /\ HasLength(a, q, c) /\ HasClose(a, q, c)

AtBody(a, s, q, over, c) ==
    WholeOrCut(a, q, over, c) /\ (~c.cut => Stream(a, s, q + 1, BodyAt(a[q + 1])))

AtAction(a, s, q, over, c) ==
    WholeOrCut(a, q, over, c) /\ (~c.cut => Stream(a, s, q + 2, 1))

Stands(where, a, s, q, over, c) ==
    /\ where = "line" => AtLine(a, s, q, over)
    /\ where = "headers" => AtHeaders(a, s, q, over, c)
    /\ where = "body" => AtBody(a, s, q, over, c)
    /\ where = "action" => AtAction(a, s, q, over, c)

-----------------------------------------------------------------------------
(* The invariant                                                           *)

Domains ==
    /\ asked \in [Clients -> Seq(Request)] /\ replies \in [Clients -> Seq(Reply)]
    /\ unsent \in [Clients -> Seq(Tokens)] /\ net \in [Clients -> Seq(Tokens)]
    /\ gone \in [Clients -> BOOLEAN] /\ form \in {"routes", "function"}

Coming(c) == net[c] \o unsent[c]
Unread(c) == buf \o Coming(c)
Over(c)   == gone[c] /\ net[c] = <<>> /\ buf = <<>>
Queued(c) == \E i \in 1..Len(backlog) : backlog[i] = c

\* Responses are to what was asked.
Counts == \A c \in Clients : Len(replies[c]) <= Len(asked[c])

\* Only of its last request a client has something to send.
LastUnsent ==
    \A c \in Clients : unsent[c] # <<>> =>
        asked[c] # <<>> /\ Len(unsent[c]) <= Len(W(asked[c], Len(asked[c])))

\* A client is in the backlog once, until it is served.
Queue ==
    /\ \A i, j \in 1..Len(backlog) : backlog[i] = backlog[j] => i = j
    /\ \A i \in 1..Len(backlog) : asked[backlog[i]] # <<>> /\ backlog[i] # conn
    /\ conn \in Clients => asked[conn] # <<>>

\* Nothing of a client that is not served yet has been read.
Waiting ==
    \A c \in Clients : asked[c] = <<>> \/ Queued(c) =>
        replies[c] = <<>> /\ Stream(asked[c], Coming(c), 1, 1)

Reading ==
    conn \in Clients =>
        Stands(at, asked[conn], Unread(conn), Len(replies[conn]), Over(conn), cur)

\* The globals are what the action that runs has emitted.
Own ==
    /\ at = "action" => status = wish.status /\ headers = wish.type
    /\ at = "action" /\ Matched(FALSE) => headers = "none"
    /\ at # "action" => wish = NoWish

\* The responses so far, each to its request.
WholeReplies ==
    \A c \in Clients : \A i \in 1..Len(replies[c]) :
        /\ replies[c][i].k = i
        /\ ~replies[c][i].cut => replies[c][i].read = asked[c][i].body
        /\ replies[c][i].cut => gone[c] /\ i = Len(asked[c])

IInv ==
    /\ TypeOK /\ Domains /\ Counts /\ WholeReplies
    /\ LastUnsent /\ Queue /\ Waiting /\ Reading /\ Own

-----------------------------------------------------------------------------
(* What the client does next, and how little it takes                      *)

\* What is true of the client that is served.
LEMMA ServedIs ==
    ASSUME IInv, conn \in Clients
    PROVE  /\ asked[conn] \in Seq(Request) /\ asked[conn] # <<>> /\ Len(asked[conn]) \in Nat
           /\ Len(replies[conn]) \in Nat /\ Len(replies[conn]) <= Len(asked[conn])
           /\ buf \in Seq(Tokens) /\ net[conn] \in Seq(Tokens) /\ unsent[conn] \in Seq(Tokens)
           /\ Coming(conn) \in Seq(Tokens) /\ Unread(conn) \in Seq(Tokens)
           /\ Stands(at, asked[conn], Unread(conn), Len(replies[conn]), Over(conn), cur)
           /\ at \in {"line", "headers", "body", "action"}
  <1>1. /\ asked[conn] \in Seq(Request) /\ replies[conn] \in Seq(Reply)
        /\ net[conn] \in Seq(Tokens) /\ unsent[conn] \in Seq(Tokens)
    BY DEF IInv, Domains
  <1>2. asked[conn] # <<>> /\ Len(replies[conn]) <= Len(asked[conn])
        /\ Stands(at, asked[conn], Unread(conn), Len(replies[conn]), Over(conn), cur)
    BY DEF IInv, Queue, Counts, Reading
  <1>3. buf \in Seq(Tokens) /\ at \in {"accept", "line", "headers", "body", "action"} /\ at # "accept"
    BY ServeAssumption DEF IInv, TypeOK
  <1>4. Coming(conn) \in Seq(Tokens)
    BY <1>1, ConcatIs DEF Coming
  <1>5. Unread(conn) \in Seq(Tokens)
    BY <1>3, <1>4, ConcatIs DEF Unread
  <1>6. Len(asked[conn]) \in Nat /\ Len(replies[conn]) \in Nat
    BY <1>1
  <1> QED BY <1>1, <1>2, <1>3, <1>4, <1>5, <1>6

\* The stream has come to its end within request k.
CutShort(k) == gone[conn] /\ net[conn] = <<>> /\ k = Len(asked[conn])

\* A stream that ends before request k does ends within its last request.
LEMMA CutWithin ==
    ASSUME IInv, conn \in Clients, Eof, NEW k \in 1..Len(asked[conn]), NEW p \in Nat \ {0},
           Stream(asked[conn], Unread(conn), k, p), Len(buf) < Len(W(asked[conn], k)) - p + 1
    PROVE  CutShort(k)
  <1> DEFINE a == asked[conn]
             u == Coming(conn)
  <1>1. /\ a \in Seq(Request) /\ a # <<>> /\ Len(a) \in Nat /\ buf \in Seq(Tokens) /\ u \in Seq(Tokens)
        /\ unsent[conn] \in Seq(Tokens)
    BY ServedIs
  <1>2. gone[conn] /\ net[conn] = <<>>
    BY DEF Eof
  <1>3. u = unsent[conn]
    BY <1>1, <1>2 DEF Coming
  <1>4. Len(u) <= Len(W(a, Len(a)))
    <2>1. CASE unsent[conn] = <<>>
      <3>1. Len(a) \in 1..Len(a)
        BY <1>1
      <3>2. Len(W(a, Len(a))) \in Nat
        BY <1>1, <3>1, WireLen
      <3>3. Len(u) = 0
        BY <1>3, <2>1
      <3> QED BY <3>2, <3>3
    <2>2. CASE unsent[conn] # <<>>
      BY <1>3, <2>2 DEF IInv, LastUnsent
    <2> QED BY <2>1, <2>2
  <1>5. Stream(a, buf \o u, k, p) /\ k \in 1..Len(a) /\ Len(buf) < Len(W(a, k)) - p + 1
    BY DEF Unread
  <1> HIDE DEF a, u
  <1>6. k = Len(a)
    BY <1>1, <1>4, <1>5, CutIsLast
  <1> QED BY <1>2, <1>6 DEF CutShort, a

\* The line taken is the name that comes next, whole, or the stream is cut.
LEMMA NameTaken ==
    ASSUME IInv, conn \in Clients, HasLine, NEW k \in 1..Len(asked[conn]), NEW p \in Nat \ {0},
           Stream(asked[conn], Unread(conn), k, p), NEW x, x # CR, HasName(W(asked[conn], k), p, x)
    PROVE  /\ Text # <<>> /\ Text[1] = x /\ Rest \in Seq(Tokens)
           /\ Stream(asked[conn], Rest \o Coming(conn), k, p + 3) \/ (Rest = <<>> /\ CutShort(k))
  <1> DEFINE a == asked[conn]
             u == Coming(conn)
  <1>1. a \in Seq(Request) /\ buf \in Seq(Tokens) /\ u \in Seq(Tokens)
    BY ServedIs
  <1>2. Stream(a, buf \o u, k, p) /\ k \in 1..Len(a) /\ HasName(W(a, k), p, x)
    BY DEF Unread
  <1>3. /\ LineEnd # 0 => Text = <<x>> /\ Rest \in Seq(Tokens) /\ Stream(a, Rest \o u, k, p + 3)
        /\ LineEnd = 0 => Len(buf) < Len(W(a, k)) - p + 1 /\ (buf # <<>> => buf[1] = x)
    <2> HIDE DEF a, u
    <2> QED BY <1>1, <1>2, TakesName
  <1>4. CASE LineEnd # 0
    <2>1. <<x>> # <<>> /\ <<x>>[1] = x
      OBVIOUS
    <2>2. Text = <<x>> /\ Rest \in Seq(Tokens) /\ Stream(a, Rest \o u, k, p + 3)
      BY <1>3, <1>4, Zenon
    <2> QED BY <2>1, <2>2, Zenon
  <1>5. CASE LineEnd = 0
    <2>1. Eof /\ buf # <<>> /\ Text = buf /\ Rest = <<>>
      BY <1>5 DEF HasLine, Text, Rest
    <2>2. CutShort(k)
      BY <1>3, <1>5, <2>1, CutWithin
    <2> QED BY <1>3, <1>5, <2>1, <2>2
  <1> QED BY <1>4, <1>5

\* The line taken is the empty one that comes next, or only its CR.
LEMMA EmptyTaken ==
    ASSUME IInv, conn \in Clients, HasLine, NEW k \in 1..Len(asked[conn]), NEW p \in Nat \ {0},
           Stream(asked[conn], Unread(conn), k, p), HasEmpty(W(asked[conn], k), p)
    PROVE  /\ Rest \in Seq(Tokens)
           /\ \/ Text = <<>> /\ Stream(asked[conn], Rest \o Coming(conn), k, p + 2)
              \/ Text # <<>> /\ Text[1] = CR /\ Rest = <<>> /\ CutShort(k)
  <1> DEFINE a == asked[conn]
             u == Coming(conn)
  <1>1. a \in Seq(Request) /\ buf \in Seq(Tokens) /\ u \in Seq(Tokens)
    BY ServedIs
  <1>2. Stream(a, buf \o u, k, p) /\ k \in 1..Len(a) /\ HasEmpty(W(a, k), p)
    BY DEF Unread
  <1>3. /\ LineEnd # 0 => Text = <<>> /\ Rest \in Seq(Tokens) /\ Stream(a, Rest \o u, k, p + 2)
        /\ LineEnd = 0 => Len(buf) < Len(W(a, k)) - p + 1 /\ (buf # <<>> => buf[1] = CR)
    <2> HIDE DEF a, u
    <2> QED BY <1>1, <1>2, TakesEmpty
  <1>4. CASE LineEnd # 0
    BY <1>3, <1>4
  <1>5. CASE LineEnd = 0
    <2>1. Eof /\ buf # <<>> /\ Text = buf /\ Rest = <<>>
      BY <1>5 DEF HasLine, Text, Rest
    <2>2. CutShort(k)
      BY <1>3, <1>5, <2>1, CutWithin
    <2> QED BY <1>3, <1>5, <2>1, <2>2
  <1> QED BY <1>4, <1>5

\* At the end of the stream there is no line.
LEMMA NoLineOver ==
    ASSUME buf = <<>>
    PROVE  LineEnd = 0 /\ ~HasLine
  <1>1. LineEnd = 0
    BY NoLineEnd
  <1> QED BY <1>1 DEF HasLine

\* Behind the last request nothing is left.
LEMMA StreamEnds ==
    ASSUME NEW a \in Seq(Request), NEW s \in Seq(Tokens), Stream(a, s, Len(a) + 1, 1)
    PROVE  s = <<>>
  <1>1. PICK off \in [Nat -> Int] : IsStream(a, s, Len(a) + 1, 1, off)
    BY DEF Stream
  <1>2. off[Len(a) + 1] = 2 - 1 /\ off[Len(a) + 1] = Len(s) + 1
    BY <1>1 DEF IsStream
  <1>3. Len(s) = 0
    BY <1>2
  <1> QED BY <1>3

\* Names of lines are no line endings.
LEMMA NamesAre ==
    ASSUME NEW k \in Nat, NEW t \in {"line", "length", "close"}
    PROVE  Tok(t, k) # CR /\ Tok(t, k).t = t /\ Tok(t, k).k = k /\ CR.t = "CR"
  BY DEF CR, Tok

\* Request k of the client on the wire.
LEMMA RequestOnWire ==
    ASSUME NEW a \in Seq(Request), NEW k \in 1..Len(a)
    PROVE  LET r == a[k]
               w == W(a, k)
           IN  /\ r \in Request /\ k \in Nat /\ Len(w) = BodyAt(r) - 1 + r.body /\ r.body \in Nat
               /\ LineAt(r) \in Nat \ {0} /\ LengthAt(r) \in Nat \ {0} /\ CloseAt(r) \in Nat \ {0}
               /\ EmptyAt(r) \in Nat \ {0} /\ BodyAt(r) \in Nat \ {0}
               /\ r.blank => HasEmpty(w, 1)
               /\ HasName(w, LineAt(r), Tok("line", k))
               /\ r.body > 0 => HasName(w, LengthAt(r), Tok("length", k))
               /\ r.ends = "header" => HasName(w, CloseAt(r), Tok("close", k))
               /\ HasEmpty(w, EmptyAt(r))
  <1>1. a[k] \in Request /\ k \in Nat
    OBVIOUS
  <1> DEFINE r == a[k]
  <1>2. r \in Request
    BY <1>1
  <1> HIDE DEF r
  <1>3. LET w == OnWire(r, k) IN
           /\ w \in Seq(Tokens) /\ Len(w) = BodyAt(r) - 1 + r.body
           /\ LineAt(r) \in Nat \ {0} /\ LengthAt(r) \in Nat \ {0} /\ CloseAt(r) \in Nat \ {0}
           /\ EmptyAt(r) \in Nat \ {0} /\ BodyAt(r) \in Nat \ {0} /\ r.body \in Nat
           /\ r.blank => HasEmpty(w, 1)
           /\ HasName(w, LineAt(r), Tok("line", k))
           /\ r.body > 0 => HasName(w, LengthAt(r), Tok("length", k))
           /\ r.ends = "header" => HasName(w, CloseAt(r), Tok("close", k))
           /\ HasEmpty(w, EmptyAt(r))
    BY <1>1, <1>2, WireIs
  <1>4. W(a, k) = OnWire(r, k)
    BY DEF W, r
  <1> QED BY <1>1, <1>2, <1>3, <1>4, Zenon DEF r

\* Behind the name of a request come its headers, or the line that ends them.
LEMMA HeadersBegin ==
    ASSUME NEW a \in Seq(Request), NEW s, NEW q \in Nat, NEW over \in BOOLEAN, NEW c, c.close \in BOOLEAN,
           IsNext(a, q, c), ~c.cut, ~c.close, c.length = 0, Stream(a, s, q + 1, LengthAt(a[q + 1]))
    PROVE  AtHeaders(a, s, q, over, c)
  <1> DEFINE r == a[q + 1]
  <1>1. q + 1 \in 1..Len(a)
    BY DEF IsNext
  <1>2. r.body \in Nat /\ LengthAt(r) \in Nat \ {0}
    BY <1>1, RequestOnWire
  <1>3. ~(r.body > 0) => CloseAt(r) = LengthAt(r) /\ r.body = 0
    BY <1>2 DEF CloseAt
  <1>4. r.ends # "header" => EmptyAt(r) = CloseAt(r)
    <2>1. CloseAt(r) \in Nat
      BY <1>2 DEF CloseAt
    <2> QED BY <2>1 DEF EmptyAt
  <1>5. CASE r.body > 0
    BY <1>5 DEF AtHeaders
  <1>6. CASE ~(r.body > 0) /\ r.ends = "header"
    BY <1>3, <1>6 DEF AtHeaders, HasLength
  <1>7. CASE ~(r.body > 0) /\ r.ends # "header"
    <2>1. HasLength(a, q, c) /\ Stream(a, s, q + 1, EmptyAt(r))
      BY <1>3, <1>4, <1>7 DEF HasLength
    <2>2. HasClose(a, q, c)
      BY <1>7 DEF HasClose
    <2> QED BY <2>1, <2>2 DEF AtHeaders
  <1> QED BY <1>5, <1>6, <1>7

\* Behind the length comes the close header, or the line that ends the headers.
LEMMA LengthPassed ==
    ASSUME NEW a \in Seq(Request), NEW s, NEW q \in Nat, NEW over \in BOOLEAN, NEW c, c.close \in BOOLEAN,
           IsNext(a, q, c), ~c.cut, ~c.close, HasLength(a, q, c), Stream(a, s, q + 1, CloseAt(a[q + 1]))
    PROVE  AtHeaders(a, s, q, over, c)
  <1> DEFINE r == a[q + 1]
  <1>1. q + 1 \in 1..Len(a)
    BY DEF IsNext
  <1>2. CloseAt(r) \in Nat
    BY <1>1, RequestOnWire
  <1>3. r.ends # "header" => EmptyAt(r) = CloseAt(r)
    BY <1>2 DEF EmptyAt
  <1>4. CASE r.ends = "header"
    BY <1>4 DEF AtHeaders
  <1>5. CASE r.ends # "header"
    <2>1. Stream(a, s, q + 1, EmptyAt(r))
      BY <1>3, <1>5
    <2>2. HasClose(a, q, c)
      BY <1>5 DEF HasClose
    <2> QED BY <2>1, <2>2 DEF AtHeaders
  <1> QED BY <1>4, <1>5

-----------------------------------------------------------------------------
(* What the client does, seen from where the server stands                 *)

\* A request asked comes last in the stream: the server stands where it stood.
LEMMA StandsWhenMore ==
    ASSUME NEW where, NEW a \in Seq(Request), NEW r \in Request, NEW s \in Seq(Tokens), NEW q \in Nat, q <= Len(a), NEW c,
           Stands(where, a, s, q, FALSE, c)
    PROVE  Stands(where, Append(a, r), s \o OnWire(r, Len(a) + 1), q, FALSE, c)
  <1> DEFINE b == Append(a, r)
             w == OnWire(r, Len(a) + 1)
             t == s \o w
  <1>1. b \in Seq(Request) /\ Len(b) = Len(a) + 1 /\ Len(a) \in Nat /\ \A i \in 1..Len(a) : b[i] = a[i]
    OBVIOUS
  <1>2. w \in Seq(Tokens)
    BY <1>1, WireIs
  <1>3. t \in Seq(Tokens)
    BY <1>2
  <1>4. ASSUME NEW k \in 1..(Len(a) + 1), NEW p \in Nat \ {0}, Stream(a, s, k, p) PROVE Stream(b, t, k, p)
    <2> HIDE DEF t, w
    <2>1. w = OnWire(r, Len(a) + 1) /\ t = s \o w
      BY DEF t, w
    <2> QED BY <1>2, <1>3, <1>4, <2>1, OneMore
  <1>5. q + 1 \in 1..(Len(a) + 1) /\ 1 \in Nat \ {0} /\ 3 \in Nat \ {0}
    BY <1>1
  <1>6. NoneEnds(a, q) => NoneEnds(b, q)
    <2>1. \A i \in 1..q : i \in 1..Len(a)
      BY <1>1
    <2> QED BY <1>1, <2>1, Zenon DEF NoneEnds
  <1>7. q + 1 <= Len(a) => /\ b[q + 1] = a[q + 1] /\ q + 1 <= Len(b)
                           /\ q + 1 \in 1..Len(a) /\ q + 2 \in 1..(Len(a) + 1)
    BY <1>1
  <1> HIDE DEF b, t
  <1>8. IsNext(a, q, c) => q + 1 <= Len(a) /\ IsNext(b, q, c)
    BY <1>6, <1>7 DEF IsNext
  <1>9. q + 1 <= Len(a) => /\ LengthAt(a[q + 1]) \in Nat \ {0} /\ CloseAt(a[q + 1]) \in Nat \ {0}
                           /\ EmptyAt(a[q + 1]) \in Nat \ {0} /\ BodyAt(a[q + 1]) \in Nat \ {0}
    BY <1>7, RequestOnWire
  <1>10. ASSUME where = "line" PROVE AtLine(b, t, q, FALSE)
    <2>1. AtLine(a, s, q, FALSE)
      BY <1>10 DEF Stands
    <2> QED BY <1>4, <1>5, <1>6, <1>7, <2>1, Zenon DEF AtLine
  <1>11. ASSUME where = "headers" PROVE AtHeaders(b, t, q, FALSE, c)
    <2>1. AtHeaders(a, s, q, FALSE, c)
      BY <1>11 DEF Stands
    <2>2. IsNext(a, q, c) /\ ~c.cut
      BY <2>1 DEF AtHeaders, IsCut
    <2>3. q + 1 <= Len(a) /\ IsNext(b, q, c) /\ b[q + 1] = a[q + 1] /\ q + 1 \in 1..(Len(a) + 1)
      BY <1>5, <1>7, <1>8, <2>2
    <2>4. LET r0 == a[q + 1] IN
            \/ r0.body > 0 /\ c.length = 0 /\ ~c.close /\ Stream(a, s, q + 1, LengthAt(r0))
            \/ r0.ends = "header" /\ HasLength(a, q, c) /\ ~c.close /\ Stream(a, s, q + 1, CloseAt(r0))
            \/ HasLength(a, q, c) /\ HasClose(a, q, c) /\ Stream(a, s, q + 1, EmptyAt(r0))
      BY <2>1 DEF AtHeaders, IsCut
    <2>5. /\ HasLength(a, q, c) => HasLength(b, q, c)
          /\ HasClose(a, q, c) => HasClose(b, q, c)
      BY <2>3 DEF HasLength, HasClose
    <2> DEFINE r1 == a[q + 1]
    <2>6. /\ Stream(a, s, q + 1, LengthAt(r1)) => Stream(b, t, q + 1, LengthAt(r1))
          /\ Stream(a, s, q + 1, CloseAt(r1)) => Stream(b, t, q + 1, CloseAt(r1))
          /\ Stream(a, s, q + 1, EmptyAt(r1)) => Stream(b, t, q + 1, EmptyAt(r1))
      BY <1>4, <1>9, <2>3
    <2>7. LET r0 == b[q + 1] IN
            \/ r0.body > 0 /\ c.length = 0 /\ ~c.close /\ Stream(b, t, q + 1, LengthAt(r0))
            \/ r0.ends = "header" /\ HasLength(b, q, c) /\ ~c.close /\ Stream(b, t, q + 1, CloseAt(r0))
            \/ HasLength(b, q, c) /\ HasClose(b, q, c) /\ Stream(b, t, q + 1, EmptyAt(r0))
      BY <2>3, <2>4, <2>5, <2>6, Zenon
    <2> QED BY <2>2, <2>3, <2>7 DEF AtHeaders
  <1>12. WholeOrCut(a, q, FALSE, c) =>
            WholeOrCut(b, q, FALSE, c) /\ q + 1 <= Len(a) /\ ~c.cut
    BY <1>7, <1>8 DEF WholeOrCut, IsCut, HasLength, HasClose
  <1>13. ASSUME where = "body" PROVE AtBody(b, t, q, FALSE, c)
    <2>1. AtBody(a, s, q, FALSE, c)
      BY <1>13 DEF Stands
    <2>2. WholeOrCut(b, q, FALSE, c) /\ q + 1 <= Len(a) /\ Stream(a, s, q + 1, BodyAt(a[q + 1]))
      BY <1>12, <2>1 DEF AtBody
    <2>3. Stream(b, t, q + 1, BodyAt(a[q + 1])) /\ b[q + 1] = a[q + 1]
      BY <1>4, <1>5, <1>7, <1>9, <2>2
    <2> QED BY <2>2, <2>3 DEF AtBody
  <1>14. ASSUME where = "action" PROVE AtAction(b, t, q, FALSE, c)
    <2>1. AtAction(a, s, q, FALSE, c)
      BY <1>14 DEF Stands
    <2>2. WholeOrCut(b, q, FALSE, c) /\ q + 1 <= Len(a) /\ Stream(a, s, q + 2, 1)
      BY <1>12, <2>1 DEF AtAction
    <2>3. Stream(b, t, q + 2, 1)
      BY <1>4, <1>5, <1>7, <2>2
    <2> QED BY <2>2, <2>3 DEF AtAction
  <1> QED BY <1>10, <1>11, <1>13, <1>14 DEF Stands, b, t

\* A client that hangs up leaves the server where it stands.
LEMMA StandsWhenOver ==
    ASSUME NEW where, NEW a, NEW s, NEW q, NEW over \in BOOLEAN, NEW later \in BOOLEAN, over => later, NEW c,
           Stands(where, a, s, q, over, c)
    PROVE  Stands(where, a, s, q, later, c)
  <1>1. where = "line" => AtLine(a, s, q, later)
    BY DEF Stands, AtLine
  <1>2. where = "headers" => AtHeaders(a, s, q, later, c)
    BY DEF Stands, AtHeaders, IsCut
  <1>3. WholeOrCut(a, q, over, c) => WholeOrCut(a, q, later, c)
    BY DEF WholeOrCut, IsCut
  <1> QED BY <1>1, <1>2, <1>3 DEF Stands, AtBody, AtAction

-----------------------------------------------------------------------------
(* Steps of the server                                                     *)

\* The types of what is the server's own.
Locals ==
    /\ backlog \in Seq(Clients) /\ conn \in Clients \cup {Nobody}
    /\ at \in {"accept", "line", "headers", "body", "action"}
    /\ (at = "accept") = (conn = Nobody)
    /\ buf \in Seq(Tokens)
    /\ cur \in [k : Nat, length : Nat, close : BOOLEAN, cut : BOOLEAN]
    /\ status \in Statuses /\ headers \in Types \cup {"none"} /\ wish \in Wishes
    /\ last.end \in {"none", "lost", "value", "dict", "error"}
    /\ active = (at = "action")

\* The types that steps of the server have to keep.
LEMMA LocalsAre == IInv => Locals
  BY DEF IInv, TypeOK, Locals

\* A step that concerns the client that is served.
LEMMA ServerStepKeeps ==
    ASSUME IInv, conn \in Clients, UNCHANGED <<clientVars, backlog>>, conn' \in {conn, Nobody},
           net' \in [Clients -> Seq(Tokens)], replies' \in [Clients -> Seq(Reply)],
           \A c \in Clients : c # conn => net'[c] = net[c] /\ replies'[c] = replies[c],
           Len(replies'[conn]) <= Len(asked[conn]),
           Locals', WholeReplies', Reading', Own'
    PROVE  IInv'
  <1>0. asked' = asked /\ unsent' = unsent /\ gone' = gone /\ backlog' = backlog /\ form' = form
    BY DEF clientVars
  <1>1. Domains'
    BY <1>0 DEF IInv, Domains
  <1>2. TypeOK'
    <2>1. \A c \in Clients : /\ asked'[c] \in Seq(Requests[c]) /\ replies'[c] \in Seq(Reply)
                             /\ unsent'[c] \in Seq(Tokens) /\ net'[c] \in Seq(Tokens)
      BY <1>0 DEF IInv, TypeOK
    <2> QED BY <2>1 DEF Locals, TypeOK
  <1>3. Counts'
    <2>1. \A c \in Clients : Len(replies'[c]) <= Len(asked[c])
      BY DEF IInv, Counts
    <2> QED BY <1>0, <2>1 DEF Counts
  <1>4. LastUnsent'
    BY <1>0 DEF IInv, LastUnsent
  <1>5. Queue'
    <2>1. /\ \A i, j \in 1..Len(backlog) : backlog[i] = backlog[j] => i = j
          /\ \A i \in 1..Len(backlog) : asked[backlog[i]] # <<>> /\ backlog[i] # conn
          /\ asked[conn] # <<>>
      BY DEF IInv, Queue
    <2>2. \A i \in 1..Len(backlog) : backlog[i] # conn'
      <3>1. \A i \in 1..Len(backlog) : backlog[i] \in Clients
        BY DEF IInv, TypeOK
      <3> QED BY <2>1, <3>1, ServeAssumption
    <2>3. conn' \in Clients => asked[conn'] # <<>>
      BY <2>1, ServeAssumption
    <2> QED BY <1>0, <2>1, <2>2, <2>3 DEF Queue
  <1>6. Waiting'
    <2>1. ASSUME NEW c \in Clients, asked[c] = <<>> \/ Queued(c)
          PROVE  replies'[c] = <<>> /\ Stream(asked[c], net'[c] \o unsent[c], 1, 1)
      <3>1. c # conn
        BY <2>1 DEF IInv, Queue, Queued
      <3> QED BY <2>1, <3>1 DEF IInv, Waiting, Coming
    <2> QED BY <1>0, <2>1 DEF Waiting, Queued, Coming
  <1> QED BY <1>1, <1>2, <1>3, <1>4, <1>5, <1>6 DEF IInv

\* It reads from its buffer only.
LEMMA ReadingKeeps ==
    ASSUME IInv, conn \in Clients, UNCHANGED <<clientVars, backlog, net, replies, conn>>, Locals', Own',
           Stands(at', asked[conn], buf' \o Coming(conn), Len(replies[conn]),
                  gone[conn] /\ net[conn] = <<>> /\ buf' = <<>>, cur')
    PROVE  IInv'
  <1>0. asked' = asked /\ unsent' = unsent /\ gone' = gone /\ net' = net /\ replies' = replies /\ conn' = conn
    BY DEF clientVars
  <1>1. Reading'
    BY <1>0 DEF Reading, Unread, Coming, Over
  <1>2. WholeReplies'
    BY <1>0 DEF IInv, WholeReplies
  <1>3. net' \in [Clients -> Seq(Tokens)] /\ replies' \in [Clients -> Seq(Reply)]
    BY <1>0 DEF IInv, Domains
  <1>4. \A c \in Clients : c # conn => net'[c] = net[c] /\ replies'[c] = replies[c]
    BY <1>0
  <1>5. Len(replies'[conn]) <= Len(asked[conn])
    BY <1>0 DEF IInv, Counts
  <1> QED BY <1>0, <1>1, <1>2, <1>3, <1>4, <1>5, ServerStepKeeps

\* It closes the connection without a response.
LEMMA HangUpKeeps ==
    ASSUME IInv, conn \in Clients, HangUp, UNCHANGED <<clientVars, backlog, replies, globals>>, Silent, at # "action"
    PROVE  IInv'
  <1>0. /\ asked' = asked /\ unsent' = unsent /\ gone' = gone /\ replies' = replies /\ wish' = wish
        /\ status' = status /\ headers' = headers /\ active' = active /\ last' = NoReply
        /\ at' = "accept" /\ conn' = Nobody /\ buf' = <<>> /\ cur' = NoRequest
        /\ net' = [net EXCEPT ![conn] = <<>>] /\ backlog' = backlog
    BY DEF clientVars, globals, HangUp, Silent
  <1>1. Reading'
    BY <1>0, ServeAssumption DEF Reading
  <1>2. WholeReplies'
    BY <1>0 DEF IInv, WholeReplies
  <1>3. net' \in [Clients -> Seq(Tokens)] /\ replies' \in [Clients -> Seq(Reply)]
        /\ \A c \in Clients : c # conn => net'[c] = net[c] /\ replies'[c] = replies[c]
    BY <1>0 DEF IInv, Domains
  <1>4. Len(replies'[conn]) <= Len(asked[conn])
    BY <1>0 DEF IInv, Counts
  <1>5. Locals'
    <2>1. Locals
      BY LocalsAre
    <2>2. cur' \in [k : Nat, length : Nat, close : BOOLEAN, cut : BOOLEAN] /\ buf' \in Seq(Tokens)
      BY <1>0 DEF NoRequest
    <2>3. last'.end = "none"
      BY <1>0 DEF NoReply
    <2>4. active' = (at' = "action")
      BY <1>0, <2>1 DEF Locals
    <2> QED BY <1>0, <2>1, <2>2, <2>3, <2>4 DEF Locals
  <1>6. Own'
    BY <1>0 DEF IInv, Own
  <1> QED BY <1>0, <1>1, <1>2, <1>3, <1>4, <1>5, <1>6, ServerStepKeeps

\* Where the server reads there is a connection.
LEMMA ConnIs ==
    ASSUME IInv, at # "accept"
    PROVE  conn \in Clients
  BY DEF IInv, TypeOK

\* Within the reading of a request only these change.
LEMMA LocalsKeep ==
    ASSUME IInv, UNCHANGED <<backlog, conn, globals>>, Silent, at' \in {"line", "headers", "body"}, at # "action", at # "accept",
           buf' \in Seq(Tokens), cur' \in [k : Nat, length : Nat, close : BOOLEAN, cut : BOOLEAN]
    PROVE  Locals' /\ Own'
  <1>0. /\ wish' = wish /\ status' = status /\ headers' = headers /\ active' = active /\ last'.end = "none"
        /\ conn' = conn /\ backlog' = backlog
    BY DEF globals, Silent, NoReply
  <1>1. Locals
    BY LocalsAre
  <1>2. active' = (at' = "action")
    BY <1>0, <1>1 DEF Locals
  <1>3. Own'
    BY <1>0 DEF IInv, Own
  <1> QED BY <1>0, <1>1, <1>2, <1>3 DEF Locals

\* The request the server has got to.
LEMMA LineAhead ==
    ASSUME IInv, at = "line", HasLine
    PROVE  LET a == asked[conn]
               q == Len(replies[conn])
           IN  /\ conn \in Clients /\ NoneEnds(a, q) /\ q \in Nat /\ q + 1 \in 1..Len(a) /\ a \in Seq(Request)
               /\ \/ a[q + 1].blank /\ Stream(a, Unread(conn), q + 1, 1)
                  \/ Stream(a, Unread(conn), q + 1, LineAt(a[q + 1]))
  <1> DEFINE a == asked[conn]
             q == Len(replies[conn])
             s == Unread(conn)
  <1>1. conn \in Clients
    BY ConnIs
  <1>2. /\ a \in Seq(Request) /\ Len(a) \in Nat /\ q \in Nat /\ q <= Len(a) /\ s \in Seq(Tokens) /\ buf \in Seq(Tokens)
        /\ Coming(conn) \in Seq(Tokens)
        /\ Stands("line", a, s, q, Over(conn), cur)
    BY <1>1, ServedIs
  <1>3. buf # <<>>
    BY NoLineOver
  <1>4. s # <<>>
    <2>1. Len(s) = Len(buf) + Len(Coming(conn)) /\ Len(Coming(conn)) \in Nat
      BY <1>2, ConcatIs DEF Unread
    <2> HIDE DEF s
    <2>2. Len(buf) > 0
      BY <1>2, <1>3
    <2>3. Len(s) # 0
      BY <1>2, <2>1, <2>2
    <2> QED BY <2>3
  <1>5. /\ NoneEnds(a, q)
        /\ \/ Stream(a, s, q + 1, 1)
           \/ q + 1 <= Len(a) /\ a[q + 1].blank /\ Stream(a, s, q + 1, 3)
    BY <1>2, <1>3 DEF Stands, AtLine, Over
  <1> HIDE DEF a, q, s
  <1>6. q + 1 \in 1..Len(a)
    <2>1. CASE q = Len(a)
      <3>1. Stream(a, s, Len(a) + 1, 1)
        BY <1>2, <1>5, <2>1
      <3> QED BY <1>2, <1>4, <3>1, StreamEnds
    <2>2. CASE q # Len(a)
      BY <1>2, <2>2
    <2> QED BY <2>1, <2>2
  <1>7. \/ a[q + 1].blank /\ Stream(a, s, q + 1, 1)
        \/ Stream(a, s, q + 1, LineAt(a[q + 1]))
    BY <1>5 DEF LineAt
  <1> QED BY <1>1, <1>2, <1>5, <1>6, <1>7 DEF a, q, s

\* The empty line skipped is the one before the request.
LEMMA SkipEmptyLineKeeps ==
    ASSUME IInv, SkipEmptyLine
    PROVE  IInv'
  <1> DEFINE a == asked[conn]
             q == Len(replies[conn])
  <1>0. /\ at = "line" /\ HasLine /\ Text = <<>> /\ buf' = Rest
        /\ UNCHANGED <<clientVars, backlog, net, replies, at, conn, cur, globals>> /\ Silent
    BY DEF SkipEmptyLine
  <1>1. /\ conn \in Clients /\ NoneEnds(a, q) /\ q \in Nat /\ q + 1 \in 1..Len(a) /\ a \in Seq(Request)
        /\ \/ a[q + 1].blank /\ Stream(a, Unread(conn), q + 1, 1)
           \/ Stream(a, Unread(conn), q + 1, LineAt(a[q + 1]))
    BY <1>0, LineAhead
  <1>2. /\ LineAt(a[q + 1]) \in Nat \ {0} /\ 1 \in Nat \ {0} /\ q + 1 \in Nat
        /\ a[q + 1].blank => HasEmpty(W(a, q + 1), 1)
        /\ HasName(W(a, q + 1), LineAt(a[q + 1]), Tok("line", q + 1)) /\ Tok("line", q + 1) # CR
    <2> HIDE DEF a, q
    <2>1. Tok("line", q + 1) # CR /\ q + 1 \in Nat /\ 1 \in Nat \ {0}
      BY <1>1, NamesAre
    <2>2. /\ LineAt(a[q + 1]) \in Nat \ {0}
          /\ a[q + 1].blank => HasEmpty(W(a, q + 1), 1)
          /\ HasName(W(a, q + 1), LineAt(a[q + 1]), Tok("line", q + 1))
      BY <1>1, RequestOnWire
    <2> QED BY <2>1, <2>2
  <1>3. ~Stream(a, Unread(conn), q + 1, LineAt(a[q + 1]))
    <2>1. SUFFICES ASSUME Stream(a, Unread(conn), q + 1, LineAt(a[q + 1])) PROVE FALSE
      OBVIOUS
    <2>2. Text # <<>>
      BY <1>0, <1>1, <1>2, <2>1, NameTaken
    <2> QED BY <1>0, <2>2
  <1>4. a[q + 1].blank /\ Stream(a, Unread(conn), q + 1, 1)
    BY <1>1, <1>3
  <1>5. Rest \in Seq(Tokens) /\ Stream(a, Rest \o Coming(conn), q + 1, 1 + 2)
    BY <1>0, <1>1, <1>2, <1>4, EmptyTaken
  <1>6. Locals' /\ Own'
    <2>1. cur' \in [k : Nat, length : Nat, close : BOOLEAN, cut : BOOLEAN]
      BY <1>0 DEF IInv, TypeOK
    <2> QED BY <1>0, <1>5, <2>1, LocalsKeep
  <1> DEFINE over == gone[conn] /\ net[conn] = <<>> /\ buf' = <<>>
  <1>7. AtLine(a, buf' \o Coming(conn), q, over)
    <2>1. q + 1 <= Len(a) /\ 1 + 2 = 3
      BY <1>1
    <2> QED BY <1>0, <1>1, <1>4, <1>5, <2>1 DEF AtLine
  <1>8. Stands(at', a, buf' \o Coming(conn), q, over, cur')
    BY <1>0, <1>7 DEF Stands
  <1> QED BY <1>0, <1>1, <1>6, <1>8, ReadingKeeps

\* What the next request has on the wire, and the names of its lines.
LEMMA NextOnWire ==
    ASSUME NEW a \in Seq(Request), NEW q \in Nat, q + 1 \in 1..Len(a)
    PROVE  LET r == a[q + 1]
               w == W(a, q + 1)
           IN  /\ q + 1 \in Nat /\ 1 \in Nat \ {0} /\ Len(w) = BodyAt(r) - 1 + r.body /\ r.body \in Nat
               /\ LineAt(r) \in Nat \ {0} /\ LengthAt(r) \in Nat \ {0} /\ CloseAt(r) \in Nat \ {0}
               /\ EmptyAt(r) \in Nat \ {0} /\ BodyAt(r) \in Nat \ {0}
               /\ r.blank => HasEmpty(w, 1)
               /\ HasName(w, LineAt(r), Tok("line", q + 1))
               /\ r.body > 0 => HasName(w, LengthAt(r), Tok("length", q + 1))
               /\ r.ends = "header" => HasName(w, CloseAt(r), Tok("close", q + 1))
               /\ HasEmpty(w, EmptyAt(r))
               /\ \A t \in {"line", "length", "close"} :
                    Tok(t, q + 1) # CR /\ Tok(t, q + 1).t = t /\ Tok(t, q + 1).k = q + 1
               /\ CR.t = "CR"
  <1> DEFINE k == q + 1
  <1>1. k \in 1..Len(a) /\ k \in Nat /\ 1 \in Nat \ {0}
    OBVIOUS
  <1> HIDE DEF k
  <1>2. /\ \A t \in {"line", "length", "close"} : Tok(t, k) # CR /\ Tok(t, k).t = t /\ Tok(t, k).k = k
        /\ CR.t = "CR"
    BY <1>1, NamesAre
  <1>3. LET r == a[k]
            w == W(a, k)
        IN  /\ Len(w) = BodyAt(r) - 1 + r.body /\ r.body \in Nat
            /\ LineAt(r) \in Nat \ {0} /\ LengthAt(r) \in Nat \ {0} /\ CloseAt(r) \in Nat \ {0}
            /\ EmptyAt(r) \in Nat \ {0} /\ BodyAt(r) \in Nat \ {0}
            /\ r.blank => HasEmpty(w, 1)
            /\ HasName(w, LineAt(r), Tok("line", k))
            /\ r.body > 0 => HasName(w, LengthAt(r), Tok("length", k))
            /\ r.ends = "header" => HasName(w, CloseAt(r), Tok("close", k))
            /\ HasEmpty(w, EmptyAt(r))
    BY <1>1, RequestOnWire
  <1> QED BY <1>1, <1>2, <1>3, Zenon DEF k

\* The request that is begun has no headers yet.
LEMMA NewRequest ==
    ASSUME NEW n \in Nat, NEW c, c = [NoRequest EXCEPT !.k = n]
    PROVE  /\ c \in [k : Nat, length : Nat, close : BOOLEAN, cut : BOOLEAN]
           /\ c.k = n /\ c.length = 0 /\ c.close = FALSE /\ c.cut = FALSE
  BY DEF NoRequest

\* The line taken is that of the next request.
LEMMA RequestLineKeeps ==
    ASSUME IInv, RequestLine
    PROVE  IInv'
  <1> DEFINE a == asked[conn]
             q == Len(replies[conn])
             over == gone[conn] /\ net[conn] = <<>> /\ buf' = <<>>
             u == Coming(conn)
             Record == [k : Nat, length : Nat, close : BOOLEAN, cut : BOOLEAN]
             Goal == Rest \in Seq(Tokens) /\ cur' \in Record /\ AtHeaders(a, buf' \o u, q, over, cur')
  <1>0. /\ at = "line" /\ HasLine /\ Text # <<>> /\ buf' = Rest /\ at' = "headers"
        /\ cur' = [NoRequest EXCEPT !.k = IF Text[1].t = "line" THEN Text[1].k ELSE 0]
        /\ UNCHANGED <<clientVars, backlog, net, replies, conn, globals>> /\ Silent
    BY DEF RequestLine
  <1>1. /\ conn \in Clients /\ NoneEnds(a, q) /\ q \in Nat /\ q + 1 \in 1..Len(a) /\ a \in Seq(Request)
        /\ \/ a[q + 1].blank /\ Stream(a, Unread(conn), q + 1, 1)
           \/ Stream(a, Unread(conn), q + 1, LineAt(a[q + 1]))
    BY <1>0, LineAhead
  <1>2. /\ LineAt(a[q + 1]) \in Nat \ {0} /\ 1 \in Nat \ {0} /\ q + 1 \in Nat
        /\ a[q + 1].blank => HasEmpty(W(a, q + 1), 1)
        /\ HasName(W(a, q + 1), LineAt(a[q + 1]), Tok("line", q + 1))
        /\ Tok("line", q + 1) # CR /\ Tok("line", q + 1).t = "line" /\ Tok("line", q + 1).k = q + 1 /\ CR.t = "CR"
    <2> HIDE DEF a, q
    <2>1. /\ LineAt(a[q + 1]) \in Nat \ {0} /\ 1 \in Nat \ {0} /\ q + 1 \in Nat
          /\ a[q + 1].blank => HasEmpty(W(a, q + 1), 1)
          /\ HasName(W(a, q + 1), LineAt(a[q + 1]), Tok("line", q + 1))
          /\ \A t \in {"line", "length", "close"} :
                Tok(t, q + 1) # CR /\ Tok(t, q + 1).t = t /\ Tok(t, q + 1).k = q + 1
          /\ CR.t = "CR"
      BY <1>1, NextOnWire
    <2>2. "line" \in {"line", "length", "close"}
      OBVIOUS
    <2> QED BY <2>1, <2>2, Zenon
  <1>4. ASSUME Stream(a, Unread(conn), q + 1, LineAt(a[q + 1])) PROVE Goal
    <2>1. /\ Text[1] = Tok("line", q + 1) /\ Rest \in Seq(Tokens)
          /\ Stream(a, Rest \o u, q + 1, LineAt(a[q + 1]) + 3) \/ (Rest = <<>> /\ CutShort(q + 1))
      BY <1>0, <1>1, <1>2, <1>4, NameTaken
    <2>2. cur' = [NoRequest EXCEPT !.k = q + 1]
      BY <1>0, <1>2, <2>1
    <2>3. cur'.k = q + 1 /\ cur'.length = 0 /\ cur'.close = FALSE /\ cur'.cut = FALSE
      BY <1>2, <2>2, NewRequest
    <2>4. cur' \in Record
      BY <1>2, <2>2, NewRequest
    <2>5. IsNext(a, q, cur')
      BY <1>1, <2>3 DEF IsNext
    <2>6. AtHeaders(a, buf' \o u, q, over, cur')
      <3>1. CASE Stream(a, Rest \o u, q + 1, LineAt(a[q + 1]) + 3)
        <4>1. Stream(a, buf' \o u, q + 1, LengthAt(a[q + 1]))
          BY <1>0, <3>1 DEF LengthAt
        <4>2. over \in BOOLEAN
          BY <1>1 DEF IInv, Domains
        <4>3. cur'.close \in BOOLEAN /\ ~cur'.close /\ ~cur'.cut
          BY <2>3
        <4> DEFINE s == buf' \o u
        <4>4. Stream(a, s, q + 1, LengthAt(a[q + 1]))
          BY <4>1
        <4> HIDE DEF a, q, s, over
        <4>5. AtHeaders(a, s, q, over, cur')
          BY <1>1, <2>3, <2>5, <4>2, <4>3, <4>4, HeadersBegin
        <4> QED BY <4>5 DEF s
      <3>2. CASE Rest = <<>> /\ CutShort(q + 1)
        <4>1. IsCut(a, q, over, cur')
          BY <1>0, <2>5, <3>2 DEF IsCut, CutShort
        <4> QED BY <2>3, <4>1 DEF AtHeaders
      <3> QED BY <2>1, <3>1, <3>2
    <2> QED BY <2>1, <2>4, <2>6
  <1>5. ASSUME a[q + 1].blank, Stream(a, Unread(conn), q + 1, 1) PROVE Goal
    <2>1. Text[1] = CR /\ Rest = <<>> /\ CutShort(q + 1)
      BY <1>0, <1>1, <1>2, <1>5, EmptyTaken
    <2>2. cur' = [NoRequest EXCEPT !.k = 0]
      BY <1>0, <1>2, <2>1
    <2>3. cur' \in Record /\ cur'.k = 0 /\ ~cur'.cut
      BY <2>2, NewRequest
    <2>4. AtHeaders(a, buf' \o u, q, over, cur')
      BY <1>0, <2>1, <2>3 DEF AtHeaders, CutShort
    <2>5. Rest \in Seq(Tokens)
      BY <2>1
    <2> QED BY <2>3, <2>4, <2>5
  <1>6. Goal
    BY <1>1, <1>4, <1>5
  <1>7. Locals' /\ Own'
    BY <1>0, <1>6, LocalsKeep
  <1>8. Stands(at', a, buf' \o u, q, over, cur')
    BY <1>0, <1>6 DEF Stands
  <1> QED BY <1>0, <1>1, <1>7, <1>8, ReadingKeeps

\* The header the server has got to, or the line that ends the headers.
LEMMA HeaderAhead ==
    ASSUME IInv, at = "headers", buf # <<>>
    PROVE  LET a == asked[conn]
               q == Len(replies[conn])
               r == a[q + 1]
           IN  /\ conn \in Clients /\ q \in Nat /\ a \in Seq(Request) /\ q + 1 \in 1..Len(a)
               /\ IsNext(a, q, cur) /\ ~cur.cut
               /\ \/ r.body > 0 /\ cur.length = 0 /\ ~cur.close /\ Stream(a, Unread(conn), q + 1, LengthAt(r))
                  \/ /\ r.ends = "header" /\ HasLength(a, q, cur) /\ ~cur.close
                     /\ Stream(a, Unread(conn), q + 1, CloseAt(r))
                  \/ HasLength(a, q, cur) /\ HasClose(a, q, cur) /\ Stream(a, Unread(conn), q + 1, EmptyAt(r))
  <1> DEFINE a == asked[conn]
             q == Len(replies[conn])
  <1>1. conn \in Clients
    BY ConnIs
  <1>2. /\ a \in Seq(Request) /\ Len(a) \in Nat /\ q \in Nat /\ q <= Len(a)
        /\ Stands("headers", a, Unread(conn), q, Over(conn), cur)
    BY <1>1, ServedIs
  <1>3. ~Over(conn)
    BY DEF Over
  <1>4. AtHeaders(a, Unread(conn), q, Over(conn), cur)
    BY <1>2 DEF Stands
  <1>5. IsNext(a, q, cur) /\ ~cur.cut
    BY <1>3, <1>4 DEF AtHeaders, IsCut
  <1>6. q + 1 \in 1..Len(a)
    BY <1>2, <1>5 DEF IsNext
  <1> QED BY <1>1, <1>2, <1>3, <1>4, <1>5, <1>6 DEF AtHeaders, IsCut

\* What a header changes in the request that is read.
LEMMA HeaderChanges ==
    ASSUME NEW c, c \in [k : Nat, length : Nat, close : BOOLEAN, cut : BOOLEAN],
           NEW l \in Nat, NEW x \in BOOLEAN, NEW d, d = [c EXCEPT !.length = l, !.close = x]
    PROVE  /\ d \in [k : Nat, length : Nat, close : BOOLEAN, cut : BOOLEAN]
           /\ d.k = c.k /\ d.length = l /\ d.close = x /\ d.cut = c.cut
  OBVIOUS

\* The request goes on with d where it went on with c.
LEMMA SameRequest ==
    ASSUME NEW a, NEW q, NEW c, NEW d, IsNext(a, q, c), d.k = c.k
    PROVE  IsNext(a, q, d)
  BY DEF IsNext

\* The request is the last, and the stream ended in it.
LEMMA CutHere ==
    ASSUME NEW q, NEW c, conn \in Clients, IsNext(asked[conn], q, c), ~c.cut, CutShort(q + 1), NEW s, NEW b, b = <<>>
    PROVE  AtHeaders(asked[conn], s, q, gone[conn] /\ net[conn] = <<>> /\ b = <<>>, c)
  BY DEF AtHeaders, IsCut, CutShort

\* The header taken is the next of the request, or what is left of the stream.
LEMMA HeaderLineKeeps ==
    ASSUME IInv, HeaderLine
    PROVE  IInv'
  <1> DEFINE a == asked[conn]
             q == Len(replies[conn])
             r == a[q + 1]
             over == gone[conn] /\ net[conn] = <<>> /\ buf' = <<>>
             u == Coming(conn)
             s == buf' \o u
             Record == [k : Nat, length : Nat, close : BOOLEAN, cut : BOOLEAN]
             Goal == Rest \in Seq(Tokens) /\ cur' \in Record /\ AtHeaders(a, s, q, over, cur')
  <1>0. /\ at = "headers" /\ HasLine /\ Text # <<>> /\ buf' = Rest
        /\ cur' = [cur EXCEPT
              !.length = IF Text[1].t = "length" THEN asked[conn][Text[1].k].body ELSE cur.length,
              !.close = cur.close \/ Text[1].t = "close"]
        /\ UNCHANGED <<clientVars, backlog, net, replies, at, conn, globals>> /\ Silent
    BY DEF HeaderLine
  <1>1. buf # <<>> /\ cur \in Record
    BY <1>0, NoLineOver DEF IInv, TypeOK
  <1>2. /\ conn \in Clients /\ q \in Nat /\ a \in Seq(Request) /\ q + 1 \in 1..Len(a)
        /\ IsNext(a, q, cur) /\ ~cur.cut
        /\ \/ r.body > 0 /\ cur.length = 0 /\ ~cur.close /\ Stream(a, Unread(conn), q + 1, LengthAt(r))
           \/ /\ r.ends = "header" /\ HasLength(a, q, cur) /\ ~cur.close
              /\ Stream(a, Unread(conn), q + 1, CloseAt(r))
           \/ HasLength(a, q, cur) /\ HasClose(a, q, cur) /\ Stream(a, Unread(conn), q + 1, EmptyAt(r))
    BY <1>0, <1>1, HeaderAhead
  <1>3. /\ LengthAt(r) \in Nat \ {0} /\ CloseAt(r) \in Nat \ {0} /\ EmptyAt(r) \in Nat \ {0}
        /\ q + 1 \in Nat /\ r.body \in Nat
        /\ r.body > 0 => HasName(W(a, q + 1), LengthAt(r), Tok("length", q + 1))
        /\ r.ends = "header" => HasName(W(a, q + 1), CloseAt(r), Tok("close", q + 1))
        /\ HasEmpty(W(a, q + 1), EmptyAt(r))
        /\ \A t \in {"line", "length", "close"} :
              Tok(t, q + 1) # CR /\ Tok(t, q + 1).t = t /\ Tok(t, q + 1).k = q + 1
        /\ CR.t = "CR"
    <2> HIDE DEF a, q
    <2> QED BY <1>2, NextOnWire
  <1>4. over \in BOOLEAN
    BY <1>2 DEF IInv, Domains
  <1>5. ASSUME r.body > 0, cur.length = 0, ~cur.close, Stream(a, Unread(conn), q + 1, LengthAt(r))
        PROVE  Goal
    <2>1. Tok("length", q + 1) # CR /\ Tok("length", q + 1).t = "length" /\ Tok("length", q + 1).k = q + 1
      BY <1>3
    <2>2. /\ Text[1] = Tok("length", q + 1) /\ Rest \in Seq(Tokens)
          /\ Stream(a, Rest \o u, q + 1, LengthAt(r) + 3) \/ (Rest = <<>> /\ CutShort(q + 1))
      BY <1>0, <1>2, <1>3, <1>5, <2>1, NameTaken, SMTT(30)
    <2>3. cur' = [cur EXCEPT !.length = r.body, !.close = FALSE]
      <3>1. (cur.close \/ Text[1].t = "close") = FALSE
        BY <1>5, <2>1, <2>2
      <3>2. Text[1].t = "length" /\ asked[conn][Text[1].k].body = r.body
        BY <2>1, <2>2
      <3> HIDE DEF r
      <3> QED BY <1>0, <3>1, <3>2
    <2>4. cur' \in Record /\ cur'.k = cur.k /\ cur'.length = r.body /\ cur'.close = FALSE /\ cur'.cut = cur.cut
      <3>1. FALSE \in BOOLEAN
        OBVIOUS
      <3> HIDE DEF r
      <3> QED BY <1>1, <1>3, <2>3, <3>1, HeaderChanges
    <2>5. IsNext(a, q, cur') /\ HasLength(a, q, cur') /\ ~cur'.cut /\ ~cur'.close /\ cur'.close \in BOOLEAN
      BY <1>2, <2>4, SameRequest DEF HasLength
    <2>6. CASE Stream(a, Rest \o u, q + 1, LengthAt(r) + 3)
      <3>1. Stream(a, s, q + 1, CloseAt(r))
        BY <1>0, <1>5, <2>6 DEF CloseAt
      <3>2. Stream(a, s, q + 1, CloseAt(a[q + 1]))
        BY <3>1
      <3> HIDE DEF a, q, s, over
      <3>3. AtHeaders(a, s, q, over, cur')
        BY <1>2, <1>4, <2>5, <3>2, LengthPassed
      <3> QED BY <2>2, <2>4, <3>3
    <2>7. CASE Rest = <<>> /\ CutShort(q + 1)
      <3>1. AtHeaders(a, s, q, over, cur')
        BY <1>0, <1>2, <2>5, <2>7, CutHere
      <3> QED BY <2>2, <2>4, <3>1
    <2> QED BY <2>2, <2>6, <2>7
  <1>6. ASSUME r.ends = "header", HasLength(a, q, cur), ~cur.close, Stream(a, Unread(conn), q + 1, CloseAt(r))
        PROVE  Goal
    <2>1. Tok("close", q + 1) # CR /\ Tok("close", q + 1).t = "close" /\ Tok("close", q + 1).k = q + 1
      BY <1>3
    <2>2. /\ Text[1] = Tok("close", q + 1) /\ Rest \in Seq(Tokens)
          /\ Stream(a, Rest \o u, q + 1, CloseAt(r) + 3) \/ (Rest = <<>> /\ CutShort(q + 1))
      BY <1>0, <1>2, <1>3, <1>6, <2>1, NameTaken
    <2>3. cur' = [cur EXCEPT !.length = cur.length, !.close = TRUE]
      <3>1. (cur.close \/ Text[1].t = "close") = TRUE
        BY <2>1, <2>2
      <3>2. Text[1].t # "length"
        BY <2>1, <2>2
      <3> QED BY <1>0, <3>1, <3>2
    <2>4. /\ cur' \in Record /\ cur'.k = cur.k /\ cur'.length = cur.length /\ cur'.close = TRUE
          /\ cur'.cut = cur.cut
      <3>1. TRUE \in BOOLEAN /\ cur.length \in Nat
        BY <1>1
      <3> QED BY <1>1, <2>3, <3>1, HeaderChanges
    <2>5. IsNext(a, q, cur') /\ HasLength(a, q, cur') /\ HasClose(a, q, cur') /\ ~cur'.cut
      BY <1>2, <1>6, <2>4, SameRequest DEF HasLength, HasClose
    <2>6. CASE Stream(a, Rest \o u, q + 1, CloseAt(r) + 3)
      <3>1. Stream(a, s, q + 1, EmptyAt(r))
        BY <1>0, <1>6, <2>6 DEF EmptyAt
      <3>2. AtHeaders(a, s, q, over, cur')
        BY <2>5, <3>1 DEF AtHeaders
      <3> QED BY <2>2, <2>4, <3>2
    <2>7. CASE Rest = <<>> /\ CutShort(q + 1)
      <3>1. AtHeaders(a, s, q, over, cur')
        BY <1>0, <1>2, <2>5, <2>7, CutHere
      <3> QED BY <2>2, <2>4, <3>1
    <2> QED BY <2>2, <2>6, <2>7
  <1>7. ASSUME HasLength(a, q, cur), HasClose(a, q, cur), Stream(a, Unread(conn), q + 1, EmptyAt(r))
        PROVE  Goal
    <2>1. Text[1] = CR /\ Rest = <<>> /\ CutShort(q + 1)
      BY <1>0, <1>2, <1>3, <1>7, EmptyTaken
    <2>2. cur' = [cur EXCEPT !.length = cur.length, !.close = cur.close]
      <3>1. (cur.close \/ Text[1].t = "close") = cur.close
        BY <1>1, <1>3, <2>1
      <3>2. Text[1].t # "length"
        BY <1>3, <2>1
      <3> QED BY <1>0, <3>1, <3>2
    <2>3. cur' \in Record /\ cur'.k = cur.k /\ cur'.cut = cur.cut
      <3>1. cur.close \in BOOLEAN /\ cur.length \in Nat
        BY <1>1
      <3> QED BY <1>1, <2>2, <3>1, HeaderChanges
    <2>4. IsNext(a, q, cur') /\ ~cur'.cut
      BY <1>2, <2>3, SameRequest
    <2>5. AtHeaders(a, s, q, over, cur')
      BY <1>0, <1>2, <2>1, <2>4, CutHere
    <2>6. Rest \in Seq(Tokens)
      BY <2>1
    <2> QED BY <2>3, <2>5, <2>6
  <1>8. Goal
    BY <1>2, <1>5, <1>6, <1>7
  <1>9. Locals' /\ Own'
    BY <1>0, <1>8, LocalsKeep
  <1>10. Stands(at', a, buf' \o u, q, over, cur')
    BY <1>0, <1>8 DEF Stands
  <1> QED BY <1>0, <1>2, <1>9, <1>10, ReadingKeeps

-----------------------------------------------------------------------------
\* At the empty line, or at the end of the stream, the headers are known.
LEMMA HeadersEndKeeps ==
    ASSUME IInv, HeadersEnd
    PROVE  IInv'
  <1> DEFINE a == asked[conn]
             q == Len(replies[conn])
             r == a[q + 1]
             over == gone[conn] /\ net[conn] = <<>> /\ buf' = <<>>
             u == Coming(conn)
             s == buf' \o u
             Record == [k : Nat, length : Nat, close : BOOLEAN, cut : BOOLEAN]
             Goal == buf' \in Seq(Tokens) /\ cur' \in Record /\ AtBody(a, s, q, over, cur')
  <1>0. /\ at = "headers" /\ at' = "body"
        /\ \/ HasLine /\ Text = <<>> /\ buf' = Rest /\ UNCHANGED cur
           \/ NoLine /\ cur.k # 0 /\ cur' = [cur EXCEPT !.cut = TRUE] /\ UNCHANGED buf
        /\ UNCHANGED <<clientVars, backlog, net, replies, conn, globals>> /\ Silent
    BY DEF HeadersEnd
  <1>1. cur \in Record /\ conn \in Clients /\ buf \in Seq(Tokens)
    BY <1>0, ConnIs DEF IInv, TypeOK
  <1>2. ASSUME HasLine, Text = <<>>, buf' = Rest, UNCHANGED cur PROVE Goal
    <2>1. buf # <<>>
      BY <1>2, NoLineOver
    <2>2. /\ q \in Nat /\ a \in Seq(Request) /\ q + 1 \in 1..Len(a)
          /\ IsNext(a, q, cur) /\ ~cur.cut
          /\ \/ r.body > 0 /\ cur.length = 0 /\ ~cur.close /\ Stream(a, Unread(conn), q + 1, LengthAt(r))
             \/ /\ r.ends = "header" /\ HasLength(a, q, cur) /\ ~cur.close
                /\ Stream(a, Unread(conn), q + 1, CloseAt(r))
             \/ HasLength(a, q, cur) /\ HasClose(a, q, cur) /\ Stream(a, Unread(conn), q + 1, EmptyAt(r))
      BY <1>0, <2>1, HeaderAhead
    <2>3. /\ LengthAt(r) \in Nat \ {0} /\ CloseAt(r) \in Nat \ {0} /\ EmptyAt(r) \in Nat \ {0}
          /\ r.body > 0 => HasName(W(a, q + 1), LengthAt(r), Tok("length", q + 1))
          /\ r.ends = "header" => HasName(W(a, q + 1), CloseAt(r), Tok("close", q + 1))
          /\ HasEmpty(W(a, q + 1), EmptyAt(r))
          /\ \A t \in {"line", "length", "close"} :
                Tok(t, q + 1) # CR /\ Tok(t, q + 1).t = t /\ Tok(t, q + 1).k = q + 1
      <3> HIDE DEF a, q
      <3> QED BY <2>2, NextOnWire
    <2>4. ~(r.body > 0 /\ Stream(a, Unread(conn), q + 1, LengthAt(r)))
      <3>1. SUFFICES ASSUME r.body > 0, Stream(a, Unread(conn), q + 1, LengthAt(r)) PROVE FALSE
        OBVIOUS
      <3>2. Tok("length", q + 1) # CR /\ HasName(W(a, q + 1), LengthAt(r), Tok("length", q + 1))
        BY <2>3, <3>1
      <3>3. Text # <<>>
        BY <1>1, <1>2, <2>2, <2>3, <3>1, <3>2, NameTaken
      <3> QED BY <1>2, <3>3
    <2>5. ~(r.ends = "header" /\ Stream(a, Unread(conn), q + 1, CloseAt(r)))
      <3>1. SUFFICES ASSUME r.ends = "header", Stream(a, Unread(conn), q + 1, CloseAt(r)) PROVE FALSE
        OBVIOUS
      <3>2. Tok("close", q + 1) # CR /\ HasName(W(a, q + 1), CloseAt(r), Tok("close", q + 1))
        BY <2>3, <3>1
      <3>3. Text # <<>>
        BY <1>1, <1>2, <2>2, <2>3, <3>1, <3>2, NameTaken
      <3> QED BY <1>2, <3>3
    <2>6. HasLength(a, q, cur) /\ HasClose(a, q, cur) /\ Stream(a, Unread(conn), q + 1, EmptyAt(r))
      BY <2>2, <2>4, <2>5
    <2>7. Rest \in Seq(Tokens) /\ Stream(a, Rest \o u, q + 1, EmptyAt(r) + 2)
      BY <1>1, <1>2, <2>2, <2>3, <2>6, EmptyTaken
    <2>8. Stream(a, s, q + 1, BodyAt(r))
      BY <1>2, <2>7 DEF BodyAt
    <2>9. WholeOrCut(a, q, over, cur)
      BY <2>2, <2>6 DEF WholeOrCut
    <2> QED BY <1>1, <1>2, <2>7, <2>8, <2>9 DEF AtBody
  <1>3. ASSUME NoLine, cur.k # 0, cur' = [cur EXCEPT !.cut = TRUE], UNCHANGED buf PROVE Goal
    <2>1. cur' \in Record /\ cur'.cut /\ cur'.k = cur.k
      BY <1>1, <1>3
    <2>2. Eof /\ buf = <<>> /\ gone[conn] /\ net[conn] = <<>>
      BY <1>3 DEF NoLine, Eof
    <2>3. /\ a \in Seq(Request) /\ Len(a) \in Nat /\ q \in Nat
          /\ Stands("headers", a, Unread(conn), q, Over(conn), cur)
      BY <1>0, <1>1, ServedIs
    <2>4. AtHeaders(a, Unread(conn), q, Over(conn), cur)
      BY <2>3 DEF Stands
    <2>5. IsNext(a, q, cur)
      BY <1>3, <2>4 DEF AtHeaders, IsCut
    <2>6. q + 1 \in 1..Len(a)
      BY <2>3, <2>5 DEF IsNext
    <2>7. q + 1 = Len(a)
      <3>1. CASE IsCut(a, q, Over(conn), cur)
        BY <3>1 DEF IsCut
      <3>2. ASSUME NEW p \in {LengthAt(r), CloseAt(r), EmptyAt(r)}, Stream(a, Unread(conn), q + 1, p)
            PROVE  q + 1 = Len(a)
        <4>1. p \in Nat \ {0} /\ p <= EmptyAt(r) /\ Len(W(a, q + 1)) = EmptyAt(r) + 2 - 1 + r.body /\ r.body \in Nat
              /\ EmptyAt(r) \in Nat
          <5>1. /\ LengthAt(r) \in Nat \ {0} /\ CloseAt(r) \in Nat \ {0} /\ EmptyAt(r) \in Nat \ {0}
                /\ Len(W(a, q + 1)) = BodyAt(r) - 1 + r.body /\ r.body \in Nat
            <6> HIDE DEF a, q
            <6> QED BY <2>3, <2>6, NextOnWire
          <5>2. LengthAt(r) <= CloseAt(r) /\ CloseAt(r) <= EmptyAt(r)
            BY <5>1 DEF CloseAt, EmptyAt
          <5> QED BY <3>2, <5>1, <5>2 DEF BodyAt
        <4>2. Len(buf) < Len(W(a, q + 1)) - p + 1
          BY <2>2, <4>1
        <4>3. CutShort(q + 1)
          BY <1>1, <2>2, <2>6, <3>2, <4>1, <4>2, CutWithin
        <4> QED BY <4>3 DEF CutShort
      <3> QED BY <1>3, <2>4, <3>1, <3>2 DEF AtHeaders
    <2>8. WholeOrCut(a, q, over, cur')
      BY <1>3, <2>1, <2>2, <2>5, <2>7, SameRequest DEF WholeOrCut, IsCut
    <2> QED BY <1>1, <1>3, <2>1, <2>8 DEF AtBody
  <1>4. Goal
    BY <1>0, <1>2, <1>3
  <1>5. Locals' /\ Own'
    BY <1>0, <1>4, LocalsKeep
  <1>6. Stands(at', a, buf' \o u, q, over, cur')
    BY <1>0, <1>4 DEF Stands
  <1> QED BY <1>0, <1>1, <1>5, <1>6, ReadingKeeps

\* The stream has ended where no response is due.
LEMMA HangingUpKeeps ==
    ASSUME IInv, NoRequestLine \/ HeadersMissing \/ BodyMissing
    PROVE  IInv'
  <1>1. HangUp /\ UNCHANGED <<clientVars, backlog, replies, globals>> /\ Silent
    BY DEF NoRequestLine, HeadersMissing, BodyMissing
  <1>2. at # "action" /\ at # "accept"
    BY DEF NoRequestLine, HeadersMissing, BodyMissing
  <1>3. conn \in Clients
    BY <1>2, ConnIs
  <1> QED BY <1>1, <1>2, <1>3, HangUpKeeps

-----------------------------------------------------------------------------
\* The body is as long as the headers said, and the next request comes behind it.
LEMMA BodyKeeps ==
    ASSUME IInv, Body
    PROVE  IInv'
  <1> DEFINE a == asked[conn]
             q == Len(replies[conn])
             r == a[q + 1]
             over == gone[conn] /\ net[conn] = <<>> /\ buf' = <<>>
             u == Coming(conn)
             s == Unread(conn)
             m == cur.length
             Record == [k : Nat, length : Nat, close : BOOLEAN, cut : BOOLEAN]
  <1>0. /\ at = "body" /\ Len(buf) >= m /\ buf' = SubSeq(buf, m + 1, Len(buf)) /\ at' = "action"
        /\ active' = TRUE /\ status' = 0 /\ headers' = "none" /\ last' = NoReply /\ wish' = wish
        /\ UNCHANGED <<clientVars, backlog, net, replies, conn, cur>>
    BY DEF Body, Starts, Silent
  <1>1. cur \in Record /\ conn \in Clients /\ buf \in Seq(Tokens) /\ m \in Nat
    BY <1>0, ConnIs DEF IInv, TypeOK
  <1>2. /\ a \in Seq(Request) /\ Len(a) \in Nat /\ q \in Nat /\ u \in Seq(Tokens) /\ s \in Seq(Tokens)
        /\ Stands("body", a, s, q, Over(conn), cur)
    BY <1>0, <1>1, ServedIs
  <1>3. WholeOrCut(a, q, Over(conn), cur) /\ (~cur.cut => Stream(a, s, q + 1, BodyAt(r)))
    BY <1>2 DEF Stands, AtBody
  <1>4. m \in 0..Len(buf)
    BY <1>0, <1>1
  <1>5. buf' \in Seq(Tokens) /\ Len(buf') = Len(buf) - m
    BY <1>0, <1>1, <1>4, RestIs
  <1>6. WholeOrCut(a, q, over, cur)
    <2>1. CASE IsCut(a, q, Over(conn), cur) /\ cur.cut
      <3>1. buf = <<>> /\ gone[conn] /\ net[conn] = <<>>
        BY <2>1 DEF IsCut, Over
      <3>2. Len(buf') = 0
        BY <1>1, <1>4, <1>5, <3>1
      <3>3. buf' = <<>>
        BY <1>5, <3>2
      <3> QED BY <2>1, <3>1, <3>3 DEF WholeOrCut, IsCut
    <2>2. CASE IsNext(a, q, cur) /\ ~cur.cut /\ HasLength(a, q, cur) /\ HasClose(a, q, cur)
      BY <2>2 DEF WholeOrCut
    <2> QED BY <1>3, <2>1, <2>2 DEF WholeOrCut
  <1>7. ASSUME ~cur.cut PROVE Stream(a, buf' \o u, q + 2, 1)
    <2>1. IsNext(a, q, cur) /\ HasLength(a, q, cur) /\ Stream(a, s, q + 1, BodyAt(r))
      BY <1>3, <1>7 DEF WholeOrCut
    <2>2. q + 1 \in 1..Len(a) /\ q + 1 \in 1..(Len(a) + 1) /\ m = r.body
      BY <1>2, <2>1 DEF IsNext, HasLength
    <2>3. BodyAt(r) \in Nat \ {0} /\ Len(W(a, q + 1)) = BodyAt(r) - 1 + r.body
      <3> HIDE DEF a, q
      <3> QED BY <1>2, <2>2, NextOnWire
    <2>4. Len(s) = Len(buf) + Len(u) /\ Len(u) \in Nat /\ Len(buf) \in Nat
      BY <1>1, <1>2, ConcatIs DEF Unread
    <2>5. m \in 0..Len(s)
      <3> HIDE DEF s, u, m
      <3> QED BY <1>4, <2>4
    <2>6. buf' \o u = SubSeq(s, m + 1, Len(s))
      BY <1>0, <1>1, <1>2, <1>4, FrontRead DEF Unread
    <2> HIDE DEF a, q, s, u, m
    <2>7. Stream(a, SubSeq(s, m + 1, Len(s)), q + 1, BodyAt(r) + m)
      BY <1>2, <2>1, <2>2, <2>3, <2>5, Read
    <2>8. BodyAt(r) + m = Len(W(a, q + 1)) + 1
      BY <1>1, <2>2, <2>3 DEF m
    <2>9. Stream(a, buf' \o u, q + 1, Len(W(a, q + 1)) + 1)
      BY <2>6, <2>7, <2>8
    <2>10. buf' \o u \in Seq(Tokens)
      BY <1>2, <1>5, ConcatIs
    <2>11. Stream(a, buf' \o u, (q + 1) + 1, 1)
      BY <1>2, <2>2, <2>9, <2>10, Through
    <2>12. (q + 1) + 1 = q + 2
      BY <1>2
    <2> QED BY <2>11, <2>12
  <1>8. Stands(at', a, buf' \o u, q, over, cur')
    BY <1>0, <1>6, <1>7 DEF Stands, AtAction
  <1>9. Locals'
    <2>1. Locals
      BY LocalsAre
    <2>2. status' \in Statuses /\ headers' \in Types \cup {"none"} /\ last'.end = "none"
      BY <1>0 DEF Statuses, NoReply
    <2> QED BY <1>0, <1>5, <2>1, <2>2 DEF Locals
  <1>10. Own'
    <2>1. wish' = NoWish
      BY <1>0 DEF IInv, Own
    <2> QED BY <1>0, <2>1 DEF Own, NoWish
  <1> QED BY <1>0, <1>1, <1>8, <1>9, <1>10, ReadingKeeps

-----------------------------------------------------------------------------
\* What is received moves from the network to the buffer.
LEMMA FillKeeps ==
    ASSUME IInv, Fill
    PROVE  IInv'
  <1> DEFINE a == asked[conn]
             q == Len(replies[conn])
  <1>0. /\ at \in {"line", "headers", "body"} /\ net[conn] # <<>>
        /\ buf' = buf \o net[conn] /\ net' = [net EXCEPT ![conn] = <<>>]
        /\ UNCHANGED <<clientVars, backlog, replies, at, conn, cur, globals>> /\ Silent
    BY DEF Fill, Wants
  <1>1. conn \in Clients
    BY <1>0, ConnIs
  <1>2. asked' = asked /\ unsent' = unsent /\ gone' = gone /\ replies' = replies /\ conn' = conn /\ at' = at /\ cur' = cur
    BY <1>0 DEF clientVars
  <1>3. net \in [Clients -> Seq(Tokens)] /\ replies \in [Clients -> Seq(Reply)] /\ gone \in [Clients -> BOOLEAN]
    BY DEF IInv, Domains
  <1>4. /\ net'[conn] = <<>> /\ net' \in [Clients -> Seq(Tokens)]
        /\ \A c \in Clients : c # conn => net'[c] = net[c]
    BY <1>0, <1>1, <1>3
  <1>5. /\ buf \in Seq(Tokens) /\ net[conn] \in Seq(Tokens) /\ unsent[conn] \in Seq(Tokens)
        /\ Stands(at, a, Unread(conn), q, Over(conn), cur)
    BY <1>1, ServedIs
  <1>6. buf' \in Seq(Tokens)
    BY <1>0, <1>5, ConcatIs
  <1>7. Unread(conn)' = Unread(conn)
    <2>1. (buf \o net[conn]) \o unsent[conn] = buf \o (net[conn] \o unsent[conn])
      BY <1>5, Regroup
    <2>2. net'[conn] \o unsent[conn] = unsent[conn]
      BY <1>4, <1>5
    <2> QED BY <1>0, <1>2, <2>1, <2>2 DEF Unread, Coming
  <1>8. Over(conn) = FALSE
    BY <1>0 DEF Over
  <1>9. Over(conn)' \in BOOLEAN
    BY <1>2, <1>3, <1>1 DEF Over
  <1> DEFINE later == Over(conn)'
  <1>10. Stands(at, a, Unread(conn), q, later, cur)
    <2>1. later \in BOOLEAN /\ FALSE \in BOOLEAN /\ (FALSE => later)
      BY <1>9
    <2>2. Stands(at, a, Unread(conn), q, FALSE, cur)
      BY <1>5, <1>8
    <2> HIDE DEF later, a, q
    <2> QED BY <2>1, <2>2, StandsWhenOver
  <1>11. Reading'
    BY <1>2, <1>7, <1>10 DEF Reading
  <1>12. Locals' /\ Own'
    <2>1. cur' \in [k : Nat, length : Nat, close : BOOLEAN, cut : BOOLEAN]
      BY <1>2 DEF IInv, TypeOK
    <2> QED BY <1>0, <1>2, <1>6, <2>1, LocalsKeep
  <1>13. WholeReplies'
    BY <1>2 DEF IInv, WholeReplies
  <1>14. Len(replies'[conn]) <= Len(asked[conn])
    BY <1>1, <1>2 DEF IInv, Counts
  <1> QED BY <1>0, <1>1, <1>2, <1>3, <1>4, <1>11, <1>12, <1>13, <1>14, ServerStepKeeps

-----------------------------------------------------------------------------
(* The action and the response                                             *)

\* The request that is answered.
LEMMA ActionIs ==
    ASSUME IInv, at = "action"
    PROVE  LET a == asked[conn]
               q == Len(replies[conn])
           IN  /\ conn \in Clients /\ a \in Seq(Request) /\ q \in Nat /\ q + 1 \in 1..Len(a) /\ Len(a) \in Nat
               /\ NoneEnds(a, q) /\ cur.k = q + 1 /\ cur.k # 0 /\ Asked = a[q + 1] /\ Asked \in Request
               /\ cur \in [k : Nat, length : Nat, close : BOOLEAN, cut : BOOLEAN]
               /\ cur.cut => gone[conn] /\ Over(conn) /\ q + 1 = Len(a)
               /\ ~cur.cut => /\ cur.length = a[q + 1].body /\ cur.close = (a[q + 1].ends = "header")
                              /\ Stream(a, Unread(conn), q + 2, 1)
  <1> DEFINE a == asked[conn]
             q == Len(replies[conn])
  <1>1. conn \in Clients /\ cur \in [k : Nat, length : Nat, close : BOOLEAN, cut : BOOLEAN]
    BY ConnIs DEF IInv, TypeOK
  <1>2. /\ a \in Seq(Request) /\ Len(a) \in Nat /\ q \in Nat
        /\ Stands("action", a, Unread(conn), q, Over(conn), cur)
    BY <1>1, ServedIs
  <1>3. WholeOrCut(a, q, Over(conn), cur) /\ (~cur.cut => Stream(a, Unread(conn), q + 2, 1))
    BY <1>2 DEF Stands, AtAction
  <1>4. IsNext(a, q, cur)
    BY <1>3 DEF WholeOrCut, IsCut
  <1>5. /\ q + 1 \in 1..Len(a) /\ NoneEnds(a, q) /\ cur.k = q + 1 /\ cur.k # 0
    BY <1>2, <1>4 DEF IsNext
  <1>6. Asked = a[q + 1] /\ Asked \in Request
    BY <1>2, <1>5 DEF Asked
  <1>7. cur.cut => gone[conn] /\ Over(conn) /\ q + 1 = Len(a)
    BY <1>3 DEF WholeOrCut, IsCut, Over
  <1>8. ~cur.cut => cur.length = a[q + 1].body /\ cur.close = (a[q + 1].ends = "header")
    BY <1>3 DEF WholeOrCut, HasLength, HasClose
  <1> QED BY <1>1, <1>2, <1>3, <1>5, <1>6, <1>7, <1>8

\* One response behind the others.
LEMMA Responded ==
    ASSUME NEW f \in [Clients -> Seq(Reply)], NEW c \in Clients, NEW r \in Reply,
           NEW g, g = [f EXCEPT ![c] = Append(@, r)]
    PROVE  /\ g \in [Clients -> Seq(Reply)] /\ \A d \in Clients : d # c => g[d] = f[d]
           /\ g[c] = Append(f[c], r) /\ Len(g[c]) = Len(f[c]) + 1 /\ g[c][Len(f[c]) + 1] = r
           /\ \A i \in 1..Len(f[c]) : g[c][i] = f[c][i]
  <1> HIDE DEF Reply
  <1>1. f[c] \in Seq(Reply) /\ Append(f[c], r) \in Seq(Reply)
    OBVIOUS
  <1>2. g[c] = Append(f[c], r) /\ g \in [Clients -> Seq(Reply)]
    BY <1>1
  <1> QED BY <1>1, <1>2

\* A response is to the request that was read, and the server goes on behind it.
LEMMA RespondKeeps ==
    ASSUME IInv, at = "action", NEW s, NEW type, NEW end \in {"lost", "value", "dict", "error"}, Respond(s, type, end)
    PROVE  IInv'
  <1> DEFINE a == asked[conn]
             q == Len(replies[conn])
             over == Over(conn)
             r == [k |-> cur.k, read |-> cur.length, cut |-> cur.cut]
             Record == [k : Nat, length : Nat, close : BOOLEAN, cut : BOOLEAN]
  <1>0. /\ replies' = [replies EXCEPT ![conn] = Append(@, r)]
        /\ last' = [status |-> s, type |-> Type(type), end |-> end]
        /\ active' = FALSE /\ UNCHANGED <<status, headers>> /\ wish' = NoWish
        /\ IF Ends THEN HangUp ELSE at' = "line" /\ cur' = NoRequest /\ UNCHANGED <<conn, buf, net>>
        /\ asked' = asked /\ unsent' = unsent /\ gone' = gone /\ form' = form /\ backlog' = backlog
    BY DEF Respond, clientVars
  <1>1. /\ conn \in Clients /\ a \in Seq(Request) /\ q \in Nat /\ q + 1 \in 1..Len(a) /\ Len(a) \in Nat
        /\ NoneEnds(a, q) /\ cur.k = q + 1 /\ cur.k # 0 /\ Asked = a[q + 1] /\ Asked \in Request
        /\ cur \in Record
        /\ cur.cut => gone[conn] /\ Over(conn) /\ q + 1 = Len(a)
        /\ ~cur.cut => /\ cur.length = a[q + 1].body /\ cur.close = (a[q + 1].ends = "header")
                       /\ Stream(a, Unread(conn), q + 2, 1)
    BY ActionIs
  <1>2. r \in Reply /\ r.k = q + 1 /\ r.read = cur.length /\ r.cut = cur.cut
    BY <1>1 DEF Reply
  <1>3. replies \in [Clients -> Seq(Reply)] /\ net \in [Clients -> Seq(Tokens)]
    BY DEF IInv, Domains
  <1>4. /\ replies' \in [Clients -> Seq(Reply)] /\ \A d \in Clients : d # conn => replies'[d] = replies[d]
        /\ Len(replies'[conn]) = q + 1 /\ replies'[conn][q + 1] = r
        /\ \A i \in 1..q : replies'[conn][i] = replies[conn][i]
    <2>1. replies' = [replies EXCEPT ![conn] = Append(@, r)]
      BY <1>0
    <2> HIDE DEF r
    <2> QED BY <1>1, <1>2, <1>3, <2>1, Responded
  <1> HIDE DEF r
  <1>5. /\ Len(replies'[conn]) <= Len(asked[conn])
        /\ Len(replies[conn]) \in Nat
    BY <1>1, <1>4
  <1>6. WholeReplies'
    <2>1. ASSUME NEW c \in Clients, NEW i \in 1..Len(replies'[c])
          PROVE  /\ replies'[c][i].k = i
                 /\ ~replies'[c][i].cut => replies'[c][i].read = asked[c][i].body
                 /\ replies'[c][i].cut => gone[c] /\ i = Len(asked[c])
      <3>1. CASE c # conn
        BY <1>4, <3>1 DEF IInv, WholeReplies
      <3>2. CASE c = conn /\ i = q + 1
        BY <1>1, <1>2, <1>4, <3>2
      <3>3. CASE c = conn /\ i # q + 1
        <4>1. i \in 1..Len(replies[conn]) /\ replies'[conn][i] = replies[conn][i]
          BY <1>1, <1>4, <3>3
        <4> QED BY <3>3, <4>1 DEF IInv, WholeReplies
      <3> QED BY <3>1, <3>2, <3>3
    <2> QED BY <1>0, <2>1 DEF WholeReplies
  <1>7. NoRequest \in Record
    BY DEF NoRequest
  <1>8. CASE Ends
    <2>0. at' = "accept" /\ conn' = Nobody /\ buf' = <<>> /\ cur' = NoRequest /\ net' = [net EXCEPT ![conn] = <<>>]
      BY <1>0, <1>8 DEF HangUp
    <2>1. Reading'
      BY <2>0, ServeAssumption DEF Reading
    <2>2. net' \in [Clients -> Seq(Tokens)] /\ \A c \in Clients : c # conn => net'[c] = net[c]
      <3>1. <<>> \in Seq(Tokens)
        OBVIOUS
      <3> HIDE DEF Tokens
      <3> QED BY <1>3, <2>0, <3>1
    <2>3. Locals'
      <3>1. Locals
        BY LocalsAre
      <3>2. buf' \in Seq(Tokens) /\ wish' \in Wishes /\ last'.end = end
        BY <1>0, <2>0 DEF Wishes, NoWish, Statuses
      <3>3. active' = (at' = "action")
        BY <1>0, <2>0
      <3> QED BY <1>0, <1>7, <2>0, <3>1, <3>2, <3>3 DEF Locals
    <2>4. Own'
      BY <1>0, <2>0 DEF Own, Matched
    <2> QED BY <1>0, <1>1, <1>4, <1>5, <1>6, <2>0, <2>1, <2>2, <2>3, <2>4, ServerStepKeeps DEF clientVars
  <1>9. CASE ~Ends
    <2>0. at' = "line" /\ conn' = conn /\ buf' = buf /\ cur' = NoRequest /\ net' = net
      BY <1>0, <1>9
    <2>1. AtLine(a, Unread(conn), q + 1, over)
      <3>1. CASE cur.cut
        BY <1>1, <3>1 DEF AtLine
      <3>2. CASE ~cur.cut
        <4>1. a[q + 1].ends = "none"
          BY <1>1, <1>9, <3>2 DEF Ends, Request
        <4>2. NoneEnds(a, q + 1)
          <5>1. \A i \in 1..(q + 1) : i \in 1..q \/ i = q + 1
            BY <1>1
          <5> QED BY <1>1, <4>1, <5>1 DEF NoneEnds
        <4>3. Stream(a, Unread(conn), (q + 1) + 1, 1)
          <5>1. (q + 1) + 1 = q + 2
            BY <1>1
          <5> QED BY <1>1, <3>2, <5>1
        <4> QED BY <4>2, <4>3 DEF AtLine
      <3> QED BY <3>1, <3>2
    <2>2. /\ Unread(conn)' = Unread(conn) /\ Over(conn)' = Over(conn)
          /\ asked'[conn'] = a /\ Len(replies'[conn']) = q + 1
      BY <1>0, <1>4, <2>0 DEF Unread, Coming, Over
    <2>3. Reading'
      <3>1. AtLine(asked'[conn'], Unread(conn)', Len(replies'[conn']), Over(conn)')
        BY <2>1, <2>2
      <3> QED BY <2>0, <3>1 DEF Reading, Stands
    <2>4. net' \in [Clients -> Seq(Tokens)] /\ \A c \in Clients : c # conn => net'[c] = net[c]
      BY <1>3, <2>0
    <2>5. Locals'
      <3>1. Locals
        BY LocalsAre
      <3>2. wish' \in Wishes /\ last'.end = end
        BY <1>0 DEF Wishes, NoWish, Statuses
      <3>3. active' = (at' = "action")
        BY <1>0, <2>0
      <3>4. (at' = "accept") = (conn' = Nobody)
        BY <1>1, <2>0, ServeAssumption
      <3> QED BY <1>0, <1>7, <2>0, <3>1, <3>2, <3>3, <3>4 DEF Locals
    <2>6. Own'
      BY <1>0, <2>0 DEF Own, Matched
    <2> QED BY <1>0, <1>1, <1>4, <1>5, <1>6, <2>0, <2>3, <2>4, <2>5, <2>6, ServerStepKeeps DEF clientVars
  <1> QED BY <1>8, <1>9

\* The four ways to a response.
LEMMA AnswerKeeps ==
    ASSUME IInv, NotFound \/ Returned \/ ReturnedDict(0, "dict") \/ Failed
    PROVE  IInv'
  <1>1. at = "action"
    BY DEF NotFound, Returned, ReturnedDict, Failed, Matched
  <1>2. CASE NotFound
    BY <1>1, <1>2, RespondKeeps DEF NotFound
  <1>3. CASE Returned
    BY <1>1, <1>3, RespondKeeps DEF Returned
  <1>4. CASE ReturnedDict(0, "dict")
    BY <1>1, <1>4, RespondKeeps DEF ReturnedDict
  <1>5. CASE Failed
    BY <1>1, <1>5, RespondKeeps DEF Failed
  <1> QED BY <1>2, <1>3, <1>4, <1>5

\* What the action emits stands in the globals.
LEMMA EmitKeeps ==
    ASSUME IInv, NEW type \in Types, NEW s \in Statuses, Emit(type, s)
    PROVE  IInv'
  <1>0. /\ at = "action" /\ (form = "function" \/ Asked.routed) = TRUE
        /\ headers' = type /\ status' = IF s # 0 THEN s ELSE status
        /\ wish' = [status |-> IF s # 0 THEN s ELSE wish.status, type |-> type]
        /\ form' = form /\ asked' = asked /\ unsent' = unsent /\ gone' = gone /\ backlog' = backlog
        /\ net' = net /\ replies' = replies /\ at' = at /\ conn' = conn /\ buf' = buf /\ cur' = cur
        /\ active' = active /\ last' = NoReply
    BY DEF Emit, Matched, clientVars, reading
  <1>1. conn \in Clients
    BY <1>0, ConnIs
  <1>2. Reading'
    BY <1>0 DEF IInv, Reading, Unread, Coming, Over
  <1>3. status = wish.status
    BY <1>0 DEF IInv, Own
  <1>4. Own'
    <2>1. Asked' = Asked
      BY <1>0 DEF Asked
    <2>2. ~Matched(FALSE)'
      BY <1>0, <2>1 DEF Matched
    <2>3. status' = wish'.status /\ headers' = wish'.type
      BY <1>0, <1>3
    <2> QED BY <1>0, <2>2, <2>3 DEF Own
  <1>5. Locals'
    <2>1. Locals
      BY LocalsAre
    <2>2. status' \in Statuses /\ headers' \in Types \cup {"none"}
      BY <1>0, <2>1 DEF Locals
    <2>3. wish' \in Wishes
      <3>1. wish.status \in Statuses
        BY <2>1 DEF Locals, Wishes
      <3> QED BY <1>0, <3>1 DEF Wishes
    <2>4. last'.end = "none"
      BY <1>0 DEF NoReply
    <2>5. active' = (at' = "action")
      BY <1>0, <2>1 DEF Locals
    <2> QED BY <1>0, <2>1, <2>2, <2>3, <2>4, <2>5 DEF Locals
  <1>6. WholeReplies'
    BY <1>0 DEF IInv, WholeReplies
  <1>7. /\ net' \in [Clients -> Seq(Tokens)] /\ replies' \in [Clients -> Seq(Reply)]
        /\ \A c \in Clients : c # conn => net'[c] = net[c] /\ replies'[c] = replies[c]
        /\ Len(replies'[conn]) <= Len(asked[conn])
    BY <1>0, <1>1 DEF IInv, Domains, Counts
  <1> QED BY <1>0, <1>1, <1>2, <1>4, <1>5, <1>6, <1>7, ServerStepKeeps DEF clientVars

-----------------------------------------------------------------------------
(* Steps of the clients, and of the backlog                                *)

\* A step that leaves the server where it is.
LEMMA OthersKeep ==
    ASSUME IInv, UNCHANGED <<form, at, conn, reading, globals, wish, replies>>, last' = NoReply,
           backlog' \in Seq(Clients)
    PROVE  Locals'
  <1>1. Locals
    BY LocalsAre
  <1>2. last'.end = "none"
    BY DEF NoReply
  <1> QED BY <1>1, <1>2 DEF Locals, reading, globals

\* The rest of a request was in the stream already.
LEMMA SendRestKeeps ==
    ASSUME IInv, NEW c \in Clients, SendRest(c)
    PROVE  IInv'
  <1>0. /\ ~gone[c] /\ unsent[c] # <<>>
        /\ net' = [net EXCEPT ![c] = @ \o unsent[c]] /\ unsent' = [unsent EXCEPT ![c] = <<>>]
        /\ form' = form /\ backlog' = backlog /\ asked' = asked /\ gone' = gone /\ at' = at /\ conn' = conn
        /\ buf' = buf /\ cur' = cur /\ status' = status /\ headers' = headers /\ active' = active
        /\ wish' = wish /\ replies' = replies /\ last' = NoReply
    BY DEF SendRest, Server, reading, globals
  <1>1. /\ asked \in [Clients -> Seq(Request)] /\ replies \in [Clients -> Seq(Reply)]
        /\ unsent \in [Clients -> Seq(Tokens)] /\ net \in [Clients -> Seq(Tokens)]
        /\ gone \in [Clients -> BOOLEAN]
    BY DEF IInv, Domains
  <1>2. /\ net[c] \in Seq(Tokens) /\ unsent[c] \in Seq(Tokens)
        /\ net[c] \o unsent[c] \in Seq(Tokens) /\ <<>> \in Seq(Tokens)
    <2>1. net[c] \in Seq(Tokens) /\ unsent[c] \in Seq(Tokens) /\ <<>> \in Seq(Tokens)
      BY <1>1
    <2> QED BY <2>1, ConcatIs
  <1>3. /\ net' \in [Clients -> Seq(Tokens)] /\ unsent' \in [Clients -> Seq(Tokens)]
        /\ net'[c] = net[c] \o unsent[c] /\ unsent'[c] = <<>>
        /\ \A d \in Clients : d # c => net'[d] = net[d] /\ unsent'[d] = unsent[d]
    <2> HIDE DEF Tokens
    <2> QED BY <1>0, <1>1, <1>2
  <1>4. Domains'
    BY <1>0, <1>1, <1>3 DEF IInv, Domains
  <1>5. Locals'
    <2>1. backlog' \in Seq(Clients)
      BY <1>0, LocalsAre DEF Locals
    <2> QED BY <1>0, <2>1, OthersKeep DEF reading, globals
  <1>6. TypeOK'
    <2>1. \A d \in Clients : /\ asked'[d] \in Seq(Requests[d]) /\ replies'[d] \in Seq(Reply)
                             /\ unsent'[d] \in Seq(Tokens) /\ net'[d] \in Seq(Tokens)
      BY <1>0, <1>3 DEF IInv, TypeOK
    <2> QED BY <1>5, <2>1 DEF Locals, TypeOK
  <1>7. Counts' /\ Queue' /\ WholeReplies'
    BY <1>0 DEF IInv, Counts, Queue, WholeReplies
  <1>8. LastUnsent'
    BY <1>0, <1>3 DEF IInv, LastUnsent
  <1>9. \A d \in Clients : Coming(d)' = Coming(d)
    <2>1. (net[c] \o unsent[c]) \o <<>> = net[c] \o unsent[c]
      BY <1>2
    <2> QED BY <1>3, <2>1 DEF Coming
  <1>10. Waiting'
    BY <1>0, <1>9 DEF IInv, Waiting, Queued
  <1>11. conn \in Clients => Over(conn)' = Over(conn)
    <2>1. CASE conn = c
      <3>1. ~Over(conn) /\ ~Over(conn)'
        BY <1>0, <2>1 DEF Over
      <3> QED BY <3>1 DEF Over
    <2>2. CASE conn # c
      BY <1>0, <1>3, <2>2 DEF Over
    <2> QED BY <2>1, <2>2
  <1>12. Reading'
    <2>1. conn \in Clients => Unread(conn)' = Unread(conn)
      BY <1>0, <1>9 DEF Unread
    <2>2. conn \in Clients => Stands(at, asked[conn], Unread(conn)', Len(replies[conn]), Over(conn)', cur)
      BY <1>11, <2>1 DEF IInv, Reading
    <2>3. conn \in Clients => Stands(at', asked'[conn'], Unread(conn)', Len(replies'[conn']), Over(conn)', cur')
      BY <1>0, <2>2
    <2> QED BY <1>0, <2>3 DEF Reading
  <1>13. Own'
    BY <1>0 DEF IInv, Own, Matched, Asked
  <1> QED BY <1>4, <1>6, <1>7, <1>8, <1>10, <1>12, <1>13 DEF IInv

\* A client hangs up.
LEMMA CloseKeeps ==
    ASSUME IInv, NEW c \in Clients, Close(c)
    PROVE  IInv'
  <1>0. /\ gone' = [gone EXCEPT ![c] = TRUE]
        /\ form' = form /\ backlog' = backlog /\ asked' = asked /\ unsent' = unsent /\ net' = net /\ at' = at /\ conn' = conn
        /\ buf' = buf /\ cur' = cur /\ status' = status /\ headers' = headers /\ active' = active
        /\ wish' = wish /\ replies' = replies /\ last' = NoReply
    BY DEF Close, Server, reading, globals
  <1>1. gone \in [Clients -> BOOLEAN]
    BY DEF IInv, Domains
  <1>2. /\ gone' \in [Clients -> BOOLEAN] /\ \A d \in Clients : gone[d] => gone'[d]
    BY <1>0, <1>1
  <1>3. Domains'
    BY <1>0, <1>2 DEF IInv, Domains
  <1>4. Locals'
    <2>1. backlog' \in Seq(Clients)
      BY <1>0, LocalsAre DEF Locals
    <2> QED BY <1>0, <2>1, OthersKeep DEF reading, globals
  <1>5. TypeOK'
    <2>1. \A d \in Clients : /\ asked'[d] \in Seq(Requests[d]) /\ replies'[d] \in Seq(Reply)
                             /\ unsent'[d] \in Seq(Tokens) /\ net'[d] \in Seq(Tokens)
      BY <1>0 DEF IInv, TypeOK
    <2> QED BY <1>4, <2>1 DEF Locals, TypeOK
  <1>6. Counts' /\ Queue' /\ LastUnsent' /\ Waiting'
    BY <1>0 DEF IInv, Counts, Queue, LastUnsent, Waiting, Queued, Coming
  <1>7. WholeReplies'
    BY <1>0, <1>2 DEF IInv, WholeReplies
  <1>8. Reading'
    <2>1. SUFFICES ASSUME conn \in Clients
                   PROVE  Stands(at, asked[conn], Unread(conn), Len(replies[conn]), Over(conn)', cur)
      BY <1>0 DEF Reading, Unread, Coming, Over
    <2>2. Stands(at, asked[conn], Unread(conn), Len(replies[conn]), Over(conn), cur)
      BY <2>1 DEF IInv, Reading
    <2> DEFINE now == Over(conn)
               later == Over(conn)'
               a == asked[conn]
               s == Unread(conn)
               q == Len(replies[conn])
    <2>3. now \in BOOLEAN /\ later \in BOOLEAN /\ (now => later)
      BY <1>0, <1>1, <1>2, <2>1 DEF Over
    <2>4. Stands(at, a, s, q, now, cur)
      BY <2>2
    <2> HIDE DEF now, later, a, s, q
    <2>5. Stands(at, a, s, q, later, cur)
      BY <2>3, <2>4, StandsWhenOver
    <2> QED BY <2>5 DEF later, a, s, q
  <1>9. Own'
    BY <1>0 DEF IInv, Own, Matched, Asked
  <1> QED BY <1>3, <1>5, <1>6, <1>7, <1>8, <1>9 DEF IInv

-----------------------------------------------------------------------------
\* Of the client accepted nothing has been read.
LEMMA AcceptKeeps ==
    ASSUME IInv, Accept
    PROVE  IInv'
  <1> DEFINE h == Head(backlog)
  <1>0. /\ at = "accept" /\ backlog # <<>> /\ conn' = h /\ backlog' = Tail(backlog)
        /\ at' = "line" /\ buf' = <<>>
        /\ form' = form /\ asked' = asked /\ unsent' = unsent /\ gone' = gone /\ net' = net /\ replies' = replies
        /\ cur' = cur /\ status' = status /\ headers' = headers /\ active' = active /\ wish' = wish
        /\ last' = NoReply
    BY DEF Accept, clientVars, globals, Silent
  <1>1. Locals
    BY LocalsAre
  <1>2. backlog \in Seq(Clients) /\ Len(backlog) \in Nat \ {0}
    BY <1>0, <1>1 DEF Locals
  <1>3. /\ h = backlog[1] /\ h \in Clients /\ 1 \in 1..Len(backlog)
        /\ backlog' \in Seq(Clients) /\ Len(backlog') = Len(backlog) - 1
        /\ \A i \in 1..Len(backlog') : i + 1 \in 1..Len(backlog) /\ backlog'[i] = backlog[i + 1] /\ i + 1 # 1
    BY <1>0, <1>2
  <1> HIDE DEF h
  <1>4. Domains'
    BY <1>0 DEF IInv, Domains
  <1>5. Locals'
    <2>1. last'.end = "none" /\ (at' = "accept") = (conn' = Nobody)
      BY <1>0, <1>3, ServeAssumption DEF NoReply
    <2>2. active' = (at' = "action") /\ buf' \in Seq(Tokens)
      BY <1>0, <1>1 DEF Locals
    <2> QED BY <1>0, <1>1, <1>3, <2>1, <2>2 DEF Locals
  <1>6. TypeOK'
    <2>1. \A d \in Clients : /\ asked'[d] \in Seq(Requests[d]) /\ replies'[d] \in Seq(Reply)
                             /\ unsent'[d] \in Seq(Tokens) /\ net'[d] \in Seq(Tokens)
      BY <1>0 DEF IInv, TypeOK
    <2> QED BY <1>5, <2>1 DEF Locals, TypeOK
  <1>7. Counts' /\ LastUnsent' /\ WholeReplies'
    BY <1>0 DEF IInv, Counts, LastUnsent, WholeReplies
  <1>8. /\ \A i, j \in 1..Len(backlog) : backlog[i] = backlog[j] => i = j
        /\ \A i \in 1..Len(backlog) : asked[backlog[i]] # <<>>
    BY DEF IInv, Queue
  <1>9. Queue'
    <2>1. ASSUME NEW i \in 1..Len(backlog'), NEW j \in 1..Len(backlog'), backlog'[i] = backlog'[j]
          PROVE  i = j
      <3>1. i + 1 = j + 1
        BY <1>3, <1>8, <2>1
      <3> QED BY <3>1
    <2>2. \A i \in 1..Len(backlog') : asked[backlog'[i]] # <<>> /\ backlog'[i] # h
      BY <1>3, <1>8, SMTT(30)
    <2>3. asked[h] # <<>>
      BY <1>3, <1>8
    <2> QED BY <1>0, <2>1, <2>2, <2>3 DEF Queue
  <1>10. \A d \in Clients : Queued(d)' => Queued(d)
    BY <1>3 DEF Queued
  <1>11. Waiting'
    BY <1>0, <1>10 DEF IInv, Waiting, Coming
  <1>12. Reading'
    <2>1. replies[h] = <<>> /\ Stream(asked[h], Coming(h), 1, 1)
      BY <1>3 DEF IInv, Waiting, Queued
    <2>2. Coming(h) \in Seq(Tokens)
      <3>1. net[h] \in Seq(Tokens) /\ unsent[h] \in Seq(Tokens)
        BY <1>3 DEF IInv, Domains
      <3> QED BY <3>1, ConcatIs DEF Coming
    <2>3. Unread(conn)' = Coming(h)
      <3>1. <<>> \o Coming(h) = Coming(h)
        BY <2>2
      <3> QED BY <1>0, <3>1 DEF Unread, Coming
    <2>4. NoneEnds(asked[h], 0) /\ 0 + 1 = 1 /\ Len(replies[h]) = 0
      BY <2>1 DEF NoneEnds
    <2>5. AtLine(asked[h], Coming(h), 0, Over(conn)')
      BY <2>1, <2>4 DEF AtLine
    <2> QED BY <1>0, <2>3, <2>4, <2>5 DEF Reading, Stands
  <1>13. Own'
    BY <1>0 DEF IInv, Own
  <1> QED BY <1>4, <1>6, <1>7, <1>9, <1>11, <1>12, <1>13 DEF IInv

\* One request behind the others.
LEMMA AskedMore ==
    ASSUME NEW c \in Clients, NEW r \in Request, asked \in [Clients -> Seq(Request)],
           asked' = [asked EXCEPT ![c] = Append(@, r)]
    PROVE  /\ asked' \in [Clients -> Seq(Request)] /\ \A d \in Clients : d # c => asked'[d] = asked[d]
           /\ asked'[c] = Append(asked[c], r) /\ Len(asked'[c]) = Len(asked[c]) + 1
           /\ asked'[c][Len(asked[c]) + 1] = r /\ asked'[c] # <<>> /\ Len(asked[c]) \in Nat
           /\ \A i \in 1..Len(asked[c]) : asked'[c][i] = asked[c][i]
  <1>1. asked[c] \in Seq(Request)
    OBVIOUS
  <1> HIDE DEF Request
  <1>2. Append(asked[c], r) \in Seq(Request)
    BY <1>1
  <1>3. /\ asked' \in [Clients -> Seq(Request)] /\ asked'[c] = Append(asked[c], r)
        /\ \A d \in Clients : d # c => asked'[d] = asked[d]
    BY <1>2
  <1> QED BY <1>1, <1>3, AppendProperties

\* A client asks one request more, or its first.
LEMMA AskKeeps ==
    ASSUME IInv, NEW c \in Clients, NEW r \in Requests[c], Ask(c, r)
    PROVE  IInv'
  <1> DEFINE w == OnWire(r, Len(asked[c]) + 1)
  <1>0. /\ ~gone[c] /\ unsent[c] = <<>>
        /\ asked' = [asked EXCEPT ![c] = Append(@, r)]
        /\ backlog' = IF asked[c] = <<>> THEN Append(backlog, c) ELSE backlog
        /\ form' = form /\ gone' = gone /\ at' = at /\ conn' = conn
        /\ buf' = buf /\ cur' = cur /\ status' = status /\ headers' = headers /\ active' = active
        /\ wish' = wish /\ replies' = replies /\ last' = NoReply
    BY DEF Ask, Server, reading, globals
  <1>1. /\ asked \in [Clients -> Seq(Request)] /\ replies \in [Clients -> Seq(Reply)]
        /\ unsent \in [Clients -> Seq(Tokens)] /\ net \in [Clients -> Seq(Tokens)]
        /\ gone \in [Clients -> BOOLEAN]
    BY DEF IInv, Domains
  <1>2. r \in Request
    BY ServeAssumption DEF Request
  <1>3. /\ asked' \in [Clients -> Seq(Request)] /\ \A d \in Clients : d # c => asked'[d] = asked[d]
        /\ asked'[c] = Append(asked[c], r) /\ Len(asked'[c]) = Len(asked[c]) + 1
        /\ asked'[c][Len(asked[c]) + 1] = r /\ asked'[c] # <<>> /\ Len(asked[c]) \in Nat
        /\ \A i \in 1..Len(asked[c]) : asked'[c][i] = asked[c][i]
    BY <1>0, <1>1, <1>2, AskedMore
  <1>4. w \in Seq(Tokens) /\ Len(w) \in Nat
    <2>1. Len(asked[c]) + 1 \in Nat
      BY <1>3
    <2>2. w \in Seq(Tokens)
      BY <1>2, <2>1, WireIs
    <2> QED BY <2>2
  <1>5. PICK n \in 0..Len(w) : /\ net' = [net EXCEPT ![c] = @ \o SubSeq(w, 1, n)]
                               /\ unsent' = [unsent EXCEPT ![c] = SubSeq(w, n + 1, Len(w))]
    <2>1. PICK n \in IF c \in Slow THEN 0..Len(w) ELSE {Len(w)} :
             /\ net' = [net EXCEPT ![c] = @ \o SubSeq(w, 1, n)]
             /\ unsent' = [unsent EXCEPT ![c] = SubSeq(w, n + 1, Len(w))]
      BY Zenon DEF Ask
    <2>2. n \in 0..Len(w)
      BY <1>4
    <2> QED BY <2>1, <2>2
  <1> HIDE DEF w
  <1> DEFINE x == SubSeq(w, 1, n)
             y == SubSeq(w, n + 1, Len(w))
  <1>6. x \o y = w /\ x \in Seq(Tokens) /\ y \in Seq(Tokens) /\ Len(y) <= Len(w)
    BY <1>4, Split
  <1>7. net' = [net EXCEPT ![c] = @ \o x] /\ unsent' = [unsent EXCEPT ![c] = y]
    BY <1>5
  <1> HIDE DEF x, y
  <1>8. net[c] \in Seq(Tokens) /\ net[c] \o x \in Seq(Tokens)
    <2>1. net[c] \in Seq(Tokens)
      BY <1>1
    <2> QED BY <1>6, <2>1, ConcatIs
  <1>9. /\ net' \in [Clients -> Seq(Tokens)] /\ unsent' \in [Clients -> Seq(Tokens)]
        /\ net'[c] = net[c] \o x /\ unsent'[c] = y
        /\ \A d \in Clients : d # c => net'[d] = net[d] /\ unsent'[d] = unsent[d]
    <2> HIDE DEF Tokens
    <2> QED BY <1>1, <1>6, <1>7, <1>8
  <1>10. /\ Coming(c) = net[c] /\ Coming(c)' = Coming(c) \o w
         /\ \A d \in Clients : d # c => Coming(d)' = Coming(d)
    <2>1. Coming(c) = net[c]
      BY <1>0, <1>8 DEF Coming
    <2>2. (net[c] \o x) \o y = net[c] \o w
      BY <1>6, <1>8, Regroup
    <2> QED BY <1>9, <2>1, <2>2 DEF Coming
  <1>11. Domains'
    BY <1>0, <1>1, <1>3, <1>9 DEF IInv, Domains
  <1>12. backlog \in Seq(Clients) /\ backlog' \in Seq(Clients)
    <2>1. backlog \in Seq(Clients)
      BY LocalsAre DEF Locals
    <2> QED BY <1>0, <2>1
  <1>13. Locals'
    BY <1>0, <1>12, OthersKeep DEF reading, globals
  <1>14. TypeOK'
    <2>1. \A d \in Clients : /\ asked[d] \in Seq(Requests[d]) /\ replies'[d] \in Seq(Reply)
                             /\ unsent'[d] \in Seq(Tokens) /\ net'[d] \in Seq(Tokens)
      BY <1>0, <1>9 DEF IInv, TypeOK
    <2>2. \A d \in Clients : asked'[d] \in Seq(Requests[d])
      <3>1. asked[c] \in Seq(Requests[c])
        BY <2>1
      <3>2. Append(asked[c], r) \in Seq(Requests[c])
        BY <3>1, AppendProperties
      <3> QED BY <1>3, <2>1, <3>2
    <2> QED BY <1>13, <2>1, <2>2 DEF Locals, TypeOK
  <1>15. /\ \A i \in 1..Len(backlog) : backlog'[i] = backlog[i]
         /\ \/ Len(backlog') = Len(backlog)
            \/ Len(backlog') = Len(backlog) + 1 /\ backlog'[Len(backlog) + 1] = c /\ asked[c] = <<>>
         /\ Len(backlog) \in Nat
    BY <1>0, <1>12
  <1>16. \A d \in Clients : Queued(d)' => Queued(d) \/ (d = c /\ asked[c] = <<>>)
    <2>1. SUFFICES ASSUME NEW d \in Clients, NEW i \in 1..Len(backlog'), backlog'[i] = d
                   PROVE  Queued(d) \/ (d = c /\ asked[c] = <<>>)
      BY DEF Queued
    <2>2. CASE i \in 1..Len(backlog)
      BY <1>15, <2>1, <2>2 DEF Queued
    <2>3. CASE i \notin 1..Len(backlog)
      <3>1. i = Len(backlog) + 1 /\ Len(backlog') = Len(backlog) + 1
        BY <1>15, <2>3
      <3> QED BY <1>15, <2>1, <3>1
    <2> QED BY <2>2, <2>3
  <1>17. Counts'
    <2>1. \A d \in Clients : Len(replies[d]) <= Len(asked[d])
      BY DEF IInv, Counts
    <2>2. Len(replies[c]) \in Nat
      BY <1>1
    <2>3. \A d \in Clients : Len(replies[d]) <= Len(asked'[d])
      BY <1>3, <2>1, <2>2, SMTT(30)
    <2> QED BY <1>0, <2>3 DEF Counts
  <1>18. LastUnsent'
    <2>1. W(asked'[c], Len(asked'[c])) = w
      BY <1>3 DEF W, w
    <2>2. \A d \in Clients : unsent'[d] # <<>> =>
              asked'[d] # <<>> /\ Len(unsent'[d]) <= Len(W(asked'[d], Len(asked'[d])))
      <3>1. Len(unsent'[c]) <= Len(W(asked'[c], Len(asked'[c])))
        BY <1>6, <1>9, <2>1
      <3>2. ASSUME NEW d \in Clients, d # c, unsent'[d] # <<>>
            PROVE  asked'[d] # <<>> /\ Len(unsent'[d]) <= Len(W(asked'[d], Len(asked'[d])))
        BY <1>3, <1>9, <3>2 DEF IInv, LastUnsent
      <3> QED BY <1>3, <3>1, <3>2
    <2> QED BY <2>2 DEF LastUnsent, W
  <1>19. Queue'
    <2>1. /\ \A i, j \in 1..Len(backlog) : backlog[i] = backlog[j] => i = j
          /\ \A i \in 1..Len(backlog) : asked[backlog[i]] # <<>> /\ backlog[i] # conn /\ backlog[i] \in Clients
          /\ conn \in Clients => asked[conn] # <<>>
      BY <1>12 DEF IInv, Queue
    <2>2. \A d \in Clients : asked[d] # <<>> => asked'[d] # <<>>
      BY <1>3
    <2>3. ASSUME NEW i \in 1..Len(backlog') PROVE asked'[backlog'[i]] # <<>> /\ backlog'[i] # conn
      <3>1. CASE i \in 1..Len(backlog)
        BY <1>15, <2>1, <2>2, <3>1
      <3>2. CASE i \notin 1..Len(backlog)
        <4>1. backlog'[i] = c /\ asked[c] = <<>>
          BY <1>15, <3>2
        <4> QED BY <1>3, <2>1, <4>1
      <3> QED BY <3>1, <3>2
    <2>4. ASSUME NEW i \in 1..Len(backlog'), NEW j \in 1..Len(backlog'), backlog'[i] = backlog'[j] PROVE i = j
      <3>1. CASE i \in 1..Len(backlog) /\ j \in 1..Len(backlog)
        BY <1>15, <2>1, <2>4, <3>1
      <3>2. CASE i \notin 1..Len(backlog) /\ j \notin 1..Len(backlog)
        BY <1>15, <3>2
      <3>3. ASSUME NEW e \in 1..Len(backlog') \ (1..Len(backlog)), NEW f \in 1..Len(backlog), backlog'[e] = backlog'[f]
            PROVE  FALSE
        <4>1. backlog'[e] = c /\ asked[c] = <<>>
          BY <1>15, <3>3
        <4>2. asked[backlog'[f]] # <<>>
          BY <1>15, <2>1
        <4> QED BY <3>3, <4>1, <4>2
      <3> QED BY <2>4, <3>1, <3>2, <3>3
    <2>5. conn \in Clients => asked'[conn] # <<>>
      BY <2>1, <2>2
    <2> QED BY <1>0, <2>3, <2>4, <2>5 DEF Queue
  <1>20. Waiting'
    <2>1. SUFFICES ASSUME NEW d \in Clients, asked'[d] = <<>> \/ Queued(d)'
                   PROVE  replies[d] = <<>> /\ Stream(asked'[d], Coming(d)', 1, 1)
      BY <1>0 DEF Waiting, W
    <2>2. asked[d] = <<>> \/ Queued(d)
      BY <1>3, <1>16, <2>1
    <2>3. replies[d] = <<>> /\ Stream(asked[d], Coming(d), 1, 1)
      BY <2>2 DEF IInv, Waiting
    <2>4. CASE d # c
      BY <1>3, <1>10, <2>3, <2>4
    <2>5. CASE d = c
      <3> DEFINE a == asked[c]
                 s == Coming(c)
                 t == s \o w
      <3>1. a \in Seq(Request) /\ s \in Seq(Tokens) /\ 1 \in 1..(Len(a) + 1) /\ 1 \in Nat \ {0}
        BY <1>1, <1>3, <1>8, <1>10
      <3>2. t \in Seq(Tokens)
        BY <1>4, <3>1, ConcatIs
      <3>3. Stream(a, s, 1, 1) /\ w = OnWire(r, Len(a) + 1) /\ t = s \o w
        BY <2>3, <2>5 DEF w
      <3> HIDE DEF a, s, t
      <3>4. Stream(Append(a, r), t, 1, 1)
        BY <1>2, <1>4, <3>1, <3>2, <3>3, OneMore
      <3>5. asked'[d] = Append(a, r) /\ Coming(d)' = t
        BY <1>3, <1>10, <2>5 DEF a, s, t
      <3> QED BY <2>3, <3>4, <3>5
    <2> QED BY <2>4, <2>5
  <1>21. Reading'
    <2>1. SUFFICES ASSUME conn \in Clients
                   PROVE  Stands(at, asked'[conn], Unread(conn)', Len(replies[conn]), Over(conn)', cur)
      BY <1>0 DEF Reading
    <2>2. /\ Stands(at, asked[conn], Unread(conn), Len(replies[conn]), Over(conn), cur)
          /\ buf \in Seq(Tokens) /\ Coming(conn) \in Seq(Tokens) /\ Unread(conn) \in Seq(Tokens)
          /\ Len(replies[conn]) \in Nat /\ Len(replies[conn]) <= Len(asked[conn])
      BY <2>1, ServedIs
    <2>3. CASE conn # c
      <3>1. Unread(conn)' = Unread(conn) /\ Over(conn)' = Over(conn) /\ asked'[conn] = asked[conn]
        BY <1>0, <1>3, <1>9, <2>1, <2>3 DEF Unread, Coming, Over
      <3> QED BY <2>2, <3>1
    <2>4. CASE conn = c
      <3>1. Over(conn) = FALSE /\ Over(conn)' = FALSE
        BY <1>0, <2>4 DEF Over
      <3>2. Unread(conn)' = Unread(conn) \o w
        <4>1. Unread(conn)' = buf \o (Coming(conn) \o w)
          BY <1>0, <1>10, <2>4 DEF Unread, Coming
        <4>2. buf \o (Coming(conn) \o w) = (buf \o Coming(conn)) \o w
          BY <1>4, <2>2, Regroup, SMTT(30)
        <4> QED BY <4>1, <4>2 DEF Unread
      <3> DEFINE a == asked[c]
                 s == Unread(conn)
                 q == Len(replies[conn])
      <3>3. a \in Seq(Request) /\ s \in Seq(Tokens) /\ q \in Nat /\ q <= Len(a) /\ Stands(at, a, s, q, FALSE, cur)
        BY <1>1, <2>2, <2>4, <3>1
      <3>4. Unread(conn)' = s \o OnWire(r, Len(a) + 1) /\ asked'[conn] = Append(a, r)
        BY <1>3, <2>4, <3>2 DEF w
      <3> DEFINE e == Unread(conn)'
                 z == Over(conn)'
                 b == asked'[conn]
      <3>5. e = s \o OnWire(r, Len(a) + 1) /\ z = FALSE /\ b = Append(a, r)
        BY <3>1, <3>4
      <3> HIDE DEF a, s, q, e, z, b
      <3>6. Stands(at, Append(a, r), s \o OnWire(r, Len(a) + 1), q, FALSE, cur)
        BY <1>2, <3>3, StandsWhenMore
      <3>7. Stands(at, b, e, q, z, cur)
        BY <3>5, <3>6
      <3> QED BY <3>7 DEF q, e, z, b
    <2> QED BY <2>3, <2>4
  <1>22. Own'
    <2>1. CASE at = "action"
      <3>1. Asked' = Asked
        <4>1. /\ conn \in Clients /\ cur.k # 0 /\ cur.k \in 1..Len(asked[conn])
          BY <2>1, ActionIs
        <4>2. asked'[conn][cur.k] = asked[conn][cur.k]
          BY <1>3, <4>1
        <4> QED BY <1>0, <4>1, <4>2 DEF Asked
      <3> QED BY <1>0, <3>1 DEF IInv, Own, Matched
    <2>2. CASE at # "action"
      BY <1>0, <2>2 DEF IInv, Own, Matched
    <2> QED BY <2>1, <2>2
  <1>23. WholeReplies'
    <2>1. ASSUME NEW d \in Clients, NEW i \in 1..Len(replies[d])
          PROVE  /\ replies[d][i].k = i
                 /\ ~replies[d][i].cut => replies[d][i].read = asked'[d][i].body
                 /\ replies[d][i].cut => gone[d] /\ i = Len(asked'[d])
      <3>1. /\ replies[d][i].k = i
            /\ ~replies[d][i].cut => replies[d][i].read = asked[d][i].body
            /\ replies[d][i].cut => gone[d] /\ i = Len(asked[d])
        BY DEF IInv, WholeReplies
      <3>2. CASE d # c
        BY <1>3, <3>1, <3>2
      <3>3. CASE d = c
        <4>1. i \in 1..Len(asked[c])
          <5>1. Len(replies[d]) \in Nat /\ Len(asked[c]) \in Nat /\ Len(replies[d]) <= Len(asked[c])
            BY <1>1, <1>3, <3>3 DEF IInv, Counts
          <5> QED BY <5>1
        <4>2. asked'[d][i] = asked[d][i]
          BY <1>3, <3>3, <4>1
        <4>3. ~replies[d][i].cut
          BY <1>0, <3>1, <3>3
        <4> QED BY <3>1, <4>2, <4>3
      <3> QED BY <3>2, <3>3
    <2>2. replies' = replies /\ gone' = gone
      BY <1>0
    <2> QED BY <2>1, <2>2, ZenonT(30) DEF WholeReplies
  <1> QED BY <1>11, <1>14, <1>17, <1>18, <1>19, <1>20, <1>21, <1>22, <1>23 DEF IInv

-----------------------------------------------------------------------------
(* The invariant                                                           *)

\* Nobody has asked, and the server has accepted nobody.
LEMMA Starting ==
    ASSUME Init
    PROVE  IInv
  <1>0. <<>> \in Seq(Request) /\ <<>> \in Seq(Tokens) /\ <<>> \in Seq(Reply) /\ Len(<<>>) = 0
    OBVIOUS
  <1>1. /\ \A c \in Clients : asked[c] = <<>> /\ unsent[c] = <<>> /\ net[c] = <<>> /\ replies[c] = <<>> /\ ~gone[c]
        /\ backlog = <<>> /\ conn = Nobody /\ at = "accept" /\ buf = <<>> /\ cur = NoRequest
        /\ active = FALSE /\ status = 0 /\ headers = "none" /\ wish = NoWish /\ last = NoReply
    BY DEF Init
  <1>2. Domains
    <2> HIDE DEF Request, Tokens, Reply
    <2> QED BY <1>0 DEF Init, Domains
  <1>3. TypeOK
    <2>1. \A c \in Clients : <<>> \in Seq(Requests[c])
      OBVIOUS
    <2>2. cur \in [k : Nat, length : Nat, close : BOOLEAN, cut : BOOLEAN]
      BY <1>1 DEF NoRequest
    <2>3. wish \in Wishes /\ last.end = "none"
      BY <1>1 DEF NoWish, Wishes, Statuses, NoReply
    <2>4. status \in Statuses /\ headers \in Types \cup {"none"} /\ backlog \in Seq(Clients) /\ buf \in Seq(Tokens)
      BY <1>1 DEF Statuses
    <2>5. (at = "accept") = (conn = Nobody) /\ active = (at = "action")
      BY <1>1
    <2>6. \A c \in Clients : /\ asked[c] \in Seq(Requests[c]) /\ replies[c] \in Seq(Reply)
                             /\ unsent[c] \in Seq(Tokens) /\ net[c] \in Seq(Tokens)
      BY <1>0, <1>1, <2>1
    <2> QED BY <1>1, <2>2, <2>3, <2>4, <2>5, <2>6 DEF TypeOK
  <1>4. Counts /\ WholeReplies /\ LastUnsent
    BY <1>0, <1>1 DEF Counts, WholeReplies, LastUnsent
  <1>5. Queue /\ Reading
    BY <1>0, <1>1, ServeAssumption DEF Queue, Reading
  <1>6. Waiting
    <2>1. \A c \in Clients : Coming(c) = <<>>
      BY <1>1 DEF Coming
    <2> QED BY <1>1, <2>1, NothingAsked DEF Waiting
  <1>7. Own
    BY <1>1 DEF Own, NoWish, Matched
  <1> QED BY <1>2, <1>3, <1>4, <1>5, <1>6, <1>7 DEF IInv

\* Nothing happens.
LEMMA Stuttering ==
    ASSUME IInv, UNCHANGED vars
    PROVE  IInv'
  <1>0. /\ form' = form /\ backlog' = backlog /\ asked' = asked /\ unsent' = unsent /\ net' = net /\ gone' = gone
        /\ at' = at /\ conn' = conn /\ buf' = buf /\ cur' = cur /\ status' = status /\ headers' = headers
        /\ active' = active /\ wish' = wish /\ replies' = replies /\ last' = last
    BY DEF vars, clientVars, reading, globals
  <1>1. TypeOK' /\ Domains' /\ Counts' /\ WholeReplies'
    BY <1>0 DEF IInv, TypeOK, Domains, Counts, WholeReplies
  <1>2. LastUnsent' /\ Queue' /\ Waiting' /\ Own'
    BY <1>0 DEF IInv, LastUnsent, Queue, Waiting, Queued, Coming, Own, Matched, Asked
  <1>3. Reading'
    BY <1>0 DEF IInv, Reading, Unread, Coming, Over
  <1> QED BY <1>1, <1>2, <1>3 DEF IInv

\* Every step keeps the invariant, one case per action.
LEMMA Stepping ==
    ASSUME IInv, [Next]_vars
    PROVE  IInv'
  <1>1. CASE Accept
    BY <1>1, AcceptKeeps
  <1>2. CASE Fill
    BY <1>2, FillKeeps
  <1>3. CASE SkipEmptyLine
    BY <1>3, SkipEmptyLineKeeps
  <1>4. CASE RequestLine
    BY <1>4, RequestLineKeeps
  <1>5. CASE NoRequestLine \/ HeadersMissing \/ BodyMissing
    BY <1>5, HangingUpKeeps
  <1>6. CASE HeaderLine
    BY <1>6, HeaderLineKeeps
  <1>7. CASE HeadersEnd
    BY <1>7, HeadersEndKeeps
  <1>8. CASE Body
    BY <1>8, BodyKeeps
  <1>9. CASE NotFound \/ Returned \/ ReturnedDict(0, "dict") \/ Failed
    BY <1>9, AnswerKeeps
  <1>10. ASSUME NEW type \in Types, NEW s \in Statuses, Emit(type, s) PROVE IInv'
    BY <1>10, EmitKeeps
  <1>11. ASSUME NEW c \in Clients, NEW r \in Requests[c], Ask(c, r) PROVE IInv'
    BY <1>11, AskKeeps
  <1>12. ASSUME NEW c \in Clients, SendRest(c) PROVE IInv'
    BY <1>12, SendRestKeeps
  <1>13. ASSUME NEW c \in Clients, Close(c) PROVE IInv'
    BY <1>13, CloseKeeps
  <1>14. CASE UNCHANGED vars
    BY <1>14, Stuttering
  <1> QED BY <1>1, <1>2, <1>3, <1>4, <1>5, <1>6, <1>7, <1>8, <1>9, <1>10, <1>11, <1>12, <1>13, <1>14
          DEF Next, ServerStep

\* The server stands where the requests of its client end and begin, in every
\* state, whatever the pieces of the stream and however they are pipelined.
THEOREM ServeInvariant == Spec => []IInv
  <1>1. Init => IInv
    BY Starting
  <1>2. IInv /\ [Next]_vars => IInv'
    BY Stepping
  <1> QED BY <1>1, <1>2, PTL DEF Spec

-----------------------------------------------------------------------------
\* WholeRequests: the n-th response is to the n-th request, read to the end of
\* its body unless the stream ended before it (serve_conn_line, serve_conn_exact).
THEOREM ServeWholeRequests == Spec => []WholeRequests
  <1>1. IInv => WholeRequests
    BY DEF IInv, WholeReplies, WholeRequests
  <1> QED BY <1>1, ServeInvariant, PTL

-----------------------------------------------------------------------------
\* Steps of the server that write no response.
LEMMA Quiet ==
    ASSUME Accept \/ Fill \/ SkipEmptyLine \/ RequestLine \/ NoRequestLine \/ HeaderLine
           \/ HeadersEnd \/ HeadersMissing \/ Body \/ BodyMissing
    PROVE  replies' = replies /\ asked' = asked
  BY DEF Accept, Fill, SkipEmptyLine, RequestLine, NoRequestLine, HeaderLine, HeadersEnd, HeadersMissing, Body,
         BodyMissing, clientVars

\* Steps of others write no response.
LEMMA QuietClients ==
    ASSUME NEW c, NEW r, NEW type, NEW s, Ask(c, r) \/ SendRest(c) \/ Close(c) \/ Emit(type, s) \/ UNCHANGED vars
    PROVE  replies' = replies
  BY DEF Ask, SendRest, Close, Emit, Server, vars

OwnReply ==
    /\ last'.end \in {"value", "error"} => last'.type = Type(wish.type)
    /\ last'.end \in {"value", "dict"} => last'.status = Or(wish.status, 0, 200)
    /\ last'.end = "lost" => last'.status = 404 /\ last'.type = "text/html"
    /\ last'.end = "error" => last'.status = 500

\* A response is made of what the globals hold, which its own action emitted.
LEMMA AnswersOwn ==
    ASSUME IInv, NotFound \/ Returned \/ ReturnedDict(0, "dict") \/ Failed
    PROVE  OwnReply
  <1>1. at = "action"
    BY DEF NotFound, Returned, ReturnedDict, Failed, Matched
  <1>2. status = wish.status /\ headers = wish.type /\ (Matched(FALSE) => headers = "none")
    BY <1>1 DEF IInv, Own
  <1>3. CASE NotFound
    <2>1. last' = [status |-> 404, type |-> Type(headers), end |-> "lost"] /\ Matched(FALSE)
      BY <1>3 DEF NotFound, Respond
    <2>2. form = "routes"
      BY <2>1 DEF IInv, Domains, Matched
    <2>3. Type(headers) = "text/html"
      BY <1>2, <2>1, <2>2 DEF Type
    <2> QED BY <2>1, <2>3 DEF OwnReply
  <1>4. CASE Returned
    <2>1. last' = [status |-> Or(status, 0, 200), type |-> Type(headers), end |-> "value"]
      BY <1>4 DEF Returned, Respond
    <2> QED BY <1>2, <2>1 DEF OwnReply
  <1>5. CASE ReturnedDict(0, "dict")
    <2>1. last'.status = Or(0, 0, Or(status, 0, 200)) /\ last'.end = "dict"
      BY <1>5 DEF ReturnedDict, Respond
    <2> QED BY <1>2, <2>1 DEF OwnReply, Or
  <1>6. CASE Failed
    <2>1. last' = [status |-> 500, type |-> Type(headers), end |-> "error"]
      BY <1>6 DEF Failed, Respond
    <2> QED BY <1>2, <2>1 DEF OwnReply
  <1> QED BY <1>3, <1>4, <1>5, <1>6

\* RepliesAreOwn: a response has the status and the type its own action asked
\* for, as the globals are reset when a request starts.
THEOREM ServeRepliesAreOwn == Spec => RepliesAreOwn
  <1>1. IInv /\ [Next]_vars => [replies' # replies => OwnReply]_vars
    <2>1. SUFFICES ASSUME IInv, [Next]_vars, replies' # replies PROVE OwnReply
      OBVIOUS
    <2>2. NotFound \/ Returned \/ ReturnedDict(0, "dict") \/ Failed
      BY <2>1, Quiet, QuietClients DEF Next, ServerStep
    <2> QED BY <2>1, <2>2, AnswersOwn
  <1>2. [replies' # replies => OwnReply]_vars <=>
        [replies' # replies =>
          /\ last'.end \in {"value", "error"} => last'.type = Type(wish.type)
          /\ last'.end \in {"value", "dict"} => last'.status = Or(wish.status, 0, 200)
          /\ last'.end = "lost" => last'.status = 404 /\ last'.type = "text/html"
          /\ last'.end = "error" => last'.status = 500]_vars
    BY DEF OwnReply
  <1> QED BY <1>1, <1>2, ServeInvariant, PTL DEF Spec, RepliesAreOwn

-----------------------------------------------------------------------------
(* The service                                                             *)

Counted == [c \in Clients |-> Len(replies[c])]
Served  == {c \in Clients : asked[c] # <<>> /\ c \notin ToSet(backlog)}

\* The initial states are initial states of the promise.
LEMMA ServiceStarts ==
    ASSUME Init
    PROVE  Promise!Init
  <1>1. asked = [c \in Clients |-> <<>>] /\ replies = [c \in Clients |-> <<>>] /\ conn = Nobody
    BY DEF Init
  <1>2. Counted = [c \in Clients |-> 0]
    BY <1>1 DEF Counted
  <1>3. Served = {}
    BY <1>1 DEF Served
  <1> QED BY <1>1, <1>2, <1>3 DEF Promise!Init, Counted, Served

\* What the promise does not see.
LEMMA ServiceRests ==
    ASSUME asked' = asked, replies' = replies, backlog' = backlog, conn' = conn
    PROVE  UNCHANGED Promise!vars
  BY DEF Promise!vars

\* A connection closed without a response.
LEMMA ServiceHangsUp ==
    ASSUME asked' = asked, replies' = replies, backlog' = backlog, conn # Nobody, conn' = Nobody
    PROVE  Promise!HangUp
  BY DEF Promise!HangUp

\* One step of the promise, said of what it is instantiated with.
LEMMA OpenIs ==
    ASSUME NEW h \in Clients, conn = Nobody, conn' = h, h \notin Served, Served' = Served \cup {h},
           asked' = asked, Counted' = Counted
    PROVE  Promise!Open(h)
  <1>1. {c \in Clients : asked[c] # <<>> /\ c \notin ToSet(backlog)}'
        = {c \in Clients : asked[c] # <<>> /\ c \notin ToSet(backlog)} \cup {h}
    BY DEF Served
  <1>2. [c \in Clients |-> Len(replies[c])]' = [c \in Clients |-> Len(replies[c])]
    BY DEF Counted
  <1>3. h \notin {c \in Clients : asked[c] # <<>> /\ c \notin ToSet(backlog)}
    BY DEF Served
  <1> QED BY <1>1, <1>2, <1>3 DEF Promise!Open

\* The same for the response.
LEMMA AnswerIs ==
    ASSUME NEW h \in Clients, conn = h, conn' \in {h, Nobody}, asked' = asked, Served' = Served,
           Counted' = [Counted EXCEPT ![h] = @ + 1], Counted[h] < Len(asked[h]),
           \A i \in 1..Counted[h] : asked[h][i].ends = "none"
    PROVE  Promise!Answer(h)
  <1>1. {c \in Clients : asked[c] # <<>> /\ c \notin ToSet(backlog)}'
        = {c \in Clients : asked[c] # <<>> /\ c \notin ToSet(backlog)}
    BY DEF Served
  <1>2. [c \in Clients |-> Len(replies[c])]' = [[c \in Clients |-> Len(replies[c])] EXCEPT ![h] = @ + 1]
    BY DEF Counted
  <1>3. [c \in Clients |-> Len(replies[c])][h] < Len(asked[h])
    BY DEF Counted
  <1>4. \A i \in 1..([c \in Clients |-> Len(replies[c])][h]) : ~(asked[h][i].ends # "none")
    BY DEF Counted
  <1> QED BY <1>1, <1>2, <1>3, <1>4 DEF Promise!Answer

\* To accept is to open the connection at the head of the backlog.
LEMMA ServiceOpens ==
    ASSUME IInv, Accept
    PROVE  \E c \in Clients : Promise!Open(c)
  <1>0. /\ at = "accept" /\ backlog # <<>> /\ conn' = Head(backlog) /\ backlog' = Tail(backlog)
        /\ asked' = asked /\ replies' = replies
    BY DEF Accept, clientVars
  <1>1. backlog \in Seq(Clients) /\ conn = Nobody
    BY <1>0, LocalsAre DEF Locals
  <1>2. PICK h \in Clients : h = Head(backlog)
    BY <1>0, <1>1
  <1>3. /\ h = backlog[1] /\ conn' = h /\ 1 \in 1..Len(backlog) /\ Len(backlog) \in Nat
        /\ Len(backlog') = Len(backlog) - 1
        /\ \A i \in 1..Len(backlog') : i + 1 \in 1..Len(backlog) /\ backlog'[i] = backlog[i + 1] /\ i + 1 # 1
    BY <1>0, <1>1, <1>2
  <1>4. /\ \A i, j \in 1..Len(backlog) : backlog[i] = backlog[j] => i = j
        /\ \A i \in 1..Len(backlog) : asked[backlog[i]] # <<>>
    BY DEF IInv, Queue
  <1>5. \A c \in Clients : c \in ToSet(backlog') <=> c \in ToSet(backlog) /\ c # h
    <2>1. ASSUME NEW c \in Clients, c \in ToSet(backlog') PROVE c \in ToSet(backlog) /\ c # h
      BY <1>3, <1>4, <2>1 DEF ToSet
    <2>2. ASSUME NEW c \in Clients, c \in ToSet(backlog), c # h PROVE c \in ToSet(backlog')
      <3>1. PICK i \in 1..Len(backlog) : backlog[i] = c
        BY <2>2 DEF ToSet
      <3> DEFINE j == i - 1
      <3>2. j \in 1..Len(backlog') /\ j + 1 = i
        BY <1>3, <2>2, <3>1
      <3> HIDE DEF j
      <3>3. backlog'[j] = c
        BY <1>3, <3>1, <3>2
      <3> QED BY <3>2, <3>3 DEF ToSet
    <2> QED BY <2>1, <2>2
  <1>6. h \notin Served
    BY <1>3 DEF Served, ToSet
  <1>7. Served' = Served \cup {h}
    BY <1>0, <1>3, <1>4, <1>5 DEF Served
  <1>8. Promise!Open(h)
    BY <1>0, <1>1, <1>3, <1>6, <1>7, OpenIs DEF Counted
  <1> QED BY <1>8

\* A response is the next one, and none before it ended the connection.
LEMMA ServiceAnswers ==
    ASSUME IInv, NotFound \/ Returned \/ ReturnedDict(0, "dict") \/ Failed
    PROVE  \E c \in Clients : Promise!Answer(c)
  <1>1. at = "action"
    BY DEF NotFound, Returned, ReturnedDict, Failed, Matched
  <1> DEFINE a == asked[conn]
             q == Len(replies[conn])
             r == [k |-> cur.k, read |-> cur.length, cut |-> cur.cut]
  <1>2. /\ conn \in Clients /\ q \in Nat /\ Len(a) \in Nat /\ q + 1 \in 1..Len(a) /\ NoneEnds(a, q)
        /\ cur \in [k : Nat, length : Nat, close : BOOLEAN, cut : BOOLEAN]
    BY <1>1, ActionIs
  <1>3. /\ replies' = [replies EXCEPT ![conn] = Append(@, r)]
        /\ conn' \in {conn, Nobody} /\ asked' = asked /\ backlog' = backlog
    BY DEF NotFound, Returned, ReturnedDict, Failed, Respond, HangUp, clientVars
  <1>4. r \in Reply /\ replies \in [Clients -> Seq(Reply)]
    BY <1>2 DEF Reply, IInv, Domains
  <1> HIDE DEF r
  <1>5. /\ replies' \in [Clients -> Seq(Reply)] /\ \A d \in Clients : d # conn => replies'[d] = replies[d]
        /\ Len(replies'[conn]) = q + 1
    BY <1>2, <1>3, <1>4, Responded
  <1>6. Counted' = [Counted EXCEPT ![conn] = @ + 1]
    BY <1>2, <1>5 DEF Counted
  <1>7. Counted[conn] < Len(asked[conn])
    BY <1>2 DEF Counted
  <1>8. \A i \in 1..Counted[conn] : asked[conn][i].ends = "none"
    BY <1>2 DEF Counted, NoneEnds
  <1>9. Served' = Served
    BY <1>3 DEF Served
  <1>10. PICK h \in Clients : h = conn
    BY <1>2
  <1>11. Promise!Answer(h)
    BY <1>3, <1>6, <1>7, <1>8, <1>9, <1>10, AnswerIs
  <1> QED BY <1>11

\* To ask is to ask; the connection is queued, not served.
LEMMA ServiceIsAsked ==
    ASSUME IInv, NEW c \in Clients, NEW r \in Requests[c], Ask(c, r)
    PROVE  Promise!Ask(c, r)
  <1>0. /\ asked' = [asked EXCEPT ![c] = Append(@, r)]
        /\ backlog' = IF asked[c] = <<>> THEN Append(backlog, c) ELSE backlog
        /\ replies' = replies /\ conn' = conn
    BY DEF Ask, Server
  <1>1. backlog \in Seq(Clients) /\ asked \in [Clients -> Seq(Request)] /\ r \in Request
    BY LocalsAre, ServeAssumption DEF Locals, IInv, Domains, Request
  <1>2. asked'[c] # <<>> /\ \A d \in Clients : d # c => asked'[d] = asked[d]
    BY <1>0, <1>1, AskedMore
  <1>3. asked[c] = <<>> =>
          /\ c \in ToSet(backlog')
          /\ \A d \in Clients : d # c => (d \in ToSet(backlog') <=> d \in ToSet(backlog))
    <2>1. SUFFICES ASSUME asked[c] = <<>>
                   PROVE  /\ c \in ToSet(backlog')
                          /\ \A d \in Clients : d # c => (d \in ToSet(backlog') <=> d \in ToSet(backlog))
      OBVIOUS
    <2>2. backlog' = Append(backlog, c)
      BY <1>0, <2>1
    <2>3. /\ Len(backlog') = Len(backlog) + 1 /\ Len(backlog) \in Nat /\ backlog'[Len(backlog) + 1] = c
          /\ \A i \in 1..Len(backlog) : backlog'[i] = backlog[i]
      BY <1>1, <2>2
    <2>4. c \in ToSet(backlog')
      BY <2>3 DEF ToSet
    <2>5. ASSUME NEW d \in Clients, d # c, d \in ToSet(backlog') PROVE d \in ToSet(backlog)
      BY <2>3, <2>5 DEF ToSet
    <2>6. ASSUME NEW d \in Clients, d \in ToSet(backlog) PROVE d \in ToSet(backlog')
      BY <2>3, <2>6 DEF ToSet
    <2> QED BY <2>4, <2>5, <2>6
  <1>4. Served' = Served
    BY <1>0, <1>2, <1>3 DEF Served
  <1>5. Counted' = Counted
    BY <1>0 DEF Counted
  <1> QED BY <1>0, <1>4, <1>5 DEF Promise!Ask, Counted, Served

\* Every step of the server is a step of its promise, or none.
LEMMA ServiceSteps ==
    ASSUME IInv, [Next]_vars
    PROVE  [Promise!Next]_(Promise!vars)
  <1>1. CASE Accept
    BY <1>1, ServiceOpens DEF Promise!Next
  <1>2. CASE NotFound \/ Returned \/ ReturnedDict(0, "dict") \/ Failed
    BY <1>2, ServiceAnswers DEF Promise!Next
  <1>3. CASE NoRequestLine \/ HeadersMissing \/ BodyMissing
    <2>1. at # "accept"
      BY <1>3 DEF NoRequestLine, HeadersMissing, BodyMissing
    <2>2. conn # Nobody
      BY <2>1, LocalsAre DEF Locals
    <2>3. asked' = asked /\ replies' = replies /\ backlog' = backlog /\ conn' = Nobody
      BY <1>3 DEF NoRequestLine, HeadersMissing, BodyMissing, HangUp, clientVars
    <2> QED BY <2>2, <2>3, ServiceHangsUp DEF Promise!Next
  <1>4. CASE Fill \/ SkipEmptyLine \/ RequestLine \/ HeaderLine \/ HeadersEnd \/ Body
    <2>1. asked' = asked /\ replies' = replies /\ backlog' = backlog /\ conn' = conn
      BY <1>4 DEF Fill, SkipEmptyLine, RequestLine, HeaderLine, HeadersEnd, Body, clientVars
    <2> QED BY <2>1, ServiceRests
  <1>5. ASSUME NEW type, NEW s, Emit(type, s) PROVE [Promise!Next]_(Promise!vars)
    <2>1. asked' = asked /\ replies' = replies /\ backlog' = backlog /\ conn' = conn
      BY <1>5 DEF Emit, clientVars
    <2> QED BY <2>1, ServiceRests
  <1>6. ASSUME NEW c \in Clients, NEW r \in Requests[c], Ask(c, r) PROVE [Promise!Next]_(Promise!vars)
    <2>1. Promise!Ask(c, r)
      BY <1>6, ServiceIsAsked
    <2>2. r \in UNION {Requests[d] : d \in Clients}
      OBVIOUS
    <2> QED BY <2>1, <2>2 DEF Promise!Next
  <1>7. ASSUME NEW c, SendRest(c) \/ Close(c) PROVE [Promise!Next]_(Promise!vars)
    <2>1. asked' = asked /\ replies' = replies /\ backlog' = backlog /\ conn' = conn
      BY <1>7 DEF SendRest, Close, Server
    <2> QED BY <2>1, ServiceRests
  <1>8. CASE UNCHANGED vars
    <2>1. asked' = asked /\ replies' = replies /\ backlog' = backlog /\ conn' = conn
      BY <1>8 DEF vars, clientVars
    <2> QED BY <2>1, ServiceRests
  <1> QED BY <1>1, <1>2, <1>3, <1>4, <1>5, <1>6, <1>7, <1>8 DEF Next, ServerStep

\* ImplementsService: serve keeps the promise of module Service, one connection
\* at a time, its requests answered in order, up to the one that ends it.
THEOREM ServeImplementsService == Spec => ImplementsService
  <1>1. Init => Promise!Init
    BY ServiceStarts
  <1>2. IInv /\ [Next]_vars => [Promise!Next]_(Promise!vars)
    BY ServiceSteps
  <1> QED BY <1>1, <1>2, ServeInvariant, PTL DEF Spec, ImplementsService, Promise!Spec
=============================================================================
