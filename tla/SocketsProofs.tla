--------------------------- MODULE SocketsProofs ---------------------------
(***************************************************************************)
(* Proofs about Sockets, for any messages, sizes and number of calls, and  *)
(* however the kernel cuts the stream up: types, and that a short line     *)
(* comes out whole, once and in its place.                                 *)
(***************************************************************************)
EXTENDS Sockets, SequenceTheorems, FiniteSetTheorems,
        WellFoundedInduction, TLAPS

\* The bytes of s are those of w behind position p.
Fits(w, p, s) == p + Len(s) <= Len(w) /\ \A i \in 1..Len(s) : w[p + i] = s[i]

\* What a send has still to write are the last bytes of w, those behind q.
Unsent(w, q, pieces) ==
    \/ pieces = <<>> /\ q <= Len(w)
    \/ /\ Len(pieces) = 1
       /\ Fits(w, q, pieces[1]) /\ q + Len(pieces[1]) = Len(w)
    \/ /\ Len(pieces) = 2
       /\ Fits(w, q, pieces[1]) /\ Fits(w, q + Len(pieces[1]), pieces[2])
       /\ q + Len(pieces[1]) + Len(pieces[2]) = Len(w)

\* The receiver has taken p bytes out of its buffer; what it has buffered, the
\* wire and the sender's pieces follow in order.
Follows(p) ==
    LET q == p + Len(rbuf)
        e == q + Len(wire)
    IN  /\ Fits(written, p, rbuf) /\ Fits(written, q, wire)
        /\ Unsent(written, e, sending)
        /\ out /\ sending = <<>> => e = Len(written)

\* Every line that was taken ends among the p bytes, and the last of them is
\* the last line feed there.
LinesTaken(p) ==
    /\ \A l \in 1..lines : LET e == LineEnd(written, l) IN
          e \in 1..p /\ written[e] = LF /\ Feeds(written, e) = l
    /\ LineEnd(written, lines) <= p
    /\ \A i \in (LineEnd(written, lines) + 1)..p : written[i] # LF

\* Of the line that is being read nothing was taken, or its head was returned,
\* as long as was asked for, and the line goes on.
HeadTaken(p) ==
    IF Results(lines + 1) = {} THEN p = LineEnd(written, lines)
    ELSE /\ \E i \in Results(lines + 1) : got[i].max <= p - LineEnd(written, lines)
         /\ p < Len(written) /\ written[p + 1] # LF

Taken(p) == p \in 0..Len(written) /\ LinesTaken(p) /\ HeadTaken(p) /\ (~Gone => Follows(p))

\* One result is for a line that is over and short.
WholeLine(l) ==
    (\A i \in Results(l) : Len(LineText(l)) < got[i].max) =>
        \E i \in 1..Len(got) : Results(l) = {i} /\ got[i].text = LineText(l)

\* Who can do what when.
Links ==
    /\ link \in {"none", "listening"} => written = <<>>
    /\ inn => link = "accepted"
    /\ out => link \in {"connected", "accepted"}
    /\ sending # <<>> => out

\* A call that runs asks for some bytes.
Asks == Running => inn /\ call.max \in Sizes

\* No result is for a line further on than the one that is being read.
ResultsSoFar == \A i \in 1..Len(got) : got[i].line <= lines + 1

IInv ==
    /\ TypeOK /\ Links /\ Asks /\ ResultsSoFar
    /\ \A l \in 1..lines : WholeLine(l)
    /\ \E p \in 0..Len(written) : Taken(p)

-----------------------------------------------------------------------------
(* Sequences of bytes                                                      *)

\* A part of a sequence.
LEMMA Part ==
    ASSUME NEW s \in Seq(Bytes), NEW j \in 1..(Len(s) + 1), NEW k \in (j - 1)..Len(s)
    PROVE  /\ SubSeq(s, j, k) \in Seq(Bytes)
           /\ Len(SubSeq(s, j, k)) = k - j + 1
           /\ \A i \in 1..(k - j + 1) : SubSeq(s, j, k)[i] = s[j + i - 1]
<1>0. Len(s) \in Nat /\ j \in Nat /\ k \in Nat /\ k - j + 1 \in Nat
  OBVIOUS
<1>1. \A i \in 1..(k - j + 1) : j + i - 1 \in 1..Len(s)
  BY <1>0
<1>2. SubSeq(s, j, k) = [i \in 1..(k - j + 1) |-> s[j + i - 1]]
  OBVIOUS
<1>3. \A i \in 1..(k - j + 1) : s[j + i - 1] \in Bytes
  BY <1>1
<1> DEFINE n == k - j + 1
           r == SubSeq(s, j, k)
<1>4. n \in Nat /\ r = [i \in 1..n |-> s[j + i - 1]] /\ \A i \in 1..n : s[j + i - 1] \in Bytes
  BY <1>0, <1>2, <1>3
<1> HIDE DEF n, r
<1>5. r \in [1..n -> Bytes]
  BY <1>4
<1>6. r \in Seq(Bytes) /\ Len(r) = n
  BY <1>4, <1>5
<1> QED BY <1>4, <1>6 DEF n, r

\* A sequence behind another.
LEMMA Joined ==
    ASSUME NEW s \in Seq(Bytes), NEW t \in Seq(Bytes)
    PROVE  /\ s \o t \in Seq(Bytes)
           /\ Len(s \o t) = Len(s) + Len(t)
           /\ \A i \in 1..Len(s) : (s \o t)[i] = s[i]
           /\ \A i \in 1..Len(t) : (s \o t)[Len(s) + i] = t[i]
<1>1. /\ Len(s) \in Nat /\ Len(t) \in Nat /\ s \o t \in Seq(Bytes)
      /\ Len(s \o t) = Len(s) + Len(t)
      /\ \A i \in 1..(Len(s) + Len(t)) : (s \o t)[i] = IF i <= Len(s) THEN s[i] ELSE t[i - Len(s)]
  BY ConcatProperties, LenProperties
<1>2. \A i \in 1..Len(t) : Len(s) + i \in 1..(Len(s) + Len(t)) /\ ~(Len(s) + i <= Len(s))
                           /\ (Len(s) + i) - Len(s) = i
  BY <1>1
<1>3. \A i \in 1..Len(s) : i \in 1..(Len(s) + Len(t)) /\ i <= Len(s)
  BY <1>1
<1> QED BY <1>1, <1>2, <1>3

\* Sequences of one length with the same bytes are the same.
LEMMA SameBytes ==
    ASSUME NEW s \in Seq(Bytes), NEW t \in Seq(Bytes), Len(s) = Len(t),
           \A i \in 1..Len(s) : s[i] = t[i]
    PROVE  s = t
  BY SeqEqual

\* Bytes that fit still do in two parts.
LEMMA FitsCut ==
    ASSUME NEW w \in Seq(Bytes), NEW p \in Nat, NEW s \in Seq(Bytes), Fits(w, p, s),
           NEW k \in 0..Len(s)
    PROVE  /\ SubSeq(s, 1, k) \in Seq(Bytes) /\ Len(SubSeq(s, 1, k)) = k
           /\ SubSeq(s, k + 1, Len(s)) \in Seq(Bytes)
           /\ Len(SubSeq(s, k + 1, Len(s))) = Len(s) - k
           /\ Fits(w, p, SubSeq(s, 1, k))
           /\ Fits(w, p + k, SubSeq(s, k + 1, Len(s)))
<1> DEFINE n == Len(s)
           a == SubSeq(s, 1, k)
           b == SubSeq(s, k + 1, n)
<1>0. n \in Nat /\ Len(w) \in Nat /\ k \in Nat /\ k <= n
  OBVIOUS
<1>1. a \in Seq(Bytes) /\ Len(a) = k /\ \A i \in 1..k : a[i] = s[i]
  <2>1. 1 \in 1..(n + 1) /\ k \in (1 - 1)..n /\ k - 1 + 1 = k /\ \A i \in 1..k : 1 + i - 1 = i
    BY <1>0
  <2> QED BY <2>1, Part
<1>2. b \in Seq(Bytes) /\ Len(b) = n - k /\ \A i \in 1..(n - k) : b[i] = s[k + i]
  <2> DEFINE c == k + 1
  <2>1. /\ c \in 1..(Len(s) + 1) /\ Len(s) \in (c - 1)..Len(s)
        /\ Len(s) - c + 1 = n - k /\ \A i \in 1..(n - k) : c + i - 1 = k + i
    BY <1>0
  <2>2. b = SubSeq(s, c, Len(s))
    OBVIOUS
  <2> HIDE DEF c, b, n
  <2>3. /\ b \in Seq(Bytes) /\ Len(b) = Len(s) - c + 1
        /\ \A i \in 1..(Len(s) - c + 1) : b[i] = s[c + i - 1]
    BY <2>1, <2>2, Part
  <2> QED BY <2>1, <2>3
<1>3. p + n <= Len(w) /\ \A i \in 1..n : w[p + i] = s[i]
  BY DEF Fits
<1> HIDE DEF a, b, n
<1>4. Fits(w, p, a)
  <2>1. p + k <= Len(w) /\ \A i \in 1..k : i \in 1..n
    BY <1>0, <1>3
  <2>2. \A i \in 1..k : w[p + i] = a[i]
    BY <1>1, <1>3, <2>1
  <2> QED BY <1>1, <2>1, <2>2 DEF Fits
<1>5. Fits(w, p + k, b)
  <2>1. \A i \in 1..(n - k) : k + i \in 1..n /\ p + (k + i) = (p + k) + i
    BY <1>0
  <2>2. \A i \in 1..(n - k) : w[(p + k) + i] = b[i]
    BY <1>2, <1>3, <2>1
  <2> QED BY <1>0, <1>2, <1>3, <2>2 DEF Fits
<1> QED BY <1>1, <1>2, <1>4, <1>5 DEF a, b, n

\* Bytes that fit one behind the other fit together.
LEMMA FitsJoined ==
    ASSUME NEW w \in Seq(Bytes), NEW p \in Nat, NEW s \in Seq(Bytes), NEW t \in Seq(Bytes),
           Fits(w, p, s), Fits(w, p + Len(s), t)
    PROVE  Fits(w, p, s \o t)
<1> DEFINE n == Len(s)
           m == Len(t)
           r == s \o t
<1>1. /\ n \in Nat /\ m \in Nat /\ Len(r) = n + m /\ Len(w) \in Nat
      /\ \A i \in 1..n : r[i] = s[i]
      /\ \A i \in 1..m : r[n + i] = t[i]
  BY Joined, LenProperties
<1>2. p + n <= Len(w) /\ \A i \in 1..n : w[p + i] = s[i]
  BY DEF Fits
<1>3. (p + n) + m <= Len(w) /\ \A i \in 1..m : w[(p + n) + i] = t[i]
  BY DEF Fits
<1> HIDE DEF n, m, r
<1>4. ASSUME NEW i \in 1..(n + m) PROVE w[p + i] = r[i]
  <2>1. CASE i \in 1..n
    BY <1>1, <1>2, <2>1
  <2>2. CASE i \notin 1..n
    <3>1. i - n \in 1..m /\ (p + n) + (i - n) = p + i /\ n + (i - n) = i
      BY <1>1, <2>2
    <3> QED BY <1>1, <1>3, <3>1
  <2> QED BY <2>1, <2>2
<1> QED BY <1>1, <1>3, <1>4 DEF Fits, r

\* w goes on behind what it was.
Extends(v, w) == Len(w) <= Len(v) /\ \A i \in 1..Len(w) : v[i] = w[i]

\* What fits still does when more is written.
LEMMA FitsMore ==
    ASSUME NEW w \in Seq(Bytes), NEW v \in Seq(Bytes), Extends(v, w),
           NEW p \in Nat, NEW s \in Seq(Bytes), Fits(w, p, s)
    PROVE  Fits(v, p, s)
<1>1. /\ Len(w) \in Nat /\ Len(v) \in Nat /\ Len(s) \in Nat /\ Len(w) <= Len(v)
      /\ \A i \in 1..Len(w) : v[i] = w[i]
      /\ p + Len(s) <= Len(w) /\ \A i \in 1..Len(s) : w[p + i] = s[i]
  BY DEF Extends, Fits
<1>2. \A i \in 1..Len(s) : p + i \in 1..Len(w)
  BY <1>1
<1> QED BY <1>1, <1>2 DEF Fits

-----------------------------------------------------------------------------
(* Line feeds                                                              *)

\* Counts of line feeds are numbers.
LEMMA FeedsFinite ==
    ASSUME NEW w, NEW n \in Nat
    PROVE  Feeds(w, n) \in Nat /\ IsFiniteSet({i \in 1..n : w[i] = LF})
<1>1. IsFiniteSet(1..n)
  BY FS_Interval
<1>2. {i \in 1..n : w[i] = LF} \subseteq 1..n
  OBVIOUS
<1> QED BY <1>1, <1>2, FS_Subset, FS_CardinalityType DEF Feeds

\* Nothing is counted where there is none.
LEMMA FeedsNone ==
    ASSUME NEW w, NEW n \in Nat, NEW m \in Nat, n <= m, \A i \in (n + 1)..m : w[i] # LF
    PROVE  Feeds(w, m) = Feeds(w, n)
<1>1. \A i \in 1..m : i \in 1..n \/ i \in (n + 1)..m
  OBVIOUS
<1>2. {i \in 1..m : w[i] = LF} = {i \in 1..n : w[i] = LF}
  BY <1>1
<1> QED BY <1>2 DEF Feeds

\* Each is counted once.
LEMMA FeedsOne ==
    ASSUME NEW w, NEW n \in Nat, w[n + 1] = LF
    PROVE  Feeds(w, n + 1) = Feeds(w, n) + 1
<1> DEFINE T == {i \in 1..n : w[i] = LF}
<1>1. {i \in 1..(n + 1) : w[i] = LF} = T \cup {n + 1}
  <2>1. \A i : i \in 1..(n + 1) <=> i \in 1..n \/ i = n + 1
    OBVIOUS
  <2> QED BY <2>1
<1>2. IsFiniteSet(T) /\ n + 1 \notin T
  <2>1. IsFiniteSet(T)
    BY FeedsFinite
  <2>2. n + 1 \notin 1..n
    OBVIOUS
  <2> QED BY <2>1, <2>2
<1> HIDE DEF T
<1>3. Cardinality(T \cup {n + 1}) = Cardinality(T) + 1
  BY <1>2, FS_AddElement
<1> QED BY <1>1, <1>3 DEF Feeds, T

\* A count never falls, and rises at each line feed.
LEMMA FeedsRise ==
    ASSUME NEW w, NEW n \in Nat, NEW m \in Nat, n < m, w[m] = LF
    PROVE  Feeds(w, n) < Feeds(w, m)
<1>1. m - 1 \in Nat /\ (m - 1) + 1 = m /\ n <= m - 1
  OBVIOUS
<1>2. Feeds(w, m) = Feeds(w, m - 1) + 1
  BY <1>1, FeedsOne
<1>3. {i \in 1..n : w[i] = LF} \subseteq {i \in 1..(m - 1) : w[i] = LF}
  BY <1>1
<1>4. Feeds(w, n) <= Feeds(w, m - 1)
  <2>1. IsFiniteSet({i \in 1..(m - 1) : w[i] = LF})
    BY <1>1, FeedsFinite
  <2> QED BY <1>3, <2>1, FS_Subset DEF Feeds
<1>5. Feeds(w, n) \in Nat /\ Feeds(w, m - 1) \in Nat
  BY <1>1, FeedsFinite
<1> QED BY <1>2, <1>4, <1>5

\* A line ends in one place.
LEMMA LineEndIs ==
    ASSUME NEW w \in Seq(Bytes), NEW e \in 1..Len(w), w[e] = LF
    PROVE  Feeds(w, e) \in Nat \ {0} /\ LineEnd(w, Feeds(w, e)) = e
<1>0. e \in Nat /\ Len(w) \in Nat /\ 0 < e
  OBVIOUS
<1>1. Feeds(w, 0) < Feeds(w, e) /\ Feeds(w, 0) \in Nat /\ Feeds(w, e) \in Nat
  BY <1>0, FeedsRise, FeedsFinite
<1>2. ASSUME NEW i \in 1..Len(w), w[i] = LF, Feeds(w, i) = Feeds(w, e) PROVE i = e
  <2>0. i \in Nat
    OBVIOUS
  <2>1. ~(i < e)
    BY <1>0, <1>1, <1>2, <2>0, FeedsRise
  <2>2. ~(e < i)
    BY <1>0, <1>1, <1>2, <2>0, FeedsRise
  <2> QED BY <1>0, <2>0, <2>1, <2>2
<1>3. Feeds(w, e) # 0
  BY <1>1
<1>4. LineEnd(w, Feeds(w, e)) = CHOOSE i \in 1..Len(w) : w[i] = LF /\ Feeds(w, i) = Feeds(w, e)
  BY <1>3 DEF LineEnd
<1>5. (CHOOSE i \in 1..Len(w) : w[i] = LF /\ Feeds(w, i) = Feeds(w, e)) = e
  BY <1>2
<1> QED BY <1>1, <1>3, <1>4, <1>5

\* It still ends there when more is written.
LEMMA LineEndMore ==
    ASSUME NEW w \in Seq(Bytes), NEW v \in Seq(Bytes), Extends(v, w),
           NEW l \in Nat \ {0}, LineEnd(w, l) \in 1..Len(w), w[LineEnd(w, l)] = LF,
           Feeds(w, LineEnd(w, l)) = l
    PROVE  /\ LineEnd(v, l) = LineEnd(w, l) /\ v[LineEnd(w, l)] = LF
           /\ Feeds(v, LineEnd(w, l)) = l
<1> DEFINE e == LineEnd(w, l)
<1>1. e \in 1..Len(w) /\ w[e] = LF /\ Feeds(w, e) = l
  OBVIOUS
<1>2. Len(w) \in Nat /\ Len(v) \in Nat /\ Len(w) <= Len(v) /\ \A i \in 1..Len(w) : v[i] = w[i]
  BY DEF Extends
<1> HIDE DEF e
<1>3. \A i \in 1..e : i \in 1..Len(w)
  BY <1>1, <1>2
<1>4. {i \in 1..e : v[i] = LF} = {i \in 1..e : w[i] = LF}
  BY <1>2, <1>3
<1>5. Feeds(v, e) = l /\ e \in 1..Len(v) /\ v[e] = LF
  <2>1. Feeds(v, e) = Feeds(w, e)
    BY <1>4 DEF Feeds
  <2> QED BY <1>1, <1>2, <2>1
<1>6. LineEnd(v, l) = e
  BY <1>5, LineEndIs
<1> QED BY <1>5, <1>6 DEF e
-----------------------------------------------------------------------------
(* The operators of the model                                              *)

\* The first line feed, if there is one.
LEMMA FirstLFIs ==
    ASSUME NEW s \in Seq(Bytes)
    PROVE  \/ FirstLF(s) = 0 /\ \A i \in 1..Len(s) : s[i] # LF
           \/ /\ FirstLF(s) \in 1..Len(s) /\ s[FirstLF(s)] = LF
              /\ \A i \in 1..(FirstLF(s) - 1) : s[i] # LF
<1> DEFINE at == {i \in 1..Len(s) : s[i] = LF}
<1>0. Len(s) \in Nat /\ at \in SUBSET Nat
  OBVIOUS
<1>1. CASE at = {}
  BY <1>1 DEF FirstLF
<1>2. CASE at # {}
  <2>1. \E m \in at : \A j \in at : m <= j
    <3>1. PICK m \in at : \A n \in at : ~(<<n, m>> \in OpToRel(<, Nat))
      <4> HIDE DEF at
      <4> QED BY <1>0, <1>2, NatLessThanWellFounded, WFMin
    <3>2. \A n \in at : n \in Nat /\ m \in Nat
      OBVIOUS
    <3> HIDE DEF at
    <3>3. \A n \in at : ~(n < m)
      BY <3>1, <3>2 DEF OpToRel
    <3> QED BY <3>2, <3>3
  <2>2. FirstLF(s) = CHOOSE m \in at : \A j \in at : m <= j
    BY <1>2 DEF FirstLF
  <2>3. FirstLF(s) \in at /\ \A j \in at : FirstLF(s) <= j
    <3> HIDE DEF at
    <3> QED BY <2>1, <2>2
  <2>4. ASSUME NEW i \in 1..(FirstLF(s) - 1) PROVE s[i] # LF
    <3>1. FirstLF(s) \in 1..Len(s)
      BY <2>3
    <3>2. i \in 1..Len(s) /\ ~(FirstLF(s) <= i)
      BY <1>0, <3>1
    <3> QED BY <2>3, <3>2
  <2> QED BY <2>3, <2>4
<1> QED BY <1>1, <1>2

\* A carriage return at the end is dropped, and no more.
LEMMA ChompIs ==
    ASSUME NEW s \in Seq(Bytes)
    PROVE  Chomp(s) \in Seq(Bytes) /\ Len(Chomp(s)) \in Nat /\ Len(Chomp(s)) >= Len(s) - 1
<1>0. Len(s) \in Nat
  OBVIOUS
<1>1. CASE s # <<>> /\ Last(s) = CR
  <2>1. Len(s) # 0
    BY <1>1, EmptySeq
  <2>2. 1 \in 1..(Len(s) + 1) /\ Len(s) - 1 \in (1 - 1)..Len(s)
    BY <1>0, <2>1
  <2>3. SubSeq(s, 1, Len(s) - 1) \in Seq(Bytes) /\ Len(SubSeq(s, 1, Len(s) - 1)) = Len(s) - 1
    <3> DEFINE k == Len(s) - 1
    <3>1. k \in (1 - 1)..Len(s) /\ k - 1 + 1 = k
      BY <1>0, <2>1
    <3> HIDE DEF k
    <3>2. SubSeq(s, 1, k) \in Seq(Bytes) /\ Len(SubSeq(s, 1, k)) = k
      BY <2>2, <3>1, Part
    <3> QED BY <3>2 DEF k
  <2>4. Chomp(s) = SubSeq(s, 1, Len(s) - 1)
    BY <1>1 DEF Chomp, Front
  <2> QED BY <1>0, <2>1, <2>3, <2>4
<1>2. CASE ~(s # <<>> /\ Last(s) = CR)
  BY <1>0, <1>2 DEF Chomp
<1> QED BY <1>1, <1>2

\* What is not too long is not cut.
LEMMA CutIs ==
    ASSUME NEW s \in Seq(Bytes), NEW max \in Nat
    PROVE  Cut(s, max) \in Seq(Bytes) /\ (Len(s) <= max => Cut(s, max) = s)
<1> DEFINE k == IF Len(s) > max THEN max ELSE Len(s)
<1>1. k \in 0..Len(s) /\ Len(s) \in Nat
  OBVIOUS
<1>2. Cut(s, max) = SubSeq(s, 1, k)
  BY DEF Cut
<1>3. Len(s) <= max => k = Len(s)
  OBVIOUS
<1> HIDE DEF k
<1>4. /\ SubSeq(s, 1, k) \in Seq(Bytes) /\ Len(SubSeq(s, 1, k)) = k
      /\ \A i \in 1..k : SubSeq(s, 1, k)[i] = s[i]
  <2>1. 1 \in 1..(Len(s) + 1) /\ k \in (1 - 1)..Len(s) /\ k - 1 + 1 = k
        /\ \A i \in 1..k : 1 + i - 1 = i
    BY <1>1
  <2> QED BY <2>1, Part
<1>5. ASSUME k = Len(s) PROVE SubSeq(s, 1, k) = s
  BY <1>4, <1>5, SameBytes
<1> QED BY <1>2, <1>3, <1>4, <1>5

Chunk == Seq(Bytes) \ {<<>>}

\* What is left to write when k bytes of the first piece are.
LEMMA RestIs ==
    ASSUME sending \in Seq(Chunk), sending # <<>>, NEW k \in 1..Len(sending[1])
    PROVE  /\ sending[1] \in Chunk /\ Len(sending) \in Nat \ {0}
           /\ Rest(k) \in Seq(Chunk)
           /\ k = Len(sending[1]) =>
                /\ Len(Rest(k)) = Len(sending) - 1
                /\ \A i \in 1..(Len(sending) - 1) : Rest(k)[i] = sending[i + 1]
           /\ k # Len(sending[1]) =>
                /\ Len(Rest(k)) = Len(sending)
                /\ Rest(k)[1] = SubSeq(sending[1], k + 1, Len(sending[1]))
                /\ \A i \in 2..Len(sending) : Rest(k)[i] = sending[i]
<1>1. Len(sending) \in Nat /\ Len(sending) # 0 /\ 1 \in 1..Len(sending)
  BY EmptySeq
<1>2. sending[1] \in Chunk
  BY <1>1, ElementOfSeq
<1>3. CASE k = Len(sending[1])
  <2>1. Rest(k) = Tail(sending)
    BY <1>3 DEF Rest
  <2>2. /\ Tail(sending) \in Seq(Chunk) /\ Len(Tail(sending)) = Len(sending) - 1
        /\ \A i \in 1..(Len(sending) - 1) : Tail(sending)[i] = sending[i + 1]
    OBVIOUS
  <2> QED BY <1>1, <1>2, <1>3, <2>1, <2>2
<1>4. CASE k # Len(sending[1])
  <2> DEFINE a == sending[1]
             b == SubSeq(a, k + 1, Len(a))
  <2>1. a \in Seq(Bytes) /\ Len(a) \in Nat /\ k \in 0..Len(a) /\ Len(a) - k # 0
    BY <1>2, <1>4 DEF Chunk
  <2>2. b \in Chunk
    <3>1. Fits(a, 0, a)
      <4> HIDE DEF a
      <4> QED BY <2>1 DEF Fits
    <3> HIDE DEF a
    <3>2. b \in Seq(Bytes) /\ Len(b) = Len(a) - k
      BY <2>1, <3>1, FitsCut
    <3>3. b # <<>>
      BY <2>1, <3>2, EmptySeq
    <3> QED BY <3>2, <3>3 DEF Chunk
  <2>3. Rest(k) = [sending EXCEPT ![1] = b]
    BY <1>4 DEF Rest
  <2> HIDE DEF b
  <2>4. /\ Rest(k) \in Seq(Chunk) /\ Len(Rest(k)) = Len(sending) /\ Rest(k)[1] = b
        /\ \A i \in 2..Len(sending) : Rest(k)[i] = sending[i]
    BY <1>1, <2>2, <2>3, ExceptSeq
  <2> QED BY <1>1, <1>2, <1>4, <2>4 DEF b
<1> QED BY <1>3, <1>4

\* Two elements.
LEMMA Pair ==
    ASSUME NEW a, NEW b
    PROVE  <<a>> \o <<b>> = <<a, b>>
<1> DEFINE S == {a, b}
<1>1. <<a>> \in Seq(S) /\ <<b>> \in Seq(S) /\ <<a, b>> \in Seq(S)
  OBVIOUS
<1>2. Len(<<a>>) = 1 /\ Len(<<b>>) = 1 /\ Len(<<a, b>>) = 2
  OBVIOUS
<1>3. /\ <<a>> \o <<b>> \in Seq(S) /\ Len(<<a>> \o <<b>>) = 1 + 1
      /\ \A i \in 1..(1 + 1) : (<<a>> \o <<b>>)[i] = IF i <= 1 THEN <<a>>[i] ELSE <<b>>[i - 1]
  BY <1>1, <1>2, ConcatProperties
<1>4. (<<a>> \o <<b>>)[1] = a /\ (<<a>> \o <<b>>)[2] = b
  BY <1>3
<1>5. \A i \in 1..2 : (<<a>> \o <<b>>)[i] = <<a, b>>[i]
  BY <1>4
<1> DEFINE s == <<a>> \o <<b>>
           t == <<a, b>>
<1> HIDE DEF S
<1>6. s \in Seq(S) /\ t \in Seq(S) /\ Len(s) = Len(t) /\ Len(s) = 2
  BY <1>1, <1>2, <1>3
<1> HIDE DEF s, t
<1>7. \A i \in 1..Len(s) : s[i] = t[i]
  BY <1>5, <1>6 DEF s, t
<1>8. s = t
  BY <1>6, <1>7, SeqEqual
<1> QED BY <1>8 DEF s, t

\* What a send is to write, piece by piece.
LEMMA PiecesAre ==
    ASSUME NEW m \in Messages, NEW ended \in BOOLEAN
    PROVE  /\ m \in Seq(Bytes) /\ Ending(ended) \in Seq(Bytes)
           /\ \/ Piece(m) \o Piece(Ending(ended)) = <<>> /\ m = <<>> /\ Ending(ended) = <<>>
              \/ Piece(m) \o Piece(Ending(ended)) = <<m>> /\ m # <<>> /\ Ending(ended) = <<>>
              \/ /\ Piece(m) \o Piece(Ending(ended)) = <<Ending(ended)>>
                 /\ m = <<>> /\ Ending(ended) # <<>>
              \/ /\ Piece(m) \o Piece(Ending(ended)) = <<m, Ending(ended)>>
                 /\ m # <<>> /\ Ending(ended) # <<>>
<1>1. m \in Seq(Bytes)
  BY SocketsAssumption
<1>2. Ending(ended) \in Seq(Bytes)
  BY DEF Ending, Bytes, CR, LF
<1> DEFINE z == Ending(ended)
<1> HIDE DEF z
<1>3. \/ Piece(m) \o Piece(z) = <<>> /\ m = <<>> /\ z = <<>>
      \/ Piece(m) \o Piece(z) = <<m>> /\ m # <<>> /\ z = <<>>
      \/ Piece(m) \o Piece(z) = <<z>> /\ m = <<>> /\ z # <<>>
      \/ Piece(m) \o Piece(z) = <<m, z>> /\ m # <<>> /\ z # <<>>
  <2>1. CASE m = <<>> /\ z = <<>>
    <3>1. Piece(m) = <<>> /\ Piece(z) = <<>>
      BY <2>1 DEF Piece
    <3>2. Piece(m) \o Piece(z) = <<>>
      BY <3>1
    <3> QED BY <2>1, <3>2
  <2>2. CASE m # <<>> /\ z = <<>>
    <3>1. Piece(m) = <<m>> /\ Piece(z) = <<>> /\ <<m>> \in Seq({m})
      BY <2>2 DEF Piece
    <3>2. Piece(m) \o Piece(z) = <<m>>
      BY <3>1, ConcatEmptySeq
    <3> QED BY <2>2, <3>2
  <2>3. CASE m = <<>> /\ z # <<>>
    <3>1. Piece(m) = <<>> /\ Piece(z) = <<z>> /\ <<z>> \in Seq({z})
      BY <2>3 DEF Piece
    <3>2. Piece(m) \o Piece(z) = <<z>>
      BY <3>1, ConcatEmptySeq
    <3> QED BY <2>3, <3>2
  <2>4. CASE m # <<>> /\ z # <<>>
    <3>1. Piece(m) = <<m>> /\ Piece(z) = <<z>>
      BY <2>4 DEF Piece
    <3>2. Piece(m) \o Piece(z) = <<m, z>>
      BY <3>1, Pair
    <3> QED BY <2>4, <3>2
  <2> QED BY <2>1, <2>2, <2>3, <2>4
<1> QED BY <1>1, <1>2, <1>3 DEF z
-----------------------------------------------------------------------------
(* Types                                                                   *)

Result == [text : Seq(Bytes), line : Nat, max : Sizes]

\* At the start everything is of its type and nothing is asked.
LEMMA InitTyped == Init => TypeOK /\ Asks
<1>1. 0 \in 0..MaxSends /\ WireSize \in Nat
  BY SocketsAssumption
<1>2. \A S : <<>> \in Seq(S) /\ Len(<<>>) = 0
  OBVIOUS
<1>3. None \in [max : Sizes \cup {0}, timed : BOOLEAN]
  BY DEF None
<1> SUFFICES ASSUME Init PROVE TypeOK /\ Asks
  OBVIOUS
<1>4. /\ link = "none" /\ out = FALSE /\ inn = FALSE /\ sending = <<>> /\ wire = <<>>
      /\ rbuf = <<>> /\ call = None /\ written = <<>> /\ got = <<>> /\ lines = 0 /\ sends = 0
  BY DEF Init
<1>5. /\ sending \in Seq(Seq(Bytes) \ {<<>>}) /\ wire \in Seq(Bytes)
      /\ rbuf \in Seq(Bytes) /\ written \in Seq(Bytes)
      /\ got \in Seq([text : Seq(Bytes), line : Nat, max : Sizes])
  BY <1>2, <1>4
<1>6. Len(wire) <= WireSize
  BY <1>1, <1>2, <1>4
<1>7. call \in [max : Sizes \cup {0}, timed : BOOLEAN] /\ ~Running
  BY <1>3, <1>4 DEF Running
<1> QED BY <1>1, <1>4, <1>5, <1>6, <1>7 DEF TypeOK, Asks

\* What a returning call leaves.
LEMMA ReturnsType ==
    ASSUME TypeOK, Asks, Running, NEW text \in Seq(Bytes), Returns(text)
    PROVE  /\ got' \in Seq(Result) /\ call' = None
           /\ Len(got') = Len(got) + 1 /\ Len(got) \in Nat
           /\ \A i \in 1..Len(got) : got'[i] = got[i]
           /\ got'[Len(got) + 1] = [text |-> text, line |-> lines + 1, max |-> call.max]
<1> DEFINE g == [text |-> text, line |-> lines + 1, max |-> call.max]
<1>1. g \in Result /\ got \in Seq(Result)
  BY DEF TypeOK, Asks, Result
<1>2. got' = Append(got, g) /\ call' = None
  BY DEF Returns
<1> HIDE DEF g
<1>3. /\ Append(got, g) \in Seq(Result) /\ Len(Append(got, g)) = Len(got) + 1
      /\ \A i \in 1..Len(got) : Append(got, g)[i] = got[i]
      /\ Append(got, g)[Len(got) + 1] = g /\ Len(got) \in Nat
  BY <1>1, AppendProperties, LenProperties
<1> QED BY <1>2, <1>3 DEF g

\* What a receiver takes out of its buffer, and what stays.
LEMMA BufferParts ==
    ASSUME NEW b \in Seq(Bytes), NEW k \in 0..Len(b)
    PROVE  /\ SubSeq(b, 1, k) \in Seq(Bytes) /\ Len(SubSeq(b, 1, k)) = k
           /\ SubSeq(b, k + 1, Len(b)) \in Seq(Bytes)
           /\ Len(SubSeq(b, k + 1, Len(b))) = Len(b) - k
<1>1. Fits(b, 0, b) /\ 0 \in Nat
  BY DEF Fits
<1> QED BY <1>1, FitsCut

\* Every step keeps the types and what a running call asks.
LEMMA TypeNext == TypeOK /\ Asks /\ [Next]_vars => TypeOK' /\ Asks'
<1> SUFFICES ASSUME TypeOK, Asks, [Next]_vars PROVE TypeOK' /\ Asks'
  OBVIOUS
<1>0. /\ Sizes \subseteq Nat \ {0} /\ MaxSends \in Nat /\ WireSize \in Nat \ {0}
  BY SocketsAssumption
<1>k. /\ sending \in Seq(Chunk) /\ rbuf \in Seq(Bytes) /\ wire \in Seq(Bytes)
      /\ Len(rbuf) \in Nat /\ Len(wire) \in Nat /\ Len(wire) <= WireSize
  BY DEF TypeOK, Chunk
<1>e. \A S : <<>> \in Seq(S) /\ Len(<<>>) = 0
  OBVIOUS
<1>1. CASE UNCHANGED vars
  BY <1>1 DEF vars, TypeOK, Asks, Running
<1>2. CASE Listen \/ Connect
  BY <1>2 DEF Listen, Connect, TypeOK, Asks, Running, recvVars, sendVars
<1>3. CASE Accept
  BY <1>3 DEF Accept, TypeOK, Asks, Running, recvVars, sendVars
<1>4. ASSUME NEW m \in Messages, NEW ended \in BOOLEAN, Send(m, ended) PROVE TypeOK' /\ Asks'
  <2> DEFINE z == Ending(ended)
             s == Piece(m) \o Piece(z)
  <2>1. m \in Seq(Bytes) /\ z \in Seq(Bytes) /\ s \in Seq(Chunk)
    <3>1. m \in Seq(Bytes) /\ z \in Seq(Bytes)
      BY PiecesAre
    <3>2. \/ s = <<>> /\ m = <<>> /\ z = <<>>
          \/ s = <<m>> /\ m # <<>> /\ z = <<>>
          \/ s = <<z>> /\ m = <<>> /\ z # <<>>
          \/ s = <<m, z>> /\ m # <<>> /\ z # <<>>
      BY PiecesAre
    <3> HIDE DEF z, s
    <3>3. (m # <<>> => m \in Chunk) /\ (z # <<>> => z \in Chunk)
      BY <3>1 DEF Chunk
    <3>4. \A a \in Chunk : <<a>> \in Seq(Chunk)
      OBVIOUS
    <3>5. <<>> \in Seq(Chunk)
      OBVIOUS
    <3>6. \A a, b \in Chunk : <<a, b>> \in Seq(Chunk)
      OBVIOUS
    <3>7. CASE s = <<>>
      BY <3>1, <3>5, <3>7
    <3>8. CASE s = <<m>> /\ m # <<>>
      BY <3>1, <3>3, <3>4, <3>8
    <3>9. CASE s = <<z>> /\ z # <<>>
      BY <3>1, <3>3, <3>4, <3>9
    <3>10. CASE s = <<m, z>> /\ m # <<>> /\ z # <<>>
      BY <3>1, <3>3, <3>6, <3>10
    <3> QED BY <3>2, <3>7, <3>8, <3>9, <3>10
  <2>2. sending' = s /\ written' = written \o m \o z
    BY <1>4 DEF Send
  <2> HIDE DEF z, s
  <2>3. written' \in Seq(Bytes)
    BY <2>1, <2>2, Joined DEF TypeOK
  <2>4. sends' \in 0..MaxSends
    BY <1>0, <1>4 DEF Send, TypeOK
  <2>5. sending' \in Seq(Seq(Bytes) \ {<<>>})
    BY <2>1, <2>2 DEF Chunk
  <2> QED BY <1>4, <2>3, <2>4, <2>5 DEF Send, TypeOK, Asks, Running, recvVars
<1>5. CASE Write
  <2>1. PICK k \in 1..Len(sending[1]) :
          /\ Len(wire) + k <= WireSize
          /\ wire' = IF Gone THEN <<>> ELSE wire \o SubSeq(sending[1], 1, k)
          /\ sending' = Rest(k)
    BY <1>5 DEF Write
  <2>2. sending # <<>>
    BY <1>5 DEF Write
  <2>3. sending[1] \in Chunk /\ Rest(k) \in Seq(Chunk)
    BY <1>k, <2>2, RestIs
  <2>4. sending[1] \in Seq(Bytes) /\ k \in 0..Len(sending[1]) /\ k \in Nat
    BY <2>3 DEF Chunk
  <2>5. SubSeq(sending[1], 1, k) \in Seq(Bytes) /\ Len(SubSeq(sending[1], 1, k)) = k
    BY <2>4, BufferParts
  <2>6. wire' \in Seq(Bytes) /\ Len(wire') <= WireSize
    <3>1. CASE Gone
      BY <1>0, <1>e, <2>1, <3>1
    <3>2. CASE ~Gone
      BY <1>k, <2>1, <2>5, <3>2, Joined
    <3> QED BY <3>1, <3>2
  <2>7. sending' \in Seq(Seq(Bytes) \ {<<>>})
    BY <2>1, <2>3 DEF Chunk
  <2> QED BY <1>5, <2>6, <2>7 DEF Write, TypeOK, Asks, Running, recvVars
<1>6. CASE SendFails
  BY <1>6, <1>e DEF SendFails, TypeOK, Asks, Running, recvVars
<1>7. ASSUME NEW max \in Sizes, NEW timed \in BOOLEAN, Receive(max, timed) PROVE TypeOK' /\ Asks'
  <2>1. call' \in [max : Sizes \cup {0}, timed : BOOLEAN] /\ call'.max \in Sizes /\ inn'
    BY <1>7 DEF Receive
  <2> QED BY <1>7, <2>1 DEF Receive, TypeOK, Asks, sendVars
<1>n. None \in [max : Sizes \cup {0}, timed : BOOLEAN]
  BY DEF None
<1>8. CASE TakeLine
  <2> DEFINE nl == FirstLF(rbuf)
             text == Cut(Chomp(SubSeq(rbuf, 1, nl - 1)), call.max)
  <2>1. /\ Running /\ nl # 0 /\ Returns(text) /\ rbuf' = SubSeq(rbuf, nl + 1, Len(rbuf))
        /\ lines' = lines + 1
        /\ UNCHANGED <<link, out, inn, wire, sendVars>>
    BY <1>8 DEF TakeLine
  <2>2. nl \in 1..Len(rbuf)
    BY <1>k, <2>1, FirstLFIs
  <2> HIDE DEF nl
  <2>3. nl - 1 \in 0..Len(rbuf) /\ nl \in 0..Len(rbuf)
    BY <1>k, <2>2
  <2>4. call.max \in Nat
    BY <1>0, <2>1 DEF Asks
  <2>5. text \in Seq(Bytes) /\ rbuf' \in Seq(Bytes)
    BY <1>k, <2>1, <2>3, <2>4, BufferParts, ChompIs, CutIs
  <2> HIDE DEF text
  <2>6. got' \in Seq(Result) /\ call' = None
    BY <2>1, <2>5, ReturnsType
  <2> QED BY <1>n, <2>1, <2>5, <2>6 DEF TypeOK, Asks, Running, sendVars, Result
<1>9. CASE TakeHead
  <2> DEFINE text == SubSeq(rbuf, 1, call.max)
  <2>1. /\ Running /\ Len(rbuf) > call.max /\ Returns(text)
        /\ rbuf' = SubSeq(rbuf, call.max + 1, Len(rbuf))
        /\ UNCHANGED <<link, out, inn, wire, lines, sendVars>>
    BY <1>9 DEF TakeHead
  <2>2. call.max \in Nat /\ call.max \in 0..Len(rbuf)
    <3>1. call.max \in Nat
      BY <1>0, <2>1 DEF Asks
    <3> QED BY <1>k, <2>1, <3>1
  <2>3. text \in Seq(Bytes) /\ rbuf' \in Seq(Bytes)
    BY <1>k, <2>1, <2>2, BufferParts
  <2> HIDE DEF text
  <2>4. got' \in Seq(Result) /\ call' = None
    BY <2>1, <2>3, ReturnsType
  <2> QED BY <1>n, <2>1, <2>3, <2>4 DEF TypeOK, Asks, Running, sendVars, Result
<1>10. CASE Recv
  <2>1. PICK k \in 1..Len(wire) :
          rbuf' = rbuf \o SubSeq(wire, 1, k) /\ wire' = SubSeq(wire, k + 1, Len(wire))
    BY <1>10 DEF Recv
  <2>2. k \in 0..Len(wire) /\ k \in Nat
    BY <1>k
  <2>3. /\ SubSeq(wire, 1, k) \in Seq(Bytes) /\ wire' \in Seq(Bytes)
        /\ Len(wire') = Len(wire) - k
    BY <1>k, <2>1, <2>2, BufferParts
  <2>4. rbuf' \in Seq(Bytes)
    BY <1>k, <2>1, <2>3, Joined
  <2>5. Len(wire') <= WireSize
    BY <1>0, <1>k, <2>2, <2>3
  <2> QED BY <1>10, <2>3, <2>4, <2>5 DEF Recv, TypeOK, Asks, Running, sendVars
<1>11. CASE Timeout \/ Eof
  BY <1>11, <1>n, <1>e DEF Timeout, Eof, TypeOK, Asks, Running, sendVars
<1>12. CASE UnplugOut
  BY <1>12 DEF UnplugOut, TypeOK, Asks, Running, recvVars, sendVars
<1>13. CASE UnplugIn
  <2>1. ~Running /\ inn' = FALSE /\ wire' = <<>> /\ UNCHANGED <<link, out, recvVars, sendVars>>
    BY <1>13 DEF UnplugIn
  <2>2. wire' \in Seq(Bytes) /\ Len(wire') <= WireSize
    BY <1>0, <1>e, <2>1
  <2>3. ~Running'
    BY <2>1 DEF Running, recvVars
  <2>4. TypeOK'
    BY <2>1, <2>2 DEF TypeOK, recvVars, sendVars
  <2> QED BY <2>3, <2>4 DEF Asks
<1> QED BY <1>1, <1>2, <1>3, <1>4, <1>5, <1>6, <1>7, <1>8, <1>9, <1>10, <1>11, <1>12, <1>13
        DEF Next
-----------------------------------------------------------------------------
(* Lines that were taken                                                   *)

\* Where the lines that were taken end.
EndsBy(w, n, p) ==
    \A l \in 1..n : LineEnd(w, l) \in 1..p /\ w[LineEnd(w, l)] = LF /\ Feeds(w, LineEnd(w, l)) = l

\* They end one behind the other.
LEMMA EndsGrow ==
    ASSUME NEW w \in Seq(Bytes), NEW n \in Nat, NEW p \in 0..Len(w), EndsBy(w, n, p),
           NEW l \in 1..n
    PROVE  /\ LineEnd(w, l - 1) \in Nat /\ LineEnd(w, l) \in 1..p /\ p \in Nat
           /\ LineEnd(w, l - 1) < LineEnd(w, l)
           /\ LineEnd(w, l - 1) \in 0..p
<1> DEFINE d == LineEnd(w, l - 1)
           e == LineEnd(w, l)
<1>0. l \in Nat \ {0} /\ p \in Nat /\ Len(w) \in Nat
  OBVIOUS
<1>1. e \in 1..p /\ w[e] = LF /\ Feeds(w, e) = l
  BY DEF EndsBy
<1>2. CASE l = 1
  <2>1. d = 0
    BY <1>2 DEF LineEnd
  <2> QED BY <1>0, <1>1, <2>1
<1>3. CASE l # 1
  <2>1. l - 1 \in 1..n
    BY <1>0, <1>3
  <2>2. d \in 1..p /\ w[d] = LF /\ Feeds(w, d) = l - 1
    BY <2>1 DEF EndsBy
  <2> HIDE DEF d, e
  <2>3. d \in Nat /\ e \in Nat
    BY <1>0, <1>1, <2>2
  <2>4. d # e
    BY <1>0, <1>1, <2>2
  <2>5. ~(e < d)
    <3> SUFFICES ASSUME e < d PROVE FALSE
      OBVIOUS
    <3>1. Feeds(w, e) < Feeds(w, d)
      BY <2>2, <2>3, FeedsRise
    <3> QED BY <1>0, <1>1, <2>2, <3>1
  <2> QED BY <1>0, <1>1, <2>2, <2>3, <2>4, <2>5 DEF d, e
<1> QED BY <1>2, <1>3

\* A part of what was written is not changed by more.
LEMMA PartMore ==
    ASSUME NEW w \in Seq(Bytes), NEW v \in Seq(Bytes), Extends(v, w),
           NEW j \in 1..(Len(w) + 1), NEW k \in (j - 1)..Len(w)
    PROVE  SubSeq(v, j, k) = SubSeq(w, j, k)
<1>1. /\ Len(w) \in Nat /\ Len(v) \in Nat /\ Len(w) <= Len(v) /\ \A i \in 1..Len(w) : v[i] = w[i]
  BY DEF Extends
<1>2. j \in 1..(Len(v) + 1) /\ k \in (j - 1)..Len(v)
  BY <1>1
<1> DEFINE a == SubSeq(v, j, k)
           b == SubSeq(w, j, k)
<1>3. /\ a \in Seq(Bytes) /\ Len(a) = k - j + 1
      /\ \A i \in 1..(k - j + 1) : a[i] = v[j + i - 1]
  BY <1>2, Part
<1>4. /\ b \in Seq(Bytes) /\ Len(b) = k - j + 1
      /\ \A i \in 1..(k - j + 1) : b[i] = w[j + i - 1]
  BY Part
<1>5. \A i \in 1..(k - j + 1) : j + i - 1 \in 1..Len(w)
  BY <1>1
<1> HIDE DEF a, b
<1>6. \A i \in 1..Len(a) : a[i] = b[i]
  BY <1>1, <1>3, <1>4, <1>5
<1>7. a = b
  BY <1>3, <1>4, <1>6, SameBytes
<1> QED BY <1>7 DEF a, b

\* Ends stay where they are when more is written.
LEMMA EndsMore ==
    ASSUME NEW w \in Seq(Bytes), NEW v \in Seq(Bytes), Extends(v, w), NEW n \in Nat,
           NEW p \in 0..Len(w), EndsBy(w, n, p)
    PROVE  /\ EndsBy(v, n, p) /\ \A l \in 0..n : LineEnd(v, l) = LineEnd(w, l)
<1>1. ASSUME NEW l \in 1..n
      PROVE  /\ LineEnd(v, l) = LineEnd(w, l) /\ LineEnd(v, l) \in 1..p
             /\ v[LineEnd(v, l)] = LF /\ Feeds(v, LineEnd(v, l)) = l
  <2>1. LineEnd(w, l) \in 1..p /\ w[LineEnd(w, l)] = LF /\ Feeds(w, LineEnd(w, l)) = l
    BY DEF EndsBy
  <2>2. LineEnd(w, l) \in 1..Len(w) /\ l \in Nat \ {0}
    BY <2>1
  <2>3. LineEnd(v, l) = LineEnd(w, l) /\ v[LineEnd(w, l)] = LF /\ Feeds(v, LineEnd(w, l)) = l
    BY <2>1, <2>2, LineEndMore
  <2> QED BY <2>1, <2>3
<1>2. LineEnd(v, 0) = LineEnd(w, 0)
  BY DEF LineEnd
<1>3. \A l \in 0..n : l = 0 \/ l \in 1..n
  OBVIOUS
<1> QED BY <1>1, <1>2, <1>3 DEF EndsBy

\* The text of a line that was taken is not changed by more.
LEMMA TextMore ==
    ASSUME NEW w \in Seq(Bytes), NEW v \in Seq(Bytes), Extends(v, w), NEW n \in Nat,
           NEW p \in 0..Len(w), EndsBy(w, n, p), NEW l \in 1..n
    PROVE  SubSeq(v, LineEnd(v, l - 1) + 1, LineEnd(v, l) - 1)
             = SubSeq(w, LineEnd(w, l - 1) + 1, LineEnd(w, l) - 1)
<1> DEFINE d == LineEnd(w, l - 1)
           e == LineEnd(w, l)
<1>1. LineEnd(v, l) = e /\ LineEnd(v, l - 1) = d
  <2>1. l \in 0..n /\ l - 1 \in 0..n
    OBVIOUS
  <2> QED BY <2>1, EndsMore
<1>2. d \in Nat /\ e \in 1..p /\ p \in Nat /\ d < e
  BY EndsGrow
<1> HIDE DEF d, e
<1>3. Len(w) \in Nat /\ p <= Len(w)
  OBVIOUS
<1>4. SubSeq(v, d + 1, e - 1) = SubSeq(w, d + 1, e - 1)
  <2> DEFINE j == d + 1
             k == e - 1
  <2>1. j \in 1..(Len(w) + 1) /\ k \in (j - 1)..Len(w)
    BY <1>2, <1>3
  <2> HIDE DEF j, k
  <2>2. SubSeq(v, j, k) = SubSeq(w, j, k)
    BY <2>1, PartMore
  <2> QED BY <2>2 DEF j, k
<1> QED BY <1>1, <1>4 DEF d, e

\* Where nothing is returned and no line is taken, what was taken stays so.
LEMMA KeepTaken ==
    ASSUME TypeOK, TypeOK', UNCHANGED <<got, lines>>, Extends(written', written),
           NEW p \in 0..Len(written), LinesTaken(p), HeadTaken(p),
           \A l \in 1..lines : WholeLine(l)
    PROVE  /\ p \in 0..Len(written') /\ LinesTaken(p)' /\ HeadTaken(p)'
           /\ \A l \in 1..lines' : WholeLine(l)'
<1>1. /\ written \in Seq(Bytes) /\ written' \in Seq(Bytes) /\ lines \in Nat
      /\ Len(written) \in Nat /\ Len(written') \in Nat /\ Len(written) <= Len(written')
      /\ \A i \in 1..Len(written) : written'[i] = written[i]
      /\ lines' = lines /\ got' = got
  BY DEF TypeOK, Extends
<1>2. EndsBy(written, lines, p)
  BY DEF EndsBy, LinesTaken
<1>3. EndsBy(written', lines, p) /\ \A l \in 0..lines : LineEnd(written', l) = LineEnd(written, l)
  BY <1>1, <1>2, EndsMore
<1> DEFINE s == LineEnd(written, lines)
<1>4. LineEnd(written', lines) = s /\ s <= p /\ \A i \in (s + 1)..p : written[i] # LF
  BY <1>1, <1>3 DEF LinesTaken
<1>5. s \in Nat
  <2>1. CASE lines = 0
    BY <2>1 DEF LineEnd
  <2>2. CASE lines # 0
    <3>1. lines \in 1..lines
      BY <1>1, <2>2
    <3> QED BY <1>2, <3>1 DEF EndsBy
  <2> QED BY <2>1, <2>2
<1> HIDE DEF s
<1>6. \A i \in (s + 1)..p : written'[i] # LF
  <2>1. \A i \in (s + 1)..p : i \in 1..Len(written)
    BY <1>1, <1>5
  <2> QED BY <1>1, <1>4, <2>1
<1>7. LinesTaken(p)'
  BY <1>1, <1>3, <1>4, <1>6 DEF LinesTaken, EndsBy
<1>8. Results(lines + 1)' = Results(lines + 1)
  BY <1>1 DEF Results
<1>9. HeadTaken(p)'
  <2>1. CASE Results(lines + 1) = {}
    BY <1>1, <1>4, <1>8, <2>1 DEF HeadTaken, s
  <2>2. CASE Results(lines + 1) # {}
    <3>1. p < Len(written) /\ written[p + 1] # LF
          /\ \E i \in Results(lines + 1) : got[i].max <= p - s
      BY <2>2 DEF HeadTaken, s
    <3>2. p + 1 \in 1..Len(written)
      BY <1>1, <3>1
    <3>3. p < Len(written') /\ written'[p + 1] # LF
      BY <1>1, <3>1, <3>2
    <3> DEFINE R == Results(lines + 1)
    <3>4. \E i \in R : got'[i].max <= p - s
      BY <1>1, <3>1
    <3>5. Results(lines + 1)' = R /\ R # {} /\ LineEnd(written, lines)' = s
      BY <1>1, <1>4, <1>8, <2>2
    <3> HIDE DEF R
    <3> QED BY <3>3, <3>4, <3>5 DEF HeadTaken
  <2> QED BY <2>1, <2>2
<1>10. ASSUME NEW l \in 1..lines' PROVE WholeLine(l)'
  <2>1. WholeLine(l) /\ l \in 1..lines
    BY <1>1
  <2>2. Results(l)' = Results(l)
    BY <1>1 DEF Results
  <2>3. LineText(l)' = LineText(l)
    BY <1>1, <1>2, <2>1, TextMore DEF LineText
  <2> QED BY <1>1, <2>1, <2>2, <2>3 DEF WholeLine
<1> QED BY <1>1, <1>7, <1>9, <1>10
-----------------------------------------------------------------------------
(* Steps that return nothing                                               *)

\* Every step keeps who can do what.
LEMMA LinksNext == TypeOK /\ Asks /\ Links /\ [Next]_vars => Links'
<1> SUFFICES ASSUME TypeOK, Asks, Links, [Next]_vars PROVE Links'
  OBVIOUS
<1>1. CASE UNCHANGED vars
  BY <1>1 DEF vars, Links
<1>2. CASE Listen \/ Connect \/ Accept
  BY <1>2 DEF Listen, Connect, Accept, Links, recvVars, sendVars
<1>3. ASSUME NEW m \in Messages, NEW ended \in BOOLEAN, Send(m, ended) PROVE Links'
  <2>1. out /\ UNCHANGED <<link, out, inn>>
    BY <1>3 DEF Send
  <2> QED BY <2>1 DEF Links
<1>4. CASE Write \/ SendFails
  <2>1. sending # <<>> /\ UNCHANGED <<link, out, inn, written>>
    BY <1>4 DEF Write, SendFails
  <2> QED BY <2>1 DEF Links
<1>5. ASSUME NEW max \in Sizes, NEW timed \in BOOLEAN, Receive(max, timed) PROVE Links'
  BY <1>5 DEF Receive, Links, sendVars
<1>6. CASE TakeLine \/ TakeHead \/ Recv \/ Timeout \/ Eof
  BY <1>6 DEF TakeLine, TakeHead, Recv, Timeout, Eof, Links, sendVars
<1>7. CASE UnplugOut \/ UnplugIn
  BY <1>7 DEF UnplugOut, UnplugIn, Links, recvVars, sendVars
<1> QED BY <1>1, <1>2, <1>3, <1>4, <1>5, <1>6, <1>7 DEF Next

\* What is appended fits behind what there was.
LEMMA FitsEnd ==
    ASSUME NEW w \in Seq(Bytes), NEW m \in Seq(Bytes)
    PROVE  /\ w \o m \in Seq(Bytes) /\ Len(w \o m) = Len(w) + Len(m)
           /\ Extends(w \o m, w) /\ Fits(w \o m, Len(w), m)
<1>1. Len(w) \in Nat /\ Len(m) \in Nat
  OBVIOUS
<1>2. /\ w \o m \in Seq(Bytes) /\ Len(w \o m) = Len(w) + Len(m)
      /\ \A i \in 1..Len(w) : (w \o m)[i] = w[i]
      /\ \A i \in 1..Len(m) : (w \o m)[Len(w) + i] = m[i]
  BY Joined
<1> DEFINE v == w \o m
<1> HIDE DEF v
<1>3. Len(v) = Len(w) + Len(m) /\ (\A i \in 1..Len(w) : v[i] = w[i])
      /\ \A i \in 1..Len(m) : v[Len(w) + i] = m[i]
  BY <1>2 DEF v
<1>4. Extends(v, w)
  BY <1>1, <1>3 DEF Extends
<1>5. Fits(v, Len(w), m)
  BY <1>1, <1>3 DEF Fits
<1> QED BY <1>2, <1>4, <1>5 DEF v

\* The whole stream of a message that was sent.
LEMMA SentFollows ==
    ASSUME NEW w \in Seq(Bytes), NEW m \in Messages, NEW ended \in BOOLEAN
    PROVE  LET v == w \o m \o Ending(ended)
           IN  /\ v \in Seq(Bytes) /\ Extends(v, w)
               /\ Unsent(v, Len(w), Piece(m) \o Piece(Ending(ended)))
               /\ Piece(m) \o Piece(Ending(ended)) = <<>> => Len(w) = Len(v)
<1> DEFINE z == Ending(ended)
           a == w \o m
           v == a \o z
           s == Piece(m) \o Piece(z)
<1>1. /\ m \in Seq(Bytes) /\ z \in Seq(Bytes)
      /\ \/ s = <<>> /\ m = <<>> /\ z = <<>>
         \/ s = <<m>> /\ m # <<>> /\ z = <<>>
         \/ s = <<z>> /\ m = <<>> /\ z # <<>>
         \/ s = <<m, z>> /\ m # <<>> /\ z # <<>>
  BY PiecesAre
<1> HIDE DEF z, s
<1>2. a \in Seq(Bytes) /\ Len(a) = Len(w) + Len(m) /\ Extends(a, w) /\ Fits(a, Len(w), m)
  BY <1>1, FitsEnd
<1> HIDE DEF a
<1>3. v \in Seq(Bytes) /\ Len(v) = Len(a) + Len(z) /\ Extends(v, a) /\ Fits(v, Len(a), z)
  BY <1>1, <1>2, FitsEnd
<1> HIDE DEF v
<1>4. /\ Len(w) \in Nat /\ Len(m) \in Nat /\ Len(z) \in Nat /\ Len(a) \in Nat /\ Len(v) \in Nat
      /\ Len(<<>>) = 0
  BY <1>1, <1>2, <1>3
<1>5. Extends(v, w)
  <2>1. \A i \in 1..Len(w) : i \in 1..Len(a)
    BY <1>2, <1>4
  <2> QED BY <1>2, <1>3, <1>4, <2>1 DEF Extends
<1>6. Fits(v, Len(w), m)
  BY <1>1, <1>2, <1>3, <1>4, FitsMore
<1>7. Unsent(v, Len(w), s) /\ (s = <<>> => Len(w) = Len(v))
  <2>1. CASE s = <<>> /\ m = <<>> /\ z = <<>>
    BY <1>2, <1>3, <1>4, <2>1 DEF Unsent
  <2>2. CASE s = <<m>> /\ m # <<>> /\ z = <<>>
    <3>1. Len(s) = 1 /\ s[1] = m /\ s # <<>> /\ Len(z) = 0
      BY <1>4, <2>2
    <3>2. Len(w) + Len(s[1]) = Len(v)
      BY <1>2, <1>3, <1>4, <3>1
    <3> QED BY <1>6, <3>1, <3>2 DEF Unsent
  <2>3. CASE s = <<z>> /\ m = <<>> /\ z # <<>>
    <3>1. Len(s) = 1 /\ s[1] = z /\ s # <<>> /\ Len(m) = 0
      BY <1>4, <2>3
    <3>2. Len(a) = Len(w) /\ Len(w) + Len(s[1]) = Len(v)
      BY <1>2, <1>3, <1>4, <3>1
    <3> QED BY <1>3, <3>1, <3>2 DEF Unsent
  <2>4. CASE s = <<m, z>> /\ m # <<>> /\ z # <<>>
    <3>1. Len(s) = 2 /\ s[1] = m /\ s[2] = z /\ s # <<>>
      BY <2>4
    <3>2. Len(w) + Len(s[1]) = Len(a) /\ Len(w) + Len(s[1]) + Len(s[2]) = Len(v)
      BY <1>2, <1>3, <1>4, <3>1
    <3> QED BY <1>3, <1>6, <3>1, <3>2 DEF Unsent
  <2> QED BY <1>1, <2>1, <2>2, <2>3, <2>4
<1> QED BY <1>3, <1>5, <1>7 DEF v, a, z, s

\* A piece, or a part of it, goes out.
LEMMA PieceOut ==
    ASSUME NEW w \in Seq(Bytes), NEW e \in Nat, sending \in Seq(Chunk), sending # <<>>,
           Unsent(w, e, sending), NEW k \in 1..Len(sending[1])
    PROVE  /\ sending[1] \in Seq(Bytes) /\ k \in Nat
           /\ SubSeq(sending[1], 1, k) \in Seq(Bytes) /\ Len(SubSeq(sending[1], 1, k)) = k
           /\ Fits(w, e, SubSeq(sending[1], 1, k))
           /\ Unsent(w, e + k, Rest(k))
           /\ Rest(k) = <<>> => e + k = Len(w)
<1> DEFINE a == sending[1]
           b == SubSeq(a, k + 1, Len(a))
           r == Rest(k)
           n == Len(sending)
<1>0. /\ a \in Seq(Bytes) /\ Len(a) \in Nat /\ k \in 0..Len(a) /\ k \in Nat /\ n \in Nat \ {0}
      /\ r \in Seq(Chunk) /\ Len(w) \in Nat
  <2>1. a \in Chunk /\ n \in Nat \ {0} /\ r \in Seq(Chunk)
    BY RestIs
  <2> HIDE DEF r, n
  <2>2. a \in Seq(Bytes) /\ k \in 1..Len(a)
    BY <2>1 DEF Chunk
  <2> HIDE DEF a
  <2>3. Len(a) \in Nat /\ Len(w) \in Nat
    BY <2>2
  <2>4. k \in 0..Len(a) /\ k \in Nat
    BY <2>2, <2>3
  <2> QED BY <2>1, <2>2, <2>3, <2>4
<1>1. /\ k = Len(a) => Len(r) = n - 1 /\ \A i \in 1..(n - 1) : r[i] = sending[i + 1]
      /\ k # Len(a) => Len(r) = n /\ r[1] = b /\ \A i \in 2..n : r[i] = sending[i]
  BY RestIs
<1>2. /\ n \in {1, 2} /\ Fits(w, e, a)
      /\ n = 1 => e + Len(a) = Len(w)
      /\ n = 2 => Fits(w, e + Len(a), sending[2]) /\ e + Len(a) + Len(sending[2]) = Len(w)
  <2>1. \/ n = 1 /\ Fits(w, e, a) /\ e + Len(a) = Len(w)
        \/ /\ n = 2 /\ Fits(w, e, a) /\ Fits(w, e + Len(a), sending[2])
           /\ e + Len(a) + Len(sending[2]) = Len(w)
    BY DEF Unsent
  <2> HIDE DEF n, a
  <2>2. 1 # 2
    OBVIOUS
  <2>3. CASE n = 1
    BY <2>1, <2>2, <2>3, Zenon
  <2>4. CASE n = 2
    BY <2>1, <2>2, <2>4, Zenon
  <2> QED BY <2>1, <2>3, <2>4
<1> HIDE DEF a, r, n
<1>3. /\ SubSeq(a, 1, k) \in Seq(Bytes) /\ Len(SubSeq(a, 1, k)) = k
      /\ b \in Seq(Bytes) /\ Len(b) = Len(a) - k
      /\ Fits(w, e, SubSeq(a, 1, k)) /\ Fits(w, e + k, b)
  BY <1>0, <1>2, FitsCut
<1> HIDE DEF b
<1>4. Len(r) = 0 <=> r = <<>>
  BY <1>0, EmptySeq
<1>5. e + Len(a) <= Len(w)
  BY <1>2 DEF Fits
<1>6. Unsent(w, e + k, r) /\ (r = <<>> => e + k = Len(w))
  <2>1. CASE k = Len(a) /\ n = 1
    <3>1. r = <<>> /\ e + k = Len(w)
      BY <1>0, <1>1, <1>2, <1>4, <2>1
    <3> QED BY <1>0, <3>1 DEF Unsent
  <2>2. CASE k = Len(a) /\ n = 2
    <3>1. Len(r) = 1 /\ r[1] = sending[2] /\ r # <<>>
      <4>1. Len(r) = 2 - 1 /\ \A i \in 1..(2 - 1) : r[i] = sending[i + 1]
        BY <1>1, <2>2
      <4>2. 1 \in 1..(2 - 1) /\ 1 + 1 = 2 /\ 2 - 1 = 1
        OBVIOUS
      <4>3. Len(r) = 1 /\ r[1] = sending[2]
        BY <4>1, <4>2
      <4> QED BY <1>4, <4>3
    <3> QED BY <1>2, <2>2, <3>1 DEF Unsent
  <2>3. CASE k # Len(a) /\ n = 1
    <3>1. Len(r) = 1 /\ r[1] = b /\ r # <<>>
      BY <1>0, <1>1, <1>4, <2>3
    <3>2. (e + k) + Len(b) = Len(w)
      <4>1. e + Len(a) = Len(w) /\ Len(b) = Len(a) - k
        BY <1>2, <1>3, <2>3
      <4>2. (e + k) + Len(b) = e + Len(a)
        BY <1>0, <1>3
      <4> QED BY <4>1, <4>2
    <3> QED BY <1>3, <3>1, <3>2 DEF Unsent
  <2>4. CASE k # Len(a) /\ n = 2
    <3>1. Len(r) = 2 /\ r[1] = b /\ r[2] = sending[2] /\ r # <<>>
      <4>1. Len(r) = 2 /\ r[1] = b /\ \A i \in 2..2 : r[i] = sending[i]
        BY <1>1, <2>4
      <4>2. r[2] = sending[2]
        BY <4>1
      <4> QED BY <1>4, <4>1, <4>2
    <3>2. (e + k) + Len(b) = e + Len(a)
      BY <1>0, <1>3
    <3> QED BY <1>2, <1>3, <2>4, <3>1, <3>2 DEF Unsent
  <2> QED BY <1>2, <2>1, <2>2, <2>3, <2>4
<1> QED BY <1>0, <1>3, <1>6 DEF a, r

\* The stream stays in order under everything that takes no line.
LEMMA FollowsNext ==
    ASSUME TypeOK, Asks, Links, NEW p \in 0..Len(written), ~Gone => Follows(p),
           \/ Listen \/ Connect \/ Accept
           \/ \E m \in Messages, ended \in BOOLEAN : Send(m, ended)
           \/ Write \/ SendFails
           \/ \E max \in Sizes, timed \in BOOLEAN : Receive(max, timed)
           \/ Recv \/ Timeout \/ Eof \/ UnplugOut \/ UnplugIn \/ UNCHANGED vars
    PROVE  /\ UNCHANGED <<got, lines>> /\ Extends(written', written)
           /\ ~Gone' => Follows(p)'
<1> DEFINE q == p + Len(rbuf)
           e == q + Len(wire)
<1>0. /\ written \in Seq(Bytes) /\ rbuf \in Seq(Bytes) /\ wire \in Seq(Bytes)
      /\ sending \in Seq(Chunk)
      /\ Len(written) \in Nat /\ Len(rbuf) \in Nat /\ Len(wire) \in Nat /\ p \in Nat
      /\ q \in Nat /\ e \in Nat /\ p <= Len(written) /\ Len(<<>>) = 0
  <2>1. /\ written \in Seq(Bytes) /\ rbuf \in Seq(Bytes) /\ wire \in Seq(Bytes)
        /\ sending \in Seq(Chunk)
    BY DEF TypeOK, Chunk
  <2>2. Len(written) \in Nat /\ Len(rbuf) \in Nat /\ Len(wire) \in Nat /\ Len(<<>>) = 0
    BY <2>1
  <2>3. p \in Nat /\ p <= Len(written)
    BY <2>2
  <2> QED BY <2>1, <2>2, <2>3
<1>f. Follows(p) <=> /\ Fits(written, p, rbuf) /\ Fits(written, q, wire)
                     /\ Unsent(written, e, sending)
                     /\ out /\ sending = <<>> => e = Len(written)
  BY DEF Follows
<1>s. ASSUME UNCHANGED <<sending, wire, rbuf, written>>, ~Gone' => ~Gone,
             out' => out
      PROVE  ~Gone' => Follows(p)'
  BY <1>s DEF Follows
<1>w. UNCHANGED written => Extends(written', written)
  BY <1>0 DEF Extends
<1> HIDE DEF q, e
<1>1. CASE UNCHANGED vars
  BY <1>1, <1>s, <1>w DEF vars, Gone
<1>2. CASE Listen
  BY <1>2, <1>s, <1>w DEF Listen, Gone, recvVars, sendVars
<1>3. CASE Connect
  <2>1. /\ link = "listening" /\ ~Gone
        /\ UNCHANGED <<got, lines, sending, wire, rbuf, written>>
    BY <1>3 DEF Connect, Gone, recvVars, sendVars
  <2>2. written = <<>> /\ sending = <<>>
    BY <2>1 DEF Links
  <2>3. e <= Len(written) /\ Len(written) = 0
    BY <1>0, <1>f, <2>1, <2>2 DEF Unsent
  <2>4. e = Len(written)
    BY <1>0, <2>3
  <2>5. Follows(p)'
    BY <1>f, <2>1, <2>4 DEF Follows, q, e
  <2> QED BY <1>w, <2>1, <2>5
<1>4. CASE Accept
  <2>1. link = "connected" /\ UNCHANGED <<got, lines, sending, wire, rbuf, written, out>>
    BY <1>4 DEF Accept, recvVars, sendVars
  <2>2. ~Gone
    BY <2>1 DEF Gone
  <2> QED BY <1>s, <1>w, <2>1, <2>2
<1>5. ASSUME NEW m \in Messages, NEW ended \in BOOLEAN, Send(m, ended)
      PROVE  /\ UNCHANGED <<got, lines>> /\ Extends(written', written)
             /\ ~Gone' => Follows(p)'
  <2> DEFINE v == written \o m \o Ending(ended)
             s == Piece(m) \o Piece(Ending(ended))
  <2>1. /\ out /\ sending = <<>> /\ written' = v /\ sending' = s
        /\ UNCHANGED <<got, lines, wire, rbuf, out, link, inn>>
    BY <1>5 DEF Send, recvVars
  <2>2. /\ v \in Seq(Bytes) /\ Extends(v, written) /\ Unsent(v, Len(written), s)
        /\ s = <<>> => Len(written) = Len(v)
    BY <1>0, SentFollows
  <2> HIDE DEF v, s
  <2>3. ASSUME ~Gone' PROVE Follows(p)'
    <3>1. ~Gone
      BY <2>1, <2>3 DEF Gone
    <3>2. Fits(written, p, rbuf) /\ Fits(written, q, wire) /\ e = Len(written)
      BY <1>f, <2>1, <3>1
    <3>3. Fits(v, p, rbuf) /\ Fits(v, q, wire)
      BY <1>0, <2>2, <3>2, FitsMore
    <3>4. Unsent(v, e, s) /\ (s = <<>> => e = Len(v))
      BY <2>2, <3>2
    <3> QED BY <2>1, <3>3, <3>4 DEF Follows, q, e
  <2> QED BY <2>1, <2>2, <2>3
<1>6. CASE Write
  <2>1. PICK k \in 1..Len(sending[1]) :
          /\ wire' = IF Gone THEN <<>> ELSE wire \o SubSeq(sending[1], 1, k)
          /\ sending' = Rest(k)
    BY <1>6 DEF Write
  <2>2. sending # <<>> /\ UNCHANGED <<got, lines, rbuf, out, link, inn, written>>
    BY <1>6 DEF Write, recvVars
  <2>3. ASSUME ~Gone' PROVE Follows(p)'
    <3> DEFINE b == SubSeq(sending[1], 1, k)
               r == Rest(k)
    <3>1. ~Gone
      BY <2>2, <2>3 DEF Gone
    <3>2. Fits(written, p, rbuf) /\ Fits(written, q, wire) /\ Unsent(written, e, sending)
      BY <1>f, <3>1
    <3>3. /\ b \in Seq(Bytes) /\ Len(b) = k /\ k \in Nat /\ Fits(written, e, b)
          /\ Unsent(written, e + k, r) /\ (r = <<>> => e + k = Len(written))
      BY <1>0, <2>2, <3>2, PieceOut
    <3> HIDE DEF b, r
    <3>4. Len(wire \o b) = Len(wire) + k /\ Fits(written, q, wire \o b)
      <4>1. Fits(written, q + Len(wire), b)
        BY <3>3 DEF e
      <4> QED BY <1>0, <3>2, <3>3, <4>1, Joined, FitsJoined
    <3>5. q + Len(wire \o b) = e + k
      BY <1>0, <3>3, <3>4 DEF e
    <3>6. wire' = wire \o b /\ sending' = r
      BY <2>1, <3>1 DEF b, r
    <3> QED BY <2>2, <3>2, <3>3, <3>4, <3>5, <3>6 DEF Follows, q
  <2> QED BY <1>w, <2>2, <2>3
<1>7. CASE SendFails
  <2>1. Gone /\ UNCHANGED <<got, lines, written, link, inn>>
    BY <1>7 DEF SendFails, recvVars
  <2>2. Gone'
    BY <2>1 DEF Gone
  <2> QED BY <1>w, <2>1, <2>2
<1>8. ASSUME NEW max \in Sizes, NEW timed \in BOOLEAN, Receive(max, timed)
      PROVE  /\ UNCHANGED <<got, lines>> /\ Extends(written', written)
             /\ ~Gone' => Follows(p)'
  <2>1. UNCHANGED <<link, out, inn, wire, rbuf, got, lines, sending, written>>
    BY <1>8 DEF Receive, sendVars
  <2>2. Gone' = Gone
    BY <2>1 DEF Gone
  <2> QED BY <1>s, <1>w, <2>1, <2>2
<1>9. CASE Recv
  <2>1. PICK k \in 1..Len(wire) :
          rbuf' = rbuf \o SubSeq(wire, 1, k) /\ wire' = SubSeq(wire, k + 1, Len(wire))
    BY <1>9 DEF Recv
  <2>2. UNCHANGED <<got, lines, out, link, inn, written, sending>>
    BY <1>9 DEF Recv, sendVars
  <2>3. ASSUME ~Gone' PROVE Follows(p)'
    <3> DEFINE b == SubSeq(wire, 1, k)
               r == SubSeq(wire, k + 1, Len(wire))
    <3>1. ~Gone
      BY <2>2, <2>3 DEF Gone
    <3>2. /\ Fits(written, p, rbuf) /\ Fits(written, q, wire) /\ Unsent(written, e, sending)
          /\ out /\ sending = <<>> => e = Len(written)
      BY <1>f, <3>1
    <3>3. /\ b \in Seq(Bytes) /\ Len(b) = k /\ k \in Nat
          /\ r \in Seq(Bytes) /\ Len(r) = Len(wire) - k
          /\ Fits(written, q, b) /\ Fits(written, q + k, r)
      <4>1. k \in 0..Len(wire) /\ k \in Nat
        BY <1>0
      <4> QED BY <1>0, <3>2, <4>1, FitsCut
    <3> HIDE DEF b, r
    <3>4. Len(rbuf \o b) = Len(rbuf) + k /\ Fits(written, p, rbuf \o b)
      <4>1. Fits(written, p + Len(rbuf), b)
        BY <3>3 DEF q
      <4> QED BY <1>0, <3>2, <3>3, <4>1, Joined, FitsJoined
    <3>5. p + Len(rbuf \o b) = q + k
      BY <1>0, <3>3, <3>4 DEF q
    <3>6. (q + k) + Len(r) = e
      BY <1>0, <3>3 DEF e
    <3>7. rbuf' = rbuf \o b /\ wire' = r
      BY <2>1 DEF b, r
    <3> QED BY <2>2, <3>2, <3>3, <3>4, <3>5, <3>6, <3>7 DEF Follows
  <2> QED BY <1>w, <2>2, <2>3
<1>10. CASE Timeout
  <2>1. UNCHANGED <<link, out, inn, wire, rbuf, got, lines, sending, written>>
    BY <1>10 DEF Timeout, sendVars
  <2>2. Gone' = Gone
    BY <2>1 DEF Gone
  <2> QED BY <1>s, <1>w, <2>1, <2>2
<1>11. CASE Eof
  <2>1. /\ ~out /\ wire = <<>> /\ rbuf' = <<>>
        /\ UNCHANGED <<link, out, inn, wire, got, lines, sending, written>>
    BY <1>11 DEF Eof, sendVars
  <2>2. sending = <<>>
    BY <2>1 DEF Links
  <2>3. p + 0 = p /\ Fits(written, p, <<>>) /\ Unsent(written, p, <<>>)
    BY <1>0 DEF Fits, Unsent
  <2>4. Follows(p)'
    BY <1>0, <2>1, <2>2, <2>3 DEF Follows
  <2> QED BY <1>w, <2>1, <2>4
<1>12. CASE UnplugOut
  <2>1. ~out' /\ UNCHANGED <<link, inn, wire, rbuf, got, lines, sending, written>>
    BY <1>12 DEF UnplugOut, recvVars, sendVars
  <2>2. Gone' = Gone
    BY <2>1 DEF Gone
  <2> QED BY <1>s, <1>w, <2>1, <2>2
<1>13. CASE UnplugIn
  <2>1. inn /\ ~inn' /\ UNCHANGED <<link, got, lines, written>>
    BY <1>13 DEF UnplugIn, recvVars, sendVars
  <2>2. Gone'
    BY <2>1 DEF Gone, Links
  <2> QED BY <1>w, <2>1, <2>2
<1> QED BY <1>1, <1>2, <1>3, <1>4, <1>5, <1>6, <1>7, <1>8, <1>9, <1>10, <1>11, <1>12, <1>13
-----------------------------------------------------------------------------
(* Calls that return                                                       *)

\* Where the line that is being read begins.
LEMMA LineStart ==
    ASSUME TypeOK, NEW p \in 0..Len(written), LinesTaken(p)
    PROVE  /\ LineEnd(written, lines) \in Nat /\ LineEnd(written, lines) <= p
           /\ Feeds(written, LineEnd(written, lines)) = lines
           /\ EndsBy(written, lines, p)
<1>1. lines \in Nat /\ EndsBy(written, lines, p) /\ LineEnd(written, lines) <= p
  BY DEF TypeOK, LinesTaken, EndsBy
<1>2. CASE lines = 0
  <2>1. {i \in 1..0 : written[i] = LF} = {}
    OBVIOUS
  <2>2. LineEnd(written, 0) = 0 /\ Feeds(written, 0) = 0
    BY <2>1, FS_EmptySet DEF LineEnd, Feeds
  <2> QED BY <1>1, <1>2, <2>2
<1>3. CASE lines # 0
  <2>1. lines \in 1..lines
    BY <1>1, <1>3
  <2>2. LineEnd(written, lines) \in 1..p /\ Feeds(written, LineEnd(written, lines)) = lines
    BY <1>1, <2>1 DEF EndsBy
  <2> QED BY <1>1, <2>2
<1> QED BY <1>2, <1>3

\* A result for the line that is being read is no result for another.
LEMMA NewResult ==
    ASSUME TypeOK, Asks, Running, NEW text \in Seq(Bytes), Returns(text)
    PROVE  /\ \A l \in Nat : l # lines + 1 => Results(l)' = Results(l)
           /\ Results(lines + 1) \subseteq 1..Len(got) /\ Len(got) + 1 \notin 1..Len(got)
           /\ {i \in 1..Len(got') : got'[i].line = lines + 1} = Results(lines + 1) \cup {Len(got) + 1}
<1> DEFINE n == Len(got)
<1>1. /\ Len(got') = n + 1 /\ n \in Nat /\ \A i \in 1..n : got'[i] = got[i]
      /\ got'[n + 1].line = lines + 1
  <2>1. got'[n + 1] = [text |-> text, line |-> lines + 1, max |-> call.max]
    BY ReturnsType
  <2>2. got'[n + 1].line = lines + 1
    BY <2>1
  <2> QED BY <2>2, ReturnsType
<1>2. \A l : Results(l)' = {i \in 1..(n + 1) : got'[i].line = l}
  BY <1>1 DEF Results
<1>3. \A l : Results(l) = {i \in 1..n : got[i].line = l}
  BY DEF Results
<1> HIDE DEF n
<1>4. \A i : i \in 1..(n + 1) <=> i \in 1..n \/ i = n + 1
  BY <1>1
<1>5. n + 1 \notin 1..n
  BY <1>1
<1>6. \A l \in Nat : l # lines + 1 => Results(l)' = Results(l)
  BY <1>1, <1>2, <1>3, <1>4
<1>7. {i \in 1..(n + 1) : got'[i].line = lines + 1} = Results(lines + 1) \cup {n + 1}
  BY <1>1, <1>3, <1>4
<1>8. Results(lines + 1) \subseteq 1..n
  BY <1>3
<1> QED BY <1>1, <1>5, <1>6, <1>7, <1>8 DEF n

\* What was known of the lines that were taken does not change.
LEMMA OldLines ==
    ASSUME TypeOK, Asks, Running, NEW text \in Seq(Bytes), Returns(text), UNCHANGED written,
           NEW l \in 1..lines, WholeLine(l)
    PROVE  WholeLine(l)'
<1>1. lines \in Nat /\ l \in Nat /\ l # lines + 1
  BY DEF TypeOK
<1>2. Results(l)' = Results(l) /\ Results(l) \subseteq 1..Len(got)
  BY <1>1, NewResult DEF Results
<1>3. LineText(l)' = LineText(l)
  BY DEF LineText
<1>4. /\ \A i \in 1..Len(got) : got'[i] = got[i]
      /\ Len(got') = Len(got) + 1 /\ Len(got) \in Nat
  BY ReturnsType
<1>5. \A i \in 1..Len(got) : i \in 1..Len(got')
  BY <1>4
<1> QED BY <1>2, <1>3, <1>4, <1>5 DEF WholeLine

\* The head of an overlong line is returned: the rest of it follows.
LEMMA HeadNext ==
    ASSUME IInv, TakeHead, TypeOK', Links', Asks'
    PROVE  IInv'
<1>0. PICK max : max = call.max
  OBVIOUS
<1> DEFINE text == SubSeq(rbuf, 1, max)
<1>1. /\ Running /\ FirstLF(rbuf) = 0 /\ Len(rbuf) > max /\ Returns(text)
      /\ rbuf' = SubSeq(rbuf, max + 1, Len(rbuf))
      /\ UNCHANGED <<link, out, inn, wire, lines, sending, written>>
  BY <1>0 DEF TakeHead, sendVars
<1>2. PICK p \in 0..Len(written) : Taken(p)
  BY DEF IInv
<1>3. /\ TypeOK /\ Asks /\ Links /\ ~Gone
      /\ LinesTaken(p) /\ HeadTaken(p) /\ Follows(p)
  BY <1>1, <1>2 DEF IInv, Taken, Asks, Gone
<1>4. /\ rbuf \in Seq(Bytes) /\ written \in Seq(Bytes) /\ Len(rbuf) \in Nat /\ Len(written) \in Nat
      /\ p \in Nat /\ lines \in Nat
  BY <1>3 DEF TypeOK
<1>5. max \in Nat \ {0} /\ max \in 0..Len(rbuf)
  <2>1. max \in Nat \ {0}
    BY <1>0, <1>1, <1>3, SocketsAssumption DEF Asks
  <2> QED BY <1>1, <1>4, <2>1
<1>6. \A i \in 1..Len(rbuf) : rbuf[i] # LF
  BY <1>1, <1>4, FirstLFIs
<1> DEFINE q == p + Len(rbuf)
           r == SubSeq(rbuf, max + 1, Len(rbuf))
           s == LineEnd(written, lines)
<1>7. /\ Fits(written, p, rbuf) /\ Fits(written, q, wire) /\ Unsent(written, q + Len(wire), sending)
      /\ out /\ sending = <<>> => q + Len(wire) = Len(written)
  BY <1>3 DEF Follows
<1>8. q <= Len(written) /\ \A i \in 1..Len(rbuf) : written[p + i] = rbuf[i]
  BY <1>7 DEF Fits
<1>9. /\ text \in Seq(Bytes) /\ r \in Seq(Bytes) /\ Len(r) = Len(rbuf) - max
      /\ Fits(written, p + max, r)
  BY <1>4, <1>5, <1>7, FitsCut
<1> HIDE DEF text, r
<1>10. s \in Nat /\ s <= p
  BY <1>3, LineStart
<1>n. p + max \in 0..Len(written) /\ p + max \in Nat /\ p + max < Len(written) /\ max \in Nat
  BY <1>1, <1>4, <1>5, <1>8
<1>11. Follows(p + max)'
  <2>1. (p + max) + Len(r) = q
    BY <1>4, <1>5, <1>9
  <2>2. rbuf' = r
    BY <1>1 DEF r
  <2> HIDE DEF q
  <2> QED BY <1>1, <1>7, <1>9, <2>1, <2>2 DEF Follows
<1>12. \A i \in (s + 1)..(p + max) : written[i] # LF
  <2>1. \A i \in (s + 1)..p : written[i] # LF
    BY <1>3 DEF LinesTaken
  <2>2. ASSUME NEW i \in (s + 1)..(p + max), i > p PROVE written[i] # LF
    <3>1. i - p \in 1..Len(rbuf) /\ p + (i - p) = i
      BY <1>4, <1>5, <1>10, <2>2
    <3> QED BY <1>6, <1>8, <3>1
  <2>3. \A i \in (s + 1)..(p + max) : i \in (s + 1)..p \/ i > p
    BY <1>4, <1>n, <1>10
  <2> QED BY <2>1, <2>2, <2>3
<1>13. LinesTaken(p + max)'
  <2>1. \A l \in 1..lines : LineEnd(written, l) \in 1..(p + max)
    BY <1>3, <1>4, <1>n DEF LinesTaken
  <2>2. s <= p + max
    BY <1>4, <1>10, <1>n
  <2> HIDE DEF s
  <2>3. \A l \in 1..lines : written[LineEnd(written, l)] = LF /\ Feeds(written, LineEnd(written, l)) = l
    BY <1>3 DEF LinesTaken
  <2> QED BY <1>1, <1>12, <2>1, <2>2, <2>3 DEF LinesTaken, s
<1>g. /\ Len(got') = Len(got) + 1 /\ Len(got) \in Nat
      /\ \A i \in 1..Len(got) : got'[i] = got[i]
      /\ got'[Len(got) + 1] = [text |-> text, line |-> lines + 1, max |-> max]
      /\ got \in Seq(Result)
  BY <1>0, <1>1, <1>3, <1>9, ReturnsType DEF text, TypeOK, Result
<1> DEFINE R == Results(lines + 1)
           n == Len(got) + 1
<1>14. (Results(lines + 1))' = R \cup {n} /\ R \subseteq 1..Len(got)
  BY <1>1, <1>3, <1>9, NewResult DEF Results, text
<1>15. HeadTaken(p + max)'
  <2>1. written[(p + max) + 1] # LF
    <3>1. max + 1 \in 1..Len(rbuf) /\ (p + max) + 1 = p + (max + 1)
      BY <1>1, <1>4, <1>5
    <3> QED BY <1>6, <1>8, <3>1
  <2>2. \E i \in R \cup {n} : got'[i].max <= (p + max) - s
    <3>1. CASE R = {}
      <4>1. p = s
        BY <1>3, <3>1 DEF HeadTaken
      <4>2. got'[n].max = max
        BY <1>g
      <4>3. max <= (p + max) - s
        BY <1>4, <1>n, <4>1
      <4> QED BY <4>2, <4>3
    <3>2. CASE R # {}
      <4>1. PICK i \in R : got[i].max <= p - s
        BY <1>3, <3>2 DEF HeadTaken
      <4>2. got'[i] = got[i] /\ i \in 1..Len(got)
        BY <1>14, <1>g
      <4>3. got[i].max \in Nat
        <5>1. got[i] \in Result
          BY <1>g, <4>2, ElementOfSeq
        <5> QED BY <5>1, SocketsAssumption DEF Result
      <4> DEFINE x == got[i].max
      <4>4. x <= p - s /\ x \in Nat
        BY <4>1, <4>3
      <4> HIDE DEF x, s
      <4>5. x <= (p + max) - s
        BY <1>4, <1>n, <1>10, <4>4
      <4>6. got'[i].max <= (p + max) - s
        BY <4>2, <4>5 DEF x
      <4> QED BY <4>6
    <3> QED BY <3>1, <3>2
  <2>3. R \cup {n} # {}
    OBVIOUS
  <2> HIDE DEF R, n, s
  <2>4. LineEnd(written, lines)' = s
    BY <1>1 DEF s
  <2>5. written' = written
    BY <1>1
  <2> QED BY <1>n, <1>14, <2>1, <2>2, <2>3, <2>4, <2>5 DEF HeadTaken
<1>16. Taken(p + max)'
  BY <1>1, <1>n, <1>11, <1>13, <1>15 DEF Taken
<1>17. ResultsSoFar'
  <2>1. \A i \in 1..Len(got) : got[i].line <= lines + 1
    BY DEF IInv, ResultsSoFar
  <2>2. got'[n].line <= lines + 1
    BY <1>4, <1>g
  <2>3. \A i \in 1..Len(got') : i \in 1..Len(got) \/ i = n
    BY <1>g
  <2> HIDE DEF n
  <2> QED BY <1>1, <1>g, <2>1, <2>2, <2>3 DEF ResultsSoFar
<1>18. \A l \in 1..lines' : WholeLine(l)'
  <2> TAKE l \in 1..lines'
  <2>1. l \in 1..lines /\ WholeLine(l)
    BY <1>1 DEF IInv
  <2>2. text \in Seq(Bytes) /\ Returns(text)
    BY <1>1, <1>9 DEF text
  <2> QED BY <1>1, <1>3, <2>1, <2>2, OldLines
<1>19. p + max \in 0..Len(written')
  BY <1>1, <1>n
<1> QED BY <1>16, <1>17, <1>18, <1>19 DEF IInv

\* A line is complete: the next one begins behind it.
LEMMA LineNext ==
    ASSUME IInv, TakeLine, TypeOK', Links', Asks'
    PROVE  IInv'
<1>0. PICK max, nl, L : max = call.max /\ nl = FirstLF(rbuf) /\ L = lines + 1
  OBVIOUS
<1> DEFINE y == SubSeq(rbuf, 1, nl - 1)
           text == Cut(Chomp(y), max)
           r == SubSeq(rbuf, nl + 1, Len(rbuf))
           s == LineEnd(written, lines)
<1>1. /\ Running /\ nl # 0 /\ Returns(text) /\ rbuf' = r /\ lines' = L
      /\ UNCHANGED <<link, out, inn, wire, sending, written>>
  BY <1>0 DEF TakeLine, sendVars
<1>2. PICK p \in 0..Len(written) : Taken(p)
  BY DEF IInv
<1>3. /\ TypeOK /\ Asks /\ Links /\ ~Gone
      /\ LinesTaken(p) /\ HeadTaken(p) /\ Follows(p)
  BY <1>1, <1>2 DEF IInv, Taken, Asks, Gone
<1>4. /\ rbuf \in Seq(Bytes) /\ written \in Seq(Bytes) /\ Len(rbuf) \in Nat /\ Len(written) \in Nat
      /\ p \in Nat /\ lines \in Nat /\ L \in Nat \ {0}
  BY <1>0, <1>3 DEF TypeOK
<1>5. max \in Nat
  BY <1>0, <1>1, <1>3, SocketsAssumption DEF Asks
<1>6. nl \in 1..Len(rbuf) /\ rbuf[nl] = LF /\ \A i \in 1..(nl - 1) : rbuf[i] # LF
  BY <1>0, <1>1, <1>4, FirstLFIs
<1>7. nl \in Nat /\ nl >= 1 /\ nl <= Len(rbuf) /\ nl - 1 \in 0..Len(rbuf) /\ nl \in 0..Len(rbuf)
  BY <1>4, <1>6
<1> DEFINE q == p + Len(rbuf)
<1>8. /\ Fits(written, p, rbuf) /\ Fits(written, q, wire) /\ Unsent(written, q + Len(wire), sending)
      /\ out /\ sending = <<>> => q + Len(wire) = Len(written)
  BY <1>3 DEF Follows
<1>9. q <= Len(written) /\ \A i \in 1..Len(rbuf) : written[p + i] = rbuf[i]
  BY <1>8 DEF Fits
<1>10. /\ y \in Seq(Bytes) /\ Len(y) = nl - 1
       /\ r \in Seq(Bytes) /\ Len(r) = Len(rbuf) - nl /\ Fits(written, p + nl, r)
  BY <1>4, <1>7, <1>8, FitsCut
<1>11. text \in Seq(Bytes)
  BY <1>5, <1>10, ChompIs, CutIs
<1> HIDE DEF r
<1>12. s \in Nat /\ s <= p /\ Feeds(written, s) = lines /\ EndsBy(written, lines, p)
  BY <1>3, LineStart
<1>n. p + nl \in 1..Len(written) /\ p + nl \in Nat /\ p < p + nl
  BY <1>4, <1>7, <1>9
<1>13. \A i \in (s + 1)..(p + nl - 1) : written[i] # LF
  <2>1. \A i \in (s + 1)..p : written[i] # LF
    BY <1>3 DEF LinesTaken
  <2> HIDE DEF s
  <2>2. ASSUME NEW i \in (s + 1)..(p + nl - 1), i > p PROVE written[i] # LF
    <3>1. i - p \in 1..Len(rbuf) /\ i - p \in 1..(nl - 1) /\ p + (i - p) = i
      BY <1>4, <1>7, <1>12, <2>2
    <3> QED BY <1>6, <1>9, <3>1
  <2>3. \A i \in (s + 1)..(p + nl - 1) : i \in (s + 1)..p \/ i > p
    BY <1>4, <1>7, <1>12
  <2> QED BY <2>1, <2>2, <2>3
<1>14. written[p + nl] = LF
  BY <1>6, <1>9
<1>15. Feeds(written, p + nl) = L
  <2> HIDE DEF s
  <2>1. p + nl - 1 \in Nat /\ s <= p + nl - 1 /\ (p + nl - 1) + 1 = p + nl
    BY <1>4, <1>7, <1>12
  <2>2. Feeds(written, p + nl - 1) = Feeds(written, s)
    BY <1>12, <1>13, <2>1, FeedsNone
  <2>3. Feeds(written, p + nl) = Feeds(written, p + nl - 1) + 1
    BY <1>14, <2>1, FeedsOne
  <2> QED BY <1>0, <1>12, <2>2, <2>3
<1>16. LineEnd(written, L) = p + nl
  BY <1>4, <1>n, <1>14, <1>15, LineEndIs
<1>17. Follows(p + nl)'
  <2>1. (p + nl) + Len(r) = q
    BY <1>4, <1>7, <1>10
  <2> HIDE DEF q
  <2> QED BY <1>1, <1>8, <1>10, <2>1 DEF Follows
<1>18. LinesTaken(p + nl)'
  <2>1. ASSUME NEW l \in 1..L
        PROVE  /\ LineEnd(written, l) \in 1..(p + nl) /\ written[LineEnd(written, l)] = LF
               /\ Feeds(written, LineEnd(written, l)) = l
    <3>1. CASE l = L
      <4>1. p + nl \in 1..(p + nl)
        BY <1>4, <1>7
      <4> QED BY <1>14, <1>15, <1>16, <3>1, <4>1
    <3>2. CASE l # L
      <4>1. l \in 1..lines
        BY <1>0, <1>4, <3>2
      <4>2. /\ LineEnd(written, l) \in 1..p /\ written[LineEnd(written, l)] = LF
            /\ Feeds(written, LineEnd(written, l)) = l
        BY <1>12, <4>1 DEF EndsBy
      <4>3. \A i \in 1..p : i \in 1..(p + nl)
        BY <1>4, <1>7
      <4> QED BY <4>2, <4>3
    <3> QED BY <3>1, <3>2
  <2>2. p + nl <= p + nl /\ \A i \in (p + nl + 1)..(p + nl) : written[i] # LF
    BY <1>n
  <2>3. written' = written /\ lines' = L
    BY <1>1
  <2> QED BY <1>16, <2>1, <2>2, <2>3 DEF LinesTaken
<1>g. /\ Len(got') = Len(got) + 1 /\ Len(got) \in Nat
      /\ \A i \in 1..Len(got) : got'[i] = got[i]
      /\ got'[Len(got) + 1] = [text |-> text, line |-> L, max |-> max]
      /\ got \in Seq(Result)
  <2>1. got \in Seq(Result)
    BY <1>3 DEF TypeOK, Result
  <2> HIDE DEF text
  <2> QED BY <1>0, <1>1, <1>3, <1>11, <2>1, ReturnsType
<1> DEFINE R == Results(L)
<1>19. PICK n : n = Len(got) + 1
  OBVIOUS
<1> HIDE DEF text
<1>20. /\ Results(L)' = R \cup {n} /\ R \subseteq 1..Len(got)
       /\ \A l \in Nat : l # L => Results(l)' = Results(l)
  <2>1. {i \in 1..Len(got') : got'[i].line = L} = R \cup {n}
    BY <1>0, <1>1, <1>3, <1>11, <1>19, NewResult
  <2>2. R \subseteq 1..Len(got) /\ \A l \in Nat : l # L => Results(l)' = Results(l)
    BY <1>0, <1>1, <1>3, <1>11, NewResult
  <2> QED BY <2>1, <2>2 DEF Results
<1>21. ResultsSoFar'
  <2>1. \A i \in 1..Len(got) : got[i].line <= L /\ got[i].line \in Nat
    <3>1. \A i \in 1..Len(got) : got[i] \in Result
      BY <1>g, ElementOfSeq
    <3> QED BY <1>0, <3>1 DEF IInv, ResultsSoFar, Result
  <2>2. got'[n].line = L
    BY <1>g, <1>19
  <2>3. \A i \in 1..Len(got') : i \in 1..Len(got) \/ i = n
    BY <1>g, <1>19
  <2>4. \A i \in 1..Len(got') : got'[i].line <= L + 1
    <3> TAKE i \in 1..Len(got')
    <3>1. CASE i \in 1..Len(got)
      <4>1. got'[i].line <= L /\ got'[i].line \in Nat
        BY <1>g, <2>1, <3>1
      <4> QED BY <1>4, <4>1
    <3>2. CASE i = n
      BY <1>4, <2>2, <3>2
    <3> QED BY <2>3, <3>1, <3>2
  <2> QED BY <1>1, <2>4 DEF ResultsSoFar
<1>22. HeadTaken(p + nl)'
  <2>1. L + 1 \in Nat /\ L + 1 # L
    BY <1>4
  <2>2. Results(L + 1) = {}
    <3>1. \A i \in 1..Len(got) : got[i] \in Result /\ got[i].line <= L
      BY <1>0, <1>g, ElementOfSeq DEF IInv, ResultsSoFar
    <3>2. \A i \in 1..Len(got) : got[i].line # L + 1
      BY <1>4, <3>1 DEF Result
    <3> QED BY <3>2 DEF Results
  <2>3. Results(L + 1)' = {}
    BY <1>20, <2>1, <2>2
  <2>4. lines' = L /\ written' = written
    BY <1>1
  <2> QED BY <1>16, <2>3, <2>4 DEF HeadTaken
<1>23. Taken(p + nl)'
  <2>1. p + nl \in 0..Len(written')
    BY <1>1, <1>n
  <2> QED BY <2>1, <1>17, <1>18, <1>22 DEF Taken
<1>24. WholeLine(L)'
  <2> DEFINE x == SubSeq(written, s + 1, p + nl - 1)
  <2>1. LineText(L)' = Chomp(x)
    <3>1. L - 1 = lines
      BY <1>0, <1>4
    <3>2. LineEnd(written, L - 1) = s
      BY <3>1
    <3>3. LineText(L) = Chomp(x)
      <4> DEFINE from == LineEnd(written, L - 1)
                 to == LineEnd(written, L)
      <4>1. LineText(L) = Chomp(SubSeq(written, from + 1, to - 1))
        BY DEF LineText
      <4>2. from = s
        BY <3>2
      <4>3. to = p + nl
        BY <1>16
      <4> DEFINE j == s + 1
                 k == p + nl - 1
                 jj == from + 1
                 kk == to - 1
      <4>4. jj = j
        <5> HIDE DEF from, s
        <5> QED BY <4>2
      <4>5. kk = k
        <5> HIDE DEF to
        <5> QED BY <1>4, <1>7, <4>3
      <4>6. x = SubSeq(written, j, k)
        OBVIOUS
      <4>7. LineText(L) = Chomp(SubSeq(written, jj, kk))
        BY <4>1
      <4> HIDE DEF x, j, k, jj, kk
      <4> QED BY <4>4, <4>5, <4>6, <4>7
    <3>4. LineText(L)' = LineText(L)
      BY <1>1 DEF LineText
    <3> QED BY <3>3, <3>4
  <2>2. /\ x \in Seq(Bytes) /\ Len(x) = p + nl - 1 - s
        /\ \A i \in 1..(p + nl - 1 - s) : x[i] = written[s + i]
    <3> DEFINE j == s + 1
               k == p + nl - 1
    <3> HIDE DEF s
    <3>1. j \in 1..(Len(written) + 1) /\ k \in (j - 1)..Len(written) /\ k - j + 1 = p + nl - 1 - s
          /\ \A i \in 1..(k - j + 1) : j + i - 1 = s + i
      BY <1>4, <1>7, <1>n, <1>12
    <3> HIDE DEF j, k
    <3>2. /\ SubSeq(written, j, k) \in Seq(Bytes) /\ Len(SubSeq(written, j, k)) = k - j + 1
          /\ \A i \in 1..(k - j + 1) : SubSeq(written, j, k)[i] = written[j + i - 1]
      BY <1>4, <3>1, Part
    <3> QED BY <3>1, <3>2 DEF j, k
  <2> HIDE DEF x, s
  <2>3. Chomp(x) \in Seq(Bytes) /\ Len(Chomp(x)) \in Nat /\ Len(Chomp(x)) >= Len(x) - 1
    BY <2>2, ChompIs
  <2>4. SUFFICES ASSUME \A i \in R \cup {n} : Len(Chomp(x)) < got'[i].max
                 PROVE  \E i \in 1..Len(got') : R \cup {n} = {i} /\ got'[i].text = Chomp(x)
    BY <1>20, <2>1 DEF WholeLine
  <2>5. CASE R = {}
    <3>1. p = s
      BY <1>0, <1>3, <2>5 DEF HeadTaken, s
    <3>2. x = y
      <4>1. Len(x) = nl - 1
        BY <1>4, <1>7, <2>2, <3>1
      <4>2. \A i \in 1..(nl - 1) : y[i] = rbuf[i]
        <5> DEFINE k == nl - 1
        <5>1. 1 \in 1..(Len(rbuf) + 1) /\ k \in (1 - 1)..Len(rbuf) /\ k - 1 + 1 = k
              /\ \A i \in 1..k : 1 + i - 1 = i
          BY <1>4, <1>7
        <5> HIDE DEF k
        <5>2. \A i \in 1..k : SubSeq(rbuf, 1, k)[i] = rbuf[i]
          BY <1>4, <5>1, Part
        <5> QED BY <5>2 DEF k
      <4>3. \A i \in 1..(nl - 1) : x[i] = rbuf[i]
        <5>1. p + nl - 1 - s = nl - 1 /\ \A i \in 1..(nl - 1) : i \in 1..Len(rbuf)
          BY <1>4, <1>7, <3>1
        <5> QED BY <1>9, <2>2, <3>1, <5>1
      <4> HIDE DEF y
      <4>4. \A i \in 1..Len(x) : x[i] = y[i]
        BY <4>1, <4>2, <4>3
      <4> QED BY <1>10, <2>2, <4>1, <4>4, SameBytes
    <3>3. got'[n].text = text /\ got'[n].max = max
      BY <1>g, <1>19
    <3>4. Len(Chomp(x)) <= max
      <4>1. Len(Chomp(x)) < max
        BY <2>4, <3>3
      <4> QED BY <1>5, <2>3, <4>1
    <3>5. text = Chomp(x)
      BY <1>5, <2>3, <3>2, <3>4, CutIs DEF text
    <3>6. n \in 1..Len(got')
      BY <1>g, <1>19
    <3> QED BY <2>5, <3>3, <3>5, <3>6
  <2>6. CASE R # {}
    <3>1. PICK i \in R : got[i].max <= p - s
      BY <1>0, <1>3, <2>6 DEF HeadTaken, s
    <3>2. written[p + 1] # LF
      BY <1>0, <1>3, <2>6 DEF HeadTaken
    <3>3. nl # 1
      BY <1>14, <3>2
    <3>4. got'[i] = got[i] /\ i \in 1..Len(got)
      BY <1>20, <1>g
    <3>5. got[i].max \in Nat
      <4>1. got[i] \in Result
        BY <1>g, <3>4, ElementOfSeq
      <4> QED BY <4>1, SocketsAssumption DEF Result
    <3> DEFINE c == Len(Chomp(x))
               m == got[i].max
    <3>6. c < m
      BY <2>4, <3>4
    <3>7. c \in Nat /\ c >= (p + nl - 1 - s) - 1 /\ m \in Nat /\ m <= p - s
      BY <2>2, <2>3, <3>1, <3>5
    <3> HIDE DEF c, m
    <3>8. FALSE
      BY <1>4, <1>7, <1>12, <3>3, <3>6, <3>7
    <3> QED BY <3>8
  <2> QED BY <2>5, <2>6
<1>25. ASSUME NEW l \in 1..lines' PROVE WholeLine(l)'
  <2>1. CASE l = L
    BY <1>24, <2>1
  <2>2. CASE l # L
    <3>1. l \in 1..lines
      BY <1>0, <1>1, <1>4, <2>2
    <3>2. WholeLine(l) /\ written' = written
      BY <1>1, <3>1 DEF IInv
    <3> QED BY <1>1, <1>3, <1>11, <3>1, <3>2, OldLines
  <2> QED BY <2>1, <2>2
<1>26. p + nl \in 0..Len(written')
  BY <1>1, <1>n
<1> QED BY <1>21, <1>23, <1>25, <1>26 DEF IInv
-----------------------------------------------------------------------------
(* Theorems                                                                *)

\* At the start nothing was taken.
LEMMA InvInit == Init => IInv
<1> SUFFICES ASSUME Init PROVE IInv
  OBVIOUS
<1>1. TypeOK /\ Asks
  BY InitTyped
<1>2. /\ link = "none" /\ ~out /\ ~inn /\ sending = <<>> /\ wire = <<>>
      /\ rbuf = <<>> /\ written = <<>> /\ got = <<>> /\ lines = 0
  BY DEF Init
<1>3. Len(<<>>) = 0 /\ 0 \in 0..0 /\ \A i : i \notin 1..0
  OBVIOUS
<1>4. Links /\ ResultsSoFar
  BY <1>2, <1>3 DEF Links, ResultsSoFar
<1>5. \A l \in 1..lines : WholeLine(l)
  BY <1>2, <1>3
<1>6. Follows(0)
  BY <1>2, <1>3 DEF Follows, Fits, Unsent
<1>7. LineEnd(written, lines) = 0
  BY <1>2 DEF LineEnd
<1>8. LinesTaken(0)
  <2>1. \A l : l \notin 1..lines
    BY <1>2, <1>3
  <2>2. \A i : i \notin (0 + 1)..0
    OBVIOUS
  <2> QED BY <1>7, <2>1, <2>2 DEF LinesTaken
<1>9. HeadTaken(0)
  <2>1. Results(lines + 1) = {}
    BY <1>2, <1>3 DEF Results
  <2> QED BY <1>7, <2>1 DEF HeadTaken
<1>10. 0 \in 0..Len(written)
  BY <1>2, <1>3
<1>11. Taken(0)
  BY <1>6, <1>8, <1>9, <1>10 DEF Taken
<1> QED BY <1>1, <1>4, <1>5, <1>10, <1>11 DEF IInv

\* The invariant is inductive: where the reader stands moves only when a line or a
\* head is returned.
LEMMA InvNext == IInv /\ [Next]_vars => IInv'
<1> SUFFICES ASSUME IInv, [Next]_vars PROVE IInv'
  OBVIOUS
<1>1. TypeOK /\ Asks /\ Links /\ ResultsSoFar /\ \A l \in 1..lines : WholeLine(l)
  BY DEF IInv
<1>2. TypeOK' /\ Asks' /\ Links'
  BY <1>1, TypeNext, LinksNext
<1>3. CASE TakeLine
  BY <1>2, <1>3, LineNext
<1>4. CASE TakeHead
  BY <1>2, <1>4, HeadNext
<1>5. CASE \/ Listen \/ Connect \/ Accept
           \/ \E m \in Messages, ended \in BOOLEAN : Send(m, ended)
           \/ Write \/ SendFails
           \/ \E max \in Sizes, timed \in BOOLEAN : Receive(max, timed)
           \/ Recv \/ Timeout \/ Eof \/ UnplugOut \/ UnplugIn \/ UNCHANGED vars
  <2>1. PICK p \in 0..Len(written) : Taken(p)
    BY DEF IInv
  <2>2. LinesTaken(p) /\ HeadTaken(p) /\ (~Gone => Follows(p))
    BY <2>1 DEF Taken
  <2>3. UNCHANGED <<got, lines>> /\ Extends(written', written) /\ (~Gone' => Follows(p)')
    BY <1>1, <1>5, <2>2, FollowsNext
  <2>4. /\ p \in 0..Len(written') /\ LinesTaken(p)' /\ HeadTaken(p)'
        /\ \A l \in 1..lines' : WholeLine(l)'
    BY <1>1, <1>2, <2>2, <2>3, KeepTaken
  <2>5. Taken(p)'
    BY <2>3, <2>4 DEF Taken
  <2>6. ResultsSoFar'
    BY <1>1, <2>3 DEF ResultsSoFar
  <2> QED BY <1>2, <2>4, <2>5, <2>6 DEF IInv
<1> QED BY <1>3, <1>4, <1>5 DEF Next

\* Every variable keeps its type, however the bytes are cut up.
THEOREM Types == Spec => []TypeOK
<1>1. TypeOK /\ Asks /\ [Next]_vars => TypeOK' /\ Asks'
  BY TypeNext
<1> QED BY InitTyped, <1>1, PTL DEF Spec

\* A line shorter than every size it is asked for with comes out whole, once
\* and in its place: for any messages and sizes, however send and recv cut the
\* stream up and however many calls timed out in the middle of it.
THEOREM ShortLinesComeOutWhole == Spec => []ShortLinesWhole
<1>1. IInv => ShortLinesWhole
  BY DEF IInv, WholeLine, ShortLinesWhole
<1>2. IInv /\ [Next]_vars => IInv'
  BY InvNext
<1> QED BY InvInit, <1>1, <1>2, PTL DEF Spec
=============================================================================
