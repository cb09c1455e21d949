------------------------------ MODULE Numbers ------------------------------
(* Integers of the programs, runtime.c: machine integers, and beyond them   *)
(* big integers kept as decimal text and computed digit by digit.           *)
(*                                                                          *)
(* A text is its sign and its digits, the most significant first.  Digits   *)
(* are in base Radix, and multiplication takes LimbDigits of them at a time. *)
EXTENDS Integers, SequencesExt

CONSTANTS
    MaxInt,     \* INT64_MAX
    Radix,      \* 10
    LimbDigits, \* 9
    PowLoops    \* the largest exponent int_pow multiplies out in a machine word (64)

MinInt == -MaxInt - 1
Fits(n) == MinInt <= n /\ n <= MaxInt

Abs(n)  == IF n < 0 THEN -n ELSE n
Idx(n)  == [i \in 1..n |-> i]

-----------------------------------------------------------------------------
(* Texts                                                                   *)

RECURSIVE Digits(_)
Digits(n) == IF n < Radix THEN <<n>> ELSE Append(Digits(n \div Radix), n % Radix)

Text(n)  == [neg |-> n < 0, abs |-> Digits(Abs(n))]
Zero     == Text(0)
Signed(neg, ds) == [neg |-> neg /\ ds # Zero.abs, abs |-> ds]
Minus(t) == [t EXCEPT !.neg = ~@]

Whole(ds)  == FoldLeft(LAMBDA n, d : n * Radix + d, 0, ds)
Meaning(t) == IF t.neg THEN -Whole(t.abs) ELSE Whole(t.abs)

\* The characters of a text: the sign is one, and comes before all digits.
Chars(t) == IF t.neg THEN <<-1>> \o t.abs ELSE t.abs

\* The digit i places from the right; behind the last there are zeros.
Digit(ds, i) == IF i <= Len(ds) THEN ds[Len(ds) + 1 - i] ELSE 0

Canonical(t) == (Len(t.abs) > 1 => t.abs[1] # 0) /\ (t.neg => t # Minus(Zero))

\* Leading zeros dropped, one digit kept.
BigNorm(ds) ==
    SubSeq(ds, CHOOSE i \in 1..Len(ds) : (i = Len(ds) \/ ds[i] # 0) /\ \A j \in 1..(i - 1) : ds[j] = 0, Len(ds))

\* strcmp of strings of one length.
StrCmp(a, b) ==
    IF a = b THEN 0
    ELSE LET i == CHOOSE k \in 1..Len(a) : a[k] # b[k] /\ \A j \in 1..(k - 1) : a[j] = b[j]
         IN  a[i] - b[i]

CmpNormal(a, b) == IF Len(a) # Len(b) THEN Len(a) - Len(b) ELSE StrCmp(a, b)
BigCmpAbs(a, b) == CmpNormal(BigNorm(a), BigNorm(b))

\* One digit in front, the rest carried.
AddDigit(r, sum) == [out |-> <<sum % Radix>> \o r.out, carry |-> sum \div Radix]
WithCarry(r) == IF r.carry > 0 THEN <<r.carry>> \o r.out ELSE r.out

BigAddAbs(a, b) ==
    WithCarry(FoldLeft(LAMBDA r, i : AddDigit(r, Digit(a, i) + Digit(b, i) + r.carry),
                       [out |-> <<>>, carry |-> 0], Idx(IF Len(a) > Len(b) THEN Len(a) ELSE Len(b))))

\* One digit in front, or ten more and one borrowed.
SubDigit(r, d) == [out |-> <<d % Radix>> \o r.out, borrow |-> IF d < 0 THEN 1 ELSE 0]

\* What is borrowed beyond the first digit of a is lost.
BigSubAbs(a, b) ==
    BigNorm(FoldLeft(LAMBDA r, i : SubDigit(r, Digit(a, i) - Digit(b, i) - r.borrow),
                     [out |-> <<>>, borrow |-> 0], Idx(Len(a))).out)

\* The larger of two numbers of different signs is found by comparing the texts,
\* signs included; the result has its sign.
AddOpposite(bigger, smaller) == Signed(bigger.neg, BigSubAbs(bigger.abs, smaller.abs))
AddBy(c, a, b) ==
    IF c = 0 THEN Zero ELSE AddOpposite(IF c > 0 THEN a ELSE b, IF c > 0 THEN b ELSE a)

BigAdd(a, b) ==
    IF a.neg = b.neg THEN [neg |-> a.neg, abs |-> BigAddAbs(a.abs, b.abs)]
    ELSE AddBy(BigCmpAbs(Chars(a), Chars(b)), a, b)

BigSub(a, b) == BigAdd(a, Minus(b))
BigNegate(t) == IF t = Zero THEN Zero ELSE Minus(t)

LimbBase == Radix ^ LimbDigits

\* LimbDigits digits each, the least first.
Limb(ds, i) == FoldLeft(LAMBDA v, k : v * Radix + Digit(ds, i * LimbDigits + 1 - k), 0, Idx(LimbDigits))
Limbs(ds)   == [i \in 1..((Len(ds) + LimbDigits - 1) \div LimbDigits) |-> Limb(ds, i)]

\* "%09u": a limb below the first is written with all its digits.
Padded(limb) == [k \in 1..LimbDigits |-> Digit(Digits(limb), LimbDigits + 1 - k)]

\* As MulCell, when what a carry overflows is forgotten.
MulCellForgets(c, cur) == [out |-> Append(c.out, (cur + c.carry) % LimbBase), carry |-> cur \div LimbBase]

\* One row: x[i] times y, on top of r from its limb i on, the carry behind it.
MulCell(c, cur) == [out |-> Append(c.out, (cur + c.carry) % LimbBase), carry |-> (cur + c.carry) \div LimbBase]
MulRow(r, i, m, y) ==
    LET row == FoldLeft(LAMBDA c, j : MulCell(c, r[i + j - 1] + m * y[j]),
                        [out |-> SubSeq(r, 1, i - 1), carry |-> 0], Idx(Len(y)))
    IN  Append(row.out, row.carry)
MulLimbs(x, y) == FoldLeft(LAMBDA r, i : MulRow(r, i, x[i], y), [k \in 1..Len(y) |-> 0], Idx(Len(x)))

\* From the first limb that is not zero.
Written(limbs) == FoldLeft(LAMBDA ds, l : ds \o Padded(l), Digits(Head(limbs)), Tail(limbs))

BigMul(a, b) ==
    IF Zero.abs \in {a.abs, b.abs} THEN Zero
    ELSE [neg |-> a.neg # b.neg, abs |-> Written(BigNorm(Reverse(MulLimbs(Limbs(a.abs), Limbs(b.abs)))))]

\* By squares.  Results of ten million digits, which it refuses, are beyond this model.
RECURSIVE PowLoop(_, _, _)
PowStep(m, result, b, e) == IF e % 2 = 1 THEN PowLoop(m, b, e - 1) ELSE PowLoop(result, m, e \div 2)
PowLoop(result, b, e) ==
    IF e = 0 THEN result ELSE PowStep(BigMul(IF e % 2 = 1 THEN result ELSE b, b), result, b, e)

BigPow(base, e) == PowLoop(Text(1), base, e)

\* How often b can be taken from rem, and what is left: without end when b is 0.
RECURSIVE Subtracted(_, _, _)
Subtracted(rem, b, qd) ==
    IF BigCmpAbs(rem, b) < 0 THEN [rem |-> rem, qd |-> qd]
    ELSE Subtracted(BigSubAbs(rem, b), b, qd + 1)

\* Long division; the remainder has no sign.
Digitwise(q, s) == [rem |-> s.rem, q |-> Append(q, s.qd)]
Divided(r, d, b) ==
    Digitwise(r.q, Subtracted(IF r.rem \in {<<>>, <<0>>} THEN <<d>> ELSE Append(r.rem, d), b, 0))
BigDivMod(a, b) == FoldLeft(LAMBDA r, d : Divided(r, d, b.abs), [rem |-> <<>>, q |-> <<>>], a.abs)

BigMod(a, b) == [neg |-> FALSE, abs |-> BigDivMod(a, b).rem]
BigDiv(a, b) == Signed(a.neg # b.neg, BigNorm(BigDivMod(a, b).q))

\* The limits have as many digits as each other (19).
BigFits(t) ==
    LET limit == Digits(IF t.neg THEN MaxInt + 1 ELSE MaxInt)
    IN  Len(t.abs) < Len(limit) \/ (Len(t.abs) = Len(limit) /\ StrCmp(t.abs, limit) <= 0)

ASSUME NumbersAssumption ==
    /\ Radix \in 2..10 /\ LimbDigits \in Nat \ {0} /\ PowLoops \in Nat
    /\ MaxInt \in Nat /\ Len(Digits(MaxInt)) = Len(Digits(MaxInt + 1))

-----------------------------------------------------------------------------
(* Values                                                                  *)

Num(n) == <<"int", n>>
Big(t) == <<"big", t>>
Fails  == <<"fails", 0>>

IsNumber(v) == v[1] \in {"int", "big"}
Both(v)     == v[1][1] = "int" /\ v[2][1] = "int"
ValStr(v)   == IF v[1] = "int" THEN Text(v[2]) ELSE v[2]

\* The wide result of an operation on machine integers.
Promoted(n) == IF Fits(n) THEN Num(n) ELSE Big(Text(n))

\* C divides towards zero.
Quot(a, b) == LET q == Abs(a) \div Abs(b) IN IF (a < 0) # (b < 0) THEN -q ELSE q
Rem(a, b)  == a - b * Quot(a, b)

\* What a machine word keeps.
Wrap(n) == ((n - MinInt) % (2 * MaxInt + 2)) + MinInt

\* A text as a machine integer where it fits.
Demoted(t) == IF BigFits(t) THEN Num(Meaning(t)) ELSE Big(t)

\* The power r as a word, or from the start.
PowerOf(r, base, e) == IF e <= PowLoops /\ Fits(r) THEN Num(r) ELSE Demoted(BigPow(Text(base), e))

\* Multiplied out until a product leaves the word; then from the start as text.
IntPow(base, e) ==
    IF e > PowLoops /\ base \in -1..1 THEN Num(IF base = -1 /\ e % 2 = 0 THEN 1 ELSE base)
    ELSE PowerOf(FoldLeft(LAMBDA r, i : IF Fits(r) THEN r * base ELSE r, 1, Idx(IF e <= PowLoops THEN e ELSE 0)), base, e)

OnInts(f, a, b) ==
    CASE f = "add" -> Promoted(a + b)
      [] f = "sub" -> Promoted(a - b)
      [] f = "mul" -> Promoted(a * b)
      [] f \in {"div", "mod"} ->
             IF b = 0 \/ (a = MinInt /\ b = -1) THEN Fails ELSE Num(IF f = "div" THEN Quot(a, b) ELSE Rem(a, b))
      [] f = "pow" -> IntPow(a, b)

OnTexts(f, x, y) ==
    CASE f = "add" -> BigAdd(x, y)
      [] f = "sub" -> BigSub(x, y)
      [] f = "mul" -> BigMul(x, y)
      [] f = "div" -> BigDiv(x, y)
      [] f = "mod" -> BigMod(x, y)
      [] f = "pow" -> BigPow(x, Meaning(y))

OnOne(f, v) ==
    CASE f = "neg" /\ v[1] = "int" -> Num(Wrap(-v[2]))
      [] f = "neg" /\ v[1] = "big" -> Big(BigNegate(v[2]))
      [] f = "inc" /\ v[1] = "int" -> Num(Wrap(v[2] + 1))
      [] f = "dec" /\ v[1] = "int" -> Num(Wrap(v[2] - 1))
      [] OTHER -> Fails

\* Exponents are machine integers from 0 on; others give floats, which are not modelled.
Arithmetic(f, v) ==
    IF f \in {"inc", "dec", "neg"} THEN OnOne(f, v[1])
    ELSE IF ~IsNumber(v[1]) \/ ~IsNumber(v[2]) THEN Fails
    ELSE IF Both(v) THEN OnInts(f, v[1][2], v[2][2])
    ELSE Big(OnTexts(f, ValStr(v[1]), ValStr(v[2])))

-----------------------------------------------------------------------------
(* What the results should be                                              *)

ToInt(v) == IF v[1] = "int" THEN v[2] ELSE Meaning(v[2])

Exact(f, v) ==
    LET a == ToInt(v[1])
        b == ToInt(v[2])
    IN  CASE f = "add" -> a + b [] f = "sub" -> a - b [] f = "mul" -> a * b
          [] f = "div" -> Quot(a, b) [] f = "mod" -> Rem(a, b) [] f = "pow" -> IF b = 0 THEN 1 ELSE a ^ b
          [] f = "inc" -> a + 1 [] f = "dec" -> a - 1 [] f = "neg" -> -a

\* Where the code does not give it: numbers of different signs and as many digits,
\* the negative one the smaller, are added as if it were the larger; the remainder
\* of a negative big integer has no sign; inc, dec and neg wrap; and there is no
\* quotient by zero, nor of the least machine integer by -1.
Inexact(f, v) ==
    LET x == ValStr(v[1])
        y == IF f = "sub" THEN Minus(ValStr(v[2])) ELSE ValStr(v[2])
        plus  == IF x.neg THEN y ELSE x
        minus == IF x.neg THEN x ELSE y
    IN  \/ /\ f \in {"add", "sub"} /\ ~Both(v) /\ x.neg # y.neg
           /\ Len(x.abs) = Len(y.abs) /\ Whole(plus.abs) > Whole(minus.abs)
        \/ f = "mod" /\ ~Both(v) /\ x.neg
        \/ f \in {"div", "mod"} /\ (ToInt(v[2]) = 0 \/ (v[1] = Num(MinInt) /\ v[2] = Num(-1)))
        \/ f \in {"inc", "dec", "neg"} /\ v[1][1] = "int" /\ ~Fits(Exact(f, v))
        \/ f \in {"inc", "dec"} /\ v[1][1] = "big"
=============================================================================
