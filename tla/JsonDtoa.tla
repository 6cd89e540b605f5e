------------------------------ MODULE JsonDtoa ------------------------------
(***************************************************************************)
(* How numbers are written: dump_integer, and Grisu2 for floats, which     *)
(* looks for the shortest digits between the neighbours of a number with   *)
(* integers of DiyBits bits and a table of powers of ten.  The library has *)
(* DiyBits 64, Alpha -60, Gamma -32 and every eighth power.                *)
(***************************************************************************)
EXTENDS JsonNumber, TLC

CONSTANTS
    DiyBits,   \* diyfp::kPrecision
    Alpha,     \* kAlpha
    Gamma,     \* kGamma
    MinDec,    \* kCachedPowersMinDecExp
    DecStep    \* kCachedPowersDecStep

ASSUME DtoaAssumption ==
    /\ DiyBits \in Nat /\ DiyBits >= Precision + 3
    /\ Alpha >= 4 - DiyBits /\ Alpha < Gamma /\ Gamma < 0
    /\ MinDec < 0 /\ DecStep \in Nat \ {0}

Ascii(n) == n + 48

\* dump_integer: two digits at a time from the back, a sign in front.
CountDigits(n) == CHOOSE k \in 1..10 : n < 10^k /\ (k = 1 \/ n >= 10^(k - 1))
DigitsOf(n) == [i \in 1..CountDigits(n) |-> Ascii((n \div 10^(CountDigits(n) - i)) % 10)]
\* remove_sign: -(x + 1) fits where -x need not.
RemoveSign(x) == (-(x + 1) + 1) % 2^IntBits
DumpInteger(x) == IF x < 0 THEN <<45>> \o DigitsOf(RemoveSign(x)) ELSE DigitsOf(x)

-----------------------------------------------------------------------------
(* diyfp: f * 2^e.                                                         *)

Diy(f, e) == [f |-> f, e |-> e]
Sub(x, y) == Diy(x.f - y.f, x.e)
\* The upper half of the product, rounded.
Mul(x, y) == Diy((x.f * y.f + 2^(DiyBits - 1)) \div 2^DiyBits, x.e + y.e + DiyBits)
Normalize(x) ==
    LET s == CHOOSE s \in 0..DiyBits : x.f * 2^s \in 2^(DiyBits - 1)..(2^DiyBits - 1)
    IN  Diy(x.f * 2^s, x.e - s)
NormalizeTo(x, e) == Diy(x.f * 2^(x.e - e), e)

\* compute_boundaries: the number and the middles to its neighbours.
Value(bits) ==
    IF ExponentOf(bits) = 0 THEN Diy(FractionOf(bits), MinExp)
    ELSE Diy(FractionOf(bits) + HiddenBit, ExponentOf(bits) - 1 + MinExp)
LowerBoundaryIsCloser(bits) == FractionOf(bits) = 0 /\ ExponentOf(bits) > 1
Boundaries(bits) ==
    LET v == Value(bits)
        plus == Normalize(Diy(2 * v.f + 1, v.e - 1))
        minus == IF LowerBoundaryIsCloser(bits) THEN Diy(4 * v.f - 1, v.e - 2)
                                                ELSE Diy(2 * v.f - 1, v.e - 1)
    IN  [w |-> Normalize(v), minus |-> NormalizeTo(minus, plus.e), plus |-> plus]

\* The table: a power of ten as a normalized diyfp, rounded.
Rounded(a, b) == (2 * a + b) \div (2 * b)
Power(k) ==
    LET Times2(n) == IF k >= 0 THEN 10^k * 2^n ELSE Rounded(2^n, 10^(-k))
        n == CHOOSE n \in 0..28 : Times2(n) \in 2^(DiyBits - 1)..(2^DiyBits - 1)
    IN  [f |-> Times2(n), e |-> -n, k |-> k]

\* C++ divides towards zero.
Divided(a, b) == IF a >= 0 THEN a \div b ELSE -((-a) \div b)
CachedPowerIndex(e) ==
    LET f == Alpha - e - 1
        k == Divided(f * 78913, 2^18) + (IF f > 0 THEN 1 ELSE 0)
    IN  Divided(-MinDec + k + DecStep - 1, DecStep)
CachedPower(e) == Power(MinDec + DecStep * CachedPowerIndex(e))

-----------------------------------------------------------------------------
(* grisu2_round: the last digit goes down as long as that comes nearer.    *)
RECURSIVE Round(_, _, _, _, _)
Round(buf, dist, delta, rest, tenK) ==
    IF rest < dist /\ delta - rest >= tenK
       /\ (rest + tenK < dist \/ dist - rest > rest + tenK - dist)
    THEN Round([buf EXCEPT ![Len(buf)] = @ - 1], dist, delta, rest + tenK, tenK)
    ELSE buf

\* The digits behind the point, until what is left is less than delta.
RECURSIVE Fraction(_, _, _, _, _, _)
Fraction(buf, p2, m, delta, dist, one) ==
    LET digit == (10 * p2) \div one
        rest == (10 * p2) % one
        digits == Append(buf, Ascii(digit))
    IN  IF rest <= 10 * delta
        THEN [buf |-> Round(digits, 10 * dist, 10 * delta, rest, one), exponent |-> -(m + 1)]
        ELSE Fraction(digits, rest, m + 1, 10 * delta, 10 * dist, one)

\* The digits in front of it; n of them are left.
RECURSIVE Integral(_, _, _, _, _, _, _)
Integral(buf, p1, p2, n, delta, dist, one) ==
    LET pow10 == 10^(n - 1)
        digits == Append(buf, Ascii(p1 \div pow10))
        rest == (p1 % pow10) * one + p2
    IN  IF n = 0 THEN Fraction(buf, p2, 0, delta, dist, one)
        ELSE IF rest <= delta
        THEN [buf |-> Round(digits, dist, delta, rest, pow10 * one), exponent |-> n - 1]
        ELSE Integral(digits, p1 % pow10, p2, n - 1, delta, dist, one)

\* grisu2_digit_gen.
DigitGen(minus, w, plus) ==
    LET one == 2^(-plus.e)
        p1 == plus.f \div one
        p2 == plus.f % one
    IN  Integral(<<>>, p1, p2, CountDigits(p1), Sub(plus, minus).f, Sub(plus, w).f, one)

\* grisu2: the products are off by one unit at most, so the interval is made smaller.
Smaller(plus) == Diy(plus.f - 1, plus.e)
Larger(minus) == Diy(minus.f + 1, minus.e)
Scaled(b, c) ==   \* by a power of ten
    LET g == DigitGen(Larger(Mul(b.minus, c)), Mul(b.w, c), Smaller(Mul(b.plus, c)))
    IN  [g EXCEPT !.exponent = @ - c.k]
Grisu2Of(b) == Scaled(b, CachedPower(b.plus.e))
Grisu2(bits) == Grisu2Of(Boundaries(bits))

\* std::numeric_limits<FloatType>::digits10.
Digits10 == CHOOSE n \in 0..20 : 10^n <= 2^(Precision - 1) /\ 10^(n + 1) > 2^(Precision - 1)

-----------------------------------------------------------------------------
Zeros(n) == [i \in 1..n |-> 48]

\* append_exponent: at least two digits.
AppendExponent(e) ==
    LET k == IF e < 0 THEN -e ELSE e IN
    <<101, IF e < 0 THEN 45 ELSE 43>> \o (IF k < 10 THEN <<48>> ELSE <<>>) \o DigitsOf(k)

MinFixed == -4   \* kMinExp of to_chars

\* format_buffer: digits and exponent as a text that is read as a float.
FormatBuffer(g) ==
    LET buf == g.buf
        k == Len(buf)
        n == k + g.exponent
        Part(i, j) == SubSeq(buf, i, j)
    IN  CASE k <= n /\ n <= Digits10 -> buf \o Zeros(n - k) \o <<46, 48>>
          [] 0 < n /\ n <= Digits10 /\ k > n -> Part(1, n) \o <<46>> \o Part(n + 1, k)
          [] MinFixed < n /\ n <= 0 -> <<48, 46>> \o Zeros(-n) \o buf
          [] OTHER -> (IF k = 1 THEN buf ELSE Part(1, 1) \o <<46>> \o Part(2, k))
                      \o AppendExponent(n - 1)

\* to_chars and dump_float: what is not finite is null.
DumpFloat(x) ==
    IF x.bits = Infinity THEN <<110, 117, 108, 108>>
    ELSE (IF x.negative THEN <<45>> ELSE <<>>)
         \o (IF x.bits = 0 THEN <<48, 46, 48>>
             ELSE FormatBuffer(Grisu2(x.bits)))

=============================================================================
