----------------------------- MODULE JsonNumber -----------------------------
(***************************************************************************)
(* The numbers of the JSON library: integers of IntBits bits, and binary   *)
(* floating-point numbers of Precision bits (the hidden one included) and  *)
(* exponents from MinExp on.  A float that is not negative is its bits, as *)
(* IEEE 754 lays them out: the exponent above the Precision - 1 bits of    *)
(* the fraction, so that the order of the bits is that of the values.      *)
(* What the C library converts is modelled by the result it promises.      *)
(***************************************************************************)
EXTENDS Integers, Sequences, SequencesExt, FiniteSets

CONSTANTS
    IntBits,     \* width of an integer
    Precision,   \* digits of the float type
    MinExp,      \* the exponent of its subnormal numbers
    Exponents2   \* number of its exponents

ASSUME NumberAssumption ==
    /\ IntBits \in Nat \ {0, 1} /\ Precision \in Nat \ {0, 1}
    /\ MinExp \in Int /\ MinExp < 0 /\ Exponents2 \in Nat \ {0, 1}

\* The number a sequence of ASCII digits stands for.
NumberOf(digits) == FoldLeft(LAMBDA n, c : 10 * n + c - 48, 0, digits)

\* strtoull and strtoll, which set ERANGE if the result does not fit.
Sign == 45
FitsIn(kind, s) ==
    IF kind = "value_unsigned" THEN NumberOf(s) < 2^IntBits
    ELSE NumberOf(Tail(s)) <= 2^(IntBits - 1)
IntegerOf(s) == IF Head(s) = Sign THEN -NumberOf(Tail(s)) ELSE NumberOf(s)

-----------------------------------------------------------------------------
HiddenBit == 2^(Precision - 1)
Infinity == Exponents2 * HiddenBit
Floats == 0..Infinity
ExponentOf(bits) == bits \div HiddenBit
FractionOf(bits) == bits % HiddenBit

\* The value in units of 2^MinExp; that of Infinity is what would come next.
Units(bits) ==
    IF ExponentOf(bits) = 0 THEN FractionOf(bits)
    ELSE (FractionOf(bits) + HiddenBit) * 2^(ExponentOf(bits) - 1)

\* mantissa * 10^exponent, what the text of a number says.
Position(s, bytes) ==
    IF \E i \in DOMAIN s : s[i] \in bytes THEN CHOOSE i \in DOMAIN s : s[i] \in bytes
    ELSE Len(s) + 1
Decimal(s) ==
    LET x == Position(s, {69, 101})
        head == SubSeq(s, 1, x - 1)
        tail == SubSeq(s, x + 1, Len(s))
        dot == Position(head, {46})
        power == IF tail = <<>> THEN 0
                 ELSE IF Head(tail) = 43 THEN NumberOf(Tail(tail)) ELSE IntegerOf(tail)
    IN  [mantissa |-> NumberOf(SelectSeq(head, LAMBDA c : c \in 48..57)),
         exponent |-> power - (IF dot > Len(head) THEN 0 ELSE Len(head) - dot)]

\* Whether a decimal is above (or at) the middle between a float and the next.
Huge == 2147483647
Above(d, bits) ==
    LET middle == Units(bits) + Units(bits + 1)
        scaled == d.mantissa * 2^(1 - MinExp)
        Over(a, b) == a > b \/ (a = b /\ bits % 2 = 1)
    IN  IF d.exponent >= 0 THEN Over(scaled * 10^d.exponent, middle)
        ELSE middle <= Huge \div 10^(-d.exponent) /\ Over(scaled, middle * 10^(-d.exponent))

\* strtod rounds to the nearest float, the even one of two.  The texts of an instance
\* have few digits: with four powers of ten more nothing is finite, with nine less
\* nothing is above zero.
Strtod(s) ==
    LET d == Decimal(s) IN
    IF d.mantissa = 0 \/ d.exponent < -9 THEN 0
    ELSE IF d.exponent > 3 THEN Infinity
    ELSE Cardinality({bits \in 0..(Infinity - 1) : Above(d, bits)})

\* A float with its sign.
Negative(s) == s # <<>> /\ Head(s) = Sign
FloatOf(s) == [negative |-> Negative(s), bits |-> Strtod(IF Negative(s) THEN Tail(s) ELSE s)]

=============================================================================
