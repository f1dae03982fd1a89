------------------------------- MODULE Words -------------------------------
(***************************************************************************)
(* The integer types of the guest machine and the C++ operations that the  *)
(* three execution engines build instructions from.  A 64-bit register is  *)
(* a natural number below 2^Double.  Every width of the code is scaled     *)
(* down by the same factor (64, 32, 16 and 8 bits become 8, 4, 2 and 1     *)
(* times Byte), so that casts truncate, sums wrap and shift counts         *)
(* saturate exactly where they do in the code, on numbers TLC can hold.    *)
(***************************************************************************)
EXTENDS Integers, FiniteSets

CONSTANT Byte             \* bits of a uint8_t

ASSUME ByteAssumption == Byte \in Nat \ {0}

Half   == 2 * Byte        \* bits of a uint16_t
Word   == 4 * Byte        \* bits of a uint32_t
Double == 8 * Byte        \* bits of a uint64_t

Doubles == 0 .. 2^Double - 1

\* The casts (uintN_t)x, (intN_t)x, and (uint64_t)(intN_t)x.
Cast(x, n)   == x % 2^n
Signed(x, n) == LET u == x % 2^n IN IF u >= 2^(n - 1) THEN u - 2^n ELSE u
Sext(x, n)   == Signed(x, n) % 2^Double
Wrap(x)      == x % 2^Double

Bit(x, i)   == (x \div 2^i) % 2 = 1

\* f[0] + ... + f[n - 1], and the number whose one bits are those of a set.
Total(f, n) == LET sum[k \in 0 .. n] == IF k = 0 THEN 0 ELSE sum[k - 1] + f[k - 1] IN sum[n]
FromBits(B) == Total([i \in 0 .. Double - 1 |-> IF i \in B THEN 2^i ELSE 0], Double)

And(x, y)  == FromBits({i \in 0 .. Double - 1 : Bit(x, i) /\ Bit(y, i)})
Or(x, y)   == x + y - And(x, y)
Xor(x, y)  == x + y - 2 * And(x, y)
Not(x)     == 2^Double - 1 - x

\* x << s on a uint64_t, x >> s on an unsigned number, (intN_t)x >> s.
Shl(x, s)    == Wrap(x * 2^s)
Shr(x, s)    == x \div 2^s
Sar(x, n, s) == Wrap(Signed(x, n) \div 2^s)
Rotr(x, n, s) == Cast((x \div 2^s) + (x % 2^s) * 2^(n - s), n)

\* C++ division truncates towards zero.
Quotient(a, b)  == LET q == (IF a < 0 THEN -a ELSE a) \div (IF b < 0 THEN -b ELSE b)
                   IN  IF (a < 0) = (b < 0) THEN q ELSE -q
Remainder(a, b) == a - b * Quotient(a, b)

\* The two halves of a product of two uint64_t, formed from 32-bit halves.
MulLow(a, b)  == LET h == 2^Word
                     cross == (a % h) * (b \div h) + (a \div h) * (b % h)
                 IN  Wrap((a % h) * (b % h) + h * (cross % h))
MulHigh(a, b) == LET h == 2^Word
                     cross == (a % h) * (b \div h) + (a \div h) * (b % h)
                 IN  (a \div h) * (b \div h)
                       + (cross + ((a % h) * (b % h)) \div h) \div h
MulHighSigned(a, b) == Wrap(MulHigh(a, b) - (IF Signed(a, Double) < 0 THEN b ELSE 0)
                                          - (IF Signed(b, Double) < 0 THEN a ELSE 0))

\* __builtin_clz and __builtin_ctz of an n-bit number, n when it is 0.
LeadingZeros(x, n)  == Cardinality({i \in 0 .. n - 1 : x < 2^i})
TrailingZeros(x, n) == Cardinality({i \in 1 .. n : x % 2^i = 0})

\* Reverse the units of `unit` bits inside every group of `group` bits.
Reverse(x, unit, group) ==
    FromBits({i \in 0 .. Double - 1 :
                LET k == (i % group) \div unit
                IN  Bit(x, (i \div group) * group + ((group \div unit) - 1 - k) * unit + (i % unit))})

Truth(b) == IF b THEN 1 ELSE 0
=============================================================================
