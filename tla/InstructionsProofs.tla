------------------------- MODULE InstructionsProofs -------------------------
(***************************************************************************)
(* Proofs about the three engines, for every width of a byte, every set of *)
(* registers, every arena and every instruction the encoding can express:  *)
(* the fast dispatch and the emitted code do what the handler does but for *)
(* what FastDiffers and TranslatedDiffers list, and none of the three      *)
(* changes anything when it faults, or writes below the writable memory or,*)
(* but for the stores the emitted check lets stray, behind the arena.      *)
(*                                                                         *)
(* The *Cases lemmas say which definition each group of instructions       *)
(* reaches, the Fast* and Emitted*Agrees lemmas compare the two results of *)
(* a group, the *Range lemmas keep them in a register, and Orderly is what *)
(* the fault and the type properties ask of one engine.                    *)
(***************************************************************************)
EXTENDS Instructions, FiniteSetTheorems, WellFoundedInduction, TLAPS

---------------------------------------------------------------------------
(* The words of the guest: powers of two, remainders, bits and sums, and   *)
(* which results fit a register.                                           *)

(* The least number of a set of naturals, and induction from it.           *)
Less == {p \in Nat \X Nat : p[1] < p[2]}

LEMMA LessWellFounded == IsWellFoundedOn(Less, Nat)
  BY NatLessThanWellFounded DEF OpToRel, Less

LEMMA Minimum ==
  ASSUME NEW S \in SUBSET Nat, S # {}
  PROVE  \E x \in S : \A y \in S : x <= y
<1>1. PICK x \in S : \A y \in S : ~ (<<y, x>> \in Less)
  BY LessWellFounded, WFMin, Zenon
<1>2. \A y \in S : ~ (y < x)
  BY <1>1 DEF Less
<1> QED BY <1>2

LEMMA Induction ==
  ASSUME NEW S, 0 \in S, \A n \in Nat : n \in S => n + 1 \in S
  PROVE  Nat \subseteq S
<1> SUFFICES ASSUME Nat \ S # {} PROVE FALSE
  OBVIOUS
<1>1. PICK x \in Nat \ S : \A y \in Nat \ S : x <= y
  BY Minimum
<1>2. x # 0
  BY <1>1
<1>3. x - 1 \in Nat /\ (x - 1) + 1 = x
  BY <1>1, <1>2
<1>4. x - 1 \in S
  BY <1>1, <1>3
<1> QED BY <1>1, <1>3, <1>4
------------------------------------------------------------------------------
(* Powers of two, as the number of subsets of 1 .. n.                      *)

LEMMA Counts == ASSUME NEW n \in Nat PROVE IsFiniteSet(1..n) /\ Cardinality(1..n) = n
  BY FS_Interval

LEMMA PowerCounts ==
  ASSUME NEW n \in Nat
  PROVE  /\ IsFiniteSet(SUBSET (1..n)) /\ Cardinality(SUBSET (1..n)) = 2^n
         /\ 2^n \in Nat /\ 2^n > 0
<1>1. IsFiniteSet(SUBSET (1..n)) /\ Cardinality(SUBSET (1..n)) = 2^n
  BY Counts, FS_SUBSET
<1>2. {} \in SUBSET (1..n)
  OBVIOUS
<1> QED BY <1>1, <1>2, FS_CardinalityType, FS_EmptySet

LEMMA Doubling ==
  ASSUME NEW n \in Nat
  PROVE  2^(n + 1) = 2 * 2^n
<1> DEFINE S == SUBSET (1..n)  U == SUBSET (1..(n + 1))  T == U \ S
<1>1. IsFiniteSet(S) /\ Cardinality(S) = 2^n /\ IsFiniteSet(U) /\ Cardinality(U) = 2^(n + 1)
  BY PowerCounts
<1>2. S \subseteq U /\ IsFiniteSet(T) /\ Cardinality(T) = Cardinality(U) - Cardinality(S)
  <2>1. S \subseteq U
    <3>1. 1..n \subseteq 1..(n + 1)
      OBVIOUS
    <3> QED BY <3>1
  <2>2. U \cap S = S
    BY <2>1
  <2> HIDE DEF S, U
  <2>3. IsFiniteSet(U \ S) /\ Cardinality(U \ S) = Cardinality(U) - Cardinality(U \cap S)
    BY <1>1, FS_Difference
  <2> QED BY <2>1, <2>2, <2>3
<1>3. Cardinality(T) = Cardinality(S)
  <2> DEFINE f == [x \in S |-> x \cup {n + 1}]
  <2>1. f \in [S -> T]
    OBVIOUS
  <2>2. \A x, y \in S : f[x] = f[y] => x = y
    <3> SUFFICES ASSUME NEW x \in S, NEW y \in S, x \cup {n + 1} = y \cup {n + 1} PROVE x = y
      OBVIOUS
    <3>1. n + 1 \notin 1..n
      OBVIOUS
    <3>2. n + 1 \notin x /\ n + 1 \notin y
      BY <3>1
    <3> QED BY <3>2
  <2>3. \A t \in T : \E x \in S : f[x] = t
    <3> SUFFICES ASSUME NEW t \in T PROVE \E x \in S : f[x] = t
      OBVIOUS
    <3>1. \A x \in 1..(n + 1) : x = n + 1 \/ x \in 1..n
      OBVIOUS
    <3>2. n + 1 \in t
      BY <3>1
    <3>3. t \ {n + 1} \in S
      BY <3>1
    <3>4. f[t \ {n + 1}] = t
      BY <3>2, <3>3
    <3> QED BY <3>3, <3>4
  <2>4. f \in Bijection(S, T)
    BY <2>1, <2>2, <2>3 DEF Bijection, Injection, Surjection, IsInjective
  <2> QED BY <1>1, <2>4, FS_Bijection DEF ExistsBijection
<1> QED BY <1>1, <1>2, <1>3, PowerCounts

LEMMA PowerPositive ==
  ASSUME NEW n \in Nat
  PROVE  2^n \in Nat \ {0}
<1>1. \A x \in Nat : x > 0 => x \in Nat \ {0}
  OBVIOUS
<1> QED BY <1>1, PowerCounts, Zenon

LEMMA PowerSum ==
  ASSUME NEW a \in Nat, NEW b \in Nat
  PROVE  2^(a + b) = 2^a * 2^b
<1> DEFINE S == {n \in Nat : 2^(a + n) = 2^a * 2^n}
<1>1. 0 \in S
  <2>1. 2^0 = 1
    OBVIOUS
  <2> QED BY <2>1, PowerPositive
<1>2. ASSUME NEW n \in Nat, n \in S PROVE n + 1 \in S
  <2>1. 2^(a + n) = 2^a * 2^n
    BY <1>2
  <2>2. 2^(n + 1) = 2 * 2^n
    BY Doubling
  <2>3. 2^((a + n) + 1) = 2 * 2^(a + n) /\ a + (n + 1) = (a + n) + 1
    BY Doubling
  <2>4. 2^a \in Nat /\ 2^n \in Nat
    BY PowerPositive
  <2>5. 2 * (2^a * 2^n) = 2^a * (2 * 2^n)
    BY <2>4
  <2> QED BY <2>1, <2>2, <2>3, <2>5
<1>3. b \in S
  <2> HIDE DEF S
  <2> QED BY <1>1, <1>2, Induction
<1> QED BY <1>3

LEMMA PowerOrder ==
  ASSUME NEW a \in Nat, NEW b \in Nat
  PROVE  a <= b => 2^a <= 2^b
<1> SUFFICES ASSUME a <= b PROVE 2^a <= 2^b
  OBVIOUS
<1>1. b - a \in Nat /\ b = a + (b - a)
  OBVIOUS
<1>2. 2^b = 2^a * 2^(b - a)
  BY <1>1, PowerSum
<1>3. \A x, y \in Nat \ {0} : x <= x * y
  <2> TAKE x \in Nat \ {0}, y \in Nat \ {0}
  <2>1. x * y = x + x * (y - 1) /\ x * (y - 1) >= 0
    OBVIOUS
  <2> QED BY <2>1
<1> QED BY <1>1, <1>2, <1>3, PowerPositive
------------------------------------------------------------------------------
(* Remainders.                                                             *)

LEMMA DivMod ==
  ASSUME NEW M \in Nat \ {0}, NEW a \in Int
  PROVE  /\ a \div M \in Int /\ a % M \in 0 .. M - 1
         /\ a = M * (a \div M) + (a % M)
  OBVIOUS

LEMMA ModUnique ==
  ASSUME NEW M \in Nat \ {0}, NEW q \in Int, NEW r \in 0 .. M - 1
  PROVE  (M * q + r) % M = r /\ (M * q + r) \div M = q
  OBVIOUS

LEMMA ModSmall ==
  ASSUME NEW M \in Nat \ {0}, NEW r \in 0 .. M - 1
  PROVE  r % M = r /\ r \div M = 0
  OBVIOUS

LEMMA ModShift ==
  ASSUME NEW M \in Nat \ {0}, NEW q \in Int, NEW r \in Int
  PROVE  (r + M * q) % M = r % M
<1> DEFINE e == r \div M   s == r % M
<1>1. e \in Int /\ s \in 0 .. M - 1 /\ r = M * e + s
  BY DivMod
<1> HIDE DEF e, s
<1>2. r + M * q = M * (e + q) + s
  BY <1>1
<1>3. (M * (e + q) + s) % M = s
  BY <1>1, ModUnique
<1> QED BY <1>2, <1>3 DEF s

LEMMA ModPlus ==
  ASSUME NEW M \in Nat \ {0}, NEW a \in Int, NEW b \in Int
  PROVE  ((a % M) + b) % M = (a + b) % M
<1> DEFINE e == a \div M   s == a % M
<1>1. e \in Int /\ s \in 0 .. M - 1 /\ a = M * e + s
  BY DivMod
<1> HIDE DEF e, s
<1>2. a + b = (s + b) + M * e
  BY <1>1
<1>3. ((s + b) + M * e) % M = (s + b) % M
  <2>1. s + b \in Int
    BY <1>1
  <2> QED BY <1>1, <2>1, ModShift
<1> QED BY <1>2, <1>3 DEF s

LEMMA ModOrder ==
  ASSUME NEW M \in Nat \ {0}, NEW a \in Nat
  PROVE  a % M <= a /\ a \div M <= a /\ a \div M \in Nat /\ a % M \in Nat
<1> DEFINE e == a \div M   s == a % M
<1>1. e \in Int /\ s \in 0 .. M - 1 /\ a = M * e + s
  BY DivMod
<1> HIDE DEF e, s
<1>2. e >= 0
  <2> SUFFICES ASSUME e <= -1 PROVE FALSE
    BY <1>1
  <2>1. M * e <= M * (-1)
    BY <1>1
  <2> QED BY <1>1, <2>1
<1>3. M * e >= e
  <2>1. M * e = e + (M - 1) * e /\ (M - 1) * e >= 0
    BY <1>1, <1>2
  <2> QED BY <1>1, <2>1
<1> QED BY <1>1, <1>2, <1>3 DEF e, s

LEMMA QuotientBound ==
  ASSUME NEW M \in Nat \ {0}, NEW b \in Nat, NEW a \in Nat, a < M * b
  PROVE  a \div M < b
<1> DEFINE e == a \div M   s == a % M
<1>1. e \in Int /\ s \in 0 .. M - 1 /\ a = M * e + s
  BY DivMod
<1> HIDE DEF e, s
<1>2. e < b
  <2> SUFFICES ASSUME e >= b PROVE FALSE
    BY <1>1
  <2>1. M * e >= M * b
    BY <1>1
  <2> QED BY <1>1, <2>1
<1> QED BY <1>2 DEF e
------------------------------------------------------------------------------
(* The widths, and what casts give.                                        *)

LEMMA Widths ==
  /\ Half \in Nat \ {0} /\ Word \in Nat \ {0} /\ Double \in Nat \ {0}
  /\ Byte < Half /\ Half < Word /\ Word < Double
  /\ Double = Word + Word /\ Word = Half + Half /\ Half = Byte + Byte
  BY ByteAssumption DEF Half, Word, Double

LEMMA Sizes ==
  /\ 2^Double \in Nat \ {0} /\ 2^Word \in Nat \ {0} /\ 2^Byte \in Nat \ {0}
  /\ 2^Double = 2^Word * 2^Word
  /\ 2^Word <= 2^Double
  BY Widths, ByteAssumption, PowerPositive, PowerSum, PowerOrder

LEMMA CastRange ==
  ASSUME NEW x \in Int, NEW n \in Nat
  PROVE  Cast(x, n) \in Nat /\ Cast(x, n) \in 0 .. 2^n - 1
<1>1. x % 2^n \in 0 .. 2^n - 1
  BY PowerPositive, DivMod
<1> QED BY <1>1, PowerPositive DEF Cast

LEMMA WrapRange ==
  ASSUME NEW x \in Int
  PROVE  Wrap(x) \in Doubles
  BY Sizes, DivMod DEF Wrap, Doubles

LEMMA DoublesNat == Doubles \subseteq Nat
  BY DEF Doubles

LEMMA WrapSmall ==
  ASSUME NEW x \in Doubles
  PROVE  Wrap(x) = x
  BY Sizes, ModSmall DEF Wrap, Doubles

LEMMA WrapPlus ==
  ASSUME NEW x \in Int, NEW y \in Int
  PROVE  Wrap(Wrap(x) + y) = Wrap(x + y)
  BY Sizes, ModPlus DEF Wrap

LEMMA WrapTurn ==
  ASSUME NEW x \in Int, NEW q \in Int
  PROVE  Wrap(x + 2^Double * q) = Wrap(x)
  BY Sizes, ModShift DEF Wrap

LEMMA HalfPower ==
  ASSUME NEW n \in Nat \ {0}
  PROVE  2^(n - 1) \in Nat \ {0} /\ 2^n = 2 * 2^(n - 1)
<1>1. n - 1 \in Nat /\ (n - 1) + 1 = n
  OBVIOUS
<1> QED BY <1>1, PowerPositive, Doubling

LEMMA SignedRange ==
  ASSUME NEW x \in Int, NEW n \in Nat \ {0}
  PROVE  /\ Signed(x, n) \in Int /\ Signed(x, n) \in -(2^(n - 1)) .. 2^(n - 1) - 1
         /\ \E q \in Int : Signed(x, n) = x + 2^n * q
<1> DEFINE M == 2^n  H == 2^(n - 1)  q == x \div M  r == x % M
<1>1. M \in Nat \ {0} /\ H \in Nat \ {0} /\ M = 2 * H
  BY HalfPower, PowerPositive
<1>2. q \in Int /\ r \in 0 .. M - 1 /\ x = M * q + r
  BY <1>1, DivMod
<1>3. Signed(x, n) = IF r >= H THEN r - M ELSE r
  BY DEF Signed
<1> HIDE DEF M, H, q, r
<1>4. Signed(x, n) \in Int /\ Signed(x, n) \in -H .. H - 1
  BY <1>1, <1>2, <1>3
<1>5. \E p \in Int : Signed(x, n) = x + M * p
  <2>1. CASE r >= H
    <3>1. r - M = x + M * (- q - 1) /\ - q - 1 \in Int
      BY <1>1, <1>2
    <3> QED BY <2>1, <3>1, <1>3
  <2>2. CASE ~(r >= H)
    <3>1. r = x + M * (- q) /\ - q \in Int
      BY <1>1, <1>2
    <3> QED BY <2>2, <3>1, <1>3
  <2> QED BY <2>1, <2>2
<1> QED BY <1>4, <1>5 DEF M, H

LEMMA SignedSmall ==
  ASSUME NEW n \in Nat \ {0}, NEW x \in -(2^(n - 1)) .. 2^(n - 1) - 1
  PROVE  Signed(x, n) = x
<1> DEFINE M == 2^n  H == 2^(n - 1)
<1>1. M \in Nat \ {0} /\ H \in Nat \ {0} /\ M = 2 * H
  BY HalfPower, PowerPositive
<1>2. Signed(x, n) = IF x % M >= H THEN (x % M) - M ELSE x % M
  BY DEF Signed
<1>3. x \in -H .. H - 1
  OBVIOUS
<1> HIDE DEF M, H
<1>4. CASE x >= 0
  <2>1. x % M = x
    BY <1>1, <1>3, <1>4, ModSmall
  <2> QED BY <1>1, <1>2, <1>3, <1>4, <2>1
<1>5. CASE x < 0
  <2>1. x = M * (-1) + (x + M) /\ x + M \in 0 .. M - 1
    BY <1>1, <1>3, <1>5
  <2>2. x % M = x + M
    BY <1>1, <2>1, ModUnique
  <2> QED BY <1>1, <1>2, <1>3, <1>5, <2>2
<1> QED BY <1>3, <1>4, <1>5

LEMMA SextRange ==
  ASSUME NEW x \in Int, NEW n \in Nat \ {0}
  PROVE  Sext(x, n) \in Doubles
  BY SignedRange, WrapRange DEF Sext, Wrap

LEMMA SextSmall ==
  ASSUME NEW n \in Nat \ {0}, NEW x \in 0 .. 2^(n - 1) - 1, n <= Double
  PROVE  Sext(x, n) = x
<1>1. 2^(n - 1) <= 2^Double
  BY HalfPower, PowerOrder, Widths, PowerPositive
<1>2. x \in Doubles
  BY <1>1, Sizes, HalfPower DEF Doubles
<1>3. Signed(x, n) = x
  BY HalfPower, SignedSmall
<1> QED BY <1>2, <1>3, WrapSmall DEF Sext, Wrap

LEMMA SextDouble ==
  ASSUME NEW x \in Int
  PROVE  Sext(x, Double) = Wrap(x)
<1>1. PICK q \in Int : Signed(x, Double) = x + 2^Double * q
  BY Widths, SignedRange
<1> QED BY <1>1, WrapTurn DEF Sext, Wrap
------------------------------------------------------------------------------
(* Sums: the function that Total applies exists, so Total follows its      *)
(* recursion.                                                              *)

IsSum(f, n, g) == g = [k \in 0 .. n |-> IF k = 0 THEN 0 ELSE g[k - 1] + f[k - 1]]

LEMMA SumExists ==
  ASSUME NEW n \in Nat, NEW f \in [0 .. n - 1 -> Int]
  PROVE  \E g : IsSum(f, n, g)
<1> DEFINE Good(m, g) == /\ g \in [0 .. m -> Int] /\ g[0] = 0
                         /\ \A k \in 1 .. m : g[k] = g[k - 1] + f[k - 1]
           S == {m \in Nat : m <= n => \E g : Good(m, g)}
<1>1. 0 \in S
  <2> DEFINE g == [k \in 0 .. 0 |-> 0]
  <2>1. Good(0, g)
    OBVIOUS
  <2> HIDE DEF Good, g
  <2> QED BY <2>1
<1>2. ASSUME NEW m \in Nat, m \in S PROVE m + 1 \in S
  <2> HIDE DEF Good
  <2> SUFFICES ASSUME m + 1 <= n PROVE \E g : Good(m + 1, g)
    OBVIOUS
  <2> USE DEF Good
  <2>1. \E g : Good(m, g)
    BY <1>2
  <2>2. PICK g : Good(m, g)
    BY <2>1, Zenon
  <2> DEFINE h == [k \in 0 .. m + 1 |-> IF k = m + 1 THEN g[m] + f[m] ELSE g[k]]
  <2>3. f[m] \in Int /\ \A k \in 0 .. m : g[k] \in Int
    BY <2>2
  <2>4. h \in [0 .. m + 1 -> Int]
    BY <2>3
  <2>5. h[0] = 0
    BY <2>2
  <2>6. \A k \in 1 .. m + 1 : h[k] = h[k - 1] + f[k - 1]
    BY <2>2
  <2>7. Good(m + 1, h)
    BY <2>4, <2>5, <2>6
  <2> HIDE DEF Good, h
  <2> QED BY <2>7
<1>3. n \in S
  <2> HIDE DEF S
  <2> QED BY <1>1, <1>2, Induction
<1>4. \E g : Good(n, g)
  BY <1>3
<1>5. PICK g : Good(n, g)
  BY <1>4, Zenon
<1>6. IsSum(f, n, g)
  BY <1>5 DEF IsSum
<1> QED BY <1>6, Zenon

LEMMA TotalSum ==
  ASSUME NEW n \in Nat, NEW f \in [0 .. n - 1 -> Int]
  PROVE  \E g : /\ Total(f, n) = g[n] /\ g[0] = 0 /\ g[n] \in Int
                /\ \A k \in 0 .. n - 1 : g[k + 1] = g[k] + f[k]
<1> DEFINE g == CHOOSE h : IsSum(f, n, h)
<1>1. IsSum(f, n, g)
  BY SumExists, Zenon
<1>2. Total(f, n) = g[n]
  BY DEF Total, IsSum
<1> HIDE DEF g
<1>3. g[0] = 0 /\ \A k \in 1 .. n : g[k] = g[k - 1] + f[k - 1]
  BY <1>1 DEF IsSum
<1>4. \A k \in 0 .. n - 1 : g[k + 1] = g[k] + f[k]
  <2> TAKE k \in 0 .. n - 1
  <2>1. k + 1 \in 1 .. n /\ (k + 1) - 1 = k
    OBVIOUS
  <2> QED BY <1>3, <2>1
<1>5. g[n] \in Int
  <2> DEFINE S == {k \in Nat : k <= n => g[k] \in Int}
  <2>1. 0 \in S
    BY <1>3
  <2>2. ASSUME NEW k \in Nat, k \in S PROVE k + 1 \in S
    BY <1>4, <2>2
  <2>3. n \in S
    <3> HIDE DEF S
    <3> QED BY <2>1, <2>2, Induction
  <2> QED BY <2>3
<1> QED BY <1>2, <1>3, <1>4, <1>5

(* A sum of bytes, or of bits, of w bits each at its place is a number of  *)
(* as many bits as they have together.                                     *)
LEMMA TotalRange ==
  ASSUME NEW n \in Nat, NEW w \in Nat \ {0}, NEW d \in [0 .. n - 1 -> 0 .. 2^w - 1],
         NEW f, f = [k \in 0 .. n - 1 |-> d[k] * 2^(w * k)]
  PROVE  Total(f, n) \in 0 .. 2^(w * n) - 1
<1>1. \A k \in 0 .. n - 1 : /\ w * k \in Nat /\ 2^(w * k) \in Nat \ {0}
                            /\ f[k] = d[k] * 2^(w * k) /\ f[k] \in Int
  <2> TAKE k \in 0 .. n - 1
  <2>1. w * k \in Nat
    OBVIOUS
  <2>2. 2^(w * k) \in Nat \ {0}
    BY <2>1, PowerPositive
  <2>3. d[k] \in Int
    BY PowerPositive
  <2> QED BY <2>1, <2>2, <2>3
<1>2. f \in [0 .. n - 1 -> Int]
  BY <1>1
<1>3. PICK g : /\ Total(f, n) = g[n] /\ g[0] = 0 /\ g[n] \in Int
               /\ \A k \in 0 .. n - 1 : g[k + 1] = g[k] + f[k]
  BY <1>2, TotalSum, Zenon
<1> DEFINE S == {k \in Nat : k <= n => g[k] \in 0 .. 2^(w * k) - 1}
<1>4. 0 \in S
  <2>1. w * 0 = 0 /\ 2^0 = 1
    OBVIOUS
  <2>2. 2^(w * 0) = 1
    BY <2>1, Zenon
  <2> QED BY <1>3, <2>2
<1>5. ASSUME NEW k \in Nat, k \in S PROVE k + 1 \in S
  <2> SUFFICES ASSUME k + 1 <= n PROVE g[k + 1] \in 0 .. 2^(w * (k + 1)) - 1
    OBVIOUS
  <2> DEFINE p == 2^(w * k)  q == 2^w
  <2>1. k \in 0 .. n - 1 /\ g[k] \in 0 .. p - 1 /\ d[k] \in 0 .. q - 1
    BY <1>5
  <2>2. g[k + 1] = g[k] + d[k] * p
    BY <1>1, <1>3, <2>1
  <2>3. 2^(w * (k + 1)) = p * q
    <3>1. w * (k + 1) = w * k + w /\ w * k \in Nat
      OBVIOUS
    <3> QED BY <3>1, PowerSum
  <2>4. p \in Nat \ {0} /\ q \in Nat \ {0}
    BY <1>1, <2>1, PowerPositive
  <2> HIDE DEF p, q
  <2>5. \A x, y, z \in Nat : x <= y => x * z <= y * z
    OBVIOUS
  <2>6. d[k] * p \in Nat /\ d[k] * p <= (q - 1) * p
    <3>1. d[k] \in Nat /\ q - 1 \in Nat /\ d[k] <= q - 1 /\ p \in Nat
      BY <2>1, <2>4
    <3>2. \A x, y \in Nat : x * y \in Nat
      OBVIOUS
    <3> QED BY <3>1, <3>2, <2>5, Zenon
  <2>7. (q - 1) * p = p * q - p /\ p * q \in Nat
    BY <2>4
  <2>8. \A x, y, z, t \in Nat : x <= z - 1 /\ y <= t - z => x + y \in 0 .. t - 1
    OBVIOUS
  <2>9. g[k] + d[k] * p \in 0 .. p * q - 1
    BY <2>1, <2>4, <2>6, <2>7, <2>8
  <2> QED BY <2>2, <2>3, <2>9
<1>6. n \in S
  <2> HIDE DEF S
  <2> QED BY <1>4, <1>5, Induction
<1> QED BY <1>3, <1>6
------------------------------------------------------------------------------
(* Bits.                                                                   *)

(* The number whose one bits are those of a set fits a register, and is no *)
(* larger than a number that has them all.                                 *)
LEMMA FromBitsRange ==
  ASSUME NEW B
  PROVE  FromBits(B) \in Doubles
<1> DEFINE d == [i \in 0 .. Double - 1 |-> IF i \in B THEN 1 ELSE 0]
           f == [i \in 0 .. Double - 1 |-> d[i] * 2^(1 * i)]
<1>1. Double \in Nat
  BY Widths
<1>2. d \in [0 .. Double - 1 -> 0 .. 2^1 - 1]
  <2>1. 2^1 = 2
    OBVIOUS
  <2> QED BY <2>1
<1>3. f = [i \in 0 .. Double - 1 |-> IF i \in B THEN 2^i ELSE 0]
  <2>1. ASSUME NEW i \in 0 .. Double - 1 PROVE d[i] * 2^(1 * i) = IF i \in B THEN 2^i ELSE 0
    <3>1. 1 * i = i /\ i \in Nat
      BY <1>1
    <3>2. 2^(1 * i) = 2^i
      BY <3>1, Zenon
    <3>3. 2^i \in Nat
      BY <3>1, PowerPositive
    <3>4. \A x \in Nat : 1 * x = x /\ 0 * x = 0
      OBVIOUS
    <3> QED BY <3>2, <3>3, <3>4
  <2> QED BY <2>1, Zenon
<1>4. Total(f, Double) \in 0 .. 2^(1 * Double) - 1
  <2> HIDE DEF d
  <2>1. f = [i \in 0 .. Double - 1 |-> d[i] * 2^(1 * i)]
    OBVIOUS
  <2>2. 1 \in Nat \ {0}
    OBVIOUS
  <2> HIDE DEF f
  <2> QED BY <1>1, <1>2, <2>1, <2>2, TotalRange, Zenon
<1>5. 1 * Double = Double
  BY <1>1
<1>6. FromBits(B) = Total(f, Double)
  BY <1>3 DEF FromBits
<1> QED BY <1>4, <1>5, <1>6 DEF Doubles

(* One more bit of a number.                                               *)
LEMMA NextBit ==
  ASSUME NEW y \in Nat, NEW k \in Nat
  PROVE  /\ y % 2^(k + 1) = (y % 2^k) + (IF Bit(y, k) THEN 2^k ELSE 0)
         /\ y % 2^k \in 0 .. 2^k - 1
<1> DEFINE p == 2^k  e == y \div p  r == y % p  h == e \div 2  b == e % 2
<1>1. p \in Nat \ {0} /\ 2^(k + 1) = 2 * p
  BY PowerPositive, Doubling
<1>2. e \in Int /\ r \in 0 .. p - 1 /\ y = p * e + r
  <2> HIDE DEF p
  <2>1. y \in Int
    OBVIOUS
  <2> QED BY <1>1, <2>1, DivMod
<1>3. Bit(y, k) <=> b = 1
  BY DEF Bit
<1>4. h \in Int /\ b \in 0 .. 1 /\ e = 2 * h + b
  BY <1>2
<1> HIDE DEF h, b, e, r, p
<1>5. p * e = (2 * p) * h + p * b
  BY <1>4, <1>1
<1>6. p * b + r \in 0 .. 2 * p - 1 /\ p * b = IF b = 1 THEN p ELSE 0
  BY <1>4, <1>1, <1>2
<1>7. y = (2 * p) * h + (p * b + r) /\ 2 * p \in Nat \ {0}
  BY <1>1, <1>2, <1>4, <1>5, <1>6
<1>8. y % (2 * p) = p * b + r
  BY <1>4, <1>6, <1>7, ModUnique
<1>9. y % (2 * p) = r + IF b = 1 THEN p ELSE 0
  BY <1>1, <1>2, <1>6, <1>8
<1> QED BY <1>1, <1>2, <1>3, <1>9 DEF p, r

LEMMA BitSum ==
  ASSUME NEW B
  PROVE  \E g : /\ FromBits(B) = g[Double] /\ g[0] = 0
                /\ \A k \in 0 .. Double - 1 :
                     /\ g[k + 1] = g[k] + (IF k \in B THEN 2^k ELSE 0)
                     /\ k \in Nat /\ 2^k \in Nat \ {0} /\ 2^(k + 1) = 2 * 2^k
<1> DEFINE f == [i \in 0 .. Double - 1 |-> IF i \in B THEN 2^i ELSE 0]
<1>1. Double \in Nat
  BY Widths
<1>2. \A k \in 0 .. Double - 1 : k \in Nat /\ 2^k \in Nat \ {0} /\ 2^(k + 1) = 2 * 2^k
  BY <1>1, PowerPositive, Doubling
<1>3. f \in [0 .. Double - 1 -> Int]
  BY <1>2
<1>4. PICK g : /\ Total(f, Double) = g[Double] /\ g[0] = 0 /\ g[Double] \in Int
               /\ \A k \in 0 .. Double - 1 : g[k + 1] = g[k] + f[k]
  <2> HIDE DEF f
  <2> QED BY <1>1, <1>3, TotalSum, Zenon
<1>5. FromBits(B) = g[Double]
  BY <1>4 DEF FromBits
<1>6. \A k \in 0 .. Double - 1 : g[k + 1] = g[k] + (IF k \in B THEN 2^k ELSE 0)
  BY <1>4
<1> QED BY <1>2, <1>4, <1>5, <1>6

LEMMA FromBitsBound ==
  ASSUME NEW y \in Nat, NEW B, \A i \in B : Bit(y, i)
  PROVE  FromBits(B) <= y
<1>1. Double \in Nat
  BY Widths
<1>2. PICK g : /\ FromBits(B) = g[Double] /\ g[0] = 0
               /\ \A k \in 0 .. Double - 1 :
                    /\ g[k + 1] = g[k] + (IF k \in B THEN 2^k ELSE 0)
                    /\ k \in Nat /\ 2^k \in Nat \ {0} /\ 2^(k + 1) = 2 * 2^k
  BY BitSum
<1> DEFINE S == {k \in Nat : k <= Double => g[k] \in Int /\ g[k] <= y % 2^k}
<1>3. 0 \in S
  <2>1. 2^0 = 1 /\ y % 1 = 0
    OBVIOUS
  <2> QED BY <1>2, <2>1
<1>4. ASSUME NEW k \in Nat, k \in S PROVE k + 1 \in S
  <2> SUFFICES ASSUME k + 1 <= Double PROVE g[k + 1] \in Int /\ g[k + 1] <= y % 2^(k + 1)
    OBVIOUS
  <2>1. k \in 0 .. Double - 1 /\ g[k] \in Int /\ g[k] <= y % 2^k
    BY <1>1, <1>4
  <2>2. g[k + 1] = g[k] + (IF k \in B THEN 2^k ELSE 0) /\ 2^k \in Nat
    BY <1>2, <2>1
  <2>3. /\ y % 2^(k + 1) = (y % 2^k) + (IF Bit(y, k) THEN 2^k ELSE 0)
        /\ y % 2^k \in 0 .. 2^k - 1
    BY NextBit
  <2>4. k \in B => Bit(y, k)
    OBVIOUS
  <2> QED BY <2>1, <2>2, <2>3, <2>4
<1>5. Double \in S
  <2> HIDE DEF S
  <2> QED BY <1>1, <1>3, <1>4, Induction
<1>6. y % 2^Double <= y /\ y % 2^Double \in Nat
  BY Sizes, ModOrder
<1> QED BY <1>1, <1>2, <1>5, <1>6

LEMMA FromNoBits == FromBits({}) = 0
  BY FromBitsBound, FromBitsRange DEF Doubles

LEMMA AndRange ==
  ASSUME NEW x \in Nat, NEW y \in Nat
  PROVE  And(x, y) \in Doubles /\ And(x, y) <= x /\ And(x, y) <= y
<1>1. FromBits({i \in 0 .. Double - 1 : Bit(x, i) /\ Bit(y, i)}) <= x
  BY FromBitsBound
<1>2. FromBits({i \in 0 .. Double - 1 : Bit(x, i) /\ Bit(y, i)}) <= y
  BY FromBitsBound
<1> QED BY <1>1, <1>2, FromBitsRange DEF And

LEMMA AndCommutes ==
  ASSUME NEW x, NEW y
  PROVE  And(x, y) = And(y, x)
<1>1. {i \in 0 .. Double - 1 : Bit(x, i) /\ Bit(y, i)} = {i \in 0 .. Double - 1 : Bit(y, i) /\ Bit(x, i)}
  OBVIOUS
<1> QED BY <1>1 DEF And

LEMMA OrCommutes ==
  ASSUME NEW x \in Nat, NEW y \in Nat
  PROVE  Or(x, y) = Or(y, x)
  BY AndCommutes, AndRange DEF Or, Doubles

LEMMA OrZero ==
  ASSUME NEW x \in Nat
  PROVE  Or(0, x) = x
<1>1. And(0, x) = 0
  BY AndRange DEF Doubles
<1> QED BY <1>1 DEF Or

LEMMA SignedNonnegative ==
  ASSUME NEW n \in Nat \ {0}, NEW x \in 0 .. 2^n - 1, Signed(x, n) >= 0
  PROVE  Signed(x, n) = x
<1> DEFINE M == 2^n
<1>1. M \in Nat \ {0} /\ x % M = x
  <2>1. M \in Nat \ {0}
    BY PowerPositive
  <2> HIDE DEF M
  <2>2. x \in 0 .. M - 1
    BY DEF M
  <2> QED BY <2>1, <2>2, ModSmall
<1>2. Signed(x, n) = x \/ Signed(x, n) = x - M
  BY <1>1 DEF Signed
<1> HIDE DEF M
<1>3. x < M
  BY <1>1 DEF M
<1> QED BY <1>1, <1>2, <1>3

LEMMA OrNat ==
  ASSUME NEW x \in Nat, NEW y \in Nat
  PROVE  Or(x, y) \in Nat
  BY AndRange DEF Or, Doubles

LEMMA OrRange ==
  ASSUME NEW x \in Doubles, NEW y \in Doubles
  PROVE  Or(x, y) \in Doubles
<1> DEFINE B == {i \in 0 .. Double - 1 : Bit(x, i) /\ Bit(y, i)}
<1>1. Double \in Nat /\ x \in Nat /\ y \in Nat
  BY Widths, DoublesNat
<1>2. PICK g : /\ FromBits(B) = g[Double] /\ g[0] = 0
               /\ \A k \in 0 .. Double - 1 :
                    /\ g[k + 1] = g[k] + (IF k \in B THEN 2^k ELSE 0)
                    /\ k \in Nat /\ 2^k \in Nat \ {0} /\ 2^(k + 1) = 2 * 2^k
  <2> HIDE DEF B
  <2> QED BY BitSum
<1> DEFINE S == {k \in Nat : k <= Double => g[k] \in Int /\ ((x % 2^k) + (y % 2^k)) - g[k] \in 0 .. 2^k - 1}
<1>3. 0 \in S
  <2>1. 2^0 = 1 /\ y % 2^0 = 0 /\ x % 2^0 = 0
    BY <1>1
  <2>2. ((x % 2^0) + (y % 2^0)) - g[0] \in 0 .. 2^0 - 1
    BY <1>2, <2>1
  <2> QED BY <1>2, <2>2
<1>4. ASSUME NEW k \in Nat, k \in S PROVE k + 1 \in S
  <2> SUFFICES ASSUME k + 1 <= Double
               PROVE  g[k + 1] \in Int /\ ((x % 2^(k + 1)) + (y % 2^(k + 1))) - g[k + 1] \in 0 .. 2^(k + 1) - 1
    OBVIOUS
  <2> DEFINE p == 2^k
  <2>1. k \in 0 .. Double - 1 /\ g[k] \in Int /\ ((x % p) + (y % p)) - g[k] \in 0 .. p - 1
    BY <1>1, <1>4
  <2>2. g[k + 1] = g[k] + (IF k \in B THEN p ELSE 0) /\ p \in Nat \ {0} /\ 2^(k + 1) = 2 * p
    <3> HIDE DEF B
    <3> QED BY <1>2, <2>1
  <2>3. x % 2^(k + 1) = (x % p) + (IF Bit(x, k) THEN p ELSE 0) /\ x % p \in 0 .. p - 1
    BY <1>1, NextBit
  <2>4. y % 2^(k + 1) = (y % p) + (IF Bit(y, k) THEN p ELSE 0) /\ y % p \in 0 .. p - 1
    BY <1>1, NextBit
  <2>5. k \in B <=> Bit(x, k) /\ Bit(y, k)
    BY <2>1
  <2> DEFINE X == x % p  Y == y % p
  <2> HIDE DEF p, B, X, Y
  <2>6. CASE Bit(x, k) /\ Bit(y, k)
    <3>1. x % 2^(k + 1) = X + p /\ y % 2^(k + 1) = Y + p /\ g[k + 1] = g[k] + p
      BY <2>2, <2>3, <2>4, <2>5, <2>6 DEF X, Y
    <3> QED BY <3>1, <2>1, <2>2, <2>3, <2>4 DEF X, Y
  <2>7. CASE ~(Bit(x, k) /\ Bit(y, k))
    <3>1. g[k + 1] = g[k]
      BY <2>1, <2>2, <2>5, <2>7
    <3>2. (x % 2^(k + 1)) + (y % 2^(k + 1)) \in {X + Y, X + Y + p}
      BY <2>2, <2>3, <2>4, <2>7 DEF X, Y
    <3> QED BY <3>1, <3>2, <2>1, <2>2, <2>3, <2>4 DEF X, Y
  <2> QED BY <2>6, <2>7
<1>5. Double \in S
  <2> HIDE DEF S
  <2> QED BY <1>1, <1>3, <1>4, Induction
<1>6. x % 2^Double = x /\ y % 2^Double = y
  BY Sizes, ModSmall DEF Doubles
<1>7. And(x, y) = g[Double]
  BY <1>2 DEF And
<1>8. (x + y) - g[Double] \in 0 .. 2^Double - 1 /\ g[Double] \in Int
  BY <1>1, <1>5, <1>6
<1> QED BY <1>1, <1>7, <1>8 DEF Or, Doubles

LEMMA XorRange ==
  ASSUME NEW x \in Doubles, NEW y \in Doubles
  PROVE  Xor(x, y) \in Doubles
<1>1. x \in Nat /\ y \in Nat
  BY DoublesNat
<1>2. And(x, y) \in Doubles /\ And(x, y) <= x /\ And(x, y) <= y
  BY <1>1, AndRange
<1>3. Or(x, y) \in Doubles
  BY OrRange
<1>4. Or(x, y) = (x + y) - And(x, y) /\ Xor(x, y) = (x + y) - 2 * And(x, y)
  <2>1. And(x, y) \in Nat
    BY <1>2, DoublesNat
  <2> QED BY <1>1, <2>1 DEF Or, Xor
<1>5. Or(x, y) \in Nat /\ And(x, y) \in Nat /\ Or(x, y) <= 2^Double - 1
  BY <1>2, <1>3, DoublesNat DEF Doubles
<1> HIDE DEF Or, Xor
<1>6. Xor(x, y) \in Nat /\ Xor(x, y) <= Or(x, y)
  BY <1>1, <1>2, <1>4, <1>5
<1> QED BY <1>5, <1>6, Sizes DEF Doubles

LEMMA NotRange ==
  ASSUME NEW x \in Doubles
  PROVE  Not(x) \in Doubles
  BY Sizes DEF Not, Doubles

---------------------------------------------------------------------------
(* Every operator the results are built from fits a register.              *)

LEMMA CastDoubles ==
  ASSUME NEW x \in Int, NEW n \in Nat, n <= Double
  PROVE  Cast(x, n) \in Doubles
<1>1. 2^n \in Nat /\ 2^Double \in Nat /\ 2^n <= 2^Double
  BY Widths, PowerPositive, PowerOrder
<1>2. Cast(x, n) \in 0 .. 2^n - 1
  BY CastRange
<1> QED BY <1>1, <1>2 DEF Doubles

LEMMA ShlRange ==
  ASSUME NEW x \in Int, NEW s \in Nat
  PROVE  Shl(x, s) \in Doubles
<1>1. x * 2^s \in Int
  <2>1. 2^s \in Int
    BY PowerPositive
  <2> QED BY <2>1
<1> QED BY <1>1, WrapRange DEF Shl

LEMMA ShrNat ==
  ASSUME NEW x \in Nat, NEW s \in Nat
  PROVE  Shr(x, s) \in Nat /\ Shr(x, s) <= x
  BY PowerPositive, ModOrder DEF Shr

LEMMA ShrRange ==
  ASSUME NEW x \in Doubles, NEW s \in Nat
  PROVE  Shr(x, s) \in Doubles
<1>1. x \in Nat /\ 2^Double \in Nat
  BY DoublesNat, Sizes
<1>2. Shr(x, s) \in Nat /\ Shr(x, s) <= x
  BY <1>1, ShrNat
<1> QED BY <1>1, <1>2 DEF Doubles

LEMMA SarRange ==
  ASSUME NEW x \in Int, NEW n \in Nat \ {0}, NEW s \in Nat
  PROVE  Sar(x, n, s) \in Doubles
<1>1. Signed(x, n) \in Int /\ 2^s \in Nat \ {0}
  BY SignedRange, PowerPositive
<1>2. Signed(x, n) \div 2^s \in Int
  BY <1>1, DivMod
<1> QED BY <1>2, WrapRange DEF Sar

LEMMA RotrRange ==
  ASSUME NEW x \in Int, NEW n \in Nat, NEW s \in 0 .. n, n <= Double
  PROVE  Rotr(x, n, s) \in Doubles /\ Rotr(x, n, s) \in Int
<1>1. n - s \in Nat /\ s \in Nat
  OBVIOUS
<1>2. 2^s \in Nat \ {0} /\ 2^(n - s) \in Int
  BY <1>1, PowerPositive
<1>3. x \div 2^s \in Int /\ x % 2^s \in Int
  BY <1>2, DivMod
<1>4. (x \div 2^s) + (x % 2^s) * 2^(n - s) \in Int
  BY <1>2, <1>3
<1>5. Rotr(x, n, s) \in Doubles
  BY <1>4, CastDoubles DEF Rotr
<1>6. Rotr(x, n, s) \in Nat
  BY <1>5, DoublesNat
<1> QED BY <1>5, <1>6

LEMMA TruthRange == ASSUME NEW b PROVE Truth(b) \in Doubles
<1>1. 2^Double >= 2 /\ 2^Double \in Nat
  <2>1. Double - 1 \in Nat /\ 2^Double = 2 * 2^(Double - 1) /\ 2^(Double - 1) \in Nat \ {0}
    BY Widths, HalfPower
  <2> QED BY <2>1
<1> QED BY <1>1 DEF Truth, Doubles

LEMMA QuotientInt ==
  ASSUME NEW a \in Int, NEW b \in Int, b # 0
  PROVE  Quotient(a, b) \in Int /\ Remainder(a, b) \in Int
<1> DEFINE x == IF a < 0 THEN -a ELSE a  y == IF b < 0 THEN -b ELSE b  q == x \div y
<1>1. x \in Int /\ y \in Nat \ {0}
  OBVIOUS
<1>2. q \in Int
  BY <1>1, DivMod
<1>3. Quotient(a, b) = IF (a < 0) = (b < 0) THEN q ELSE -q
  BY DEF Quotient
<1> HIDE DEF q
<1>4. Quotient(a, b) \in Int
  BY <1>2, <1>3
<1> QED BY <1>4 DEF Remainder

(* The 32-bit halves of two factors.                                       *)
LEMMA Halves ==
  ASSUME NEW a \in Doubles
  PROVE  a % 2^Word \in 0 .. 2^Word - 1 /\ a \div 2^Word \in 0 .. 2^Word - 1
<1>1. a \in Nat /\ 2^Word \in Nat \ {0} /\ a < 2^Word * 2^Word
  BY Sizes, DoublesNat DEF Doubles
<1>2. a \div 2^Word < 2^Word /\ a \div 2^Word \in Nat
  BY <1>1, QuotientBound, ModOrder
<1>3. a \in Int
  BY <1>1
<1>4. a % 2^Word \in 0 .. 2^Word - 1
  BY <1>1, <1>3, DivMod
<1> QED BY <1>1, <1>2, <1>4

LEMMA ProductBound ==
  ASSUME NEW n \in Nat, NEW x \in 0 .. n, NEW y \in 0 .. n
  PROVE  x * y \in Nat /\ x * y <= n * n
<1>1. \A u, v, w \in Nat : u <= v => u * w <= v * w
  OBVIOUS
<1>2. x * y <= n * y /\ y * n <= n * n /\ n * y = y * n
  BY <1>1
<1>3. x * y \in Nat /\ n * y \in Nat /\ n * n \in Nat
  OBVIOUS
<1> QED BY <1>2, <1>3

LEMMA MulLowRange ==
  ASSUME NEW a \in Doubles, NEW b \in Doubles
  PROVE  MulLow(a, b) \in Doubles
<1> DEFINE h == 2^Word  al == a % h  ah == a \div h  bl == b % h  bh == b \div h  cross == al * bh + ah * bl
<1>1. al \in Int /\ ah \in Int /\ bl \in Int /\ bh \in Int /\ h \in Nat \ {0}
  BY Halves, Sizes
<1>2. MulLow(a, b) = Wrap(al * bl + h * (cross % h))
  BY DEF MulLow
<1> HIDE DEF al, ah, bl, bh, h
<1>3. cross \in Int
  BY <1>1
<1> HIDE DEF cross
<1>4. cross % h \in Int
  BY <1>1, <1>3, DivMod
<1>5. al * bl + h * (cross % h) \in Int
  BY <1>1, <1>4
<1> QED BY <1>2, <1>5, WrapRange

LEMMA MulHighRange ==
  ASSUME NEW a \in Doubles, NEW b \in Doubles
  PROVE  MulHigh(a, b) \in Doubles
<1> DEFINE h == 2^Word  n == h - 1  al == a % h  ah == a \div h  bl == b % h  bh == b \div h
           cross == al * bh + ah * bl  low == (al * bl) \div h  high == (cross + low) \div h
<1>1. al \in 0 .. n /\ ah \in 0 .. n /\ bl \in 0 .. n /\ bh \in 0 .. n /\ h \in Nat \ {0} /\ 2^Double = h * h
  BY Halves, Sizes
<1>2. MulHigh(a, b) = ah * bh + high
  BY DEF MulHigh
<1> HIDE DEF al, ah, bl, bh, h
<1>3. n \in Nat /\ h = n + 1 /\ h * h = n * n + 2 * n + 1 /\ n * n \in Nat
  <2>1. n \in Nat /\ h = n + 1
    BY <1>1
  <2> HIDE DEF n
  <2> QED BY <2>1
<1> HIDE DEF n
<1>4. /\ al * bl \in Nat /\ al * bl <= n * n /\ al * bh \in Nat /\ al * bh <= n * n
      /\ ah * bl \in Nat /\ ah * bl <= n * n /\ ah * bh \in Nat /\ ah * bh <= n * n
  BY <1>1, <1>3, ProductBound
<1>5. low \in Nat /\ low < h
  <2>1. al * bl < h * h
    BY <1>3, <1>4
  <2> QED BY <1>1, <1>4, <2>1, QuotientBound, ModOrder
<1>6. cross \in Nat /\ cross <= 2 * (n * n)
  BY <1>3, <1>4
<1> HIDE DEF low, cross
<1>7. high \in Nat /\ high < 2 * n + 1
  <2>1. cross + low \in Nat /\ 2 * n + 1 \in Nat
    BY <1>3, <1>5, <1>6
  <2>2. h * (2 * n + 1) = 2 * (n * n) + 3 * n + 1
    BY <1>3
  <2>3. cross + low < h * (2 * n + 1)
    <3>1. low <= n
      BY <1>3, <1>5
    <3> HIDE DEF h
    <3> QED BY <1>3, <1>5, <1>6, <2>2, <3>1
  <2> QED BY <1>1, <2>1, <2>3, QuotientBound, ModOrder
<1> HIDE DEF high
<1>8. ah * bh + high \in Nat /\ ah * bh + high <= n * n + 2 * n
  BY <1>3, <1>4, <1>7
<1> QED BY <1>1, <1>2, <1>3, <1>8 DEF Doubles

LEMMA MulHighSignedRange ==
  ASSUME NEW a \in Doubles, NEW b \in Doubles
  PROVE  MulHighSigned(a, b) \in Doubles
<1> DEFINE u == IF Signed(a, Double) < 0 THEN b ELSE 0  v == IF Signed(b, Double) < 0 THEN a ELSE 0
<1>1. MulHigh(a, b) \in Int
  <2>1. MulHigh(a, b) \in Nat
    BY MulHighRange, DoublesNat
  <2> QED BY <2>1
<1>2. u \in Int /\ v \in Int
  BY DoublesNat
<1>3. MulHighSigned(a, b) = Wrap(MulHigh(a, b) - u - v)
  BY DEF MulHighSigned
<1> HIDE DEF u, v
<1>4. MulHigh(a, b) - u - v \in Int
  BY <1>1, <1>2
<1> QED BY <1>3, <1>4, WrapRange

(* A count of bits.                                                        *)
LEMMA LessThanPower == \A n \in Nat : n < 2^n
<1> DEFINE S == {n \in Nat : n < 2^n}
<1>1. 0 \in S
  BY PowerPositive
<1>2. ASSUME NEW n \in Nat, n \in S PROVE n + 1 \in S
  <2>1. 2^(n + 1) = 2 * 2^n /\ 2^n \in Nat /\ n < 2^n
    BY <1>2, Doubling, PowerPositive
  <2> QED BY <2>1
<1> HIDE DEF S
<1>3. Nat \subseteq S
  BY <1>1, <1>2, Induction
<1> QED BY <1>3 DEF S

LEMMA CountRange ==
  ASSUME NEW n \in Nat, n <= Double, NEW lo \in Nat, NEW hi \in Nat, hi - lo < n, NEW S \in SUBSET (lo .. hi)
  PROVE  Cardinality(S) \in Doubles
<1>1. IsFiniteSet(lo .. hi) /\ Cardinality(lo .. hi) = IF lo > hi THEN 0 ELSE hi - lo + 1
  BY FS_Interval
<1>2. Cardinality(S) \in Nat /\ Cardinality(S) <= Cardinality(lo .. hi)
  BY <1>1, FS_Subset, FS_CardinalityType
<1>3. Double \in Nat /\ Double < 2^Double /\ 2^Double \in Nat
  BY Widths, LessThanPower, Sizes
<1> QED BY <1>1, <1>2, <1>3 DEF Doubles

LEMMA ZerosRange ==
  ASSUME NEW x, NEW n \in Nat \ {0}, n <= Double
  PROVE  LeadingZeros(x, n) \in Doubles /\ TrailingZeros(x, n) \in Doubles
<1>1. n - 1 \in Nat /\ (n - 1) - 0 < n /\ n - 1 < n
  OBVIOUS
<1>2. LeadingZeros(x, n) \in Doubles
  BY <1>1, CountRange DEF LeadingZeros
<1>3. TrailingZeros(x, n) \in Doubles
  BY <1>1, CountRange DEF TrailingZeros
<1> QED BY <1>2, <1>3

LEMMA ReverseRange ==
  ASSUME NEW x, NEW unit, NEW group
  PROVE  Reverse(x, unit, group) \in Doubles
  BY FromBitsRange DEF Reverse

---------------------------------------------------------------------------
(* The three engines.                                                      *)

LEMMA HandleCases ==
  ASSUME NEW m, NEW i, NEW ub
  PROVE LET j == m.reg[i.rj]  k == m.reg[i.rk] IN
    /\ i.op \in AddSub   => Handle(m, i, ub) = Put(m, i.rd, AddSubResult(i.op, j, k, i.imm))
    /\ i.op \in Division => Handle(m, i, ub) = IF Overflows(i.op, j, k) /\ ~ub THEN Trap(m, "sigfpe")
                            ELSE Put(m, i.rd, DivisionResult(i.op, j, k))
    /\ i.op \in Logic    => Handle(m, i, ub) = Put(m, i.rd, LogicResult(i.op, j, k, i.imm))
    /\ i.op \in Shift    => Handle(m, i, ub) = Put(m, i.rd, ShiftResult(i.op, j, k, i.imm))
    /\ i.op \in DOMAIN LoadImm  => Handle(m, i, ub) = HandleLoadImm(m, i)
    /\ i.op \in DOMAIN StoreImm => Handle(m, i, ub) = HandleStoreImm(m, i)
    /\ i.op \in DOMAIN LoadPtr  => Handle(m, i, ub) = HandleLoadPtr(m, i)
    /\ i.op \in DOMAIN StorePtr => Handle(m, i, ub) = HandleStorePtr(m, i)
    /\ i.op \in DOMAIN StoreIdx => Handle(m, i, ub) = HandleStoreIdx(m, i)
    /\ i.op \in DOMAIN LoadIdx  => Handle(m, i, ub) = HandleLoadIdx(m, i)
    /\ i.op \in ZeroTest  => Handle(m, i, ub) = HandleZeroTest(m, i)
    /\ i.op \in Compare   => Handle(m, i, ub) = HandleCompare(m, i)
    /\ i.op \in FlagTest  => Handle(m, i, ub) = HandleFlagTest(m, i)
    /\ i.op \in Jumps     => Handle(m, i, ub) = HandleJump(m, i)
    /\ i.op \in Upper     => Handle(m, i, ub) = Put(m, i.rd, UpperResult(i.op, m.reg[i.rd], j, m.pc, i.imm))
    /\ i.op \in BitString => Handle(m, i, ub) = HandleBitString(m, i, ub)
    /\ i.op \in System    => Handle(m, i, ub) = HandleSystem(m, i)
    /\ i.op \in Multiply  => Handle(m, i, ub) = Put(m, i.rd, MultiplyResult(i.op, j, k, i.imm))
    /\ i.op \in Counting  => Handle(m, i, ub) = Put(m, i.rd, CountingResult(i.op, j, k, i.imm))
    /\ i.op \in DOMAIN Atomic           => Handle(m, i, ub) = HandleAtomic(m, i)
    /\ i.op \in DOMAIN LoadLinked       => Handle(m, i, ub) = HandleLoadLinked(m, i)
    /\ i.op \in DOMAIN StoreConditional => Handle(m, i, ub) = HandleStoreConditional(m, i)
<1> DEFINE j == m.reg[i.rj]  k == m.reg[i.rk]
<1> USE DEF Handle, AddSub, Division, Logic, Shift, LoadImm, StoreImm, LoadPtr, StorePtr, StoreIdx, LoadIdx,
            ZeroTest, Compare, FlagTest, Jumps, Upper, BitString, System, Hints, Multiply, Counting, Atomic,
            LoadLinked, StoreConditional
<1>1. i.op \in AddSub   => Handle(m, i, ub) = Put(m, i.rd, AddSubResult(i.op, j, k, i.imm))
  OBVIOUS
<1>2. i.op \in Division => Handle(m, i, ub) = IF Overflows(i.op, j, k) /\ ~ub THEN Trap(m, "sigfpe")
         ELSE Put(m, i.rd, DivisionResult(i.op, j, k))
  OBVIOUS
<1>3. i.op \in Logic    => Handle(m, i, ub) = Put(m, i.rd, LogicResult(i.op, j, k, i.imm))
  OBVIOUS
<1>4. i.op \in Shift    => Handle(m, i, ub) = Put(m, i.rd, ShiftResult(i.op, j, k, i.imm))
  OBVIOUS
<1>5. i.op \in DOMAIN LoadImm  => Handle(m, i, ub) = HandleLoadImm(m, i)
  OBVIOUS
<1>6. i.op \in DOMAIN StoreImm => Handle(m, i, ub) = HandleStoreImm(m, i)
  OBVIOUS
<1>7. i.op \in DOMAIN LoadPtr  => Handle(m, i, ub) = HandleLoadPtr(m, i)
  OBVIOUS
<1>8. i.op \in DOMAIN StorePtr => Handle(m, i, ub) = HandleStorePtr(m, i)
  OBVIOUS
<1>9. i.op \in DOMAIN StoreIdx => Handle(m, i, ub) = HandleStoreIdx(m, i)
  OBVIOUS
<1>10. i.op \in DOMAIN LoadIdx  => Handle(m, i, ub) = HandleLoadIdx(m, i)
  OBVIOUS
<1>11. i.op \in ZeroTest  => Handle(m, i, ub) = HandleZeroTest(m, i)
  OBVIOUS
<1>12. i.op \in Compare   => Handle(m, i, ub) = HandleCompare(m, i)
  OBVIOUS
<1>13. i.op \in FlagTest  => Handle(m, i, ub) = HandleFlagTest(m, i)
  OBVIOUS
<1>14. i.op \in Jumps     => Handle(m, i, ub) = HandleJump(m, i)
  OBVIOUS
<1>15. i.op \in Upper     => Handle(m, i, ub) = Put(m, i.rd, UpperResult(i.op, m.reg[i.rd], j, m.pc, i.imm))
  OBVIOUS
<1>16. i.op \in BitString => Handle(m, i, ub) = HandleBitString(m, i, ub)
  OBVIOUS
<1>17. i.op \in System    => Handle(m, i, ub) = HandleSystem(m, i)
  OBVIOUS
<1>18. i.op \in Multiply  => Handle(m, i, ub) = Put(m, i.rd, MultiplyResult(i.op, j, k, i.imm))
  OBVIOUS
<1>19. i.op \in Counting  => Handle(m, i, ub) = Put(m, i.rd, CountingResult(i.op, j, k, i.imm))
  OBVIOUS
<1>20. i.op \in DOMAIN Atomic           => Handle(m, i, ub) = HandleAtomic(m, i)
  OBVIOUS
<1>21. i.op \in DOMAIN LoadLinked       => Handle(m, i, ub) = HandleLoadLinked(m, i)
  OBVIOUS
<1>22. i.op \in DOMAIN StoreConditional => Handle(m, i, ub) = HandleStoreConditional(m, i)
  OBVIOUS
<1> QED BY <1>1, <1>2, <1>3, <1>4, <1>5, <1>6, <1>7, <1>8, <1>9, <1>10, <1>11, <1>12, <1>13, <1>14, <1>15, <1>16, <1>17, <1>18, <1>19, <1>20, <1>21, <1>22, ZenonT(60)

LEMMA FastFunction ==
  ASSUME NEW m, NEW i, NEW ub, i.op \in NoBytecode
  PROVE  Dispatch(m, i, ub) = Interpret(m, i, ub)
<1>1. Bytecode(i) = "FUNCTION"
  BY DEF Bytecode, NoBytecode, MoveBits, Counting, Atomic, LoadLinked, StoreConditional
<1>2. Optimized(i, m.pc) = Packed(i, "FUNCTION", i.imm)
  BY <1>1 DEF Optimized, NopIfZero, Compare, ZeroTest, FlagTest, SignedImm12, SignedImm14, LoadImm, StoreImm,
    LoadPtr, StorePtr
<1>3. Optimized(i, m.pc).bc = "FUNCTION"
  BY <1>2 DEF Packed
<1> QED BY <1>3 DEF Dispatch, Interpret, Popular, Middle, Late, Upper, BitString, FastStores, FastLoads, Branches, Compare, ZeroTest, FlagTest, Jumps,
   LoadImm, StoreImm, LoadPtr, StorePtr, StoreIdx, LoadIdx
LEMMA DispatchCases ==
  ASSUME NEW m, NEW i, NEW ub
  PROVE  LET f == Optimized(i, m.pc)  j == m.reg[f.rj]  k == m.reg[f.rk] IN
    /\ f.bc \in Popular => Dispatch(m, i, ub) = StepOver(Put(m, f.rd, PopularResult(f.bc, j, k, f.imm)))
    /\ f.bc \in Middle  => Dispatch(m, i, ub) = StepOver(Put(m, f.rd, MiddleResult(f.bc, j, k, f.imm)))
    /\ f.bc \in Late    => Dispatch(m, i, ub) = StepOver(Put(m, f.rd, LateResult(f.bc, j, k, f.imm)))
    /\ f.bc \in Upper \ {"LU52I_D"} =>
         Dispatch(m, i, ub) = StepOver(Put(m, f.rd, UpperFast(f.bc, m.reg[f.rd], m.pc, f.imm)))
    /\ f.bc \in BitString => Dispatch(m, i, ub) = StepOver(BitStringFast(m, f, ub))
    /\ f.bc \in FastStores \cup FastLoads => Dispatch(m, i, ub) = StepOver(MemoryFast(m, f))
    /\ f.bc \in {"INVALID", "NOP", "STOP", "SYSCALL", "SYSCALLIMM"} =>
         Dispatch(m, i, ub) = StepOver(ControlFast(m, f))
    /\ f.bc \in Branches => Dispatch(m, i, ub) = BranchFast(m, f)
<1> DEFINE f == Optimized(i, m.pc)  j == m.reg[f.rj]  k == m.reg[f.rk]
<1> USE DEF Dispatch, Popular, Middle, Late, Upper, BitString, FastStores, FastLoads, Branches, Compare, ZeroTest,
            FlagTest, Jumps, LoadImm, StoreImm, LoadPtr, StorePtr, StoreIdx, LoadIdx
<1>1. f.bc \in Popular => Dispatch(m, i, ub) = StepOver(Put(m, f.rd, PopularResult(f.bc, j, k, f.imm)))
  OBVIOUS
<1>2. f.bc \in Middle  => Dispatch(m, i, ub) = StepOver(Put(m, f.rd, MiddleResult(f.bc, j, k, f.imm)))
  OBVIOUS
<1>3. f.bc \in Late    => Dispatch(m, i, ub) = StepOver(Put(m, f.rd, LateResult(f.bc, j, k, f.imm)))
  OBVIOUS
<1>4. f.bc \in Upper \ {"LU52I_D"} =>
         Dispatch(m, i, ub) = StepOver(Put(m, f.rd, UpperFast(f.bc, m.reg[f.rd], m.pc, f.imm)))
  OBVIOUS
<1>5. f.bc \in BitString => Dispatch(m, i, ub) = StepOver(BitStringFast(m, f, ub))
  OBVIOUS
<1>6. f.bc \in FastStores \cup FastLoads => Dispatch(m, i, ub) = StepOver(MemoryFast(m, f))
  OBVIOUS
<1>7. f.bc \in {"INVALID", "NOP", "STOP", "SYSCALL", "SYSCALLIMM"} =>
         Dispatch(m, i, ub) = StepOver(ControlFast(m, f))
  OBVIOUS
<1>8. f.bc \in Branches => Dispatch(m, i, ub) = BranchFast(m, f)
  OBVIOUS
<1> QED BY <1>1, <1>2, <1>3, <1>4, <1>5, <1>6, <1>7, <1>8

(* What the rewriter makes of an instruction that has a bytecode of its own *)
(* and is not dropped: the same fields, with the immediate it packs.        *)
PackedImm(i) == IF i.op \in SignedImm12 THEN Signed(i.imm, Imm12)
                ELSE IF i.op \in SignedImm14 THEN Signed(i.imm, Imm14)
                ELSE IF i.op = "LU32I_D" THEN Signed(i.imm, Imm20) ELSE i.imm
Rewritten(i, imm) == [bc |-> i.op, rd |-> i.rd, rj |-> i.rj, rk |-> i.rk, imm |-> imm]

LEMMA Rewrite ==
  ASSUME NEW i, NEW pc, i.op \in Ops \ (NoBytecode \cup Branches \cup {"SYSCALL"}),
         i.rd # 0 \/ i.op \notin NopIfZero,
         ~(i.op = "OR" /\ i.rj = 0)
  PROVE  Optimized(i, pc) = Rewritten(i, PackedImm(i))
<1>1. Bytecode(i) = i.op
  BY DEF Bytecode, MoveBits, NopIfZero
<1>2. i.op # "MOVE" /\ i.op # "SYSCALL" /\ i.op \notin Branches
  BY DEF Ops, AddSub, Division, Logic, Shift, LoadImm, StoreImm, LoadPtr, StorePtr, StoreIdx, LoadIdx,
         Branches, Compare, ZeroTest, FlagTest, Jumps, Upper, BitString, System, Hints, Multiply, Counting, Atomic,
         LoadLinked, StoreConditional
<1> QED BY <1>1, <1>2 DEF Optimized, Packed, PackedImm, Rewritten, Branches, Compare, ZeroTest, FlagTest, Jumps, SignedImm12, SignedImm14,
   LoadImm, StoreImm, LoadPtr, StorePtr

(* A state between two instructions. *)
Ready(m) == m \in Machine /\ m.reg[0] = 0 /\ m.trap = "none"

LEMMA Operands ==
  ASSUME NEW m, Ready(m), NEW i \in Encodings
  PROVE  /\ i.op \in Ops /\ i.imm \in Doubles /\ i.imm \in Nat /\ Encodable(i)
         /\ i.rd \in Regs /\ i.rj \in Regs /\ i.rk \in Regs
         /\ m.reg[i.rd] \in Doubles /\ m.reg[i.rj] \in Doubles /\ m.reg[i.rk] \in Doubles
         /\ m.reg[i.rd] \in Nat /\ m.reg[i.rj] \in Nat /\ m.reg[i.rk] \in Nat
         /\ m.pc \in Doubles /\ m.pc \in Nat
  BY DoublesNat DEF Ready, Machine, Encodings
(* A bytecode that computes the handler's value does what the handler does. *)
LEMMA FastValue ==
  ASSUME NEW m, NEW i, NEW imm, NEW v,
         Optimized(i, m.pc) = Rewritten(i, imm), Handle(m, i, TRUE) = Put(m, i.rd, v),
         i.op \in Popular \cup Middle \cup Late,
         i.op \in Popular => PopularResult(i.op, m.reg[i.rj], m.reg[i.rk], imm) = v,
         i.op \in Middle  => MiddleResult(i.op, m.reg[i.rj], m.reg[i.rk], imm) = v,
         i.op \in Late    => LateResult(i.op, m.reg[i.rj], m.reg[i.rk], imm) = v
  PROVE  Dispatch(m, i, TRUE) = Interpret(m, i, TRUE)
<1> DEFINE f == Optimized(i, m.pc)
<1>1. f.bc = i.op /\ f.rd = i.rd /\ f.rj = i.rj /\ f.rk = i.rk /\ f.imm = imm
  BY DEF Rewritten
<1>3. i.op \in Popular => Dispatch(m, i, TRUE) = StepOver(Put(m, i.rd, v))
  BY <1>1, DispatchCases, ZenonT(60)
<1>4. i.op \in Middle => Dispatch(m, i, TRUE) = StepOver(Put(m, i.rd, v))
  BY <1>1, DispatchCases, ZenonT(60)
<1>5. i.op \in Late => Dispatch(m, i, TRUE) = StepOver(Put(m, i.rd, v))
  BY <1>1, DispatchCases
<1> QED BY <1>3, <1>4, <1>5 DEF Interpret

LEMMA FastAddSub ==
  ASSUME NEW m, Ready(m), NEW i \in Encodings, i.op \in AddSub \ NoBytecode, (i.rd # 0 \/ i.op \notin NopIfZero)
  PROVE  Dispatch(m, i, TRUE) = Interpret(m, i, TRUE)
<1> DEFINE imm == PackedImm(i)  j == m.reg[i.rj]  k == m.reg[i.rk]
           v == AddSubResult(i.op, j, k, i.imm)
<1>1. Optimized(i, m.pc) = Rewritten(i, imm)
  BY Rewrite DEF Ops, AddSub, NoBytecode, Branches, Compare, ZeroTest, FlagTest, Jumps
<1>2. Handle(m, i, TRUE) = Put(m, i.rd, v)
  BY HandleCases
<1>3. i.op \in Popular \cup Middle \cup Late
  BY DEF AddSub, NoBytecode, Popular, Middle, Late
<1>4. imm = IF i.op \in {"ADDI_W", "ADDI_D"} THEN Signed(i.imm, Imm12) ELSE i.imm
  BY DEF PackedImm, AddSub, SignedImm12, SignedImm14, LoadImm, StoreImm, LoadPtr, StorePtr
<1> HIDE DEF imm
<1>5. i.op \in Popular => PopularResult(i.op, j, k, imm) = v
  BY <1>4 DEF AddSub, Popular, PopularResult, AddSubResult
<1>6. i.op \in Middle => MiddleResult(i.op, j, k, imm) = v
  BY <1>4 DEF AddSub, Middle, MiddleResult, AddSubResult
<1>7. i.op \in Late => LateResult(i.op, j, k, imm) = v
  BY <1>4 DEF AddSub, Late, LateResult, AddSubResult
<1> HIDE DEF v, j, k
<1> QED BY <1>1, <1>2, <1>3, <1>5, <1>6, <1>7, FastValue DEF j, k

LEMMA FastLogic ==
  ASSUME NEW m, Ready(m), NEW i \in Encodings, i.op \in Logic \ NoBytecode, (i.rd # 0 \/ i.op \notin NopIfZero),
         ~(i.op = "OR" /\ i.rj = 0)
  PROVE  Dispatch(m, i, TRUE) = Interpret(m, i, TRUE)
<1> DEFINE imm == PackedImm(i)  j == m.reg[i.rj]  k == m.reg[i.rk]
           v == LogicResult(i.op, j, k, i.imm)
<1>1. Optimized(i, m.pc) = Rewritten(i, imm)
  BY Rewrite DEF Ops, Logic, NoBytecode, Branches, Compare, ZeroTest, FlagTest, Jumps
<1>2. Handle(m, i, TRUE) = Put(m, i.rd, v)
  BY HandleCases
<1>3. i.op \in Popular \cup Middle \cup Late
  BY DEF Logic, NoBytecode, Popular, Middle, Late
<1>4. imm = i.imm
  BY DEF PackedImm, Logic, SignedImm12, SignedImm14, LoadImm, StoreImm, LoadPtr, StorePtr
<1> HIDE DEF imm
<1>5. i.op \in Popular => PopularResult(i.op, j, k, imm) = v
  BY <1>4 DEF Logic, Popular, PopularResult, LogicResult
<1>6. i.op \in Middle => MiddleResult(i.op, j, k, imm) = v
  BY <1>4 DEF Logic, Middle, MiddleResult, LogicResult
<1>7. i.op \in Late => LateResult(i.op, j, k, imm) = v
  BY <1>4 DEF Logic, Late, LateResult, LogicResult
<1> HIDE DEF v, j, k
<1> QED BY <1>1, <1>2, <1>3, <1>5, <1>6, <1>7, FastValue DEF j, k

LEMMA FastShift ==
  ASSUME NEW m, Ready(m), NEW i \in Encodings, i.op \in Shift \ NoBytecode, (i.rd # 0 \/ i.op \notin NopIfZero)
  PROVE  Dispatch(m, i, TRUE) = Interpret(m, i, TRUE)
<1> DEFINE imm == PackedImm(i)  j == m.reg[i.rj]  k == m.reg[i.rk]
           v == ShiftResult(i.op, j, k, i.imm)
<1>1. Optimized(i, m.pc) = Rewritten(i, imm)
  BY Rewrite DEF Ops, Shift, NoBytecode, Branches, Compare, ZeroTest, FlagTest, Jumps
<1>2. Handle(m, i, TRUE) = Put(m, i.rd, v)
  BY HandleCases
<1>3. i.op \in Popular \cup Middle \cup Late
  BY DEF Shift, NoBytecode, Popular, Middle, Late
<1>4. imm = i.imm
  BY DEF PackedImm, Shift, SignedImm12, SignedImm14, LoadImm, StoreImm, LoadPtr, StorePtr
<1> HIDE DEF imm
<1>5. i.op \in Popular => PopularResult(i.op, j, k, imm) = v
  BY <1>4 DEF Shift, Popular, PopularResult, ShiftResult
<1>6. i.op \in Middle => MiddleResult(i.op, j, k, imm) = v
  BY <1>4 DEF Shift, Middle, MiddleResult, ShiftResult
<1>7. i.op \in Late => LateResult(i.op, j, k, imm) = v
  BY <1>4 DEF Shift, Late, LateResult, ShiftResult
<1> HIDE DEF v, j, k
<1> QED BY <1>1, <1>2, <1>3, <1>5, <1>6, <1>7, FastValue DEF j, k

LEMMA FastCounting ==
  ASSUME NEW m, Ready(m), NEW i \in Encodings, i.op \in Counting \ NoBytecode, (i.rd # 0 \/ i.op \notin NopIfZero)
  PROVE  Dispatch(m, i, TRUE) = Interpret(m, i, TRUE)
<1> DEFINE imm == PackedImm(i)  j == m.reg[i.rj]  k == m.reg[i.rk]
           v == CountingResult(i.op, j, k, i.imm)
<1>1. Optimized(i, m.pc) = Rewritten(i, imm)
  BY Rewrite DEF Ops, Counting, NoBytecode, Branches, Compare, ZeroTest, FlagTest, Jumps
<1>2. Handle(m, i, TRUE) = Put(m, i.rd, v)
  BY HandleCases, ZenonT(60)
<1>3. i.op \in Popular \cup Middle \cup Late
  BY DEF Counting, NoBytecode, Popular, Middle, Late, Atomic, LoadLinked, StoreConditional
<1>4. imm = i.imm
  BY DEF PackedImm, Counting, SignedImm12, SignedImm14, LoadImm, StoreImm, LoadPtr, StorePtr
<1> HIDE DEF imm
<1>5. i.op \in Popular => PopularResult(i.op, j, k, imm) = v
  BY <1>4 DEF Counting, Popular, PopularResult, CountingResult
<1>6. i.op \in Middle => MiddleResult(i.op, j, k, imm) = v
  BY <1>4 DEF Counting, Middle, MiddleResult, CountingResult
<1>7. i.op \in Late => LateResult(i.op, j, k, imm) = v
  BY <1>4 DEF Counting, Late, LateResult, CountingResult
<1> HIDE DEF v, j, k
<1> QED BY <1>1, <1>2, <1>3, <1>5, <1>6, <1>7, FastValue DEF j, k

LEMMA FastMultiply ==
  ASSUME NEW m, Ready(m), NEW i \in Encodings, i.op \in Multiply \ NoBytecode, (i.rd # 0 \/ i.op \notin NopIfZero),
         i.op = "SLTUI" => Signed(i.imm, Imm12) >= 0
  PROVE  Dispatch(m, i, TRUE) = Interpret(m, i, TRUE)
<1> DEFINE imm == PackedImm(i)  j == m.reg[i.rj]  k == m.reg[i.rk]
           v == MultiplyResult(i.op, j, k, i.imm)
<1>1. Optimized(i, m.pc) = Rewritten(i, imm)
  BY Rewrite DEF Ops, Multiply, NoBytecode, Branches, Compare, ZeroTest, FlagTest, Jumps
<1>2. Handle(m, i, TRUE) = Put(m, i.rd, v)
  BY HandleCases, ZenonT(60)
<1>3. i.op \in Popular \cup Middle \cup Late
  BY DEF Multiply, NoBytecode, Popular, Middle, Late
<1>4. imm = IF i.op = "SLTI" THEN Signed(i.imm, Imm12) ELSE i.imm
  BY DEF PackedImm, Multiply, SignedImm12, SignedImm14, LoadImm, StoreImm, LoadPtr, StorePtr
<1> HIDE DEF imm
<1>5. i.op \in Popular => PopularResult(i.op, j, k, imm) = v
  BY <1>4 DEF Multiply, Popular, PopularResult, MultiplyResult
<1>6. i.op \in Middle => MiddleResult(i.op, j, k, imm) = v
  BY <1>4 DEF Multiply, Middle, MiddleResult, MultiplyResult
<1>7. i.op \in Late => LateResult(i.op, j, k, imm) = v
  <2>1. i.op = "SLTUI" => Wrap(imm) = Sext(i.imm, Imm12)
    <3> SUFFICES ASSUME i.op = "SLTUI" PROVE Wrap(imm) = Sext(i.imm, Imm12)
      OBVIOUS
    <3>1. i.imm \in Nat /\ i.imm < 2^Imm12 /\ Imm12 \in Nat \ {0} /\ 2^Imm12 \in Nat
      BY Operands, FieldAssumption, PowerPositive DEF Encodable, WithImm12
    <3>2. i.imm \in 0 .. 2^Imm12 - 1
      BY <3>1
    <3>3. Signed(i.imm, Imm12) = i.imm
      BY <3>1, <3>2, SignedNonnegative
    <3> QED BY <1>4, <3>3 DEF Sext, Wrap
  <2> QED BY <1>4, <2>1 DEF Multiply, Late, LateResult, MultiplyResult
<1> HIDE DEF v, j, k
<1> QED BY <1>1, <1>2, <1>3, <1>5, <1>6, <1>7, FastValue DEF j, k

LEMMA FastModulus ==
  ASSUME NEW m, NEW i \in Encodings, i.op \in Division \ NoBytecode, (i.rd # 0 \/ i.op \notin NopIfZero)
  PROVE  Dispatch(m, i, TRUE) = Interpret(m, i, TRUE)
<1> DEFINE j == m.reg[i.rj]  k == m.reg[i.rk]  v == DivisionResult(i.op, j, k)
<1>1. i.op = "MOD_DU"
  BY DEF Division, NoBytecode
<1>2. Optimized(i, m.pc) = Rewritten(i, i.imm)
  BY <1>1, Rewrite DEF Ops, Division, NoBytecode, Branches, Compare, ZeroTest, FlagTest, Jumps, Counting, Atomic,
    LoadLinked, StoreConditional, PackedImm, SignedImm12, SignedImm14, LoadImm, StoreImm, LoadPtr, StorePtr
<1>3. Handle(m, i, TRUE) = Put(m, i.rd, v)
  BY HandleCases, ZenonT(60)
<1>4. i.op \in Late /\ i.op \notin Popular /\ i.op \notin Middle
  BY <1>1 DEF Late, Popular, Middle
<1>5. LateResult(i.op, j, k, i.imm) = v
  BY <1>1 DEF LateResult, DivisionResult
<1> HIDE DEF v, j, k
<1> QED BY <1>2, <1>3, <1>4, <1>5, FastValue DEF j, k

(* OR with register 0 becomes a move.                                      *)
LEMMA FastMove ==
  ASSUME NEW m, Ready(m), NEW i \in Encodings, i.op = "OR", i.rj = 0, i.rd # 0
  PROVE  Dispatch(m, i, TRUE) = Interpret(m, i, TRUE)
<1> DEFINE f == Optimized(i, m.pc)  k == m.reg[i.rk]
<1>1. f = [bc |-> "MOVE", rd |-> i.rd, rj |-> i.rj, rk |-> i.rk, imm |-> 0]
  BY DEF Optimized, Bytecode, PackMove, MoveBits, Packed
<1>2. f.bc = "MOVE" /\ f.rd = i.rd /\ f.rk = i.rk /\ f.imm = 0
  BY <1>1
<1>3. Dispatch(m, i, TRUE) = StepOver(Put(m, i.rd, PopularResult("MOVE", m.reg[f.rj], k, 0)))
  BY <1>2, DispatchCases DEF Popular
<1>4. PopularResult("MOVE", m.reg[f.rj], k, 0) = k
  BY DEF PopularResult
<1>5. Handle(m, i, TRUE) = Put(m, i.rd, LogicResult("OR", m.reg[0], k, i.imm))
  <2>1. i.op \in Logic
    BY DEF Logic
  <2>2. Handle(m, i, TRUE) = Put(m, i.rd, LogicResult(i.op, m.reg[i.rj], k, i.imm))
    BY <2>1, HandleCases
  <2> QED BY <2>2
<1>6. LogicResult("OR", m.reg[0], k, i.imm) = Or(m.reg[0], k)
  BY DEF LogicResult
<1>7. Or(m.reg[0], k) = k
  BY Operands, OrZero DEF Ready
<1> QED BY <1>3, <1>4, <1>5, <1>6, <1>7 DEF Interpret

LEMMA PowerInt == \A n \in Nat : 2^n \in Int
  BY PowerPositive

(* The upper immediates.                                                   *)
LEMMA PageOffset ==
  ASSUME NEW imm \in Int
  PROVE  Signed(Signed(imm, Imm20) * 2^By12, Word) = Signed(imm, Imm20) * 2^By12
<1> DEFINE s == Signed(imm, Imm20)  p == 2^By12  h == 2^(Imm20 - 1)
<1>1. Imm20 \in Nat \ {0} /\ By12 \in Nat /\ Imm20 - 1 \in Nat /\ Word - 1 = (Imm20 - 1) + By12
  BY FieldAssumption
<1>2. s \in Int /\ s \in -h .. h - 1
  BY <1>1, SignedRange
<1>3. p \in Nat \ {0} /\ h \in Nat \ {0} /\ 2^(Word - 1) = h * p
  BY <1>1, PowerPositive, PowerSum
<1> HIDE DEF s, p, h
<1>4. \A x, y, z \in Int : x <= y /\ z >= 0 => x * z <= y * z
  OBVIOUS
<1>5. -h \in Int /\ h - 1 \in Int /\ p \in Int /\ -h <= s /\ s <= h - 1 /\ p >= 0
  BY <1>2, <1>3
<1>6. (-h) * p <= s * p /\ s * p <= (h - 1) * p
  BY <1>2, <1>4, <1>5
<1>7. (-h) * p = -(h * p) /\ (h - 1) * p = h * p - p /\ h * p \in Int
  BY <1>3
<1>8. s * p \in Int /\ p >= 1
  BY <1>2, <1>3
<1>9. s * p \in -(h * p) .. h * p - 1
  BY <1>6, <1>7, <1>8, <1>3
<1> QED BY <1>3, <1>9, SignedSmall, Widths DEF s, p

LEMMA FastUpper ==
  ASSUME NEW m, Ready(m), NEW i \in Encodings, i.op \in Upper, (i.rd # 0 \/ i.op \notin NopIfZero),
         i.op = "PCADDU18I" => Signed(i.imm, Imm20) * 2^By18 \in -(2^(Word - 1)) .. 2^(Word - 1) - 1
  PROVE  Dispatch(m, i, TRUE) = Interpret(m, i, TRUE)
<1> DEFINE f == Optimized(i, m.pc)  d == m.reg[i.rd]  j == m.reg[i.rj]  k == m.reg[i.rk]
           v == UpperResult(i.op, d, j, m.pc, i.imm)  imm == PackedImm(i)
<1>1. f = Rewritten(i, imm)
  BY Rewrite DEF Ops, Upper, NoBytecode, Branches, Compare, ZeroTest, FlagTest, Jumps, Counting, Atomic,
    LoadLinked, StoreConditional
<1>2. f.bc = i.op /\ f.rd = i.rd /\ f.rj = i.rj /\ f.rk = i.rk /\ f.imm = imm
  BY <1>1 DEF Rewritten
<1>3. imm = IF i.op = "LU32I_D" THEN Signed(i.imm, Imm20) ELSE i.imm
  BY DEF PackedImm, Upper, SignedImm12, SignedImm14, LoadImm, StoreImm, LoadPtr, StorePtr
<1>4. Interpret(m, i, TRUE) = StepOver(Put(m, i.rd, v))
  BY HandleCases DEF Interpret
<1> HIDE DEF imm
<1>5. CASE i.op # "LU52I_D"
  <2>1. Dispatch(m, i, TRUE) = StepOver(Put(m, i.rd, UpperFast(i.op, d, m.pc, imm)))
    BY <1>2, <1>5, DispatchCases
  <2>2. i.op = "PCADDU12I" => UpperFast(i.op, d, m.pc, imm) = v
    BY <1>3, PageOffset, Operands DEF UpperFast, UpperResult
  <2>3. i.op = "PCADDU18I" => UpperFast(i.op, d, m.pc, imm) = v
    BY <1>3, SignedSmall, Widths DEF UpperFast, UpperResult
  <2>4. i.op \in Upper \ {"PCADDU12I", "PCADDU18I", "LU52I_D"} => UpperFast(i.op, d, m.pc, imm) = v
    BY <1>3 DEF Upper, UpperFast, UpperResult
  <2> HIDE DEF v
  <2> QED BY <1>4, <1>5, <2>1, <2>2, <2>3, <2>4
<1>6. CASE i.op = "LU52I_D"
  <2>1. Dispatch(m, i, TRUE) = StepOver(Put(m, i.rd, LateResult(i.op, j, k, imm)))
    BY <1>2, <1>6, DispatchCases, ZenonT(60) DEF Late
  <2>2. LateResult(i.op, j, k, imm) = Or(Shl(i.imm, By52), Cast(j, By52)) /\ v = Or(Cast(j, By52), Shl(i.imm, By52))
    BY <1>3, <1>6 DEF LateResult, UpperResult
  <2>3. Shl(i.imm, By52) \in Nat /\ Cast(j, By52) \in Nat
    <3>1. By52 \in Nat /\ i.imm \in Int /\ j \in Int
      BY Operands, FieldAssumption
    <3>2. i.imm * 2^By52 \in Int
      BY <3>1, PowerInt
    <3> QED BY <3>1, <3>2, WrapRange, DoublesNat, CastRange DEF Shl
  <2>4. LateResult(i.op, j, k, imm) = v
    BY <2>2, <2>3, OrCommutes
  <2> HIDE DEF v
  <2> QED BY <1>4, <2>1, <2>4
<1> QED BY <1>5, <1>6

(* The mask of a bit string: a width below the whole word leaves the sign  *)
(* bit clear.                                                              *)
LEMMA BitStringFields ==
  ASSUME NEW i \in Encodings, i.op \in BitString
  PROVE  LET n == IF i.op \in {"BSTRINS_D", "BSTRPICK_D"} THEN Double ELSE Word
             w == Msb(i.imm) - Lsb(i.imm) + 1
         IN  /\ w \in Nat \ {0} /\ w <= n /\ Lsb(i.imm) \in Nat /\ Msb(i.imm) \in Nat
             /\ Ones(i.imm, n, TRUE) = 2^w - 1 /\ Ones(i.imm, n, TRUE) \in Nat
             /\ w = n => i.imm = (n - 1) * Double
<1> DEFINE n == IF i.op \in {"BSTRINS_D", "BSTRPICK_D"} THEN Double ELSE Word
           msb == Msb(i.imm)  lsb == Lsb(i.imm)  w == (msb - lsb) + 1
<1>1. i.imm \in Nat /\ Double \in Nat \ {0} /\ n \in Nat \ {0}
  BY DoublesNat, Widths DEF Encodings
<1>2. /\ msb \in Nat /\ lsb \in Nat /\ i.imm = Double * msb + lsb
  <2>1. i.imm \in Int
    BY <1>1
  <2>2. i.imm = Double * (i.imm \div Double) + (i.imm % Double)
    BY <1>1, <2>1, DivMod
  <2>3. i.imm \div Double \in Nat /\ i.imm % Double \in Nat
    BY <1>1, ModOrder
  <2> QED BY <2>2, <2>3 DEF Msb, Lsb
<1>3. lsb <= msb /\ msb < n
  BY DEF Encodings, Encodable, BitString
<1>4. w \in Nat \ {0} /\ w <= n
  BY <1>1, <1>2, <1>3
<1>5. Ones(i.imm, n, TRUE) = 2^w - 1
  BY DEF Ones
<1>6. 2^w - 1 \in Nat
  <2>1. 2^w \in Nat \ {0}
    BY <1>4, PowerPositive
  <2> QED BY <2>1
<1>7. w = n => i.imm = (n - 1) * Double
  <2> SUFFICES ASSUME w = n PROVE i.imm = (n - 1) * Double
    OBVIOUS
  <2>1. msb = n - 1 /\ lsb = 0
    BY <1>1, <1>2, <1>3
  <2> QED BY <1>1, <1>2, <2>1
<1> QED BY <1>2, <1>4, <1>5, <1>6, <1>7

LEMMA FastBitString ==
  ASSUME NEW m, Ready(m), NEW i \in Encodings, i.op \in BitString, i.rd # 0, ~Undefined(m, i)
  PROVE  Dispatch(m, i, TRUE) = Interpret(m, i, TRUE)
<1> DEFINE f == Optimized(i, m.pc)  d == m.reg[i.rd]  j == m.reg[i.rj]  lsb == Lsb(i.imm)
           n == IF i.op \in {"BSTRINS_D", "BSTRPICK_D"} THEN Double ELSE Word
           ones == Ones(i.imm, n, TRUE)
<1>1. CASE i.op = "BSTRINS_W"
  BY <1>1, FastFunction DEF NoBytecode
<1>2. ASSUME i.op # "BSTRINS_W" PROVE Dispatch(m, i, TRUE) = StepOver(BitStringFast(m, Rewritten(i, i.imm), TRUE))
  <2>1. f = Rewritten(i, PackedImm(i)) /\ PackedImm(i) = i.imm
    BY <1>2, Rewrite DEF Ops, BitString, NoBytecode, Branches, Compare, ZeroTest, FlagTest, Jumps, Counting, Atomic,
      LoadLinked, StoreConditional, PackedImm, SignedImm12, SignedImm14, LoadImm, StoreImm, LoadPtr, StorePtr
  <2>2. f.bc = i.op
    BY <2>1 DEF Rewritten
  <2> QED BY <2>1, <2>2, DispatchCases
<1>3. Interpret(m, i, TRUE) = StepOver(HandleBitString(m, i, TRUE))
  BY HandleCases DEF Interpret
<1>4. lsb \in Nat /\ ones \in Nat /\ j \in Doubles /\ d \in Doubles
  BY BitStringFields, Operands
<1>5. \A x \in Doubles : Cast(x, Double) = x /\ Sext(x, Double) = x
  BY WrapSmall, SextDouble, DoublesNat DEF Cast, Wrap
<1>6. \A x \in Doubles : Shr(x, lsb) \in Nat
  BY <1>4, PowerPositive, ModOrder, DoublesNat DEF Shr
<1>7. CASE i.op = "BSTRPICK_D"
  <2>1. BitStringFast(m, Rewritten(i, i.imm), TRUE) = Put(m, i.rd, And(Shr(j, lsb), ones))
    BY <1>7 DEF BitStringFast, Rewritten
  <2>2. HandleBitString(m, i, TRUE) = Put(m, i.rd, Sext(And(Shr(Cast(j, Double), lsb), ones), Double))
    BY <1>7 DEF HandleBitString
  <2>3. And(Shr(j, lsb), ones) \in Doubles
    BY <1>4, <1>6, AndRange
  <2> QED BY <1>2, <1>3, <1>4, <1>5, <1>7, <2>1, <2>2, <2>3
<1>8. CASE i.op = "BSTRPICK_W"
  <2> DEFINE v == And(Shr(Cast(j, Word), lsb), ones)
  <2>1. BitStringFast(m, Rewritten(i, i.imm), TRUE) = Put(m, i.rd, v)
    BY <1>8 DEF BitStringFast, Rewritten
  <2>2. HandleBitString(m, i, TRUE) = Put(m, i.rd, Sext(v, Word))
    BY <1>8 DEF HandleBitString
  <2>3. v \in Nat /\ v <= ones
    <3>1. Cast(j, Word) \in Nat
      <4>1. j \in Int /\ Word \in Nat
        BY Operands, Widths
      <4> QED BY <4>1, CastRange
    <3>2. Shr(Cast(j, Word), lsb) \in Nat
      BY <1>4, <3>1, PowerPositive, ModOrder DEF Shr
    <3> QED BY <1>4, <3>2, AndRange, DoublesNat
  <2>4. ones <= 2^(Word - 1) - 1
    <3> DEFINE w == (Msb(i.imm) - Lsb(i.imm)) + 1
    <3>1. w \in Nat \ {0} /\ w <= Word /\ w # Word /\ ones = 2^w - 1
      BY <1>8, BitStringFields DEF Undefined
    <3>2. w <= Word - 1 /\ Word - 1 \in Nat
      BY <3>1, Widths
    <3>3. 2^w <= 2^(Word - 1)
      BY <3>1, <3>2, PowerOrder
    <3>4. 2^w \in Nat /\ 2^(Word - 1) \in Nat
      BY <3>1, <3>2, PowerPositive
    <3> HIDE DEF w, ones
    <3> QED BY <3>1, <3>3, <3>4
  <2>5. Sext(v, Word) = v
    <3>1. v \in 0 .. 2^(Word - 1) - 1
      <4>1. 2^(Word - 1) \in Nat
        BY HalfPower, Widths
      <4> HIDE DEF v, ones
      <4> QED BY <1>4, <2>3, <2>4, <4>1
    <3> HIDE DEF v
    <3> QED BY <3>1, SextSmall, Widths
  <2> QED BY <1>2, <1>3, <1>8, <2>1, <2>2, <2>5
<1>9. CASE i.op = "BSTRINS_D"
  <2> DEFINE mask == Shl(ones, lsb)  v == Or(And(d, Not(mask)), And(Shl(j, lsb), mask))
  <2>1. BitStringFast(m, Rewritten(i, i.imm), TRUE) = IF Msb(i.imm) >= lsb THEN Put(m, i.rd, v) ELSE m
    BY <1>9 DEF BitStringFast, Rewritten
  <2>2. HandleBitString(m, i, TRUE) = IF Msb(i.imm) >= lsb THEN Put(m, i.rd, Sext(v, Double)) ELSE m
    BY <1>4, <1>5, <1>9 DEF HandleBitString
  <2>3. mask \in Doubles /\ Shl(j, lsb) \in Doubles
    <3>1. \A x \in Nat : x * 2^lsb \in Int
      BY <1>4, PowerPositive
    <3> QED BY <1>4, <3>1, WrapRange, DoublesNat DEF Shl
  <2>4. And(d, Not(mask)) \in Doubles /\ And(Shl(j, lsb), mask) \in Doubles
    <3>1. Not(mask) \in Nat /\ mask \in Nat /\ Shl(j, lsb) \in Nat /\ d \in Nat
      BY <1>4, <2>3, NotRange, DoublesNat
    <3> QED BY <3>1, AndRange
  <2>5. v \in Doubles
    BY <2>4, OrRange
  <2> HIDE DEF v, mask
  <2> QED BY <1>2, <1>3, <1>5, <1>9, <2>1, <2>2, <2>5
<1> QED BY <1>1, <1>7, <1>8, <1>9 DEF BitString

LEMMA FastMemory ==
  ASSUME NEW m, NEW i \in Encodings, i.op \in (FastStores \cup FastLoads) \ NoBytecode,
         i.op \in FastLoads => i.rd # 0, i.op = "STX_B" => i.rd # 0
  PROVE  Dispatch(m, i, TRUE) = Interpret(m, i, TRUE)
<1> DEFINE f == Optimized(i, m.pc)  imm == PackedImm(i)  r == Rewritten(i, imm)
<1>1. f = r
  BY Rewrite DEF Ops, FastStores, FastLoads, NoBytecode, NopIfZero, Branches, Compare, ZeroTest, FlagTest, Jumps,
    LoadImm, StoreImm, LoadPtr, StorePtr, LoadIdx, StoreIdx
<1>2. r.bc = i.op /\ r.rd = i.rd /\ r.rj = i.rj /\ r.rk = i.rk /\ r.imm = imm
  BY DEF Rewritten
<1>3. Dispatch(m, i, TRUE) = StepOver(MemoryFast(m, r))
  BY <1>1, <1>2, DispatchCases
<1>4. imm = IF i.op \in DOMAIN LoadImm \cup DOMAIN StoreImm THEN Signed(i.imm, Imm12)
            ELSE IF i.op \in DOMAIN LoadPtr \cup DOMAIN StorePtr THEN Signed(i.imm, Imm14) ELSE i.imm
  BY DEF PackedImm, SignedImm12, SignedImm14, FastStores, FastLoads, LoadImm, StoreImm, LoadPtr, StorePtr, LoadIdx, StoreIdx
<1> HIDE DEF r, imm
<1>5. CASE i.op \in DOMAIN LoadImm
  <2>1. /\ i.op \notin FastStores /\ SizeOf(i.op) = LoadImm[i.op]
        /\ FastAddress(m, r) = ImmAddress(m.reg[i.rj], i.imm)
    BY <1>2, <1>4, <1>5 DEF FastStores, SizeOf, FastAddress, ImmAddress, LoadImm, StoreImm, LoadPtr, StorePtr, LoadIdx, StoreIdx
  <2>2. Handle(m, i, TRUE) = Load(m, i.op, i.rd, ImmAddress(m.reg[i.rj], i.imm), LoadImm[i.op])
    BY <1>5, HandleCases, ZenonT(60) DEF HandleLoadImm, FastLoads
  <2> QED BY <1>2, <1>3, <2>1, <2>2 DEF MemoryFast, Interpret
<1>6. CASE i.op \in DOMAIN StoreImm
  <2>1. /\ i.op \in FastStores /\ SizeOf(i.op) = StoreImm[i.op]
        /\ FastAddress(m, r) = ImmAddress(m.reg[i.rj], i.imm)
    BY <1>2, <1>4, <1>6 DEF FastStores, SizeOf, FastAddress, ImmAddress, LoadImm, StoreImm, LoadPtr, StorePtr, LoadIdx, StoreIdx
  <2>2. Handle(m, i, TRUE) = Store(m, i.rd, ImmAddress(m.reg[i.rj], i.imm), StoreImm[i.op])
    BY <1>6, HandleCases DEF HandleStoreImm
  <2> QED BY <1>2, <1>3, <2>1, <2>2 DEF MemoryFast, Interpret
<1>7. CASE i.op \in DOMAIN LoadPtr
  <2>1. /\ i.op \notin FastStores /\ SizeOf(i.op) = LoadPtr[i.op]
        /\ FastAddress(m, r) = PtrAddress(m.reg[i.rj], i.imm)
    BY <1>2, <1>4, <1>7 DEF FastStores, SizeOf, FastAddress, PtrAddress, LoadImm, StoreImm, LoadPtr, StorePtr, LoadIdx, StoreIdx
  <2>2. Handle(m, i, TRUE) = Load(m, i.op, i.rd, PtrAddress(m.reg[i.rj], i.imm), LoadPtr[i.op])
    BY <1>7, HandleCases DEF HandleLoadPtr
  <2> QED BY <1>2, <1>3, <2>1, <2>2 DEF MemoryFast, Interpret
<1>8. CASE i.op \in DOMAIN StorePtr
  <2>1. /\ i.op \in FastStores /\ SizeOf(i.op) = StorePtr[i.op]
        /\ FastAddress(m, r) = PtrAddress(m.reg[i.rj], i.imm)
    BY <1>2, <1>4, <1>8 DEF FastStores, SizeOf, FastAddress, PtrAddress, LoadImm, StoreImm, LoadPtr, StorePtr, LoadIdx, StoreIdx
  <2>2. Handle(m, i, TRUE) = Store(m, i.rd, PtrAddress(m.reg[i.rj], i.imm), StorePtr[i.op])
    BY <1>8, HandleCases DEF HandleStorePtr
  <2> QED BY <1>2, <1>3, <2>1, <2>2 DEF MemoryFast, Interpret
<1>9. CASE i.op \in DOMAIN LoadIdx
  <2>1. /\ i.op \notin FastStores /\ SizeOf(i.op) = LoadIdx[i.op]
        /\ FastAddress(m, r) = Wrap(m.reg[i.rj] + m.reg[i.rk])
    BY <1>2, <1>9 DEF FastStores, SizeOf, FastAddress, LoadImm, StoreImm, LoadPtr, StorePtr, LoadIdx, StoreIdx
  <2>2. Handle(m, i, TRUE) = Load(m, i.op, i.rd, Wrap(m.reg[i.rj] + m.reg[i.rk]), LoadIdx[i.op])
    BY <1>9, HandleCases DEF HandleLoadIdx
  <2> QED BY <1>2, <1>3, <2>1, <2>2 DEF MemoryFast, Interpret
<1>10. CASE i.op \in DOMAIN StoreIdx
  <2>1. /\ i.op \in FastStores /\ SizeOf(i.op) = StoreIdx[i.op]
        /\ FastAddress(m, r) = Wrap(m.reg[i.rj] + m.reg[i.rk])
    BY <1>2, <1>10 DEF FastStores, SizeOf, FastAddress, LoadImm, StoreImm, LoadPtr, StorePtr, LoadIdx, StoreIdx
  <2>2. Handle(m, i, TRUE) = Store(m, i.rd, Wrap(m.reg[i.rj] + m.reg[i.rk]), StoreIdx[i.op])
    BY <1>10, HandleCases DEF HandleStoreIdx
  <2> QED BY <1>2, <1>3, <2>1, <2>2 DEF MemoryFast, Interpret
<1> QED BY <1>5, <1>6, <1>7, <1>8, <1>9, <1>10 DEF FastStores, FastLoads

LEMMA FastSystem ==
  ASSUME NEW m, NEW i \in Encodings, i.op \in System, i.op = "SYSCALL" => i.imm = 0
  PROVE  Dispatch(m, i, TRUE) = Interpret(m, i, TRUE)
<1>1. CASE i.op \in NoBytecode
  BY <1>1, FastFunction
<1>2. CASE i.op \in {"NOP", "SYSCALL"}
  <2> DEFINE f == Optimized(i, m.pc)
  <2>1. f = [bc |-> i.op, rd |-> i.rd, rj |-> i.rj, rk |-> i.rk, imm |-> i.imm]
    BY <1>2 DEF Optimized, Bytecode, MoveBits, NoBytecode, NopIfZero, Counting, Atomic, LoadLinked, StoreConditional,
      Compare, ZeroTest, FlagTest, SignedImm12, SignedImm14, LoadImm, StoreImm, LoadPtr, StorePtr, Packed
  <2>2. f.bc = i.op
    BY <2>1
  <2>3. Dispatch(m, i, TRUE) = StepOver(ControlFast(m, f))
    BY <1>2, <2>2, DispatchCases, ZenonT(60)
  <2>4. Interpret(m, i, TRUE) = StepOver(HandleSystem(m, i))
    BY HandleCases, ZenonT(60) DEF Interpret
  <2>5. ControlFast(m, f) = HandleSystem(m, i)
    BY <1>2, <2>2 DEF ControlFast, HandleSystem, Hints
  <2> QED BY <2>3, <2>4, <2>5
<1> QED BY <1>1, <1>2 DEF System, Hints, NoBytecode

(* The handlers leave 4 bytes of a branch to the loop.                     *)
LEMMA WrapTwice ==
  ASSUME NEW pc \in Int, NEW n \in Int
  PROVE  Wrap(Wrap(pc + n - 4) + 4) = Wrap(pc + n)
<1>1. pc + n - 4 \in Int /\ (pc + n - 4) + 4 = pc + n
  OBVIOUS
<1> QED BY <1>1, WrapPlus

LEMMA PutMachine ==
  ASSUME NEW m \in Machine, NEW r \in Regs, NEW v \in Doubles
  PROVE  /\ Put(m, r, v) \in Machine
         /\ Put(m, r, v).trap = m.trap /\ Put(m, r, v).pc = m.pc /\ Put(m, r, v).mem = m.mem
  BY DEF Put, Machine

LEMMA PCMachine ==
  ASSUME NEW m \in Machine, NEW v \in Doubles
  PROVE  /\ [m EXCEPT !.pc = v] \in Machine
         /\ [m EXCEPT !.pc = v].trap = m.trap /\ [m EXCEPT !.pc = v].pc = v
         /\ [m EXCEPT !.pc = v].mem = m.mem
         /\ \A w \in Doubles : [[m EXCEPT !.pc = v] EXCEPT !.pc = w] = [m EXCEPT !.pc = w]
  BY DEF Machine

LEMMA IncrementTwice ==
  ASSUME NEW m \in Machine, NEW n \in Int, m.trap = "none"
  PROVE  StepOver(IncrementPC(m, n - 4)) = IncrementPC(m, n)
<1>1. m.pc \in Int
  <2>1. m.pc \in Doubles
    BY DEF Machine
  <2>2. m.pc \in Nat
    BY <2>1, DoublesNat
  <2> QED BY <2>2
<1> DEFINE v == Wrap(m.pc + (n - 4))  w == Wrap(m.pc + n)
<1>2. v \in Doubles /\ w \in Doubles /\ v \in Int
  <2>1. m.pc + (n - 4) \in Int /\ m.pc + n \in Int
    BY <1>1
  <2>2. v \in Doubles /\ w \in Doubles
    BY <2>1, WrapRange
  <2>3. v \in Nat
    BY <2>2, DoublesNat
  <2> QED BY <2>2, <2>3
<1>3. Wrap(v + 4) = w
  <2>1. m.pc + (n - 4) \in Int /\ (m.pc + (n - 4)) + 4 = m.pc + n
    BY <1>1
  <2> HIDE DEF w
  <2> QED BY <2>1, WrapPlus DEF w
<1>4. IncrementPC(m, n - 4) = [m EXCEPT !.pc = v] /\ IncrementPC(m, n) = [m EXCEPT !.pc = w]
  BY DEF IncrementPC
<1> HIDE DEF v, w
<1>5. [m EXCEPT !.pc = v].trap = "none" /\ [m EXCEPT !.pc = v].pc = v
  BY <1>2, PCMachine
<1>6. StepOver([m EXCEPT !.pc = v]) = [[m EXCEPT !.pc = v] EXCEPT !.pc = Wrap(v + 4)]
  BY <1>5 DEF StepOver, IncrementPC
<1>7. [[m EXCEPT !.pc = v] EXCEPT !.pc = w] = [m EXCEPT !.pc = w]
  BY <1>2, PCMachine
<1> QED BY <1>3, <1>4, <1>6, <1>7

(* What a handler makes of a branch: the encoded distance when it is taken. *)
Taken(m, i) ==
  CASE i.op \in ZeroTest -> (m.reg[i.rj] = 0) = (i.op = "BEQZ")
    [] i.op \in FlagTest -> (m.fcc[0] = 0) = (i.op = "BCEQZ")
    [] i.op \in Compare  -> Holds(i.op, m.reg[i.rj], m.reg[i.rd])
    [] i.op \in {"B", "BL"} -> TRUE

LEMMA OffsetInt ==
  ASSUME NEW i \in Encodings
  PROVE  Offset(i) \in Int /\ Signed(i.imm, Imm16) \in Int
<1>1. i.imm \in Int
  <2>1. i.imm \in Nat
    BY DoublesNat DEF Encodings
  <2> QED BY <2>1
<1>2. Imm16 \in Nat \ {0} /\ Offs21 \in Nat \ {0} /\ Offs26 \in Nat \ {0}
  BY FieldAssumption
<1>3. Signed(i.imm, Imm16) \in Int /\ Signed(i.imm, Offs21) \in Int /\ Signed(i.imm, Offs26) \in Int
  BY <1>1, <1>2, SignedRange
<1> QED BY <1>3 DEF Offset

LEMMA HandleBranch ==
  ASSUME NEW m, Ready(m), NEW i \in Encodings, i.op \in Branches \ {"JIRL"}, ~FlagOffset(i), NEW ub
  PROVE  LET linked == IF i.op = "BL" THEN Put(m, REG_RA, Wrap(m.pc + 4)) ELSE m
         IN  Interpret(m, i, ub) = IncrementPC(linked, IF Taken(m, i) THEN Offset(i) ELSE 4)
<1> DEFINE linked == IF i.op = "BL" THEN Put(m, REG_RA, Wrap(m.pc + 4)) ELSE m
<1>1. m \in Machine /\ m.trap = "none" /\ m.pc \in Nat /\ Offset(i) \in Int
  BY Operands, OffsetInt DEF Ready
<1>2. linked \in Machine /\ linked.trap = "none" /\ linked.pc = m.pc
  <2>1. REG_RA \in Regs /\ Wrap(m.pc + 4) \in Doubles
    BY <1>1, WrapRange, RegisterAssumption
  <2> QED BY <1>1, <2>1, PutMachine
<1>3. StepOver(m) = IncrementPC(m, 4)
  BY <1>1 DEF StepOver
<1>4. StepOver(IncrementPC(linked, Offset(i) - 4)) = IncrementPC(linked, Offset(i))
  BY <1>1, <1>2, IncrementTwice
<1>5. CASE i.op \in ZeroTest
  <2>1. Offset(i) = Signed(i.imm, Offs21) * 4 /\ linked = m /\ (Taken(m, i) <=> (m.reg[i.rj] = 0) = (i.op = "BEQZ"))
    BY <1>5 DEF Offset, Taken, ZeroTest, FlagTest, Compare
  <2>2. Interpret(m, i, ub) = StepOver(IF Taken(m, i) THEN IncrementPC(m, Offset(i) - 4) ELSE m)
    BY <1>5, <2>1, HandleCases DEF HandleZeroTest, Interpret
  <2>3. CASE Taken(m, i)
    <3>1. Interpret(m, i, ub) = StepOver(IncrementPC(linked, Offset(i) - 4))
      BY <2>1, <2>2, <2>3
    <3> QED BY <1>4, <2>3, <3>1
  <2>4. CASE ~Taken(m, i)
    <3>1. Interpret(m, i, ub) = IncrementPC(linked, 4)
      BY <1>3, <2>1, <2>2, <2>4
    <3> QED BY <2>4, <3>1
  <2> QED BY <2>3, <2>4
<1>6. CASE i.op \in Compare
  <2>1. Offset(i) = Signed(i.imm, Imm16) * 4 /\ linked = m /\ (Taken(m, i) <=> Holds(i.op, m.reg[i.rj], m.reg[i.rd]))
    BY <1>6 DEF Offset, Taken, ZeroTest, FlagTest, Compare
  <2>2. Interpret(m, i, ub) = StepOver(IF Taken(m, i) THEN IncrementPC(m, Offset(i) - 4) ELSE m)
    BY <1>6, <2>1, HandleCases DEF HandleCompare, Interpret
  <2>3. CASE Taken(m, i)
    <3>1. Interpret(m, i, ub) = StepOver(IncrementPC(linked, Offset(i) - 4))
      BY <2>1, <2>2, <2>3
    <3> QED BY <1>4, <2>3, <3>1
  <2>4. CASE ~Taken(m, i)
    <3>1. Interpret(m, i, ub) = IncrementPC(linked, 4)
      BY <1>3, <2>1, <2>2, <2>4
    <3> QED BY <2>4, <3>1
  <2> QED BY <2>3, <2>4
<1>7. CASE i.op \in FlagTest
  <2>1. Offset(i) = Signed(i.imm, Imm16) * 4 /\ linked = m /\ (Taken(m, i) <=> (m.fcc[0] = 0) = (i.op = "BCEQZ"))
    BY <1>7 DEF Offset, FlagOffset, Taken, ZeroTest, FlagTest, Compare
  <2>2. Interpret(m, i, ub) = StepOver(IF Taken(m, i) THEN IncrementPC(m, Offset(i) - 4) ELSE m)
    BY <1>7, <2>1, HandleCases DEF HandleFlagTest, Interpret
  <2>3. CASE Taken(m, i)
    <3>1. Interpret(m, i, ub) = StepOver(IncrementPC(linked, Offset(i) - 4))
      BY <2>1, <2>2, <2>3
    <3> QED BY <1>4, <2>3, <3>1
  <2>4. CASE ~Taken(m, i)
    <3>1. Interpret(m, i, ub) = IncrementPC(linked, 4)
      BY <1>3, <2>1, <2>2, <2>4
    <3> QED BY <2>4, <3>1
  <2> QED BY <2>3, <2>4
<1>8. CASE i.op \in {"B", "BL"}
  <2>1. Offset(i) = Signed(i.imm, Offs26) * 4 /\ Taken(m, i)
    BY <1>8 DEF Offset, Taken, ZeroTest, FlagTest, Compare
  <2>2. Interpret(m, i, ub) = StepOver(HandleJump(m, i))
    BY <1>8, HandleCases DEF Interpret, Jumps
  <2>3. HandleJump(m, i) = IncrementPC(linked, Offset(i) - 4)
    BY <1>8, <2>1 DEF HandleJump
  <2>4. Interpret(m, i, ub) = StepOver(IncrementPC(linked, Offset(i) - 4))
    BY <2>2, <2>3
  <2> QED BY <1>4, <2>1, <2>4
<1> QED BY <1>5, <1>6, <1>7, <1>8 DEF Branches, Jumps

LEMMA HandleIndirect ==
  ASSUME NEW m, Ready(m), NEW i \in Encodings, i.op = "JIRL", NEW ub
  PROVE  LET linked == IF i.rd # 0 THEN Put(m, i.rd, Wrap(m.pc + 4)) ELSE m
         IN  Interpret(m, i, ub) = [linked EXCEPT !.pc = Wrap(m.reg[i.rj] + Signed(i.imm, Imm16) * 4)]
<1> DEFINE linked == IF i.rd # 0 THEN Put(m, i.rd, Wrap(m.pc + 4)) ELSE m
           n == Signed(i.imm, Imm16) * 4   j == m.reg[i.rj]
           v == Wrap(j + n - 4)  w == Wrap(j + n)
<1>1. m \in Machine /\ m.trap = "none" /\ m.pc \in Nat /\ i.rd \in Regs /\ j \in Nat /\ n \in Int
  BY Operands, OffsetInt DEF Ready
<1>2. linked \in Machine /\ linked.trap = "none"
  <2>1. Wrap(m.pc + 4) \in Doubles
    BY <1>1, WrapRange
  <2> QED BY <1>1, <2>1, PutMachine
<1>3. v \in Doubles /\ w \in Doubles /\ Wrap(v + 4) = w
  BY <1>1, WrapRange, WrapTwice
<1>4. HandleJump(m, i) = [linked EXCEPT !.pc = v]
  BY DEF HandleJump
<1>5. Interpret(m, i, ub) = StepOver([linked EXCEPT !.pc = v])
  BY <1>4, HandleCases DEF Interpret, Jumps
<1> HIDE DEF linked, v, w
<1>6. [linked EXCEPT !.pc = v].trap = "none" /\ [linked EXCEPT !.pc = v].pc = v
  BY <1>2, <1>3, PCMachine
<1>7. StepOver([linked EXCEPT !.pc = v]) = [[linked EXCEPT !.pc = v] EXCEPT !.pc = Wrap(v + 4)]
  BY <1>6 DEF StepOver, IncrementPC
<1>8. [[linked EXCEPT !.pc = v] EXCEPT !.pc = w] = [linked EXCEPT !.pc = w]
  BY <1>2, <1>3, PCMachine
<1> QED BY <1>3, <1>5, <1>7, <1>8 DEF linked, w

(* A branch that stays in the segment and in its format keeps its distance. *)
LEMMA RewriteBranch ==
  ASSUME NEW m, NEW i, i.op \in Branches \ {"JIRL"}, IsWithin(Wrap(m.pc + Offset(i))),
         i.op \in Compare \cup ZeroTest \cup FlagTest => Signed(Offset(i), Half) = Offset(i)
  PROVE  Optimized(i, m.pc) = Rewritten(i, Offset(i))
<1>1. Bytecode(i) = i.op
  BY DEF Bytecode, MoveBits, NoBytecode, Branches, Compare, ZeroTest, FlagTest, Jumps, Counting, Atomic, LoadLinked,
    StoreConditional
<1>2. i.op \notin NopIfZero /\ i.op # "MOVE"
  BY DEF NopIfZero, Branches, Compare, ZeroTest, FlagTest, Jumps
<1>3. CASE i.op \in {"B", "BL"}
  <2>1. Offset(i) = Signed(i.imm, Offs26) * 4
    BY <1>3 DEF Offset, Compare
  <2>2. Optimized(i, m.pc) = PackOffset(i, m.pc, Offset(i), Offset(i))
    BY <1>1, <1>2, <1>3, <2>1 DEF Optimized, Compare, ZeroTest, FlagTest, SignedImm12, SignedImm14, LoadImm, StoreImm,
      LoadPtr, StorePtr
  <2> QED BY <2>2 DEF PackOffset, Packed, Rewritten
<1>4. CASE i.op \in Compare
  <2>1. Offset(i) = Signed(i.imm, Imm16) * 4
    BY <1>4 DEF Offset
  <2>2. Optimized(i, m.pc) = PackOffset(i, m.pc, Offset(i), Signed(Offset(i), Half))
    BY <1>1, <1>2, <1>4, <2>1 DEF Optimized, Compare, ZeroTest, FlagTest, SignedImm12, SignedImm14, LoadImm, StoreImm,
      LoadPtr, StorePtr
  <2> QED BY <1>4, <2>2 DEF PackOffset, Packed, Rewritten
<1>5. CASE i.op \in ZeroTest \cup FlagTest
  <2>1. Offset(i) = Signed(i.imm, Offs21) * 4
    BY <1>5 DEF Offset, ZeroTest, FlagTest, Compare
  <2>2. Optimized(i, m.pc) = PackOffset(i, m.pc, Offset(i), Signed(Offset(i), Half))
    BY <1>1, <1>2, <1>5, <2>1 DEF Optimized, Compare, ZeroTest, FlagTest, SignedImm12, SignedImm14, LoadImm, StoreImm,
      LoadPtr, StorePtr
  <2> QED BY <1>5, <2>2 DEF PackOffset, Packed, Rewritten
<1> QED BY <1>3, <1>4, <1>5 DEF Branches, Jumps

LEMMA FastBranch ==
  ASSUME NEW m, Ready(m), NEW i \in Encodings, i.op \in Branches \ {"JIRL"}, ~FastDiffers(m, i)
  PROVE  Dispatch(m, i, TRUE) = Interpret(m, i, TRUE)
<1> DEFINE f == Rewritten(i, Offset(i))
<1>1. /\ ~FlagOffset(i) /\ IsWithin(Wrap(m.pc + Offset(i)))
      /\ i.op \in Compare \cup ZeroTest \cup FlagTest => Signed(Offset(i), Half) = Offset(i)
  BY DEF FastDiffers
<1>2. Optimized(i, m.pc) = f
  BY <1>1, RewriteBranch
<1>3. f.bc = i.op /\ f.rd = i.rd /\ f.rj = i.rj /\ f.rk = i.rk /\ f.imm = Offset(i)
  BY DEF Rewritten
<1> HIDE DEF f
<1>4. Dispatch(m, i, TRUE) = BranchFast(m, f)
  BY <1>2, <1>3, DispatchCases
<1>5. TakenFast(m, f) <=> Taken(m, i)
  BY <1>3 DEF TakenFast, Taken, Branches, Compare, ZeroTest, FlagTest, Jumps
<1>6. CASE i.op = "BL"
  <2>1. Interpret(m, i, TRUE) = IncrementPC(Put(m, REG_RA, Wrap(m.pc + 4)), IF Taken(m, i) THEN Offset(i) ELSE 4)
    BY <1>1, <1>6, HandleBranch
  <2>2. Taken(m, i)
    BY <1>6 DEF Taken, ZeroTest, FlagTest, Compare
  <2>3. BranchFast(m, f) = IncrementPC(Put(m, REG_RA, Wrap(m.pc + 4)), Offset(i))
    BY <1>3, <1>6 DEF BranchFast
  <2> QED BY <1>4, <2>1, <2>2, <2>3
<1>7. CASE i.op # "BL"
  <2>1. Interpret(m, i, TRUE) = IncrementPC(m, IF Taken(m, i) THEN Offset(i) ELSE 4)
    BY <1>1, <1>7, HandleBranch
  <2>2. BranchFast(m, f) = IncrementPC(m, IF TakenFast(m, f) THEN Offset(i) ELSE 4)
    BY <1>3, <1>7 DEF BranchFast
  <2>3. CASE Taken(m, i)
    BY <1>4, <1>5, <2>1, <2>2, <2>3
  <2>4. CASE ~Taken(m, i)
    BY <1>4, <1>5, <2>1, <2>2, <2>4
  <2> QED BY <2>3, <2>4
<1> QED BY <1>6, <1>7

LEMMA FastIndirect ==
  ASSUME NEW m, Ready(m), NEW i \in Encodings, i.op = "JIRL"
  PROVE  Dispatch(m, i, TRUE) = Interpret(m, i, TRUE)
<1> DEFINE f == Rewritten(i, Signed(i.imm, Imm16))
<1>1. Optimized(i, m.pc) = f
  <2>1. Bytecode(i) = "JIRL"
    BY DEF Bytecode, MoveBits, NoBytecode, Counting, Atomic, LoadLinked, StoreConditional
  <2> QED BY <2>1 DEF Optimized, NopIfZero, Packed, Rewritten, Compare, ZeroTest, FlagTest, SignedImm12, SignedImm14,
        LoadImm, StoreImm, LoadPtr, StorePtr
<1>2. f.bc = i.op /\ f.rd = i.rd /\ f.rj = i.rj /\ f.imm = Signed(i.imm, Imm16)
  BY DEF Rewritten
<1> HIDE DEF f
<1>3. Dispatch(m, i, TRUE) = BranchFast(m, f)
  BY <1>1, <1>2, DispatchCases DEF Branches, Jumps
<1>4. BranchFast(m, f) = [(IF i.rd # 0 THEN Put(m, i.rd, Wrap(m.pc + 4)) ELSE m)
                            EXCEPT !.pc = Wrap(m.reg[i.rj] + Signed(i.imm, Imm16) * 4)]
  BY <1>2 DEF BranchFast
<1>5. Interpret(m, i, TRUE) = [(IF i.rd # 0 THEN Put(m, i.rd, Wrap(m.pc + 4)) ELSE m)
                            EXCEPT !.pc = Wrap(m.reg[i.rj] + Signed(i.imm, Imm16) * 4)]
  BY HandleIndirect
<1> QED BY <1>3, <1>4, <1>5

(* The fast dispatch does what the handler does.                           *)
LEMMA FastAgrees ==
  ASSUME NEW m, Ready(m), NEW i \in Encodings, ~Undefined(m, i), ~FastDiffers(m, i)
  PROVE  Dispatch(m, i, TRUE) = Interpret(m, i, TRUE)
<1>1. i.op \in Ops
  BY Operands
<1>2. CASE i.op \in NoBytecode
  BY <1>2, FastFunction
<1>3. CASE i.op \in Results \ NoBytecode
  <2>1. i.rd # 0
    BY <1>3 DEF FastDiffers, ForZero
  <2>2. i.op \in AddSub \/ i.op \in Division \/ i.op \in Logic \/ i.op \in Shift \/ i.op \in Upper
          \/ i.op \in BitString \/ i.op \in Multiply \/ i.op \in Counting \/ i.op \in FastLoads
    BY <1>3 DEF Results, NoBytecode, FastLoads
  <2>3. CASE i.op \in AddSub
    BY <1>3, <2>1, <2>3, FastAddSub
  <2>4. CASE i.op \in Division
    BY <1>3, <2>1, <2>4, FastModulus
  <2>5. CASE i.op \in Logic
    BY <1>3, <2>1, <2>5, FastLogic, FastMove
  <2>6. CASE i.op \in Shift
    BY <1>3, <2>1, <2>6, FastShift
  <2>7. CASE i.op \in Upper
    <3>1. i.op = "PCADDU18I" => Signed(i.imm, Imm20) * 2^By18 \in -(2^(Word - 1)) .. 2^(Word - 1) - 1
      BY DEF FastDiffers
    <3> QED BY <2>1, <2>7, <3>1, FastUpper
  <2>8. CASE i.op \in BitString
    BY <2>1, <2>8, FastBitString
  <2>9. CASE i.op \in Multiply
    <3>1. i.op = "SLTUI" => ~(Signed(i.imm, Imm12) < 0)
      BY DEF FastDiffers
    <3>2. Signed(i.imm, Imm12) \in Int
      <4>1. i.imm \in Int /\ Imm12 \in Nat \ {0}
        BY Operands, FieldAssumption
      <4> QED BY <4>1, SignedRange
    <3>3. i.op = "SLTUI" => Signed(i.imm, Imm12) >= 0
      BY <3>1, <3>2
    <3> QED BY <1>3, <2>1, <2>9, <3>3, FastMultiply
  <2>10. CASE i.op \in Counting
    BY <1>3, <2>1, <2>10, FastCounting
  <2>11. CASE i.op \in FastLoads
    <3>1. i.op # "STX_B"
      BY <2>11 DEF FastLoads, LoadImm, LoadPtr, LoadIdx
    <3> QED BY <1>3, <2>1, <2>11, <3>1, FastMemory
  <2> QED BY <2>2, <2>3, <2>4, <2>5, <2>6, <2>7, <2>8, <2>9, <2>10, <2>11
<1>4. CASE i.op \in FastStores \ NoBytecode
  <2>1. i.op = "STX_B" => i.rd # 0
    BY DEF FastDiffers
  <2>2. i.op \notin FastLoads
    BY <1>4 DEF FastStores, FastLoads, LoadImm, StoreImm, LoadPtr, StorePtr, LoadIdx, StoreIdx
  <2> QED BY <1>4, <2>1, <2>2, FastMemory
<1>5. CASE i.op \in System
  <2>1. i.op = "SYSCALL" => i.imm = 0
    BY DEF FastDiffers
  <2> QED BY <1>5, <2>1, FastSystem
<1>6. CASE i.op \in Branches
  BY <1>6, FastBranch, FastIndirect
<1> QED BY <1>1, <1>2, <1>3, <1>4, <1>5, <1>6 DEF Ops, Results, FastStores, NoBytecode

---------------------------------------------------------------------------
(* The emitted code: the value of each group is the one of the handlers.   *)

(* The literal 0 stands for the zero register.                             *)
LEMMA RegReads ==
  ASSUME NEW m, Ready(m), NEW r
  PROVE  Reg(m, r) = m.reg[r]
  BY DEF Reg, Ready

LEMMA EmittedCases ==
  ASSUME NEW m, Ready(m), NEW i, i.rd \in Regs, NEW ub
  PROVE  LET j == m.reg[i.rj]  k == m.reg[i.rk] IN
    /\ i.op \in NotEmitted => Emitted(m, i, ub) = StepOver(Handle(m, i, ub))
    /\ i.op \in Memory     => Emitted(m, i, ub) = StepOver(EmittedMemory(m, i))
    /\ i.op \in PCRelative => Emitted(m, i, ub) = StepOver(Assign(m, i.rd, EmittedAddress(i.op, m.pc, i.imm)))
    /\ i.op \in AddImm     => Emitted(m, i, ub) = StepOver(Assign(m, i.rd, EmittedAddImm(m, i)))
    /\ i.op \in Arith      => Emitted(m, i, ub) = StepOver(Assign(m, i.rd, EmittedArith(i.op, j, k, i.imm)))
    /\ i.op \in Division   => Emitted(m, i, ub) = StepOver(Assign(m, i.rd, EmittedDivision(i.op, j, k)))
    /\ i.op \in {"SYSCALL"} \cup Hints => Emitted(m, i, ub) = StepOver(EmittedControl(m, i))
    /\ i.op = "OR" /\ i.rd = 0 /\ i.rj = 0 /\ i.rk = 0 => Emitted(m, i, ub) = StepOver(EmittedControl(m, i))
    /\ i.op \in Logic /\ ~(i.op = "OR" /\ i.rd = 0 /\ i.rj = 0 /\ i.rk = 0) =>
         Emitted(m, i, ub) = StepOver(Assign(m, i.rd, EmittedLogic(i.op, j, k, i.imm)))
    /\ i.op \in EmittedShifts => Emitted(m, i, ub) = StepOver(Assign(m, i.rd, EmittedShift(i.op, j, k, i.imm)))
    /\ i.op \in UpperAndByte  =>
         Emitted(m, i, ub) = StepOver(Assign(m, i.rd, EmittedUpper(i.op, m.reg[i.rd], j, k, i.imm)))
    /\ i.op \in BitString  => Emitted(m, i, ub) = StepOver(EmittedBitString(m, i, ub))
    /\ i.op \in Branches   => Emitted(m, i, ub) = EmittedBranch(m, i)
<1> DEFINE j == m.reg[i.rj]  k == m.reg[i.rk]
<1>0. Reg(m, i.rj) = j /\ Reg(m, i.rk) = k /\ Reg(m, i.rd) = m.reg[i.rd]
  BY RegReads
<1> USE DEF Emitted, NotEmitted, Memory, PCRelative, AddImm, Arith, Division, Hints, Logic, Shift, EmittedShifts,
            UpperAndByte, BitString, Counting, Atomic, LoadLinked, StoreConditional, LoadImm, StoreImm, LoadPtr,
            StorePtr, LoadIdx, StoreIdx, Branches, Compare, ZeroTest, FlagTest, Jumps
<1>1. i.op \in NotEmitted => Emitted(m, i, ub) = StepOver(Handle(m, i, ub))
  BY <1>0
<1>2. i.op \in Memory     => Emitted(m, i, ub) = StepOver(EmittedMemory(m, i))
  BY <1>0
<1>3. i.op \in PCRelative => Emitted(m, i, ub) = StepOver(Assign(m, i.rd, EmittedAddress(i.op, m.pc, i.imm)))
  BY <1>0
<1>4. i.op \in AddImm     => Emitted(m, i, ub) = StepOver(Assign(m, i.rd, EmittedAddImm(m, i)))
  BY <1>0
<1>5. i.op \in Arith      => Emitted(m, i, ub) = StepOver(Assign(m, i.rd, EmittedArith(i.op, j, k, i.imm)))
  BY <1>0
<1>6. i.op \in Division   => Emitted(m, i, ub) = StepOver(Assign(m, i.rd, EmittedDivision(i.op, j, k)))
  BY <1>0
<1>7. i.op \in {"SYSCALL"} \cup Hints => Emitted(m, i, ub) = StepOver(EmittedControl(m, i))
  BY <1>0
<1>8. i.op = "OR" /\ i.rd = 0 /\ i.rj = 0 /\ i.rk = 0 => Emitted(m, i, ub) = StepOver(EmittedControl(m, i))
  BY <1>0
<1>9. i.op \in Logic /\ ~(i.op = "OR" /\ i.rd = 0 /\ i.rj = 0 /\ i.rk = 0) =>
         Emitted(m, i, ub) = StepOver(Assign(m, i.rd, EmittedLogic(i.op, j, k, i.imm)))
  BY <1>0
<1>10. i.op \in EmittedShifts => Emitted(m, i, ub) = StepOver(Assign(m, i.rd, EmittedShift(i.op, j, k, i.imm)))
  BY <1>0
<1>11. i.op \in UpperAndByte  =>
         Emitted(m, i, ub) = StepOver(Assign(m, i.rd, EmittedUpper(i.op, m.reg[i.rd], j, k, i.imm)))
  BY <1>0
<1>12. i.op \in BitString  => Emitted(m, i, ub) = StepOver(EmittedBitString(m, i, ub))
  BY <1>0
<1>13. i.op \in Branches   => Emitted(m, i, ub) = EmittedBranch(m, i)
  BY <1>0
<1> QED BY <1>1, <1>2, <1>3, <1>4, <1>5, <1>6, <1>7, <1>8, <1>9, <1>10, <1>11, <1>12, <1>13

(* Code that computes the handler's value does what the handler does.      *)
LEMMA EmittedValue ==
  ASSUME NEW m, NEW i, NEW v, NEW w, i.rd # 0, v = w,
         Emitted(m, i, TRUE) = StepOver(Assign(m, i.rd, v)), Handle(m, i, TRUE) = Put(m, i.rd, w)
  PROVE  Emitted(m, i, TRUE) = Interpret(m, i, TRUE)
  BY DEF Assign, Interpret

(* A 12-bit immediate fits a word: with register 0 there is nothing to truncate. *)
LEMMA ShortImmediate ==
  ASSUME NEW imm \in Int
  PROVE  Signed(imm, Imm12) \in Int /\ Sext(0 + Signed(imm, Imm12), Word) = Wrap(Signed(imm, Imm12))
<1> DEFINE s == Signed(imm, Imm12)  h == 2^(Imm12 - 1)  H == 2^(Word - 1)
<1>1. Imm12 \in Nat \ {0} /\ Word \in Nat \ {0} /\ Imm12 - 1 \in Nat /\ Word - 1 \in Nat /\ Imm12 - 1 <= Word - 1
  BY FieldAssumption, Widths
<1>2. s \in Int /\ s \in -h .. h - 1
  BY <1>1, SignedRange
<1>3. h <= H /\ h \in Nat /\ H \in Nat
  BY <1>1, PowerOrder, PowerPositive
<1> HIDE DEF s, h, H
<1>4. s \in -H .. H - 1 /\ 0 + s = s
  BY <1>2, <1>3
<1>5. Signed(s, Word) = s
  BY <1>1, <1>4, SignedSmall DEF H
<1> QED BY <1>2, <1>4, <1>5 DEF Sext, Wrap, s

LEMMA EmittedAddImmAgrees ==
  ASSUME NEW m, Ready(m), NEW i \in Encodings, i.op \in AddImm, i.rd # 0,
         ~(i.op = "ADDI_W" /\ i.rd = i.rj /\ Wrap(m.reg[i.rj] + Signed(i.imm, Imm12))
                                              # Sext(m.reg[i.rj] + Signed(i.imm, Imm12), Word))
  PROVE  Emitted(m, i, TRUE) = Interpret(m, i, TRUE)
<1> DEFINE j == m.reg[i.rj]
<1>1. Emitted(m, i, TRUE) = StepOver(Assign(m, i.rd, EmittedAddImm(m, i)))
  BY EmittedCases, Operands
<1>2. Reg(m, i.rj) = j
  BY RegReads
<1>3. CASE i.op = "LU12I_W"
  <2>1. Handle(m, i, TRUE) = Put(m, i.rd, UpperResult(i.op, m.reg[i.rd], j, m.pc, i.imm))
    BY <1>3, HandleCases, ZenonT(60) DEF Upper
  <2>2. EmittedAddImm(m, i) = UpperResult(i.op, m.reg[i.rd], j, m.pc, i.imm)
    BY <1>3 DEF EmittedAddImm, UpperResult
  <2> QED BY <1>1, <2>1, <2>2, EmittedValue
<1>4. CASE i.op = "ADDI_D"
  <2>1. Handle(m, i, TRUE) = Put(m, i.rd, AddSubResult(i.op, j, m.reg[i.rk], i.imm))
    BY <1>4, HandleCases DEF AddSub
  <2>2. EmittedAddImm(m, i) = AddSubResult(i.op, j, m.reg[i.rk], i.imm)
    BY <1>2, <1>4 DEF EmittedAddImm, AddSubResult
  <2> QED BY <1>1, <2>1, <2>2, EmittedValue
<1>5. CASE i.op = "ADDI_W"
  <2> DEFINE v == Sext(j + Signed(i.imm, Imm12), Word)
  <2>1. Handle(m, i, TRUE) = Put(m, i.rd, AddSubResult(i.op, j, m.reg[i.rk], i.imm))
    BY <1>5, HandleCases DEF AddSub
  <2>2. AddSubResult(i.op, j, m.reg[i.rk], i.imm) = v
    BY <1>5 DEF AddSubResult
  <2>3. CASE i.rj = 0
    <3>1. EmittedAddImm(m, i) = Wrap(Signed(i.imm, Imm12))
      BY <1>5, <2>3 DEF EmittedAddImm
    <3>2. j = 0
      BY <2>3 DEF Ready
    <3>3. i.imm \in Int
      BY Operands
    <3>4. EmittedAddImm(m, i) = v
      BY <3>1, <3>2, <3>3, ShortImmediate
    <3> QED BY <1>1, <2>1, <2>2, <3>4, EmittedValue
  <2>4. CASE i.rj # 0 /\ i.rd = i.rj
    <3>1. EmittedAddImm(m, i) = Wrap(j + Signed(i.imm, Imm12))
      BY <1>2, <1>5, <2>4 DEF EmittedAddImm
    <3>2. EmittedAddImm(m, i) = v
      BY <1>5, <2>4, <3>1
    <3> QED BY <1>1, <2>1, <2>2, <3>2, EmittedValue
  <2>5. CASE i.rj # 0 /\ i.rd # i.rj
    <3>1. EmittedAddImm(m, i) = v
      BY <1>2, <1>5, <2>5 DEF EmittedAddImm
    <3> QED BY <1>1, <2>1, <2>2, <3>1, EmittedValue
  <2> QED BY <2>3, <2>4, <2>5
<1> QED BY <1>3, <1>4, <1>5 DEF AddImm

LEMMA EmittedArithAgrees ==
  ASSUME NEW m, Ready(m), NEW i \in Encodings, i.op \in Arith, i.rd # 0
  PROVE  Emitted(m, i, TRUE) = Interpret(m, i, TRUE)
<1> DEFINE j == m.reg[i.rj]  k == m.reg[i.rk]  v == EmittedArith(i.op, j, k, i.imm)
<1>1. Emitted(m, i, TRUE) = StepOver(Assign(m, i.rd, v))
  BY EmittedCases, Operands
<1>2. CASE i.op \in AddSub
  <2>1. Handle(m, i, TRUE) = Put(m, i.rd, AddSubResult(i.op, j, k, i.imm))
    BY <1>2, HandleCases
  <2>2. v = AddSubResult(i.op, j, k, i.imm)
    BY <1>2 DEF Arith, AddSub, EmittedArith, AddSubResult
  <2> QED BY <1>1, <2>1, <2>2, EmittedValue
<1>3. CASE i.op \in Multiply
  <2>1. Handle(m, i, TRUE) = Put(m, i.rd, MultiplyResult(i.op, j, k, i.imm))
    BY <1>3, HandleCases, ZenonT(60)
  <2>2. v = MultiplyResult(i.op, j, k, i.imm)
    BY <1>3 DEF Arith, Multiply, EmittedArith, MultiplyResult
  <2> QED BY <1>1, <2>1, <2>2, EmittedValue
<1> QED BY <1>2, <1>3 DEF Arith, AddSub, Multiply

LEMMA EmittedDivisionAgrees ==
  ASSUME NEW m, Ready(m), NEW i \in Encodings, i.op \in Division, i.rd # 0, ~Undefined(m, i)
  PROVE  Emitted(m, i, TRUE) = Interpret(m, i, TRUE)
<1> DEFINE j == m.reg[i.rj]  k == m.reg[i.rk]
<1>1. Emitted(m, i, TRUE) = StepOver(Assign(m, i.rd, EmittedDivision(i.op, j, k)))
  BY EmittedCases, Operands
<1>2. ~Overflows(i.op, j, k)
  BY DEF Undefined
<1>3. Handle(m, i, TRUE) = Put(m, i.rd, DivisionResult(i.op, j, k))
  BY <1>2, HandleCases
<1>4. EmittedDivision(i.op, j, k) = DivisionResult(i.op, j, k)
  BY <1>2 DEF EmittedDivision
<1> QED BY <1>1, <1>3, <1>4, EmittedValue

LEMMA EmittedLogicAgrees ==
  ASSUME NEW m, Ready(m), NEW i \in Encodings, i.op \in Logic, i.rd # 0
  PROVE  Emitted(m, i, TRUE) = Interpret(m, i, TRUE)
<1> DEFINE j == m.reg[i.rj]  k == m.reg[i.rk]
<1>1. Emitted(m, i, TRUE) = StepOver(Assign(m, i.rd, EmittedLogic(i.op, j, k, i.imm)))
  BY EmittedCases, Operands
<1>2. Handle(m, i, TRUE) = Put(m, i.rd, LogicResult(i.op, j, k, i.imm))
  BY HandleCases
<1>3. EmittedLogic(i.op, j, k, i.imm) = LogicResult(i.op, j, k, i.imm)
  BY DEF Logic, EmittedLogic, LogicResult
<1> QED BY <1>1, <1>2, <1>3, EmittedValue

LEMMA EmittedShiftAgrees ==
  ASSUME NEW m, Ready(m), NEW i \in Encodings, i.op \in EmittedShifts, i.rd # 0
  PROVE  Emitted(m, i, TRUE) = Interpret(m, i, TRUE)
<1> DEFINE j == m.reg[i.rj]  k == m.reg[i.rk]  v == EmittedShift(i.op, j, k, i.imm)
<1>1. Emitted(m, i, TRUE) = StepOver(Assign(m, i.rd, v))
  BY EmittedCases, Operands
<1>2. CASE i.op \in Shift
  <2>1. Handle(m, i, TRUE) = Put(m, i.rd, ShiftResult(i.op, j, k, i.imm))
    BY <1>2, HandleCases
  <2>2. v = ShiftResult(i.op, j, k, i.imm)
    BY <1>2 DEF EmittedShifts, Shift, EmittedShift, ShiftResult
  <2> QED BY <1>1, <2>1, <2>2, EmittedValue
<1>3. CASE i.op \in Multiply
  <2>1. Handle(m, i, TRUE) = Put(m, i.rd, MultiplyResult(i.op, j, k, i.imm))
    BY <1>3, HandleCases
  <2>2. v = MultiplyResult(i.op, j, k, i.imm)
    BY <1>3 DEF EmittedShifts, Shift, Multiply, EmittedShift, MultiplyResult
  <2> QED BY <1>1, <2>1, <2>2, EmittedValue
<1> QED BY <1>2, <1>3 DEF EmittedShifts, Shift, Multiply

(* The upper immediate of LU52I_D: signed or not, it fills the same bits.  *)
LEMMA TopImmediate ==
  ASSUME NEW imm \in Int
  PROVE  Wrap(Signed(imm, Imm12) * 2^By52) = Shl(imm, By52)
<1> DEFINE p == 2^By52  M == 2^Imm12
<1>1. Imm12 \in Nat \ {0} /\ By52 \in Nat /\ Double = Imm12 + By52
  BY FieldAssumption
<1>2. PICK q \in Int : Signed(imm, Imm12) = imm + M * q
  BY <1>1, SignedRange
<1>3. p \in Nat /\ M \in Nat /\ 2^Double = M * p
  BY <1>1, PowerPositive, PowerSum
<1> HIDE DEF p, M
<1>4. (imm + M * q) * p = imm * p + (M * p) * q /\ imm * p \in Int
  BY <1>2, <1>3
<1>5. Wrap(imm * p + 2^Double * q) = Wrap(imm * p)
  BY <1>4, WrapTurn
<1> QED BY <1>2, <1>3, <1>4, <1>5 DEF Shl, p

LEMMA EmittedUpperAgrees ==
  ASSUME NEW m, Ready(m), NEW i \in Encodings, i.op \in UpperAndByte, i.rd # 0
  PROVE  Emitted(m, i, TRUE) = Interpret(m, i, TRUE)
<1> DEFINE d == m.reg[i.rd]  j == m.reg[i.rj]  k == m.reg[i.rk]  v == EmittedUpper(i.op, d, j, k, i.imm)
<1>1. Emitted(m, i, TRUE) = StepOver(Assign(m, i.rd, v))
  BY EmittedCases, Operands
<1>2. i.imm \in Int /\ d \in Int
  BY Operands
<1>3. CASE i.op \in {"LU32I_D", "LU52I_D"}
  <2>1. Handle(m, i, TRUE) = Put(m, i.rd, UpperResult(i.op, d, j, m.pc, i.imm))
    BY <1>3, HandleCases, ZenonT(60) DEF Upper
  <2>2. CASE i.op = "LU32I_D"
    <3>1. By32 \in Nat /\ Imm20 \in Nat \ {0} /\ Word \in Nat
      BY Widths, FieldAssumption DEF By32
    <3>2. Signed(i.imm, Imm20) * 2^By32 \in Int
      <4>1. Signed(i.imm, Imm20) \in Int /\ 2^By32 \in Int
        BY <1>2, <3>1, SignedRange, PowerInt
      <4> QED BY <4>1
    <3>3. Wrap(Signed(i.imm, Imm20) * 2^By32) \in Nat /\ Cast(d, Word) \in Nat
      BY <1>2, <3>1, <3>2, WrapRange, DoublesNat, CastRange
    <3>4. v = UpperResult(i.op, d, j, m.pc, i.imm)
      BY <2>2, <3>3, OrCommutes DEF EmittedUpper, UpperResult
    <3> QED BY <1>1, <2>1, <3>4, EmittedValue
  <2>3. CASE i.op = "LU52I_D"
    <3>1. v = UpperResult(i.op, d, j, m.pc, i.imm)
      BY <1>2, <2>3, TopImmediate DEF EmittedUpper, UpperResult
    <3> QED BY <1>1, <2>1, <3>1, EmittedValue
  <2> QED BY <1>3, <2>2, <2>3
<1>4. CASE i.op = "ADDU16I_D"
  <2>1. Handle(m, i, TRUE) = Put(m, i.rd, AddSubResult(i.op, j, k, i.imm))
    BY <1>4, HandleCases DEF AddSub
  <2>2. v = AddSubResult(i.op, j, k, i.imm)
    BY <1>4 DEF EmittedUpper, AddSubResult
  <2> QED BY <1>1, <2>1, <2>2, EmittedValue
<1>5. CASE i.op = "ALSL_W"
  <2>1. Handle(m, i, TRUE) = Put(m, i.rd, CountingResult(i.op, j, k, i.imm))
    BY <1>5, HandleCases, ZenonT(60) DEF Counting
  <2>2. v = CountingResult(i.op, j, k, i.imm)
    BY <1>5 DEF EmittedUpper, CountingResult
  <2> QED BY <1>1, <2>1, <2>2, EmittedValue
<1>6. CASE i.op \in {"ALSL_D", "BYTEPICK_D"}
  <2>1. Handle(m, i, TRUE) = Put(m, i.rd, ShiftResult(i.op, j, k, i.imm))
    BY <1>6, HandleCases, ZenonT(60) DEF Shift
  <2>2. v = ShiftResult(i.op, j, k, i.imm)
    BY <1>6 DEF EmittedUpper, ShiftResult
  <2> QED BY <1>1, <2>1, <2>2, EmittedValue
<1>7. CASE i.op \in {"EXT_W_B", "EXT_W_H"}
  <2>1. Handle(m, i, TRUE) = Put(m, i.rd, MultiplyResult(i.op, j, k, i.imm))
    BY <1>7, HandleCases, ZenonT(60) DEF Multiply
  <2>2. v = MultiplyResult(i.op, j, k, i.imm)
    BY <1>7 DEF EmittedUpper, MultiplyResult
  <2> QED BY <1>1, <2>1, <2>2, EmittedValue
<1> QED BY <1>3, <1>4, <1>5, <1>6, <1>7 DEF UpperAndByte

LEMMA EmittedAddressAgrees ==
  ASSUME NEW m, Ready(m), NEW i \in Encodings, i.op \in PCRelative, i.rd # 0
  PROVE  Emitted(m, i, TRUE) = Interpret(m, i, TRUE)
<1> DEFINE v == EmittedAddress(i.op, m.pc, i.imm)
<1>1. Emitted(m, i, TRUE) = StepOver(Assign(m, i.rd, v))
  BY EmittedCases, Operands
<1>2. Handle(m, i, TRUE) = Put(m, i.rd, UpperResult(i.op, m.reg[i.rd], m.reg[i.rj], m.pc, i.imm))
  <2>1. i.op \in Upper
    BY DEF PCRelative, Upper
  <2> QED BY <2>1, HandleCases, ZenonT(60)
<1>3. v = UpperResult(i.op, m.reg[i.rd], m.reg[i.rj], m.pc, i.imm)
  BY DEF PCRelative, EmittedAddress, UpperResult
<1> QED BY <1>1, <1>2, <1>3, EmittedValue

LEMMA EmittedBitStringAgrees ==
  ASSUME NEW m, Ready(m), NEW i \in Encodings, i.op \in BitString, i.rd # 0
  PROVE  Emitted(m, i, TRUE) = Interpret(m, i, TRUE)
<1> DEFINE d == m.reg[i.rd]  j == m.reg[i.rj]  lsb == Lsb(i.imm)
           n == IF i.op \in {"BSTRINS_D", "BSTRPICK_D"} THEN Double ELSE Word
           ones == Ones(i.imm, n, TRUE)  mask == Shl(ones, lsb)
           inserted == Or(And(Cast(d, n), Not(mask)), And(Shl(j, lsb), mask))
<1>1. Emitted(m, i, TRUE) = StepOver(EmittedBitString(m, i, TRUE))
  BY EmittedCases, Operands
<1>2. Interpret(m, i, TRUE) = StepOver(HandleBitString(m, i, TRUE))
  BY HandleCases DEF Interpret
<1>3. Reg(m, i.rj) = j /\ Reg(m, i.rd) = d
  BY RegReads
<1>4. lsb \in Nat /\ ones \in Nat /\ j \in Doubles /\ Msb(i.imm) \in Nat /\ (Msb(i.imm) - lsb) + 1 \in Nat \ {0}
  BY BitStringFields, Operands
<1>5. CASE i.op = "BSTRPICK_D"
  <2>1. EmittedBitString(m, i, TRUE) = Put(m, i.rd, And(Shr(j, lsb), ones))
    BY <1>3, <1>5 DEF EmittedBitString, Assign
  <2>2. HandleBitString(m, i, TRUE) = Put(m, i.rd, Sext(And(Shr(Cast(j, Double), lsb), ones), Double))
    BY <1>5 DEF HandleBitString
  <2>3. \A x \in Doubles : Cast(x, Double) = x /\ Sext(x, Double) = x
    BY WrapSmall, SextDouble, DoublesNat DEF Cast, Wrap
  <2>4. Shr(j, lsb) \in Nat
    BY <1>4, PowerPositive, ModOrder, DoublesNat DEF Shr
  <2>5. And(Shr(j, lsb), ones) \in Doubles
    BY <1>4, <2>4, AndRange
  <2> QED BY <1>1, <1>2, <1>4, <1>5, <2>1, <2>2, <2>3, <2>5
<1>6. CASE i.op = "BSTRPICK_W"
  <2>1. EmittedBitString(m, i, TRUE) = Put(m, i.rd, Sext(And(Shr(Cast(j, Word), lsb), ones), Word))
    BY <1>3, <1>6 DEF EmittedBitString, Assign
  <2>2. HandleBitString(m, i, TRUE) = Put(m, i.rd, Sext(And(Shr(Cast(j, Word), lsb), ones), Word))
    BY <1>6 DEF HandleBitString
  <2> QED BY <1>1, <1>2, <2>1, <2>2
<1>7. CASE i.op \in {"BSTRINS_W", "BSTRINS_D"}
  <2>1. Msb(i.imm) >= lsb /\ ~(Msb(i.imm) < lsb)
    BY <1>4
  <2>2. EmittedBitString(m, i, TRUE) = Put(m, i.rd, Sext(inserted, n))
    BY <1>3, <1>7, <2>1 DEF EmittedBitString, Assign
  <2>3. HandleBitString(m, i, TRUE) = Put(m, i.rd, Sext(inserted, n))
    BY <1>7, <2>1 DEF HandleBitString
  <2> QED BY <1>1, <1>2, <2>2, <2>3
<1> QED BY <1>5, <1>6, <1>7 DEF BitString

(* A store that passes the emitted check, or fails it, and does not stray. *)
LEMMA EmittedStoreAgrees ==
  ASSUME NEW m, NEW rd, NEW a \in Nat, NEW n, ~(ArenaSize <= a /\ a < ArenaPtr + ArenaSize)
  PROVE  EmittedStore(m, m.reg[rd], a, n) = Store(m, rd, a, n)
<1> USE ArenaAssumption
<1>1. Writable(a) <=> ~(a < DataStart \/ a >= ArenaPtr + ArenaSize)
  BY DEF Writable
<1> QED BY <1>1 DEF EmittedStore, Store

LEMMA Addressed ==
  ASSUME NEW m, Ready(m), NEW i \in Encodings
  PROVE  /\ ImmAddress(m.reg[i.rj], i.imm) \in Nat /\ PtrAddress(m.reg[i.rj], i.imm) \in Nat
         /\ Wrap(m.reg[i.rj] + m.reg[i.rk]) \in Nat
<1>1. i.imm \in Int /\ m.reg[i.rj] \in Int /\ m.reg[i.rk] \in Int /\ Imm12 \in Nat \ {0} /\ Imm14 \in Nat \ {0}
  BY Operands, FieldAssumption
<1>2. Signed(i.imm, Imm12) \in Int /\ Signed(i.imm, Imm14) \in Int
  BY <1>1, SignedRange
<1>3. /\ m.reg[i.rj] + Signed(i.imm, Imm12) \in Int /\ m.reg[i.rj] + Signed(i.imm, Imm14) * 4 \in Int
      /\ m.reg[i.rj] + m.reg[i.rk] \in Int
  BY <1>1, <1>2
<1>4. /\ Wrap(m.reg[i.rj] + Signed(i.imm, Imm12)) \in Doubles
      /\ Wrap(m.reg[i.rj] + Signed(i.imm, Imm14) * 4) \in Doubles
      /\ Wrap(m.reg[i.rj] + m.reg[i.rk]) \in Doubles
  BY <1>3, WrapRange
<1> QED BY <1>4, DoublesNat DEF ImmAddress, PtrAddress

LEMMA EmittedMemoryAgrees ==
  ASSUME NEW m, Ready(m), NEW i \in Encodings, i.op \in Memory, i.op \in FastLoads => i.rd # 0,
         ~Strays(m, i)
  PROVE  Emitted(m, i, TRUE) = Interpret(m, i, TRUE)
<1> USE DEF LoadImm, StoreImm, LoadPtr, StorePtr, LoadIdx, StoreIdx
<1>1. Emitted(m, i, TRUE) = StepOver(EmittedMemory(m, i))
  BY EmittedCases, Operands
<1>2. \A r : Reg(m, r) = m.reg[r]
  BY RegReads
<1>3. CASE i.op \in DOMAIN LoadImm
  <2>1. EmittedMemory(m, i) = Load(m, i.op, i.rd, ImmAddress(m.reg[i.rj], i.imm), LoadImm[i.op])
    BY <1>2, <1>3 DEF EmittedMemory, EmittedLoad, ImmAddress, FastLoads
  <2>2. Handle(m, i, TRUE) = Load(m, i.op, i.rd, ImmAddress(m.reg[i.rj], i.imm), LoadImm[i.op])
    BY <1>3, HandleCases, ZenonT(60) DEF HandleLoadImm, FastLoads
  <2> QED BY <1>1, <2>1, <2>2 DEF Interpret
<1>4. CASE i.op \in DOMAIN LoadPtr
  <2>1. EmittedMemory(m, i) = Load(m, i.op, i.rd, PtrAddress(m.reg[i.rj], i.imm), LoadPtr[i.op])
    BY <1>2, <1>4 DEF EmittedMemory, EmittedLoad, PtrAddress, FastLoads
  <2>2. Handle(m, i, TRUE) = Load(m, i.op, i.rd, PtrAddress(m.reg[i.rj], i.imm), LoadPtr[i.op])
    BY <1>4, HandleCases DEF HandleLoadPtr
  <2> QED BY <1>1, <2>1, <2>2 DEF Interpret
<1>5. CASE i.op \in DOMAIN LoadIdx
  <2>1. EmittedMemory(m, i) = Load(m, i.op, i.rd, Wrap(m.reg[i.rj] + m.reg[i.rk]), LoadIdx[i.op])
    BY <1>2, <1>5 DEF EmittedMemory, EmittedLoad, FastLoads
  <2>2. Handle(m, i, TRUE) = Load(m, i.op, i.rd, Wrap(m.reg[i.rj] + m.reg[i.rk]), LoadIdx[i.op])
    BY <1>5, HandleCases, ZenonT(60) DEF HandleLoadIdx
  <2> QED BY <1>1, <2>1, <2>2 DEF Interpret
<1>6. CASE i.op \in DOMAIN StoreImm
  <2> DEFINE a == ImmAddress(m.reg[i.rj], i.imm)  n == StoreImm[i.op]
  <2>1. EmittedMemory(m, i) = EmittedStore(m, m.reg[i.rd], a, n)
    BY <1>2, <1>6 DEF EmittedMemory, ImmAddress
  <2>2. Handle(m, i, TRUE) = Store(m, i.rd, a, n)
    BY <1>6, HandleCases DEF HandleStoreImm
  <2>3. a \in Nat
    BY Addressed
  <2>5. StoreAddress(m, i) = a /\ ~(ArenaSize <= a /\ a < ArenaPtr + ArenaSize)
    BY <1>6 DEF Strays, StoreAddress
  <2> HIDE DEF a, n
  <2>4. EmittedStore(m, m.reg[i.rd], a, n) = Store(m, i.rd, a, n)
    BY <2>3, <2>5, EmittedStoreAgrees
  <2> QED BY <1>1, <2>1, <2>2, <2>4 DEF Interpret
<1>7. CASE i.op \in DOMAIN StorePtr
  <2> DEFINE a == PtrAddress(m.reg[i.rj], i.imm)  n == StorePtr[i.op]
  <2>1. EmittedMemory(m, i) = EmittedStore(m, m.reg[i.rd], a, n)
    BY <1>2, <1>7 DEF EmittedMemory, PtrAddress
  <2>2. Handle(m, i, TRUE) = Store(m, i.rd, a, n)
    BY <1>7, HandleCases DEF HandleStorePtr
  <2>3. a \in Nat
    BY Addressed
  <2>5. StoreAddress(m, i) = a /\ ~(ArenaSize <= a /\ a < ArenaPtr + ArenaSize)
    BY <1>7 DEF Strays, StoreAddress
  <2> HIDE DEF a, n
  <2>4. EmittedStore(m, m.reg[i.rd], a, n) = Store(m, i.rd, a, n)
    BY <2>3, <2>5, EmittedStoreAgrees
  <2> QED BY <1>1, <2>1, <2>2, <2>4 DEF Interpret
<1>8. CASE i.op \in DOMAIN StoreIdx
  <2> DEFINE a == Wrap(m.reg[i.rj] + m.reg[i.rk])  n == StoreIdx[i.op]
  <2>1. EmittedMemory(m, i) = EmittedStore(m, m.reg[i.rd], a, n)
    BY <1>2, <1>8 DEF EmittedMemory
  <2>2. Handle(m, i, TRUE) = Store(m, i.rd, a, n)
    BY <1>8, HandleCases, ZenonT(60) DEF HandleStoreIdx
  <2>3. a \in Nat
    BY Addressed
  <2>5. StoreAddress(m, i) = a /\ ~(ArenaSize <= a /\ a < ArenaPtr + ArenaSize)
    BY <1>8 DEF Strays, StoreAddress
  <2> HIDE DEF a, n
  <2>4. EmittedStore(m, m.reg[i.rd], a, n) = Store(m, i.rd, a, n)
    BY <2>3, <2>5, EmittedStoreAgrees
  <2> QED BY <1>1, <2>1, <2>2, <2>4 DEF Interpret
<1> QED BY <1>3, <1>4, <1>5, <1>6, <1>7, <1>8 DEF Memory

LEMMA EmittedControlAgrees ==
  ASSUME NEW m, Ready(m), NEW i \in Encodings, i.op \in {"SYSCALL"} \cup Hints, i.op = "SYSCALL" => i.imm = 0
  PROVE  Emitted(m, i, TRUE) = Interpret(m, i, TRUE)
<1>1. Emitted(m, i, TRUE) = StepOver(EmittedControl(m, i))
  BY EmittedCases, Operands
<1>2. Interpret(m, i, TRUE) = StepOver(HandleSystem(m, i))
  BY HandleCases, ZenonT(60) DEF Interpret, System
<1>3. EmittedControl(m, i) = HandleSystem(m, i)
  BY DEF EmittedControl, HandleSystem, Hints
<1> QED BY <1>1, <1>2, <1>3

LEMMA EmittedBranchAgrees ==
  ASSUME NEW m, Ready(m), NEW i \in Encodings, i.op \in Branches, ~FlagOffset(i)
  PROVE  Emitted(m, i, TRUE) = Interpret(m, i, TRUE)
<1>1. Emitted(m, i, TRUE) = EmittedBranch(m, i)
  BY EmittedCases, Operands
<1>2. \A r : Reg(m, r) = m.reg[r]
  BY RegReads
<1>3. CASE i.op = "JIRL"
  <2>1. EmittedBranch(m, i) = [(IF i.rd # 0 THEN Put(m, i.rd, Wrap(m.pc + 4)) ELSE m)
                                 EXCEPT !.pc = Wrap(m.reg[i.rj] + Signed(i.imm, Imm16) * 4)]
    BY <1>2, <1>3 DEF EmittedBranch, Assign
  <2>2. Interpret(m, i, TRUE) = [(IF i.rd # 0 THEN Put(m, i.rd, Wrap(m.pc + 4)) ELSE m)
                                   EXCEPT !.pc = Wrap(m.reg[i.rj] + Signed(i.imm, Imm16) * 4)]
    BY <1>3, HandleIndirect
  <2> QED BY <1>1, <2>1, <2>2
<1>4. CASE i.op # "JIRL"
  <2> DEFINE linked == IF i.op = "BL" THEN Put(m, REG_RA, Wrap(m.pc + 4)) ELSE m
             n == IF Taken(m, i) THEN Offset(i) ELSE 4
             e == IF EmittedTaken(m, i) THEN Offset(i) ELSE 4
  <2>1. EmittedBranch(m, i) = IncrementPC(linked, e)
    BY <1>4 DEF EmittedBranch, Offset
  <2>2. EmittedTaken(m, i) <=> Taken(m, i)
    BY <1>2, <1>4 DEF EmittedTaken, Taken, Branches, Compare, ZeroTest, FlagTest, Jumps
  <2>3. e = n
    BY <2>2
  <2>4. Interpret(m, i, TRUE) = IncrementPC(linked, n)
    BY <1>4, HandleBranch
  <2> QED BY <1>1, <2>1, <2>3, <2>4
<1> QED BY <1>3, <1>4

(* The groups of instructions the translator knows are all there are.      *)
LEMMA EmittedGroups ==
  ASSUME NEW i \in Encodings
  PROVE  \/ i.op \in NotEmitted \/ i.op \in Memory \/ i.op \in PCRelative \/ i.op \in AddImm \/ i.op \in Arith
         \/ i.op \in Division \/ i.op \in {"SYSCALL"} \cup Hints \/ i.op \in Logic \/ i.op \in EmittedShifts
         \/ i.op \in UpperAndByte \/ i.op \in BitString \/ i.op \in Branches
<1>0. i.op \in Ops
  BY DEF Encodings
<1>1. i.op \in AddSub => i.op \in AddImm \cup Arith \cup UpperAndByte
  BY DEF AddSub, AddImm, Arith, UpperAndByte
<1>2. i.op \in Shift => i.op \in EmittedShifts \cup UpperAndByte
  BY DEF EmittedShifts, UpperAndByte
<1>3. i.op \in Upper => i.op \in PCRelative \cup AddImm \cup UpperAndByte
  BY DEF Upper, PCRelative, AddImm, UpperAndByte
<1>4. i.op \in Multiply => i.op \in Arith \cup EmittedShifts \cup UpperAndByte \cup NotEmitted
  BY DEF Multiply, Arith, EmittedShifts, UpperAndByte, NotEmitted
<1>5. i.op \in Counting => i.op \in NotEmitted \cup UpperAndByte
  BY DEF UpperAndByte, NotEmitted
<1>6. i.op \in System => i.op \in NotEmitted \cup {"SYSCALL"} \cup Hints
  BY DEF System, NotEmitted
<1> QED BY <1>0, <1>1, <1>2, <1>3, <1>4, <1>5, <1>6 DEF Ops, Memory, NotEmitted

(* The emitted code does what the handler does.                            *)
LEMMA EmittedAgrees ==
  ASSUME NEW m, Ready(m), NEW i \in Encodings, ~Undefined(m, i), ~Strays(m, i),
         ~ForZero(i), ~FlagOffset(i), i.op = "SYSCALL" => i.imm = 0,
         ~(i.op = "ADDI_W" /\ i.rd = i.rj /\ Wrap(m.reg[i.rj] + Signed(i.imm, Imm12))
                                              # Sext(m.reg[i.rj] + Signed(i.imm, Imm12), Word))
  PROVE  Emitted(m, i, TRUE) = Interpret(m, i, TRUE)
<1>2. i.op \in Results => i.rd # 0
  BY DEF ForZero
<1>3. \/ i.op \in NotEmitted \/ i.op \in Memory \/ i.op \in PCRelative \/ i.op \in AddImm \/ i.op \in Arith
      \/ i.op \in Division \/ i.op \in {"SYSCALL"} \cup Hints \/ i.op \in Logic \/ i.op \in EmittedShifts
      \/ i.op \in UpperAndByte \/ i.op \in BitString \/ i.op \in Branches
  BY EmittedGroups
<1>4. CASE i.op \in NotEmitted
  BY <1>4, EmittedCases, Operands DEF Interpret
<1>5. CASE i.op \in Memory
  <2>1. i.op \in FastLoads => i.rd # 0
    BY <1>2 DEF FastLoads, Results
  <2> QED BY <1>5, <2>1, EmittedMemoryAgrees
<1>6. CASE i.op \in PCRelative
  <2>1. i.op \in Results
    BY <1>6 DEF PCRelative, Results, Upper
  <2> QED BY <1>2, <1>6, <2>1, EmittedAddressAgrees
<1>7. CASE i.op \in AddImm
  <2>1. i.op \in Results
    BY <1>7 DEF AddImm, Results, Upper, AddSub
  <2> QED BY <1>2, <1>7, <2>1, EmittedAddImmAgrees
<1>8. CASE i.op \in Arith
  <2>1. i.op \in Results
    BY <1>8 DEF Arith, Results, AddSub, Multiply
  <2> QED BY <1>2, <1>8, <2>1, EmittedArithAgrees
<1>9. CASE i.op \in Division
  BY <1>2, <1>9, EmittedDivisionAgrees DEF Results
<1>10. CASE i.op \in {"SYSCALL"} \cup Hints
  BY <1>10, EmittedControlAgrees
<1>11. CASE i.op \in Logic
  BY <1>2, <1>11, EmittedLogicAgrees DEF Results
<1>12. CASE i.op \in EmittedShifts
  <2>1. i.op \in Results
    BY <1>12 DEF EmittedShifts, Results, Shift, Multiply
  <2> QED BY <1>2, <1>12, <2>1, EmittedShiftAgrees
<1>13. CASE i.op \in UpperAndByte
  <2>1. i.op \in Results
    BY <1>13 DEF UpperAndByte, Results, AddSub, Shift, Upper, Multiply, Counting
  <2> QED BY <1>2, <1>13, <2>1, EmittedUpperAgrees
<1>14. CASE i.op \in BitString
  BY <1>2, <1>14, EmittedBitStringAgrees DEF Results
<1>15. CASE i.op \in Branches
  BY <1>15, EmittedBranchAgrees
<1> QED BY <1>3, <1>4, <1>5, <1>6, <1>7, <1>8, <1>9, <1>10, <1>11, <1>12, <1>13, <1>14, <1>15

---------------------------------------------------------------------------
(* Every instruction starts from the state `before' and is the only one.   *)

Executed(m, i, ub) == [e \in Engines |-> CASE e = "handler" -> Interpret(m, i, ub[e])
                                           [] e = "fast"    -> Dispatch(m, i, ub[e])
                                           [] e = "emitted" -> Emitted(m, i, ub[e])]

Inv == /\ before \in Starts
       /\ \/ last = NoInstr /\ engine = [e \in Engines |-> before]
          \/ /\ last \in Instrs /\ last # NoInstr
             /\ \E ub \in Outcomes(before, last) : engine = Executed(before, last, ub)

LEMMA InvInit == Init => Inv
  BY DEF Init, Inv

LEMMA InvNext == Inv /\ [Next]_vars => Inv'
<1> SUFFICES ASSUME Inv, [Next]_vars PROVE Inv'
  OBVIOUS
<1>1. ASSUME NEW i \in Instrs, NEW ub \in Outcomes(before, i), Execute(i, ub) PROVE Inv'
  <2>1. last = NoInstr /\ before' = before /\ last' = i /\ engine = [e \in Engines |-> before] /\ before \in Starts
    BY <1>1 DEF Execute, Inv
  <2>2. engine' = Executed(before, i, ub)
    <3>1. engine["handler"] = before /\ engine["fast"] = before /\ engine["emitted"] = before
      BY <2>1 DEF Engines
    <3> QED BY <1>1, <3>1 DEF Execute, Engines, Executed
  <2>3. i # NoInstr
    <3>1. i \in Encodings
      BY InstructionAssumption
    <3>2. i.op \in Ops /\ NoInstr.op = "none"
      BY <3>1 DEF Encodings, NoInstr
    <3>3. "none" \notin Ops
      BY DEF Ops, AddSub, Division, Logic, Shift, LoadImm, StoreImm, LoadPtr, StorePtr, StoreIdx, LoadIdx,
         Branches, Compare, ZeroTest, FlagTest, Jumps, Upper, BitString, System, Hints, Multiply, Counting, Atomic,
         LoadLinked, StoreConditional
    <3> QED BY <3>2, <3>3
  <2>4. engine' = Executed(before', last', ub) /\ ub \in Outcomes(before', last')
    BY <2>1, <2>2
  <2> QED BY <2>1, <2>3, <2>4 DEF Inv
<1>2. CASE UNCHANGED vars
  BY <1>2 DEF vars, Inv
<1> QED BY <1>1, <1>2 DEF Next

LEMMA StartsReady ==
  ASSUME NEW m \in Starts
  PROVE  Ready(m)
  BY InstructionAssumption DEF Ready

(* What the three engines did, when no operation was left undefined.       *)
LEMMA RanExecuted ==
  ASSUME Inv, Ran
  PROVE  /\ Ready(before) /\ last \in Encodings
         /\ ~Undefined(before, last) =>
              /\ engine["handler"] = Interpret(before, last, TRUE)
              /\ engine["fast"] = Dispatch(before, last, TRUE)
              /\ engine["emitted"] = Emitted(before, last, TRUE)
<1>1. /\ before \in Starts /\ last \in Instrs
      /\ \E ub \in Outcomes(before, last) : engine = Executed(before, last, ub)
  BY DEF Inv, Ran
<1>2. Ready(before) /\ last \in Encodings
  BY <1>1, StartsReady, InstructionAssumption
<1>3. ASSUME ~Undefined(before, last)
      PROVE  /\ engine["handler"] = Interpret(before, last, TRUE)
             /\ engine["fast"] = Dispatch(before, last, TRUE)
             /\ engine["emitted"] = Emitted(before, last, TRUE)
  <2>1. Outcomes(before, last) = {[e \in Engines |-> TRUE]}
    BY <1>3 DEF Outcomes
  <2> DEFINE ub == [e \in Engines |-> TRUE]
  <2>2. engine = Executed(before, last, ub)
    BY <1>1, <2>1
  <2>3. ub["handler"] = TRUE /\ ub["fast"] = TRUE /\ ub["emitted"] = TRUE
    BY DEF Engines
  <2> HIDE DEF ub
  <2> QED BY <2>2, <2>3 DEF Engines, Executed
<1> QED BY <1>2, <1>3

(* The rewritten formats of the fast dispatch lose nothing but what FastDiffers lists. *)
THEOREM FastIsExact == Spec => []FastKeepsResult
<1>1. Inv => FastKeepsResult
  <2> SUFFICES ASSUME Inv, Ran, ~Undefined(before, last), ~FastDiffers(before, last)
               PROVE  Same(engine["handler"], engine["fast"])
    BY DEF FastKeepsResult
  <2>1. engine["handler"] = engine["fast"]
    BY RanExecuted, FastAgrees
  <2> QED BY <2>1 DEF Same
<1> QED BY <1>1, InvInit, InvNext, PTL DEF Spec

(* The emitted code computes what the handler does but for what TranslatedDiffers lists. *)
THEOREM TranslationIsExact == Spec => []TranslatedKeepsResult
<1>1. Inv => TranslatedKeepsResult
  <2> SUFFICES ASSUME Inv, Ran, ~Undefined(before, last), ~TranslatedDiffers(before, last)
               PROVE  Same(engine["handler"], engine["emitted"])
    BY DEF TranslatedKeepsResult
  <2>1. ~Strays(before, last)
    BY DEF TranslatedDiffers
  <2>2. /\ ~ForZero(last) /\ ~FlagOffset(last)
        /\ last.op = "SYSCALL" => last.imm = 0
        /\ ~(last.op = "ADDI_W" /\ last.rd = last.rj /\ Wrap(before.reg[last.rj] + Signed(last.imm, Imm12))
                                              # Sext(before.reg[last.rj] + Signed(last.imm, Imm12), Word))
    BY DEF TranslatedDiffers
  <2>3. engine["handler"] = engine["emitted"]
    BY <2>1, <2>2, RanExecuted, EmittedAgrees
  <2> QED BY <2>3 DEF Same
<1> QED BY <1>1, InvInit, InvNext, PTL DEF Spec

---------------------------------------------------------------------------
(* The results of the handlers fit a register.                             *)

LEMMA DoublesInt == ASSUME NEW x \in Doubles PROVE x \in Nat /\ x \in Int
<1>1. x \in Nat
  BY DoublesNat
<1> QED BY <1>1

LEMMA SignedNonzero ==
  ASSUME NEW x \in Int, NEW n \in Nat, Cast(x, n) # 0
  PROVE  Signed(x, n) # 0
<1> DEFINE u == x % 2^n  M == 2^n
<1>1. M \in Nat \ {0}
  BY PowerPositive
<1>2. u \in 0 .. M - 1 /\ u # 0
  BY <1>1, DivMod DEF Cast
<1>3. Signed(x, n) = IF u >= 2^(n - 1) THEN u - M ELSE u
  BY DEF Signed
<1> HIDE DEF u, M
<1>4. u # 0 /\ u - M # 0
  BY <1>1, <1>2
<1> QED BY <1>3, <1>4

LEMMA ImmediateInt ==
  ASSUME NEW imm \in Doubles
  PROVE  /\ Signed(imm, Imm12) \in Int /\ Signed(imm, Imm14) \in Int /\ Signed(imm, Imm16) \in Int
         /\ Signed(imm, Imm20) \in Int /\ Signed(imm, Offs21) \in Int /\ Signed(imm, Offs26) \in Int
         /\ 2^By12 \in Nat \ {0} /\ 2^By16 \in Nat \ {0} /\ 2^By18 \in Nat \ {0} /\ 2^By52 \in Nat \ {0}
         /\ 2^By32 \in Nat \ {0}
<1>1. imm \in Int
  BY DoublesInt
<1>2. /\ Imm12 \in Nat \ {0} /\ Imm14 \in Nat \ {0} /\ Imm16 \in Nat \ {0} /\ Imm20 \in Nat \ {0}
      /\ Offs21 \in Nat \ {0} /\ Offs26 \in Nat \ {0}
      /\ By12 \in Nat /\ By16 \in Nat /\ By18 \in Nat /\ By52 \in Nat /\ By32 \in Nat
  BY FieldAssumption, Widths DEF By32
<1> QED BY <1>1, <1>2, SignedRange, PowerPositive

LEMMA AddSubRange ==
  ASSUME NEW op \in AddSub, NEW j \in Doubles, NEW k \in Doubles, NEW imm \in Doubles
  PROVE  AddSubResult(op, j, k, imm) \in Doubles
<1>1. j \in Int /\ k \in Int /\ Word \in Nat \ {0}
  BY DoublesInt, Widths
<1>2. j + k \in Int /\ j - k \in Int /\ j + Signed(imm, Imm12) \in Int
  BY <1>1, ImmediateInt
<1>3. j + Signed(Signed(imm, Imm16) * 2^By16, Word) \in Int
  <2>1. Signed(imm, Imm16) * 2^By16 \in Int
    BY ImmediateInt
  <2>2. Signed(Signed(imm, Imm16) * 2^By16, Word) \in Int
    BY <1>1, <2>1, SignedRange
  <2> QED BY <1>1, <2>2
<1>4. /\ Sext(j + k, Word) \in Doubles /\ Wrap(j + k) \in Doubles /\ Sext(j - k, Word) \in Doubles
      /\ Wrap(j - k) \in Doubles /\ Sext(j + Signed(imm, Imm12), Word) \in Doubles
      /\ Wrap(j + Signed(imm, Imm12)) \in Doubles
      /\ Wrap(j + Signed(Signed(imm, Imm16) * 2^By16, Word)) \in Doubles
  BY <1>1, <1>2, <1>3, SextRange, WrapRange
<1> QED BY <1>4, TruthRange DEF AddSub, AddSubResult

LEMMA ZeroDouble == 0 \in Doubles /\ 1 \in Doubles
  BY TruthRange DEF Truth

LEMMA DivisionRange ==
  ASSUME NEW op \in Division, NEW j \in Doubles, NEW k \in Doubles
  PROVE  DivisionResult(op, j, k) \in Doubles
<1>1. j \in Int /\ k \in Int /\ j \in Nat /\ k \in Nat /\ Word \in Nat \ {0} /\ Double \in Nat \ {0}
  BY DoublesInt, Widths
<1>2. /\ Signed(j, Word) \in Int /\ Signed(k, Word) \in Int /\ Signed(j, Double) \in Int /\ Signed(k, Double) \in Int
      /\ Cast(j, Word) \in Nat /\ Cast(k, Word) \in Nat
  BY <1>1, SignedRange, CastRange
<1>3. ASSUME Cast(k, Word) # 0
      PROVE  /\ Sext(Quotient(Signed(j, Word), Signed(k, Word)), Word) \in Doubles
             /\ Sext(Remainder(Signed(j, Word), Signed(k, Word)), Word) \in Doubles
             /\ Sext(Cast(j, Word) \div Cast(k, Word), Word) \in Doubles
             /\ Sext(Cast(j, Word) % Cast(k, Word), Word) \in Doubles
  <2>1. Signed(k, Word) # 0 /\ Word \in Nat
    BY <1>1, <1>3, SignedNonzero
  <2>2. /\ Quotient(Signed(j, Word), Signed(k, Word)) \in Int /\ Remainder(Signed(j, Word), Signed(k, Word)) \in Int
    BY <1>2, <2>1, QuotientInt
  <2>3. Cast(j, Word) \in Int /\ Cast(k, Word) \in Nat \ {0}
    BY <1>2, <1>3
  <2>4. Cast(j, Word) \div Cast(k, Word) \in Int /\ Cast(j, Word) % Cast(k, Word) \in Int
    BY <2>3, DivMod
  <2> QED BY <1>1, <2>2, <2>4, SextRange
<1>4. ASSUME k # 0
      PROVE  /\ Wrap(Quotient(Signed(j, Double), Signed(k, Double))) \in Doubles
             /\ Wrap(Remainder(Signed(j, Double), Signed(k, Double))) \in Doubles
             /\ j \div k \in Doubles /\ j % k \in Doubles
  <2>1. Cast(k, Double) # 0
    BY <1>4, WrapSmall DEF Cast, Wrap
  <2>2. Signed(k, Double) # 0
    BY <1>1, <2>1, SignedNonzero
  <2>3. Wrap(Quotient(Signed(j, Double), Signed(k, Double))) \in Doubles
        /\ Wrap(Remainder(Signed(j, Double), Signed(k, Double))) \in Doubles
    BY <1>2, <2>2, QuotientInt, WrapRange
  <2>4. j \div k \in Nat /\ j \div k <= j /\ j % k \in Nat /\ j % k <= j
    BY <1>1, <1>4, ModOrder
  <2>5. \A x \in Nat : x <= j => x \in Doubles
    BY Sizes DEF Doubles
  <2> QED BY <2>3, <2>4, <2>5
<1>5. CASE op \in {"DIV_W", "MOD_W", "DIV_WU", "MOD_WU"}
  BY <1>3, <1>5, ZeroDouble DEF DivisionResult
<1>6. CASE op \in {"DIV_D", "MOD_D", "DIV_DU", "MOD_DU"}
  BY <1>4, <1>6, ZeroDouble DEF DivisionResult
<1> QED BY <1>5, <1>6 DEF Division

LEMMA LogicRange ==
  ASSUME NEW op \in Logic, NEW j \in Doubles, NEW k \in Doubles, NEW imm \in Doubles
  PROVE  LogicResult(op, j, k, imm) \in Doubles
<1>1. Not(k) \in Doubles /\ Or(j, k) \in Doubles /\ Not(Or(j, k)) \in Doubles /\ Or(j, imm) \in Doubles
  BY NotRange, OrRange
<1>2. Or(j, Not(k)) \in Doubles /\ Xor(j, k) \in Doubles /\ Xor(j, imm) \in Doubles
  BY <1>1, OrRange, XorRange
<1>3. j \in Nat /\ k \in Nat /\ imm \in Nat /\ Not(k) \in Nat
  BY <1>1, DoublesNat
<1>4. And(j, k) \in Doubles /\ And(j, imm) \in Doubles /\ And(j, Not(k)) \in Doubles
  BY <1>3, AndRange
<1> QED BY <1>1, <1>2, <1>4, ZeroDouble DEF Logic, LogicResult

LEMMA BytePickRange ==
  ASSUME NEW j \in Doubles, NEW k \in Doubles, NEW sa3 \in 0 .. 7
  PROVE  BytePick(j, k, sa3) \in Doubles
<1>1. Double - sa3 * Byte \in Nat /\ sa3 * Byte \in Nat
  <2>1. sa3 * Byte \in Nat /\ sa3 * Byte <= 8 * Byte
    BY ByteAssumption
  <2> QED BY <2>1, ByteAssumption DEF Double
<1>2. j \in Int /\ k \in Int
  BY DoublesInt
<1>3. Shl(k, Double - sa3 * Byte) \in Doubles /\ Shr(j, sa3 * Byte) \in Doubles
  BY <1>1, <1>2, ShlRange, ShrRange
<1>4. Or(Shl(k, Double - sa3 * Byte), Shr(j, sa3 * Byte)) \in Doubles
  BY <1>3, OrRange
<1> QED BY <1>4 DEF BytePick

(* The shift counts taken from a register and from the encoding.           *)
LEMMA ShiftCounts ==
  ASSUME NEW k \in Doubles
  PROVE  /\ k % Word \in Nat /\ k % Word \in 0 .. Word /\ k % Double \in Nat /\ k % Double \in 0 .. Double
         /\ Word \in Nat /\ Double \in Nat /\ Word <= Double
<1>1. k \in Int /\ Word \in Nat \ {0} /\ Double \in Nat \ {0} /\ Word <= Double
  BY DoublesInt, Widths
<1>2. k % Word \in 0 .. Word - 1 /\ k % Double \in 0 .. Double - 1
  BY <1>1, DivMod
<1> QED BY <1>1, <1>2

LEMMA ShiftRange ==
  ASSUME NEW op \in Shift, NEW j \in Doubles, NEW k \in Doubles, NEW imm \in Doubles,
         op = "BYTEPICK_D" => imm < 8, op = "ROTRI_D" => imm < Double
  PROVE  ShiftResult(op, j, k, imm) \in Doubles
<1>1. j \in Int /\ j \in Nat /\ k \in Int /\ imm \in Nat /\ imm + 1 \in Nat /\ Word \in Nat \ {0} /\ Double \in Nat \ {0}
  <2>1. j \in Nat /\ j \in Int /\ k \in Int /\ imm \in Nat
    BY DoublesInt
  <2> QED BY <2>1, Widths
<1>2. Cast(j, Word) \in Nat
  BY <1>1, CastRange
<1>3. \A s \in Nat : /\ Shl(j, s) \in Doubles /\ Shl(j, s) \in Int /\ Shr(j, s) \in Doubles
                     /\ Shr(Cast(j, Word), s) \in Int /\ Sar(j, Word, s) \in Doubles /\ Sar(j, Double, s) \in Doubles
  <2> TAKE s \in Nat
  <2>1. Shl(j, s) \in Doubles /\ Shr(j, s) \in Doubles /\ Sar(j, Word, s) \in Doubles /\ Sar(j, Double, s) \in Doubles
    BY <1>1, ShlRange, ShrRange, SarRange
  <2>2. Shl(j, s) \in Int
    BY <2>1, DoublesInt
  <2>3. Shr(Cast(j, Word), s) \in Nat
    BY <1>2, ShrNat
  <2> QED BY <2>1, <2>2, <2>3
<1>4. \A s \in Nat : Sext(Shl(j, s), Word) \in Doubles /\ Sext(Shr(Cast(j, Word), s), Word) \in Doubles
  BY <1>1, <1>3, SextRange
<1>5. op = "ROTRI_D" => Rotr(j, Double, imm) \in Doubles
  <2>1. op = "ROTRI_D" => imm \in 0 .. Double /\ Double \in Nat /\ Double <= Double
    BY <1>1
  <2> QED BY <1>1, <2>1, RotrRange
<1>6. op = "BYTEPICK_D" => BytePick(j, k, imm) \in Doubles
  <2>1. op = "BYTEPICK_D" => imm \in 0 .. 7
    BY <1>1
  <2> QED BY <2>1, BytePickRange
<1>7. Wrap(Shl(j, imm + 1) + k) \in Doubles
  <2>1. Shl(j, imm + 1) + k \in Int
    BY <1>1, <1>3
  <2> QED BY <2>1, WrapRange
<1>8. CASE op \in {"SLL_W", "SRL_W", "SRA_W"}
  BY <1>3, <1>4, <1>8, ShiftCounts DEF ShiftResult
<1>9. CASE op \in {"SLL_D", "SRL_D", "SRA_D"}
  BY <1>3, <1>9, ShiftCounts DEF ShiftResult
<1>10. CASE op \in {"SLLI_W", "SLLI_D", "SRLI_W", "SRLI_D", "SRAI_W", "SRAI_D"}
  BY <1>1, <1>3, <1>4, <1>10 DEF ShiftResult
<1>11. CASE op \in {"BYTEPICK_D", "ROTRI_D", "ALSL_D"}
  BY <1>5, <1>6, <1>7, <1>11 DEF ShiftResult
<1> QED BY <1>8, <1>9, <1>10, <1>11 DEF Shift

LEMMA UpperRange ==
  ASSUME NEW op \in Upper, NEW d \in Doubles, NEW j \in Doubles, NEW pc \in Doubles, NEW imm \in Doubles
  PROVE  UpperResult(op, d, j, pc, imm) \in Doubles
<1>1. d \in Int /\ j \in Int /\ pc \in Int /\ imm \in Int /\ Word \in Nat \ {0} /\ By52 \in Nat
  BY DoublesInt, Widths, FieldAssumption
<1>2. imm * 2^By12 \in Int /\ Sext(imm * 2^By12, Word) \in Doubles
  <2>1. imm * 2^By12 \in Int
    BY <1>1, ImmediateInt
  <2> QED BY <1>1, <2>1, SextRange
<1>3. Wrap(Signed(imm, Imm20) * 2^By32) \in Doubles /\ Wrap(pc + Signed(imm, Imm20) * 4) \in Doubles
  <2>1. Signed(imm, Imm20) * 2^By32 \in Int /\ pc + Signed(imm, Imm20) * 4 \in Int
    BY <1>1, ImmediateInt
  <2> QED BY <2>1, WrapRange
<1>4. Cast(d, Word) \in Doubles /\ Cast(j, By52) \in Doubles /\ Shl(imm, By52) \in Doubles
  <2>1. Word <= Double /\ By52 <= Double
    BY Widths, FieldAssumption
  <2> QED BY <1>1, <2>1, CastDoubles, ShlRange
<1>5. Or(Wrap(Signed(imm, Imm20) * 2^By32), Cast(d, Word)) \in Doubles /\ Or(Cast(j, By52), Shl(imm, By52)) \in Doubles
  BY <1>3, <1>4, OrRange
<1>6. Wrap(pc + Signed(Signed(imm, Imm20) * 2^By12, Word)) \in Doubles
      /\ Wrap(pc + Signed(Signed(imm, Imm20) * 2^By18, Word)) \in Doubles
  <2>1. Signed(imm, Imm20) * 2^By12 \in Int /\ Signed(imm, Imm20) * 2^By18 \in Int
    BY ImmediateInt
  <2>2. Signed(Signed(imm, Imm20) * 2^By12, Word) \in Int /\ Signed(Signed(imm, Imm20) * 2^By18, Word) \in Int
    BY <1>1, <2>1, SignedRange
  <2>3. pc + Signed(Signed(imm, Imm20) * 2^By12, Word) \in Int /\ pc + Signed(Signed(imm, Imm20) * 2^By18, Word) \in Int
    BY <1>1, <2>2
  <2> QED BY <2>3, WrapRange
<1>7. Wrap((pc - (pc % 2^By12)) + Signed(imm * 2^By12, Word)) \in Doubles
  <2>1. pc % 2^By12 \in Int /\ Signed(imm * 2^By12, Word) \in Int
    <3>1. 2^By12 \in Nat \ {0}
      BY ImmediateInt
    <3>2. pc % 2^By12 \in 0 .. 2^By12 - 1
      BY <1>1, <3>1, DivMod
    <3>3. Signed(imm * 2^By12, Word) \in Int
      BY <1>1, <1>2, SignedRange
    <3> QED BY <3>1, <3>2, <3>3
  <2>2. (pc - (pc % 2^By12)) + Signed(imm * 2^By12, Word) \in Int
    BY <1>1, <2>1
  <2> QED BY <2>2, WrapRange
<1> QED BY <1>2, <1>3, <1>5, <1>6, <1>7 DEF Upper, UpperResult

LEMMA MultiplyRange ==
  ASSUME NEW op \in Multiply, NEW j \in Doubles, NEW k \in Doubles, NEW imm \in Doubles,
         op = "ROTRI_W" => imm < Word
  PROVE  MultiplyResult(op, j, k, imm) \in Doubles
<1>1. j \in Int /\ k \in Int /\ imm \in Nat /\ Word \in Nat \ {0} /\ Double \in Nat \ {0} /\ Word <= Double
      /\ Byte \in Nat \ {0} /\ Half \in Nat \ {0}
  BY DoublesInt, Widths, ByteAssumption
<1>2. MulLow(j, k) \in Doubles /\ MulHigh(j, k) \in Doubles /\ MulHighSigned(j, k) \in Doubles
  BY MulLowRange, MulHighRange, MulHighSignedRange
<1>3. Sext(MulLow(j, k), Word) \in Doubles /\ Sext(j, Byte) \in Doubles /\ Sext(j, Half) \in Doubles
  <2>1. MulLow(j, k) \in Int
    BY <1>2, DoublesInt
  <2> QED BY <1>1, <2>1, SextRange
<1>4. Sext((Signed(j, Word) * Signed(k, Word)) \div 2^Word, Word) \in Doubles
      /\ Sext((Cast(j, Word) * Cast(k, Word)) \div 2^Word, Word) \in Doubles
  <2>1. Signed(j, Word) \in Int /\ Signed(k, Word) \in Int /\ Cast(j, Word) \in Int /\ Cast(k, Word) \in Int
    <3>1. Cast(j, Word) \in Nat /\ Cast(k, Word) \in Nat
      BY <1>1, CastRange
    <3> QED BY <1>1, <3>1, SignedRange
  <2>2. Signed(j, Word) * Signed(k, Word) \in Int /\ Cast(j, Word) * Cast(k, Word) \in Int
    BY <2>1
  <2>3. (Signed(j, Word) * Signed(k, Word)) \div 2^Word \in Int /\ (Cast(j, Word) * Cast(k, Word)) \div 2^Word \in Int
    BY <2>2, Sizes, DivMod
  <2> QED BY <1>1, <2>3, SextRange
<1>5. Cast(j, Word) \in Int
  <2>1. Cast(j, Word) \in Nat
    BY <1>1, CastRange
  <2> QED BY <2>1
<1>6. op = "ROTR_W" => Sext(Rotr(Cast(j, Word), Word, k % Word), Word) \in Doubles
  <2>1. Rotr(Cast(j, Word), Word, k % Word) \in Int
    BY <1>5, ShiftCounts, RotrRange
  <2> QED BY <1>1, <2>1, SextRange
<1>7. op = "ROTRI_W" => Sext(Rotr(Cast(j, Word), Word, imm), Word) \in Doubles
  <2> SUFFICES ASSUME op = "ROTRI_W" PROVE Sext(Rotr(Cast(j, Word), Word, imm), Word) \in Doubles
    OBVIOUS
  <2>1. imm \in 0 .. Word
    BY <1>1
  <2>2. Rotr(Cast(j, Word), Word, imm) \in Int
    BY <1>1, <1>5, <2>1, RotrRange
  <2> QED BY <1>1, <2>2, SextRange
<1>8. op = "ROTR_D" => Rotr(j, Double, k % Double) \in Doubles
  <2>1. Double <= Double
    BY <1>1
  <2> QED BY <1>1, <2>1, ShiftCounts, RotrRange
<1> QED BY <1>2, <1>3, <1>4, <1>6, <1>7, <1>8, TruthRange DEF Multiply, MultiplyResult

LEMMA CountingRange ==
  ASSUME NEW op \in Counting, NEW j \in Doubles, NEW k \in Doubles, NEW imm \in Doubles
  PROVE  CountingResult(op, j, k, imm) \in Doubles
<1>1. /\ Word \in Nat \ {0} /\ Double \in Nat \ {0} /\ Word <= Double /\ Double <= Double
      /\ j \in Int /\ k \in Int /\ imm + 1 \in Nat
  <2>1. j \in Int /\ k \in Int /\ imm \in Nat
    BY DoublesInt
  <2> QED BY <2>1, Widths
<1>2. \A x : /\ LeadingZeros(x, Word) \in Doubles /\ LeadingZeros(x, Double) \in Doubles
             /\ TrailingZeros(x, Word) \in Doubles /\ TrailingZeros(x, Double) \in Doubles
  BY <1>1, ZerosRange
<1>3. \A x, u, g : Reverse(x, u, g) \in Doubles /\ Sext(Reverse(x, u, g), Word) \in Doubles
  <2> TAKE x, u, g
  <2>1. Reverse(x, u, g) \in Doubles
    BY ReverseRange
  <2>2. Reverse(x, u, g) \in Int
    BY <2>1, DoublesInt
  <2> QED BY <1>1, <2>1, <2>2, SextRange
<1>4. Sext(Shl(j, imm + 1) + k, Word) \in Doubles
  <2>1. Shl(j, imm + 1) \in Doubles
    BY <1>1, ShlRange
  <2>2. Shl(j, imm + 1) \in Int
    BY <2>1, DoublesInt
  <2>3. Shl(j, imm + 1) + k \in Int
    BY <1>1, <2>2
  <2> QED BY <1>1, <2>3, SextRange
<1>5. CASE op \in {"CLO_W", "CLO_D", "CLZ_W", "CLZ_D", "CTO_W", "CTO_D", "CTZ_W", "CTZ_D"}
  BY <1>2, <1>5 DEF CountingResult
<1>6. CASE op \in {"REVB_2H", "REVB_4H", "REVB_2W", "REVB_D", "REVH_2W", "REVH_D",
                   "BITREV_4B", "BITREV_8B", "BITREV_W", "BITREV_D"}
  BY <1>3, <1>6 DEF CountingResult
<1>7. CASE op = "ALSL_W"
  BY <1>4, <1>7 DEF CountingResult
<1> QED BY <1>5, <1>6, <1>7 DEF Counting

LEMMA AtomicRange ==
  ASSUME NEW op \in DOMAIN Atomic, NEW old \in Doubles, NEW k \in Doubles
  PROVE  AtomicResult(op, old, k) \in Doubles
<1>1. old \in Nat /\ k \in Nat /\ old + k \in Int
  <2>1. old \in Nat /\ k \in Nat
    BY DoublesInt
  <2> QED BY <2>1
<1>2. Wrap(old + k) \in Doubles /\ And(old, k) \in Doubles /\ Or(old, k) \in Doubles /\ Xor(old, k) \in Doubles
  BY <1>1, WrapRange, AndRange, OrRange, XorRange
<1> QED BY <1>2 DEF Atomic, AtomicResult

---------------------------------------------------------------------------
(* Memory keeps its type, and its read-only part.                          *)

Accesses == {Byte, Half, Word, Double}

LEMMA AccessBytes ==
  ASSUME NEW n \in Accesses
  PROVE  n \div Byte \in 1 .. 8 /\ Byte * (n \div Byte) = n /\ n \in Nat \ {0} /\ n <= Double
<1>1. PICK q \in {1, 2, 4, 8} : n = Byte * q + 0
  BY ByteAssumption DEF Accesses, Half, Word, Double
<1>2. q \in Int /\ 0 \in 0 .. Byte - 1
  BY ByteAssumption
<1>3. (Byte * q + 0) \div Byte = q
  BY <1>2, ByteAssumption, ModUnique
<1>4. n \div Byte = q
  BY <1>1, <1>3
<1>5. Byte * q = n
  BY <1>1, ByteAssumption
<1>6. n \in Nat \ {0} /\ n <= Double
  BY <1>1, ByteAssumption DEF Double
<1> QED BY <1>1, <1>4, <1>5, <1>6

LEMMA PeekRange ==
  ASSUME NEW m \in Machine, NEW a \in Nat, a < ArenaSize, NEW n \in Accesses
  PROVE  Peek(m, a, n) \in 0 .. 2^n - 1 /\ Peek(m, a, n) \in Doubles
<1> DEFINE k == n \div Byte  d == [b \in 0 .. k - 1 |-> m.mem[a + b]]
           f == [b \in 0 .. k - 1 |-> m.mem[a + b] * 2^(b * Byte)]
           g == [b \in 0 .. k - 1 |-> d[b] * 2^(Byte * b)]
<1>1. k \in 1 .. 8 /\ Byte * k = n /\ k \in Nat /\ n \in Nat /\ n <= Double
  BY AccessBytes
<1>2. d \in [0 .. k - 1 -> 0 .. 2^Byte - 1]
  <2>1. \A b \in 0 .. k - 1 : a + b \in Addresses
    BY <1>1, ArenaAssumption DEF Addresses
  <2>2. m.mem \in [Addresses -> 0 .. 2^Byte - 1]
    BY DEF Machine
  <2> HIDE DEF k
  <2> QED BY <2>1, <2>2
<1>3. f = g
  <2>1. \A b \in 0 .. k - 1 : b * Byte = Byte * b
    BY <1>1, ByteAssumption
  <2>2. \A b \in 0 .. k - 1 : m.mem[a + b] * 2^(b * Byte) = d[b] * 2^(Byte * b)
    BY <2>1
  <2> QED BY <2>2
<1>4. Peek(m, a, n) = Total(f, k)
  BY DEF Peek
<1> HIDE DEF k, d, f
<1>5. Total(g, k) \in 0 .. 2^(Byte * k) - 1
  <2>1. Byte \in Nat \ {0} /\ g = [b \in 0 .. k - 1 |-> d[b] * 2^(Byte * b)]
    BY ByteAssumption
  <2> HIDE DEF g
  <2> QED BY <1>1, <1>2, <2>1, TotalRange
<1>6. Peek(m, a, n) \in 0 .. 2^n - 1
  BY <1>1, <1>3, <1>4, <1>5
<1>7. 2^n <= 2^Double /\ 2^n \in Nat /\ 2^Double \in Nat
  BY <1>1, Widths, PowerOrder, PowerPositive
<1> QED BY <1>6, <1>7 DEF Doubles

LEMMA ExtendedRange ==
  ASSUME NEW op, NEW n \in Accesses, NEW v \in Doubles
  PROVE  Extended(op, v, n) \in Doubles
<1>1. v \in Int /\ n \in Nat \ {0}
  BY DoublesInt, AccessBytes
<1> QED BY <1>1, SextRange DEF Extended

(* What every engine leaves: a machine, unchanged by a fault, with the     *)
(* memory below the writable part as it was; and behind the arena, too.    *)
Faults == {"fault", "sigfpe"}
Tidy(m, r) == /\ r \in Machine
              /\ r.trap \in Faults => r = Trap(m, r.trap)
              /\ \A a \in 0 .. DataStart - 1 : r.mem[a] = m.mem[a]
Orderly(m, r) == Tidy(m, r) /\ \A a \in Behind : r.mem[a] = m.mem[a]

LEMMA StepOverTidy ==
  ASSUME NEW m, NEW r, Tidy(m, r)
  PROVE  Tidy(m, StepOver(r)) /\ StepOver(r).mem = r.mem /\ StepOver(r).trap = r.trap
<1>1. CASE r.trap # "none"
  BY <1>1 DEF StepOver
<1>2. CASE r.trap = "none"
  <2> DEFINE v == Wrap(r.pc + 4)
  <2>1. r \in Machine /\ r.pc \in Doubles
    BY DEF Tidy, Machine
  <2>2. r.pc + 4 \in Int
    BY <2>1, DoublesInt
  <2>3. v \in Doubles
    BY <2>2, WrapRange
  <2>4. StepOver(r) = [r EXCEPT !.pc = v]
    BY <1>2 DEF StepOver, IncrementPC
  <2> HIDE DEF v
  <2>5. [r EXCEPT !.pc = v] \in Machine /\ [r EXCEPT !.pc = v].trap = "none" /\ [r EXCEPT !.pc = v].mem = r.mem
    BY <1>2, <2>1, <2>3, PCMachine
  <2> QED BY <2>4, <2>5 DEF Tidy, Faults
<1> QED BY <1>1, <1>2

LEMMA StepOverOrderly ==
  ASSUME NEW m, NEW r, Orderly(m, r)
  PROVE  Orderly(m, StepOver(r))
  BY StepOverTidy DEF Orderly

LEMMA SelfOrderly ==
  ASSUME NEW m, Ready(m)
  PROVE  Orderly(m, m)
  BY DEF Ready, Orderly, Tidy, Faults

LEMMA PutOrderly ==
  ASSUME NEW m, Ready(m), NEW r \in Regs, NEW v \in Doubles
  PROVE  Orderly(m, Put(m, r, v))
<1>1. Put(m, r, v) \in Machine /\ Put(m, r, v).trap = "none" /\ Put(m, r, v).mem = m.mem
  BY PutMachine DEF Ready
<1> QED BY <1>1 DEF Orderly, Tidy, Faults

LEMMA TrapOrderly ==
  ASSUME NEW m, Ready(m), NEW t \in {"fault", "sigfpe", "invalid", "stop"}
  PROVE  Orderly(m, Trap(m, t))
<1>1. Trap(m, t) \in Machine /\ Trap(m, t).trap = t /\ Trap(m, t).mem = m.mem
  BY DEF Trap, Ready, Machine
<1> QED BY <1>1 DEF Orderly, Tidy

LEMMA CallOrderly ==
  ASSUME NEW m, Ready(m), NEW n \in Doubles
  PROVE  Orderly(m, SystemCall(m, n))
<1>1. SystemCall(m, n) \in Machine /\ SystemCall(m, n).trap = "syscall" /\ SystemCall(m, n).mem = m.mem
  BY DEF SystemCall, Ready, Machine
<1> QED BY <1>1 DEF Orderly, Tidy, Faults

LEMMA BranchOrderly ==
  ASSUME NEW m, Ready(m), NEW l \in Machine, l.trap = "none", l.mem = m.mem, NEW v \in Doubles
  PROVE  Orderly(m, [l EXCEPT !.pc = v])
<1>1. [l EXCEPT !.pc = v] \in Machine /\ [l EXCEPT !.pc = v].trap = "none" /\ [l EXCEPT !.pc = v].mem = m.mem
  BY PCMachine
<1> QED BY <1>1 DEF Orderly, Tidy, Faults

LEMMA PokeTidy ==
  ASSUME NEW m, Ready(m), NEW a \in Nat, DataStart <= a, NEW n \in Accesses, NEW v \in Doubles
  PROVE  /\ Tidy(m, Poke(m, a, n, v)) /\ Poke(m, a, n, v).trap = "none"
         /\ Poke(m, a, n, v) \in Machine
         /\ Writable(a) => Orderly(m, Poke(m, a, n, v))
<1> DEFINE k == n \div Byte
           b(x) == IF x \in a .. a + k - 1 THEN (v \div 2^((x - a) * Byte)) % 2^Byte ELSE m.mem[x]
           mem == [x \in Addresses |-> b(x)]
<1>1. k \in 1 .. 8 /\ v \in Int
  BY AccessBytes, DoublesInt
<1>2. \A x \in Addresses : b(x) \in 0 .. 2^Byte - 1
  <2> TAKE x \in Addresses
  <2>1. CASE x \in a .. a + k - 1
    <3>1. (x - a) * Byte \in Nat
      BY <2>1, ByteAssumption
    <3>2. 2^((x - a) * Byte) \in Nat \ {0}
      BY <3>1, PowerPositive
    <3>3. v \div 2^((x - a) * Byte) \in Int
      BY <1>1, <3>2, DivMod
    <3>4. (v \div 2^((x - a) * Byte)) % 2^Byte \in 0 .. 2^Byte - 1
      BY <3>3, Sizes, DivMod
    <3> QED BY <2>1, <3>4
  <2>2. CASE x \notin a .. a + k - 1
    <3>1. m.mem \in [Addresses -> 0 .. 2^Byte - 1]
      BY DEF Ready, Machine
    <3> QED BY <2>2, <3>1
  <2> QED BY <2>1, <2>2
<1>3. mem \in [Addresses -> 0 .. 2^Byte - 1]
  BY <1>2
<1>4. \A x \in 0 .. DataStart - 1 : mem[x] = m.mem[x]
  <2> TAKE x \in 0 .. DataStart - 1
  <2>1. x \in Addresses
    BY ArenaAssumption DEF Addresses
  <2>2. x \notin a .. a + k - 1
    BY ArenaAssumption
  <2> QED BY <2>1, <2>2
<1>7. ASSUME Writable(a), NEW x \in Behind PROVE mem[x] = m.mem[x]
  <2>1. x \in Addresses
    BY ArenaAssumption DEF Addresses, Behind
  <2>2. x \notin a .. a + k - 1
    BY <1>1, <1>7, ArenaAssumption DEF Writable, Behind
  <2> QED BY <2>1, <2>2
<1>5. Poke(m, a, n, v) = [m EXCEPT !.mem = mem]
  BY DEF Poke
<1> HIDE DEF mem
<1>6. [m EXCEPT !.mem = mem] \in Machine /\ [m EXCEPT !.mem = mem].trap = "none" /\ [m EXCEPT !.mem = mem].mem = mem
  BY <1>3 DEF Ready, Machine
<1> QED BY <1>4, <1>5, <1>6, <1>7 DEF Orderly, Tidy, Faults

LEMMA PokeOrderly ==
  ASSUME NEW m, Ready(m), NEW a \in Nat, Writable(a), NEW n \in Accesses, NEW v \in Doubles
  PROVE  /\ Orderly(m, Poke(m, a, n, v)) /\ Poke(m, a, n, v).trap = "none"
         /\ Poke(m, a, n, v) \in Machine
  BY PokeTidy DEF Writable

LEMMA LoadOrderly ==
  ASSUME NEW m, Ready(m), NEW op, NEW rd \in Regs, NEW a \in Nat, NEW n \in Accesses
  PROVE  Orderly(m, Load(m, op, rd, a, n))
<1>1. CASE Readable(a)
  <2>1. Peek(m, a, n) \in Doubles
    BY <1>1, PeekRange DEF Ready, Readable
  <2>2. Extended(op, Peek(m, a, n), n) \in Doubles
    BY <2>1, ExtendedRange
  <2> QED BY <1>1, <2>2, PutOrderly DEF Load
<1>2. CASE ~Readable(a)
  BY <1>2, TrapOrderly DEF Load
<1> QED BY <1>1, <1>2

LEMMA StoreOrderly ==
  ASSUME NEW m, Ready(m), NEW rd \in Regs, NEW a \in Nat, NEW n \in Accesses
  PROVE  Orderly(m, Store(m, rd, a, n))
<1>1. m.reg[rd] \in Doubles
  BY DEF Ready, Machine
<1>2. CASE Writable(a)
  BY <1>1, <1>2, PokeOrderly DEF Store
<1>3. CASE ~Writable(a)
  BY <1>3, TrapOrderly DEF Store
<1> QED BY <1>2, <1>3

LEMMA IncrementOrderly ==
  ASSUME NEW m, Ready(m), NEW l \in Machine, l.trap = "none", l.mem = m.mem, NEW n \in Int
  PROVE  Orderly(m, IncrementPC(l, n))
<1>1. l.pc \in Doubles
  BY DEF Machine
<1>2. l.pc + n \in Int
  BY <1>1, DoublesInt
<1>3. Wrap(l.pc + n) \in Doubles
  BY <1>2, WrapRange
<1> QED BY <1>3, BranchOrderly DEF IncrementPC

LEMMA PutAfter ==
  ASSUME NEW m, NEW l, Orderly(m, l), l.trap = "none", NEW r \in Regs, NEW v \in Doubles
  PROVE  Orderly(m, Put(l, r, v)) /\ Put(l, r, v).trap = "none"
<1>1. l \in Machine
  BY DEF Orderly, Tidy
<1>2. Put(l, r, v) \in Machine /\ Put(l, r, v).trap = "none" /\ Put(l, r, v).mem = l.mem
  BY <1>1, PutMachine
<1> QED BY <1>2 DEF Orderly, Tidy, Faults

LEMMA LinkAfter ==
  ASSUME NEW m, NEW l, Orderly(m, l), l.trap = "none"
  PROVE  Orderly(m, [l EXCEPT !.ll = TRUE]) /\ Orderly(m, [l EXCEPT !.ll = FALSE])
<1>1. /\ [l EXCEPT !.ll = TRUE] \in Machine /\ [l EXCEPT !.ll = FALSE] \in Machine
      /\ [l EXCEPT !.ll = TRUE].trap = "none" /\ [l EXCEPT !.ll = FALSE].trap = "none"
      /\ [l EXCEPT !.ll = TRUE].mem = l.mem /\ [l EXCEPT !.ll = FALSE].mem = l.mem
  BY DEF Orderly, Tidy, Machine
<1> QED BY <1>1 DEF Orderly, Tidy, Faults

LEMMA AtomicOrderly ==
  ASSUME NEW m, Ready(m), NEW i \in Encodings, i.op \in DOMAIN Atomic
  PROVE  Orderly(m, HandleAtomic(m, i))
<1> DEFINE a == m.reg[i.rj]  n == Atomic[i.op]  old == Peek(m, a, n)  k == m.reg[i.rk]
           written == Poke(m, a, n, AtomicResult(i.op, old, k))
<1>1. a \in Nat /\ n \in Accesses /\ k \in Doubles /\ i.rd \in Regs
  <2>1. n \in Accesses
    BY DEF Atomic, Accesses
  <2> QED BY <2>1, Operands
<1>2. HandleAtomic(m, i) = IF ~Readable(a) \/ ~Writable(a) THEN Trap(m, "fault")
                           ELSE IF i.rd = 0 THEN written ELSE Put(written, i.rd, Sext(old, n))
  BY DEF HandleAtomic
<1>3. CASE ~Readable(a) \/ ~Writable(a)
  BY <1>2, <1>3, TrapOrderly
<1>4. CASE Readable(a) /\ Writable(a)
  <2>1. old \in Doubles
    BY <1>1, <1>4, PeekRange DEF Ready, Readable
  <2> HIDE DEF old, a, n, k
  <2>2. AtomicResult(i.op, old, k) \in Doubles
    BY <1>1, <2>1, AtomicRange
  <2>3. Orderly(m, written) /\ written.trap = "none"
    BY <1>1, <1>4, <2>2, PokeOrderly
  <2>4. Sext(old, n) \in Doubles
    BY <1>1, <2>1, DoublesInt, AccessBytes, SextRange
  <2> HIDE DEF written
  <2> QED BY <1>1, <1>2, <1>4, <2>3, <2>4, PutAfter
<1> QED BY <1>3, <1>4

LEMMA LinkedOrderly ==
  ASSUME NEW m, Ready(m), NEW i \in Encodings, i.op \in DOMAIN LoadLinked \cup DOMAIN StoreConditional
  PROVE  /\ i.op \in DOMAIN LoadLinked => Orderly(m, HandleLoadLinked(m, i))
         /\ i.op \in DOMAIN StoreConditional => Orderly(m, HandleStoreConditional(m, i))
<1> DEFINE a == PtrAddress(m.reg[i.rj], i.imm)
<1>1. a \in Nat /\ i.rd \in Regs
  BY Addressed, Operands
<1>2. CASE i.op \in DOMAIN LoadLinked
  <2> DEFINE loaded == Load(m, i.op, i.rd, a, LoadLinked[i.op])
  <2>1. LoadLinked[i.op] \in Accesses
    BY <1>2 DEF LoadLinked, Accesses
  <2>2. Orderly(m, loaded)
    BY <1>1, <2>1, LoadOrderly
  <2>3. HandleLoadLinked(m, i) = IF loaded.trap = "none" THEN [loaded EXCEPT !.ll = TRUE] ELSE loaded
    BY DEF HandleLoadLinked
  <2>4. i.op \notin DOMAIN StoreConditional
    BY <1>2 DEF LoadLinked, StoreConditional
  <2> HIDE DEF loaded
  <2>5. CASE loaded.trap = "none"
    <3>1. Orderly(m, [loaded EXCEPT !.ll = TRUE])
      BY <2>2, <2>5, LinkAfter
    <3> QED BY <2>3, <2>4, <2>5, <3>1
  <2>6. CASE loaded.trap # "none"
    BY <2>2, <2>3, <2>4, <2>6
  <2> QED BY <2>5, <2>6
<1>3. CASE i.op \in DOMAIN StoreConditional
  <2> DEFINE stored == Store(m, i.rd, a, StoreConditional[i.op])
             tried  == IF m.ll THEN stored ELSE m
             told   == IF i.rd = 0 /\ i.op = "SC_W" THEN tried ELSE Put(tried, i.rd, Truth(m.ll))
  <2>1. StoreConditional[i.op] \in Accesses
    BY <1>3 DEF StoreConditional, Accesses
  <2>2. Orderly(m, stored)
    BY <1>1, <2>1, StoreOrderly
  <2>3. HandleStoreConditional(m, i) = IF tried.trap = "none" THEN [told EXCEPT !.ll = FALSE] ELSE tried
    BY DEF HandleStoreConditional
  <2> HIDE DEF stored
  <2>4. Orderly(m, tried)
    BY <2>2, SelfOrderly
  <2> HIDE DEF tried
  <2>5. tried.trap = "none" => Orderly(m, told) /\ told.trap = "none"
    BY <1>1, <2>4, TruthRange, PutAfter
  <2> HIDE DEF told
  <2>6. Orderly(m, HandleStoreConditional(m, i))
    <3>1. CASE tried.trap = "none"
      <4>1. Orderly(m, [told EXCEPT !.ll = FALSE])
        BY <2>5, <3>1, LinkAfter
      <4> QED BY <2>3, <3>1, <4>1
    <3>2. CASE tried.trap # "none"
      BY <2>3, <2>4, <3>2
    <3> QED BY <3>1, <3>2
  <2>7. i.op \notin DOMAIN LoadLinked
    BY <1>3 DEF LoadLinked, StoreConditional
  <2> QED BY <2>6, <2>7
<1> QED BY <1>2, <1>3

(* A bit string, whatever the build makes of a mask of the whole width.    *)
LEMMA MaskNat ==
  ASSUME NEW i \in Encodings, i.op \in BitString, NEW n, NEW ub
  PROVE  Ones(i.imm, n, ub) \in Nat /\ Lsb(i.imm) \in Nat
<1> DEFINE w == (Msb(i.imm) - Lsb(i.imm)) + 1
<1>1. w \in Nat \ {0} /\ Lsb(i.imm) \in Nat
  BY BitStringFields
<1>2. Ones(i.imm, n, ub) = IF w = n /\ ~ub THEN 0 ELSE 2^w - 1
  BY DEF Ones
<1>3. 2^w - 1 \in Nat
  <2>1. 2^w \in Nat \ {0}
    BY <1>1, PowerPositive
  <2> QED BY <2>1
<1> QED BY <1>1, <1>2, <1>3

LEMMA BitStringRange ==
  ASSUME NEW ones \in Nat, NEW lsb \in Nat, NEW d \in Doubles, NEW j \in Doubles, NEW n \in {Word, Double}
  PROVE  LET mask == Shl(ones, lsb) IN
         /\ And(Shr(Cast(j, n), lsb), ones) \in Doubles /\ And(Shr(j, lsb), ones) \in Doubles
         /\ Sext(And(Shr(Cast(j, n), lsb), ones), n) \in Doubles
         /\ Or(And(d, Not(mask)), And(Shl(j, lsb), mask)) \in Doubles
         /\ Sext(Or(And(Cast(d, n), Not(mask)), And(Shl(j, lsb), mask)), n) \in Doubles
<1> DEFINE mask == Shl(ones, lsb)
<1>1. d \in Nat /\ j \in Nat /\ d \in Int /\ j \in Int /\ ones \in Int /\ n \in Nat \ {0} /\ n \in Nat
  <2>1. n \in Nat \ {0}
    BY Widths
  <2> QED BY <2>1, DoublesInt
<1>2. mask \in Doubles /\ Shl(j, lsb) \in Doubles /\ Cast(j, n) \in Nat /\ Cast(d, n) \in Nat
  BY <1>1, ShlRange, CastRange
<1>3. Not(mask) \in Nat /\ mask \in Nat /\ Shl(j, lsb) \in Nat
  BY <1>2, NotRange, DoublesNat
<1>4. Shr(Cast(j, n), lsb) \in Nat /\ Shr(j, lsb) \in Nat
  BY <1>1, <1>2, ShrNat
<1> HIDE DEF mask
<1>5. And(Shr(Cast(j, n), lsb), ones) \in Doubles /\ And(Shr(j, lsb), ones) \in Doubles
  BY <1>4, AndRange
<1>6. And(d, Not(mask)) \in Doubles /\ And(Cast(d, n), Not(mask)) \in Doubles /\ And(Shl(j, lsb), mask) \in Doubles
  BY <1>1, <1>2, <1>3, AndRange
<1>7. Or(And(d, Not(mask)), And(Shl(j, lsb), mask)) \in Doubles
      /\ Or(And(Cast(d, n), Not(mask)), And(Shl(j, lsb), mask)) \in Doubles
  BY <1>6, OrRange
<1>8. And(Shr(Cast(j, n), lsb), ones) \in Int /\ Or(And(Cast(d, n), Not(mask)), And(Shl(j, lsb), mask)) \in Int
  BY <1>5, <1>7, DoublesInt
<1>9. Sext(And(Shr(Cast(j, n), lsb), ones), n) \in Doubles
      /\ Sext(Or(And(Cast(d, n), Not(mask)), And(Shl(j, lsb), mask)), n) \in Doubles
  BY <1>1, <1>8, SextRange
<1> QED BY <1>5, <1>7, <1>9 DEF mask

LEMMA BitStringOrderly ==
  ASSUME NEW m, Ready(m), NEW i \in Encodings, i.op \in BitString, NEW ub
  PROVE  Orderly(m, HandleBitString(m, i, ub))
<1> DEFINE j == m.reg[i.rj]   d == m.reg[i.rd]   lsb == Lsb(i.imm)
           n == IF i.op \in {"BSTRINS_D", "BSTRPICK_D"} THEN Double ELSE Word
           ones == Ones(i.imm, n, ub)
           mask == Shl(ones, lsb)
           inserted == Sext(Or(And(Cast(d, n), Not(mask)), And(Shl(j, lsb), mask)), n)
           picked == Sext(And(Shr(Cast(j, n), lsb), ones), n)
<1>1. j \in Doubles /\ d \in Doubles /\ n \in {Word, Double} /\ lsb \in Nat /\ ones \in Nat /\ i.rd \in Regs
  BY Operands, MaskNat
<1>2. HandleBitString(m, i, ub) = IF i.op \in {"BSTRPICK_D", "BSTRPICK_W"} THEN Put(m, i.rd, picked)
                                  ELSE IF Msb(i.imm) >= lsb THEN Put(m, i.rd, inserted) ELSE m
  BY DEF HandleBitString
<1> HIDE DEF ones, n, lsb, d, j
<1>3. picked \in Doubles /\ inserted \in Doubles
  BY <1>1, BitStringRange
<1> HIDE DEF picked, inserted
<1> QED BY <1>1, <1>2, <1>3, PutOrderly, SelfOrderly

LEMMA OffsetsInt ==
  ASSUME NEW i \in Encodings
  PROVE  /\ Signed(i.imm, Offs21) * 4 - 4 \in Int /\ Signed(i.imm, Imm16) * 4 - 4 \in Int
         /\ Signed(i.imm, Offs26) * 4 - 4 \in Int
         /\ Signed(i.imm, Offs21) * 4 \in Int /\ Signed(i.imm, Imm16) * 4 \in Int /\ Signed(i.imm, Offs26) * 4 \in Int
<1>1. i.imm \in Doubles
  BY DEF Encodings
<1>2. Signed(i.imm, Imm16) \in Int /\ Signed(i.imm, Offs21) \in Int /\ Signed(i.imm, Offs26) \in Int
  BY <1>1, ImmediateInt
<1> QED BY <1>2

LEMMA JumpOrderly ==
  ASSUME NEW m, Ready(m), NEW i \in Encodings, i.op \in Branches
  PROVE  /\ i.op \in Jumps => Orderly(m, HandleJump(m, i))
         /\ i.op \in ZeroTest => Orderly(m, HandleZeroTest(m, i))
         /\ i.op \in Compare => Orderly(m, HandleCompare(m, i))
         /\ i.op \in FlagTest => Orderly(m, HandleFlagTest(m, i))
<1>1. m \in Machine /\ m.trap = "none" /\ m.pc \in Int /\ i.rd \in Regs /\ m.reg[i.rj] \in Int
  BY Operands DEF Ready
<1>2. i.op \in ZeroTest => Orderly(m, HandleZeroTest(m, i))
  BY <1>1, OffsetsInt, IncrementOrderly, SelfOrderly DEF HandleZeroTest
<1>3. i.op \in Compare => Orderly(m, HandleCompare(m, i))
  BY <1>1, OffsetsInt, IncrementOrderly, SelfOrderly DEF HandleCompare
<1>4. i.op \in FlagTest => Orderly(m, HandleFlagTest(m, i))
  BY <1>1, OffsetsInt, IncrementOrderly, SelfOrderly DEF HandleFlagTest
<1>5. Wrap(m.pc + 4) \in Doubles /\ REG_RA \in Regs
  <2>1. m.pc + 4 \in Int
    BY <1>1
  <2> QED BY <2>1, WrapRange, RegisterAssumption
<1>6. \A r \in Regs : LET l == Put(m, r, Wrap(m.pc + 4))
                      IN  l \in Machine /\ l.trap = "none" /\ l.mem = m.mem
  BY <1>1, <1>5, PutMachine
<1>7. ASSUME i.op = "JIRL" PROVE Orderly(m, HandleJump(m, i))
  <2> DEFINE l == IF i.rd # 0 THEN Put(m, i.rd, Wrap(m.pc + 4)) ELSE m
             v == Wrap(m.reg[i.rj] + Signed(i.imm, Imm16) * 4 - 4)
  <2>1. l \in Machine /\ l.trap = "none" /\ l.mem = m.mem
    BY <1>1, <1>6
  <2>2. m.reg[i.rj] + Signed(i.imm, Imm16) * 4 - 4 \in Int
    BY <1>1, OffsetsInt
  <2>3. v \in Doubles
    BY <2>2, WrapRange
  <2>4. HandleJump(m, i) = [l EXCEPT !.pc = v]
    BY <1>7 DEF HandleJump
  <2> HIDE DEF l, v
  <2> QED BY <2>1, <2>3, <2>4, BranchOrderly
<1>8. ASSUME i.op \in {"B", "BL"} PROVE Orderly(m, HandleJump(m, i))
  <2> DEFINE l == IF i.op = "BL" THEN Put(m, REG_RA, Wrap(m.pc + 4)) ELSE m
  <2>1. l \in Machine /\ l.trap = "none" /\ l.mem = m.mem
    BY <1>1, <1>5, <1>6
  <2>2. HandleJump(m, i) = IncrementPC(l, Signed(i.imm, Offs26) * 4 - 4)
    BY <1>8 DEF HandleJump
  <2> HIDE DEF l
  <2> QED BY <2>1, <2>2, OffsetsInt, IncrementOrderly
<1> QED BY <1>2, <1>3, <1>4, <1>7, <1>8 DEF Jumps

LEMMA SystemOrderly ==
  ASSUME NEW m, Ready(m), NEW i \in Encodings, i.op \in System
  PROVE  Orderly(m, HandleSystem(m, i))
<1>1. Cast(m.reg[REG_A7], Word) \in Doubles /\ i.rd \in Regs
  <2>1. m.reg[REG_A7] \in Doubles
    BY RegisterAssumption DEF Ready, Machine
  <2>2. m.reg[REG_A7] \in Int /\ Word \in Nat /\ Word <= Double
    BY <2>1, DoublesInt, Widths
  <2> QED BY <2>2, CastDoubles, Operands
<1>2. CASE i.op = "SYSCALL"
  BY <1>1, <1>2, CallOrderly DEF HandleSystem, Hints
<1>3. CASE i.op = "BREAK"
  BY <1>3, ZeroDouble, CallOrderly DEF HandleSystem, Hints
<1>4. CASE i.op \in Hints
  <2>1. HandleSystem(m, i) = m
    BY <1>4 DEF HandleSystem, Hints
  <2> QED BY <2>1, SelfOrderly
<1>5. CASE i.op = "CPUCFG"
  BY <1>1, <1>5, ZeroDouble, PutOrderly DEF HandleSystem, Hints
<1> QED BY <1>2, <1>3, <1>4, <1>5 DEF System

LEMMA MemoryOrderly ==
  ASSUME NEW m, Ready(m), NEW i \in Encodings, i.op \in FastLoads \cup FastStores, NEW ub
  PROVE  Orderly(m, Handle(m, i, ub))
<1>1. /\ ImmAddress(m.reg[i.rj], i.imm) \in Nat /\ PtrAddress(m.reg[i.rj], i.imm) \in Nat
      /\ Wrap(m.reg[i.rj] + m.reg[i.rk]) \in Nat /\ i.rd \in Regs
  BY Addressed, Operands
<1>2. CASE i.op \in DOMAIN LoadImm
  <2>1. LoadImm[i.op] \in Accesses
    BY <1>2 DEF LoadImm, Accesses
  <2>2. Orderly(m, Load(m, i.op, i.rd, ImmAddress(m.reg[i.rj], i.imm), LoadImm[i.op]))
    BY <1>1, <2>1, LoadOrderly
  <2>3. Orderly(m, HandleLoadImm(m, i))
    BY <2>2, SelfOrderly DEF HandleLoadImm
  <2> QED BY <1>2, <2>3, HandleCases
<1>3. CASE i.op \in DOMAIN LoadPtr
  <2>1. LoadPtr[i.op] \in Accesses
    BY <1>3 DEF LoadPtr, Accesses
  <2>2. Orderly(m, HandleLoadPtr(m, i))
    BY <1>1, <2>1, LoadOrderly DEF HandleLoadPtr
  <2> QED BY <1>3, <2>2, HandleCases
<1>4. CASE i.op \in DOMAIN LoadIdx
  <2>1. LoadIdx[i.op] \in Accesses
    BY <1>4 DEF LoadIdx, Accesses
  <2>2. Orderly(m, HandleLoadIdx(m, i))
    BY <1>1, <2>1, LoadOrderly DEF HandleLoadIdx
  <2> QED BY <1>4, <2>2, HandleCases
<1>5. CASE i.op \in DOMAIN StoreImm
  <2>1. StoreImm[i.op] \in Accesses
    BY <1>5 DEF StoreImm, Accesses
  <2>2. Orderly(m, HandleStoreImm(m, i))
    BY <1>1, <2>1, StoreOrderly DEF HandleStoreImm
  <2> QED BY <1>5, <2>2, HandleCases
<1>6. CASE i.op \in DOMAIN StorePtr
  <2>1. StorePtr[i.op] \in Accesses
    BY <1>6 DEF StorePtr, Accesses
  <2>2. Orderly(m, HandleStorePtr(m, i))
    BY <1>1, <2>1, StoreOrderly DEF HandleStorePtr
  <2> QED BY <1>6, <2>2, HandleCases
<1>7. CASE i.op \in DOMAIN StoreIdx
  <2>1. StoreIdx[i.op] \in Accesses
    BY <1>7 DEF StoreIdx, Accesses
  <2>2. Orderly(m, HandleStoreIdx(m, i))
    BY <1>1, <2>1, StoreOrderly DEF HandleStoreIdx
  <2> QED BY <1>7, <2>2, HandleCases
<1> QED BY <1>2, <1>3, <1>4, <1>5, <1>6, <1>7 DEF FastLoads, FastStores

(* Every handler, and the loop after it.                                   *)
LEMMA InterpretOrderly ==
  ASSUME NEW m, Ready(m), NEW i \in Encodings, NEW ub
  PROVE  Orderly(m, Handle(m, i, ub)) /\ Orderly(m, Interpret(m, i, ub))
<1> SUFFICES Orderly(m, Handle(m, i, ub))
  BY StepOverOrderly DEF Interpret
<1> DEFINE j == m.reg[i.rj]  k == m.reg[i.rk]  d == m.reg[i.rd]
<1>1. /\ j \in Doubles /\ k \in Doubles /\ d \in Doubles /\ i.imm \in Doubles /\ i.rd \in Regs /\ m.pc \in Doubles
      /\ i.op \in Ops /\ Encodable(i)
  BY Operands
<1>2. CASE i.op \in AddSub
  BY <1>1, <1>2, AddSubRange, PutOrderly, HandleCases
<1>3. CASE i.op \in Division
  <2>1. DivisionResult(i.op, j, k) \in Doubles
    BY <1>1, <1>3, DivisionRange
  <2>2. Orderly(m, Put(m, i.rd, DivisionResult(i.op, j, k))) /\ Orderly(m, Trap(m, "sigfpe"))
    BY <1>1, <2>1, PutOrderly, TrapOrderly
  <2>3. Handle(m, i, ub) = Trap(m, "sigfpe") \/ Handle(m, i, ub) = Put(m, i.rd, DivisionResult(i.op, j, k))
    BY <1>3, HandleCases
  <2> QED BY <2>2, <2>3
<1>4. CASE i.op \in Logic
  BY <1>1, <1>4, LogicRange, PutOrderly, HandleCases
<1>5. CASE i.op \in Shift
  <2>1. (i.op = "BYTEPICK_D" => i.imm < 8) /\ (i.op = "ROTRI_D" => i.imm < Double)
    BY <1>1 DEF Encodable, ByDouble
  <2>2. ShiftResult(i.op, j, k, i.imm) \in Doubles
    BY <1>1, <1>5, <2>1, ShiftRange
  <2> QED BY <1>1, <1>5, <2>2, PutOrderly, HandleCases
<1>6. CASE i.op \in FastLoads \cup FastStores
  BY <1>6, MemoryOrderly
<1>7. CASE i.op \in Branches
  <2>1. i.op \in Jumps \/ i.op \in ZeroTest \/ i.op \in Compare \/ i.op \in FlagTest
    BY <1>7 DEF Branches
  <2> QED BY <1>7, <2>1, JumpOrderly, HandleCases
<1>8. CASE i.op \in Upper
  <2>1. Handle(m, i, ub) = Put(m, i.rd, UpperResult(i.op, d, j, m.pc, i.imm))
    BY <1>8, HandleCases, ZenonT(60)
  <2>2. UpperResult(i.op, d, j, m.pc, i.imm) \in Doubles
    BY <1>1, <1>8, UpperRange
  <2> QED BY <1>1, <2>1, <2>2, PutOrderly
<1>9. CASE i.op \in BitString
  BY <1>9, BitStringOrderly, HandleCases
<1>10. CASE i.op \in System
  BY <1>10, SystemOrderly, HandleCases
<1>11. CASE i.op \in Multiply
  <2>1. i.op = "ROTRI_W" => i.imm < Word
    BY <1>1 DEF Encodable, ByWord
  <2> QED BY <1>1, <1>11, <2>1, MultiplyRange, PutOrderly, HandleCases
<1>12. CASE i.op \in Counting
  BY <1>1, <1>12, CountingRange, PutOrderly, HandleCases
<1>13. CASE i.op \in DOMAIN Atomic
  BY <1>13, AtomicOrderly, HandleCases
<1>14. CASE i.op \in DOMAIN LoadLinked \cup DOMAIN StoreConditional
  BY <1>14, LinkedOrderly, HandleCases
<1> QED
  BY <1>1, <1>2, <1>3, <1>4, <1>5, <1>6, <1>7, <1>8, <1>9, <1>10, <1>11, <1>12, <1>13, <1>14 DEF Ops, FastLoads, FastStores

---------------------------------------------------------------------------
(* The fast dispatch leaves an orderly state behind, also where it parts   *)
(* from the handlers.                                                      *)

(* Only a handler and a bit string can meet an undefined operation.        *)
LEMMA DispatchDefined ==
  ASSUME NEW m, NEW i, NEW ub,
         Optimized(i, m.pc).bc \in Popular \cup Middle \cup Late \cup (Upper \ {"LU52I_D"}) \cup FastStores
           \cup FastLoads \cup Branches
  PROVE  Dispatch(m, i, ub) = Dispatch(m, i, TRUE)
<1> DEFINE f == Optimized(i, m.pc)
<1>1. CASE f.bc \in Popular
  BY <1>1, DispatchCases, ZenonT(60)
<1>2. CASE f.bc \in Middle
  BY <1>2, DispatchCases, ZenonT(60)
<1>3. CASE f.bc \in Late
  BY <1>3, DispatchCases, ZenonT(60)
<1>4. CASE f.bc \in Upper \ {"LU52I_D"}
  BY <1>4, DispatchCases, ZenonT(60)
<1>5. CASE f.bc \in FastStores \cup FastLoads
  BY <1>5, DispatchCases
<1>6. CASE f.bc \in Branches
  BY <1>6, DispatchCases
<1> QED BY <1>1, <1>2, <1>3, <1>4, <1>5, <1>6

LEMMA ControlOrderly ==
  ASSUME NEW m, Ready(m), NEW i, NEW ub, NEW f, f = Optimized(i, m.pc), f.imm \in Doubles,
         f.bc \in {"INVALID", "NOP", "STOP", "SYSCALL", "SYSCALLIMM"}
  PROVE  Orderly(m, Dispatch(m, i, ub))
<1>1. Dispatch(m, i, ub) = StepOver(ControlFast(m, f))
  BY DispatchCases
<1>2. Cast(m.reg[REG_A7], Word) \in Doubles
  <2>1. m.reg[REG_A7] \in Doubles
    BY RegisterAssumption DEF Ready, Machine
  <2>2. m.reg[REG_A7] \in Int /\ Word \in Nat /\ Word <= Double
    BY <2>1, DoublesInt, Widths
  <2> QED BY <2>2, CastDoubles
<1>3. Orderly(m, ControlFast(m, f))
  BY <1>2, TrapOrderly, SelfOrderly, CallOrderly DEF ControlFast
<1> QED BY <1>1, <1>3, StepOverOrderly

LEMMA MoveOrderly ==
  ASSUME NEW m, Ready(m), NEW i \in Encodings, Bytecode(i) = "MOVE", NEW ub
  PROVE  Orderly(m, Dispatch(m, i, ub))
<1> DEFINE f == Optimized(i, m.pc)
<1>1. f = PackMove(i)
  BY DEF Optimized
<1>2. /\ f.bc \in {"STOP", "NOP", "MOVE"} /\ f.rd = i.rd /\ f.rk = i.rk /\ f.imm \in {0, i.imm}
  BY <1>1 DEF PackMove, Packed
<1>3. f.imm \in Doubles /\ m.reg[i.rk] \in Doubles /\ i.rd \in Regs
  BY <1>2, Operands, ZeroDouble
<1>4. CASE f.bc \in {"STOP", "NOP"}
  <2> HIDE DEF f
  <2>1. f = Optimized(i, m.pc)
    BY DEF f
  <2> QED BY <1>3, <1>4, <2>1, ControlOrderly
<1>5. CASE f.bc = "MOVE"
  <2>1. Dispatch(m, i, ub) = StepOver(Put(m, i.rd, PopularResult("MOVE", m.reg[f.rj], m.reg[i.rk], f.imm)))
    BY <1>2, <1>5, DispatchCases DEF Popular
  <2>2. PopularResult("MOVE", m.reg[f.rj], m.reg[i.rk], f.imm) = m.reg[i.rk]
    BY DEF PopularResult
  <2> QED BY <1>3, <2>1, <2>2, PutOrderly, StepOverOrderly
<1> QED BY <1>2, <1>4, <1>5

(* A result for the zero register that is not computed.                    *)
LEMMA NopOrderly ==
  ASSUME NEW m, Ready(m), NEW i \in Encodings, Bytecode(i) = i.op, i.op \in NopIfZero, i.rd = 0, NEW ub
  PROVE  Orderly(m, Dispatch(m, i, ub))
<1> DEFINE f == Optimized(i, m.pc)
<1>1. f = Packed(i, "NOP", i.imm)
  BY DEF Optimized, NopIfZero
<1>2. f.bc = "NOP" /\ f.imm = i.imm
  BY <1>1 DEF Packed
<1>3. f.imm \in Doubles
  BY <1>2, Operands
<1> HIDE DEF f
<1>4. f = Optimized(i, m.pc)
  BY DEF f
<1> QED BY <1>2, <1>3, <1>4, ControlOrderly

LEMMA BitStringFastOrderly ==
  ASSUME NEW m, Ready(m), NEW i \in Encodings, i.op \in BitString \ NoBytecode, i.rd # 0, NEW ub
  PROVE  Orderly(m, Dispatch(m, i, ub))
<1> DEFINE f == Optimized(i, m.pc)  d == m.reg[i.rd]  j == m.reg[i.rj]  lsb == Lsb(i.imm)
           ones == Ones(i.imm, Double, ub)  short == Ones(i.imm, Word, ub)  mask == Shl(ones, lsb)
           pickD == And(Shr(j, lsb), ones)  pickW == And(Shr(Cast(j, Word), lsb), short)
           ins == Or(And(d, Not(mask)), And(Shl(j, lsb), mask))
<1>1. f = Rewritten(i, PackedImm(i)) /\ PackedImm(i) = i.imm
  BY Rewrite DEF Ops, BitString, NoBytecode, Branches, Compare, ZeroTest, FlagTest, Jumps, Counting, Atomic,
    LoadLinked, StoreConditional, PackedImm, SignedImm12, SignedImm14, LoadImm, StoreImm, LoadPtr, StorePtr
<1>2. f.bc = i.op /\ f.rd = i.rd /\ f.rj = i.rj /\ f.imm = i.imm
  BY <1>1 DEF Rewritten
<1>3. Dispatch(m, i, ub) = StepOver(BitStringFast(m, f, ub))
  BY <1>2, DispatchCases
<1>4. i.op = "BSTRPICK_D" => BitStringFast(m, f, ub) = Put(m, i.rd, pickD)
  BY <1>2 DEF BitStringFast
<1>5. i.op = "BSTRPICK_W" => BitStringFast(m, f, ub) = Put(m, i.rd, pickW)
  BY <1>2 DEF BitStringFast
<1>6. i.op = "BSTRINS_D" => BitStringFast(m, f, ub) = IF Msb(i.imm) >= lsb THEN Put(m, i.rd, ins) ELSE m
  BY <1>2 DEF BitStringFast
<1>7. ones \in Nat /\ short \in Nat /\ lsb \in Nat /\ j \in Doubles /\ d \in Doubles /\ i.rd \in Regs
  BY MaskNat, Operands
<1> HIDE DEF f, d, j, lsb, ones, short
<1>8. pickD \in Doubles /\ pickW \in Doubles /\ ins \in Doubles
  BY <1>7, BitStringRange
<1> HIDE DEF pickD, pickW, ins
<1>9. i.op \in {"BSTRPICK_D", "BSTRPICK_W", "BSTRINS_D"}
  BY DEF BitString, NoBytecode
<1>10. Orderly(m, BitStringFast(m, f, ub))
  BY <1>4, <1>5, <1>6, <1>7, <1>8, <1>9, PutOrderly, SelfOrderly
<1> QED BY <1>3, <1>10, StepOverOrderly

(* The two results that differ from the handler's, when they do.           *)
LEMMA OddValueOrderly ==
  ASSUME NEW m, Ready(m), NEW i \in Encodings, i.op \in {"SLTUI", "PCADDU18I"}, i.rd # 0 \/ i.op \notin NopIfZero
  PROVE  Orderly(m, Dispatch(m, i, TRUE))
<1> DEFINE f == Optimized(i, m.pc)
<1>1. f = Rewritten(i, i.imm)
  BY Rewrite DEF Ops, Multiply, Upper, NoBytecode, Branches, Compare, ZeroTest, FlagTest, Jumps, Counting, Atomic,
    LoadLinked, StoreConditional, PackedImm, SignedImm12, SignedImm14, LoadImm, StoreImm, LoadPtr, StorePtr
<1>2. f.bc = i.op /\ f.rd = i.rd /\ f.rj = i.rj /\ f.rk = i.rk /\ f.imm = i.imm
  BY <1>1 DEF Rewritten
<1>3. i.rd \in Regs /\ m.pc \in Int /\ i.imm \in Doubles
  BY Operands
<1>4. CASE i.op = "SLTUI"
  <2>1. Dispatch(m, i, TRUE) = StepOver(Put(m, i.rd, LateResult("SLTUI", m.reg[i.rj], m.reg[i.rk], i.imm)))
    BY <1>2, <1>4, DispatchCases DEF Late
  <2>2. LateResult("SLTUI", m.reg[i.rj], m.reg[i.rk], i.imm) \in Doubles
    BY TruthRange DEF LateResult
  <2> QED BY <1>3, <2>1, <2>2, PutOrderly, StepOverOrderly
<1>5. CASE i.op = "PCADDU18I"
  <2>1. Dispatch(m, i, TRUE) = StepOver(Put(m, i.rd, UpperFast("PCADDU18I", m.reg[i.rd], m.pc, i.imm)))
    BY <1>2, <1>5, DispatchCases DEF Upper
  <2>2. UpperFast("PCADDU18I", m.reg[i.rd], m.pc, i.imm) = Wrap(m.pc + Signed(i.imm, Imm20) * 2^By18)
    BY DEF UpperFast
  <2>3. m.pc + Signed(i.imm, Imm20) * 2^By18 \in Int
    BY <1>3, ImmediateInt
  <2>4. Wrap(m.pc + Signed(i.imm, Imm20) * 2^By18) \in Doubles
    BY <2>3, WrapRange
  <2> QED BY <1>3, <2>1, <2>2, <2>4, PutOrderly, StepOverOrderly
<1> QED BY <1>4, <1>5

LEMMA BranchFastOrderly ==
  ASSUME NEW m, Ready(m), NEW i \in Encodings, i.op \in Branches \ {"JIRL"}, NEW ub
  PROVE  Orderly(m, Dispatch(m, i, ub))
<1> DEFINE f == Optimized(i, m.pc)
<1>1. Bytecode(i) = i.op
  BY DEF Bytecode, MoveBits, NoBytecode, Branches, Compare, ZeroTest, FlagTest, Jumps, Counting, Atomic, LoadLinked,
    StoreConditional
<1>2. i.op \notin NopIfZero /\ i.op # "MOVE"
  BY DEF NopIfZero, Branches, Compare, ZeroTest, FlagTest, Jumps
<1>3. \E offset, kept \in Int : f = PackOffset(i, m.pc, offset, kept)
  <2> DEFINE jump == Signed(i.imm, Offs26) * 4  near == Signed(i.imm, Imm16) * 4  far == Signed(i.imm, Offs21) * 4
  <2>1. jump \in Int /\ near \in Int /\ far \in Int /\ Half \in Nat \ {0}
    BY OffsetsInt, Widths
  <2>2. Signed(near, Half) \in Int /\ Signed(far, Half) \in Int
    BY <2>1, SignedRange
  <2>3. CASE i.op \in {"B", "BL"}
    <3>1. f = PackOffset(i, m.pc, jump, jump)
      BY <1>1, <1>2, <2>3 DEF Optimized, Compare, ZeroTest, FlagTest, SignedImm12, SignedImm14, LoadImm, StoreImm,
        LoadPtr, StorePtr
    <3> QED BY <2>1, <3>1
  <2>4. CASE i.op \in Compare
    <3>1. f = PackOffset(i, m.pc, near, Signed(near, Half))
      BY <1>1, <1>2, <2>4 DEF Optimized, Compare, ZeroTest, FlagTest, SignedImm12, SignedImm14, LoadImm, StoreImm,
        LoadPtr, StorePtr
    <3> QED BY <2>1, <2>2, <3>1
  <2>5. CASE i.op \in ZeroTest \cup FlagTest
    <3>1. f = PackOffset(i, m.pc, far, Signed(far, Half))
      BY <1>1, <1>2, <2>5 DEF Optimized, Compare, ZeroTest, FlagTest, SignedImm12, SignedImm14, LoadImm, StoreImm,
        LoadPtr, StorePtr
    <3> QED BY <2>1, <2>2, <3>1
  <2> QED BY <2>3, <2>4, <2>5 DEF Branches, Jumps
<1>4. PICK offset, kept \in Int : f = PackOffset(i, m.pc, offset, kept)
  BY <1>3
<1>5. i.imm \in Doubles /\ m \in Machine /\ m.trap = "none" /\ m.pc \in Int
  BY Operands DEF Ready
<1>6. CASE f = Packed(i, "INVALID", i.imm)
  <2>1. f.bc = "INVALID" /\ f.imm = i.imm
    BY <1>6 DEF Packed
  <2> HIDE DEF f
  <2>2. f = Optimized(i, m.pc)
    BY DEF f
  <2> QED BY <1>5, <2>1, <2>2, ControlOrderly
<1>7. CASE f = Packed(i, i.op, kept)
  <2>1. f.bc = i.op /\ f.imm = kept
    BY <1>7 DEF Packed
  <2>2. Dispatch(m, i, ub) = BranchFast(m, f)
    BY <2>1, DispatchCases
  <2>3. Wrap(m.pc + 4) \in Doubles /\ REG_RA \in Regs
    <3>1. m.pc + 4 \in Int
      BY <1>5
    <3> QED BY <3>1, WrapRange, RegisterAssumption
  <2>4. CASE i.op = "BL"
    <3> DEFINE l == Put(m, REG_RA, Wrap(m.pc + 4))
    <3>1. BranchFast(m, f) = IncrementPC(l, kept)
      BY <2>1, <2>4 DEF BranchFast
    <3>2. l \in Machine /\ l.trap = "none" /\ l.mem = m.mem
      BY <1>5, <2>3, PutMachine
    <3> HIDE DEF l
    <3> QED BY <2>2, <3>1, <3>2, IncrementOrderly
  <2>5. CASE i.op # "BL"
    <3>1. BranchFast(m, f) = IncrementPC(m, IF TakenFast(m, f) THEN kept ELSE 4)
      BY <2>1, <2>5 DEF BranchFast
    <3>2. (IF TakenFast(m, f) THEN kept ELSE 4) \in Int
      OBVIOUS
    <3> QED BY <1>5, <2>2, <3>1, <3>2, IncrementOrderly
  <2> QED BY <2>4, <2>5
<1> QED BY <1>4, <1>6, <1>7 DEF PackOffset

LEMMA DispatchOrderly ==
  ASSUME NEW m, Ready(m), NEW i \in Encodings, NEW ub
  PROVE  Orderly(m, Dispatch(m, i, ub))
<1> DEFINE f == Optimized(i, m.pc)
<1>1. i.op \in Ops
  BY Operands
<1>2. CASE Bytecode(i) = "MOVE"
  BY <1>2, MoveOrderly
<1>3. CASE i.op \in NoBytecode
  BY <1>3, FastFunction, InterpretOrderly
<1>4. CASE i.op \in Branches
  <2>1. CASE i.op = "JIRL"
    <3>1. Dispatch(m, i, TRUE) = Interpret(m, i, TRUE)
      BY <2>1, FastIndirect
    <3>2. f.bc = "JIRL"
      <4>1. Bytecode(i) = "JIRL"
        BY <2>1 DEF Bytecode, MoveBits, NoBytecode, Counting, Atomic, LoadLinked, StoreConditional
      <4> QED BY <4>1 DEF Optimized, NopIfZero, Packed, Compare, ZeroTest, FlagTest, SignedImm12, SignedImm14,
            LoadImm, StoreImm, LoadPtr, StorePtr
    <3>3. Dispatch(m, i, ub) = Dispatch(m, i, TRUE)
      BY <2>1, <3>2, <1>4, DispatchDefined
    <3> QED BY <3>1, <3>3, InterpretOrderly
  <2>2. CASE i.op # "JIRL"
    BY <1>4, <2>2, BranchFastOrderly
  <2> QED BY <2>1, <2>2
<1>5. ASSUME Bytecode(i) # "MOVE", i.op \notin NoBytecode, i.op \notin Branches PROVE Orderly(m, Dispatch(m, i, ub))
  <2>1. Bytecode(i) = i.op /\ ~(i.op = "OR" /\ i.rj = 0)
    BY <1>5 DEF Bytecode
  <2>2. CASE i.op \in NopIfZero /\ i.rd = 0
    BY <2>1, <2>2, NopOrderly
  <2>3. ASSUME i.rd # 0 \/ i.op \notin NopIfZero PROVE Orderly(m, Dispatch(m, i, ub))
    <3>1. CASE i.op \in {"SYSCALL", "NOP"}
      <4>1. f = Packed(i, IF i.op = "SYSCALL" /\ i.imm # 0 THEN "SYSCALLIMM" ELSE i.op, i.imm)
        BY <2>1, <3>1 DEF Optimized, NopIfZero, Compare, ZeroTest, FlagTest, SignedImm12, SignedImm14,
          LoadImm, StoreImm, LoadPtr, StorePtr
      <4>2. f.bc \in {"SYSCALL", "SYSCALLIMM", "NOP"} /\ f.imm \in Doubles
        BY <3>1, <4>1, Operands DEF Packed
      <4> HIDE DEF f
      <4>3. f = Optimized(i, m.pc)
        BY DEF f
      <4> QED BY <4>2, <4>3, ControlOrderly
    <3>2. CASE i.op \in BitString
      <4>1. i.rd # 0
        BY <1>5, <2>3, <3>2 DEF BitString, NopIfZero, NoBytecode
      <4> QED BY <1>5, <3>2, <4>1, BitStringFastOrderly
    <3>3. ASSUME i.op \notin {"SYSCALL", "NOP"} \cup BitString PROVE Orderly(m, Dispatch(m, i, ub))
      <4>1. f.bc = i.op
        <5>1. f = Rewritten(i, PackedImm(i))
          BY <1>1, <1>5, <2>1, <2>3, <3>3, Rewrite
        <5> QED BY <5>1 DEF Rewritten
      <4>2. \/ i.op \in AddSub \/ i.op \in Division \/ i.op \in Logic \/ i.op \in Shift \/ i.op \in Counting
            \/ i.op \in Multiply \/ i.op \in Upper \/ i.op \in FastLoads \/ i.op \in FastStores
        BY <1>1, <1>5, <3>3 DEF Ops, FastLoads, FastStores, System, Hints, NoBytecode
      <4>3. i.op \in Popular \cup Middle \cup Late \cup (Upper \ {"LU52I_D"}) \cup FastStores \cup FastLoads
        BY <1>5, <4>2 DEF AddSub, Division, Logic, Shift, Counting, Multiply, Upper, NoBytecode, Popular, Middle, Late
      <4>4. Dispatch(m, i, ub) = Dispatch(m, i, TRUE)
        BY <4>1, <4>3, DispatchDefined
      <4>5. CASE i.op \in {"SLTUI", "PCADDU18I"}
        BY <2>3, <4>4, <4>5, OddValueOrderly
      <4>6. ASSUME i.op \notin {"SLTUI", "PCADDU18I"} PROVE Dispatch(m, i, TRUE) = Interpret(m, i, TRUE)
        <5>1. CASE i.op \in AddSub
          BY <1>5, <2>3, <5>1, FastAddSub
        <5>2. CASE i.op \in Division
          BY <1>5, <2>3, <5>2, FastModulus
        <5>3. CASE i.op \in Logic
          BY <1>5, <2>1, <2>3, <5>3, FastLogic
        <5>4. CASE i.op \in Shift
          BY <1>5, <2>3, <5>4, FastShift
        <5>5. CASE i.op \in Counting
          BY <1>5, <2>3, <5>5, FastCounting
        <5>6. CASE i.op \in Multiply
          BY <1>5, <2>3, <4>6, <5>6, FastMultiply
        <5>7. CASE i.op \in Upper
          BY <2>3, <4>6, <5>7, FastUpper
        <5>8. CASE i.op \in FastLoads \cup FastStores
          <6>1. i.op \in FastLoads => i.rd # 0
            BY <1>5, <2>3 DEF FastLoads, LoadImm, LoadPtr, LoadIdx, NoBytecode, NopIfZero
          <6>2. i.op = "STX_B" => i.rd # 0
            BY <2>3 DEF NopIfZero
          <6> QED BY <1>5, <5>8, <6>1, <6>2, FastMemory
        <5> QED BY <4>2, <5>1, <5>2, <5>3, <5>4, <5>5, <5>6, <5>7, <5>8
      <4> QED BY <4>4, <4>5, <4>6, InterpretOrderly
    <3> QED BY <3>1, <3>2, <3>3
  <2> QED BY <2>2, <2>3
<1> QED BY <1>2, <1>3, <1>4, <1>5

---------------------------------------------------------------------------
(* So does the emitted code, except for a store that strays.               *)

(* A result is the handler's, or is not computed at all.                   *)
LEMMA AssignOrderly ==
  ASSUME NEW m, Ready(m), NEW i \in Encodings, NEW ub, NEW v,
         Emitted(m, i, ub) = StepOver(Assign(m, i.rd, v)), Emitted(m, i, TRUE) = StepOver(Assign(m, i.rd, v)),
         i.rd # 0 => Emitted(m, i, TRUE) = Interpret(m, i, TRUE)
  PROVE  Orderly(m, Emitted(m, i, ub))
<1>1. CASE i.rd = 0
  <2>1. Assign(m, i.rd, v) = m
    BY <1>1 DEF Assign
  <2> QED BY <2>1, SelfOrderly, StepOverOrderly
<1>2. CASE i.rd # 0
  BY <1>2, InterpretOrderly
<1> QED BY <1>1, <1>2

LEMMA AssignRangeOrderly ==
  ASSUME NEW m, Ready(m), NEW rd \in Regs, NEW v \in Doubles
  PROVE  Orderly(m, StepOver(Assign(m, rd, v)))
<1>1. Orderly(m, Assign(m, rd, v))
  BY PutOrderly, SelfOrderly DEF Assign
<1> QED BY <1>1, StepOverOrderly

LEMMA EmittedAddImmOrderly ==
  ASSUME NEW m, Ready(m), NEW i \in Encodings, i.op \in AddImm, NEW ub
  PROVE  Orderly(m, Emitted(m, i, ub))
<1> DEFINE v == EmittedAddImm(m, i)
<1>1. Emitted(m, i, ub) = StepOver(Assign(m, i.rd, v)) /\ Emitted(m, i, TRUE) = StepOver(Assign(m, i.rd, v))
  BY EmittedCases, Operands
<1>2. CASE i.op = "ADDI_W" /\ i.rj # 0 /\ i.rd = i.rj
  <2>1. Reg(m, i.rj) = m.reg[i.rj] /\ m.reg[i.rj] \in Int /\ i.imm \in Doubles /\ i.rd \in Regs
    BY RegReads, Operands
  <2>2. v = Wrap(m.reg[i.rj] + Signed(i.imm, Imm12))
    BY <1>2, <2>1 DEF EmittedAddImm
  <2>3. m.reg[i.rj] + Signed(i.imm, Imm12) \in Int
    BY <2>1, ImmediateInt
  <2>4. v \in Doubles
    BY <2>2, <2>3, WrapRange
  <2> HIDE DEF v
  <2> QED BY <1>1, <2>1, <2>4, AssignRangeOrderly
<1>3. CASE ~(i.op = "ADDI_W" /\ i.rj # 0 /\ i.rd = i.rj)
  <2>1. i.rd # 0 => Emitted(m, i, TRUE) = Interpret(m, i, TRUE)
    BY <1>3, EmittedAddImmAgrees
  <2> HIDE DEF v
  <2> QED BY <1>1, <2>1, AssignOrderly
<1> QED BY <1>2, <1>3

LEMMA EmittedDivisionOrderly ==
  ASSUME NEW m, Ready(m), NEW i \in Encodings, i.op \in Division, NEW ub
  PROVE  Orderly(m, Emitted(m, i, ub))
<1> DEFINE j == m.reg[i.rj]  k == m.reg[i.rk]  v == EmittedDivision(i.op, j, k)
<1>1. Emitted(m, i, ub) = StepOver(Assign(m, i.rd, v))
  BY EmittedCases, Operands
<1>2. j \in Doubles /\ k \in Doubles /\ i.rd \in Regs
  BY Operands
<1>3. v \in Doubles
  BY <1>2, DivisionRange, ZeroDouble DEF EmittedDivision
<1> HIDE DEF v
<1> QED BY <1>1, <1>2, <1>3, AssignRangeOrderly

LEMMA EmittedBitStringOrderly ==
  ASSUME NEW m, Ready(m), NEW i \in Encodings, i.op \in BitString, NEW ub
  PROVE  Orderly(m, Emitted(m, i, ub))
<1> DEFINE j == m.reg[i.rj]   d == m.reg[i.rd]   lsb == Lsb(i.imm)
           n == IF i.op \in {"BSTRINS_D", "BSTRPICK_D"} THEN Double ELSE Word
           ones == Ones(i.imm, n, ub)
           mask == Shl(ones, lsb)
           pickD == And(Shr(j, lsb), ones)
           pickW == Sext(And(Shr(Cast(j, Word), lsb), ones), Word)
           ins == Sext(Or(And(Cast(d, n), Not(mask)), And(Shl(j, lsb), mask)), n)
<1>1. Emitted(m, i, ub) = StepOver(EmittedBitString(m, i, ub)) /\ Reg(m, i.rj) = j /\ Reg(m, i.rd) = d
  BY EmittedCases, Operands, RegReads
<1>2. i.op = "BSTRPICK_D" => EmittedBitString(m, i, ub) = Assign(m, i.rd, pickD)
  BY <1>1 DEF EmittedBitString
<1>3. i.op = "BSTRPICK_W" => EmittedBitString(m, i, ub) = Assign(m, i.rd, pickW)
  BY <1>1 DEF EmittedBitString
<1>4. i.op \in {"BSTRINS_W", "BSTRINS_D"} =>
        EmittedBitString(m, i, ub) = IF Msb(i.imm) < lsb THEN m ELSE Assign(m, i.rd, ins)
  BY <1>1 DEF EmittedBitString
<1>5. j \in Doubles /\ d \in Doubles /\ n \in {Word, Double} /\ lsb \in Nat /\ ones \in Nat /\ i.rd \in Regs
  BY Operands, MaskNat
<1> HIDE DEF j, d, lsb, n, ones
<1>6. pickD \in Doubles /\ pickW \in Doubles /\ ins \in Doubles
  BY <1>5, BitStringRange
<1> HIDE DEF pickD, pickW, ins
<1>7. /\ Orderly(m, StepOver(Assign(m, i.rd, pickD))) /\ Orderly(m, StepOver(Assign(m, i.rd, pickW)))
      /\ Orderly(m, StepOver(Assign(m, i.rd, ins))) /\ Orderly(m, StepOver(m))
  BY <1>5, <1>6, AssignRangeOrderly, SelfOrderly, StepOverOrderly
<1> QED BY <1>1, <1>2, <1>3, <1>4, <1>7 DEF BitString

(* The emitted check lets no store below the writable part, and one that   *)
(* does not stray none behind the arena.                                   *)
LEMMA EmittedStoreTidy ==
  ASSUME NEW m, Ready(m), NEW v \in Doubles, NEW a \in Nat, NEW n \in Accesses
  PROVE  /\ Tidy(m, EmittedStore(m, v, a, n))
         /\ ArenaSize <= a /\ a < ArenaPtr + ArenaSize => EmittedStore(m, v, a, n).trap = "none"
         /\ ~(ArenaSize <= a /\ a < ArenaPtr + ArenaSize) => Orderly(m, EmittedStore(m, v, a, n))
<1> USE ArenaAssumption
<1>1. CASE a < DataStart \/ a >= ArenaPtr + ArenaSize
  <2>1. EmittedStore(m, v, a, n) = Trap(m, "fault")
    BY <1>1 DEF EmittedStore
  <2>2. Orderly(m, Trap(m, "fault"))
    BY TrapOrderly
  <2>3. ~(ArenaSize <= a /\ a < ArenaPtr + ArenaSize)
    BY <1>1
  <2> QED BY <2>1, <2>2, <2>3 DEF Orderly
<1>2. CASE ~(a < DataStart \/ a >= ArenaPtr + ArenaSize)
  <2>1. EmittedStore(m, v, a, n) = Poke(m, a, n, v)
    BY <1>2 DEF EmittedStore
  <2>2. DataStart <= a /\ (~(ArenaSize <= a /\ a < ArenaPtr + ArenaSize) => Writable(a))
    BY <1>2 DEF Writable
  <2> QED BY <2>1, <2>2, PokeTidy
<1> QED BY <1>1, <1>2

LEMMA EmittedLoadOrderly ==
  ASSUME NEW m, Ready(m), NEW op, NEW rd \in Regs, NEW a \in Nat, NEW n \in Accesses
  PROVE  Orderly(m, EmittedLoad(m, op, rd, a, n))
  BY LoadOrderly, SelfOrderly DEF EmittedLoad

LEMMA EmittedMemoryOrderly ==
  ASSUME NEW m, Ready(m), NEW i \in Encodings, i.op \in Memory
  PROVE  /\ ~Strays(m, i) => Orderly(m, EmittedMemory(m, i))
         /\ Strays(m, i) => Tidy(m, EmittedMemory(m, i)) /\ EmittedMemory(m, i).trap = "none"
<1> DEFINE atImm == ImmAddress(m.reg[i.rj], i.imm)  atPtr == PtrAddress(m.reg[i.rj], i.imm)
           atIdx == Wrap(m.reg[i.rj] + m.reg[i.rk])
<1> USE DEF LoadImm, StoreImm, LoadPtr, StorePtr, LoadIdx, StoreIdx
<1>1. atImm \in Nat /\ atPtr \in Nat /\ atIdx \in Nat /\ i.rd \in Regs /\ m.reg[i.rd] \in Doubles
  BY Addressed, Operands
<1>2. \A r : Reg(m, r) = m.reg[r]
  BY RegReads
<1>3. CASE i.op \in DOMAIN LoadImm
  <2>1. EmittedMemory(m, i) = EmittedLoad(m, i.op, i.rd, atImm, LoadImm[i.op]) /\ LoadImm[i.op] \in Accesses
    BY <1>2, <1>3 DEF EmittedMemory, ImmAddress, Accesses
  <2>2. ~Strays(m, i)
    BY <1>3 DEF Strays
  <2> QED BY <1>1, <2>1, <2>2, EmittedLoadOrderly
<1>4. CASE i.op \in DOMAIN LoadPtr
  <2>1. EmittedMemory(m, i) = EmittedLoad(m, i.op, i.rd, atPtr, LoadPtr[i.op]) /\ LoadPtr[i.op] \in Accesses
    BY <1>2, <1>4 DEF EmittedMemory, PtrAddress, Accesses
  <2>2. ~Strays(m, i)
    BY <1>4 DEF Strays
  <2> QED BY <1>1, <2>1, <2>2, EmittedLoadOrderly
<1>5. CASE i.op \in DOMAIN LoadIdx
  <2>1. EmittedMemory(m, i) = EmittedLoad(m, i.op, i.rd, atIdx, LoadIdx[i.op]) /\ LoadIdx[i.op] \in Accesses
    BY <1>2, <1>5 DEF EmittedMemory, Accesses
  <2>2. ~Strays(m, i)
    BY <1>5 DEF Strays
  <2> QED BY <1>1, <2>1, <2>2, EmittedLoadOrderly
<1>6. CASE i.op \in DOMAIN StoreImm
  <2>1. EmittedMemory(m, i) = EmittedStore(m, m.reg[i.rd], atImm, StoreImm[i.op]) /\ StoreImm[i.op] \in Accesses
    BY <1>2, <1>6 DEF EmittedMemory, ImmAddress, Accesses
  <2>2. Strays(m, i) <=> ArenaSize <= atImm /\ atImm < ArenaPtr + ArenaSize
    BY <1>6 DEF Strays, StoreAddress
  <2> HIDE DEF atImm, atPtr, atIdx
  <2> QED BY <1>1, <2>1, <2>2, EmittedStoreTidy
<1>7. CASE i.op \in DOMAIN StorePtr
  <2>1. EmittedMemory(m, i) = EmittedStore(m, m.reg[i.rd], atPtr, StorePtr[i.op]) /\ StorePtr[i.op] \in Accesses
    BY <1>2, <1>7 DEF EmittedMemory, PtrAddress, Accesses
  <2>2. Strays(m, i) <=> ArenaSize <= atPtr /\ atPtr < ArenaPtr + ArenaSize
    BY <1>7 DEF Strays, StoreAddress
  <2> HIDE DEF atImm, atPtr, atIdx
  <2> QED BY <1>1, <2>1, <2>2, EmittedStoreTidy
<1>8. CASE i.op \in DOMAIN StoreIdx
  <2>1. EmittedMemory(m, i) = EmittedStore(m, m.reg[i.rd], atIdx, StoreIdx[i.op]) /\ StoreIdx[i.op] \in Accesses
    BY <1>2, <1>8 DEF EmittedMemory, Accesses
  <2>2. Strays(m, i) <=> ArenaSize <= atIdx /\ atIdx < ArenaPtr + ArenaSize
    BY <1>8 DEF Strays, StoreAddress
  <2> HIDE DEF atImm, atPtr, atIdx
  <2> QED BY <1>1, <2>1, <2>2, EmittedStoreTidy
<1> QED BY <1>3, <1>4, <1>5, <1>6, <1>7, <1>8 DEF Memory

LEMMA EmittedControlOrderly ==
  ASSUME NEW m, Ready(m), NEW i \in Encodings, i.op \in {"SYSCALL", "OR"} \cup Hints
  PROVE  Orderly(m, EmittedControl(m, i))
<1>1. Cast(m.reg[REG_A7], Word) \in Doubles /\ i.imm \in Doubles
  <2>1. m.reg[REG_A7] \in Doubles
    BY RegisterAssumption DEF Ready, Machine
  <2>2. m.reg[REG_A7] \in Int /\ Word \in Nat /\ Word <= Double
    BY <2>1, DoublesInt, Widths
  <2> QED BY <2>2, CastDoubles, Operands
<1>2. CASE i.op = "SYSCALL"
  <2> DEFINE n == IF i.imm # 0 THEN i.imm ELSE Cast(m.reg[REG_A7], Word)
  <2>1. EmittedControl(m, i) = SystemCall(m, n)
    BY <1>2 DEF EmittedControl, Hints
  <2>2. n \in Doubles
    BY <1>1
  <2> HIDE DEF n
  <2> QED BY <2>1, <2>2, CallOrderly
<1>3. CASE i.op = "OR"
  <2>1. EmittedControl(m, i) = Trap(m, "stop")
    BY <1>3 DEF EmittedControl, Hints
  <2> QED BY <2>1, TrapOrderly
<1>4. CASE i.op \in Hints
  <2>1. EmittedControl(m, i) = m
    BY <1>4 DEF EmittedControl, Hints
  <2> QED BY <2>1, SelfOrderly
<1> QED BY <1>2, <1>3, <1>4

LEMMA EmittedBranchOrderly ==
  ASSUME NEW m, Ready(m), NEW i \in Encodings, i.op \in Branches
  PROVE  Orderly(m, EmittedBranch(m, i))
<1> DEFINE link == Wrap(m.pc + 4)
<1>1. m \in Machine /\ m.trap = "none" /\ m.pc \in Int /\ i.rd \in Regs /\ m.reg[i.rj] \in Int /\ REG_RA \in Regs
  BY Operands, RegisterAssumption DEF Ready
<1>2. link \in Doubles
  <2>1. m.pc + 4 \in Int
    BY <1>1
  <2> QED BY <2>1, WrapRange
<1> HIDE DEF link
<1>3. \A r \in Regs : Put(m, r, link) \in Machine /\ Put(m, r, link).trap = "none" /\ Put(m, r, link).mem = m.mem
  BY <1>1, <1>2, PutMachine
<1>4. CASE i.op = "JIRL"
  <2> DEFINE l == Assign(m, i.rd, link)  v == Wrap(m.reg[i.rj] + Signed(i.imm, Imm16) * 4)
  <2>1. EmittedBranch(m, i) = [l EXCEPT !.pc = v]
    BY <1>4, RegReads DEF EmittedBranch, link
  <2>2. m.reg[i.rj] + Signed(i.imm, Imm16) * 4 \in Int
    BY <1>1, OffsetsInt
  <2>3. v \in Doubles
    BY <2>2, WrapRange
  <2>4. l \in Machine /\ l.trap = "none" /\ l.mem = m.mem
    BY <1>1, <1>3 DEF Assign
  <2> HIDE DEF l, v
  <2> QED BY <2>1, <2>3, <2>4, BranchOrderly
<1>5. CASE i.op # "JIRL"
  <2> DEFINE l == IF i.op = "BL" THEN Put(m, REG_RA, link) ELSE m
             n == IF EmittedTaken(m, i) THEN Offset(i) ELSE 4
  <2>1. EmittedBranch(m, i) = IncrementPC(l, n)
    BY <1>5 DEF EmittedBranch, Offset, link
  <2>2. l \in Machine /\ l.trap = "none" /\ l.mem = m.mem
    BY <1>1, <1>3
  <2>3. n \in Int
    BY OffsetsInt DEF Offset
  <2> HIDE DEF l, n
  <2> QED BY <2>1, <2>2, <2>3, IncrementOrderly
<1> QED BY <1>4, <1>5

LEMMA EmittedStrays ==
  ASSUME NEW m, Ready(m), NEW i \in Encodings, NEW ub, Strays(m, i)
  PROVE  Tidy(m, Emitted(m, i, ub)) /\ Emitted(m, i, ub).trap = "none"
<1>1. i.op \in Memory
  BY DEF Strays, Memory
<1>2. Emitted(m, i, ub) = StepOver(EmittedMemory(m, i))
  BY <1>1, EmittedCases, Operands
<1> QED BY <1>1, <1>2, EmittedMemoryOrderly, StepOverTidy

LEMMA EmittedOrderly ==
  ASSUME NEW m, Ready(m), NEW i \in Encodings, NEW ub, ~Strays(m, i)
  PROVE  Orderly(m, Emitted(m, i, ub))
<1> DEFINE j == m.reg[i.rj]  k == m.reg[i.rk]  stops == i.op = "OR" /\ i.rd = 0 /\ i.rj = 0 /\ i.rk = 0
<1>1. CASE i.op \in NotEmitted
  BY <1>1, EmittedCases, Operands, InterpretOrderly, StepOverOrderly
<1>2. CASE i.op \in Memory
  BY <1>2, EmittedCases, Operands, EmittedMemoryOrderly, StepOverOrderly
<1>3. CASE i.op \in PCRelative
  <2> DEFINE v == EmittedAddress(i.op, m.pc, i.imm)
  <2>1. Emitted(m, i, ub) = StepOver(Assign(m, i.rd, v)) /\ Emitted(m, i, TRUE) = StepOver(Assign(m, i.rd, v))
    BY <1>3, EmittedCases, Operands
  <2> HIDE DEF v
  <2> QED BY <1>3, <2>1, EmittedAddressAgrees, AssignOrderly
<1>4. CASE i.op \in AddImm
  BY <1>4, EmittedAddImmOrderly
<1>5. CASE i.op \in Arith
  <2> DEFINE v == EmittedArith(i.op, j, k, i.imm)
  <2>1. Emitted(m, i, ub) = StepOver(Assign(m, i.rd, v)) /\ Emitted(m, i, TRUE) = StepOver(Assign(m, i.rd, v))
    BY <1>5, EmittedCases, Operands
  <2> HIDE DEF v
  <2> QED BY <1>5, <2>1, EmittedArithAgrees, AssignOrderly
<1>6. CASE i.op \in Division
  BY <1>6, EmittedDivisionOrderly
<1>7. CASE i.op \in {"SYSCALL"} \cup Hints \/ stops
  <2>1. Emitted(m, i, ub) = StepOver(EmittedControl(m, i))
    BY <1>7, EmittedCases, Operands
  <2> QED BY <1>7, <2>1, EmittedControlOrderly, StepOverOrderly
<1>8. CASE i.op \in Logic /\ ~stops
  <2> DEFINE v == EmittedLogic(i.op, j, k, i.imm)
  <2>1. Emitted(m, i, ub) = StepOver(Assign(m, i.rd, v)) /\ Emitted(m, i, TRUE) = StepOver(Assign(m, i.rd, v))
    BY <1>8, EmittedCases, Operands, ZenonT(60)
  <2> HIDE DEF v
  <2> QED BY <1>8, <2>1, EmittedLogicAgrees, AssignOrderly
<1>9. CASE i.op \in EmittedShifts
  <2> DEFINE v == EmittedShift(i.op, j, k, i.imm)
  <2>1. Emitted(m, i, ub) = StepOver(Assign(m, i.rd, v)) /\ Emitted(m, i, TRUE) = StepOver(Assign(m, i.rd, v))
    BY <1>9, EmittedCases, Operands, ZenonT(60)
  <2> HIDE DEF v
  <2> QED BY <1>9, <2>1, EmittedShiftAgrees, AssignOrderly
<1>10. CASE i.op \in UpperAndByte
  <2> DEFINE v == EmittedUpper(i.op, m.reg[i.rd], j, k, i.imm)
  <2>1. Emitted(m, i, ub) = StepOver(Assign(m, i.rd, v)) /\ Emitted(m, i, TRUE) = StepOver(Assign(m, i.rd, v))
    BY <1>10, EmittedCases, Operands
  <2> HIDE DEF v
  <2> QED BY <1>10, <2>1, EmittedUpperAgrees, AssignOrderly
<1>11. CASE i.op \in BitString
  BY <1>11, EmittedBitStringOrderly
<1>12. CASE i.op \in Branches
  BY <1>12, EmittedCases, Operands, EmittedBranchOrderly
<1> QED BY <1>1, <1>2, <1>3, <1>4, <1>5, <1>6, <1>7, <1>8, <1>9, <1>10, <1>11, <1>12, EmittedGroups

---------------------------------------------------------------------------
(* Whatever the engines do, also where they differ and where an operation  *)
(* is undefined, they leave an orderly state behind, but for a stray store.*)

Left(e) == \/ Orderly(before, engine[e])
           \/ /\ e = "emitted" /\ Strays(before, last)
              /\ Tidy(before, engine[e]) /\ engine[e].trap = "none"

LEMMA InvOrderly == Inv => engine = [e \in Engines |-> engine[e]] /\ \A e \in Engines : Left(e)
<1> SUFFICES ASSUME Inv
             PROVE  engine = [e \in Engines |-> engine[e]] /\ \A e \in Engines : Left(e)
  OBVIOUS
<1>1. Ready(before)
  BY StartsReady DEF Inv
<1>2. CASE last = NoInstr /\ engine = [e \in Engines |-> before]
  BY <1>1, <1>2, SelfOrderly DEF Left
<1>3. CASE /\ last \in Instrs
           /\ \E ub \in Outcomes(before, last) : engine = Executed(before, last, ub)
  <2>1. last \in Encodings
    BY <1>3, InstructionAssumption
  <2>2. PICK ub : engine = Executed(before, last, ub)
    BY <1>3
  <2>3. /\ engine["handler"] = Interpret(before, last, ub["handler"])
        /\ engine["fast"] = Dispatch(before, last, ub["fast"])
        /\ engine["emitted"] = Emitted(before, last, ub["emitted"])
    BY <2>2 DEF Executed, Engines
  <2>4. /\ Orderly(before, Interpret(before, last, ub["handler"]))
        /\ Orderly(before, Dispatch(before, last, ub["fast"]))
    BY <1>1, <2>1, InterpretOrderly, DispatchOrderly
  <2>6. \/ Orderly(before, Emitted(before, last, ub["emitted"]))
        \/ /\ Strays(before, last) /\ Tidy(before, Emitted(before, last, ub["emitted"]))
           /\ Emitted(before, last, ub["emitted"]).trap = "none"
    BY <1>1, <2>1, EmittedOrderly, EmittedStrays
  <2>5. engine = [e \in Engines |-> engine[e]]
    BY <2>2 DEF Executed
  <2> QED BY <2>3, <2>4, <2>5, <2>6 DEF Engines, Left
<1> QED BY <1>2, <1>3 DEF Inv

(* Every register, flag and byte an engine leaves behind keeps its width.  *)
THEOREM TypeCorrect == Spec => []TypeOK
<1>1. Inv => TypeOK
  <2> SUFFICES ASSUME Inv PROVE TypeOK
    OBVIOUS
  <2>1. \A e \in Engines : engine[e] \in Machine
    BY InvOrderly DEF Left, Orderly, Tidy
  <2>2. engine = [e \in Engines |-> engine[e]]
    BY InvOrderly
  <2>3. engine \in [Engines -> Machine]
    BY <2>1, <2>2
  <2>4. before \in Machine
    BY StartsReady DEF Inv, Ready
  <2> QED BY <2>3, <2>4 DEF TypeOK
<1> QED BY <1>1, InvInit, InvNext, PTL DEF Spec

(* A faulting instruction has done none of its work, and no store of any   *)
(* engine reaches the program's code or read-only data, nor what is behind *)
(* the arena, but for the emitted stores that stray.                       *)
THEOREM FaultsAreAtomic == Spec => []FaultIsAtomic
<1>1. Inv => FaultIsAtomic
  BY InvOrderly DEF FaultIsAtomic, Left, Orderly, Tidy, Faults
<1> QED BY <1>1, InvInit, InvNext, PTL DEF Spec
=============================================================================
