------------------------ MODULE TranslatedBlockProofs ------------------------
(***************************************************************************)
(* For every program, every way to cut it into blocks and every choice of  *)
(* registers kept in local variables, compiled blocks do what the program  *)
(* does one instruction at a time, and their instruction counter is exact  *)
(* where it is looked at.  What emit() makes of a program is first brought *)
(* into a form without recursion (WellEmitted); the invariant then says    *)
(* where in a block control is, and what is not counted there.             *)
(***************************************************************************)
EXTENDS TranslatedBlock, TLAPS, WellFoundedInduction

(* Every non-empty set of naturals has a least element.                    *)
Less == {p \in Nat \X Nat : p[1] < p[2]}

LEMMA LessWellFounded == IsWellFoundedOn(Less, Nat)
  BY NatLessThanWellFounded DEF OpToRel, Less

LEMMA Minimum ==
  ASSUME NEW S \in SUBSET Nat, S # {}
  PROVE  \E x \in S : \A y \in S : x <= y
<1>1. PICK x \in S : \A y \in S : ~ (<<y, x>> \in Less)
  BY LessWellFounded, WFMin, Zenon
<1>2. \A y \in S : ~ (y < x)
  BY <1>1 DEF Less
<1> QED BY <1>2

(* What holds of 0, and of the successor of an address it holds of, holds  *)
(* of every address: there is no least address outside the set.            *)
LEMMA AddressInduction ==
  ASSUME NEW S, 0 \in S, \A a \in Addresses : a \in S /\ a + 1 \in Addresses => a + 1 \in S
  PROVE  Addresses \subseteq S
<1> SUFFICES ASSUME Addresses \ S # {} PROVE FALSE
  OBVIOUS
<1>1. Addresses \ S \in SUBSET Nat
  BY DEF Addresses
<1>2. PICK x \in Addresses \ S : \A y \in Addresses \ S : x <= y
  BY <1>1, Minimum
<1>3. x # 0 /\ x \in Nat /\ x < Size
  BY <1>2, TranslatedAssumption DEF Addresses
<1>4. x - 1 \in Addresses /\ (x - 1) + 1 = x
  BY <1>3, TranslatedAssumption DEF Addresses
<1>5. x - 1 \in S
  BY <1>2, <1>3, <1>4
<1> QED BY <1>2, <1>4, <1>5

(* A function defined along the addresses exists.                          *)
Along(V, v, step, f) ==
  /\ f \in [Addresses -> V]
  /\ \A a \in Addresses : f[a] = IF a = 0 THEN v ELSE step[<<a, f[a - 1]>>]

LEMMA Recursion ==
  ASSUME NEW V, NEW v \in V, NEW step \in [Addresses \X V -> V]
  PROVE  \E f : Along(V, v, step, f)
<1> DEFINE Good(n, f) == /\ f \in [0..n -> V] /\ f[0] = v
                         /\ \A a \in 1..n : f[a] = step[<<a, f[a - 1]>>]
           S == {n \in Addresses : \E f : Good(n, f)}
<1>1. 0 \in S
  <2> DEFINE f == [a \in 0..0 |-> v]
  <2>1. f \in [0..0 -> V] /\ f[0] = v
    OBVIOUS
  <2>2. 1..0 = {}
    OBVIOUS
  <2>3. Good(0, f)
    BY <2>1, <2>2
  <2> HIDE DEF Good, f
  <2> QED BY <2>3, TranslatedAssumption DEF Addresses
<1>2. ASSUME NEW n \in Addresses, n \in S, n + 1 \in Addresses PROVE n + 1 \in S
  <2>1. PICK f : Good(n, f)
    BY <1>2
  <2>n. n \in Nat
    BY DEF Addresses
  <2> DEFINE g == [a \in 0..(n + 1) |-> IF a = n + 1 THEN step[<<n + 1, f[n]>>] ELSE f[a]]
  <2>2. f[n] \in V /\ step[<<n + 1, f[n]>>] \in V
    BY <1>2, <2>1, <2>n
  <2>3. g \in [0..(n + 1) -> V] /\ g[0] = v
    BY <2>1, <2>2, <2>n
  <2>4. ASSUME NEW a \in 1..(n + 1) PROVE g[a] = step[<<a, g[a - 1]>>]
    <3>1. a \in Nat /\ a - 1 \in 0..n /\ g[a - 1] = f[a - 1]
      BY <2>n
    <3>2. CASE a = n + 1
      BY <3>1, <3>2, <2>n
    <3>3. CASE a # n + 1
      <4>1. a \in 1..n
        BY <3>3, <2>n
      <4> QED BY <4>1, <3>1, <3>3, <2>1, <2>n
    <3> QED BY <3>2, <3>3
  <2>5. Good(n + 1, g)
    BY <2>3, <2>4
  <2> HIDE DEF Good, g
  <2> QED BY <2>5, <1>2
<1>3. Addresses \subseteq S
  <2> HIDE DEF S
  <2> QED BY <1>1, <1>2, AddressInduction
<1>4. Size - 1 \in Addresses
  BY TranslatedAssumption DEF Addresses
<1>5. PICK f : Good(Size - 1, f)
  BY <1>3, <1>4
<1>6. f \in [Addresses -> V]
  BY <1>5 DEF Addresses
<1>7. ASSUME NEW a \in Addresses PROVE f[a] = IF a = 0 THEN v ELSE step[<<a, f[a - 1]>>]
  <2>1. a = 0 \/ a \in 1..(Size - 1)
    BY TranslatedAssumption DEF Addresses
  <2> QED BY <2>1, <1>5
<1> QED BY <1>6, <1>7 DEF Along
------------------------------------------------------------------------------
(* Blocks.  A base is its own base, and the next address is in the block   *)
(* or begins one.                                                          *)
IsBase(base) ==
  /\ base \in [Addresses -> Addresses]
  /\ \A a \in Addresses : base[a] <= a /\ base[base[a]] = base[a]
  /\ \A a \in Addresses : a + 1 \in Addresses => base[a + 1] \in {base[a], a + 1}

LEMMA BaseIsBase ==
  ASSUME NEW p, NEW split \in Nat
  PROVE  IsBase(Base(p, split))
<1> DEFINE base == Base(p, split)
           step == [x \in Addresses \X Addresses |->
                     IF x[1] - x[2] >= split /\ p[x[1] - 1].op \in Stopping THEN x[1] ELSE x[2]]
           Is(f) == f = [a \in Addresses |-> IF a = 0 THEN 0
                           ELSE IF a - f[a - 1] >= split /\ p[a - 1].op \in Stopping
                                THEN a ELSE f[a - 1]]
<1>z. 0 \in Addresses /\ \A a \in Addresses : a \in Nat /\ (a # 0 => a - 1 \in Addresses)
  BY TranslatedAssumption DEF Addresses
<1>1. step \in [Addresses \X Addresses -> Addresses]
  OBVIOUS
<1>2. PICK f : Along(Addresses, 0, step, f)
  <2>1. 0 \in Addresses
    BY <1>z
  <2> HIDE DEF step
  <2> QED BY <1>1, <2>1, Recursion
<1>3. ASSUME NEW a \in Addresses
      PROVE  f[a] = IF a = 0 THEN 0
                    ELSE IF a - f[a - 1] >= split /\ p[a - 1].op \in Stopping
                         THEN a ELSE f[a - 1]
  <2>1. f[a] = IF a = 0 THEN 0 ELSE step[<<a, f[a - 1]>>]
    BY <1>2 DEF Along
  <2>2. a # 0 => <<a, f[a - 1]>> \in Addresses \X Addresses
    BY <1>2, <1>z DEF Along
  <2> QED BY <2>1, <2>2
<1>4. Is(f)
  BY <1>2, <1>3 DEF Along
<1>5. base = CHOOSE g : Is(g)
  BY DEF Base
<1>6. Is(base)
  <2> HIDE DEF Is
  <2> QED BY <1>4, <1>5, Zenon
<1>7. /\ base[0] = 0
      /\ \A a \in Addresses : a + 1 \in Addresses => base[a + 1] \in {base[a], a + 1}
  <2> HIDE DEF base
  <2>1. \A a \in Addresses : base[a] = IF a = 0 THEN 0
                 ELSE IF a - base[a - 1] >= split /\ p[a - 1].op \in Stopping
                      THEN a ELSE base[a - 1]
    BY <1>6
  <2> QED BY <2>1, <1>z
<1>8. DOMAIN base = Addresses
  <2> HIDE DEF base
  <2> QED BY <1>6
<1> HIDE DEF base, Is
<1> DEFINE S == {a \in Addresses : base[a] \in Addresses /\ base[a] <= a /\ base[base[a]] = base[a]}
<1>9. 0 \in S
  BY <1>7, <1>z
<1>10. \A a \in Addresses : a \in S /\ a + 1 \in Addresses => a + 1 \in S
  <2> SUFFICES ASSUME NEW a \in Addresses, a \in S, a + 1 \in Addresses PROVE a + 1 \in S
    OBVIOUS
  <2>1. base[a + 1] = base[a] \/ base[a + 1] = a + 1
    BY <1>7
  <2>2. a \in Nat /\ base[a] \in Nat
    BY <1>z
  <2> QED BY <2>1, <2>2, <1>z
<1>11. Addresses \subseteq S
  <2> HIDE DEF S
  <2> QED BY <1>9, <1>10, AddressInduction
<1>12. base = [a \in Addresses |-> base[a]]
  BY <1>6 DEF Is
<1>13. base \in [Addresses -> Addresses]
  BY <1>11, <1>12
<1>14. IsBase(base)
  BY <1>7, <1>11, <1>13 DEF IsBase
<1> QED BY <1>14 DEF base

(* Bases grow with the addresses.                                          *)
LEMMA BaseMonotone ==
  ASSUME NEW base, IsBase(base), NEW a \in Addresses, NEW b \in Addresses, a <= b
  PROVE  base[a] <= base[b]
<1> DEFINE S == {c \in Addresses : a <= c => base[a] <= base[c]}
<1>z. \A c \in Addresses : c \in Nat /\ base[c] \in Nat
  BY DEF Addresses, IsBase
<1>1. 0 \in S
  <2>1. a <= 0 => a = 0
    BY <1>z
  <2>2. 0 \in Addresses
    BY TranslatedAssumption DEF Addresses
  <2> QED BY <2>1, <2>2, <1>z
<1>2. \A c \in Addresses : c \in S /\ c + 1 \in Addresses => c + 1 \in S
  <2> SUFFICES ASSUME NEW c \in Addresses, c \in S, c + 1 \in Addresses, a <= c + 1
               PROVE  base[a] <= base[c + 1]
    OBVIOUS
  <2>1. a = c + 1 \/ a <= c
    BY <1>z
  <2>2. base[c] <= c /\ base[c + 1] \in {base[c], c + 1}
    BY DEF IsBase
  <2> QED BY <2>1, <2>2, <1>z
<1>3. Addresses \subseteq S
  <2> HIDE DEF S
  <2> QED BY <1>1, <1>2, AddressInduction
<1> QED BY <1>3

(* The end of a block is behind its addresses, and ends it.                *)
LEMMA EndFacts ==
  ASSUME NEW base, IsBase(base), NEW a \in Addresses
  PROVE  /\ End(base, a) \in Nat /\ a < End(base, a) /\ End(base, a) <= Size
         /\ End(base, base[a]) = End(base, a)
         /\ a + 1 < End(base, a) => a + 1 \in Addresses /\ base[a + 1] = base[a]
<1>z. /\ \A c \in Addresses : c \in Nat /\ c < Size /\ base[c] \in Addresses
      /\ \A c \in Nat : c < Size => c \in Addresses
      /\ Size \in Nat
  BY TranslatedAssumption DEF Addresses, IsBase
<1> DEFINE Ends(e) == base[e - 1] = base[a] /\ (e = Size \/ base[e] # base[a])
           e == End(base, a)
<1>1. e = CHOOSE x \in 1..Size : Ends(x)
  BY DEF End
<1>2. \E x \in 1..Size : Ends(x)
  <2> DEFINE S == {x \in (a + 1)..Size : x = Size \/ base[x] # base[a]}
  <2>1. Size \in S /\ S \in SUBSET Nat
    BY <1>z
  <2>2. PICK x \in S : \A y \in S : x <= y
    <3> HIDE DEF S
    <3> QED BY <2>1, Minimum
  <2>3. x \in Nat /\ a + 1 <= x /\ x <= Size /\ a \in Nat
    BY <1>z
  <2>4. x - 1 \in Nat /\ x - 1 \notin S
    BY <2>2, <2>3
  <2>5. base[x - 1] = base[a]
    <3>1. CASE x = a + 1
      BY <3>1, <2>3
    <3>2. CASE x # a + 1
      BY <3>2, <2>3, <2>4, <1>z
    <3> QED BY <3>1, <3>2
  <2> QED BY <2>2, <2>3, <2>5
<1>3. e \in 1..Size /\ Ends(e)
  <2> HIDE DEF Ends
  <2> QED BY <1>1, <1>2, Zenon
<1>4. e \in Nat /\ e <= Size /\ 1 <= e /\ e - 1 \in Addresses
  BY <1>3, <1>z
<1>5. a < e
  <2> SUFFICES ASSUME e <= a PROVE FALSE
    BY <1>4, <1>z
  <2>1. e \in Addresses /\ base[e] # base[a] /\ base[e - 1] = base[a]
    BY <1>3, <1>4, <1>z
  <2>2. base[e - 1] <= base[e] /\ base[e] <= base[a]
    BY <2>1, <1>4, <1>z, BaseMonotone
  <2>3. base[e] \in Nat /\ base[a] \in Nat
    BY <2>1, <1>z
  <2> QED BY <2>1, <2>2, <2>3
<1>6. End(base, base[a]) = e
  <2>1. base[base[a]] = base[a]
    BY DEF IsBase
  <2> QED BY <2>1 DEF End
<1>7. ASSUME a + 1 < e PROVE a + 1 \in Addresses /\ base[a + 1] = base[a]
  <2>1. a + 1 \in Addresses
    BY <1>4, <1>7, <1>z
  <2>2. a \in Nat /\ e - 1 >= a + 1
    BY <1>4, <1>7, <1>z
  <2>3. base[a] <= base[a + 1] /\ base[a + 1] <= base[e - 1]
    BY <2>1, <2>2, <1>4, <1>z, BaseMonotone
  <2>4. base[e - 1] = base[a] /\ base[a] \in Nat /\ base[a + 1] \in Nat
    BY <1>3, <1>z, <2>1
  <2> QED BY <2>1, <2>3, <2>4
<1> HIDE DEF e, Ends
<1>8. e \in Nat /\ a < e /\ e <= Size /\ End(base, base[a]) = e
      /\ (a + 1 < e => a + 1 \in Addresses /\ base[a + 1] = base[a])
  BY <1>4, <1>5, <1>6, <1>7
<1> QED BY <1>8 DEF e

(* m_instr_counter starts at 1 where it is reset, and else goes on.        *)
LEMMA CounterFacts ==
  ASSUME NEW p, NEW base, IsBase(base), NEW labels
  PROVE  \A a \in Addresses :
           /\ Counter(p, base, labels)[a] \in Nat
           /\ Counter(p, base, labels)[a] =
                IF Resets(p, base[a], labels, a) THEN 1 ELSE Counter(p, base, labels)[a - 1] + 1
<1> DEFINE counter == Counter(p, base, labels)
           R(a) == Resets(p, base[a], labels, a)
           step == [x \in Addresses \X Nat |-> IF R(x[1]) THEN 1 ELSE x[2] + 1]
           Is(f) == f = [a \in Addresses |-> IF R(a) THEN 1 ELSE f[a - 1] + 1]
<1>z. 0 \in Addresses /\ \A a \in Addresses : a \in Nat /\ (a # 0 => a - 1 \in Addresses)
  BY TranslatedAssumption DEF Addresses
<1>0. R(0)
  <2>1. base[0] \in Nat /\ base[0] <= 0
    BY <1>z DEF IsBase
  <2> QED BY <2>1 DEF Resets
<1> HIDE DEF R
<1>1. step \in [Addresses \X Nat -> Nat]
  OBVIOUS
<1>2. PICK f : Along(Nat, 1, step, f)
  <2>1. 1 \in Nat
    OBVIOUS
  <2> HIDE DEF step
  <2> QED BY <1>1, <2>1, Recursion
<1>3. ASSUME NEW a \in Addresses
      PROVE  f[a] = IF R(a) THEN 1 ELSE f[a - 1] + 1
  <2>1. f[a] = IF a = 0 THEN 1 ELSE step[<<a, f[a - 1]>>]
    BY <1>2 DEF Along
  <2>2. a # 0 => <<a, f[a - 1]>> \in Addresses \X Nat
    BY <1>2, <1>z DEF Along
  <2> QED BY <2>1, <2>2, <1>0
<1>4. Is(f)
  BY <1>2, <1>3 DEF Along
<1>5. counter = CHOOSE g : Is(g)
  BY DEF Counter, R
<1>6. Is(counter)
  <2> HIDE DEF Is
  <2> QED BY <1>4, <1>5, Zenon
<1> HIDE DEF counter
<1>7. ASSUME NEW a \in Addresses
      PROVE  counter[a] = IF R(a) THEN 1 ELSE counter[a - 1] + 1
  BY <1>6
<1> DEFINE S == {a \in Addresses : counter[a] \in Nat}
<1>8. 0 \in S
  BY <1>7, <1>0, <1>z
<1>9. \A a \in Addresses : a \in S /\ a + 1 \in Addresses => a + 1 \in S
  <2> SUFFICES ASSUME NEW a \in Addresses, a \in S, a + 1 \in Addresses PROVE a + 1 \in S
    OBVIOUS
  <2>1. a \in Nat /\ (a + 1) - 1 = a
    BY DEF Addresses
  <2>2. counter[a + 1] = IF R(a + 1) THEN 1 ELSE counter[a] + 1
    BY <1>7, <2>1
  <2> QED BY <2>2
<1>10. Addresses \subseteq S
  <2> HIDE DEF S
  <2> QED BY <1>8, <1>9, AddressInduction
<1>11. \A a \in Addresses : counter[a] \in Nat /\ counter[a] = IF R(a) THEN 1 ELSE counter[a - 1] + 1
  BY <1>7, <1>10
<1> QED BY <1>11 DEF counter, R
------------------------------------------------------------------------------
(* What emit() promises, without recursion.                                *)

(* The handlers of a - 1 and a are called in a row.                        *)
InARow(p, e, a) ==
  /\ a \in Addresses /\ a - 1 \in Addresses /\ e[a].base = e[a - 1].base
  /\ ~e[a].label /\ p[a].op = "fallback" /\ p[a - 1].op = "fallback"

(* All of a block has its base and its end.                                *)
InBlocks(e) ==
  \A a \in Addresses :
    /\ e[a].base \in Addresses /\ e[a].base <= a
    /\ e[e[a].base].base = e[a].base /\ e[e[a].base].end = e[a].end
    /\ e[e[a].base].used = e[a].used
    /\ e[a].end \in Nat /\ a < e[a].end /\ e[a].end <= Size
    /\ a + 1 < e[a].end => a + 1 \in Addresses /\ e[a + 1].base = e[a].base
    /\ a # e[a].base => a - 1 \in Addresses /\ e[a - 1].base = e[a].base

Labelled(p, e) ==
  \A a \in Addresses :
    /\ e[a].mapped => e[a].label
    /\ p[a].op \in Branches /\ p[a].to \in Addresses /\ e[p[a].to].base = e[a].base
         => e[p[a].to].label

StoresAndLoads(p, e) ==
  \A a \in Addresses :
    /\ e[a].store <=> p[a].op = "fallback" /\ ~InARow(p, e, a)
    /\ e[a].load <=> p[a].op = "fallback" /\ ~InARow(p, e, a + 1)

(* Instructions since the counter was brought up to date, before a.        *)
Before(p, e, a) ==
  IF a = e[a].base \/ e[a].label \/ p[a - 1].op \in Flushing THEN 0 ELSE e[a - 1].pending

Counting(p, e) ==
  \A a \in Addresses :
    /\ e[a].flush \in Nat /\ e[a].pending \in Nat
    /\ p[a].op \in Flushing => e[a].pending = 0 /\ e[a].flush = Before(p, e, a) + 1
    /\ p[a].op \notin Flushing => e[a].flush = 0 /\ e[a].pending = Before(p, e, a) + 1

WellEmitted(p, e) ==
  InBlocks(e) /\ Labelled(p, e) /\ StoresAndLoads(p, e) /\ Counting(p, e)

LEMMA EmitFacts ==
  ASSUME NEW p, NEW options \in Options
  PROVE  WellEmitted(p, Emit(p, options))
<1> DEFINE base == [a \in Addresses |-> Base(p, options.split)[a]]
           seen == [a \in Addresses |-> Seen(p, base)[a]]
           jumps == [a \in Addresses |-> LocalJumps(p, base, seen, a)]
           labels == GlobalJumps(p, base, options.max) \cup UNION {jumps[a] : a \in Addresses}
           counter == Counter(p, base, labels)
           used(block) == Cached \cap UNION {Names(p[b]) : b \in block}
           e == Emit(p, options)
<1>1. ASSUME NEW a \in Addresses
      PROVE  /\ e[a].base = base[a]
             /\ e[a].end = End(base, a)
             /\ e[a].label = (a \in labels)
             /\ e[a].mapped = (a \in labels /\ IsTranslated(base, a, options.max) /\ jumps[a] # {})
             /\ e[a].store = (p[a].op = "fallback" /\ ~Elided(p, Block(base, a), labels, a))
             /\ e[a].load = (p[a].op = "fallback" /\ ~Elided(p, Block(base, a), labels, a + 1))
             /\ e[a].flush = IF p[a].op \in Flushing THEN counter[a] ELSE 0
             /\ e[a].pending = IF p[a].op \in Flushing THEN 0 ELSE counter[a]
             /\ e[a].used = used(Block(base, a))
  BY DEF Emit
<1>2. IsBase(base)
  <2>1. options.split \in Nat
    BY TranslatedAssumption
  <2>2. IsBase(Base(p, options.split))
    BY <2>1, BaseIsBase
  <2>3. Base(p, options.split) = base
    BY <2>2 DEF IsBase
  <2> QED BY <2>2, <2>3
<1>3. ASSUME NEW a \in Addresses PROVE jumps[a] = LocalJumps(p, base, seen, a)
  OBVIOUS
<1>4. \A a \in Addresses : jumps[a] \subseteq labels
  OBVIOUS
<1> HIDE DEF base, seen, jumps, labels, counter, used, e
<1>z. \A a \in Addresses : a \in Nat /\ base[a] \in Addresses /\ (a + 1) - 1 = a
  BY <1>2 DEF Addresses, IsBase
<1>5. InBlocks(e)
  <2> SUFFICES ASSUME NEW a \in Addresses
               PROVE  /\ e[a].base \in Addresses /\ e[a].base <= a
                      /\ e[e[a].base].base = e[a].base /\ e[e[a].base].end = e[a].end
                      /\ e[e[a].base].used = e[a].used
                      /\ e[a].end \in Nat /\ a < e[a].end /\ e[a].end <= Size
                      /\ a + 1 < e[a].end => a + 1 \in Addresses /\ e[a + 1].base = e[a].base
                      /\ a # e[a].base => a - 1 \in Addresses /\ e[a - 1].base = e[a].base
    BY DEF InBlocks
  <2>1. /\ End(base, a) \in Nat /\ a < End(base, a) /\ End(base, a) <= Size
        /\ End(base, base[a]) = End(base, a)
        /\ a + 1 < End(base, a) => a + 1 \in Addresses /\ base[a + 1] = base[a]
    BY <1>2, EndFacts
  <2>2. base[a] <= a /\ base[base[a]] = base[a]
    BY <1>2 DEF IsBase
  <2>3. ASSUME a # base[a] PROVE a - 1 \in Addresses /\ base[a - 1] = base[a]
    <3>1. a - 1 \in Addresses /\ (a - 1) + 1 = a
      BY <2>2, <2>3, <1>z, TranslatedAssumption DEF Addresses
    <3>2. base[(a - 1) + 1] \in {base[a - 1], (a - 1) + 1}
      BY <3>1, <1>2 DEF IsBase
    <3> QED BY <2>3, <3>1, <3>2
  <2>4. e[base[a]].used = e[a].used
    <3>1. Block(base, base[a]) = Block(base, a)
      BY <2>2 DEF Block
    <3> QED BY <3>1, <1>1, <1>z
  <2> QED BY <2>1, <2>2, <2>3, <2>4, <1>1, <1>z
<1>6. Labelled(p, e)
  <2> SUFFICES ASSUME NEW a \in Addresses
               PROVE  /\ e[a].mapped => e[a].label
                      /\ p[a].op \in Branches /\ p[a].to \in Addresses
                           /\ e[p[a].to].base = e[a].base => e[p[a].to].label
    BY DEF Labelled
  <2>1. e[a].mapped => e[a].label
    BY <1>1
  <2>2. ASSUME p[a].op \in Branches, p[a].to \in Addresses, e[p[a].to].base = e[a].base
        PROVE  e[p[a].to].label
    <3>1. base[p[a].to] = base[a]
      BY <1>1, <2>2
    <3>2. p[a].to \in Block(base, a) /\ a \in Block(base, a)
      BY <3>1, <2>2 DEF Block
    <3>3. p[a].to \in LocalJumps(p, base, seen, a)
      BY <3>2, <2>2 DEF LocalJumps
    <3>4. p[a].to \in labels
      BY <3>3, <1>3, <1>4
    <3> QED BY <3>4, <2>2, <1>1
  <2> QED BY <2>1, <2>2
<1>7. StoresAndLoads(p, e)
  <2> SUFFICES ASSUME NEW a \in Addresses
               PROVE  /\ e[a].store <=> p[a].op = "fallback" /\ ~InARow(p, e, a)
                      /\ e[a].load <=> p[a].op = "fallback" /\ ~InARow(p, e, a + 1)
    BY DEF StoresAndLoads
  <2>1. Elided(p, Block(base, a), labels, a) <=> InARow(p, e, a)
    <3>1. a \in Block(base, a) /\ (a - 1 \in Block(base, a) <=> a - 1 \in Addresses /\ base[a - 1] = base[a])
      BY DEF Block
    <3>2. a - 1 \in Addresses => (base[a - 1] = base[a] <=> e[a].base = e[a - 1].base)
      BY <1>1
    <3>3. e[a].label <=> a \in labels
      BY <1>1
    <3> QED BY <3>1, <3>2, <3>3 DEF Elided, InARow
  <2>2. Elided(p, Block(base, a), labels, a + 1) <=> InARow(p, e, a + 1)
    <3>1. a \in Block(base, a) /\ (a + 1 \in Block(base, a) <=> a + 1 \in Addresses /\ base[a + 1] = base[a])
      BY DEF Block
    <3>2. a + 1 \in Addresses => (base[a + 1] = base[a] <=> e[a + 1].base = e[a].base)
      BY <1>1
    <3>3. a + 1 \in Addresses => (e[a + 1].label <=> a + 1 \in labels)
      BY <1>1
    <3>4. (a + 1) - 1 = a
      BY <1>z
    <3>5. InARow(p, e, a + 1) <=>
            /\ a + 1 \in Addresses /\ a \in Addresses /\ e[a + 1].base = e[a].base
            /\ ~e[a + 1].label /\ p[a + 1].op = "fallback" /\ p[a].op = "fallback"
      BY <3>4 DEF InARow
    <3>6. Elided(p, Block(base, a), labels, a + 1) <=>
            /\ a + 1 \in Block(base, a) /\ a \in Block(base, a) /\ a + 1 \notin labels
            /\ p[a + 1].op = "fallback" /\ p[a].op = "fallback"
      BY <3>4 DEF Elided
    <3> QED BY <3>1, <3>2, <3>3, <3>5, <3>6
  <2> QED BY <2>1, <2>2, <1>1
<1>8. Counting(p, e)
  <2> SUFFICES ASSUME NEW a \in Addresses
               PROVE  /\ e[a].flush \in Nat /\ e[a].pending \in Nat
                      /\ p[a].op \in Flushing => e[a].pending = 0 /\ e[a].flush = Before(p, e, a) + 1
                      /\ p[a].op \notin Flushing => e[a].flush = 0 /\ e[a].pending = Before(p, e, a) + 1
    BY DEF Counting
  <2>1. /\ counter[a] \in Nat
        /\ counter[a] = IF Resets(p, base[a], labels, a) THEN 1 ELSE counter[a - 1] + 1
    BY <1>2, CounterFacts DEF counter
  <2>2. Resets(p, base[a], labels, a) <=> a = e[a].base \/ e[a].label \/ p[a - 1].op \in Flushing
    BY <1>1 DEF Resets
  <2>3. counter[a] = Before(p, e, a) + 1
    <3>1. CASE Resets(p, base[a], labels, a)
      BY <3>1, <2>1, <2>2 DEF Before
    <3>2. CASE ~Resets(p, base[a], labels, a)
      <4>1. p[a - 1].op \notin Flushing /\ a # base[a]
        BY <3>2 DEF Resets
      <4>2. a - 1 \in Addresses
        <5>1. base[a] <= a /\ base[a] \in Nat
          BY <1>2, <1>z DEF IsBase
        <5> QED BY <4>1, <5>1, TranslatedAssumption DEF Addresses
      <4>3. e[a - 1].pending = counter[a - 1]
        BY <4>1, <4>2, <1>1
      <4> QED BY <3>2, <4>3, <2>1, <2>2 DEF Before
    <3> QED BY <3>1, <3>2
  <2> QED BY <2>1, <2>3, <1>1
<1>9. WellEmitted(p, e)
  BY <1>5, <1>6, <1>7, <1>8 DEF WellEmitted
<1> QED BY <1>9 DEF e
------------------------------------------------------------------------------
(* The invariant: where control is in a block, and what it has not counted.*)
Typed ==
  /\ prog \in [Addresses -> P!Instructions]
  /\ where \in {"loop", "block", "host", "raised"}
  /\ fn \in Addresses /\ at \in Int /\ uncounted \in Int
  /\ cpu \in P!Registers /\ local \in P!Registers
  /\ other \in [reg : P!Registers, at : Addresses]

Located ==
  where = "block" =>
    /\ emitted[fn].base = fn /\ fn <= at /\ at <= emitted[fn].end
    /\ at < emitted[fn].end => at \in Addresses /\ emitted[at].base = fn
    /\ at > fn => at - 1 \in Addresses /\ emitted[at - 1].base = fn

Counted ==
  where = "block" /\ at < emitted[fn].end => uncounted = Before(prog, emitted, at)

Inv == Typed /\ WellEmitted(prog, emitted) /\ Located /\ Counted

(* In the code of a function.                                              *)
LEMMA InCodeFacts ==
  ASSUME Inv, InCode
  PROVE  /\ where = "block" /\ at \in Addresses /\ at \in Nat
         /\ emitted[at].base = fn /\ emitted[at].end = emitted[fn].end
         /\ fn \in Addresses /\ fn \in Nat /\ fn <= at
         /\ at < emitted[fn].end /\ emitted[fn].end <= Size /\ emitted[fn].end \in Nat
         /\ prog[at] \in P!Instructions /\ View \in P!Registers
<1>1. where = "block" /\ at \in Addresses /\ emitted[at].base = fn /\ fn <= at /\ fn \in Addresses
  BY DEF Inv, InCode, Located, Typed
<1>2. /\ emitted[at].end = emitted[fn].end /\ emitted[fn].end \in Nat
      /\ at < emitted[fn].end /\ emitted[fn].end <= Size
  BY <1>1 DEF Inv, WellEmitted, InBlocks
<1>3. prog[at] \in P!Instructions
  BY <1>1 DEF Inv, Typed
<1>4. View \in P!Registers
  BY DEF Inv, Typed, View, P!Registers, P!Regs, Regs
<1> QED BY <1>1, <1>2, <1>3, <1>4 DEF Addresses

(* What an instruction computes is a register file.                        *)
LEMMA RegisterFacts ==
  ASSUME NEW r \in P!Registers
  PROVE  /\ \A i \in P!Instructions : P!Result(i, r) \in P!Registers
         /\ \A a \in Addresses : P!Link(r, a) \in P!Registers
         /\ \A v \in {0, 1} : [r EXCEPT !["a0"] = v] \in P!Registers
         /\ r["ra"] \in Int
<1>1. {0, 1} \subseteq 0..Size /\ \A a \in Addresses : a + 1 \in 0..Size
  BY TranslatedAssumption DEF Addresses
<1>2. r \in [{"ra", "a0", "t0"} -> 0..Size]
  BY DEF P!Registers, P!Regs, P!Values
<1>3. ASSUME NEW x \in 0..Size, NEW d \in {"ra", "a0", "t0"}
      PROVE  [r EXCEPT ![d] = x] \in [{"ra", "a0", "t0"} -> 0..Size]
  BY <1>2
<1>4. ASSUME NEW i \in P!Instructions PROVE P!Result(i, r) \in P!Registers
  <2>1. i.rd \in {"ra", "a0", "t0"}
    BY DEF P!Instructions, P!Regs
  <2>2. (IF r[i.rj] = 0 THEN 1 ELSE 0) \in 0..Size
    BY <1>1
  <2> QED BY <1>3, <2>1, <2>2 DEF P!Result, P!Registers, P!Regs, P!Values
<1>5. ASSUME NEW a \in Addresses PROVE P!Link(r, a) \in P!Registers
  BY <1>1, <1>3 DEF P!Link, P!Registers, P!Regs, P!Values
<1>6. ASSUME NEW v \in {0, 1} PROVE [r EXCEPT !["a0"] = v] \in P!Registers
  BY <1>1, <1>3 DEF P!Registers, P!Regs, P!Values
<1>7. r["ra"] \in Int
  BY <1>2
<1> QED BY <1>4, <1>5, <1>6, <1>7

(* Control that goes on with the next instruction.                         *)
LEMMA FollowingFacts ==
  ASSUME Inv, InCode, Static, Following
  PROVE  Located' /\ Counted'
<1>0. WellEmitted(prog, emitted)
  BY DEF Inv
<1>1. /\ where' = "block" /\ fn' = fn /\ at' = at + 1 /\ emitted' = emitted /\ prog' = prog
      /\ uncounted' = uncounted + 1 - emitted[at].flush
           - IF at + 1 < emitted[at].end /\ emitted[at + 1].label THEN emitted[at].pending ELSE 0
  BY InCodeFacts DEF Following, Static, Code
<1>2. /\ at \in Addresses /\ at \in Nat /\ emitted[at].base = fn
      /\ emitted[at].end = emitted[fn].end /\ emitted[fn].end \in Nat
      /\ fn <= at /\ at < emitted[fn].end /\ fn \in Nat /\ fn \in Addresses
  BY InCodeFacts
<1>3. at + 1 < emitted[fn].end => at + 1 \in Addresses /\ emitted[at + 1].base = fn
  BY <1>0, <1>2 DEF WellEmitted, InBlocks
<1>4. emitted[fn].base = fn
  BY <1>0, <1>2 DEF WellEmitted, InBlocks
<1>5. (at + 1) - 1 = at
  BY <1>2
<1>6. Located'
  BY <1>1, <1>2, <1>3, <1>4, <1>5 DEF Located
<1>7. Counted'
  <2> SUFFICES ASSUME at + 1 < emitted[fn].end
               PROVE  uncounted' = Before(prog, emitted, at + 1)
    BY <1>1 DEF Counted
  <2>1. uncounted = Before(prog, emitted, at)
    BY <1>2, InCodeFacts DEF Inv, Counted
  <2>2. /\ emitted[at].flush \in Nat /\ emitted[at].pending \in Nat
        /\ prog[at].op \in Flushing =>
             emitted[at].pending = 0 /\ emitted[at].flush = Before(prog, emitted, at) + 1
        /\ prog[at].op \notin Flushing =>
             emitted[at].flush = 0 /\ emitted[at].pending = Before(prog, emitted, at) + 1
    BY <1>0, <1>2 DEF WellEmitted, Counting
  <2>3. at + 1 # emitted[at + 1].base
    BY <1>2, <1>3
  <2>4. Before(prog, emitted, at + 1) =
          IF emitted[at + 1].label \/ prog[at].op \in Flushing THEN 0 ELSE emitted[at].pending
    BY <1>5, <2>3 DEF Before
  <2>5. uncounted \in Int
    BY DEF Inv, Typed
  <2> QED BY <1>1, <1>2, <2>1, <2>2, <2>4, <2>5
<1> QED BY <1>6, <1>7

(* Control that jumps to a label of the function.                          *)
LEMMA LandingFacts ==
  ASSUME Inv, InCode, Static, UNCHANGED <<where, fn>>,
         NEW a \in Addresses, at' = a, emitted[a].base = fn, emitted[a].label, uncounted' = 0
  PROVE  Located' /\ Counted'
<1>0. WellEmitted(prog, emitted)
  BY DEF Inv
<1>1. where' = "block" /\ fn' = fn /\ at' = a /\ emitted' = emitted /\ prog' = prog
  BY InCodeFacts DEF Static
<1>2. /\ emitted[fn].base = fn /\ fn \in Addresses
      /\ a < emitted[fn].end /\ fn <= a /\ a \in Nat /\ fn \in Nat /\ emitted[fn].end \in Nat
  BY <1>0, InCodeFacts DEF WellEmitted, InBlocks, Addresses
<1>3. a > fn => a - 1 \in Addresses /\ emitted[a - 1].base = fn
  BY <1>0, <1>2 DEF WellEmitted, InBlocks
<1>4. Located'
  BY <1>1, <1>2, <1>3 DEF Located
<1>5. Counted'
  BY <1>1 DEF Counted, Before
<1> QED BY <1>4, <1>5

(* Where the counter is flushed, nothing remains uncounted.                *)
LEMMA FlushedFacts ==
  ASSUME Inv, InCode, prog[at].op \in Flushing, Flushed
  PROVE  uncounted' = 0
<1>1. emitted[at].flush = Before(prog, emitted, at) + 1 /\ emitted[at].flush \in Nat
  BY InCodeFacts DEF Inv, WellEmitted, Counting
<1>2. uncounted = Before(prog, emitted, at) /\ uncounted \in Int
  BY InCodeFacts DEF Inv, Counted, Typed
<1> QED BY <1>1, <1>2 DEF Flushed, Code

(* Writing registers: the function sees them, wherever it keeps them.      *)
LEMMA ComputeFacts ==
  ASSUME Inv, NEW v \in P!Registers, Compute(v), Static, fn' = fn
  PROVE  cpu' \in P!Registers /\ local' \in P!Registers /\ View' = v
<1>1. /\ local' = [r \in Regs |-> IF r \in Used THEN v[r] ELSE local[r]]
      /\ cpu' = [r \in Regs |-> IF r \in Used THEN cpu[r] ELSE v[r]]
      /\ Used' = Used
  BY DEF Compute, Static, Used
<1>2. /\ v \in [Regs -> 0..Size] /\ cpu \in [Regs -> 0..Size] /\ local \in [Regs -> 0..Size]
      /\ P!Registers = [Regs -> 0..Size]
  BY DEF Inv, Typed, P!Registers, P!Regs, P!Values, Regs
<1>3. cpu' \in [Regs -> 0..Size] /\ local' \in [Regs -> 0..Size]
  BY <1>1, <1>2
<1>4. View' = [r \in Regs |-> IF r \in Used THEN local'[r] ELSE cpu'[r]]
  BY <1>1 DEF View
<1>5. \A r \in Regs : View'[r] = v[r]
  BY <1>1, <1>4
<1>6. View' = v
  BY <1>2, <1>4, <1>5
<1> QED BY <1>2, <1>3, <1>6

LEMMA NothingFacts == Nothing \in P!Registers
  BY TranslatedAssumption DEF Nothing, P!Registers, P!Regs, P!Values, Regs

(* What the functions for system calls do to the registers.                *)
LEMMA RegisterFileFacts ==
  ASSUME Inv
  PROVE  /\ View \in P!Registers /\ StoreRegs \in P!Registers /\ StoreSysRegs \in P!Registers
         /\ \A c \in P!Registers : LoadRegs(c) \in P!Registers /\ LoadSysRegs(c) \in P!Registers
<1>1. /\ cpu \in [Regs -> 0..Size] /\ local \in [Regs -> 0..Size]
      /\ P!Registers = [Regs -> 0..Size]
  BY DEF Inv, Typed, P!Registers, P!Regs, P!Values, Regs
<1>2. View \in [Regs -> 0..Size] /\ StoreSysRegs \in [Regs -> 0..Size]
  BY <1>1 DEF View, StoreSysRegs
<1>3. ASSUME NEW c \in [Regs -> 0..Size]
      PROVE  LoadRegs(c) \in [Regs -> 0..Size] /\ LoadSysRegs(c) \in [Regs -> 0..Size]
  BY <1>1 DEF LoadRegs, LoadSysRegs
<1> QED BY <1>1, <1>2, <1>3 DEF StoreRegs

(* A jump inside the function goes to one of its labels; any other leaves. *)
LEMMA JumpFacts ==
  ASSUME Inv, InCode, Static, uncounted' = 0, NEW v \in P!Registers, NEW a \in Int,
         (JumpTo(v, a) /\ prog[at].op \in Branches /\ a = prog[at].to) \/ JumpTable(v, a)
  PROVE  /\ at' = a /\ fn' = fn /\ cpu' \in P!Registers /\ local' \in P!Registers
         /\ \/ where' = where /\ View' = v /\ a \in Addresses /\ emitted[a].label
            \/ where' \in {"loop", "host"} /\ cpu' = v
         /\ Located' /\ Counted'
<1>1. CASE /\ Compute(v) /\ at' = a /\ UNCHANGED <<where, fn>>
           /\ a \in Addresses /\ emitted[a].base = fn /\ emitted[a].label
  BY <1>1, ComputeFacts, LandingFacts
<1>2. CASE Return(v, a)
  <2>1. /\ at' = a /\ fn' = fn /\ cpu' = v /\ local' = Nothing
        /\ where' \in {"loop", "host"}
    BY <1>2 DEF Return, Continue
  <2> QED BY <2>1, NothingFacts DEF Located, Counted
<1>3. CASE JumpTo(v, a) /\ prog[at].op \in Branches /\ a = prog[at].to
  <2>1. a \in Addresses /\ emitted[a].base = fn => emitted[a].label
    BY <1>3, InCodeFacts DEF Inv, WellEmitted, Labelled
  <2> QED BY <1>1, <1>2, <1>3, <2>1 DEF JumpTo
<1>4. CASE JumpTable(v, a)
  BY <1>1, <1>2, <1>4 DEF JumpTable
<1> QED BY <1>3, <1>4

LEMMA InvInit == Init => Inv
<1> SUFFICES ASSUME Init PROVE Inv
  OBVIOUS
<1>1. WellEmitted(prog, emitted)
  BY EmitFacts DEF Init
<1>2. Nothing \in P!Registers /\ [r \in Regs |-> IF r = "ra" THEN 0 ELSE 1] \in P!Registers
  BY TranslatedAssumption DEF Nothing, P!Registers, P!Regs, P!Values, Regs
<1>3. other \in [reg : P!Registers, at : Addresses]
  BY <1>2, ProgramsAssumption DEF Init
<1>4. Typed
  BY <1>2, <1>3, ProgramsAssumption, TranslatedAssumption DEF Init, Typed, Addresses
<1>5. Located /\ Counted
  BY DEF Init, Located, Counted
<1> QED BY <1>1, <1>4, <1>5 DEF Inv

LEMMA InvNext == Inv /\ [Next]_vars => Inv'
<1> SUFFICES ASSUME Inv, [Next]_vars PROVE Inv'
  OBVIOUS
<1> USE DEF Typed
<1>t. /\ prog \in [Addresses -> P!Instructions]
      /\ where \in {"loop", "block", "host", "raised"}
      /\ fn \in Addresses /\ at \in Int /\ uncounted \in Int
      /\ cpu \in P!Registers /\ local \in P!Registers
      /\ other \in [reg : P!Registers, at : Addresses]
  BY DEF Inv
<1>w. Static => WellEmitted(prog, emitted)'
  BY DEF Inv, Static
<1>r. /\ \A i \in P!Instructions : P!Result(i, cpu) \in P!Registers
      /\ \A a \in Addresses : P!Link(cpu, a) \in P!Registers
      /\ \A v \in {0, 1} : [cpu EXCEPT !["a0"] = v] \in P!Registers
      /\ cpu["ra"] \in Int
  BY <1>t, RegisterFacts
<1>i. ASSUME InLoop PROVE at \in Addresses /\ prog[at] \in P!Instructions /\ prog[at].to \in Int
  BY <1>i, <1>t DEF InLoop, P!Instructions
<1>1. ASSUME Interpret PROVE Inv'
  <2>1. Static /\ UNCHANGED <<fn, local, uncounted>> /\ InLoop
    BY <1>1 DEF Interpret
  <2>2. at' \in Int /\ where' \in {"loop", "host"} /\ other' = other
    BY <1>1, <1>t, <1>r, <1>i, <2>1 DEF Interpret, Continue, Here, InLoop
  <2>3. cpu' \in P!Registers
    BY <1>1, <1>t, <1>r, <1>i, <2>1 DEF Interpret, Here
  <2> QED BY <1>t, <1>w, <2>1, <2>2, <2>3 DEF Inv, Static, Located, Counted
<1>2. ASSUME InterpretCall PROVE Inv'
  <2>1. Static /\ UNCHANGED <<fn, local, uncounted>> /\ InLoop
    BY <1>2 DEF InterpretCall
  <2>2. where' \in {"loop", "host"} /\ at' \in Int
    BY <1>2, <1>t, <1>r, <1>i, <2>1 DEF InterpretCall, Continue, Addresses
  <2>3. cpu' \in P!Registers /\ other' \in [reg : P!Registers, at : Addresses]
    <3>1. [reg |-> cpu, at |-> at] \in [reg : P!Registers, at : Addresses] /\ other.reg \in P!Registers
      BY <1>t, <1>i, <2>1
    <3> QED BY <1>2, <1>t, <1>r, <3>1 DEF InterpretCall
  <2> QED BY <1>t, <1>w, <2>1, <2>2, <2>3 DEF Inv, Static, Located, Counted
<1>3. ASSUME Raise \/ Resume PROVE Inv'
  <2>1. Static /\ where' \in {"loop", "raised"} /\ UNCHANGED <<fn, at, cpu, local, other, uncounted>>
    BY <1>3 DEF Raise, Resume
  <2> QED BY <1>t, <1>w, <2>1 DEF Inv, Static, Located, Counted
<1>4. ASSUME Enter PROVE Inv'
  <2>1. /\ Static /\ UNCHANGED <<at, cpu, other>> /\ where' = "block" /\ uncounted' = 0
        /\ at \in Addresses /\ emitted[at].mapped /\ fn' = emitted[at].base
        /\ local' = [r \in Regs |-> IF r \in emitted[at].used THEN cpu[r] ELSE 0]
    BY <1>4 DEF Enter, Code
  <2>2. local' \in P!Registers
    BY <2>1, <1>t, TranslatedAssumption DEF P!Registers, P!Regs, P!Values, Regs
  <2>3. emitted[at].label
    BY <2>1 DEF Inv, WellEmitted, Labelled
  <2>4. /\ fn' \in Addresses /\ fn' <= at /\ emitted[fn'].base = fn' /\ at < emitted[fn'].end
        /\ emitted[fn'].end \in Nat
        /\ at # fn' => at - 1 \in Addresses /\ emitted[at - 1].base = fn'
    BY <2>1 DEF Inv, WellEmitted, InBlocks
  <2>5. Located'
    BY <2>1, <2>4, <1>t DEF Located, Static, Addresses
  <2>6. Counted'
    BY <2>1, <2>3 DEF Counted, Static, Before
  <2>7. Typed'
    BY <1>t, <2>1, <2>2, <2>4 DEF Static
  <2> QED BY <1>w, <2>1, <2>5, <2>6, <2>7 DEF Inv
<1>5. ASSUME Straight PROVE Inv'
  <2>1. InCode /\ Static /\ Following /\ other' = other
    BY <1>5 DEF Straight
  <2>2. Located' /\ Counted'
    BY <2>1, FollowingFacts
  <2>3. where' = where /\ fn' = fn /\ at' \in Int
    BY <2>1, <1>t DEF Following
  <2>4. P!Result(prog[at], View) \in P!Registers
    BY <2>1, InCodeFacts, RegisterFacts
  <2>5. cpu' \in P!Registers /\ local' \in P!Registers
    BY <1>5, <1>t, <2>1, <2>3, <2>4, ComputeFacts DEF Straight, Here
  <2>6. uncounted' \in Int
    BY <2>1, <1>t, InCodeFacts DEF Following, Code, Inv, WellEmitted, Counting
  <2> QED BY <1>t, <1>w, <2>1, <2>2, <2>3, <2>5, <2>6 DEF Inv, Static
<1>6. ASSUME Fallback PROVE Inv'
  <2>1. InCode /\ Static /\ Following /\ other' = other
    BY <1>6 DEF Fallback
  <2>2. Located' /\ Counted'
    BY <2>1, FollowingFacts
  <2>3. where' = where /\ fn' = fn /\ at' \in Int
    BY <2>1, <1>t DEF Following
  <2>4. P!Result(prog[at], View) \in P!Registers /\ P!Result(prog[at], cpu) \in P!Registers
    BY <2>1, <1>r, InCodeFacts, RegisterFacts
  <2>5. cpu' \in P!Registers
    BY <1>6, <2>4 DEF Fallback, StoreRegs, Here
  <2>6. local' \in P!Registers
    BY <1>6, <1>t, <2>5, RegisterFileFacts DEF Fallback
  <2>7. uncounted' \in Int
    BY <2>1, <1>t, InCodeFacts DEF Following, Code, Inv, WellEmitted, Counting
  <2> QED BY <1>t, <1>w, <2>1, <2>2, <2>3, <2>5, <2>6, <2>7 DEF Inv, Static
<1>7. ASSUME Exception PROVE Inv'
  <2>1. /\ Static /\ where' = "raised" /\ local' = Nothing
        /\ UNCHANGED <<fn, at, cpu, other, uncounted>>
    BY <1>7 DEF Exception
  <2> QED BY <1>t, <1>w, <2>1, NothingFacts DEF Inv, Static, Located, Counted
<1>8. ASSUME Jumps PROVE Inv'
  <2>1. InCode /\ Static /\ Flushed /\ other' = other
    BY <1>8 DEF Jumps
  <2>2. prog[at].op \in Flushing
    BY <1>8 DEF Jumps, Here, Flushing, Branches, Stopping
  <2>3. uncounted' = 0
    BY <2>1, <2>2, FlushedFacts
  <2>4. PICK v \in P!Registers, a \in Int :
          (JumpTo(v, a) /\ prog[at].op \in Branches /\ a = prog[at].to) \/ JumpTable(v, a)
    <3>1. View \in P!Registers /\ P!Link(View, at) \in P!Registers /\ View["ra"] \in Int
      BY <2>1, InCodeFacts, RegisterFacts
    <3>2. prog[at].to \in Int
      BY <2>1, InCodeFacts DEF P!Instructions
    <3> QED BY <1>8, <3>1, <3>2 DEF Jumps, Here, Branches
  <2>5. /\ at' = a /\ fn' = fn /\ cpu' \in P!Registers /\ local' \in P!Registers
        /\ where' = where \/ where' \in {"loop", "host"}
        /\ Located' /\ Counted'
    BY <2>1, <2>3, <2>4, JumpFacts
  <2> QED BY <1>t, <1>w, <2>1, <2>3, <2>5 DEF Inv, Static
<1>9. ASSUME SystemCall PROVE Inv'
  <2>1. InCode /\ Static /\ prog[at].op \in Flushing
    BY <1>9 DEF SystemCall, Here, Flushing, Stopping
  <2> DEFINE c == IF Here.op = "syscall" THEN StoreRegs ELSE StoreSysRegs
  <2>2. c \in P!Registers /\ \A v \in {0, 1} : [c EXCEPT !["a0"] = v] \in P!Registers
    BY RegisterFileFacts, RegisterFacts
  <2>3. cpu' \in P!Registers /\ other' \in [reg : P!Registers, at : Addresses]
    <3>1. [reg |-> c, at |-> at] \in [reg : P!Registers, at : Addresses]
      BY <2>1, <2>2, InCodeFacts
    <3> HIDE DEF c
    <3> QED BY <1>9, <1>t, <2>2, <3>1 DEF SystemCall, Return, c
  <2>4. local' \in P!Registers
    BY <1>9, <2>3, RegisterFileFacts, NothingFacts DEF SystemCall, Return
  <2>5. Following \/ (Flushed /\ fn' = fn /\ at' \in Int /\ where' \in {"loop", "host", "raised"})
    BY <1>9, <1>t DEF SystemCall, Return, Continue, Addresses
  <2>6. CASE Following
    <3>1. Located' /\ Counted'
      BY <2>1, <2>6, FollowingFacts
    <3>2. where' = where /\ fn' = fn /\ at' \in Int
      BY <2>6, <1>t DEF Following
    <3>3. uncounted' \in Int
      BY <2>1, <2>6, <1>t, InCodeFacts DEF Following, Code, Inv, WellEmitted, Counting
    <3> QED BY <1>t, <1>w, <2>1, <2>3, <2>4, <3>1, <3>2, <3>3 DEF Inv, Static
  <2>7. CASE Flushed /\ fn' = fn /\ at' \in Int /\ where' \in {"loop", "host", "raised"}
    <3>1. uncounted' = 0
      BY <2>1, <2>7, FlushedFacts
    <3> QED BY <1>t, <1>w, <2>1, <2>3, <2>4, <2>7, <3>1 DEF Inv, Static, Located, Counted
  <2> QED BY <2>5, <2>6, <2>7
<1>10. ASSUME Stop PROVE Inv'
  <2>1. /\ InCode /\ Static /\ Flushed /\ prog[at].op \in Flushing
        /\ cpu' = StoreRegs /\ local' = Nothing /\ where' = "host" /\ at' = at + 1
        /\ UNCHANGED <<fn, other>>
    BY <1>10 DEF Stop, Here, Flushing, Stopping
  <2>2. uncounted' = 0 /\ cpu' \in P!Registers /\ local' \in P!Registers
    BY <2>1, FlushedFacts, NothingFacts, RegisterFileFacts
  <2> QED BY <1>t, <1>w, <2>1, <2>2 DEF Inv, Static, Located, Counted
<1>11. ASSUME EndOfBlock PROVE Inv'
  <2>1. /\ Static /\ cpu' = StoreRegs /\ local' = Nothing /\ where' \in {"loop", "host"}
        /\ at' = at /\ UNCHANGED <<fn, other, uncounted>>
    BY <1>11 DEF EndOfBlock, Return, Continue
  <2>2. cpu' \in P!Registers /\ local' \in P!Registers
    BY <2>1, NothingFacts, RegisterFileFacts
  <2> QED BY <1>t, <1>w, <2>1, <2>2 DEF Inv, Static, Located, Counted
<1>12. ASSUME UNCHANGED vars PROVE Inv'
  <2>1. Typed'
    BY <1>t, <1>12 DEF vars
  <2>2. WellEmitted(prog, emitted)' /\ Located' /\ Counted'
    BY <1>12 DEF vars, Inv, Located, Counted
  <2> QED BY <2>1, <2>2 DEF Inv
<1> QED
  BY <1>1, <1>2, <1>3, <1>4, <1>5, <1>6, <1>7, <1>8, <1>9, <1>10, <1>11, <1>12 DEF Next

(* Inv is an invariant.                                                    *)
LEMMA Invariance == Spec => []Inv
<1>1. Init => Inv
  BY InvInit
<1>2. Inv /\ [Next]_vars => Inv'
  BY InvNext
<1> QED BY <1>1, <1>2, PTL DEF Spec
------------------------------------------------------------------------------
(* Whoever looks at the counter of a compiled function finds every         *)
(* instruction counted: at its labels, and when a jump or a call leaves it.*)
THEOREM CounterCorrect == Spec => CounterFlushed
<1>1. Inv => (InCode /\ Code.label => uncounted = 0)
  BY DEF Inv, Counted, InCode, Code, Before
<1>2. ASSUME Inv, [Next]_vars, where = "block", where' \in {"loop", "host"}, at # emitted[fn].end
      PROVE  uncounted' = 0
  <2>1. InCode
    BY <1>2 DEF Inv, Located, Typed, InCode, WellEmitted, InBlocks
  <2>2. CASE Jumps
    <3>1. Flushed /\ prog[at].op \in Flushing
      BY <2>2 DEF Jumps, Here, Flushing, Branches, Stopping
    <3> QED BY <1>2, <2>1, <3>1, FlushedFacts
  <2>3. CASE SystemCall
    <3>1. prog[at].op \in Flushing
      BY <2>3 DEF SystemCall, Here, Flushing, Stopping
    <3>2. Flushed
      BY <1>2, <2>3 DEF SystemCall, Following
    <3> QED BY <1>2, <2>1, <3>1, <3>2, FlushedFacts
  <2>4. CASE Stop
    <3>1. Flushed /\ prog[at].op \in Flushing
      BY <2>4 DEF Stop, Here, Flushing, Stopping
    <3> QED BY <1>2, <2>1, <3>1, FlushedFacts
  <2>5. ~Interpret /\ ~InterpretCall /\ ~Raise /\ ~Resume /\ ~Enter
    BY <1>2 DEF Interpret, InterpretCall, InLoop, Raise, Resume, Enter
  <2>6. ~Straight /\ ~Fallback /\ ~Exception /\ ~EndOfBlock /\ ~UNCHANGED vars
    BY <1>2 DEF Straight, Fallback, Following, Exception, EndOfBlock, vars
  <2> QED BY <1>2, <2>2, <2>3, <2>4, <2>5, <2>6 DEF Next
<1>3. Inv /\ [Next]_vars =>
        [where = "block" /\ where' \in {"loop", "host"} /\ at # emitted[fn].end => uncounted' = 0]_vars
  BY <1>2
<1> QED BY <1>1, <1>3, Invariance, PTL DEF Spec, CounterFlushed
------------------------------------------------------------------------------
(* Which registers are the guest's: between two handlers in a row, and     *)
(* outside of blocks, those of the CPU.                                    *)
LEMMA InARowFacts ==
  ASSUME NEW p, NEW e, WellEmitted(p, e), NEW f \in Addresses, NEW a \in Int,
         e[f].base = f, f <= a, a <= e[f].end,
         a > f => a - 1 \in Addresses /\ e[a - 1].base = f
  PROVE  /\ (a > f /\ p[a - 1].op = "fallback" /\ ~e[a - 1].load) <=> InARow(p, e, a)
         /\ a = e[f].end => ~InARow(p, e, a)
<1>1. (a - 1) + 1 = a
  OBVIOUS
<1>2. ASSUME a > f, p[a - 1].op = "fallback" PROVE ~e[a - 1].load <=> InARow(p, e, a)
  BY <1>1, <1>2 DEF WellEmitted, StoresAndLoads
<1>3. ASSUME InARow(p, e, a) PROVE a > f /\ p[a - 1].op = "fallback" /\ a # e[f].end
  <2>1. /\ a \in Addresses /\ a - 1 \in Addresses /\ e[a].base = e[a - 1].base
        /\ p[a - 1].op = "fallback"
    BY <1>3 DEF InARow
  <2>2. CASE a = f
    <3>1. e[a - 1].base <= a - 1 /\ a \in Int
      BY <2>1 DEF WellEmitted, InBlocks
    <3> QED BY <2>1, <2>2, <3>1
  <2>3. CASE a > f
    <3>1. e[a].base = f /\ e[a].end = e[f].end /\ a < e[a].end /\ e[a].end \in Nat
      BY <2>1, <2>3 DEF WellEmitted, InBlocks
    <3> QED BY <2>1, <2>3, <3>1
  <2>4. f \in Int
    BY DEF Addresses
  <2> QED BY <2>2, <2>3, <2>4
<1> QED BY <1>2, <1>3

LEMMA GuestNow ==
  ASSUME Inv
  PROVE  /\ where = "block" => (BetweenHandlers <=> InARow(prog, emitted, at))
         /\ where = "block" /\ at = emitted[fn].end => ~BetweenHandlers
<1>1. /\ WellEmitted(prog, emitted) /\ fn \in Addresses /\ at \in Int
      /\ where = "block" => /\ emitted[fn].base = fn /\ fn <= at /\ at <= emitted[fn].end
                            /\ at > fn => at - 1 \in Addresses /\ emitted[at - 1].base = fn
  BY DEF Inv, Typed, Located
<1> QED BY <1>1, InARowFacts DEF BetweenHandlers

LEMMA GuestNext ==
  ASSUME Inv'
  PROVE  where' = "block" => (BetweenHandlers' <=> InARow(prog', emitted', at'))
<1>1. /\ WellEmitted(prog', emitted') /\ fn' \in Addresses /\ at' \in Int
      /\ where' = "block" => /\ emitted'[fn'].base = fn' /\ fn' <= at' /\ at' <= emitted'[fn'].end
                             /\ at' > fn' => at' - 1 \in Addresses /\ emitted'[at' - 1].base = fn'
  BY DEF Inv, Typed, Located
<1> QED BY <1>1, InARowFacts DEF BetweenHandlers

(* Outside of blocks.                                                      *)
LEMMA OutsideFacts ==
  /\ where # "block" => GuestRegisters = cpu
  /\ where' # "block" => GuestRegisters' = cpu'
  BY DEF GuestRegisters

(* Behind an instruction that is no handler's, and at a label.             *)
LEMMA BehindFacts ==
  ASSUME Inv', where' = "block", prog' = prog, emitted' = emitted,
         (at' = at + 1 /\ at \in Addresses /\ prog[at].op # "fallback") \/ emitted[at'].label
  PROVE  GuestRegisters' = View'
<1>1. ~InARow(prog', emitted', at')
  BY DEF InARow, Addresses
<1>2. ~BetweenHandlers'
  BY <1>1, GuestNext
<1> QED BY <1>2 DEF GuestRegisters

LEMMA HereFacts ==
  ASSUME Inv, InCode
  PROVE  /\ prog[at].op # "fallback" => GuestRegisters = View
         /\ prog[at].op = "fallback" => GuestRegisters = IF Code.store THEN View ELSE cpu
<1>1. where = "block" /\ at \in Addresses
  BY InCodeFacts
<1>2. GuestRegisters = IF InARow(prog, emitted, at) THEN cpu ELSE View
  BY <1>1, GuestNow DEF GuestRegisters
<1>3. Code.store <=> prog[at].op = "fallback" /\ ~InARow(prog, emitted, at)
  BY <1>1 DEF Inv, WellEmitted, StoresAndLoads, Code
<1> QED BY <1>2, <1>3 DEF InARow
------------------------------------------------------------------------------
(* Every step of the loop is one of the program, or none.                  *)
LEMMA LoopSteps ==
  ASSUME Inv, Inv', Interpret \/ InterpretCall \/ Raise \/ Resume
  PROVE  Guest!Next
<1> USE DEF Guest!At, Guest!Here, Guest!GoTo, Guest!JumpTo, Guest!Addresses, Addresses
<1>1. GuestRegisters = cpu /\ GuestRegisters' = cpu' /\ prog' = prog
  <2>1. where # "block" /\ where' # "block" /\ prog' = prog
    BY DEF Interpret, InterpretCall, InLoop, Raise, Resume, Continue, Static
  <2> QED BY <2>1, OutsideFacts
<1>2. cpu' \in P!Registers /\ P!Registers = Guest!Registers
  BY DEF Inv, Typed, P!Registers, P!Regs, P!Values, Guest!Registers, Guest!Regs, Guest!Values
<1>3. CASE Interpret
  <2>1. InLoop /\ where = "loop" /\ at \in Addresses
    BY <1>3 DEF Interpret, InLoop
  <2>2. CASE /\ Here.op \in {"emitted", "fallback", "access"}
             /\ ~(Here.op = "access" /\ P!Faults(Here, cpu))
             /\ cpu' = P!Result(Here, cpu) /\ at' = at + 1 /\ UNCHANGED <<where, other>>
    <3>1. Guest!Compute \/ Guest!Access
      BY <1>1, <2>1, <2>2
      DEF Guest!Compute, Guest!Access, Guest!Result, P!Result, Guest!Faults, P!Faults, Here
    <3> QED BY <3>1 DEF Guest!Next
  <2>3. CASE /\ Here.op \in {"vector", "nop"} \/ (Here.op = "branch" /\ cpu[Here.rj] = 0)
             /\ at' = at + 1 /\ UNCHANGED <<where, cpu, other>>
    <3>1. Guest!Elsewhere \/ Guest!Branch
      BY <1>1, <2>1, <2>3 DEF Guest!Elsewhere, Guest!Branch, Here
    <3> QED BY <3>1 DEF Guest!Next
  <2>4. CASE /\ Here.op = "jump" \/ (Here.op = "branch" /\ cpu[Here.rj] # 0)
             /\ Continue(Here.to) /\ UNCHANGED <<cpu, other>>
    <3>1. Guest!Jump \/ Guest!Branch
      BY <1>1, <2>1, <2>4 DEF Guest!Jump, Guest!Branch, Here, Continue
    <3> QED BY <3>1 DEF Guest!Next
  <2>5. CASE Here.op = "call" /\ Continue(Here.to) /\ cpu' = P!Link(cpu, at) /\ UNCHANGED other
    <3>1. Guest!Call
      BY <1>1, <2>1, <2>5 DEF Guest!Call, Here, Continue, P!Link, Guest!Link
    <3> QED BY <3>1 DEF Guest!Next
  <2>6. CASE Here.op = "indirect" /\ Continue(cpu["ra"]) /\ cpu' = P!Link(cpu, at) /\ UNCHANGED other
    <3>1. Guest!Indirect
      BY <1>1, <2>1, <2>6 DEF Guest!Indirect, Here, Continue, P!Link, Guest!Link
    <3> QED BY <3>1 DEF Guest!Next
  <2>7. CASE Here.op = "ret" /\ Continue(cpu["ra"]) /\ UNCHANGED <<cpu, other>>
    <3>1. Guest!Return
      BY <1>1, <2>1, <2>7 DEF Guest!Return, Here, Continue
    <3> QED BY <3>1 DEF Guest!Next
  <2>8. CASE Here.op = "stop" /\ where' = "host" /\ at' = at + 1 /\ UNCHANGED <<cpu, other>>
    <3>1. Guest!Stop
      BY <1>1, <2>1, <2>8 DEF Guest!Stop, Here
    <3> QED BY <3>1 DEF Guest!Next
  <2> QED BY <1>3, <2>2, <2>3, <2>4, <2>5, <2>6, <2>7, <2>8 DEF Interpret
<1>4. CASE InterpretCall
  <2>1. where = "loop" /\ at \in Addresses
    BY <1>4 DEF InterpretCall, InLoop
  <2>2. Guest!SystemCall \/ Guest!Native
    BY <1>1, <1>4, <2>1 DEF InterpretCall, Guest!SystemCall, Guest!Native, Here, Continue
  <2> QED BY <2>2 DEF Guest!Next
<1>5. CASE Raise
  <2>1. Guest!Raise
    BY <1>1, <1>2, <1>5 DEF Raise, InLoop, Here, P!Faults, Guest!Raise, Guest!Faults
  <2> QED BY <2>1 DEF Guest!Next
<1>6. CASE Resume
  <2>1. Guest!Resume
    BY <1>1, <1>6 DEF Resume, Guest!Resume
  <2> QED BY <2>1 DEF Guest!Next
<1> QED BY <1>3, <1>4, <1>5, <1>6

(* Every step of a function, but for entering and leaving it, is one of    *)
(* the program; it works on the guest's registers, current or not.         *)
LEMMA EnterStutters ==
  ASSUME Inv, Inv', Enter
  PROVE  UNCHANGED Guest!guest
<1>1. /\ where = "loop" /\ where' = "block" /\ prog' = prog /\ emitted' = emitted
      /\ at' = at /\ cpu' = cpu /\ other' = other /\ at \in Addresses /\ emitted[at].mapped
      /\ fn' = emitted[at].base /\ local' = [r \in Regs |-> IF r \in emitted[at].used THEN cpu[r] ELSE 0]
  BY DEF Enter, Static, Code
<1>2. emitted[at'].label
  BY <1>1 DEF Inv, WellEmitted, Labelled
<1>3. GuestRegisters' = View'
  BY <1>1, <1>2, BehindFacts
<1>4. View' = cpu
  <2>1. emitted'[fn'].used = emitted'[fn'].used /\ cpu \in [Regs -> 0..Size]
    BY DEF Inv, Typed, P!Registers, P!Regs, P!Values, Regs
  <2>2. emitted[fn'].used = emitted[at].used
    BY <1>1 DEF Inv, WellEmitted, InBlocks
  <2>3. View' = [r \in Regs |-> IF r \in emitted[fn'].used THEN local'[r] ELSE cpu[r]]
    BY <1>1 DEF View, Used
  <2> QED BY <1>1, <2>1, <2>2, <2>3
<1>5. GuestRegisters = cpu
  BY <1>1, OutsideFacts
<1> QED BY <1>1, <1>3, <1>4, <1>5 DEF Guest!guest

LEMMA StraightSteps ==
  ASSUME Inv, Inv', Straight
  PROVE  Guest!Next
<1> USE DEF Guest!At, Guest!Here, Guest!GoTo, Guest!JumpTo, Guest!Addresses, Addresses
<1>1. /\ InCode /\ where = "block" /\ at \in Addresses /\ prog[at].op # "fallback"
      /\ prog' = prog /\ emitted' = emitted /\ where' = where /\ fn' = fn /\ at' = at + 1
      /\ other' = other
  <2>1. InCode
    BY DEF Straight
  <2> QED BY <2>1, InCodeFacts DEF Straight, Here, Static, Following
<1>2. GuestRegisters = View /\ GuestRegisters' = View'
  BY <1>1, HereFacts, BehindFacts
<1>3. View \in P!Registers /\ P!Result(prog[at], View) \in P!Registers
  BY <1>1, InCodeFacts, RegisterFacts
<1>4. CASE Here.op \in {"emitted", "access"} /\ Compute(P!Result(Here, View))
           /\ (Here.op = "access" => ~P!Faults(Here, View))
  <2>1. View' = P!Result(prog[at], View)
    BY <1>1, <1>3, <1>4, ComputeFacts DEF Here, Static
  <2>2. Guest!Compute \/ Guest!Access
    BY <1>1, <1>2, <1>4, <2>1
    DEF Guest!Compute, Guest!Access, Guest!Result, P!Result, Guest!Faults, P!Faults, Here
  <2> QED BY <2>2 DEF Guest!Next
<1>5. CASE /\ Here.op \in {"vector", "nop"} \/ (Here.op = "branch" /\ View[Here.rj] = 0)
           /\ UNCHANGED <<cpu, local>>
  <2>1. View' = View
    BY <1>1, <1>5 DEF View, Used
  <2>2. Guest!Elsewhere \/ Guest!Branch
    BY <1>1, <1>2, <1>5, <2>1 DEF Guest!Elsewhere, Guest!Branch, Here
  <2> QED BY <2>2 DEF Guest!Next
<1> QED BY <1>4, <1>5 DEF Straight

(* A handler works on what it is given, and what it leaves is loaded, or   *)
(* stays in the CPU for the next handler.                                  *)
LEMMA FallbackSteps ==
  ASSUME Inv, Inv', Fallback
  PROVE  Guest!Next
<1>1. /\ InCode /\ where = "block" /\ at \in Addresses /\ at \in Nat /\ prog[at].op = "fallback"
      /\ prog' = prog /\ emitted' = emitted /\ where' = where /\ fn' = fn /\ at' = at + 1
      /\ other' = other
  <2>1. InCode
    BY DEF Fallback
  <2> QED BY <2>1, InCodeFacts DEF Fallback, Here, Static, Following
<1>2. cpu' = P!Result(prog[at], GuestRegisters)
  BY <1>1, HereFacts DEF Fallback, StoreRegs, Here
<1>3. GuestRegisters' = cpu'
  <2>1. emitted[at].load <=> ~InARow(prog, emitted, at + 1)
    BY <1>1 DEF Inv, WellEmitted, StoresAndLoads
  <2>2. BetweenHandlers' <=> ~emitted[at].load
    BY <1>1, <2>1, GuestNext
  <2>3. CASE emitted[at].load
    <3>1. local' = [r \in Regs |-> IF r \in emitted[fn].used THEN cpu'[r] ELSE local[r]]
      BY <2>3 DEF Fallback, Code, LoadRegs, Used
    <3>2. View' = [r \in Regs |-> IF r \in emitted[fn].used THEN local'[r] ELSE cpu'[r]]
      BY <1>1 DEF View, Used
    <3>3. cpu' \in [Regs -> 0..Size]
      BY DEF Inv, Typed, P!Registers, P!Regs, P!Values, Regs
    <3>4. View' = cpu'
      BY <3>1, <3>2, <3>3
    <3> QED BY <1>1, <2>2, <2>3, <3>4 DEF GuestRegisters
  <2>4. CASE ~emitted[at].load
    BY <2>2, <2>4 DEF GuestRegisters
  <2> QED BY <2>3, <2>4
<1>4. Guest!Compute
  BY <1>1, <1>2, <1>3
  DEF Guest!Compute, Guest!At, Guest!Here, Guest!GoTo, Guest!Addresses, Addresses, Guest!Result, P!Result
<1> QED BY <1>4 DEF Guest!Next

LEMMA ExceptionSteps ==
  ASSUME Inv, Inv', Exception
  PROVE  Guest!Next
<1>1. /\ InCode /\ where = "block" /\ at \in Addresses /\ prog[at].op = "access"
      /\ prog' = prog /\ where' = "raised" /\ at' = at /\ other' = other
      /\ View[prog[at].rj] # 0
  <2>1. InCode
    BY DEF Exception
  <2> QED BY <2>1, InCodeFacts DEF Exception, Here, Static, P!Faults
<1>2. GuestRegisters = View /\ GuestRegisters' = cpu'
  BY <1>1, HereFacts, OutsideFacts
<1>3. cpu' \in P!Registers /\ P!Registers = Guest!Registers
  BY DEF Inv, Typed, P!Registers, P!Regs, P!Values, Guest!Registers, Guest!Regs, Guest!Values
<1>4. Guest!Raise
  BY <1>1, <1>2, <1>3
  DEF Guest!Raise, Guest!At, Guest!Here, Guest!Addresses, Addresses, Guest!Faults
<1> QED BY <1>4 DEF Guest!Next

LEMMA JumpSteps ==
  ASSUME Inv, Inv', Jumps
  PROVE  Guest!Next
<1> USE DEF Guest!At, Guest!Here, Guest!GoTo, Guest!JumpTo, Guest!Addresses, Addresses
<1>1. /\ InCode /\ where = "block" /\ at \in Addresses /\ prog[at].op # "fallback"
      /\ Static /\ prog' = prog /\ emitted' = emitted /\ other' = other
      /\ prog[at] \in P!Instructions /\ View \in P!Registers
  <2>1. InCode
    BY DEF Jumps
  <2> QED BY <2>1, InCodeFacts DEF Jumps, Here, Static
<1>2. GuestRegisters = View
  BY <1>1, HereFacts
<1>3. uncounted' = 0
  <2>1. prog[at].op \in Flushing /\ Flushed
    BY DEF Jumps, Here, Flushing, Branches, Stopping
  <2> QED BY <1>1, <2>1, FlushedFacts
<1>4. ASSUME NEW v \in P!Registers, NEW a \in Int,
             (JumpTo(v, a) /\ prog[at].op \in Branches /\ a = prog[at].to) \/ JumpTable(v, a)
      PROVE  at' = a /\ GuestRegisters' = v /\ where' \in {"block", "loop", "host"}
  <2>1. /\ at' = a /\ fn' = fn
        /\ \/ where' = where /\ View' = v /\ a \in Addresses /\ emitted[a].label
           \/ where' \in {"loop", "host"} /\ cpu' = v
    BY <1>1, <1>3, <1>4, JumpFacts
  <2>2. CASE where' = where /\ View' = v /\ a \in Addresses /\ emitted[a].label
    BY <1>1, <2>1, <2>2, BehindFacts
  <2>3. CASE where' \in {"loop", "host"} /\ cpu' = v
    BY <2>1, <2>3, OutsideFacts
  <2> QED BY <2>1, <2>2, <2>3
<1>5. P!Link(View, at) \in P!Registers /\ View["ra"] \in Int /\ prog[at].to \in Int
  BY <1>1, RegisterFacts DEF P!Instructions
<1>6. CASE Here.op = "branch" /\ View[Here.rj] # 0 /\ JumpTo(View, Here.to)
  <2>1. at' = prog[at].to /\ GuestRegisters' = View /\ where' \in {"block", "loop", "host"}
    BY <1>1, <1>4, <1>5, <1>6 DEF Here, Branches
  <2>2. Guest!Branch
    BY <1>1, <1>2, <1>6, <2>1 DEF Guest!Branch, Here
  <2> QED BY <2>2 DEF Guest!Next
<1>7. CASE Here.op = "jump" /\ JumpTo(View, Here.to)
  <2>1. at' = prog[at].to /\ GuestRegisters' = View /\ where' \in {"block", "loop", "host"}
    BY <1>1, <1>4, <1>5, <1>7 DEF Here, Branches
  <2>2. Guest!Jump
    BY <1>1, <1>2, <1>7, <2>1 DEF Guest!Jump, Here
  <2> QED BY <2>2 DEF Guest!Next
<1>8. CASE Here.op = "call" /\ JumpTo(P!Link(View, at), Here.to)
  <2>1. at' = prog[at].to /\ GuestRegisters' = P!Link(View, at) /\ where' \in {"block", "loop", "host"}
    BY <1>1, <1>4, <1>5, <1>8 DEF Here, Branches
  <2>2. Guest!Call
    BY <1>1, <1>2, <1>8, <2>1 DEF Guest!Call, Guest!Link, P!Link, Here
  <2> QED BY <2>2 DEF Guest!Next
<1>9. CASE Here.op = "indirect" /\ JumpTable(P!Link(View, at), View["ra"])
  <2>1. at' = View["ra"] /\ GuestRegisters' = P!Link(View, at) /\ where' \in {"block", "loop", "host"}
    BY <1>4, <1>5, <1>9
  <2>2. Guest!Indirect
    BY <1>1, <1>2, <1>9, <2>1 DEF Guest!Indirect, Guest!Link, P!Link, Here
  <2> QED BY <2>2 DEF Guest!Next
<1>10. CASE Here.op = "ret" /\ JumpTable(View, View["ra"])
  <2>1. at' = View["ra"] /\ GuestRegisters' = View /\ where' \in {"block", "loop", "host"}
    BY <1>1, <1>4, <1>5, <1>10
  <2>2. Guest!Return
    BY <1>1, <1>2, <1>10, <2>1 DEF Guest!Return, Here
  <2> QED BY <2>2 DEF Guest!Next
<1> QED BY <1>6, <1>7, <1>8, <1>9, <1>10 DEF Jumps

(* Around a system call registers are stored; behind it only those it may  *)
(* have changed are loaded, unless the function is left.                   *)
LEMMA SystemCallSteps ==
  ASSUME Inv, Inv', SystemCall
  PROVE  Guest!Next
<1> USE DEF Guest!At, Guest!Here, Guest!GoTo, Guest!JumpTo, Guest!Addresses, Addresses
<1>1. /\ InCode /\ where = "block" /\ at \in Addresses /\ at \in Nat
      /\ prog[at].op \in {"syscall", "native"}
      /\ prog' = prog /\ emitted' = emitted /\ View \in P!Registers
  <2>1. InCode
    BY DEF SystemCall
  <2> QED BY <2>1, InCodeFacts DEF SystemCall, Here, Static
<1>2. GuestRegisters = View
  BY <1>1, HereFacts
<1> DEFINE c == IF prog[at].op = "syscall" THEN View ELSE StoreSysRegs
<1>3. /\ cpu \in [Regs -> 0..Size] /\ local \in [Regs -> 0..Size] /\ c \in [Regs -> 0..Size]
      /\ View \in [Regs -> 0..Size] /\ cpu' \in [Regs -> 0..Size]
      /\ other.reg \in [Regs -> 0..Size]
      /\ P!Registers = [Regs -> 0..Size] /\ Guest!Registers = [Regs -> 0..Size]
  <2>1. /\ P!Registers = [Regs -> 0..Size] /\ Guest!Registers = [Regs -> 0..Size]
    BY DEF P!Registers, P!Regs, P!Values, Guest!Registers, Guest!Regs, Guest!Values, Regs
  <2>2. View \in P!Registers /\ StoreSysRegs \in P!Registers
    BY RegisterFileFacts
  <2> QED BY <2>1, <2>2 DEF Inv, Typed
<1>4. /\ View = [r \in Regs |-> IF r \in Used THEN local[r] ELSE cpu[r]]
      /\ \A r \in Regs : r \notin Used \/ r = "a0" => c[r] = View[r]
      /\ prog[at].op = "syscall" => c = View
      /\ SysRegs = {"a0"} /\ "a0" \in Regs
  BY DEF View, StoreSysRegs, SysRegs, Regs
<1>5. Following => /\ where' = "block" /\ at' = at + 1 /\ GuestRegisters' = View'
                   /\ View' = [r \in Regs |-> IF r \in Used THEN local'[r] ELSE cpu'[r]]
  <2> SUFFICES ASSUME Following
               PROVE  /\ where' = "block" /\ at' = at + 1 /\ GuestRegisters' = View'
                      /\ View' = [r \in Regs |-> IF r \in Used THEN local'[r] ELSE cpu'[r]]
    OBVIOUS
  <2>1. where' = where /\ at' = at + 1 /\ fn' = fn
    BY DEF Following
  <2>2. Used' = Used
    BY <1>1, <2>1 DEF Used
  <2>3. GuestRegisters' = View'
    BY <1>1, <2>1, BehindFacts
  <2> QED BY <1>1, <2>1, <2>2, <2>3 DEF View
<1>6. local' = LoadSysRegs(cpu') =>
        local' = [r \in Regs |-> IF r \in Used /\ r = "a0" THEN cpu'[r] ELSE local[r]]
  BY <1>4 DEF LoadSysRegs
<1>7. c = IF Here.op = "syscall" THEN StoreRegs ELSE StoreSysRegs
  BY DEF Here, StoreRegs
<1> HIDE DEF c
<1>8. CASE \E v \in {0, 1} :
             /\ cpu' = [c EXCEPT !["a0"] = v] /\ UNCHANGED other
             /\ \/ local' = LoadSysRegs(cpu') /\ Following
                \/ where' = "host" /\ at' = at + 1 /\ local' = Nothing /\ Flushed /\ UNCHANGED fn
  <2>1. PICK v \in {0, 1} :
             /\ cpu' = [c EXCEPT !["a0"] = v] /\ other' = other
             /\ \/ local' = LoadSysRegs(cpu') /\ Following
                \/ where' = "host" /\ at' = at + 1
    BY <1>8
  <2>2. CASE local' = LoadSysRegs(cpu') /\ Following
    <3>1. \A r \in Regs : View'[r] = IF r = "a0" THEN v ELSE View[r]
      BY <1>3, <1>4, <1>5, <1>6, <2>1, <2>2
    <3>2. View' = [View EXCEPT !["a0"] = v]
      BY <1>3, <1>4, <1>5, <2>2, <3>1
    <3>3. Guest!SystemCall \/ Guest!Native
      BY <1>1, <1>2, <1>5, <2>1, <2>2, <3>2 DEF Guest!SystemCall, Guest!Native
    <3> QED BY <3>3 DEF Guest!Next
  <2>3. CASE where' = "host" /\ at' = at + 1
    <3>1. GuestRegisters' = cpu'
      BY <2>3, OutsideFacts
    <3>2. prog[at].op = "syscall" => cpu' = [View EXCEPT !["a0"] = v]
      BY <1>4, <2>1
    <3>3. Guest!SystemCall \/ Guest!Native
      BY <1>1, <1>2, <1>3, <2>1, <2>3, <3>1, <3>2 DEF Guest!SystemCall, Guest!Native
    <3> QED BY <3>3 DEF Guest!Next
  <2> QED BY <2>1, <2>2, <2>3
<1>9. CASE /\ prog[at].op = "syscall" /\ other' = [reg |-> c, at |-> at]
           /\ Return(other.reg, other.at + 1)
  <2>1. /\ cpu' = other.reg /\ at' = other.at + 1 /\ where' \in {"loop", "host"}
        /\ GuestRegisters' = cpu' /\ other' = [reg |-> View, at |-> at]
    BY <1>4, <1>9, OutsideFacts DEF Return, Continue
  <2>2. Guest!SystemCall
    BY <1>1, <1>2, <1>9, <2>1 DEF Guest!SystemCall
  <2> QED BY <2>2 DEF Guest!Next
<1>10. CASE /\ prog[at].op = "syscall" /\ other' = [reg |-> c, at |-> at]
            /\ other.at = at /\ cpu' = other.reg /\ local' = LoadSysRegs(cpu') /\ Following
  <2> DEFINE kept == {r \in Regs : r \in Used /\ r # "a0"}
  <2>1. \A r \in Regs : View'[r] = IF r \in kept THEN View[r] ELSE other.reg[r]
    BY <1>4, <1>5, <1>6, <1>10
  <2>2. View' = [r \in Regs |-> IF r \in kept THEN View[r] ELSE other.reg[r]]
    BY <1>5, <1>10, <2>1
  <2>3. kept \in SUBSET Guest!Regs /\ Guest!Regs = Regs
    BY DEF Guest!Regs, Regs
  <2> HIDE DEF kept
  <2>4. /\ other' = [reg |-> View, at |-> at] /\ at' = other.at + 1 /\ where' = "block"
        /\ GuestRegisters' = [r \in Guest!Regs |-> IF r \in kept THEN View[r] ELSE other.reg[r]]
    BY <1>4, <1>5, <1>10, <2>2, <2>3
  <2>5. Guest!SystemCall
    BY <1>1, <1>2, <1>10, <2>3, <2>4 DEF Guest!SystemCall
  <2> QED BY <2>5 DEF Guest!Next
<1>11. CASE where' = "raised" /\ at' = at + 1 /\ other' = other
  <2>1. GuestRegisters' = cpu'
    BY <1>11, OutsideFacts
  <2>2. Guest!Raise
    BY <1>1, <1>3, <1>11, <2>1 DEF Guest!Raise
  <2> QED BY <2>2 DEF Guest!Next
<1> QED BY <1>7, <1>8, <1>9, <1>10, <1>11 DEF SystemCall, Here

LEMMA StopSteps ==
  ASSUME Inv, Inv', Stop
  PROVE  Guest!Next
<1>1. /\ InCode /\ where = "block" /\ at \in Addresses /\ prog[at].op = "stop"
      /\ prog' = prog /\ cpu' = View /\ where' = "host" /\ at' = at + 1 /\ other' = other
  <2>1. InCode
    BY DEF Stop
  <2> QED BY <2>1, InCodeFacts DEF Stop, Here, Static, StoreRegs
<1>2. GuestRegisters = View /\ GuestRegisters' = cpu'
  BY <1>1, HereFacts, OutsideFacts
<1>3. Guest!Stop
  BY <1>1, <1>2 DEF Guest!Stop, Guest!At, Guest!Here, Guest!GoTo, Guest!Addresses, Addresses
<1> QED BY <1>3 DEF Guest!Next

LEMMA EndSteps ==
  ASSUME Inv, Inv', EndOfBlock
  PROVE  Guest!Pause \/ UNCHANGED Guest!guest
<1>1. /\ where = "block" /\ at = emitted[fn].end /\ prog' = prog /\ cpu' = View
      /\ where' \in {"loop", "host"} /\ at' = at /\ other' = other
  BY DEF EndOfBlock, Return, Continue, Static, StoreRegs
<1>2. GuestRegisters = View /\ GuestRegisters' = View
  BY <1>1, GuestNow, OutsideFacts DEF GuestRegisters
<1> QED BY <1>1, <1>2 DEF Guest!Pause, Guest!guest

(* Compiled blocks do what the program does one instruction at a time: no  *)
(* register kept in a local variable, and no store or load left out, is    *)
(* ever stale for whoever looks at it.                                     *)
THEOREM TranslationCorrect == Spec => ImplementsProgram
<1>1. Init => Guest!Init
  <2> SUFFICES ASSUME Init PROVE Guest!Init
    OBVIOUS
  <2>1. /\ prog \in Programs /\ where = "loop" /\ at = Start /\ cpu = Nothing
        /\ other \in [reg : {[r \in Regs |-> IF r = "ra" THEN 0 ELSE 1]}, at : Others]
    BY DEF Init
  <2>2. GuestRegisters = cpu
    BY <2>1, OutsideFacts
  <2> QED BY <2>1, <2>2, ProgramsAssumption
      DEF Guest!Init, Guest!Regs, Guest!Addresses, Regs, Addresses, Nothing
<1>2. Inv /\ Inv' /\ [Next]_vars => [Guest!Next]_Guest!guest
  <2> SUFFICES ASSUME Inv, Inv', [Next]_vars PROVE Guest!Next \/ UNCHANGED Guest!guest
    OBVIOUS
  <2>1. CASE UNCHANGED vars
    <3>1. GuestRegisters' = GuestRegisters
      BY <2>1 DEF vars, GuestRegisters, BetweenHandlers, View, Used
    <3> QED BY <2>1, <3>1 DEF vars, Guest!guest
  <2>2. CASE EndOfBlock
    BY <2>2, EndSteps DEF Guest!Next
  <2> QED BY <2>1, <2>2, LoopSteps, EnterStutters, StraightSteps, FallbackSteps, ExceptionSteps,
             JumpSteps, SystemCallSteps, StopSteps DEF Next
<1>3. Spec => Guest!Init /\ [][Guest!Next]_Guest!guest
  BY <1>1, <1>2, Invariance, PTL DEF Spec
<1> QED BY <1>3 DEF ImplementsProgram, Guest!Spec
==============================================================================
