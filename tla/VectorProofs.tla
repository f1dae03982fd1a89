---------------------------- MODULE VectorProofs ----------------------------
(***************************************************************************)
(* Proofs about every floating-point and vector instruction, for every     *)
(* number of registers, whatever their bytes and whichever of them an      *)
(* instruction names.                                                      *)
(*                                                                         *)
(* An instruction is a list of writes, and what two engines leave behind   *)
(* is compared list against list: Unread and Settled say when the order of *)
(* the reads does not show (BufferNeedless), Low that no upper half is     *)
(* read (LowUnseen), Extends that one list begins with the other           *)
(* (ExtendedSteps), and SameRoles that two instructions name the same      *)
(* registers (UnusedRoles).  The *Facts lemmas say which lists the         *)
(* handlers, the bytecodes and the emitted code are, table by table.       *)
(***************************************************************************)
EXTENDS VectorInstructions, TLAPS, WellFoundedInduction, SequenceTheorems

---------------------------------------------------------------------------
(* Induction. *)

Less == {p \in Nat \X Nat : p[1] < p[2]}

LEMMA LessWellFounded == IsWellFoundedOn(Less, Nat)
  BY NatLessThanWellFounded DEF OpToRel, Less

LEMMA UpTo ==
  ASSUME NEW N \in Nat, NEW S, 0 \in S, \A n \in 0 .. N - 1 : n \in S => n + 1 \in S
  PROVE  0 .. N \subseteq S
<1> DEFINE T == {n \in Nat : n <= N /\ n \notin S}
<1> SUFFICES ASSUME T # {} PROVE FALSE
  OBVIOUS
<1>1. PICK x \in T : \A y \in T : ~ (<<y, x>> \in Less)
  <2>1. T \in SUBSET Nat
    OBVIOUS
  <2> HIDE DEF T
  <2> QED BY <2>1, LessWellFounded, WFMin, Zenon
<1>2. x # 0 /\ x - 1 \in 0 .. N - 1 /\ (x - 1) + 1 = x
  BY <1>1
<1>3. x - 1 \in S
  <2> SUFFICES ASSUME x - 1 \notin S PROVE FALSE
    OBVIOUS
  <2>1. x - 1 \in T /\ x \in Nat
    BY <1>1, <1>2
  <2>2. <<x - 1, x>> \in Less
    BY <2>1, <1>2 DEF Less
  <2> QED BY <1>1, <2>1, <2>2
<1> QED BY <1>1, <1>2, <1>3

---------------------------------------------------------------------------
(* Machines, and one write. *)

Widths == {1, 2, 4, 8, 16, 32}
Roles4 == {"d", "j", "k", "a"}
Elem == {e \in (Roles4 \cup Others) \X Widths \X (0 .. 31) : e[2] * e[3] + e[2] <= 32}

First(e) == e[2] * e[3]

Covers(i, e, p, n) == p = Place(i, e[1]) /\ n \in First(e) .. First(e) + e[2] - 1

Machine(m) == m = [bytes |-> [p \in Places |-> [n \in 0 .. 31 |-> m.bytes[p][n]]], trap |-> m.trap]

Named(i) == i.d \in VRegs /\ i.j \in VRegs /\ i.k \in VRegs /\ i.a \in VRegs

Valid(ws) == /\ Len(ws) \in Nat
             /\ \A x \in 1 .. Len(ws) : ws[x].to \in Elem /\ \A y \in DOMAIN ws[x].from : ws[x].from[y] \in Elem

LEMMA ElemFacts ==
  ASSUME NEW e \in Elem
  PROVE  /\ First(e) \in 0 .. 31 /\ e[2] \in 1 .. 32 /\ First(e) + e[2] <= 32
         /\ e[1] \in Roles4 \cup Others /\ e[2] \in Widths /\ e[3] \in 0 .. 31
<1>1. e[1] \in Roles4 \cup Others /\ e[2] \in Widths /\ e[3] \in 0 .. 31 /\ e[2] * e[3] + e[2] <= 32
  BY DEF Elem
<1>2. e[2] * e[3] \in Nat
  BY <1>1 DEF Widths
<1> HIDE DEF First
<1>3. First(e) = e[2] * e[3]
  BY DEF First
<1> QED BY <1>1, <1>2, <1>3 DEF Widths

LEMMA PlaceFacts ==
  ASSUME NEW i, Named(i), NEW e \in Elem
  PROVE  /\ Place(i, e[1]) \in Places
         /\ e[1] \in Roles4 => Place(i, e[1]) = i[e[1]] /\ Place(i, e[1]) \in VRegs /\ Place(i, e[1]) \notin Others
         /\ e[1] \in Others => Place(i, e[1]) = e[1]
  BY ElemFacts, RegistersAssumption DEF Place, Places, Named, Roles4, Others

LEMMA MachinesEqual ==
  ASSUME NEW m, NEW g, Machine(m), Machine(g), m.trap = g.trap,
         \A p \in Places : \A n \in 0 .. 31 : m.bytes[p][n] = g.bytes[p][n]
  PROVE  m = g
<1>1. \A p \in Places : [n \in 0 .. 31 |-> m.bytes[p][n]] = [n \in 0 .. 31 |-> g.bytes[p][n]]
  OBVIOUS
<1>2. [p \in Places |-> [n \in 0 .. 31 |-> m.bytes[p][n]]] = [p \in Places |-> [n \in 0 .. 31 |-> g.bytes[p][n]]]
  BY <1>1
<1> QED BY <1>2 DEF Machine

LEMMA PutFacts ==
  ASSUME NEW m, Machine(m), NEW i, Named(i), NEW to \in Elem, NEW v
  PROVE  /\ Machine(Put(m, i, to, v))
         /\ Put(m, i, to, v).trap = m.trap
         /\ \A p \in Places : \A n \in 0 .. 31 :
              Put(m, i, to, v).bytes[p][n] = IF Covers(i, to, p, n) THEN v[n - First(to) + 1] ELSE m.bytes[p][n]
<1> DEFINE q == Place(i, to[1])
           b == [n \in 0 .. 31 |-> IF n \in First(to) .. First(to) + to[2] - 1 THEN v[n - First(to) + 1]
                                   ELSE m.bytes[q][n]]
<1>1. q \in Places
  BY PlaceFacts
<1>2. Put(m, i, to, v) = [m EXCEPT !.bytes[q] = b]
  BY DEF Put, First
<1>3. Put(m, i, to, v) = [bytes |-> [p \in Places |-> IF p = q THEN b ELSE [n \in 0 .. 31 |-> m.bytes[p][n]]], trap |-> m.trap]
  <2> HIDE DEF q, b
  <2> DEFINE B == [p \in Places |-> [n \in 0 .. 31 |-> m.bytes[p][n]]]
  <2>1. m = [bytes |-> B, trap |-> m.trap]
    BY DEF Machine
  <2>2. [B EXCEPT ![q] = b] = [p \in Places |-> IF p = q THEN b ELSE [n \in 0 .. 31 |-> m.bytes[p][n]]]
    OBVIOUS
  <2> HIDE DEF B
  <2>3. [m EXCEPT !.bytes[q] = b] = [bytes |-> [B EXCEPT ![q] = b], trap |-> m.trap]
    BY <2>1
  <2> QED BY <1>2, <2>2, <2>3
<1> DEFINE c == [p \in Places |-> IF p = q THEN b ELSE [n \in 0 .. 31 |-> m.bytes[p][n]]]
<1>4. \A p \in Places : c[p] = [n \in 0 .. 31 |-> c[p][n]]
  OBVIOUS
<1>5. c = [p \in Places |-> [n \in 0 .. 31 |-> c[p][n]]]
  <2>1. \A p \in Places : c[p] = [n \in 0 .. 31 |-> c[p][n]]
    BY <1>4
  <2>2. c = [p \in Places |-> c[p]]
    OBVIOUS
  <2> HIDE DEF c
  <2> QED BY <2>1, <2>2
<1>6. \A p \in Places : \A n \in 0 .. 31 :
        c[p][n] = IF p = q /\ n \in First(to) .. First(to) + to[2] - 1 THEN v[n - First(to) + 1] ELSE m.bytes[p][n]
  OBVIOUS
<1> HIDE DEF c
<1>7. Put(m, i, to, v) = [bytes |-> c, trap |-> m.trap]
  BY <1>3 DEF c
<1>8. Put(m, i, to, v).bytes = c /\ Put(m, i, to, v).trap = m.trap
  BY <1>7
<1>9. Machine(Put(m, i, to, v))
  BY <1>5, <1>7, <1>8 DEF Machine
<1> QED BY <1>6, <1>8, <1>9 DEF Covers

\* Two machines with the same bytes in an element give the same element.
LEMMA SameElement ==
  ASSUME NEW m, NEW g, NEW i, NEW h, NEW e \in Elem,
         \A n \in First(e) .. First(e) + e[2] - 1 : m.bytes[Place(i, e[1])][n] = g.bytes[Place(h, e[1])][n]
  PROVE  Element(m, i, e) = Element(g, h, e)
<1>1. \A n \in 1 .. e[2] : First(e) + n - 1 \in First(e) .. First(e) + e[2] - 1
  BY ElemFacts
<1>2. \A n \in 1 .. e[2] : m.bytes[Place(i, e[1])][First(e) + n - 1] = g.bytes[Place(h, e[1])][First(e) + n - 1]
  BY <1>1
<1> QED BY <1>2 DEF Element, First

LEMMA SameResult ==
  ASSUME NEW m, NEW g, NEW i, NEW h, NEW wr,
         \A x \in DOMAIN wr.from : Element(m, i, wr.from[x]) = Element(g, h, wr.from[x])
  PROVE  Result(m, i, wr) = Result(g, h, wr)
<1>1. [x \in DOMAIN wr.from |-> Element(m, i, wr.from[x])] = [x \in DOMAIN wr.from |-> Element(g, h, wr.from[x])]
  OBVIOUS
<1> DEFINE A == [x \in DOMAIN wr.from |-> Element(m, i, wr.from[x])]
           B == [x \in DOMAIN wr.from |-> Element(g, h, wr.from[x])]
           V(args) ==
             CASE wr.f = "copy" -> args[1]
               [] wr.f = "zero" -> [n \in 1 .. wr.to[2] |-> Zero]
               [] wr.f = "zext" -> [n \in 1 .. wr.to[2] |-> IF n <= wr.from[1][2] THEN args[1][n] ELSE Zero]
               [] OTHER         -> [n \in 1 .. wr.to[2] |-> <<wr.f, n, args>>]
<1>2. Result(m, i, wr) = V(A)
  BY DEF Result
<1>3. Result(g, h, wr) = V(B)
  BY DEF Result
<1> HIDE DEF A, B, V
<1>4. A = B
  BY <1>1 DEF A, B
<1> QED BY <1>2, <1>3, <1>4

---------------------------------------------------------------------------
(* The writes one after the other. *)

Chain(m, i, ws, locals, s) ==
  /\ s[0] = m
  /\ \A n \in 1 .. Len(ws) :
       s[n] = Put(s[n - 1], i, ws[n].to, Result(IF locals THEN m ELSE s[n - 1], i, ws[n]))

LEMMA StepsChain ==
  ASSUME NEW m, NEW i, NEW ws, Len(ws) \in Nat, NEW locals
  PROVE  \E s : Chain(m, i, ws, locals, s) /\ Steps(m, i, ws, locals) = s[Len(ws)]
<1> DEFINE To(prev, n) == Put(prev, i, ws[n].to, Result(IF locals THEN m ELSE prev, i, ws[n]))
           N == Len(ws)
           Good(k, s) == /\ s = [n \in 0 .. k |-> s[n]]
                         /\ s[0] = m
                         /\ \A n \in 1 .. k : s[n] = To(s[n - 1], n)
           Body(s) == [n \in 0 .. N |-> IF n = 0 THEN m ELSE To(s[n - 1], n)]
           S == {k \in 0 .. N : \E s : Good(k, s)}
<1>1. 0 \in S
  <2> DEFINE v == [n \in 0 .. 0 |-> m]
  <2>1. v = [n \in 0 .. 0 |-> v[n]] /\ v[0] = m /\ \A n \in 1 .. 0 : v[n] = To(v[n - 1], n)
    OBVIOUS
  <2>2. Good(0, v)
    <3> HIDE DEF v, To
    <3> QED BY <2>1
  <2> HIDE DEF Good, v
  <2> QED BY <2>2
<1>2. ASSUME NEW k \in 0 .. N - 1, k \in S PROVE k + 1 \in S
  <2>1. PICK s : Good(k, s)
    BY <1>2
  <2> HIDE DEF To
  <2> DEFINE v == [n \in 0 .. k + 1 |-> IF n = k + 1 THEN To(s[k], k + 1) ELSE s[n]]
  <2>2. v = [n \in 0 .. k + 1 |-> v[n]]
    OBVIOUS
  <2>3. v[0] = m
    BY <2>1
  <2>4. \A n \in 1 .. k + 1 : v[n] = To(v[n - 1], n)
    <3> SUFFICES ASSUME NEW n \in 1 .. k + 1 PROVE v[n] = To(v[n - 1], n)
      OBVIOUS
    <3>1. n - 1 \in 0 .. k
      OBVIOUS
    <3>2. v[n - 1] = s[n - 1]
      BY <3>1
    <3>3. CASE n = k + 1
      BY <3>2, <3>3
    <3>4. CASE n # k + 1
      <4>1. v[n] = s[n] /\ s[n] = To(s[n - 1], n)
        BY <3>4, <2>1
      <4> HIDE DEF v
      <4> QED BY <4>1, <3>2
    <3> QED BY <3>3, <3>4
  <2>5. Good(k + 1, v)
    <3> HIDE DEF v
    <3> QED BY <2>2, <2>3, <2>4
  <2> HIDE DEF Good, v
  <2> QED BY <2>5
<1>3. N \in S
  <2>1. 0 .. N \subseteq S
    <3> HIDE DEF S
    <3> QED BY <1>1, <1>2, UpTo
  <2> QED BY <2>1
<1>4. PICK s : Good(N, s)
  BY <1>3, Zenon
<1>5. s = Body(s)
  <2> HIDE DEF To
  <2>1. \A n \in 0 .. N : s[n] = Body(s)[n]
    BY <1>4
  <2>2. s = [n \in 0 .. N |-> s[n]] /\ Body(s) = [n \in 0 .. N |-> Body(s)[n]]
    BY <1>4
  <2> HIDE DEF Body, Good
  <2> QED BY <2>1, <2>2
<1> DEFINE t == CHOOSE f : f = Body(f)
<1>6. t = Body(t)
  <2> HIDE DEF Body
  <2> QED BY <1>5
<1>7. t[0] = m /\ \A n \in 1 .. N : t[n] = To(t[n - 1], n)
  <2> HIDE DEF To, t
  <2>1. N \in Nat
    OBVIOUS
  <2>2. Body(t)[0] = m /\ \A n \in 1 .. N : Body(t)[n] = To(t[n - 1], n)
    BY <2>1
  <2> HIDE DEF Body
  <2> QED BY <1>6, <2>2
<1>8. Steps(m, i, ws, locals) = t[N]
  BY DEF Steps
<1>9. Chain(m, i, ws, locals, t)
  <2> HIDE DEF t
  <2> QED BY <1>7 DEF Chain
<1> HIDE DEF t
<1> QED BY <1>8, <1>9

LEMMA ChainTyped ==
  ASSUME NEW m, Machine(m), NEW i, Named(i), NEW ws, Valid(ws), NEW locals, NEW s, Chain(m, i, ws, locals, s)
  PROVE  \A n \in 0 .. Len(ws) : Machine(s[n]) /\ s[n].trap = m.trap
<1> DEFINE S == {n \in 0 .. Len(ws) : Machine(s[n]) /\ s[n].trap = m.trap}
<1>1. 0 \in S
  BY DEF Chain, Valid
<1>2. ASSUME NEW n \in 0 .. Len(ws) - 1, n \in S PROVE n + 1 \in S
  <2>1. Len(ws) \in Nat /\ n + 1 \in 1 .. Len(ws) /\ n + 1 - 1 = n
    BY DEF Valid
  <2>2. PICK v : s[n + 1] = Put(s[n], i, ws[n + 1].to, v)
    BY <2>1 DEF Chain
  <2>3. ws[n + 1].to \in Elem
    BY <2>1 DEF Valid
  <2>4. Machine(s[n + 1]) /\ s[n + 1].trap = s[n].trap
    BY <1>2, <2>2, <2>3, PutFacts
  <2> QED BY <1>2, <2>1, <2>4
<1>3. 0 .. Len(ws) \subseteq S
  <2>1. Len(ws) \in Nat
    BY DEF Valid
  <2> HIDE DEF S
  <2> QED BY <1>1, <1>2, <2>1, UpTo
<1> QED BY <1>3

LEMMA StepsTyped ==
  ASSUME NEW m, Machine(m), NEW i, Named(i), NEW ws, Valid(ws), NEW locals
  PROVE  Machine(Steps(m, i, ws, locals)) /\ Steps(m, i, ws, locals).trap = m.trap
<1>1. PICK s : Chain(m, i, ws, locals, s) /\ Steps(m, i, ws, locals) = s[Len(ws)]
  BY StepsChain DEF Valid
<1>2. Len(ws) \in 0 .. Len(ws)
  BY DEF Valid
<1> QED BY <1>1, <1>2, ChainTyped

---------------------------------------------------------------------------
(* No write touches what a later one reads: reading first changes nothing. *)

Apart(i, to, e) == \/ Place(i, to[1]) # Place(i, e[1])
                   \/ First(to) + to[2] <= First(e)
                   \/ First(e) + e[2] <= First(to)

Unread(i, ws) ==
  \A x, y \in 1 .. Len(ws) : x < y => \A z \in DOMAIN ws[y].from : Apart(i, ws[x].to, ws[y].from[z])

LEMMA ApartKeeps ==
  ASSUME NEW m, Machine(m), NEW i, Named(i), NEW to \in Elem, NEW v, NEW e \in Elem, Apart(i, to, e)
  PROVE  Element(Put(m, i, to, v), i, e) = Element(m, i, e)
<1>1. Place(i, e[1]) \in Places
  BY PlaceFacts
<1>2. ASSUME NEW n \in First(e) .. First(e) + e[2] - 1
      PROVE  Put(m, i, to, v).bytes[Place(i, e[1])][n] = m.bytes[Place(i, e[1])][n]
  <2>1. n \in 0 .. 31
    BY ElemFacts
  <2>2. First(e) \in Int /\ e[2] \in Int /\ First(to) \in Int /\ to[2] \in Int /\ n \in Int
    BY ElemFacts
  <2> HIDE DEF First
  <2>3. ~ Covers(i, to, Place(i, e[1]), n)
    BY <2>2 DEF Apart, Covers
  <2> QED BY <1>1, <2>1, <2>3, PutFacts
<1> QED BY <1>2, SameElement

\* A write may also be read again when it leaves its element as it was: no
\* list of writes needs that of another than its first.
Idle(m, i, wr) == Put(m, i, wr.to, Result(m, i, wr)) = m
Settled(m, i, ws) ==
  \A x, y \in 1 .. Len(ws) : x < y => \/ x = 1 /\ Idle(m, i, ws[1])
                                      \/ \A z \in DOMAIN ws[y].from : Apart(i, ws[x].to, ws[y].from[z])

LEMMA UnreadSettled ==
  ASSUME NEW m, NEW i, NEW ws, Unread(i, ws)
  PROVE  Settled(m, i, ws)
  BY DEF Unread, Settled

LEMMA BufferNeedless ==
  ASSUME NEW m, Machine(m), NEW i, Named(i), NEW ws, Valid(ws), Settled(m, i, ws)
  PROVE  InPlace(m, i, ws) = Simultaneous(m, i, ws)
<1>1. PICK s : Chain(m, i, ws, FALSE, s) /\ Steps(m, i, ws, FALSE) = s[Len(ws)]
  BY StepsChain DEF Valid
<1>2. PICK t : Chain(m, i, ws, TRUE, t) /\ Steps(m, i, ws, TRUE) = t[Len(ws)]
  BY StepsChain DEF Valid
<1> DEFINE Left(n) == \A y \in n + 1 .. Len(ws) : \A z \in DOMAIN ws[y].from :
                        Element(s[n], i, ws[y].from[z]) = Element(m, i, ws[y].from[z])
           S == {n \in 0 .. Len(ws) : s[n] = t[n] /\ Left(n)}
<1>0. Len(ws) \in Nat
  BY DEF Valid
<1>3. 0 \in S
  BY <1>0, <1>1, <1>2 DEF Chain
<1>4. ASSUME NEW n \in 0 .. Len(ws) - 1, n \in S PROVE n + 1 \in S
  <2>1. n + 1 \in 1 .. Len(ws) /\ (n + 1) - 1 = n /\ n \in 0 .. Len(ws)
    BY <1>0
  <2>2. Machine(s[n])
    BY <1>1, <2>1, ChainTyped
  <2>3. Result(s[n], i, ws[n + 1]) = Result(m, i, ws[n + 1])
    <3>1. Left(n)
      BY <1>4
    <3>2. \A z \in DOMAIN ws[n + 1].from : Element(s[n], i, ws[n + 1].from[z]) = Element(m, i, ws[n + 1].from[z])
      BY <2>1, <3>1, <1>0
    <3> QED BY <3>2, SameResult
  <2>4. s[n + 1] = Put(s[n], i, ws[n + 1].to, Result(s[n], i, ws[n + 1]))
    BY <1>1, <2>1 DEF Chain
  <2>5. t[n + 1] = Put(t[n], i, ws[n + 1].to, Result(m, i, ws[n + 1]))
    BY <1>2, <2>1 DEF Chain
  <2>6. s[n + 1] = t[n + 1]
    BY <1>4, <2>3, <2>4, <2>5
  <2>7. ASSUME NEW y \in n + 2 .. Len(ws), NEW z \in DOMAIN ws[y].from
        PROVE  Element(s[n + 1], i, ws[y].from[z]) = Element(m, i, ws[y].from[z])
    <3>1. y \in 1 .. Len(ws) /\ n + 1 < y /\ y \in n + 1 .. Len(ws)
      BY <1>0
    <3>2. ws[y].from[z] \in Elem /\ ws[n + 1].to \in Elem
      BY <2>1, <3>1 DEF Valid
    <3>3. \/ n + 1 = 1 /\ Idle(m, i, ws[1])
          \/ Apart(i, ws[n + 1].to, ws[y].from[z])
      BY <2>1, <3>1 DEF Settled
    <3>4. Element(s[n + 1], i, ws[y].from[z]) = Element(s[n], i, ws[y].from[z])
      <4>1. CASE n + 1 = 1 /\ Idle(m, i, ws[1])
        <5>1. s[n] = m
          BY <1>1, <2>1, <4>1 DEF Chain
        <5>2. s[n + 1] = m
          BY <2>4, <4>1, <5>1 DEF Idle
        <5> QED BY <5>1, <5>2
      <4>2. CASE Apart(i, ws[n + 1].to, ws[y].from[z])
        BY <2>2, <2>4, <3>2, <4>2, ApartKeeps
      <4> QED BY <3>3, <4>1, <4>2
    <3>5. Left(n)
      BY <1>4
    <3> QED BY <3>1, <3>4, <3>5
  <2>8. Left(n + 1)
    <3>1. (n + 1) + 1 = n + 2
      BY <2>1
    <3> QED BY <2>7, <3>1
  <2> HIDE DEF Left
  <2> QED BY <1>0, <2>6, <2>8
<1>5. 0 .. Len(ws) \subseteq S
  <2> HIDE DEF S
  <2> QED BY <1>0, <1>3, <1>4, UpTo
<1>6. s[Len(ws)] = t[Len(ws)]
  BY <1>0, <1>5
<1> QED BY <1>1, <1>2, <1>6 DEF InPlace, Simultaneous

---------------------------------------------------------------------------
(* Writes that read no upper half show nothing of one.                     *)

Low(ws) == \A x \in 1 .. Len(ws) : \A z \in DOMAIN ws[x].from :
             ws[x].from[z][1] \in Others \/ First(ws[x].from[z]) + ws[x].from[z][2] <= 16

LEMMA VisibleElement ==
  ASSUME NEW m, NEW g, SameVisible(m, g), NEW i, Named(i), NEW e \in Elem,
         e[1] \in Others \/ First(e) + e[2] <= 16
  PROVE  Element(m, i, e) = Element(g, i, e)
<1>1. ASSUME NEW n \in First(e) .. First(e) + e[2] - 1
      PROVE  m.bytes[Place(i, e[1])][n] = g.bytes[Place(i, e[1])][n]
  <2>1. CASE e[1] \in Others
    BY <2>1, PlaceFacts DEF SameVisible
  <2>2. CASE e[1] \notin Others
    <3>1. First(e) \in 0 .. 31 /\ e[2] \in 1 .. 32 /\ e[1] \in Roles4
      BY <2>2, ElemFacts
    <3>2. Place(i, e[1]) \in VRegs
      BY <3>1, PlaceFacts
    <3> HIDE DEF First
    <3>3. n \in 0 .. 15
      BY <2>2, <3>1
    <3> QED BY <3>2, <3>3 DEF SameVisible
  <2> QED BY <2>1, <2>2
<1> QED BY <1>1, SameElement

LEMMA VisiblePut ==
  ASSUME NEW m, Machine(m), NEW g, Machine(g), SameVisible(m, g), NEW i, Named(i), NEW to \in Elem, NEW v
  PROVE  SameVisible(Put(m, i, to, v), Put(g, i, to, v))
<1> DEFINE p1 == Put(m, i, to, v)
           g1 == Put(g, i, to, v)
<1>1. p1.trap = g1.trap
  BY PutFacts DEF SameVisible
<1>2. ASSUME NEW p \in Places, NEW n \in 0 .. 31, m.bytes[p][n] = g.bytes[p][n]
      PROVE  p1.bytes[p][n] = g1.bytes[p][n]
  <2>1. p1.bytes[p][n] = IF Covers(i, to, p, n) THEN v[n - First(to) + 1] ELSE m.bytes[p][n]
    BY PutFacts
  <2>2. g1.bytes[p][n] = IF Covers(i, to, p, n) THEN v[n - First(to) + 1] ELSE g.bytes[p][n]
    BY PutFacts
  <2> QED BY <1>2, <2>1, <2>2
<1>3. Machine(p1) /\ Machine(g1)
  BY PutFacts
<1> HIDE DEF p1, g1
<1>4. ASSUME NEW p \in Others PROVE p1.bytes[p] = g1.bytes[p]
  <2>1. p \in Places
    BY DEF Places
  <2>2. p1.bytes[p] = [n \in 0 .. 31 |-> p1.bytes[p][n]] /\ g1.bytes[p] = [n \in 0 .. 31 |-> g1.bytes[p][n]]
    <3>1. p1.bytes = [q \in Places |-> [n \in 0 .. 31 |-> p1.bytes[q][n]]]
      BY <1>3 DEF Machine
    <3>2. g1.bytes = [q \in Places |-> [n \in 0 .. 31 |-> g1.bytes[q][n]]]
      BY <1>3 DEF Machine
    <3> QED BY <2>1, <3>1, <3>2
  <2>3. \A n \in 0 .. 31 : p1.bytes[p][n] = g1.bytes[p][n]
    BY <1>2, <2>1 DEF SameVisible
  <2> QED BY <2>2, <2>3
<1>5. ASSUME NEW p \in VRegs, NEW n \in 0 .. 15 PROVE p1.bytes[p][n] = g1.bytes[p][n]
  <2>1. p \in Places /\ n \in 0 .. 31 /\ m.bytes[p][n] = g.bytes[p][n]
    BY DEF Places, SameVisible
  <2> QED BY <1>2, <2>1
<1>6. SameVisible(p1, g1)
  BY <1>1, <1>4, <1>5 DEF SameVisible, p1, g1
<1> QED BY <1>6 DEF p1, g1

LEMMA LowUnseen ==
  ASSUME NEW m, Machine(m), NEW g, Machine(g), SameVisible(m, g), NEW i, Named(i),
         NEW ws, Valid(ws), Low(ws), NEW locals
  PROVE  SameVisible(Steps(m, i, ws, locals), Steps(g, i, ws, locals))
<1>1. PICK s : Chain(m, i, ws, locals, s) /\ Steps(m, i, ws, locals) = s[Len(ws)]
  BY StepsChain DEF Valid
<1>2. PICK t : Chain(g, i, ws, locals, t) /\ Steps(g, i, ws, locals) = t[Len(ws)]
  BY StepsChain DEF Valid
<1> DEFINE S == {n \in 0 .. Len(ws) : SameVisible(s[n], t[n])}
<1>0. Len(ws) \in Nat
  BY DEF Valid
<1>3. 0 \in S
  BY <1>0, <1>1, <1>2 DEF Chain
<1>4. ASSUME NEW n \in 0 .. Len(ws) - 1, n \in S PROVE n + 1 \in S
  <2>1. n + 1 \in 1 .. Len(ws) /\ (n + 1) - 1 = n /\ n \in 0 .. Len(ws)
    BY <1>0
  <2>2. Machine(s[n]) /\ Machine(t[n])
    BY <1>1, <1>2, <2>1, ChainTyped
  <2> DEFINE a == IF locals THEN m ELSE s[n]
             b == IF locals THEN g ELSE t[n]
  <2>3. SameVisible(a, b)
    BY <1>4
  <2>4. s[n + 1] = Put(s[n], i, ws[n + 1].to, Result(a, i, ws[n + 1]))
    BY <1>1, <2>1 DEF Chain
  <2>5. t[n + 1] = Put(t[n], i, ws[n + 1].to, Result(b, i, ws[n + 1]))
    BY <1>2, <2>1 DEF Chain
  <2> HIDE DEF a, b
  <2>6. ASSUME NEW z \in DOMAIN ws[n + 1].from
        PROVE  Element(a, i, ws[n + 1].from[z]) = Element(b, i, ws[n + 1].from[z])
    <3>1. ws[n + 1].from[z] \in Elem
      BY <2>1 DEF Valid
    <3>2. \/ ws[n + 1].from[z][1] \in Others
          \/ First(ws[n + 1].from[z]) + ws[n + 1].from[z][2] <= 16
      BY <2>1 DEF Low
    <3> QED BY <2>3, <3>1, <3>2, VisibleElement
  <2>7. Result(a, i, ws[n + 1]) = Result(b, i, ws[n + 1])
    BY <2>6, SameResult
  <2>8. ws[n + 1].to \in Elem
    BY <2>1 DEF Valid
  <2>9. SameVisible(s[n], t[n])
    BY <1>4
  <2>10. SameVisible(s[n + 1], t[n + 1])
    BY <2>2, <2>4, <2>5, <2>7, <2>8, <2>9, VisiblePut
  <2> QED BY <2>1, <2>10
<1>5. 0 .. Len(ws) \subseteq S
  <2> HIDE DEF S
  <2> QED BY <1>0, <1>3, <1>4, UpTo
<1>6. SameVisible(s[Len(ws)], t[Len(ws)])
  BY <1>0, <1>5
<1> QED BY <1>1, <1>2, <1>6

---------------------------------------------------------------------------
(* Writes added at the end change only what they cover.                    *)

Extends(more, ws, lo, hi) ==
  /\ Valid(more) /\ Len(ws) <= Len(more)
  /\ \A x \in 1 .. Len(ws) : more[x] = ws[x]
  /\ \A x \in Len(ws) + 1 .. Len(more) :
       more[x].to[1] = "d" /\ lo <= First(more[x].to) /\ First(more[x].to) + more[x].to[2] <= hi

\* The same except for the bytes lo..hi-1 of the target.
SameBut(m, g, i, lo, hi) ==
  /\ m.trap = g.trap
  /\ \A p \in Places : \A n \in 0 .. 31 : ~ (p = i.d /\ lo <= n /\ n < hi) => m.bytes[p][n] = g.bytes[p][n]

LEMMA ExtendedSteps ==
  ASSUME NEW m, Machine(m), NEW i, Named(i), NEW ws, Valid(ws), NEW more, NEW lo \in Nat, NEW hi \in Nat,
         Extends(more, ws, lo, hi), NEW locals
  PROVE  SameBut(Steps(m, i, ws, locals), Steps(m, i, more, locals), i, lo, hi)
<1>1. PICK s : Chain(m, i, ws, locals, s) /\ Steps(m, i, ws, locals) = s[Len(ws)]
  BY StepsChain DEF Valid
<1>2. PICK t : Chain(m, i, more, locals, t) /\ Steps(m, i, more, locals) = t[Len(more)]
  BY StepsChain DEF Extends, Valid
<1> DEFINE N == Len(ws)
           M == Len(more)
<1>3. N \in Nat /\ M \in Nat /\ N <= M /\ Valid(more)
  BY DEF Valid, Extends
<1>4. s[N] = t[N]
  <2> DEFINE S == {n \in 0 .. N : s[n] = t[n]}
  <2>1. 0 \in S
    BY <1>1, <1>2, <1>3 DEF Chain
  <2>2. ASSUME NEW n \in 0 .. N - 1, n \in S PROVE n + 1 \in S
    <3>1. n + 1 \in 1 .. N /\ n + 1 \in 1 .. M /\ (n + 1) - 1 = n
      BY <1>3
    <3>2. s[n + 1] = Put(s[n], i, ws[n + 1].to, Result(IF locals THEN m ELSE s[n], i, ws[n + 1]))
      BY <1>1, <3>1 DEF Chain
    <3>3. t[n + 1] = Put(t[n], i, more[n + 1].to, Result(IF locals THEN m ELSE t[n], i, more[n + 1]))
      BY <1>2, <3>1 DEF Chain
    <3>4. more[n + 1] = ws[n + 1]
      BY <3>1 DEF Extends
    <3>5. s[n + 1] = t[n + 1]
      BY <2>2, <3>2, <3>3, <3>4
    <3> QED BY <3>1, <3>5
  <2>3. 0 .. N \subseteq S
    <3> HIDE DEF S, N
    <3> QED BY <1>3, <2>1, <2>2, UpTo
  <2> QED BY <1>3, <2>3
<1> DEFINE S == {n \in 0 .. M - N : SameBut(s[N], t[N + n], i, lo, hi)}
<1>5. 0 \in S
  <2>1. N + 0 = N
    BY <1>3
  <2> HIDE DEF N
  <2> QED BY <1>3, <1>4, <2>1 DEF SameBut
<1>6. ASSUME NEW n \in 0 .. M - N - 1, n \in S PROVE n + 1 \in S
  <2>1. N + n + 1 \in 1 .. M /\ N + n + 1 \in N + 1 .. M /\ (N + n + 1) - 1 = N + n /\ N + n \in 0 .. M
        /\ N + (n + 1) = N + n + 1
    BY <1>3
  <2>2. Machine(t[N + n])
    BY <1>2, <1>3, <2>1, ChainTyped
  <2>3. PICK v : t[N + n + 1] = Put(t[N + n], i, more[N + n + 1].to, v)
    BY <1>2, <2>1 DEF Chain
  <2> DEFINE to == more[N + n + 1].to
  <2>4. to \in Elem
    BY <1>3, <2>1 DEF Valid
  <2>5. to[1] = "d" /\ lo <= First(to) /\ First(to) + to[2] <= hi
    BY <2>1 DEF Extends
  <2> HIDE DEF to, N, M
  <2>6. Place(i, to[1]) = i.d
    BY <2>5 DEF Place
  <2>7. First(to) \in Nat /\ to[2] \in Nat
    BY <2>4, ElemFacts
  <2>8. t[N + n + 1].trap = t[N + n].trap
        /\ \A p \in Places : \A k \in 0 .. 31 :
             t[N + n + 1].bytes[p][k] = IF Covers(i, to, p, k) THEN v[k - First(to) + 1] ELSE t[N + n].bytes[p][k]
    <3>1. t[N + n + 1] = Put(t[N + n], i, to, v)
      BY <2>3 DEF to
    <3>2. /\ Put(t[N + n], i, to, v).trap = t[N + n].trap
          /\ \A p \in Places : \A k \in 0 .. 31 : Put(t[N + n], i, to, v).bytes[p][k] =
               IF Covers(i, to, p, k) THEN v[k - First(to) + 1] ELSE t[N + n].bytes[p][k]
      BY <2>2, <2>4, PutFacts
    <3> QED BY <3>1, <3>2
  <2>9. \A p \in Places : \A k \in 0 .. 31 : Covers(i, to, p, k) => p = i.d /\ lo <= k /\ k < hi
    <3> HIDE DEF First
    <3> QED BY <2>5, <2>6, <2>7 DEF Covers
  <2>10. SameBut(s[N], t[N + n], i, lo, hi)
    BY <1>6
  <2>11. SameBut(s[N], t[N + n + 1], i, lo, hi)
    BY <2>8, <2>9, <2>10 DEF SameBut
  <2>12. n + 1 \in 0 .. M - N
    BY <1>3
  <2> QED BY <2>1, <2>11, <2>12
<1>7. 0 .. M - N \subseteq S
  <2>1. M - N \in Nat
    BY <1>3
  <2> HIDE DEF S, M, N
  <2> QED BY <1>5, <1>6, <2>1, UpTo
<1>8. M - N \in 0 .. M - N /\ N + (M - N) = M
  BY <1>3
<1> QED BY <1>1, <1>2, <1>7, <1>8

---------------------------------------------------------------------------
(* A register field no write names can hold any register.                  *)

SameRoles(i, h, ws) ==
  \A x \in 1 .. Len(ws) : /\ Place(i, ws[x].to[1]) = Place(h, ws[x].to[1])
                          /\ \A z \in DOMAIN ws[x].from : Place(i, ws[x].from[z][1]) = Place(h, ws[x].from[z][1])

LEMMA UnusedRoles ==
  ASSUME NEW m, NEW i, NEW h, NEW ws, Valid(ws), SameRoles(i, h, ws), NEW locals
  PROVE  Steps(m, i, ws, locals) = Steps(m, h, ws, locals)
<1>1. PICK s : Chain(m, i, ws, locals, s) /\ Steps(m, i, ws, locals) = s[Len(ws)]
  BY StepsChain DEF Valid
<1>2. PICK t : Chain(m, h, ws, locals, t) /\ Steps(m, h, ws, locals) = t[Len(ws)]
  BY StepsChain DEF Valid
<1> DEFINE S == {n \in 0 .. Len(ws) : s[n] = t[n]}
<1>0. Len(ws) \in Nat
  BY DEF Valid
<1>3. 0 \in S
  BY <1>0, <1>1, <1>2 DEF Chain
<1>4. ASSUME NEW n \in 0 .. Len(ws) - 1, n \in S PROVE n + 1 \in S
  <2>1. n + 1 \in 1 .. Len(ws) /\ (n + 1) - 1 = n /\ n \in 0 .. Len(ws)
    BY <1>0
  <2> DEFINE a == IF locals THEN m ELSE s[n]
             wr == ws[n + 1]
  <2>2. s[n + 1] = Put(s[n], i, wr.to, Result(a, i, wr))
    BY <1>1, <2>1 DEF Chain
  <2>3. t[n + 1] = Put(s[n], h, wr.to, Result(a, h, wr))
    BY <1>2, <1>4, <2>1 DEF Chain
  <2>4. Place(i, wr.to[1]) = Place(h, wr.to[1])
        /\ \A z \in DOMAIN wr.from : wr.from[z] \in Elem /\ Place(i, wr.from[z][1]) = Place(h, wr.from[z][1])
    BY <2>1 DEF SameRoles, Valid
  <2> HIDE DEF a, wr
  <2>5. Result(a, i, wr) = Result(a, h, wr)
    BY <2>4, SameElement, SameResult
  <2>6. \A v : Put(s[n], i, wr.to, v) = Put(s[n], h, wr.to, v)
    BY <2>4 DEF Put
  <2>7. s[n + 1] = t[n + 1]
    BY <2>2, <2>3, <2>5, <2>6
  <2> QED BY <2>1, <2>7
<1>5. 0 .. Len(ws) \subseteq S
  <2> HIDE DEF S
  <2> QED BY <1>0, <1>3, <1>4, UpTo
<1> QED BY <1>0, <1>1, <1>2, <1>5

---------------------------------------------------------------------------
(* The instructions of each table. *)

LsxOps == {"VSUB_B", "VSUB_H", "VSUB_W", "VSUB_D", "VMUL_B", "VMUL_H", "VMUL_W", "VMUL_D", "VMADD_B",
           "VMADD_H", "VMADD_W", "VMADD_D", "VADDI_HU", "VADDI_WU", "VADDI_DU", "VSEQ_B", "VSLT_B",
           "VSLT_H", "VSLT_W", "VSLT_D", "VNOR_V", "VORN_V", "VAND_V", "VBITREVI_D", "VSLLI_B",
           "VSLLI_H", "VSLLI_W", "VSLLI_D", "VPCNT_B", "VPCNT_H", "VPCNT_W", "VPCNT_D", "VFADD_D",
           "VFDIV_D", "VFMUL_S", "VFMUL_D", "VFTINTRZ_W_S", "VFTINTRZ_L_D", "VFMADD_D", "VFNMADD_D",
           "VOR_V", "VXOR_V", "VORI_B", "VSEQI_B", "VSEQI_H", "VSEQI_W", "VSEQI_D", "VADD_B", "VADD_H",
           "VADD_W", "VADD_D", "VADDI_BU", "VBITSEL_V", "VMAX_B", "VMAX_H", "VMAX_W", "VMAX_D",
           "VMAX_BU", "VMAX_HU", "VMAX_WU", "VMAX_DU", "VMIN_B", "VMIN_H", "VMIN_W", "VMIN_D",
           "VMIN_BU", "VMIN_HU", "VMIN_WU", "VMIN_DU"}
LasxOps == {"XVADD_D", "XVBITSEL_V", "XVXOR_V", "XVSUB_W", "XVMIN_BU", "XVMAX_BU", "XVSEQ_B",
            "XVFADD_D", "XVFMUL_D", "XVFDIV_D", "XVFSUB_D", "XVBITREVI_D", "XVFMADD_S", "XVFMADD_D",
            "XVFMSUB_S", "XVFNMADD_S", "XVFMSUB_D", "XVFNMADD_D", "XVFNMSUB_S", "XVFNMSUB_D",
            "XVORI_B", "XVXORI_B"}
ScalarOps == {"FABS_D", "FNEG_D", "FMOV_D", "FCLASS_S", "FCLASS_D", "FADD_D", "FMUL_D", "FMUL_S",
              "FMOV_S", "FADD_S", "FSUB_S", "FDIV_S", "FMAX_S", "FMIN_S", "FMAX_D", "FMIN_D", "FABS_S",
              "FSUB_D", "FDIV_D", "FMADD_S", "FMADD_D", "FMSUB_S", "FMSUB_D", "FNMADD_S", "FNMADD_D",
              "FNMSUB_S", "FNMSUB_D"}

LEMMA PlusIn == \A f, g, x : x \in DOMAIN (f ++ g) <=> x \in DOMAIN f \/ x \in DOMAIN g
<1> SUFFICES ASSUME NEW f, NEW g, NEW x
             PROVE  x \in DOMAIN (f ++ g) <=> x \in DOMAIN f \/ x \in DOMAIN g
  OBVIOUS
<1>1. x \in DOMAIN Overlay(f, g) <=> x \in DOMAIN f \/ x \in DOMAIN g
  BY DEF Overlay
<1>2. f ++ g = Overlay(f, g)
  BY DEF ++
<1> QED BY <1>1, <1>2

LEMMA PlusFacts ==
  ASSUME NEW f, NEW g
  PROVE  /\ DOMAIN (f ++ g) = DOMAIN f \cup DOMAIN g
         /\ \A x \in DOMAIN f : (f ++ g)[x] = f[x]
         /\ \A x \in DOMAIN g \ DOMAIN f : (f ++ g)[x] = g[x]
<1>1. /\ DOMAIN Overlay(f, g) = DOMAIN f \cup DOMAIN g
      /\ \A x \in DOMAIN f : Overlay(f, g)[x] = f[x]
      /\ \A x \in DOMAIN g \ DOMAIN f : Overlay(f, g)[x] = g[x]
  BY DEF Overlay
<1>2. f ++ g = Overlay(f, g)
  BY DEF ++
<1> QED BY <1>1, <1>2

LEMMA PlusRight ==
  ASSUME NEW f, NEW g, NEW x \in DOMAIN g, x \notin DOMAIN f
  PROVE  (f ++ g)[x] = g[x]
<1>1. Overlay(f, g)[x] = g[x]
  BY DEF Overlay
<1>2. f ++ g = Overlay(f, g)
  BY DEF ++
<1> QED BY <1>1, <1>2

LEMMA PlusSecond ==
  ASSUME NEW f, NEW g
  PROVE  \A x \in DOMAIN g : x \notin DOMAIN f => (f ++ g)[x] = g[x]
  BY PlusRight

LEMMA RowsIn == \A size, w, f, roles, ops, x : x \in DOMAIN Rows(size, w, f, roles, ops) <=> x \in ops
  BY DEF Rows

LEMMA RowIn == \A size, w, f, roles, op, x : x \in DOMAIN Row(size, w, f, roles, op) <=> x = op
  BY RowsIn DEF Row

LEMMA SingleIn ==
  /\ \A f, roles, ops, x : x \in DOMAIN Single(f, roles, ops) <=> x \in ops
  /\ \A f, roles, ops, x : x \in DOMAIN Double(f, roles, ops) <=> x \in ops
  BY RowsIn DEF Single, Double

LEMMA BHWDIn ==
  \A f, roles, ops, x : x \in DOMAIN BHWD(f, roles, ops) <=> x = ops[1] \/ x = ops[2] \/ x = ops[3] \/ x = ops[4]
  BY RowIn, PlusIn DEF BHWD

LEMMA LsxDomain == DOMAIN Lsx = LsxOps
<1>1. \A x : x \in DOMAIN SubMul <=> x \in {"VSUB_B", "VSUB_H", "VSUB_W", "VSUB_D", "VMUL_B", "VMUL_H", "VMUL_W", "VMUL_D"}
  BY PlusIn, RowsIn, RowIn, SingleIn, BHWDIn DEF SubMul
<1>2. \A x : x \in DOMAIN MaddAddi <=> x \in {"VMADD_B", "VMADD_H", "VMADD_W", "VMADD_D", "VADDI_HU", "VADDI_WU", "VADDI_DU"}
  BY PlusIn, RowsIn, RowIn, SingleIn, BHWDIn DEF MaddAddi
<1>3. \A x : x \in DOMAIN Compare <=> x \in {"VSEQ_B", "VSLT_B", "VSLT_H", "VSLT_W", "VSLT_D"}
  BY PlusIn, RowsIn, RowIn, SingleIn, BHWDIn DEF Compare
<1>4. \A x : x \in DOMAIN Bitwise <=> x \in {"VNOR_V", "VORN_V", "VAND_V", "VBITREVI_D"}
  BY PlusIn, RowsIn, RowIn, SingleIn, BHWDIn DEF Bitwise
<1>5. \A x : x \in DOMAIN ShiftCount <=> x \in {"VSLLI_B", "VSLLI_H", "VSLLI_W", "VSLLI_D", "VPCNT_B", "VPCNT_H",
                            "VPCNT_W", "VPCNT_D"}
  BY PlusIn, RowsIn, RowIn, SingleIn, BHWDIn DEF ShiftCount
<1>6. \A x : x \in DOMAIN Floats <=> x \in {"VFADD_D", "VFDIV_D", "VFMUL_S", "VFMUL_D", "VFTINTRZ_W_S", "VFTINTRZ_L_D",
                        "VFMADD_D", "VFNMADD_D", "VOR_V", "VXOR_V", "VORI_B"}
  BY PlusIn, RowsIn, RowIn, SingleIn, BHWDIn DEF Floats
<1>7. \A x : x \in DOMAIN EqualImm <=> x \in {"VSEQI_B", "VSEQI_H", "VSEQI_W", "VSEQI_D"}
  BY PlusIn, RowsIn, RowIn, SingleIn, BHWDIn DEF EqualImm
<1>8. \A x : x \in DOMAIN Add <=> x \in {"VADD_B", "VADD_H", "VADD_W", "VADD_D", "VADDI_BU"}
  BY PlusIn, RowsIn, RowIn, SingleIn, BHWDIn DEF Add
<1>9. \A x : x \in DOMAIN Select <=> x \in {"VBITSEL_V"}
  BY PlusIn, RowsIn, RowIn, SingleIn, BHWDIn DEF Select
<1>10. \A x : x \in DOMAIN Maximum <=> x \in {"VMAX_B", "VMAX_H", "VMAX_W", "VMAX_D", "VMAX_BU", "VMAX_HU", "VMAX_WU",
                         "VMAX_DU"}
  BY PlusIn, RowsIn, RowIn, SingleIn, BHWDIn DEF Maximum
<1>11. \A x : x \in DOMAIN Minimum <=> x \in {"VMIN_B", "VMIN_H", "VMIN_W", "VMIN_D", "VMIN_BU", "VMIN_HU", "VMIN_WU",
                         "VMIN_DU"}
  BY PlusIn, RowsIn, RowIn, SingleIn, BHWDIn DEF Minimum
<1>19. \A x : x \in DOMAIN Lsx <=> x \in LsxOps
  BY <1>1, <1>2, <1>3, <1>4, <1>5, <1>6, <1>7, <1>8, <1>9, <1>10, <1>11, PlusIn DEF Lsx, LsxOps
<1> QED BY <1>19

LEMMA LasxDomain == DOMAIN Lasx = LasxOps
<1>1. \A x : x \in DOMAIN WideSelect <=> x \in {"XVADD_D", "XVBITSEL_V"}
  BY PlusIn, RowsIn, RowIn, SingleIn, BHWDIn DEF WideSelect
<1>2. \A x : x \in DOMAIN WideByteOps <=> x \in {"XVXOR_V", "XVSUB_W", "XVMIN_BU", "XVMAX_BU", "XVSEQ_B"}
  BY PlusIn, RowsIn, RowIn, SingleIn, BHWDIn DEF WideByteOps
<1>3. \A x : x \in DOMAIN WideFloats <=> x \in {"XVFADD_D", "XVFMUL_D", "XVFDIV_D", "XVFSUB_D", "XVBITREVI_D"}
  BY PlusIn, RowsIn, RowIn, SingleIn, BHWDIn DEF WideFloats
<1>4. \A x : x \in DOMAIN WideFused <=> x \in {"XVFMADD_S", "XVFMADD_D", "XVFMSUB_S", "XVFNMADD_S", "XVFMSUB_D",
                           "XVFNMADD_D", "XVFNMSUB_S", "XVFNMSUB_D"}
  BY PlusIn, RowsIn, RowIn, SingleIn, BHWDIn DEF WideFused
<1>5. \A x : x \in DOMAIN WideImm <=> x \in {"XVORI_B", "XVXORI_B"}
  BY PlusIn, RowsIn, RowIn, SingleIn, BHWDIn DEF WideImm
<1>19. \A x : x \in DOMAIN Lasx <=> x \in LasxOps
  BY <1>1, <1>2, <1>3, <1>4, <1>5, PlusIn DEF Lasx, LasxOps
<1> QED BY <1>19

LEMMA ScalarDomain == DOMAIN Scalar = ScalarOps
<1>1. \A x : x \in DOMAIN Unary <=> x \in {"FABS_D", "FNEG_D", "FMOV_D", "FCLASS_S", "FCLASS_D"}
  BY PlusIn, RowsIn, RowIn, SingleIn, BHWDIn DEF Unary
<1>2. \A x : x \in DOMAIN Arithmetic <=> x \in {"FADD_D", "FMUL_D", "FMUL_S", "FMOV_S", "FADD_S", "FSUB_S", "FDIV_S",
                            "FMAX_S", "FMIN_S", "FMAX_D", "FMIN_D", "FABS_S"}
  BY PlusIn, RowsIn, RowIn, SingleIn, BHWDIn DEF Arithmetic
<1>3. \A x : x \in DOMAIN Fused <=> x \in {"FSUB_D", "FDIV_D", "FMADD_S", "FMADD_D", "FMSUB_S", "FMSUB_D", "FNMADD_S",
                       "FNMADD_D", "FNMSUB_S", "FNMSUB_D"}
  BY PlusIn, RowsIn, RowIn, SingleIn, BHWDIn DEF Fused
<1>19. \A x : x \in DOMAIN Scalar <=> x \in ScalarOps
  BY <1>1, <1>2, <1>3, PlusIn DEF Scalar, ScalarOps
<1> QED BY <1>19

FloatMemoryOps == {"FLD_S", "FST_S", "FLD_D", "FST_D", "FLDX_D", "FSTX_D", "FLDX_S", "FSTX_S"}
VectorMemoryOps == {"VLDX", "VSTX", "VLD", "VST"}
WideMemoryOps == {"XVLD", "XVST", "XVLDX", "XVSTX"}
MemoryOps == FloatMemoryOps \cup VectorMemoryOps \cup WideMemoryOps
CompareOps == {"FCMP_COND_S", "FCMP_COND_D"}
ConversionOps == {"FFINT_D_L", "FFINT_D_W", "FFINT_S_W", "FFINT_S_L", "FCVT_S_D", "FCVT_D_S", "FTINTRZ_W_S", "FTINTRZ_W_D",
                  "FTINTRZ_L_S", "FTINTRZ_L_D"}
TestOps == {"VSETANYEQZ_B", "VSETALLNEZ_B", "VMSKNZ_B"}
PickOps == {"VPICKVE2GR_D", "VPICKVE2GR_DU", "VPICKVE2GR_W", "VPICKVE2GR_WU", "VPICKVE2GR_H", "VPICKVE2GR_HU",
            "VPICKVE2GR_B", "VPICKVE2GR_BU"}
InterleaveOps == {"VILVL_B", "VILVL_H", "VILVL_W", "VILVL_D", "VILVH_D", "VPICKEV_W"}
ReplicateOps == {"VREPLGR2VR_B", "VREPLGR2VR_H", "VREPLGR2VR_W", "VREPLGR2VR_D"}
InsertOps == {"VINSGR2VR_B", "VINSGR2VR_H", "VINSGR2VR_W", "VINSGR2VR_D"}
WideShuffleOps == {"XVILVL_D", "XVILVH_D", "XVPACKEV_D", "XVPACKOD_D", "XVPICKEV_D", "XVPICKEV_W", "XVPICKOD_D"}

LEMMA MemoryDomain == DOMAIN Memory = MemoryOps
<1>1. \A x : x \in DOMAIN FloatMemory <=> x \in {"FLD_S", "FST_S", "FLD_D", "FST_D"}
  BY DEF FloatMemory
<1>2. \A x : x \in DOMAIN IndexedMemory <=> x \in {"FLDX_D", "FSTX_D", "VLDX", "VSTX"}
  BY DEF IndexedMemory
<1>3. \A x : x \in DOMAIN IndexedSingle <=> x \in {"FLDX_S", "FSTX_S"}
  BY DEF IndexedSingle
<1>4. \A x : x \in DOMAIN VectorMemory <=> x \in {"VLD", "VST", "XVLD", "XVST"}
  BY DEF VectorMemory
<1>5. \A x : x \in DOMAIN WideIndexed <=> x \in {"XVLDX", "XVSTX"}
  BY DEF WideIndexed
<1>6. \A x : x \in DOMAIN Memory <=> x \in MemoryOps
  BY <1>1, <1>2, <1>3, <1>4, <1>5, PlusIn
  DEF Memory, MemoryOps, FloatMemoryOps, VectorMemoryOps, WideMemoryOps
<1> QED BY <1>6

LEMMA OtherDomains ==
  /\ DOMAIN Table = LsxOps \cup LasxOps \cup ScalarOps
  /\ DOMAIN FCmp = CompareOps
  /\ DOMAIN Conversions = ConversionOps
  /\ DOMAIN LsxTests = TestOps
  /\ DOMAIN Picks = PickOps
  /\ DOMAIN HorizontalAdds = {"VHADDW_D_W", "XVHADDW_D_W"}
  /\ DOMAIN WideHorizontal = {"XVHADDW_Q_D"}
  /\ DOMAIN Interleaves = InterleaveOps
  /\ DOMAIN Replicates = ReplicateOps
  /\ DOMAIN Inserts = InsertOps
  /\ DOMAIN WideShuffles = WideShuffleOps
<1>1. DOMAIN Table = LsxOps \cup LasxOps \cup ScalarOps
  <2>1. \A x : x \in DOMAIN Table <=> x \in LsxOps \/ x \in LasxOps \/ x \in ScalarOps
    BY LsxDomain, LasxDomain, ScalarDomain, PlusIn DEF Table
  <2> QED BY <2>1
<1>2. DOMAIN FCmp = CompareOps
  BY DEF FCmp, CompareOps
<1>3. DOMAIN Conversions = ConversionOps
  BY DEF Conversions, ConversionOps
<1>4. DOMAIN LsxTests = TestOps
  BY DEF LsxTests, TestOps
<1>5. DOMAIN Picks = PickOps
  <2>1. \A x : x \in DOMAIN Picks <=> x \in PickOps
    BY PlusIn DEF Picks, PickOps
  <2> QED BY <2>1
<1>6. DOMAIN HorizontalAdds = {"VHADDW_D_W", "XVHADDW_D_W"} /\ DOMAIN WideHorizontal = {"XVHADDW_Q_D"}
  BY DEF HorizontalAdds, WideHorizontal
<1>7. DOMAIN Interleaves = InterleaveOps
  BY DEF Interleaves, InterleaveOps
<1>8. DOMAIN Replicates = ReplicateOps /\ DOMAIN Inserts = InsertOps
  BY DEF Replicates, ReplicateOps, Inserts, InsertOps
<1>9. DOMAIN WideShuffles = WideShuffleOps
  BY DEF WideShuffles, WideShuffleOps
<1> QED BY <1>1, <1>2, <1>3, <1>4, <1>5, <1>6, <1>7, <1>8, <1>9

LEMMA WritesCases ==
  ASSUME NEW i
  PROVE  /\ i.op \in LsxOps \cup LasxOps \cup ScalarOps =>
              Writes(i) = ForEach(Table[i.op]) \o (IF i.op \in Clearing THEN ClearHigh ELSE <<>>)
         /\ i.op \in MemoryOps => Writes(i) = Memory[i.op]
         /\ i.op \in Transfers => Writes(i) = Transfer(i)
         /\ i.op \in CompareOps => Writes(i) = ScalarCompare(i)
         /\ i.op = "FSEL" => Writes(i) = FSel
         /\ i.op \in ConversionOps => Writes(i) = Conversions[i.op]
         /\ i.op = "VFCMP_COND_D" => Writes(i) = LsxCompare(i)
         /\ i.op = "XVFCMP_COND_D" => Writes(i) = LasxCompare(i)
         /\ i.op \in TestOps => Writes(i) = LsxTests[i.op]
         /\ i.op \in PickOps => Writes(i) = Pick(i, Picks[i.op])
         /\ i.op = "XVPICKVE2GR_W" => Writes(i) = Pick(i, <<4, "sext">>)
         /\ i.op = "VHADDW_D_W" => Writes(i) = HorizontalAdds[i.op]
         /\ i.op \in InterleaveOps => Writes(i) = Interleaves[i.op]
         /\ i.op = "VLDI" => Writes(i) = LsxImmediate(i)
         /\ i.op = "XVLDI" => Writes(i) = LasxImmediate(i)
         /\ i.op = "VFRSTPI_B" => Writes(i) = FirstNonZero(i)
         /\ i.op \in ReplicateOps => Writes(i) = FromGeneral(Replicates[i.op], 16)
         /\ i.op = "XVREPLGR2VR_B" => Writes(i) = FromGeneral(1, 32)
         /\ i.op \in InsertOps => Writes(i) = Insert(i, Inserts[i.op])
         /\ i.op = "VREPLVEI_D" => Writes(i) = ReplicateElement(i)
         /\ i.op = "VSHUF_B" => Writes(i) = Shuffle
         /\ i.op \in {"XVMSKNZ_B", "XVPICKVE_W", "XVSETANYEQZ_B", "XVSETEQZ_V"} => Writes(i) = WideTests(i)
         /\ i.op \in WideShuffleOps => Writes(i) = WideShuffles[i.op]
<1>1. i.op \in LsxOps \cup LasxOps \cup ScalarOps => Writes(i) = ForEach(Table[i.op]) \o (IF i.op \in Clearing THEN ClearHigh ELSE <<>>)
  BY OtherDomains, MemoryDomain
  DEF Writes, LsxOps, LasxOps, ScalarOps, MemoryOps, FloatMemoryOps, VectorMemoryOps, WideMemoryOps, CompareOps, ConversionOps, TestOps, PickOps, InterleaveOps,
      ReplicateOps, InsertOps, WideShuffleOps, Transfers
<1>2. i.op \in MemoryOps => Writes(i) = Memory[i.op]
  BY OtherDomains, MemoryDomain
  DEF Writes, LsxOps, LasxOps, ScalarOps, MemoryOps, FloatMemoryOps, VectorMemoryOps, WideMemoryOps, CompareOps, ConversionOps, TestOps, PickOps, InterleaveOps,
      ReplicateOps, InsertOps, WideShuffleOps, Transfers
<1>3. i.op \in Transfers => Writes(i) = Transfer(i)
  BY OtherDomains, MemoryDomain
  DEF Writes, LsxOps, LasxOps, ScalarOps, MemoryOps, FloatMemoryOps, VectorMemoryOps, WideMemoryOps, CompareOps, ConversionOps, TestOps, PickOps, InterleaveOps,
      ReplicateOps, InsertOps, WideShuffleOps, Transfers
<1>4. i.op \in CompareOps => Writes(i) = ScalarCompare(i)
  BY OtherDomains, MemoryDomain
  DEF Writes, LsxOps, LasxOps, ScalarOps, MemoryOps, FloatMemoryOps, VectorMemoryOps, WideMemoryOps, CompareOps, ConversionOps, TestOps, PickOps, InterleaveOps,
      ReplicateOps, InsertOps, WideShuffleOps, Transfers
<1>5. i.op = "FSEL" => Writes(i) = FSel
  BY OtherDomains, MemoryDomain
  DEF Writes, LsxOps, LasxOps, ScalarOps, MemoryOps, FloatMemoryOps, VectorMemoryOps, WideMemoryOps, CompareOps, ConversionOps, TestOps, PickOps, InterleaveOps,
      ReplicateOps, InsertOps, WideShuffleOps, Transfers
<1>6. i.op \in ConversionOps => Writes(i) = Conversions[i.op]
  BY OtherDomains, MemoryDomain
  DEF Writes, LsxOps, LasxOps, ScalarOps, MemoryOps, FloatMemoryOps, VectorMemoryOps, WideMemoryOps, CompareOps, ConversionOps, TestOps, PickOps, InterleaveOps,
      ReplicateOps, InsertOps, WideShuffleOps, Transfers
<1>7. i.op = "VFCMP_COND_D" => Writes(i) = LsxCompare(i)
  BY OtherDomains, MemoryDomain
  DEF Writes, LsxOps, LasxOps, ScalarOps, MemoryOps, FloatMemoryOps, VectorMemoryOps, WideMemoryOps, CompareOps, ConversionOps, TestOps, PickOps, InterleaveOps,
      ReplicateOps, InsertOps, WideShuffleOps, Transfers
<1>8. i.op = "XVFCMP_COND_D" => Writes(i) = LasxCompare(i)
  BY OtherDomains, MemoryDomain
  DEF Writes, LsxOps, LasxOps, ScalarOps, MemoryOps, FloatMemoryOps, VectorMemoryOps, WideMemoryOps, CompareOps, ConversionOps, TestOps, PickOps, InterleaveOps,
      ReplicateOps, InsertOps, WideShuffleOps, Transfers
<1>9. i.op \in TestOps => Writes(i) = LsxTests[i.op]
  BY OtherDomains, MemoryDomain
  DEF Writes, LsxOps, LasxOps, ScalarOps, MemoryOps, FloatMemoryOps, VectorMemoryOps, WideMemoryOps, CompareOps, ConversionOps, TestOps, PickOps, InterleaveOps,
      ReplicateOps, InsertOps, WideShuffleOps, Transfers
<1>10. i.op \in PickOps => Writes(i) = Pick(i, Picks[i.op])
  BY OtherDomains, MemoryDomain
  DEF Writes, LsxOps, LasxOps, ScalarOps, MemoryOps, FloatMemoryOps, VectorMemoryOps, WideMemoryOps, CompareOps, ConversionOps, TestOps, PickOps, InterleaveOps,
      ReplicateOps, InsertOps, WideShuffleOps, Transfers
<1>11. i.op = "XVPICKVE2GR_W" => Writes(i) = Pick(i, <<4, "sext">>)
  BY OtherDomains, MemoryDomain
  DEF Writes, LsxOps, LasxOps, ScalarOps, MemoryOps, FloatMemoryOps, VectorMemoryOps, WideMemoryOps, CompareOps, ConversionOps, TestOps, PickOps, InterleaveOps,
      ReplicateOps, InsertOps, WideShuffleOps, Transfers
<1>12. i.op = "VHADDW_D_W" => Writes(i) = HorizontalAdds[i.op]
  BY OtherDomains, MemoryDomain
  DEF Writes, LsxOps, LasxOps, ScalarOps, MemoryOps, FloatMemoryOps, VectorMemoryOps, WideMemoryOps, CompareOps, ConversionOps, TestOps, PickOps, InterleaveOps,
      ReplicateOps, InsertOps, WideShuffleOps, Transfers
<1>13. i.op \in InterleaveOps => Writes(i) = Interleaves[i.op]
  BY OtherDomains, MemoryDomain
  DEF Writes, LsxOps, LasxOps, ScalarOps, MemoryOps, FloatMemoryOps, VectorMemoryOps, WideMemoryOps, CompareOps, ConversionOps, TestOps, PickOps, InterleaveOps,
      ReplicateOps, InsertOps, WideShuffleOps, Transfers
<1>14. i.op = "VLDI" => Writes(i) = LsxImmediate(i)
  BY OtherDomains, MemoryDomain
  DEF Writes, LsxOps, LasxOps, ScalarOps, MemoryOps, FloatMemoryOps, VectorMemoryOps, WideMemoryOps, CompareOps, ConversionOps, TestOps, PickOps, InterleaveOps,
      ReplicateOps, InsertOps, WideShuffleOps, Transfers
<1>15. i.op = "XVLDI" => Writes(i) = LasxImmediate(i)
  BY OtherDomains, MemoryDomain
  DEF Writes, LsxOps, LasxOps, ScalarOps, MemoryOps, FloatMemoryOps, VectorMemoryOps, WideMemoryOps, CompareOps, ConversionOps, TestOps, PickOps, InterleaveOps,
      ReplicateOps, InsertOps, WideShuffleOps, Transfers
<1>16. i.op = "VFRSTPI_B" => Writes(i) = FirstNonZero(i)
  BY OtherDomains, MemoryDomain
  DEF Writes, LsxOps, LasxOps, ScalarOps, MemoryOps, FloatMemoryOps, VectorMemoryOps, WideMemoryOps, CompareOps, ConversionOps, TestOps, PickOps, InterleaveOps,
      ReplicateOps, InsertOps, WideShuffleOps, Transfers
<1>17. i.op \in ReplicateOps => Writes(i) = FromGeneral(Replicates[i.op], 16)
  BY OtherDomains, MemoryDomain
  DEF Writes, LsxOps, LasxOps, ScalarOps, MemoryOps, FloatMemoryOps, VectorMemoryOps, WideMemoryOps, CompareOps, ConversionOps, TestOps, PickOps, InterleaveOps,
      ReplicateOps, InsertOps, WideShuffleOps, Transfers
<1>18. i.op = "XVREPLGR2VR_B" => Writes(i) = FromGeneral(1, 32)
  BY OtherDomains, MemoryDomain
  DEF Writes, LsxOps, LasxOps, ScalarOps, MemoryOps, FloatMemoryOps, VectorMemoryOps, WideMemoryOps, CompareOps, ConversionOps, TestOps, PickOps, InterleaveOps,
      ReplicateOps, InsertOps, WideShuffleOps, Transfers
<1>19. i.op \in InsertOps => Writes(i) = Insert(i, Inserts[i.op])
  BY OtherDomains, MemoryDomain
  DEF Writes, LsxOps, LasxOps, ScalarOps, MemoryOps, FloatMemoryOps, VectorMemoryOps, WideMemoryOps, CompareOps, ConversionOps, TestOps, PickOps, InterleaveOps,
      ReplicateOps, InsertOps, WideShuffleOps, Transfers
<1>20. i.op = "VREPLVEI_D" => Writes(i) = ReplicateElement(i)
  BY OtherDomains, MemoryDomain
  DEF Writes, LsxOps, LasxOps, ScalarOps, MemoryOps, FloatMemoryOps, VectorMemoryOps, WideMemoryOps, CompareOps, ConversionOps, TestOps, PickOps, InterleaveOps,
      ReplicateOps, InsertOps, WideShuffleOps, Transfers
<1>21. i.op = "VSHUF_B" => Writes(i) = Shuffle
  BY OtherDomains, MemoryDomain
  DEF Writes, LsxOps, LasxOps, ScalarOps, MemoryOps, FloatMemoryOps, VectorMemoryOps, WideMemoryOps, CompareOps, ConversionOps, TestOps, PickOps, InterleaveOps,
      ReplicateOps, InsertOps, WideShuffleOps, Transfers
<1>22. i.op \in {"XVMSKNZ_B", "XVPICKVE_W", "XVSETANYEQZ_B", "XVSETEQZ_V"} => Writes(i) = WideTests(i)
  BY OtherDomains, MemoryDomain
  DEF Writes, LsxOps, LasxOps, ScalarOps, MemoryOps, FloatMemoryOps, VectorMemoryOps, WideMemoryOps, CompareOps, ConversionOps, TestOps, PickOps, InterleaveOps,
      ReplicateOps, InsertOps, WideShuffleOps, Transfers
<1>23. i.op \in WideShuffleOps => Writes(i) = WideShuffles[i.op]
  BY OtherDomains, MemoryDomain
  DEF Writes, LsxOps, LasxOps, ScalarOps, MemoryOps, FloatMemoryOps, VectorMemoryOps, WideMemoryOps, CompareOps, ConversionOps, TestOps, PickOps, InterleaveOps,
      ReplicateOps, InsertOps, WideShuffleOps, Transfers
<1> QED
  BY <1>1, <1>2, <1>3, <1>4, <1>5, <1>6, <1>7, <1>8, <1>9, <1>10, <1>11, <1>12, <1>13, <1>14, <1>15, <1>16, <1>17, <1>18, <1>19, <1>20, <1>21, <1>22, <1>23

---------------------------------------------------------------------------
(* The writes of the instructions. *)

Operations == {"*", "+", "-", "-(a+jk)", "/", "a+jk", "a-jk", "abs", "add", "addi", "addw", "allzero", "and", "anyzero",
               "bit", "bitrevi", "bitsel", "class", "copy", "d+jk", "eq", "first", "float", "fmax", "fmin", "imm",
               "jk-a", "le", "lt", "mask", "max", "maxu", "min", "minu", "mul", "neg", "nonezero", "nor", "or", "ori",
               "orn", "pcnt", "round", "select", "seq", "seqi", "sext", "shuf", "slli", "slt", "sub", "truncate",
               "ule", "ult", "un", "une", "x>=0?x:-x", "xor", "xori", "zero", "zext"}

Write == [to : Elem, f : Operations, from : Seq(Elem)]

NoSources(ws) == \A x \in 1 .. Len(ws) : ws[x].from = <<>>
OnlyFirst(ws) == \A x \in 2 .. Len(ws) : ws[x].from = <<>>

LEMMA ElemIs ==
  ASSUME NEW r \in Roles4 \cup Others, NEW w \in Widths, NEW n \in 0 .. 31, w * n + w <= 32
  PROVE  <<r, w, n>> \in Elem
  BY DEF Elem

LEMMA WritesValid ==
  ASSUME NEW ws \in Seq(Write)
  PROVE  Valid(ws)
<1>1. Len(ws) \in Nat /\ \A x \in 1 .. Len(ws) : ws[x] \in Write
  OBVIOUS
<1>2. ASSUME NEW x \in 1 .. Len(ws), NEW y \in DOMAIN ws[x].from
      PROVE  ws[x].from[y] \in Elem
  <2>1. ws[x].from \in Seq(Elem)
    BY <1>1 DEF Write
  <2> QED BY <2>1
<1> QED BY <1>1, <1>2 DEF Valid, Write

LEMMA NoSourcesFacts ==
  ASSUME NEW ws \in Seq(Write), NoSources(ws)
  PROVE  Low(ws) /\ OnlyFirst(ws)
<1>1. Len(ws) \in Nat /\ \A x \in 1 .. Len(ws) : DOMAIN ws[x].from = {}
  BY DEF NoSources
<1>2. Low(ws)
  BY <1>1 DEF Low
<1>3. OnlyFirst(ws)
  BY <1>1 DEF NoSources, OnlyFirst
<1> QED BY <1>2, <1>3

LEMMA OnlyFirstUnread ==
  ASSUME NEW i, NEW ws \in Seq(Write), OnlyFirst(ws)
  PROVE  Unread(i, ws)
<1>1. Len(ws) \in Nat
  OBVIOUS
<1>2. ASSUME NEW x \in 1 .. Len(ws), NEW y \in 1 .. Len(ws), x < y PROVE DOMAIN ws[y].from = {}
  <2>1. y \in 2 .. Len(ws)
    BY <1>1, <1>2
  <2>2. ws[y].from = <<>>
    BY <2>1 DEF OnlyFirst
  <2> QED BY <2>2
<1> QED BY <1>2 DEF Unread

LEMMA ConcatFacts ==
  ASSUME NEW a \in Seq(Write), NEW b \in Seq(Write)
  PROVE  /\ a \o b \in Seq(Write) /\ Len(a \o b) = Len(a) + Len(b)
         /\ \A x \in 1 .. Len(a) : (a \o b)[x] = a[x]
         /\ \A x \in Len(a) + 1 .. Len(a) + Len(b) : x - Len(a) \in 1 .. Len(b) /\ (a \o b)[x] = b[x - Len(a)]
  OBVIOUS

LEMMA ConcatLow ==
  ASSUME NEW a \in Seq(Write), NEW b \in Seq(Write), Low(a), Low(b)
  PROVE  Low(a \o b)
<1> DEFINE c == a \o b
<1>0. Len(a) \in Nat /\ Len(b) \in Nat
  OBVIOUS
<1>1. Len(c) = Len(a) + Len(b) /\ \A x \in 1 .. Len(a) : c[x] = a[x]
  BY ConcatFacts
<1>2. \A x \in Len(a) + 1 .. Len(a) + Len(b) : x - Len(a) \in 1 .. Len(b) /\ c[x] = b[x - Len(a)]
  BY ConcatFacts
<1> HIDE DEF c
<1>3. ASSUME NEW x \in 1 .. Len(c), NEW z \in DOMAIN c[x].from
      PROVE  c[x].from[z][1] \in Others \/ First(c[x].from[z]) + c[x].from[z][2] <= 16
  <2>1. CASE x \in 1 .. Len(a)
    BY <1>1, <1>3, <2>1 DEF Low
  <2>2. CASE x \in Len(a) + 1 .. Len(a) + Len(b)
    BY <1>2, <1>3, <2>2 DEF Low
  <2> QED BY <1>0, <1>1, <2>1, <2>2
<1>4. Low(c)
  BY <1>3 DEF Low
<1> QED BY <1>4 DEF c

LEMMA ConcatUnread ==
  ASSUME NEW i, NEW a \in Seq(Write), NEW b \in Seq(Write), Unread(i, a), NoSources(b)
  PROVE  Unread(i, a \o b)
<1> DEFINE c == a \o b
<1>0. Len(a) \in Nat /\ Len(b) \in Nat
  OBVIOUS
<1>1. Len(c) = Len(a) + Len(b) /\ \A x \in 1 .. Len(a) : c[x] = a[x]
  BY ConcatFacts
<1>2. \A x \in Len(a) + 1 .. Len(a) + Len(b) : x - Len(a) \in 1 .. Len(b) /\ c[x] = b[x - Len(a)]
  BY ConcatFacts
<1> HIDE DEF c
<1>3. ASSUME NEW x \in 1 .. Len(c), NEW y \in 1 .. Len(c), x < y, NEW z \in DOMAIN c[y].from
      PROVE  Apart(i, c[x].to, c[y].from[z])
  <2>1. CASE y \in 1 .. Len(a)
    <3>1. x \in 1 .. Len(a)
      BY <1>0, <1>1, <1>3, <2>1
    <3>2. c[x] = a[x] /\ c[y] = a[y]
      BY <1>1, <2>1, <3>1
    <3> QED BY <1>3, <2>1, <3>1, <3>2 DEF Unread
  <2>2. CASE y \in Len(a) + 1 .. Len(a) + Len(b)
    <3>1. c[y].from = <<>>
      BY <1>2, <2>2 DEF NoSources
    <3>2. DOMAIN c[y].from = {}
      BY <3>1
    <3> QED BY <3>2
  <2> QED BY <1>0, <1>1, <2>1, <2>2
<1>4. Unread(i, c)
  BY <1>3 DEF Unread
<1> QED BY <1>4 DEF c

\* Some writes and then those of b, which cover the bytes lo..hi-1 of the target.
Covered(b, lo, hi) == \A x \in 1 .. Len(b) : b[x].to[1] = "d" /\ lo <= First(b[x].to) /\ First(b[x].to) + b[x].to[2] <= hi

LEMMA ConcatExtends ==
  ASSUME NEW a \in Seq(Write), NEW b \in Seq(Write), NEW lo, NEW hi, Covered(b, lo, hi)
  PROVE  Extends(a \o b, a, lo, hi)
<1> DEFINE c == a \o b
<1>0. Len(a) \in Nat /\ Len(b) \in Nat
  OBVIOUS
<1>1. c \in Seq(Write) /\ Len(c) = Len(a) + Len(b) /\ \A x \in 1 .. Len(a) : c[x] = a[x]
  BY ConcatFacts
<1>2. \A x \in Len(a) + 1 .. Len(a) + Len(b) : x - Len(a) \in 1 .. Len(b) /\ c[x] = b[x - Len(a)]
  BY ConcatFacts
<1> HIDE DEF c
<1>3. Valid(c)
  BY <1>1, WritesValid
<1>4. Extends(c, a, lo, hi)
  BY <1>0, <1>1, <1>2, <1>3 DEF Extends, Covered
<1> QED BY <1>4 DEF c

LEMMA CopyWrite ==
  ASSUME NEW to \in Elem, NEW from \in Elem
  PROVE  Copy(to, from) \in Write /\ Copy(to, from).to = to /\ Copy(to, from).from = <<from>>
<1>1. "copy" \in Operations /\ <<from>> \in Seq(Elem)
  BY DEF Operations
<1> QED BY <1>1 DEF Copy, Write

LEMMA ZeroWrite ==
  ASSUME NEW to \in Elem
  PROVE  ZeroAt(to) \in Write /\ ZeroAt(to).from = <<>> /\ ZeroAt(to).to = to
<1>1. "zero" \in Operations /\ <<>> \in Seq(Elem)
  BY DEF Operations
<1> QED BY <1>1 DEF ZeroAt, Write

LEMMA ClearHighFacts ==
  ClearHigh \in Seq(Write) /\ NoSources(ClearHigh) /\ Covered(ClearHigh, 16, 32) /\ Low(ClearHigh)
<1>1. <<"d", 8, 2>> \in Elem /\ <<"d", 8, 3>> \in Elem
  BY DEF Elem, Roles4, Widths
<1>2. ZeroAt(<<"d", 8, 2>>) \in Write /\ ZeroAt(<<"d", 8, 3>>) \in Write
  BY <1>1, ZeroWrite
<1>3. ClearHigh \in Seq(Write) /\ Len(ClearHigh) = 2
      /\ ClearHigh[1] = ZeroAt(<<"d", 8, 2>>) /\ ClearHigh[2] = ZeroAt(<<"d", 8, 3>>)
  BY <1>2 DEF ClearHigh
<1> HIDE DEF ClearHigh
<1>4. \A x \in 1 .. Len(ClearHigh) : x = 1 \/ x = 2
  BY <1>3
<1>5. NoSources(ClearHigh)
  BY <1>3, <1>4 DEF NoSources, ZeroAt
<1>6. Covered(ClearHigh, 16, 32)
  BY <1>3, <1>4 DEF Covered, ZeroAt, First
<1> QED BY <1>3, <1>5, <1>6, NoSourcesFacts

---------------------------------------------------------------------------
(* Element by element. *)

RowOk(r) == /\ r.size \in {4, 8, 16, 32} /\ r.w \in {1, 2, 4, 8} /\ r.w <= r.size
            /\ r.f \in Operations /\ r.roles \in Seq(Roles4)

LEMMA ForEachFacts ==
  ASSUME NEW r, RowOk(r)
  PROVE  /\ ForEach(r) \in Seq(Write)
         /\ Len(ForEach(r)) \in Nat /\ r.w * Len(ForEach(r)) = r.size /\ Len(ForEach(r)) = r.size \div r.w
         /\ \A n \in 1 .. Len(ForEach(r)) :
              /\ r.w * (n - 1) \in Nat /\ r.w * (n - 1) + r.w <= r.size
              /\ ForEach(r)[n].to = <<"d", r.w, n - 1>>
              /\ ForEach(r)[n].f = r.f
              /\ ForEach(r)[n].from = [x \in DOMAIN r.roles |-> <<r.roles[x], r.w, n - 1>>]
<1> DEFINE N == r.size \div r.w
<1>1. N \in 1 .. 32 /\ r.w * N = r.size
  <2>1. r.w \in {1, 2, 4, 8} /\ r.size \in {4, 8, 16, 32} /\ r.w <= r.size
    BY DEF RowOk
  <2>2. CASE r.w = 1
    BY <2>1, <2>2
  <2>3. CASE r.w = 2
    BY <2>1, <2>3
  <2>4. CASE r.w = 4
    BY <2>1, <2>4
  <2>5. CASE r.w = 8
    BY <2>1, <2>5
  <2> QED BY <2>1, <2>2, <2>3, <2>4, <2>5
<1>2. \A n \in 1 .. N : r.w * (n - 1) \in Nat /\ r.w * (n - 1) + r.w <= r.size /\ n - 1 \in 0 .. 31
  <2>1. r.w \in {1, 2, 4, 8}
    BY DEF RowOk
  <2> HIDE DEF N
  <2> QED BY <1>1, <2>1
<1> HIDE DEF N
<1>3. ASSUME NEW n \in 1 .. N, NEW role \in Roles4 PROVE <<role, r.w, n - 1>> \in Elem
  <2>1. r.w \in Widths /\ r.w * (n - 1) + r.w <= 32 /\ n - 1 \in 0 .. 31
    BY <1>2 DEF Widths, RowOk
  <2> QED BY <2>1, ElemIs
<1> DEFINE from(n) == [x \in DOMAIN r.roles |-> <<r.roles[x], r.w, n - 1>>]
           wr(n) == [to |-> <<"d", r.w, n - 1>>, f |-> r.f, from |-> from(n)]
<1>4. ASSUME NEW n \in 1 .. N PROVE from(n) \in Seq(Elem)
  <2>1. DOMAIN r.roles = 1 .. Len(r.roles) /\ Len(r.roles) \in Nat /\ \A x \in 1 .. Len(r.roles) : r.roles[x] \in Roles4
    BY DEF RowOk
  <2>2. \A x \in 1 .. Len(r.roles) : <<r.roles[x], r.w, n - 1>> \in Elem
    BY <1>3, <2>1
  <2> QED BY <2>1, <2>2
<1>5. ASSUME NEW n \in 1 .. N PROVE wr(n) \in Write
  <2>1. <<"d", r.w, n - 1>> \in Elem
    BY <1>3 DEF Roles4
  <2>2. r.f \in Operations
    BY DEF RowOk
  <2> HIDE DEF from
  <2> QED BY <1>4, <2>1, <2>2 DEF Write
<1>6. ForEach(r) = [n \in 1 .. N |-> wr(n)]
  BY DEF ForEach, N
<1> HIDE DEF wr
<1>7. ForEach(r) \in Seq(Write) /\ Len(ForEach(r)) = N /\ \A n \in 1 .. N : ForEach(r)[n] = wr(n)
  BY <1>1, <1>5, <1>6
<1>8. \A n \in 1 .. N : wr(n).to = <<"d", r.w, n - 1>> /\ wr(n).f = r.f /\ wr(n).from = from(n)
  BY DEF wr
<1>9. Len(ForEach(r)) = r.size \div r.w
  BY <1>7 DEF N
<1>10. Len(ForEach(r)) \in Nat /\ r.w * Len(ForEach(r)) = r.size
  BY <1>1, <1>7
<1> QED BY <1>2, <1>7, <1>8, <1>9, <1>10

LEMMA ForEachLow ==
  ASSUME NEW r, RowOk(r), r.size <= 16
  PROVE  Low(ForEach(r))
<1>1. ASSUME NEW n \in 1 .. Len(ForEach(r)), NEW z \in DOMAIN ForEach(r)[n].from
      PROVE  First(ForEach(r)[n].from[z]) + ForEach(r)[n].from[z][2] <= 16
  <2>1. ForEach(r)[n].from = [x \in DOMAIN r.roles |-> <<r.roles[x], r.w, n - 1>>]
        /\ r.w * (n - 1) \in Nat /\ r.w * (n - 1) + r.w <= r.size
    BY ForEachFacts
  <2>2. ForEach(r)[n].from[z] = <<r.roles[z], r.w, n - 1>>
    BY <1>1, <2>1
  <2> DEFINE e == ForEach(r)[n].from[z]
             at == r.w * (n - 1)
  <2>3. e[2] = r.w /\ e[3] = n - 1
    BY <2>2
  <2>4. First(e) = at
    BY <2>3 DEF First
  <2>5. at \in Nat /\ at + r.w <= r.size
    BY <2>1
  <2>6. r.w \in Nat /\ r.size \in Nat
    BY DEF RowOk
  <2> HIDE DEF e, at
  <2>7. First(e) + e[2] <= 16
    BY <2>3, <2>4, <2>5, <2>6
  <2> QED BY <2>7 DEF e
<1> QED BY <1>1 DEF Low

LEMMA ForEachUnread ==
  ASSUME NEW i, NEW r, RowOk(r)
  PROVE  Unread(i, ForEach(r))
<1> DEFINE ws == ForEach(r)
<1>1. ASSUME NEW x \in 1 .. Len(ws), NEW y \in 1 .. Len(ws), x < y, NEW z \in DOMAIN ws[y].from
      PROVE  First(ws[x].to) + ws[x].to[2] <= First(ws[y].from[z])
  <2>1. Len(ws) \in Nat
    BY ForEachFacts
  <2>2. ws[x].to = <<"d", r.w, x - 1>>
    BY ForEachFacts
  <2>3. ws[y].from = [q \in DOMAIN r.roles |-> <<r.roles[q], r.w, y - 1>>]
    BY ForEachFacts
  <2>4. ws[y].from[z] = <<r.roles[z], r.w, y - 1>>
    BY <1>1, <2>3
  <2>5. r.w * (x - 1) + r.w <= r.w * (y - 1)
    BY <1>1, <2>1 DEF RowOk
  <2> QED BY <2>2, <2>4, <2>5 DEF First
<1> QED BY <1>1 DEF Unread, Apart

\* The same operation on more bytes.
LEMMA WiderRow ==
  ASSUME NEW r, RowOk(r), NEW q, RowOk(q), q.w = r.w, q.f = r.f, q.roles = r.roles, r.size <= q.size
  PROVE  Extends(ForEach(q), ForEach(r), r.size, 32)
<1> DEFINE N == Len(ForEach(r))
           M == Len(ForEach(q))
<1>1. N \in Nat /\ M \in Nat /\ r.w * N = r.size /\ r.w * M = q.size
  BY ForEachFacts
<1>2. N <= M
  BY <1>1 DEF RowOk
<1>3. ASSUME NEW x \in 1 .. N PROVE ForEach(q)[x] = ForEach(r)[x]
  <2>1. x \in 1 .. M
    BY <1>1, <1>2
  <2> DEFINE u == ForEach(r)[x]
             v == ForEach(q)[x]
  <2>2. u \in Write /\ v \in Write
    BY <2>1, ForEachFacts
  <2>5. u.to = <<"d", r.w, x - 1>> /\ u.f = r.f /\ u.from = [y \in DOMAIN r.roles |-> <<r.roles[y], r.w, x - 1>>]
    BY ForEachFacts
  <2>6. v.to = <<"d", q.w, x - 1>> /\ v.f = q.f /\ v.from = [y \in DOMAIN q.roles |-> <<q.roles[y], q.w, x - 1>>]
    BY <2>1, ForEachFacts
  <2> HIDE DEF u, v
  <2>3. u.to = v.to /\ u.f = v.f
    BY <2>5, <2>6
  <2>4. u.from = v.from
    BY <2>5, <2>6
  <2>7. u = v
    BY <2>2, <2>3, <2>4 DEF Write
  <2> QED BY <2>7 DEF u, v
<1>4. ASSUME NEW x \in N + 1 .. M
      PROVE  ForEach(q)[x].to[1] = "d" /\ r.size <= First(ForEach(q)[x].to)
             /\ First(ForEach(q)[x].to) + ForEach(q)[x].to[2] <= 32
  <2>1. x \in 1 .. M
    BY <1>1
  <2>2. ForEach(q)[x].to = <<"d", q.w, x - 1>> /\ q.w * (x - 1) \in Nat /\ q.w * (x - 1) + q.w <= q.size
    BY <2>1, ForEachFacts
  <2>3. r.size <= q.w * (x - 1)
    <3>1. q.w \in {1, 2, 4, 8}
      BY DEF RowOk
    <3> HIDE DEF N, M
    <3> QED BY <1>1, <1>4, <3>1
  <2>4. q.size <= 32 /\ q.w \in Nat
    BY DEF RowOk
  <2> DEFINE to == ForEach(q)[x].to
  <2>5. to[1] = "d" /\ First(to) = q.w * (x - 1) /\ to[2] = q.w
    BY <2>2 DEF First
  <2>6. r.size \in Nat /\ q.size \in Nat
    BY DEF RowOk
  <2> HIDE DEF to, First
  <2>7. r.size <= First(to) /\ First(to) + to[2] <= 32
    BY <2>2, <2>3, <2>4, <2>5, <2>6
  <2> QED BY <2>5, <2>7 DEF to
<1>5. Valid(ForEach(q))
  BY ForEachFacts, WritesValid
<1> QED BY <1>2, <1>3, <1>4, <1>5 DEF Extends

---------------------------------------------------------------------------
(* The rows of the tables. *)

GoodRows(t, sizes) == \A op \in DOMAIN t : RowOk(t[op]) /\ t[op].size \in sizes

LEMMA RowsGood ==
  ASSUME NEW size \in {4, 8, 16, 32}, NEW w \in {1, 2, 4, 8}, w <= size, NEW f \in Operations,
         NEW roles \in Seq(Roles4), NEW ops, NEW sizes, size \in sizes
  PROVE  GoodRows(Rows(size, w, f, roles, ops), sizes)
<1> DEFINE r == [size |-> size, w |-> w, f |-> f, roles |-> roles]
<1>1. RowOk(r) /\ r.size \in sizes
  BY DEF RowOk
<1> HIDE DEF r
<1>2. Rows(size, w, f, roles, ops) = [op \in ops |-> r]
  BY DEF Rows, r
<1> QED BY <1>1, <1>2 DEF GoodRows

LEMMA RowGood ==
  ASSUME NEW size \in {4, 8, 16, 32}, NEW w \in {1, 2, 4, 8}, w <= size, NEW f \in Operations,
         NEW roles \in Seq(Roles4), NEW op, NEW sizes, size \in sizes
  PROVE  GoodRows(Row(size, w, f, roles, op), sizes)
  BY RowsGood DEF Row

LEMMA PlusGood ==
  ASSUME NEW f, NEW g, NEW sizes, GoodRows(f, sizes), GoodRows(g, sizes)
  PROVE  GoodRows(f ++ g, sizes)
<1>1. DOMAIN (f ++ g) = DOMAIN f \cup DOMAIN g
  BY PlusFacts
<1>2. ASSUME NEW x \in DOMAIN f PROVE (f ++ g)[x] = f[x]
  BY PlusFacts
<1>3. ASSUME NEW x \in DOMAIN g, x \notin DOMAIN f PROVE (f ++ g)[x] = g[x]
  BY <1>3, PlusRight
<1> QED BY <1>1, <1>2, <1>3 DEF GoodRows

LEMMA BHWDGood ==
  ASSUME NEW f \in Operations, NEW roles \in Seq(Roles4), NEW ops
  PROVE  GoodRows(BHWD(f, roles, ops), {16})
<1>1. \A w \in {1, 2, 4, 8} : \A op : GoodRows(Row(16, w, f, roles, op), {16})
  BY RowGood
<1> QED BY <1>1, PlusGood DEF BHWD

LEMMA RoleLists == JK \in Seq(Roles4) /\ J \in Seq(Roles4) /\ DJK \in Seq(Roles4) /\ JKA \in Seq(Roles4)
  BY DEF JK, J, DJK, JKA, Roles4

LEMMA OperationNames ==
  /\ "*" \in Operations /\ "+" \in Operations /\ "-" \in Operations /\ "-(a+jk)" \in Operations /\ "/" \in Operations
  /\ "a+jk" \in Operations /\ "a-jk" \in Operations /\ "abs" \in Operations /\ "add" \in Operations
  /\ "addi" \in Operations /\ "and" \in Operations /\ "bitrevi" \in Operations /\ "bitsel" \in Operations
  /\ "class" \in Operations /\ "copy" \in Operations /\ "d+jk" \in Operations /\ "fmax" \in Operations
  /\ "fmin" \in Operations /\ "jk-a" \in Operations /\ "max" \in Operations /\ "maxu" \in Operations
  /\ "min" \in Operations /\ "minu" \in Operations /\ "mul" \in Operations /\ "neg" \in Operations
  /\ "nor" \in Operations /\ "or" \in Operations /\ "ori" \in Operations /\ "orn" \in Operations
  /\ "pcnt" \in Operations /\ "seq" \in Operations /\ "seqi" \in Operations /\ "slli" \in Operations
  /\ "slt" \in Operations /\ "sub" \in Operations /\ "truncate" \in Operations /\ "xor" \in Operations
  /\ "xori" \in Operations
  BY DEF Operations

LEMMA LsxRows == GoodRows(Lsx, {16})
<1>0. \A f \in Operations : \A roles \in {JK, J, DJK, JKA} :
        /\ \A ops : GoodRows(BHWD(f, roles, ops), {16})
        /\ \A op : \A w \in {1, 2, 4, 8} : GoodRows(Row(16, w, f, roles, op), {16})
  BY RoleLists, BHWDGood, RowGood
<1>1. GoodRows(SubMul, {16})
  BY <1>0, OperationNames, PlusGood DEF SubMul
<1>2. GoodRows(MaddAddi, {16})
  BY <1>0, OperationNames, PlusGood DEF MaddAddi
<1>3. GoodRows(Compare, {16})
  BY <1>0, OperationNames, PlusGood DEF Compare
<1>4. GoodRows(Bitwise, {16})
  BY <1>0, OperationNames, PlusGood DEF Bitwise
<1>5. GoodRows(ShiftCount, {16})
  BY <1>0, OperationNames, PlusGood DEF ShiftCount
<1>6. GoodRows(Floats, {16})
  BY <1>0, OperationNames, PlusGood DEF Floats
<1>7. GoodRows(EqualImm, {16})
  BY <1>0, OperationNames, PlusGood DEF EqualImm
<1>8. GoodRows(Add, {16})
  BY <1>0, OperationNames, PlusGood DEF Add
<1>9. GoodRows(Select, {16})
  BY <1>0, OperationNames, PlusGood DEF Select
<1>10. GoodRows(Maximum, {16})
  BY <1>0, OperationNames, PlusGood DEF Maximum
<1>11. GoodRows(Minimum, {16})
  BY <1>0, OperationNames, PlusGood DEF Minimum
<1> QED BY <1>1, <1>2, <1>3, <1>4, <1>5, <1>6, <1>7, <1>8, <1>9, <1>10, <1>11, PlusGood DEF Lsx

LEMMA LasxRows == GoodRows(Lasx, {32})
<1>0. \A f \in Operations : \A roles \in {JK, J, DJK, JKA} : \A w \in {1, 2, 4, 8} :
        /\ \A ops : GoodRows(Rows(32, w, f, roles, ops), {32})
        /\ \A op : GoodRows(Row(32, w, f, roles, op), {32})
  BY RoleLists, RowsGood, RowGood
<1>1. GoodRows(WideSelect, {32})
  BY <1>0, OperationNames, PlusGood DEF WideSelect
<1>2. GoodRows(WideByteOps, {32})
  BY <1>0, OperationNames, PlusGood DEF WideByteOps
<1>3. GoodRows(WideFloats, {32})
  BY <1>0, OperationNames, PlusGood DEF WideFloats
<1>4. GoodRows(WideFused, {32})
  BY <1>0, OperationNames, PlusGood DEF WideFused
<1>5. GoodRows(WideImm, {32})
  BY <1>0, OperationNames, PlusGood DEF WideImm
<1> QED BY <1>1, <1>2, <1>3, <1>4, <1>5, PlusGood DEF Lasx

LEMMA ScalarGood ==
  \A f \in Operations : \A roles \in {JK, J, DJK, JKA} : \A ops :
     GoodRows(Single(f, roles, ops), {4, 8}) /\ GoodRows(Double(f, roles, ops), {4, 8})
  BY RoleLists, RowsGood DEF Single, Double

LEMMA ScalarRows == GoodRows(Scalar, {4, 8})
<1>1. GoodRows(Unary, {4, 8})
  BY ScalarGood, OperationNames, PlusGood DEF Unary
<1>2. GoodRows(Arithmetic, {4, 8})
  BY ScalarGood, OperationNames, PlusGood DEF Arithmetic
<1>3. GoodRows(Fused, {4, 8})
  BY ScalarGood, OperationNames, PlusGood DEF Fused
<1> QED BY <1>1, <1>2, <1>3, PlusGood DEF Scalar

LEMMA TableFacts ==
  /\ \A op \in LsxOps : Table[op] = Lsx[op] /\ RowOk(Lsx[op]) /\ Lsx[op].size = 16
  /\ \A op \in LasxOps : Table[op] = Lasx[op] /\ RowOk(Lasx[op]) /\ Lasx[op].size = 32
  /\ \A op \in ScalarOps : Table[op] = Scalar[op] /\ RowOk(Scalar[op]) /\ Scalar[op].size \in {4, 8}
<1>1. LsxOps \cap LasxOps = {} /\ LsxOps \cap ScalarOps = {} /\ LasxOps \cap ScalarOps = {}
  BY DEF LsxOps, LasxOps, ScalarOps
<1> DEFINE U == Lsx ++ Lasx
<1>5. DOMAIN U = LsxOps \cup LasxOps
  BY LsxDomain, LasxDomain, PlusFacts
<1>6. ASSUME NEW op \in LsxOps PROVE U[op] = Lsx[op]
  BY LsxDomain, PlusFacts
<1>7. ASSUME NEW op \in LasxOps PROVE U[op] = Lasx[op]
  BY <1>1, LsxDomain, LasxDomain, PlusRight
<1> HIDE DEF U
<1>8. Table = U ++ Scalar
  BY DEF Table, U
<1>9. ASSUME NEW op \in DOMAIN U PROVE Table[op] = U[op]
  BY <1>8, PlusFacts
<1>2. \A op \in LsxOps : Table[op] = Lsx[op]
  BY <1>5, <1>6, <1>9
<1>3. \A op \in LasxOps : Table[op] = Lasx[op]
  BY <1>5, <1>7, <1>9
<1>4. \A op \in ScalarOps : Table[op] = Scalar[op]
  <2> TAKE op \in ScalarOps
  <2>1. op \in DOMAIN Scalar /\ op \notin DOMAIN U
    BY <1>1, <1>5, ScalarDomain
  <2> QED BY <1>8, <2>1, PlusRight
<1> QED BY <1>2, <1>3, <1>4, LsxDomain, LasxDomain, ScalarDomain, LsxRows, LasxRows, ScalarRows DEF GoodRows

LEMMA WritesTable ==
  ASSUME NEW i, i.op \in DOMAIN Table
  PROVE  /\ RowOk(Table[i.op])
         /\ \/ Writes(i) = ForEach(Table[i.op]) \o ClearHigh /\ i.op \in LsxOps
            \/ Writes(i) = ForEach(Table[i.op])
<1>1. RowOk(Table[i.op])
  BY OtherDomains, TableFacts
<1>2. Writes(i) = ForEach(Table[i.op]) \o (IF i.op \in Clearing THEN ClearHigh ELSE <<>>)
  BY WritesCases, OtherDomains
<1>3. i.op \in Clearing => i.op \in LsxOps
  BY LsxDomain DEF Clearing
<1>4. ForEach(Table[i.op]) \o <<>> = ForEach(Table[i.op])
  <2>1. ForEach(Table[i.op]) \in Seq(Write)
    BY <1>1, ForEachFacts
  <2> HIDE DEF ForEach
  <2> QED BY <2>1
<1> QED BY <1>1, <1>2, <1>3, <1>4

---------------------------------------------------------------------------
(* Instructions whose first write alone has sources.                       *)

LowElem(e)  == e[1] \in Others \/ First(e) + e[2] <= 16
LowElems(s) == \A z \in DOMAIN s : LowElem(s[z])

LEMMA OneWrite ==
  ASSUME NEW wr \in Write
  PROVE  <<wr>> \in Seq(Write) /\ OnlyFirst(<<wr>>) /\ (LowElems(wr.from) => Low(<<wr>>))
<1> DEFINE ws == <<wr>>
<1>1. ws \in Seq(Write) /\ Len(ws) = 1 /\ ws[1] = wr
  OBVIOUS
<1> HIDE DEF ws
<1>2. OnlyFirst(ws) /\ (LowElems(wr.from) => Low(ws))
  BY <1>1 DEF OnlyFirst, Low, LowElems, LowElem
<1> QED BY <1>1, <1>2 DEF ws

LEMMA WriteThenZeros ==
  ASSUME NEW wr \in Write, NEW zs \in Seq(Write), NoSources(zs)
  PROVE  /\ <<wr>> \o zs \in Seq(Write) /\ OnlyFirst(<<wr>> \o zs)
         /\ LowElems(wr.from) => Low(<<wr>> \o zs)
<1> DEFINE a == <<wr>>
           c == a \o zs
<1>1. a \in Seq(Write) /\ Len(a) = 1 /\ a[1] = wr
  OBVIOUS
<1> HIDE DEF a
<1>0. Len(zs) \in Nat
  OBVIOUS
<1>2. c \in Seq(Write) /\ Len(c) = 1 + Len(zs)
  <2>1. c \in Seq(Write) /\ Len(c) = Len(a) + Len(zs)
    BY <1>1, ConcatFacts
  <2> QED BY <1>1, <2>1
<1>3. \A x \in 2 .. Len(c) : x - 1 \in 1 .. Len(zs) /\ c[x] = zs[x - 1]
  <2>1. \A x \in Len(a) + 1 .. Len(a) + Len(zs) : x - Len(a) \in 1 .. Len(zs) /\ c[x] = zs[x - Len(a)]
    BY <1>1, ConcatFacts
  <2> HIDE DEF c
  <2> QED BY <1>0, <1>1, <1>2, <2>1
<1>4. OnlyFirst(c)
  <2> HIDE DEF c
  <2> QED BY <1>2, <1>3 DEF OnlyFirst, NoSources
<1>5. ASSUME LowElems(wr.from) PROVE Low(c)
  <2>1. Low(a)
    BY <1>5, OneWrite DEF a
  <2> QED BY <1>1, <2>1, ConcatLow, NoSourcesFacts
<1> QED BY <1>2, <1>4, <1>5 DEF a

LEMMA ZerosFacts ==
  ASSUME NEW es \in Seq(Elem)
  PROVE  /\ [x \in DOMAIN es |-> ZeroAt(es[x])] \in Seq(Write)
         /\ NoSources([x \in DOMAIN es |-> ZeroAt(es[x])])
<1> DEFINE zs == [x \in DOMAIN es |-> ZeroAt(es[x])]
<1>1. DOMAIN es = 1 .. Len(es) /\ Len(es) \in Nat
  OBVIOUS
<1>2. \A x \in 1 .. Len(es) : ZeroAt(es[x]) \in Write
  BY ZeroWrite
<1>3. zs \in Seq(Write) /\ Len(zs) = Len(es) /\ \A x \in 1 .. Len(es) : zs[x] = ZeroAt(es[x])
  BY <1>1, <1>2
<1> HIDE DEF zs
<1>4. NoSources(zs)
  <2>1. \A x \in 1 .. Len(zs) : zs[x].from = ZeroAt(es[x]).from
    BY <1>1, <1>3
  <2>2. \A x \in 1 .. Len(zs) : ZeroAt(es[x]).from = <<>>
    BY DEF ZeroAt
  <2> QED BY <2>1, <2>2 DEF NoSources
<1> QED BY <1>3, <1>4 DEF zs

LEMMA AllFacts ==
  ASSUME NEW role \in Roles4 \cup Others, NEW w \in {1, 8}, NEW size \in {16, 32}
  PROVE  /\ All(role, w, size) \in Seq(Elem)
         /\ Len(All(role, w, size)) = size \div w
         /\ size = 16 => LowElems(All(role, w, size))
<1> DEFINE N == size \div w
<1>1. N \in 1 .. 32 /\ w * N = size
  <2>1. CASE w = 1
    BY <2>1
  <2>2. CASE w = 8
    BY <2>2
  <2> QED BY <2>1, <2>2
<1> HIDE DEF N
<1>2. ASSUME NEW n \in 1 .. N
      PROVE  <<role, w, n - 1>> \in Elem /\ w * (n - 1) + w <= size
  <2>1. w * (n - 1) + w <= size /\ n - 1 \in 0 .. 31
    BY <1>1
  <2>2. <<role, w, n - 1>> \in Elem
    <3>1. w \in Widths /\ w * (n - 1) + w <= 32
      BY <2>1 DEF Widths
    <3> QED BY <2>1, <3>1, ElemIs
  <2> QED BY <2>1, <2>2
<1>3. All(role, w, size) = [n \in 1 .. N |-> <<role, w, n - 1>>]
  BY DEF All, N
<1> DEFINE s == All(role, w, size)
<1>4. s \in Seq(Elem) /\ Len(s) = N /\ DOMAIN s = 1 .. N /\ \A n \in 1 .. N : s[n] = <<role, w, n - 1>>
  BY <1>1, <1>2, <1>3
<1> HIDE DEF s
<1>5. ASSUME size = 16 PROVE LowElems(s)
  <2> SUFFICES ASSUME NEW z \in 1 .. N PROVE First(s[z]) + s[z][2] <= 16
    BY <1>4 DEF LowElems, LowElem
  <2>1. s[z] = <<role, w, z - 1>>
    BY <1>4
  <2>2. w * (z - 1) + w <= 16
    BY <1>2, <1>5
  <2> QED BY <2>1, <2>2 DEF First
<1> QED BY <1>4, <1>5 DEF s, N

LEMMA ToFlagFacts ==
  ASSUME NEW f \in Operations, NEW froms \in Seq(Elem)
  PROVE  /\ ToFlag(f, froms) \in Seq(Write) /\ OnlyFirst(ToFlag(f, froms))
         /\ LowElems(froms) => Low(ToFlag(f, froms))
<1> DEFINE wr == [to |-> <<"cf", 1, 0>>, f |-> f, from |-> froms]
<1>1. <<"cf", 1, 0>> \in Elem
  BY DEF Elem, Others, Widths
<1>2. wr \in Write /\ wr.from = froms
  BY <1>1 DEF Write
<1> HIDE DEF wr
<1>3. ToFlag(f, froms) = <<wr>>
  BY DEF ToFlag, wr
<1> QED BY <1>2, <1>3, OneWrite

LEMMA ToGeneralFacts ==
  ASSUME NEW i, NEW f \in Operations, NEW from \in Elem
  PROVE  /\ ToGeneral(i, f, from) \in Seq(Write) /\ OnlyFirst(ToGeneral(i, f, from))
         /\ LowElem(from) => Low(ToGeneral(i, f, from))
<1> DEFINE wr == [to |-> <<"gr", 8, 0>>, f |-> f, from |-> <<from>>]
<1>1. <<"gr", 8, 0>> \in Elem
  BY DEF Elem, Others, Widths
<1>2. wr \in Write /\ wr.from = <<from>>
  BY <1>1 DEF Write
<1>3. LowElem(from) => LowElems(<<from>>)
  BY DEF LowElems
<1> HIDE DEF wr
<1>4. CASE i.rd = 0
  <2>1. ToGeneral(i, f, from) = <<>>
    BY <1>4 DEF ToGeneral
  <2>2. <<>> \in Seq(Write) /\ OnlyFirst(<<>>) /\ Low(<<>>)
    BY DEF OnlyFirst, Low
  <2> QED BY <2>1, <2>2
<1>5. CASE i.rd # 0
  <2>1. ToGeneral(i, f, from) = <<wr>>
    BY <1>5 DEF ToGeneral, wr
  <2> QED BY <1>2, <1>3, <2>1, OneWrite
<1> QED BY <1>4, <1>5

---------------------------------------------------------------------------

Tame(ws) == ws \in Seq(Write) /\ OnlyFirst(ws)

LEMMA LoadFacts ==
  ASSUME NEW n \in {4, 8, 16, 32}, NEW es \in Seq(Elem)
  PROVE  Tame(Load(n, es)) /\ Low(Load(n, es))
<1>1. <<"d", n, 0>> \in Elem /\ <<"mem", n, 0>> \in Elem
  BY DEF Elem, Others, Roles4, Widths
<1> DEFINE wr == Copy(<<"d", n, 0>>, <<"mem", n, 0>>)
<1>2. wr \in Write /\ wr.from = <<<<"mem", n, 0>>>>
  BY <1>1, CopyWrite
<1> DEFINE mem == <<"mem", n, 0>>
<1>3. LowElems(wr.from)
  <2>1. mem[1] = "mem"
    OBVIOUS
  <2>2. LowElem(mem)
    BY <2>1 DEF LowElem, Others
  <2>3. wr.from = <<mem>>
    BY <1>2
  <2> HIDE DEF mem, wr
  <2> QED BY <2>2, <2>3 DEF LowElems
<1> HIDE DEF wr
<1>4. Load(n, es) = <<wr>> \o [x \in DOMAIN es |-> ZeroAt(es[x])]
  BY DEF Load, wr
<1> QED BY <1>2, <1>3, <1>4, ZerosFacts, WriteThenZeros DEF Tame

LEMMA StoreFacts ==
  ASSUME NEW n \in {4, 8, 16, 32}
  PROVE  Tame(Store(n)) /\ (n <= 16 => Low(Store(n)))
<1>1. <<"d", n, 0>> \in Elem /\ <<"mem", n, 0>> \in Elem
  BY DEF Elem, Others, Roles4, Widths
<1> DEFINE wr == Copy(<<"mem", n, 0>>, <<"d", n, 0>>)
<1>2. wr \in Write /\ wr.from = <<<<"d", n, 0>>>>
  BY <1>1, CopyWrite
<1>3. n <= 16 => LowElems(wr.from)
  BY <1>2 DEF LowElems, LowElem, First
<1> HIDE DEF wr
<1>4. Store(n) = <<wr>>
  BY DEF Store, wr
<1> QED BY <1>2, <1>3, <1>4, OneWrite DEF Tame

LEMMA MemoryIs ==
  /\ Memory["FLD_S"] = Load(4, <<<<"d", 4, 1>>, <<"d", 8, 1>>>>)
  /\ Memory["FST_S"] = Store(4)
  /\ Memory["FLD_D"] = Load(8, <<<<"d", 8, 1>>>>)
  /\ Memory["FST_D"] = Store(8)
  /\ Memory["FLDX_D"] = Load(8, <<>>)
  /\ Memory["FSTX_D"] = Store(8)
  /\ Memory["FLDX_S"] = Load(4, <<<<"d", 4, 1>>>>)
  /\ Memory["FSTX_S"] = Store(4)
  /\ Memory["VLDX"] = Load(16, <<>>) \o ClearHigh
  /\ Memory["VSTX"] = Store(16)
  /\ Memory["VLD"] = Load(16, <<>>) \o ClearHigh
  /\ Memory["VST"] = Store(16)
  /\ Memory["XVLD"] = Load(32, <<>>)
  /\ Memory["XVST"] = Store(32)
  /\ Memory["XVLDX"] = Load(32, <<>>)
  /\ Memory["XVSTX"] = Store(32)
<1>1. DOMAIN FloatMemory = {"FLD_S", "FST_S", "FLD_D", "FST_D"}
  BY DEF FloatMemory
<1>2. DOMAIN IndexedMemory = {"FLDX_D", "FSTX_D", "VLDX", "VSTX"}
  BY DEF IndexedMemory
<1>3. DOMAIN IndexedSingle = {"FLDX_S", "FSTX_S"}
  BY DEF IndexedSingle
<1>4. DOMAIN VectorMemory = {"VLD", "VST", "XVLD", "XVST"}
  BY DEF VectorMemory
<1>5. DOMAIN WideIndexed = {"XVLDX", "XVSTX"}
  BY DEF WideIndexed
<1> DEFINE u == FloatMemory ++ IndexedMemory
           v == u ++ IndexedSingle
           w == v ++ VectorMemory
<1>6a. DOMAIN u = DOMAIN FloatMemory \cup DOMAIN IndexedMemory /\ \A x \in DOMAIN FloatMemory : u[x] = FloatMemory[x]
  BY PlusFacts
<1>6b. \A x \in DOMAIN IndexedMemory : x \notin DOMAIN FloatMemory => u[x] = IndexedMemory[x]
  BY PlusSecond
<1>6. DOMAIN u = DOMAIN FloatMemory \cup DOMAIN IndexedMemory /\ (\A x \in DOMAIN FloatMemory : u[x] = FloatMemory[x]) /\ (\A x \in DOMAIN IndexedMemory : x \notin DOMAIN FloatMemory => u[x] = IndexedMemory[x])
  BY <1>6a, <1>6b
<1> HIDE DEF u
<1>7a. DOMAIN v = DOMAIN u \cup DOMAIN IndexedSingle /\ \A x \in DOMAIN u : v[x] = u[x]
  BY PlusFacts
<1>7b. \A x \in DOMAIN IndexedSingle : x \notin DOMAIN u => v[x] = IndexedSingle[x]
  BY PlusSecond
<1>7. DOMAIN v = DOMAIN u \cup DOMAIN IndexedSingle /\ (\A x \in DOMAIN u : v[x] = u[x]) /\ (\A x \in DOMAIN IndexedSingle : x \notin DOMAIN u => v[x] = IndexedSingle[x])
  BY <1>7a, <1>7b
<1> HIDE DEF v
<1>8a. DOMAIN w = DOMAIN v \cup DOMAIN VectorMemory /\ \A x \in DOMAIN v : w[x] = v[x]
  BY PlusFacts
<1>8b. \A x \in DOMAIN VectorMemory : x \notin DOMAIN v => w[x] = VectorMemory[x]
  BY PlusSecond
<1>8. DOMAIN w = DOMAIN v \cup DOMAIN VectorMemory /\ (\A x \in DOMAIN v : w[x] = v[x]) /\ (\A x \in DOMAIN VectorMemory : x \notin DOMAIN v => w[x] = VectorMemory[x])
  BY <1>8a, <1>8b
<1> HIDE DEF w
<1>9. Memory = w ++ WideIndexed
  BY DEF Memory, u, v, w
<1>10. /\ \A x \in DOMAIN w : Memory[x] = w[x]
       /\ \A x \in DOMAIN WideIndexed : x \notin DOMAIN w => Memory[x] = WideIndexed[x]
  <2>1. \A x \in DOMAIN w : (w ++ WideIndexed)[x] = w[x]
    BY PlusFacts
  <2>2. \A x \in DOMAIN WideIndexed : x \notin DOMAIN w => (w ++ WideIndexed)[x] = WideIndexed[x]
    BY PlusSecond
  <2> QED BY <1>9, <2>1, <2>2
<1>11. /\ \A x \in DOMAIN FloatMemory : Memory[x] = FloatMemory[x]
       /\ \A x \in DOMAIN IndexedMemory : Memory[x] = IndexedMemory[x]
       /\ \A x \in DOMAIN IndexedSingle : Memory[x] = IndexedSingle[x]
       /\ \A x \in DOMAIN VectorMemory : Memory[x] = VectorMemory[x]
       /\ \A x \in DOMAIN WideIndexed : Memory[x] = WideIndexed[x]
  BY <1>1, <1>2, <1>3, <1>4, <1>5, <1>6, <1>7, <1>8, <1>10
<1>12. /\ FloatMemory["FLD_S"] = Load(4, <<<<"d", 4, 1>>, <<"d", 8, 1>>>>) /\ FloatMemory["FST_S"] = Store(4)
       /\ FloatMemory["FLD_D"] = Load(8, <<<<"d", 8, 1>>>>) /\ FloatMemory["FST_D"] = Store(8)
  BY DEF FloatMemory
<1>13. /\ IndexedMemory["FLDX_D"] = Load(8, <<>>) /\ IndexedMemory["FSTX_D"] = Store(8)
       /\ IndexedMemory["VLDX"] = Load(16, <<>>) \o ClearHigh /\ IndexedMemory["VSTX"] = Store(16)
  BY DEF IndexedMemory
<1>14. IndexedSingle["FLDX_S"] = Load(4, <<<<"d", 4, 1>>>>) /\ IndexedSingle["FSTX_S"] = Store(4)
  BY DEF IndexedSingle
<1>15. /\ VectorMemory["VLD"] = Load(16, <<>>) \o ClearHigh /\ VectorMemory["VST"] = Store(16)
       /\ VectorMemory["XVLD"] = Load(32, <<>>) /\ VectorMemory["XVST"] = Store(32)
  BY DEF VectorMemory
<1>16. WideIndexed["XVLDX"] = Load(32, <<>>) /\ WideIndexed["XVSTX"] = Store(32)
  BY DEF WideIndexed
<1> QED BY <1>1, <1>2, <1>3, <1>4, <1>5, <1>11, <1>12, <1>13, <1>14, <1>15, <1>16

\* Zeroing the upper half after writes with sources in the first alone.
LEMMA TameClearHigh ==
  ASSUME NEW ws, Tame(ws), Len(ws) >= 1
  PROVE  Tame(ws \o ClearHigh) /\ (Low(ws) => Low(ws \o ClearHigh))
<1>1. ws \in Seq(Write)
  BY DEF Tame
<1>2. ASSUME NEW x \in 2 .. Len(ws \o ClearHigh) PROVE (ws \o ClearHigh)[x].from = <<>>
  <2>1. CASE x \in 1 .. Len(ws)
    <3>1. (ws \o ClearHigh)[x] = ws[x] /\ x \in 2 .. Len(ws)
      BY <1>1, <1>2, <2>1, ClearHighFacts, ConcatFacts
    <3> QED BY <3>1 DEF Tame, OnlyFirst
  <2>2. CASE x \in Len(ws) + 1 .. Len(ws) + Len(ClearHigh)
    <3>1. (ws \o ClearHigh)[x] = ClearHigh[x - Len(ws)] /\ x - Len(ws) \in 1 .. Len(ClearHigh)
      BY <1>1, <2>2, ClearHighFacts, ConcatFacts
    <3> QED BY <3>1, ClearHighFacts DEF NoSources
  <2>3. Len(ws \o ClearHigh) = Len(ws) + Len(ClearHigh) /\ Len(ws) \in Nat /\ Len(ClearHigh) \in Nat
    BY <1>1, ClearHighFacts, ConcatFacts
  <2> QED BY <1>2, <2>1, <2>2, <2>3
<1>3. ws \o ClearHigh \in Seq(Write)
  BY <1>1, ClearHighFacts, ConcatFacts
<1>4. OnlyFirst(ws \o ClearHigh)
  BY <1>2 DEF OnlyFirst
<1>5. Low(ws) => Low(ws \o ClearHigh)
  BY <1>1, ClearHighFacts, ConcatLow
<1> QED BY <1>3, <1>4, <1>5 DEF Tame

LEMMA MemoryFacts ==
  ASSUME NEW op \in MemoryOps
  PROVE  Tame(Memory[op]) /\ (op \notin WideMemoryOps => Low(Memory[op]))
<1>1. <<<<"d", 4, 1>>, <<"d", 8, 1>>>> \in Seq(Elem) /\ <<<<"d", 8, 1>>>> \in Seq(Elem) /\ <<<<"d", 4, 1>>>> \in Seq(Elem)
      /\ <<>> \in Seq(Elem)
  <2>1. <<"d", 4, 1>> \in Elem /\ <<"d", 8, 1>> \in Elem
    BY DEF Elem, Roles4, Widths
  <2> QED BY <2>1
<1> DEFINE l16 == Load(16, <<>>)
<1>2. Tame(l16) /\ Low(l16)
  BY <1>1, LoadFacts
<1>3. Len(l16) >= 1
  <2>1. <<Copy(<<"d", 16, 0>>, <<"mem", 16, 0>>)>> \in Seq({Copy(<<"d", 16, 0>>, <<"mem", 16, 0>>)})
    OBVIOUS
  <2>2. l16 = <<Copy(<<"d", 16, 0>>, <<"mem", 16, 0>>)>>
    BY DEF Load
  <2> QED BY <2>2
<1> HIDE DEF l16
<1>4. Tame(l16 \o ClearHigh) /\ Low(l16 \o ClearHigh)
  BY <1>2, <1>3, TameClearHigh
<1>5. /\ Tame(Load(4, <<<<"d", 4, 1>>, <<"d", 8, 1>>>>)) /\ Low(Load(4, <<<<"d", 4, 1>>, <<"d", 8, 1>>>>))
      /\ Tame(Load(8, <<<<"d", 8, 1>>>>)) /\ Low(Load(8, <<<<"d", 8, 1>>>>))
      /\ Tame(Load(8, <<>>)) /\ Low(Load(8, <<>>))
      /\ Tame(Load(4, <<<<"d", 4, 1>>>>)) /\ Low(Load(4, <<<<"d", 4, 1>>>>))
      /\ Tame(Load(32, <<>>))
  BY <1>1, LoadFacts
<1>6. /\ Tame(Store(4)) /\ Low(Store(4)) /\ Tame(Store(8)) /\ Low(Store(8))
      /\ Tame(Store(16)) /\ Low(Store(16)) /\ Tame(Store(32))
  BY StoreFacts
<1>7. \/ op = "FLD_S" \/ op = "FST_S" \/ op = "FLD_D" \/ op = "FST_D" \/ op = "FLDX_D" \/ op = "FSTX_D"
      \/ op = "FLDX_S" \/ op = "FSTX_S" \/ op = "VLDX" \/ op = "VSTX" \/ op = "VLD" \/ op = "VST"
      \/ op \in WideMemoryOps
  BY DEF MemoryOps, FloatMemoryOps, VectorMemoryOps
<1>8. op \in WideMemoryOps => op = "XVLD" \/ op = "XVST" \/ op = "XVLDX" \/ op = "XVSTX"
  BY DEF WideMemoryOps
<1> QED BY <1>4, <1>5, <1>6, <1>7, <1>8, MemoryIs DEF l16

---------------------------------------------------------------------------
(* The instructions of one write, group by group.                          *)

LEMMA ElemList ==
  /\ \A r \in Roles4 \cup Others : \A w \in Widths : <<r, w, 0>> \in Elem
  /\ \A n \in 0 .. 3 : <<"d", 8, n>> \in Elem
  /\ <<"d", 4, 1>> \in Elem
<1>1. ASSUME NEW r \in Roles4 \cup Others, NEW w \in Widths PROVE <<r, w, 0>> \in Elem
  BY DEF Elem, Widths
<1>2. ASSUME NEW n \in 0 .. 3 PROVE <<"d", 8, n>> \in Elem
  BY DEF Elem, Roles4, Widths
<1>3. <<"d", 4, 1>> \in Elem
  BY DEF Elem, Roles4, Widths
<1> QED BY <1>1, <1>2, <1>3

\* Element 0 of a place, at most 16 bytes of it.
LEMMA FirstElements ==
  ASSUME NEW r \in Roles4 \cup Others, NEW w \in {1, 2, 4, 8, 16}
  PROVE  <<r, w, 0>> \in Elem /\ LowElem(<<r, w, 0>>)
<1>1. w \in Widths
  BY DEF Widths
<1>2. w * 0 + w <= 16
  OBVIOUS
<1> QED BY <1>1, <1>2, ElemList DEF LowElem, First

LEMMA SingleFacts ==
  ASSUME NEW to \in Elem, NEW f \in Operations, NEW froms \in Seq(Elem)
  PROVE  /\ Tame(<<[to |-> to, f |-> f, from |-> froms]>>)
         /\ LowElems(froms) => Low(<<[to |-> to, f |-> f, from |-> froms]>>)
<1> DEFINE wr == [to |-> to, f |-> f, from |-> froms]
<1>1. wr \in Write /\ wr.from = froms
  BY DEF Write
<1> HIDE DEF wr
<1>2. Tame(<<wr>>) /\ (LowElems(froms) => Low(<<wr>>))
  BY <1>1, OneWrite DEF Tame
<1> QED BY <1>2 DEF wr

\* One write and a zeroed element, or three.
LEMMA ThenZeros ==
  ASSUME NEW to \in Elem, NEW f \in Operations, NEW froms \in Seq(Elem), NEW b \in Elem, NEW c \in Elem, NEW e \in Elem
  PROVE  LET wr == [to |-> to, f |-> f, from |-> froms]
         IN  /\ Tame(<<wr, ZeroAt(b)>>) /\ (LowElems(froms) => Low(<<wr, ZeroAt(b)>>))
             /\ Tame(<<wr, ZeroAt(b), ZeroAt(c), ZeroAt(e)>>)
<1> DEFINE wr == [to |-> to, f |-> f, from |-> froms]
<1>1. wr \in Write /\ wr.from = froms
  BY DEF Write
<1> HIDE DEF wr
<1>2. /\ ZeroAt(b) \in Write /\ ZeroAt(b).from = <<>>
      /\ ZeroAt(c) \in Write /\ ZeroAt(c).from = <<>>
      /\ ZeroAt(e) \in Write /\ ZeroAt(e).from = <<>>
  BY ZeroWrite
<1> DEFINE t == <<wr, ZeroAt(b)>>
           u == <<wr, ZeroAt(b), ZeroAt(c), ZeroAt(e)>>
<1>3. t \in Seq(Write) /\ Len(t) = 2 /\ t[1] = wr /\ t[2] = ZeroAt(b)
  BY <1>1, <1>2
<1>4. /\ u \in Seq(Write) /\ Len(u) = 4 /\ u[1] = wr
      /\ u[2] = ZeroAt(b) /\ u[3] = ZeroAt(c) /\ u[4] = ZeroAt(e)
  BY <1>1, <1>2
<1> HIDE DEF t, u
<1>5. OnlyFirst(t)
  BY <1>2, <1>3 DEF OnlyFirst
<1>6. OnlyFirst(u)
  <2>1. \A x \in 2 .. 4 : x = 2 \/ x = 3 \/ x = 4
    OBVIOUS
  <2> QED BY <1>2, <1>4, <2>1 DEF OnlyFirst
<1>7. ASSUME LowElems(froms) PROVE Low(t)
  <2>1. \A x \in 1 .. 2 : x = 1 \/ x = 2
    OBVIOUS
  <2>2. LowElems(t[1].from) /\ DOMAIN t[2].from = {}
    BY <1>1, <1>2, <1>3, <1>7
  <2> QED BY <1>3, <2>1, <2>2 DEF Low, LowElems, LowElem
<1> QED BY <1>3, <1>4, <1>5, <1>6, <1>7 DEF t, u, wr, Tame

LEMMA LowList == \A e \in Elem : LowElem(e) => LowElems(<<e>>)
  BY DEF LowElems

LEMMA LowPair == \A e \in Elem, g \in Elem : LowElem(e) /\ LowElem(g) => LowElems(<<e, g>>)
<1> SUFFICES ASSUME NEW e \in Elem, NEW g \in Elem, LowElem(e), LowElem(g), NEW z \in DOMAIN <<e, g>>
             PROVE  LowElem(<<e, g>>[z])
  BY DEF LowElems
<1> QED OBVIOUS

LEMMA TransferFacts ==
  ASSUME NEW i, i.op \in Transfers
  PROVE  Tame(Transfer(i)) /\ Low(Transfer(i))
<1>0. "sext" \in Operations /\ "copy" \in Operations /\ "zext" \in Operations /\ "bit" \in Operations
  BY DEF Operations
<1>9. "d" \in Roles4 \cup Others /\ "j" \in Roles4 \cup Others /\ "gr" \in Roles4 \cup Others
      /\ "fcsr" \in Roles4 \cup Others /\ "cf" \in Roles4 \cup Others
  BY DEF Roles4, Others
<1>8. ASSUME NEW e \in Elem, LowElem(e) PROVE <<e>> \in Seq(Elem) /\ LowElems(<<e>>)
  BY <1>8, LowList
<1>1. CASE i.op = "MOVFR2GR_S"
  <2>1. Transfer(i) = ToGeneral(i, "sext", <<"j", 4, 0>>)
    BY <1>1 DEF Transfer
  <2> QED BY <1>0, <1>9, <2>1, FirstElements, ToGeneralFacts DEF Tame
<1>2. CASE i.op = "MOVFR2GR_D"
  <2>1. Transfer(i) = ToGeneral(i, "copy", <<"j", 8, 0>>)
    BY <1>2 DEF Transfer
  <2> QED BY <1>0, <1>9, <2>1, FirstElements, ToGeneralFacts DEF Tame
<1>3. CASE i.op = "MOVGR2FR_W"
  <2>1. Transfer(i) = <<[to |-> <<"d", 4, 0>>, f |-> "copy", from |-> <<<<"gr", 4, 0>>>>], ZeroAt(<<"d", 4, 1>>)>>
    BY <1>3 DEF Transfer, Copy
  <2>2. <<"d", 4, 0>> \in Elem /\ <<<<"gr", 4, 0>>>> \in Seq(Elem) /\ LowElems(<<<<"gr", 4, 0>>>>)
    BY <1>8, <1>9, FirstElements
  <2>3. <<"d", 4, 1>> \in Elem
    BY ElemList
  <2> QED BY <1>0, <2>1, <2>2, <2>3, ThenZeros
<1>4. CASE i.op = "MOVGR2FR_D"
  <2>1. Transfer(i) = <<[to |-> <<"d", 8, 0>>, f |-> "copy", from |-> <<<<"gr", 8, 0>>>>]>>
    BY <1>4 DEF Transfer, Copy
  <2>2. <<"d", 8, 0>> \in Elem /\ <<<<"gr", 8, 0>>>> \in Seq(Elem) /\ LowElems(<<<<"gr", 8, 0>>>>)
    BY <1>8, <1>9, FirstElements
  <2> QED BY <1>0, <2>1, <2>2, SingleFacts
<1>5. CASE i.op = "MOVFCSR2GR"
  <2>1. Transfer(i) = ToGeneral(i, "zext", <<"fcsr", 4, 0>>)
    BY <1>5 DEF Transfer
  <2> QED BY <1>0, <1>9, <2>1, FirstElements, ToGeneralFacts DEF Tame
<1>6. CASE i.op = "MOVFR2CF"
  <2>1. Transfer(i) = ToFlag("bit", <<<<"j", 8, 0>>>>)
    BY <1>6 DEF Transfer
  <2>2. <<<<"j", 8, 0>>>> \in Seq(Elem) /\ LowElems(<<<<"j", 8, 0>>>>)
    BY <1>8, <1>9, FirstElements
  <2> QED BY <1>0, <2>1, <2>2, ToFlagFacts DEF Tame
<1>7. CASE i.op = "MOVCF2FR"
  <2>1. Transfer(i) = <<[to |-> <<"d", 8, 0>>, f |-> "zext", from |-> <<<<"cf", 1, 0>>>>]>>
    BY <1>7 DEF Transfer
  <2>2. <<"d", 8, 0>> \in Elem /\ <<<<"cf", 1, 0>>>> \in Seq(Elem) /\ LowElems(<<<<"cf", 1, 0>>>>)
    BY <1>8, <1>9, FirstElements
  <2> QED BY <1>0, <2>1, <2>2, SingleFacts
<1>10. CASE i.op = "MOVGR2CF"
  <2>1. Transfer(i) = ToFlag("bit", <<<<"gr", 8, 0>>>>)
    BY <1>10 DEF Transfer
  <2>2. <<<<"gr", 8, 0>>>> \in Seq(Elem) /\ LowElems(<<<<"gr", 8, 0>>>>)
    BY <1>8, <1>9, FirstElements
  <2> QED BY <1>0, <2>1, <2>2, ToFlagFacts DEF Tame
<1>11. CASE i.op = "MOVCF2GR"
  <2>1. Transfer(i) = ToGeneral(i, "zext", <<"cf", 1, 0>>)
    BY <1>11 DEF Transfer
  <2> QED BY <1>0, <1>9, <2>1, FirstElements, ToGeneralFacts DEF Tame
<1> QED BY <1>1, <1>2, <1>3, <1>4, <1>5, <1>6, <1>7, <1>10, <1>11 DEF Transfers

LEMMA PredicateName == \A cond \in ScalarConditions : Predicate(cond) \in Operations
  BY DEF ScalarConditions, Predicate, Operations

LEMMA CompareFacts ==
  ASSUME NEW i, i.op \in CompareOps, ~ Illegal(i)
  PROVE  Tame(ScalarCompare(i)) /\ Low(ScalarCompare(i))
<1>1. FCmp[i.op] \in {4, 8}
  BY DEF CompareOps, FCmp
<1>2. i.imm \in ScalarConditions
  BY OtherDomains DEF Illegal
<1>3. Predicate(i.imm) \in Operations
  BY <1>2, PredicateName
<1> DEFINE e == <<"j", FCmp[i.op], 0>>
           g == <<"k", FCmp[i.op], 0>>
<1>4. e \in Elem /\ LowElem(e) /\ g \in Elem /\ LowElem(g)
  BY <1>1, FirstElements DEF Roles4
<1>5. ScalarCompare(i) = ToFlag(Predicate(i.imm), <<e, g>>)
  BY DEF ScalarCompare
<1> HIDE DEF e, g
<1>6. <<e, g>> \in Seq(Elem) /\ LowElems(<<e, g>>)
  BY <1>4, LowPair
<1> QED BY <1>3, <1>5, <1>6, ToFlagFacts DEF Tame

LEMMA FSelFacts == Tame(FSel) /\ Low(FSel)
<1> DEFINE c == <<"cf", 1, 0>>
           k == <<"k", 8, 0>>
           j == <<"j", 8, 0>>
           d == <<"d", 8, 0>>
           s == <<c, k, j>>
<1>1. c \in Elem /\ LowElem(c) /\ k \in Elem /\ LowElem(k) /\ j \in Elem /\ LowElem(j) /\ d \in Elem
  BY FirstElements DEF Roles4, Others
<1>2. FSel = <<[to |-> d, f |-> "select", from |-> s]>>
  BY DEF FSel
<1>3. "select" \in Operations
  BY DEF Operations
<1> HIDE DEF c, k, j, d
<1>4. s \in Seq(Elem) /\ DOMAIN s = 1 .. 3 /\ s[1] = c /\ s[2] = k /\ s[3] = j
  BY <1>1
<1> HIDE DEF s
<1>5. LowElems(s)
  <2>1. \A z \in 1 .. 3 : z = 1 \/ z = 2 \/ z = 3
    OBVIOUS
  <2> QED BY <1>1, <1>4, <2>1 DEF LowElems
<1> QED BY <1>1, <1>2, <1>3, <1>4, <1>5, SingleFacts

LEMMA ConvertFacts ==
  ASSUME NEW wTo \in {4, 8}, NEW f \in Operations, NEW wFrom \in {4, 8}
  PROVE  Tame(Convert(wTo, f, wFrom)) /\ Low(Convert(wTo, f, wFrom))
<1>1. <<"d", wTo, 0>> \in Elem /\ <<"j", wFrom, 0>> \in Elem /\ LowElem(<<"j", wFrom, 0>>)
  BY FirstElements DEF Roles4
<1>2. <<<<"j", wFrom, 0>>>> \in Seq(Elem) /\ LowElems(<<<<"j", wFrom, 0>>>>)
  BY <1>1, LowList
<1> QED BY <1>1, <1>2, SingleFacts DEF Convert

LEMMA ConversionFacts ==
  ASSUME NEW op \in ConversionOps
  PROVE  Tame(Conversions[op]) /\ Low(Conversions[op])
<1>1. "float" \in Operations /\ "round" \in Operations /\ "truncate" \in Operations
  BY DEF Operations
<1>2. PICK wTo \in {4, 8}, f \in {"float", "round", "truncate"}, wFrom \in {4, 8} : Conversions[op] = Convert(wTo, f, wFrom)
  BY DEF ConversionOps, Conversions
<1> QED BY <1>1, <1>2, ConvertFacts

LEMMA TestFacts ==
  ASSUME NEW op \in TestOps
  PROVE  Tame(LsxTests[op]) /\ Low(LsxTests[op])
<1> DEFINE s == All("j", 1, 16)
<1>1. s \in Seq(Elem) /\ LowElems(s)
  BY AllFacts DEF Roles4
<1>2. "anyzero" \in Operations /\ "nonezero" \in Operations /\ "mask" \in Operations
  BY DEF Operations
<1>3. <<"d", 8, 0>> \in Elem /\ <<"d", 8, 1>> \in Elem
  BY ElemList
<1> HIDE DEF s
<1>4. \/ LsxTests[op] = ToFlag("anyzero", s) \/ LsxTests[op] = ToFlag("nonezero", s)
      \/ LsxTests[op] = <<[to |-> <<"d", 8, 0>>, f |-> "mask", from |-> s], ZeroAt(<<"d", 8, 1>>)>>
  BY DEF TestOps, LsxTests, s
<1>5. Tame(ToFlag("anyzero", s)) /\ Low(ToFlag("anyzero", s)) /\ Tame(ToFlag("nonezero", s)) /\ Low(ToFlag("nonezero", s))
  BY <1>1, <1>2, ToFlagFacts DEF Tame
<1> DEFINE m == <<[to |-> <<"d", 8, 0>>, f |-> "mask", from |-> s], ZeroAt(<<"d", 8, 1>>)>>
<1>6. Tame(m) /\ Low(m)
  BY <1>1, <1>2, <1>3, ThenZeros
<1> QED BY <1>4, <1>5, <1>6

\* An element of the lower half.
LEMMA LaneElement ==
  ASSUME NEW r \in Roles4 \cup Others, NEW w \in {1, 2, 4, 8}, NEW n \in 0 .. 31, n <= (16 \div w) - 1
  PROVE  <<r, w, n>> \in Elem /\ LowElem(<<r, w, n>>) /\ w * n + w <= 16
<1>1. w * n + w <= 16
  <2>1. CASE w = 1
    BY <2>1
  <2>2. CASE w = 2
    BY <2>2
  <2>3. CASE w = 4
    BY <2>3
  <2>4. CASE w = 8
    BY <2>4
  <2> QED BY <2>1, <2>2, <2>3, <2>4
<1>2. w \in Widths /\ w * n + w <= 32
  BY <1>1 DEF Widths
<1> QED BY <1>1, <1>2, ElemIs DEF LowElem, First

LEMMA PickRows ==
  \A op \in PickOps : Picks[op][1] \in {1, 2, 4, 8} /\ Picks[op][2] \in Operations
<1>1. "copy" \in Operations /\ "sext" \in Operations /\ "zext" \in Operations
  BY DEF Operations
<1> DEFINE p == [op \in {"VPICKVE2GR_D", "VPICKVE2GR_DU"} |-> <<8, "copy">>]
           q == [VPICKVE2GR_W |-> <<4, "sext">>, VPICKVE2GR_WU |-> <<4, "zext">>, VPICKVE2GR_H |-> <<2, "sext">>,
                 VPICKVE2GR_HU |-> <<2, "zext">>, VPICKVE2GR_B |-> <<1, "sext">>, VPICKVE2GR_BU |-> <<1, "zext">>]
<1>2. Picks = p ++ q
  BY DEF Picks
<1>3. \A op \in DOMAIN p : p[op][1] \in {1, 2, 4, 8} /\ p[op][2] \in Operations
  BY <1>1
<1>4. \A op \in DOMAIN q : q[op][1] \in {1, 2, 4, 8} /\ q[op][2] \in Operations
  BY <1>1
<1> HIDE DEF p, q
<1>5. DOMAIN Picks = DOMAIN p \cup DOMAIN q /\ \A op \in DOMAIN p : Picks[op] = p[op]
  BY <1>2, PlusFacts
<1>6. \A op \in DOMAIN q : op \notin DOMAIN p => Picks[op] = q[op]
  BY <1>2, PlusSecond
<1> QED BY <1>3, <1>4, <1>5, <1>6, OtherDomains

LEMMA InsertRows ==
  /\ \A op \in InsertOps : Inserts[op] \in {1, 2, 4, 8}
  /\ \A op \in ReplicateOps : Replicates[op] \in {1, 2, 4, 8}
  BY DEF InsertOps, Inserts, ReplicateOps, Replicates

LEMMA ImmFacts ==
  ASSUME NEW op, NEW imm \in Imms(op)
  PROVE  /\ op \in PickOps => imm \in 0 .. (16 \div Picks[op][1]) - 1
         /\ op \in InsertOps => imm \in 0 .. (16 \div Inserts[op]) - 1
         /\ op \in {"XVPICKVE2GR_W", "XVPICKVE_W"} => imm \in 0 .. 7
         /\ op = "VREPLVEI_D" => imm \in 0 .. 1
         /\ op \in {"VLDI", "XVLDI", "VFRSTPI_B"} => imm \in 0 .. 31
  BY OtherDomains DEF Imms, LaneOps, PickOps, InsertOps, CompareOps

LEMMA PickFacts ==
  ASSUME NEW i, NEW w \in {1, 2, 4, 8}, NEW f \in Operations, i.imm \in 0 .. 31, w * i.imm + w <= 32
  PROVE  /\ Tame(Pick(i, <<w, f>>))
         /\ i.imm <= (16 \div w) - 1 => Low(Pick(i, <<w, f>>))
<1>1. <<"j", w, i.imm>> \in Elem
  BY ElemIs DEF Roles4, Widths
<1>2. i.imm <= (16 \div w) - 1 => LowElem(<<"j", w, i.imm>>)
  BY LaneElement DEF Roles4
<1>3. Pick(i, <<w, f>>) = ToGeneral(i, f, <<"j", w, i.imm>>)
  BY DEF Pick
<1> QED BY <1>1, <1>2, <1>3, ToGeneralFacts DEF Tame

LEMMA LaneSize ==
  ASSUME NEW w \in {1, 2, 4, 8}, NEW n \in 0 .. (16 \div w) - 1
  PROVE  n \in 0 .. 31 /\ n <= (16 \div w) - 1 /\ w * n + w <= 32
<1>1. CASE w = 1
  BY <1>1
<1>2. CASE w = 2
  BY <1>2
<1>3. CASE w = 4
  BY <1>3
<1>4. CASE w = 8
  BY <1>4
<1> QED BY <1>1, <1>2, <1>3, <1>4

LEMMA NarrowPick ==
  ASSUME NEW i, i.op \in PickOps, i.imm \in Imms(i.op)
  PROVE  Tame(Pick(i, Picks[i.op])) /\ Low(Pick(i, Picks[i.op]))
<1> DEFINE w == Picks[i.op][1]
           f == Picks[i.op][2]
<1>1. w \in {1, 2, 4, 8} /\ f \in Operations
  BY PickRows
<1>2. i.imm \in 0 .. (16 \div w) - 1
  BY ImmFacts
<1>3. Pick(i, Picks[i.op]) = Pick(i, <<w, f>>)
  BY DEF Pick
<1> HIDE DEF w, f
<1>4. i.imm \in 0 .. 31 /\ i.imm <= (16 \div w) - 1 /\ w * i.imm + w <= 32
  BY <1>1, <1>2, LaneSize
<1> QED BY <1>1, <1>3, <1>4, PickFacts

LEMMA WidePick ==
  ASSUME NEW i, i.op = "XVPICKVE2GR_W", i.imm \in Imms(i.op)
  PROVE  Tame(Pick(i, <<4, "sext">>))
<1>1. i.imm \in 0 .. 7
  BY ImmFacts
<1>2. i.imm \in 0 .. 31 /\ 4 * i.imm + 4 <= 32
  BY <1>1
<1>3. "sext" \in Operations
  BY DEF Operations
<1> QED BY <1>2, <1>3, PickFacts

LEMMA InsertFacts ==
  ASSUME NEW i, i.op \in InsertOps, i.imm \in Imms(i.op)
  PROVE  Tame(Insert(i, Inserts[i.op])) /\ Low(Insert(i, Inserts[i.op]))
<1> DEFINE w == Inserts[i.op]
<1>1. w \in {1, 2, 4, 8}
  BY InsertRows
<1>2. i.imm \in 0 .. (16 \div w) - 1
  BY ImmFacts
<1> HIDE DEF w
<1>3. i.imm \in 0 .. 31 /\ i.imm <= (16 \div w) - 1
  BY <1>1, <1>2, LaneSize
<1>4. <<"d", w, i.imm>> \in Elem
  BY <1>1, <1>3, LaneElement DEF Roles4
<1>5. <<"gr", w, 0>> \in Elem /\ LowElem(<<"gr", w, 0>>)
  BY <1>1, FirstElements DEF Others
<1>6. <<<<"gr", w, 0>>>> \in Seq(Elem) /\ LowElems(<<<<"gr", w, 0>>>>)
  BY <1>5, LowList
<1>7. Insert(i, w) = <<[to |-> <<"d", w, i.imm>>, f |-> "copy", from |-> <<<<"gr", w, 0>>>>]>>
  BY DEF Insert, Copy
<1>8. "copy" \in Operations
  BY DEF Operations
<1>9. Tame(Insert(i, w)) /\ Low(Insert(i, w))
  BY <1>4, <1>6, <1>7, <1>8, SingleFacts
<1> QED BY <1>9 DEF w

---------------------------------------------------------------------------
(* Instructions that fill a register, or compare two.                      *)

FillRow(size, w, f) == [size |-> size, w |-> w, f |-> f, roles |-> <<>>]

LEMMA FillFacts ==
  ASSUME NEW size \in {16, 32}, NEW w \in {1, 2, 4, 8}, NEW f \in Operations
  PROVE  /\ RowOk(FillRow(size, w, f)) /\ Fill(size, w, f) = ForEach(FillRow(size, w, f))
         /\ FillRow(size, w, f).size = size
         /\ Tame(Fill(size, w, f)) /\ Low(Fill(size, w, f))
<1> DEFINE r == FillRow(size, w, f)
<1>1. r.size = size /\ r.w = w /\ r.f = f /\ r.roles = <<>>
  BY DEF FillRow
<1>2. Fill(size, w, f) = ForEach(r)
  BY DEF Fill, FillRow
<1> HIDE DEF r
<1>3. RowOk(r)
  BY <1>1 DEF RowOk
<1>4. ForEach(r) \in Seq(Write)
  BY <1>3, ForEachFacts
<1>5. NoSources(ForEach(r))
  <2>1. ASSUME NEW n \in 1 .. Len(ForEach(r)) PROVE ForEach(r)[n].from = <<>>
    <3>1. ForEach(r)[n].from = [x \in DOMAIN r.roles |-> <<r.roles[x], r.w, n - 1>>]
      BY <1>3, ForEachFacts
    <3>2. DOMAIN r.roles = {}
      BY <1>1
    <3>3. ForEach(r)[n] \in Write
      BY <1>4
    <3>4. ForEach(r)[n].from \in Seq(Elem)
      BY <3>3 DEF Write
    <3>5. DOMAIN ForEach(r)[n].from = {}
      BY <3>1, <3>2
    <3>6. Len(ForEach(r)[n].from) = 0
      <4> DEFINE s == ForEach(r)[n].from
      <4>1. Len(s) \in Nat /\ 1 .. Len(s) = DOMAIN s
        BY <3>4
      <4>2. 1 \notin 1 .. Len(s)
        BY <3>5, <4>1
      <4> HIDE DEF s
      <4>3. Len(s) = 0
        BY <4>1, <4>2
      <4> QED BY <4>3 DEF s
    <3> QED BY <3>4, <3>6, EmptySeq
  <2> QED BY <2>1 DEF NoSources
<1>6. Low(ForEach(r)) /\ OnlyFirst(ForEach(r))
  BY <1>4, <1>5, NoSourcesFacts
<1> QED BY <1>1, <1>2, <1>3, <1>4, <1>6 DEF r, Tame

LEMMA LdiWidths == \A mode \in 0 .. 28 : LdiWidth(mode) \in {1, 2, 4, 8}
  BY DEF LdiWidth

LEMMA ImmediateFacts ==
  ASSUME NEW i, i.op \in {"VLDI", "XVLDI"}, i.imm \in Imms(i.op), ~ Illegal(i)
  PROVE  /\ Tame(LsxImmediate(i)) /\ Low(LsxImmediate(i))
         /\ Tame(LasxImmediate(i))
         /\ LdiWidth(i.imm) \in {1, 2, 4, 8}
<1>1. i.imm \in 0 .. 28
  <2>1. i.imm \in 0 .. 31
    BY ImmFacts
  <2>2. i.imm \notin 29 .. 31
    BY DEF Illegal
  <2> QED BY <2>1, <2>2
<1>2. LdiWidth(i.imm) \in {1, 2, 4, 8}
  BY <1>1, LdiWidths
<1>3. "imm" \in Operations
  BY DEF Operations
<1> QED BY <1>2, <1>3, FillFacts DEF LsxImmediate, LasxImmediate

CompareRow(size, i) == [size |-> size, w |-> 8, f |-> Predicate(i.imm), roles |-> JK]

LEMMA CompareRowOk ==
  ASSUME NEW size \in {16, 32}, NEW i, i.imm \in VectorConditions
  PROVE  RowOk(CompareRow(size, i)) /\ CompareRow(size, i).size = size
<1>1. Predicate(i.imm) \in Operations
  BY PredicateName DEF VectorConditions
<1> QED BY <1>1, RoleLists DEF RowOk, CompareRow

LEMMA VectorCompareFacts ==
  ASSUME NEW i, NEW h
  PROVE  /\ i.imm \in VectorConditions =>
              /\ LsxCompare(i) \in Seq(Write) /\ Low(LsxCompare(i)) /\ Unread(h, LsxCompare(i))
              /\ LsxCompare(i) = ForEach(CompareRow(16, i)) \o ClearHigh
         /\ LasxCompare(i) \in Seq(Write) /\ Unread(h, LasxCompare(i))
         /\ i.imm \in VectorConditions => LasxCompare(i) = ForEach(CompareRow(32, i))
<1>1. ASSUME i.imm \in VectorConditions
      PROVE  /\ LsxCompare(i) \in Seq(Write) /\ Low(LsxCompare(i)) /\ Unread(h, LsxCompare(i))
             /\ LsxCompare(i) = ForEach(CompareRow(16, i)) \o ClearHigh
  <2>1. RowOk(CompareRow(16, i)) /\ CompareRow(16, i).size = 16
    BY <1>1, CompareRowOk
  <2>2. LsxCompare(i) = ForEach(CompareRow(16, i)) \o ClearHigh
    BY DEF LsxCompare, CompareRow
  <2>3. ForEach(CompareRow(16, i)) \in Seq(Write) /\ Low(ForEach(CompareRow(16, i))) /\ Unread(h, ForEach(CompareRow(16, i)))
    BY <2>1, ForEachFacts, ForEachLow, ForEachUnread
  <2> QED BY <2>2, <2>3, ClearHighFacts, ConcatFacts, ConcatLow, ConcatUnread
<1>2. CASE i.imm \in VectorConditions
  <2>1. LasxCompare(i) = ForEach(CompareRow(32, i))
    BY <1>2 DEF LasxCompare, CompareRow
  <2>2. RowOk(CompareRow(32, i))
    BY <1>2, CompareRowOk
  <2> QED BY <1>1, <1>2, <2>1, <2>2, ForEachFacts, ForEachUnread
<1>3. CASE i.imm \notin VectorConditions
  <2>1. LasxCompare(i) = Fill(32, 8, "zero")
    BY <1>3 DEF LasxCompare
  <2>2. "zero" \in Operations
    BY DEF Operations
  <2>3. Tame(Fill(32, 8, "zero"))
    BY <2>2, FillFacts
  <2> QED BY <1>3, <2>1, <2>3, OnlyFirstUnread DEF Tame
<1> QED BY <1>2, <1>3

---------------------------------------------------------------------------
(* Instructions that move elements.                                        *)

Frm == (Roles4 \cup Others) \X (0 .. 31)

LEMMA MovesFacts ==
  ASSUME NEW w \in {1, 2, 4, 8}, NEW froms \in Seq(Frm), w * Len(froms) <= 32,
         \A n \in 1 .. Len(froms) : w * froms[n][2] + w <= 32
  PROVE  /\ Moves(w, froms) \in Seq(Write) /\ Len(Moves(w, froms)) = Len(froms)
         /\ \A n \in 1 .. Len(froms) : /\ Moves(w, froms)[n].to = <<"d", w, n - 1>>
                                       /\ Moves(w, froms)[n].from = <<<<froms[n][1], w, froms[n][2]>>>>
         /\ (\A n \in 1 .. Len(froms) : w * froms[n][2] + w <= 16) => Low(Moves(w, froms))
<1> DEFINE N == Len(froms)
           to(n) == <<"d", w, n - 1>>
           fr(n) == <<froms[n][1], w, froms[n][2]>>
           ws == Moves(w, froms)
<1>1. N \in Nat /\ DOMAIN froms = 1 .. N /\ \A n \in 1 .. N : froms[n] \in Frm
  OBVIOUS
<1>2. ASSUME NEW n \in 1 .. N PROVE to(n) \in Elem /\ fr(n) \in Elem
  <2>1. froms[n][1] \in Roles4 \cup Others /\ froms[n][2] \in 0 .. 31
    BY <1>1 DEF Frm
  <2>2. w \in Widths /\ "d" \in Roles4 \cup Others
    BY DEF Widths, Roles4
  <2>3. n - 1 \in 0 .. 31 /\ w * (n - 1) + w <= 32
    BY <1>1
  <2>4. to(n) \in Elem
    BY <2>2, <2>3, ElemIs
  <2>5. fr(n) \in Elem
    BY <2>1, <2>2, ElemIs
  <2> QED BY <2>4, <2>5
<1>3. ws = [n \in 1 .. N |-> Copy(to(n), fr(n))]
  BY <1>1 DEF Moves
<1> HIDE DEF N, to, fr
<1>4. \A n \in 1 .. N : Copy(to(n), fr(n)) \in Write
  BY <1>2, CopyWrite
<1>5. ws \in Seq(Write) /\ Len(ws) = N /\ \A n \in 1 .. N : ws[n] = Copy(to(n), fr(n))
  BY <1>1, <1>3, <1>4
<1> HIDE DEF ws
<1>6. \A n \in 1 .. N : ws[n].to = to(n) /\ ws[n].from = <<fr(n)>>
  BY <1>2, <1>5, CopyWrite
<1>7. ASSUME \A n \in 1 .. Len(froms) : w * froms[n][2] + w <= 16 PROVE Low(ws)
  <2> SUFFICES ASSUME NEW n \in 1 .. N, NEW z \in DOMAIN ws[n].from PROVE LowElem(ws[n].from[z])
    BY <1>5 DEF Low, LowElem
  <2>1. ws[n].from = <<fr(n)>>
    BY <1>6
  <2>2. ws[n].from[z] = fr(n)
    BY <2>1
  <2>3. LowElem(fr(n))
    BY <1>7 DEF LowElem, First, fr, N
  <2> QED BY <2>2, <2>3
<1> QED BY <1>5, <1>6, <1>7 DEF ws, N, to, fr

\* The sources of a later element are not in a register written before, or lie
\* in it behind all of that.
LEMMA MovesUnread ==
  ASSUME NEW w \in {1, 2, 4, 8}, NEW froms \in Seq(Frm), w * Len(froms) <= 32,
         \A n \in 1 .. Len(froms) : w * froms[n][2] + w <= 32, NEW i,
         \A n \in 1 .. Len(froms) : i.d # Place(i, froms[n][1]) \/ froms[n][2] >= n - 1
  PROVE  Unread(i, Moves(w, froms))
<1> DEFINE N == Len(froms)
           ws == Moves(w, froms)
<1>0. Len(ws) = N
  BY MovesFacts
<1>1. N \in Nat /\ Len(ws) = N /\ \A n \in 1 .. N : froms[n] \in Frm
  BY <1>0
<1>2. \A n \in 1 .. N : ws[n].to = <<"d", w, n - 1>> /\ ws[n].from = <<<<froms[n][1], w, froms[n][2]>>>>
  BY MovesFacts
<1> HIDE DEF ws
<1>3. ASSUME NEW x \in 1 .. N, NEW y \in 1 .. N, x < y, NEW z \in DOMAIN ws[y].from
      PROVE  Apart(i, ws[x].to, ws[y].from[z])
  <2>1. ws[y].from = <<<<froms[y][1], w, froms[y][2]>>>>
    BY <1>2
  <2>2. ws[y].from[z] = <<froms[y][1], w, froms[y][2]>>
    BY <1>3, <2>1
  <2>3. ws[x].to = <<"d", w, x - 1>> /\ Place(i, "d") = i.d
    BY <1>2 DEF Place
  <2>4. froms[y][2] \in 0 .. 31
    BY <1>1 DEF Frm
  <2>5. CASE i.d # Place(i, froms[y][1])
    BY <2>2, <2>3, <2>5 DEF Apart
  <2>6. CASE froms[y][2] >= y - 1
    <3>1. w * (x - 1) + w <= w * froms[y][2]
      <4> DEFINE q == froms[y][2]
      <4>1. q \in 0 .. 31 /\ y - 1 <= q
        BY <2>4, <2>6
      <4> HIDE DEF q
      <4>2. x \in Int /\ y \in Int /\ x <= q
        BY <1>1, <1>3, <4>1
      <4>3. w * (x - 1) + w <= w * q
        <5>1. CASE w = 4
          BY <4>1, <4>2, <5>1
        <5>2. CASE w = 8
          BY <4>1, <4>2, <5>2
        <5>3. CASE w = 1
          BY <4>1, <4>2, <5>3
        <5>4. CASE w = 2
          BY <4>1, <4>2, <5>4
        <5> QED BY <5>1, <5>2, <5>3, <5>4
      <4> QED BY <4>3 DEF q
    <3> QED BY <2>2, <2>3, <3>1 DEF Apart, First
  <2> QED BY <2>5, <2>6
<1> QED BY <1>1, <1>3 DEF Unread, ws

LEMMA Pair ==
  ASSUME NEW r1 \in Roles4, NEW n1 \in 0 .. 3, NEW r2 \in Roles4, NEW n2 \in 0 .. 3
  PROVE  LET ws == Moves(8, <<<<r1, n1>>, <<r2, n2>>>>)
         IN  /\ ws \in Seq(Write) /\ Len(ws) = 2
             /\ n1 <= 1 /\ n2 <= 1 => Low(ws)
             /\ \A i : i.d # Place(i, r2) \/ n2 >= 1 => Unread(i, ws)
             /\ ws[1].to = <<"d", 8, 0>> /\ ws[2].to = <<"d", 8, 1>>
             /\ ws[1].from = <<<<r1, 8, n1>>>> /\ ws[2].from = <<<<r2, 8, n2>>>>
<1> DEFINE f == <<<<r1, n1>>, <<r2, n2>>>>
           ws == Moves(8, f)
<1>0. <<r1, n1>> \in Frm /\ <<r2, n2>> \in Frm
  BY DEF Frm
<1>1. f \in Seq(Frm) /\ Len(f) = 2 /\ f[1] = <<r1, n1>> /\ f[2] = <<r2, n2>>
  BY <1>0
<1> HIDE DEF f
<1>2. \A n \in 1 .. Len(f) : n = 1 \/ n = 2
  BY <1>1
<1>3. 8 * Len(f) <= 32 /\ \A n \in 1 .. Len(f) : 8 * f[n][2] + 8 <= 32
  BY <1>1, <1>2
<1>4. ws \in Seq(Write) /\ Len(ws) = Len(f)
  BY <1>1, <1>3, MovesFacts
<1>5. n1 <= 1 /\ n2 <= 1 => Low(ws)
  <2>1. n1 <= 1 /\ n2 <= 1 => \A n \in 1 .. Len(f) : 8 * f[n][2] + 8 <= 16
    BY <1>1, <1>2
  <2> QED BY <1>1, <1>3, <2>1, MovesFacts
<1>6. ASSUME NEW i, i.d # Place(i, r2) \/ n2 >= 1 PROVE Unread(i, ws)
  <2>1. \A n \in 1 .. Len(f) : i.d # Place(i, f[n][1]) \/ f[n][2] >= n - 1
    BY <1>1, <1>2, <1>6
  <2> QED BY <1>1, <1>3, <2>1, MovesUnread
<1>7. \A n \in 1 .. Len(f) : ws[n].to = <<"d", 8, n - 1>> /\ ws[n].from = <<<<f[n][1], 8, f[n][2]>>>>
  BY <1>1, <1>3, MovesFacts
<1> HIDE DEF ws
<1>8. ws[1].to = <<"d", 8, 0>> /\ ws[2].to = <<"d", 8, 1>>
      /\ ws[1].from = <<<<r1, 8, n1>>>> /\ ws[2].from = <<<<r2, 8, n2>>>>
  BY <1>1, <1>7
<1> QED BY <1>1, <1>4, <1>5, <1>6, <1>8 DEF ws, f

LEMMA Quad ==
  ASSUME NEW w \in {4, 8}, NEW r1 \in Roles4, NEW n1 \in 0 .. 3, NEW r2 \in Roles4, NEW n2 \in 0 .. 3,
         NEW r3 \in Roles4, NEW n3 \in 0 .. 3, NEW r4 \in Roles4, NEW n4 \in 0 .. 3
  PROVE  LET ws == Moves(w, <<<<r1, n1>>, <<r2, n2>>, <<r3, n3>>, <<r4, n4>>>>)
         IN  /\ ws \in Seq(Write) /\ Len(ws) = 4
             /\ w = 4 => Low(ws)
             /\ \A i : /\ i.d # Place(i, r2) \/ n2 >= 1
                       /\ i.d # Place(i, r3) \/ n3 >= 2
                       /\ i.d # Place(i, r4) \/ n4 >= 3
                       => Unread(i, ws)
<1> DEFINE f == <<<<r1, n1>>, <<r2, n2>>, <<r3, n3>>, <<r4, n4>>>>
           ws == Moves(w, f)
<1>0. <<r1, n1>> \in Frm /\ <<r2, n2>> \in Frm /\ <<r3, n3>> \in Frm /\ <<r4, n4>> \in Frm
  BY DEF Frm
<1>1. f \in Seq(Frm) /\ Len(f) = 4 /\ f[1] = <<r1, n1>> /\ f[2] = <<r2, n2>> /\ f[3] = <<r3, n3>> /\ f[4] = <<r4, n4>>
  BY <1>0
<1> HIDE DEF f
<1>2. \A n \in 1 .. Len(f) : n = 1 \/ n = 2 \/ n = 3 \/ n = 4
  BY <1>1
<1>3. w * Len(f) <= 32 /\ \A n \in 1 .. Len(f) : w * f[n][2] + w <= 32
  <2>1. w * 4 <= 32 /\ w * 0 + w <= 32 /\ w * 1 + w <= 32 /\ w * 2 + w <= 32 /\ w * 3 + w <= 32
    OBVIOUS
  <2>2. \A n \in 1 .. Len(f) : f[n][2] = n1 \/ f[n][2] = n2 \/ f[n][2] = n3 \/ f[n][2] = n4
    BY <1>1, <1>2
  <2>3. \A n \in 1 .. Len(f) : f[n][2] = 0 \/ f[n][2] = 1 \/ f[n][2] = 2 \/ f[n][2] = 3
    BY <2>2
  <2> QED BY <1>1, <2>1, <2>3
<1>4. ws \in Seq(Write) /\ Len(ws) = Len(f)
  BY <1>1, <1>3, MovesFacts
<1>5. w = 4 => Low(ws)
  <2>1. w = 4 => \A n \in 1 .. Len(f) : w * f[n][2] + w <= 16
    BY <1>1, <1>2
  <2> QED BY <1>1, <1>3, <2>1, MovesFacts
<1>6. ASSUME NEW i, i.d # Place(i, r2) \/ n2 >= 1, i.d # Place(i, r3) \/ n3 >= 2, i.d # Place(i, r4) \/ n4 >= 3
      PROVE  Unread(i, ws)
  <2>1. \A n \in 1 .. Len(f) : i.d # Place(i, f[n][1]) \/ f[n][2] >= n - 1
    BY <1>1, <1>2, <1>6
  <2> QED BY <1>1, <1>3, <2>1, MovesUnread
<1> QED BY <1>1, <1>4, <1>5, <1>6 DEF ws, f

LEMMA Division ==
  ASSUME NEW size \in {16, 32}, NEW w \in {1, 2, 4, 8}
  PROVE  size \div w \in 1 .. 32 /\ w * (size \div w) = size
<1>1. CASE w = 1
  BY <1>1
<1>2. CASE w = 2
  BY <1>2
<1>3. CASE w = 4
  BY <1>3
<1>4. CASE w = 8
  BY <1>4
<1> QED BY <1>1, <1>2, <1>3, <1>4

LEMMA FromGeneralFacts ==
  ASSUME NEW w \in {1, 2, 4, 8}, NEW size \in {16, 32}
  PROVE  /\ FromGeneral(w, size) \in Seq(Write) /\ Low(FromGeneral(w, size))
         /\ \A i : Named(i) => Unread(i, FromGeneral(w, size))
         /\ Len(FromGeneral(w, size)) = size \div w
         /\ \A n \in 1 .. size \div w : FromGeneral(w, size)[n] = Copy(<<"d", w, n - 1>>, <<"gr", w, 0>>)
<1> DEFINE N == size \div w
           f == [n \in 1 .. N |-> <<"gr", 0>>]
<1>1. N \in 1 .. 32 /\ w * N = size
  BY Division
<1> HIDE DEF N
<1>2. <<"gr", 0>> \in Frm
  BY DEF Frm, Others
<1>3. f \in Seq(Frm) /\ Len(f) = N /\ DOMAIN f = 1 .. N /\ \A n \in 1 .. N : f[n] = <<"gr", 0>>
  BY <1>1, <1>2
<1>4. FromGeneral(w, size) = Moves(w, f)
  BY DEF FromGeneral, Moves, N
<1> HIDE DEF f
<1>5. w * Len(f) <= 32 /\ \A n \in 1 .. Len(f) : w * f[n][2] + w <= 16 /\ w * f[n][2] + w <= 32
  BY <1>1, <1>3
<1>6. Moves(w, f) \in Seq(Write) /\ Low(Moves(w, f))
  BY <1>3, <1>5, MovesFacts
<1>7. ASSUME NEW i, Named(i) PROVE Unread(i, Moves(w, f))
  <2>1. i.d # "gr" /\ Place(i, "gr") = "gr"
    BY <1>7, RegistersAssumption DEF Named, Others, Place
  <2>2. \A n \in 1 .. Len(f) : i.d # Place(i, f[n][1])
    BY <1>3, <2>1
  <2> QED BY <1>3, <1>5, <2>2, MovesUnread
<1>8. Len(FromGeneral(w, size)) = N /\ \A n \in 1 .. N : FromGeneral(w, size)[n] = Copy(<<"d", w, n - 1>>, <<"gr", w, 0>>)
  <2>1. FromGeneral(w, size) = [n \in 1 .. N |-> Copy(<<"d", w, n - 1>>, <<"gr", w, 0>>)]
    BY DEF FromGeneral, N
  <2>2. Len(Moves(w, f)) = N
    BY <1>3, <1>5, MovesFacts
  <2> QED BY <1>1, <1>4, <2>1, <2>2
<1> QED BY <1>4, <1>6, <1>7, <1>8 DEF N

LEMMA InterleaveFacts ==
  ASSUME NEW w \in {1, 2, 4, 8}
  PROVE  InterleaveLow(w) \in Seq(Write) /\ Low(InterleaveLow(w))
<1> DEFINE N == 16 \div w
           f == [n \in 1 .. N |-> <<IF n % 2 = 1 THEN "k" ELSE "j", (n - 1) \div 2>>]
<1>1. N \in 1 .. 32 /\ w * N = 16
  BY Division
<1> HIDE DEF N
<1>2. ASSUME NEW n \in 1 .. N
      PROVE  f[n] \in Frm /\ w * f[n][2] + w <= 16
  <2> DEFINE q == (n - 1) \div 2
  <2>1. q \in 0 .. 31 /\ q + 1 <= N
    BY <1>1
  <2> HIDE DEF q
  <2>2. w * q + w <= 16
    <3>1. CASE w = 1
      BY <1>1, <2>1, <3>1
    <3>2. CASE w = 2
      BY <1>1, <2>1, <3>2
    <3>3. CASE w = 4
      BY <1>1, <2>1, <3>3
    <3>4. CASE w = 8
      BY <1>1, <2>1, <3>4
    <3> QED BY <3>1, <3>2, <3>3, <3>4
  <2>3. f[n] = <<IF n % 2 = 1 THEN "k" ELSE "j", q>>
    BY DEF q
  <2>4. (IF n % 2 = 1 THEN "k" ELSE "j") \in Roles4 \cup Others
    BY DEF Roles4
  <2> HIDE DEF f
  <2> QED BY <2>1, <2>2, <2>3, <2>4 DEF Frm
<1>3. f \in Seq(Frm) /\ Len(f) = N
  BY <1>1, <1>2
<1>4. InterleaveLow(w) = Moves(w, f) \o ClearHigh
  BY DEF InterleaveLow, N
<1> HIDE DEF f
<1>5. w * Len(f) <= 32 /\ \A n \in 1 .. Len(f) : w * f[n][2] + w <= 16 /\ w * f[n][2] + w <= 32
  <2>1. \A n \in 1 .. N : f[n][2] \in 0 .. 31
    BY <1>2 DEF Frm
  <2>2. \A n \in 1 .. N : \A a \in Int : a <= 16 => a <= 32
    OBVIOUS
  <2>3. ASSUME NEW n \in 1 .. N PROVE w * f[n][2] + w <= 32
    <3> DEFINE q == f[n][2]
    <3>1. q \in 0 .. 31 /\ w * q + w <= 16
      BY <1>2, <2>1
    <3> HIDE DEF q
    <3>2. w * q + w <= 32
      BY <3>1
    <3> QED BY <3>2 DEF q
  <2> QED BY <1>1, <1>2, <1>3, <2>3
<1>6. Moves(w, f) \in Seq(Write) /\ Low(Moves(w, f))
  BY <1>3, <1>5, MovesFacts
<1> QED BY <1>4, <1>6, ClearHighFacts, ConcatFacts, ConcatLow

LEMMA InterleavesFacts ==
  ASSUME NEW op \in InterleaveOps
  PROVE  /\ Interleaves[op] \in Seq(Write) /\ Low(Interleaves[op])
         /\ \A i : i.op = op /\ op \notin Buffered /\ ~ Torn(i) => Unread(i, Interleaves[op])
<1>1. CASE op = "VILVH_D"
  <2> DEFINE ws == Moves(8, <<<<"k", 1>>, <<"j", 1>>>>)
  <2>1. Interleaves[op] = ws \o ClearHigh
    BY <1>1 DEF Interleaves
  <2>0. "k" \in Roles4 /\ "j" \in Roles4 /\ 1 \in 0 .. 3
    BY DEF Roles4
  <2>7. ASSUME NEW n \in 0 .. 3, n = 1
        PROVE  LET v == Moves(8, <<<<"k", n>>, <<"j", n>>>>)
               IN  v \in Seq(Write) /\ Low(v) /\ \A i : Unread(i, v)
    <3>1. n <= 1 /\ n >= 1
      BY <2>7
    <3> QED BY <2>0, <3>1, Pair
  <2>2. ws \in Seq(Write) /\ Low(ws)
    BY <2>7
  <2>3. ASSUME NEW i PROVE Unread(i, ws)
    BY <2>7
  <2>4. \A i : Unread(i, ws)
    BY <2>3
  <2> HIDE DEF ws
  <2>5. ws \o ClearHigh \in Seq(Write) /\ Low(ws \o ClearHigh)
    BY <2>2, ClearHighFacts, ConcatFacts, ConcatLow
  <2>6. \A i : Unread(i, ws \o ClearHigh)
    BY <2>2, <2>4, ClearHighFacts, ConcatUnread
  <2> QED BY <2>1, <2>5, <2>6
<1>2. CASE op = "VPICKEV_W"
  <2> DEFINE ws == Moves(4, <<<<"k", 0>>, <<"k", 2>>, <<"j", 0>>, <<"j", 2>>>>)
  <2>0. "k" \in Roles4 /\ "j" \in Roles4 /\ 0 \in 0 .. 3 /\ 2 \in 0 .. 3 /\ 4 \in {4, 8}
    BY DEF Roles4
  <2>1. Interleaves[op] = ws \o ClearHigh
    BY <1>2 DEF Interleaves
  <2>2. ws \in Seq(Write) /\ Low(ws)
    BY <2>0, Quad
  <2>3. ASSUME NEW i, i.op = op, ~ Torn(i) PROVE Unread(i, ws)
    <3>1. i.d # i.j
      BY <1>2, <2>3 DEF Torn
    <3>2. Place(i, "j") = i.j /\ i.d # Place(i, "j")
      BY <3>1 DEF Place
    <3> DEFINE v(w, a, b, c, e) == Moves(w, <<<<"k", a>>, <<"k", b>>, <<"j", c>>, <<"j", e>>>>)
    <3>3. ASSUME NEW w \in {4, 8}, NEW a \in 0 .. 3, NEW b \in 0 .. 3, NEW c \in 0 .. 3, NEW e \in 0 .. 3, b = 2
          PROVE  Unread(i, v(w, a, b, c, e))
      <4>1. b >= 1
        BY <3>3
      <4> QED BY <2>0, <3>2, <4>1, Quad
    <3> QED BY <3>3
  <2> HIDE DEF ws
  <2> QED BY <2>1, <2>2, <2>3, ClearHighFacts, ConcatFacts, ConcatLow, ConcatUnread
<1>3. CASE op \in {"VILVL_B", "VILVL_H", "VILVL_W", "VILVL_D"}
  <2>1. op \in Buffered
    BY <1>3 DEF Buffered
  <2>2. PICK w \in {1, 2, 4, 8} : Interleaves[op] = InterleaveLow(w)
    BY <1>3 DEF Interleaves
  <2> QED BY <2>1, <2>2, InterleaveFacts
<1> QED BY <1>1, <1>2, <1>3 DEF InterleaveOps

LEMMA ReplicateElementFacts ==
  ASSUME NEW i, i.imm \in 0 .. 1
  PROVE  LET ws == Moves(8, <<<<"j", i.imm>>, <<"j", i.imm>>>>)
         IN  /\ ReplicateElement(i) = ws \o ClearHigh
             /\ ws \in Seq(Write) /\ Low(ws)
             /\ ReplicateElement(i) \in Seq(Write) /\ Low(ReplicateElement(i))
             /\ i.d # i.j \/ i.imm = 1 => Unread(i, ReplicateElement(i))
<1> DEFINE ws == Moves(8, <<<<"j", i.imm>>, <<"j", i.imm>>>>)
<1>1. ReplicateElement(i) = ws \o ClearHigh
  BY DEF ReplicateElement
<1>2. "j" \in Roles4 /\ i.imm \in 0 .. 3 /\ i.imm <= 1
  BY DEF Roles4
<1>3. ws \in Seq(Write) /\ Low(ws)
  BY <1>2, Pair
<1>4. i.d # i.j \/ i.imm = 1 => Unread(i, ws)
  <2>1. Place(i, "j") = i.j
    BY DEF Place
  <2>2. i.imm = 1 => i.imm >= 1
    OBVIOUS
  <2> QED BY <1>2, <2>1, <2>2, Pair
<1> HIDE DEF ws
<1> QED BY <1>1, <1>3, <1>4, ClearHighFacts, ConcatFacts, ConcatLow, ConcatUnread DEF ws

LEMMA LowConcat ==
  ASSUME NEW s \in Seq(Elem), NEW t \in Seq(Elem), LowElems(s), LowElems(t)
  PROVE  s \o t \in Seq(Elem) /\ LowElems(s \o t)
<1> DEFINE c == s \o t
<1>1. c \in Seq(Elem) /\ Len(c) = Len(s) + Len(t) /\ Len(s) \in Nat /\ Len(t) \in Nat
  OBVIOUS
<1>2. \A z \in 1 .. Len(s) : c[z] = s[z] /\ z \in DOMAIN s
  OBVIOUS
<1>3. \A z \in Len(s) + 1 .. Len(s) + Len(t) : c[z] = t[z - Len(s)] /\ z - Len(s) \in DOMAIN t
  OBVIOUS
<1>4. DOMAIN c = 1 .. Len(s) + Len(t)
  BY <1>1
<1> HIDE DEF c
<1>5. ASSUME NEW z \in DOMAIN c PROVE LowElem(c[z])
  <2>1. CASE z \in 1 .. Len(s)
    BY <1>2, <2>1 DEF LowElems
  <2>2. CASE z \in Len(s) + 1 .. Len(s) + Len(t)
    BY <1>3, <2>2 DEF LowElems
  <2> QED BY <1>1, <1>4, <2>1, <2>2
<1> QED BY <1>1, <1>5 DEF LowElems, c

LEMMA FirstNonZeroFacts ==
  ASSUME NEW i, i.imm \in 0 .. 31
  PROVE  Tame(FirstNonZero(i)) /\ Low(FirstNonZero(i))
<1> DEFINE s == All("j", 1, 16)
           t == SubSeq(s, i.imm + 1, 16)
<1>1. s \in Seq(Elem) /\ LowElems(s) /\ Len(s) = 16
  <2>1. 16 \div 1 = 16
    OBVIOUS
  <2> QED BY <2>1, AllFacts DEF Roles4
<1> HIDE DEF s
<1>2. \A x \in i.imm + 1 .. 16 : x \in DOMAIN s /\ s[x] \in {e \in Elem : LowElem(e)}
  <2>a. s \in Seq(Elem)
    BY <1>1
  <2>b. DOMAIN s = 1 .. Len(s)
    BY <2>a
  <2>c. \A x \in 1 .. Len(s) : s[x] \in Elem
    BY <2>a
  <2>1. DOMAIN s = 1 .. 16 /\ \A x \in 1 .. 16 : s[x] \in Elem
    BY <1>1, <2>b, <2>c
  <2>2. \A x \in i.imm + 1 .. 16 : x \in 1 .. 16
    OBVIOUS
  <2> QED BY <1>1, <2>1, <2>2 DEF LowElems
<1>3. t \in Seq({e \in Elem : LowElem(e)})
  <2>1. i.imm + 1 \in Int /\ 16 \in Int
    OBVIOUS
  <2> QED BY <1>2, <2>1, SubSeqProperties
<1> HIDE DEF t
<1>4. t \in Seq(Elem) /\ LowElems(t)
  BY <1>3 DEF LowElems
<1>5. FirstNonZero(i) = <<[to |-> <<"d", 8, 0>>, f |-> "first", from |-> t], ZeroAt(<<"d", 8, 1>>)>>
  BY DEF FirstNonZero, s, t
<1>6. <<"d", 8, 0>> \in Elem /\ <<"d", 8, 1>> \in Elem /\ "first" \in Operations
  BY ElemList DEF Operations
<1> QED BY <1>4, <1>5, <1>6, ThenZeros

LEMMA ShuffleFacts == Shuffle \in Seq(Write) /\ Low(Shuffle)
<1> DEFINE a(n) == <<<<"a", 1, n - 1>>>>
           k == All("k", 1, 16)
           j == All("j", 1, 16)
           from(n) == a(n) \o k \o j
           wr(n) == [to |-> <<"d", 1, n - 1>>, f |-> "shuf", from |-> from(n)]
<1>1. k \in Seq(Elem) /\ LowElems(k) /\ j \in Seq(Elem) /\ LowElems(j)
  BY AllFacts DEF Roles4
<1>2. Shuffle = [n \in 1 .. 16 |-> wr(n)]
  BY DEF Shuffle
<1> HIDE DEF k, j
<1>3. ASSUME NEW n \in 1 .. 16 PROVE from(n) \in Seq(Elem) /\ LowElems(from(n)) /\ <<"d", 1, n - 1>> \in Elem
  <2>1. n - 1 \in 0 .. 31 /\ n - 1 <= (16 \div 1) - 1
    OBVIOUS
  <2>2. "a" \in Roles4 \cup Others /\ "d" \in Roles4 \cup Others
    BY DEF Roles4
  <2>3. <<"a", 1, n - 1>> \in Elem /\ LowElem(<<"a", 1, n - 1>>) /\ <<"d", 1, n - 1>> \in Elem
    BY <2>1, <2>2, LaneElement
  <2>4. a(n) \in Seq(Elem) /\ LowElems(a(n))
    BY <2>3, LowList
  <2> HIDE DEF a
  <2> QED BY <1>1, <2>3, <2>4, LowConcat
<1> HIDE DEF from
<1>4. "shuf" \in Operations
  BY DEF Operations
<1>5. \A n \in 1 .. 16 : wr(n) \in Write /\ wr(n).from = from(n)
  BY <1>3, <1>4 DEF Write
<1> HIDE DEF wr
<1>6. Shuffle \in Seq(Write) /\ Len(Shuffle) = 16 /\ \A n \in 1 .. 16 : Shuffle[n] = wr(n)
  BY <1>2, <1>5
<1>7. \A n \in 1 .. Len(Shuffle) : LowElems(Shuffle[n].from)
  <2> SUFFICES ASSUME NEW n \in 1 .. Len(Shuffle) PROVE LowElems(Shuffle[n].from)
    OBVIOUS
  <2>1. n \in 1 .. 16
    BY <1>6
  <2>2. Shuffle[n].from = from(n)
    BY <1>5, <1>6, <2>1
  <2> QED BY <1>3, <2>1, <2>2
<1> QED BY <1>6, <1>7 DEF Low, LowElems, LowElem

LEMMA WideTestFacts ==
  ASSUME NEW i, i.op \in {"XVMSKNZ_B", "XVPICKVE_W", "XVSETANYEQZ_B", "XVSETEQZ_V"}, i.imm \in Imms(i.op)
  PROVE  Tame(WideTests(i))
<1>0. ASSUME NEW f \in Operations, NEW froms \in Seq(Elem)
      PROVE  Tame(<<[to |-> <<"d", 8, 0>>, f |-> f, from |-> froms],
                    ZeroAt(<<"d", 8, 1>>), ZeroAt(<<"d", 8, 2>>), ZeroAt(<<"d", 8, 3>>)>>)
  <2> DEFINE d0 == <<"d", 8, 0>>
             d1 == <<"d", 8, 1>>
             d2 == <<"d", 8, 2>>
             d3 == <<"d", 8, 3>>
  <2>1. d0 \in Elem /\ d1 \in Elem /\ d2 \in Elem /\ d3 \in Elem
    BY ElemList
  <2> HIDE DEF d0, d1, d2, d3
  <2>2. Tame(<<[to |-> d0, f |-> f, from |-> froms], ZeroAt(d1), ZeroAt(d2), ZeroAt(d3)>>)
    BY <2>1, ThenZeros
  <2> QED BY <2>2 DEF d0, d1, d2, d3
<1>1. All("j", 1, 32) \in Seq(Elem) /\ All("j", 8, 32) \in Seq(Elem)
  BY AllFacts DEF Roles4
<1>3. "mask" \in Operations /\ "zext" \in Operations /\ "anyzero" \in Operations /\ "allzero" \in Operations
  BY DEF Operations
<1>4. CASE i.op = "XVMSKNZ_B"
  <2>1. WideTests(i) = <<[to |-> <<"d", 8, 0>>, f |-> "mask", from |-> All("j", 1, 32)],
                         ZeroAt(<<"d", 8, 1>>), ZeroAt(<<"d", 8, 2>>), ZeroAt(<<"d", 8, 3>>)>>
    BY <1>4 DEF WideTests
  <2> QED BY <1>0, <1>1, <1>3, <2>1
<1>5. CASE i.op = "XVPICKVE_W"
  <2>1. WideTests(i) = <<[to |-> <<"d", 8, 0>>, f |-> "zext", from |-> <<<<"j", 4, i.imm>>>>],
                         ZeroAt(<<"d", 8, 1>>), ZeroAt(<<"d", 8, 2>>), ZeroAt(<<"d", 8, 3>>)>>
    BY <1>5 DEF WideTests
  <2>2. i.imm \in 0 .. 7
    BY <1>5, ImmFacts
  <2>3. i.imm \in 0 .. 31 /\ 4 * i.imm + 4 <= 32 /\ "j" \in Roles4 \cup Others /\ 4 \in Widths
    BY <2>2 DEF Roles4, Widths
  <2>4. <<"j", 4, i.imm>> \in Elem
    BY <2>3, ElemIs
  <2>5. <<<<"j", 4, i.imm>>>> \in Seq(Elem)
    BY <2>4
  <2> QED BY <1>0, <1>3, <2>1, <2>5
<1>6. CASE i.op = "XVSETANYEQZ_B"
  <2>1. WideTests(i) = ToFlag("anyzero", All("j", 1, 32))
    BY <1>6 DEF WideTests
  <2> QED BY <1>1, <1>3, <2>1, ToFlagFacts DEF Tame
<1>7. CASE i.op = "XVSETEQZ_V"
  <2>1. WideTests(i) = ToFlag("allzero", All("j", 8, 32))
    BY <1>7 DEF WideTests
  <2> QED BY <1>1, <1>3, <2>1, ToFlagFacts DEF Tame
<1> QED BY <1>4, <1>5, <1>6, <1>7

LEMMA SumPairFacts ==
  ASSUME NEW n \in 0 .. 1, NEW role \in {"j", "k"}
  PROVE  SumPair(8, n, role, 0) \in Write /\ LowElems(SumPair(8, n, role, 0).from)
<1> DEFINE a == <<role, 4, 0>>
           b == <<role, 4, 1>>
<1>1. a \in Elem /\ LowElem(a) /\ b \in Elem /\ LowElem(b)
  <2>1. 0 \in 0 .. 31 /\ 1 \in 0 .. 31 /\ 0 <= (16 \div 4) - 1 /\ 1 <= (16 \div 4) - 1
    OBVIOUS
  <2> QED BY <2>1, LaneElement DEF Roles4
<1>2. SumPair(8, n, role, 0) = [to |-> <<"d", 8, n>>, f |-> "addw", from |-> <<a, b>>]
  BY DEF SumPair
<1> HIDE DEF a, b
<1>3. <<a, b>> \in Seq(Elem) /\ LowElems(<<a, b>>)
  BY <1>1, LowPair
<1>4. <<"d", 8, n>> \in Elem /\ "addw" \in Operations
  BY ElemList DEF Operations
<1>5. [to |-> <<"d", 8, n>>, f |-> "addw", from |-> <<a, b>>] \in Write
  BY <1>3, <1>4 DEF Write
<1> QED BY <1>2, <1>3, <1>5

LEMMA HorizontalFacts ==
  HorizontalAdds["VHADDW_D_W"] \in Seq(Write) /\ Low(HorizontalAdds["VHADDW_D_W"])
<1> DEFINE a == SumPair(8, 0, "j", 0)
           b == SumPair(8, 1, "k", 0)
           t == <<a, b>>
<1>1. a \in Write /\ LowElems(a.from) /\ b \in Write /\ LowElems(b.from)
  BY SumPairFacts
<1>2. HorizontalAdds["VHADDW_D_W"] = t \o ClearHigh
  BY DEF HorizontalAdds
<1> HIDE DEF a, b
<1>3. t \in Seq(Write) /\ Len(t) = 2 /\ t[1] = a /\ t[2] = b
  BY <1>1
<1> HIDE DEF t
<1>4. \A x \in 1 .. Len(t) : LowElems(t[x].from)
  <2>1. \A x \in 1 .. 2 : x = 1 \/ x = 2
    OBVIOUS
  <2> QED BY <1>1, <1>3, <2>1
<1>5. Low(t)
  BY <1>4 DEF Low, LowElems, LowElem
<1> QED BY <1>2, <1>3, <1>5, ClearHighFacts, ConcatFacts, ConcatLow

LEMMA FourMoves ==
  ASSUME NEW i, NEW a \in {"j", "k"} \X (0 .. 3), NEW b \in {"j", "k"} \X (0 .. 3),
         NEW c \in {"j", "k"} \X (0 .. 3), NEW e \in {"j", "k"} \X (0 .. 3),
         i.d # Place(i, b[1]) \/ b[2] >= 1, i.d # Place(i, c[1]) \/ c[2] >= 2, i.d # Place(i, e[1]) \/ e[2] >= 3
  PROVE  Moves(8, <<a, b, c, e>>) \in Seq(Write) /\ Unread(i, Moves(8, <<a, b, c, e>>))
<1> DEFINE f == <<a, b, c, e>>
<1>1. a \in Frm /\ b \in Frm /\ c \in Frm /\ e \in Frm
  BY DEF Frm, Roles4
<1>2. f \in Seq(Frm) /\ Len(f) = 4 /\ f[1] = a /\ f[2] = b /\ f[3] = c /\ f[4] = e
  BY <1>1
<1> HIDE DEF f
<1>3. \A n \in 1 .. Len(f) : n = 1 \/ n = 2 \/ n = 3 \/ n = 4
  BY <1>2
<1>4. a[2] \in 0 .. 3 /\ b[2] \in 0 .. 3 /\ c[2] \in 0 .. 3 /\ e[2] \in 0 .. 3
  OBVIOUS
<1>5. 8 * Len(f) <= 32 /\ \A n \in 1 .. Len(f) : 8 * f[n][2] + 8 <= 32
  BY <1>2, <1>3, <1>4
<1>6. \A n \in 1 .. Len(f) : i.d # Place(i, f[n][1]) \/ f[n][2] >= n - 1
  BY <1>2, <1>3, <1>4
<1>7. Moves(8, f) \in Seq(Write)
  BY <1>2, <1>5, MovesFacts
<1>8. Unread(i, Moves(8, f))
  BY <1>2, <1>5, <1>6, MovesUnread
<1> QED BY <1>7, <1>8 DEF f

LEMMA WideShuffleFacts ==
  ASSUME NEW i, i.op \in WideShuffleOps, ~ Torn(i)
  PROVE  WideShuffles[i.op] \in Seq(Write) /\ Unread(i, WideShuffles[i.op])
<1>0. Place(i, "j") = i.j /\ Place(i, "k") = i.k
  BY DEF Place
<1>2. i.op \in {"XVPACKEV_D", "XVPICKEV_D", "XVPICKEV_W", "XVPICKOD_D"} => i.d # i.k
  BY DEF Torn
<1>3. i.op = "XVILVL_D" => i.d # i.j /\ i.d # i.k
  BY DEF Torn
<1>5. CASE i.op = "XVILVL_D"
  <2> DEFINE a == <<"k", 0>>
             b == <<"j", 0>>
             c == <<"k", 1>>
             e == <<"j", 1>>
  <2>1. WideShuffles[i.op] = Moves(8, <<a, b, c, e>>)
    BY <1>5 DEF WideShuffles
  <2>2. /\ a \in {"j", "k"} \X (0 .. 3) /\ b \in {"j", "k"} \X (0 .. 3)
        /\ c \in {"j", "k"} \X (0 .. 3) /\ e \in {"j", "k"} \X (0 .. 3)
    OBVIOUS
  <2>3. b[1] = "j" /\ b[2] = 0 /\ c[1] = "k" /\ c[2] = 1 /\ e[1] = "j" /\ e[2] = 1
    OBVIOUS
  <2> HIDE DEF a, b, c, e
  <2>4. i.d # Place(i, b[1]) \/ b[2] >= 1
    BY <1>0, <1>5, <2>3, <1>3
  <2>5. i.d # Place(i, c[1]) \/ c[2] >= 2
    BY <1>0, <1>5, <2>3, <1>3
  <2>6. i.d # Place(i, e[1]) \/ e[2] >= 3
    BY <1>0, <1>5, <2>3, <1>3
  <2> QED BY <2>1, <2>2, <2>4, <2>5, <2>6, FourMoves
<1>6. CASE i.op = "XVILVH_D"
  <2> DEFINE a == <<"k", 2>>
             b == <<"j", 2>>
             c == <<"k", 3>>
             e == <<"j", 3>>
  <2>1. WideShuffles[i.op] = Moves(8, <<a, b, c, e>>)
    BY <1>6 DEF WideShuffles
  <2>2. /\ a \in {"j", "k"} \X (0 .. 3) /\ b \in {"j", "k"} \X (0 .. 3)
        /\ c \in {"j", "k"} \X (0 .. 3) /\ e \in {"j", "k"} \X (0 .. 3)
    OBVIOUS
  <2>3. b[1] = "j" /\ b[2] = 2 /\ c[1] = "k" /\ c[2] = 3 /\ e[1] = "j" /\ e[2] = 3
    OBVIOUS
  <2> HIDE DEF a, b, c, e
  <2>4. i.d # Place(i, b[1]) \/ b[2] >= 1
    BY <1>0, <1>6, <2>3
  <2>5. i.d # Place(i, c[1]) \/ c[2] >= 2
    BY <1>0, <1>6, <2>3
  <2>6. i.d # Place(i, e[1]) \/ e[2] >= 3
    BY <1>0, <1>6, <2>3
  <2> QED BY <2>1, <2>2, <2>4, <2>5, <2>6, FourMoves
<1>7. CASE i.op = "XVPACKEV_D"
  <2> DEFINE a == <<"j", 0>>
             b == <<"k", 0>>
             c == <<"j", 2>>
             e == <<"k", 2>>
  <2>1. WideShuffles[i.op] = Moves(8, <<a, b, c, e>>)
    BY <1>7 DEF WideShuffles
  <2>2. /\ a \in {"j", "k"} \X (0 .. 3) /\ b \in {"j", "k"} \X (0 .. 3)
        /\ c \in {"j", "k"} \X (0 .. 3) /\ e \in {"j", "k"} \X (0 .. 3)
    OBVIOUS
  <2>3. b[1] = "k" /\ b[2] = 0 /\ c[1] = "j" /\ c[2] = 2 /\ e[1] = "k" /\ e[2] = 2
    OBVIOUS
  <2> HIDE DEF a, b, c, e
  <2>4. i.d # Place(i, b[1]) \/ b[2] >= 1
    BY <1>0, <1>7, <2>3, <1>2
  <2>5. i.d # Place(i, c[1]) \/ c[2] >= 2
    BY <1>0, <1>7, <2>3, <1>2
  <2>6. i.d # Place(i, e[1]) \/ e[2] >= 3
    BY <1>0, <1>7, <2>3, <1>2
  <2> QED BY <2>1, <2>2, <2>4, <2>5, <2>6, FourMoves
<1>8. CASE i.op = "XVPACKOD_D"
  <2> DEFINE a == <<"j", 1>>
             b == <<"k", 1>>
             c == <<"j", 3>>
             e == <<"k", 3>>
  <2>1. WideShuffles[i.op] = Moves(8, <<a, b, c, e>>)
    BY <1>8 DEF WideShuffles
  <2>2. /\ a \in {"j", "k"} \X (0 .. 3) /\ b \in {"j", "k"} \X (0 .. 3)
        /\ c \in {"j", "k"} \X (0 .. 3) /\ e \in {"j", "k"} \X (0 .. 3)
    OBVIOUS
  <2>3. b[1] = "k" /\ b[2] = 1 /\ c[1] = "j" /\ c[2] = 3 /\ e[1] = "k" /\ e[2] = 3
    OBVIOUS
  <2> HIDE DEF a, b, c, e
  <2>4. i.d # Place(i, b[1]) \/ b[2] >= 1
    BY <1>0, <1>8, <2>3
  <2>5. i.d # Place(i, c[1]) \/ c[2] >= 2
    BY <1>0, <1>8, <2>3
  <2>6. i.d # Place(i, e[1]) \/ e[2] >= 3
    BY <1>0, <1>8, <2>3
  <2> QED BY <2>1, <2>2, <2>4, <2>5, <2>6, FourMoves
<1>9. CASE i.op = "XVPICKEV_D"
  <2> DEFINE a == <<"j", 0>>
             b == <<"j", 2>>
             c == <<"k", 0>>
             e == <<"k", 2>>
  <2>1. WideShuffles[i.op] = Moves(8, <<a, b, c, e>>)
    BY <1>9 DEF WideShuffles
  <2>2. /\ a \in {"j", "k"} \X (0 .. 3) /\ b \in {"j", "k"} \X (0 .. 3)
        /\ c \in {"j", "k"} \X (0 .. 3) /\ e \in {"j", "k"} \X (0 .. 3)
    OBVIOUS
  <2>3. b[1] = "j" /\ b[2] = 2 /\ c[1] = "k" /\ c[2] = 0 /\ e[1] = "k" /\ e[2] = 2
    OBVIOUS
  <2> HIDE DEF a, b, c, e
  <2>4. i.d # Place(i, b[1]) \/ b[2] >= 1
    BY <1>0, <1>9, <2>3, <1>2
  <2>5. i.d # Place(i, c[1]) \/ c[2] >= 2
    BY <1>0, <1>9, <2>3, <1>2
  <2>6. i.d # Place(i, e[1]) \/ e[2] >= 3
    BY <1>0, <1>9, <2>3, <1>2
  <2> QED BY <2>1, <2>2, <2>4, <2>5, <2>6, FourMoves
<1>10. CASE i.op = "XVPICKOD_D"
  <2> DEFINE a == <<"j", 1>>
             b == <<"j", 3>>
             c == <<"k", 1>>
             e == <<"k", 3>>
  <2>1. WideShuffles[i.op] = Moves(8, <<a, b, c, e>>)
    BY <1>10 DEF WideShuffles
  <2>2. /\ a \in {"j", "k"} \X (0 .. 3) /\ b \in {"j", "k"} \X (0 .. 3)
        /\ c \in {"j", "k"} \X (0 .. 3) /\ e \in {"j", "k"} \X (0 .. 3)
    OBVIOUS
  <2>3. b[1] = "j" /\ b[2] = 3 /\ c[1] = "k" /\ c[2] = 1 /\ e[1] = "k" /\ e[2] = 3
    OBVIOUS
  <2> HIDE DEF a, b, c, e
  <2>4. i.d # Place(i, b[1]) \/ b[2] >= 1
    BY <1>0, <1>10, <2>3, <1>2
  <2>5. i.d # Place(i, c[1]) \/ c[2] >= 2
    BY <1>0, <1>10, <2>3, <1>2
  <2>6. i.d # Place(i, e[1]) \/ e[2] >= 3
    BY <1>0, <1>10, <2>3, <1>2
  <2> QED BY <2>1, <2>2, <2>4, <2>5, <2>6, FourMoves
<1>11. CASE i.op = "XVPICKEV_W"
  <2> DEFINE f == <<<<"j", 0>>, <<"j", 2>>, <<"j", 4>>, <<"j", 6>>, <<"k", 0>>, <<"k", 2>>, <<"k", 4>>, <<"k", 6>>>>
  <2>1. WideShuffles[i.op] = Moves(4, f)
    BY <1>11 DEF WideShuffles
  <2>2. /\ <<"j", 0>> \in Frm /\ <<"j", 2>> \in Frm /\ <<"j", 4>> \in Frm /\ <<"j", 6>> \in Frm
        /\ <<"k", 0>> \in Frm /\ <<"k", 2>> \in Frm /\ <<"k", 4>> \in Frm /\ <<"k", 6>> \in Frm
    BY DEF Frm, Roles4
  <2>3. f \in Seq(Frm) /\ Len(f) = 8
    BY <2>2
  <2>4. /\ f[1] = <<"j", 0>> /\ f[2] = <<"j", 2>> /\ f[3] = <<"j", 4>> /\ f[4] = <<"j", 6>>
        /\ f[5] = <<"k", 0>> /\ f[6] = <<"k", 2>> /\ f[7] = <<"k", 4>> /\ f[8] = <<"k", 6>>
    OBVIOUS
  <2>5. \A n \in 1 .. 8 : n = 1 \/ n = 2 \/ n = 3 \/ n = 4 \/ n = 5 \/ n = 6 \/ n = 7 \/ n = 8
    OBVIOUS
  <2> HIDE DEF f
  <2>6. \A n \in 1 .. Len(f) : 4 * f[n][2] + 4 <= 32
    BY <2>3, <2>4, <2>5
  <2>7. \A n \in 1 .. Len(f) : f[n][1] = "k" \/ f[n][2] >= n - 1
    BY <2>3, <2>4, <2>5
  <2>8. \A n \in 1 .. Len(f) : i.d # Place(i, f[n][1]) \/ f[n][2] >= n - 1
    BY <1>0, <1>2, <1>11, <2>7
  <2>9. 4 * Len(f) <= 32
    BY <2>3
  <2> QED BY <2>1, <2>3, <2>6, <2>8, <2>9, MovesFacts, MovesUnread
<1> QED BY <1>5, <1>6, <1>7, <1>8, <1>9, <1>10, <1>11 DEF WideShuffleOps

---------------------------------------------------------------------------
(* Every instruction.                                                      *)

WideOps == LasxOps \cup WideMemoryOps \cup WideShuffleOps
           \cup {"XVHADDW_Q_D", "XVHADDW_D_W", "XVFCMP_COND_D", "XVLDI", "XVREPLGR2VR_B", "XVMSKNZ_B", "XVPICKVE_W",
                 "XVSETANYEQZ_B", "XVSETEQZ_V", "XVPERMI_Q", "XVREPLVE_D", "XVPERMI_D", "XVPICKVE2GR_W"}

NarrowOps == LsxOps \cup ScalarOps \cup FloatMemoryOps \cup VectorMemoryOps \cup Transfers \cup CompareOps
             \cup ConversionOps \cup TestOps \cup PickOps \cup InterleaveOps \cup ReplicateOps \cup InsertOps
             \cup {"FSEL", "VFCMP_COND_D", "VHADDW_D_W", "VLDI", "VFRSTPI_B", "VREPLVEI_D", "VSHUF_B"}

LEMMA WideIndexedDomain == DOMAIN WideIndexed = {"XVLDX", "XVSTX"}
  BY DEF WideIndexed

LEMMA WideIs == \A op : Wide(op) <=> op \in WideOps
  BY LasxDomain, OtherDomains, WideIndexedDomain DEF Wide, WideOps, WideMemoryOps

LEMMA OpsAre == Ops \ Raising \subseteq NarrowOps \cup WideOps
  BY OtherDomains, MemoryDomain DEF Ops, MemoryOps, NarrowOps, WideOps

LEMMA LegalConditions ==
  ASSUME NEW i, ~ Illegal(i)
  PROVE  i.op = "VFCMP_COND_D" => i.imm \in VectorConditions
  BY DEF Illegal

LEMMA TameFacts ==
  ASSUME NEW ws, Tame(ws), NEW i
  PROVE  ws \in Seq(Write) /\ Unread(i, ws)
  BY OnlyFirstUnread DEF Tame

\* A 128-bit or scalar instruction reads nothing of the upper halves.
LEMMA NarrowWrites ==
  ASSUME NEW i, i.op \in NarrowOps, i.imm \in Imms(i.op), ~ Illegal(i)
  PROVE  Writes(i) \in Seq(Write) /\ Low(Writes(i))
<1>1. CASE i.op \in LsxOps \cup ScalarOps
  <2>1. i.op \in DOMAIN Table /\ RowOk(Table[i.op]) /\ Table[i.op].size <= 16
    <3>1. i.op \in DOMAIN Table
      BY <1>1, OtherDomains
    <3>2. i.op \in LsxOps => RowOk(Table[i.op]) /\ Table[i.op].size <= 16
      BY TableFacts
    <3>3. i.op \in ScalarOps => RowOk(Table[i.op]) /\ Table[i.op].size <= 16
      BY TableFacts
    <3> QED BY <1>1, <3>1, <3>2, <3>3
  <2>2. ForEach(Table[i.op]) \in Seq(Write) /\ Low(ForEach(Table[i.op]))
    BY <2>1, ForEachFacts, ForEachLow
  <2>3. CASE Writes(i) = ForEach(Table[i.op]) \o ClearHigh
    BY <2>2, <2>3, ClearHighFacts, ConcatFacts, ConcatLow
  <2>4. CASE Writes(i) = ForEach(Table[i.op])
    BY <2>2, <2>4
  <2> QED BY <2>1, <2>3, <2>4, WritesTable
<1>2. CASE i.op \in FloatMemoryOps \cup VectorMemoryOps
  <2>1. i.op \in MemoryOps /\ i.op \notin WideMemoryOps
    BY <1>2 DEF MemoryOps, FloatMemoryOps, VectorMemoryOps, WideMemoryOps
  <2> QED BY <2>1, MemoryFacts, WritesCases DEF Tame
<1>3. CASE i.op \in Transfers
  BY <1>3, TransferFacts, WritesCases DEF Tame
<1>4. CASE i.op \in CompareOps
  BY <1>4, CompareFacts, WritesCases DEF Tame
<1>5. CASE i.op \in ConversionOps
  BY <1>5, ConversionFacts, WritesCases DEF Tame
<1>6. CASE i.op \in TestOps
  BY <1>6, TestFacts, WritesCases DEF Tame
<1>7. CASE i.op \in PickOps
  BY <1>7, NarrowPick, WritesCases DEF Tame
<1>8. CASE i.op \in InterleaveOps
  BY <1>8, InterleavesFacts, WritesCases
<1>9. CASE i.op \in ReplicateOps
  BY <1>9, InsertRows, FromGeneralFacts, WritesCases
<1>10. CASE i.op \in InsertOps
  BY <1>10, InsertFacts, WritesCases DEF Tame
<1>11. CASE i.op = "FSEL"
  BY <1>11, FSelFacts, WritesCases DEF Tame
<1>12. CASE i.op = "VFCMP_COND_D"
  BY <1>12, LegalConditions, VectorCompareFacts, WritesCases
<1>13. CASE i.op = "VHADDW_D_W"
  BY <1>13, HorizontalFacts, WritesCases
<1>14. CASE i.op = "VLDI"
  <2>1. i.op \in {"VLDI", "XVLDI"}
    BY <1>14
  <2>2. Tame(LsxImmediate(i)) /\ Low(LsxImmediate(i))
    BY <2>1, ImmediateFacts
  <2>3. Writes(i) = LsxImmediate(i)
    BY <1>14, WritesCases
  <2> QED BY <2>2, <2>3 DEF Tame
<1>15. CASE i.op = "VFRSTPI_B"
  <2>1. i.imm \in 0 .. 31
    BY <1>15, ImmFacts
  <2> QED BY <1>15, <2>1, FirstNonZeroFacts, WritesCases DEF Tame
<1>16. CASE i.op = "VREPLVEI_D"
  <2>1. i.imm \in 0 .. 1
    BY <1>16, ImmFacts
  <2> QED BY <1>16, <2>1, ReplicateElementFacts, WritesCases
<1>17. CASE i.op = "VSHUF_B"
  BY <1>17, ShuffleFacts, WritesCases
<1> QED BY <1>1, <1>2, <1>3, <1>4, <1>5, <1>6, <1>7, <1>8, <1>9, <1>10, <1>11, <1>12, <1>13, <1>14, <1>15, <1>16, <1>17
        DEF NarrowOps

\* VREPLVEI.D copies element 0 of a register onto itself and then reads it.
SelfCopy(i) == i.op = "VREPLVEI_D" /\ i.d = i.j /\ i.imm = 0

\* No handler without a buffer reads what it has written.
LEMMA UnreadWrites ==
  ASSUME NEW i, Named(i), i.op \in NarrowOps \cup WideOps, i.imm \in Imms(i.op), ~ Illegal(i), i.op \notin Buffered,
         ~ Torn(i), ~ SelfCopy(i)
  PROVE  Writes(i) \in Seq(Write) /\ Unread(i, Writes(i))
<1>1. CASE i.op \in LsxOps \cup LasxOps \cup ScalarOps
  <2>1. i.op \in DOMAIN Table
    BY <1>1, OtherDomains
  <2>2. RowOk(Table[i.op])
    BY <2>1, WritesTable
  <2>3. ForEach(Table[i.op]) \in Seq(Write) /\ Unread(i, ForEach(Table[i.op]))
    BY <2>2, ForEachFacts, ForEachUnread
  <2>4. CASE Writes(i) = ForEach(Table[i.op]) \o ClearHigh
    BY <2>3, <2>4, ClearHighFacts, ConcatFacts, ConcatUnread
  <2>5. CASE Writes(i) = ForEach(Table[i.op])
    BY <2>3, <2>5
  <2> QED BY <2>1, <2>4, <2>5, WritesTable
<1>2. CASE i.op \in MemoryOps
  BY <1>2, MemoryFacts, WritesCases, TameFacts
<1>3. CASE i.op \in Transfers
  BY <1>3, TransferFacts, WritesCases, TameFacts
<1>4. CASE i.op \in CompareOps
  BY <1>4, CompareFacts, WritesCases, TameFacts
<1>5. CASE i.op \in ConversionOps
  BY <1>5, ConversionFacts, WritesCases, TameFacts
<1>6. CASE i.op \in TestOps
  BY <1>6, TestFacts, WritesCases, TameFacts
<1>7. CASE i.op \in PickOps
  BY <1>7, NarrowPick, WritesCases, TameFacts
<1>8. CASE i.op \in InterleaveOps
  BY <1>8, InterleavesFacts, WritesCases
<1>9. CASE i.op \in ReplicateOps
  BY <1>9, InsertRows, FromGeneralFacts, WritesCases
<1>10. CASE i.op \in InsertOps
  BY <1>10, InsertFacts, WritesCases, TameFacts
<1>11. CASE i.op = "FSEL"
  BY <1>11, FSelFacts, WritesCases, TameFacts
<1>12. CASE i.op = "VFCMP_COND_D"
  BY <1>12, LegalConditions, VectorCompareFacts, WritesCases
<1>13. CASE i.op = "XVFCMP_COND_D"
  BY <1>13, VectorCompareFacts, WritesCases
<1>14. CASE i.op \in {"VLDI", "XVLDI"}
  <2>1. Tame(LsxImmediate(i)) /\ Tame(LasxImmediate(i))
    BY <1>14, ImmediateFacts
  <2>2. Writes(i) = LsxImmediate(i) \/ Writes(i) = LasxImmediate(i)
    BY <1>14, WritesCases
  <2>3. Tame(Writes(i))
    BY <2>1, <2>2
  <2> QED BY <2>3, TameFacts
<1>15. CASE i.op = "VFRSTPI_B"
  <2>1. i.imm \in 0 .. 31
    BY <1>15, ImmFacts
  <2> QED BY <1>15, <2>1, FirstNonZeroFacts, WritesCases, TameFacts
<1>16. CASE i.op = "VREPLVEI_D"
  <2>1. i.imm \in 0 .. 1
    BY <1>16, ImmFacts
  <2>2. i.d # i.j \/ i.imm = 1
    BY <1>16, <2>1 DEF SelfCopy
  <2> QED BY <1>16, <2>1, <2>2, ReplicateElementFacts, WritesCases
<1>17. CASE i.op = "XVREPLGR2VR_B"
  <2>1. Writes(i) = FromGeneral(1, 32)
    BY <1>17, WritesCases
  <2> QED BY <2>1, FromGeneralFacts
<1>18. CASE i.op = "XVPICKVE2GR_W"
  BY <1>18, WidePick, WritesCases, TameFacts
<1>19. CASE i.op \in {"XVMSKNZ_B", "XVPICKVE_W", "XVSETANYEQZ_B", "XVSETEQZ_V"}
  <2>1. Tame(WideTests(i))
    BY <1>19, WideTestFacts
  <2>2. Writes(i) = WideTests(i)
    BY <1>19, WritesCases
  <2>3. Tame(Writes(i))
    BY <2>1, <2>2
  <2> QED BY <2>3, TameFacts
<1>20. CASE i.op \in WideShuffleOps
  BY <1>20, WideShuffleFacts, WritesCases
<1>21. i.op \notin {"VHADDW_D_W", "XVHADDW_D_W", "XVHADDW_Q_D", "VSHUF_B", "XVPERMI_Q", "XVREPLVE_D", "XVPERMI_D"}
  BY DEF Buffered
<1> QED BY <1>1, <1>2, <1>3, <1>4, <1>5, <1>6, <1>7, <1>8, <1>9, <1>10, <1>11, <1>12, <1>13, <1>14, <1>15, <1>16, <1>17,
           <1>18, <1>19, <1>20, <1>21 DEF NarrowOps, WideOps, MemoryOps

---------------------------------------------------------------------------
(* The states of the specification.                                        *)

Formed(i) == i = [op |-> i.op, d |-> i.d, j |-> i.j, k |-> i.k, a |-> i.a, imm |-> i.imm, rd |-> i.rd, at |-> i.at]
Instructed(i) == i.op \in Ops /\ Named(i) /\ i.imm \in Imms(i.op) /\ Formed(i)

Executed ==
  /\ start \in Starts
  /\ \/ /\ last = NoInstruction
        /\ engine = [e \in Engines |-> start]
     \/ /\ Instructed(last)
        /\ engine = [e \in Engines |-> Run(e, start, last)]

LEMMA RunningMachine ==
  ASSUME NEW m, Running(m)
  PROVE  Machine(m) /\ m.trap = "none"
<1>1. m.trap = "none"
  BY DEF Running
<1> QED BY <1>1 DEF Running, Machine

LEMMA VariantFacts ==
  ASSUME NEW op \in Ops, NEW i \in Variants(op)
  PROVE  Instructed(i)
<1> DEFINE Rds  == IF op \in Transfers \cup DOMAIN Picks \cup {"XVPICKVE2GR_W"} THEN {0, 1} ELSE {1}
           Ats  == IF op \in DOMAIN Memory THEN Regions ELSE {"data"}
<1>0. \E o \in Operands, imm \in Imms(op), rd \in Rds, at \in Ats : i = Instruction(op, o, imm, rd, at)
  <2>1. Variants(op) = {Instruction(op, o, imm, rd, at) : o \in Operands, imm \in Imms(op), rd \in Rds, at \in Ats}
    BY DEF Variants
  <2> HIDE DEF Rds, Ats
  <2>2. \A x \in {Instruction(op, o, imm, rd, at) : o \in Operands, imm \in Imms(op), rd \in Rds, at \in Ats} :
          \E o \in Operands, imm \in Imms(op), rd \in Rds, at \in Ats : x = Instruction(op, o, imm, rd, at)
    OBVIOUS
  <2> QED BY <2>1, <2>2
<1>1. PICK o \in Operands, imm \in Imms(op), rd \in Rds, at \in Ats : i = Instruction(op, o, imm, rd, at)
  BY <1>0
<1>2. o \in [d : VRegs, j : VRegs, k : VRegs, a : VRegs]
  BY InstructionsAssumption
<1>3. i.op = op /\ i.d = o.d /\ i.j = o.j /\ i.k = o.k /\ i.a = o.a /\ i.imm = imm
  BY <1>1 DEF Instruction
<1>4. Formed(i)
  BY <1>1 DEF Instruction, Formed
<1> QED BY <1>2, <1>3, <1>4 DEF Instructed, Named

LEMMA OpsNamed == "none" \notin Ops
<1>1. "none" \notin NarrowOps \cup WideOps
  BY DEF NarrowOps, WideOps, LsxOps, LasxOps, ScalarOps, FloatMemoryOps, VectorMemoryOps, WideMemoryOps, Transfers, CompareOps,
         ConversionOps, TestOps, PickOps, InterleaveOps, ReplicateOps, InsertOps, WideShuffleOps
<1> QED BY <1>1, OpsAre DEF Raising

LEMMA RanInstructed == Executed /\ Ran => Instructed(last) /\ engine = [e \in Engines |-> Run(e, start, last)]
  BY DEF Executed, Ran

\* The inductive invariant: each engine is where it started, or where its own
\* code leaves it after the one instruction all three met.
THEOREM EnginesRan == Spec => []Executed
<1>1. Init => Executed
  BY DEF Init, Executed
<1>2. Executed /\ [Next]_vars => Executed'
  <2> SUFFICES ASSUME Executed, [Next]_vars PROVE Executed'
    OBVIOUS
  <2>1. CASE Next
    <3>0. PICK op \in Ops : \E i \in Variants(op) : Execute(i)
      BY <2>1 DEF Next
    <3>1. PICK i \in Variants(op) : Execute(i)
      BY <3>0
    <3>2. Instructed(i)
      BY <3>1, VariantFacts
    <3>3. ~ Instructed(NoInstruction)
      BY OpsNamed DEF Instructed, NoInstruction, Instruction
    <3>4. start' = start /\ last' = i /\ engine' = [e \in Engines |-> Run(e, engine[e], i)] /\ last = NoInstruction
      BY <3>1 DEF Execute
    <3>5. \A e \in Engines : engine[e] = start
      BY <3>3, <3>4 DEF Executed
    <3>6. engine' = [e \in Engines |-> Run(e, start, i)]
      BY <3>4, <3>5
    <3> QED BY <3>2, <3>4, <3>6 DEF Executed
  <2>2. CASE UNCHANGED vars
    BY <2>2 DEF vars, Executed
  <2> QED BY <2>1, <2>2
<1> QED BY <1>1, <1>2, PTL DEF Spec

---------------------------------------------------------------------------
(* Handlers.                                                               *)

LEMMA TrapFacts ==
  ASSUME NEW m, Machine(m), NEW t
  PROVE  Machine(Trap(m, t)) /\ Trap(m, t).trap = t /\ Trap(m, t).bytes = m.bytes
<1>1. Trap(m, t) = [bytes |-> m.bytes, trap |-> t]
  <2> DEFINE B == [p \in Places |-> [n \in 0 .. 31 |-> m.bytes[p][n]]]
  <2>1. m = [bytes |-> B, trap |-> m.trap] /\ m.bytes = B
    BY DEF Machine
  <2> HIDE DEF B
  <2> QED BY <2>1 DEF Trap
<1>2. m.bytes = [p \in Places |-> [n \in 0 .. 31 |-> m.bytes[p][n]]]
  BY DEF Machine
<1>3. Trap(m, t).bytes = m.bytes /\ Trap(m, t).trap = t
  BY <1>1
<1>4. Machine(Trap(m, t))
  <2> DEFINE g == Trap(m, t)
  <2>1. g = [bytes |-> m.bytes, trap |-> t] /\ g.bytes = m.bytes /\ g.trap = t
    BY <1>1, <1>3
  <2> HIDE DEF g
  <2>2. g.bytes = [p \in Places |-> [n \in 0 .. 31 |-> g.bytes[p][n]]]
    BY <1>2, <2>1
  <2>3. g = [bytes |-> g.bytes, trap |-> g.trap]
    BY <2>1
  <2>4. Machine(g)
    BY <2>2, <2>3 DEF Machine
  <2> QED BY <2>4 DEF g
<1> QED BY <1>3, <1>4

LEMMA RefusedMemory == \A i : i.op \in Raising \/ Illegal(i) => i.op \notin DOMAIN Memory
  BY MemoryDomain, OtherDomains
  DEF Raising, Illegal, MemoryOps, FloatMemoryOps, VectorMemoryOps, WideMemoryOps, CompareOps

LEMMA HandleCases ==
  ASSUME NEW m, NEW i
  PROVE  /\ i.op \in Raising \/ Illegal(i) => Handle(m, i) = Trap(m, "illegal")
         /\ i.op \in DOMAIN Memory /\ Refused(i) => Handle(m, i) = Trap(m, "fault")
         /\ ~ (i.op \in Raising \/ Illegal(i)) /\ ~ (i.op \in DOMAIN Memory /\ Refused(i))
              => Handle(m, i) = Steps(m, i, Writes(i), i.op \in Buffered)
<1>1. ASSUME i.op \in Raising \/ Illegal(i) PROVE Handle(m, i) = Trap(m, "illegal")
  BY <1>1, RefusedMemory DEF Handle
<1>2. ASSUME i.op \in DOMAIN Memory /\ Refused(i) PROVE Handle(m, i) = Trap(m, "fault")
  BY <1>2, RefusedMemory DEF Handle
<1>3. ASSUME ~ (i.op \in Raising \/ Illegal(i)), ~ (i.op \in DOMAIN Memory /\ Refused(i))
      PROVE  Handle(m, i) = Steps(m, i, Writes(i), i.op \in Buffered)
  <2>1. Handle(m, i) = IF i.op \in Buffered THEN Simultaneous(m, i, Writes(i)) ELSE InPlace(m, i, Writes(i))
    BY <1>3 DEF Handle
  <2>2. CASE i.op \in Buffered
    <3>1. (i.op \in Buffered) = TRUE
      BY <2>2
    <3> QED BY <2>1, <3>1 DEF Simultaneous
  <2>3. CASE i.op \notin Buffered
    <3>1. (i.op \in Buffered) = FALSE
      BY <2>3
    <3> QED BY <2>1, <3>1 DEF InPlace
  <2> QED BY <2>2, <2>3
<1> QED BY <1>1, <1>2, <1>3

---------------------------------------------------------------------------
(* Aliases.                                                                *)

LEMMA SelfCopySettled ==
  ASSUME NEW m, Machine(m), NEW i, Named(i), SelfCopy(i)
  PROVE  Writes(i) \in Seq(Write) /\ Settled(m, i, Writes(i))
<1> DEFINE d0 == <<"d", 8, 0>>
           j0 == <<"j", 8, 0>>
           two == Moves(8, <<<<"j", i.imm>>, <<"j", i.imm>>>>)
           ws == two \o ClearHigh
<1>1. i.imm \in 0 .. 1 /\ i.op = "VREPLVEI_D" /\ i.imm = 0 /\ i.d = i.j
  BY DEF SelfCopy
<1>2. Writes(i) = ws /\ two \in Seq(Write) /\ ws \in Seq(Write)
  <2>1. Writes(i) = ReplicateElement(i)
    BY <1>1, WritesCases
  <2>2. ReplicateElement(i) = ws /\ two \in Seq(Write)
    BY <1>1, ReplicateElementFacts
  <2> QED BY <2>1, <2>2, ClearHighFacts, ConcatFacts
<1>3. d0 \in Elem /\ j0 \in Elem
  BY ElemList DEF Roles4, Widths
<1>4. two = [n \in 1 .. 2 |-> Copy(<<"d", 8, n - 1>>, j0)]
  <2>1. DOMAIN <<<<"j", i.imm>>, <<"j", i.imm>>>> = 1 .. 2
    OBVIOUS
  <2>2. \A n \in 1 .. 2 : <<<<"j", i.imm>>, <<"j", i.imm>>>>[n] = <<"j", 0>>
    BY <1>1
  <2> QED BY <2>1, <2>2 DEF Moves
<1> HIDE DEF two
<1>5. Len(two) = 2 /\ two[1] = Copy(d0, j0)
  <2>1. DOMAIN two = 1 .. 2 /\ two[1] = Copy(<<"d", 8, 1 - 1>>, j0)
    BY <1>4
  <2>2. DOMAIN two = 1 .. Len(two) /\ Len(two) \in Nat
    BY <1>2
  <2> QED BY <2>1, <2>2
<1>6. ws[1] = Copy(d0, j0)
  BY <1>2, <1>5, ClearHighFacts, ConcatFacts
<1>7. \A y \in 3 .. Len(ws) : ws[y].from = <<>>
  <2>1. two \in Seq(Write) /\ ClearHigh \in Seq(Write)
    BY <1>2, ClearHighFacts
  <2>2. /\ Len(ws) = Len(two) + Len(ClearHigh)
        /\ \A y \in Len(two) + 1 .. Len(two) + Len(ClearHigh) :
             y - Len(two) \in 1 .. Len(ClearHigh) /\ ws[y] = ClearHigh[y - Len(two)]
    BY <2>1, ConcatFacts
  <2> HIDE DEF ws
  <2> QED BY <1>5, <2>2, ClearHighFacts DEF NoSources
<1>8. Idle(m, i, ws[1])
  <2> DEFINE v == Element(m, i, j0)
             g == Put(m, i, d0, v)
  <2>1. Result(m, i, Copy(d0, j0)) = v
    BY DEF Result, Copy
  <2>2. Copy(d0, j0).to = d0
    BY DEF Copy
  <2>3. Place(i, "d") = i.d /\ Place(i, "j") = i.d
    BY <1>1 DEF Place
  <2>4. v = [n \in 1 .. 8 |-> m.bytes[i.d][n - 1]]
    BY <2>3 DEF Element
  <2>5. Machine(g) /\ g.trap = m.trap
    BY <1>3, PutFacts
  <2>6. \A p \in Places : \A n \in 0 .. 31 : g.bytes[p][n] = m.bytes[p][n]
    <3> SUFFICES ASSUME NEW p \in Places, NEW n \in 0 .. 31 PROVE g.bytes[p][n] = m.bytes[p][n]
      OBVIOUS
    <3>1. g.bytes[p][n] = IF Covers(i, d0, p, n) THEN v[n - First(d0) + 1] ELSE m.bytes[p][n]
      BY <1>3, PutFacts
    <3>2. First(d0) = 0
      BY DEF First
    <3>3. CASE Covers(i, d0, p, n)
      <4>1. p = i.d /\ n \in 0 .. 7
        BY <2>3, <3>2, <3>3 DEF Covers
      <4> HIDE DEF v
      <4>2. v[n + 1] = m.bytes[i.d][n]
        BY <2>4, <4>1
      <4> QED BY <3>1, <3>2, <3>3, <4>1, <4>2
    <3>4. CASE ~ Covers(i, d0, p, n)
      BY <3>1, <3>4
    <3> QED BY <3>3, <3>4
  <2> HIDE DEF v
  <2>7. g = m
    <3> HIDE DEF g
    <3> QED BY <2>5, <2>6, MachinesEqual
  <2> QED BY <1>6, <2>1, <2>2, <2>7 DEF Idle
<1> HIDE DEF ws
<1>9. ASSUME NEW x \in 1 .. Len(ws), NEW y \in 1 .. Len(ws), x < y, x # 1
      PROVE  \A z \in DOMAIN ws[y].from : Apart(i, ws[x].to, ws[y].from[z])
  <2>1. y \in 3 .. Len(ws)
    BY <1>9
  <2>2. ws[y].from = <<>>
    BY <1>7, <2>1
  <2> QED BY <2>2
<1> QED BY <1>2, <1>8, <1>9 DEF Settled

\* The order of the reads and writes of a handler does not show.
LEMMA HandleReadsFirst ==
  ASSUME NEW m, Machine(m), NEW i, Instructed(i), i.op \notin Raising, ~ Illegal(i), ~ Torn(i), NEW locals \in BOOLEAN,
         i.op \in Buffered => locals
  PROVE  Steps(m, i, Writes(i), locals) = Simultaneous(m, i, Writes(i))
<1>1. CASE locals = TRUE
  BY <1>1 DEF Simultaneous
<1>2. CASE locals = FALSE
  <2>1. i.op \in NarrowOps \cup WideOps /\ i.op \notin Buffered /\ Named(i) /\ i.imm \in Imms(i.op)
    BY <1>2, OpsAre DEF Instructed
  <2>2. Writes(i) \in Seq(Write) /\ Settled(m, i, Writes(i))
    <3>1. CASE SelfCopy(i)
      BY <2>1, <3>1, SelfCopySettled
    <3>2. CASE ~ SelfCopy(i)
      BY <2>1, <3>2, UnreadWrites, UnreadSettled
    <3> QED BY <3>1, <3>2
  <2>3. InPlace(m, i, Writes(i)) = Simultaneous(m, i, Writes(i))
    BY <2>1, <2>2, WritesValid, BufferNeedless
  <2> QED BY <1>2, <2>3 DEF InPlace
<1> QED BY <1>1, <1>2

\* Whatever registers coincide, a handler that writes dst.du[i] before it reads
\* the next element of a source leaves what it would if it had read all of them
\* first, but for the shuffles of Torn.
THEOREM AliasesHarmless == Spec => []AliasingHarmless
<1>1. Executed => AliasingHarmless
  <2> SUFFICES ASSUME Executed, Ran, ~ Torn(last), engine["handler"].trap = "none"
               PROVE  engine["handler"] = Simultaneous(start, last, Writes(last))
    BY DEF AliasingHarmless, SourcesReadFirst
  <2>1. Machine(start) /\ Instructed(last)
    BY RanInstructed, RunningMachine, InstructionsAssumption DEF Executed
  <2>2. engine["handler"] = Handle(start, last)
    BY RanInstructed DEF Engines, Run
  <2>3. Handle(start, last) # Trap(start, "illegal") /\ Handle(start, last) # Trap(start, "fault")
    <3>1. Trap(start, "illegal").trap = "illegal" /\ Trap(start, "fault").trap = "fault"
      BY <2>1, TrapFacts
    <3> QED BY <2>2, <3>1
  <2>4. /\ last.op \notin Raising /\ ~ Illegal(last)
        /\ Handle(start, last) = Steps(start, last, Writes(last), last.op \in Buffered)
    BY <2>3, HandleCases
  <2>5. (last.op \in Buffered) \in BOOLEAN
    OBVIOUS
  <2>6. Steps(start, last, Writes(last), last.op \in Buffered) = Simultaneous(start, last, Writes(last))
    BY <2>1, <2>4, <2>5, HandleReadsFirst
  <2> QED BY <2>2, <2>4, <2>6
<1> QED BY <1>1, EnginesRan, PTL

---------------------------------------------------------------------------
(* What the rows of the tables compute, whatever their size.               *)

KernelRow(w, f, roles) == [w |-> w, f |-> f, roles |-> roles]

Kernel(op) ==
  CASE op \in {"XVADD_D", "VADD_D"} -> KernelRow(8, "add", JK)
    [] op \in {"XVBITSEL_V", "VBITSEL_V"} -> KernelRow(8, "bitsel", JKA)
    [] op \in {"XVXOR_V", "VXOR_V"} -> KernelRow(8, "xor", JK)
    [] op \in {"XVSUB_W", "VSUB_W"} -> KernelRow(4, "sub", JK)
    [] op \in {"XVMIN_BU", "VMIN_BU"} -> KernelRow(1, "minu", JK)
    [] op \in {"XVMAX_BU", "VMAX_BU"} -> KernelRow(1, "maxu", JK)
    [] op \in {"XVSEQ_B", "VSEQ_B"} -> KernelRow(1, "seq", JK)
    [] op \in {"XVFADD_D", "VFADD_D", "FADD_D"} -> KernelRow(8, "+", JK)
    [] op \in {"XVFMUL_D", "VFMUL_D", "FMUL_D"} -> KernelRow(8, "*", JK)
    [] op \in {"XVFDIV_D", "VFDIV_D", "FDIV_D"} -> KernelRow(8, "/", JK)
    [] op \in {"XVFSUB_D", "FSUB_D"} -> KernelRow(8, "-", JK)
    [] op \in {"XVBITREVI_D", "VBITREVI_D"} -> KernelRow(8, "bitrevi", J)
    [] op \in {"XVFMADD_D", "VFMADD_D", "FMADD_D"} -> KernelRow(8, "a+jk", JKA)
    [] op \in {"XVFMADD_S", "FMADD_S"} -> KernelRow(4, "a+jk", JKA)
    [] op \in {"XVFNMADD_D", "VFNMADD_D", "FNMSUB_D"} -> KernelRow(8, "a-jk", JKA)
    [] op \in {"FNMSUB_S"} -> KernelRow(4, "a-jk", JKA)
    [] op \in {"XVORI_B", "VORI_B"} -> KernelRow(1, "ori", J)
    [] op \in {"VFMUL_S", "FMUL_S"} -> KernelRow(4, "*", JK)
    [] op \in {"VFTINTRZ_W_S"} -> KernelRow(4, "truncate", J)
    [] op \in {"VFTINTRZ_L_D"} -> KernelRow(8, "truncate", J)
    [] op \in {"FADD_S"} -> KernelRow(4, "+", JK)
    [] op \in {"FSUB_S"} -> KernelRow(4, "-", JK)
    [] op \in {"FDIV_S"} -> KernelRow(4, "/", JK)
    [] op \in {"FMAX_D"} -> KernelRow(8, "fmax", JK)
    [] op \in {"FMIN_D"} -> KernelRow(8, "fmin", JK)
    [] op \in {"FMAX_S"} -> KernelRow(4, "fmax", JK)
    [] op \in {"FMIN_S"} -> KernelRow(4, "fmin", JK)
    [] op \in {"FNEG_D"} -> KernelRow(8, "neg", J)
    [] op \in {"FMOV_D"} -> KernelRow(8, "copy", J)
    [] op \in {"FMOV_S"} -> KernelRow(4, "copy", J)
    [] op \in {"FMSUB_D"} -> KernelRow(8, "jk-a", JKA)
    [] op \in {"FMSUB_S"} -> KernelRow(4, "jk-a", JKA)
    [] op \in {"FNMADD_D"} -> KernelRow(8, "-(a+jk)", JKA)
    [] op \in {"FNMADD_S"} -> KernelRow(4, "-(a+jk)", JKA)

KernelOps == {"XVADD_D", "VADD_D", "XVBITSEL_V", "VBITSEL_V", "XVXOR_V", "VXOR_V", "XVSUB_W", "VSUB_W",
               "XVMIN_BU", "VMIN_BU", "XVMAX_BU", "VMAX_BU", "XVSEQ_B", "VSEQ_B", "XVFADD_D", "VFADD_D",
               "FADD_D", "XVFMUL_D", "VFMUL_D", "FMUL_D", "XVFDIV_D", "VFDIV_D", "FDIV_D", "XVFSUB_D",
               "FSUB_D", "XVBITREVI_D", "VBITREVI_D", "XVFMADD_D", "VFMADD_D", "FMADD_D", "XVFMADD_S",
               "FMADD_S", "XVFNMADD_D", "VFNMADD_D", "FNMSUB_D", "FNMSUB_S", "XVORI_B", "VORI_B", "VFMUL_S",
               "FMUL_S", "VFTINTRZ_W_S", "VFTINTRZ_L_D", "FADD_S", "FSUB_S", "FDIV_S", "FMAX_D", "FMIN_D",
               "FMAX_S", "FMIN_S", "FNEG_D", "FMOV_D", "FMOV_S", "FMSUB_D", "FMSUB_S", "FNMADD_D", "FNMADD_S"}

LEMMA KernelIs ==
  /\ Kernel("XVADD_D") = KernelRow(8, "add", JK) /\ Kernel("VADD_D") = KernelRow(8, "add", JK)
  /\ Kernel("XVBITSEL_V") = KernelRow(8, "bitsel", JKA) /\ Kernel("VBITSEL_V") = KernelRow(8, "bitsel", JKA)
  /\ Kernel("XVXOR_V") = KernelRow(8, "xor", JK) /\ Kernel("VXOR_V") = KernelRow(8, "xor", JK)
  /\ Kernel("XVSUB_W") = KernelRow(4, "sub", JK) /\ Kernel("VSUB_W") = KernelRow(4, "sub", JK)
  /\ Kernel("XVMIN_BU") = KernelRow(1, "minu", JK) /\ Kernel("VMIN_BU") = KernelRow(1, "minu", JK)
  /\ Kernel("XVMAX_BU") = KernelRow(1, "maxu", JK) /\ Kernel("VMAX_BU") = KernelRow(1, "maxu", JK)
  /\ Kernel("XVSEQ_B") = KernelRow(1, "seq", JK) /\ Kernel("VSEQ_B") = KernelRow(1, "seq", JK)
  /\ Kernel("XVFADD_D") = KernelRow(8, "+", JK) /\ Kernel("VFADD_D") = KernelRow(8, "+", JK) /\ Kernel("FADD_D") = KernelRow(8, "+", JK)
  /\ Kernel("XVFMUL_D") = KernelRow(8, "*", JK) /\ Kernel("VFMUL_D") = KernelRow(8, "*", JK) /\ Kernel("FMUL_D") = KernelRow(8, "*", JK)
  /\ Kernel("XVFDIV_D") = KernelRow(8, "/", JK) /\ Kernel("VFDIV_D") = KernelRow(8, "/", JK) /\ Kernel("FDIV_D") = KernelRow(8, "/", JK)
  /\ Kernel("XVFSUB_D") = KernelRow(8, "-", JK) /\ Kernel("FSUB_D") = KernelRow(8, "-", JK)
  /\ Kernel("XVBITREVI_D") = KernelRow(8, "bitrevi", J) /\ Kernel("VBITREVI_D") = KernelRow(8, "bitrevi", J)
  /\ Kernel("XVFMADD_D") = KernelRow(8, "a+jk", JKA) /\ Kernel("VFMADD_D") = KernelRow(8, "a+jk", JKA) /\ Kernel("FMADD_D") = KernelRow(8, "a+jk", JKA)
  /\ Kernel("XVFMADD_S") = KernelRow(4, "a+jk", JKA) /\ Kernel("FMADD_S") = KernelRow(4, "a+jk", JKA)
  /\ Kernel("XVFNMADD_D") = KernelRow(8, "a-jk", JKA) /\ Kernel("VFNMADD_D") = KernelRow(8, "a-jk", JKA) /\ Kernel("FNMSUB_D") = KernelRow(8, "a-jk", JKA)
  /\ Kernel("FNMSUB_S") = KernelRow(4, "a-jk", JKA)
  /\ Kernel("XVORI_B") = KernelRow(1, "ori", J) /\ Kernel("VORI_B") = KernelRow(1, "ori", J)
  /\ Kernel("VFMUL_S") = KernelRow(4, "*", JK) /\ Kernel("FMUL_S") = KernelRow(4, "*", JK)
  /\ Kernel("VFTINTRZ_W_S") = KernelRow(4, "truncate", J)
  /\ Kernel("VFTINTRZ_L_D") = KernelRow(8, "truncate", J)
  /\ Kernel("FADD_S") = KernelRow(4, "+", JK)
  /\ Kernel("FSUB_S") = KernelRow(4, "-", JK)
  /\ Kernel("FDIV_S") = KernelRow(4, "/", JK)
  /\ Kernel("FMAX_D") = KernelRow(8, "fmax", JK)
  /\ Kernel("FMIN_D") = KernelRow(8, "fmin", JK)
  /\ Kernel("FMAX_S") = KernelRow(4, "fmax", JK)
  /\ Kernel("FMIN_S") = KernelRow(4, "fmin", JK)
  /\ Kernel("FNEG_D") = KernelRow(8, "neg", J)
  /\ Kernel("FMOV_D") = KernelRow(8, "copy", J)
  /\ Kernel("FMOV_S") = KernelRow(4, "copy", J)
  /\ Kernel("FMSUB_D") = KernelRow(8, "jk-a", JKA)
  /\ Kernel("FMSUB_S") = KernelRow(4, "jk-a", JKA)
  /\ Kernel("FNMADD_D") = KernelRow(8, "-(a+jk)", JKA)
  /\ Kernel("FNMADD_S") = KernelRow(4, "-(a+jk)", JKA)
  BY DEF Kernel

NoKernelOps == {"VSUB_B", "VSUB_H", "VSUB_D", "VMUL_B", "VMUL_H", "VMUL_W", "VMUL_D", "VMADD_B", "VMADD_H",
                 "VMADD_W", "VMADD_D", "VADDI_HU", "VADDI_WU", "VADDI_DU", "VSLT_B", "VSLT_H", "VSLT_W",
                 "VSLT_D", "VNOR_V", "VORN_V", "VAND_V", "VSLLI_B", "VSLLI_H", "VSLLI_W", "VSLLI_D", "VPCNT_B",
                 "VPCNT_H", "VPCNT_W", "VPCNT_D", "VOR_V", "VSEQI_B", "VSEQI_H", "VSEQI_W", "VSEQI_D",
                 "VADD_B", "VADD_H", "VADD_W", "VADDI_BU", "VMAX_B", "VMAX_H", "VMAX_W", "VMAX_D", "VMAX_HU",
                 "VMAX_WU", "VMAX_DU", "VMIN_B", "VMIN_H", "VMIN_W", "VMIN_D", "VMIN_HU", "VMIN_WU", "VMIN_DU",
                 "XVFMSUB_S", "XVFNMADD_S", "XVFMSUB_D", "XVFNMSUB_S", "XVFNMSUB_D", "XVXORI_B", "FABS_D",
                 "FCLASS_S", "FCLASS_D", "FABS_S"}

LEMMA NoKernel == NoKernelOps \cap KernelOps = {}
  BY DEF NoKernelOps, KernelOps

LEMMA NoKernelList ==
  /\ "VSUB_B" \in NoKernelOps /\ "VSUB_H" \in NoKernelOps /\ "VSUB_D" \in NoKernelOps
  /\ "VMUL_B" \in NoKernelOps /\ "VMUL_H" \in NoKernelOps /\ "VMUL_W" \in NoKernelOps
  /\ "VMUL_D" \in NoKernelOps /\ "VMADD_B" \in NoKernelOps /\ "VMADD_H" \in NoKernelOps
  /\ "VMADD_W" \in NoKernelOps /\ "VMADD_D" \in NoKernelOps /\ "VADDI_HU" \in NoKernelOps
  /\ "VADDI_WU" \in NoKernelOps /\ "VADDI_DU" \in NoKernelOps /\ "VSLT_B" \in NoKernelOps
  /\ "VSLT_H" \in NoKernelOps /\ "VSLT_W" \in NoKernelOps /\ "VSLT_D" \in NoKernelOps
  /\ "VNOR_V" \in NoKernelOps /\ "VORN_V" \in NoKernelOps /\ "VAND_V" \in NoKernelOps
  /\ "VSLLI_B" \in NoKernelOps /\ "VSLLI_H" \in NoKernelOps /\ "VSLLI_W" \in NoKernelOps
  /\ "VSLLI_D" \in NoKernelOps /\ "VPCNT_B" \in NoKernelOps /\ "VPCNT_H" \in NoKernelOps
  /\ "VPCNT_W" \in NoKernelOps /\ "VPCNT_D" \in NoKernelOps /\ "VOR_V" \in NoKernelOps
  /\ "VSEQI_B" \in NoKernelOps /\ "VSEQI_H" \in NoKernelOps /\ "VSEQI_W" \in NoKernelOps
  /\ "VSEQI_D" \in NoKernelOps /\ "VADD_B" \in NoKernelOps /\ "VADD_H" \in NoKernelOps
  /\ "VADD_W" \in NoKernelOps /\ "VADDI_BU" \in NoKernelOps /\ "VMAX_B" \in NoKernelOps
  /\ "VMAX_H" \in NoKernelOps /\ "VMAX_W" \in NoKernelOps /\ "VMAX_D" \in NoKernelOps
  /\ "VMAX_HU" \in NoKernelOps /\ "VMAX_WU" \in NoKernelOps /\ "VMAX_DU" \in NoKernelOps
  /\ "VMIN_B" \in NoKernelOps /\ "VMIN_H" \in NoKernelOps /\ "VMIN_W" \in NoKernelOps
  /\ "VMIN_D" \in NoKernelOps /\ "VMIN_HU" \in NoKernelOps /\ "VMIN_WU" \in NoKernelOps
  /\ "VMIN_DU" \in NoKernelOps /\ "XVFMSUB_S" \in NoKernelOps /\ "XVFNMADD_S" \in NoKernelOps
  /\ "XVFMSUB_D" \in NoKernelOps /\ "XVFNMSUB_S" \in NoKernelOps /\ "XVFNMSUB_D" \in NoKernelOps
  /\ "XVXORI_B" \in NoKernelOps /\ "FABS_D" \in NoKernelOps /\ "FCLASS_S" \in NoKernelOps
  /\ "FCLASS_D" \in NoKernelOps /\ "FABS_S" \in NoKernelOps
  BY DEF NoKernelOps

Known(t) == \A op \in DOMAIN t \cap KernelOps : KernelRow(t[op].w, t[op].f, t[op].roles) = Kernel(op)
Agrees(op, w, f, roles) == op \in KernelOps => KernelRow(w, f, roles) = Kernel(op)

LEMMA PlusKnown ==
  ASSUME NEW f, NEW g, Known(f), Known(g)
  PROVE  Known(f ++ g)
<1> SUFFICES ASSUME NEW op \in DOMAIN (f ++ g) \cap KernelOps
             PROVE  KernelRow((f ++ g)[op].w, (f ++ g)[op].f, (f ++ g)[op].roles) = Kernel(op)
  BY DEF Known
<1>1. op \in DOMAIN f \cup DOMAIN g
  BY PlusFacts
<1>2. CASE op \in DOMAIN f
  <2>1. (f ++ g)[op] = f[op]
    BY <1>2, PlusFacts
  <2> QED BY <1>2, <2>1 DEF Known
<1>3. CASE op \in DOMAIN g \ DOMAIN f
  <2>1. (f ++ g)[op] = g[op]
    BY <1>3, PlusRight
  <2> QED BY <1>3, <2>1 DEF Known
<1> QED BY <1>1, <1>2, <1>3

LEMMA RowsKnown ==
  ASSUME NEW size, NEW w, NEW f, NEW roles, NEW ops, \A op \in ops : Agrees(op, w, f, roles)
  PROVE  Known(Rows(size, w, f, roles, ops))
<1> DEFINE t == Rows(size, w, f, roles, ops)
<1>1. \A x \in DOMAIN t : x \in ops /\ t[x].w = w /\ t[x].f = f /\ t[x].roles = roles
  BY DEF Rows
<1> HIDE DEF t
<1>2. Known(t)
  BY <1>1 DEF Known, Agrees
<1> QED BY <1>2 DEF t

LEMMA RowKnown ==
  ASSUME NEW size, NEW w, NEW f, NEW roles, NEW op, Agrees(op, w, f, roles)
  PROVE  Known(Row(size, w, f, roles, op))
  BY RowsKnown DEF Row

LEMMA SingleKnown ==
  ASSUME NEW f, NEW roles, NEW op
  PROVE  /\ Agrees(op, 4, f, roles) => Known(Single(f, roles, {op}))
         /\ Agrees(op, 8, f, roles) => Known(Double(f, roles, {op}))
  BY RowsKnown DEF Single, Double

LEMMA BHWDKnown ==
  ASSUME NEW f, NEW roles, NEW a, NEW b, NEW c, NEW d,
         Agrees(a, 1, f, roles), Agrees(b, 2, f, roles), Agrees(c, 4, f, roles), Agrees(d, 8, f, roles)
  PROVE  Known(BHWD(f, roles, <<a, b, c, d>>))
<1>1. /\ Known(Row(16, 1, f, roles, a)) /\ Known(Row(16, 2, f, roles, b))
      /\ Known(Row(16, 4, f, roles, c)) /\ Known(Row(16, 8, f, roles, d))
  BY RowKnown
<1>2. BHWD(f, roles, <<a, b, c, d>>) = Row(16, 1, f, roles, a) ++ Row(16, 2, f, roles, b)
                                       ++ Row(16, 4, f, roles, c) ++ Row(16, 8, f, roles, d)
  BY DEF BHWD
<1> QED BY <1>1, <1>2, PlusKnown

LEMMA KernelAgrees == \A op, w, f, roles : op \in NoKernelOps \/ Kernel(op) = KernelRow(w, f, roles) => Agrees(op, w, f, roles)
  BY NoKernel DEF Agrees

LEMMA LsxKnown == Known(Lsx)
<1>1. Known(SubMul)
  BY KernelIs, NoKernelList, KernelAgrees, RowKnown, BHWDKnown, PlusKnown DEF SubMul
<1>2. Known(MaddAddi)
  BY KernelIs, NoKernelList, KernelAgrees, RowKnown, BHWDKnown, PlusKnown DEF MaddAddi
<1>3. Known(Compare)
  BY KernelIs, NoKernelList, KernelAgrees, RowKnown, BHWDKnown, PlusKnown DEF Compare
<1>4. Known(Bitwise)
  BY KernelIs, NoKernelList, KernelAgrees, RowKnown, BHWDKnown, PlusKnown DEF Bitwise
<1>5. Known(ShiftCount)
  BY KernelIs, NoKernelList, KernelAgrees, RowKnown, BHWDKnown, PlusKnown DEF ShiftCount
<1>6. Known(Floats)
  <2>1. /\ Known(Row(16, 8, "+", JK, "VFADD_D"))
        /\ Known(Row(16, 8, "/", JK, "VFDIV_D"))
        /\ Known(Row(16, 4, "*", JK, "VFMUL_S"))
        /\ Known(Row(16, 8, "*", JK, "VFMUL_D"))
        /\ Known(Row(16, 4, "truncate", J, "VFTINTRZ_W_S"))
        /\ Known(Row(16, 8, "truncate", J, "VFTINTRZ_L_D"))
        /\ Known(Row(16, 8, "a+jk", JKA, "VFMADD_D"))
        /\ Known(Row(16, 8, "a-jk", JKA, "VFNMADD_D"))
        /\ Known(Row(16, 8, "or", JK, "VOR_V"))
        /\ Known(Row(16, 8, "xor", JK, "VXOR_V"))
        /\ Known(Row(16, 1, "ori", J, "VORI_B"))
    BY KernelIs, NoKernelList, KernelAgrees, RowKnown
  <2> QED BY <2>1, PlusKnown DEF Floats
<1>7. Known(EqualImm)
  BY KernelIs, NoKernelList, KernelAgrees, RowKnown, BHWDKnown, PlusKnown DEF EqualImm
<1>8. Known(Add)
  BY KernelIs, NoKernelList, KernelAgrees, RowKnown, BHWDKnown, PlusKnown DEF Add
<1>9. Known(Select)
  BY KernelIs, NoKernelList, KernelAgrees, RowKnown, BHWDKnown, PlusKnown DEF Select
<1>10. Known(Maximum)
  BY KernelIs, NoKernelList, KernelAgrees, RowKnown, BHWDKnown, PlusKnown DEF Maximum
<1>11. Known(Minimum)
  BY KernelIs, NoKernelList, KernelAgrees, RowKnown, BHWDKnown, PlusKnown DEF Minimum
<1> QED BY <1>1, <1>2, <1>3, <1>4, <1>5, <1>6, <1>7, <1>8, <1>9, <1>10, <1>11, PlusKnown DEF Lsx

LEMMA LasxKnown == Known(Lasx)
<1>1. Known(WideSelect)
  BY KernelIs, NoKernelList, KernelAgrees, RowKnown, PlusKnown DEF WideSelect
<1>2. Known(WideByteOps)
  BY KernelIs, NoKernelList, KernelAgrees, RowKnown, PlusKnown DEF WideByteOps
<1>3. Known(WideFloats)
  BY KernelIs, NoKernelList, KernelAgrees, RowKnown, PlusKnown DEF WideFloats
<1>4. Known(WideFused)
  <2>1. /\ Known(Row(32, 4, "a+jk", JKA, "XVFMADD_S")) /\ Known(Row(32, 8, "a+jk", JKA, "XVFMADD_D"))
        /\ Known(Row(32, 4, "-(a+jk)", JKA, "XVFNMSUB_S")) /\ Known(Row(32, 8, "-(a+jk)", JKA, "XVFNMSUB_D"))
    BY KernelIs, NoKernelList, KernelAgrees, RowKnown
  <2>2. Known(Rows(32, 4, "a-jk", JKA, {"XVFMSUB_S", "XVFNMADD_S"}))
    BY KernelIs, NoKernelList, KernelAgrees, RowsKnown
  <2>3. Known(Rows(32, 8, "a-jk", JKA, {"XVFMSUB_D", "XVFNMADD_D"}))
    BY KernelIs, NoKernelList, KernelAgrees, RowsKnown
  <2> QED BY <2>1, <2>2, <2>3, PlusKnown DEF WideFused
<1>5. Known(WideImm)
  BY KernelIs, NoKernelList, KernelAgrees, RowKnown, PlusKnown DEF WideImm
<1> QED BY <1>1, <1>2, <1>3, <1>4, <1>5, PlusKnown DEF Lasx

LEMMA ScalarKnown == Known(Scalar) /\ Known(EmittedScalar)
<1>1. Known(Unary)
  BY KernelIs, NoKernelList, KernelAgrees, SingleKnown, PlusKnown DEF Unary
<1>2. Known(Arithmetic)
  BY KernelIs, NoKernelList, KernelAgrees, SingleKnown, PlusKnown DEF Arithmetic
<1>3. Known(Fused)
  BY KernelIs, NoKernelList, KernelAgrees, SingleKnown, PlusKnown DEF Fused
<1>4. Known(EmittedArithmetic)
  BY KernelIs, NoKernelList, KernelAgrees, SingleKnown, PlusKnown DEF EmittedArithmetic
<1>5. Known(EmittedUnary)
  BY KernelIs, NoKernelList, KernelAgrees, SingleKnown, PlusKnown DEF EmittedUnary
<1>6. Known(EmittedFused)
  BY KernelIs, NoKernelList, KernelAgrees, SingleKnown, PlusKnown DEF EmittedFused
<1> QED BY <1>1, <1>2, <1>3, <1>4, <1>5, <1>6, PlusKnown DEF Scalar, EmittedScalar

---------------------------------------------------------------------------
(* The code of the two other engines beside the handlers.                  *)

FastMemoryOps == VectorMemoryOps \cup WideMemoryOps \cup {"FLDX_D", "FSTX_D", "FLD_D", "FST_D"}
FastOps == FastMemoryOps \cup {"VFADD_D", "VFMADD_D", "VHADDW_D_W", "FMADD_D", "FADD_D", "FMUL_D"}

LEMMA FastDomains == DOMAIN FastWrites = FastOps /\ DOMAIN (FastMemory ++ FastScalarMemory) = FastMemoryOps
<1>1. DOMAIN FastMemory = {"VLD", "VST", "VLDX", "VSTX", "XVLD", "XVST", "XVLDX", "XVSTX", "FLDX_D", "FSTX_D"}
  BY DEF FastMemory
<1>2. DOMAIN FastScalarMemory = {"FLD_D", "FST_D"}
  BY DEF FastScalarMemory
<1>3. DOMAIN FastVector = {"VFADD_D", "VFMADD_D", "VHADDW_D_W", "FMADD_D"}
  BY DEF FastVector
<1>4. DOMAIN FastScalar = {"FADD_D", "FMUL_D"}
  BY DEF FastScalar
<1> DEFINE u == FastMemory ++ FastScalarMemory
           v == u ++ FastVector
<1>5. DOMAIN u = FastMemoryOps
  <2>1. DOMAIN u = DOMAIN FastMemory \cup DOMAIN FastScalarMemory
    BY PlusFacts
  <2> QED BY <1>1, <1>2, <2>1 DEF FastMemoryOps, VectorMemoryOps, WideMemoryOps
<1> HIDE DEF u
<1>6. DOMAIN v = DOMAIN u \cup DOMAIN FastVector
  BY PlusFacts
<1> HIDE DEF v
<1>7. DOMAIN (v ++ FastScalar) = DOMAIN v \cup DOMAIN FastScalar
  BY PlusFacts
<1>8. FastWrites = v ++ FastScalar
  BY DEF FastWrites, u, v
<1>9. DOMAIN FastWrites = FastOps
  BY <1>3, <1>4, <1>5, <1>6, <1>7, <1>8 DEF FastOps
<1> QED BY <1>5, <1>9 DEF u

LEMMA FastParts ==
  /\ \A op \in DOMAIN FastMemory : FastWrites[op] = FastMemory[op]
  /\ \A op \in DOMAIN FastScalarMemory : FastWrites[op] = FastScalarMemory[op]
  /\ \A op \in DOMAIN FastVector : FastWrites[op] = FastVector[op]
  /\ \A op \in DOMAIN FastScalar : FastWrites[op] = FastScalar[op]
<1>1. DOMAIN FastMemory = {"VLD", "VST", "VLDX", "VSTX", "XVLD", "XVST", "XVLDX", "XVSTX", "FLDX_D", "FSTX_D"}
  BY DEF FastMemory
<1>2. DOMAIN FastScalarMemory = {"FLD_D", "FST_D"}
  BY DEF FastScalarMemory
<1>3. DOMAIN FastVector = {"VFADD_D", "VFMADD_D", "VHADDW_D_W", "FMADD_D"}
  BY DEF FastVector
<1>4. DOMAIN FastScalar = {"FADD_D", "FMUL_D"}
  BY DEF FastScalar
<1> DEFINE u == FastMemory ++ FastScalarMemory
           v == u ++ FastVector
<1>5. DOMAIN u = DOMAIN FastMemory \cup DOMAIN FastScalarMemory /\ \A op \in DOMAIN FastMemory : u[op] = FastMemory[op]
  BY PlusFacts
<1>6. \A op \in DOMAIN FastScalarMemory : op \notin DOMAIN FastMemory => u[op] = FastScalarMemory[op]
  BY PlusSecond
<1> HIDE DEF u
<1>7. DOMAIN v = DOMAIN u \cup DOMAIN FastVector /\ \A op \in DOMAIN u : v[op] = u[op]
  BY PlusFacts
<1>8. \A op \in DOMAIN FastVector : op \notin DOMAIN u => v[op] = FastVector[op]
  BY PlusSecond
<1> HIDE DEF v
<1>9. FastWrites = v ++ FastScalar
  BY DEF FastWrites, u, v
<1>10. \A op \in DOMAIN v : FastWrites[op] = v[op]
  BY <1>9, PlusFacts
<1>11. \A op \in DOMAIN FastScalar : op \notin DOMAIN v => FastWrites[op] = FastScalar[op]
  BY <1>9, PlusSecond
<1>12. \A op \in DOMAIN FastScalar : op \notin DOMAIN v
  BY <1>1, <1>2, <1>3, <1>4, <1>5, <1>7
<1>13. \A op \in DOMAIN FastVector : op \notin DOMAIN u
  BY <1>1, <1>2, <1>3, <1>5
<1>14. \A op \in DOMAIN FastScalarMemory : op \notin DOMAIN FastMemory
  BY <1>1, <1>2
<1> QED BY <1>5, <1>6, <1>7, <1>8, <1>10, <1>11, <1>12, <1>13, <1>14

LEMMA FastMemoryIs ==
  /\ FastWrites["VLD"] = Load(16, <<>>) /\ FastWrites["VST"] = Store(16)
  /\ FastWrites["VLDX"] = Load(16, <<>>) /\ FastWrites["VSTX"] = Store(16)
  /\ FastWrites["XVLD"] = Load(32, <<>>) /\ FastWrites["XVST"] = Store(32)
  /\ FastWrites["XVLDX"] = Load(32, <<>>) /\ FastWrites["XVSTX"] = Store(32)
  /\ FastWrites["FLDX_D"] = Load(8, <<>>) /\ FastWrites["FSTX_D"] = Store(8)
  /\ FastWrites["FLD_D"] = Load(8, <<<<"d", 8, 1>>>>) /\ FastWrites["FST_D"] = Store(8)
<1>1. \A op \in {"VLD", "VST", "VLDX", "VSTX", "XVLD", "XVST", "XVLDX", "XVSTX", "FLDX_D", "FSTX_D"} :
        FastWrites[op] = FastMemory[op]
  BY FastParts DEF FastMemory
<1>2. \A op \in {"FLD_D", "FST_D"} : FastWrites[op] = FastScalarMemory[op]
  BY FastParts DEF FastScalarMemory
<1>3. /\ FastMemory["VLD"] = Load(16, <<>>) /\ FastMemory["VST"] = Store(16)
      /\ FastMemory["VLDX"] = Load(16, <<>>) /\ FastMemory["VSTX"] = Store(16)
      /\ FastMemory["XVLD"] = Load(32, <<>>) /\ FastMemory["XVST"] = Store(32)
      /\ FastMemory["XVLDX"] = Load(32, <<>>) /\ FastMemory["XVSTX"] = Store(32)
      /\ FastMemory["FLDX_D"] = Load(8, <<>>) /\ FastMemory["FSTX_D"] = Store(8)
  BY DEF FastMemory
<1>4. FastScalarMemory["FLD_D"] = Load(8, <<<<"d", 8, 1>>>>) /\ FastScalarMemory["FST_D"] = Store(8)
  BY DEF FastScalarMemory
<1> QED BY <1>1, <1>2, <1>3, <1>4

SizedRow(size, w, f, roles) == [size |-> size, w |-> w, f |-> f, roles |-> roles]

LEMMA FastVectorIs ==
  /\ FastWrites["VFADD_D"] = ForEach(SizedRow(16, 8, "+", JK))
  /\ FastWrites["VFMADD_D"] = ForEach(SizedRow(16, 8, "a+jk", JKA))
  /\ FastWrites["VHADDW_D_W"] = HorizontalAdds["VHADDW_D_W"]
  /\ FastWrites["FMADD_D"] = ForEach(SizedRow(8, 8, "a+jk", JKA))
  /\ FastWrites["FADD_D"] = ForEach(SizedRow(8, 8, "+", JK))
  /\ FastWrites["FMUL_D"] = ForEach(SizedRow(8, 8, "*", JK))
<1>1. \A op \in {"VFADD_D", "VFMADD_D", "VHADDW_D_W", "FMADD_D"} : FastWrites[op] = FastVector[op]
  BY FastParts DEF FastVector
<1>2. \A op \in {"FADD_D", "FMUL_D"} : FastWrites[op] = FastScalar[op]
  BY FastParts DEF FastScalar
<1>3. /\ FastVector["VFADD_D"] = ForEach(SizedRow(16, 8, "+", JK))
      /\ FastVector["VFMADD_D"] = ForEach(SizedRow(16, 8, "a+jk", JKA))
      /\ FastVector["FMADD_D"] = ForEach(SizedRow(8, 8, "a+jk", JKA))
  BY DEF FastVector, SizedRow
<1>4. FastVector["VHADDW_D_W"] = <<SumPair(8, 0, "j", 0), SumPair(8, 1, "k", 0)>> \o ClearHigh
  BY DEF FastVector
<1>5. HorizontalAdds["VHADDW_D_W"] = <<SumPair(8, 0, "j", 0), SumPair(8, 1, "k", 0)>> \o ClearHigh
  BY DEF HorizontalAdds
<1>6. FastScalar["FADD_D"] = ForEach(SizedRow(8, 8, "+", JK)) /\ FastScalar["FMUL_D"] = ForEach(SizedRow(8, 8, "*", JK))
  BY DEF FastScalar, SizedRow
<1> QED BY <1>1, <1>2, <1>3, <1>4, <1>5, <1>6

\* A row of the tables is given by its size and what it computes.
LEMMA RowIs ==
  ASSUME NEW t, NEW sizes, GoodRows(t, sizes), Known(t), NEW op \in DOMAIN t \cap KernelOps,
         NEW w, NEW f, NEW roles, Kernel(op) = KernelRow(w, f, roles)
  PROVE  /\ t[op].w = w /\ t[op].f = f /\ t[op].roles = roles
         /\ ForEach(t[op]) = ForEach(SizedRow(t[op].size, w, f, roles))
<1>1. KernelRow(t[op].w, t[op].f, t[op].roles) = KernelRow(w, f, roles)
  BY DEF Known
<1>2. t[op].w = w /\ t[op].f = f /\ t[op].roles = roles
  BY <1>1 DEF KernelRow
<1>3. ForEach(t[op]) = ForEach(SizedRow(t[op].size, w, f, roles))
  <2> DEFINE r == t[op]
             q == SizedRow(r.size, w, f, roles)
  <2>1. q.size = r.size /\ q.w = r.w /\ q.f = r.f /\ q.roles = r.roles
    BY <1>2 DEF SizedRow
  <2> HIDE DEF r, q
  <2>2. ForEach(r) = ForEach(q)
    BY <2>1 DEF ForEach
  <2> QED BY <2>2 DEF r, q
<1> QED BY <1>2, <1>3

---------------------------------------------------------------------------
(* Their writes, and those of the handlers.                                *)

Square(t) == \A op \in DOMAIN t : t[op].size = t[op].w

LEMMA PlusSquare ==
  ASSUME NEW f, NEW g, Square(f), Square(g)
  PROVE  Square(f ++ g)
<1> SUFFICES ASSUME NEW op \in DOMAIN (f ++ g) PROVE (f ++ g)[op].size = (f ++ g)[op].w
  BY DEF Square
<1>1. op \in DOMAIN f \cup DOMAIN g
  BY PlusFacts
<1>2. CASE op \in DOMAIN f
  <2>1. (f ++ g)[op] = f[op]
    BY <1>2, PlusFacts
  <2> QED BY <1>2, <2>1 DEF Square
<1>3. CASE op \in DOMAIN g \ DOMAIN f
  <2>1. (f ++ g)[op] = g[op]
    BY <1>3, PlusRight
  <2> QED BY <1>3, <2>1 DEF Square
<1> QED BY <1>1, <1>2, <1>3

LEMMA SingleSquare ==
  ASSUME NEW f, NEW roles, NEW ops
  PROVE  Square(Single(f, roles, ops)) /\ Square(Double(f, roles, ops))
  BY DEF Square, Single, Double, Rows

LEMMA ScalarSquare == Square(Scalar) /\ Square(EmittedScalar)
<1>1. Square(Unary) /\ Square(Arithmetic) /\ Square(Fused)
  BY SingleSquare, PlusSquare DEF Unary, Arithmetic, Fused
<1>2. Square(EmittedArithmetic) /\ Square(EmittedUnary) /\ Square(EmittedFused)
  BY SingleSquare, PlusSquare DEF EmittedArithmetic, EmittedUnary, EmittedFused
<1> QED BY <1>1, <1>2, PlusSquare DEF Scalar, EmittedScalar

LEMMA EmittedRows == GoodRows(EmittedScalar, {4, 8})
<1>0. "x>=0?x:-x" \in Operations
  BY DEF Operations
<1>1. GoodRows(EmittedArithmetic, {4, 8})
  BY ScalarGood, OperationNames, PlusGood DEF EmittedArithmetic
<1>2. GoodRows(EmittedUnary, {4, 8})
  BY <1>0, ScalarGood, OperationNames, PlusGood DEF EmittedUnary
<1>3. GoodRows(EmittedFused, {4, 8})
  BY ScalarGood, OperationNames, PlusGood DEF EmittedFused
<1> QED BY <1>1, <1>2, <1>3, PlusGood DEF EmittedScalar

LEMMA LsxRowIs ==
  ASSUME NEW op \in LsxOps \cap KernelOps, NEW w, NEW f, NEW roles, Kernel(op) = KernelRow(w, f, roles)
  PROVE  ForEach(Table[op]) = ForEach(SizedRow(16, w, f, roles))
<1>1. op \in DOMAIN Lsx \cap KernelOps /\ Table[op] = Lsx[op] /\ Lsx[op].size = 16
  BY LsxDomain, TableFacts
<1>2. ForEach(Lsx[op]) = ForEach(SizedRow(Lsx[op].size, w, f, roles))
  BY <1>1, RowIs, LsxRows, LsxKnown
<1> QED BY <1>1, <1>2

LEMMA ScalarRowIs ==
  ASSUME NEW op \in ScalarOps \cap KernelOps, NEW w, NEW f, NEW roles, Kernel(op) = KernelRow(w, f, roles)
  PROVE  ForEach(Table[op]) = ForEach(SizedRow(w, w, f, roles))
<1>1. op \in DOMAIN Scalar \cap KernelOps /\ Table[op] = Scalar[op]
  BY ScalarDomain, TableFacts
<1>2. ForEach(Scalar[op]) = ForEach(SizedRow(Scalar[op].size, w, f, roles)) /\ Scalar[op].w = w
  BY <1>1, RowIs, ScalarRows, ScalarKnown
<1>3. Scalar[op].size = w
  BY <1>1, <1>2, ScalarSquare DEF Square
<1> QED BY <1>1, <1>2, <1>3

LEMMA EmittedRowIs ==
  ASSUME NEW op \in DOMAIN EmittedScalar \cap KernelOps, NEW w, NEW f, NEW roles, Kernel(op) = KernelRow(w, f, roles)
  PROVE  ForEach(EmittedScalar[op]) = ForEach(SizedRow(w, w, f, roles))
<1>2. ForEach(EmittedScalar[op]) = ForEach(SizedRow(EmittedScalar[op].size, w, f, roles)) /\ EmittedScalar[op].w = w
  BY RowIs, EmittedRows, ScalarKnown
<1>3. EmittedScalar[op].size = w
  BY <1>2, ScalarSquare DEF Square
<1> QED BY <1>2, <1>3

LEMMA ExtendsItself ==
  ASSUME NEW ws \in Seq(Write), NEW lo, NEW hi
  PROVE  Extends(ws, ws, lo, hi)
<1>1. Len(ws) \in Nat /\ Valid(ws)
  BY WritesValid
<1> QED BY <1>1 DEF Extends

LEMMA PlainLoad == \A n : Load(n, <<>>) = <<Copy(<<"d", n, 0>>, <<"mem", n, 0>>)>>
<1> SUFFICES ASSUME NEW n PROVE Load(n, <<>>) = <<Copy(<<"d", n, 0>>, <<"mem", n, 0>>)>>
  OBVIOUS
<1> DEFINE c == Copy(<<"d", n, 0>>, <<"mem", n, 0>>)
           z == [x \in DOMAIN <<>> |-> ZeroAt(<<>>[x])]
<1>1. Load(n, <<>>) = <<c>> \o z
  BY DEF Load
<1>2. z = <<>>
  <2>1. DOMAIN <<>> = {}
    OBVIOUS
  <2>2. z = [x \in {} |-> ZeroAt(<<>>[x])]
    BY <2>1
  <2>3. z \in Seq({}) /\ Len(z) = 0
    BY <2>2
  <2> QED BY <2>3, EmptySeq
<1> HIDE DEF z
<1>3. <<c>> \o <<>> = <<c>>
  OBVIOUS
<1> QED BY <1>1, <1>2, <1>3

LEMMA LoadExtends ==
  ASSUME NEW n \in {4, 8}, NEW es \in Seq(Elem),
         \A x \in DOMAIN es : es[x][1] = "d" /\ 4 <= First(es[x]) /\ First(es[x]) + es[x][2] <= 16
  PROVE  Extends(Load(n, es), Load(n, <<>>), 4, 16)
<1> DEFINE c == Copy(<<"d", n, 0>>, <<"mem", n, 0>>)
           z == [x \in DOMAIN es |-> ZeroAt(es[x])]
<1>1. Load(n, es) = <<c>> \o z /\ Load(n, <<>>) = <<c>>
  BY PlainLoad DEF Load
<1>2. <<"d", n, 0>> \in Elem /\ <<"mem", n, 0>> \in Elem
  BY DEF Elem, Others, Roles4, Widths
<1>3. <<c>> \in Seq(Write)
  BY <1>2, CopyWrite
<1>4. z \in Seq(Write)
  BY ZerosFacts
<1>5. Covered(z, 4, 16)
  <2>1. \A x \in 1 .. Len(z) : x \in DOMAIN es /\ z[x].to = es[x]
    BY <1>4 DEF ZeroAt
  <2> HIDE DEF z
  <2> QED BY <2>1 DEF Covered
<1> HIDE DEF c, z
<1> QED BY <1>1, <1>3, <1>4, <1>5, ConcatExtends

LEMMA LsxExtends ==
  ASSUME NEW i, i.op \in LsxOps
  PROVE  Extends(Writes(i), ForEach(Table[i.op]), 16, 32)
<1>1. i.op \in DOMAIN Table
  BY OtherDomains
<1>2. ForEach(Table[i.op]) \in Seq(Write)
  BY <1>1, WritesTable, ForEachFacts
<1>3. CASE Writes(i) = ForEach(Table[i.op]) \o ClearHigh
  BY <1>2, <1>3, ClearHighFacts, ConcatExtends
<1>4. CASE Writes(i) = ForEach(Table[i.op])
  BY <1>2, <1>4, ExtendsItself
<1> QED BY <1>1, <1>3, <1>4, WritesTable

LEMMA ScalarWrites ==
  ASSUME NEW i, i.op \in ScalarOps \cup LasxOps
  PROVE  Writes(i) = ForEach(Table[i.op])
<1>1. i.op \in DOMAIN Table /\ i.op \notin LsxOps
  BY OtherDomains DEF ScalarOps, LasxOps, LsxOps
<1> QED BY <1>1, WritesTable

LEMMA VectorLoadExtends ==
  ASSUME NEW i, i.op \in {"VLD", "VLDX"}
  PROVE  Extends(Writes(i), Load(16, <<>>), 16, 32)
<1>1. Writes(i) = Load(16, <<>>) \o ClearHigh
  BY WritesCases, MemoryIs DEF MemoryOps, VectorMemoryOps
<1>2. <<>> \in Seq(Elem)
  OBVIOUS
<1>3. Load(16, <<>>) \in Seq(Write)
  BY <1>2, LoadFacts DEF Tame
<1> QED BY <1>1, <1>3, ClearHighFacts, ConcatExtends

LEMMA FastExtends ==
  ASSUME NEW i, i.op \in FastOps
  PROVE  /\ i.op \in KeepsUpper => Extends(Writes(i), FastWrites[i.op], 16, 32)
         /\ i.op \notin KeepsUpper => Writes(i) = FastWrites[i.op]
         /\ FastWrites[i.op] \in Seq(Write)
         /\ i.op \notin WideMemoryOps => Low(FastWrites[i.op])
<1>0. <<>> \in Seq(Elem)
  OBVIOUS
<1>1. CASE i.op \in {"VLD", "VLDX"}
  <2>1. FastWrites[i.op] = Load(16, <<>>)
    BY <1>1, FastMemoryIs
  <2>2. FastWrites[i.op] \in Seq(Write) /\ Low(FastWrites[i.op])
    BY <1>0, <2>1, LoadFacts DEF Tame
  <2> QED BY <1>1, <2>1, <2>2, VectorLoadExtends DEF KeepsUpper
<1>2. CASE i.op \in {"VST", "VSTX", "XVLD", "XVST", "XVLDX", "XVSTX", "FLDX_D", "FSTX_D", "FLD_D", "FST_D"}
  <2>1. i.op \in MemoryOps /\ i.op \notin KeepsUpper
    BY <1>2 DEF MemoryOps, VectorMemoryOps, WideMemoryOps, FloatMemoryOps, KeepsUpper
  <2>2. FastWrites[i.op] = Memory[i.op]
    BY <1>2, FastMemoryIs, MemoryIs
  <2>3. Writes(i) = Memory[i.op]
    BY <2>1, WritesCases
  <2> QED BY <2>1, <2>2, <2>3, MemoryFacts DEF Tame
<1>3. CASE i.op \in {"VFADD_D", "VFMADD_D"}
  <2>1. i.op \in LsxOps \cap KernelOps /\ i.op \in KeepsUpper
    BY <1>3 DEF LsxOps, KernelOps, KeepsUpper
  <2>2. FastWrites[i.op] = ForEach(Table[i.op])
    <3>1. CASE i.op = "VFADD_D"
      BY <2>1, <3>1, LsxRowIs, KernelIs, FastVectorIs
    <3>2. CASE i.op = "VFMADD_D"
      BY <2>1, <3>2, LsxRowIs, KernelIs, FastVectorIs
    <3> QED BY <1>3, <3>1, <3>2
  <2>3. RowOk(Table[i.op]) /\ Table[i.op].size <= 16
    BY <2>1, TableFacts
  <2>4. ForEach(Table[i.op]) \in Seq(Write) /\ Low(ForEach(Table[i.op]))
    BY <2>3, ForEachFacts, ForEachLow
  <2> QED BY <2>1, <2>2, <2>4, LsxExtends
<1>4. CASE i.op = "VHADDW_D_W"
  <2>1. Writes(i) = HorizontalAdds[i.op]
    BY <1>4, WritesCases
  <2> QED BY <1>4, <2>1, FastVectorIs, HorizontalFacts DEF KeepsUpper
<1>5. CASE i.op \in {"FMADD_D", "FADD_D", "FMUL_D"}
  <2>1. i.op \in ScalarOps \cap KernelOps /\ i.op \notin KeepsUpper
    BY <1>5 DEF ScalarOps, KernelOps, KeepsUpper
  <2>2. FastWrites[i.op] = ForEach(Table[i.op])
    <3>1. CASE i.op = "FMADD_D"
      BY <2>1, <3>1, ScalarRowIs, KernelIs, FastVectorIs
    <3>2. CASE i.op = "FADD_D"
      BY <2>1, <3>2, ScalarRowIs, KernelIs, FastVectorIs
    <3>3. CASE i.op = "FMUL_D"
      BY <2>1, <3>3, ScalarRowIs, KernelIs, FastVectorIs
    <3> QED BY <1>5, <3>1, <3>2, <3>3
  <2>3. RowOk(Table[i.op]) /\ Table[i.op].size <= 16
    BY <2>1, TableFacts
  <2>4. ForEach(Table[i.op]) \in Seq(Write) /\ Low(ForEach(Table[i.op]))
    BY <2>3, ForEachFacts, ForEachLow
  <2>5. Writes(i) = ForEach(Table[i.op])
    BY <2>1, ScalarWrites
  <2> QED BY <2>1, <2>2, <2>4, <2>5
<1> QED BY <1>1, <1>2, <1>3, <1>4, <1>5 DEF FastOps, FastMemoryOps, VectorMemoryOps, WideMemoryOps

EmittedMemory == EmittedScalarMemory ++ EmittedVectorMemory

LEMMA EmittedDomains ==
  /\ DOMAIN EmittedMemory = FloatMemoryOps \cup VectorMemoryOps
  /\ DOMAIN EmittedScalar = ScalarOps \ {"FCLASS_S", "FCLASS_D"}
  /\ DOMAIN EmittedVector = {"VFADD_D", "VFMADD_D"}
<1>1. DOMAIN EmittedScalarMemory = FloatMemoryOps
  BY DEF EmittedScalarMemory, FloatMemoryOps
<1>2. DOMAIN EmittedVectorMemory = VectorMemoryOps
  BY DEF EmittedVectorMemory, VectorMemoryOps
<1>3. DOMAIN EmittedMemory = DOMAIN EmittedScalarMemory \cup DOMAIN EmittedVectorMemory
  BY PlusFacts DEF EmittedMemory
<1>4. \A x : x \in DOMAIN EmittedArithmetic <=>
             x \in {"FADD_D", "FSUB_D", "FMUL_D", "FDIV_D", "FADD_S", "FSUB_S", "FMUL_S", "FDIV_S",
                   "FMAX_D", "FMIN_D", "FMAX_S", "FMIN_S"}
  BY PlusIn, SingleIn DEF EmittedArithmetic
<1>5. \A x : x \in DOMAIN EmittedUnary <=> x \in {"FABS_D", "FABS_S", "FNEG_D", "FMOV_D", "FMOV_S"}
  BY PlusIn, SingleIn DEF EmittedUnary
<1>6. \A x : x \in DOMAIN EmittedFused <=>
             x \in {"FMADD_D", "FMADD_S", "FMSUB_D", "FMSUB_S", "FNMADD_D", "FNMADD_S", "FNMSUB_D", "FNMSUB_S"}
  BY PlusIn, SingleIn DEF EmittedFused
<1>7. \A x : x \in DOMAIN EmittedScalar <=> x \in ScalarOps \ {"FCLASS_S", "FCLASS_D"}
  BY <1>4, <1>5, <1>6, PlusIn DEF EmittedScalar, ScalarOps
<1>8. DOMAIN EmittedScalar = ScalarOps \ {"FCLASS_S", "FCLASS_D"}
  BY <1>7
<1>9. \A x : x \in DOMAIN EmittedVector <=> x \in {"VFADD_D", "VFMADD_D"}
  BY PlusIn, RowIn DEF EmittedVector
<1>10. DOMAIN EmittedVector = {"VFADD_D", "VFMADD_D"}
  BY <1>9
<1> QED BY <1>1, <1>2, <1>3, <1>8, <1>10

LEMMA EmittedMemoryIs ==
  /\ EmittedMemory["FLD_S"] = Load(4, <<>>) /\ EmittedMemory["FST_S"] = Store(4)
  /\ EmittedMemory["FLD_D"] = Load(8, <<>>) /\ EmittedMemory["FST_D"] = Store(8)
  /\ EmittedMemory["FLDX_S"] = Load(4, <<>>) /\ EmittedMemory["FSTX_S"] = Store(4)
  /\ EmittedMemory["FLDX_D"] = Load(8, <<>>) /\ EmittedMemory["FSTX_D"] = Store(8)
  /\ EmittedMemory["VLD"] = Load(16, <<>>) /\ EmittedMemory["VST"] = Store(16)
  /\ EmittedMemory["VLDX"] = Load(16, <<>>) /\ EmittedMemory["VSTX"] = Store(16)
<1>1. DOMAIN EmittedScalarMemory = FloatMemoryOps
  BY DEF EmittedScalarMemory, FloatMemoryOps
<1>2. DOMAIN EmittedVectorMemory = VectorMemoryOps
  BY DEF EmittedVectorMemory, VectorMemoryOps
<1>3. \A op \in FloatMemoryOps : EmittedMemory[op] = EmittedScalarMemory[op]
  BY <1>1, PlusFacts DEF EmittedMemory
<1>4. \A op \in VectorMemoryOps : op \notin FloatMemoryOps => EmittedMemory[op] = EmittedVectorMemory[op]
  BY <1>1, <1>2, PlusSecond DEF EmittedMemory
<1>5. /\ EmittedScalarMemory["FLD_S"] = Load(4, <<>>) /\ EmittedScalarMemory["FST_S"] = Store(4)
      /\ EmittedScalarMemory["FLD_D"] = Load(8, <<>>) /\ EmittedScalarMemory["FST_D"] = Store(8)
      /\ EmittedScalarMemory["FLDX_S"] = Load(4, <<>>) /\ EmittedScalarMemory["FSTX_S"] = Store(4)
      /\ EmittedScalarMemory["FLDX_D"] = Load(8, <<>>) /\ EmittedScalarMemory["FSTX_D"] = Store(8)
  BY DEF EmittedScalarMemory
<1>6. /\ EmittedVectorMemory["VLD"] = Load(16, <<>>) /\ EmittedVectorMemory["VST"] = Store(16)
      /\ EmittedVectorMemory["VLDX"] = Load(16, <<>>) /\ EmittedVectorMemory["VSTX"] = Store(16)
  BY DEF EmittedVectorMemory
<1> QED BY <1>3, <1>4, <1>5, <1>6 DEF FloatMemoryOps, VectorMemoryOps

LEMMA EmittedVectorIs ==
  /\ EmittedVector["VFADD_D"] = SizedRow(16, 8, "+", JK)
  /\ EmittedVector["VFMADD_D"] = SizedRow(16, 8, "a+jk", JKA)
<1> DEFINE a == Row(16, 8, "+", JK, "VFADD_D")
           b == Row(16, 8, "a+jk", JKA, "VFMADD_D")
<1>1. DOMAIN a = {"VFADD_D"} /\ a["VFADD_D"] = SizedRow(16, 8, "+", JK)
  BY DEF Row, Rows, SizedRow
<1>2. DOMAIN b = {"VFMADD_D"} /\ b["VFMADD_D"] = SizedRow(16, 8, "a+jk", JKA)
  BY DEF Row, Rows, SizedRow
<1> HIDE DEF a, b
<1>3. EmittedVector = a ++ b
  BY DEF EmittedVector, a, b
<1>4. (a ++ b)["VFADD_D"] = a["VFADD_D"]
  <2>1. "VFADD_D" \in DOMAIN a
    BY <1>1
  <2> QED BY <2>1, PlusFacts
<1>5. (a ++ b)["VFMADD_D"] = b["VFMADD_D"]
  BY <1>1, <1>2, PlusRight
<1> QED BY <1>1, <1>2, <1>3, <1>4, <1>5

LEMMA EmittedCases ==
  ASSUME NEW m, NEW i, Instructed(i)
  PROVE  /\ i.op \in FloatMemoryOps \cup VectorMemoryOps =>
              Emitted(m, i) = IF EmittedRefused(i) THEN Trap(m, "fault") ELSE Steps(m, i, EmittedMemory[i.op], FALSE)
         /\ i.op \in ScalarOps \ {"FCLASS_S", "FCLASS_D"} =>
              Emitted(m, i) = Steps(m, i, ForEach(EmittedScalar[i.op]), FALSE)
         /\ i.op \in {"VFADD_D", "VFMADD_D"} => Emitted(m, i) = Steps(m, i, ForEach(EmittedVector[i.op]), FALSE)
         /\ i.op = "VLDI" /\ ~ Illegal(i) => Emitted(m, i) = Steps(m, i, LsxImmediate(i), FALSE)
         /\ \/ i.op \in FloatMemoryOps \cup VectorMemoryOps \cup (ScalarOps \ {"FCLASS_S", "FCLASS_D"})
                        \cup {"VFADD_D", "VFMADD_D"}
            \/ i.op = "VLDI" /\ ~ Illegal(i)
            \/ Emitted(m, i) = Handle(m, i)
<1> DEFINE A == FloatMemoryOps \cup VectorMemoryOps
           B == ScalarOps \ {"FCLASS_S", "FCLASS_D"}
           C == {"VFADD_D", "VFMADD_D"}
<1>1. A \cap B = {} /\ A \cap C = {} /\ B \cap C = {} /\ "VLDI" \notin A /\ "VLDI" \notin B /\ "VLDI" \notin C
  BY DEF FloatMemoryOps, VectorMemoryOps, ScalarOps
<1> HIDE DEF A, B, C
<1>2. DOMAIN (EmittedScalarMemory ++ EmittedVectorMemory) = A /\ DOMAIN EmittedScalar = B /\ DOMAIN EmittedVector = C
  BY EmittedDomains DEF EmittedMemory, A, B, C
<1>3. Emitted(m, i) = CASE i.op \in A -> (IF EmittedRefused(i) THEN Trap(m, "fault") ELSE InPlace(m, i, EmittedMemory[i.op]))
                        [] i.op \in B -> InPlace(m, i, ForEach(EmittedScalar[i.op]))
                        [] i.op \in C -> InPlace(m, i, ForEach(EmittedVector[i.op]))
                        [] i.op = "VLDI" /\ ~ Illegal(i) -> InPlace(m, i, LsxImmediate(i))
                        [] OTHER -> Handle(m, i)
  BY <1>2 DEF Emitted, EmittedMemory, EmittedImmediate, LsxImmediate
<1>4. /\ i.op \in A => Emitted(m, i) = IF EmittedRefused(i) THEN Trap(m, "fault") ELSE InPlace(m, i, EmittedMemory[i.op])
      /\ i.op \in B => Emitted(m, i) = InPlace(m, i, ForEach(EmittedScalar[i.op]))
      /\ i.op \in C => Emitted(m, i) = InPlace(m, i, ForEach(EmittedVector[i.op]))
      /\ i.op = "VLDI" /\ ~ Illegal(i) => Emitted(m, i) = InPlace(m, i, LsxImmediate(i))
      /\ \/ i.op \in A \/ i.op \in B \/ i.op \in C
         \/ i.op = "VLDI" /\ ~ Illegal(i)
         \/ Emitted(m, i) = Handle(m, i)
  BY <1>1, <1>3
<1>5. /\ i.op \in A => Emitted(m, i) = IF EmittedRefused(i) THEN Trap(m, "fault") ELSE Steps(m, i, EmittedMemory[i.op], FALSE)
      /\ i.op \in B => Emitted(m, i) = Steps(m, i, ForEach(EmittedScalar[i.op]), FALSE)
      /\ i.op \in C => Emitted(m, i) = Steps(m, i, ForEach(EmittedVector[i.op]), FALSE)
      /\ i.op = "VLDI" /\ ~ Illegal(i) => Emitted(m, i) = Steps(m, i, LsxImmediate(i), FALSE)
  BY <1>4 DEF InPlace
<1> QED BY <1>4, <1>5 DEF A, B, C

LEMMA EmittedMemoryExtends ==
  ASSUME NEW i, i.op \in FloatMemoryOps \cup VectorMemoryOps
  PROVE  /\ EmittedMemory[i.op] \in Seq(Write) /\ Low(EmittedMemory[i.op])
         /\ i.op \in {"VLD", "VLDX"} => Extends(Writes(i), EmittedMemory[i.op], 16, 32)
         /\ i.op \in {"FLD_S", "FLDX_S", "FLD_D"} => Extends(Writes(i), EmittedMemory[i.op], 4, 16)
         /\ i.op \notin {"VLD", "VLDX", "FLD_S", "FLDX_S", "FLD_D"} => Writes(i) = EmittedMemory[i.op]
<1>0. <<>> \in Seq(Elem)
  OBVIOUS
<1>1. i.op \in MemoryOps /\ i.op \notin WideMemoryOps /\ Writes(i) = Memory[i.op]
  BY WritesCases DEF MemoryOps, FloatMemoryOps, VectorMemoryOps, WideMemoryOps
<1>2. CASE i.op \in {"VLD", "VLDX"}
  <2>1. EmittedMemory[i.op] = Load(16, <<>>)
    BY <1>2, EmittedMemoryIs
  <2>2. EmittedMemory[i.op] \in Seq(Write) /\ Low(EmittedMemory[i.op])
    BY <1>0, <2>1, LoadFacts DEF Tame
  <2> QED BY <1>2, <2>1, <2>2, VectorLoadExtends
<1>3. CASE i.op \in {"FLD_S", "FLDX_S", "FLD_D"}
  <2>1. PICK n \in {4, 8} : EmittedMemory[i.op] = Load(n, <<>>) /\ (i.op = "FLD_D" <=> n = 8)
    BY <1>3, EmittedMemoryIs
  <2>2. EmittedMemory[i.op] \in Seq(Write) /\ Low(EmittedMemory[i.op])
    BY <1>0, <2>1, LoadFacts DEF Tame
  <2> DEFINE a == <<"d", 4, 1>>
             b == <<"d", 8, 1>>
  <2>3. a \in Elem /\ b \in Elem
    BY ElemList
  <2>4. a[1] = "d" /\ First(a) = 4 /\ a[2] = 4 /\ b[1] = "d" /\ First(b) = 8 /\ b[2] = 8
    BY DEF First
  <2>5. /\ i.op = "FLD_S" => Writes(i) = Load(n, <<a, b>>)
        /\ i.op = "FLDX_S" => Writes(i) = Load(n, <<a>>)
        /\ i.op = "FLD_D" => Writes(i) = Load(n, <<b>>)
    BY <1>1, <2>1, MemoryIs
  <2> HIDE DEF a, b
  <2>6. PICK es \in {<<a, b>>, <<a>>, <<b>>} : Writes(i) = Load(n, es)
    BY <1>3, <2>5
  <2>7. es \in Seq(Elem) /\ \A x \in DOMAIN es : es[x] = a \/ es[x] = b
    <3>1. CASE es = <<a, b>>
      BY <2>3, <3>1
    <3>2. CASE es = <<a>>
      BY <2>3, <3>2
    <3>3. CASE es = <<b>>
      BY <2>3, <3>3
    <3> QED BY <2>6, <3>1, <3>2, <3>3
  <2>8. \A x \in DOMAIN es : es[x][1] = "d" /\ 4 <= First(es[x]) /\ First(es[x]) + es[x][2] <= 16
    BY <2>4, <2>7
  <2>9. Extends(Load(n, es), Load(n, <<>>), 4, 16)
    BY <2>1, <2>7, <2>8, LoadExtends
  <2> QED BY <1>3, <2>1, <2>2, <2>6, <2>9
<1>4. CASE i.op \notin {"VLD", "VLDX", "FLD_S", "FLDX_S", "FLD_D"}
  <2>1. EmittedMemory[i.op] = Memory[i.op]
    BY <1>4, EmittedMemoryIs, MemoryIs DEF FloatMemoryOps, VectorMemoryOps
  <2> QED BY <1>1, <1>4, <2>1, MemoryFacts DEF Tame
<1> QED BY <1>2, <1>3, <1>4

LEMMA EmittedScalarExtends ==
  ASSUME NEW i, i.op \in ScalarOps \ {"FCLASS_S", "FCLASS_D"}
  PROVE  LET code == ForEach(EmittedScalar[i.op])
         IN  /\ code \in Seq(Write) /\ Low(code)
             /\ i.op \in {"FABS_S", "FABS_D"} => Extends(Writes(i), <<>>, 0, 16) /\ Extends(code, <<>>, 0, 16)
             /\ i.op \notin {"FABS_S", "FABS_D"} => Writes(i) = code
<1> DEFINE r == EmittedScalar[i.op]
           q == Table[i.op]
<1>1. i.op \in DOMAIN EmittedScalar
  BY EmittedDomains
<1>2. RowOk(r) /\ r.size \in {4, 8}
  BY <1>1, EmittedRows DEF GoodRows
<1>3. RowOk(q) /\ q.size \in {4, 8}
  BY TableFacts
<1>4. Writes(i) = ForEach(q)
  BY ScalarWrites
<1>5. ASSUME i.op \notin {"FABS_S", "FABS_D"} PROVE Writes(i) = ForEach(r)
  <2>1. i.op \in KernelOps
    BY <1>5 DEF ScalarOps, KernelOps
  <2>2. PICK w, f, roles : Kernel(i.op) = KernelRow(w, f, roles)
    BY <2>1, KernelIs DEF KernelOps
  <2>3. ForEach(r) = ForEach(SizedRow(w, w, f, roles))
    BY <1>1, <2>1, <2>2, EmittedRowIs
  <2>4. ForEach(q) = ForEach(SizedRow(w, w, f, roles))
    BY <2>1, <2>2, ScalarRowIs
  <2> QED BY <1>4, <2>3, <2>4
<1> HIDE DEF r, q
<1>6. ASSUME NEW x, RowOk(x), x.size \in {4, 8}
      PROVE  ForEach(x) \in Seq(Write) /\ Low(ForEach(x)) /\ Extends(ForEach(x), <<>>, 0, 16)
  <2>1. ForEach(x) \in Seq(Write)
    BY <1>6, ForEachFacts
  <2>2. Low(ForEach(x))
    BY <1>6, ForEachLow
  <2>3. \A n \in 1 .. Len(ForEach(x)) : /\ ForEach(x)[n].to = <<"d", x.w, n - 1>>
                                        /\ x.w * (n - 1) \in Nat /\ x.w * (n - 1) + x.w <= x.size
    BY <1>6, ForEachFacts
  <2> DEFINE ws == ForEach(x)
  <2>4. \A n \in 1 .. Len(ws) : ws[n].to[1] = "d" /\ 0 <= First(ws[n].to) /\ First(ws[n].to) + ws[n].to[2] <= 16
    <3> SUFFICES ASSUME NEW n \in 1 .. Len(ws)
                 PROVE  ws[n].to[1] = "d" /\ 0 <= First(ws[n].to) /\ First(ws[n].to) + ws[n].to[2] <= 16
      OBVIOUS
    <3>1. ws[n].to = <<"d", x.w, n - 1>> /\ x.w * (n - 1) \in Nat /\ x.w * (n - 1) + x.w <= x.size
      BY <2>3
    <3>2. x.w \in Nat
      BY <1>6 DEF RowOk
    <3> HIDE DEF ws
    <3>3. First(ws[n].to) = x.w * (n - 1) /\ ws[n].to[2] = x.w /\ ws[n].to[1] = "d"
      BY <3>1 DEF First
    <3> DEFINE p == x.w * (n - 1)
    <3>4. p \in Nat /\ p + x.w <= x.size
      BY <3>1
    <3> HIDE DEF p
    <3>5. 0 <= p /\ p + x.w <= 16
      BY <1>6, <3>2, <3>4
    <3> QED BY <3>3, <3>5 DEF p
  <2> HIDE DEF ws
  <2>5. Valid(ws) /\ Len(ws) \in Nat
    BY <2>1, WritesValid DEF ws
  <2>6. Len(<<>>) = 0
    OBVIOUS
  <2>7. Extends(ws, <<>>, 0, 16)
    BY <2>4, <2>5, <2>6 DEF Extends
  <2> QED BY <2>1, <2>2, <2>7 DEF ws
<1>7. ForEach(r) \in Seq(Write) /\ Low(ForEach(r)) /\ Extends(ForEach(r), <<>>, 0, 16)
  BY <1>2, <1>6
<1>8. Extends(ForEach(q), <<>>, 0, 16)
  BY <1>3, <1>6
<1> QED BY <1>4, <1>5, <1>7, <1>8 DEF r

LEMMA EmittedVectorExtends ==
  ASSUME NEW i, i.op \in {"VFADD_D", "VFMADD_D"}
  PROVE  LET code == ForEach(EmittedVector[i.op])
         IN  code \in Seq(Write) /\ Low(code) /\ Extends(Writes(i), code, 16, 32)
<1>1. i.op \in LsxOps \cap KernelOps
  BY DEF LsxOps, KernelOps
<1>2. ForEach(EmittedVector[i.op]) = ForEach(Table[i.op])
  <2>1. CASE i.op = "VFADD_D"
    BY <1>1, <2>1, LsxRowIs, KernelIs, EmittedVectorIs
  <2>2. CASE i.op = "VFMADD_D"
    BY <1>1, <2>2, LsxRowIs, KernelIs, EmittedVectorIs
  <2> QED BY <2>1, <2>2
<1>3. RowOk(Table[i.op]) /\ Table[i.op].size <= 16
  BY <1>1, TableFacts
<1>4. ForEach(Table[i.op]) \in Seq(Write) /\ Low(ForEach(Table[i.op]))
  BY <1>3, ForEachFacts, ForEachLow
<1> QED BY <1>1, <1>2, <1>4, LsxExtends

---------------------------------------------------------------------------
(* The operand fields a bytecode keeps are those its writes name.          *)

Uses(ws, roles) ==
  \A x \in 1 .. Len(ws) : /\ ws[x].to[1] \in roles \cup Others
                          /\ \A z \in DOMAIN ws[x].from : ws[x].from[z][1] \in roles \cup Others

LEMMA UsesSameRoles ==
  ASSUME NEW i, NEW h, NEW ws, NEW roles \in SUBSET Roles4, Uses(ws, roles), \A r \in roles : i[r] = h[r]
  PROVE  SameRoles(i, h, ws)
<1>1. \A r \in roles \cup Others : Place(i, r) = Place(h, r)
  BY DEF Place, Roles4, Others
<1> QED BY <1>1 DEF Uses, SameRoles

LEMMA RewrittenFacts ==
  ASSUME NEW i, Formed(i), Named(i)
  PROVE  /\ Named(Rewritten(i))
         /\ i.op \in Format4R => Rewritten(i) = i
         /\ i.op \in FormatR3 => \A r \in {"d", "j", "k"} : i[r] = Rewritten(i)[r]
         /\ i.op \notin Format4R \cup FormatR3 => \A r \in {"d", "j"} : i[r] = Rewritten(i)[r]
<1> DEFINE r3 == [i EXCEPT !.a = V0]
           r2 == [i EXCEPT !.k = V0, !.a = V0]
<1>1. r3.d = i.d /\ r3.j = i.j /\ r3.k = i.k /\ r3.a = V0
  BY DEF Formed
<1>2. r2.d = i.d /\ r2.j = i.j /\ r2.k = V0 /\ r2.a = V0
  BY DEF Formed
<1>3. Named(r3) /\ Named(r2)
  BY <1>1, <1>2, RegistersAssumption DEF Named
<1>4. Format4R \cap FormatR3 = {}
  BY DEF Format4R, FormatR3
<1>5. /\ i.op \in Format4R => Rewritten(i) = i
      /\ i.op \in FormatR3 => Rewritten(i) = r3
      /\ i.op \notin Format4R \cup FormatR3 => Rewritten(i) = r2
  BY <1>4 DEF Rewritten
<1> HIDE DEF r3, r2
<1>6. Named(Rewritten(i))
  BY <1>3, <1>5
<1>7. ASSUME i.op \in FormatR3, NEW r \in {"d", "j", "k"} PROVE i[r] = Rewritten(i)[r]
  BY <1>1, <1>5, <1>7
<1>8. ASSUME i.op \notin Format4R \cup FormatR3, NEW r \in {"d", "j"} PROVE i[r] = Rewritten(i)[r]
  BY <1>2, <1>5, <1>8
<1> QED BY <1>5, <1>6, <1>7, <1>8

LEMMA OneCopyUses ==
  ASSUME NEW to, NEW from, NEW roles, to[1] \in roles \cup Others, from[1] \in roles \cup Others
  PROVE  Uses(<<Copy(to, from)>>, roles)
<1> DEFINE ws == <<Copy(to, from)>>
<1>1. Len(ws) = 1 /\ ws[1] = Copy(to, from)
  OBVIOUS
<1> HIDE DEF ws
<1>2. Copy(to, from).to = to /\ Copy(to, from).from = <<from>>
  BY DEF Copy
<1>3. \A z \in DOMAIN <<from>> : <<from>>[z] = from
  OBVIOUS
<1>4. Uses(ws, roles)
  BY <1>1, <1>2, <1>3 DEF Uses
<1> QED BY <1>4 DEF ws

LEMMA ConcatUses ==
  ASSUME NEW a \in Seq(Write), NEW b \in Seq(Write), NEW roles, Uses(a, roles), Uses(b, roles)
  PROVE  Uses(a \o b, roles)
<1> DEFINE c == a \o b
<1>0. Len(a) \in Nat /\ Len(b) \in Nat
  OBVIOUS
<1>1. Len(c) = Len(a) + Len(b) /\ \A x \in 1 .. Len(a) : c[x] = a[x]
  BY ConcatFacts
<1>2. \A x \in Len(a) + 1 .. Len(a) + Len(b) : x - Len(a) \in 1 .. Len(b) /\ c[x] = b[x - Len(a)]
  BY ConcatFacts
<1> HIDE DEF c
<1>3. ASSUME NEW x \in 1 .. Len(c)
      PROVE  /\ c[x].to[1] \in roles \cup Others
             /\ \A z \in DOMAIN c[x].from : c[x].from[z][1] \in roles \cup Others
  <2>1. CASE x \in 1 .. Len(a)
    BY <1>1, <2>1 DEF Uses
  <2>2. CASE x \in Len(a) + 1 .. Len(a) + Len(b)
    BY <1>2, <2>2 DEF Uses
  <2> QED BY <1>0, <1>1, <2>1, <2>2
<1>4. Uses(c, roles)
  BY <1>3 DEF Uses
<1> QED BY <1>4 DEF c

\* Zeros of the target use no source.
LEMMA CoveredUses ==
  ASSUME NEW b \in Seq(Write), NEW lo, NEW hi, Covered(b, lo, hi), NoSources(b), NEW roles, "d" \in roles
  PROVE  Uses(b, roles)
<1>1. Len(b) \in Nat /\ \A x \in 1 .. Len(b) : DOMAIN b[x].from = {}
  BY DEF NoSources
<1> QED BY <1>1 DEF Covered, Uses

LEMMA ListOfOne ==
  ASSUME NEW wr \in Write
  PROVE  <<wr>> \in Seq(Write) /\ Len(<<wr>>) = 1 /\ <<wr>>[1] = wr
  OBVIOUS

LEMMA MemoryUses ==
  /\ \A n : Uses(Load(n, <<>>), {"d"}) /\ Uses(Store(n), {"d"})
  /\ Uses(Load(8, <<<<"d", 8, 1>>>>), {"d"})
<1>1. ASSUME NEW n PROVE Uses(Load(n, <<>>), {"d"}) /\ Uses(Store(n), {"d"})
  <2> DEFINE a == <<"d", n, 0>>
             b == <<"mem", n, 0>>
  <2>1. a[1] \in {"d"} \cup Others /\ b[1] \in {"d"} \cup Others
    BY DEF Others
  <2>2. Load(n, <<>>) = <<Copy(a, b)>> /\ Store(n) = <<Copy(b, a)>>
    BY PlainLoad DEF Store
  <2> HIDE DEF a, b
  <2> QED BY <2>1, <2>2, OneCopyUses
<1>2. Uses(Load(8, <<<<"d", 8, 1>>>>), {"d"})
  <2> DEFINE a == <<"d", 8, 0>>
             b == <<"mem", 8, 0>>
             c == <<"d", 8, 1>>
  <2>1. a \in Elem /\ b \in Elem /\ c \in Elem
    BY ElemIs DEF Roles4, Others, Widths
  <2>2. a[1] = "d" /\ b[1] = "mem" /\ c[1] = "d" /\ First(c) = 8 /\ c[2] = 8
    BY DEF First
  <2>3. Load(8, <<c>>) = <<Copy(a, b)>> \o [x \in DOMAIN <<c>> |-> ZeroAt(<<c>>[x])]
    BY DEF Load
  <2> HIDE DEF a, b, c
  <2>4. [x \in DOMAIN <<c>> |-> ZeroAt(<<c>>[x])] = <<ZeroAt(c)>>
    <3>1. DOMAIN <<c>> = 1 .. 1 /\ <<c>>[1] = c
      OBVIOUS
    <3>2. [x \in DOMAIN <<c>> |-> ZeroAt(<<c>>[x])] = [x \in 1 .. 1 |-> ZeroAt(c)]
      BY <3>1
    <3> QED BY <3>2
  <2>5. Copy(a, b) \in Write /\ ZeroAt(c) \in Write /\ ZeroAt(c).from = <<>> /\ ZeroAt(c).to = c
    BY <2>1, CopyWrite, ZeroWrite
  <2> DEFINE t == <<Copy(a, b)>>
             u == <<ZeroAt(c)>>
  <2>6. t \in Seq(Write) /\ u \in Seq(Write) /\ Len(u) = 1 /\ u[1] = ZeroAt(c)
    BY <2>5, ListOfOne
  <2>7. Uses(t, {"d"})
    BY <2>2, OneCopyUses DEF Others
  <2>8. Load(8, <<c>>) = t \o u
    BY <2>3, <2>4
  <2> HIDE DEF t, u
  <2>9. Covered(u, 8, 16) /\ NoSources(u)
    BY <2>2, <2>5, <2>6 DEF Covered, NoSources
  <2>10. Uses(u, {"d"})
    BY <2>6, <2>9, CoveredUses
  <2>11. Uses(t \o u, {"d"})
    BY <2>6, <2>7, <2>10, ConcatUses
  <2> QED BY <2>8, <2>11 DEF c
<1> QED BY <1>1, <1>2

LEMMA ForEachUses ==
  ASSUME NEW r, RowOk(r), NEW roles, "d" \in roles,
         \A x \in DOMAIN r.roles : r.roles[x] \in roles
  PROVE  Uses(ForEach(r), roles)
<1>1. ASSUME NEW x \in 1 .. Len(ForEach(r))
      PROVE  /\ ForEach(r)[x].to[1] \in roles \cup Others
             /\ \A z \in DOMAIN ForEach(r)[x].from : ForEach(r)[x].from[z][1] \in roles \cup Others
  <2>1. /\ ForEach(r)[x].to = <<"d", r.w, x - 1>>
        /\ ForEach(r)[x].from = [z \in DOMAIN r.roles |-> <<r.roles[z], r.w, x - 1>>]
    BY ForEachFacts
  <2>2. \A z \in DOMAIN r.roles : ForEach(r)[x].from[z][1] = r.roles[z]
    BY <2>1
  <2>3. DOMAIN ForEach(r)[x].from = DOMAIN r.roles /\ ForEach(r)[x].to[1] = "d"
    BY <2>1
  <2> QED BY <2>2, <2>3
<1> QED BY <1>1 DEF Uses

LEMMA HorizontalUses == Uses(HorizontalAdds["VHADDW_D_W"], {"d", "j", "k"})
<1> DEFINE a == SumPair(8, 0, "j", 0)
           b == SumPair(8, 1, "k", 0)
           t == <<a, b>>
<1>1. a \in Write /\ b \in Write
  BY SumPairFacts
<1>2. HorizontalAdds["VHADDW_D_W"] = t \o ClearHigh
  BY DEF HorizontalAdds
<1>3. /\ a.to[1] = "d" /\ \A z \in DOMAIN a.from : a.from[z][1] = "j"
      /\ b.to[1] = "d" /\ \A z \in DOMAIN b.from : b.from[z][1] = "k"
  BY DEF SumPair
<1> HIDE DEF a, b
<1>4. t \in Seq(Write) /\ Len(t) = 2 /\ t[1] = a /\ t[2] = b
  BY <1>1
<1> HIDE DEF t
<1>5. \A x \in 1 .. Len(t) : x = 1 \/ x = 2
  BY <1>4
<1>6. Uses(t, {"d", "j", "k"})
  BY <1>3, <1>4, <1>5 DEF Uses
<1>7. Uses(ClearHigh, {"d", "j", "k"})
  BY ClearHighFacts, CoveredUses
<1>8. Uses(t \o ClearHigh, {"d", "j", "k"})
  BY <1>4, <1>6, <1>7, ClearHighFacts, ConcatUses
<1> QED BY <1>2, <1>8

LEMMA FastUses ==
  ASSUME NEW op \in FastOps
  PROVE  \/ op \in Format4R
         \/ op \in FormatR3 /\ Uses(FastWrites[op], {"d", "j", "k"})
         \/ op \notin Format4R \cup FormatR3 /\ Uses(FastWrites[op], {"d", "j"})
<1>1. CASE op \in FastMemoryOps
  <2>1. Uses(FastWrites[op], {"d"})
    <3>1. \/ \E n : FastWrites[op] = Load(n, <<>>) \/ FastWrites[op] = Store(n)
          \/ FastWrites[op] = Load(8, <<<<"d", 8, 1>>>>)
      BY <1>1, FastMemoryIs DEF FastMemoryOps, VectorMemoryOps, WideMemoryOps
    <3> QED BY <3>1, MemoryUses
  <2>2. Uses(FastWrites[op], {"d", "j", "k"}) /\ Uses(FastWrites[op], {"d", "j"})
    BY <2>1 DEF Uses
  <2> QED BY <2>2
<1>2. CASE op \in {"VFADD_D", "FADD_D", "FMUL_D"}
  <2>1. PICK size \in {8, 16} : \E f \in {"+", "*"} : FastWrites[op] = ForEach(SizedRow(size, 8, f, JK))
    BY <1>2, FastVectorIs
  <2>2. PICK f \in {"+", "*"} : FastWrites[op] = ForEach(SizedRow(size, 8, f, JK))
    BY <2>1
  <2> DEFINE r == SizedRow(size, 8, f, JK)
  <2>3. RowOk(r)
    BY <2>1, <2>2, RoleLists, OperationNames DEF RowOk, SizedRow
  <2>4. r.roles = JK
    BY DEF SizedRow
  <2> HIDE DEF r
  <2>5. \A x \in DOMAIN JK : JK[x] \in {"d", "j", "k"}
    BY DEF JK
  <2>6. Uses(ForEach(r), {"d", "j", "k"})
    BY <2>3, <2>4, <2>5, ForEachUses
  <2> QED BY <1>2, <2>2, <2>6 DEF r, FormatR3
<1>3. CASE op = "VHADDW_D_W"
  BY <1>3, HorizontalUses, FastVectorIs DEF FormatR3
<1>4. CASE op \in {"VFMADD_D", "FMADD_D"}
  BY <1>4 DEF Format4R
<1> QED BY <1>1, <1>2, <1>3, <1>4 DEF FastOps

LEMMA DispatchCases ==
  ASSUME NEW m, NEW i, Instructed(i)
  PROVE  /\ i.op \notin FastOps => Dispatch(m, i) = Handle(m, i)
         /\ i.op \in FastMemoryOps /\ Refused(i) => Dispatch(m, i) = Trap(m, "fault")
         /\ i.op \in FastOps /\ ~ (i.op \in FastMemoryOps /\ Refused(i))
              => Dispatch(m, i) = Steps(m, i, FastWrites[i.op], i.op \in Buffered)
<1>1. FastMemoryOps \subseteq FastOps
  BY DEF FastOps
<1>2. ASSUME i.op \notin FastOps PROVE Dispatch(m, i) = Handle(m, i)
  BY <1>1, <1>2, FastDomains DEF Dispatch
<1>3. ASSUME i.op \in FastMemoryOps, Refused(i) PROVE Dispatch(m, i) = Trap(m, "fault")
  BY <1>1, <1>3, FastDomains DEF Dispatch
<1>4. ASSUME i.op \in FastOps, ~ (i.op \in FastMemoryOps /\ Refused(i))
      PROVE  Dispatch(m, i) = Steps(m, i, FastWrites[i.op], i.op \in Buffered)
  <2> DEFINE ws == FastWrites[i.op]
             h == Rewritten(i)
  <2>1. Dispatch(m, i) = IF i.op \in FastBuffered THEN Simultaneous(m, h, ws) ELSE InPlace(m, h, ws)
    BY <1>4, FastDomains DEF Dispatch
  <2>2. i.op \in FastBuffered <=> i.op \in Buffered
    BY <1>4 DEF FastOps, FastMemoryOps, VectorMemoryOps, WideMemoryOps, FastBuffered, Buffered
  <2>3. Valid(ws)
    BY <1>4, FastExtends, WritesValid
  <2>4. Named(i) /\ Formed(i)
    BY DEF Instructed
  <2>5. SameRoles(i, h, ws)
    <3>1. CASE i.op \in Format4R
      <4>1. h = i
        BY <2>4, <3>1, RewrittenFacts
      <4> QED BY <4>1 DEF SameRoles
    <3>2. CASE i.op \in FormatR3 /\ Uses(ws, {"d", "j", "k"})
      <4>1. {"d", "j", "k"} \in SUBSET Roles4 /\ \A r \in {"d", "j", "k"} : i[r] = h[r]
        BY <2>4, <3>2, RewrittenFacts DEF Roles4
      <4> HIDE DEF ws, h
      <4> QED BY <3>2, <4>1, UsesSameRoles
    <3>3. CASE i.op \notin Format4R \cup FormatR3 /\ Uses(ws, {"d", "j"})
      <4>1. {"d", "j"} \in SUBSET Roles4 /\ \A r \in {"d", "j"} : i[r] = h[r]
        BY <2>4, <3>3, RewrittenFacts DEF Roles4
      <4> HIDE DEF ws, h
      <4> QED BY <3>3, <4>1, UsesSameRoles
    <3> QED BY <1>4, <3>1, <3>2, <3>3, FastUses
  <2> HIDE DEF ws, h
  <2>6. \A locals : Steps(m, i, ws, locals) = Steps(m, h, ws, locals)
    BY <2>3, <2>5, UnusedRoles
  <2>7. Dispatch(m, i) = Steps(m, i, ws, i.op \in Buffered)
    <3>1. CASE i.op \in Buffered
      <4>1. (i.op \in Buffered) = TRUE
        BY <3>1
      <4> QED BY <2>1, <2>2, <2>6, <4>1 DEF Simultaneous
    <3>2. CASE i.op \notin Buffered
      <4>1. (i.op \in Buffered) = FALSE
        BY <3>2
      <4> QED BY <2>1, <2>2, <2>6, <4>1 DEF InPlace
    <3> QED BY <3>1, <3>2
  <2> QED BY <2>7 DEF ws
<1> QED BY <1>2, <1>3, <1>4

---------------------------------------------------------------------------
(* The upper half of a register.                                           *)

LEMMA TrapUnseen ==
  ASSUME NEW m, Machine(m), NEW g, Machine(g), SameVisible(m, g), NEW t
  PROVE  SameVisible(Trap(m, t), Trap(g, t))
<1>1. /\ Trap(m, t).trap = t /\ Trap(m, t).bytes = m.bytes
      /\ Trap(g, t).trap = t /\ Trap(g, t).bytes = g.bytes
  BY TrapFacts
<1> QED BY <1>1 DEF SameVisible

LEMMA NarrowInstructed ==
  ASSUME NEW i, Instructed(i), ~ Wide(i.op)
  PROVE  i.op \notin WideMemoryOps /\ (i.op \notin Raising => i.op \in NarrowOps)
<1>1. i.op \notin WideOps /\ i.op \in Ops
  BY WideIs DEF Instructed
<1> QED BY <1>1, OpsAre DEF WideOps

LEMMA HandleUnseen ==
  ASSUME NEW m, Machine(m), NEW g, Machine(g), SameVisible(m, g), NEW i, Instructed(i), ~ Wide(i.op)
  PROVE  SameVisible(Handle(m, i), Handle(g, i))
<1>1. CASE i.op \in Raising \/ Illegal(i)
  BY <1>1, HandleCases, TrapUnseen
<1>2. CASE i.op \in DOMAIN Memory /\ Refused(i)
  BY <1>2, HandleCases, TrapUnseen
<1>3. CASE ~ (i.op \in Raising \/ Illegal(i)) /\ ~ (i.op \in DOMAIN Memory /\ Refused(i))
  <2>1. i.op \in NarrowOps /\ i.imm \in Imms(i.op) /\ Named(i) /\ ~ Illegal(i)
    BY <1>3, NarrowInstructed DEF Instructed
  <2>2. Valid(Writes(i)) /\ Low(Writes(i))
    BY <2>1, NarrowWrites, WritesValid
  <2>3. SameVisible(Steps(m, i, Writes(i), i.op \in Buffered), Steps(g, i, Writes(i), i.op \in Buffered))
    BY <2>1, <2>2, LowUnseen
  <2>4. /\ Handle(m, i) = Steps(m, i, Writes(i), i.op \in Buffered)
        /\ Handle(g, i) = Steps(g, i, Writes(i), i.op \in Buffered)
    BY <1>3, HandleCases
  <2> QED BY <2>3, <2>4
<1> QED BY <1>1, <1>2, <1>3

LEMMA DispatchUnseen ==
  ASSUME NEW m, Machine(m), NEW g, Machine(g), SameVisible(m, g), NEW i, Instructed(i), ~ Wide(i.op)
  PROVE  SameVisible(Dispatch(m, i), Dispatch(g, i))
<1>1. CASE i.op \notin FastOps
  BY <1>1, DispatchCases, HandleUnseen
<1>2. CASE i.op \in FastMemoryOps /\ Refused(i)
  BY <1>2, DispatchCases, TrapUnseen
<1>3. CASE i.op \in FastOps /\ ~ (i.op \in FastMemoryOps /\ Refused(i))
  <2>1. Valid(FastWrites[i.op]) /\ Low(FastWrites[i.op])
    BY <1>3, NarrowInstructed, FastExtends, WritesValid
  <2>2. SameVisible(Steps(m, i, FastWrites[i.op], i.op \in Buffered), Steps(g, i, FastWrites[i.op], i.op \in Buffered))
    BY <2>1, LowUnseen DEF Instructed
  <2>3. /\ Dispatch(m, i) = Steps(m, i, FastWrites[i.op], i.op \in Buffered)
        /\ Dispatch(g, i) = Steps(g, i, FastWrites[i.op], i.op \in Buffered)
    BY <1>3, DispatchCases
  <2> QED BY <2>2, <2>3
<1> QED BY <1>1, <1>2, <1>3

LEMMA EmittedUnseen ==
  ASSUME NEW m, Machine(m), NEW g, Machine(g), SameVisible(m, g), NEW i, Instructed(i), ~ Wide(i.op)
  PROVE  SameVisible(Emitted(m, i), Emitted(g, i))
<1>0. Named(i) /\ i.imm \in Imms(i.op)
  BY DEF Instructed
<1>1. ASSUME NEW ws \in Seq(Write), Low(ws) PROVE SameVisible(Steps(m, i, ws, FALSE), Steps(g, i, ws, FALSE))
  BY <1>0, <1>1, WritesValid, LowUnseen
<1>2. CASE i.op \in FloatMemoryOps \cup VectorMemoryOps
  <2>1. EmittedMemory[i.op] \in Seq(Write) /\ Low(EmittedMemory[i.op])
    BY <1>2, EmittedMemoryExtends
  <2>2. /\ Emitted(m, i) = IF EmittedRefused(i) THEN Trap(m, "fault") ELSE Steps(m, i, EmittedMemory[i.op], FALSE)
        /\ Emitted(g, i) = IF EmittedRefused(i) THEN Trap(g, "fault") ELSE Steps(g, i, EmittedMemory[i.op], FALSE)
    BY <1>2, EmittedCases
  <2>3. SameVisible(Trap(m, "fault"), Trap(g, "fault"))
    BY TrapUnseen
  <2>4. SameVisible(Steps(m, i, EmittedMemory[i.op], FALSE), Steps(g, i, EmittedMemory[i.op], FALSE))
    BY <1>1, <2>1
  <2>5. CASE EmittedRefused(i)
    BY <2>2, <2>3, <2>5
  <2>6. CASE ~ EmittedRefused(i)
    BY <2>2, <2>4, <2>6
  <2> QED BY <2>5, <2>6
<1>3. CASE i.op \in ScalarOps \ {"FCLASS_S", "FCLASS_D"}
  <2> DEFINE code == ForEach(EmittedScalar[i.op])
  <2>1. code \in Seq(Write) /\ Low(code)
    BY <1>3, EmittedScalarExtends
  <2>2. Emitted(m, i) = Steps(m, i, code, FALSE) /\ Emitted(g, i) = Steps(g, i, code, FALSE)
    BY <1>3, EmittedCases
  <2> HIDE DEF code
  <2> QED BY <1>1, <2>1, <2>2
<1>4. CASE i.op \in {"VFADD_D", "VFMADD_D"}
  <2> DEFINE code == ForEach(EmittedVector[i.op])
  <2>1. code \in Seq(Write) /\ Low(code)
    BY <1>4, EmittedVectorExtends
  <2>2. Emitted(m, i) = Steps(m, i, code, FALSE) /\ Emitted(g, i) = Steps(g, i, code, FALSE)
    BY <1>4, EmittedCases
  <2> HIDE DEF code
  <2> QED BY <1>1, <2>1, <2>2
<1>5. CASE i.op = "VLDI" /\ ~ Illegal(i)
  <2>1. i.op \in NarrowOps
    BY <1>5 DEF NarrowOps
  <2>2. Writes(i) = LsxImmediate(i)
    BY <1>5, WritesCases
  <2>3. LsxImmediate(i) \in Seq(Write) /\ Low(LsxImmediate(i))
    BY <1>0, <1>5, <2>1, <2>2, NarrowWrites
  <2>4. Emitted(m, i) = Steps(m, i, LsxImmediate(i), FALSE) /\ Emitted(g, i) = Steps(g, i, LsxImmediate(i), FALSE)
    BY <1>5, EmittedCases
  <2> QED BY <1>1, <2>3, <2>4
<1>6. CASE Emitted(m, i) = Handle(m, i) /\ Emitted(g, i) = Handle(g, i)
  BY <1>6, HandleUnseen
<1> QED BY <1>2, <1>3, <1>4, <1>5, <1>6, EmittedCases

\* No engine lets a 128-bit or scalar instruction show what is in the upper half
\* of a register: two machines that differ there alone stay indistinguishable.
THEOREM UpperHalfHidden == Spec => []UpperHalfUnseen
<1>1. Executed => UpperHalfUnseen
  <2> SUFFICES ASSUME Executed, Ran, ~ Wide(last.op), NEW e \in Engines, NEW g \in Starts, SameVisible(start, g)
               PROVE  SameVisible(engine[e], Run(e, g, last))
    BY DEF UpperHalfUnseen
  <2>1. Machine(start) /\ Machine(g) /\ Instructed(last)
    BY RanInstructed, RunningMachine, InstructionsAssumption DEF Executed
  <2>2. engine[e] = Run(e, start, last)
    BY RanInstructed
  <2>3. CASE e = "handler"
    <3>1. \A m : Run(e, m, last) = Handle(m, last)
      BY <2>3 DEF Run
    <3> QED BY <2>1, <2>2, <3>1, HandleUnseen
  <2>4. CASE e = "fast"
    <3>1. \A m : Run(e, m, last) = Dispatch(m, last)
      BY <2>4 DEF Run
    <3> QED BY <2>1, <2>2, <3>1, DispatchUnseen
  <2>5. CASE e = "emitted"
    <3>1. \A m : Run(e, m, last) = Emitted(m, last)
      BY <2>5 DEF Run
    <3> QED BY <2>1, <2>2, <3>1, EmittedUnseen
  <2> QED BY <2>3, <2>4, <2>5 DEF Engines
<1> QED BY <1>1, EnginesRan, PTL

---------------------------------------------------------------------------
(* The engines beside the handlers.                                        *)

\* What an engine's machine g may differ in from the handler's machine h.
ScalarLoads == {"FLD_S", "FLDX_S", "FLD_D"}
Absolutes == {"FABS_S", "FABS_D"}
Beside(g, h) == \A p \in Places \ {"mem"} : g.bytes[p] = h.bytes[p]
Differs(emitted, i, g, h) ==
  \/ g = h
  \/ i.op \in KeepsUpper /\ SameBut(g, h, i, 16, 32)
  \/ emitted /\ i.op \in ScalarLoads /\ SameBut(g, h, i, 4, 16)
  \/ emitted /\ i.op \in Absolutes /\ SameBut(g, h, i, 0, 16)
  \/ emitted /\ Strays("emitted", i) /\ Beside(g, h)

LEMMA SameButBoth ==
  ASSUME NEW a, NEW g, NEW h, NEW i, NEW lo, NEW hi, SameBut(a, g, i, lo, hi), SameBut(a, h, i, lo, hi)
  PROVE  SameBut(g, h, i, lo, hi)
<1>1. g.trap = h.trap
  BY DEF SameBut
<1>2. ASSUME NEW p \in Places, NEW n \in 0 .. 31, ~ (p = i.d /\ lo <= n /\ n < hi)
      PROVE  g.bytes[p][n] = h.bytes[p][n]
  <2>1. a.bytes[p][n] = g.bytes[p][n]
    BY <1>2 DEF SameBut
  <2>2. a.bytes[p][n] = h.bytes[p][n]
    BY <1>2 DEF SameBut
  <2> QED BY <2>1, <2>2
<1> QED BY <1>1, <1>2 DEF SameBut

LEMMA FastLegal ==
  ASSUME NEW i, i.op \in FastOps
  PROVE  i.op \notin Raising /\ ~ Illegal(i) /\ (i.op \in DOMAIN Memory <=> i.op \in FastMemoryOps)
<1>1. i.op \notin CompareOps \cup {"VFCMP_COND_D", "VLDI", "XVLDI"} \cup Raising
  BY DEF FastOps, FastMemoryOps, VectorMemoryOps, WideMemoryOps, CompareOps, Raising
<1>2. i.op \in MemoryOps <=> i.op \in FastMemoryOps
  BY DEF FastOps, FastMemoryOps, MemoryOps, VectorMemoryOps, WideMemoryOps, FloatMemoryOps
<1> QED BY <1>1, <1>2, OtherDomains, MemoryDomain DEF Illegal

LEMMA DispatchDiffers ==
  ASSUME NEW m, Machine(m), NEW i, Instructed(i)
  PROVE  Differs(FALSE, i, Dispatch(m, i), Handle(m, i))
<1>1. CASE i.op \notin FastOps
  BY <1>1, DispatchCases DEF Differs
<1>2. CASE i.op \in FastMemoryOps /\ Refused(i)
  <2>1. i.op \in FastOps
    BY <1>2 DEF FastOps
  <2> QED BY <1>2, <2>1, FastLegal, DispatchCases, HandleCases DEF Differs
<1>3. CASE i.op \in FastOps /\ ~ (i.op \in FastMemoryOps /\ Refused(i))
  <2> DEFINE l == i.op \in Buffered
             ws == FastWrites[i.op]
  <2>1. Dispatch(m, i) = Steps(m, i, ws, l) /\ Handle(m, i) = Steps(m, i, Writes(i), l)
    BY <1>3, FastLegal, DispatchCases, HandleCases
  <2>2. Valid(ws)
    BY <1>3, FastExtends, WritesValid
  <2>3. CASE i.op \in KeepsUpper
    <3>1. Extends(Writes(i), ws, 16, 32)
      BY <1>3, <2>3, FastExtends
    <3> HIDE DEF l, ws
    <3>2. SameBut(Steps(m, i, ws, l), Steps(m, i, Writes(i), l), i, 16, 32)
      BY <2>2, <3>1, ExtendedSteps DEF Instructed
    <3> QED BY <2>1, <2>3, <3>2 DEF Differs
  <2>4. CASE i.op \notin KeepsUpper
    <3>1. Writes(i) = ws
      BY <1>3, <2>4, FastExtends
    <3> HIDE DEF l, ws
    <3> QED BY <2>1, <3>1 DEF Differs
  <2> QED BY <2>3, <2>4
<1> QED BY <1>1, <1>2, <1>3

LEMMA EmittedLegal ==
  ASSUME NEW i, i.op \in FloatMemoryOps \cup VectorMemoryOps \cup ScalarOps \cup {"VFADD_D", "VFMADD_D"}
  PROVE  /\ i.op \notin Raising /\ ~ Illegal(i) /\ i.op \notin Buffered
         /\ i.op \in DOMAIN Memory <=> i.op \in FloatMemoryOps \cup VectorMemoryOps
<1>1. i.op \notin CompareOps \cup {"VFCMP_COND_D", "VLDI", "XVLDI"} \cup Raising \cup Buffered
  BY DEF FloatMemoryOps, VectorMemoryOps, ScalarOps, CompareOps, Raising, Buffered
<1>2. i.op \in MemoryOps <=> i.op \in FloatMemoryOps \cup VectorMemoryOps
  BY DEF MemoryOps, VectorMemoryOps, WideMemoryOps, FloatMemoryOps, ScalarOps
<1> QED BY <1>1, <1>2, OtherDomains, MemoryDomain DEF Illegal

LEMMA UnbufferedHandle ==
  ASSUME NEW m, NEW i, i.op \notin Raising, ~ Illegal(i), i.op \notin Buffered, ~ (i.op \in DOMAIN Memory /\ Refused(i))
  PROVE  Handle(m, i) = Steps(m, i, Writes(i), FALSE)
<1>1. (i.op \in Buffered) = FALSE
  OBVIOUS
<1> QED BY <1>1, HandleCases

\* A store changes the memory its address leads to.
LEMMA StoreBytes ==
  ASSUME NEW m, Machine(m), NEW i, Named(i), NEW N \in {4, 8, 16}, NEW l
  PROVE  \A p \in Places \ {"mem"} : Steps(m, i, Store(N), l).bytes[p] = m.bytes[p]
<1> DEFINE to == <<"mem", N, 0>>
           from == <<"d", N, 0>>
           c == Copy(to, from)
           ws == <<c>>
           g == Steps(m, i, ws, l)
<1>1. Store(N) = ws
  BY DEF Store
<1>2. to \in Elem /\ from \in Elem
  BY DEF Elem, Others, Roles4, Widths
<1>3. Place(i, to[1]) = "mem"
  BY DEF Place
<1>4. c \in Write /\ c.to = to
  BY <1>2, CopyWrite DEF Copy
<1> HIDE DEF to, from, c
<1>5. ws \in Seq(Write) /\ Len(ws) = 1 /\ ws[1] = c /\ Valid(ws)
  <2>1. \A x \in Write : <<x>> \in Seq(Write) /\ Len(<<x>>) = 1 /\ <<x>>[1] = x
    OBVIOUS
  <2> QED BY <1>4, <2>1, WritesValid
<1> HIDE DEF ws
<1> DEFINE v == Result(m, i, c)
<1>6. g = Put(m, i, to, v)
  <2>0. Len(ws) \in Nat
    BY <1>5
  <2>4. \E s : Chain(m, i, ws, l, s) /\ Steps(m, i, ws, l) = s[Len(ws)]
    BY ONLY <2>0, StepsChain
  <2>1. PICK s : Chain(m, i, ws, l, s) /\ g = s[1]
    BY <1>5, <2>4
  <2>2. s[1] = Put(s[0], i, ws[1].to, Result(IF l THEN m ELSE s[0], i, ws[1])) /\ s[0] = m
    BY <1>5, <2>1 DEF Chain
  <2>3. (IF l THEN m ELSE s[0]) = m
    BY <2>2
  <2> HIDE DEF g
  <2> QED BY <1>4, <1>5, <2>1, <2>2, <2>3
<1> HIDE DEF v, g
<1>7. Machine(g)
  BY <1>2, <1>6, PutFacts
<1>8. ASSUME NEW p \in Places \ {"mem"} PROVE g.bytes[p] = m.bytes[p]
  <2>1. ASSUME NEW n \in 0 .. 31 PROVE g.bytes[p][n] = m.bytes[p][n]
    <3>1. ~ Covers(i, to, p, n)
      BY <1>3 DEF Covers
    <3> QED BY <1>2, <1>6, <3>1, PutFacts
  <2>2. g.bytes = [q \in Places |-> [n \in 0 .. 31 |-> g.bytes[q][n]]]
    BY <1>7 DEF Machine
  <2>3. m.bytes = [q \in Places |-> [n \in 0 .. 31 |-> m.bytes[q][n]]]
    BY DEF Machine
  <2>4. g.bytes[p] = [n \in 0 .. 31 |-> g.bytes[p][n]] /\ m.bytes[p] = [n \in 0 .. 31 |-> m.bytes[p][n]]
    BY <2>2, <2>3
  <2> QED BY <2>1, <2>4
<1> QED BY <1>1, <1>8 DEF g

LEMMA EmittedDiffers ==
  ASSUME NEW m, Machine(m), NEW i, Instructed(i)
  PROVE  Differs(TRUE, i, Emitted(m, i), Handle(m, i))
<1>0. Named(i)
  BY DEF Instructed
<1>1. ASSUME NEW ws \in Seq(Write), NEW lo \in Nat, NEW hi \in Nat, Extends(Writes(i), ws, lo, hi)
      PROVE  SameBut(Steps(m, i, ws, FALSE), Steps(m, i, Writes(i), FALSE), i, lo, hi)
  BY <1>0, <1>1, WritesValid, ExtendedSteps
<1>2. CASE i.op \in FloatMemoryOps \cup VectorMemoryOps
  <2> DEFINE ws == EmittedMemory[i.op]
  <2>1. /\ ws \in Seq(Write)
        /\ i.op \in {"VLD", "VLDX"} => Extends(Writes(i), ws, 16, 32)
        /\ i.op \in ScalarLoads => Extends(Writes(i), ws, 4, 16)
        /\ i.op \notin {"VLD", "VLDX"} \cup ScalarLoads => Writes(i) = ws
    BY <1>2, EmittedMemoryExtends DEF ScalarLoads
  <2>2. Emitted(m, i) = IF EmittedRefused(i) THEN Trap(m, "fault") ELSE Steps(m, i, ws, FALSE)
    BY <1>2, EmittedCases
  <2> HIDE DEF ws
  <2>5. /\ EmittedRefused(i) => Refused(i)
        /\ Refused(i) => EmittedRefused(i) \/ Strays("emitted", i)
    BY <1>2 DEF Refused, EmittedRefused, Strays, Stores, FloatMemoryOps, VectorMemoryOps
  <2>3. CASE EmittedRefused(i)
    BY <1>2, <2>2, <2>3, <2>5, EmittedLegal, HandleCases DEF Differs
  <2>6. CASE ~ EmittedRefused(i) /\ Refused(i)
    <3> DEFINE g == Steps(m, i, ws, FALSE)
               h == Trap(m, "fault")
    <3>1. Emitted(m, i) = g /\ Handle(m, i) = h
      BY <1>2, <2>2, <2>6, EmittedLegal, HandleCases
    <3>2. Strays("emitted", i)
      BY <2>5, <2>6
    <3>3. \E n \in {4, 8, 16} : ws = Store(n)
      BY <1>2, <3>2, EmittedMemoryIs DEF Strays, Stores, ws
    <3>4. \A p \in Places \ {"mem"} : g.bytes[p] = m.bytes[p]
      <4>1. PICK n \in {4, 8, 16} : ws = Store(n)
        BY <3>3
      <4>2. ASSUME NEW l PROVE \A p \in Places \ {"mem"} : Steps(m, i, Store(n), l).bytes[p] = m.bytes[p]
        BY <1>0, StoreBytes
      <4> QED BY <4>1, <4>2
    <3>5. h.bytes = m.bytes
      BY TrapFacts
    <3> HIDE DEF g, h
    <3> QED BY <3>1, <3>2, <3>4, <3>5 DEF Differs, Beside
  <2>4. CASE ~ Refused(i)
    <3>1. Emitted(m, i) = Steps(m, i, ws, FALSE) /\ Handle(m, i) = Steps(m, i, Writes(i), FALSE)
      BY <1>2, <2>2, <2>4, <2>5, EmittedLegal, UnbufferedHandle
    <3>2. CASE i.op \in {"VLD", "VLDX"}
      <4>1. SameBut(Steps(m, i, ws, FALSE), Steps(m, i, Writes(i), FALSE), i, 16, 32)
        BY <1>1, <2>1, <3>2
      <4> QED BY <3>1, <3>2, <4>1 DEF Differs, KeepsUpper
    <3>3. CASE i.op \in ScalarLoads
      <4>1. SameBut(Steps(m, i, ws, FALSE), Steps(m, i, Writes(i), FALSE), i, 4, 16)
        BY <1>1, <2>1, <3>3
      <4> QED BY <3>1, <3>3, <4>1 DEF Differs
    <3>4. CASE i.op \notin {"VLD", "VLDX"} \cup ScalarLoads
      BY <2>1, <3>1, <3>4 DEF Differs
    <3> QED BY <3>2, <3>3, <3>4
  <2> QED BY <2>3, <2>4, <2>6
<1>3. CASE i.op \in ScalarOps \ {"FCLASS_S", "FCLASS_D"}
  <2> DEFINE code == ForEach(EmittedScalar[i.op])
  <2>1. /\ code \in Seq(Write)
        /\ i.op \in Absolutes => Extends(Writes(i), <<>>, 0, 16) /\ Extends(code, <<>>, 0, 16)
        /\ i.op \notin Absolutes => Writes(i) = code
    BY <1>3, EmittedScalarExtends DEF Absolutes
  <2>2. Emitted(m, i) = Steps(m, i, code, FALSE)
    BY <1>3, EmittedCases
  <2> HIDE DEF code
  <2>3. i.op \notin FloatMemoryOps \cup VectorMemoryOps
    BY <1>3 DEF ScalarOps, FloatMemoryOps, VectorMemoryOps
  <2>4. Handle(m, i) = Steps(m, i, Writes(i), FALSE)
    BY <1>3, <2>3, EmittedLegal, UnbufferedHandle
  <2>5. CASE i.op \in Absolutes
    <3> DEFINE none == <<>>
    <3>1. none \in Seq(Write)
      OBVIOUS
    <3>2. Extends(Writes(i), none, 0, 16) /\ Extends(code, none, 0, 16)
      BY <2>1, <2>5
    <3> HIDE DEF none
    <3>3. SameBut(Steps(m, i, none, FALSE), Steps(m, i, Writes(i), FALSE), i, 0, 16)
      BY <1>1, <3>1, <3>2
    <3>4. SameBut(Steps(m, i, none, FALSE), Steps(m, i, code, FALSE), i, 0, 16)
      BY <1>0, <3>1, <3>2, WritesValid, ExtendedSteps
    <3> DEFINE neither == Steps(m, i, none, FALSE)
               g == Emitted(m, i)
               h == Handle(m, i)
    <3>5. SameBut(neither, g, i, 0, 16) /\ SameBut(neither, h, i, 0, 16)
      BY <2>2, <2>4, <3>3, <3>4
    <3> HIDE DEF neither, g, h
    <3>6. SameBut(g, h, i, 0, 16)
      BY <3>5, SameButBoth
    <3> QED BY <2>5, <3>6 DEF Differs, g, h
  <2>6. CASE i.op \notin Absolutes
    BY <2>1, <2>2, <2>4, <2>6 DEF Differs
  <2> QED BY <2>5, <2>6
<1>4. CASE i.op \in {"VFADD_D", "VFMADD_D"}
  <2> DEFINE code == ForEach(EmittedVector[i.op])
  <2>1. code \in Seq(Write) /\ Extends(Writes(i), code, 16, 32)
    BY <1>4, EmittedVectorExtends
  <2>2. Emitted(m, i) = Steps(m, i, code, FALSE)
    BY <1>4, EmittedCases
  <2> HIDE DEF code
  <2>3. i.op \notin FloatMemoryOps \cup VectorMemoryOps
    BY <1>4 DEF FloatMemoryOps, VectorMemoryOps
  <2>4. Handle(m, i) = Steps(m, i, Writes(i), FALSE)
    BY <1>4, <2>3, EmittedLegal, UnbufferedHandle
  <2>5. SameBut(Steps(m, i, code, FALSE), Steps(m, i, Writes(i), FALSE), i, 16, 32)
    BY <1>1, <2>1
  <2> QED BY <1>4, <2>2, <2>4, <2>5 DEF Differs, KeepsUpper
<1>5. CASE i.op = "VLDI" /\ ~ Illegal(i)
  <2>1. Writes(i) = LsxImmediate(i)
    BY <1>5, WritesCases
  <2>2. Emitted(m, i) = Steps(m, i, LsxImmediate(i), FALSE)
    BY <1>5, EmittedCases
  <2>3. i.op \notin Raising /\ i.op \notin Buffered /\ i.op \notin DOMAIN Memory
    BY <1>5, MemoryDomain DEF Raising, Buffered, MemoryOps, FloatMemoryOps, VectorMemoryOps, WideMemoryOps
  <2>4. Handle(m, i) = Steps(m, i, Writes(i), FALSE)
    BY <1>5, <2>3, UnbufferedHandle
  <2> QED BY <2>1, <2>2, <2>4 DEF Differs
<1>6. CASE Emitted(m, i) = Handle(m, i)
  BY <1>6 DEF Differs
<1> QED BY <1>2, <1>3, <1>4, <1>5, <1>6, EmittedCases

LEMMA DiffersTyped ==
  ASSUME NEW m, Machine(m), NEW i, Instructed(i), i.op \in KeepsUpper \cup ScalarLoads \cup Absolutes
  PROVE  Machine(Handle(m, i)) /\ Machine(Dispatch(m, i)) /\ Machine(Emitted(m, i))
<1>0. Named(i) /\ i.imm \in Imms(i.op)
  BY DEF Instructed
<1>1. i.op \in NarrowOps /\ i.op \notin Raising
  BY DEF KeepsUpper, ScalarLoads, Absolutes, NarrowOps, LsxOps, ScalarOps, FloatMemoryOps, VectorMemoryOps, Raising
<1>2. ASSUME NEW ws \in Seq(Write), NEW l PROVE Machine(Steps(m, i, ws, l))
  BY <1>0, WritesValid, StepsTyped
<1>3. \A t : Machine(Trap(m, t))
  BY TrapFacts
<1>4. Machine(Handle(m, i))
  <2>1. CASE i.op \in Raising \/ Illegal(i)
    BY <1>3, <2>1, HandleCases
  <2>2. CASE i.op \in DOMAIN Memory /\ Refused(i)
    BY <1>3, <2>2, HandleCases
  <2>3. CASE ~ (i.op \in Raising \/ Illegal(i)) /\ ~ (i.op \in DOMAIN Memory /\ Refused(i))
    <3>1. Writes(i) \in Seq(Write)
      BY <1>0, <1>1, <2>3, NarrowWrites
    <3> QED BY <1>2, <2>3, <3>1, HandleCases
  <2> QED BY <2>1, <2>2, <2>3
<1>5. Machine(Dispatch(m, i))
  <2>1. CASE i.op \notin FastOps
    BY <1>4, <2>1, DispatchCases
  <2>2. CASE i.op \in FastMemoryOps /\ Refused(i)
    BY <1>3, <2>2, DispatchCases
  <2>3. CASE i.op \in FastOps /\ ~ (i.op \in FastMemoryOps /\ Refused(i))
    BY <1>2, <2>3, DispatchCases, FastExtends
  <2> QED BY <2>1, <2>2, <2>3
<1>6. Machine(Emitted(m, i))
  <2>1. CASE i.op \in FloatMemoryOps \cup VectorMemoryOps
    <3>1. Machine(Steps(m, i, EmittedMemory[i.op], FALSE))
      BY <1>2, <2>1, EmittedMemoryExtends
    <3>2. Emitted(m, i) = IF EmittedRefused(i) THEN Trap(m, "fault") ELSE Steps(m, i, EmittedMemory[i.op], FALSE)
      BY <2>1, EmittedCases
    <3> QED BY <1>3, <3>1, <3>2
  <2>2. CASE i.op \in ScalarOps \ {"FCLASS_S", "FCLASS_D"}
    <3>1. ForEach(EmittedScalar[i.op]) \in Seq(Write)
      BY <2>2, EmittedScalarExtends
    <3> QED BY <1>2, <2>2, <3>1, EmittedCases
  <2>3. CASE i.op \in {"VFADD_D", "VFMADD_D"}
    <3>1. ForEach(EmittedVector[i.op]) \in Seq(Write)
      BY <2>3, EmittedVectorExtends
    <3> QED BY <1>2, <2>3, <3>1, EmittedCases
  <2>4. i.op \in FloatMemoryOps \cup VectorMemoryOps \cup (ScalarOps \ {"FCLASS_S", "FCLASS_D"})
    \/ i.op \in {"VFADD_D", "VFMADD_D"}
    BY DEF KeepsUpper, ScalarLoads, Absolutes, FloatMemoryOps, VectorMemoryOps, ScalarOps
  <2> QED BY <2>1, <2>2, <2>3, <2>4
<1> QED BY <1>4, <1>5, <1>6

\* What the machines of two engines may differ in, as the property says it.
LEMMA Agreement ==
  ASSUME NEW g, Machine(g), NEW h, Machine(h), NEW i, Named(i), NEW lo \in Nat, NEW hi \in Nat, SameBut(g, h, i, lo, hi)
  PROVE  /\ g.trap = h.trap
         /\ \A p \in Places \ {i.d} : g.bytes[p] = h.bytes[p]
         /\ \A n \in 0 .. 31 : ~ (lo <= n /\ n < hi) => g.bytes[i.d][n] = h.bytes[i.d][n]
<1>1. ASSUME NEW p \in Places \ {i.d} PROVE g.bytes[p] = h.bytes[p]
  <2>1. \A n \in 0 .. 31 : g.bytes[p][n] = h.bytes[p][n]
    BY DEF SameBut
  <2>2. g.bytes = [q \in Places |-> [n \in 0 .. 31 |-> g.bytes[q][n]]]
    BY DEF Machine
  <2>3. h.bytes = [q \in Places |-> [n \in 0 .. 31 |-> h.bytes[q][n]]]
    BY DEF Machine
  <2>4. g.bytes[p] = [n \in 0 .. 31 |-> g.bytes[p][n]] /\ h.bytes[p] = [n \in 0 .. 31 |-> h.bytes[p][n]]
    BY <2>2, <2>3
  <2> QED BY <2>1, <2>4
<1>2. i.d \in Places
  BY DEF Named, Places
<1> QED BY <1>1, <1>2 DEF SameBut

\* The bytecodes of the fast dispatch and the C the translator emits trap where
\* the handler does and leave what it leaves, for every machine and every choice
\* of registers and address, but for the bytes the property names and the stores
\* whose emitted check admits an address the handler's refuses.
THEOREM AllEnginesAgree == Spec => []EnginesAgree
<1>1. Executed => EnginesAgree
  <2> SUFFICES ASSUME Executed, Ran, NEW e \in {"fast", "emitted"}
               PROVE  /\ ~Strays(e, last) => engine[e].trap = engine["handler"].trap
                      /\ \A p \in Places \ {last.d} :
                           ~(Strays(e, last) /\ p = "mem") => engine[e].bytes[p] = engine["handler"].bytes[p]
                      /\ ~(e = "emitted" /\ last.op \in {"FABS_S", "FABS_D"})
                           => Bytes(e, last.d, 0 .. 3) = Bytes("handler", last.d, 0 .. 3)
                      /\ ~(e = "emitted" /\ last.op \in {"FABS_S", "FABS_D", "FLD_S", "FLDX_S", "FLD_D"})
                           => Bytes(e, last.d, 0 .. 15) = Bytes("handler", last.d, 0 .. 15)
                      /\ ~(last.op \in KeepsUpper)
                           => Bytes(e, last.d, 16 .. 31) = Bytes("handler", last.d, 16 .. 31)
    BY DEF EnginesAgree
  <2>1. Machine(start) /\ Instructed(last) /\ Named(last)
    BY RanInstructed, RunningMachine, InstructionsAssumption DEF Executed, Instructed
  <2> DEFINE g == engine[e]
             h == engine["handler"]
  <2>2. h = Handle(start, last)
    BY RanInstructed DEF Engines, Run
  <2>3. Differs(e = "emitted", last, g, h)
    <3>1. CASE e = "fast"
      <4>1. g = Dispatch(start, last)
        BY <3>1, RanInstructed DEF Engines, Run
      <4> QED BY <2>1, <2>2, <4>1, DispatchDiffers DEF Differs
    <3>2. CASE e = "emitted"
      <4>1. g = Emitted(start, last)
        BY <3>2, RanInstructed DEF Engines, Run
      <4> QED BY <2>1, <2>2, <3>2, <4>1, EmittedDiffers DEF Differs
    <3> QED BY <3>1, <3>2
  <2>4. last.op \in KeepsUpper \cup ScalarLoads \cup Absolutes => Machine(g) /\ Machine(h)
    <3>1. CASE e = "fast"
      <4>1. g = Dispatch(start, last)
        BY <3>1, RanInstructed DEF Engines, Run
      <4> QED BY <2>1, <2>2, <4>1, DiffersTyped
    <3>2. CASE e = "emitted"
      <4>1. g = Emitted(start, last)
        BY <3>2, RanInstructed DEF Engines, Run
      <4> QED BY <2>1, <2>2, <4>1, DiffersTyped
    <3> QED BY <3>1, <3>2
  <2>6. ASSUME NEW range, \A n \in range : g.bytes[last.d][n] = h.bytes[last.d][n]
        PROVE  Bytes(e, last.d, range) = Bytes("handler", last.d, range)
    <3>1. Bytes(e, last.d, range) = [n \in range |-> g.bytes[last.d][n]]
      BY DEF Bytes
    <3>2. Bytes("handler", last.d, range) = [n \in range |-> h.bytes[last.d][n]]
      BY DEF Bytes
    <3> HIDE DEF g, h
    <3>3. [n \in range |-> g.bytes[last.d][n]] = [n \in range |-> h.bytes[last.d][n]]
      BY <2>6
    <3> QED BY <3>1, <3>2, <3>3
  <2> HIDE DEF g, h
  <2>7. KeepsUpper \cap (ScalarLoads \cup Absolutes) = {} /\ ScalarLoads \cap Absolutes = {}
    BY DEF KeepsUpper, ScalarLoads, Absolutes
  <2>8. \A n : (n \in 0 .. 3 \/ n \in 0 .. 15 \/ n \in 16 .. 31) => n \in 0 .. 31
    OBVIOUS
  <2>9. CASE g = h
    <3>1. \A range : Bytes(e, last.d, range) = Bytes("handler", last.d, range)
      BY <2>6, <2>9
    <3>2. g.trap = h.trap /\ g.bytes = h.bytes
      BY <2>9
    <3> QED BY <3>1, <3>2 DEF g, h
  <2>10. CASE last.op \in KeepsUpper /\ SameBut(g, h, last, 16, 32)
    <3>1. /\ g.trap = h.trap
          /\ \A p \in Places \ {last.d} : g.bytes[p] = h.bytes[p]
          /\ \A n \in 0 .. 31 : ~ (16 <= n /\ n < 32) => g.bytes[last.d][n] = h.bytes[last.d][n]
      <4>1. Machine(g) /\ Machine(h)
        BY <2>4, <2>10
      <4>2. SameBut(g, h, last, 16, 32)
        BY <2>10
      <4> QED BY <2>1, <4>1, <4>2, Agreement
    <3>2. Bytes(e, last.d, 0 .. 3) = Bytes("handler", last.d, 0 .. 3)
      BY <2>6, <3>1
    <3>3. Bytes(e, last.d, 0 .. 15) = Bytes("handler", last.d, 0 .. 15)
      BY <2>6, <3>1
    <3> QED BY <2>10, <3>1, <3>2, <3>3 DEF g, h
  <2>11. CASE e = "emitted" /\ last.op \in ScalarLoads /\ SameBut(g, h, last, 4, 16)
    <3>1. /\ g.trap = h.trap
          /\ \A p \in Places \ {last.d} : g.bytes[p] = h.bytes[p]
          /\ \A n \in 0 .. 31 : ~ (4 <= n /\ n < 16) => g.bytes[last.d][n] = h.bytes[last.d][n]
      <4>1. Machine(g) /\ Machine(h)
        BY <2>4, <2>11
      <4>2. SameBut(g, h, last, 4, 16)
        BY <2>11
      <4> QED BY <2>1, <4>1, <4>2, Agreement
    <3>2. Bytes(e, last.d, 0 .. 3) = Bytes("handler", last.d, 0 .. 3)
      BY <2>6, <3>1
    <3>3. Bytes(e, last.d, 16 .. 31) = Bytes("handler", last.d, 16 .. 31)
      BY <2>6, <3>1
    <3> QED BY <2>11, <3>1, <3>2, <3>3 DEF g, h, ScalarLoads
  <2>12. CASE e = "emitted" /\ last.op \in Absolutes /\ SameBut(g, h, last, 0, 16)
    <3>1. /\ g.trap = h.trap
          /\ \A p \in Places \ {last.d} : g.bytes[p] = h.bytes[p]
          /\ \A n \in 0 .. 31 : ~ (0 <= n /\ n < 16) => g.bytes[last.d][n] = h.bytes[last.d][n]
      <4>1. Machine(g) /\ Machine(h)
        BY <2>4, <2>12
      <4>2. SameBut(g, h, last, 0, 16)
        BY <2>12
      <4> QED BY <2>1, <4>1, <4>2, Agreement
    <3>3. Bytes(e, last.d, 16 .. 31) = Bytes("handler", last.d, 16 .. 31)
      BY <2>6, <3>1
    <3> QED BY <2>12, <3>1, <3>3 DEF g, h, Absolutes
  <2>13. CASE e = "emitted" /\ Strays("emitted", last) /\ Beside(g, h)
    <3>1. last.d # "mem" /\ last.d \in Places
      BY <2>1, RegistersAssumption DEF Named, Places, Others
    <3>2. Strays(e, last)
      BY <2>13
    <3>3. \A p \in Places \ {"mem"} : g.bytes[p] = h.bytes[p]
      BY <2>13 DEF Beside
    <3>4. g.bytes[last.d] = h.bytes[last.d]
      BY <3>1, <3>3
    <3>5. \A range : Bytes(e, last.d, range) = Bytes("handler", last.d, range)
      BY <2>6, <3>4
    <3> QED BY <3>2, <3>3, <3>5 DEF g, h
  <2> QED BY <2>3, <2>9, <2>10, <2>11, <2>12, <2>13 DEF Differs
<1> QED BY <1>1, EnginesRan, PTL

---------------------------------------------------------------------------
(* The same operation on fewer bytes.                                      *)

Narrowed(i) == [i EXCEPT !.op = Narrower[i.op]]

LEMMA NarrowedFacts ==
  ASSUME NEW i, Instructed(i)
  PROVE  /\ Narrowed(i).op = Narrower[i.op] /\ Narrowed(i).d = i.d /\ Narrowed(i).j = i.j /\ Narrowed(i).k = i.k
         /\ Narrowed(i).a = i.a /\ Narrowed(i).imm = i.imm /\ Narrowed(i).rd = i.rd /\ Narrowed(i).at = i.at
         /\ Named(Narrowed(i)) /\ Formed(Narrowed(i))
         /\ \A ws : SameRoles(Narrowed(i), i, ws)
<1> DEFINE y == Narrowed(i)
           o == Narrower[i.op]
<1> HIDE DEF o
<1>1. y = [op |-> o, d |-> i.d, j |-> i.j, k |-> i.k, a |-> i.a, imm |-> i.imm, rd |-> i.rd, at |-> i.at]
  BY DEF Instructed, Formed, Narrowed, o
<1> HIDE DEF y
<1>2. y.op = o /\ y.d = i.d /\ y.j = i.j /\ y.k = i.k /\ y.a = i.a /\ y.imm = i.imm /\ y.rd = i.rd /\ y.at = i.at
  BY <1>1
<1>3. Formed(y)
  BY <1>1, <1>2 DEF Formed
<1>4. Named(y)
  BY <1>2 DEF Named, Instructed
<1>5. \A role : Place(y, role) = Place(i, role)
  <2> TAKE role
  <2>1. CASE role \in {"d", "j", "k", "a"}
    <3>1. y[role] = i[role]
      BY <1>2, <2>1
    <3> QED BY <2>1, <3>1 DEF Place
  <2>2. CASE role \notin {"d", "j", "k", "a"}
    BY <2>2 DEF Place
  <2> QED BY <2>1, <2>2
<1>6. \A ws : SameRoles(y, i, ws)
  BY <1>5 DEF SameRoles
<1> QED BY <1>2, <1>3, <1>4, <1>6 DEF y, o

\* The machine of the narrower instruction beside that of the other.
Alike(g, h, i, size) ==
  /\ g.trap = h.trap
  /\ g.bytes["gr"] = h.bytes["gr"]
  /\ \A n \in 0 .. size - 1 : g.bytes[i.d][n] = h.bytes[i.d][n]

LEMMA SameButAlike ==
  ASSUME NEW g, Machine(g), NEW h, Machine(h), NEW i, Named(i), NEW size \in 0 .. 16, SameBut(g, h, i, size, 32)
  PROVE  Alike(g, h, i, size)
<1>1. "gr" \in Places \ {i.d}
  BY RegistersAssumption DEF Named, Places, Others
<1>2. /\ g.trap = h.trap
      /\ \A p \in Places \ {i.d} : g.bytes[p] = h.bytes[p]
      /\ \A n \in 0 .. 31 : ~ (size <= n /\ n < 32) => g.bytes[i.d][n] = h.bytes[i.d][n]
  BY Agreement
<1>3. \A n \in 0 .. size - 1 : n \in 0 .. 31 /\ ~ (size <= n /\ n < 32)
  OBVIOUS
<1> QED BY <1>1, <1>2, <1>3 DEF Alike

\* Both write ws, which covers size bytes, and then something behind them.
LEMMA SharedPrefix ==
  ASSUME NEW m, Machine(m), NEW i, Instructed(i), NEW size \in 0 .. 16, NEW ws, Valid(ws), NEW l,
         Extends(Writes(i), ws, size, 32), Extends(Writes(Narrowed(i)), ws, size, 32),
         Handle(m, i) = Steps(m, i, Writes(i), l),
         Handle(m, Narrowed(i)) = Steps(m, Narrowed(i), Writes(Narrowed(i)), l)
  PROVE  Alike(Handle(m, Narrowed(i)), Handle(m, i), i, size)
<1> DEFINE y == Narrowed(i)
           both == Steps(m, i, ws, l)
           wx == Writes(i)
           wy == Writes(y)
           h == Steps(m, i, wx, l)
           g == Steps(m, y, wy, l)
<1>1. Named(i) /\ Named(y) /\ y.d = i.d /\ \A v : SameRoles(y, i, v)
  BY NarrowedFacts DEF Instructed
<1>2. Extends(wx, ws, size, 32) /\ Extends(wy, ws, size, 32) /\ Valid(wx) /\ Valid(wy)
  BY DEF Extends
<1> HIDE DEF y, wx, wy
<1>3. Steps(m, y, wy, l) = Steps(m, i, wy, l)
  BY <1>1, <1>2, UnusedRoles
<1>4. SameBut(both, h, i, size, 32)
  BY <1>1, <1>2, ExtendedSteps
<1>5. SameBut(both, g, i, size, 32)
  <2>1. SameBut(both, Steps(m, i, wy, l), i, size, 32)
    BY <1>1, <1>2, ExtendedSteps
  <2> QED BY <1>3, <2>1
<1>6. Machine(g) /\ Machine(h)
  BY <1>1, <1>2, StepsTyped
<1> HIDE DEF both, g, h
<1>7. SameBut(g, h, i, size, 32)
  BY <1>4, <1>5, SameButBoth
<1>8. Alike(g, h, i, size)
  BY <1>1, <1>6, <1>7, SameButAlike
<1> QED BY <1>8 DEF g, h, wx, wy, y

LEMMA ExtendsThrough ==
  ASSUME NEW a, NEW b, NEW c, NEW lo \in 0 .. 16, Extends(a, b, 16, 32), Extends(b, c, lo, 32), Len(c) \in Nat
  PROVE  Extends(a, c, lo, 32)
<1>1. Valid(a) /\ Len(a) \in Nat /\ Len(b) \in Nat /\ Len(c) <= Len(b) /\ Len(b) <= Len(a)
  BY DEF Extends, Valid
<1>2. \A x \in 1 .. Len(c) : a[x] = c[x]
  BY <1>1 DEF Extends
<1>3. ASSUME NEW x \in Len(c) + 1 .. Len(a)
      PROVE  a[x].to[1] = "d" /\ lo <= First(a[x].to) /\ First(a[x].to) + a[x].to[2] <= 32
  <2>1. CASE x \in 1 .. Len(b)
    <3>1. x \in Len(c) + 1 .. Len(b) /\ a[x] = b[x]
      BY <2>1, <1>1 DEF Extends
    <3> QED BY <3>1 DEF Extends
  <2>2. CASE x \in Len(b) + 1 .. Len(a)
    <3>1. a[x].to[1] = "d" /\ 16 <= First(a[x].to) /\ First(a[x].to) + a[x].to[2] <= 32
      BY <2>2 DEF Extends
    <3>2. x \in 1 .. Len(a)
      BY <1>1, <2>2
    <3>3. a[x].to \in Elem
      BY <1>1, <3>2 DEF Valid
    <3> DEFINE to == a[x].to
    <3> HIDE DEF to
    <3>4. First(to) \in 0 .. 31
      BY <3>3, ElemFacts DEF to
    <3>5. to[1] = "d" /\ 16 <= First(to) /\ First(to) + to[2] <= 32
      BY <3>1 DEF to
    <3> DEFINE f == First(to)
    <3>6. f \in 0 .. 31 /\ 16 <= f
      BY <3>4, <3>5
    <3> HIDE DEF f
    <3>7. lo <= f
      BY <3>6
    <3> QED BY <3>5, <3>7 DEF to, f
  <2> QED BY <1>1, <2>1, <2>2
<1> QED BY <1>1, <1>2, <1>3 DEF Extends

---------------------------------------------------------------------------
(* The pairs that are rows of the tables.                                  *)

\* The pairs of rows, by the size the narrower one has.
WideRows   == {"XVADD_D", "XVBITSEL_V", "XVXOR_V", "XVSUB_W", "XVMIN_BU", "XVMAX_BU", "XVSEQ_B", "XVFADD_D", "XVFMUL_D",
               "XVFDIV_D", "XVBITREVI_D", "XVFMADD_D", "XVORI_B"}
ScalarRowsOfWide == {"XVFSUB_D", "XVFMADD_S"}
ScalarRowsOfLsx  == {"VFADD_D", "VFDIV_D", "VFMUL_S", "VFMUL_D", "VFMADD_D"}
ConvertedRows    == {"VFTINTRZ_W_S", "VFTINTRZ_L_D"}
PairedOthers == {"XVFCMP_COND_D", "XVLD", "XVLDX", "XVLDI", "XVREPLGR2VR_B", "XVILVL_D", "XVPICKVE2GR_W"}

LEMMA NarrowerDomain ==
  DOMAIN Narrower \ Diverging \subseteq WideRows \cup {"XVFNMADD_D"} \cup ScalarRowsOfWide \cup ScalarRowsOfLsx \cup ConvertedRows \cup PairedOthers
BY DEF Narrower, Diverging, WideRows, ScalarRowsOfWide, ScalarRowsOfLsx, ConvertedRows, PairedOthers

LEMMA NarrowerIs ==
  /\ Narrower["XVADD_D"] = "VADD_D" /\ Narrower["XVBITSEL_V"] = "VBITSEL_V" /\ Narrower["XVXOR_V"] = "VXOR_V"
  /\ Narrower["XVSUB_W"] = "VSUB_W" /\ Narrower["XVMIN_BU"] = "VMIN_BU" /\ Narrower["XVMAX_BU"] = "VMAX_BU"
  /\ Narrower["XVSEQ_B"] = "VSEQ_B" /\ Narrower["XVFADD_D"] = "VFADD_D" /\ Narrower["XVFMUL_D"] = "VFMUL_D"
  /\ Narrower["XVFDIV_D"] = "VFDIV_D" /\ Narrower["XVBITREVI_D"] = "VBITREVI_D" /\ Narrower["XVFMADD_D"] = "VFMADD_D"
  /\ Narrower["XVORI_B"] = "VORI_B" /\ Narrower["XVFNMADD_D"] = "VFNMADD_D"
  /\ Narrower["XVFSUB_D"] = "FSUB_D" /\ Narrower["XVFMADD_S"] = "FMADD_S"
  /\ Narrower["VFADD_D"] = "FADD_D" /\ Narrower["VFDIV_D"] = "FDIV_D" /\ Narrower["VFMUL_S"] = "FMUL_S"
  /\ Narrower["VFMUL_D"] = "FMUL_D" /\ Narrower["VFMADD_D"] = "FMADD_D"
  /\ Narrower["VFTINTRZ_W_S"] = "FTINTRZ_W_S" /\ Narrower["VFTINTRZ_L_D"] = "FTINTRZ_L_D"
  /\ Narrower["XVFCMP_COND_D"] = "VFCMP_COND_D" /\ Narrower["XVLD"] = "VLD" /\ Narrower["XVLDX"] = "VLDX"
  /\ Narrower["XVLDI"] = "VLDI" /\ Narrower["XVREPLGR2VR_B"] = "VREPLGR2VR_B" /\ Narrower["XVILVL_D"] = "VILVL_D"
  /\ Narrower["XVPICKVE2GR_W"] = "VPICKVE2GR_W"
BY DEF Narrower

PairedRows == WideRows \cup {"XVFNMADD_D"} \cup ScalarRowsOfWide \cup ScalarRowsOfLsx

\* The two rows compute the same.
LEMMA PairedKernels ==
  ASSUME NEW op \in PairedRows
  PROVE  Kernel(op) = Kernel(Narrower[op])
BY KernelIs, NarrowerIs DEF PairedRows, WideRows, ScalarRowsOfWide, ScalarRowsOfLsx

LEMMA PairedIn ==
  ASSUME NEW op \in PairedRows
  PROVE  /\ op \in KernelOps /\ Narrower[op] \in KernelOps
         /\ op \in WideRows \cup {"XVFNMADD_D"} => op \in LasxOps /\ Narrower[op] \in LsxOps
         /\ op \in ScalarRowsOfWide => op \in LasxOps /\ Narrower[op] \in ScalarOps
         /\ op \in ScalarRowsOfLsx => op \in LsxOps /\ Narrower[op] \in ScalarOps
BY NarrowerIs DEF PairedRows, WideRows, ScalarRowsOfWide, ScalarRowsOfLsx, KernelOps, LasxOps, LsxOps, ScalarOps

LEMMA TableKnown == Known(Table)
BY PlusKnown, LsxKnown, LasxKnown, ScalarKnown DEF Table

LEMMA NarrowerRow ==
  ASSUME NEW op \in DOMAIN Table \cap KernelOps, NEW o \in DOMAIN Table \cap KernelOps, Kernel(op) = Kernel(o),
         RowOk(Table[op]), RowOk(Table[o]), Table[o].size <= Table[op].size
  PROVE  Extends(ForEach(Table[op]), ForEach(Table[o]), Table[o].size, 32)
<1> DEFINE q == Table[op]
           r == Table[o]
<1>1. KernelRow(q.w, q.f, q.roles) = Kernel(op) /\ KernelRow(r.w, r.f, r.roles) = Kernel(o)
  BY TableKnown DEF Known
<1>2. RowOk(q) /\ RowOk(r) /\ r.size <= q.size
  OBVIOUS
<1> HIDE DEF q, r
<1>3. q.w = r.w /\ q.f = r.f /\ q.roles = r.roles
  BY <1>1 DEF KernelRow
<1>4. Extends(ForEach(q), ForEach(r), r.size, 32)
  BY <1>2, <1>3, WiderRow
<1> QED BY <1>4 DEF q, r

LEMMA SharedSizes ==
  /\ \A op \in ScalarOps : Shared(op) = Table[op].size
  /\ \A op \in LsxOps : Shared(op) = 16
  /\ Shared("VFCMP_COND_D") = 16 /\ Shared("VLD") = 16 /\ Shared("VLDX") = 16 /\ Shared("VLDI") = 16
  /\ Shared("VREPLGR2VR_B") = 16 /\ Shared("VILVL_D") = 16 /\ Shared("VPICKVE2GR_W") = 16
  /\ Shared("FTINTRZ_W_S") = 4 /\ Shared("FTINTRZ_L_D") = 8
<1>1. \A op : /\ op \in ScalarOps => Shared(op) = Scalar[op].size
              /\ op \notin ScalarOps /\ op \in ConversionOps => Shared(op) = Conversions[op][1].to[2]
              /\ op \notin ScalarOps /\ op \notin ConversionOps => Shared(op) = 16
  BY ScalarDomain, OtherDomains DEF Shared
<1>2. \A op \in ScalarOps : Table[op] = Scalar[op]
  BY TableFacts
<1>3. \A op \in LsxOps : op \notin ScalarOps /\ op \notin ConversionOps
  BY DEF LsxOps, ScalarOps, ConversionOps
<1>4. \A op \in {"VFCMP_COND_D", "VLD", "VLDX", "VLDI", "VREPLGR2VR_B", "VILVL_D", "VPICKVE2GR_W"} :
        op \notin ScalarOps /\ op \notin ConversionOps
  BY DEF ScalarOps, ConversionOps
<1>5. Conversions["FTINTRZ_W_S"][1].to[2] = 4 /\ Conversions["FTINTRZ_L_D"][1].to[2] = 8
  BY DEF Conversions, Convert
<1>6. \A op \in {"FTINTRZ_W_S", "FTINTRZ_L_D"} : op \notin ScalarOps /\ op \in ConversionOps
  BY DEF ScalarOps, ConversionOps
<1> QED BY <1>1, <1>2, <1>3, <1>4, <1>5, <1>6

\* An instruction of the tables, as if it read its sources first.
LEMMA RowHandled ==
  ASSUME NEW m, Machine(m), NEW i, Named(i), i.op \in DOMAIN Table
  PROVE  Handle(m, i) = Steps(m, i, Writes(i), TRUE)
<1>1. i.op \notin Raising /\ ~ Illegal(i) /\ i.op \notin DOMAIN Memory
  <2>1. i.op \in LsxOps \cup LasxOps \cup ScalarOps
    BY OtherDomains
  <2>2. i.op \notin Raising \cup CompareOps \cup {"VFCMP_COND_D", "VLDI", "XVLDI"} \cup MemoryOps
    BY <2>1 DEF LsxOps, LasxOps, ScalarOps, Raising, CompareOps, MemoryOps, FloatMemoryOps, VectorMemoryOps, WideMemoryOps
  <2> QED BY <2>2, OtherDomains, MemoryDomain DEF Illegal
<1>2. Handle(m, i) = Steps(m, i, Writes(i), i.op \in Buffered)
  BY <1>1, HandleCases
<1>3. Writes(i) \in Seq(Write) /\ Unread(i, Writes(i))
  <2>1. RowOk(Table[i.op])
    BY WritesTable
  <2>2. ForEach(Table[i.op]) \in Seq(Write) /\ Unread(i, ForEach(Table[i.op]))
    BY <2>1, ForEachFacts, ForEachUnread
  <2> DEFINE row == ForEach(Table[i.op])
  <2>3. Writes(i) = row \o ClearHigh \/ Writes(i) = row
    BY WritesTable
  <2> HIDE DEF row
  <2>4. row \o ClearHigh \in Seq(Write) /\ Unread(i, row \o ClearHigh)
    BY <2>2, ClearHighFacts, ConcatFacts, ConcatUnread DEF row
  <2> QED BY <2>2, <2>3, <2>4 DEF row
<1>4. Steps(m, i, Writes(i), FALSE) = Steps(m, i, Writes(i), TRUE)
  BY <1>3, WritesValid, UnreadSettled, BufferNeedless DEF InPlace, Simultaneous
<1>5. CASE i.op \in Buffered
  <2>1. (i.op \in Buffered) = TRUE
    BY <1>5
  <2> QED BY <1>2, <2>1
<1>6. CASE i.op \notin Buffered
  <2>1. (i.op \in Buffered) = FALSE
    BY <1>6
  <2> QED BY <1>2, <1>4, <2>1
<1> QED BY <1>5, <1>6

LEMMA PairedSizes ==
  ASSUME NEW op \in PairedRows
  PROVE  LET o == Narrower[op]
         IN  /\ op \in DOMAIN Table /\ o \in DOMAIN Table
             /\ RowOk(Table[op]) /\ RowOk(Table[o])
             /\ Shared(o) = Table[o].size /\ Shared(o) \in 0 .. 16
             /\ Table[o].size <= Table[op].size
<1> DEFINE o == Narrower[op]
<1>1. PairedRows = WideRows \cup {"XVFNMADD_D"} \cup ScalarRowsOfWide \cup ScalarRowsOfLsx
  BY DEF PairedRows
<1>2. \/ op \in LasxOps /\ o \in LsxOps
      \/ op \in LasxOps /\ o \in ScalarOps
      \/ op \in LsxOps /\ o \in ScalarOps
  <2>1. \/ op \in WideRows \cup {"XVFNMADD_D"}
        \/ op \in ScalarRowsOfWide
        \/ op \in ScalarRowsOfLsx
    BY <1>1
  <2> HIDE DEF o
  <2>2. /\ op \in WideRows \cup {"XVFNMADD_D"} => op \in LasxOps /\ o \in LsxOps
        /\ op \in ScalarRowsOfWide => op \in LasxOps /\ o \in ScalarOps
        /\ op \in ScalarRowsOfLsx => op \in LsxOps /\ o \in ScalarOps
    BY PairedIn DEF o
  <2> QED BY <2>1, <2>2
<1> HIDE DEF o
<1>3. op \in DOMAIN Table /\ o \in DOMAIN Table
  BY <1>2, OtherDomains
<1>4. op \in LasxOps => RowOk(Table[op]) /\ Table[op].size = 32
  BY TableFacts
<1>5. op \in LsxOps => RowOk(Table[op]) /\ Table[op].size = 16
  BY TableFacts
<1>6. o \in LsxOps => RowOk(Table[o]) /\ Table[o].size = 16 /\ Shared(o) = 16
  BY TableFacts, SharedSizes
<1>7. o \in ScalarOps => RowOk(Table[o]) /\ Table[o].size \in {4, 8} /\ Shared(o) = Table[o].size
  BY TableFacts, SharedSizes
<1> QED BY <1>2, <1>3, <1>4, <1>5, <1>6, <1>7 DEF o

LEMMA PairedRowsAlike ==
  ASSUME NEW m, Machine(m), NEW i, Instructed(i), i.op \in PairedRows
  PROVE  Alike(Handle(m, Narrowed(i)), Handle(m, i), i, Shared(Narrower[i.op]))
<1> DEFINE o == Narrower[i.op]
           y == Narrowed(i)
           ws == ForEach(Table[o])
           size == Shared(o)
<1>1. Named(i) /\ Named(y) /\ y.op = o
  BY NarrowedFacts DEF Instructed
<1>2. /\ i.op \in DOMAIN Table /\ o \in DOMAIN Table /\ RowOk(Table[i.op]) /\ RowOk(Table[o])
      /\ size = Table[o].size /\ size \in 0 .. 16 /\ Table[o].size <= Table[i.op].size
  BY PairedSizes
<1>3. i.op \in KernelOps /\ o \in KernelOps /\ Kernel(i.op) = Kernel(o)
  BY PairedKernels, PairedIn
<1>4. Extends(ForEach(Table[i.op]), ws, size, 32)
  <2> HIDE DEF o
  <2> QED BY <1>2, <1>3, NarrowerRow
<1>5. ws \in Seq(Write) /\ Valid(ws) /\ Len(ws) \in Nat
  BY <1>2, ForEachFacts, WritesValid
<1>6. \/ i.op \in LasxOps /\ o \in LsxOps
      \/ i.op \in LasxOps /\ o \in ScalarOps
      \/ i.op \in LsxOps /\ o \in ScalarOps
  BY PairedIn DEF PairedRows
<1>7. Extends(Writes(i), ws, size, 32)
  <2>1. CASE i.op \in LasxOps
    BY <1>4, <2>1, ScalarWrites
  <2>2. CASE i.op \in LsxOps
    <3> HIDE DEF ws, size
    <3> QED BY <1>2, <1>4, <1>5, <2>2, LsxExtends, ExtendsThrough
  <2> QED BY <1>6, <2>1, <2>2
<1>8. Extends(Writes(y), ws, size, 32)
  <2>1. CASE o \in LsxOps
    <3>1. size = 16
      BY <2>1, SharedSizes
    <3>2. Extends(Writes(y), ForEach(Table[y.op]), 16, 32)
      BY <1>1, <2>1, LsxExtends
    <3> QED BY <1>1, <3>1, <3>2
  <2>2. CASE o \in ScalarOps
    <3>1. Writes(y) = ForEach(Table[y.op])
      BY <1>1, <2>2, ScalarWrites
    <3>2. Writes(y) = ws
      BY <1>1, <3>1
    <3> HIDE DEF ws, size
    <3> QED BY <1>5, <3>2, ExtendsItself
  <2> QED BY <1>6, <2>1, <2>2
<1>9. Handle(m, i) = Steps(m, i, Writes(i), TRUE)
  BY <1>1, <1>2, RowHandled
<1>10. Handle(m, y) = Steps(m, y, Writes(y), TRUE)
  BY <1>1, <1>2, RowHandled
<1> HIDE DEF size, ws, o
<1>11. Alike(Handle(m, y), Handle(m, i), i, size)
  BY <1>2, <1>5, <1>7, <1>8, <1>9, <1>10, SharedPrefix
<1> QED BY <1>11 DEF size, o

\* VFTINTRZ and FTINTRZ: a row of one element.
LEMMA ConvertIsRow ==
  ASSUME NEW w \in {4, 8}
  PROVE  Convert(w, "truncate", w) = ForEach(SizedRow(w, w, "truncate", J))
<1> DEFINE r == SizedRow(w, w, "truncate", J)
           a == Convert(w, "truncate", w)
           wr == [to |-> <<"d", w, 0>>, f |-> "truncate", from |-> <<<<"j", w, 0>>>>]
<1>1. r.size = w /\ r.w = w /\ r.f = "truncate" /\ r.roles = J
  BY DEF SizedRow
<1>2. a = <<wr>>
  BY DEF Convert
<1> HIDE DEF r, a
<1>3. w \div w = 1
  OBVIOUS
<1>4. [x \in DOMAIN J |-> <<J[x], w, 1 - 1>>] = <<<<"j", w, 0>>>>
  BY DEF J
<1>5. ForEach(r) = [n \in 1 .. 1 |-> [to |-> <<"d", w, n - 1>>, f |-> "truncate", from |-> [x \in DOMAIN J |-> <<J[x], w, n - 1>>]]]
  BY <1>1, <1>3 DEF ForEach
<1>6. ForEach(r) = [n \in 1 .. 1 |-> wr]
  BY <1>4, <1>5
<1> HIDE DEF wr
<1>7. ForEach(r) = <<wr>>
  BY <1>6
<1> QED BY <1>2, <1>7 DEF r, a

LEMMA ConvertedAlike ==
  ASSUME NEW m, Machine(m), NEW i, Instructed(i), i.op \in ConvertedRows
  PROVE  Alike(Handle(m, Narrowed(i)), Handle(m, i), i, Shared(Narrower[i.op]))
<1> DEFINE o == Narrower[i.op]
           y == Narrowed(i)
           size == Shared(o)
           ws == Conversions[o]
<1>1. Named(i) /\ Named(y) /\ y.op = o
  BY NarrowedFacts DEF Instructed
<1>2. /\ o \in {"FTINTRZ_W_S", "FTINTRZ_L_D"} /\ size \in {4, 8} /\ i.op \in LsxOps \cap KernelOps
      /\ ws = Convert(size, "truncate", size)
      /\ Kernel(i.op) = KernelRow(size, "truncate", J)
  <2>1. CASE i.op = "VFTINTRZ_W_S"
    <3>1. o = "FTINTRZ_W_S" /\ size = 4
      BY <2>1, NarrowerIs, SharedSizes
    <3>2. ws = Convert(4, "truncate", 4)
      BY <3>1 DEF Conversions
    <3>3. Kernel(i.op) = KernelRow(4, "truncate", J)
      BY <2>1, KernelIs
    <3> HIDE DEF o, size, ws
    <3> QED BY <2>1, <3>1, <3>2, <3>3 DEF LsxOps, KernelOps
  <2>2. CASE i.op = "VFTINTRZ_L_D"
    <3>1. o = "FTINTRZ_L_D" /\ size = 8
      BY <2>2, NarrowerIs, SharedSizes
    <3>2. ws = Convert(8, "truncate", 8)
      BY <3>1 DEF Conversions
    <3>3. Kernel(i.op) = KernelRow(8, "truncate", J)
      BY <2>2, KernelIs
    <3> HIDE DEF o, size, ws
    <3> QED BY <2>2, <3>1, <3>2, <3>3 DEF LsxOps, KernelOps
  <2> QED BY <2>1, <2>2 DEF ConvertedRows
<1>3. ws = ForEach(SizedRow(size, size, "truncate", J))
  BY <1>2, ConvertIsRow
<1>4. o \in ConversionOps /\ o \notin Buffered \cup Raising \cup MemoryOps \cup CompareOps \cup {"VFCMP_COND_D", "VLDI", "XVLDI"}
  <2> HIDE DEF o
  <2> QED BY <1>2 DEF ConversionOps, Buffered, Raising, MemoryOps, FloatMemoryOps, VectorMemoryOps, WideMemoryOps, CompareOps
<1>5. Writes(y) = ws /\ ws \in Seq(Write)
  BY <1>1, <1>4, WritesCases, ConversionFacts DEF Tame
<1>6. Handle(m, y) = Steps(m, y, Writes(y), FALSE)
  <2> HIDE DEF o
  <2> QED BY <1>1, <1>4, OtherDomains, MemoryDomain, UnbufferedHandle DEF Illegal
<1>7. Handle(m, i) = Steps(m, i, Writes(i), FALSE)
  <2>1. i.op \notin Buffered \cup Raising \cup MemoryOps \cup CompareOps \cup {"VFCMP_COND_D", "VLDI", "XVLDI"}
    BY DEF ConvertedRows, Buffered, Raising, MemoryOps, FloatMemoryOps, VectorMemoryOps, WideMemoryOps, CompareOps
  <2> QED BY <2>1, OtherDomains, MemoryDomain, UnbufferedHandle DEF Illegal
<1>8. Extends(Writes(i), ws, size, 32)
  <2> DEFINE r == SizedRow(size, size, "truncate", J)
             q == SizedRow(16, size, "truncate", J)
  <2> HIDE DEF o, size, ws
  <2>1. RowOk(r) /\ RowOk(q) /\ q.w = r.w /\ q.f = r.f /\ q.roles = r.roles /\ r.size = size /\ r.size <= q.size
    <3>1. J \in Seq(Roles4) /\ "truncate" \in Operations
      BY RoleLists, OperationNames
    <3> QED BY <1>2, <3>1 DEF SizedRow, RowOk
  <2>2. Extends(Writes(i), ForEach(Table[i.op]), 16, 32)
    BY <1>2, LsxExtends
  <2>3. ForEach(Table[i.op]) = ForEach(q)
    BY <1>2, LsxRowIs
  <2>4. ws = ForEach(r)
    BY <1>3
  <2> HIDE DEF r, q
  <2>5. Extends(ForEach(q), ForEach(r), size, 32)
    BY <2>1, WiderRow
  <2>6. Len(ForEach(r)) \in Nat /\ size \in 0 .. 16
    BY <1>2, <2>1, ForEachFacts
  <2> QED BY <2>2, <2>3, <2>4, <2>5, <2>6, ExtendsThrough
<1> HIDE DEF size, ws, o
<1>9. Extends(Writes(y), ws, size, 32)
  BY <1>5, ExtendsItself
<1>10. size \in 0 .. 16 /\ Valid(ws)
  BY <1>2, <1>5, WritesValid
<1>11. Alike(Handle(m, y), Handle(m, i), i, size)
  BY <1>6, <1>7, <1>8, <1>9, <1>10, SharedPrefix
<1> QED BY <1>11 DEF size, o

---------------------------------------------------------------------------
(* The other pairs.                                                        *)

LEMMA AlikeItself == \A g, i, size : Alike(g, g, i, size)
BY DEF Alike

LEMMA PickedAlike ==
  ASSUME NEW m, Machine(m), NEW i, Instructed(i), i.op = "XVPICKVE2GR_W"
  PROVE  Handle(m, Narrowed(i)) = Handle(m, i)
<1> DEFINE y == Narrowed(i)
           ws == Pick(i, <<4, "sext">>)
<1>1. y.op = "VPICKVE2GR_W" /\ y.imm = i.imm /\ y.rd = i.rd /\ SameRoles(y, i, ws)
  BY NarrowedFacts, NarrowerIs
<1>2. Writes(i) = ws
  BY WritesCases
<1>3. Writes(y) = ws
  <2>1. Writes(y) = Pick(y, Picks["VPICKVE2GR_W"])
    BY <1>1, WritesCases DEF PickOps
  <2>2. Picks["VPICKVE2GR_W"] = <<4, "sext">>
    <3> DEFINE f == [op \in {"VPICKVE2GR_D", "VPICKVE2GR_DU"} |-> <<8, "copy">>]
               g == [VPICKVE2GR_W |-> <<4, "sext">>, VPICKVE2GR_WU |-> <<4, "zext">>, VPICKVE2GR_H |-> <<2, "sext">>,
                     VPICKVE2GR_HU |-> <<2, "zext">>, VPICKVE2GR_B |-> <<1, "sext">>, VPICKVE2GR_BU |-> <<1, "zext">>]
    <3>1. "VPICKVE2GR_W" \in DOMAIN g /\ "VPICKVE2GR_W" \notin DOMAIN f /\ g["VPICKVE2GR_W"] = <<4, "sext">>
      OBVIOUS
    <3>2. Picks = f ++ g
      BY DEF Picks
    <3> HIDE DEF f, g
    <3> QED BY <3>1, <3>2, PlusRight
  <2>3. Pick(y, <<4, "sext">>) = ws
    BY <1>1 DEF Pick, ToGeneral
  <2> QED BY <2>1, <2>2, <2>3
<1>4. ws \in Seq(Write) /\ Valid(ws)
  BY WidePick, WritesValid DEF Tame, Instructed
<1>5. i.op \notin Raising \cup Buffered \cup MemoryOps \cup CompareOps \cup {"VFCMP_COND_D", "VLDI", "XVLDI"}
      /\ y.op \notin Raising \cup Buffered \cup MemoryOps \cup CompareOps \cup {"VFCMP_COND_D", "VLDI", "XVLDI"}
  BY <1>1 DEF Raising, Buffered, MemoryOps, FloatMemoryOps, VectorMemoryOps, WideMemoryOps, CompareOps
<1>6. Handle(m, i) = Steps(m, i, ws, FALSE)
  BY <1>2, <1>5, OtherDomains, MemoryDomain, UnbufferedHandle DEF Illegal
<1>7. Handle(m, y) = Steps(m, y, ws, FALSE)
  <2> HIDE DEF ws, y
  <2> QED BY <1>3, <1>5, OtherDomains, MemoryDomain, UnbufferedHandle DEF Illegal
<1> HIDE DEF ws, y
<1>8. ASSUME NEW l PROVE Steps(m, y, ws, l) = Steps(m, i, ws, l)
  BY <1>1, <1>4, UnusedRoles
<1> QED BY <1>6, <1>7, <1>8 DEF y

LEMMA ReplicatedAlike ==
  ASSUME NEW m, Machine(m), NEW i, Instructed(i), i.op = "XVREPLGR2VR_B"
  PROVE  Alike(Handle(m, Narrowed(i)), Handle(m, i), i, 16)
<1> DEFINE y == Narrowed(i)
           ws == FromGeneral(1, 16)
           wide == FromGeneral(1, 32)
<1>1. y.op = "VREPLGR2VR_B"
  BY NarrowedFacts, NarrowerIs
<1>2. Writes(i) = wide
  BY WritesCases
<1>3. Writes(y) = ws
  <2>1. Writes(y) = FromGeneral(Replicates["VREPLGR2VR_B"], 16)
    BY <1>1, WritesCases DEF ReplicateOps
  <2> QED BY <2>1 DEF Replicates
<1>4. ws \in Seq(Write) /\ wide \in Seq(Write) /\ Len(ws) = 16 /\ Len(wide) = 32
  <2>1. 16 \div 1 = 16 /\ 32 \div 1 = 32
    OBVIOUS
  <2> QED BY <2>1, FromGeneralFacts
<1>5. /\ \A n \in 1 .. 16 : ws[n] = Copy(<<"d", 1, n - 1>>, <<"gr", 1, 0>>)
      /\ \A n \in 1 .. 32 : wide[n] = Copy(<<"d", 1, n - 1>>, <<"gr", 1, 0>>)
  BY DEF FromGeneral
<1>6. i.op \notin Raising \cup Buffered \cup MemoryOps \cup CompareOps \cup {"VFCMP_COND_D", "VLDI", "XVLDI"}
      /\ y.op \notin Raising \cup Buffered \cup MemoryOps \cup CompareOps \cup {"VFCMP_COND_D", "VLDI", "XVLDI"}
  BY <1>1 DEF Raising, Buffered, MemoryOps, FloatMemoryOps, VectorMemoryOps, WideMemoryOps, CompareOps
<1> HIDE DEF ws, wide, y
<1>7. Handle(m, i) = Steps(m, i, Writes(i), FALSE) /\ Handle(m, y) = Steps(m, y, Writes(y), FALSE)
  BY <1>6, OtherDomains, MemoryDomain, UnbufferedHandle DEF Illegal
<1>8. Extends(wide, ws, 16, 32)
  <2>1. \A n \in 1 .. 16 : wide[n] = ws[n]
    BY <1>5
  <2>2. ASSUME NEW n \in 17 .. 32
        PROVE  wide[n].to[1] = "d" /\ 16 <= First(wide[n].to) /\ First(wide[n].to) + wide[n].to[2] <= 32
    <3>1. wide[n].to = <<"d", 1, n - 1>>
      BY <1>5 DEF Copy
    <3> QED BY <3>1 DEF First
  <2> QED BY <1>4, <2>1, <2>2, WritesValid DEF Extends
<1>9. Extends(ws, ws, 16, 32) /\ Valid(ws)
  BY <1>4, ExtendsItself, WritesValid
<1>10. 16 \in 0 .. 16
  OBVIOUS
<1>11. ASSUME NEW size \in 0 .. 16, size = 16 PROVE Alike(Handle(m, y), Handle(m, i), i, size)
  <2>1. Extends(Writes(i), ws, size, 32) /\ Extends(Writes(y), ws, size, 32)
    BY <1>2, <1>3, <1>8, <1>9, <1>11
  <2> QED BY <1>7, <1>9, <2>1, SharedPrefix DEF y
<1> QED BY <1>10, <1>11 DEF y

LEMMA ImmediateAlike ==
  ASSUME NEW m, Machine(m), NEW i, Instructed(i), i.op = "XVLDI"
  PROVE  Alike(Handle(m, Narrowed(i)), Handle(m, i), i, 16)
<1> DEFINE y == Narrowed(i)
<1>1. y.op = "VLDI" /\ y.imm = i.imm
  BY NarrowedFacts, NarrowerIs
<1>2. i.op \notin Raising \cup Buffered \cup MemoryOps \cup CompareOps \cup {"VFCMP_COND_D"}
      /\ y.op \notin Raising \cup Buffered \cup MemoryOps \cup CompareOps \cup {"VFCMP_COND_D"}
  BY <1>1 DEF Raising, Buffered, MemoryOps, FloatMemoryOps, VectorMemoryOps, WideMemoryOps, CompareOps
<1>3. Illegal(i) <=> Illegal(y)
  <2> HIDE DEF y
  <2> QED BY <1>1, <1>2, OtherDomains DEF Illegal
<1>4. CASE Illegal(i)
  BY <1>3, <1>4, HandleCases, AlikeItself
<1>5. CASE ~ Illegal(i)
  <2> DEFINE w == LdiWidth(i.imm)
             r == FillRow(16, w, "imm")
             q == FillRow(32, w, "imm")
             ws == ForEach(r)
             wide == ForEach(q)
  <2>1. w \in {1, 2, 4, 8}
    BY <1>5, ImmediateFacts DEF Instructed
  <2>2. "imm" \in Operations
    BY DEF Operations
  <2> HIDE DEF w
  <2>3. RowOk(r) /\ RowOk(q) /\ Fill(16, w, "imm") = ws /\ Fill(32, w, "imm") = wide
    BY <2>1, <2>2, FillFacts
  <2>4. Writes(i) = wide
    BY <2>3, WritesCases DEF LasxImmediate, w
  <2>5. Writes(y) = ws
    BY <1>1, <2>3, WritesCases DEF LsxImmediate, w
  <2>6. q.w = r.w /\ q.f = r.f /\ q.roles = r.roles /\ r.size = 16 /\ r.size <= q.size
    BY DEF FillRow
  <2> HIDE DEF r, q
  <2>7. Extends(wide, ws, 16, 32)
    BY <2>3, <2>6, WiderRow
  <2>8. ws \in Seq(Write)
    BY <2>3, ForEachFacts
  <2> HIDE DEF ws, wide, y
  <2>9. Extends(ws, ws, 16, 32) /\ Valid(ws)
    BY <2>8, ExtendsItself, WritesValid
  <2>10. Handle(m, i) = Steps(m, i, Writes(i), FALSE) /\ Handle(m, y) = Steps(m, y, Writes(y), FALSE)
    BY <1>2, <1>3, <1>5, MemoryDomain, UnbufferedHandle
  <2>11. ASSUME NEW size \in 0 .. 16, size = 16 PROVE Alike(Handle(m, y), Handle(m, i), i, size)
    <3>1. Extends(Writes(i), ws, size, 32) /\ Extends(Writes(y), ws, size, 32)
      BY <2>4, <2>5, <2>7, <2>9, <2>11
    <3> QED BY <2>9, <2>10, <3>1, SharedPrefix DEF y
  <2> QED BY <2>11 DEF y
<1> QED BY <1>4, <1>5

LEMMA ComparedAlike ==
  ASSUME NEW m, Machine(m), NEW i, Instructed(i), i.op = "XVFCMP_COND_D", Handle(m, Narrowed(i)).trap # "illegal"
  PROVE  Alike(Handle(m, Narrowed(i)), Handle(m, i), i, 16)
<1> DEFINE y == Narrowed(i)
           r == CompareRow(16, i)
           q == CompareRow(32, i)
           ws == ForEach(r)
           wide == ForEach(q)
<1>1. y.op = "VFCMP_COND_D" /\ y.imm = i.imm
  BY NarrowedFacts, NarrowerIs
<1>2. i.op \notin Raising \cup Buffered \cup MemoryOps \cup CompareOps \cup {"VFCMP_COND_D", "VLDI", "XVLDI"}
      /\ y.op \notin Raising \cup Buffered \cup MemoryOps \cup CompareOps \cup {"VLDI", "XVLDI"}
  BY <1>1 DEF Raising, Buffered, MemoryOps, FloatMemoryOps, VectorMemoryOps, WideMemoryOps, CompareOps
<1>3. ~ Illegal(y)
  <2> SUFFICES ASSUME Illegal(y) PROVE FALSE
    OBVIOUS
  <2>1. Handle(m, y) = Trap(m, "illegal")
    BY HandleCases
  <2>2. Trap(m, "illegal").trap = "illegal"
    BY TrapFacts
  <2> QED BY <2>1, <2>2
<1>4. i.imm \in VectorConditions
  BY <1>1, <1>3, LegalConditions
<1>5. CompareRow(16, y) = r
  BY <1>1 DEF CompareRow
<1>6. Writes(i) = wide
  BY <1>4, WritesCases, VectorCompareFacts
<1>7. Writes(y) = ws \o ClearHigh
  BY <1>1, <1>4, <1>5, WritesCases, VectorCompareFacts
<1>8. RowOk(r) /\ RowOk(q) /\ r.size = 16 /\ q.size = 32
  BY <1>4, CompareRowOk
<1>9. q.w = r.w /\ q.f = r.f /\ q.roles = r.roles
  BY DEF CompareRow
<1> HIDE DEF r, q, y
<1>10. Extends(wide, ws, 16, 32)
  BY <1>8, <1>9, WiderRow
<1>11. ws \in Seq(Write) /\ Valid(ws)
  BY <1>8, ForEachFacts, WritesValid
<1> HIDE DEF ws, wide
<1>12. Extends(ws \o ClearHigh, ws, 16, 32)
  BY <1>11, ClearHighFacts, ConcatExtends
<1>13. Handle(m, i) = Steps(m, i, Writes(i), FALSE)
  BY <1>2, OtherDomains, MemoryDomain, UnbufferedHandle DEF Illegal
<1>14. Handle(m, y) = Steps(m, y, Writes(y), FALSE)
  BY <1>2, <1>3, MemoryDomain, UnbufferedHandle
<1>15. ASSUME NEW size \in 0 .. 16, size = 16 PROVE Alike(Handle(m, y), Handle(m, i), i, size)
  <2>1. Extends(Writes(i), ws, size, 32) /\ Extends(Writes(y), ws, size, 32)
    BY <1>6, <1>7, <1>10, <1>12, <1>15
  <2> QED BY <1>11, <1>13, <1>14, <2>1, SharedPrefix DEF y
<1> QED BY <1>15 DEF y

\* Moving more elements.
LEMMA MovesPrefix ==
  ASSUME NEW few \in Seq(Frm), NEW more \in Seq(Frm), Len(few) = 2, Len(more) = 4, few[1] = more[1], few[2] = more[2],
         \A n \in 1 .. 4 : more[n][2] \in 0 .. 1, NEW w \in {1, 2, 4, 8}, w = 8
  PROVE  Moves(w, few) \in Seq(Write) /\ Extends(Moves(w, more), Moves(w, few), 16, 32)
<1> DEFINE ws == Moves(w, few)
           wide == Moves(w, more)
<1>1. w * Len(few) <= 32 /\ w * Len(more) <= 32
  OBVIOUS
<1>2. \A k \in 0 .. 1 : w * k + w <= 32
  OBVIOUS
<1>3. \A n \in 1 .. Len(more) : w * more[n][2] + w <= 32
  BY <1>2
<1>4. \A n \in 1 .. Len(few) : w * few[n][2] + w <= 32
  <2>1. \A n \in 1 .. 2 : few[n] = more[n]
    OBVIOUS
  <2>2. \A n \in 1 .. Len(few) : few[n][2] \in 0 .. 1
    BY <2>1
  <2> QED BY <1>2, <2>2
<1>5. ws \in Seq(Write) /\ Len(ws) = 2
  BY <1>1, <1>4, MovesFacts
<1>6. wide \in Seq(Write) /\ Len(wide) = 4
  BY <1>1, <1>3, MovesFacts
<1>7. \A n \in 1 .. 2 : wide[n] = ws[n]
  <2>1. DOMAIN few = 1 .. 2 /\ DOMAIN more = 1 .. 4
    OBVIOUS
  <2>2. \A n \in 1 .. 2 : few[n] = more[n]
    OBVIOUS
  <2> DEFINE At(froms, n) == Copy(<<"d", w, n - 1>>, <<froms[n][1], w, froms[n][2]>>)
  <2>3. ws = [n \in DOMAIN few |-> At(few, n)] /\ wide = [n \in DOMAIN more |-> At(more, n)]
    BY DEF Moves
  <2>4. \A n \in 1 .. 2 : At(few, n) = At(more, n)
    BY <2>2
  <2> HIDE DEF At, ws, wide
  <2> QED BY <2>1, <2>3, <2>4
<1>8. \A n \in 1 .. Len(more) : wide[n].to = <<"d", w, n - 1>>
  BY <1>1, <1>3, MovesFacts
<1> HIDE DEF ws, wide
<1>9. ASSUME NEW n \in 3 .. 4
      PROVE  wide[n].to[1] = "d" /\ 16 <= First(wide[n].to) /\ First(wide[n].to) + wide[n].to[2] <= 32
  <2>1. wide[n].to = <<"d", 8, n - 1>>
    BY <1>8
  <2> QED BY <2>1 DEF First
<1>10. Extends(wide, ws, 16, 32)
  BY <1>5, <1>6, <1>7, <1>9, WritesValid DEF Extends
<1> QED BY <1>5, <1>10 DEF ws, wide

LEMMA InterleavedAlike ==
  ASSUME NEW m, Machine(m), NEW i, Instructed(i), i.op = "XVILVL_D", ~ Torn(i)
  PROVE  Alike(Handle(m, Narrowed(i)), Handle(m, i), i, 16)
<1> DEFINE y == Narrowed(i)
           few == [n \in 1 .. 2 |-> <<IF n % 2 = 1 THEN "k" ELSE "j", (n - 1) \div 2>>]
           more == <<<<"k", 0>>, <<"j", 0>>, <<"k", 1>>, <<"j", 1>>>>
           ws == Moves(8, few)
           wide == Moves(8, more)
<1>1. y.op = "VILVL_D"
  BY NarrowedFacts, NarrowerIs
<1>2. Writes(i) = wide
  <2>1. Writes(i) = WideShuffles["XVILVL_D"]
    BY WritesCases DEF WideShuffleOps
  <2>2. WideShuffles["XVILVL_D"] = Moves(8, more)
    BY DEF WideShuffles
  <2> QED BY <2>1, <2>2
<1>3. Writes(y) = ws \o ClearHigh
  <2>1. Writes(y) = Interleaves["VILVL_D"]
    BY <1>1, WritesCases DEF InterleaveOps
  <2>2. Interleaves["VILVL_D"] = InterleaveLow(8)
    BY DEF Interleaves
  <2>3. 16 \div 8 = 2
    OBVIOUS
  <2>4. InterleaveLow(8) = ws \o ClearHigh
    BY <2>3 DEF InterleaveLow
  <2> QED BY <2>1, <2>2, <2>4
<1>4. /\ few \in Seq(Frm) /\ Len(few) = 2 /\ few[1] = <<"k", 0>> /\ few[2] = <<"j", 0>>
  <2>1. \A n \in 1 .. 2 : (n - 1) \div 2 = 0
    OBVIOUS
  <2>2. few[1] = <<"k", 0>> /\ few[2] = <<"j", 0>>
    BY <2>1
  <2>3. \A n \in 1 .. 2 : few[n] \in Frm
    BY <2>2 DEF Frm, Roles4
  <2>4. few = [n \in 1 .. 2 |-> few[n]]
    OBVIOUS
  <2> HIDE DEF few
  <2>5. few \in Seq(Frm) /\ Len(few) = 2
    BY <2>3, <2>4
  <2> QED BY <2>2, <2>5
<1>5. /\ more \in Seq(Frm) /\ Len(more) = 4 /\ more[1] = <<"k", 0>> /\ more[2] = <<"j", 0>>
      /\ \A n \in 1 .. 4 : more[n][2] \in 0 .. 1
  <2>1. <<"k", 0>> \in Frm /\ <<"j", 0>> \in Frm /\ <<"k", 1>> \in Frm /\ <<"j", 1>> \in Frm
    BY DEF Frm, Roles4
  <2>2. more \in Seq(Frm) /\ Len(more) = 4
    BY <2>1
  <2>3. \A n \in 1 .. 4 : more[n][2] = 0 \/ more[n][2] = 1
    OBVIOUS
  <2> QED BY <2>2, <2>3
<1> HIDE DEF few, more
<1>6. ws \in Seq(Write) /\ Extends(wide, ws, 16, 32)
  <2>1. ASSUME NEW w \in {1, 2, 4, 8}, w = 8
        PROVE  Moves(w, few) \in Seq(Write) /\ Extends(Moves(w, more), Moves(w, few), 16, 32)
    BY <1>4, <1>5, <2>1, MovesPrefix
  <2> QED BY <2>1
<1> HIDE DEF ws, wide
<1>7. Valid(ws) /\ Extends(ws \o ClearHigh, ws, 16, 32)
  BY <1>6, ClearHighFacts, ConcatExtends, WritesValid
<1>8. /\ i.op \notin Raising \cup MemoryOps \cup CompareOps \cup {"VFCMP_COND_D", "VLDI", "XVLDI"} /\ i.op \notin Buffered
      /\ y.op \notin Raising \cup MemoryOps \cup CompareOps \cup {"VFCMP_COND_D", "VLDI", "XVLDI"} /\ y.op \in Buffered
  BY <1>1 DEF Raising, Buffered, MemoryOps, FloatMemoryOps, VectorMemoryOps, WideMemoryOps, CompareOps
<1> HIDE DEF y
<1>9. Handle(m, i) = Steps(m, i, Writes(i), TRUE)
  <2>1. i.op \notin Raising /\ ~ Illegal(i)
    BY <1>8, OtherDomains DEF Illegal
  <2>2. Handle(m, i) = Steps(m, i, Writes(i), FALSE)
    BY <1>8, <2>1, MemoryDomain, UnbufferedHandle
  <2>3. FALSE \in BOOLEAN /\ (i.op \in Buffered => FALSE)
    BY <1>8
  <2>4. Steps(m, i, Writes(i), FALSE) = Simultaneous(m, i, Writes(i))
    BY <1>8, <2>1, <2>3, HandleReadsFirst
  <2> QED BY <2>2, <2>4 DEF Simultaneous
<1>10. Handle(m, y) = Steps(m, y, Writes(y), TRUE)
  <2>1. (y.op \in Buffered) = TRUE
    BY <1>8
  <2>2. Handle(m, y) = Steps(m, y, Writes(y), y.op \in Buffered)
    BY <1>8, OtherDomains, MemoryDomain, HandleCases DEF Illegal
  <2> QED BY <2>1, <2>2
<1>11. ASSUME NEW size \in 0 .. 16, size = 16 PROVE Alike(Handle(m, y), Handle(m, i), i, size)
  <2>1. Extends(Writes(i), ws, size, 32) /\ Extends(Writes(y), ws, size, 32)
    BY <1>2, <1>3, <1>6, <1>7, <1>11
  <2> QED BY <1>7, <1>9, <1>10, <2>1, SharedPrefix DEF y
<1> QED BY <1>11 DEF y
\* g is m with the N bytes an address leads to in the target of i.
Loaded(m, g, i, N) ==
  /\ Machine(g) /\ g.trap = m.trap
  /\ \A p \in Places : \A n \in 0 .. 31 :
       g.bytes[p][n] = IF p = i.d /\ n < N THEN m.bytes["mem"][n] ELSE m.bytes[p][n]

LEMMA LoadedBytes ==
  ASSUME NEW m, Machine(m), NEW i, Named(i), NEW N \in {16, 32}, NEW l
  PROVE  Loaded(m, Steps(m, i, Load(N, <<>>), l), i, N)
<1> DEFINE to == <<"d", N, 0>>
           from == <<"mem", N, 0>>
           c == Copy(to, from)
           ws == <<c>>
           g == Steps(m, i, ws, l)
<1>1. Load(N, <<>>) = ws
  BY PlainLoad
<1>2. to \in Elem /\ from \in Elem
  BY DEF Elem, Others, Roles4, Widths
<1>3. to[1] = "d" /\ First(to) = 0 /\ to[2] = N /\ from[1] = "mem" /\ from[2] = N /\ from[3] = 0
  BY DEF First
<1>4. Place(i, "d") = i.d /\ Place(i, "mem") = "mem"
  BY DEF Place
<1>5. c.f = "copy" /\ c.to = to /\ c.from = <<from>> /\ c \in Write
  BY <1>2, CopyWrite DEF Copy
<1>6. Result(m, i, c) = Element(m, i, from)
  <2> HIDE DEF c, from
  <2>1. [x \in DOMAIN c.from |-> Element(m, i, c.from[x])][1] = Element(m, i, from)
    BY <1>5
  <2> QED BY <1>5, <2>1 DEF Result
<1>7. Element(m, i, from) = [n \in 1 .. N |-> m.bytes["mem"][n - 1]]
  <2> HIDE DEF from
  <2>1. Element(m, i, from) = [n \in 1 .. N |-> m.bytes["mem"][N * 0 + n - 1]]
    BY <1>3, <1>4 DEF Element
  <2>2. \A n \in 1 .. N : N * 0 + n - 1 = n - 1
    OBVIOUS
  <2> QED BY <2>1, <2>2
<1> HIDE DEF to, from, c
<1>8. ws \in Seq(Write) /\ Len(ws) = 1 /\ ws[1] = c /\ Valid(ws)
  BY <1>5, WritesValid
<1> HIDE DEF ws
<1> DEFINE v == Element(m, i, from)
<1>9. g = Put(m, i, to, v)
  <2>1. PICK s : Chain(m, i, ws, l, s) /\ g = s[1]
    BY <1>8, StepsChain
  <2>2. s[1] = Put(s[0], i, ws[1].to, Result(IF l THEN m ELSE s[0], i, ws[1])) /\ s[0] = m
    BY <1>8, <2>1 DEF Chain
  <2>3. (IF l THEN m ELSE s[0]) = m
    BY <2>2
  <2> HIDE DEF g
  <2> QED BY <1>5, <1>6, <1>8, <2>1, <2>2, <2>3
<1>10. Machine(g) /\ g.trap = m.trap
  BY <1>2, <1>9, PutFacts
<1> HIDE DEF v, g
<1>11. ASSUME NEW p \in Places, NEW n \in 0 .. 31
       PROVE  g.bytes[p][n] = IF p = i.d /\ n < N THEN m.bytes["mem"][n] ELSE m.bytes[p][n]
  <2>1. g.bytes[p][n] = IF Covers(i, to, p, n) THEN v[n - First(to) + 1] ELSE m.bytes[p][n]
    BY <1>2, <1>9, PutFacts
  <2>2. Covers(i, to, p, n) <=> p = i.d /\ n < N
    BY <1>3, <1>4 DEF Covers
  <2>3. n < N => v[n - First(to) + 1] = m.bytes["mem"][n]
    BY <1>3, <1>7 DEF v
  <2> QED BY <2>1, <2>2, <2>3
<1>12. Loaded(m, g, i, N)
  BY <1>10, <1>11 DEF Loaded
<1> QED BY <1>1, <1>12 DEF g

LEMMA LoadedAlike ==
  ASSUME NEW m, Machine(m), NEW i, Instructed(i), i.op \in {"XVLD", "XVLDX"}
  PROVE  Alike(Handle(m, Narrowed(i)), Handle(m, i), i, 16)
<1> DEFINE y == Narrowed(i)
           h == Steps(m, i, Load(32, <<>>), FALSE)
           half == Steps(m, y, Load(16, <<>>), FALSE)
           g == Steps(m, y, Writes(y), FALSE)
<1>1. Named(i) /\ Named(y) /\ y.d = i.d /\ y.op \in {"VLD", "VLDX"} /\ y.at = i.at
  BY NarrowedFacts, NarrowerIs DEF Instructed
<1>2. Writes(i) = Load(32, <<>>)
  BY WritesCases, MemoryIs DEF MemoryOps, WideMemoryOps
<1>3. /\ i.op \in DOMAIN Memory /\ y.op \in DOMAIN Memory
      /\ i.op \notin Raising \cup Buffered \cup CompareOps \cup {"VFCMP_COND_D", "VLDI", "XVLDI"}
      /\ y.op \notin Raising \cup Buffered \cup CompareOps \cup {"VFCMP_COND_D", "VLDI", "XVLDI"}
  BY <1>1, MemoryDomain DEF MemoryOps, VectorMemoryOps, WideMemoryOps, Raising, Buffered, CompareOps
<1>4. Extends(Writes(y), Load(16, <<>>), 16, 32)
  BY <1>1, VectorLoadExtends
<1>5. Valid(Writes(y)) /\ Valid(Load(16, <<>>))
  <2>1. <<>> \in Seq(Elem)
    OBVIOUS
  <2> QED BY <1>4, <2>1, LoadFacts, WritesValid DEF Extends, Tame
<1> HIDE DEF y
<1>6. ~ Illegal(i) /\ ~ Illegal(y)
  BY <1>3, OtherDomains DEF Illegal
<1>0. Refused(y) <=> Refused(i)
  BY <1>1 DEF Refused, Stores
<1>7. CASE Refused(i)
  BY <1>0, <1>1, <1>3, <1>7, HandleCases, AlikeItself DEF y
<1>8. CASE ~ Refused(i)
  <2>1. Handle(m, i) = h /\ Handle(m, y) = g
    BY <1>0, <1>1, <1>2, <1>3, <1>6, <1>8, UnbufferedHandle
  <2>2. SameBut(half, g, y, 16, 32)
    <3>1. ASSUME NEW lo \in Nat, NEW hi \in Nat, lo = 16, hi = 32, NEW l
          PROVE  SameBut(Steps(m, y, Load(16, <<>>), l), Steps(m, y, Writes(y), l), y, lo, hi)
      BY <1>1, <1>4, <1>5, <3>1, ExtendedSteps
    <3> QED BY <3>1
  <2>12. Loaded(m, half, y, 16) /\ Loaded(m, h, i, 32)
    BY <1>1, LoadedBytes
  <2>3. /\ Machine(half) /\ half.trap = m.trap
        /\ \A p \in Places : \A n \in 0 .. 31 :
             half.bytes[p][n] = IF p = y.d /\ n < 16 THEN m.bytes["mem"][n] ELSE m.bytes[p][n]
    <3> HIDE DEF half
    <3> QED BY <2>12 DEF Loaded
  <2>4. /\ Machine(h) /\ h.trap = m.trap
        /\ \A p \in Places : \A n \in 0 .. 31 :
             h.bytes[p][n] = IF p = i.d /\ n < 32 THEN m.bytes["mem"][n] ELSE m.bytes[p][n]
    <3> HIDE DEF h
    <3> QED BY <2>12 DEF Loaded
  <2>5. Machine(g)
    BY <1>1, <1>5, StepsTyped
  <2> HIDE DEF h, g, half
  <2>6. SameBut(half, h, i, 16, 32)
    <3>1. ASSUME NEW p \in Places, NEW n \in 0 .. 31, ~ (p = i.d /\ 16 <= n /\ n < 32)
          PROVE  half.bytes[p][n] = h.bytes[p][n]
      <4>1. CASE p = i.d
        <5>1. n < 16 /\ n < 32
          BY <3>1, <4>1
        <5> QED BY <1>1, <2>3, <2>4, <4>1, <5>1
      <4>2. CASE p # i.d
        BY <1>1, <2>3, <2>4, <4>2
      <4> QED BY <4>1, <4>2
    <3> QED BY <2>3, <2>4, <3>1 DEF SameBut
  <2>7. SameBut(half, g, i, 16, 32)
    BY <1>1, <2>2 DEF SameBut
  <2>8. SameBut(g, h, i, 16, 32)
    BY <2>6, <2>7, SameButBoth
  <2>9. ASSUME NEW size \in 0 .. 16, size = 16 PROVE Alike(g, h, i, size)
    BY <1>1, <2>4, <2>5, <2>8, <2>9, SameButAlike
  <2> QED BY <2>1, <2>9 DEF y
<1> QED BY <1>7, <1>8

LEMMA NarrowerAlike ==
  ASSUME NEW m, Machine(m), NEW i, Instructed(i), i.op \in DOMAIN Narrower \ Diverging, ~ Torn(i)
  PROVE  LET narrow == Handle(m, Narrowed(i))
         IN  \/ i.op = "XVFCMP_COND_D" /\ narrow.trap = "illegal"
             \/ Alike(narrow, Handle(m, i), i, Shared(Narrower[i.op]))
<1>1. CASE i.op \in PairedRows
  BY <1>1, PairedRowsAlike
<1>2. CASE i.op \in ConvertedRows
  BY <1>2, ConvertedAlike
<1>3. CASE i.op = "XVPICKVE2GR_W"
  BY <1>3, PickedAlike, AlikeItself
<1> DEFINE size == Shared(Narrower[i.op])
<1>4. i.op \in {"XVFCMP_COND_D", "XVLD", "XVLDX", "XVLDI", "XVREPLGR2VR_B", "XVILVL_D"} => size = 16
  BY NarrowerIs, SharedSizes
<1> HIDE DEF size
<1>5. CASE i.op = "XVREPLGR2VR_B"
  BY <1>4, <1>5, ReplicatedAlike DEF size
<1>6. CASE i.op = "XVLDI"
  BY <1>4, <1>6, ImmediateAlike DEF size
<1>7. CASE i.op = "XVFCMP_COND_D"
  BY <1>4, <1>7, ComparedAlike DEF size
<1>8. CASE i.op = "XVILVL_D"
  BY <1>4, <1>8, InterleavedAlike DEF size
<1>9. CASE i.op \in {"XVLD", "XVLDX"}
  BY <1>4, <1>9, LoadedAlike DEF size
<1>10. i.op \in PairedRows \cup ConvertedRows \cup PairedOthers
  BY NarrowerDomain DEF PairedRows
<1> QED BY <1>1, <1>2, <1>3, <1>5, <1>6, <1>7, <1>8, <1>9, <1>10 DEF PairedOthers

\* A 256-bit, a 128-bit and a scalar handler of the same operation agree on the
\* bytes they share, but for the pairs of Diverging.
THEOREM CounterpartsAgree == Spec => []WidthsAgree
<1>1. Executed => WidthsAgree
  <2> DEFINE narrow == Handle(start, Narrowed(last))
             h == engine["handler"]
  <2> SUFFICES ASSUME Executed, Ran, last.op \in DOMAIN Narrower \ Diverging, ~ Torn(last)
               PROVE  \/ last.op = "XVFCMP_COND_D" /\ narrow.trap = "illegal"
                      \/ Alike(narrow, h, last, Shared(Narrower[last.op]))
    BY DEF WidthsAgree, Narrowed, Alike
  <2>1. Machine(start) /\ Instructed(last)
    BY RanInstructed, RunningMachine, InstructionsAssumption DEF Executed
  <2>2. h = Handle(start, last)
    BY RanInstructed DEF Engines, Run
  <2> QED BY <2>1, <2>2, NarrowerAlike
<1> QED BY <1>1, EnginesRan, PTL
=============================================================================
