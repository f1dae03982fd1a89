---------------------------- MODULE ThreadsProofs ----------------------------
(***************************************************************************)
(* Proofs about Threads, for every number of threads and calls, every set  *)
(* of words and bitsets and every guest: no thread is lost or scheduled    *)
(* twice, no pointer dangles while threads only exit themselves, registers *)
(* are restored as they were saved, a blocked thread waits for its wake,   *)
(* and the queue is fair.                                                  *)
(***************************************************************************)
EXTENDS Threads, SequenceTheorems, FiniteSetTheorems, TLAPS

(* A tid that was not given out yet is nowhere.                            *)
Issued ==
  /\ \A t \in threads : t <= counter
  /\ \A t \in Tids : Somewhere(t) => t <= counter
  /\ \A t \in Tids : t > counter => reached[t] = 0

(* The thread that runs is there, and the registers of every other one are *)
(* those of its last call.                                                 *)
Running == state = "running" => current \in threads
SavedLast == \A t \in threads \ {current} : saved[t].pos = reached[t]

(* The inductive invariant.                                                *)
IInv == TypeOK /\ OnePlace /\ Issued /\ Running /\ SavedLast /\ NeverRewound
------------------------------------------------------------------------------
(* Lists of threads.                                                       *)

(* At the end of a list.                                                   *)
LEMMA AppendFacts ==
  ASSUME NEW s \in Seq(Tids), NEW x \in Tids
  PROVE  /\ Append(s, x) \in Seq(Tids) /\ Append(s, x) # <<>>
         /\ Range(Append(s, x)) = Range(s) \cup {x}
         /\ \A t : Once(s, t) /\ (t = x => t \notin Range(s)) => Once(Append(s, x), t)
<1> DEFINE a == Append(s, x)
<1>1. /\ a \in Seq(Tids) /\ a # <<>> /\ Len(a) = Len(s) + 1
      /\ \A i \in 1..Len(s) : a[i] = s[i]
      /\ a[Len(s) + 1] = x
  BY AppendProperties
<1>2. DOMAIN s = 1..Len(s) /\ DOMAIN a = 1..(Len(s) + 1) /\ Len(s) \in Nat
  BY <1>1, LenProperties
<1>3. Range(a) = Range(s) \cup {x}
  <2>1. ASSUME NEW i \in DOMAIN a PROVE a[i] \in Range(s) \cup {x}
    <3>1. i \in DOMAIN s \/ i = Len(s) + 1 BY <1>2
    <3> QED BY <1>1, <1>2, <3>1 DEF Range
  <2>2. ASSUME NEW i \in DOMAIN s PROVE s[i] \in Range(a)
    BY <1>1, <1>2 DEF Range
  <2>3. x \in Range(a) BY <1>1, <1>2 DEF Range
  <2> QED BY <2>1, <2>2, <2>3 DEF Range
<1>4. ASSUME NEW t, Once(s, t), t = x => t \notin Range(s), NEW i \in DOMAIN a, NEW j \in DOMAIN a,
             a[i] = t, a[j] = t
      PROVE  i = j
  <2>1. (i \in DOMAIN s \/ i = Len(s) + 1) /\ (j \in DOMAIN s \/ j = Len(s) + 1) BY <1>2
  <2>2. CASE i \in DOMAIN s /\ j \in DOMAIN s BY <1>1, <1>2, <1>4, <2>2 DEF Once
  <2>3. CASE i \in DOMAIN s /\ j = Len(s) + 1 BY <1>1, <1>2, <1>4, <2>3 DEF Range
  <2>4. CASE i = Len(s) + 1 /\ j \in DOMAIN s BY <1>1, <1>2, <1>4, <2>4 DEF Range
  <2> QED BY <2>1, <2>2, <2>3, <2>4
<1> QED BY <1>1, <1>3, <1>4 DEF Once

(* At the front of a list.                                                 *)
LEMMA TailFacts ==
  ASSUME NEW s \in Seq(Tids), s # <<>>
  PROVE  /\ Head(s) \in Tids /\ Tail(s) \in Seq(Tids)
         /\ Range(s) = {Head(s)} \cup Range(Tail(s))
         /\ \A t : Once(s, t) => Once(Tail(s), t) /\ (t = Head(s) => t \notin Range(Tail(s)))
<1> DEFINE a == Tail(s)
<1>1. /\ a \in Seq(Tids) /\ Len(a) = Len(s) - 1 /\ Head(s) \in Tids
      /\ \A i \in 1..Len(a) : a[i] = s[i + 1]
  BY HeadTailProperties
<1>2. DOMAIN s = 1..Len(s) /\ DOMAIN a = 1..(Len(s) - 1) /\ Len(s) \in Nat \ {0} /\ Head(s) = s[1]
  BY <1>1, LenProperties, EmptySeq
<1>3. \A i \in DOMAIN a : i + 1 \in DOMAIN s /\ i + 1 # 1 /\ a[i] = s[i + 1]
  BY <1>1, <1>2
<1>4. Range(s) = {Head(s)} \cup Range(a)
  <2>1. ASSUME NEW i \in DOMAIN s PROVE s[i] \in {Head(s)} \cup Range(a)
    <3>1. CASE i = 1 BY <1>2, <3>1
    <3>2. CASE i # 1
      <4>1. i - 1 \in DOMAIN a /\ (i - 1) + 1 = i BY <1>2, <3>2
      <4>2. a[i - 1] = s[i] BY <1>3, <4>1
      <4> QED BY <4>1, <4>2 DEF Range
    <3> QED BY <3>1, <3>2
  <2>2. ASSUME NEW i \in DOMAIN a PROVE a[i] \in Range(s) BY <1>3 DEF Range
  <2>3. Head(s) \in Range(s) BY <1>2 DEF Range
  <2> QED BY <2>1, <2>2, <2>3 DEF Range
<1>5. ASSUME NEW t, Once(s, t) PROVE Once(a, t) /\ (t = Head(s) => t \notin Range(a))
  <2>1. ASSUME NEW i \in DOMAIN a, NEW j \in DOMAIN a, a[i] = t, a[j] = t PROVE i = j
    <3>1. i + 1 = j + 1 BY <1>3, <1>5, <2>1 DEF Once
    <3> QED BY <1>2, <3>1
  <2>2. ASSUME NEW i \in DOMAIN a, t = Head(s) PROVE a[i] # t
    BY <1>2, <1>3, <1>5, <2>2 DEF Once
  <2> QED BY <2>1, <2>2 DEF Once, Range
<1> QED BY <1>1, <1>4, <1>5

(* Two lists.                                                              *)
LEMMA ConcatFacts ==
  ASSUME NEW s \in Seq(Tids), NEW u \in Seq(Tids)
  PROVE  /\ s \o u \in Seq(Tids)
         /\ Range(s \o u) = Range(s) \cup Range(u)
         /\ \A t : Once(s, t) /\ Once(u, t) /\ ~ (t \in Range(s) /\ t \in Range(u)) => Once(s \o u, t)
<1> DEFINE a == s \o u
<1>1. /\ a \in Seq(Tids) /\ Len(a) = Len(s) + Len(u)
      /\ \A i \in 1..(Len(s) + Len(u)) : a[i] = IF i <= Len(s) THEN s[i] ELSE u[i - Len(s)]
  BY ConcatProperties
<1>2. /\ DOMAIN s = 1..Len(s) /\ DOMAIN u = 1..Len(u) /\ DOMAIN a = 1..(Len(s) + Len(u))
      /\ Len(s) \in Nat /\ Len(u) \in Nat
  BY <1>1, LenProperties
<1>3. \A i \in DOMAIN a : \/ i \in DOMAIN s /\ i <= Len(s) /\ a[i] = s[i]
                          \/ i - Len(s) \in DOMAIN u /\ i > Len(s) /\ a[i] = u[i - Len(s)]
  BY <1>1, <1>2
<1>4. ASSUME NEW t, Once(s, t), Once(u, t), ~ (t \in Range(s) /\ t \in Range(u)),
             NEW i \in DOMAIN a, NEW j \in DOMAIN a, a[i] = t, a[j] = t
      PROVE  i = j
  <2>1. CASE t \in Range(s)
    <3>1. i \in DOMAIN s /\ s[i] = t /\ j \in DOMAIN s /\ s[j] = t BY <1>3, <1>4, <2>1 DEF Range
    <3> QED BY <1>4, <3>1 DEF Once
  <2>2. CASE t \notin Range(s)
    <3>1. i - Len(s) \in DOMAIN u /\ u[i - Len(s)] = t /\ j - Len(s) \in DOMAIN u /\ u[j - Len(s)] = t
      BY <1>3, <1>4, <2>2 DEF Range
    <3>2. i - Len(s) = j - Len(s) BY <1>4, <3>1 DEF Once
    <3> QED BY <1>2, <3>2
  <2> QED BY <2>1, <2>2
<1>5. \A t : Once(s, t) /\ Once(u, t) /\ ~ (t \in Range(s) /\ t \in Range(u)) => Once(a, t)
  BY <1>4 DEF Once
<1>6. Range(a) = Range(s) \cup Range(u) BY RangeConcatenation
<1> QED BY <1>1, <1>5, <1>6

(* Ranks in a finite set of positions are its own numbers from 1 on.       *)
LEMMA RankFacts ==
  ASSUME NEW n \in Nat, NEW I \in SUBSET (1..n)
  PROVE  /\ Cardinality(I) \in Nat
         /\ \A i \in I : Rank(I, i) \in 1..Cardinality(I)
         /\ \A i, j \in I : i < j => Rank(I, i) < Rank(I, j)
<1> DEFINE upTo(i) == {j \in I : j <= i}
<1>0. IsFiniteSet(1..n) BY FS_Interval
<1>1. IsFiniteSet(I) BY <1>0, FS_Subset
<1>i. \A i \in I : i \in Int OBVIOUS
<1>2. Cardinality(I) \in Nat BY <1>1, FS_CardinalityType
<1>3. ASSUME NEW i \in I PROVE /\ IsFiniteSet(upTo(i)) /\ Cardinality(upTo(i)) \in Nat
                               /\ Cardinality(upTo(i)) <= Cardinality(I)
  <2>1. upTo(i) \in SUBSET I OBVIOUS
  <2> QED BY <1>1, <2>1, FS_Subset, FS_CardinalityType
<1>4. ASSUME NEW i \in I PROVE Cardinality(upTo(i)) # 0
  <2>1. i \in upTo(i) OBVIOUS
  <2> QED BY <1>3, <2>1, FS_EmptySet
<1>5. ASSUME NEW i \in I, NEW j \in I, i < j PROVE Cardinality(upTo(i)) < Cardinality(upTo(j))
  <2>1. ASSUME NEW k \in I, k <= i PROVE k <= j BY <1>i, <1>5, <2>1
  <2>3. upTo(i) \in SUBSET upTo(j) BY <2>1
  <2>2. j \in upTo(j) /\ j \notin upTo(i) BY <1>i, <1>5
  <2>4. Cardinality(upTo(i)) <= Cardinality(upTo(j)) /\ Cardinality(upTo(i)) # Cardinality(upTo(j))
    BY <1>3, <2>3, <2>2, FS_Subset
  <2> QED BY <1>3, <2>4
<1> QED BY <1>2, <1>3, <1>4, <1>5 DEF Rank

(* Every number has a position of that rank, or two positions would share  *)
(* one.                                                                    *)
LEMMA RankExists ==
  ASSUME NEW n \in Nat, NEW I \in SUBSET (1..n), NEW k \in 1..Cardinality(I)
  PROVE  \E i \in I : Rank(I, i) = k
<1> SUFFICES ASSUME \A i \in I : Rank(I, i) # k PROVE FALSE OBVIOUS
<1> DEFINE others == (1..Cardinality(I)) \ {k}
           f == [i \in I |-> Rank(I, i)]
<1>0. IsFiniteSet(1..n) BY FS_Interval
<1>1. IsFiniteSet(I) /\ Cardinality(I) \in Nat BY <1>0, FS_Subset, FS_CardinalityType
<1>2. IsFiniteSet(1..Cardinality(I)) /\ Cardinality(1..Cardinality(I)) = Cardinality(I)
  BY <1>1, FS_Interval
<1>3. IsFiniteSet(others) /\ Cardinality(others) = Cardinality(I) - 1
  BY <1>2, FS_RemoveElement
<1>4. f \in [I -> others] BY RankFacts
<1>5. PICK i, j \in I : i # j /\ f[i] = f[j]
  <2>1. Cardinality(others) < Cardinality(I) BY <1>1, <1>3
  <2>2. \E i, j \in I : i # j /\ f[i] = f[j]
    <3> HIDE DEF f, others
    <3> QED BY <1>1, <1>3, <1>4, <2>1, FS_PigeonHole
  <2> QED BY <2>2
<1>6. i < j \/ j < i BY <1>5
<1>7. /\ \A a, b \in I : a < b => Rank(I, a) < Rank(I, b)
      /\ \A a \in I : Rank(I, a) \in 1..Cardinality(I)
  BY RankFacts
<1>8. Rank(I, i) \in Int /\ Rank(I, i) = Rank(I, j) BY <1>1, <1>5, <1>7
<1> QED BY <1>5, <1>6, <1>7, <1>8

(* A sublist.                                                              *)
LEMMA PickFacts ==
  ASSUME NEW s \in Seq(Tids), NEW I \in SUBSET DOMAIN s
  PROVE  /\ Pick(s, I) \in Seq(Tids)
         /\ Range(Pick(s, I)) = {s[i] : i \in I}
         /\ \A t : Once(s, t) => Once(Pick(s, I), t)
<1> DEFINE at(k) == CHOOSE i \in I : Rank(I, i) = k
           p == Pick(s, I)
           n == Cardinality(I)
<1>1. DOMAIN s = 1..Len(s) /\ Len(s) \in Nat /\ \A i \in I : s[i] \in Tids
  BY LenProperties
<1>2. n \in Nat /\ (\A i \in I : Rank(I, i) \in 1..n)
      /\ (\A i, j \in I : i < j => Rank(I, i) < Rank(I, j))
  BY <1>1, RankFacts
<1>3. \A k \in 1..n : at(k) \in I /\ Rank(I, at(k)) = k
  BY <1>1, RankExists
<1>4. \A i \in I : at(Rank(I, i)) = i
  <2>1. ASSUME NEW i \in I, NEW j \in I, Rank(I, i) = Rank(I, j) PROVE i = j
    <3>1. i < j \/ j < i \/ i = j BY <1>1
    <3> QED BY <1>2, <2>1, <3>1
  <2> QED BY <1>2, <1>3, <2>1
<1>5. p = [k \in 1..n |-> s[at(k)]] BY DEF Pick
<1>6. p \in Seq(Tids)
  <2>1. \A k \in 1..n : s[at(k)] \in Tids BY <1>1, <1>3
  <2> HIDE DEF at, n
  <2> QED BY <1>2, <1>5, <2>1, IsASeq
<1>7. DOMAIN p = 1..n /\ \A k \in 1..n : p[k] = s[at(k)] BY <1>5
<1> HIDE DEF at, p, n
<1>8. Range(p) = {s[i] : i \in I}
  <2>1. ASSUME NEW k \in 1..n PROVE p[k] \in {s[i] : i \in I} BY <1>3, <1>7
  <2>2. ASSUME NEW i \in I PROVE s[i] \in Range(p) BY <1>2, <1>4, <1>7 DEF Range
  <2> QED BY <1>7, <2>1, <2>2 DEF Range
<1>9. ASSUME NEW t, Once(s, t) PROVE Once(p, t)
  <2>1. ASSUME NEW k \in 1..n, NEW l \in 1..n, p[k] = t, p[l] = t PROVE k = l
    <3>1. at(k) = at(l) BY <1>3, <1>7, <1>9, <2>1 DEF Once
    <3> QED BY <1>3, <3>1
  <2> QED BY <1>7, <2>1 DEF Once
<1> QED BY <1>6, <1>8, <1>9 DEF p
------------------------------------------------------------------------------
(* Where the threads are after a switch.                                   *)

(* wakeup_next hands the CPU to the front of the queue or to main.         *)
LEMMA WakeupNextFacts ==
  ASSUME NEW queue \in Seq(Tids), NEW regs, NEW live, WakeupNext(queue, regs, live), Main \in Tids
  PROVE  /\ suspended' \in Seq(Tids) /\ current' \in Tids
         /\ saved' = regs /\ cpu' = regs[current']
         /\ state' \in {"running", "undefined"} /\ (state' = "running" <=> current' \in live)
         /\ current' \in Range(queue) \cup {Main}
         /\ Range(suspended') \subseteq Range(queue)
         /\ Range(queue) \subseteq {current'} \cup Range(suspended')
         /\ \A t \in Tids \ {Main} : Once(queue, t) =>
              Once(suspended', t) /\ (t \in Range(suspended') => t # current')
<1>1. CASE queue # <<>>
  <2>1. suspended' = Tail(queue) /\ current' = Head(queue) BY <1>1 DEF WakeupNext, Resume
  <2> QED BY <1>1, <2>1, TailFacts DEF WakeupNext, Resume
<1>2. CASE queue = <<>>
  <2>1. suspended' = <<>> /\ current' = Main BY <1>2 DEF WakeupNext, Resume
  <2>2. Range(<<>>) = {} /\ <<>> \in Seq(Tids) /\ \A t : Once(<<>>, t)
    BY EmptySeq DEF Range, Once
  <2> QED BY <1>2, <2>1, <2>2 DEF WakeupNext, Resume
<1> QED BY <1>1, <1>2

(* What every step says of the places: they keep their type and nobody     *)
(* new turns up.                                                           *)
Placed ==
  /\ suspended' \in Seq(Tids) /\ blocked' \in Seq(Tids) /\ current' \in Tids
  /\ OnePlace'
  /\ \A t \in Tids : Somewhere(t)' => Somewhere(t)

LEMMA MainSomewhere ==
  ASSUME TypeOK, OnePlace
  PROVE  Main \in Tids /\ Somewhere(Main)
BY DEF TypeOK, OnePlace, Main, Tids

(* suspend and wakeup_next: the running thread goes to the end of the      *)
(* queue before its front leaves.                                          *)
LEMMA YieldPlaces ==
  ASSUME TypeOK, OnePlace, NEW regs,
         WakeupNext(Append(suspended, current), regs, threads), UNCHANGED <<blocked, threads>>
  PROVE  Placed
<1> DEFINE queue == Append(suspended, current)
<1>1. /\ queue \in Seq(Tids) /\ Range(queue) = Range(suspended) \cup {current}
      /\ \A t : Once(suspended, t) /\ (t = current => t \notin Range(suspended)) => Once(queue, t)
  BY AppendFacts DEF TypeOK
<1>2. Main \in Tids /\ Somewhere(Main) BY MainSomewhere
<1> HIDE DEF queue
<1>3. WakeupNext(queue, regs, threads) BY DEF queue
<1>4. /\ suspended' \in Seq(Tids) /\ current' \in Tids
      /\ current' \in Range(queue) \cup {Main}
      /\ Range(suspended') \subseteq Range(queue)
      /\ Range(queue) \subseteq {current'} \cup Range(suspended')
      /\ \A t \in Tids \ {Main} : Once(queue, t) =>
           Once(suspended', t) /\ (t \in Range(suspended') => t # current')
  BY <1>1, <1>2, <1>3, WakeupNextFacts
<1>5. \A t \in Tids \ {Main} : Alone(t)' BY <1>1, <1>4 DEF OnePlace, Alone
<1>6. \A t \in threads' : Somewhere(t)' BY <1>1, <1>4 DEF OnePlace, Somewhere
<1>7. \A t \in Tids : Somewhere(t)' => Somewhere(t) BY <1>1, <1>2, <1>4 DEF Somewhere
<1> QED BY <1>4, <1>5, <1>6, <1>7 DEF Placed, OnePlace, TypeOK

(* block: the running thread goes to m_blocked.                            *)
LEMMA BlockPlaces ==
  ASSUME TypeOK, OnePlace, NEW regs, WakeupNext(suspended, regs, threads),
         blocked' = Append(blocked, current), UNCHANGED threads
  PROVE  Placed
<1>1. /\ blocked' \in Seq(Tids) /\ Range(blocked') = Range(blocked) \cup {current}
      /\ \A t : Once(blocked, t) /\ (t = current => t \notin Range(blocked)) => Once(blocked', t)
  BY AppendFacts DEF TypeOK
<1>2. Main \in Tids /\ Somewhere(Main) BY MainSomewhere
<1>3. suspended \in Seq(Tids) BY DEF TypeOK
<1>4. /\ suspended' \in Seq(Tids) /\ current' \in Tids
      /\ current' \in Range(suspended) \cup {Main}
      /\ Range(suspended') \subseteq Range(suspended)
      /\ Range(suspended) \subseteq {current'} \cup Range(suspended')
      /\ \A t \in Tids \ {Main} : Once(suspended, t) =>
           Once(suspended', t) /\ (t \in Range(suspended') => t # current')
  BY <1>2, <1>3, WakeupNextFacts
<1>5. \A t \in Tids \ {Main} : Alone(t)' BY <1>1, <1>4 DEF OnePlace, Alone
<1>6. \A t \in threads' : Somewhere(t)' BY <1>1, <1>4 DEF OnePlace, Somewhere
<1>7. \A t \in Tids : Somewhere(t)' => Somewhere(t) BY <1>1, <1>2, <1>4 DEF Somewhere
<1> QED BY <1>1, <1>4, <1>5, <1>6, <1>7 DEF Placed, OnePlace

(* exit: the running thread is nowhere any more.                           *)
LEMMA LeavePlaces ==
  ASSUME TypeOK, OnePlace, NEW regs, NEW live, WakeupNext(suspended, regs, live),
         threads' = threads \ {current}, current # Main, UNCHANGED blocked
  PROVE  Placed
<1>2. Main \in Tids /\ Somewhere(Main) BY MainSomewhere
<1>3. suspended \in Seq(Tids) /\ blocked \in Seq(Tids) BY DEF TypeOK
<1>4. /\ suspended' \in Seq(Tids) /\ current' \in Tids
      /\ current' \in Range(suspended) \cup {Main}
      /\ Range(suspended') \subseteq Range(suspended)
      /\ Range(suspended) \subseteq {current'} \cup Range(suspended')
      /\ \A t \in Tids \ {Main} : Once(suspended, t) =>
           Once(suspended', t) /\ (t \in Range(suspended') => t # current')
  BY <1>2, <1>3, WakeupNextFacts
<1>5. \A t \in Tids \ {Main} : Alone(t)' BY <1>4 DEF OnePlace, Alone
<1>6. \A t \in threads' : Somewhere(t)' BY <1>4 DEF OnePlace, Somewhere
<1>7. \A t \in Tids : Somewhere(t)' => Somewhere(t) BY <1>2, <1>4 DEF Somewhere
<1> QED BY <1>3, <1>4, <1>5, <1>6, <1>7 DEF Placed, OnePlace

(* wakeup_blocked: some of the blocked threads join the queue.             *)
LEMMA WakePlaces ==
  ASSUME TypeOK, OnePlace, NEW I \in SUBSET DOMAIN blocked,
         blocked' = Unblocked(I), suspended' = suspended \o Pick(blocked, I),
         UNCHANGED <<current, threads>>
  PROVE  Placed
<1> DEFINE woken == Pick(blocked, I)
<1>1. suspended \in Seq(Tids) /\ blocked \in Seq(Tids) /\ current \in Tids BY DEF TypeOK
<1>2. /\ woken \in Seq(Tids) /\ Range(woken) = {blocked[i] : i \in I}
      /\ \A t : Once(blocked, t) => Once(woken, t)
  BY <1>1, PickFacts
<1>3. /\ blocked' \in Seq(Tids) /\ Range(blocked') = {blocked[i] : i \in DOMAIN blocked \ I}
      /\ \A t : Once(blocked, t) => Once(blocked', t)
  BY <1>1, PickFacts DEF Unblocked
<1> HIDE DEF woken
<1>4. /\ suspended' \in Seq(Tids) /\ Range(suspended') = Range(suspended) \cup Range(woken)
      /\ \A t : Once(suspended, t) /\ Once(woken, t) /\ ~ (t \in Range(suspended) /\ t \in Range(woken))
                => Once(suspended', t)
  <2>1. suspended' = suspended \o woken BY DEF woken
  <2> QED BY <1>1, <1>2, <2>1, ConcatFacts
<1>5. Range(blocked) = Range(blocked') \cup Range(woken) BY <1>2, <1>3 DEF Range
<1>6. \A t : Once(blocked, t) => ~ (t \in Range(blocked') /\ t \in Range(woken))
  BY <1>2, <1>3 DEF Once
<1>7. \A t \in Tids \ {Main} : Alone(t)' BY <1>2, <1>3, <1>4, <1>5, <1>6 DEF OnePlace, Alone
<1>8. \A t \in threads' : Somewhere(t)' BY <1>4, <1>5 DEF OnePlace, Somewhere
<1>9. \A t \in Tids : Somewhere(t)' => Somewhere(t) BY <1>4, <1>5 DEF Somewhere
<1> QED BY <1>1, <1>3, <1>4, <1>7, <1>8, <1>9 DEF Placed, OnePlace

(* Nobody moves; somebody else may be erased.                              *)
LEMMA SamePlaces ==
  ASSUME TypeOK, OnePlace, threads' \subseteq threads, UNCHANGED <<current, suspended, blocked>>
  PROVE  Placed
BY DEF TypeOK, OnePlace, Placed, Somewhere, Alone
------------------------------------------------------------------------------
(* The registers after a switch, and after a call that goes on.            *)

Counted == reached' = [reached EXCEPT ![current] = cpu.pos + 1]

LEMMA NextPosition ==
  ASSUME TypeOK, cpu.pos < MaxCalls
  PROVE  cpu.pos + 1 \in 0..MaxCalls
<1>1. cpu.pos \in 0..MaxCalls BY DEF TypeOK, Registers
<1>2. MaxCalls \in Nat BY ThreadsAssumption
<1> QED BY <1>1, <1>2

(* A thread that gave up the CPU has its last call in its saved registers. *)
LEMMA SuspendedLast ==
  ASSUME TypeOK, SavedLast, Counted, NEW a0 \in Int, cpu.pos < MaxCalls
  PROVE  /\ Suspended(a0) \in [Tids -> Registers]
         /\ \A t \in threads : Suspended(a0)[t].pos = reached'[t]
<1>1. After(a0) \in Registers /\ After(a0).pos = cpu.pos + 1
  BY NextPosition DEF After, Registers
<1>2. Suspended(a0) = [saved EXCEPT ![current] = After(a0)] BY DEF Suspended
<1> QED BY <1>1, <1>2 DEF TypeOK, SavedLast, Counted

LEMMA ReachedTyped ==
  ASSUME TypeOK, Counted, cpu.pos < MaxCalls
  PROVE  reached' \in [Tids -> 0..MaxCalls]
<1>1. cpu.pos + 1 \in 0..MaxCalls BY NextPosition
<1> QED BY <1>1 DEF TypeOK, Counted

(* The types of what a switch changes, and that the thread which gets the  *)
(* CPU goes on where it was.                                               *)
RegistersRight ==
  /\ cpu' \in Registers /\ saved' \in [Tids -> Registers]
  /\ state' \in {"running", "stopped", "undefined"}
  /\ reached' \in [Tids -> 0..MaxCalls]
  /\ Running' /\ SavedLast' /\ NeverRewound'

LEMMA SwitchRegisters ==
  ASSUME TypeOK, NEW queue \in Seq(Tids), NEW regs \in [Tids -> Registers],
         WakeupNext(queue, regs, threads'), Main \in Tids,
         reached' \in [Tids -> 0..MaxCalls], \A t \in threads' : regs[t].pos = reached'[t]
  PROVE  RegistersRight
<1>1. /\ current' \in Tids /\ saved' = regs /\ cpu' = regs[current']
      /\ state' \in {"running", "undefined"} /\ (state' = "running" => current' \in threads')
  BY WakeupNextFacts
<1> QED BY <1>1 DEF RegistersRight, Running, SavedLast, NeverRewound

(* A call that goes on, or that ends the run.                              *)
LEMMA SameRegisters ==
  ASSUME IInv, Counted, cpu.pos < MaxCalls, threads' \subseteq threads,
         UNCHANGED <<current, saved>>,
         \/ /\ state' \in {state, "undefined"} /\ current \in threads'
            /\ \E a0 \in Int : cpu' = After(a0)
         \/ state' = "stopped" /\ cpu' = cpu
  PROVE  RegistersRight
<1>1. reached' \in [Tids -> 0..MaxCalls] BY ReachedTyped DEF IInv
<1>2. SavedLast' BY DEF SavedLast, IInv, Counted, TypeOK
<1>3. CASE state' = "stopped" /\ cpu' = cpu
  BY <1>1, <1>2, <1>3 DEF RegistersRight, Running, NeverRewound, IInv, TypeOK
<1>4. CASE /\ state' \in {state, "undefined"} /\ current \in threads'
           /\ \E a0 \in Int : cpu' = After(a0)
  <2>1. cpu' \in Registers /\ cpu'.pos = cpu.pos + 1
    BY <1>4, NextPosition DEF After, Registers, IInv
  <2>2. reached'[current] = cpu.pos + 1 BY DEF Counted, IInv, TypeOK
  <2> QED BY <1>1, <1>2, <1>4, <2>1, <2>2 DEF RegistersRight, Running, NeverRewound, IInv, TypeOK
<1> QED BY <1>3, <1>4

(* What is left to show of a step: the tids, and the types of the rest.    *)
Rest ==
  /\ threads' \subseteq threads /\ Main \in threads' /\ counter' = counter
  /\ word' \in [Tids -> Nat]
  /\ extra' \in [Tids -> SUBSET Bits]
  /\ clear' \in [Tids -> Int]
  /\ mem' \in [Words -> Nat]

LEMMA ThreadsFinite ==
  ASSUME TypeOK
  PROVE  IsFiniteSet(threads) /\ Cardinality(threads) \in Nat
<1>1. IsFiniteSet(Tids) BY FS_Interval, ThreadsAssumption DEF Tids
<1> QED BY <1>1, FS_Subset, FS_CardinalityType DEF TypeOK

LEMMA Combine ==
  ASSUME IInv, Counted, Placed, RegistersRight, Rest
  PROVE  IInv'
<1>1. IsFiniteSet(threads) BY ThreadsFinite DEF IInv
<1>2. Cardinality(threads') <= MaxThreads
  <2>1. Cardinality(threads') <= Cardinality(threads) BY <1>1, FS_Subset DEF Rest
  <2>2. Cardinality(threads') \in Nat /\ Cardinality(threads) \in Nat
    BY <1>1, FS_Subset, FS_CardinalityType DEF Rest
  <2> QED BY <2>1, <2>2, ThreadsAssumption DEF IInv, TypeOK
<1>3. TypeOK' BY <1>2 DEF IInv, TypeOK, Placed, RegistersRight, Rest
<1>4. Issued'
  <2>1. current <= counter BY DEF IInv, Issued, Somewhere, TypeOK
  <2>2. \A t \in Tids : t > counter => reached'[t] = 0
    BY <2>1 DEF IInv, Issued, Counted, TypeOK, Tids
  <2> QED BY <2>2 DEF IInv, Issued, Placed, Rest
<1> QED BY <1>3, <1>4 DEF IInv, Placed, RegistersRight
------------------------------------------------------------------------------
(* The initial states.                                                     *)

LEMMA Initially == Init => IInv
<1> SUFFICES ASSUME Init PROVE IInv OBVIOUS
<1> USE DEF Init
<1>1. 0 \in Tids /\ Main = 0 /\ Start \in Registers /\ Start.pos = 0 /\ Tids \subseteq Nat
  BY ThreadsAssumption DEF Tids, Main, Start, Registers
<1>2. Range(<<>>) = {} /\ <<>> \in Seq(Tids) /\ \A t : Once(<<>>, t)
  BY EmptySeq DEF Range, Once
<1>3. Cardinality({Main}) = 1 BY FS_Singleton
<1>4. TypeOK BY <1>1, <1>2, <1>3, ThreadsAssumption DEF TypeOK
<1>5. OnePlace BY <1>1, <1>2 DEF OnePlace, Somewhere, Alone
<1>6. Issued BY <1>1, <1>2 DEF Issued, Somewhere
<1>7. Running /\ SavedLast /\ NeverRewound BY <1>1 DEF Running, SavedLast, NeverRewound
<1> QED BY <1>4, <1>5, <1>6, <1>7 DEF IInv
------------------------------------------------------------------------------
(* The system calls.                                                       *)

LEMMA CallFacts ==
  ASSUME IInv, NEW name, Call(name)
  PROVE  /\ TypeOK /\ OnePlace /\ SavedLast /\ Counted
         /\ state = "running" /\ cpu.pos < MaxCalls
         /\ current \in threads /\ Main \in threads /\ Main \in Tids
         /\ reached' \in [Tids -> 0..MaxCalls]
<1>1. Counted /\ cpu.pos < MaxCalls /\ state = "running" BY DEF Call, Counted
<1> QED BY <1>1, ReachedTyped DEF IInv, Running, TypeOK

(* suspend_and_yield, with and without somebody to yield to.               *)
LEMMA SuspendAndYieldSafe ==
  ASSUME IInv, NEW name, Call(name), NEW a0 \in Int, SuspendAndYield(a0), UNCHANGED <<threads, blocked>>
  PROVE  Placed /\ RegistersRight
<1> USE CallFacts
<1>1. CASE suspended # <<>>
  <2>1. WakeupNext(Append(suspended, current), Suspended(a0), threads) BY <1>1 DEF SuspendAndYield
  <2>2. Placed BY <2>1, YieldPlaces
  <2>3. Append(suspended, current) \in Seq(Tids) BY AppendFacts DEF TypeOK
  <2>4. /\ Suspended(a0) \in [Tids -> Registers]
        /\ \A t \in threads : Suspended(a0)[t].pos = reached'[t]
    BY SuspendedLast
  <2>5. RegistersRight BY <2>1, <2>3, <2>4, SwitchRegisters
  <2> QED BY <2>2, <2>5
<1>2. CASE suspended = <<>>
  <2>1. /\ cpu' = After(Argument) /\ Argument \in Int
        /\ UNCHANGED <<current, suspended, saved, state>>
    BY <1>2 DEF SuspendAndYield, Return, Argument
  <2>2. Placed BY <2>1, SamePlaces
  <2>3. RegistersRight BY <2>1, SameRegisters
  <2> QED BY <2>2, <2>3
<1> QED BY <1>1, <1>2

LEMMA SchedYieldSafe == ASSUME IInv, SchedYield PROVE IInv'
<1>1. Call("sched_yield") /\ SuspendAndYield(0) /\ UNCHANGED <<threads, counter, clear, mem, waiting>>
  BY DEF SchedYield
<1>2. Placed /\ RegistersRight BY <1>1, SuspendAndYieldSafe DEF waiting
<1>3. Rest BY <1>1 DEF Rest, waiting, IInv, TypeOK
<1> QED BY <1>1, <1>2, <1>3, CallFacts, Combine

(* A call that ends the run changes at most a word besides.                *)
LEMMA StopSafe ==
  ASSUME IInv, NEW name, Call(name), state' = "stopped", mem' \in [Words -> Nat],
         UNCHANGED <<threads, counter, current, suspended, cpu, saved, clear, waiting>>
  PROVE  IInv'
<1> USE CallFacts
<1>1. Placed BY SamePlaces DEF waiting
<1>2. RegistersRight BY SameRegisters
<1>3. Rest BY DEF Rest, waiting, TypeOK
<1> QED BY <1>1, <1>2, <1>3, Combine

LEMMA ClearedTyped == ASSUME TypeOK, NEW w PROVE Cleared(w) \in [Words -> Nat]
BY DEF TypeOK, Cleared

LEMMA ExitSafe == ASSUME IInv, NEW name, Call(name), NEW t \in threads, Exit(t) PROVE IInv'
<1> USE CallFacts
<1>1. mem' \in [Words -> Nat] BY ClearedTyped DEF Exit, ClearTidWord, TypeOK
<1>2. UNCHANGED <<counter, clear, word, extra, blocked>> BY DEF Exit, waiting
<1>3. CASE t = Main BY <1>1, <1>3, StopSafe DEF Exit, waiting
<1>4. CASE t # Main
  <2>1. threads' = threads \ {t} BY <1>4 DEF Exit, EraseThread
  <2>2. Rest BY <1>1, <1>2, <1>4, <2>1 DEF Rest, TypeOK
  <2>3. CASE t = current
    <3>1. WakeupNext(suspended, saved, threads \ {t}) BY <1>4, <2>3 DEF Exit
    <3>2. Placed BY <1>2, <1>4, <2>1, <2>3, <3>1, LeavePlaces
    <3>3. suspended \in Seq(Tids) /\ saved \in [Tids -> Registers] BY DEF TypeOK
    <3>4. WakeupNext(suspended, saved, threads') BY <2>1, <3>1
    <3>5. \A u \in threads' : saved[u].pos = reached'[u] BY <2>1, <2>3 DEF SavedLast, Counted, TypeOK
    <3>6. RegistersRight BY <3>3, <3>4, <3>5, SwitchRegisters
    <3> QED BY <2>2, <3>2, <3>6, Combine
  <2>4. CASE t # current
    <3>1. Return(Argument) BY <1>4, <2>4 DEF Exit
    <3>2. /\ cpu' = After(Argument) /\ Argument \in Int
          /\ UNCHANGED <<current, suspended, saved, state>>
      BY <3>1 DEF Return, Argument
    <3>3. Placed BY <1>2, <2>1, <3>2, SamePlaces
    <3>4. RegistersRight BY <2>1, <2>4, <3>2, SameRegisters
    <3> QED BY <2>2, <3>3, <3>4, Combine
  <2> QED BY <2>3, <2>4
<1> QED BY <1>3, <1>4

(* What the conversions to 32 bits can give.                               *)
LEMMA Narrowed == \A w \in Words : w \in Int /\ Reason(w) \in Nat /\ AsInt(w) \in Int
BY ThreadsAssumption DEF Reason, AsInt

LEMMA SetTidAddressSafe == ASSUME IInv, NEW w \in Words, SetTidAddress(w) PROVE IInv'
<1>1. /\ Call("set_tid_address") /\ clear' = [clear EXCEPT ![current] = AsInt(w)]
      /\ cpu' = After(current) /\ UNCHANGED <<current, suspended, saved, state>>
      /\ UNCHANGED <<threads, counter, mem, waiting>>
  BY DEF SetTidAddress, Return
<1> USE <1>1, CallFacts
<1>2. current \in Int BY DEF TypeOK, Tids
<1>3. Placed BY SamePlaces DEF waiting
<1>4. RegistersRight BY <1>2, SameRegisters
<1>5. Rest BY Narrowed DEF Rest, waiting, TypeOK
<1> QED BY <1>3, <1>4, <1>5, Combine

(* FUTEX_WAIT blocks the caller, or zeroes the word of a lone one.         *)
LEMMA FutexWaitSafe ==
  ASSUME IInv, NEW w \in Words, NEW val, NEW bits \in {{}} \cup Masks, FutexWait(w, val, bits)
  PROVE  IInv'
<1> DEFINE name == IF bits = {} THEN "futex_wait" ELSE "futex_wait_bitset"
           others == suspended # <<>> \/ Cardinality(threads) > 1
<1>1. Call(name) /\ UNCHANGED <<threads, counter, clear>> BY DEF FutexWait
<1> HIDE DEF name
<1> USE <1>1, CallFacts
<1>2. CASE others
  <2>1. /\ word' = [word EXCEPT ![current] = Reason(w)] /\ extra' = [extra EXCEPT ![current] = bits]
        /\ blocked' = Append(blocked, current) /\ mem' = mem
        /\ WakeupNext(suspended, Suspended(0), threads)
    BY <1>2 DEF FutexWait
  <2>2. Placed BY <2>1, BlockPlaces
  <2>3. /\ Suspended(0) \in [Tids -> Registers]
        /\ \A t \in threads : Suspended(0)[t].pos = reached'[t]
    BY SuspendedLast
  <2>4. suspended \in Seq(Tids) BY DEF TypeOK
  <2>5. RegistersRight BY <2>1, <2>3, <2>4, SwitchRegisters
  <2>6. Rest BY <2>1, Narrowed, ThreadsAssumption DEF Rest, TypeOK
  <2> QED BY <2>2, <2>5, <2>6, Combine
<1>3. CASE ~ others
  <2>1. /\ mem' = Cleared(w) /\ cpu' = After(0)
        /\ UNCHANGED <<current, suspended, saved, state, waiting>>
    BY <1>3 DEF FutexWait, Return
  <2>2. Placed BY <2>1, SamePlaces DEF waiting
  <2>3. RegistersRight BY <2>1, SameRegisters
  <2>4. Rest BY <2>1, ClearedTyped DEF Rest, waiting, TypeOK
  <2> QED BY <2>2, <2>3, <2>4, Combine
<1> QED BY <1>2, <1>3

LEMMA FutexWaitAgainSafe == ASSUME IInv, NEW w, NEW val, FutexWaitAgain(w, val) PROVE IInv'
<1>1. /\ Call("futex_wait") /\ SuspendAndYield(AgainError)
      /\ UNCHANGED <<threads, counter, clear, mem, waiting>> /\ AgainError \in Int
  BY DEF FutexWaitAgain, AgainError
<1>2. Placed /\ RegistersRight BY <1>1, SuspendAndYieldSafe DEF waiting
<1>3. Rest BY <1>1 DEF Rest, waiting, IInv, TypeOK
<1> QED BY <1>1, <1>2, <1>3, CallFacts, Combine

LEMMA FutexWakeSafe == ASSUME IInv, NEW max, NEW w, NEW mask, FutexWake(max, w, mask) PROVE IInv'
<1> DEFINE I == Woken(max, w, mask)
           name == IF mask = Bits THEN "futex_wake" ELSE "futex_wake_bitset"
<1>1. /\ Call(name) /\ blocked' = Unblocked(I) /\ suspended' = suspended \o Pick(blocked, I)
      /\ cpu' = After(Cardinality(I)) /\ state' \in {state, "undefined"}
      /\ UNCHANGED <<threads, counter, current, saved, word, extra, clear, mem>>
  BY DEF FutexWake
<1>2. I \in SUBSET DOMAIN blocked BY DEF Woken, Matching
<1> HIDE DEF name, I
<1> USE <1>1, CallFacts
<1>3. Placed BY <1>2, WakePlaces
<1>4. Cardinality(I) \in Int
  <2>1. DOMAIN blocked = 1..Len(blocked) /\ Len(blocked) \in Nat BY LenProperties DEF TypeOK
  <2>2. I \in SUBSET (1..Len(blocked)) BY <1>2, <2>1
  <2>3. Cardinality(I) \in Nat BY <2>1, <2>2, RankFacts
  <2> QED BY <2>3
<1>5. RegistersRight BY <1>4, SameRegisters
<1>6. Rest BY DEF Rest, TypeOK
<1> QED BY <1>3, <1>5, <1>6, Combine

LEMMA StoreSafe == ASSUME IInv, NEW w \in Words, NEW val \in {0, 1}, Store(w, val) PROVE IInv'
<1>1. /\ UNCHANGED <<threads, counter, current, suspended, cpu, saved, clear, state, reached, waiting>>
      /\ mem' = [mem EXCEPT ![w] = val]
  BY DEF Store
<1>2. TypeOK' BY <1>1 DEF IInv, TypeOK, waiting
<1>3. OnePlace' /\ Issued' BY <1>1 DEF IInv, OnePlace, Issued, Somewhere, Alone, waiting
<1>4. Running' /\ SavedLast' /\ NeverRewound' BY <1>1 DEF IInv, Running, SavedLast, NeverRewound
<1> QED BY <1>2, <1>3, <1>4 DEF IInv

(* A new thread is nowhere before it gets the CPU.                         *)
LEMMA CreateSafe ==
  ASSUME IInv, NEW name, Call(name), NEW flags, NEW ctid, NEW ptid, NEW cleared \in Int,
         Create(flags, ctid, ptid, cleared)
  PROVE  IInv'
<1> DEFINE tid == counter + 1
<1>1. /\ Call(name) /\ HasRoom(threads) /\ tid \in Tids
      /\ counter' = tid /\ threads' = threads \cup {tid}
      /\ mem' = [v \in Words |-> IF v \in Told(flags, ctid, ptid) THEN tid ELSE mem[v]]
      /\ clear' = [clear EXCEPT ![tid] = cleared]
      /\ saved' = Suspended(tid) /\ suspended' = Append(suspended, current)
      /\ current' = tid /\ cpu' = Start
      /\ UNCHANGED <<state, word, extra, blocked>>
  BY DEF Create, waiting
<1>c. /\ TypeOK /\ OnePlace /\ SavedLast /\ Counted /\ cpu.pos < MaxCalls
      /\ current \in threads /\ Main \in threads /\ Main \in Tids
      /\ reached' \in [Tids -> 0..MaxCalls]
  BY <1>1, CallFacts
<1> USE <1>c
<1>2. tid \in Nat /\ Tids \subseteq Nat /\ Main = 0 BY <1>1 DEF TypeOK, Tids, Main
<1>3. tid \notin threads /\ ~ Somewhere(tid) /\ tid # Main
  <2>1. counter \in Nat /\ ~ (tid <= counter) BY <1>2 DEF TypeOK
  <2> QED BY <1>1, <1>2, <2>1 DEF IInv, Issued, TypeOK
<1>4. /\ suspended' \in Seq(Tids) /\ Range(suspended') = Range(suspended) \cup {current}
      /\ \A t : Once(suspended, t) /\ (t = current => t \notin Range(suspended)) => Once(suspended', t)
  BY <1>1, AppendFacts DEF TypeOK
<1>5. tid \in Int /\ saved' \in [Tids -> Registers] /\ \A t \in threads : saved'[t].pos = reached'[t]
  BY <1>1, <1>2, SuspendedLast
<1>6. TypeOK'
  <2>1. IsFiniteSet(threads) /\ Cardinality(threads) \in Nat BY ThreadsFinite
  <2>2. Cardinality(threads') = Cardinality(threads) + 1 BY <1>1, <1>3, <2>1, FS_AddElement
  <2>3. Cardinality(threads') <= MaxThreads BY <1>1, <2>1, <2>2, ThreadsAssumption DEF HasRoom
  <2>4. Start \in Registers BY ThreadsAssumption DEF Start, Registers
  <2>5. mem' \in [Words -> Nat] /\ clear' \in [Tids -> Int] BY <1>1, <1>2 DEF TypeOK
  <2> QED BY <1>1, <1>4, <1>5, <2>3, <2>4, <2>5 DEF TypeOK
<1>7. OnePlace'
  <2>1. \A t \in threads' : Somewhere(t)' BY <1>1, <1>4 DEF OnePlace, Somewhere
  <2>2. \A t \in Tids \ {Main} : Alone(t)' BY <1>1, <1>3, <1>4 DEF OnePlace, Alone, Somewhere
  <2> QED BY <2>1, <2>2 DEF OnePlace
<1>8. Issued'
  <2>1. \A t \in Tids : Somewhere(t)' => t = tid \/ Somewhere(t) BY <1>1, <1>4 DEF Somewhere
  <2>2. current <= counter BY DEF IInv, Issued, Somewhere, TypeOK
  <2>3. \A t \in Tids : t > tid => reached'[t] = 0
    BY <1>2, <2>2 DEF IInv, Issued, Counted, TypeOK
  <2>4. counter \in Nat BY <1>2 DEF TypeOK
  <2>5. /\ \A t \in threads : t <= counter
        /\ \A t \in Tids : Somewhere(t) => t <= counter
    BY DEF IInv, Issued
  <2>6. threads' = threads \cup {tid} /\ counter' = tid /\ tid = counter + 1
    BY <1>1
  <2>7. \A t \in threads : t \in Nat
    BY <1>2 DEF TypeOK
  <2>8. \A t \in threads' : t <= counter'
    <3> HIDE DEF tid
    <3> QED BY <2>4, <2>5, <2>6, <2>7
  <2>9. \A t \in Tids : Somewhere(t)' => t <= counter'
    <3> HIDE DEF tid
    <3> QED BY <1>2, <2>1, <2>4, <2>5, <2>6
  <2> QED BY <2>3, <2>6, <2>8, <2>9 DEF Issued
<1>9. Running' /\ SavedLast' /\ NeverRewound'
  <2>1. reached'[tid] = 0
    <3>1. current # tid /\ tid > counter BY <1>2, <1>3 DEF Somewhere, TypeOK
    <3> QED BY <1>1, <3>1 DEF IInv, Issued, Counted, TypeOK
  <2> QED BY <1>1, <1>5, <2>1 DEF Running, SavedLast, NeverRewound, Start
<1> QED BY <1>6, <1>7, <1>8, <1>9 DEF IInv

LEMMA CloneSafe ==
  ASSUME IInv, NEW ctid \in Words, NEW ptid \in Words, NEW flags, Clone(flags, ctid, ptid)
  PROVE  IInv'
<1> DEFINE cleared == ClearWord(flags, ctid)
<1>1. Call("clone") /\ Create(flags, ctid, ptid, cleared) BY DEF Clone
<1>2. cleared \in Int BY Narrowed DEF ClearWord, NoWord
<1> HIDE DEF cleared
<1> QED BY <1>1, <1>2, CreateSafe

SetTids == {<<>>} \cup {<<w>> : w \in Words}

LEMMA Clone3Safe ==
  ASSUME IInv, NEW ctid \in Words, NEW ptid \in Words, NEW flags, NEW setTid \in SetTids,
         Clone3(flags, ctid, ptid, setTid)
  PROVE  IInv'
<1> DEFINE cleared == IF setTid = <<>> THEN ClearWord(flags, ctid) ELSE setTid[1]
<1>1. Call("clone3") /\ Create(flags, ctid, ptid, cleared) BY DEF Clone3
<1>2. cleared \in Int
  <2>1. ClearWord(flags, ctid) \in Int BY Narrowed DEF ClearWord, NoWord
  <2>2. setTid # <<>> => \E w \in Words : setTid = <<w>> BY DEF SetTids
  <2>3. setTid # <<>> => setTid[1] \in Words BY <2>2
  <2> QED BY <2>1, <2>3, Narrowed
<1> HIDE DEF cleared
<1> QED BY <1>1, <1>2, CreateSafe

LEMMA Clone3TooShortSafe == ASSUME IInv, Clone3TooShort PROVE IInv'
<1>1. /\ Call("clone3_short") /\ cpu' = After(NoSpaceError) /\ NoSpaceError \in Int
      /\ UNCHANGED <<threads, counter, current, suspended, saved, clear, mem, state, waiting>>
  BY DEF Clone3TooShort, Return, NoSpaceError
<1> USE <1>1, CallFacts
<1>2. Placed BY SamePlaces DEF waiting
<1>3. RegistersRight BY SameRegisters
<1>4. Rest BY DEF Rest, waiting, TypeOK
<1> QED BY <1>2, <1>3, <1>4, Combine

LEMMA Inductive == IInv /\ [Next]_vars => IInv'
<1> SUFFICES ASSUME IInv, [Next]_vars PROVE IInv' OBVIOUS
<1>1. CASE SchedYield BY <1>1, SchedYieldSafe
<1>2. ASSUME NEW ctid \in Words, NEW ptid \in Words, NEW flags \in CloneFlags,
             Clone(flags, ctid, ptid) \/ \E setTid \in SetTids : Clone3(flags, ctid, ptid, setTid)
      PROVE  IInv'
  BY <1>2, CloneSafe, Clone3Safe
<1>12. CASE Clone3TooShort BY <1>12, Clone3TooShortSafe
<1>3. CASE CloneThrows
  <2>1. Call("clone") /\ state' = "stopped" /\ mem' = mem
        /\ UNCHANGED <<threads, counter, current, suspended, cpu, saved, clear, waiting>>
    BY <1>3 DEF CloneThrows
  <2> QED BY <2>1, StopSafe DEF IInv, TypeOK
<1>4. CASE ExitSelf BY <1>4, CallFacts, ExitSafe DEF ExitSelf
<1>5. CASE ExitGroup
  <2>1. Call("exit_group") /\ state' = "stopped" /\ mem' = mem
        /\ UNCHANGED <<threads, counter, current, suspended, cpu, saved, clear, waiting>>
    BY <1>5 DEF ExitGroup
  <2> QED BY <2>1, StopSafe DEF IInv, TypeOK
<1>6. ASSUME NEW t \in Tids, TgkillUnset(t) PROVE IInv' BY <1>6, ExitSafe DEF TgkillUnset
<1>7. ASSUME NEW t \in Tids, TgkillUnknown(t) PROVE IInv'
  <2>1. Call("tgkill_unknown") /\ state' = "stopped" /\ mem' = mem
        /\ UNCHANGED <<threads, counter, current, suspended, cpu, saved, clear, waiting>>
    BY <1>7 DEF TgkillUnknown
  <2> QED BY <2>1, StopSafe DEF IInv, TypeOK
<1>8. ASSUME NEW w \in Words, SetTidAddress(w) PROVE IInv' BY <1>8, SetTidAddressSafe
<1>9. ASSUME NEW w \in Words, NEW val \in {0, 1}, NEW bits \in {{}} \cup Masks,
             FutexWait(w, val, bits) \/ FutexWaitAgain(w, val) \/ Store(w, val)
      PROVE  IInv'
  BY <1>9, FutexWaitSafe, FutexWaitAgainSafe, StoreSafe
<1>10. ASSUME NEW w \in Words, NEW max, NEW mask, FutexWake(max, w, mask) PROVE IInv'
  BY <1>10, FutexWakeSafe
<1>11. CASE UNCHANGED vars
  <2>1. TypeOK' BY <1>11 DEF IInv, TypeOK, vars
  <2>2. OnePlace' /\ Issued' BY <1>11 DEF IInv, OnePlace, Issued, Somewhere, Alone, vars
  <2>3. Running' /\ SavedLast' /\ NeverRewound' BY <1>11 DEF IInv, Running, SavedLast, NeverRewound, vars
  <2> QED BY <2>1, <2>2, <2>3 DEF IInv
<1> QED BY <1>1, <1>2, <1>3, <1>4, <1>5, <1>6, <1>7, <1>8, <1>9, <1>10, <1>11, <1>12 DEF Next, SetTids
------------------------------------------------------------------------------
(* TypeOK: every variable keeps its type, whatever the guest does.         *)
THEOREM TypeCorrect == Spec => []TypeOK
<1>1. IInv => TypeOK BY DEF IInv
<1> QED BY <1>1, Initially, Inductive, PTL DEF Spec

(* OnePlace: no thread is lost, and none but the main one is in two places *)
(* of m_current, m_suspended and m_blocked, whatever the guest does.       *)
THEOREM OnePlaceCorrect == Spec => []OnePlace
<1>1. IInv => OnePlace BY DEF IInv
<1> QED BY <1>1, Initially, Inductive, PTL DEF Spec

(* NeverRewound: the running thread has got through exactly the system     *)
(* calls it made: suspend and resume repeat none and skip none.            *)
THEOREM NeverRewoundCorrect == Spec => []NeverRewound
<1>1. IInv => NeverRewound BY DEF IInv
<1> QED BY <1>1, Initially, Inductive, PTL DEF Spec
------------------------------------------------------------------------------
(* The six ways a step can move threads.                                   *)

Stay ==
  /\ UNCHANGED <<current, suspended, blocked>>
  /\ threads' \subseteq threads /\ ("tgkill_other" \notin Calls => threads' = threads)
  /\ state' \in {state, "stopped"}

Yield ==
  /\ \E regs : WakeupNext(Append(suspended, current), regs, threads)
  /\ UNCHANGED <<threads, blocked>>

Block ==
  /\ \E regs : WakeupNext(suspended, regs, threads)
  /\ blocked' = Append(blocked, current) /\ UNCHANGED threads

Leave ==
  /\ current # Main /\ threads' = threads \ {current}
  /\ WakeupNext(suspended, saved, threads') /\ UNCHANGED blocked

Spawn ==
  /\ threads' = threads \cup {counter + 1}
  /\ suspended' = Append(suspended, current) /\ current' = counter + 1
  /\ UNCHANGED <<blocked, state>>

Wake ==
  \E I \in SUBSET DOMAIN blocked :
    /\ blocked' = Unblocked(I) /\ suspended' = suspended \o Pick(blocked, I)
    /\ UNCHANGED <<current, threads>>
    /\ Range(blocked) \subseteq threads => state' = state

LEMMA SuspendAndYieldMoves ==
  ASSUME NEW a0, SuspendAndYield(a0), UNCHANGED <<threads, blocked>>
  PROVE  Yield \/ Stay
BY DEF SuspendAndYield, Return, Yield, Stay

LEMMA ExitMoves ==
  ASSUME NEW t \in threads, t # current => "tgkill_other" \in Calls, Exit(t)
  PROVE  Leave \/ Stay
<1>1. CASE t = Main BY <1>1 DEF Exit, Stay, waiting
<1>2. CASE t # Main /\ t = current
  <2>1. threads' = threads \ {t} /\ WakeupNext(suspended, saved, threads \ {t}) /\ UNCHANGED blocked
    BY <1>2 DEF Exit, EraseThread, waiting
  <2>2. WakeupNext(suspended, saved, threads') BY <2>1
  <2> QED BY <1>2, <2>1, <2>2 DEF Leave
<1>3. CASE t # Main /\ t # current
  BY <1>3 DEF Exit, EraseThread, Return, Stay, waiting
<1> QED BY <1>1, <1>2, <1>3

LEMMA Moves ==
  ASSUME IInv, [Next]_vars
  PROVE  Stay \/ Yield \/ Block \/ Leave \/ Spawn \/ Wake
<1>1. CASE SchedYield BY <1>1, SuspendAndYieldMoves DEF SchedYield, waiting
<1>2. ASSUME NEW ctid, NEW ptid, NEW flags, NEW cleared, Create(flags, ctid, ptid, cleared) PROVE Spawn
  BY <1>2 DEF Create, Spawn, waiting
<1>13. ASSUME NEW ctid, NEW ptid, NEW flags,
              Clone(flags, ctid, ptid) \/ \E setTid \in SetTids : Clone3(flags, ctid, ptid, setTid)
       PROVE  Spawn
  BY <1>2, <1>13 DEF Clone, Clone3
<1>14. CASE Clone3TooShort BY <1>14 DEF Clone3TooShort, Return, Stay, waiting
<1>3. CASE CloneThrows \/ ExitGroup BY <1>3 DEF CloneThrows, ExitGroup, Stay, waiting
<1>4. CASE ExitSelf
  <2>1. current \in threads BY <1>4, CallFacts DEF ExitSelf
  <2> QED BY <1>4, <2>1, ExitMoves DEF ExitSelf
<1>5. ASSUME NEW t \in Tids, TgkillUnset(t) PROVE Leave \/ Stay
  <2>1. t \in threads /\ Exit(t) /\ (t # current => "tgkill_other" \in Calls)
    BY <1>5 DEF TgkillUnset, Call
  <2> QED BY <2>1, ExitMoves
<1>6. ASSUME NEW t \in Tids, TgkillUnknown(t) PROVE Stay BY <1>6 DEF TgkillUnknown, Stay, waiting
<1>7. ASSUME NEW w \in Words, SetTidAddress(w) PROVE Stay
  BY <1>7 DEF SetTidAddress, Return, Stay, waiting
<1>8. ASSUME NEW w \in Words, NEW val, NEW bits, FutexWait(w, val, bits) PROVE Block \/ Stay
  BY <1>8 DEF FutexWait, Return, Block, Stay, waiting
<1>9. ASSUME NEW w \in Words, NEW val, FutexWaitAgain(w, val) PROVE Yield \/ Stay
  BY <1>9, SuspendAndYieldMoves DEF FutexWaitAgain, waiting
<1>10. ASSUME NEW w \in Words, NEW val, Store(w, val) PROVE Stay BY <1>10 DEF Store, Stay, waiting
<1>11. ASSUME NEW w \in Words, NEW max, NEW mask, FutexWake(max, w, mask) PROVE Wake
  <2>1. Woken(max, w, mask) \in SUBSET DOMAIN blocked BY DEF Woken, Matching
  <2> QED BY <1>11, <2>1 DEF FutexWake, Wake
<1>12. CASE UNCHANGED vars BY <1>12 DEF vars, Stay
<1> QED BY <1>1, <1>3, <1>4, <1>5, <1>6, <1>7, <1>8, <1>9, <1>10, <1>11, <1>12, <1>13, <1>14 DEF Next, SetTids

(* Who gets the CPU when it changes hands.                                 *)
LEMMA MoveFacts ==
  ASSUME IInv
  PROVE  /\ Main \in Tids /\ Main \in threads
         /\ suspended \in Seq(Tids) /\ blocked \in Seq(Tids) /\ current \in Tids
         /\ Append(suspended, current) \in Seq(Tids) /\ Append(suspended, current) # <<>>
         /\ Range(Append(suspended, current)) = Range(suspended) \cup {current}
BY AppendFacts, MainSomewhere DEF IInv, TypeOK

LEMMA MovesPlaced ==
  ASSUME IInv, Stay \/ Yield \/ Block \/ Leave \/ Wake
  PROVE  Placed
<1> USE DEF IInv
<1>1. CASE Stay BY <1>1, SamePlaces DEF Stay
<1>2. CASE Yield BY <1>2, YieldPlaces DEF Yield
<1>3. CASE Block BY <1>3, BlockPlaces DEF Block
<1>4. CASE Leave BY <1>4, LeavePlaces DEF Leave
<1>5. CASE Wake BY <1>5, WakePlaces DEF Wake
<1> QED BY <1>1, <1>2, <1>3, <1>4, <1>5
------------------------------------------------------------------------------
(* Dangling pointers.                                                      *)

LEMMA NothingDangles ==
  ASSUME "tgkill_other" \notin Calls, IInv, NoDanglingThread, [Next]_vars
  PROVE  NoDanglingThread'
<1> USE MoveFacts
<1>0. /\ state # "undefined" /\ IInv'
      /\ \A t \in Tids : Somewhere(t) => t \in threads
  BY Inductive DEF NoDanglingThread, Somewhere
<1>1. ASSUME state' # "undefined", \A t \in Tids : Somewhere(t)' => t \in threads' PROVE NoDanglingThread'
  <2>1. /\ current' \in Tids /\ suspended' \in Seq(Tids) /\ blocked' \in Seq(Tids)
    BY <1>0 DEF IInv, TypeOK
  <2>2. Range(suspended') \subseteq Tids /\ Range(blocked') \subseteq Tids BY <2>1, RangeOfSeq
  <2> QED BY <1>1, <2>1, <2>2 DEF NoDanglingThread, Somewhere
<1>2. CASE Stay
  <2>1. Placed BY <1>2, MovesPlaced
  <2> QED BY <1>0, <1>1, <1>2, <2>1 DEF Stay, Placed
<1>3. CASE Yield
  <2>1. Placed BY <1>3, MovesPlaced
  <2>2. PICK regs : WakeupNext(Append(suspended, current), regs, threads) BY <1>3 DEF Yield
  <2>3. /\ current' \in Range(suspended) \cup {current} \cup {Main}
        /\ state' \in {"running", "undefined"} /\ (state' = "running" <=> current' \in threads)
    BY <2>2, WakeupNextFacts
  <2>4. current' \in threads BY <2>3 DEF NoDanglingThread
  <2> QED BY <1>0, <1>1, <1>3, <2>1, <2>3, <2>4 DEF Yield, Placed
<1>4. CASE Block
  <2>1. Placed BY <1>4, MovesPlaced
  <2>2. PICK regs : WakeupNext(suspended, regs, threads) BY <1>4 DEF Block
  <2>3. /\ current' \in Range(suspended) \cup {Main}
        /\ state' \in {"running", "undefined"} /\ (state' = "running" <=> current' \in threads)
    BY <2>2, WakeupNextFacts
  <2>4. current' \in threads BY <2>3 DEF NoDanglingThread
  <2> QED BY <1>0, <1>1, <1>4, <2>1, <2>3, <2>4 DEF Block, Placed
<1>5. CASE Leave
  <2>1. /\ current' \in Range(suspended) \cup {Main} /\ Range(suspended') \subseteq Range(suspended)
        /\ state' \in {"running", "undefined"} /\ (state' = "running" <=> current' \in threads')
    BY <1>5, WakeupNextFacts DEF Leave
  <2>2. current \notin Range(suspended) /\ current \notin Range(blocked) /\ current # Main
    BY <1>5 DEF Leave, IInv, OnePlace, Alone
  <2>3. threads' = threads \ {current} /\ blocked' = blocked BY <1>5 DEF Leave
  <2>4. current' \in threads' BY <2>1, <2>2, <2>3 DEF NoDanglingThread
  <2>5. \A t \in Tids : Somewhere(t)' => t \in threads'
    BY <2>1, <2>2, <2>3, <2>4 DEF NoDanglingThread, Somewhere
  <2> QED BY <1>1, <2>1, <2>4, <2>5
<1>6. CASE Spawn
  <2>1. \A t \in Tids : Somewhere(t)' => t = counter + 1 \/ Somewhere(t) BY <1>6 DEF Spawn, Somewhere
  <2> QED BY <1>0, <1>1, <1>6, <2>1 DEF Spawn
<1>7. CASE Wake
  <2>1. Placed BY <1>7, MovesPlaced
  <2>2. state' = state /\ threads' = threads BY <1>7 DEF Wake, NoDanglingThread
  <2> QED BY <1>0, <1>1, <2>1, <2>2 DEF Placed
<1> QED BY <1>2, <1>3, <1>4, <1>5, <1>6, <1>7, Moves

(* NoDanglingThread: as long as threads only exit themselves, erase_thread *)
(* leaves no pointer in m_suspended, m_blocked or m_current behind.        *)
THEOREM NoDanglingCorrect == "tgkill_other" \notin Calls => (Spec => []NoDanglingThread)
<1> SUFFICES ASSUME "tgkill_other" \notin Calls PROVE Spec => []NoDanglingThread OBVIOUS
<1>1. Init => NoDanglingThread BY DEF Init, NoDanglingThread, Range
<1>2. IInv /\ NoDanglingThread /\ [Next]_vars => NoDanglingThread' BY NothingDangles
<1> QED BY <1>1, <1>2, Initially, Inductive, PTL DEF Spec
------------------------------------------------------------------------------
(* Waiting for a wake.                                                     *)

LEMMA NotBeforeWoken ==
  ASSUME IInv, [Next]_vars, NEW t \in Range(blocked) \ {Main}
  PROVE  current' # t
<1> USE MoveFacts
<1>1. t \in Tids BY RangeOfSeq
<1>2. t # current /\ t \notin Range(suspended) BY <1>1 DEF IInv, OnePlace, Alone
<1>3. CASE Stay \/ Wake BY <1>2, <1>3 DEF Stay, Wake
<1>4. CASE Yield
  <2>1. PICK regs : WakeupNext(Append(suspended, current), regs, threads) BY <1>4 DEF Yield
  <2>2. current' \in Range(suspended) \cup {current} \cup {Main} BY <2>1, WakeupNextFacts
  <2> QED BY <1>2, <2>2
<1>5. CASE Block
  <2>1. PICK regs : WakeupNext(suspended, regs, threads) BY <1>5 DEF Block
  <2>2. current' \in Range(suspended) \cup {Main} BY <2>1, WakeupNextFacts
  <2> QED BY <1>2, <2>2
<1>6. CASE Leave
  <2>1. current' \in Range(suspended) \cup {Main} BY <1>6, WakeupNextFacts DEF Leave
  <2> QED BY <1>2, <2>1
<1>7. CASE Spawn
  <2>1. Somewhere(t) BY DEF Somewhere
  <2>2. t <= counter /\ counter \in Int /\ t \in Int BY <1>1, <2>1 DEF IInv, Issued, TypeOK, Tids
  <2> QED BY <1>7, <2>2 DEF Spawn
<1> QED BY <1>3, <1>4, <1>5, <1>6, <1>7, Moves

(* BlockedUntilWoken: no step gives the CPU to a thread that was in        *)
(* m_blocked before it, the main thread apart.                             *)
THEOREM BlockedUntilWokenCorrect == Spec => BlockedUntilWoken
<1>1. IInv /\ [Next]_vars => [\A t \in Range(blocked) \ {Main} : current' # t]_vars
  BY NotBeforeWoken
<1> QED BY <1>1, Initially, Inductive, PTL DEF Spec, BlockedUntilWoken
------------------------------------------------------------------------------
(* The order of the queue.                                                 *)

LEMMA BeforeAppend ==
  ASSUME NEW s \in Seq(Tids), NEW x \in Tids, NEW t, NEW u
  PROVE  /\ Before(s, t, u) => Before(Append(s, x), t, u)
         /\ Before(Append(s, x), u, t) => Before(s, u, t) \/ x = t
<1> DEFINE a == Append(s, x)
<1>1. /\ a \in Seq(Tids) /\ Len(a) = Len(s) + 1 /\ a[Len(s) + 1] = x
      /\ \A i \in 1..Len(s) : a[i] = s[i]
  BY AppendProperties
<1>2. DOMAIN s = 1..Len(s) /\ DOMAIN a = 1..(Len(s) + 1) /\ Len(s) \in Nat BY <1>1, LenProperties
<1> HIDE DEF a
<1>3. Before(s, t, u) => Before(a, t, u)
  <2>1. \A i \in DOMAIN s : i \in DOMAIN a /\ a[i] = s[i] BY <1>1, <1>2
  <2> QED BY <2>1 DEF Before
<1>4. ASSUME NEW i \in DOMAIN a, NEW j \in DOMAIN a, i < j, a[i] = u, a[j] = t, x # t
      PROVE  Before(s, u, t)
  <2>1. j # Len(s) + 1 BY <1>1, <1>4
  <2>2. i \in DOMAIN s /\ j \in DOMAIN s BY <1>2, <1>4, <2>1
  <2>3. s[i] = u /\ s[j] = t BY <1>1, <1>2, <1>4, <2>2
  <2> QED BY <1>4, <2>2, <2>3 DEF Before
<1> QED BY <1>3, <1>4 DEF Before, a

LEMMA BeforeTail ==
  ASSUME NEW s \in Seq(Tids), s # <<>>, NEW t, NEW u
  PROVE  /\ Before(s, t, u) => Before(Tail(s), t, u) \/ t = Head(s)
         /\ Before(Tail(s), u, t) => Before(s, u, t)
<1> DEFINE a == Tail(s)
<1>1. /\ a \in Seq(Tids) /\ Len(a) = Len(s) - 1 /\ \A i \in 1..Len(a) : a[i] = s[i + 1]
  BY HeadTailProperties
<1>2. DOMAIN s = 1..Len(s) /\ DOMAIN a = 1..(Len(s) - 1) /\ Len(s) \in Nat \ {0} /\ Head(s) = s[1]
  BY <1>1, LenProperties, EmptySeq
<1> HIDE DEF a
<1>3. ASSUME NEW i \in DOMAIN s, NEW j \in DOMAIN s, i < j, s[i] = t, s[j] = u, t # Head(s)
      PROVE  Before(a, t, u)
  <2>1. i # 1 BY <1>2, <1>3
  <2>2. i - 1 \in DOMAIN a /\ j - 1 \in DOMAIN a /\ i - 1 < j - 1 BY <1>2, <1>3, <2>1
  <2>3. a[i - 1] = t /\ a[j - 1] = u
    <3>1. a[i - 1] = s[(i - 1) + 1] /\ a[j - 1] = s[(j - 1) + 1] BY <1>1, <1>2, <2>2
    <3>2. (i - 1) + 1 = i /\ (j - 1) + 1 = j BY <1>2
    <3> QED BY <1>3, <3>1, <3>2
  <2> QED BY <2>2, <2>3 DEF Before
<1>4. ASSUME NEW i \in DOMAIN a, NEW j \in DOMAIN a, i < j, a[i] = u, a[j] = t PROVE Before(s, u, t)
  <2>1. i + 1 \in DOMAIN s /\ j + 1 \in DOMAIN s /\ i + 1 < j + 1 BY <1>2, <1>4
  <2>2. s[i + 1] = u /\ s[j + 1] = t BY <1>1, <1>2, <1>4
  <2> QED BY <2>1, <2>2 DEF Before
<1> QED BY <1>3, <1>4 DEF Before, a

LEMMA BeforeConcat ==
  ASSUME NEW s \in Seq(Tids), NEW v \in Seq(Tids), NEW t, NEW u
  PROVE  /\ Before(s, t, u) => Before(s \o v, t, u)
         /\ Before(s \o v, u, t) => Before(s, u, t) \/ t \in Range(v)
<1> DEFINE a == s \o v
<1>1. /\ a \in Seq(Tids) /\ Len(a) = Len(s) + Len(v)
      /\ \A i \in 1..(Len(s) + Len(v)) : a[i] = IF i <= Len(s) THEN s[i] ELSE v[i - Len(s)]
  BY ConcatProperties
<1>2. /\ DOMAIN s = 1..Len(s) /\ DOMAIN v = 1..Len(v) /\ DOMAIN a = 1..(Len(s) + Len(v))
      /\ Len(s) \in Nat /\ Len(v) \in Nat
  BY <1>1, LenProperties
<1> HIDE DEF a
<1>3. \A i \in DOMAIN s : i \in DOMAIN a /\ a[i] = s[i] BY <1>1, <1>2
<1>4. ASSUME NEW i \in DOMAIN a, NEW j \in DOMAIN a, i < j, a[i] = u, a[j] = t, t \notin Range(v)
      PROVE  Before(s, u, t)
  <2>1. j <= Len(s)
    <3>1. j > Len(s) => j - Len(s) \in DOMAIN v /\ v[j - Len(s)] = t BY <1>1, <1>2, <1>4
    <3> QED BY <1>2, <1>4, <3>1 DEF Range
  <2>2. i \in DOMAIN s /\ j \in DOMAIN s BY <1>2, <1>4, <2>1
  <2>3. s[i] = u /\ s[j] = t BY <1>3, <1>4, <2>2
  <2> QED BY <1>4, <2>2, <2>3 DEF Before
<1> QED BY <1>3, <1>4 DEF Before, a

LEMMA QueueMoves ==
  ASSUME NEW queue \in Seq(Tids), NEW regs, NEW live, WakeupNext(queue, regs, live), NEW t, NEW u
  PROVE  /\ Before(queue, t, u) => Before(suspended', t, u) \/ current' = t
         /\ Before(suspended', u, t) => Before(queue, u, t)
<1>1. CASE queue = <<>>
  <2>1. suspended' = <<>> /\ DOMAIN <<>> = {} BY <1>1 DEF WakeupNext
  <2> QED BY <1>1, <2>1 DEF Before
<1>2. CASE queue # <<>>
  <2>1. suspended' = Tail(queue) /\ current' = Head(queue) BY <1>2 DEF WakeupNext, Resume
  <2> QED BY <1>2, <2>1, BeforeTail
<1> QED BY <1>1, <1>2

LEMMA OrderKept ==
  ASSUME IInv, [Next]_vars, NEW t \in Tids \ {Main}, NEW u \in Tids \ {Main}
  PROVE  /\ Before(suspended, t, u) => Before(suspended', t, u) \/ current' = t
         /\ t \in Range(suspended) /\ u \notin Range(suspended) => ~ Before(suspended', u, t)
<1> USE MoveFacts
<1>1. /\ Before(suspended, u, t) => u \in Range(suspended)
      /\ t \in Range(suspended) => t # current /\ t \notin Range(blocked)
  BY DEF Before, Range, IInv, OnePlace, Alone
<1>2. CASE Stay BY <1>1, <1>2 DEF Stay
<1>3. CASE Yield
  <2>1. PICK regs : WakeupNext(Append(suspended, current), regs, threads) BY <1>3 DEF Yield
  <2>2. /\ Before(Append(suspended, current), t, u) => Before(suspended', t, u) \/ current' = t
        /\ Before(suspended', u, t) => Before(Append(suspended, current), u, t)
    BY <2>1, QueueMoves
  <2> QED BY <1>1, <2>2, BeforeAppend
<1>4. CASE Block
  <2>1. PICK regs : WakeupNext(suspended, regs, threads) BY <1>4 DEF Block
  <2> QED BY <1>1, <2>1, QueueMoves
<1>5. CASE Leave BY <1>1, <1>5, QueueMoves DEF Leave
<1>6. CASE Spawn BY <1>1, <1>6, BeforeAppend DEF Spawn
<1>7. CASE Wake
  <2>1. PICK I \in SUBSET DOMAIN blocked : suspended' = suspended \o Pick(blocked, I) BY <1>7 DEF Wake
  <2>2. Pick(blocked, I) \in Seq(Tids) /\ Range(Pick(blocked, I)) = {blocked[i] : i \in I}
    BY PickFacts
  <2>3. Range(Pick(blocked, I)) \subseteq Range(blocked) BY <2>2 DEF Range
  <2> QED BY <1>1, <2>1, <2>2, <2>3, BeforeConcat
<1> QED BY <1>2, <1>3, <1>4, <1>5, <1>6, <1>7, Moves

(* NoOvertaking: suspend, wakeup_next and wakeup_blocked keep m_suspended  *)
(* in order, so a thread never waits for one that joined the queue later.  *)
THEOREM NoOvertakingCorrect == Spec => NoOvertaking
<1>1. IInv /\ [Next]_vars => [\A t, u \in Tids \ {Main} :
        /\ Before(suspended, t, u) => Before(suspended', t, u) \/ current' = t
        /\ t \in Range(suspended) /\ u \notin Range(suspended) => ~ Before(suspended', u, t)]_suspended
  BY OrderKept
<1> QED BY <1>1, Initially, Inductive, PTL DEF Spec, NoOvertaking
==============================================================================
