------------------------ MODULE SharedSegmentsProofs -------------------------
(***************************************************************************)
(* Proofs about SharedSegments, for every set of threads, keys and         *)
(* handlers: types, the lock discipline, and that machines of one program  *)
(* share one segment that is finished.                                     *)
(***************************************************************************)
EXTENDS SharedSegments, FiniteSetTheorems, TLAPS

Building == {"check", "decode", "push"}

(* The mutex of an entry is held by the thread that works on the entry.    *)
Locked ==
  \A h \in Hosts, k \in Keys : mutex[k] = h <=> at[h] \in Building /\ key[h] = k

(* An entry refers to a segment of its key, which is finished unless the   *)
(* thread that has the mutex is at work on it.                             *)
Entries ==
  \A k \in Keys : entry[k] # None =>
    /\ segment[entry[k]].key = k
    /\ segment[entry[k]].built = "no" => \E h \in Hosts : mutex[k] = h /\ at[h] \in {"decode", "push"}

(* A reference that is worth something: the entry of the key has it too,   *)
(* and the segment is finished.                                            *)
Good(h, s) ==
  /\ key[h] \in Keys /\ entry[key[h]] = s
  /\ segment[s].key = key[h] /\ segment[s].built # "no"

Holding ==
  \A h \in Hosts : held[h] # None =>
    Good(h, held[h]) /\ at[h] \in {"idle", "remove", "remove_entry", "release"}

Carrying == \A h \in Hosts : local[h] # None => Good(h, local[h]) /\ at[h] = "adopt"

(* Where a thread is says what it has.                                     *)
Working ==
  \A h \in Hosts :
    /\ at[h] \in {"decode", "push"} => entry[key[h]] # None
    /\ at[h] \in {"remove", "remove_entry", "release"} => held[h] # None
    /\ at[h] = "push" => found[h].handler \in Handlers

(* The inductive invariant.                                                *)
IInv == TypeOK /\ Locked /\ Entries /\ Holding /\ Carrying /\ Working
------------------------------------------------------------------------------
(* A segment nobody counts is nowhere.                                     *)
LEMMA NobodyUses ==
  ASSUME TypeOK, NEW s \in Segments, Uses(s) = 0
  PROVE  /\ \A k \in Keys : entry[k] # s
         /\ \A h \in Hosts : local[h] # s /\ held[h] # s
<1> DEFINE E == {k \in Keys : entry[k] = s}
           L == {h \in Hosts : local[h] = s}
           H == {h \in Hosts : held[h] = s}
<1>1. IsFiniteSet(E) /\ IsFiniteSet(L) /\ IsFiniteSet(H)
  BY SharedAssumption, FS_Subset
<1>2. Cardinality(E) \in Nat /\ Cardinality(L) \in Nat /\ Cardinality(H) \in Nat
  BY <1>1, FS_CardinalityType
<1>3. Cardinality(E) + Cardinality(L) + Cardinality(H) = 0
  BY DEF Uses
<1>4. Cardinality(E) = 0 /\ Cardinality(L) = 0 /\ Cardinality(H) = 0
  BY <1>2, <1>3
<1>5. E = {} /\ L = {} /\ H = {}
  BY <1>1, <1>4, FS_EmptySet
<1> QED
  BY <1>5

(* When the entry has the only reference no machine has one.               *)
LEMMA OnlyEntryUses ==
  ASSUME TypeOK, NEW j \in Keys, NEW s \in Segments, entry[j] = s, Uses(s) = 1
  PROVE  \A h \in Hosts : local[h] # s /\ held[h] # s
<1> DEFINE E == {k \in Keys : entry[k] = s}
           L == {h \in Hosts : local[h] = s}
           H == {h \in Hosts : held[h] = s}
<1>1. IsFiniteSet(E) /\ IsFiniteSet(L) /\ IsFiniteSet(H)
  BY SharedAssumption, FS_Subset
<1>2. Cardinality(E) \in Nat /\ Cardinality(L) \in Nat /\ Cardinality(H) \in Nat
  BY <1>1, FS_CardinalityType
<1>3. Cardinality(E) + Cardinality(L) + Cardinality(H) = 1
  BY DEF Uses
<1>4. Cardinality(E) # 0
  <2>1. E # {}
    OBVIOUS
  <2> QED
    BY <1>1, <2>1, FS_EmptySet
<1>5. Cardinality(L) = 0 /\ Cardinality(H) = 0
  BY <1>2, <1>3, <1>4
<1>6. L = {} /\ H = {}
  BY <1>1, <1>5, FS_EmptySet
<1> QED
  BY <1>6
(* A number in a decoder cache changes neither the key of a segment nor    *)
(* whether it is built.                                                    *)
LEMMA NumberedKeeps ==
  ASSUME TypeOK, NEW h \in Hosts, NEW f \in Handlers, NEW n \in Nat,
         entry[key[h]] \in Segments, Numbered(h, f, n)
  PROVE  /\ segment' \in [Segments -> [key : Keys \cup {None}, built : {"no", "yes", "failed"},
                                      table : [Handlers -> Nat]]]
         /\ \A t \in Segments : segment'[t].key = segment[t].key /\ segment'[t].built = segment[t].built
<1> DEFINE s == entry[key[h]]
           R == [key : Keys \cup {None}, built : {"no", "yes", "failed"}, table : [Handlers -> Nat]]
           new == [segment[s] EXCEPT !.table[f] = n]
<1>1. segment \in [Segments -> R] /\ s \in Segments
  BY DEF TypeOK
<1>2. new \in R /\ new.key = segment[s].key /\ new.built = segment[s].built
  BY <1>1
<1>3. segment' = [segment EXCEPT ![s] = new]
  BY DEF Numbered
<1> HIDE DEF new, s
<1> QED
  BY <1>1, <1>2, <1>3

(* The end of a build changes only whether the segment is built.           *)
LEMMA SealedKeeps ==
  ASSUME TypeOK, NEW s \in Segments, NEW b \in {"no", "yes", "failed"},
         segment' = [segment EXCEPT ![s].built = b]
  PROVE  /\ segment' \in [Segments -> [key : Keys \cup {None}, built : {"no", "yes", "failed"},
                                      table : [Handlers -> Nat]]]
         /\ \A t \in Segments : segment'[t].key = segment[t].key
         /\ \A t \in Segments : segment'[t].built = IF t = s THEN b ELSE segment[t].built
<1> DEFINE R == [key : Keys \cup {None}, built : {"no", "yes", "failed"}, table : [Handlers -> Nat]]
           new == [segment[s] EXCEPT !.built = b]
<1>1. segment \in [Segments -> R]
  BY DEF TypeOK
<1>2. new \in R /\ new.key = segment[s].key /\ new.built = b
  BY <1>1
<1>3. segment' = [segment EXCEPT ![s] = new]
  OBVIOUS
<1> HIDE DEF new
<1> QED
  BY <1>1, <1>2, <1>3

(* The initial state is good.                                              *)
LEMMA InitIInv == Init => IInv
<1> SUFFICES ASSUME Init PROVE IInv
  OBVIOUS
<1>1. TypeOK
  BY SharedAssumption DEF Init, TypeOK, Places, NewSegment, NoLookup
<1>2. Locked /\ Entries /\ Holding /\ Carrying /\ Working
  BY SharedAssumption DEF Init, Locked, Entries, Holding, Carrying, Working, Building
<1> QED
  BY <1>1, <1>2 DEF IInv

(* A new machine: its thread has no reference yet.                         *)
LEMMA CreateIInv ==
  ASSUME IInv, NEW h \in Hosts, NEW j \in Keys, Create(h, j)
  PROVE  IInv'
<1>1. TypeOK'
  BY SharedAssumption DEF IInv, TypeOK, Places, Create, Go, locks, building
<1>2. Locked'
  BY SharedAssumption DEF IInv, TypeOK, Locked, Building, Create, Go, locks, building
<1>3. Entries'
  BY SharedAssumption DEF IInv, TypeOK, Locked, Entries, Working, Building, Create, Go, locks, building
<1>4. Holding'
  BY SharedAssumption DEF IInv, TypeOK, Holding, Good, Create, Go, locks, building
<1>5. Carrying'
  BY SharedAssumption DEF IInv, TypeOK, Carrying, Good, Create, Go, locks, building
<1>6. Working'
  BY SharedAssumption DEF IInv, TypeOK, Working, Holding, Create, Go, locks, building
<1> QED
  BY <1>1, <1>2, <1>3, <1>4, <1>5, <1>6 DEF IInv

(* Looking up the entry changes nothing but the thread's place.            *)
LEMMA GetSegmentIInv ==
  ASSUME IInv, NEW h \in Hosts, GetSegment(h)
  PROVE  IInv'
<1>1. TypeOK'
  BY SharedAssumption DEF IInv, TypeOK, Places, GetSegment, Go, locks, building
<1>2. Locked'
  BY SharedAssumption DEF IInv, TypeOK, Locked, Building, GetSegment, Go, locks, building
<1>3. Entries'
  BY SharedAssumption DEF IInv, TypeOK, Locked, Entries, Working, Building, GetSegment, Go, locks, building
<1>4. Holding'
  BY SharedAssumption DEF IInv, TypeOK, Holding, Good, GetSegment, Go, locks, building
<1>5. Carrying'
  BY SharedAssumption DEF IInv, TypeOK, Carrying, Good, GetSegment, Go, locks, building
<1>6. Working'
  BY SharedAssumption DEF IInv, TypeOK, Working, Holding, GetSegment, Go, locks, building
<1> QED
  BY <1>1, <1>2, <1>3, <1>4, <1>5, <1>6 DEF IInv

(* The mutex is free, so a segment found in the entry is finished.         *)
LEMMA GetIInv ==
  ASSUME IInv, NEW h \in Hosts, Get(h)
  PROVE  IInv'
<1>1. TypeOK'
  BY SharedAssumption DEF IInv, TypeOK, Places, Get, Go, Free, locks, building
<1>2. Locked'
  BY SharedAssumption DEF IInv, TypeOK, Locked, Building, Get, Go, Free, locks, building
<1>3. Entries'
  BY SharedAssumption DEF IInv, TypeOK, Locked, Entries, Working, Building, Get, Go, Free, locks, building
<1>4. Holding'
  BY SharedAssumption DEF IInv, TypeOK, Holding, Good, Get, Go, Free, locks, building
<1>5. Carrying'
  BY SharedAssumption DEF IInv, TypeOK, Carrying, Good, Locked, Entries, Building, Get, Go, Free, locks, building
<1>6. Working'
  BY SharedAssumption DEF IInv, TypeOK, Working, Holding, Get, Go, Free, locks, building
<1> QED
  BY <1>1, <1>2, <1>3, <1>4, <1>5, <1>6 DEF IInv

(* The thread gets the mutex nobody has.                                   *)
LEMMA LockIInv ==
  ASSUME IInv, NEW h \in Hosts, Lock(h)
  PROVE  IInv'
<1>1. TypeOK'
  BY SharedAssumption DEF IInv, TypeOK, Places, Lock, Go, Free, building
<1>2. Locked'
  BY SharedAssumption DEF IInv, TypeOK, Locked, Building, Lock, Go, Free, building
<1>3. Entries'
  BY SharedAssumption DEF IInv, TypeOK, Locked, Entries, Working, Building, Lock, Go, Free, building
<1>4. Holding'
  BY SharedAssumption DEF IInv, TypeOK, Holding, Good, Lock, Go, Free, building
<1>5. Carrying'
  BY SharedAssumption DEF IInv, TypeOK, Carrying, Good, Lock, Go, Free, building
<1>6. Working'
  BY SharedAssumption DEF IInv, TypeOK, Working, Holding, Lock, Go, Free, building
<1> QED
  BY <1>1, <1>2, <1>3, <1>4, <1>5, <1>6 DEF IInv

(* The thread has the mutex and is not building, so the segment is good.   *)
LEMMA FoundIInv ==
  ASSUME IInv, NEW h \in Hosts, Found(h)
  PROVE  IInv'
<1> DEFINE s == entry[key[h]]
<1>0. key[h] \in Keys /\ mutex[key[h]] = h /\ Good(h, s)
  <2>1. key[h] \in Keys /\ at[h] = "check" /\ s # None
    BY SharedAssumption DEF IInv, TypeOK, Found, Go, Missing
  <2>2. mutex[key[h]] = h
    BY <2>1 DEF IInv, Locked, Building
  <2>3. segment[s].key = key[h] /\ segment[s].built # "no"
    BY <2>1, <2>2 DEF IInv, Entries
  <2> QED
    BY <2>1, <2>2, <2>3 DEF Good
<1>1. TypeOK'
  BY SharedAssumption, <1>0 DEF IInv, TypeOK, Places, Found, Go, Missing, Unlock, building
<1>2. Locked'
  BY SharedAssumption, <1>0 DEF IInv, TypeOK, Locked, Building, Found, Go, Missing, Unlock, building
<1>3. Entries'
  BY SharedAssumption, <1>0 DEF IInv, TypeOK, Locked, Entries, Working, Building, Found, Go, Missing, Unlock, building
<1>4. Holding'
  BY SharedAssumption, <1>0 DEF IInv, TypeOK, Holding, Good, Found, Go, Missing, Unlock, building
<1>5. Carrying'
  BY SharedAssumption, <1>0 DEF IInv, TypeOK, Carrying, Good, Locked, Entries, Building, Found, Go, Missing, Unlock, building
<1>6. Working'
  BY SharedAssumption, <1>0 DEF IInv, TypeOK, Working, Holding, Found, Go, Missing, Unlock, building
<1> QED
  BY <1>1, <1>2, <1>3, <1>4, <1>5, <1>6 DEF IInv

(* The new segment is one nobody refers to.                                *)
LEMMA MakeSegmentIInv ==
  ASSUME IInv, NEW h \in Hosts, MakeSegment(h)
  PROVE  IInv'
<1>a. PICK s \in Segments :
          /\ Uses(s) = 0
          /\ segment' = [segment EXCEPT ![s] = NewSegment(key[h])]
          /\ entry' = [entry EXCEPT ![key[h]] = s]
  BY DEF MakeSegment
<1>b. /\ \A k \in Keys : entry[k] # s
      /\ \A i \in Hosts : local[i] # s /\ held[i] # s
  BY <1>a, NobodyUses DEF IInv
<1>c. key[h] \in Keys /\ mutex[key[h]] = h /\ entry[key[h]] = None
  BY SharedAssumption DEF IInv, TypeOK, Locked, Building, MakeSegment, Go, Missing
<1>d. /\ NewSegment(key[h]) \in [key : Keys \cup {None}, built : {"no", "yes", "failed"},
                                  table : [Handlers -> Nat]]
      /\ NewSegment(key[h]).key = key[h] /\ NewSegment(key[h]).built = "no"
  BY <1>c DEF NewSegment
<1>e. /\ segment' \in [Segments -> [key : Keys \cup {None}, built : {"no", "yes", "failed"},
                                    table : [Handlers -> Nat]]]
      /\ segment'[s].key = key[h] /\ segment'[s].built = "no"
      /\ \A t \in Segments \ {s} : segment'[t] = segment[t]
  BY <1>a, <1>d DEF IInv, TypeOK
<1>f. s # None
  BY SharedAssumption
<1>1. TypeOK'
  BY SharedAssumption, <1>a, <1>b, <1>c, <1>e, <1>f DEF IInv, TypeOK, Places, MakeSegment, Go, Missing, locks
<1>2. Locked'
  BY SharedAssumption, <1>a, <1>b, <1>c, <1>e, <1>f DEF IInv, TypeOK, Locked, Building, MakeSegment, Go, Missing, locks
<1>3. Entries'
  BY SharedAssumption, <1>a, <1>b, <1>c, <1>e, <1>f DEF IInv, TypeOK, Locked, Entries, Working, Building, MakeSegment, Go, Missing, locks
<1>4. Holding'
  BY SharedAssumption, <1>a, <1>b, <1>c, <1>e, <1>f DEF IInv, TypeOK, Holding, Good, MakeSegment, Go, Missing, locks
<1>5. Carrying'
  BY SharedAssumption, <1>a, <1>b, <1>c, <1>e, <1>f DEF IInv, TypeOK, Carrying, Good, MakeSegment, Go, Missing, locks
<1>6. Working'
  BY SharedAssumption, <1>a, <1>b, <1>c, <1>e, <1>f DEF IInv, TypeOK, Working, Holding, MakeSegment, Go, Missing, locks
<1> QED
  BY <1>1, <1>2, <1>3, <1>4, <1>5, <1>6 DEF IInv

(* A search changes the table of a segment at most.                        *)
LEMMA SearchIInv ==
  ASSUME IInv, NEW h \in Hosts, NEW f \in Handlers, Search(h, f)
  PROVE  IInv'
<1>a. h \in Hosts /\ key[h] \in Keys /\ entry[key[h]] \in Segments
  BY SharedAssumption DEF IInv, TypeOK, Working, Search
<1>b. /\ segment' \in [Segments -> [key : Keys \cup {None}, built : {"no", "yes", "failed"},
                                    table : [Handlers -> Nat]]]
      /\ \A t \in Segments : segment'[t].key = segment[t].key /\ segment'[t].built = segment[t].built
  <2>1. CASE UNCHANGED segment
    BY <2>1 DEF IInv, TypeOK
  <2>2. CASE \E n \in 1..count : Numbered(h, f, n)
    <3>1. PICK n \in 1..count : Numbered(h, f, n)
      BY <2>2
    <3>2. n \in Nat
      BY DEF IInv, TypeOK
    <3> QED
      BY <1>a, <3>1, <3>2, NumberedKeeps DEF IInv
  <2> QED
    BY <2>1, <2>2 DEF Search
<1>c. /\ \/ UNCHANGED <<at, found>>
         \/ /\ at' = [at EXCEPT ![h] = "push"]
            /\ found' = [found EXCEPT ![h] = [handler |-> f, size |-> count]]
      /\ at[h] = "decode" /\ todo' = [todo EXCEPT ![h] = @ \ {f}]
      /\ UNCHANGED <<mapMutex, mutex, entry, key, local, held, made, handlers, count>>
  BY DEF Search, Go, locks
<1>1. TypeOK'
  <2>1. todo' \in [Hosts -> SUBSET Handlers]
    BY <1>c DEF IInv, TypeOK
  <2>2. found' \in [Hosts -> [handler : Handlers \cup {None}, size : 0..Len(handlers)]]
    <3>1. [handler |-> f, size |-> count] \in [handler : Handlers \cup {None}, size : 0..Len(handlers)]
      BY DEF IInv, TypeOK
    <3>2. found \in [Hosts -> [handler : Handlers \cup {None}, size : 0..Len(handlers)]]
      BY DEF IInv, TypeOK
    <3> QED
      BY <1>c, <3>1, <3>2
  <2>3. at' \in [Hosts -> Places] /\ \A i \in Hosts : at'[i] # "idle" => key[i] # None
    BY <1>c DEF IInv, TypeOK, Places
  <2> QED
    BY <1>b, <1>c, <2>1, <2>2, <2>3 DEF IInv, TypeOK
<1>2. Locked'
  BY SharedAssumption, <1>a, <1>b, <1>c DEF IInv, TypeOK, Locked, Building
<1>3. Entries'
  BY SharedAssumption, <1>a, <1>b, <1>c DEF IInv, TypeOK, Locked, Entries, Working, Building
<1>4. Holding'
  BY SharedAssumption, <1>a, <1>b, <1>c DEF IInv, TypeOK, Holding, Good
<1>5. Carrying'
  BY SharedAssumption, <1>a, <1>b, <1>c DEF IInv, TypeOK, Carrying, Good
<1>6. Working'
  BY SharedAssumption, <1>a, <1>b, <1>c DEF IInv, TypeOK, Working, Holding
<1> QED
  BY <1>1, <1>2, <1>3, <1>4, <1>5, <1>6 DEF IInv

(* Slots are written inside m_handlers or one behind them.                 *)
LEMMA PushIInv ==
  ASSUME IInv, NEW h \in Hosts, Push(h)
  PROVE  IInv'
<1> DEFINE n == found[h].size + 1
<1>a. key[h] \in Keys /\ entry[key[h]] \in Segments /\ found[h].handler \in Handlers
  BY SharedAssumption DEF IInv, TypeOK, Working, Push, Go
<1>b. n \in Nat /\ n <= Len(handlers) + 1
  BY DEF IInv, TypeOK
<1>c. /\ segment' \in [Segments -> [key : Keys \cup {None}, built : {"no", "yes", "failed"},
                                    table : [Handlers -> Nat]]]
      /\ \A t \in Segments : segment'[t].key = segment[t].key /\ segment'[t].built = segment[t].built
  BY <1>a, <1>b, NumberedKeeps DEF IInv, Push
<1>d. handlers' \in Seq(Handlers) /\ Len(handlers') >= Len(handlers) /\ n \in 0..Len(handlers')
  <2>1. CASE n \in DOMAIN handlers
    <3>1. handlers' = [handlers EXCEPT ![n] = found[h].handler]
      BY <2>1 DEF Push
    <3>2. handlers' \in Seq(Handlers) /\ Len(handlers') = Len(handlers)
      BY <2>1, <3>1, <1>a DEF IInv, TypeOK
    <3> QED
      BY <1>b, <2>1, <3>2 DEF IInv, TypeOK
  <2>2. CASE n \notin DOMAIN handlers
    <3>1. handlers' = Append(handlers, found[h].handler)
      BY <2>2 DEF Push
    <3>2. handlers' \in Seq(Handlers) /\ Len(handlers') = Len(handlers) + 1
      BY <3>1, <1>a DEF IInv, TypeOK
    <3> QED
      BY <1>b, <3>2 DEF IInv, TypeOK
  <2> QED
    BY <2>1, <2>2
<1>1. TypeOK'
  BY SharedAssumption, <1>a, <1>c, <1>d DEF IInv, TypeOK, Places, Working, Push, Go, NoLookup, locks
<1>2. Locked'
  BY SharedAssumption, <1>a, <1>c, <1>d DEF IInv, TypeOK, Locked, Building, Push, Go, NoLookup, locks
<1>3. Entries'
  BY SharedAssumption, <1>a, <1>c, <1>d DEF IInv, TypeOK, Locked, Entries, Working, Building, Push, Go, NoLookup, locks
<1>4. Holding'
  BY SharedAssumption, <1>a, <1>c, <1>d DEF IInv, TypeOK, Holding, Good, Push, Go, NoLookup, locks
<1>5. Carrying'
  BY SharedAssumption, <1>a, <1>c, <1>d DEF IInv, TypeOK, Carrying, Good, Push, Go, NoLookup, locks
<1>6. Working'
  BY SharedAssumption, <1>a, <1>c, <1>d DEF IInv, TypeOK, Working, Holding, Push, Go, NoLookup, locks
<1> QED
  BY <1>1, <1>2, <1>3, <1>4, <1>5, <1>6 DEF IInv

(* The segment is finished when the mutex is given back.                   *)
LEMMA BuiltIInv ==
  ASSUME IInv, NEW h \in Hosts, Built(h)
  PROVE  IInv'
<1> DEFINE s == entry[key[h]]
<1>a. key[h] \in Keys /\ mutex[key[h]] = h /\ s \in Segments /\ s # None
  BY SharedAssumption DEF IInv, TypeOK, Locked, Working, Building, Built, Go
<1>b. /\ segment' \in [Segments -> [key : Keys \cup {None}, built : {"no", "yes", "failed"},
                                    table : [Handlers -> Nat]]]
      /\ \A t \in Segments : segment'[t].key = segment[t].key
      /\ \A t \in Segments : segment'[t].built = IF t = s THEN "yes" ELSE segment[t].built
  BY <1>a, SealedKeeps DEF IInv, Built
<1>1. TypeOK'
  BY SharedAssumption, <1>a, <1>b DEF IInv, TypeOK, Places, Built, Go, Unlock
<1>2. Locked'
  BY SharedAssumption, <1>a, <1>b DEF IInv, TypeOK, Locked, Building, Built, Go, Unlock
<1>3. Entries'
  BY SharedAssumption, <1>a, <1>b DEF IInv, TypeOK, Locked, Entries, Working, Building, Built, Go, Unlock
<1>4. Holding'
  BY SharedAssumption, <1>a, <1>b DEF IInv, TypeOK, Holding, Good, Built, Go, Unlock
<1>5. Carrying'
  BY SharedAssumption, <1>a, <1>b DEF IInv, TypeOK, Carrying, Good, Entries, Built, Go, Unlock
<1>6. Working'
  BY SharedAssumption, <1>a, <1>b DEF IInv, TypeOK, Working, Holding, Built, Go, Unlock
<1> QED
  BY <1>1, <1>2, <1>3, <1>4, <1>5, <1>6 DEF IInv

(* A failed segment is not under construction any more.                    *)
LEMMA BuildThrowsIInv ==
  ASSUME IInv, NEW h \in Hosts, BuildThrows(h)
  PROVE  IInv'
<1> DEFINE s == entry[key[h]]
<1>a. key[h] \in Keys /\ mutex[key[h]] = h /\ s \in Segments /\ s # None
  BY SharedAssumption DEF IInv, TypeOK, Locked, Working, Building, BuildThrows, Go
<1>b. /\ segment' \in [Segments -> [key : Keys \cup {None}, built : {"no", "yes", "failed"},
                                    table : [Handlers -> Nat]]]
      /\ \A t \in Segments : segment'[t].key = segment[t].key
      /\ \A t \in Segments : segment'[t].built = IF t = s THEN "failed" ELSE segment[t].built
  BY <1>a, SealedKeeps DEF IInv, BuildThrows
<1>1. TypeOK'
  BY SharedAssumption, <1>a, <1>b DEF IInv, TypeOK, Places, BuildThrows, Go, AfterThrow, Unlock, NoKey
<1>2. Locked'
  BY SharedAssumption, <1>a, <1>b DEF IInv, TypeOK, Locked, Building, BuildThrows, Go, AfterThrow, Unlock, NoKey
<1>3. Entries'
  BY SharedAssumption, <1>a, <1>b DEF IInv, TypeOK, Locked, Entries, Working, Building, BuildThrows, Go, AfterThrow, Unlock, NoKey
<1>4. Holding'
  BY SharedAssumption, <1>a, <1>b DEF IInv, TypeOK, Holding, Good, Locked, Building, BuildThrows, Go, AfterThrow, Unlock, NoKey
<1>5. Carrying'
  BY SharedAssumption, <1>a, <1>b DEF IInv, TypeOK, Carrying, Good, BuildThrows, Go, AfterThrow, Unlock, NoKey
<1>6. Working'
  BY SharedAssumption, <1>a, <1>b DEF IInv, TypeOK, Working, Holding, BuildThrows, Go, AfterThrow, Unlock, NoKey
<1> QED
  BY <1>1, <1>2, <1>3, <1>4, <1>5, <1>6 DEF IInv

(* The reference moves from the call to the machine.                       *)
LEMMA AdoptIInv ==
  ASSUME IInv, NEW h \in Hosts, Adopt(h)
  PROVE  IInv'
<1>1. TypeOK'
  BY SharedAssumption DEF IInv, TypeOK, Places, Adopt, Go, locks, building
<1>2. Locked'
  BY SharedAssumption DEF IInv, TypeOK, Locked, Building, Adopt, Go, locks, building
<1>3. Entries'
  BY SharedAssumption DEF IInv, TypeOK, Locked, Entries, Working, Building, Adopt, Go, locks, building
<1>4. Holding'
  BY SharedAssumption DEF IInv, TypeOK, Holding, Good, Carrying, Adopt, Go, locks, building
<1>5. Carrying'
  BY SharedAssumption DEF IInv, TypeOK, Carrying, Good, Adopt, Go, locks, building
<1>6. Working'
  BY SharedAssumption DEF IInv, TypeOK, Working, Holding, Adopt, Go, locks, building
<1> QED
  BY <1>1, <1>2, <1>3, <1>4, <1>5, <1>6 DEF IInv

(* The machine has a segment, so its thread has a key.                     *)
LEMMA EvictIInv ==
  ASSUME IInv, NEW h \in Hosts, Evict(h)
  PROVE  IInv'
<1>1. TypeOK'
  BY SharedAssumption DEF IInv, TypeOK, Places, Holding, Good, Evict, Go, HasMain, locks, building
<1>2. Locked'
  BY SharedAssumption DEF IInv, TypeOK, Locked, Building, Evict, Go, HasMain, locks, building
<1>3. Entries'
  BY SharedAssumption DEF IInv, TypeOK, Locked, Entries, Working, Building, Evict, Go, HasMain, locks, building
<1>4. Holding'
  BY SharedAssumption DEF IInv, TypeOK, Holding, Good, Evict, Go, HasMain, locks, building
<1>5. Carrying'
  BY SharedAssumption DEF IInv, TypeOK, Carrying, Good, Evict, Go, HasMain, locks, building
<1>6. Working'
  BY SharedAssumption DEF IInv, TypeOK, Working, Holding, Evict, Go, HasMain, locks, building
<1> QED
  BY <1>1, <1>2, <1>3, <1>4, <1>5, <1>6 DEF IInv

(* Locking the map concerns no entry.                                      *)
LEMMA RemoveLocksMapIInv ==
  ASSUME IInv, NEW h \in Hosts, RemoveLocksMap(h)
  PROVE  IInv'
<1>1. TypeOK'
  BY SharedAssumption DEF IInv, TypeOK, Places, RemoveLocksMap, Go, building
<1>2. Locked'
  BY SharedAssumption DEF IInv, TypeOK, Locked, Building, RemoveLocksMap, Go, building
<1>3. Entries'
  BY SharedAssumption DEF IInv, TypeOK, Locked, Entries, Working, Building, RemoveLocksMap, Go, building
<1>4. Holding'
  BY SharedAssumption DEF IInv, TypeOK, Holding, Good, RemoveLocksMap, Go, building
<1>5. Carrying'
  BY SharedAssumption DEF IInv, TypeOK, Carrying, Good, RemoveLocksMap, Go, building
<1>6. Working'
  BY SharedAssumption DEF IInv, TypeOK, Working, Holding, RemoveLocksMap, Go, building
<1> QED
  BY <1>1, <1>2, <1>3, <1>4, <1>5, <1>6 DEF IInv

(* Only an entry whose segment no machine has is emptied.                  *)
LEMMA RemoveIfUniqueIInv ==
  ASSUME IInv, NEW h \in Hosts, RemoveIfUnique(h)
  PROVE  IInv'
<1> DEFINE k == key[h]
<1>a. k \in Keys /\ segment[held[h]].key = k
  BY DEF IInv, Holding, Working, Good, RemoveIfUnique, Go
<1>b. \/ UNCHANGED entry
      \/ /\ entry' = [entry EXCEPT ![k] = None]
         /\ \A i \in Hosts : local[i] # entry[k] /\ held[i] # entry[k]
  <2>1. CASE entry[k] # None /\ Uses(entry[k]) = 1
    <3>1. entry[k] \in Segments
      BY <2>1, <1>a DEF IInv, TypeOK
    <3> QED
      BY <2>1, <3>1, <1>a, OnlyEntryUses DEF IInv, RemoveIfUnique, Unique
  <2>2. CASE ~ (entry[k] # None /\ Uses(entry[k]) = 1)
    BY <2>2, <1>a DEF RemoveIfUnique, Unique
  <2> QED
    BY <2>1, <2>2
<1>c. mutex[k] = None
  BY <1>a DEF RemoveIfUnique
<1>1. TypeOK'
  BY SharedAssumption, <1>a, <1>b, <1>c DEF IInv, TypeOK, Places, RemoveIfUnique, Go, Unique, building
<1>2. Locked'
  BY SharedAssumption, <1>a, <1>b, <1>c DEF IInv, TypeOK, Locked, Building, RemoveIfUnique, Go, Unique, building
<1>3. Entries'
  BY SharedAssumption, <1>a, <1>b, <1>c DEF IInv, TypeOK, Locked, Entries, Working, Building, RemoveIfUnique, Go, Unique, building
<1>4. Holding'
  BY SharedAssumption, <1>a, <1>b, <1>c DEF IInv, TypeOK, Holding, Good, RemoveIfUnique, Go, Unique, building
<1>5. Carrying'
  BY SharedAssumption, <1>a, <1>b, <1>c DEF IInv, TypeOK, Carrying, Good, RemoveIfUnique, Go, Unique, building
<1>6. Working'
  BY SharedAssumption, <1>a, <1>b, <1>c DEF IInv, TypeOK, Working, Holding, Locked, Building, RemoveIfUnique, Go, Unique, building
<1> QED
  BY <1>1, <1>2, <1>3, <1>4, <1>5, <1>6 DEF IInv

(* The machine has no segment any more.                                    *)
LEMMA ReleaseIInv ==
  ASSUME IInv, NEW h \in Hosts, Release(h)
  PROVE  IInv'
<1>1. TypeOK'
  BY SharedAssumption DEF IInv, TypeOK, Places, Release, Go, NoKey, locks, building
<1>2. Locked'
  BY SharedAssumption DEF IInv, TypeOK, Locked, Building, Release, Go, NoKey, locks, building
<1>3. Entries'
  BY SharedAssumption DEF IInv, TypeOK, Locked, Entries, Working, Building, Release, Go, NoKey, locks, building
<1>4. Holding'
  BY SharedAssumption DEF IInv, TypeOK, Holding, Good, Release, Go, NoKey, locks, building
<1>5. Carrying'
  BY SharedAssumption DEF IInv, TypeOK, Carrying, Good, Release, Go, NoKey, locks, building
<1>6. Working'
  BY SharedAssumption DEF IInv, TypeOK, Working, Holding, Release, Go, NoKey, locks, building
<1> QED
  BY <1>1, <1>2, <1>3, <1>4, <1>5, <1>6 DEF IInv

(* The machine has no segment any more.                                    *)
LEMMA DestroyIInv ==
  ASSUME IInv, NEW h \in Hosts, Destroy(h)
  PROVE  IInv'
<1>1. TypeOK'
  BY SharedAssumption DEF IInv, TypeOK, Places, Destroy, NoKey, locks, building
<1>2. Locked'
  BY SharedAssumption DEF IInv, TypeOK, Locked, Building, Destroy, NoKey, locks, building
<1>3. Entries'
  BY SharedAssumption DEF IInv, TypeOK, Locked, Entries, Working, Building, Destroy, NoKey, locks, building
<1>4. Holding'
  BY SharedAssumption DEF IInv, TypeOK, Holding, Good, Destroy, NoKey, locks, building
<1>5. Carrying'
  BY SharedAssumption DEF IInv, TypeOK, Carrying, Good, Destroy, NoKey, locks, building
<1>6. Working'
  BY SharedAssumption DEF IInv, TypeOK, Working, Holding, Destroy, NoKey, locks, building
<1> QED
  BY <1>1, <1>2, <1>3, <1>4, <1>5, <1>6 DEF IInv

(* Every step keeps the invariant.                                         *)
LEMMA NextIInv == IInv /\ [Next]_vars => IInv'
<1> SUFFICES ASSUME IInv, [Next]_vars PROVE IInv'
  OBVIOUS
<1>1. CASE UNCHANGED vars
  BY <1>1 DEF vars, IInv, TypeOK, Locked, Entries, Holding, Carrying, Working, Good
<1>2. ASSUME NEW h \in Hosts, NEW j \in Keys, Create(h, j)
      PROVE  IInv'
  BY <1>2, CreateIInv
<1>3. ASSUME NEW h \in Hosts, Evict(h) \/ Destroy(h)
      PROVE  IInv'
  BY <1>3, EvictIInv, DestroyIInv
<1>4. ASSUME NEW h \in Hosts, Step(h)
      PROVE  IInv'
  <2>1. CASE GetSegment(h) \/ Get(h) \/ Lock(h) \/ Found(h) \/ MakeSegment(h)
    BY <2>1, GetSegmentIInv, GetIInv, LockIInv, FoundIInv, MakeSegmentIInv
  <2>2. ASSUME NEW f \in Handlers, Search(h, f)
        PROVE  IInv'
    BY <2>2, SearchIInv
  <2>3. CASE Push(h) \/ Built(h) \/ BuildThrows(h) \/ Adopt(h)
    BY <2>3, PushIInv, BuiltIInv, BuildThrowsIInv, AdoptIInv
  <2>4. CASE RemoveLocksMap(h) \/ RemoveIfUnique(h) \/ Release(h)
    BY <2>4, RemoveLocksMapIInv, RemoveIfUniqueIInv, ReleaseIInv
  <2> QED
    BY <1>4, <2>1, <2>2, <2>3, <2>4 DEF Step
<1> QED
  BY <1>1, <1>2, <1>3, <1>4 DEF Next

(* The inductive invariant holds in every reachable state.                 *)
THEOREM Invariant == Spec => []IInv
<1> QED
  BY InitIInv, NextIInv, PTL DEF Spec
------------------------------------------------------------------------------
(* Every variable has its type; the number a push will use never points    *)
(* beyond the first slot after those of m_handlers (decoder_cache.cpp:283).*)
THEOREM TypeCorrect == Spec => []TypeOK
<1>1. IInv => TypeOK
  BY DEF IInv
<1> QED
  BY Invariant, <1>1, PTL

(* One thread at a time looks at an entry that has no segment and builds   *)
(* it (memory.cpp:332).                                                    *)
THEOREM OneBuilderCorrect == Spec => []OneBuilder
<1>1. IInv => OneBuilder
  <2> SUFFICES ASSUME IInv, NEW h \in Hosts, NEW i \in Hosts,
                      {at[h], at[i]} \subseteq Building, key[h] = key[i]
               PROVE  h = i
    BY DEF OneBuilder, Building
  <2>1. key[h] \in Keys
    BY DEF IInv, TypeOK, Building
  <2>2. mutex[key[h]] = h /\ mutex[key[h]] = i
    BY <2>1 DEF IInv, Locked
  <2> QED
    BY <2>2
<1> QED
  BY Invariant, <1>1, PTL

(* No machine has a segment that is still being built (memory.cpp:335).    *)
THEOREM NotUnderConstructionCorrect == Spec => []NotUnderConstruction
<1>1. IInv => NotUnderConstruction
  BY DEF IInv, Holding, Good, NotUnderConstruction
<1> QED
  BY Invariant, <1>1, PTL

(* Machines of one program have one segment, and it is the program's       *)
(* (memory.cpp:329, shared_exec_segment.cpp:34).                           *)
THEOREM SharedCorrect == Spec => []Shared
<1>1. IInv => Shared
  BY DEF IInv, Holding, Good, Shared
<1> QED
  BY Invariant, <1>1, PTL
==============================================================================
