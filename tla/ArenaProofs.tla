----------------------------- MODULE ArenaProofs -----------------------------
(***************************************************************************)
(* The chunk list of native/heap.hpp stays a doubly linked, coalesced      *)
(* tiling of the arena for every arena, every limit of chunk records and   *)
(* every sequence of calls.  The argument goes operation by operation:     *)
(* each function on heaps preserves Struct, and internal_free repairs the  *)
(* one thing a freed chunk can break, Coalesced.                           *)
(***************************************************************************)
EXTENDS Arena, TLAPS, WellFoundedInduction, FiniteSetTheorems

Struct(h) == HeapType(h) /\ Linked(h) /\ Tiled(h)
Wf(h)     == Struct(h) /\ Coalesced(h)

(* Every non-empty set of naturals has a least element.                    *)
Less == {p \in Nat \X Nat : p[1] < p[2]}

LEMMA LessWellFounded == IsWellFoundedOn(Less, Nat)
  BY NatLessThanWellFounded DEF OpToRel, Less

LEMMA NatMinimum ==
  ASSUME NEW S \in SUBSET Nat, S # {}
  PROVE  \E x \in S : \A y \in S : x <= y
<1>1. PICK x \in S : \A y \in S : ~ (<<y, x>> \in Less)
  BY LessWellFounded, WFMin, Zenon
<1>2. \A y \in S : ~ (y < x)
  BY <1>1 DEF Less
<1> QED BY <1>2

(* Null is no chunk, and the list holds chunks.                            *)
LEMMA ChunkFacts ==
  /\ MaxChunks \in Nat /\ Base \in Chunks /\ Null \notin Chunks
  /\ \A h : HeapType(h) => Live(h) \subseteq Chunks
<1>1. MaxChunks \in Nat /\ Base \in Chunks /\ Null \notin Chunks
  BY ArenaAssumption DEF Chunks, Base, Null
<1>2. ASSUME NEW h, HeapType(h) PROVE Live(h) \subseteq Chunks
  <2>1. h.made \in 0..MaxChunks
    BY <1>2 DEF HeapType, Chunks
  <2>q. QED BY <1>1, <2>1 DEF Live, Chunks
<1> QED BY <1>1, <1>2

(* What an update of one field of one chunk does; at Null it does nothing. *)
LEMMA SetFacts ==
  ASSUME NEW T, NEW f \in [Chunks -> T], NEW c \in Chunks \cup {Null}, NEW x \in T
  PROVE  /\ Set(f, c, x) \in [Chunks -> T]
         /\ c # Null => Set(f, c, x)[c] = x
         /\ \A d \in Chunks : d # c => Set(f, c, x)[d] = f[d]
  BY ChunkFacts DEF Set

(* A request is rounded up to a positive multiple of 16.                   *)
LEMMA FixupPositive ==
  ASSUME NEW n \in Nat
  PROVE  FixupSize(n) \in Nat /\ 16 <= FixupSize(n) /\ FixupSize(n) % 16 = 0
<1>1. (n + 15) % SizeMod \in Nat
  BY ArenaAssumption
<1> QED BY <1>1 DEF FixupSize, WordAlign

(* When some chunk fits, find_free returns one that fits.                  *)
LEMMA FindFreeFits ==
  ASSUME NEW h, HeapType(h), NEW n \in Nat, Fits(h, n) # {}
  PROVE  FindFree(h, n) \in Fits(h, n)
<1> DEFINE D == {h.data[c] : c \in Fits(h, n)}
<1>1. D \in SUBSET Nat /\ D # {}
  <2>1. Fits(h, n) \subseteq Chunks /\ h.data \in [Chunks -> Nat]
    BY ChunkFacts DEF Fits, HeapType
  <2>q. QED BY <2>1
<1>2. PICK x \in D : \A y \in D : x <= y
  BY <1>1, NatMinimum
<1>3. \E c \in Fits(h, n) : \A d \in Fits(h, n) : h.data[c] <= h.data[d]
  BY <1>2
<1> QED BY <1>3 DEF FindFree

(* A pointer to a block names a chunk in use.                              *)
LEMMA FindUsedUsed ==
  ASSUME NEW h, NEW p, At(h, p) # {}
  PROVE  FindUsed(h, p) \in Live(h) /\ ~ h.free[FindUsed(h, p)] /\ h.data[FindUsed(h, p)] = p
  BY DEF FindUsed, At, Used

(* A chunk's successor is another chunk, and never the base chunk.         *)
LEMMA SuccessorFacts ==
  ASSUME NEW h, Struct(h), NEW c \in Live(h), h.next[c] # Null
  PROVE  /\ h.next[c] \in Live(h)
         /\ h.next[c] # c /\ h.next[c] # Base
         /\ h.prev[h.next[c]] = c
         /\ h.data[h.next[c]] = h.data[c] + h.size[c]
         /\ h.next[h.next[c]] # c /\ h.next[h.next[c]] # h.next[c]
<1>1. c \in Chunks /\ c # Null /\ Base # Null
  BY ChunkFacts DEF Struct
<1>2. /\ h.next[c] \in Live(h) /\ h.prev[h.next[c]] = c
      /\ h.data[h.next[c]] = h.data[c] + h.size[c]
      /\ h.prev[Base] = Null
  BY DEF Struct, Linked, Tiled
<1>3. h.next[c] \in Chunks
  BY <1>2, ChunkFacts DEF Struct
<1>4. h.data[c] \in Nat /\ h.size[c] \in Nat /\ h.size[c] > 0
  BY <1>1 DEF Struct, HeapType, Tiled
<1>5. h.data[h.next[c]] \in Nat /\ h.size[h.next[c]] \in Nat /\ h.size[h.next[c]] > 0
  BY <1>2, <1>3 DEF Struct, HeapType, Tiled
<1>6. h.next[h.next[c]] # Null => h.data[h.next[h.next[c]]] = h.data[h.next[c]] + h.size[h.next[c]]
  BY <1>2 DEF Struct, Tiled
<1>7. h.next[c] # c /\ h.next[c] # Base
  BY <1>1, <1>2, <1>4
<1> QED BY <1>1, <1>2, <1>3, <1>4, <1>5, <1>6, <1>7
------------------------------------------------------------------------------
(* merge_next of a chunk with a successor keeps the structure.             *)
LEMMA MergeStruct ==
  ASSUME NEW h, Struct(h), NEW c \in Live(h), h.next[c] # Null
  PROVE  LET g == MergeNext(h, c)
             n == h.next[c]
         IN /\ Struct(g)
            /\ Live(g) = Live(h) \ {n}
            /\ g.next[c] = h.next[n] /\ g.prev[c] = h.prev[c] /\ g.free = h.free
            /\ \A d \in Live(g) : d # c => g.next[d] = h.next[d]
<1> DEFINE n == h.next[c]
           g == MergeNext(h, c)
<1>1. /\ n \in Live(h) /\ n # c /\ n # Base /\ h.prev[n] = c
      /\ h.data[n] = h.data[c] + h.size[c]
      /\ h.next[n] # c /\ h.next[n] # n
  BY SuccessorFacts
<1>2. HeapType(h) /\ Linked(h) /\ Tiled(h)
  BY DEF Struct
<1>t. /\ c \in Chunks /\ n \in Chunks /\ c # Null /\ n # Null
      /\ h.next[n] \in Chunks \cup {Null}
      /\ Live(h) \subseteq Chunks
      /\ Null \notin Chunks
  BY <1>1, <1>2, ChunkFacts DEF HeapType
<1>3. /\ g.size = Set(h.size, c, h.size[c] + h.size[n])
      /\ g.next = Set(h.next, c, h.next[n])
      /\ g.prev = Set(h.prev, h.next[n], c)
      /\ g.pool = h.pool \cup {n}
      /\ g.free = h.free /\ g.data = h.data /\ g.made = h.made
  BY DEF MergeNext
<1>4. Live(g) = Live(h) \ {n}
  BY <1>3 DEF Live
<1>s. /\ g.size \in [Chunks -> Nat]
      /\ g.size[c] = h.size[c] + h.size[n]
      /\ \A d \in Chunks : d # c => g.size[d] = h.size[d]
  <2>1. h.size \in [Chunks -> Nat] /\ h.size[c] + h.size[n] \in Nat
    BY <1>2, <1>t DEF HeapType
  <2>q. QED BY <2>1, <1>3, <1>t DEF Set
<1>n. /\ g.next \in [Chunks -> Chunks \cup {Null}]
      /\ g.next[c] = h.next[n]
      /\ \A d \in Chunks : d # c => g.next[d] = h.next[d]
  <2>1. h.next \in [Chunks -> Chunks \cup {Null}]
    BY <1>2 DEF HeapType
  <2>q. QED BY <2>1, <1>3, <1>t DEF Set
<1>p. /\ g.prev \in [Chunks -> Chunks \cup {Null}]
      /\ h.next[n] # Null => g.prev[h.next[n]] = c
      /\ \A d \in Chunks : d # h.next[n] => g.prev[d] = h.prev[d]
  <2>1. h.prev \in [Chunks -> Chunks \cup {Null}]
    BY <1>2 DEF HeapType
  <2>q. QED BY <2>1, <1>3, <1>t DEF Set
<1>5. HeapType(g)
  <2>4. g.pool \subseteq 1..g.made
    BY <1>1, <1>2, <1>3 DEF HeapType, Live, Base, Chunks
  <2>5. g.pool \in SUBSET (Chunks \ {Base})
    BY <1>1, <1>2, <1>3, <1>t DEF HeapType
  <2>q. QED BY <1>2, <1>3, <1>s, <1>n, <1>p, <2>4, <2>5 DEF HeapType, MergeNext
<1>6. Linked(g)
  <2>1. /\ h.prev[Base] = Null
        /\ \A d \in Live(h) :
              /\ h.next[d] # Null => h.next[d] \in Live(h) /\ h.prev[h.next[d]] = d
              /\ h.prev[d] # Null => h.prev[d] \in Live(h) /\ h.next[h.prev[d]] = d
              /\ h.prev[d] = Null => d = Base
    BY <1>2 DEF Linked
  <2>2. h.next[n] # Null => h.next[n] \in Live(h) /\ h.prev[h.next[n]] = n
    BY <1>1, <2>1
  <2>3. g.prev[Base] = Null
    BY <2>1, <2>2, <1>p, <1>t, ChunkFacts
  <2>4. ASSUME NEW d \in Live(g), g.next[d] # Null
        PROVE  g.next[d] \in Live(g) /\ g.prev[g.next[d]] = d
    <3>1. d \in Live(h) /\ d # n /\ d \in Chunks
      BY <1>4, <1>t
    <3>2. CASE d = c
      BY <3>2, <2>2, <1>1, <1>4, <1>n, <1>p, <2>4
    <3>3. CASE d # c
      <4>1. g.next[d] = h.next[d]
        BY <3>1, <3>3, <1>n
      <4>2. h.next[d] \in Live(h) /\ h.prev[h.next[d]] = d
        BY <4>1, <3>1, <2>1, <2>4
      <4>3. h.next[d] # n /\ h.next[d] # h.next[n]
        BY <4>2, <3>1, <3>3, <1>1, <2>2, <2>4, <4>1
      <4>q. QED BY <4>1, <4>2, <4>3, <1>4, <1>p, <1>t
    <3>q. QED BY <3>2, <3>3
  <2>5. ASSUME NEW d \in Live(g)
        PROVE  /\ g.prev[d] # Null => g.prev[d] \in Live(g) /\ g.next[g.prev[d]] = d
               /\ g.prev[d] = Null => d = Base
    <3>1. d \in Live(h) /\ d # n /\ d \in Chunks
      BY <1>4, <1>t
    <3>2. CASE d = h.next[n]
      BY <3>1, <3>2, <1>1, <1>4, <1>n, <1>p, <1>t
    <3>3. CASE d # h.next[n]
      <4>1. g.prev[d] = h.prev[d]
        BY <3>1, <3>3, <1>p
      <4>2. CASE h.prev[d] = Null
        BY <4>1, <4>2, <3>1, <2>1
      <4>3. CASE h.prev[d] # Null
        <5>1. h.prev[d] \in Live(h) /\ h.next[h.prev[d]] = d
          BY <4>3, <3>1, <2>1
        <5>2. h.prev[d] # n /\ h.prev[d] # c
          BY <5>1, <3>1, <3>3
        <5>q. QED BY <4>1, <4>3, <5>1, <5>2, <1>4, <1>n, <1>t
      <4>q. QED BY <4>2, <4>3
    <3>q. QED BY <3>2, <3>3
  <2>q. QED BY <2>3, <2>4, <2>5 DEF Linked
<1>7. Tiled(g)
  <2>1. /\ h.data[Base] = Lo
        /\ \A d \in Live(h) :
              /\ 0 < h.size[d] /\ Lo <= h.data[d] /\ h.data[d] + h.size[d] <= End
              /\ h.next[d] # Null => h.data[h.next[d]] = h.data[d] + h.size[d]
              /\ h.next[d] = Null => h.data[d] + h.size[d] = End
    BY <1>2 DEF Tiled
  <2>2. \A d, e \in Live(h) :
           d # e => h.data[d] + h.size[d] <= h.data[e] \/ h.data[e] + h.size[e] <= h.data[d]
    BY <1>2 DEF Tiled
  <2>3. \A a \in Lo..(End - 1) : \E d \in Live(h) : h.data[d] <= a /\ a < h.data[d] + h.size[d]
    BY <1>2 DEF Tiled
  <2>t. /\ Lo \in Nat /\ End \in Nat
        /\ \A d \in Chunks : h.data[d] \in Nat /\ h.size[d] \in Nat
    BY <1>2, ArenaAssumption DEF HeapType
  <2>4. ASSUME NEW d \in Live(g)
        PROVE  /\ 0 < g.size[d] /\ Lo <= g.data[d] /\ g.data[d] + g.size[d] <= End
               /\ g.next[d] # Null => g.data[g.next[d]] = g.data[d] + g.size[d]
               /\ g.next[d] = Null => g.data[d] + g.size[d] = End
    <3>1. d \in Live(h) /\ d # n /\ d \in Chunks
      BY <1>4, <1>t
    <3>2. CASE d = c
      BY <3>2, <1>1, <1>3, <1>s, <1>n, <1>t, <2>1, <2>t
    <3>3. CASE d # c
      BY <3>1, <3>3, <1>3, <1>s, <1>n, <2>1
    <3>q. QED BY <3>2, <3>3
  <2>5. ASSUME NEW d \in Live(g), NEW e \in Live(g), d # e
        PROVE  g.data[d] + g.size[d] <= g.data[e] \/ g.data[e] + g.size[e] <= g.data[d]
    <3>1. /\ d \in Live(h) /\ d # n /\ d \in Chunks
          /\ e \in Live(h) /\ e # n /\ e \in Chunks
      BY <1>4, <1>t
    <3>2. CASE d = c
      BY <2>5, <3>1, <3>2, <1>1, <1>3, <1>s, <1>t, <2>1, <2>2, <2>t
    <3>3. CASE e = c
      BY <2>5, <3>1, <3>3, <1>1, <1>3, <1>s, <1>t, <2>1, <2>2, <2>t
    <3>4. CASE d # c /\ e # c
      BY <2>5, <3>1, <3>4, <1>3, <1>s, <2>2
    <3>q. QED BY <3>2, <3>3, <3>4
  <2>6. ASSUME NEW a \in Lo..(End - 1)
        PROVE  \E d \in Live(g) : g.data[d] <= a /\ a < g.data[d] + g.size[d]
    <3>1. PICK d \in Live(h) : h.data[d] <= a /\ a < h.data[d] + h.size[d]
      BY <2>3
    <3>2. CASE d = n \/ d = c
      <4>1. g.data[c] <= a /\ a < g.data[c] + g.size[c] /\ c \in Live(g)
        BY <3>1, <3>2, <1>1, <1>3, <1>4, <1>s, <1>t, <2>1, <2>t
      <4>q. QED BY <4>1
    <3>3. CASE d # n /\ d # c
      BY <3>1, <3>3, <1>3, <1>4, <1>s, <1>t
    <3>q. QED BY <3>2, <3>3
  <2>q. QED BY <1>3, <2>1, <2>4, <2>5, <2>6 DEF Tiled
<1>8. g.prev[c] = h.prev[c]
  BY <1>1, <1>t, <1>p
<1>q. QED BY <1>3, <1>4, <1>5, <1>6, <1>7, <1>8, <1>n, <1>t DEF Struct
------------------------------------------------------------------------------
(* new_chunk hands out a record that is not in the list.                   *)
LEMMA NewChunkFacts ==
  ASSUME NEW h, HeapType(h), CanMake(h)
  PROVE  LET d == NewChunk(h)
             made == IF h.pool # {} THEN h.made ELSE h.made + 1
         IN /\ d \in Chunks \ Live(h) /\ d # Base
            /\ (0..made) \ (h.pool \ {d}) = Live(h) \cup {d}
            /\ made \in Chunks
            /\ h.pool \ {d} \subseteq 1..made
<1>1. /\ h.made \in 0..MaxChunks /\ MaxChunks \in Nat
      /\ h.pool \subseteq 1..h.made
      /\ h.pool \in SUBSET (Chunks \ {Base})
  BY ChunkFacts DEF HeapType, Chunks
<1>2. CASE h.pool # {}
  <2>1. NewChunk(h) \in h.pool
    BY <1>2 DEF NewChunk
  <2>q. QED BY <1>1, <1>2, <2>1 DEF Live, Chunks
<1>3. CASE h.pool = {}
  <2>1. NewChunk(h) = h.made + 1 /\ h.made < MaxChunks
    BY <1>3 DEF NewChunk, CanMake
  <2>q. QED BY <1>1, <1>3, <2>1 DEF Live, Chunks, Base
<1>q. QED BY <1>2, <1>3

(* split_next with bytes to spare keeps the structure: the list gains one  *)
(* free chunk, after c.                                                    *)
LEMMA DivideStruct ==
  ASSUME NEW h, Struct(h), NEW c \in Live(h), NEW n \in Nat,
         0 < n, n < h.size[c], CanMake(h)
  PROVE  LET g == Divide(h, c, n)
             d == NewChunk(h)
         IN /\ Struct(g)
            /\ d \in Chunks \ Live(h) /\ Live(g) = Live(h) \cup {d}
            /\ g.next[c] = d /\ g.next[d] = h.next[c] /\ g.prev[c] = h.prev[c]
            /\ g.size[c] = n /\ g.data = Set(h.data, d, h.data[c] + n)
            /\ g.free[d] /\ \A x \in Live(h) : g.free[x] <=> h.free[x]
            /\ \A x \in Live(h) : x # c => g.next[x] = h.next[x] /\ g.size[x] = h.size[x]
<1> DEFINE d == NewChunk(h)
           e == h.next[c]
           g == Divide(h, c, n)
<1>2. HeapType(h) /\ Linked(h) /\ Tiled(h)
  BY DEF Struct
<1>1. /\ d \in Chunks \ Live(h) /\ d # Base
      /\ Live(g) = Live(h) \cup {d} /\ g.made \in Chunks
      /\ g.pool \subseteq 1..g.made /\ g.pool \in SUBSET (Chunks \ {Base})
  BY <1>2, NewChunkFacts DEF Divide, Live, HeapType
<1>e. e # Null => e \in Live(h) /\ e # c /\ e # Base /\ h.prev[e] = c
  BY SuccessorFacts
<1>t. /\ c \in Chunks /\ c # Null /\ d # Null /\ c # d /\ e # d
      /\ e \in Chunks \cup {Null}
      /\ Live(h) \subseteq Chunks
      /\ Null \notin Chunks
  BY <1>1, <1>2, <1>e, ChunkFacts DEF HeapType
<1>3. /\ g.size = Set(Set(h.size, d, h.size[c] - n), c, n)
      /\ g.next = Set(Set(h.next, d, e), c, d)
      /\ g.prev = Set(Set(h.prev, e, d), d, c)
      /\ g.data = Set(h.data, d, h.data[c] + n)
      /\ g.free = [h.free EXCEPT ![d] = TRUE]
  BY DEF Divide
<1>s. /\ g.size \in [Chunks -> Nat]
      /\ g.size[c] = n /\ g.size[d] = h.size[c] - n
      /\ \A x \in Chunks : x # c /\ x # d => g.size[x] = h.size[x]
  <2>1. h.size \in [Chunks -> Nat] /\ h.size[c] - n \in Nat
    BY <1>2, <1>t DEF HeapType
  <2>q. QED BY <2>1, <1>1, <1>3, <1>t DEF Set
<1>d. /\ g.data \in [Chunks -> Nat]
      /\ g.data[d] = h.data[c] + n
      /\ \A x \in Chunks : x # d => g.data[x] = h.data[x]
  <2>1. h.data \in [Chunks -> Nat] /\ h.data[c] + n \in Nat
    BY <1>2, <1>t DEF HeapType
  <2>q. QED BY <2>1, <1>1, <1>3, <1>t DEF Set
<1>n. /\ g.next \in [Chunks -> Chunks \cup {Null}]
      /\ g.next[c] = d /\ g.next[d] = e
      /\ \A x \in Chunks : x # c /\ x # d => g.next[x] = h.next[x]
  <2>1. h.next \in [Chunks -> Chunks \cup {Null}]
    BY <1>2 DEF HeapType
  <2>q. QED BY <2>1, <1>1, <1>3, <1>t DEF Set
<1>p. /\ g.prev \in [Chunks -> Chunks \cup {Null}]
      /\ g.prev[d] = c /\ (e # Null => g.prev[e] = d)
      /\ \A x \in Chunks : x # e /\ x # d => g.prev[x] = h.prev[x]
  <2>1. h.prev \in [Chunks -> Chunks \cup {Null}]
    BY <1>2 DEF HeapType
  <2>q. QED BY <2>1, <1>1, <1>3, <1>t DEF Set
<1>f. /\ g.free \in [Chunks -> BOOLEAN] /\ g.free[d]
      /\ \A x \in Live(h) : g.free[x] <=> h.free[x]
  <2>1. h.free \in [Chunks -> BOOLEAN]
    BY <1>2 DEF HeapType
  <2>q. QED BY <2>1, <1>1, <1>3, <1>t
<1>5. HeapType(g)
  BY <1>1, <1>s, <1>d, <1>n, <1>p, <1>f DEF HeapType, Divide
<1>6. Linked(g)
  <2>1. /\ h.prev[Base] = Null
        /\ \A x \in Live(h) :
              /\ h.next[x] # Null => h.next[x] \in Live(h) /\ h.prev[h.next[x]] = x
              /\ h.prev[x] # Null => h.prev[x] \in Live(h) /\ h.next[h.prev[x]] = x
              /\ h.prev[x] = Null => x = Base
    BY <1>2 DEF Linked
  <2>2. g.prev[Base] = Null
    BY <2>1, <1>e, <1>1, <1>p, <1>t, ChunkFacts
  <2>3. ASSUME NEW x \in Live(g), g.next[x] # Null
        PROVE  g.next[x] \in Live(g) /\ g.prev[g.next[x]] = x
    <3>1. CASE x = d
      BY <3>1, <2>3, <1>1, <1>e, <1>n, <1>p
    <3>2. CASE x = c
      BY <3>2, <1>1, <1>n, <1>p
    <3>3. CASE x # d /\ x # c
      <4>1. x \in Live(h) /\ g.next[x] = h.next[x]
        BY <3>3, <1>1, <1>n, <1>t
      <4>2. h.next[x] \in Live(h) /\ h.prev[h.next[x]] = x
        BY <4>1, <2>1, <2>3
      <4>3. h.next[x] # e /\ h.next[x] # d
        BY <4>1, <4>2, <2>3, <3>3, <1>1, <1>e
      <4>q. QED BY <4>1, <4>2, <4>3, <1>1, <1>p, <1>t
    <3>q. QED BY <3>1, <3>2, <3>3
  <2>4. ASSUME NEW x \in Live(g)
        PROVE  /\ g.prev[x] # Null => g.prev[x] \in Live(g) /\ g.next[g.prev[x]] = x
               /\ g.prev[x] = Null => x = Base
    <3>1. CASE x = d
      BY <3>1, <1>1, <1>n, <1>p, <1>t
    <3>2. CASE x = e
      BY <3>2, <1>1, <1>n, <1>p, <1>t, <2>4
    <3>3. CASE x # d /\ x # e
      <4>1. x \in Live(h) /\ g.prev[x] = h.prev[x]
        BY <3>3, <1>1, <1>p, <1>t
      <4>2. CASE h.prev[x] = Null
        BY <4>1, <4>2, <2>1
      <4>3. CASE h.prev[x] # Null
        <5>1. h.prev[x] \in Live(h) /\ h.next[h.prev[x]] = x
          BY <4>3, <4>1, <2>1
        <5>2. h.prev[x] # d /\ h.prev[x] # c
          BY <5>1, <3>3, <1>1
        <5>q. QED BY <4>1, <4>3, <5>1, <5>2, <1>1, <1>n, <1>t
      <4>q. QED BY <4>2, <4>3
    <3>q. QED BY <3>1, <3>2, <3>3
  <2>q. QED BY <2>2, <2>3, <2>4 DEF Linked
<1>7. Tiled(g)
  <2>1. /\ h.data[Base] = Lo
        /\ \A x \in Live(h) :
              /\ 0 < h.size[x] /\ Lo <= h.data[x] /\ h.data[x] + h.size[x] <= End
              /\ h.next[x] # Null => h.data[h.next[x]] = h.data[x] + h.size[x]
              /\ h.next[x] = Null => h.data[x] + h.size[x] = End
    BY <1>2 DEF Tiled
  <2>2. \A x, y \in Live(h) :
           x # y => h.data[x] + h.size[x] <= h.data[y] \/ h.data[y] + h.size[y] <= h.data[x]
    BY <1>2 DEF Tiled
  <2>3. \A a \in Lo..(End - 1) : \E x \in Live(h) : h.data[x] <= a /\ a < h.data[x] + h.size[x]
    BY <1>2 DEF Tiled
  <2>t. /\ Lo \in Nat /\ End \in Nat
        /\ \A x \in Chunks : h.data[x] \in Nat /\ h.size[x] \in Nat
    BY <1>2, ArenaAssumption DEF HeapType
  <2>4. ASSUME NEW x \in Live(g)
        PROVE  /\ 0 < g.size[x] /\ Lo <= g.data[x] /\ g.data[x] + g.size[x] <= End
               /\ g.next[x] # Null => g.data[g.next[x]] = g.data[x] + g.size[x]
               /\ g.next[x] = Null => g.data[x] + g.size[x] = End
    <3>1. CASE x = d
      BY <3>1, <1>1, <1>d, <1>e, <1>s, <1>n, <1>t, <2>1, <2>t
    <3>2. CASE x = c
      BY <3>2, <1>1, <1>d, <1>s, <1>n, <1>t, <2>1, <2>t
    <3>3. CASE x # d /\ x # c
      <4>1. x \in Live(h) /\ x \in Chunks
        BY <3>3, <1>1, <1>t
      <4>2. h.next[x] # Null => h.next[x] \in Live(h) /\ h.next[x] # d
        BY <4>1, <1>1, <1>2 DEF Linked
      <4>q. QED BY <3>3, <4>1, <4>2, <1>d, <1>s, <1>n, <1>t, <2>1
    <3>q. QED BY <3>1, <3>2, <3>3
  <2>5. ASSUME NEW x \in Live(h), NEW y \in Live(h), x # y
        PROVE  g.data[x] + g.size[x] <= g.data[y] \/ g.data[y] + g.size[y] <= g.data[x]
    BY <2>5, <1>1, <1>d, <1>s, <1>t, <2>1, <2>2, <2>t
  <2>6. ASSUME NEW x \in Live(h)
        PROVE  g.data[x] + g.size[x] <= g.data[d] \/ g.data[d] + g.size[d] <= g.data[x]
    <3>1. CASE x = c
      BY <3>1, <1>1, <1>d, <1>s, <1>t
    <3>2. CASE x # c
      BY <3>2, <1>1, <1>d, <1>s, <1>t, <2>1, <2>2, <2>t
    <3>q. QED BY <3>1, <3>2
  <2>7. \A x, y \in Live(g) :
           x # y => g.data[x] + g.size[x] <= g.data[y] \/ g.data[y] + g.size[y] <= g.data[x]
    BY <1>1, <2>5, <2>6
  <2>8. ASSUME NEW a \in Lo..(End - 1)
        PROVE  \E x \in Live(g) : g.data[x] <= a /\ a < g.data[x] + g.size[x]
    <3>1. PICK x \in Live(h) : h.data[x] <= a /\ a < h.data[x] + h.size[x]
      BY <2>3
    <3>2. CASE x = c
      <4>1. a < g.data[c] + g.size[c] \/ (g.data[d] <= a /\ a < g.data[d] + g.size[d])
        BY <3>1, <3>2, <1>1, <1>d, <1>s, <1>t, <2>t
      <4>2. g.data[c] <= a
        BY <3>1, <3>2, <1>d, <1>t
      <4>q. QED BY <4>1, <4>2, <1>1
    <3>3. CASE x # c
      BY <3>1, <3>3, <1>1, <1>d, <1>s, <1>t
    <3>q. QED BY <3>2, <3>3
  <2>9. g.data[Base] = Lo
    BY <2>1, <1>1, <1>d, ChunkFacts
  <2>q. QED BY <2>4, <2>7, <2>8, <2>9 DEF Tiled
<1>8. g.prev[c] = h.prev[c]
  BY <1>e, <1>p, <1>t
<1>q. QED BY <1>1, <1>3, <1>5, <1>6, <1>7, <1>8, <1>f, <1>n, <1>s, <1>t DEF Struct
------------------------------------------------------------------------------
(* The structure is a matter of the fields of the listed chunks alone.     *)
LEMMA StructAgrees ==
  ASSUME NEW h, Struct(h), NEW g, HeapType(g), Live(g) = Live(h),
         \A c \in Live(h) : /\ g.next[c] = h.next[c] /\ g.prev[c] = h.prev[c]
                            /\ g.size[c] = h.size[c] /\ g.data[c] = h.data[c]
  PROVE  Struct(g)
<1>b. Base \in Live(h)
  BY ChunkFacts DEF Struct, HeapType, Live, Base, Chunks
<1>1. Linked(g)
  BY <1>b DEF Struct, Linked
<1>2. Tiled(g)
  <2>1. \A c \in Live(g) :
           /\ 0 < g.size[c] /\ Lo <= g.data[c] /\ g.data[c] + g.size[c] <= End
           /\ g.next[c] # Null => g.data[g.next[c]] = g.data[c] + g.size[c]
           /\ g.next[c] = Null => g.data[c] + g.size[c] = End
    BY DEF Struct, Linked, Tiled
  <2>2. \A c, d \in Live(g) :
           c # d => g.data[c] + g.size[c] <= g.data[d] \/ g.data[d] + g.size[d] <= g.data[c]
    BY DEF Struct, Tiled
  <2>3. \A a \in Lo..(End - 1) : \E c \in Live(g) : g.data[c] <= a /\ a < g.data[c] + g.size[c]
    BY DEF Struct, Tiled
  <2>q. QED BY <1>b, <2>1, <2>2, <2>3 DEF Struct, Tiled
<1>q. QED BY <1>1, <1>2 DEF Struct

(* subsume_next that leaves its successor something keeps the structure:   *)
(* the border between the two moves.                                       *)
LEMMA ShiftStruct ==
  ASSUME NEW h, Struct(h), NEW c \in Live(h), h.next[c] # Null, NEW n \in Nat,
         h.size[c] < n, n < h.size[c] + h.size[h.next[c]]
  PROVE  Struct(Shift(h, c, h.next[c], n))
<1> DEFINE d == h.next[c]
           g == Shift(h, c, d, n)
<1>1. /\ d \in Live(h) /\ d # c /\ d # Base /\ h.prev[d] = c
      /\ h.data[d] = h.data[c] + h.size[c]
      /\ h.next[d] # c /\ h.next[d] # d
  BY SuccessorFacts
<1>2. HeapType(h) /\ Linked(h) /\ Tiled(h)
  BY DEF Struct
<1>t. /\ c \in Chunks /\ d \in Chunks /\ Live(h) \subseteq Chunks
      /\ \A x \in Chunks : h.data[x] \in Nat /\ h.size[x] \in Nat
      /\ Lo \in Nat /\ End \in Nat
  BY <1>1, <1>2, ChunkFacts, ArenaAssumption DEF HeapType
<1>3. g.next = h.next /\ g.prev = h.prev /\ g.free = h.free /\ g.pool = h.pool /\ g.made = h.made
  BY DEF Shift
<1>4. Live(g) = Live(h)
  BY <1>3 DEF Live
<1>s. /\ g.size \in [Chunks -> Nat]
      /\ g.size[c] = n /\ g.size[d] = h.size[d] - (n - h.size[c])
      /\ \A x \in Chunks : x # c /\ x # d => g.size[x] = h.size[x]
  <2>1. h.size \in [Chunks -> Nat] /\ h.size[d] - (n - h.size[c]) \in Nat
    BY <1>2, <1>t DEF HeapType
  <2>q. QED BY <2>1, <1>1, <1>t DEF Set, Shift
<1>d. /\ g.data \in [Chunks -> Nat]
      /\ g.data[d] = h.data[c] + n
      /\ \A x \in Chunks : x # d => g.data[x] = h.data[x]
  <2>1. h.data \in [Chunks -> Nat] /\ h.data[d] + (n - h.size[c]) \in Nat
        /\ h.data[d] + (n - h.size[c]) = h.data[c] + n
    BY <1>1, <1>2, <1>t DEF HeapType
  <2>q. QED BY <2>1, <1>1, <1>t DEF Set, Shift
<1>5. HeapType(g)
  BY <1>2, <1>3, <1>s, <1>d DEF HeapType, Shift
<1>6. Linked(g)
  BY <1>2, <1>3, <1>4 DEF Linked
<1>7. Tiled(g)
  <2>1. /\ h.data[Base] = Lo
        /\ \A x \in Live(h) :
              /\ 0 < h.size[x] /\ Lo <= h.data[x] /\ h.data[x] + h.size[x] <= End
              /\ h.next[x] # Null => h.data[h.next[x]] = h.data[x] + h.size[x]
              /\ h.next[x] = Null => h.data[x] + h.size[x] = End
    BY <1>2 DEF Tiled
  <2>2. \A x, y \in Live(h) :
           x # y => h.data[x] + h.size[x] <= h.data[y] \/ h.data[y] + h.size[y] <= h.data[x]
    BY <1>2 DEF Tiled
  <2>3. \A a \in Lo..(End - 1) : \E x \in Live(h) : h.data[x] <= a /\ a < h.data[x] + h.size[x]
    BY <1>2 DEF Tiled
  <2>4. ASSUME NEW x \in Live(h)
        PROVE  /\ 0 < g.size[x] /\ Lo <= g.data[x] /\ g.data[x] + g.size[x] <= End
               /\ h.next[x] # Null => g.data[h.next[x]] = g.data[x] + g.size[x]
               /\ h.next[x] = Null => g.data[x] + g.size[x] = End
    <3>1. CASE x = c
      BY <3>1, <1>1, <1>d, <1>s, <1>t, <2>1
    <3>2. CASE x = d
      <4>1. h.next[d] # Null => h.next[d] \in Live(h)
        BY <1>1, <1>2 DEF Linked
      <4>q. QED BY <3>2, <4>1, <1>1, <1>d, <1>s, <1>t, <2>1
    <3>3. CASE x # c /\ x # d
      <4>1. h.next[x] # Null => h.next[x] \in Live(h) /\ h.next[x] # d
        BY <3>3, <1>1, <1>2 DEF Linked
      <4>q. QED BY <3>3, <4>1, <1>d, <1>s, <1>t, <2>1
    <3>q. QED BY <3>1, <3>2, <3>3
  <2>5. ASSUME NEW x \in Live(h), NEW y \in Live(h), x # y
        PROVE  g.data[x] + g.size[x] <= g.data[y] \/ g.data[y] + g.size[y] <= g.data[x]
    <3>1. CASE x = c
      BY <2>5, <3>1, <1>1, <1>d, <1>s, <1>t, <2>1, <2>2
    <3>2. CASE x = d
      BY <2>5, <3>2, <1>1, <1>d, <1>s, <1>t, <2>1, <2>2
    <3>3. CASE x # c /\ x # d
      <4>1. y \in {c, d} => h.data[x] + h.size[x] <= h.data[c]
                            \/ h.data[d] + h.size[d] <= h.data[x]
        BY <3>3, <1>1, <1>t, <2>1, <2>2
      <4>q. QED BY <2>5, <3>3, <4>1, <1>1, <1>d, <1>s, <1>t, <2>2
    <3>q. QED BY <3>1, <3>2, <3>3
  <2>6. ASSUME NEW a \in Lo..(End - 1)
        PROVE  \E x \in Live(h) : g.data[x] <= a /\ a < g.data[x] + g.size[x]
    <3>1. PICK x \in Live(h) : h.data[x] <= a /\ a < h.data[x] + h.size[x]
      BY <2>3
    <3>2. CASE x \in {c, d}
      <4>1. \/ g.data[c] <= a /\ a < g.data[c] + g.size[c]
            \/ g.data[d] <= a /\ a < g.data[d] + g.size[d]
        BY <3>1, <3>2, <1>1, <1>d, <1>s, <1>t
      <4>q. QED BY <4>1, <1>1
    <3>3. CASE x \notin {c, d}
      BY <3>1, <3>3, <1>d, <1>s, <1>t
    <3>q. QED BY <3>2, <3>3
  <2>7. g.data[Base] = Lo
    BY <2>1, <1>1, <1>d, ChunkFacts
  <2>q. QED BY <1>3, <1>4, <2>4, <2>5, <2>6, <2>7 DEF Tiled
<1>q. QED BY <1>5, <1>6, <1>7 DEF Struct
------------------------------------------------------------------------------
(* The flag of a chunk is no part of the structure.                        *)
LEMMA MarkFreeStruct ==
  ASSUME NEW h, Struct(h), NEW c \in Live(h)
  PROVE  LET g == MarkFree(h, c)
         IN /\ Struct(g) /\ Live(g) = Live(h) /\ g.next = h.next
            /\ g.free[c]
            /\ \A d \in Live(h) : d # c => (g.free[d] <=> h.free[d])
<1> DEFINE g == MarkFree(h, c)
<1>1. /\ g.next = h.next /\ g.prev = h.prev /\ g.size = h.size /\ g.data = h.data
      /\ g.pool = h.pool /\ g.made = h.made /\ g.free = [h.free EXCEPT ![c] = TRUE]
  BY DEF MarkFree
<1>2. h.free \in [Chunks -> BOOLEAN] /\ c \in Chunks /\ Live(h) \subseteq Chunks
  BY ChunkFacts DEF Struct, HeapType
<1>3. /\ g.free \in [Chunks -> BOOLEAN] /\ g.free[c]
      /\ \A d \in Live(h) : d # c => (g.free[d] <=> h.free[d])
  BY <1>1, <1>2
<1>4. HeapType(g) /\ Live(g) = Live(h)
  BY <1>1, <1>3 DEF Struct, HeapType, MarkFree, Live
<1>q. QED BY <1>1, <1>3, <1>4, StructAgrees

LEMMA MarkUsedStruct ==
  ASSUME NEW h, Struct(h), NEW c \in Live(h)
  PROVE  LET g == MarkUsed(h, c)
         IN /\ Struct(g) /\ Live(g) = Live(h) /\ g.next = h.next
            /\ ~ g.free[c]
            /\ \A d \in Live(h) : d # c => (g.free[d] <=> h.free[d])
<1> DEFINE g == MarkUsed(h, c)
<1>1. /\ g.next = h.next /\ g.prev = h.prev /\ g.size = h.size /\ g.data = h.data
      /\ g.pool = h.pool /\ g.made = h.made /\ g.free = [h.free EXCEPT ![c] = FALSE]
  BY DEF MarkUsed
<1>2. h.free \in [Chunks -> BOOLEAN] /\ c \in Chunks /\ Live(h) \subseteq Chunks
  BY ChunkFacts DEF Struct, HeapType
<1>3. /\ g.free \in [Chunks -> BOOLEAN] /\ ~ g.free[c]
      /\ \A d \in Live(h) : d # c => (g.free[d] <=> h.free[d])
  BY <1>1, <1>2
<1>4. HeapType(g) /\ Live(g) = Live(h)
  BY <1>1, <1>3 DEF Struct, HeapType, MarkUsed, Live
<1>q. QED BY <1>1, <1>3, <1>4, StructAgrees

(* subsume_next keeps the heap well formed when a block in use grows into  *)
(* the free chunk after it.                                                *)
LEMMA SubsumeWf ==
  ASSUME NEW h, Wf(h), NEW c \in Live(h), ~ h.free[c], IsFree(h, h.next[c]),
         NEW n \in Nat, h.size[c] < n, n <= h.size[c] + h.size[h.next[c]]
  PROVE  Wf(SubsumeNext(h, c, n))
<1> DEFINE d == h.next[c]
           g == SubsumeNext(h, c, n)
           s == Shift(h, c, d, n)
<1>1. /\ d # Null /\ h.free[d] /\ Struct(h) /\ HeapType(h) /\ Coalesced(h)
      /\ d \in Live(h) /\ d # c
      /\ c \in Chunks /\ d \in Chunks /\ Live(h) \subseteq Chunks
      /\ \A x \in Chunks : h.size[x] \in Nat /\ h.data[x] \in Nat
  BY SuccessorFacts, ChunkFacts DEF IsFree, Wf, Struct, HeapType
<1>2. /\ s.size[d] = h.size[d] - (n - h.size[c]) /\ s.size[c] = n
      /\ \A x \in Chunks : x # c /\ x # d => s.size[x] = h.size[x]
      /\ \A x \in Chunks : x # d => s.data[x] = h.data[x]
      /\ s.size \in [Chunks -> Nat] /\ s.data \in [Chunks -> Nat]
      /\ s.next = h.next /\ s.prev = h.prev /\ s.free = h.free
      /\ s.pool = h.pool /\ s.made = h.made
  <2>1. h.size[d] - (n - h.size[c]) \in Nat /\ h.data[d] + (n - h.size[c]) \in Nat
    BY <1>1
  <2>q. QED BY <1>1, <2>1 DEF Shift, Set, HeapType
<1>3. CASE n < h.size[c] + h.size[d]
  <2>1. g = s
    BY <1>1, <1>2, <1>3 DEF SubsumeNext
  <2>2. Struct(s)
    BY <1>1, <1>3, ShiftStruct
  <2>3. Coalesced(s)
    BY <1>1, <1>2 DEF Coalesced, IsFree, Live
  <2>q. QED BY <2>1, <2>2, <2>3 DEF Wf
<1>4. CASE n = h.size[c] + h.size[d]
  <2> DEFINE m == MergeNext(h, c)
  <2>1. /\ Struct(m) /\ Live(m) = Live(h) \ {d} /\ m.next[c] = h.next[d] /\ m.free = h.free
        /\ \A x \in Live(m) : x # c => m.next[x] = h.next[x]
    BY <1>1, MergeStruct
  <2>2. /\ m.size = Set(h.size, c, n) /\ m.data = h.data
        /\ m.next = Set(h.next, c, h.next[d]) /\ m.prev = Set(h.prev, h.next[d], c)
        /\ m.pool = h.pool \cup {d} /\ m.made = h.made
    BY <1>4 DEF MergeNext
  <2>3. s.size[d] = 0
    <3>1. h.size[c] \in Nat /\ h.size[d] \in Nat
      BY <1>1
    <3>2. s.size[d] = h.size[d] - (n - h.size[c])
      BY <1>2
    <3> HIDE DEF d, g, s, m
    <3>q. QED BY <3>1, <3>2, <1>4
  <2>4. g = [next |-> Set(s.next, c, s.next[d]), prev |-> Set(s.prev, s.next[d], c),
             size |-> s.size, free |-> s.free, data |-> s.data,
             pool |-> s.pool \cup {d}, made |-> s.made]
    BY <1>1, <1>4, <2>3 DEF SubsumeNext
  <2>5. /\ g.next = m.next /\ g.prev = m.prev /\ g.size = s.size /\ g.data = s.data
        /\ g.free = h.free /\ g.pool = m.pool /\ g.made = m.made
    BY <1>2, <2>2, <2>4
  <2>6. Live(g) = Live(m)
    BY <2>5 DEF Live
  <2>7. HeapType(g)
    BY <1>1, <1>2, <2>1, <2>4, <2>5 DEF Struct, HeapType
  <2>8. \A x \in Live(m) : g.size[x] = m.size[x] /\ g.data[x] = m.data[x]
    BY <1>1, <1>2, <2>1, <2>2, <2>5 DEF Set, HeapType
  <2>9. Struct(g)
    BY <2>1, <2>5, <2>6, <2>7, <2>8, StructAgrees
  <2>10. Coalesced(g)
    BY <1>1, <2>1, <2>5, <2>6 DEF Coalesced, IsFree
  <2>q. QED BY <2>9, <2>10 DEF Wf
<1>q. QED BY <1>1, <1>3, <1>4

(* malloc keeps the heap well formed.  The exact fit finds no free         *)
(* neighbour, because there is none: Unlink is the identity here.          *)
LEMMA TakeWf ==
  ASSUME NEW h, Wf(h), NEW n \in Nat, 0 < n, NEW c \in Fits(h, n),
         NeedsChunk(h, c, n) => CanMake(h)
  PROVE  Wf(Take(h, c, n))
<1>1. /\ c \in Live(h) /\ h.free[c] /\ n <= h.size[c]
      /\ Struct(h) /\ Coalesced(h) /\ HeapType(h) /\ Linked(h)
      /\ c \in Chunks /\ Live(h) \subseteq Chunks /\ h.size[c] \in Nat
  BY ChunkFacts DEF Fits, Wf, Struct, HeapType
<1>2. ~ IsFree(h, h.next[c])
  BY <1>1 DEF Coalesced
<1>3. ~ IsFree(h, h.prev[c])
  BY <1>1, ChunkFacts DEF Coalesced, Linked, IsFree
<1>4. CASE NeedsChunk(h, c, n)
  <2> DEFINE d == NewChunk(h)
             g == Divide(h, c, n)
             t == MarkUsed(g, c)
  <2>1. /\ Struct(g) /\ d \in Chunks \ Live(h) /\ Live(g) = Live(h) \cup {d}
        /\ g.next[c] = d /\ g.next[d] = h.next[c]
        /\ g.free[d] /\ \A x \in Live(h) : g.free[x] <=> h.free[x]
        /\ \A x \in Live(h) : x # c => g.next[x] = h.next[x]
    <3>1. n < h.size[c] /\ CanMake(h)
      BY <1>1, <1>4 DEF NeedsChunk
    <3>q. QED BY <3>1, <1>1, DivideStruct
  <2>2. \A x \in Live(h) : g.free[x] <=> h.free[x]
    BY <2>1
  <2>3. /\ Struct(t) /\ Live(t) = Live(g) /\ t.next = g.next /\ ~ t.free[c]
        /\ \A x \in Live(g) : x # c => (t.free[x] <=> g.free[x])
    BY <1>1, <2>1, MarkUsedStruct
  <2>4. ASSUME NEW x \in Live(t), t.free[x]
        PROVE  ~ IsFree(t, t.next[x])
    <3>1. x # c /\ x \in Live(g)
      BY <2>3, <2>4
    <3>2. CASE x = d
      <4>1. h.next[c] # Null => h.next[c] \in Live(h) /\ h.next[c] # c
        BY <1>1, SuccessorFacts
      <4>2. t.next[x] = h.next[c]
        BY <3>2, <2>1, <2>3
      <4>q. QED BY <4>1, <4>2, <1>2, <2>1, <2>2, <2>3 DEF IsFree
    <3>3. CASE x # d
      <4>1. x \in Live(h) /\ t.next[x] = h.next[x] /\ h.free[x]
        BY <3>1, <3>3, <2>1, <2>2, <2>3, <2>4
      <4>2. h.next[x] # Null => h.next[x] \in Live(h)
        BY <4>1, <1>1 DEF Linked
      <4>3. ~ IsFree(h, h.next[x])
        BY <4>1, <1>1 DEF Coalesced
      <4>q. QED BY <4>1, <4>2, <4>3, <2>1, <2>2, <2>3 DEF IsFree
    <3>q. QED BY <3>2, <3>3
  <2>5. Coalesced(t)
    BY <2>4 DEF Coalesced
  <2>6. Take(h, c, n) = t
    BY <1>4 DEF Take, SplitNext
  <2>q. QED BY <2>3, <2>5, <2>6 DEF Wf
<1>5. CASE ~ NeedsChunk(h, c, n)
  <2> DEFINE t == MarkUsed(h, c)
  <2>1. Take(h, c, n) = t
    BY <1>2, <1>3, <1>5 DEF Take, SplitNext, Unlink
  <2>2. /\ Struct(t) /\ Live(t) = Live(h) /\ t.next = h.next /\ ~ t.free[c]
        /\ \A x \in Live(h) : x # c => (t.free[x] <=> h.free[x])
    BY <1>1, MarkUsedStruct
  <2>3. Coalesced(t)
    <3>1. \A x \in Live(h) : h.next[x] # Null => h.next[x] \in Live(h)
      BY <1>1 DEF Linked
    <3>q. QED BY <3>1, <2>2, <1>1 DEF Coalesced, IsFree
  <2>q. QED BY <2>1, <2>2, <2>3 DEF Wf
<1>q. QED BY <1>4, <1>5

(* malloc takes no chunk out of the list.                                  *)
LEMMA TakeKeeps ==
  ASSUME NEW h, Wf(h), NEW n \in Nat, 0 < n, NEW c \in Fits(h, n),
         NeedsChunk(h, c, n) => CanMake(h)
  PROVE  Live(h) \subseteq Live(Take(h, c, n))
<1>1. /\ c \in Live(h) /\ Struct(h) /\ Coalesced(h) /\ Linked(h) /\ HeapType(h)
      /\ h.free[c] /\ c \in Chunks /\ Null \notin Chunks
  BY ChunkFacts DEF Fits, Wf, Struct
<1>2. CASE NeedsChunk(h, c, n)
  <2>1. n < h.size[c] /\ CanMake(h)
    BY <1>1, <1>2 DEF NeedsChunk, HeapType
  <2>2. Live(Divide(h, c, n)) = Live(h) \cup {NewChunk(h)} /\ Struct(Divide(h, c, n))
    BY <1>1, <2>1, DivideStruct
  <2>3. Live(MarkUsed(Divide(h, c, n), c)) = Live(Divide(h, c, n))
    BY <1>1, <2>2, MarkUsedStruct
  <2>q. QED BY <1>2, <2>2, <2>3 DEF Take, SplitNext
<1>3. CASE ~ NeedsChunk(h, c, n)
  <2>1. ~ IsFree(h, h.next[c]) /\ ~ IsFree(h, h.prev[c])
    BY <1>1 DEF Coalesced, Linked, IsFree
  <2>2. Take(h, c, n) = MarkUsed(h, c)
    BY <1>3, <2>1 DEF Take, SplitNext, Unlink
  <2>q. QED BY <1>1, <2>2, MarkUsedStruct
<1>q. QED BY <1>2, <1>3

(* internal_free keeps the heap well formed: only the freed chunk and its  *)
(* predecessor can have a free successor after the flag is set, and the    *)
(* two merges are for exactly these.                                       *)
LEMMA InternalFreeWf ==
  ASSUME NEW h, Wf(h), NEW c \in Live(h)
  PROVE  Wf(InternalFree(h, c))
<1> DEFINE m == MarkFree(h, c)
           a == MergeAhead(m, c)
           b == MergeBehind(a, c)
<1>1. Struct(h) /\ Coalesced(h) /\ Linked(h)
  BY DEF Wf, Struct
<1>2. /\ Struct(m) /\ Live(m) = Live(h) /\ m.next = h.next /\ m.free[c]
      /\ \A x \in Live(h) : x # c => (m.free[x] <=> h.free[x])
  BY <1>1, MarkFreeStruct
<1>l. \A x \in Live(h) : h.next[x] # Null => h.next[x] \in Live(h)
  BY <1>1 DEF Linked
<1>3. \A x \in Live(m) : m.free[x] /\ x # c /\ m.next[x] # c => ~ IsFree(m, m.next[x])
  BY <1>1, <1>2, <1>l DEF Coalesced, IsFree
<1>4. /\ Struct(a) /\ c \in Live(a) /\ a.free[c] /\ ~ IsFree(a, a.next[c])
      /\ \A x \in Live(a) : a.free[x] /\ x # c /\ a.next[x] # c => ~ IsFree(a, a.next[x])
  <2>1. CASE ~ IsFree(m, m.next[c])
    BY <2>1, <1>2, <1>3 DEF MergeAhead
  <2>2. CASE IsFree(m, m.next[c])
    <3> DEFINE n == m.next[c]
    <3>1. n # Null /\ m.free[n] /\ n \in Live(m) /\ n # c /\ m.next[n] # c
      BY <2>2, <1>2, SuccessorFacts DEF IsFree
    <3>2. a = MergeNext(m, c)
      BY <2>2 DEF MergeAhead
    <3>3. /\ Struct(a) /\ Live(a) = Live(m) \ {n} /\ a.next[c] = m.next[n] /\ a.free = m.free
          /\ \A x \in Live(a) : x # c => a.next[x] = m.next[x]
      BY <1>2, <3>1, <3>2, MergeStruct
    <3>4. ~ IsFree(m, m.next[n])
      BY <3>1, <1>3
    <3>q. QED BY <3>1, <3>3, <3>4, <1>2, <1>3 DEF IsFree
  <2>q. QED BY <2>1, <2>2
<1>5. Wf(b)
  <2>1. Linked(a)
    BY <1>4 DEF Struct
  <2>2. CASE ~ IsFree(a, a.prev[c])
    <3>1. b = a
      BY <2>2 DEF MergeBehind
    <3>2. \A x \in Live(a) : a.next[x] = c => a.prev[c] = x /\ x # Null
      BY <2>1, <1>4, ChunkFacts DEF Linked, Struct
    <3>3. Coalesced(a)
      BY <3>2, <2>2, <1>4 DEF Coalesced, IsFree
    <3>q. QED BY <3>1, <3>3, <1>4 DEF Wf
  <2>3. CASE IsFree(a, a.prev[c])
    <3> DEFINE p == a.prev[c]
    <3>1. p # Null /\ a.free[p] /\ p \in Live(a) /\ a.next[p] = c /\ c # Null
      BY <2>1, <2>3, <1>4, ChunkFacts DEF IsFree, Linked, Struct
    <3>2. b = MergeNext(a, p)
      BY <2>3 DEF MergeBehind
    <3>3. /\ Struct(b) /\ Live(b) = Live(a) \ {c} /\ b.next[p] = a.next[c] /\ b.free = a.free
          /\ \A x \in Live(b) : x # p => b.next[x] = a.next[x]
      BY <1>4, <3>1, <3>2, MergeStruct
    <3>4. \A x \in Live(a) : a.next[x] = c => x = p
      BY <2>1, <3>1 DEF Linked
    <3>5. Coalesced(b)
      BY <1>4, <3>1, <3>3, <3>4 DEF Coalesced, IsFree
    <3>q. QED BY <3>3, <3>5 DEF Wf
  <2>q. QED BY <2>2, <2>3
<1>q. QED BY <1>5 DEF InternalFree
------------------------------------------------------------------------------
IInv == TypeOK /\ Wf(heap)

LEMMA InitIInv == Init => IInv
<1> SUFFICES ASSUME Init PROVE IInv
  OBVIOUS
<1>1. /\ heap.made = 0 /\ heap.pool = {} /\ Live(heap) = {Base}
      /\ heap.next[Base] = Null /\ heap.prev[Base] = Null
      /\ heap.size[Base] = End - Lo /\ heap.data[Base] = Lo
  BY ChunkFacts DEF Init, Live, Base
<1>2. HeapType(heap)
  <2>1. 0 \in Chunks /\ End - Lo \in Nat
    BY ChunkFacts, ArenaAssumption DEF Base
  <2>q. QED BY <2>1, ArenaAssumption DEF Init, HeapType
<1>3. Linked(heap) /\ Coalesced(heap)
  BY <1>1 DEF Linked, Coalesced, IsFree
<1>4. Tiled(heap)
  BY <1>1, ArenaAssumption DEF Tiled
<1>5. TypeOK
  BY <1>2 DEF Init, TypeOK
<1>q. QED BY <1>2, <1>3, <1>4, <1>5 DEF IInv, Wf, Struct

LEMMA NextIInv == IInv /\ [Next]_vars => IInv'
<1> SUFFICES ASSUME IInv, [Next]_vars PROVE IInv'
  OBVIOUS
<1> DEFINE ReplyType == [call : {"none", "malloc", "realloc", "free"}, want : Nat, ret : Int,
                         copy : Nat, threw : BOOLEAN]
<1>1. Wf(heap) /\ HeapType(heap) /\ allocs \in Nat /\ frees \in Nat /\ reply \in ReplyType
  BY DEF IInv, TypeOK
<1>2. ASSUME Wf(heap'), allocs' \in Nat, frees' \in Nat, reply' \in ReplyType
      PROVE  IInv'
  BY <1>2 DEF IInv, TypeOK, Wf, Struct
<1>r. Requests \subseteq Nat /\ Pointers \subseteq Nat
  BY ArenaAssumption
<1>v. \A c \in Live(heap) : heap.data[c] \in Int /\ heap.size[c] \in Nat
  BY <1>1, ChunkFacts DEF HeapType
<1>3. ASSUME NEW call \in {"malloc", "realloc"}, NEW n \in Requests, Malloc(call, n)
      PROVE  IInv'
  <2> DEFINE m == FixupSize(n)
             c == FindFree(heap, m)
  <2>1. m \in Nat /\ 0 < m /\ allocs' \in Nat /\ frees' \in Nat /\ n \in Nat
    BY <1>1, <1>3, <1>r, FixupPositive DEF Malloc, CountAlloc
  <2>2. CASE MallocFails(call, n)
    <3>1. reply' \in ReplyType
      BY <2>1, <2>2 DEF MallocFails, Answer
    <3>q. QED BY <1>1, <1>2, <2>1, <2>2, <3>1 DEF MallocFails
  <2>3. CASE MallocThrows(call, n)
    <3>1. reply' \in ReplyType
      BY <2>1, <2>3 DEF MallocThrows, Answer
    <3>q. QED BY <1>1, <1>2, <2>1, <2>3, <3>1 DEF MallocThrows
  <2>4. CASE MallocTakes(call, n)
    <3>1. c \in Fits(heap, m) /\ (NeedsChunk(heap, c, m) => CanMake(heap))
      BY <1>1, <2>1, <2>4, FindFreeFits DEF MallocTakes
    <3>2. heap' = Take(heap, c, m) /\ Answer(call, n, heap.data[c], 0, FALSE)
      BY <2>4 DEF MallocTakes
    <3>3. Wf(heap')
      BY <1>1, <2>1, <3>1, <3>2, TakeWf
    <3>4. reply' \in ReplyType
      <4>1. heap.data[c] \in Int
        BY <1>v, <3>1 DEF Fits
      <4>q. QED BY <2>1, <3>2, <4>1 DEF Answer
    <3>q. QED BY <1>2, <2>1, <3>3, <3>4
  <2>q. QED BY <1>3, <2>2, <2>3, <2>4 DEF Malloc
<1>4. ASSUME NEW p \in Pointers, NEW n \in Requests, ReallocUnknown(p, n)
      PROVE  IInv'
  <2>1. reply' \in ReplyType
    BY <1>4, <1>r DEF ReallocUnknown, Answer
  <2>q. QED BY <1>1, <1>2, <1>4, <2>1 DEF ReallocUnknown
<1>5. ASSUME NEW p \in Pointers, NEW n \in Requests, ReallocInPlace(p, n)
      PROVE  IInv'
  <2> DEFINE c == FindUsed(heap, p)
  <2>1. At(heap, p) # {} /\ Answer("realloc", n, p, 0, FALSE) /\ UNCHANGED <<allocs, frees>>
    BY <1>5 DEF ReallocInPlace
  <2>2. c \in Live(heap) /\ ~ heap.free[c]
    BY <2>1, FindUsedUsed
  <2>3. FixupSize(n) \in Nat
    BY <1>r, FixupPositive
  <2>4. Wf(heap')
    <3>1. CASE UNCHANGED heap
      BY <1>1, <3>1
    <3>2. CASE /\ heap.size[c] < FixupSize(n)
               /\ IsFree(heap, heap.next[c])
               /\ heap.size[c] + heap.size[heap.next[c]] >= FixupSize(n)
               /\ heap' = SubsumeNext(heap, c, FixupSize(n))
      <4>1. heap.next[c] \in Live(heap)
        BY <1>1, <2>2, <3>2, SuccessorFacts DEF IsFree, Wf
      <4>2. FixupSize(n) <= heap.size[c] + heap.size[heap.next[c]]
        BY <1>v, <2>2, <2>3, <3>2, <4>1
      <4>q. QED BY <1>1, <2>2, <2>3, <3>2, <4>2, SubsumeWf
    <3>q. QED BY <1>5, <3>1, <3>2 DEF ReallocInPlace
  <2>5. reply' \in ReplyType
    BY <1>r, <2>1 DEF Answer
  <2>q. QED BY <1>1, <1>2, <2>1, <2>4, <2>5
<1>6. ASSUME NEW p \in Pointers, NEW n \in Requests, ReallocMoves(p, n)
      PROVE  IInv'
  <2> DEFINE c == FindUsed(heap, p)
             m == FixupSize(FixupSize(n))
             d == FindFree(heap, m)
  <2>1. m \in Nat /\ 0 < m /\ n \in Nat /\ allocs' \in Nat
    BY <1>1, <1>6, <1>r, FixupPositive DEF ReallocMoves, CountAlloc
  <2>2. c \in Live(heap) /\ ~ heap.free[c]
    BY <1>6, FindUsedUsed DEF ReallocMoves, MustMove
  <2>3. CASE Answer("realloc", n, 0, 0, FALSE) /\ UNCHANGED <<heap, frees>>
    <3>1. reply' \in ReplyType
      BY <2>1, <2>3 DEF Answer
    <3>q. QED BY <1>1, <1>2, <2>1, <2>3, <3>1
  <2>4. CASE Answer("realloc", n, 0, 0, TRUE) /\ UNCHANGED <<heap, frees>>
    <3>1. reply' \in ReplyType
      BY <2>1, <2>4 DEF Answer
    <3>q. QED BY <1>1, <1>2, <2>1, <2>4, <3>1
  <2>5. CASE /\ Fits(heap, m) # {} /\ (NeedsChunk(heap, d, m) => CanMake(heap))
             /\ heap' = InternalFree(Take(heap, d, m), c)
             /\ frees' = frees + 1
             /\ Answer("realloc", n, heap.data[d], heap.size[c], FALSE)
    <3>1. d \in Fits(heap, m) /\ d \in Live(heap)
      <4>1. d \in Fits(heap, m)
        BY <1>1, <2>1, <2>5, FindFreeFits
      <4>q. QED BY <4>1 DEF Fits
    <3>2. Wf(Take(heap, d, m))
      BY <1>1, <2>1, <2>5, <3>1, TakeWf
    <3>3. c \in Live(Take(heap, d, m))
      BY <1>1, <2>1, <2>2, <2>5, <3>1, TakeKeeps
    <3>4. Wf(heap')
      BY <2>5, <3>2, <3>3, InternalFreeWf
    <3>5. reply' \in ReplyType
      BY <1>v, <2>1, <2>2, <2>5, <3>1 DEF Answer
    <3>q. QED BY <1>1, <1>2, <2>1, <2>5, <3>4, <3>5
  <2>q. QED BY <1>6, <2>3, <2>4, <2>5 DEF ReallocMoves
<1>7. ASSUME NEW p \in Pointers, Free(p)
      PROVE  IInv'
  <2>1. CASE At(heap, p) = {} /\ Answer("free", p, -1, 0, FALSE) /\ UNCHANGED <<heap, allocs, frees>>
    <3>1. reply' \in ReplyType
      BY <1>r, <2>1 DEF Answer
    <3>q. QED BY <1>1, <1>2, <2>1, <3>1
  <2>2. CASE /\ At(heap, p) # {} /\ heap' = InternalFree(heap, FindUsed(heap, p))
             /\ frees' = frees + 1 /\ Answer("free", p, 0, 0, FALSE) /\ UNCHANGED allocs
    <3>1. reply' \in ReplyType
      BY <1>r, <2>2 DEF Answer
    <3>2. Wf(heap')
      BY <1>1, <2>2, FindUsedUsed, InternalFreeWf
    <3>q. QED BY <1>1, <1>2, <2>2, <3>1, <3>2
  <2>q. QED BY <1>7, <2>1, <2>2 DEF Free
<1>8. CASE UNCHANGED vars
  BY <1>8 DEF vars, IInv, TypeOK
<1>q. QED BY <1>3, <1>4, <1>5, <1>6, <1>7, <1>8 DEF Next

(* The state has its type for every arena and every sequence of calls.     *)
THEOREM TypeCorrect == Spec => []TypeOK
<1>1. IInv => TypeOK
  BY DEF IInv
<1>q. QED BY <1>1, InitIInv, NextIInv, PTL DEF Spec

(* The list stays linked both ways and tiles the arena.                    *)
THEOREM TilingCorrect == Spec => []HeapTiled
<1>1. IInv => HeapTiled
  BY DEF IInv, HeapTiled, Wf, Struct
<1>q. QED BY <1>1, InitIInv, NextIInv, PTL DEF Spec

(* Free space is never fragmented into neighbouring free chunks.           *)
THEOREM CoalescingCorrect == Spec => []NoFreeNeighbours
<1>1. IInv => NoFreeNeighbours
  BY DEF IInv, NoFreeNeighbours, Wf
<1>q. QED BY <1>1, InitIInv, NextIInv, PTL DEF Spec

-----------------------------------------------------------------------------
(***************************************************************************)
(* What the chunk list of native/heap.hpp does to the blocks its callers   *)
(* own: every operation changes the block it is about and no other, blocks *)
(* are aligned and long enough, and a request is refused only when no free *)
(* bytes are in a row.  With that the heap implements Allocator.           *)
(***************************************************************************)

(* A request within 16 bytes of 2^64 wraps when it is rounded up           *)
(* (heap.hpp:101); every smaller one is rounded as Allocator says.         *)
Sane == Requests \subseteq 0..(SizeMod - 16)

Aligned(h)    == \A c \in Live(h) : h.data[c] % 16 = 0
Same(h, g, S) == \A c \in S : g.data[c] = h.data[c] /\ g.size[c] = h.size[c]
Block(h, c)   == [addr |-> h.data[c], len |-> h.size[c]]
BlocksOf(h)   == {Block(h, c) : c \in Used(h)}
------------------------------------------------------------------------------
LEMMA FixupRounds ==
  ASSUME Sane, NEW n \in Requests
  PROVE  /\ n \in Nat /\ FixupSize(n) = Promise!RoundUp(n) /\ n <= FixupSize(n)
         /\ FixupSize(FixupSize(n)) = FixupSize(n)
<1>1. /\ n \in Nat /\ n + 15 < SizeMod
      /\ SizeMod \in Nat /\ SizeMod % 16 = 0 /\ 17 <= SizeMod
  BY ArenaAssumption DEF Sane
<1>2. ASSUME NEW k \in Nat, k + 15 < SizeMod
      PROVE  /\ WordAlign(k) = (k + 15) - ((k + 15) % 16)
             /\ WordAlign(k) = ((k + 15) \div 16) * 16
  <2>1. (k + 15) % SizeMod = k + 15
    BY <1>1, <1>2
  <2>q. QED BY <2>1 DEF WordAlign
<1>3. /\ WordAlign(n) = ((n + 15) \div 16) * 16 /\ n <= WordAlign(n)
      /\ n = 0 => WordAlign(n) = 0
      /\ n # 0 => 16 <= WordAlign(n)
      /\ WordAlign(n) \in Nat /\ WordAlign(n) % 16 = 0
  BY <1>1, <1>2
<1>4. FixupSize(n) = Promise!RoundUp(n) /\ n <= FixupSize(n)
  BY <1>1, <1>3 DEF FixupSize, Promise!RoundUp
<1>5. FixupSize(FixupSize(n)) = FixupSize(n)
  <2> DEFINE m == FixupSize(n)
  <2>1. m \in Nat /\ m % 16 = 0 /\ 16 <= m
    BY <1>1, FixupPositive
  <2>2. m < SizeMod
    <3>1. WordAlign(n) <= n + 15
      BY <1>1, <1>2
    <3>q. QED BY <1>1, <1>3, <3>1 DEF FixupSize
  <2>3. m + 15 < SizeMod
    BY <1>1, <2>1, <2>2
  <2>4. WordAlign(m) = (m + 15) - ((m + 15) % 16)
    BY <1>2, <2>1, <2>3
  <2>5. (m + 15) % 16 = 15
    BY <2>1
  <2>6. WordAlign(m) = m
    BY <2>1, <2>4, <2>5
  <2> HIDE DEF m
  <2>7. FixupSize(m) = m
    BY <2>1, <2>6 DEF FixupSize
  <2>q. QED BY <2>7 DEF m
<1> QED BY <1>1, <1>4, <1>5
------------------------------------------------------------------------------
(* Merging two free chunks touches no block.                               *)
LEMMA MergeEffect ==
  ASSUME NEW h, Struct(h), NEW c \in Live(h), h.free[c], IsFree(h, h.next[c])
  PROVE  LET g == MergeNext(h, c)
         IN /\ Used(g) = Used(h) /\ Same(h, g, Used(h))
            /\ Aligned(h) => Aligned(g)
<1> DEFINE g == MergeNext(h, c)
<1>1. /\ HeapType(h) /\ c \in Chunks /\ Live(h) \subseteq Chunks
      /\ h.next[c] # Null /\ h.free[h.next[c]] /\ h.next[c] \in Live(h)
  BY ChunkFacts, SuccessorFacts DEF Struct, IsFree
<1>2. Live(g) = Live(h) \ {h.next[c]} /\ g.free = h.free
  BY <1>1, MergeStruct
<1>3. /\ g.data = h.data
      /\ g.size = Set(h.size, c, h.size[c] + h.size[h.next[c]])
  BY DEF MergeNext
<1>4. \A x \in Chunks : x # c => g.size[x] = h.size[x]
  BY <1>1, <1>3 DEF Set, HeapType
<1>5. Used(g) = Used(h)
  BY <1>1, <1>2 DEF Used
<1> QED BY <1>1, <1>2, <1>3, <1>4, <1>5 DEF Used, Same, Aligned

LEMMA MarkFreeEffect ==
  ASSUME NEW h, Struct(h), NEW c \in Live(h)
  PROVE  LET g == MarkFree(h, c)
         IN /\ Used(g) = Used(h) \ {c} /\ Same(h, g, Live(h))
            /\ Aligned(h) => Aligned(g)
<1> DEFINE g == MarkFree(h, c)
<1>1. Live(g) = Live(h) /\ g.free[c] /\ \A d \in Live(h) : d # c => (g.free[d] <=> h.free[d])
  BY MarkFreeStruct
<1>2. g.data = h.data /\ g.size = h.size
  BY DEF MarkFree
<1> QED BY <1>1, <1>2 DEF Used, Same, Aligned

LEMMA MarkUsedEffect ==
  ASSUME NEW h, Struct(h), NEW c \in Live(h)
  PROVE  LET g == MarkUsed(h, c)
         IN /\ Used(g) = Used(h) \cup {c} /\ Same(h, g, Live(h))
            /\ Aligned(h) => Aligned(g)
<1> DEFINE g == MarkUsed(h, c)
<1>1. Live(g) = Live(h) /\ ~ g.free[c] /\ \A d \in Live(h) : d # c => (g.free[d] <=> h.free[d])
  BY MarkUsedStruct
<1>2. g.data = h.data /\ g.size = h.size
  BY DEF MarkUsed
<1> QED BY <1>1, <1>2 DEF Used, Same, Aligned

(* free gives up one block and touches no other.                           *)
LEMMA FreeEffect ==
  ASSUME NEW h, Struct(h), NEW c \in Live(h)
  PROVE  LET g == InternalFree(h, c)
         IN /\ Used(g) = Used(h) \ {c} /\ Same(h, g, Used(g))
            /\ Aligned(h) => Aligned(g)
<1> DEFINE m == MarkFree(h, c)
           a == MergeAhead(m, c)
           b == MergeBehind(a, c)
<1>1. /\ Struct(m) /\ Live(m) = Live(h) /\ m.free[c] /\ c \in Live(m)
      /\ Used(m) = Used(h) \ {c} /\ Same(h, m, Used(m))
      /\ Aligned(h) => Aligned(m)
  <2>1. Used(m) \subseteq Live(h)
    BY MarkFreeStruct DEF Used
  <2>2. Used(m) = Used(h) \ {c} /\ Same(h, m, Live(h)) /\ (Aligned(h) => Aligned(m))
    BY MarkFreeEffect
  <2>3. Struct(m) /\ Live(m) = Live(h) /\ m.free[c]
    BY MarkFreeStruct
  <2>q. QED BY <2>1, <2>2, <2>3 DEF Same
<1>2. /\ Struct(a) /\ c \in Live(a) /\ a.free[c]
      /\ Used(a) = Used(m) /\ Same(m, a, Used(m))
      /\ Aligned(m) => Aligned(a)
  <2>1. CASE ~ IsFree(m, m.next[c])
    BY <1>1, <2>1 DEF MergeAhead, Same
  <2>2. CASE IsFree(m, m.next[c])
    <3>1. a = MergeNext(m, c) /\ m.next[c] # Null
      BY <2>2 DEF MergeAhead, IsFree
    <3>2. m.next[c] # c
      BY <1>1, <3>1, SuccessorFacts
    <3>3. Struct(a) /\ Live(a) = Live(m) \ {m.next[c]} /\ a.free = m.free
      BY <1>1, <3>1, MergeStruct
    <3>4. Used(a) = Used(m) /\ Same(m, a, Used(m)) /\ (Aligned(m) => Aligned(a))
      BY <1>1, <2>2, <3>1, MergeEffect
    <3>q. QED BY <1>1, <3>2, <3>3, <3>4
  <2>q. QED BY <2>1, <2>2
<1>3. /\ Used(b) = Used(a) /\ Same(a, b, Used(a))
      /\ Aligned(a) => Aligned(b)
  <2>1. CASE ~ IsFree(a, a.prev[c])
    BY <2>1 DEF MergeBehind, Same
  <2>2. CASE IsFree(a, a.prev[c])
    <3> DEFINE p == a.prev[c]
    <3>1. p # Null /\ a.free[p] /\ p \in Live(a) /\ a.next[p] = c /\ c # Null
      BY <2>2, <1>2, ChunkFacts DEF IsFree, Linked, Struct
    <3>2. IsFree(a, a.next[p])
      BY <1>2, <3>1 DEF IsFree
    <3>3. b = MergeNext(a, p)
      BY <2>2 DEF MergeBehind
    <3>q. QED BY <1>2, <3>1, <3>2, <3>3, MergeEffect
  <2>q. QED BY <2>1, <2>2
<1>4. InternalFree(h, c) = b
  BY DEF InternalFree
<1> HIDE DEF m, a, b
<1> QED BY <1>1, <1>2, <1>3, <1>4 DEF Same

(* malloc makes one block, of at least n bytes, and touches no other.      *)
LEMMA TakeEffect ==
  ASSUME NEW h, Wf(h), NEW n \in Nat, 0 < n, NEW c \in Fits(h, n),
         NeedsChunk(h, c, n) => CanMake(h)
  PROVE  LET g == Take(h, c, n)
         IN /\ c \in Live(h) /\ h.free[c] /\ c \notin Used(h)
            /\ Used(g) = Used(h) \cup {c}
            /\ Same(h, g, Used(h)) /\ g.data[c] = h.data[c]
            /\ n <= g.size[c] /\ g.size[c] <= h.size[c]
            /\ Aligned(h) /\ n % 16 = 0 => Aligned(g)
<1>1. /\ c \in Live(h) /\ Struct(h) /\ Coalesced(h) /\ Linked(h) /\ HeapType(h)
      /\ h.free[c] /\ c \in Chunks /\ Null \notin Chunks /\ Live(h) \subseteq Chunks
      /\ h.size[c] >= n /\ h.size[c] \in Nat
  BY ChunkFacts DEF Fits, Wf, Struct, HeapType
<1>2. CASE NeedsChunk(h, c, n)
  <2> DEFINE d == NewChunk(h)
             g == Divide(h, c, n)
  <2>1. n < h.size[c] /\ CanMake(h)
    BY <1>1, <1>2 DEF NeedsChunk
  <2>2. /\ Struct(g) /\ d \in Chunks \ Live(h) /\ Live(g) = Live(h) \cup {d}
        /\ g.size[c] = n /\ g.data = Set(h.data, d, h.data[c] + n)
        /\ g.free[d] /\ \A x \in Live(h) : g.free[x] <=> h.free[x]
        /\ \A x \in Live(h) : x # c => g.size[x] = h.size[x]
    BY <1>1, <2>1, DivideStruct
  <2>3. /\ g.data[d] = h.data[c] + n /\ h.data[c] \in Nat
        /\ \A x \in Live(h) : g.data[x] = h.data[x]
    BY <1>1, <2>2 DEF Set, HeapType
  <2>4. Used(g) = Used(h) /\ Same(h, g, Used(h))
    BY <1>1, <2>2, <2>3 DEF Used, Same
  <2>5. Aligned(h) /\ n % 16 = 0 => Aligned(g)
    <3>1. Aligned(h) /\ n % 16 = 0 => g.data[d] % 16 = 0
      BY <1>1, <2>3 DEF Aligned
    <3>q. QED BY <3>1, <2>2, <2>3 DEF Aligned
  <2>6. Take(h, c, n) = MarkUsed(g, c)
    BY <1>2 DEF Take, SplitNext
  <2>7. /\ Used(MarkUsed(g, c)) = Used(g) \cup {c} /\ Same(g, MarkUsed(g, c), Live(g))
        /\ Aligned(g) => Aligned(MarkUsed(g, c))
    BY <1>1, <2>2, MarkUsedEffect
  <2> HIDE DEF g, d
  <2>q. QED BY <1>1, <2>1, <2>2, <2>3, <2>4, <2>5, <2>6, <2>7 DEF Used, Same
<1>3. CASE ~ NeedsChunk(h, c, n)
  <2>1. ~ IsFree(h, h.next[c]) /\ ~ IsFree(h, h.prev[c])
    BY <1>1 DEF Coalesced, Linked, IsFree
  <2>2. Take(h, c, n) = MarkUsed(h, c)
    BY <1>3, <2>1 DEF Take, SplitNext, Unlink
  <2>3. /\ Used(MarkUsed(h, c)) = Used(h) \cup {c} /\ Same(h, MarkUsed(h, c), Live(h))
        /\ Aligned(h) => Aligned(MarkUsed(h, c))
    BY <1>1, MarkUsedEffect
  <2>q. QED BY <1>1, <2>2, <2>3 DEF Used, Same
<1>q. QED BY <1>2, <1>3

(* realloc in place lengthens one block to n bytes and touches no other.   *)
LEMMA SubsumeEffect ==
  ASSUME NEW h, Wf(h), NEW c \in Live(h), ~ h.free[c], IsFree(h, h.next[c]),
         NEW n \in Nat, h.size[c] < n, n <= h.size[c] + h.size[h.next[c]]
  PROVE  LET g == SubsumeNext(h, c, n)
         IN /\ Used(g) = Used(h) /\ Same(h, g, Used(h) \ {c})
            /\ g.data[c] = h.data[c] /\ g.size[c] = n
            /\ Aligned(h) /\ n % 16 = 0 => Aligned(g)
<1> DEFINE d == h.next[c]
           s == Shift(h, c, d, n)
           g == SubsumeNext(h, c, n)
<1>1. /\ Struct(h) /\ HeapType(h) /\ Live(h) \subseteq Chunks
      /\ d \in Live(h) /\ h.free[d] /\ d # c /\ h.data[d] = h.data[c] + h.size[c]
  BY ChunkFacts, SuccessorFacts DEF Wf, Struct, IsFree
<1>2. /\ h.size[c] \in Nat /\ h.size[d] \in Nat /\ h.data[c] \in Nat
      /\ c \in Chunks /\ d \in Chunks
  BY <1>1 DEF HeapType
<1>3. /\ s.free = h.free /\ s.pool = h.pool /\ s.made = h.made
      /\ s.size[c] = n /\ s.data[d] = h.data[c] + n /\ s.data[c] = h.data[c]
      /\ \A x \in Chunks : x # c /\ x # d => s.size[x] = h.size[x] /\ s.data[x] = h.data[x]
  BY <1>1, <1>2 DEF Shift, Set, HeapType
<1>4. Live(s) = Live(h)
  BY <1>3 DEF Live
<1>5. /\ g.size = s.size /\ g.data = s.data /\ g.free = s.free
      /\ Live(g) = Live(h) \/ Live(g) = Live(h) \ {d}
  <2>1. ~ (h.size[c] + h.size[d] < n)
    BY <1>2
  <2>2. CASE s.size[d] = 0
    BY <1>4, <2>1, <2>2 DEF SubsumeNext, Live
  <2>3. CASE s.size[d] # 0
    <3>1. g = s
      BY <2>1, <2>3 DEF SubsumeNext
    <3>q. QED BY <1>4, <3>1
  <2>q. QED BY <2>2, <2>3
<1> HIDE DEF d, s, g
<1>6. Used(g) = Used(h) /\ Same(h, g, Used(h) \ {c})
  BY <1>1, <1>3, <1>5 DEF Used, Same
<1>7. Aligned(h) /\ n % 16 = 0 => Aligned(g)
  <2>1. Aligned(h) /\ n % 16 = 0 => g.data[d] % 16 = 0
    BY <1>2, <1>3, <1>5 DEF Aligned
  <2>2. \A x \in Live(h) : x # d => g.data[x] = h.data[x]
    BY <1>1, <1>3, <1>5
  <2>q. QED BY <2>1, <2>2, <1>5 DEF Aligned
<1> QED BY <1>3, <1>5, <1>6, <1>7 DEF g
------------------------------------------------------------------------------
(* Where a chunk is.                                                       *)
LEMMA LiveFacts ==
  ASSUME NEW h, Struct(h), NEW c \in Live(h)
  PROVE  /\ h.data[c] \in Nat /\ h.size[c] \in Nat /\ 0 < h.size[c]
         /\ Lo <= h.data[c] /\ h.data[c] + h.size[c] <= End
         /\ h.data[c] \in Lo..(End - 1) /\ h.size[c] \in 1..(End - Lo)
         /\ Lo \in Nat /\ End \in Nat /\ 0 < Lo
<1>1. c \in Chunks /\ h.data \in [Chunks -> Nat] /\ h.size \in [Chunks -> Nat]
  BY ChunkFacts DEF Struct, HeapType
<1>2. 0 < h.size[c] /\ Lo <= h.data[c] /\ h.data[c] + h.size[c] <= End
  BY DEF Struct, Tiled
<1> QED BY <1>1, <1>2, ArenaAssumption

LEMMA Disjoint ==
  ASSUME NEW h, Struct(h), NEW c \in Live(h), NEW d \in Live(h), c # d
  PROVE  /\ h.data[c] + h.size[c] <= h.data[d] \/ h.data[d] + h.size[d] <= h.data[c]
         /\ h.data[c] # h.data[d]
<1>1. h.data[c] + h.size[c] <= h.data[d] \/ h.data[d] + h.size[d] <= h.data[c]
  BY DEF Struct, Tiled
<1> QED BY <1>1, LiveFacts

(* A chunk's bytes meet the block of no other chunk.                       *)
LEMMA LiveGap ==
  ASSUME NEW h, Struct(h), NEW c \in Live(h),
         NEW B, \A b \in B : \E d \in Live(h) : d # c /\ b = Block(h, d)
  PROVE  Promise!Gap(B, h.data[c], h.size[c])
<1>1. ASSUME NEW b \in B
      PROVE  b.addr + b.len <= h.data[c] \/ h.data[c] + h.size[c] <= b.addr
  <2>1. PICK d \in Live(h) : d # c /\ b = Block(h, d)
    OBVIOUS
  <2>2. b.addr = h.data[d] /\ b.len = h.size[d]
    BY <2>1 DEF Block
  <2>q. QED BY <2>1, <2>2, Disjoint
<1> QED BY <1>1, LiveFacts DEF Promise!Gap

(* A refusal is honest: when no free chunk is long enough, no n bytes in a *)
(* row are free.  The first of them would be in a free chunk that is too   *)
(* short, so they would reach into the next one, which is in use.          *)
LEMMA NoFitNoGap ==
  ASSUME NEW h, Wf(h), NEW n \in Nat, 0 < n, Fits(h, n) = {}
  PROVE  ~ Promise!HasGap(BlocksOf(h), n)
<1> SUFFICES ASSUME NEW a \in Lo..(End - n), Promise!Gap(BlocksOf(h), a, n)
             PROVE  FALSE
  BY DEF Promise!HasGap
<1>1. Struct(h) /\ Tiled(h) /\ Coalesced(h) /\ Lo \in Nat /\ End \in Nat
  BY ArenaAssumption DEF Wf, Struct
<1>2. ASSUME NEW c \in Used(h)
      PROVE  h.data[c] + h.size[c] <= a \/ a + n <= h.data[c]
  <2>1. Block(h, c) \in BlocksOf(h)
    BY DEF BlocksOf
  <2>q. QED BY <2>1 DEF Promise!Gap, Block
<1>3. a \in Lo..(End - 1) /\ a + n <= End
  BY <1>1
<1>4. PICK c \in Live(h) : h.data[c] <= a /\ a < h.data[c] + h.size[c]
  BY <1>1, <1>3 DEF Tiled
<1>5. h.data[c] \in Nat /\ h.size[c] \in Nat
  BY <1>1, LiveFacts
<1>6. h.free[c]
  <2>1. c \notin Used(h)
    BY <1>1, <1>2, <1>4, <1>5
  <2>q. QED BY <2>1 DEF Used
<1>7. h.size[c] < n
  BY <1>5, <1>6 DEF Fits
<1>8. h.next[c] # Null /\ h.next[c] \in Live(h) /\ h.data[h.next[c]] = h.data[c] + h.size[c]
  <2>1. h.next[c] # Null
    BY <1>1, <1>3, <1>4, <1>5, <1>7 DEF Tiled
  <2>q. QED BY <1>1, <2>1, SuccessorFacts
<1>9. h.next[c] \in Used(h)
  BY <1>1, <1>6, <1>8 DEF Coalesced, IsFree, Used
<1>10. h.size[h.next[c]] \in Nat /\ 0 < h.size[h.next[c]]
  BY <1>1, <1>8, LiveFacts
<1> QED BY <1>2, <1>3, <1>4, <1>5, <1>7, <1>8, <1>9, <1>10
------------------------------------------------------------------------------
(* The blocks before and after, by the chunks that own them.               *)
LEMMA BlocksAdd ==
  ASSUME NEW h, NEW g, NEW c, Used(g) = Used(h) \cup {c}, Same(h, g, Used(h))
  PROVE  BlocksOf(g) = BlocksOf(h) \cup {Block(g, c)}
<1>1. \A x \in Used(h) : Block(g, x) = Block(h, x)
  BY DEF Same, Block
<1> QED BY <1>1 DEF BlocksOf

LEMMA BlocksRemove ==
  ASSUME NEW h, Struct(h), NEW g, NEW c \in Used(h), Used(g) = Used(h) \ {c}, Same(h, g, Used(g))
  PROVE  BlocksOf(g) = BlocksOf(h) \ {Block(h, c)}
<1>1. \A x \in Used(g) : Block(g, x) = Block(h, x)
  BY DEF Same, Block
<1>2. \A x \in Used(g) : Block(h, x) # Block(h, c)
  <2>1. \A x \in Used(h) : x # c => h.data[x] # h.data[c]
    BY Disjoint DEF Used
  <2>q. QED BY <2>1 DEF Block
<1> QED BY <1>1, <1>2 DEF BlocksOf------------------------------------------------------------------------------
(* What the calls that change the heap do to its blocks.                   *)
LEMMA TakesFacts ==
  ASSUME IInv, NEW call, NEW n \in Nat, MallocTakes(call, n)
  PROVE  LET m == FixupSize(n)
             c == FindFree(heap, m)
         IN /\ c \in Live(heap) /\ c \notin Used(heap)
            /\ Used(heap') = Used(heap) \cup {c} /\ Same(heap, heap', Used(heap))
            /\ heap'.data[c] = heap.data[c] /\ m <= heap'.size[c]
            /\ Aligned(heap) => Aligned(heap')
<1> DEFINE m == FixupSize(n)
           c == FindFree(heap, m)
<1>1. Wf(heap) /\ HeapType(heap)
  BY DEF IInv, TypeOK
<1>2. m \in Nat /\ 0 < m /\ m % 16 = 0
  BY FixupPositive
<1>3. c \in Fits(heap, m) /\ (NeedsChunk(heap, c, m) => CanMake(heap)) /\ heap' = Take(heap, c, m)
  BY <1>1, <1>2, FindFreeFits DEF MallocTakes
<1> HIDE DEF m, c
<1>4. LET g == Take(heap, c, m)
      IN /\ c \in Live(heap) /\ c \notin Used(heap)
         /\ Used(g) = Used(heap) \cup {c}
         /\ Same(heap, g, Used(heap)) /\ g.data[c] = heap.data[c]
         /\ m <= g.size[c]
         /\ Aligned(heap) /\ m % 16 = 0 => Aligned(g)
  BY <1>1, <1>2, <1>3, TakeEffect
<1> QED BY <1>2, <1>3, <1>4 DEF c, m

LEMMA InPlaceFacts ==
  ASSUME IInv, NEW p \in Pointers, NEW n \in Requests, ReallocInPlace(p, n)
  PROVE  LET c == FindUsed(heap, p)
         IN /\ c \in Used(heap) /\ heap.data[c] = p
            /\ Used(heap') = Used(heap) /\ Same(heap, heap', Used(heap) \ {c})
            /\ heap'.data[c] = p
            /\ FixupSize(n) <= heap'.size[c] /\ heap.size[c] <= heap'.size[c]
            /\ Aligned(heap) => Aligned(heap')
<1> DEFINE m == FixupSize(n)
           c == FindUsed(heap, p)
<1>1. Wf(heap) /\ Struct(heap)
  BY DEF IInv, Wf
<1>2. m \in Nat /\ 0 < m /\ m % 16 = 0
  BY FixupPositive, ArenaAssumption
<1>3. c \in Live(heap) /\ ~ heap.free[c] /\ heap.data[c] = p /\ c \in Used(heap)
  BY FindUsedUsed DEF ReallocInPlace, Used
<1>4. heap.size[c] \in Nat
  BY <1>1, <1>3, LiveFacts
<1>5. CASE heap.size[c] >= m /\ UNCHANGED heap
  BY <1>2, <1>3, <1>4, <1>5 DEF Same
<1>6. CASE /\ heap.size[c] < m
           /\ IsFree(heap, heap.next[c]) /\ heap.size[c] + heap.size[heap.next[c]] >= m
           /\ heap' = SubsumeNext(heap, c, m)
  <2>1. heap.size[heap.next[c]] \in Nat
    BY <1>1, <1>3, <1>6, SuccessorFacts, LiveFacts DEF IsFree
  <2>2. m <= heap.size[c] + heap.size[heap.next[c]]
    BY <1>2, <1>4, <1>6, <2>1
  <2> HIDE DEF m, c
  <2>3. LET g == SubsumeNext(heap, c, m)
        IN /\ Used(g) = Used(heap) /\ Same(heap, g, Used(heap) \ {c})
           /\ g.data[c] = heap.data[c] /\ g.size[c] = m
           /\ Aligned(heap) /\ m % 16 = 0 => Aligned(g)
    BY <1>1, <1>2, <1>3, <1>6, <2>2, SubsumeEffect
  <2>4. /\ Used(heap') = Used(heap) /\ Same(heap, heap', Used(heap) \ {c})
        /\ heap'.data[c] = p /\ heap'.size[c] = m
        /\ Aligned(heap) => Aligned(heap')
    BY <1>2, <1>3, <1>6, <2>3
  <2>q. QED BY <1>2, <1>3, <1>4, <1>6, <2>4 DEF c, m
<1>7. \/ heap.size[c] >= m /\ UNCHANGED heap
      \/ /\ heap.size[c] < m
         /\ IsFree(heap, heap.next[c]) /\ heap.size[c] + heap.size[heap.next[c]] >= m
         /\ heap' = SubsumeNext(heap, c, m)
  BY DEF ReallocInPlace
<1> QED BY <1>5, <1>6, <1>7

(* realloc of a block that must move, when malloc finds room.              *)
Moved(p, n) ==
  LET c == FindUsed(heap, p)
      m == FixupSize(FixupSize(n))
      d == FindFree(heap, m)
  IN /\ Fits(heap, m) # {} /\ (NeedsChunk(heap, d, m) => CanMake(heap))
     /\ heap' = InternalFree(Take(heap, d, m), c)
     /\ frees' = frees + 1
     /\ Answer("realloc", n, heap.data[d], heap.size[c], FALSE)

LEMMA MovedFacts ==
  ASSUME IInv, NEW p \in Pointers, NEW n \in Requests, MustMove(p, n), Moved(p, n)
  PROVE  LET c == FindUsed(heap, p)
             m == FixupSize(FixupSize(n))
             d == FindFree(heap, m)
         IN /\ c \in Used(heap) /\ d \in Live(heap) \ Used(heap)
            /\ Used(heap') = (Used(heap) \cup {d}) \ {c}
            /\ Same(heap, heap', Used(heap) \ {c})
            /\ heap'.data[d] = heap.data[d] /\ m <= heap'.size[d]
            /\ Promise!Gap(BlocksOf(heap), heap.data[d], heap'.size[d])
            /\ Aligned(heap) => Aligned(heap')
<1> DEFINE c == FindUsed(heap, p)
           m == FixupSize(FixupSize(n))
           d == FindFree(heap, m)
           g == Take(heap, d, m)
<1>1. Wf(heap) /\ Struct(heap) /\ HeapType(heap)
  BY DEF IInv, Wf, Struct
<1>2. m \in Nat /\ 0 < m /\ m % 16 = 0
  BY FixupPositive, ArenaAssumption
<1>3. c \in Used(heap)
  BY FindUsedUsed DEF MustMove, Used
<1>4. d \in Fits(heap, m) /\ (NeedsChunk(heap, d, m) => CanMake(heap)) /\ heap' = InternalFree(g, c)
  BY <1>1, <1>2, FindFreeFits DEF Moved
<1> HIDE DEF c, m, d
<1>5. /\ d \in Live(heap) /\ d \notin Used(heap)
      /\ Used(g) = Used(heap) \cup {d}
      /\ Same(heap, g, Used(heap)) /\ g.data[d] = heap.data[d]
      /\ m <= g.size[d]
      /\ Aligned(heap) /\ m % 16 = 0 => Aligned(g)
  BY <1>1, <1>2, <1>4, TakeEffect
<1>6. Struct(g)
  BY <1>1, <1>2, <1>4, TakeWf DEF Wf
<1> HIDE DEF g
<1>7. c \in Live(g)
  BY <1>3, <1>5 DEF Used
<1>8. /\ Used(heap') = Used(g) \ {c} /\ Same(g, heap', Used(heap'))
      /\ Aligned(g) => Aligned(heap')
  BY <1>4, <1>6, <1>7, FreeEffect
<1>9. d # c /\ d \in Used(heap') /\ d \in Live(g)
  BY <1>3, <1>5, <1>8 DEF Used
<1>10. heap'.data[d] = heap.data[d] /\ heap'.size[d] = g.size[d]
  BY <1>5, <1>8, <1>9 DEF Same
<1>11. Promise!Gap(BlocksOf(heap), heap.data[d], heap'.size[d])
  <2>1. \A b \in BlocksOf(heap) : \E x \in Live(g) : x # d /\ b = Block(g, x)
    <3>1. \A x \in Used(heap) : x \in Live(g) /\ x # d /\ Block(heap, x) = Block(g, x)
      BY <1>5 DEF Used, Same, Block
    <3>q. QED BY <3>1 DEF BlocksOf
  <2>2. Promise!Gap(BlocksOf(heap), g.data[d], g.size[d])
    BY <1>6, <1>9, <2>1, LiveGap
  <2>q. QED BY <1>5, <1>10, <2>2
<1>12. Same(heap, heap', Used(heap) \ {c})
  BY <1>5, <1>8 DEF Same
<1> QED BY <1>2, <1>3, <1>5, <1>8, <1>9, <1>10, <1>11, <1>12 DEF c, m, d

LEMMA FreedFacts ==
  ASSUME IInv, NEW p \in Pointers, At(heap, p) # {}, heap' = InternalFree(heap, FindUsed(heap, p))
  PROVE  LET c == FindUsed(heap, p)
         IN /\ c \in Used(heap) /\ heap.data[c] = p
            /\ Used(heap') = Used(heap) \ {c} /\ Same(heap, heap', Used(heap'))
            /\ Aligned(heap) => Aligned(heap')
<1>1. Struct(heap)
  BY DEF IInv, Wf
<1>2. FindUsed(heap, p) \in Live(heap) /\ FindUsed(heap, p) \in Used(heap) /\ heap.data[FindUsed(heap, p)] = p
  BY FindUsedUsed DEF Used
<1> QED BY <1>1, <1>2, FreeEffect------------------------------------------------------------------------------
(* The moving realloc in its three outcomes.                               *)
LEMMA MoveCases ==
  ASSUME NEW p, NEW n, ReallocMoves(p, n)
  PROVE  /\ p # 0 /\ MustMove(p, n) /\ CountAlloc
         /\ \/ /\ Fits(heap, FixupSize(FixupSize(n))) = {}
               /\ Answer("realloc", n, 0, 0, FALSE) /\ UNCHANGED <<heap, frees>>
            \/ Answer("realloc", n, 0, 0, TRUE) /\ UNCHANGED <<heap, frees>>
            \/ Moved(p, n)
  BY DEF ReallocMoves, MustMove, Moved

(* Chunks stay aligned: each starts a multiple of 16 behind another.       *)
LEMMA AlignedStep == IInv /\ Aligned(heap) /\ [Next]_vars => Aligned(heap')
<1> SUFFICES ASSUME IInv, Aligned(heap), [Next]_vars PROVE Aligned(heap')
  OBVIOUS
<1>1. Requests \subseteq Nat
  BY ArenaAssumption
<1>2. CASE UNCHANGED heap
  BY <1>2
<1>3. ASSUME NEW call, NEW n \in Requests, Malloc(call, n)
      PROVE  Aligned(heap')
  BY <1>1, <1>2, <1>3, TakesFacts DEF Malloc, MallocFails, MallocThrows
<1>4. ASSUME NEW p \in Pointers, NEW n \in Requests, ReallocUnknown(p, n)
      PROVE  Aligned(heap')
  BY <1>2, <1>4 DEF ReallocUnknown
<1>5. ASSUME NEW p \in Pointers, NEW n \in Requests, ReallocInPlace(p, n)
      PROVE  Aligned(heap')
  BY <1>5, InPlaceFacts
<1>6. ASSUME NEW p \in Pointers, NEW n \in Requests, ReallocMoves(p, n)
      PROVE  Aligned(heap')
  BY <1>2, <1>6, MoveCases, MovedFacts
<1>7. ASSUME NEW p \in Pointers, Free(p)
      PROVE  Aligned(heap')
  BY <1>2, <1>7, FreedFacts DEF Free
<1>8. CASE UNCHANGED vars
  BY <1>2, <1>8 DEF vars
<1> QED BY <1>3, <1>4, <1>5, <1>6, <1>7, <1>8 DEF Next

(* At first nothing is in use.                                             *)
LEMMA UsedAtStart == Init => heap.data[Base] = Lo /\ Live(heap) = {Base} /\ Used(heap) = {}
<1> SUFFICES ASSUME Init PROVE heap.data[Base] = Lo /\ Live(heap) = {Base} /\ Used(heap) = {}
  OBVIOUS
<1>1. heap.made = 0 /\ heap.pool = {} /\ heap.free[Base] /\ heap.data[Base] = Lo
  BY ChunkFacts DEF Init, Base
<1>2. Live(heap) = {Base}
  BY <1>1 DEF Live, Base
<1> QED BY <1>1, <1>2 DEF Used

LEMMA AlignedStart == Init => Aligned(heap)
  BY UsedAtStart, ArenaAssumption DEF Aligned

(* Every block starts at a multiple of 16 in every arena that does: shifts *)
(* and divisions of chunks move whole units (split_next, subsume_next).    *)
THEOREM AlignmentCorrect == Spec => []DataAligned
<1>1. Aligned(heap) => DataAligned
  BY DEF Aligned, DataAligned
<1>2. IInv /\ Aligned(heap) /\ [Next]_vars => (IInv /\ Aligned(heap))'
  BY NextIInv, AlignedStep
<1>q. QED BY <1>1, <1>2, InitIInv, AlignedStart, PTL DEF Spec
------------------------------------------------------------------------------
(* The counters.                                                           *)
LEMMA UsedFinite ==
  ASSUME NEW h, HeapType(h)
  PROVE  IsFiniteSet(Used(h)) /\ Cardinality(Used(h)) \in Nat
<1>1. IsFiniteSet(Chunks)
  BY ArenaAssumption, FS_Interval DEF Chunks
<1>2. Used(h) \subseteq Chunks
  BY ChunkFacts DEF Used
<1>3. IsFiniteSet(Used(h))
  BY <1>1, <1>2, FS_Subset
<1> QED BY <1>3, FS_CardinalityType

LEMMA CountersStep == IInv /\ CountersCover /\ [Next]_vars => CountersCover'
<1> SUFFICES ASSUME IInv, CountersCover, [Next]_vars PROVE CountersCover'
  OBVIOUS
<1> DEFINE U == Used(heap)
<1>1. /\ IsFiniteSet(U) /\ Cardinality(U) \in Nat
      /\ allocs \in Nat /\ frees \in Nat /\ Requests \subseteq Nat
  BY UsedFinite, ArenaAssumption DEF IInv, TypeOK
<1>2. ASSUME NEW c, c \notin U
      PROVE  Cardinality(U \cup {c}) = Cardinality(U) + 1 /\ IsFiniteSet(U \cup {c})
  BY <1>1, <1>2, FS_AddElement
<1>3. ASSUME NEW c \in U
      PROVE  Cardinality(U \ {c}) = Cardinality(U) - 1
  BY <1>1, FS_RemoveElement
<1>4. CASE UNCHANGED <<heap, frees>> /\ allocs' \in {allocs, allocs + 1}
  BY <1>1, <1>4 DEF CountersCover
<1>5. ASSUME NEW call, NEW n \in Requests, Malloc(call, n)
      PROVE  CountersCover'
  <2>1. allocs' = allocs + 1 /\ frees' = frees
    BY <1>5 DEF Malloc, CountAlloc
  <2>2. CASE MallocTakes(call, n)
    <3>1. \E c : c \notin U /\ Used(heap') = U \cup {c}
      BY <1>1, <2>2, TakesFacts
    <3>q. QED BY <1>1, <1>2, <2>1, <3>1 DEF CountersCover
  <2>q. QED BY <1>4, <1>5, <2>1, <2>2 DEF Malloc, MallocFails, MallocThrows
<1>6. ASSUME NEW p \in Pointers, NEW n \in Requests, ReallocUnknown(p, n)
      PROVE  CountersCover'
  BY <1>4, <1>6 DEF ReallocUnknown
<1>7. ASSUME NEW p \in Pointers, NEW n \in Requests, ReallocInPlace(p, n)
      PROVE  CountersCover'
  <2>1. Used(heap') = U /\ allocs' = allocs /\ frees' = frees
    BY <1>7, InPlaceFacts DEF ReallocInPlace
  <2>q. QED BY <2>1 DEF CountersCover
<1>8. ASSUME NEW p \in Pointers, NEW n \in Requests, ReallocMoves(p, n)
      PROVE  CountersCover'
  <2>1. allocs' = allocs + 1 /\ MustMove(p, n)
    BY <1>8, MoveCases DEF CountAlloc
  <2>2. CASE Moved(p, n)
    <3>1. PICK c \in U, d \in Live(heap) \ U : Used(heap') = (U \cup {d}) \ {c}
      BY <2>1, <2>2, MovedFacts
    <3>2. Cardinality((U \cup {d}) \ {c}) = Cardinality(U \cup {d}) - 1
      BY <1>2, <3>1, FS_RemoveElement
    <3>3. Cardinality(U \cup {d}) = Cardinality(U) + 1
      BY <1>2, <3>1
    <3>4. frees' = frees + 1
      BY <2>2 DEF Moved
    <3>q. QED BY <1>1, <2>1, <3>1, <3>2, <3>3, <3>4 DEF CountersCover
  <2>q. QED BY <1>4, <1>8, <2>1, <2>2, MoveCases
<1>9. ASSUME NEW p \in Pointers, Free(p)
      PROVE  CountersCover'
  <2>1. allocs' = allocs
    BY <1>9 DEF Free
  <2>2. CASE UNCHANGED <<heap, frees>>
    BY <1>4, <2>1, <2>2
  <2>3. CASE /\ At(heap, p) # {} /\ heap' = InternalFree(heap, FindUsed(heap, p))
             /\ frees' = frees + 1
    <3>1. \E c \in U : Used(heap') = U \ {c}
      BY <2>3, FreedFacts
    <3>q. QED BY <1>1, <1>3, <2>1, <2>3, <3>1 DEF CountersCover
  <2>q. QED BY <1>9, <2>2, <2>3 DEF Free
<1>10. CASE UNCHANGED vars
  BY <1>4, <1>10 DEF vars
<1> QED BY <1>5, <1>6, <1>7, <1>8, <1>9, <1>10 DEF Next

(* No call loses count: every block in use is a malloc that no free has    *)
(* answered yet, whatever was split, merged or moved in between.           *)
THEOREM CountersCorrect == Spec => []CountersCover
<1>1. ASSUME Init PROVE CountersCover
  BY <1>1, UsedAtStart, FS_EmptySet DEF Init, CountersCover
<1>2. IInv /\ CountersCover /\ [Next]_vars => (IInv /\ CountersCover)'
  BY NextIInv, CountersStep
<1>q. QED BY <1>1, <1>2, InitIInv, PTL DEF Spec
------------------------------------------------------------------------------
(* What malloc and realloc hand out.                                       *)
LEMMA GrantedStep ==
  ASSUME Sane, IInv, GrantedIsEnough, [Next]_vars
  PROVE  GrantedIsEnough'
<1>1. Requests \subseteq Nat
  BY ArenaAssumption
<1>f. /\ \A n \in Requests : n \in Nat /\ FixupSize(n) \in Nat /\ n <= FixupSize(n)
      /\ \A n \in Requests : FixupSize(FixupSize(n)) = FixupSize(n)
  BY <1>1, FixupRounds, FixupPositive
<1>s. \A c \in Live(heap') : heap'.size[c] \in Nat
  <2>1. Struct(heap')
    BY NextIInv DEF IInv, Wf
  <2>q. QED BY <2>1, LiveFacts
<1>2. CASE reply'.ret = 0 \/ reply'.call = "free"
  BY <1>2 DEF GrantedIsEnough
<1>3. ASSUME NEW c \in Used(heap'), reply'.ret = heap'.data[c], heap'.size[c] >= reply'.want
      PROVE  GrantedIsEnough'
  BY <1>3 DEF GrantedIsEnough, At
<1>4. ASSUME NEW call, NEW n \in Requests, Malloc(call, n)
      PROVE  GrantedIsEnough'
  <2>1. CASE MallocFails(call, n) \/ MallocThrows(call, n)
    BY <1>2, <2>1 DEF MallocFails, MallocThrows, Answer
  <2>2. CASE MallocTakes(call, n)
    <3> DEFINE c == FindFree(heap, FixupSize(n))
    <3>1. c \in Used(heap') /\ heap'.data[c] = heap.data[c] /\ FixupSize(n) <= heap'.size[c]
      BY <1>f, <2>2, TakesFacts
    <3>2. reply'.ret = heap.data[c] /\ reply'.want = n
      BY <2>2 DEF MallocTakes, Answer
    <3>3. heap'.size[c] \in Nat
      BY <1>s, <3>1 DEF Used
    <3>q. QED BY <1>3, <1>f, <3>1, <3>2, <3>3
  <2>q. QED BY <1>4, <2>1, <2>2 DEF Malloc
<1>5. ASSUME NEW p \in Pointers, NEW n \in Requests, ReallocUnknown(p, n)
      PROVE  GrantedIsEnough'
  BY <1>2, <1>5 DEF ReallocUnknown, Answer
<1>6. ASSUME NEW p \in Pointers, NEW n \in Requests, ReallocInPlace(p, n)
      PROVE  GrantedIsEnough'
  <2> DEFINE c == FindUsed(heap, p)
  <2>1. c \in Used(heap') /\ heap'.data[c] = p /\ FixupSize(n) <= heap'.size[c]
    BY <1>6, InPlaceFacts
  <2>2. reply'.ret = p /\ reply'.want = n
    BY <1>6 DEF ReallocInPlace, Answer
  <2>3. heap'.size[c] \in Nat
    BY <1>s, <2>1 DEF Used
  <2>q. QED BY <1>3, <1>f, <2>1, <2>2, <2>3
<1>7. ASSUME NEW p \in Pointers, NEW n \in Requests, ReallocMoves(p, n)
      PROVE  GrantedIsEnough'
  <2>1. CASE Answer("realloc", n, 0, 0, FALSE) \/ Answer("realloc", n, 0, 0, TRUE)
    BY <1>2, <2>1 DEF Answer
  <2>2. CASE Moved(p, n)
    <3> DEFINE d == FindFree(heap, FixupSize(FixupSize(n)))
    <3>1. /\ d \in Used(heap') /\ heap'.data[d] = heap.data[d]
          /\ FixupSize(FixupSize(n)) <= heap'.size[d]
      BY <1>7, <2>2, MoveCases, MovedFacts
    <3>2. reply'.ret = heap.data[d] /\ reply'.want = n
      BY <2>2 DEF Moved, Answer
    <3>3. heap'.size[d] \in Nat
      BY <1>s, <3>1 DEF Used
    <3>q. QED BY <1>3, <1>f, <3>1, <3>2, <3>3
  <2>q. QED BY <1>7, <2>1, <2>2, MoveCases
<1>8. ASSUME NEW p \in Pointers, Free(p)
      PROVE  GrantedIsEnough'
  BY <1>2, <1>8 DEF Free, Answer
<1>9. CASE UNCHANGED vars
  BY <1>9 DEF vars, GrantedIsEnough, At, Used, Live
<1> QED BY <1>4, <1>5, <1>6, <1>7, <1>8, <1>9 DEF Next

(* A pointer that malloc or realloc returns is to a block in use of at     *)
(* least the size asked for, unless that size wraps when it is rounded.    *)
THEOREM GrantedCorrect == Sane => (Spec => []GrantedIsEnough)
<1> SUFFICES ASSUME Sane PROVE Spec => []GrantedIsEnough
  OBVIOUS
<1>1. Init => GrantedIsEnough
  BY DEF Init, GrantedIsEnough
<1>2. IInv /\ GrantedIsEnough /\ [Next]_vars => (IInv /\ GrantedIsEnough)'
  BY NextIInv, GrantedStep
<1>q. QED BY <1>1, <1>2, InitIInv, PTL DEF Spec------------------------------------------------------------------------------
(* The refinement.  The mapping sends the heap to its blocks.              *)
LEMMA BlocksAre == Blocks = BlocksOf(heap) /\ Blocks' = BlocksOf(heap')
  BY DEF Blocks, BlocksOf, Block, Used, Live

LEMMA BlockAddresses ==
  ASSUME NEW p, At(heap, p) = {}
  PROVE  \A b \in BlocksOf(heap) : b.addr # p
  BY DEF At, BlocksOf, Block

(* malloc is Allocate, or it throws.                                       *)
LEMMA MallocRefines ==
  ASSUME Sane, IInv, IInv', Aligned(heap),
         NEW call \in {"malloc", "realloc"}, NEW n \in Requests, Malloc(call, n)
  PROVE  Promise!Allocate(call) \/ Promise!Throw(call)
<1> DEFINE m == FixupSize(n)
           c == FindFree(heap, m)
<1>1. /\ n \in Nat /\ m = Promise!RoundUp(n) /\ n <= m /\ m \in Nat /\ 0 < m
      /\ Struct(heap) /\ Wf(heap) /\ Struct(heap')
  BY FixupRounds, FixupPositive DEF IInv, Wf
<1>2. CASE MallocFails(call, n)
  <2>1. Fits(heap, m) = {} /\ UNCHANGED Blocks /\ Promise!Answer(call, n, 0, 0, FALSE)
    BY <1>2 DEF MallocFails, Answer, Promise!Answer, Blocks, Used, Live
  <2>2. ~ Promise!HasGap(Blocks, Promise!RoundUp(n))
    BY <1>1, <2>1, NoFitNoGap, BlocksAre
  <2>q. QED BY <2>1, <2>2 DEF Promise!Allocate
<1>3. CASE MallocThrows(call, n)
  <2>1. UNCHANGED Blocks /\ Promise!Answer(call, n, 0, 0, TRUE)
    BY <1>3 DEF MallocThrows, Answer, Promise!Answer, Blocks, Used, Live
  <2>q. QED BY <2>1 DEF Promise!Throw
<1>4. CASE MallocTakes(call, n)
  <2>1. /\ c \in Live(heap) /\ c \notin Used(heap)
        /\ Used(heap') = Used(heap) \cup {c} /\ Same(heap, heap', Used(heap))
        /\ heap'.data[c] = heap.data[c] /\ m <= heap'.size[c]
    BY <1>1, <1>4, TakesFacts
  <2>2. Promise!Answer(call, n, heap.data[c], 0, FALSE)
    BY <1>4 DEF MallocTakes, Answer, Promise!Answer
  <2> HIDE DEF c, m
  <2>3. heap.data[c] \in Promise!Addresses
    BY <1>1, <2>1, LiveFacts DEF Aligned, Promise!Addresses
  <2>4. c \in Live(heap')
    BY <2>1 DEF Used
  <2>5. heap'.size[c] \in Promise!Lengths /\ n <= heap'.size[c]
    BY <1>1, <2>1, <2>4, LiveFacts DEF Promise!Lengths
  <2>6. Promise!Gap(Blocks, heap.data[c], heap'.size[c])
    <3>1. \A b \in BlocksOf(heap) : \E x \in Live(heap') : x # c /\ b = Block(heap', x)
      <4>1. \A x \in Used(heap) : x \in Live(heap') /\ x # c /\ Block(heap, x) = Block(heap', x)
        BY <2>1 DEF Used, Same, Block
      <4>q. QED BY <4>1 DEF BlocksOf
    <3>2. Promise!Gap(BlocksOf(heap), heap'.data[c], heap'.size[c])
      BY <1>1, <2>4, <3>1, LiveGap
    <3>q. QED BY <2>1, <3>2, BlocksAre
  <2>7. Blocks' = Blocks \cup {[addr |-> heap.data[c], len |-> heap'.size[c]]}
    <3>1. BlocksOf(heap') = BlocksOf(heap) \cup {Block(heap', c)}
      BY <2>1, BlocksAdd
    <3>2. Blocks' = BlocksOf(heap')
      BY BlocksAre
    <3>q. QED BY <2>1, <3>1, <3>2, BlocksAre DEF Block
  <2>q. QED BY <2>2, <2>3, <2>5, <2>6, <2>7 DEF Promise!Allocate
<1> QED BY <1>2, <1>3, <1>4 DEF Malloc

(* realloc in place is the first case of Resize.                           *)
LEMMA InPlaceRefines ==
  ASSUME Sane, IInv, IInv', NEW p \in Pointers, NEW n \in Requests, ReallocInPlace(p, n)
  PROVE  Promise!Resize
<1> DEFINE c == FindUsed(heap, p)
           b == Block(heap, c)
<1>1. /\ n \in Nat /\ n <= FixupSize(n) /\ FixupSize(n) \in Nat
      /\ Struct(heap) /\ Struct(heap')
  BY FixupRounds, FixupPositive DEF IInv, Wf
<1>2. /\ c \in Used(heap) /\ heap.data[c] = p
      /\ Used(heap') = Used(heap) /\ Same(heap, heap', Used(heap) \ {c})
      /\ heap'.data[c] = p
      /\ FixupSize(n) <= heap'.size[c] /\ heap.size[c] <= heap'.size[c]
  BY InPlaceFacts
<1>3. Promise!Answer("realloc", n, heap.data[c], 0, FALSE)
  BY <1>2 DEF ReallocInPlace, Answer, Promise!Answer
<1> HIDE DEF c
<1>4. /\ c \in Live(heap') /\ c \in Live(heap)
      /\ b \in Blocks /\ b.addr = p /\ b.len = heap.size[c]
  BY <1>2, BlocksAre DEF Used, BlocksOf, Block
<1>5. heap'.size[c] \in Promise!Lengths /\ n <= heap'.size[c]
  BY <1>1, <1>2, <1>4, LiveFacts DEF Promise!Lengths
<1>6. \A x \in Used(heap) : x # c => x \in Live(heap') /\ Block(heap, x) = Block(heap', x) /\ Block(heap, x) # b
  <2>1. \A x \in Used(heap) : x # c => heap.data[x] # heap.data[c]
    BY <1>1, <1>4, Disjoint DEF Used
  <2>2. \A x \in Used(heap) : x # c => Block(heap, x) # b
    BY <2>1 DEF Block
  <2>3. \A x \in Used(heap) : x \in Live(heap')
    BY <1>2 DEF Used
  <2>q. QED BY <1>2, <2>2, <2>3 DEF Same, Block
<1>7. Promise!Gap(Blocks \ {b}, p, heap'.size[c])
  <2>1. \A y \in Blocks \ {b} : \E x \in Live(heap') : x # c /\ y = Block(heap', x)
    BY <1>6, BlocksAre DEF BlocksOf
  <2>q. QED BY <1>1, <1>2, <1>4, <2>1, LiveGap
<1>8. Blocks' = (Blocks \ {b}) \cup {[addr |-> b.addr, len |-> heap'.size[c]]}
  <2>1. Blocks' = BlocksOf(heap')
    BY BlocksAre
  <2>2. Block(heap', c) = [addr |-> b.addr, len |-> heap'.size[c]]
    BY <1>2, <1>4 DEF Block
  <2>3. BlocksOf(heap') = (BlocksOf(heap) \ {b}) \cup {Block(heap', c)}
    BY <1>2, <1>6 DEF BlocksOf
  <2>q. QED BY <2>1, <2>2, <2>3, BlocksAre
<1> HIDE DEF b
<1>9. /\ Promise!Answer("realloc", n, b.addr, 0, FALSE)
      /\ b.len <= heap'.size[c] /\ Promise!Gap(Blocks \ {b}, b.addr, heap'.size[c])
  BY <1>2, <1>3, <1>4, <1>7
<1> QED BY <1>4, <1>5, <1>8, <1>9 DEF Promise!Resize

(* realloc that must move is the second or the third case, or it throws.   *)
LEMMA MoveRefines ==
  ASSUME Sane, IInv, IInv', Aligned(heap), NEW p \in Pointers, NEW n \in Requests, ReallocMoves(p, n)
  PROVE  Promise!Resize \/ Promise!Throw("realloc")
<1> DEFINE c == FindUsed(heap, p)
           b == Block(heap, c)
           m == FixupSize(FixupSize(n))
           d == FindFree(heap, m)
<1>1. /\ n \in Nat /\ n <= m /\ m \in Nat /\ 0 < m
      /\ m = FixupSize(n) /\ m = Promise!RoundUp(n)
      /\ Struct(heap) /\ Wf(heap) /\ Struct(heap')
  BY FixupRounds, FixupPositive DEF IInv, Wf
<1>2. MustMove(p, n) /\ c \in Used(heap) /\ heap.data[c] = p /\ heap.size[c] < FixupSize(n)
  BY MoveCases, FindUsedUsed DEF MustMove, Used
<1>3. b \in Blocks /\ b.addr = p /\ b.len = heap.size[c] /\ b.len \in Nat
  BY <1>1, <1>2, BlocksAre, LiveFacts DEF Used, BlocksOf, Block
<1>4. CASE Fits(heap, m) = {} /\ Answer("realloc", n, 0, 0, FALSE) /\ UNCHANGED <<heap, frees>>
  <2>1. UNCHANGED Blocks /\ Promise!Answer("realloc", n, 0, 0, FALSE)
    BY <1>4 DEF Answer, Promise!Answer, Blocks, Used, Live
  <2>2. ~ Promise!HasGap(Blocks, Promise!RoundUp(n))
    BY <1>1, <1>4, NoFitNoGap, BlocksAre
  <2>q. QED BY <1>3, <2>1, <2>2 DEF Promise!Resize
<1>5. CASE Answer("realloc", n, 0, 0, TRUE) /\ UNCHANGED <<heap, frees>>
  <2>1. UNCHANGED Blocks /\ Promise!Answer("realloc", n, 0, 0, TRUE)
    BY <1>5 DEF Answer, Promise!Answer, Blocks, Used, Live
  <2>q. QED BY <2>1 DEF Promise!Throw
<1>6. CASE Moved(p, n)
  <2>1. /\ d \in Live(heap) /\ d \notin Used(heap)
        /\ Used(heap') = (Used(heap) \cup {d}) \ {c}
        /\ Same(heap, heap', Used(heap) \ {c})
        /\ heap'.data[d] = heap.data[d] /\ m <= heap'.size[d]
        /\ Promise!Gap(Blocks, heap.data[d], heap'.size[d])
    BY <1>2, <1>6, MovedFacts, BlocksAre
  <2>2. Promise!Answer("realloc", n, heap.data[d], b.len, FALSE)
    BY <1>3, <1>6 DEF Moved, Answer, Promise!Answer
  <2> HIDE DEF c, m, d
  <2>3. heap.data[d] \in Promise!Addresses
    BY <1>1, <2>1, LiveFacts DEF Aligned, Promise!Addresses
  <2>4. d # c /\ d \in Used(heap')
    BY <1>2, <2>1
  <2>5. heap'.size[d] \in Promise!Lengths /\ n <= heap'.size[d] /\ b.len < heap'.size[d]
    <3>1. d \in Live(heap')
      BY <2>4 DEF Used
    <3>q. QED BY <1>1, <1>2, <1>3, <2>1, <3>1, LiveFacts DEF Promise!Lengths
  <2>6. Blocks' = (Blocks \ {b}) \cup {[addr |-> heap.data[d], len |-> heap'.size[d]]}
    <3>1. \A x \in Used(heap) : x # c => Block(heap, x) = Block(heap', x) /\ Block(heap, x) # b
      <4>1. \A x \in Used(heap) : x # c => heap.data[x] # heap.data[c]
        BY <1>1, <1>2, Disjoint DEF Used
      <4>q. QED BY <2>1, <4>1 DEF Same, Block
    <3>2. BlocksOf(heap') = (BlocksOf(heap) \ {b}) \cup {Block(heap', d)}
      BY <1>2, <2>1, <2>4, <3>1 DEF BlocksOf
    <3>3. Blocks' = BlocksOf(heap') /\ Block(heap', d) = [addr |-> heap.data[d], len |-> heap'.size[d]]
      BY <2>1, BlocksAre DEF Block
    <3>q. QED BY <3>2, <3>3, BlocksAre
  <2> HIDE DEF b
  <2>q. QED BY <1>3, <2>1, <2>2, <2>3, <2>5, <2>6 DEF Promise!Resize
<1> QED BY <1>4, <1>5, <1>6, MoveCases

(* free is Release, or nothing.                                            *)
LEMMA FreeRefines ==
  ASSUME IInv, NEW p \in Pointers, Free(p)
  PROVE  Promise!Release \/ Promise!Unknown
<1> DEFINE c == FindUsed(heap, p)
<1>1. CASE At(heap, p) = {} /\ Answer("free", p, -1, 0, FALSE) /\ UNCHANGED heap
  <2>1. UNCHANGED Blocks /\ Promise!Answer("free", p, -1, 0, FALSE) /\ \A b \in Blocks : b.addr # p
    BY <1>1, BlockAddresses, BlocksAre DEF Answer, Promise!Answer, Blocks, Used, Live
  <2>q. QED BY <2>1 DEF Promise!Unknown
<1>2. CASE /\ At(heap, p) # {} /\ heap' = InternalFree(heap, c)
           /\ Answer("free", p, 0, 0, FALSE)
  <2>1. /\ c \in Used(heap) /\ heap.data[c] = p
        /\ Used(heap') = Used(heap) \ {c} /\ Same(heap, heap', Used(heap'))
    BY <1>2, FreedFacts
  <2>2. Blocks' = Blocks \ {Block(heap, c)}
    <3>1. BlocksOf(heap') = BlocksOf(heap) \ {Block(heap, c)}
      BY <2>1, BlocksRemove DEF IInv, Wf
    <3>2. Blocks' = BlocksOf(heap')
      BY BlocksAre
    <3>q. QED BY <3>1, <3>2, BlocksAre
  <2>3. Block(heap, c) \in Blocks /\ Block(heap, c).addr = p
    BY <2>1, BlocksAre DEF BlocksOf, Block
  <2>4. Promise!Answer("free", Block(heap, c).addr, 0, 0, FALSE)
    BY <1>2, <2>3 DEF Answer, Promise!Answer
  <2>q. QED BY <2>2, <2>3, <2>4 DEF Promise!Release
<1> QED BY <1>1, <1>2 DEF Free

LEMMA StepRefines ==
  ASSUME Sane, IInv, IInv', Aligned(heap), [Next]_vars
  PROVE  [Promise!Next]_(Promise!vars)
<1>1. ASSUME NEW call \in {"malloc", "realloc"}, NEW n \in Requests, Malloc(call, n)
      PROVE  Promise!Next
  BY <1>1, MallocRefines DEF Promise!Next
<1>2. ASSUME NEW p \in Pointers, NEW n \in Requests, ReallocUnknown(p, n)
      PROVE  Promise!Next
  <2>1. p # 0 /\ UNCHANGED Blocks /\ Promise!Answer("realloc", n, 0, 0, FALSE) /\ \A b \in Blocks : b.addr # p
    BY <1>2, BlockAddresses, BlocksAre DEF ReallocUnknown, Answer, Promise!Answer, Blocks, Used, Live
  <2>q. QED BY <2>1 DEF Promise!Next, Promise!Unknown
<1>3. ASSUME NEW p \in Pointers, NEW n \in Requests, ReallocInPlace(p, n)
      PROVE  Promise!Next
  BY <1>3, InPlaceRefines DEF Promise!Next
<1>4. ASSUME NEW p \in Pointers, NEW n \in Requests, ReallocMoves(p, n)
      PROVE  Promise!Next
  BY <1>4, MoveRefines DEF Promise!Next
<1>5. ASSUME NEW p \in Pointers, Free(p)
      PROVE  Promise!Next
  BY <1>5, FreeRefines DEF Promise!Next
<1>6. CASE UNCHANGED vars
  BY <1>6 DEF vars, Promise!vars, Blocks, Used, Live
<1> QED BY <1>1, <1>2, <1>3, <1>4, <1>5, <1>6 DEF Next

LEMMA StartRefines == Init => Promise!Init
<1> SUFFICES ASSUME Init PROVE Promise!Init
  OBVIOUS
<1>1. Blocks = {}
  BY UsedAtStart DEF Blocks
<1> QED BY <1>1 DEF Init, Promise!Init

(* First fit over a coalesced tiling keeps everything the doc comments of  *)
(* native/heap.hpp promise: blocks are aligned, disjoint and long enough,  *)
(* move as a whole, stay as they are when a call fails, and are refused    *)
(* only when no free bytes in a row are enough.                            *)
THEOREM HeapImplementsAllocator == Sane => (Spec => ImplementsAllocator)
<1> SUFFICES ASSUME Sane PROVE Spec => Promise!Spec
  BY DEF ImplementsAllocator
<1>1. IInv /\ Aligned(heap) /\ [Next]_vars => (IInv /\ Aligned(heap))' /\ [Promise!Next]_(Promise!vars)
  BY NextIInv, AlignedStep, StepRefines
<1>q. QED BY <1>1, InitIInv, AlignedStart, StartRefines, PTL DEF Spec, Promise!Spec
-----------------------------------------------------------------------------
(***************************************************************************)
(* The walk of find_free.  It goes from chunk to chunk in address order,   *)
(* so it never comes back to a chunk; a chunk it did not pass would have   *)
(* to lie before one it passed, where the tiling leaves no room, or beyond *)
(* its last step, and it has as many steps as there are records.           *)
(***************************************************************************)
IsWalk(h, w) ==
  w = [i \in Chunks |-> IF i = 0 THEN Base
                        ELSE IF w[i - 1] = Null THEN Null ELSE h.next[w[i - 1]]]

LEMMA EveryNat ==
  ASSUME NEW S, 0 \in S, \A n \in Nat : n \in S => n + 1 \in S
  PROVE  Nat \subseteq S
<1> SUFFICES ASSUME Nat \ S # {} PROVE FALSE
  OBVIOUS
<1>1. PICK x \in Nat \ S : \A y \in Nat \ S : x <= y
  BY NatMinimum
<1>2. x # 0 /\ x - 1 \in Nat /\ (x - 1) + 1 = x
  BY <1>1
<1>3. x - 1 \in S
  BY <1>1, <1>2
<1> QED BY <1>1, <1>2, <1>3

(* The recursive definition of the walk defines one.                       *)
LEMMA WalkExists ==
  ASSUME NEW h
  PROVE  \E w : IsWalk(h, w)
<1> DEFINE After(w, i) == IF w[i - 1] = Null THEN Null ELSE h.next[w[i - 1]]
           Good(m, w) == /\ w = [i \in 0..m |-> w[i]]
                         /\ w[0] = Base
                         /\ \A i \in 1..m : w[i] = After(w, i)
           S == {m \in Nat : \E w : Good(m, w)}
<1>1. 0 \in S
  <2> DEFINE v == [i \in 0..0 |-> Base]
  <2>1. Good(0, v)
    OBVIOUS
  <2> HIDE DEF Good, v
  <2> QED BY <2>1
<1>2. ASSUME NEW m \in Nat, m \in S PROVE m + 1 \in S
  <2>1. PICK w : Good(m, w)
    BY <1>2, Zenon
  <2> DEFINE v == [i \in 0..(m + 1) |-> IF i = m + 1 THEN After(w, m + 1) ELSE w[i]]
  <2>2. v = [i \in 0..(m + 1) |-> v[i]] /\ v[0] = Base
    BY <2>1
  <2>3. \A i \in 1..(m + 1) : v[i] = After(v, i)
    <3> SUFFICES ASSUME NEW i \in 1..(m + 1) PROVE v[i] = After(v, i)
      OBVIOUS
    <3>1. v[i - 1] = w[i - 1]
      OBVIOUS
    <3>2. CASE i = m + 1
      BY <3>1, <3>2
    <3>3. CASE i # m + 1
      <4>1. i \in 1..m /\ v[i] = w[i]
        BY <3>3
      <4>2. w[i] = After(w, i)
        BY <2>1, <4>1
      <4> HIDE DEF v
      <4> QED BY <3>1, <4>1, <4>2
    <3> QED BY <3>2, <3>3
  <2>4. Good(m + 1, v)
    BY <2>2, <2>3
  <2> HIDE DEF Good, v
  <2> QED BY <2>4
<1>3. MaxChunks \in S
  <2> HIDE DEF S
  <2> QED BY <1>1, <1>2, EveryNat, ChunkFacts
<1>4. PICK w : Good(MaxChunks, w)
  BY <1>3, Zenon
<1>5. IsWalk(h, w)
  <2> DEFINE v == [i \in Chunks |-> IF i = 0 THEN Base ELSE After(w, i)]
  <2>1. \A i \in Chunks : w[i] = v[i]
    BY <1>4, ChunkFacts DEF Chunks
  <2>2. w = [i \in Chunks |-> w[i]]
    BY <1>4 DEF Chunks
  <2>3. v = [i \in Chunks |-> v[i]]
    OBVIOUS
  <2>4. w = v
    <3> HIDE DEF v, Good
    <3> QED BY <2>1, <2>2, <2>3
  <2> QED BY <2>4 DEF IsWalk
<1> QED BY <1>5

(* The walk starts at the base chunk and stays in the list until it ends.  *)
LEMMA WalkLive ==
  ASSUME NEW h, Struct(h), NEW w, IsWalk(h, w)
  PROVE  /\ w[0] = Base /\ Base \in Live(h)
         /\ \A i \in Chunks : w[i] \in Live(h) \cup {Null}
         /\ \A i \in Chunks : i > 0 => w[i] = IF w[i - 1] = Null THEN Null ELSE h.next[w[i - 1]]
<1>1. \A i \in Chunks : w[i] = IF i = 0 THEN Base
                               ELSE IF w[i - 1] = Null THEN Null ELSE h.next[w[i - 1]]
  BY DEF IsWalk
<1>2. w[0] = Base /\ \A i \in Chunks : i > 0 => w[i] = IF w[i - 1] = Null THEN Null ELSE h.next[w[i - 1]]
  BY <1>1, ChunkFacts DEF Chunks, Base
<1>3. Base \in Live(h)
  BY DEF Struct, HeapType, Live, Chunks, Base
<1> DEFINE S == {i \in Nat : i \in Chunks => w[i] \in Live(h) \cup {Null}}
<1>4. 0 \in S
  BY <1>2, <1>3
<1>5. ASSUME NEW i \in Nat, i \in S PROVE i + 1 \in S
  <2> SUFFICES ASSUME i + 1 \in Chunks PROVE w[i + 1] \in Live(h) \cup {Null}
    OBVIOUS
  <2>1. i \in Chunks /\ (i + 1) - 1 = i /\ i + 1 > 0
    BY ChunkFacts DEF Chunks
  <2>2. w[i + 1] = IF w[i] = Null THEN Null ELSE h.next[w[i]]
    BY <1>2, <2>1
  <2>3. w[i] \in Live(h) \cup {Null}
    BY <1>5, <2>1
  <2> QED BY <2>2, <2>3 DEF Struct, Linked
<1>6. Nat \subseteq S
  <2> HIDE DEF S
  <2> QED BY <1>4, <1>5, EveryNat
<1> QED BY <1>2, <1>3, <1>6 DEF Chunks

(* It goes up in memory: a later chunk lies beyond an earlier one.         *)
LEMMA WalkAscends ==
  ASSUME NEW h, Struct(h), NEW w, IsWalk(h, w),
         NEW i \in Chunks, NEW j \in Chunks, i < j, w[j] # Null
  PROVE  /\ w[i] \in Live(h) /\ w[j] \in Live(h)
         /\ h.data[w[i]] + h.size[w[i]] <= h.data[w[j]]
<1> DEFINE Below(k) == /\ w[i] \in Live(h) /\ w[k] \in Live(h)
                       /\ h.data[w[i]] + h.size[w[i]] <= h.data[w[k]]
           S == {n \in Nat : i + 1 + n \in Chunks /\ w[i + 1 + n] # Null => Below(i + 1 + n)}
<1>1. i \in Nat /\ j \in Nat
  BY DEF Chunks
<1>2. ASSUME NEW k \in Nat, k + 1 \in Chunks, w[k + 1] # Null
      PROVE  /\ k \in Chunks /\ w[k] \in Live(h) /\ w[k + 1] \in Live(h)
             /\ h.data[w[k + 1]] = h.data[w[k]] + h.size[w[k]]
  <2>1. k \in Chunks /\ (k + 1) - 1 = k /\ k + 1 > 0
    BY <1>2, ChunkFacts DEF Chunks
  <2>2. w[k + 1] = IF w[k] = Null THEN Null ELSE h.next[w[k]]
    BY <1>2, <2>1, WalkLive
  <2>3. w[k] \in Live(h) /\ h.next[w[k]] # Null
    BY <1>2, <2>1, <2>2, WalkLive
  <2> QED BY <1>2, <2>1, <2>2, <2>3, SuccessorFacts
<1>3. 0 \in S
  BY <1>1, <1>2, LiveFacts
<1>4. ASSUME NEW n \in Nat, n \in S PROVE n + 1 \in S
  <2> DEFINE k == i + 1 + n
  <2> SUFFICES ASSUME k + 1 \in Chunks, w[k + 1] # Null PROVE Below(k + 1)
    BY <1>1
  <2>1. k \in Nat
    BY <1>1
  <2>2. /\ k \in Chunks /\ w[k] \in Live(h) /\ w[k + 1] \in Live(h)
        /\ h.data[w[k + 1]] = h.data[w[k]] + h.size[w[k]]
    BY <1>2, <2>1
  <2>3. w[k] # Null
    BY <2>2, ChunkFacts DEF Struct
  <2>4. Below(k)
    BY <1>4, <2>2, <2>3
  <2> QED BY <2>2, <2>4, LiveFacts
<1>5. j - (i + 1) \in S
  <2>1. j - (i + 1) \in Nat
    BY <1>1
  <2> HIDE DEF S
  <2> QED BY <1>3, <1>4, <2>1, EveryNat
<1>6. i + 1 + (j - (i + 1)) = j
  BY <1>1
<1> QED BY <1>5, <1>6

(* It passes every chunk of the list.                                      *)
LEMMA WalkVisits ==
  ASSUME NEW h, Struct(h), NEW w, IsWalk(h, w), NEW c \in Live(h)
  PROVE  \E i \in Chunks : w[i] = c
<1> SUFFICES ASSUME \A i \in Chunks : w[i] # c PROVE FALSE
  OBVIOUS
<1> DEFINE S == {i \in Nat : i \in Chunks => w[i] \in Live(h) /\ h.data[w[i]] < h.data[c]}
<1>1. 0 \in S
  <2>1. w[0] = Base /\ Base \in Live(h) /\ w[0] # c
    BY WalkLive, ChunkFacts DEF Base
  <2>2. h.data[Base] = Lo /\ Lo <= h.data[c] /\ h.data[Base] # h.data[c]
    BY <2>1, LiveFacts, Disjoint DEF Struct, Tiled
  <2> QED BY <2>1, <2>2, LiveFacts
<1>2. ASSUME NEW i \in Nat, i \in S PROVE i + 1 \in S
  <2> SUFFICES ASSUME i + 1 \in Chunks
               PROVE  w[i + 1] \in Live(h) /\ h.data[w[i + 1]] < h.data[c]
    OBVIOUS
  <2>1. i \in Chunks /\ (i + 1) - 1 = i /\ i + 1 > 0
    BY ChunkFacts DEF Chunks
  <2>2. w[i] \in Live(h) /\ h.data[w[i]] < h.data[c] /\ w[i] # c /\ w[i] # Null
    BY <1>2, <2>1, ChunkFacts DEF Struct
  <2>3. w[i + 1] = h.next[w[i]]
    BY <2>1, <2>2, WalkLive
  <2>4. h.data[w[i]] + h.size[w[i]] <= h.data[c]
    BY <2>2, Disjoint, LiveFacts
  <2>5. h.next[w[i]] # Null
    <3>1. h.data[w[i]] + h.size[w[i]] < End
      BY <2>2, <2>4, LiveFacts
    <3>2. End \in Nat
      BY ArenaAssumption
    <3> QED BY <2>2, <3>1, <3>2, LiveFacts DEF Struct, Tiled
  <2>6. w[i + 1] \in Live(h) /\ h.data[w[i + 1]] = h.data[w[i]] + h.size[w[i]]
    BY <2>2, <2>3, <2>5, SuccessorFacts
  <2>7. w[i + 1] # c
    OBVIOUS
  <2> QED BY <2>2, <2>4, <2>6, <2>7, Disjoint, LiveFacts
<1>3. \A i \in Chunks : w[i] \in Live(h) \ {c}
  <2>1. Nat \subseteq S
    <3> HIDE DEF S
    <3> QED BY <1>1, <1>2, EveryNat
  <2> QED BY <2>1 DEF Chunks
<1> DEFINE f == [i \in Chunks |-> w[i]]
           T == Chunks \ {c}
<1>4. f \in [Chunks -> T]
  BY <1>3, ChunkFacts DEF Struct
<1>5. IsFiniteSet(Chunks) /\ IsFiniteSet(T) /\ Cardinality(T) < Cardinality(Chunks)
  <2>1. IsFiniteSet(Chunks)
    BY ChunkFacts, FS_Interval DEF Chunks
  <2>2. c \in Chunks
    BY ChunkFacts DEF Struct
  <2>3. IsFiniteSet(T) /\ Cardinality(T) = Cardinality(Chunks) - 1
    BY <2>1, <2>2, FS_RemoveElement
  <2>4. Cardinality(Chunks) \in Nat
    BY <2>1, FS_CardinalityType
  <2> QED BY <2>1, <2>3, <2>4
<1>6. PICK i, j \in Chunks : i # j /\ f[i] = f[j]
  <2> HIDE DEF f, T
  <2> QED BY <1>4, <1>5, FS_PigeonHole
<1>7. ASSUME NEW x \in Chunks, NEW y \in Chunks, x < y PROVE w[x] # w[y]
  <2>1. w[y] # Null
    BY <1>3, ChunkFacts DEF Struct
  <2> QED BY <1>7, <2>1, WalkAscends, LiveFacts
<1> QED BY <1>6, <1>7 DEF Chunks

(* The first chunk of the walk that fits is the one of lowest address.     *)
LEMMA FirstFit ==
  ASSUME NEW h, Struct(h), NEW w, IsWalk(h, w), NEW n \in Nat, NEW i \in Chunks,
         w[i] \in Fits(h, n), \A j \in Chunks : j < i => w[j] \notin Fits(h, n)
  PROVE  w[i] = FindFree(h, n)
<1>1. FindFree(h, n) \in Fits(h, n)
  BY FindFreeFits DEF Struct
<1>2. \A d \in Fits(h, n) : d \in Live(h) /\ h.data[d] \in Nat
  BY LiveFacts DEF Fits
<1>3. ASSUME NEW d \in Fits(h, n) PROVE h.data[w[i]] <= h.data[d]
  <2>1. PICK k \in Chunks : w[k] = d
    BY <1>2, WalkVisits
  <2>2. ~ (k < i)
    BY <2>1
  <2>3. CASE k = i
    BY <1>2, <2>1, <2>3
  <2>4. CASE i < k
    <3>1. w[k] # Null
      BY <1>2, <2>1, ChunkFacts DEF Struct
    <3> QED BY <2>1, <2>4, <3>1, WalkAscends, LiveFacts
  <2> QED BY <2>2, <2>3, <2>4 DEF Chunks
<1>4. \A d \in Fits(h, n) : h.data[FindFree(h, n)] <= h.data[d]
  BY <1>3 DEF FindFree
<1>5. h.data[w[i]] = h.data[FindFree(h, n)]
  BY <1>1, <1>2, <1>3, <1>4
<1> QED BY <1>1, <1>2, <1>5, Disjoint

(* find_free's walk along the list passes every live chunk, and stops at   *)
(* the chunk of lowest address that fits, for every arena.                 *)
THEOREM ListOrderCorrect == Spec => []ListOrder
<1>1. ASSUME IInv PROVE ListOrder
  <2> DEFINE w == CHOOSE v : IsWalk(heap, v)
  <2>1. IsWalk(heap, w)
    BY WalkExists, Zenon
  <2>2. Struct(heap)
    BY <1>1 DEF IInv, Wf
  <2> HIDE DEF w
  <2>3. {w[i] : i \in Chunks} \ {Null} = Live(heap)
    <3>1. \A i \in Chunks : w[i] \in Live(heap) \cup {Null}
      BY <2>1, <2>2, WalkLive
    <3>2. \A c \in Live(heap) : c # Null /\ \E i \in Chunks : w[i] = c
      BY <2>1, <2>2, WalkVisits, ChunkFacts DEF Struct
    <3> QED BY <3>1, <3>2
  <2>4. \A n \in Requests, i \in Chunks :
           (/\ w[i] \in Fits(heap, FixupSize(n))
            /\ \A j \in Chunks : j < i => w[j] \notin Fits(heap, FixupSize(n)))
           => w[i] = FindFree(heap, FixupSize(n))
    <3> TAKE n \in Requests, i \in Chunks
    <3>1. FixupSize(n) \in Nat
      BY ArenaAssumption, FixupPositive
    <3> QED BY <2>1, <2>2, <3>1, FirstFit
  <2> USE DEF w
  <2> QED BY <2>3, <2>4, Zenon DEF ListOrder, IsWalk
<1>q. QED BY <1>1, InitIInv, NextIInv, PTL DEF Spec
=============================================================================
