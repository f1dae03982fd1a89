-------------------------------- MODULE Arena --------------------------------
(***************************************************************************)
(* native/heap.hpp: the allocator the machine runs outside the guest on    *)
(* behalf of the guest's malloc, calloc, realloc and free.  The state is   *)
(* the doubly linked list of chunks in address order, with the chunk       *)
(* records that are pooled for reuse.  Every operation is a function from  *)
(* heap to heap, so that realloc can be the composition the code writes.   *)
(*                                                                         *)
(* m_base_chunk is chunk 0; the records of m_chunks are 1, 2, ... in the   *)
(* order they are made.  m_free_chunks is a set: which pooled record is    *)
(* reused can be seen by nobody.                                           *)
(***************************************************************************)
EXTENDS Integers, FiniteSets

CONSTANTS
  Lo,         (* arena_base                                                *)
  End,        (* arena_end                                                 *)
  MaxChunks,  (* m_max_chunks, 4000 unless set_max_chunks changes it       *)
  SizeMod,    (* 2^64, the width of size_t                                 *)
  Requests,   (* the sizes the guest may ask for                           *)
  Pointers,   (* the pointers the guest may hand back                      *)
  MaxAllocs   (* bound on m_allocation_counter, to keep the runs finite    *)

(* Chunk data is a uint32_t and sizes are size_t: no sum of a chunk's data *)
(* and size overflows.  An arena at address 0 could not tell a block from  *)
(* a failure.                                                              *)
ASSUME ArenaAssumption ==
  /\ Lo \in Nat /\ End \in Nat /\ 0 < Lo /\ Lo < End /\ Lo % 16 = 0
  /\ MaxChunks \in Nat
  /\ SizeMod \in Nat /\ SizeMod % 16 = 0 /\ End + 16 <= SizeMod
  /\ Requests \subseteq 0..(SizeMod - 1)
  /\ Pointers \subseteq Nat
  /\ MaxAllocs \in Nat

VARIABLES
  heap,    (* the chunk list: next, prev, size, free, data of each chunk,  *)
           (* the pooled records and how many records were ever made       *)
  allocs,  (* m_allocation_counter: calls of Arena::malloc                 *)
  frees,   (* m_deallocation_counter: calls of internal_free               *)
  reply    (* what the last call answered                                  *)

vars == <<heap, allocs, frees, reply>>

Base   == 0
Null   == -1
Chunks == 0..MaxChunks

(* The chunks of the list: made, and not back in the pool.                 *)
Live(h) == (0..h.made) \ h.pool
Used(h) == {c \in Live(h) : ~ h.free[c]}
------------------------------------------------------------------------------
(* Sizes: rounded up to 16 in size_t arithmetic, and never less than 16.   *)
WordAlign_ToEight(n) ==
  LET w == (n + 7) % SizeMod IN w - (w % 8)

WordAlign_Truncates(n) == n - (n % 16)

WordAlign(n) ==
  LET w == (n + 15) % SizeMod IN w - (w % 16)

FixupSize(n) == IF WordAlign(n) < 16 THEN 16 ELSE WordAlign(n)

(* find_free walks the list and takes the first free chunk that is long    *)
(* enough.  The list is in address order (Tiled), so that chunk is the one *)
(* of lowest address; ListOrder compares with the walk itself.             *)
Fits(h, n) == {c \in Live(h) : h.free[c] /\ h.size[c] >= n}

FindFree_BestFit(h, n) ==
  CHOOSE c \in Fits(h, n) : \A d \in Fits(h, n) : h.size[c] <= h.size[d]

FindFree(h, n) ==
  CHOOSE c \in Fits(h, n) : \A d \in Fits(h, n) : h.data[c] <= h.data[d]

(* find_used: the chunk in use that starts at p.                           *)
At(h, p)       == {c \in Used(h) : h.data[c] = p}
FindUsed(h, p) == CHOOSE c \in At(h, p) : TRUE

(* new_chunk takes a pooled record or makes one, and throws at the limit.  *)
CanMake_OffByOne(h) == h.pool # {} \/ h.made <= MaxChunks
CanMake(h) == h.pool # {} \/ h.made < MaxChunks
NewChunk(h) == IF h.pool # {} THEN CHOOSE c \in h.pool : TRUE ELSE h.made + 1

(* f with the chunk c, when there is one, mapped to x.                     *)
Set(f, c, x) == [f EXCEPT ![c] = x]

(* merge_next: c takes over its successor, whose record goes to the pool.  *)
MergeNext_NoBackLink(h, c) ==
  LET n == h.next[c] IN
  [next |-> Set(h.next, c, h.next[n]),
   prev |-> h.prev,
   size |-> Set(h.size, c, h.size[c] + h.size[n]),
   free |-> h.free, data |-> h.data, pool |-> h.pool \cup {n}, made |-> h.made]

MergeNext(h, c) ==
  LET n == h.next[c] IN
  [next |-> Set(h.next, c, h.next[n]),
   prev |-> Set(h.prev, h.next[n], c),
   size |-> Set(h.size, c, h.size[c] + h.size[n]),
   free |-> h.free, data |-> h.data, pool |-> h.pool \cup {n}, made |-> h.made]

(* subsume_next: c grows to n bytes at the expense of its free successor d *)
(* (Shift), whose record goes to the pool when nothing is left of it.      *)
Shift(h, c, d, n) ==
  [next |-> h.next, prev |-> h.prev,
   size |-> Set(Set(h.size, d, h.size[d] - (n - h.size[c])), c, n),
   free |-> h.free,
   data |-> Set(h.data, d, h.data[d] + (n - h.size[c])),
   pool |-> h.pool, made |-> h.made]

SubsumeNext(h, c, n) ==
  LET d == h.next[c]
      g == Shift(h, c, d, n)
  IN IF h.size[c] + h.size[d] < n THEN h
     ELSE IF g.size[d] = 0
     THEN [next |-> Set(g.next, c, g.next[d]),
           prev |-> Set(g.prev, g.next[d], c),
           size |-> g.size, free |-> g.free, data |-> g.data,
           pool |-> g.pool \cup {d}, made |-> g.made]
     ELSE g

(* split_next: c keeps n bytes and a new free chunk after it the rest      *)
(* (Divide); an exact fit unlinks a free neighbour of c instead (Unlink).  *)
NeedsChunk(h, c, n) == h.size[c] > n

IsFree(h, c) == c # Null /\ h.free[c]

Divide(h, c, n) ==
  LET d == NewChunk(h) IN
  [next |-> Set(Set(h.next, d, h.next[c]), c, d),
   prev |-> Set(Set(h.prev, h.next[c], d), d, c),
   size |-> Set(Set(h.size, d, h.size[c] - n), c, n),
   free |-> [h.free EXCEPT ![d] = TRUE],
   data |-> Set(h.data, d, h.data[c] + n),
   pool |-> h.pool \ {d},
   made |-> IF h.pool # {} THEN h.made ELSE h.made + 1]

Unlink(h, c) ==
  LET p == h.prev[c]
      n == h.next[c]
  IN IF IsFree(h, p) /\ IsFree(h, n)
     THEN [h EXCEPT !.next = Set(@, p, n), !.prev = Set(@, n, p)]
     ELSE IF IsFree(h, p) THEN [h EXCEPT !.next = Set(@, p, Null)]
     ELSE IF IsFree(h, n) THEN [h EXCEPT !.prev = Set(@, n, Null)]
     ELSE h

SplitNext(h, c, n) ==
  IF NeedsChunk(h, c, n) THEN Divide(h, c, n) ELSE Unlink(h, c)

MarkFree(h, c) ==
  [next |-> h.next, prev |-> h.prev, size |-> h.size,
   free |-> [h.free EXCEPT ![c] = TRUE],
   data |-> h.data, pool |-> h.pool, made |-> h.made]

MarkUsed(h, c) ==
  [next |-> h.next, prev |-> h.prev, size |-> h.size,
   free |-> [h.free EXCEPT ![c] = FALSE],
   data |-> h.data, pool |-> h.pool, made |-> h.made]

(* internal_free: mark the chunk free, merge it with its successor and     *)
(* then with its predecessor, each when it is free.                        *)
MergeAhead(h, c) == IF IsFree(h, h.next[c]) THEN MergeNext(h, c) ELSE h
MergeBehind(h, c) == IF IsFree(h, h.prev[c]) THEN MergeNext(h, h.prev[c]) ELSE h

InternalFree_ForwardOnly(h, c) == MergeAhead(MarkFree(h, c), c)
InternalFree(h, c) == MergeBehind(MergeAhead(MarkFree(h, c), c), c)

(* malloc's heap when chunk c serves a request of n (fixed up) bytes.      *)
Take(h, c, n) == MarkUsed(SplitNext(h, c, n), c)
------------------------------------------------------------------------------
Answer(call, want, ret, copy, threw) ==
  reply' = [call |-> call, want |-> want, ret |-> ret, copy |-> copy, threw |-> threw]

Init ==
  /\ heap = [next |-> [c \in Chunks |-> Null],
             prev |-> [c \in Chunks |-> Null],
             size |-> [c \in Chunks |-> IF c = Base THEN End - Lo ELSE 0],
             free |-> [c \in Chunks |-> c = Base],
             data |-> [c \in Chunks |-> IF c = Base THEN Lo ELSE 0],
             pool |-> {},
             made |-> 0]
  /\ allocs = 0
  /\ frees = 0
  /\ reply = [call |-> "none", want |-> 0, ret |-> 0, copy |-> 0, threw |-> FALSE]

CountAlloc_Never == UNCHANGED allocs
CountAlloc == allocs < MaxAllocs /\ allocs' = allocs + 1

(* malloc(n), called by the guest or by realloc(0, n): no chunk is long    *)
(* enough; the chunk to split has no record for its rest; or a block.      *)
MallocFails(call, n) ==
  /\ Fits(heap, FixupSize(n)) = {}
  /\ Answer(call, n, 0, 0, FALSE)
  /\ UNCHANGED heap

MallocThrows(call, n) ==
  /\ Fits(heap, FixupSize(n)) # {}
  /\ NeedsChunk(heap, FindFree(heap, FixupSize(n)), FixupSize(n))
  /\ ~ CanMake(heap)
  /\ Answer(call, n, 0, 0, TRUE)
  /\ UNCHANGED heap

MallocTakes(call, n) ==
  LET c == FindFree(heap, FixupSize(n)) IN
  /\ Fits(heap, FixupSize(n)) # {}
  /\ NeedsChunk(heap, c, FixupSize(n)) => CanMake(heap)
  /\ heap' = Take(heap, c, FixupSize(n))
  /\ Answer(call, n, heap.data[c], 0, FALSE)

Malloc(call, n) ==
  /\ CountAlloc
  /\ MallocFails(call, n) \/ MallocThrows(call, n) \/ MallocTakes(call, n)
  /\ UNCHANGED frees

(* realloc(p, n) of a pointer that is no block in use: the default         *)
(* m_realloc_unknown_chunk answers 0.                                      *)
ReallocUnknown(p, n) ==
  /\ p # 0
  /\ At(heap, p) = {}
  /\ Answer("realloc", n, 0, 0, FALSE)
  /\ UNCHANGED <<heap, allocs, frees>>

(* The block is long enough, or grows into its free successor.             *)
ReallocInPlace(p, n) ==
  LET c   == FindUsed(heap, p)
      len == FixupSize(n)
      d   == heap.next[c]
  IN
  /\ p # 0 /\ At(heap, p) # {}
  /\ \/ heap.size[c] >= len /\ UNCHANGED heap
     \/ /\ heap.size[c] < len
        /\ IsFree(heap, d) /\ heap.size[c] + heap.size[d] >= len
        /\ heap' = SubsumeNext(heap, c, len)
  /\ Answer("realloc", n, p, 0, FALSE)
  /\ UNCHANGED <<allocs, frees>>

(* The block must move: malloc first, and only if that worked free the old *)
(* chunk.  The old length goes back to the caller, who copies.             *)
MustMove(p, n) ==
  LET c == FindUsed(heap, p)
      d == heap.next[c]
  IN /\ p # 0 /\ At(heap, p) # {}
     /\ heap.size[c] < FixupSize(n)
     /\ IsFree(heap, d) => heap.size[c] + heap.size[d] < FixupSize(n)

ReallocMoves(p, n) ==
  LET c == FindUsed(heap, p)
      m == FixupSize(FixupSize(n))
      d == FindFree(heap, m)
  IN
  /\ MustMove(p, n)
  /\ CountAlloc
  /\ \/ /\ Fits(heap, m) = {}
        /\ Answer("realloc", n, 0, 0, FALSE)
        /\ UNCHANGED <<heap, frees>>
     \/ /\ Fits(heap, m) # {} /\ NeedsChunk(heap, d, m) /\ ~ CanMake(heap)
        /\ Answer("realloc", n, 0, 0, TRUE)
        /\ UNCHANGED <<heap, frees>>
     \/ /\ Fits(heap, m) # {} /\ (NeedsChunk(heap, d, m) => CanMake(heap))
        /\ heap' = InternalFree(Take(heap, d, m), c)
        /\ frees' = frees + 1
        /\ Answer("realloc", n, heap.data[d], heap.size[c], FALSE)

Free(p) ==
  \/ /\ At(heap, p) = {}
     /\ Answer("free", p, -1, 0, FALSE)
     /\ UNCHANGED <<heap, allocs, frees>>
  \/ /\ At(heap, p) # {}
     /\ heap' = InternalFree(heap, FindUsed(heap, p))
     /\ frees' = frees + 1
     /\ Answer("free", p, 0, 0, FALSE)
     /\ UNCHANGED allocs

Next ==
  \/ \E n \in Requests : Malloc("malloc", n) \/ Malloc("realloc", n)
  \/ \E p \in Pointers, n \in Requests :
        ReallocUnknown(p, n) \/ ReallocInPlace(p, n) \/ ReallocMoves(p, n)
  \/ \E p \in Pointers : Free(p)

Spec == Init /\ [][Next]_vars
------------------------------------------------------------------------------
(* The state has its type.                                                 *)
HeapType(h) ==
  /\ h \in [next : [Chunks -> Chunks \cup {Null}],
            prev : [Chunks -> Chunks \cup {Null}],
            size : [Chunks -> Nat],
            free : [Chunks -> BOOLEAN],
            data : [Chunks -> Nat],
            pool : SUBSET (Chunks \ {Base}),
            made : Chunks]
  /\ h.pool \subseteq 1..h.made

TypeOK ==
  /\ HeapType(heap)
  /\ allocs \in Nat
  /\ frees \in Nat
  /\ reply \in [call : {"none", "malloc", "realloc", "free"}, want : Nat, ret : Int, copy : Nat, threw : BOOLEAN]

(* The list is doubly linked from the base chunk: next and prev of two     *)
(* chunks in use by the list are inverse to each other.                    *)
Linked(h) ==
  /\ h.prev[Base] = Null
  /\ \A c \in Live(h) :
        /\ h.next[c] # Null => h.next[c] \in Live(h) /\ h.prev[h.next[c]] = c
        /\ h.prev[c] # Null => h.prev[c] \in Live(h) /\ h.next[h.prev[c]] = c
        /\ h.prev[c] = Null => c = Base

(* The chunks tile the range: each starts where its predecessor ends, the  *)
(* last ends at End, no two overlap and every byte belongs to one.         *)
Tiled(h) ==
  /\ h.data[Base] = Lo
  /\ \A c \in Live(h) :
        /\ 0 < h.size[c] /\ Lo <= h.data[c] /\ h.data[c] + h.size[c] <= End
        /\ h.next[c] # Null => h.data[h.next[c]] = h.data[c] + h.size[c]
        /\ h.next[c] = Null => h.data[c] + h.size[c] = End
  /\ \A c, d \in Live(h) :
        c # d => \/ h.data[c] + h.size[c] <= h.data[d]
                 \/ h.data[d] + h.size[d] <= h.data[c]
  /\ \A a \in Lo..(End - 1) :
        \E c \in Live(h) : h.data[c] <= a /\ a < h.data[c] + h.size[c]

Coalesced(h) ==
  \A c \in Live(h) : h.free[c] => ~ IsFree(h, h.next[c])

(* However chunks were split, merged, subsumed and reused, the list is     *)
(* linked both ways and its chunks tile the arena exactly: no byte is lost *)
(* and no byte belongs to two blocks (split_next, merge_next,              *)
(* subsume_next).                                                          *)
HeapTiled == Linked(heap) /\ Tiled(heap)

(* Two free chunks are never neighbours (internal_free merges both ways,   *)
(* malloc's exact fit relies on it: otherwise split_next's else branch     *)
(* would cut chunks out of the list).                                      *)
NoFreeNeighbours == Coalesced(heap)

(* Chunk data is always 16-aligned, so is every block malloc returns (the  *)
(* doc of malloc promises 8).                                              *)
DataAligned == \A c \in Live(heap) : heap.data[c] % 16 = 0

(* The walk of find_free from the base chunk visits every live chunk, and  *)
(* the first one on it that fits is the one find_free is modelled by.      *)
ListOrder ==
  LET Walk[i \in Chunks] ==
        IF i = 0 THEN Base
        ELSE IF Walk[i - 1] = Null THEN Null ELSE heap.next[Walk[i - 1]]
  IN /\ {Walk[i] : i \in Chunks} \ {Null} = Live(heap)
     /\ \A n \in Requests, i \in Chunks :
           (/\ Walk[i] \in Fits(heap, FixupSize(n))
            /\ \A j \in Chunks : j < i => Walk[j] \notin Fits(heap, FixupSize(n)))
           => Walk[i] = FindFree(heap, FixupSize(n))

(* The two counters the host reads account for every block: a block in use *)
(* is an allocation that was not yet deallocated, moves of realloc         *)
(* included (test_native.cpp takes their difference as the number of live  *)
(* allocations).                                                           *)
CountersCover == Cardinality(Used(heap)) + frees <= allocs

(* A pointer malloc or realloc hands out is to a chunk in use of at least  *)
(* the size that was asked for.                                            *)
GrantedIsEnough ==
  (reply.call \in {"malloc", "realloc"} /\ reply.ret # 0) =>
     \E c \in At(heap, reply.ret) : heap.size[c] >= reply.want

(* The heap implements the allocator its doc comments promise.             *)
Blocks == {[addr |-> heap.data[c], len |-> heap.size[c]] : c \in Used(heap)}
Promise == INSTANCE Allocator WITH blocks <- Blocks
ImplementsAllocator == Promise!Spec
==============================================================================
