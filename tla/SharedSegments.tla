---------------------------- MODULE SharedSegments ----------------------------
(***************************************************************************)
(* The process-wide cache of decoded execute segments:                     *)
(* shared_exec_segment.cpp, and create_execute_segment,                    *)
(* evict_execute_segments and ~Memory of memory.cpp.  Every thread of the  *)
(* host makes a machine, which looks its segment up by key and builds it   *)
(* when it is missing, uses it, and is reset or destroyed.                 *)
(*                                                                         *)
(* Two kinds of locks: m_mutex of the map, and one mutex per map entry,    *)
(* which is held while the segment of the entry is built.  An entry is     *)
(* never taken out of the map.  Segments are counted by shared_ptr.        *)
(***************************************************************************)
EXTENDS Integers, Sequences, FiniteSets

CONSTANTS
  Hosts,       (* the threads of the host                                  *)
  Keys,        (* begin address, checksum and arena size of a segment      *)
  Handlers,    (* the instruction handlers the decoder can answer          *)
  HandlersOf,  (* the handlers the code of each key needs                  *)
  None,        (* nobody, and no segment                                   *)
  MaxMachines  (* bound on the machines that are made                      *)

Segments == 1..(Cardinality(Hosts) + Cardinality(Keys))

ASSUME SharedAssumption ==
  /\ IsFiniteSet(Hosts) /\ IsFiniteSet(Keys)
  /\ HandlersOf \in [Keys -> SUBSET Handlers]
  /\ None \notin Hosts \cup Keys \cup Segments
  /\ MaxMachines \in Nat

VARIABLES
  mapMutex,  (* who holds m_mutex across a step                            *)
  mutex,     (* who holds the mutex of each entry                          *)
  entry,     (* the segment each entry refers to                           *)
  segment,   (* the segments: key, built, and the numbers its cache has    *)
             (* for the handlers, counted from 1 (table)                   *)
  handlers,  (* the slots of DecoderData::m_handlers, one for the process  *)
  count,     (* m_handlers.size()                                          *)
  at,        (* where each thread is                                       *)
  key,       (* the key it works on                                        *)
  local,     (* its local shared_ptr                                       *)
  held,      (* m_main_exec_segment of its machine                         *)
  todo,      (* the handlers it has still to look up while it builds       *)
  found,     (* the handler compute_handler_for works on, and the size of  *)
             (* m_handlers it read                                         *)
  made       (* how many machines were made                                *)

vars == <<mapMutex, mutex, entry, segment, handlers, count, at, key, local, held, todo, found, made>>

NewSegment(k) == [key |-> k, built |-> "no", table |-> [f \in Handlers |-> 0]]
NoLookup == [handler |-> None, size |-> 0]

(* use_count of a segment.                                                 *)
Uses(s) ==
  Cardinality({k \in Keys : entry[k] = s})
  + Cardinality({h \in Hosts : local[h] = s})
  + Cardinality({h \in Hosts : held[h] = s})

Init ==
  /\ mapMutex = None /\ mutex = [k \in Keys |-> None]
  /\ entry = [k \in Keys |-> None]
  /\ segment = [s \in Segments |-> NewSegment(None)]
  /\ handlers = <<>> /\ count = 0
  /\ at = [h \in Hosts |-> "idle"]
  /\ key = [h \in Hosts |-> None]
  /\ local = [h \in Hosts |-> None]
  /\ held = [h \in Hosts |-> None]
  /\ todo = [h \in Hosts |-> {}]
  /\ found = [h \in Hosts |-> NoLookup]
  /\ made = 0
------------------------------------------------------------------------------
Go(h, from, to) == at[h] = from /\ at' = [at EXCEPT ![h] = to]

NoKey(h) == key' = [key EXCEPT ![h] = None]

building == <<segment, handlers, count, todo, found>>
locks == <<mapMutex, mutex>>

(* create_execute_segment for the code of key k.                           *)
Create(h, k) ==
  /\ held[h] = None /\ made < MaxMachines
  /\ Go(h, "idle", "get_segment")
  /\ key' = [key EXCEPT ![h] = k]
  /\ made' = made + 1
  /\ UNCHANGED <<locks, entry, local, held, building>>

(* get_segment makes the entry if there is none, under m_mutex.            *)
GetSegment(h) ==
  /\ mapMutex = None
  /\ Go(h, "get_segment", "get")
  /\ UNCHANGED <<locks, entry, key, local, held, made, building>>

(* Taking the mutex of an entry waits until nobody has it.                 *)
Free_Ignored(h) == TRUE
Free(h) == mutex[key[h]] = None

(* entry.get().                                                            *)
Get(h) ==
  /\ Go(h, "get", IF entry[key[h]] # None THEN "adopt" ELSE "lock")
  /\ Free(h)
  /\ local' = [local EXCEPT ![h] = entry[key[h]]]
  /\ UNCHANGED <<locks, entry, key, held, made, building>>

Lock(h) ==
  /\ Go(h, "lock", "check")
  /\ Free(h)
  /\ mutex' = [mutex EXCEPT ![key[h]] = h]
  /\ UNCHANGED <<mapMutex, entry, key, local, held, made, building>>

Unlock(h) == mutex' = [mutex EXCEPT ![key[h]] = None]

(* The second look, under the entry's mutex.                               *)
Missing(h) == entry[key[h]] = None

(* Somebody else was faster.                                               *)
Found(h) ==
  /\ Go(h, "check", "adopt")
  /\ ~ Missing(h)
  /\ local' = [local EXCEPT ![h] = entry[key[h]]]
  /\ Unlock(h)
  /\ UNCHANGED <<mapMutex, entry, key, held, made, building>>

(* make_shared, stored in the entry before it is built.                    *)
MakeSegment(h) ==
  /\ Go(h, "check", "decode")
  /\ Missing(h)
  /\ \E s \in Segments :
       /\ Uses(s) = 0
       /\ \A t \in Segments : t < s => Uses(t) # 0
       /\ segment' = [segment EXCEPT ![s] = NewSegment(key[h])]
       /\ entry' = [entry EXCEPT ![key[h]] = s]
  /\ todo' = [todo EXCEPT ![h] = HandlersOf[key[h]]]
  /\ UNCHANGED <<locks, key, local, held, made, handlers, count, found>>

(* populate_decoder_cache: compute_handler_for(f) searches m_handlers, and *)
(* pushes f at the end when it is not there.  No lock covers m_handlers: a *)
(* push that races with another thread's goes to the slot where the vector *)
(* ended when this thread looked.                                          *)
Numbered(h, f, n) ==
  segment' = [segment EXCEPT ![entry[key[h]]].table[f] = n]

Search(h, f) ==
  /\ at[h] = "decode" /\ f \in todo[h]
  /\ todo' = [todo EXCEPT ![h] = @ \ {f}]
  /\ \/ \E n \in 1..count :
          /\ handlers[n] = f
          /\ \A m \in 1..(n - 1) : handlers[m] # f
          /\ Numbered(h, f, n)
          /\ UNCHANGED <<at, found>>
     \/ /\ \A n \in 1..count : handlers[n] # f
        /\ Go(h, "decode", "push")
        /\ found' = [found EXCEPT ![h] = [handler |-> f, size |-> count]]
        /\ UNCHANGED segment
  /\ UNCHANGED <<locks, entry, key, local, held, made, handlers, count>>

Push(h) ==
  LET n == found[h].size + 1 IN
  /\ Go(h, "push", "decode")
  /\ handlers' = IF n \in DOMAIN handlers
                 THEN [handlers EXCEPT ![n] = found[h].handler]
                 ELSE Append(handlers, found[h].handler)
  /\ count' = n
  /\ Numbered(h, found[h].handler, n)
  /\ found' = [found EXCEPT ![h] = NoLookup]
  /\ UNCHANGED <<locks, entry, key, local, held, made, todo>>

(* set_decoder_cache, and the end of the block that holds the lock.        *)
Built(h) ==
  /\ todo[h] = {}
  /\ Go(h, "decode", "adopt")
  /\ segment' = [segment EXCEPT ![entry[key[h]]].built = "yes"]
  /\ local' = [local EXCEPT ![h] = entry[key[h]]]
  /\ Unlock(h)
  /\ UNCHANGED <<mapMutex, entry, key, held, made, handlers, count, todo, found>>

(* The translator or an allocation throws: the lock is released and the    *)
(* machine is not made; the segment stays in the entry as it is.           *)
AfterThrow_StillLocked(h) == UNCHANGED mutex
AfterThrow(h) == Unlock(h)

BuildThrows(h) ==
  /\ Go(h, "decode", "idle")
  /\ segment' = [segment EXCEPT ![entry[key[h]]].built = "failed"]
  /\ todo' = [todo EXCEPT ![h] = {}]
  /\ AfterThrow(h) /\ NoKey(h)
  /\ UNCHANGED <<mapMutex, entry, local, held, made, handlers, count, found>>

(* m_main_exec_segment = segment.                                          *)
Adopt(h) ==
  /\ Go(h, "adopt", "idle")
  /\ held' = [held EXCEPT ![h] = local[h]]
  /\ local' = [local EXCEPT ![h] = None]
  /\ UNCHANGED <<locks, entry, key, made, building>>

(* evict_execute_segments, from Memory::reset: remove_if_unique first, and *)
(* then the machine lets its segment go.                                   *)
HasMain_Assumed(h) == TRUE
HasMain(h) == held[h] # None

Evict(h) ==
  /\ HasMain(h)
  /\ Go(h, "idle", "remove")
  /\ UNCHANGED <<locks, entry, key, local, held, made, building>>

RemoveLocksMap(h) ==
  /\ mapMutex = None
  /\ Go(h, "remove", "remove_entry")
  /\ mapMutex' = h
  /\ UNCHANGED <<mutex, entry, key, local, held, made, building>>

Unique_Any(s) == TRUE
Unique(s) == Uses(s) = 1

RemoveIfUnique(h) ==
  LET k == segment[held[h]].key IN
  /\ Go(h, "remove_entry", "release")
  /\ mutex[k] = None
  /\ entry' = IF entry[k] # None /\ Unique(entry[k]) THEN [entry EXCEPT ![k] = None] ELSE entry
  /\ mapMutex' = None
  /\ UNCHANGED <<mutex, key, local, held, made, building>>

Release(h) ==
  /\ Go(h, "release", "idle")
  /\ held' = [held EXCEPT ![h] = None] /\ NoKey(h)
  /\ UNCHANGED <<locks, entry, local, made, building>>

(* ~Memory lets the segment go without a word to the cache.                *)
Destroy(h) ==
  /\ at[h] = "idle" /\ held[h] # None
  /\ held' = [held EXCEPT ![h] = None] /\ NoKey(h)
  /\ UNCHANGED <<locks, entry, at, local, made, building>>

(* What a thread does once it is in a call.                                *)
Step(h) ==
  \/ GetSegment(h) \/ Get(h) \/ Lock(h) \/ Found(h) \/ MakeSegment(h)
  \/ \E f \in Handlers : Search(h, f)
  \/ Push(h) \/ Built(h) \/ BuildThrows(h) \/ Adopt(h)
  \/ RemoveLocksMap(h) \/ RemoveIfUnique(h) \/ Release(h)

Next ==
  \E h \in Hosts :
    \/ \E k \in Keys : Create(h, k)
    \/ Evict(h) \/ Destroy(h) \/ Step(h)

(* Every thread of the host that is in a call goes on with it.             *)
Spec == Init /\ [][Next]_vars
FairSpec == Spec /\ \A h \in Hosts : WF_vars(Step(h))
------------------------------------------------------------------------------
Places == {"idle", "get_segment", "get", "lock", "check", "decode", "push",
           "adopt", "remove", "remove_entry", "release"}

TypeOK ==
  /\ mapMutex \in Hosts \cup {None} /\ mutex \in [Keys -> Hosts \cup {None}]
  /\ entry \in [Keys -> Segments \cup {None}]
  /\ at \in [Hosts -> Places]
  /\ key \in [Hosts -> Keys \cup {None}]
  /\ \A h \in Hosts : at[h] # "idle" => key[h] # None
  /\ local \in [Hosts -> Segments \cup {None}] /\ held \in [Hosts -> Segments \cup {None}]
  /\ todo \in [Hosts -> SUBSET Handlers]
  /\ segment \in [Segments -> [key : Keys \cup {None}, built : {"no", "yes", "failed"},
                              table : [Handlers -> Nat]]]
  /\ handlers \in Seq(Handlers) /\ count \in 0..Len(handlers)
  /\ found \in [Hosts -> [handler : Handlers \cup {None}, size : 0..Len(handlers)]]
  /\ made \in 0..MaxMachines

(* Machines with the same code share one segment, however creations,       *)
(* evictions and destructions interleave, and each has the segment of its  *)
(* key (memory.cpp:332, shared_exec_segment.cpp:35).                       *)
Shared ==
  \A h, i \in Hosts :
    held[h] # None =>
      /\ segment[held[h]].key = key[h]
      /\ held[i] # None /\ key[i] = key[h] => held[i] = held[h]

(* No machine gets a segment that another thread is still building         *)
(* (memory.cpp:335 stores it in the entry before it is built).  One whose  *)
(* build threw stays in the entry, and the next machine gets it as it is.  *)
NotUnderConstruction ==
  \A h \in Hosts : held[h] # None => segment[held[h]].built # "no"

(* A segment is built by one thread, which holds the mutex of its entry.   *)
OneBuilder ==
  \A h, i \in Hosts :
    {at[h], at[i]} \subseteq {"check", "decode", "push"} /\ key[h] = key[i] => h = i

(* Every call ends: nobody waits for ever for either kind of mutex.        *)
CallsEnd == \A h \in Hosts : at[h] # "idle" ~> at[h] = "idle"

(* The number of an instruction's handler in a decoder cache leads back to *)
(* that handler, as DecoderData::get_handler takes it to be: segments "can *)
(* be accessed concurrently by different threads"                          *)
(* (shared_exec_segment.hpp:58).                                           *)
HandlersRight ==
  \A h \in Hosts : held[h] # None =>
    LET table == segment[held[h]].table IN
    \A f \in Handlers : table[f] # 0 => table[f] \in DOMAIN handlers /\ handlers[table[f]] = f
==============================================================================
