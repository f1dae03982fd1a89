------------------------------- MODULE Threads -------------------------------
(***************************************************************************)
(* Cooperative multithreading of one guest: posix/threads.cpp and the      *)
(* system calls of linux/syscalls_threads.cpp.  One thread owns the CPU;   *)
(* the others wait in m_suspended (they may run) or m_blocked (they wait   *)
(* on a futex).  Both lists hold raw pointers to entries of m_threads.  A  *)
(* pointer is modelled by the thread's tid, which is never reused; it      *)
(* dangles when the tid is no longer in threads.                           *)
(*                                                                         *)
(* The guest is any program: the running thread makes any system call of   *)
(* Calls or stores to a word.  A thread's registers are its position, the  *)
(* number of system calls it got through, and A0, the result it sees.      *)
(***************************************************************************)
EXTENDS Integers, Sequences, FiniteSets, Functions

CONSTANTS
  MaxTid,      (* bound on m_thread_counter, to keep the runs finite       *)
  MaxThreads,  (* m_max_threads: 50                                        *)
  MaxCalls,    (* bound on the system calls each thread gets through       *)
  Words,       (* futex words and tid words, counted in steps of 4 bytes   *)
  WordMod,     (* the words a 32-bit address reaches: 2^30                 *)
  Bits,        (* the bits of a futex bitset; 32 of them                   *)
  Masks,       (* the bitsets guests wait and wake with                    *)
  CloneFlags,  (* the flags guests clone with                              *)
  Calls        (* the system calls guests make                             *)

Main == 0
Tids == 0..MaxTid
NoWord == 0
AgainError == -11
NoSpaceError == -28
Argument == -1000   (* A0 still holds the call's first argument            *)

ASSUME ThreadsAssumption ==
  /\ MaxTid \in Nat /\ MaxThreads \in Nat \ {0} /\ MaxCalls \in Nat
  /\ Words \subseteq Nat /\ NoWord \notin Words
  /\ WordMod \in Nat \ {0}
  /\ Masks \subseteq SUBSET Bits

VARIABLES
  threads,    (* m_threads: the tids of the threads there are              *)
  counter,    (* m_thread_counter                                          *)
  current,    (* m_current                                                 *)
  suspended,  (* m_suspended, oldest first                                 *)
  blocked,    (* m_blocked, oldest first                                   *)
  cpu,        (* the registers of the CPU                                  *)
  saved,      (* stored_regs of each thread                                *)
  word,       (* block_word of each thread, NoWord before its first wait   *)
  extra,      (* block_extra of each thread: a set of bits                 *)
  clear,      (* clear_tid of each thread, NoWord if it has none           *)
  mem,        (* the value of each word                                    *)
  state,      (* "running"; "stopped" by stop() or an exception;           *)
              (* "undefined" once a dangling pointer was resumed           *)
  reached     (* history: the position each thread got to                  *)

vars == <<threads, counter, current, suspended, blocked, cpu, saved, word, extra,
          clear, mem, state, reached>>
waiting == <<word, extra, blocked>>

(* The elements of s at the positions in I, in order.                      *)
Rank(I, i) == Cardinality({j \in I : j <= i})
Pick(s, I) == [k \in 1..Cardinality(I) |-> s[CHOOSE i \in I : Rank(I, i) = k]]

Start == [pos |-> 0, a0 |-> 0]

Init ==
  /\ threads = {Main} /\ counter = 0 /\ current = Main
  /\ suspended = <<>> /\ blocked = <<>>
  /\ cpu = Start
  /\ saved = [t \in Tids |-> Start]
  /\ word = [t \in Tids |-> NoWord]
  /\ extra = [t \in Tids |-> {}]
  /\ clear = [t \in Tids |-> NoWord]
  /\ mem = [w \in Words |-> 0]
  /\ state = "running"
  /\ reached = [t \in Tids |-> 0]
------------------------------------------------------------------------------
(* The registers of the running thread after a call that answers a0.       *)
After(a0) == [pos |-> cpu.pos + 1, a0 |-> a0]

(* The running thread makes the system call `name`.                        *)
Call(name) ==
  /\ state = "running"
  /\ name \in Calls
  /\ cpu.pos < MaxCalls
  /\ reached' = [reached EXCEPT ![current] = cpu.pos + 1]

(* The call ends and its thread goes on with the result a0.                *)
Return(a0) ==
  /\ cpu' = After(a0)
  /\ UNCHANGED <<current, suspended, saved, state>>

(* Thread::resume: the stored registers become the CPU's.  Resuming a      *)
(* thread that was erased reads freed memory.                              *)
Resume(t, regs, live) ==
  /\ current' = t
  /\ cpu' = regs[t]
  /\ state' = IF t \in live THEN "running" ELSE "undefined"

(* wakeup_next: the oldest suspended thread, else the main thread.         *)
WakeupNext_Newest(queue, regs, live) ==
  /\ saved' = regs
  /\ IF queue # <<>>
     THEN Resume(queue[Len(queue)], regs, live) /\ suspended' = SubSeq(queue, 1, Len(queue) - 1)
     ELSE Resume(Main, regs, live) /\ suspended' = <<>>

WakeupNext(queue, regs, live) ==
  /\ saved' = regs
  /\ IF queue # <<>>
     THEN Resume(Head(queue), regs, live) /\ suspended' = Tail(queue)
     ELSE Resume(Main, regs, live) /\ suspended' = <<>>

(* suspend(a0) of the running thread: what saved becomes.                  *)
Suspended_OldPosition(a0) == [saved EXCEPT ![current].a0 = a0]
Suspended(a0) == [saved EXCEPT ![current] = After(a0)]

(* suspend_and_yield(a0): without another suspended thread it does         *)
(* nothing, and the callers leave A0 as it is.                             *)
SuspendAndYield(a0) ==
  IF suspended # <<>>
  THEN WakeupNext(Append(suspended, current), Suspended(a0), threads)
  ELSE Return(Argument)
------------------------------------------------------------------------------
(* sched_yield (124).                                                      *)
SchedYield ==
  /\ Call("sched_yield")
  /\ SuspendAndYield(0)
  /\ UNCHANGED <<threads, counter, clear, mem, waiting>>

HasRoom_OffByOne(ts) == Cardinality(ts) <= MaxThreads
HasRoom(ts) == Cardinality(ts) < MaxThreads

(* create adds the thread and writes its tid where the flags say; the      *)
(* parent is suspended with the child's tid as its result and the child    *)
(* runs on, with 0 and the parent's registers.  The addresses a guest      *)
(* passes are ones it may write to.                                        *)
Told(flags, ctid, ptid) ==
  (IF "CHILD_SETTID" \in flags THEN {ctid} ELSE {}) \cup (IF "PARENT_SETTID" \in flags THEN {ptid} ELSE {})

Create(flags, ctid, ptid, cleared) ==
  LET tid == counter + 1 IN
  /\ HasRoom(threads)
  /\ tid \in Tids
  /\ counter' = tid
  /\ threads' = threads \cup {tid}
  /\ mem' = [v \in Words |-> IF v \in Told(flags, ctid, ptid) THEN tid ELSE mem[v]]
  /\ clear' = [clear EXCEPT ![tid] = cleared]
  /\ saved' = Suspended(tid)
  /\ suspended' = Append(suspended, current)
  /\ current' = tid
  /\ cpu' = Start
  /\ UNCHANGED <<state, waiting>>

ClearWord(flags, ctid) == IF "CHILD_CLEARTID" \in flags THEN ctid ELSE NoWord

(* clone (220).                                                            *)
Clone(flags, ctid, ptid) ==
  /\ Call("clone")
  /\ Create(flags, ctid, ptid, ClearWord(flags, ctid))

(* clone3 (435): the first entry of a set_tid array that is not empty      *)
(* becomes the word to clear; arguments that are too short are refused.    *)
Clone3(flags, ctid, ptid, setTid) ==
  /\ Call("clone3")
  /\ Create(flags, ctid, ptid, IF setTid = <<>> THEN ClearWord(flags, ctid) ELSE setTid[1])

Clone3TooShort ==
  /\ Call("clone3_short")
  /\ Return(NoSpaceError)
  /\ UNCHANGED <<threads, counter, clear, mem, waiting>>

(* One thread too many: create throws before it changes anything, and the  *)
(* exception leaves simulate().                                            *)
CloneThrows ==
  /\ Call("clone")
  /\ ~ HasRoom(threads)
  /\ state' = "stopped"
  /\ UNCHANGED <<threads, counter, current, suspended, cpu, saved, clear, mem, waiting>>

(* A write<address_t>(w, 0) clears 8 bytes: the word and the one after it. *)
Cleared(w) == [v \in Words |-> IF v \in {w, w + 1} THEN 0 ELSE mem[v]]

(* Thread::exit of t: its tid word is cleared and, unless it is the main   *)
(* thread, it is erased; the lists are left as they are.  A thread that    *)
(* exits itself hands the CPU over; when the main thread exits the machine *)
(* stops.                                                                  *)
ClearTidWord(t) ==
  mem' = IF clear[t] # NoWord THEN Cleared(clear[t]) ELSE mem

EraseThread_KeepsEntry(t) == threads' = threads
EraseThread(t) == threads' = threads \ {t}

Exit(t) ==
  /\ ClearTidWord(t)
  /\ IF t = Main
     THEN /\ state' = "stopped"
          /\ UNCHANGED <<threads, current, suspended, cpu, saved>>
     ELSE /\ EraseThread(t)
          /\ IF t = current
             THEN WakeupNext(suspended, saved, threads \ {t})
             ELSE Return(Argument)
  /\ UNCHANGED <<counter, clear, waiting>>

ExitSelf == Call("exit") /\ Exit(current)

(* exit_group (94).                                                        *)
ExitGroup ==
  /\ Call("exit_group")
  /\ state' = "stopped"
  /\ UNCHANGED <<threads, counter, current, suspended, cpu, saved, clear, mem, waiting>>

(* tgkill (131) with an unset signal exits the target; of an unknown tid   *)
(* it stops the machine.  With a handler it enters the handler on the CPU, *)
(* whoever the target is: to the threads that is a call like any other.    *)
TgkillUnset(t) ==
  /\ Call(IF t = current THEN "tgkill_self" ELSE "tgkill_other")
  /\ t \in threads
  /\ Exit(t)

TgkillUnknown(t) ==
  /\ Call("tgkill_unknown")
  /\ t \notin threads
  /\ state' = "stopped"
  /\ UNCHANGED <<threads, counter, current, suspended, cpu, saved, clear, mem, waiting>>

(* set_tid_address (96): the address goes through an int.                  *)
AsInt(w) ==
  LET low == w % WordMod
  IN  IF 2 * low < WordMod THEN low ELSE low - WordMod

SetTidAddress(w) ==
  /\ Call("set_tid_address")
  /\ clear' = [clear EXCEPT ![current] = AsInt(w)]
  /\ Return(current)
  /\ UNCHANGED <<threads, counter, mem, waiting>>

(* futex (98, 422), FUTEX_WAIT and FUTEX_WAIT_BITSET while the word holds  *)
(* the expected value: block() needs somebody else to exist, and hands the *)
(* CPU over as wakeup_next does; alone, the word is zeroed instead so that *)
(* the caller goes on.  The reason of a block is 32 bits of the address;   *)
(* FUTEX_WAIT stores the empty bitset.                                     *)
Reason(w) == w % WordMod

FutexWait(w, val, bits) ==
  /\ Call(IF bits = {} THEN "futex_wait" ELSE "futex_wait_bitset")
  /\ mem[w] = val
  /\ IF suspended # <<>> \/ Cardinality(threads) > 1
     THEN /\ word' = [word EXCEPT ![current] = Reason(w)]
          /\ extra' = [extra EXCEPT ![current] = bits]
          /\ blocked' = Append(blocked, current)
          /\ WakeupNext(suspended, Suspended(0), threads)
          /\ UNCHANGED mem
     ELSE /\ mem' = Cleared(w)
          /\ Return(0)
          /\ UNCHANGED waiting
  /\ UNCHANGED <<threads, counter, clear>>

FutexWaitAgain(w, val) ==
  /\ Call("futex_wait")
  /\ mem[w] # val
  /\ SuspendAndYield(AgainError)
  /\ UNCHANGED <<threads, counter, clear, mem, waiting>>

(* wakeup_blocked: the first max entries of m_blocked whose reason is that *)
(* of w and whose bits meet the mask, oldest first, move to m_suspended.   *)
(* Looking at the entry of an erased thread reads freed memory.            *)
Matching(w, mask) ==
  {i \in DOMAIN blocked : word[blocked[i]] = Reason(w) /\ extra[blocked[i]] \cap mask # {}}

Woken(max, w, mask) ==
  LET M == Matching(w, mask) IN
  {i \in M : Cardinality({j \in M : j < i}) < max}

Unblocked_AlsoStays(I) == blocked
Unblocked(I) == Pick(blocked, DOMAIN blocked \ I)

FutexWake(max, w, mask) ==
  LET I == Woken(max, w, mask) IN
  /\ Call(IF mask = Bits THEN "futex_wake" ELSE "futex_wake_bitset")
  /\ blocked' = Unblocked(I)
  /\ suspended' = suspended \o Pick(blocked, I)
  /\ cpu' = After(Cardinality(I))
  /\ state' \in IF Range(blocked) \subseteq threads THEN {state} ELSE {state, "undefined"}
  /\ UNCHANGED <<threads, counter, current, saved, word, extra, clear, mem>>

(* An ordinary store of the guest.                                         *)
Store(w, val) ==
  /\ state = "running"
  /\ mem[w] # val
  /\ mem' = [mem EXCEPT ![w] = val]
  /\ UNCHANGED <<threads, counter, current, suspended, cpu, saved, clear, state, reached, waiting>>

Next ==
  \/ SchedYield
  \/ \E ctid, ptid \in Words, flags \in CloneFlags :
        \/ Clone(flags, ctid, ptid)
        \/ \E setTid \in {<<>>} \cup {<<w>> : w \in Words} : Clone3(flags, ctid, ptid, setTid)
  \/ Clone3TooShort \/ CloneThrows
  \/ ExitSelf \/ ExitGroup
  \/ \E t \in Tids : TgkillUnset(t) \/ TgkillUnknown(t)
  \/ \E w \in Words : SetTidAddress(w)
  \/ \E w \in Words, val \in {0, 1} :
        \/ \E bits \in {{}} \cup Masks : FutexWait(w, val, bits)
        \/ FutexWaitAgain(w, val)
        \/ Store(w, val)
  \/ \E w \in Words, max \in {1, 2}, mask \in {Bits} \cup Masks : FutexWake(max, w, mask)

Spec == Init /\ [][Next]_vars
------------------------------------------------------------------------------
Registers == [pos : 0..MaxCalls, a0 : Int]

(* The state has its type.                                                 *)
TypeOK ==
  /\ threads \subseteq Tids /\ Main \in threads /\ Cardinality(threads) <= MaxThreads
  /\ counter \in Tids /\ current \in Tids
  /\ suspended \in Seq(Tids) /\ blocked \in Seq(Tids)
  /\ cpu \in Registers /\ saved \in [Tids -> Registers]
  /\ word \in [Tids -> Nat]
  /\ extra \in [Tids -> SUBSET Bits]
  /\ clear \in [Tids -> Int]
  /\ mem \in [Words -> Nat]
  /\ state \in {"running", "stopped", "undefined"}
  /\ reached \in [Tids -> 0..MaxCalls]

Once(s, t) == \A i, j \in DOMAIN s : s[i] = t /\ s[j] = t => i = j

Somewhere(t) == t = current \/ t \in Range(suspended) \/ t \in Range(blocked)

Alone(t) ==
  /\ Once(suspended, t) /\ Once(blocked, t)
  /\ t \in Range(suspended) => t # current /\ t \notin Range(blocked)
  /\ t \in Range(blocked) => t # current

(* No thread is lost and none is scheduled twice: every thread but the     *)
(* main one runs, or is suspended once, or is blocked once; the main       *)
(* thread is at least somewhere (suspend, block, wakeup_next,              *)
(* wakeup_blocked).                                                        *)
OnePlace ==
  /\ \A t \in threads : Somewhere(t)
  /\ \A t \in Tids \ {Main} : Alone(t)

(* No list holds a pointer to a thread that was erased, while threads only *)
(* exit themselves (erase_thread touches m_threads alone).                 *)
NoDanglingThread ==
  state # "undefined" /\ ({current} \cup Range(suspended) \cup Range(blocked)) \subseteq threads

(* A thread always goes on from the registers it last gave up: it neither  *)
(* repeats a system call nor skips one.                                    *)
NeverRewound == state = "running" => cpu.pos = reached[current]

(* A thread other than the main one that is blocked runs again only after  *)
(* a wake moved it to m_suspended (the comment on blocked_threads()).      *)
BlockedUntilWoken ==
  [][\A t \in Range(blocked) \ {Main} : current' # t]_vars

(* Suspended threads run in the order they were suspended or woken in: one *)
(* that is suspended later never gets ahead of one that waits already, so  *)
(* a thread waits for at most the threads before it (wakeup_next, suspend, *)
(* wakeup_blocked).  The main thread may be in the list more than once.    *)
Before(s, t, u) ==
  \E i, j \in DOMAIN s : i < j /\ s[i] = t /\ s[j] = u

NoOvertaking ==
  [][\A t, u \in Tids \ {Main} :
        /\ Before(suspended, t, u) => Before(suspended', t, u) \/ current' = t
        /\ t \in Range(suspended) /\ u \notin Range(suspended) => ~ Before(suspended', u, t)
    ]_suspended

(* The comment on suspended_threads(), threads.hpp line 61: "A suspended   *)
(* thread can at any time be resumed."                                     *)
SuspendedResumable == Range(suspended) \subseteq threads
==============================================================================
