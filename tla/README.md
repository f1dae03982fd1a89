# libloong in TLA+

libloong is a LoongArch64 emulator that is embedded in a host program: the host
loads a guest ELF binary into a `Machine`, lets it run for a number of
instructions, calls functions in it, and serves its system calls.  This
directory holds TLA+ models of the parts of the library whose correctness is a
matter of control flow and bookkeeping, the configurations that model-check
them with TLC, and proofs of their invariants that TLAPS checks.

    tlc -workers 2 -config Arena.cfg Arena.tla
    tlc -workers 2 -config Threads.cfg Threads.tla
    tlc -workers 2 -config Dispatch.cfg MCDispatch.tla
    tlc -workers 2 -config SharedSegments.cfg MCSharedSegments.tla
    tlc -workers 2 -config Instructions.cfg MCInstructions.tla
    tlc -workers 2 -config VectorInstructions.cfg MCVectorInstructions.tla
    tlc -workers 2 -config LivePatch.cfg MCLivePatch.tla
    tlc -workers 2 -config TranslatedBlock.cfg MCTranslatedBlock.tla

    tlapm ArenaProofs.tla            tlapm DispatchProofs.tla
    tlapm SharedSegmentsProofs.tla   tlapm LivePatchProofs.tla
    tlapm ThreadsProofs.tla          tlapm TranslatedBlockProofs.tla
    tlapm InstructionsProofs.tla     tlapm VectorProofs.tla

Four more configurations end with a counterexample, because the code does not
do what its comments say (section 5):

    tlc -workers 2 -config ThreadsKilled.cfg Threads.tla
    tlc -workers 2 -config SegmentsRace.cfg MCSharedSegments.tla
    tlc -workers 2 -config LivePatchEnd.cfg MCLivePatch.tla
    tlc -workers 2 -config TranslatedSwitch.cfg MCTranslatedBlock.tla

Paths below are relative to `src/lib/libloong/` unless they start with `src/`.

## 1. Inventory

| part | files | state | operations | talks to |
|---|---|---|---|---|
| Machine | `machine.*` | instruction counter and limit, system call handlers, pending exception | `simulate`, `stop`, `vmcall`, `preempt`, handlers | everything |
| Interpreter loop | `threaded_dispatch.cpp`, `threaded_inaccurate_dispatch.cpp`, `bytecode_impl.cpp`; `cpu_dispatch.cpp` and `tailcall_*.cpp` as alternatives of the build | registers, `m_exec`, and in locals `pc`, `decoder`, `counter`, `max_counter` | one handler per bytecode, block entry, segment change, stop | decoder cache, handlers, memory |
| Decoder cache | `decoder_cache.*`, `decoded_exec_segment.*`, `threaded_rewriter.cpp`, `la64.cpp` | per segment an array of 8-byte entries (bytecode, handler, `block_bytes`, rewritten instruction) and a sentinel | populate, patch, live patch | loop, translator, shared cache |
| Shared segments | `shared_exec_segment.*`, `memory.cpp` 301-391 | process-wide map from key to entry; a mutex for the map and one per entry | get or create, remove if unique | every Machine of the process, on any thread |
| Binary translator | `tr_*.cpp` | mappings of a segment, a dynamic library, `is_background_compiling` | emit, compile (inline or on another thread), activate, live patch | segment, loop |
| Memory | `memory*.{hpp,cpp}`, `elf_loader.cpp`, `page.hpp` | one flat arena, the read-only and data bounds, `mmap` and `brk` positions, symbols | load, read, write, `mmap_allocate`, `mmap_free` | loop, system calls |
| Native heap | `native/heap.hpp`, `machine_accelerate.cpp` | the chunk list of the guest's heap, pooled chunks, counters | malloc, calloc, realloc, free as system calls | memory, guest data types |
| Threads | `posix/threads.*`, `linux/syscalls_threads.cpp` | `m_threads`, `m_suspended`, `m_blocked`, current thread, saved registers, futex words | clone, exit, yield, futex wait and wake, tgkill | registers, memory, signals |
| Signals | `posix/signals.*`, `linux/syscalls.cpp` | handlers, alternate stacks, saved registers | sigaction, enter, sigreturn | threads, loop |
| System calls | `linux/syscalls.cpp` | file descriptors, `brk` | the rest of the Linux interface | host |
| Guest calls | `machine_vmcall.hpp` | registers and limits around a nested run | `vmcall`, `timed_vmcall`, `preempt` | loop |
| Guest data types | `guest_datatypes.hpp` | strings and vectors in guest memory | construct, move, free | native heap |
| Instruction handlers, printers | `la_instr_*.hpp` | registers | one instruction each | memory |
| Pure helpers | `util/crc32c.cpp`, `instruction.hpp` | none | checksum, field packing | decoder cache |
| Emulator, tests, examples | `src/emulator`, `src/tests`, `src/examples` | | | Machine |

How they interact.  A run is one host thread inside `CPU::simulate`; guest
threads are cooperative and share it.  A system call leaves the loop with
`registers().pc` and the limit stored in the machine, and whatever the handler
did to them (stop, a signal, a switch of threads, a nested run) is picked up
when it returns.  Real concurrency exists only between machines that share
decoded segments, and between a machine and its background compilation.

What is hard, and what makes each part correct:

* *Interpreter loop.* Three program counters that move at different times, a
  counter that runs ahead by a block, a limit that is looked at on taken
  branches only, handlers that change the state behind the locals.  Correct
  means: it does what the instructions one by one do; it never leaves its
  cache; the count is right and the limit is obeyed.
* *Native heap.* A doubly linked list that is edited by hand in split, merge
  and subsume; realloc composed of malloc and free; an exception in the middle.
  Correct means: blocks are disjoint and big enough, no byte is ever lost, free
  neighbours are merged, a failure changes nothing.
* *Threads.* Raw pointers in two lists to entries of a third container; saved
  registers that must carry the result of the call that switched.  Correct
  means: every thread is in exactly one place, no pointer dangles, nobody runs
  before it is woken, the queue is fair.
* *Shared segments.* Two levels of locks, double-checked creation, eviction
  against creation.  Correct means: one segment per key, built before it is
  used, built once, freed when unused, no deadlock.
* *Translator.* A library that is activated and patched into a cache that is
  running, on another thread, and owners that are destroyed meanwhile.
* *Memory.* Bounds arithmetic at both ends of the arena, `mmap` and `munmap`.
* *Signals and guest calls.* Nesting: state saved at entry must be what is
  restored at exit, and inner limits must not leak out.

The hazards, each at its line, are listed in `PROJECT.json`.

## 2. Modules

| module | models | abstract specification |
|---|---|---|
| `Allocator` | what the heap promises its callers | |
| `Arena` | `native/heap.hpp` | implements `Allocator` |
| `ArenaProofs` | theorems about `Arena` | |
| `Threads` | `posix/threads.*`, `linux/syscalls_threads.cpp` | |
| `ThreadsProofs` | theorems about `Threads` | |
| `Guest` | the guest, an instruction at a time | |
| `Dispatch` | `decoder_cache.cpp`, `threaded_dispatch.cpp`, `threaded_inaccurate_dispatch.cpp`, `bytecode_impl.cpp` | implements `Guest` |
| `DispatchProofs` | theorems about `Dispatch` | |
| `MCDispatch` | instances of `Dispatch` for TLC | |
| `SharedSegments` | `shared_exec_segment.*` with its users in `memory.cpp` and the numbering of handlers in `decoder_cache.cpp` | |
| `SharedSegmentsProofs` | theorems about `SharedSegments` | |
| `MCSharedSegments` | an instance of `SharedSegments` for TLC | |
| `LivePatch` | `tr_compiler.cpp`, the LIVEPATCH and TRANSLATOR bytecodes, `decoded_exec_segment.cpp`, `~Memory`, `patch()` | |
| `LivePatchProofs` | theorems about `LivePatch` | |
| `MCLivePatch` | an instance of `LivePatch` for TLC | |
| `Program` | two guest threads, an instruction at a time, with their registers | |
| `TranslatedBlock` | `tr_translate.cpp`, the control of `tr_emit.cpp`, entry and exit of compiled code | implements `Program` |
| `TranslatedBlockProofs` | theorems about `TranslatedBlock` | |
| `MCTranslatedBlock` | an instance of `TranslatedBlock` for TLC | |
| `Words` | integer types and C++ operations at scaled widths | |
| `GuestState` | what an integer instruction reads and changes | |
| `Handlers` | the integer handlers of `la_instr_impl.hpp`, `la_instr_atomic.hpp` | |
| `FastPath` | `determine_bytecode`, `threaded_rewriter.cpp`, `bytecode_impl.cpp` | |
| `Emitted` | what the C code of `tr_emit.cpp` computes | |
| `Instructions` | the three engines side by side | |
| `InstructionsProofs` | theorems about `Instructions`, and about `Words` | |
| `MCInstructions` | an instance of `Instructions` for TLC | |
| `Vectors` | vector registers as bytes, and lists of writes to them | |
| `VectorHandlers` | the floating-point, LSX and LASX handlers | |
| `VectorEngines` | their bytecodes and their emitted code | |
| `VectorInstructions` | the three engines side by side | |
| `VectorProofs` | theorems about `VectorInstructions` | |
| `MCVectorInstructions` | an instance of `VectorInstructions` for TLC | |

`Dispatch`, `TranslatedBlock` and `LivePatch` look at one machine from three
sides.  `Dispatch` has control and counting of interpreted code and no data;
`TranslatedBlock` has control and the traffic of registers between the loop and
compiled code; `LivePatch` has how the cache one of them runs from turns into
the cache of the other.  What an instruction computes is in `Instructions` and
`VectorInstructions`, which have no control beyond one instruction.

Definitions whose name has an underscore and a second part
(`FindFree_BestFit`) are plausible mistakes in the code that the definition
after them models.  Nothing in the specifications uses them: they are there so
that one can put them in the place of the right definition and watch a property
fail.

### Arena and Allocator

`heap` is a record of functions over chunk numbers: `next`, `prev`, `size`,
`free` and `data` of every `ArenaChunk`, the records in `m_free_chunks` (`pool`)
and how many were made.  Helpers are operators from heap to heap with the
source's names (`MergeNext`, `SubsumeNext`, `SplitNext`, `InternalFree`);
actions are calls: `Malloc`, three ways `realloc` can go, `Free`.  The
walk of `find_free` over the list is written as the free chunk of lowest
address that fits, which is the same when the list is in address order;
`ListOrder` compares it with the walk.  Sizes are `size_t` arithmetic modulo
`SizeMod`.  The guest may hand back any pointer.

`Allocator` has only the set of allocated blocks: malloc returns free space or
0 exactly when there is none, realloc keeps or moves, a failure changes
nothing.  `Arena` implements it with the used chunks as blocks.

### Threads

One variable per field of `MultiThreading`, threads named by their tid; a tid
that is not in `threads` any more stands for a dangling pointer, and using one
makes the state "undefined".  A thread's registers are the number of system
calls it got through (its position) and the result it sees.  The guest makes
any system call it likes in any order.  Actions are the system calls; `Create`
is what `clone` and `clone3` share.  A word is an address in steps of four
bytes.  The integer types addresses pass through are kept: the reason of a
block has 32 bits (`Reason`), and `set_tid_address` puts the address through an
`int` (`AsInt`), so that two words may look alike to a wake and a thread may
clear a word it did not name.  The addresses handed to `clone` are ones the
guest may write; a fault between the new thread and its words is not modelled.

### Guest and Dispatch

`Dispatch` decodes a program, a function from addresses to instructions with
the control behaviour of one kind, into the cache of each segment and runs it
as the loops do.  `decoder` is the entry that executes; `pc` the address the
loop's `pc` has.  `EnterBlock`, `NextInstr`, `NextBlockUnchecked`,
`PerformBranch`, `CheckJump`, `NewExecuteSegment` and `StopExecution` are the
labels and macros of `threaded_dispatch.cpp`; each bytecode handler is an
action.  `counted` tells `simulate` from `simulate_inaccurate`, which share
everything but the counting.  Instructions that only compute or access memory
are one kind, `function`, which goes on or faults.  Whether a conditional
branch is taken, and where a computed jump goes, is a free choice.  System call
handlers return, stop the machine, throw, or send the guest elsewhere.  An
address counts instructions, so `block` is `block_bytes / 4`.

`Guest` is the same machine with no cache, no blocks and no counter: the
current address, the link register, and whether the host or the guest runs.
`Dispatch` implements it with the address of `decoder` while it runs and
`registers().pc` while it does not.  Three things are left open in `Guest`
because the code leaves them open: the program counter after a fault in the
middle of a block, the one after STOP, and at which jump a limited run is cut
off.

### SharedSegments

The one part with real concurrency.  `at[h]` is where host thread `h` is; a
step is what it does between two acquisitions of a mutex, except that a build
is split further, at each handler it numbers, because the table of handlers is
shared by builds that hold different mutexes.  `entry` and `mutex` are the
fields of `SharedExecuteSegments::Segment` for every key (entries are never
erased, so that one exists is not modelled); `held` is `m_main_exec_segment`,
`local` the `shared_ptr` of the call, and the reference count is the number of
places that name a segment.  A build may throw at any point.  A machine has one
segment, whose key is the program it runs.

`handlers` holds the slots of `m_handlers` and `count` its size.  A push that
races with another writes to the slot where the vector ended when the thread
looked, so one of the two is lost; other outcomes of that data race (a torn
reallocation) are worse and are not enumerated.

### LivePatch

The compilation is a thread of its own whose place is `job`: the lambda of
`try_translate` from `queued` to `released`, with every way to give up.  Its
loops over entries are sets of entries still to be written (`todo`), so their
order is left open.  `main` and `patched` are the two decoder caches, `dylib`
the compiled library, `compiling` the atomic flag that destructors wait for.
Each machine runs on a host thread; `loop[m]` is the cache and entry it is at
and the bytecode it has read there, because reading the bytecode and reading
`handler_idx` are two steps between which the entry may change.  The live patch
writes the two bytes in either order (`PatchField`).  `handler_idx` is the low
byte of the number of a handler; which 256 handlers it counts in is part of the
bytecode, so `function` and `extended` are two kinds: to the first an index of
zero is the handler that raises an illegal instruction, to the second it is
handler 256, whatever that is.  `Held` is the use count
of the segment.

### Program and TranslatedBlock

`Emit` is what the translator makes of a program: how a segment is cut into
blocks, where labels and jump-table cases are, where registers are stored and
loaded around handlers and where that is left out, and what each instruction
does to the counter.  The actions then run the loop (`Interpret`, `Enter`) and
the functions (`Straight`, `Fallback`, `Jumps`, `SystemCall`, `EndOfBlock`, ...).
`cpu` is `registers()`, `local` the local variables of the function; a register
a function does not name has no local variable and is always in `cpu`.  What an
instruction computes is the complement of a bit, which tells a stale value from
a current one.

`Program` has only the registers.  `TranslatedBlock` implements it with the
registers a reader at that place would see.  Three things are open in `Program`
because the engines differ in them: the registers after an exception, where a
`syscall imm` returns to and what it leaves when it stops the machine, and the
registers of a thread that waits at the very system call that switches to it.

### Words to Instructions

One instruction runs from one state under three engines.  `Handlers` is
`InstrImpl`; `FastPath` picks a bytecode, packs the fields into the narrower
formats and runs the bytecode on those; `Emitted` is what the emitted C
computes.  Atomics, LL and SC, hints and barriers included; all engines run the
handler for those.  `ub` chooses among the outcomes a build can give an
undefined operation (a shift by the full width, the most negative number
divided by -1), for each engine on its own.
Memory goes on behind the arena as far as a store can get (`Behind`), because
the emitted check lets some stores through there.

All widths are multiples of one constant: with `Byte = 8` they are the code's,
with `Byte = 2` bytes have 2 bits, words 8 and double words 16, and casts
truncate, sums wrap, sign extension and bounds checks bite at the same places
as in the code, on operands that TLC can enumerate.  The sizes of the immediate
fields and the distances they are shifted by are constants of their own, called
as in the code (`Imm12` is the size of si12): 12, 14, 16, 20, 21, 26 bits there,
3 to 6 in the run.  What the code relies on is stated as `FieldAssumption`:
si20 << 12 fills a word and si12 << 52 a register.  `Encodings` is every
instruction whose fields fit, `MCInstrs` the ones with boundary values.

### Vectors to VectorInstructions

What an operation computes is left open: byte n of the result of `f` is
`<<f, n, elements>>`, a function of the bytes it reads.  So two results are equal
only if they are computed from the same bytes in the same way, which is what
lane numbers, element widths, halves and aliases can get wrong; what a
floating-point addition returns plays no role.  Every handler is a sequence of
writes in the order of its loop, because a target that is also a source is
overwritten while it is read: `InPlace` makes the writes one by one, and
`Simultaneous` reads every source first (`Steps` is either).  Of an address it
matters where it leads (`Regions`): the handlers and bytecodes share one bounds
check (`Refused`), the emitted code has its own (`EmittedRefused`).

The constants are the vector registers, the machines an instruction may meet
(`Starts`) and the registers it may name (`Operands`).  `UpperHalfUnseen` is
about two machines: it compares what an instruction does to the one it met with
what it does to any other start that looks the same to a program without
256-bit instructions.

## 3. Runs

| run | checks | distinct states | what it shows |
|---|---|---|---|
| `arena` | `TypeOK` `HeapTiled` `NoFreeNeighbours` `DataAligned` `ListOrder` `CountersCover` `GrantedIsEnough` `ImplementsAllocator` | an 88-byte arena, 3 chunk records beside the base, 4 allocations | every order of calls, with splits, merges both ways, subsuming with and without a rest, reuse of records, and running out of records, within the bound |
| `threads` | `TypeOK` `OnePlace` `NoDanglingThread` `NeverRewound` `BlockedUntilWoken` `NoOvertaking` | 2.6 million; 4 tids, 3 alive, 3 calls each | no thread is lost, duplicated, rewound or run before it is woken, and the queue is fair |
| `dispatch` | `TypeOK` `DecoderInSegment` `PcAgrees` `CounterExact` `LimitKept` `Terminates` `ImplementsGuest` | 0.2 million; 216 programs, two segments | the loop is the machine, counts right and obeys its limit |
| `segments` | `TypeOK` `Shared` `NotUnderConstruction` `OneBuilder` `CallsEnd` | 58 thousand; 3 host threads, 2 programs, 3 machines | machines of a program share one finished segment built by one thread, and every call ends |
| `livepatch` | `TypeOK` `CodeReady` `DamageConfined` `Reclaimed` | 0.15 million; 2 machines, 4 entries | nobody reaches translated code that is not there; a torn entry raises an illegal instruction or, where the decoder found an extended function, runs the wrong handler, and only where a translation starts or a function is replaced; everything is freed |
| `translated` | `ImplementsProgram` `CounterFlushed` | 0.3 million; 4608 programs and ways to cut them | compiled blocks behave as the program one instruction at a time, and nobody is shown a counter that is behind |
| `instructions` | `TypeOK` `FastKeepsResult` `TranslatedKeepsResult` `FaultIsAtomic` | 78 thousand | the three engines agree on every integer instruction outside the differences section 5 lists; a faulting instruction has changed nothing, and only emitted stores that their bounds check lets stray write behind the arena |
| `vectors` | `AliasingHarmless` `EnginesAgree` `UpperHalfUnseen` `WidthsAgree` | every floating-point and vector instruction with every coincidence of its registers and every region an address leads to | targets may be sources, engines agree (an emitted store that strays behind the arena excepted), upper halves do not leak, and the widths of one operation compute the same |
| `threads_killed` | `SuspendedResumable`, violated | | tgkill of a suspended thread leaves a dangling pointer |
| `segments_race` | `HandlersRight`, violated | | two builds give two handlers one number |
| `livepatch_end` | `EndMarked`, violated | | the cache a live patch switches to has no end |
| `translated_switch` | `NothingStale`, violated | | compiled code goes on with registers of another thread |

Bounds.  *Arena*: three records are what the widest single step needs (a chunk
with a neighbour on each side that merges both ways, while one more is split
off); four allocations are enough for fragmentation, reuse and exhaustion.
*Threads*: three live threads give a queue in which order can go wrong while
one is blocked; three calls each are enough to wait, be woken and exit.  There
is one word; of the two sets of clone flags one writes it and the other also
has it cleared at exit.  That `Reason` and `AsInt` confuse words does not occur
in the run; the theorems have any words.
*Dispatch*: the first instruction of a program is any of twelve kinds, the next
two are chosen so that blocks of one to three instructions, fall-through over
the end, branches to the end and to the other segment, loops with and without
calls, and patched functions at the start of a segment and in the middle of a
block all occur; `BlockMod` and `CountMod` are the real
widths.  `MaxSteps` bounds a history variable and is above anything a limited
run may execute.  *SharedSegments*: with three machines one thread can build,
one wait for the build and one evict at the same time; two programs give two
entry mutexes under the one of the map.  *LivePatch*: of the four entries one
can be replaced by a native function, one is an extended function, one is a
branch, and one has no translation and ends the code; of two machines one can run while the other
patches, attaches or is destroyed.  *TranslatedBlock*: three instructions of
eight kinds each and one of three ways back give every pair and triple of kinds
in a row, with and without labels between them, in one block or two, of which
both or only the first are compiled; a function with a loop behind them has
`call`, `ret` and a block boundary of its own.  *Instructions*: source
registers hold 0, 1, small numbers, all ones, and the boundary values of the
widths; immediates are the boundary values of their fields; three registers are
enough for a target to be register 0, a source or neither.
*VectorInstructions*: the target is
`v0` and the sources are it, each other or neither, which is every coincidence
of up to four registers; an address leads to each of the four `Regions`; of the two starts one has other upper halves, so
`UpperHalfUnseen` compares two machines that differ there; every lane number and
every immediate that chooses lanes is enumerated.

Deadlock.  `arena` and `dispatch` check for it: free of an unknown pointer is
always possible, and the guest always has a next instruction or a host.  The
others stop for good reason and do not: `threads` when every thread has made
its calls or the machine was stopped, `segments` when `MaxMachines` machines
were made and gave back what they held, `livepatch` when everything is freed,
`translated` after an exception, `instructions` and `vectors` after their one
instruction.  `CallsEnd` and `Reclaimed` say that nobody is left waiting.

Fairness.  `CallsEnd` assumes weak fairness of every host thread that is in a
call.  That is enough for threads that wait for a mutex only because the number
of machines is bounded: `std::mutex` is not fair, and with an endless stream of
machines a thread could be overtaken for ever.  `Terminates` assumes weak
fairness of `Loop`: the loop is an ordinary thread of the host, in every state
with the guest running it has a next instruction, and nothing else can take the
state away from it.  Entering the loop, and what handlers and guests choose, is
not fair.  `Reclaimed` assumes weak fairness of the compilation's thread, of
the detached threads that wait to free an arena, and of whoever drops the last
reference to the segment: host threads with nothing to wait for but the flag
that the compilation clears on every way out.  Machines need not run, and need
not be destroyed.

## 4. Proofs

The theorems hold for every value of the constants that the named assumptions
allow, not only for those of the runs.

`ArenaProofs` proves for every arena, every limit on chunk
records, every size width and every set of requests and pointers:

* `TypeCorrect`: `Spec => []TypeOK`
* `TilingCorrect`: `Spec => []HeapTiled`
* `CoalescingCorrect`: `Spec => []NoFreeNeighbours`
* `AlignmentCorrect`: `Spec => []DataAligned`
* `ListOrderCorrect`: `Spec => []ListOrder`
* `CountersCorrect`: `Spec => []CountersCover`
* `GrantedCorrect`: `Sane => (Spec => []GrantedIsEnough)`
* `HeapImplementsAllocator`: `Sane => (Spec => ImplementsAllocator)`

from the one assumption `ArenaAssumption` (a non-empty arena aligned to 16
above address 0 whose end is representable).  `Sane` says that no request is
within 16 of 2^64; such a request wraps when it is rounded up
(`native/heap.hpp:101`) and is answered with 16 bytes, so without it the two
statements are false.

None of the first three is inductive alone.  Tiling needs coalescing, because
the exact-fit branch of `split_next` takes chunks out of the list if a free
chunk has a free neighbour, and coalescing needs the links.  The inductive
invariant `IInv` is a well-formedness predicate of a heap: types, the doubly
linked structure, pooled records apart from live ones, adjacency of addresses,
disjointness, cover and coalescing.  The proof treats the operators as
functions on heaps: one lemma per list edit (`MergeStruct`, `DivideStruct`,
`ShiftStruct`, `MarkFreeStruct`, `MarkUsedStruct`) shows that it keeps the
structure; lemmas about `SubsumeNext`, `Take` and `InternalFree` combine them
and restore coalescing; `NextIInv` then is a case per action.  The first-fit
choice exists by the least-element principle on natural numbers, from the
well-foundedness theorem of the library.

The refinement asks what each function does to the chunks in use
(`MergeEffect`, `FreeEffect`, `TakeEffect`, `SubsumeEffect`: it changes the
block it is about and no other), restates that per call (`TakesFacts`,
`InPlaceFacts`, `MovedFacts`, `FreedFacts`), and maps every call to one of
`Allocator` (`MallocRefines` and so on).  The one hard step is `NoFitNoGap`, that
a refusal is honest: if no chunk is long enough, no bytes in a row are.  Their
first byte would lie in a chunk, by the tiling; that chunk would be free and
too short; so the bytes would reach into its successor, which is in use by
coalescing.

`ListOrder` is about the walk of `find_free`, a recursive function, so its
lemmas are inductions over the steps of the walk (`EveryNat`).  The walk exists
(`WalkExists`), stays in the list (`WalkLive`) and goes up in memory
(`WalkAscends`).  `WalkVisits`, that it passes every chunk, is the hard one: if
it missed a chunk, it could neither step over it, for the chunks tile the arena,
nor end before it, for the last chunk ends at the arena's end; so it would pass
as many different chunks as there are records without that one, which a
pigeonhole argument refutes.  Hence the first chunk of the walk that fits is the
one of lowest address, as `FindFree` says (`FirstFit`).

`ThreadsProofs` proves for every number of threads and of calls, all words,
bitsets and guests:

* `TypeCorrect`: `Spec => []TypeOK`
* `OnePlaceCorrect`: `Spec => []OnePlace`
* `NeverRewoundCorrect`: `Spec => []NeverRewound`
* `NoDanglingCorrect`: `"tgkill_other" \notin Calls => (Spec => []NoDanglingThread)`
* `BlockedUntilWokenCorrect`: `Spec => BlockedUntilWoken`
* `NoOvertakingCorrect`: `Spec => NoOvertaking`

The run `threads_killed` shows why `NoDanglingCorrect` excludes a guest that
kills another thread.  The inductive invariant adds to types, places and
registers that a tid not yet given out is nowhere (`Issued`), that the running
thread exists (`Running`), and that every other thread's saved registers are
those of its last call (`SavedLast`); a thread can only be restored as it was
saved if it was saved last, and it is in one place only if the thread that goes
on is taken out of where it was.  Lists are handled by three lemmas
(`AppendFacts`, `TailFacts`, `ConcatFacts`) about membership and single
occurrence; `wakeup_blocked` takes elements out of the middle in order, and
`RankExists`, a pigeonhole argument, shows that the new list has each of them
once.  For the two action properties every step is one of six ways to move
threads (`Moves`): nothing, yield, block, leave, wake, create.

`DispatchProofs` proves for any programs, segments,
targets, limits and widths of the fields (`DispatchAssumption`: segments are
not empty and apart from each other, code is a function from their addresses to
instructions, patched functions are addresses):

* `TypeCorrect`: `Spec => []TypeOK`
* `DecoderStaysInside`: `Spec => []DecoderInSegment`
* `ProgramCountersAgree`: `Fits => (Spec => []PcAgrees)`
* `LoopImplementsGuest`: `Fits => (Spec => ImplementsGuest)`
* `CounterCorrect`: `Fits` and `Countable` give `Spec => []CounterExact`
* `LimitCorrect`: `Fits` and `Countable` give `Spec => []LimitKept`

`Fits` says that no block is longer than `block_bytes` can say (64 KB) and that
there is no BREAK; `Countable` that no block has as many instructions as the
8-bit `instruction_count()` can say.  Without them the statements are false:
the hazard at `decoder_cache.hpp:19` covers both widths, and BREAK, which ends a
block, runs as a plain function, so that the pc is not moved past it
(`decoder_cache.cpp:36`).  The programs of the run `dispatch` fit.  The invariant
adds to the types that the cache is the one `populate_decoder_cache` made.
`BlockEndFacts` shows that every address has a block end (the least-element
principle again), `NextEnds` that the instructions of a block agree on it,
`BytecodeFacts` what an entry's bytecode says about the instruction under it.
Then come the ways to go on (`EnterBlock`, `CheckJump`, `NextBlockUnchecked`,
...), each shown to stay inside and to keep the program counters together, and
the handlers, which combine them.  Agreement is delicate in one place only,
`NextInstrLocates`: the rest of the block shrinks by one, unless the guest falls
into a function that a native one replaces.  `patch()` may do that to any entry
and makes it a block of its own, so `PcAgrees` has a second case for it: pc is
then at the end of the block the function was cut out of.  For the refinement
every way to go on is mapped to a move of the guest (`JumpMaps`,
`FallThroughMaps`, `BranchMaps`) and every handler to the instruction it
implements.

The count needs more than the property says.  `Ledger` states that the counter
less the rest of the current block is never behind what was executed, and is
exactly that in a plain program; and that what was executed was below the limit
at the last check, since when `decoder` has only moved forwards: so the overrun
is at most one pass over a segment.  The lemmas follow the ways to go on again
(`EnterBlockCounts`, `CheckJumpCounts`, `NextBlockCounts`, ...).

`SharedSegmentsProofs` proves for any threads, keys, handlers and number of
machines (`SharedAssumption`: the sets are finite and `None` is in none of
them; finiteness is needed because use counts are cardinalities):

* `TypeCorrect`: `Spec => []TypeOK`
* `OneBuilderCorrect`: `Spec => []OneBuilder`
* `NotUnderConstructionCorrect`: `Spec => []NotUnderConstruction`
* `SharedCorrect`: `Spec => []Shared`

Its invariant says who has each mutex (`Locked`), that what an entry refers to
is finished unless the thread with the mutex is at work on it (`Entries`), and
that every reference, of a machine (`Holding`) or of a call (`Carrying`), is the
one its entry has.  `Shared` is not inductive alone: two machines agree because
both agree with the entry, and an entry is emptied only at use count 1, which
by `OnlyEntryUses` means that no machine has the segment.  `MakeSegment` needs
the other direction, `NobodyUses`: a segment with no uses is nowhere.

`LivePatchProofs` proves for any machines, code, mappings and native functions
(`LivePatchAssumption`: mappings and native functions are addresses of the
segment):

* `TypeCorrect`: `Spec => []TypeOK`
* `CodeReadyCorrect`: `Spec => []CodeReady`
* `DamageConfinedCorrect`: `Spec => []DamageConfined`

`CodeReady` says nothing of how the compilation gets to the live patch, and
`DamageConfined` nothing of what a machine has already read.  The invariant
adds what is left to write and what the caches hold at each stage of the
compilation (`Todo`, `Stages`), that the library is loaded as long as an entry
calls into it (`Loaded`), what may stand in each entry (`Entered`), and what a
machine that has read a bytecode may rely on until it runs it (`Running`).

`TranslatedBlockProofs` proves for every program, every way to cut it into
blocks, every limit on what is translated and every choice of the registers
kept in local variables (`TranslatedAssumption`, `ProgramsAssumption`: a program
gives every address an instruction, and the entry and the place the second
thread waits at are addresses):

* `TranslationCorrect`: `Spec => ImplementsProgram`, the refinement
* `CounterCorrect`: `Spec => CounterFlushed`

What `Emit` makes of a program is recursive; `WellEmitted` says of it what the
steps rely on, instruction by instruction: a block has one base and one end,
jumps inside it go to labels, a store or a load is left out only between two
handlers with no label in between (`InARow`), and an instruction adds one to
what its predecessor left to count unless control may come from elsewhere
(`Before`).  `EmitFacts` shows it for every program, from the existence of the
recursive functions (`Recursion`) and two inductions over addresses, both by a
least address.  With it the invariant needs little: where in a block control is
(`Located`) and what is not counted there (`Counted`).  The refinement goes
action by action; entering a function is a stutter, running over its end a
stutter or the host taking over.

`InstructionsProofs` proves for every width of a byte, all sizes of the fields,
all registers, arenas and execute segments, every instruction the encoding
allows and every state to execute it in (`ByteAssumption`, `FieldAssumption`,
`RegisterAssumption`, `ArenaAssumption`, and `InstructionAssumption`, that the
zero register is zero and nothing has trapped):

* `TypeCorrect`: `Spec => []TypeOK`
* `FastIsExact`: `Spec => []FastKeepsResult`
* `TranslationIsExact`: `Spec => []TranslatedKeepsResult`
* `FaultsAreAtomic`: `Spec => []FaultIsAtomic`

The run compares the engines on boundary values of a 16-bit machine; the
theorems do so for 64 bits and every operand.  The invariant `Inv` only says
what has run.  The work is in comparing three definitions per group of
instructions: `HandleCases`, `DispatchCases` and `EmittedCases` find the
definition an instruction reaches, `Rewrite` what the rewriter packs, and a
lemma per group (`FastShift`, `EmittedUpperAgrees`, ...) shows that the results
are equal.  Most groups compute the same in the same words.  The ones that do
not are where arithmetic is needed: a handler truncates si20 << 12 to a word and
the bytecode does not (`PageOffset`); LU52I_D shifts the raw immediate in the
handler and the sign-extended one in the emitted code (`TopImmediate`), LU32I_D
joins its halves in the opposite order (`OrCommutes`); a bit string is
sign-extended in the handler and not in the bytecode, which is the same because
it is shorter than the word or not extended at all (`BitStringFields`,
`SextDouble`); the emitted ADDI_W of register 0 leaves the extension out
(`ShortImmediate`); a handler moves the pc in two steps where the other engines
take one (`WrapTwice`, `IncrementTwice`).  For the other two properties `Orderly` says what they
ask of one engine; it is shown of every operation a handler is made of
(`PutOrderly`, `LoadOrderly`, `PokeOrderly`, ...), then of each engine, with no
exception for undefined operations or known differences but one: the check of
an emitted store admits addresses behind the arena (`Strays`).  Of these stores
`EmittedStrays` shows less (`Tidy`), that types are kept, that nothing below the
data is written, and that they do not fault; `EmittedOrderly` has every other
instruction.

Its first part has the arithmetic: powers of two, remainders of sums, sign
extension, that `And` of numbers is a number with the common bits, the range of
every operation of `Words`.  Sums are recursive functions, so facts about them
need an induction of their own over their length, by a least counterexample.

`VectorProofs` proves for any vector registers, any starting machines and any
choice of registers to name (`RegistersAssumption`: register 0 is one of them
and a vector register is none of the other places; `InstructionsAssumption`: a
start has bytes everywhere and has not trapped, operands are vector registers):

* `EnginesRan`: `Spec => []Executed`, the inductive invariant
* `AliasesHarmless`: `Spec => []AliasingHarmless`
* `UpperHalfHidden`: `Spec => []UpperHalfUnseen`
* `AllEnginesAgree`: `Spec => []EnginesAgree`
* `CounterpartsAgree`: `Spec => []WidthsAgree`

The run has four registers of symbolic bytes; the theorems have any machine, so
they do not rest on the bytes being different.  `Executed` says that each engine
is where it started, or where its own code leaves it after the one instruction.
The rest is about lists of writes, which the lemmas compare without running
them.  A list may be made in place or from saved sources if no write overwrites
what a later one reads (`Unread`), or if the only one that does leaves the
machine as it was (`Settled`): `BufferNeedless`.  That is all of `AliasingHarmless`;
the proof finds where it needs the registers to differ, and `Torn` is exactly
those places.  A list that reads no upper half shows none (`Low`,
`LowUnseen`).  A list that is another with writes added behind differs only in
what those cover (`Extends`, `ExtendedSteps`): a handler is the emitted code or
the bytecode with `ClearHigh` behind it, and a 256-bit handler is the 128-bit one
that goes on.  Two instructions that differ only in fields no write names do the
same (`SameRoles`, `UnusedRoles`), which is needed because the rewriter keeps
only the registers that fit the format it packs (`Rewritten`).  That the handlers, bytecodes and emitted
code are lists of these kinds is shown once for everything that goes element by
element (`ForEachFacts`, `ForEachLow`, `ForEachUnread`, `WiderRow`), row by row of
the tables, and one by one for the shuffles and tests.  Traps are compared region
by region; where only the emitted store is made, `StoreBytes` shows that it
changes no byte but the memory's.

Only model-checked.  Every invariant and every safety property that a passing
run checks has a theorem.  The liveness properties `Terminates`, `CallsEnd` and
`Reclaimed` have none: they need ENABLED, which is out of the prover's reach.
The four properties that section 5 refutes are false, so there is nothing to
prove.  That two results made by an uninterpreted operation from the same bytes
are equal in the code is an assumption of the vector model, not a result.

## 5. Where the code and its documentation disagree

With a run that shows it:

* `threads_killed`: a killed thread stays in `m_suspended`
  (`posix/threads.cpp:165`), although "a suspended thread can at any time be
  resumed" (`posix/threads.hpp:61`).
* `segments_race`: the handler table is shared without a lock
  (`decoder_cache.cpp:283`), under a storage that is called thread-safe
  (`shared_exec_segment.hpp:43`).
* `livepatch_end`: the copy of the cache leaves out the final, invalid entry
  (`tr_compiler.cpp:317`) that "prevents overruns" (`decoder_cache.cpp:252`).
* `translated_switch`: after a switch to a thread that waits at the same system
  call, compiled code reloads A0 and A1 only (`tr_emit.cpp:1996`).

Seen while modelling and named in the models (in an assumption, in a guard of a
property, or in a comment), without a run of their own:

* *Patched functions.*  A guest that falls into one, over the alignment before
  it for example, gets there with pc at the end of the block
  (`machine_accelerate.cpp:42`), and a native function that throws reports that
  address; the rest of the block is counted as executed.
* *Counting.*  A block of 256 instructions counts as 0
  (`decoder_cache.hpp:19`), so a loop of one such block ignores its limit;
  `Countable` excludes it.  `instruction_limit_reached()` is false after a
  timeout, because leaving the loop sets the limit (`threaded_dispatch.cpp:39`
  against `machine.hpp:59` and `src/emulator/src/main.cpp:248`).  In compiled
  code, jumps to a label of the same function never look at the limit, running
  into the next block and exceptions lose count, and a function entered from
  the loop counts its first block twice.
* *Heap.*  Requests near 2^64 wrap (`native/heap.hpp:101` against `:52`).
* *Threads.*  The main thread is resumed although it is blocked
  (`posix/threads.cpp:40` against `posix/threads.hpp:63`).  A FUTEX_WAIT without
  a bitset is never woken (`linux/syscalls_threads.cpp:50`).
* *Shared segments.*  The cache keeps the segment of the last machine, which
  still counts itself when it is evicted (`shared_exec_segment.cpp:34` against
  `shared_exec_segment.hpp:76`).
* *Live patching.*  The swap of an entry is two stores (`tr_compiler.cpp:248`)
  where a comment has one (`:232`).  A machine that reads LIVEPATCH between
  them makes the entry invalid for good; one that reads `FUNCTION` before and
  the index after raises an illegal instruction, and one that reads `FUNCTION2`
  (`bytecode_impl.cpp:1034`) silently runs handler 256 in the place of its own.  The arena of a machine may be freed
  before a compilation that is still queued starts (against the comment at
  `memory.cpp:42`), and a native function patched in while the cache is copied
  may be lost.
* *Integer instructions.* Handlers write register 0 (`la_instr_impl.hpp:21`
  against `docs/ISA.md:144`), most fast bytecodes and the emitted code do not;
  SC_D does, SC_W does not (`la_instr_atomic.hpp:177`, `:163`). Stores, system
  calls and thread switches do not clear the LL bit. The engines differ for
  SLTUI with a negative immediate, PCADDU18I out of range, branches whose
  distance outgrows the field of a rewritten format, ADDI_W in place, and
  system calls in the code field.
* *Emitted stores.*  Their bounds check ends at `arena_ptr + arena_size`
  (`tr_emit.cpp:295`) where that of `Memory::write` ends at the arena's size
  (`memory_inline.hpp:36`), in integer, floating-point and vector stores alike.
  A store in between writes the host's memory behind the arena and the program
  goes on, where the other engines fault (`Strays` in `Instructions` and in
  `VectorInstructions`).
* *Vector instructions.*  VPICKEV_W and the shuffles named in `Torn` write a
  register they still read (`la_instr_impl.hpp:2453` under the comment at
  `:2452`).  The fast and emitted code of some 128-bit instructions leaves the
  upper half as it was.  The pairs named in `Diverging`, FMSUB, FNMSUB, FNMADD
  and VHADDW among them, compute something else at another width.
* *Compiled code.*  Exceptions store the pc (`tr_compiler.cpp:194`) but not the
  registers a function has in local variables, nor does a `syscall imm` that stops the machine.  A function
  patched in by the host is bypassed by a jump inside a block.  `syscall imm`
  returns in line in compiled code, and to RA in the loop.
* *Nested runs.*  A `vmcall` or `preempt` in a system call handler may stop the
  outer run, or lift its limit.

## 6. Not modelled

* The instruction decoder's table of masks and the disassembler: no state, and
  overlaps are a matter of enumerating 32-bit words.
* The text the translator writes, formatting and I/O in system calls, the
  debugger, the command line.
* RDTIME_D, which reads the host's clock.
* Handlers that throw through compiled code, tracing builds, and the builds
  without bounds checks or register caching.
* The tail-call and switch dispatchers, which the build may choose instead of
  the threaded one.
* Guest calls (`vmcall`, `timed_vmcall`, `preempt`) nested in handlers, signals,
  the memory layout (`mmap`, `munmap`, `brk`), the guest's `std::string` and
  `std::vector`, the ELF loader, CRC-32C.

## 7. Plan

In this order, if the development goes on:

1. `Calls`: `vmcall`, `timed_vmcall` and `preempt` nested in system call
   handlers, on top of the interface of `Dispatch`.
2. `Signals` over `Threads`; `MemoryLayout` for `mmap`, `munmap` and the bounds
   of accesses; `GuestHeap` for the system calls around `Arena`.
3. CRC-32C as an operator against its bit-by-bit definition; guest strings and
   vectors.
4. The switch and tail-call dispatchers as further implementations of `Guest`.
