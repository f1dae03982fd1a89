------------------------------ MODULE LivePatch ------------------------------
(***************************************************************************)
(* Background compilation of an execute segment and the live patch that    *)
(* puts its result to use: try_translate and activate_dylib of             *)
(* tr_compiler.cpp, the LIVEPATCH and TRANSLATOR bytecodes, the native     *)
(* functions a host patches in, and the destructors of the machines and of *)
(* the segment.                                                            *)
(*                                                                         *)
(* Machines that share a segment run it on their own host threads, from    *)
(* the decoder cache `main'.  The compilation runs on a thread of its own: *)
(* it copies the cache, puts the translated functions into the copy, and   *)
(* then writes LIVEPATCH over the entries of the cache that is running,    *)
(* which sends whoever meets one over to the copy.  Nothing of that is     *)
(* locked.  What a translated function does is not modelled here, nor are  *)
(* two failures the generated text rules out: compiled code without an     *)
(* init function, and one that is out of the reach of a mapping.           *)
(*                                                                         *)
(* One address is one instruction of 4 bytes.                              *)
(***************************************************************************)
EXTENDS Integers

CONSTANTS
  Machines,   (* the machines, each with a host thread                     *)
  Size,       (* instructions in the segment                               *)
  Code,       (* what the decoder made of each: a call of one of the first *)
              (* 256 handlers, of one above them, an inline bytecode that  *)
              (* may branch, or an unconditional branch                    *)
  Mapped,     (* the addresses that have a translated function             *)
  Native      (* the functions the host may replace, by patch()            *)

Addresses == 0..(Size - 1)
Functions == {"function", "extended"}
Kinds == Functions \cup {"inline", "branch"}
Fields == {"bytecode", "idx"}
Whole == {"entry"}

ASSUME LivePatchAssumption ==
  /\ Size \in Nat \ {0}
  /\ Code \in [Addresses -> Kinds]
  /\ Mapped \subseteq Addresses /\ Native \subseteq Addresses

VARIABLES
  background,  (* translate_background_callback is set                     *)
  shared,      (* use_shared_execute_segments: the cache holds the segment *)
  main,        (* m_decoder_cache                                          *)
  patched,     (* the entries of the copy                                  *)
  published,   (* m_patched_decoder_cache refers to the copy               *)
  dylib,       (* the compiled code                                        *)
  stored,      (* m_bintr_dl refers to it                                  *)
  compiling,   (* m_is_background_compiling                                *)
  job,         (* where the compilation is                                 *)
  todo,        (* the entries, or fields of entries, it has still to write *)
  segment,     (* the segment: alive, closing in its destructor, or freed  *)
  life,        (* where each machine is                                    *)
  loop,        (* the loop of a machine that runs: exec_decoder, decoder,  *)
               (* and the bytecode it has read there                       *)
  arena        (* the memory of each machine                               *)

config == <<background, shared>>
caches == <<main, patched, published>>
code == <<dylib, stored>>
compile == <<compiling, job, todo>>
machines == <<life, loop, arena>>
vars == <<config, caches, code, compile, segment, machines>>

Bytecodes == Kinds \cup {"LIVEPATCH", "TRANSLATOR", "SYSCALLIMM", "INVALID", "undefined"}
Indexes == {"own", "zero", "none", "undefined"}
Entries == [bytecode : Bytecodes, idx : Indexes]

(* handler_idx is the low byte of the number of a handler.  "own" is what  *)
(* the decoder put there; in an extended function it may happen to be zero,*)
(* which is then no damage: the model takes it for one.                    *)
Sentinel_Missing == [bytecode |-> "memory", idx |-> "zero"]
Sentinel == [bytecode |-> "INVALID", idx |-> "zero"]
Unwritten == [bytecode |-> "undefined", idx |-> "undefined"]
Translated == [bytecode |-> "TRANSLATOR", idx |-> "none"]
NativeCall == [bytecode |-> "SYSCALLIMM", idx |-> "zero"]

Outside == [cache |-> "main", addr |-> 0, opcode |-> "none"]

Init ==
  /\ background \in BOOLEAN /\ shared \in BOOLEAN
  /\ main = [a \in 0..Size |-> IF a = Size THEN Sentinel
                               ELSE [bytecode |-> Code[a], idx |-> "own"]]
  /\ patched = [a \in 0..Size |-> Unwritten] /\ published = FALSE
  /\ dylib = "none" /\ stored = FALSE
  /\ compiling = FALSE /\ job = "queued" /\ todo = {}
  /\ segment = "alive"
  /\ \E creator \in Machines :
       /\ life = [m \in Machines |-> IF m = creator THEN "out" ELSE "none"]
       /\ arena = [m \in Machines |-> IF m = creator THEN "mapped" ELSE "none"]
  /\ loop = [m \in Machines |-> Outside]
------------------------------------------------------------------------------
(* The compilation: the lambda compilation_step of try_translate.  Without *)
(* a callback it runs inside the constructor, on the cache itself.         *)
Go(from, to) == job = from /\ job' = to

Finish ==
  /\ job' = "done" /\ todo' = {}
  /\ compiling' = FALSE

Start ==
  /\ Go("queued", "compile")
  /\ compiling' = background
  /\ UNCHANGED <<config, caches, code, todo, segment, machines>>

CompileFails_StillCompiling ==
  /\ job = "compile" /\ job' = "done" /\ todo' = {}
  /\ UNCHANGED <<config, caches, code, compiling, segment, machines>>
CompileFails ==
  /\ job = "compile" /\ Finish
  /\ UNCHANGED <<config, caches, code, segment, machines>>

Compile ==
  /\ Go("compile", "activate")
  /\ dylib' = "open"
  /\ UNCHANGED <<config, caches, stored, compiling, todo, segment, machines>>

(* The mappings cannot be found, or are too many.                          *)
ActivateThrows ==
  /\ job = "activate" /\ Finish
  /\ dylib' = "closed"
  /\ UNCHANGED <<config, caches, stored, segment, machines>>

(* The copy has decoder_cache_size() entries: as many as there are         *)
(* instructions, without the one that ends the cache.                      *)
CopySize_OffByOne == 0..(Size - 2)
CopySize == Addresses

Activate ==
  /\ IF background THEN Go("activate", "copy") /\ todo' = CopySize \X Whole
     ELSE Go("activate", "map") /\ todo' = Mapped \X Whole
  /\ UNCHANGED <<config, caches, code, compiling, segment, machines>>

Copy(a) ==
  /\ job = "copy" /\ <<a, "entry">> \in todo
  /\ patched' = [patched EXCEPT ![a] = main[a]]
  /\ todo' = todo \ {<<a, "entry">>}
  /\ UNCHANGED <<config, main, published, code, compiling, job, segment, machines>>

Publish ==
  /\ todo = {} /\ Go("copy", "map")
  /\ published' = TRUE /\ todo' = Mapped \X Whole
  /\ UNCHANGED <<config, main, patched, code, compiling, segment, machines>>

(* Without live patching the mappings go into the cache that will run.     *)
LivePatching_Never == FALSE
LivePatching == background

Map(a) ==
  /\ job = "map" /\ <<a, "entry">> \in todo
  /\ IF LivePatching
     THEN patched' = [patched EXCEPT ![a] = Translated] /\ UNCHANGED main
     ELSE main' = [main EXCEPT ![a] = Translated] /\ UNCHANGED patched
  /\ todo' = todo \ {<<a, "entry">>}
  /\ UNCHANGED <<config, published, code, compiling, job, segment, machines>>

Store ==
  /\ job = "map" /\ todo = {}
  /\ stored' = TRUE
  /\ IF background THEN job' = "patch" /\ todo' = Mapped \X Fields /\ UNCHANGED compiling
     ELSE Finish
  /\ UNCHANGED <<config, caches, dylib, segment, machines>>

(* apply_live_patch.  set_bytecode() and the write of handler_idx are      *)
(* plain stores to two bytes that other threads are reading: a build may   *)
(* do them in either order, or as one.                                     *)
PatchField(a, f) ==
  /\ job = "patch" /\ <<a, f>> \in todo
  /\ main' = [main EXCEPT ![a] =
       IF f = "bytecode" THEN [@ EXCEPT !.bytecode = "LIVEPATCH"] ELSE [@ EXCEPT !.idx = "zero"]]
  /\ todo' = todo \ {<<a, f>>}
  /\ UNCHANGED <<config, patched, published, code, compiling, job, segment, machines>>

PatchDone ==
  /\ job = "patch" /\ todo = {} /\ Finish
  /\ UNCHANGED <<config, caches, code, segment, machines>>

(* The lambda goes, and with it its reference to the segment.              *)
Release ==
  /\ Go("done", "released")
  /\ UNCHANGED <<config, caches, code, compiling, todo, segment, machines>>

Job ==
  \/ Start \/ CompileFails \/ Compile \/ ActivateThrows \/ Activate \/ Publish
  \/ Store \/ PatchDone \/ Release
  \/ \E a \in Addresses : Copy(a) \/ Map(a) \/ \E f \in Fields : PatchField(a, f)
------------------------------------------------------------------------------
(* The machines.  A machine gets the segment from whoever builds it, after *)
(* a compilation without a callback has ended.                             *)
Constructed == background \/ job \in {"done", "released"}

Attach(m) ==
  /\ life[m] = "none" /\ shared /\ Constructed
  /\ life' = [life EXCEPT ![m] = "out"]
  /\ arena' = [arena EXCEPT ![m] = "mapped"]
  /\ UNCHANGED <<config, caches, code, compile, segment, loop>>

(* patch(): a host replaces a function of the guest by a native one.       *)
PatchNative(m, a) ==
  /\ life[m] = "out" /\ Constructed
  /\ main' = [main EXCEPT ![a] = NativeCall]
  /\ UNCHANGED <<config, patched, published, code, compile, segment, machines>>

Entry(c, a) == IF c = "main" THEN main'[a] ELSE patched'[a]

(* The loop is at an entry, and has read its bytecode.                     *)
At(m, c, a) ==
  /\ life' = [life EXCEPT ![m] = "loop"]
  /\ loop' = [loop EXCEPT ![m] = [cache |-> c, addr |-> a, opcode |-> Entry(c, a).bytecode]]

(* The loop has been left: the host goes on, or another segment.           *)
Leave(m) ==
  /\ life' = [life EXCEPT ![m] = "out"]
  /\ loop' = [loop EXCEPT ![m] = Outside]

(* check_jump, and the next instruction of the same cache.                 *)
Jump(m) == Leave(m) \/ \E a \in Addresses : At(m, loop[m].cache, a)
Following(m) == At(m, loop[m].cache, loop[m].addr + 1)

Outer == UNCHANGED <<config, patched, published, code, compile, segment, arena>>

Run(m, opcode) == life[m] = "loop" /\ loop[m].opcode = opcode /\ Outer

Enter(m) ==
  /\ life[m] = "out" /\ Constructed /\ Outer /\ UNCHANGED main
  /\ \E a \in Addresses : At(m, "main", a)

(* The handler_idx that is read once the bytecode has been.                *)
Handler(m) ==
  (IF loop[m].cache = "main" THEN main ELSE patched)[loop[m].addr].idx

(* execute_decoded_function: handler 0 is the one that raises an illegal   *)
(* instruction.                                                            *)

Function(m) ==
  /\ Run(m, "function") /\ UNCHANGED main
  /\ \/ Handler(m) # "zero" /\ Following(m)
     \/ Leave(m)

(* execute_function_extended: zero is handler 256, one like any other.  A  *)
(* handler returns, or throws.                                             *)
Extended(m) == Run(m, "extended") /\ UNCHANGED main /\ (Following(m) \/ Leave(m))

Inline(m) == Run(m, "inline") /\ UNCHANGED main /\ (Following(m) \/ Jump(m))
Branch(m) == Run(m, "branch") /\ UNCHANGED main /\ Jump(m)
NativeFunction(m) == Run(m, "SYSCALLIMM") /\ UNCHANGED main /\ Jump(m)
Invalid(m) == Run(m, "INVALID") /\ UNCHANGED main /\ Leave(m)

(* What lies behind the copy is executed, whatever it is.                  *)
Undefined(m) == Run(m, "undefined") /\ UNCHANGED main /\ Jump(m)

(* LIVEPATCH: handler_idx tells which kind.  Any other kind than 0 makes   *)
(* the entry invalid for good, and executes that.                          *)
GoOver(m) ==
  /\ Run(m, "LIVEPATCH") /\ Handler(m) = "zero" /\ UNCHANGED main
  /\ At(m, "patched", loop[m].addr)

GoWrong(m) ==
  /\ Run(m, "LIVEPATCH") /\ Handler(m) # "zero" /\ loop[m].cache = "main"
  /\ main' = [main EXCEPT ![loop[m].addr] = Sentinel]
  /\ At(m, "main", loop[m].addr)

(* A translated function is called, and returns with a new pc.             *)
Call(m) ==
  /\ Run(m, "TRANSLATOR") /\ UNCHANGED <<main, life>>
  /\ loop' = [loop EXCEPT ![m].opcode = "translated"]
Return(m) == Run(m, "translated") /\ UNCHANGED main /\ Jump(m)

(* ~Memory: a machine that is destroyed while its segment is being compiled*)
(* leaves its arena, and a reference to the segment, to a thread that waits*)
(* for the end of the compilation.                                         *)
Destroy(m) ==
  /\ life[m] = "out" /\ Constructed
  /\ life' = [life EXCEPT ![m] = IF compiling THEN "waiting" ELSE "gone"]
  /\ arena' = [arena EXCEPT ![m] = IF compiling THEN @ ELSE "freed"]
  /\ UNCHANGED <<config, caches, code, compile, segment, loop>>

FreeArena(m) ==
  /\ life[m] = "waiting" /\ ~compiling
  /\ life' = [life EXCEPT ![m] = "gone"]
  /\ arena' = [arena EXCEPT ![m] = "freed"]
  /\ UNCHANGED <<config, caches, code, compile, segment, loop>>

(* use_count of the segment is not 0.                                      *)
Held_NotByJob == shared \/ \E m \in Machines : life[m] \in {"out", "loop", "waiting"}
Held == shared \/ job # "released" \/ \E m \in Machines : life[m] \in {"out", "loop", "waiting"}

(* ~DecodedExecuteSegment.                                                 *)
CloseSegment ==
  /\ segment = "alive" /\ ~Held
  /\ segment' = "closing"
  /\ dylib' = IF stored THEN "closed" ELSE dylib
  /\ UNCHANGED <<config, caches, stored, compile, machines>>

FreeSegment ==
  /\ segment = "closing" /\ ~compiling
  /\ segment' = "freed"
  /\ UNCHANGED <<config, caches, code, compile, machines>>

Loop(m) ==
  \/ Function(m) \/ Extended(m) \/ Inline(m) \/ Branch(m) \/ NativeFunction(m) \/ Invalid(m) \/ Undefined(m)
  \/ GoOver(m) \/ GoWrong(m) \/ Call(m) \/ Return(m)

Next ==
  \/ Job \/ CloseSegment \/ FreeSegment
  \/ \E m \in Machines :
       \/ Attach(m) \/ Enter(m) \/ Loop(m) \/ Destroy(m) \/ FreeArena(m)
       \/ \E a \in Native : PatchNative(m, a)

Spec == Init /\ [][Next]_vars

(* The threads run: the one of the compilation, those that wait for it, and*)
(* the one that drops the last reference.                                  *)
Fairness ==
  /\ WF_vars(Job) /\ WF_vars(CloseSegment) /\ WF_vars(FreeSegment)
  /\ \A m \in Machines : WF_vars(FreeArena(m))
FairSpec == Spec /\ Fairness
------------------------------------------------------------------------------
TypeOK ==
  /\ background \in BOOLEAN /\ shared \in BOOLEAN /\ published \in BOOLEAN
  /\ main \in [0..Size -> Entries] /\ patched \in [0..Size -> Entries]
  /\ dylib \in {"none", "open", "closed"} /\ stored \in BOOLEAN /\ compiling \in BOOLEAN
  /\ job \in {"queued", "compile", "activate", "copy", "map", "patch", "done", "released"}
  /\ todo \subseteq Addresses \X (Whole \cup Fields)
  /\ segment \in {"alive", "closing", "freed"}
  /\ life \in [Machines -> {"none", "out", "loop", "waiting", "gone"}]
  /\ loop \in [Machines -> [cache : {"main", "patched"}, addr : 0..Size,
                             opcode : Bytecodes \cup {"none", "translated"}]]
  /\ arena \in [Machines -> {"none", "mapped", "freed"}]

(* A machine is sent to the copy only when the copy is complete, with its  *)
(* translated functions; it calls one only while the code is loaded, which *)
(* it stays as long as anybody can call it; and nobody runs or compiles a  *)
(* segment that is being destroyed (tr_compiler.cpp:435-446,               *)
(* decoded_exec_segment.cpp:36).                                           *)
CodeReady ==
  /\ \A a \in Addresses : main[a].bytecode = "LIVEPATCH" =>
       published /\ patched[a] = Translated
  /\ \A m \in Machines : life[m] = "loop" =>
       /\ segment = "alive"
       /\ loop[m].cache = "patched" => published
       /\ loop[m].opcode \in {"TRANSLATOR", "translated"} => dylib = "open"
  /\ job # "released" => segment = "alive"

(* What the swap can do to a guest that runs meanwhile, because the two    *)
(* bytes of an entry are written and read at different times: an illegal   *)
(* instruction, or, where the decoder found an extended function and only  *)
(* there, the handler of another instruction, which nothing reports.  Both *)
(* are confined to the cache that is being patched, at an address that has *)
(* a translation, or at a function another machine replaces just then; the *)
(* copy, and a segment that was compiled before it ran, are not damaged.   *)
Stopped(m) ==
  \/ loop[m].opcode \in {"INVALID", "undefined"}
  \/ loop[m].opcode = "function" /\ Handler(m) = "zero"
Misled(m) == loop[m].opcode = "extended" /\ Handler(m) = "zero"

DamageConfined ==
  \A m \in Machines :
    life[m] = "loop" /\ loop[m].addr # Size /\ (Stopped(m) \/ Misled(m)) =>
      /\ loop[m].cache = "main"
      /\ loop[m].addr \in IF background THEN Native \cup Mapped ELSE Native
      /\ Misled(m) => Code[loop[m].addr] = "extended"

(* The compilation ends however it goes, and whoever waits for it gets on: *)
(* arenas, and the segment when nobody has it, are freed.                  *)
Reclaimed ==
  /\ <>(job = "released")
  /\ \A m \in Machines : life[m] = "waiting" ~> arena[m] = "freed"
  /\ (~Held) ~> (segment = "freed")

(* decoder_cache.cpp:252: "The final instruction in every segment must be  *)
(* zero (invalid)  This marks the end of the cache, and prevents overruns".*)
EndMarked ==
  \A m \in Machines : life[m] = "loop" /\ loop[m].addr = Size => loop[m].opcode = "INVALID"
=============================================================================
