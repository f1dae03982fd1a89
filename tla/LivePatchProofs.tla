--------------------------- MODULE LivePatchProofs ---------------------------
(***************************************************************************)
(* Proofs about LivePatch: its types, and that neither the compilation nor *)
(* the machines ever meet code or an entry that is not ready, for any      *)
(* number of machines, any code, mappings and native functions.            *)
(*                                                                         *)
(* CodeReady says nothing of how the compilation comes to the live patch,  *)
(* and DamageConfined nothing of what a machine has read already; the      *)
(* inductive invariant adds both: what the caches hold at each stage of    *)
(* the compilation (Stages, Entered), and what a machine that has read a   *)
(* bytecode relies on until it runs it (Running).                          *)
(***************************************************************************)
EXTENDS LivePatch, TLAPS

Late == {"patch", "done", "released"}
Mapping == {"map"} \cup Late

HasTranslated == \E a \in Addresses :
  main[a].bytecode = "TRANSLATOR" \/ patched[a].bytecode = "TRANSLATOR"

(* What is left to write at each stage, and what has been written by then. *)
Todo ==
  /\ job = "copy" => todo \subseteq Addresses \X Whole
  /\ job = "map" => todo \subseteq Mapped \X Whole
  /\ job = "patch" => todo \subseteq Mapped \X Fields
  /\ job \notin {"copy", "map", "patch"} => todo = {}

Stages ==
  /\ job \in {"copy", "patch"} => background
  /\ published => background /\ job \in Mapping
  /\ background /\ job \in {"map", "patch"} => published
  /\ job \in {"activate", "copy", "map", "patch"} => dylib = "open"
  /\ job = "copy" => \A a \in Addresses :
       <<a, "entry">> \notin todo => patched[a].bytecode # "undefined"
  /\ published /\ job = "map" => \A a \in Mapped :
       <<a, "entry">> \notin todo => patched[a] = Translated
  /\ published /\ job \in Late => \A a \in Mapped : patched[a] = Translated

Loaded ==
  /\ HasTranslated /\ segment = "alive" => dylib = "open"
  /\ segment # "alive" => ~Held

InMain(a) ==
  /\ main[a].bytecode # "undefined"
  /\ main[a].bytecode \in {"LIVEPATCH", "INVALID"} =>
       background /\ published /\ job \in Late /\ a \in Mapped
  /\ main[a].bytecode = "TRANSLATOR" => ~background /\ job \in Mapping
  /\ main[a].idx = "zero" => a \in IF background THEN Native \cup Mapped ELSE Native
  /\ main[a].bytecode \in Functions /\ main[a].idx # "own" => job \in Late
  /\ main[a].bytecode = "extended" => Code[a] = "extended"

InCopy(a) ==
  /\ patched[a].bytecode \notin {"LIVEPATCH", "INVALID"}
  /\ patched[a].bytecode \in Functions => patched[a].idx = "own"
  /\ patched[a].bytecode = "extended" => Code[a] = "extended"
  /\ patched[a].bytecode = "TRANSLATOR" => job \in Mapping
  /\ published => patched[a].bytecode # "undefined"

Entered ==
  /\ main[Size] = Sentinel /\ patched[Size] = Unwritten
  /\ \A a \in Addresses : InMain(a) /\ InCopy(a)

Relies(m) ==
  /\ Constructed
  /\ loop[m].opcode \in Kinds => loop[m].addr \in Addresses
  /\ loop[m].opcode = "LIVEPATCH" =>
       /\ loop[m].cache = "main" /\ background /\ published
       /\ job \in Late /\ loop[m].addr \in Mapped
  /\ loop[m].opcode \in {"TRANSLATOR", "translated"} => job \in Mapping /\ dylib = "open"
  /\ loop[m].opcode = "INVALID" /\ loop[m].addr # Size =>
       loop[m].cache = "main" /\ background /\ loop[m].addr \in Mapped
  /\ loop[m].opcode = "undefined" => loop[m].addr = Size
  /\ loop[m].cache = "patched" => published /\ job \in Late
  /\ loop[m].cache = "patched" /\ loop[m].opcode \in Functions =>
       patched[loop[m].addr].bytecode \in Functions
  /\ loop[m].opcode = "extended" => Code[loop[m].addr] = "extended"

Running == \A m \in Machines : life[m] = "loop" => Relies(m)

IInv == TypeOK /\ Todo /\ Stages /\ Loaded /\ Entered /\ Running
------------------------------------------------------------------------------
USE DEF Addresses, Functions, Kinds, Fields, Whole, Bytecodes, Indexes, Entries

LEMMA Initially == Init => IInv
<1> SUFFICES ASSUME Init PROVE IInv
  OBVIOUS
<1> USE LivePatchAssumption DEF Init
<1>0. /\ 0 \in 0..Size /\ Size \notin Addresses
      /\ \A a \in Addresses : /\ a \in 0..Size /\ Code[a] \in Kinds
                              /\ main[a] = [bytecode |-> Code[a], idx |-> "own"]
                              /\ main[a].bytecode = Code[a] /\ main[a].idx = "own"
                              /\ patched[a] = Unwritten
      /\ main[Size] = Sentinel /\ patched[Size] = Unwritten
  OBVIOUS
<1>1. TypeOK
  <2>1. Sentinel \in Entries /\ Unwritten \in Entries
    BY DEF Sentinel, Unwritten
  <2>2. main \in [0..Size -> Entries] /\ patched \in [0..Size -> Entries]
    BY <2>1
  <2>3. loop \in [Machines -> [cache : {"main", "patched"}, addr : 0..Size,
                             opcode : Bytecodes \cup {"none", "translated"}]]
    BY <1>0 DEF Outside
  <2>4. /\ life \in [Machines -> {"none", "out", "loop", "waiting", "gone"}]
        /\ arena \in [Machines -> {"none", "mapped", "freed"}]
    OBVIOUS
  <2>5. /\ todo \subseteq Addresses \X (Whole \cup Fields)
        /\ background \in BOOLEAN /\ shared \in BOOLEAN /\ published \in BOOLEAN
        /\ stored \in BOOLEAN /\ compiling \in BOOLEAN
    OBVIOUS
  <2> QED
    BY <2>2, <2>3, <2>4, <2>5 DEF TypeOK
<1>2. Todo /\ Stages
  BY DEF Todo, Stages, Mapping, Late
<1>3. Loaded
  BY <1>0 DEF Loaded, HasTranslated, Unwritten
<1>4. Entered
  BY <1>0 DEF Entered, InMain, InCopy, Unwritten
<1>5. Running
  BY DEF Running
<1> QED
  BY <1>1, <1>2, <1>3, <1>4, <1>5 DEF IInv

(* As long as somebody has the segment it is alive.                        *)
LEMMA HeldAlive ==
  ASSUME IInv, shared \/ job # "released" \/ \E m \in Machines : life[m] \in {"out", "loop", "waiting"}
  PROVE  segment = "alive"
BY DEF IInv, Loaded, Held

(* What a machine finds where its loop goes, is what it relies on.         *)
LEMMA Reads ==
  ASSUME IInv, NEW m \in Machines, life[m] \in {"out", "loop"}, Constructed, Outer, UNCHANGED main,
         NEW c \in {"main", "patched"}, NEW a \in 0..Size,
         c = "patched" => published /\ job \in Late,
         At(m, c, a)
  PROVE  Relies(m)' /\ TypeOK'
<1> USE LivePatchAssumption
<1> DEFINE o == Entry(c, a).bytecode
<1>1. /\ main' = main /\ patched' = patched /\ job' = job /\ published' = published
      /\ dylib' = dylib /\ background' = background /\ segment = "alive"
  BY HeldAlive DEF Outer, config, code, compile
<1>2. loop'[m] = [cache |-> c, addr |-> a, opcode |-> o] /\ o \in Bytecodes
  BY <1>1 DEF At, IInv, TypeOK, Entry
<1>3. Constructed'
  BY <1>1 DEF Constructed
<1>4. ASSUME c = "main" PROVE Relies(m)'
  <2>1. o = main[a].bytecode
    BY <1>1, <1>4 DEF Entry
  <2>2. a = Size => o = "INVALID"
    BY <2>1 DEF IInv, Entered, Sentinel
  <2>3. a # Size => a \in Addresses /\ InMain(a)
    BY DEF IInv, Entered
  <2>4. o \in {"TRANSLATOR", "translated"} => job \in Mapping /\ dylib = "open"
    BY <1>1, <1>2, <2>1, <2>2, <2>3 DEF IInv, Loaded, HasTranslated, InMain
  <2> QED
    BY <1>1, <1>2, <1>3, <1>4, <2>1, <2>2, <2>3, <2>4 DEF Relies, InMain
<1>5. ASSUME c = "patched" PROVE Relies(m)'
  <2>1. o = patched[a].bytecode
    BY <1>1, <1>5 DEF Entry
  <2>2. a = Size => o = "undefined"
    BY <2>1 DEF IInv, Entered, Unwritten
  <2>3. a # Size => a \in Addresses /\ InCopy(a)
    BY DEF IInv, Entered
  <2>4. o \in {"TRANSLATOR", "translated"} => job \in Mapping /\ dylib = "open"
    BY <1>1, <1>2, <2>1, <2>2, <2>3 DEF IInv, Loaded, HasTranslated, InCopy
  <2> QED
    BY <1>1, <1>2, <1>3, <1>5, <2>1, <2>2, <2>3, <2>4 DEF Relies, InCopy
<1>6. TypeOK'
  BY <1>2 DEF IInv, TypeOK, At, Outer, config, code, compile
<1> QED
  BY <1>4, <1>5, <1>6

(* A machine that leaves the loop, or gets to an entry, disturbs nobody.   *)
LEMMA Moves ==
  ASSUME IInv, NEW m \in Machines, life[m] \in {"out", "loop"}, Constructed, Outer, UNCHANGED main,
         \/ Leave(m)
         \/ \E c \in {"main", "patched"}, a \in 0..Size :
              At(m, c, a) /\ (c = "patched" => published /\ job \in Late)
  PROVE  IInv'
<1> USE LivePatchAssumption
<1>1. /\ main' = main /\ patched' = patched /\ job' = job /\ published' = published
      /\ dylib' = dylib /\ background' = background /\ segment' = segment
      /\ todo' = todo /\ shared' = shared /\ segment = "alive"
  BY HeldAlive DEF Outer, config, code, compile
<1>2. Todo' /\ Stages'
  BY <1>1 DEF IInv, Todo, Stages
<1>3. Loaded' /\ Entered'
  BY <1>1 DEF IInv, Loaded, HasTranslated, Entered, InMain, InCopy
<1>4. TypeOK' /\ (life'[m] = "loop" => Relies(m)')
  <2>1. CASE Leave(m)
    BY <2>1 DEF Leave, Outside, IInv, TypeOK, Outer, config, code, compile
  <2>2. CASE \E c \in {"main", "patched"}, a \in 0..Size :
               At(m, c, a) /\ (c = "patched" => published /\ job \in Late)
    BY <2>2, Reads
  <2> QED
    BY <2>1, <2>2
<1>5. Running'
  <2> SUFFICES ASSUME NEW n \in Machines, n # m, life'[n] = "loop" PROVE Relies(n)'
    BY <1>4 DEF Running
  <2>1. life'[n] = life[n] /\ loop'[n] = loop[n]
    BY DEF Leave, At, IInv, TypeOK
  <2> QED
    BY <1>1, <2>1 DEF IInv, Running, Relies, Constructed
<1> QED
  BY <1>2, <1>3, <1>4, <1>5 DEF IInv

(* A step of the loop.                                                     *)
LEMMA LoopStep ==
  ASSUME IInv, NEW m \in Machines, Loop(m)
  PROVE  IInv'
<1> USE LivePatchAssumption
<1>1. life[m] = "loop" /\ Outer /\ Relies(m) /\ Constructed /\ loop[m].cache \in {"main", "patched"}
      /\ (loop[m].cache = "patched" => published /\ job \in Late) /\ loop[m].addr \in 0..Size
  BY DEF Loop, Function, Extended, Inline, Branch, NativeFunction, Invalid, Undefined, GoOver, GoWrong, Call,
         Return, Run, IInv, TypeOK, Running, Relies
<1>2. loop[m].opcode \in Kinds => loop[m].addr + 1 \in 0..Size
  BY <1>1 DEF Relies
<1>3. ASSUME UNCHANGED main, Leave(m) \/ Jump(m) PROVE IInv'
  BY <1>1, <1>3, Moves DEF Jump
<1>4. ASSUME UNCHANGED main, loop[m].opcode \in Kinds, Following(m) PROVE IInv'
  BY <1>1, <1>2, <1>4, Moves DEF Following
<1>5. CASE Function(m) \/ Extended(m)
  BY <1>3, <1>4, <1>5 DEF Function, Extended, Run
<1>6. CASE Inline(m)
  BY <1>3, <1>4, <1>6 DEF Inline, Run
<1>7. CASE Branch(m) \/ NativeFunction(m) \/ Invalid(m) \/ Undefined(m) \/ Return(m)
  BY <1>3, <1>7 DEF Branch, NativeFunction, Invalid, Undefined, Return
<1>8. CASE GoOver(m)
  BY <1>1, <1>8, Moves DEF GoOver, Run, Relies
<1>9. CASE GoWrong(m)
  <2> DEFINE b == loop[m].addr
  <2>1. /\ background /\ published /\ job \in Late /\ b \in Mapped
        /\ loop[m].opcode = "LIVEPATCH" /\ segment = "alive"
    BY <1>1, <1>9, HeldAlive DEF GoWrong, Run, Relies
  <2>2. /\ patched' = patched /\ job' = job /\ published' = published
        /\ dylib' = dylib /\ background' = background /\ segment' = segment
        /\ todo' = todo /\ shared' = shared
    BY <1>1 DEF Outer, config, code, compile
  <2>3. main' = [main EXCEPT ![b] = Sentinel]
    BY <1>9 DEF GoWrong
  <2>4. loop' = [loop EXCEPT ![m] = [cache |-> "main", addr |-> b, opcode |-> "INVALID"]] /\ life' = life
    <3>1. Entry("main", b).bytecode = "INVALID"
      BY <1>1, <2>3 DEF Entry, Sentinel, IInv, TypeOK
    <3>2. life' = [life EXCEPT ![m] = "loop"] /\ DOMAIN life = Machines
                /\ life = [n \in Machines |-> life[n]]
      BY <1>9 DEF GoWrong, At, IInv, TypeOK
    <3>3. life' = life
      BY <1>1, <3>2
    <3> QED
      BY <1>9, <3>1, <3>3 DEF GoWrong, At
  <2>5. TypeOK'
    BY <1>1, <2>3, <2>4 DEF IInv, TypeOK, Sentinel, Outer, config, code, compile
  <2>6. Todo' /\ Stages'
    BY <2>2 DEF IInv, Todo, Stages
  <2>7. Loaded'
    BY <2>1, <2>2, <2>3 DEF IInv, Loaded, HasTranslated, Sentinel, TypeOK
  <2>8. Entered'
    <3>1. b # Size /\ main'[Size] = Sentinel /\ patched'[Size] = Unwritten
      BY <2>1, <2>2, <2>3 DEF IInv, Entered, TypeOK
    <3>2. ASSUME NEW a \in Addresses PROVE InMain(a)' /\ InCopy(a)'
      <4>1. main'[a] = IF a = b THEN Sentinel ELSE main[a]
        BY <2>3 DEF IInv, TypeOK
      <4> QED
        BY <2>1, <2>2, <4>1 DEF IInv, Entered, InMain, InCopy, Sentinel
    <3> QED
      BY <3>1, <3>2 DEF Entered
  <2>9. Running'
    BY <1>1, <2>1, <2>2, <2>4 DEF IInv, TypeOK, Running, Relies, Constructed
  <2> QED
    BY <2>5, <2>6, <2>7, <2>8, <2>9 DEF IInv
<1>10. CASE Call(m)
  <2>1. /\ main' = main /\ patched' = patched /\ job' = job /\ published' = published
        /\ dylib' = dylib /\ background' = background /\ segment' = segment
        /\ todo' = todo /\ shared' = shared /\ life' = life
    BY <1>1, <1>10 DEF Call, Outer, config, code, compile
  <2>2. loop' = [loop EXCEPT ![m].opcode = "translated"] /\ loop[m].opcode = "TRANSLATOR"
    BY <1>10 DEF Call, Run
  <2>3. TypeOK'
    <3> DEFINE Places == [cache : {"main", "patched"}, addr : 0..Size,
                          opcode : Bytecodes \cup {"none", "translated"}]
    <3>1. loop \in [Machines -> Places]
      BY DEF IInv, TypeOK
    <3>2. [loop[m] EXCEPT !.opcode = "translated"] \in Places
      BY <3>1
    <3>3. loop' \in [Machines -> Places]
      BY <2>2, <3>1, <3>2
    <3> QED
      BY <1>1, <2>1, <3>3 DEF IInv, TypeOK, Outer, config, code, compile
  <2>4. Todo' /\ Stages' /\ Loaded' /\ Entered'
    BY <2>1 DEF IInv, Todo, Stages, Loaded, HasTranslated, Held, Entered, InMain, InCopy
  <2>5. Running'
    <3> SUFFICES ASSUME NEW n \in Machines, life[n] = "loop" PROVE Relies(n)'
      BY <2>1 DEF Running
    <3>1. Relies(n)
      BY DEF IInv, Running
    <3>2. CASE n = m
      <4>1. loop'[n] = [loop[n] EXCEPT !.opcode = "translated"]
            /\ loop[n] \in [cache : {"main", "patched"}, addr : 0..Size,
                             opcode : Bytecodes \cup {"none", "translated"}]
        BY <2>2, <3>2 DEF IInv, TypeOK
      <4>2. loop'[n].opcode = "translated" /\ loop'[n].addr = loop[n].addr
            /\ loop'[n].cache = loop[n].cache
        BY <4>1
      <4> QED
        BY <2>1, <2>2, <3>1, <3>2, <4>2 DEF Relies, Constructed
    <3>3. CASE n # m
      BY <2>1, <2>2, <3>1, <3>3 DEF IInv, TypeOK, Relies, Constructed
    <3> QED
      BY <3>2, <3>3
  <2> QED
    BY <2>3, <2>4, <2>5 DEF IInv
<1> QED
  BY <1>5, <1>6, <1>7, <1>8, <1>9, <1>10 DEF Loop

(* The other steps of the machines, and the destructor of the segment.     *)
LEMMA MachineStep ==
  ASSUME IInv, NEW m \in Machines,
         \/ Attach(m) \/ Enter(m) \/ Destroy(m) \/ FreeArena(m)
         \/ \E a \in Native : PatchNative(m, a)
  PROVE  IInv'
<1> USE LivePatchAssumption
<1>1. ASSUME shared \/ life[m] \in {"out", "waiting"},
             life' = [life EXCEPT ![m] = life'[m]], life[m] # "loop", life'[m] # "loop",
             UNCHANGED <<config, caches, code, compile, segment, loop>>, TypeOK'
      PROVE  IInv'
  <2>1. segment = "alive"
    BY <1>1, HeldAlive
  <2>2. Todo' /\ Stages' /\ Entered'
    BY <1>1 DEF IInv, Todo, Stages, Entered, InMain, InCopy, config, caches, code, compile
  <2>3. Loaded'
    BY <1>1, <2>1 DEF IInv, Loaded, HasTranslated, config, caches, code, compile
  <2>4. Running'
    BY <1>1 DEF IInv, TypeOK, Running, Relies, Constructed, config, caches, code, compile
  <2> QED
    BY <1>1, <2>2, <2>3, <2>4 DEF IInv
<1>2. CASE Attach(m)
  BY <1>1, <1>2 DEF Attach, IInv, TypeOK, config, caches, code, compile
<1>3. CASE Enter(m)
  BY <1>3, Moves DEF Enter
<1>4. CASE Destroy(m)
  BY <1>1, <1>4 DEF Destroy, IInv, TypeOK, config, caches, code, compile
<1>5. CASE FreeArena(m)
  BY <1>1, <1>5 DEF FreeArena, IInv, TypeOK, config, caches, code, compile
<1>6. ASSUME NEW b \in Native, PatchNative(m, b) PROVE IInv'
  <2>1. /\ main' = [main EXCEPT ![b] = NativeCall] /\ patched' = patched /\ job' = job
        /\ published' = published /\ dylib' = dylib /\ background' = background
        /\ segment' = segment /\ todo' = todo /\ shared' = shared /\ life' = life /\ loop' = loop
        /\ b \in Addresses /\ b # Size
    BY <1>6 DEF PatchNative, config, code, compile, machines
  <2>2. TypeOK'
    BY <1>6, <2>1 DEF PatchNative, NativeCall, IInv, TypeOK, config, code, compile, machines
  <2>3. Todo' /\ Stages' /\ Running'
    BY <2>1 DEF IInv, Todo, Stages, Running, Relies, Constructed
  <2>4. Loaded'
    BY <2>1 DEF IInv, TypeOK, Loaded, Held, HasTranslated, NativeCall
  <2>5. Entered'
    <3>1. main'[Size] = Sentinel /\ patched'[Size] = Unwritten
      BY <2>1 DEF IInv, Entered, TypeOK
    <3>2. ASSUME NEW a \in Addresses PROVE InMain(a)' /\ InCopy(a)'
      <4>1. main'[a] = IF a = b THEN NativeCall ELSE main[a]
        BY <2>1 DEF IInv, TypeOK
      <4> QED
        BY <2>1, <4>1 DEF IInv, Entered, InMain, InCopy, NativeCall
    <3> QED
      BY <3>1, <3>2 DEF Entered
  <2> QED
    BY <2>2, <2>3, <2>4, <2>5 DEF IInv
<1> QED
  BY <1>2, <1>3, <1>4, <1>5, <1>6

LEMMA SegmentStep ==
  ASSUME IInv, CloseSegment \/ FreeSegment
  PROVE  IInv'
<1>1. TypeOK'
  BY DEF CloseSegment, FreeSegment, IInv, TypeOK, config, caches, code, compile, machines
<1>2. ~Held /\ ~Held'
  BY DEF CloseSegment, FreeSegment, IInv, Loaded, Held, config, compile, machines
<1>3. job = "released" /\ segment' # "alive" /\ \A m \in Machines : life[m] # "loop"
  BY <1>2 DEF CloseSegment, FreeSegment, Held
<1>4. Todo' /\ Entered'
  BY DEF CloseSegment, FreeSegment, IInv, Todo, Entered, InMain, InCopy, config, caches, code,
         compile, machines
<1>5. Stages' /\ Running'
  BY <1>3 DEF CloseSegment, FreeSegment, IInv, Stages, Running, config, caches, code, compile, machines
<1>6. Loaded'
  BY <1>2, <1>3 DEF Loaded
<1> QED
  BY <1>1, <1>4, <1>5, <1>6 DEF IInv

(* The steps of the compilation.                                           *)
LEMMA JobTypes ==
  ASSUME IInv, Job
  PROVE  TypeOK'
<1> USE LivePatchAssumption DEF config, caches, code, compile, machines, Go, Finish
<1>1. CASE Start \/ CompileFails \/ Compile \/ ActivateThrows
  BY <1>1 DEF Start, CompileFails, Compile, ActivateThrows, IInv, TypeOK
<1>2. CASE Activate \/ Publish \/ Store \/ PatchDone \/ Release
  <2>1. todo' \subseteq Addresses \X (Whole \cup Fields)
    <3>1. \/ todo' = Addresses \X Whole \/ todo' = Mapped \X Whole \/ todo' = Mapped \X Fields
          \/ todo' = {} \/ todo' = todo
      BY <1>2 DEF Activate, CopySize, Publish, Store, PatchDone, Release
    <3>2. todo \subseteq Addresses \X (Whole \cup Fields)
      BY DEF IInv, TypeOK
    <3> QED
      BY <3>1, <3>2
  <2>2. /\ UNCHANGED <<background, shared, main, patched, dylib, segment, life, loop, arena>>
        /\ job' \in {"copy", "map", "patch", "done", "released"}
    BY <1>2 DEF Activate, Publish, Store, PatchDone, Release
  <2>3. published' \in BOOLEAN /\ stored' \in BOOLEAN /\ compiling' \in BOOLEAN
    BY <1>2 DEF Activate, Publish, Store, PatchDone, Release, IInv, TypeOK
  <2> QED
    BY <2>1, <2>2, <2>3 DEF IInv, TypeOK
<1>3. ASSUME NEW a \in Addresses, Copy(a) \/ Map(a) PROVE TypeOK'
  <2>1. Translated \in Entries
    BY DEF Translated
  <2>2. main' \in [0..Size -> Entries] /\ patched' \in [0..Size -> Entries]
    <3>1. main \in [0..Size -> Entries] /\ patched \in [0..Size -> Entries] /\ a \in 0..Size
      BY DEF IInv, TypeOK
    <3>2. CASE Copy(a)
      <4>1. main[a] \in Entries
        BY <3>1
      <4> QED
        BY <3>1, <3>2, <4>1 DEF Copy
    <3>3. CASE Map(a)
      BY <2>1, <3>1, <3>3 DEF Map
    <3> QED
      BY <1>3, <3>2, <3>3
  <2>3. /\ UNCHANGED <<background, shared, published, dylib, stored, compiling, job, segment, life,
                       loop, arena>>
        /\ todo' \subseteq todo
    BY <1>3 DEF Copy, Map
  <2> QED
    BY <2>2, <2>3 DEF IInv, TypeOK
<1>4. ASSUME NEW a \in Addresses, NEW f \in Fields, PatchField(a, f) PROVE TypeOK'
  <2>1. main'[a] \in Entries /\ main' = [main EXCEPT ![a] = main'[a]]
    <3>1. main[a] \in Entries /\ a \in 0..Size /\ main \in [0..Size -> Entries]
      BY DEF IInv, TypeOK
    <3>2. /\ [main[a] EXCEPT !.bytecode = "LIVEPATCH"] \in Entries
          /\ [main[a] EXCEPT !.idx = "zero"] \in Entries
      BY <3>1
    <3> QED
      BY <1>4, <3>1, <3>2 DEF PatchField
  <2> QED
    BY <1>4, <2>1 DEF PatchField, IInv, TypeOK
<1> QED
  BY <1>1, <1>2, <1>3, <1>4 DEF Job

(* A step that writes no entry, and gets the compilation on.               *)
LEMMA JobMoves ==
  ASSUME IInv, Job, TypeOK', Todo', Stages',
         UNCHANGED <<config, main, patched, segment, machines>>,
         job \in Mapping => job' \in Mapping, job \in Late => job' \in Late,
         job \in {"done", "released"} => job' \in {"done", "released"},
         job # "released", published => published', job \in Mapping => dylib' = dylib,
         published' /\ ~published => \A a \in Addresses : patched[a].bytecode # "undefined"
  PROVE  IInv'
<1>1. segment = "alive"
  BY HeldAlive
<1>2. Loaded'
  BY <1>1 DEF IInv, Loaded, HasTranslated, Entered, InMain, InCopy
<1>3. Entered'
  BY DEF IInv, Entered, InMain, InCopy, config
<1>4. Running'
  BY DEF IInv, Running, Relies, Constructed, config, machines
<1> QED
  BY <1>2, <1>3, <1>4 DEF IInv

LEMMA JobStep ==
  ASSUME IInv, Job
  PROVE  IInv'
<1> USE LivePatchAssumption DEF Late, Mapping
<1>0. TypeOK'
  BY JobTypes
<1>1. CASE Start \/ CompileFails \/ Compile \/ ActivateThrows \/ PatchDone \/ Release
  <2>1. /\ UNCHANGED <<config, main, patched, published, segment, machines>>
        /\ todo' = {} /\ job' \in {"compile", "activate", "done", "released"}
    BY <1>1 DEF Start, CompileFails, Compile, ActivateThrows, PatchDone, Release, Go, Finish,
                caches, code, IInv, Todo
  <2>2. Todo'
    BY <2>1 DEF Todo
  <2>3. /\ job' = "activate" => dylib' = "open"
        /\ job \in {"compile", "activate", "queued"} => job' \in {"compile", "activate", "done"}
        /\ job \in {"done", "patch"} => job' \in {"done", "released"} /\ dylib' = dylib
        /\ job \in {"queued", "compile", "activate", "patch", "done"}
    BY <1>1 DEF Start, CompileFails, Compile, ActivateThrows, PatchDone, Release, Go, Finish,
                caches, code
  <2>4. Stages'
    BY <2>1, <2>3 DEF IInv, Stages, config
  <2> QED
    BY <1>0, <2>1, <2>2, <2>3, <2>4, JobMoves
<1>2. CASE Activate \/ Publish \/ Store
  <2>1. /\ UNCHANGED <<config, main, patched, segment, machines, dylib>>
        /\ job \in {"activate", "copy", "map"} /\ job' \in {"copy", "map", "patch", "done"}
        /\ job = "map" => job' \in Late
        /\ published => published'
    BY <1>2 DEF Activate, Publish, Store, Go, Finish, caches, code
  <2>2. Todo'
    BY <1>2 DEF Activate, Publish, Store, Go, Finish, CopySize, Todo
  <2>3. published' /\ ~published => \A a \in Addresses : patched[a].bytecode # "undefined"
    BY <1>2 DEF Activate, Publish, Store, Go, IInv, Stages, caches
  <2>4. Stages'
    BY <1>2, <2>1 DEF Activate, Publish, Store, Go, Finish, CopySize, IInv, TypeOK, Todo, Stages,
                      caches, code, config
  <2> QED
    BY <1>0, <2>1, <2>2, <2>3, <2>4, JobMoves
<1>3. ASSUME NEW b \in Addresses, Copy(b) PROVE IInv'
  <2>1. /\ job = "copy" /\ patched' = [patched EXCEPT ![b] = main[b]]
        /\ todo' = todo \ {<<b, "entry">>} /\ main' = main /\ segment' = segment /\ job' = job
        /\ published' = published /\ dylib' = dylib /\ background' = background /\ background
        /\ shared' = shared /\ life' = life /\ loop' = loop /\ b # Size /\ ~published
    BY <1>3 DEF Copy, IInv, Stages, config, code, machines
  <2>2. Todo'
    BY <2>1 DEF IInv, Todo
  <2>3. InMain(b) /\ main[b].bytecode \notin {"LIVEPATCH", "INVALID", "TRANSLATOR", "undefined"}
        /\ (main[b].bytecode \in Functions => main[b].idx = "own")
        /\ (main[b].bytecode = "extended" => Code[b] = "extended")
    BY <2>1 DEF IInv, Entered, InMain
  <2>4. \A a \in 0..Size : patched'[a] = IF a = b THEN main[b] ELSE patched[a]
    BY <2>1 DEF IInv, TypeOK
  <2>5. Stages'
    BY <2>1, <2>3, <2>4 DEF IInv, Stages
  <2>6. Loaded'
    BY <2>1, <2>3, <2>4 DEF IInv, Loaded, HasTranslated, Held
  <2>7. Entered'
    BY <2>1, <2>3, <2>4 DEF IInv, Entered, InMain, InCopy
  <2>8. Running'
    BY <2>1 DEF IInv, Running, Relies, Constructed
  <2> QED
    BY <1>0, <2>2, <2>5, <2>6, <2>7, <2>8 DEF IInv
<1>4. ASSUME NEW b \in Addresses, Map(b) PROVE IInv'
  <2>1. /\ job = "map" /\ b \in Mapped /\ b # Size
        /\ todo' = todo \ {<<b, "entry">>} /\ segment' = segment /\ job' = job
        /\ published' = published /\ dylib' = dylib /\ background' = background
        /\ shared' = shared /\ life' = life /\ loop' = loop /\ dylib = "open"
        /\ background <=> published
    BY <1>4 DEF Map, IInv, Todo, Stages, config, code, machines, TypeOK
  <2>2. Todo'
    BY <2>1 DEF IInv, Todo
  <2>3. /\ \A a \in 0..Size :
              /\ main'[a] = IF a = b /\ ~background THEN Translated ELSE main[a]
              /\ patched'[a] = IF a = b /\ background THEN Translated ELSE patched[a]
    BY <1>4 DEF Map, LivePatching, IInv, TypeOK
  <2>4. Stages'
    BY <2>1, <2>3 DEF IInv, Stages
  <2>5. Loaded'
    BY <2>1 DEF IInv, Loaded, Held
  <2>6. Entered'
    <3>1. main'[Size] = Sentinel /\ patched'[Size] = Unwritten
      BY <2>1, <2>3 DEF IInv, Entered
    <3>2. ASSUME NEW a \in Addresses PROVE InMain(a)' /\ InCopy(a)'
      BY <2>1, <2>3 DEF IInv, Entered, InMain, InCopy, Translated
    <3> QED
      BY <3>1, <3>2 DEF Entered
  <2>7. Running'
    BY <2>1 DEF IInv, Running, Relies, Constructed
  <2> QED
    BY <1>0, <2>2, <2>4, <2>5, <2>6, <2>7 DEF IInv
<1>5. ASSUME NEW b \in Addresses, NEW f \in Fields, PatchField(b, f) PROVE IInv'
  <2>1. /\ job = "patch" /\ b \in Mapped /\ b # Size
        /\ todo' = todo \ {<<b, f>>} /\ segment' = segment /\ job' = job /\ patched' = patched
        /\ published' = published /\ dylib' = dylib /\ background' = background
        /\ shared' = shared /\ life' = life /\ loop' = loop /\ dylib = "open"
        /\ background /\ published
    BY <1>5 DEF PatchField, IInv, Todo, Stages, config, code, machines
  <2>2. Todo' /\ Stages'
    BY <2>1 DEF IInv, Todo, Stages
  <2>3. \A a \in 0..Size :
          /\ a # b => main'[a] = main[a]
          /\ main'[a].bytecode \in {main[a].bytecode, "LIVEPATCH"}
          /\ main'[a].idx \in {main[a].idx, "zero"}
    BY <1>5 DEF PatchField, IInv, TypeOK
  <2>4. Loaded'
    BY <2>1 DEF IInv, Loaded, Held
  <2>5. Entered'
    <3>1. main'[Size] = Sentinel /\ patched'[Size] = Unwritten
      BY <2>1, <2>3 DEF IInv, Entered
    <3>2. ASSUME NEW a \in Addresses PROVE InMain(a)' /\ InCopy(a)'
      BY <2>1, <2>3 DEF IInv, Entered, InMain, InCopy
    <3> QED
      BY <3>1, <3>2 DEF Entered
  <2>6. Running'
    BY <2>1 DEF IInv, Running, Relies, Constructed
  <2> QED
    BY <1>0, <2>2, <2>4, <2>5, <2>6 DEF IInv
<1> QED
  BY <1>1, <1>2, <1>3, <1>4, <1>5 DEF Job
------------------------------------------------------------------------------
(* Every step keeps the inductive invariant.                               *)
LEMMA Inductive == Spec => []IInv
<1>1. IInv /\ [Next]_vars => IInv'
  <2> SUFFICES ASSUME IInv, [Next]_vars PROVE IInv'
    OBVIOUS
  <2>1. CASE Next
    BY <2>1, JobStep, MachineStep, LoopStep, SegmentStep DEF Next
  <2>2. CASE UNCHANGED vars
    BY <2>2 DEF vars, config, caches, code, compile, machines, IInv, TypeOK, Todo, Stages, Loaded,
                HasTranslated, Held, Entered, InMain, InCopy, Running, Relies, Constructed
  <2> QED
    BY <2>1, <2>2
<1> QED
  BY Initially, <1>1, PTL DEF Spec

(* Every variable has its type: no entry of a cache, no loop of a machine  *)
(* is ever outside of the two caches.                                      *)
THEOREM TypeCorrect == Spec => []TypeOK
BY Inductive, PTL DEF IInv

(* Whatever the compilation, the machines and the destructors do meanwhile:*)
(* nobody gets to the copy, or calls a translated function, before both    *)
(* are there or after they are gone (tr_compiler.cpp:435-446).             *)
THEOREM CodeReadyCorrect == Spec => []CodeReady
<1>1. IInv => CodeReady
  <2> SUFFICES ASSUME IInv PROVE CodeReady
    OBVIOUS
  <2>1. ASSUME NEW a \in Addresses, main[a].bytecode = "LIVEPATCH"
        PROVE  published /\ patched[a] = Translated
    BY <2>1 DEF IInv, Entered, InMain, Stages
  <2>2. ASSUME NEW m \in Machines, life[m] = "loop"
        PROVE  /\ segment = "alive"
               /\ loop[m].cache = "patched" => published
               /\ loop[m].opcode \in {"TRANSLATOR", "translated"} => dylib = "open"
    BY <2>2, HeldAlive DEF IInv, Running, Relies
  <2> QED
    BY <2>1, <2>2, HeldAlive DEF CodeReady
<1> QED
  BY Inductive, <1>1, PTL

(* A half-written entry, at an address that is being patched, costs a      *)
(* machine no more than an illegal instruction (tr_compiler.cpp:248),      *)
(* unless the decoder found an extended function there: that may run the   *)
(* handler of another instruction (bytecode_impl.cpp:1034).                *)
THEOREM DamageConfinedCorrect == Spec => []DamageConfined
<1>1. IInv => DamageConfined
  <2> SUFFICES ASSUME IInv, NEW m \in Machines,
                      life[m] = "loop", loop[m].addr # Size, Stopped(m) \/ Misled(m)
               PROVE  /\ loop[m].cache = "main"
                      /\ loop[m].addr \in IF background THEN Native \cup Mapped ELSE Native
                      /\ Misled(m) => Code[loop[m].addr] = "extended"
    BY DEF DamageConfined
  <2>1. Relies(m) /\ loop[m].addr \in Addresses /\ loop[m].cache \in {"main", "patched"}
    BY LivePatchAssumption DEF IInv, TypeOK, Running
  <2>2. Misled(m) => Code[loop[m].addr] = "extended"
    BY <2>1 DEF Misled, Relies
  <2>3. CASE loop[m].opcode \in {"INVALID", "undefined"}
    BY <2>1, <2>2, <2>3, LivePatchAssumption DEF Relies
  <2>4. CASE loop[m].opcode \in Functions /\ Handler(m) = "zero"
    BY <2>1, <2>2, <2>4 DEF Handler, Relies, IInv, Entered, InMain, InCopy
  <2> QED
    BY <2>3, <2>4 DEF Stopped, Misled
<1> QED
  BY Inductive, <1>1, PTL
==============================================================================
