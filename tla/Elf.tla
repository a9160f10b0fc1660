-------------------------------- MODULE Elf --------------------------------
(***************************************************************************)
(* Starting a program (elf.c).  The arguments are copied out of the old    *)
(* address space, the headers are checked, the interpreter is found, a new *)
(* address space is made and entered with preemption off, segments are     *)
(* mapped, relocated and protected, a stack is built and a task made.  Any *)
(* allocation and any read may fail, and a failure takes back everything.  *)
(* Addresses and file offsets count cells; a page has CellsPerPage of them.*)
(***************************************************************************)
EXTENDS Integers, Sequences, FiniteSets, SequencesExt

CONSTANTS
  Images,      \* programs that may be started, see the operators below
  Interps,     \* path -> the file there
  ArgForms,    \* argument vectors of execve: [argv, envp], sequences of strings
  ArgMax,      \* ELF_ARG_MAX, ELF_ENV_MAX
  ArgBytes,    \* ELF_ARG_BYTES_MAX
  PieBase, InterpBase, LowLimit,  \* first cells of the three regions
  StackPages,  \* pages of the stack
  StackTop, StackSize,  \* in bytes
  ElfFrames,  \* free page frames at the start
  MaxLoads     \* programs started

ASSUME ElfAssumption ==
  /\ ElfFrames \in Nat /\ MaxLoads \in Nat /\ ArgMax \in Nat
  /\ StackTop % 16 = 0

VARIABLES
  load,     \* [pc, image, from, args, next, interp]: the start under way
  space,    \* its address space: page -> flags, for the pages mapped
  content,  \* cell -> what was put there last, for the cells written
  kernel,   \* blocks of the kernel heap held by the loader
  frames,   \* free page frames
  atSpace,  \* "old" or "app": what CR3 names
  masked,   \* depth of task_preempt_disable
  tasks,    \* programs started and not over
  loads     \* starts so far

elfVars == <<load, space, content, kernel, frames, atSpace, masked, tasks, loads>>

CellsPerPage == 2
NoInterp == "none"
NoLoad == [pc |-> "rest"]
Word == 8

PageOf(cell) == cell \div CellsPerPage
Floor(cell) == CellsPerPage * PageOf(cell)
\* Pages from the first cell to the last.
PagesOf(start, len) == PageOf(start) .. PageOf(start + len + CellsPerPage - 1) - 1

LoadsOf(image) == {i \in DOMAIN image.segments : image.segments[i].memsz # 0}
LeastOf(S) == CHOOSE x \in S : \A y \in S : x <= y
ImageMin(image) == LeastOf({Floor(image.segments[i].vaddr) : i \in LoadsOf(image)})

\* Where the image goes: ET_DYN at a base of its own, ET_EXEC where it says.
LoadBias(image) == IF image.type = "dyn" THEN PieBase - ImageMin(image) ELSE 0
InterpBias(image) == InterpBase - ImageMin(image)

(***************************************************************************)
(* Before the address space changes.                                       *)
(***************************************************************************)
StringBytes(v) == FoldLeft(LAMBDA n, s : n + s.len, 0, v)

\* snapshot_exec_arguments: each vector fits its table and both fit the bytes.
ArgumentsFit(args) ==
  /\ Len(args.argv) <= ArgMax /\ Len(args.envp) <= ArgMax
  /\ StringBytes(args.argv) + StringBytes(args.envp) <= ArgBytes

\* execve reads the file, which takes a copy of the headers; other callers
\* have it in memory.  The snapshot is allocated first.
execve(image, from, args) ==
  /\ load = NoLoad /\ loads < MaxLoads
  /\ loads' = loads + 1
  /\ \/ UNCHANGED <<load, kernel>>                       \* kmalloc fails
     \/ /\ ArgumentsFit(args)
        /\ load' = [pc |-> "source", image |-> image, from |-> from, args |-> args,
                    next |-> 1, interp |-> NoInterp]
        /\ kernel' = kernel \cup {"arguments"}
  /\ UNCHANGED <<space, content, frames, atSpace, masked, tasks>>

\* Every way out gives back the blocks of the heap.
Abandon ==
  /\ load' = NoLoad
  /\ kernel' = kernel \ {"arguments", "headers", "interpreter"}

\* validate_elf64_headers, and the limits of prepare_vfs_source.
HeadersOk(image) == image.type \in {"dyn", "exec"} /\ image.phdrs # 0

prepare_vfs_source ==
  /\ load.pc = "source"
  /\ IF ~HeadersOk(load.image) THEN Abandon
     ELSE \/ /\ load' = [load EXCEPT !.pc = "interpreter"]
             /\ kernel' = IF load.from = "file" THEN kernel \cup {"headers"} ELSE kernel
          \/ load.from = "file" /\ Abandon                \* no memory, a short read
  /\ UNCHANGED <<space, content, frames, atSpace, masked, tasks, loads>>

\* The interpreter must be one, be there, be ET_DYN, name no other, and lie
\* below its base.
InterpOk(path) ==
  /\ path \in DOMAIN Interps
  /\ LET image == Interps[path] IN
       /\ HeadersOk(image) /\ image.type = "dyn" /\ image.interps = <<>>
       /\ LoadsOf(image) # {} /\ ImageMin(image) <= InterpBase

\* The image must have something to load, below its base, or above what the
\* kernel maps.
PlaceOk(image) ==
  /\ LoadsOf(image) # {}
  /\ IF image.type = "dyn" THEN ImageMin(image) <= PieBase ELSE ImageMin(image) >= LowLimit

prepare_interpreter ==
  /\ load.pc = "interpreter"
  /\ LET paths == load.image.interps IN
     IF \/ Len(paths) > 1
        \/ Len(paths) = 1 /\ ~InterpOk(paths[1])
        \/ ~PlaceOk(load.image)
     THEN Abandon
     ELSE \/ /\ load' = [load EXCEPT !.pc = "space",
                           !.interp = IF paths = <<>> THEN NoInterp ELSE paths[1]]
             /\ kernel' = IF paths = <<>> THEN kernel ELSE kernel \cup {"interpreter"}
          \/ paths # <<>> /\ Abandon
  /\ UNCHANGED <<space, content, frames, atSpace, masked, tasks, loads>>

\* vmm_create_address_space: a frame for its tables; then preemption off and
\* CR3.
vmm_create_address_space ==
  /\ load.pc = "space"
  /\ IF frames = 0 THEN Abandon /\ UNCHANGED <<frames, atSpace, masked>>
     ELSE /\ load' = [load EXCEPT !.pc = "segments"]
          /\ frames' = frames - 1
          /\ atSpace' = "app" /\ masked' = masked + 1
          /\ UNCHANGED kernel
  /\ UNCHANGED <<space, content, tasks, loads>>

(***************************************************************************)
(* In the new address space.                                               *)
(***************************************************************************)
NoPages == [p \in {} |-> {}]

\* vmm_destroy_address_space: the pages mapped, and the tables.
FramesOf(s) == Cardinality(DOMAIN s) + 1

\* ELF_NEW_IMAGE_FAIL
NewImageFail ==
  /\ atSpace' = "old" /\ masked' = masked - 1
  /\ frames' = frames + FramesOf(space)
  /\ space' = NoPages /\ content' = NoPages
  /\ Abandon

Mapping == {"U", "W", "NX"}
Bare == {"U", "NX"}

\* vmm_get_phys and vmm_alloc_page_at: pages there already are shared.
Missing(pages) == pages \ DOMAIN space
WithPages(pages) ==
  [p \in DOMAIN space \cup pages |-> IF p \in DOMAIN space THEN space[p] ELSE Mapping]

\* What a segment of file f puts in memory: the file, then zeroes.
CellsOf(f, bias, s) ==
  [a \in bias + s.vaddr .. bias + s.vaddr + s.memsz - 1 |->
     LET i == a - bias - s.vaddr IN
       IF i < s.filesz THEN [file |-> f, at |-> s.offset + i] ELSE [file |-> "zero", at |-> 0]]
Overlaid(c, new) == [a \in DOMAIN c \cup DOMAIN new |-> IF a \in DOMAIN new THEN new[a] ELSE c[a]]

SegmentOk(image, s) == s.memsz >= s.filesz /\ s.offset + s.filesz <= image.size

\* One PT_LOAD of an image, or the failure of one.
MapSegment(image, f, bias, then, from) ==
  LET s == image.segments[load.next]
      pages == PagesOf(bias + s.vaddr, s.memsz)
      end == load.next = Len(image.segments)
  IN  IF \/ ~SegmentOk(image, s)
         \/ s.memsz # 0 /\ Cardinality(Missing(pages)) > frames
      THEN NewImageFail
      ELSE \/ /\ space' = IF s.memsz = 0 THEN space ELSE WithPages(pages)
              /\ frames' = IF s.memsz = 0 THEN frames ELSE frames - Cardinality(Missing(pages))
              /\ content' = Overlaid(content, CellsOf(f, bias, s))
              /\ load' = [load EXCEPT !.next = IF end THEN 1 ELSE @ + 1,
                                      !.pc = IF end THEN then ELSE @]
              /\ UNCHANGED <<kernel, atSpace, masked>>
           \/ from = "file" /\ s.filesz # 0 /\ NewImageFail   \* a short read

load_segments ==
  /\ load.pc = "segments"
  /\ MapSegment(load.image, load.image.name, LoadBias(load.image), "relocate", load.from)
  /\ UNCHANGED <<tasks, loads>>

(***************************************************************************)
(* Relocations of a position-independent program that has no interpreter.  *)
(***************************************************************************)
Relocated(c, image, bias) ==
  LET at(i) == bias + image.relas[i].at
      moved == {i \in DOMAIN image.relas : image.relas[i].kind = "relative"}
  IN  Overlaid(c, [a \in {at(i) : i \in moved} |->
                 LET i == CHOOSE j \in moved : at(j) = a /\ \A k \in moved : at(k) = a => k <= j
                 IN  [file |-> "address", at |-> bias + image.relas[i].addend]])

relocate ==
  /\ load.pc = "relocate"
  /\ LET image == load.image
         own == image.type = "dyn" /\ load.interp = NoInterp
     IN  IF own /\ \E i \in DOMAIN image.relas : image.relas[i].kind \notin {"none", "relative"}
         THEN NewImageFail
         ELSE /\ content' = IF own THEN Relocated(content, image, LoadBias(image)) ELSE content
              /\ load' = [load EXCEPT !.pc = IF load.interp = NoInterp THEN "protect" ELSE "linker"]
              /\ UNCHANGED <<space, kernel, frames, atSpace, masked>>
  /\ UNCHANGED <<tasks, loads>>

\* Flags of the pages of an image: writable or executable where one of the
\* segments on the page is.
ProtectedBy(s, image, bias) ==
  LET on(p) == {i \in LoadsOf(image) : p \in PagesOf(bias + image.segments[i].vaddr,
                                                     image.segments[i].memsz)}
      may(p, f) == \E i \in on(p) : f \in image.segments[i].flags
  IN  [p \in DOMAIN s |->
         IF on(p) = {} THEN s[p]
         ELSE {"U"} \cup (IF may(p, "W") THEN {"W"} ELSE {})
                   \cup (IF may(p, "X") THEN {} ELSE {"NX"})]

\* The last segment is followed by the protection of them all.
map_interpreter_segments ==
  /\ load.pc \in {"linker", "linked"}
  /\ LET image == Interps[load.interp]
         bias == InterpBias(image)
     IN  IF load.pc = "linker" THEN MapSegment(image, image.name, bias, "linked", "file")
         ELSE /\ space' = ProtectedBy(space, image, bias)
              /\ load' = [load EXCEPT !.pc = "protect"]
              /\ UNCHANGED <<content, kernel, frames, atSpace, masked>>
  /\ UNCHANGED <<tasks, loads>>

protect_image_segments ==
  /\ load.pc = "protect"
  /\ space' = ProtectedBy(space, load.image, LoadBias(load.image))
  /\ load' = [load EXCEPT !.pc = "stack"]
  /\ UNCHANGED <<content, kernel, frames, atSpace, masked, tasks, loads>>

(***************************************************************************)
(* The stack: strings, then from the top of the stack pointer up argc,     *)
(* argv, envp and the auxiliary vector.                                    *)
(***************************************************************************)
SumFrom(v, i) == StringBytes(SubSeq(v, i, Len(v)))
EnvAt(args, i) == StackTop - SumFrom(args.envp, i)
ArgAt(args, i) == EnvAt(args, 1) - SumFrom(args.argv, i)
PlatformSize == 7
RandomSize == 16
AlignedTo16(n) == n - (n % 16)

AuxTypes == <<"PHDR", "PHENT", "PHNUM", "PAGESZ", "BASE", "ENTRY", "UID", "EUID", "GID",
              "EGID", "CLKTCK", "SECURE", "RANDOM", "PLATFORM", "EXECFN", "NULL">>

\* Where the program headers are in memory.
PhdrAddress(image, bias) ==
  LET holds == {i \in DOMAIN image.segments :
                  LET s == image.segments[i] IN image.phoff \in s.offset .. s.offset + s.filesz - 1}
      last == CHOOSE i \in holds : \A j \in holds : j <= i
  IN  IF image.phdr >= 0 THEN bias + image.phdr
      ELSE IF holds = {} THEN 0
      ELSE bias + image.segments[last].vaddr + image.phoff - image.segments[last].offset

AuxValue(type, image, interp, args) ==
  LET bias == LoadBias(image) IN
  CASE type = "PHDR" -> PhdrAddress(image, bias)
    [] type = "ENTRY" -> bias + image.entry
    [] type = "BASE" -> IF interp = NoInterp THEN 0 ELSE InterpBias(Interps[interp])
    [] type = "EXECFN" -> IF args.argv = <<>> THEN 0 ELSE ArgAt(args, 1)
    [] type = "PHNUM" -> image.phdrs
    [] OTHER -> 0                                        \* the same for all

StackWords(image, interp, args) ==
     <<Len(args.argv)>> \o [i \in DOMAIN args.argv |-> ArgAt(args, i)] \o <<0>>
  \o [i \in DOMAIN args.envp |-> EnvAt(args, i)] \o <<0>>
  \o FlattenSeq([i \in DOMAIN AuxTypes |->
                   <<AuxTypes[i], AuxValue(AuxTypes[i], image, interp, args)>>])

\* A word of padding where the count of the rest is even.
UserStack(image, interp, args) ==
  LET words == StackWords(image, interp, args)
      low == AlignedTo16(ArgAt(args, 1) - PlatformSize - RandomSize)
      count == 35 + Len(args.argv) + Len(args.envp)
      pad == IF count % 2 = 0 THEN 1 ELSE 0
  IN  [rsp |-> low - Word * (Len(words) + pad), words |-> words,
       strings |-> [a \in {ArgAt(args, i) : i \in DOMAIN args.argv}
                           \cup {EnvAt(args, i) : i \in DOMAIN args.envp} |->
                      IF \E i \in DOMAIN args.argv : a = ArgAt(args, i)
                      THEN args.argv[CHOOSE i \in DOMAIN args.argv : a = ArgAt(args, i)]
                      ELSE args.envp[CHOOSE i \in DOMAIN args.envp : a = EnvAt(args, i)]]]

StackFits(args) ==
  StringBytes(args.argv) + StringBytes(args.envp)
    + Word * (35 + Len(args.argv) + Len(args.envp)) + 64 <= StackSize

\* Pages of the stack are allocated whether or not something is there.
map_stack ==
  /\ load.pc = "stack"
  /\ IF Cardinality(StackPages) > frames \/ ~StackFits(load.args) THEN NewImageFail
     ELSE /\ space' = [p \in DOMAIN space \cup StackPages |->
                         IF p \in StackPages THEN Mapping ELSE space[p]]
          /\ frames' = frames - Cardinality(StackPages)
          /\ content' = [a \in {x \in DOMAIN content : PageOf(x) \notin StackPages} |-> content[a]]
          /\ load' = [load EXCEPT !.pc = "spawn"]
          /\ UNCHANGED <<kernel, atSpace, masked>>
  /\ UNCHANGED <<tasks, loads>>

(***************************************************************************)
(* The task.  When it cannot be made the address space goes (task.c).      *)
(***************************************************************************)
Entry(image, interp) ==
  IF interp = NoInterp THEN LoadBias(image) + image.entry
  ELSE InterpBias(Interps[interp]) + Interps[interp].entry

task_create_ring3_full ==
  /\ load.pc = "spawn"
  /\ atSpace' = "old" /\ masked' = masked - 1
  /\ space' = NoPages /\ content' = NoPages
  /\ \/ /\ tasks' = tasks \cup
              {[id |-> loads, image |-> load.image, interp |-> load.interp, args |-> load.args,
                space |-> space, content |-> content, entry |-> Entry(load.image, load.interp),
                stack |-> UserStack(load.image, load.interp, load.args)]}
        /\ UNCHANGED frames
     \/ /\ frames' = frames + FramesOf(space)
        /\ UNCHANGED tasks
  /\ Abandon
  /\ UNCHANGED loads

\* A program ends and its address space goes.
task_exit(t) ==
  /\ t \in tasks
  /\ tasks' = tasks \ {t}
  /\ frames' = frames + FramesOf(t.space)
  /\ UNCHANGED <<load, space, content, kernel, atSpace, masked, loads>>

ElfInit ==
  /\ load = NoLoad /\ space = NoPages /\ content = NoPages /\ kernel = {}
  /\ frames = ElfFrames /\ atSpace = "old" /\ masked = 0 /\ tasks = {} /\ loads = 0

ElfNext ==
  \/ \E image \in Images, from \in {"memory", "file"}, args \in ArgForms : execve(image, from, args)
  \/ prepare_vfs_source \/ prepare_interpreter \/ vmm_create_address_space
  \/ load_segments \/ relocate \/ map_interpreter_segments \/ protect_image_segments
  \/ map_stack \/ task_create_ring3_full
  \/ \E t \in tasks : task_exit(t)

(***************************************************************************)
(* Properties.                                                             *)
(***************************************************************************)
ElfTypeOK ==
  /\ load.pc \in {"rest", "source", "interpreter", "space", "segments", "relocate",
                 "linker", "linked", "protect", "stack", "spawn"}
  /\ DOMAIN content \subseteq {a \in Int : PageOf(a) \in DOMAIN space}
  /\ frames \in 0 .. ElfFrames /\ masked \in Nat /\ loads \in 0 .. MaxLoads

\* A start that fails anywhere takes back every page and every block, the
\* address space of the caller and its preemption.
FailuresLeaveNothing ==
  LET held == FoldSet(LAMBDA t, n : n + FramesOf(t.space), 0, tasks) IN
    /\ frames + held + (IF atSpace = "app" THEN FramesOf(space) ELSE 0) = ElfFrames
    /\ load = NoLoad => kernel = {} /\ atSpace = "old" /\ masked = 0

\* The address space is never another one while the task may be preempted.
SwitchesAreMasked == atSpace = "app" => masked > 0

\* What a program finds in its memory: the cells of its file, zeroes behind
\* them, addresses where it was relocated, on pages it may use as each of the
\* segments asks.
HoldsFile(t, image, bias) ==
  \A i \in LoadsOf(image) :
    LET s == image.segments[i] IN
    \A k \in 0 .. s.memsz - 1 :
      LET a == bias + s.vaddr + k IN
        /\ PageOf(a) \in DOMAIN t.space
        /\ "W" \in s.flags => "W" \in t.space[PageOf(a)]
        /\ "X" \in s.flags => "NX" \notin t.space[PageOf(a)]
        /\ \/ t.content[a].file = "address"
           \/ t.content[a] = IF k < s.filesz THEN [file |-> image.name, at |-> s.offset + k]
                             ELSE [file |-> "zero", at |-> 0]
RelocatedRight(t) ==
  \A i \in DOMAIN t.image.relas :
    LET r == t.image.relas[i] IN
      r.kind = "relative" /\ t.image.type = "dyn" /\ t.interp = NoInterp =>
        t.content[LoadBias(t.image) + r.at].at = LoadBias(t.image) + r.addend

ProgramsAreWhole ==
  \A t \in tasks :
    /\ HoldsFile(t, t.image, LoadBias(t.image))
    /\ t.interp # NoInterp => HoldsFile(t, Interps[t.interp], InterpBias(Interps[t.interp]))
    /\ RelocatedRight(t)
    /\ \A p \in StackPages : t.space[p] = Mapping

\* What the start-up code of a program finds when it walks up from its stack
\* pointer: its arguments and environment, a pointer to its own program
\* headers, itself and its interpreter; main() finds the stack as if called.
WordAt(t, i) == t.stack.words[i]
StringsAt(t, first, v) ==
  /\ \A i \in DOMAIN v : t.stack.strings[WordAt(t, first + i - 1)] = v[i]
  /\ WordAt(t, first + Len(v)) = 0
Aux(t, type) ==
  LET start == 2 + Len(t.args.argv) + 1 + Len(t.args.envp) + 1
      i == CHOOSE k \in {start + 2 * j : j \in 0 .. 15} : WordAt(t, k) = type
  IN  WordAt(t, i + 1)
StartsRight ==
  \A t \in tasks :
    LET argc == Len(t.args.argv) IN
    /\ WordAt(t, 1) = argc
    /\ StringsAt(t, 2, t.args.argv) /\ StringsAt(t, 3 + argc, t.args.envp)
    /\ t.stack.rsp % 16 = 8
    /\ t.stack.rsp + Word * Len(t.stack.words) <= ArgAt(t.args, 1) - PlatformSize - RandomSize
    /\ t.stack.rsp >= StackTop - StackSize
    /\ Aux(t, "PHDR") # 0 => t.content[Aux(t, "PHDR")] = [file |-> t.image.name, at |-> t.image.phoff]
    /\ t.content[Aux(t, "ENTRY")] = [file |-> t.image.name, at |-> t.image.start]
    /\ IF t.interp = NoInterp THEN t.entry = Aux(t, "ENTRY")
       ELSE t.content[t.entry] = [file |-> Interps[t.interp].name, at |-> Interps[t.interp].start]

ElfSafe ==
  ElfTypeOK /\ FailuresLeaveNothing /\ SwitchesAreMasked /\ ProgramsAreWhole /\ StartsRight
=============================================================================
