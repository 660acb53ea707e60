-------------------------------- MODULE Exec --------------------------------
(***************************************************************************)
(* The memory of a user program, from exec to its end: cmd_exec of         *)
(* kernel/terminal.c, elf_load and elf_unload of kernel/elf.c, the user    *)
(* heap of kernel/task.c, mmap and munmap of kernel/syscall.c and the      *)
(* demand paging of arch/x86_64/idt.c, over the page frames of             *)
(* kernel/memory.c.                                                        *)
(*                                                                         *)
(* Two tasks may run the exec command (the shell and a background job).    *)
(* They share the buffer the file is read into, the fixed addresses and    *)
(* the heap and mmap state.  The timer may suspend one of them between two *)
(* steps, and preempt_disable_count then keeps the other one from being    *)
(* suspended before it is back in its loop (module Scheduler).  A program  *)
(* in ring 3 is never suspended, and its system calls run with interrupts  *)
(* disabled: each is one step.                                             *)
(*                                                                         *)
(* Nothing stops a file from being linked over a window that exec uses, or *)
(* one task from unloading what is in the buffer by now at the address     *)
(* where another file was loaded.  The steps that go wrong in this way are *)
(* part of the model, and trespass records them.                           *)
(***************************************************************************)
EXTENDS Integers, Sequences, FiniteSets

CONSTANTS
    Tasks,            \* the tasks that run exec
    Progs,            \* the ELF files
    Dyn,              \* the files of type ET_DYN
    Image,            \* the page of each PT_LOAD segment of a file, as linked
    TableAt,          \* where a file's program headers begin, in headers
    Extent,           \* where the contents of its last segment end
    Size,             \* how long the file is
    Bias,             \* the pages elf_load adds to those of an ET_DYN file
    KernelHalf,       \* image pages at addresses that ring 3 cannot fault in
    Ident,            \* image pages in the boot loader's identity mapping
    Home,             \* the frame that mapping gives each of them
    HeapLo, HeapHi,   \* the heap window, in pages
    MmapLo, MmapHi,   \* the mmap area; MmapHi bounds the addresses handed out
    StackLo, StackHi, \* the stack window
    NFrames,          \* page frames
    Reserved,         \* the frames of the kernel, never handed out
    MmapSlots,        \* MMAP_MAX_ENTRIES
    None              \* no task, no file

HeapPages == HeapLo .. HeapHi - 1
MmapPages == MmapLo .. MmapHi - 1
StackPages == StackLo .. StackHi - 1
PagesAt(p, b) == {Image[p][i] + b : i \in 1 .. Len(Image[p])}
ImagePages == UNION {PagesAt(p, b) : p \in Progs, b \in {0, Bias}}
BiasOf(p) == IF p \in Dyn THEN Bias ELSE 0
Sizes == {Size[p] : p \in Progs}
HeaderEnd(p, i) == TableAt[p] + i      \* the end of program header i
Pages == ImagePages \cup HeapPages \cup MmapPages \cup StackPages
Frames == 1 .. NFrames
Slots == 1 .. MmapSlots

(* validate_load_segments accepts no two segments on one page.             *)
ASSUME ImageAssumption ==
    /\ Image \in [Progs -> Seq(Nat)]
    /\ \A p \in Progs : Cardinality(PagesAt(p, 0)) = Len(Image[p])
    /\ TableAt \in [Progs -> Nat] /\ Extent \in [Progs -> Nat]
    /\ Size \in [Progs -> Nat] /\ Bias \in Nat
    /\ None \notin Tasks /\ None \notin Progs

(* The windows lie apart from each other and above the identity mapping.   *)
(* That images avoid the windows is not assumed: nothing checks it.        *)
ASSUME LayoutAssumption ==
    /\ {HeapLo, HeapHi, MmapLo, MmapHi, StackLo, StackHi, NFrames, MmapSlots} \subseteq Nat
    /\ HeapPages \cap MmapPages = {} /\ HeapPages \cap StackPages = {}
    /\ MmapPages \cap StackPages = {}
    /\ Ident \cap (HeapPages \cup MmapPages \cup StackPages) = {}
    /\ Reserved \subseteq Frames /\ Home \in [Ident -> Frames]
    /\ HeapLo > 0 /\ HeapLo < HeapHi /\ MmapLo < MmapHi /\ StackLo < StackHi

VARIABLES
    frame,    \* the page tables: the frame a page is mapped to, 0 if none
    used,     \* phys_bitmap
    tables,   \* the page tables of each half of the addresses, 0 if none
    lost,     \* history: frames in use whose only mapping elf_load removed
    demand,   \* history: pages mapped by the page fault handler
    buf,      \* the file in elf_shell_io_buf
    stage,    \* how far each task is in cmd_exec
    prog,     \* the file whose size a task holds in its local variable
    got,      \* mapped_virt and mapped_phys of a task's elf_load
    bias,     \* load_bias, elf_load's local variable
    active,   \* elf_active_images: the bias registered for a length, 0 if none
    ident,    \* the pages that are still identity mapped
    trespass, \* history: the stack window or a frame in use was taken away
    alias,    \* the frames under a task's stack_alias_base
    heap,     \* user_heap_base # 0
    brk,      \* user_heap_brk, in half pages
    mtab,     \* syscall_mmap_tbl: the pages of each entry, {} if unused
    bump,     \* syscall_mmap_bump, in pages
    cpu,      \* the task that runs
    outer,    \* the task the timer has suspended inside cmd_exec
    irq,      \* interrupts are enabled in the running task
    mixed     \* history: a task ran exec while another one was inside it

mem == <<frame, used, tables>>
usr == <<heap, brk, mtab, bump>>
cmd == <<buf, prog, got, alias>>
elf == <<bias, active, ident, trespass>>
sched == <<cpu, outer, irq, mixed>>
vars == <<frame, used, tables, lost, demand, buf, stage, prog, got, bias,
          active, ident, trespass, alias, heap, brk, mtab, bump, cpu, outer, irq,
          mixed>>

Stages == {"idle", "read", "loading", "loaded", "free", "backed", "stacked",
           "ready", "user", "exited", "reset", "cleaned", "unload"}

-----------------------------------------------------------------------------
(* Frames and pages.                                                       *)

Lowest(S) == CHOOSE x \in S : \A y \in S : x <= y
Mapped == {p \in Pages : frame[p] # 0}
FramesOf(P) == {frame[p] : p \in P} \ {0}

(* The page tables of each half of the address space are one frame, which  *)
(* paging_map_page allocates with the first page of that half, and those   *)
(* of the identity mapping are one that paging_split_huge_page allocates.  *)
(* Nothing ever frees them.                                                *)
Areas == {"lower", "upper", "boot"}
Area(p) == IF p \in Ident THEN "boot" ELSE IF p \in KernelHalf THEN "upper" ELSE "lower"

(* The memory that a loop over pages works on; ok is cleared by the page   *)
(* that cannot be mapped, done counts the pages before it.                 *)
Memory(fr) == [frame |-> fr, used |-> used, tables |-> tables, ok |-> TRUE, done |-> 0]
SetMemory(m) == frame' = m.frame /\ used' = m.used /\ tables' = m.tables

(* paging_map_page's page table: the lowest frame of S if there is none.   *)
TableFor(m, a, S) ==
    IF m.tables[a] # 0 THEN m
    ELSE [m EXCEPT !.tables[a] = Lowest(S), !.used = @ \cup {Lowest(S)}]

(* phys_alloc_page, the first free frame, and paging_map_page, which fails *)
(* for a page that is present or without a frame for the page table.       *)
MapPage(m, p) ==
    LET free == Frames \ m.used
        f == Lowest(free)
        need == IF m.tables[Area(p)] = 0 THEN 2 ELSE 1
    IN  IF m.ok /\ m.frame[p] = 0 /\ Cardinality(free) >= need
        THEN LET n == TableFor(m, Area(p), free \ {f})
             IN  [n EXCEPT !.frame[p] = f, !.used = @ \cup {f}, !.done = @ + 1]
        ELSE [m EXCEPT !.ok = FALSE]

(* The loops of task_user_heap_brk and syscall_do_mmap over lo .. hi - 1.  *)
MapPages(lo, hi) ==
    LET m[p \in lo .. hi] ==
          IF p = lo THEN Memory(frame) ELSE MapPage(m[p - 1], p - 1)
    IN  m[hi]

(* paging_unmap_page and phys_free_page for every mapped page of P.        *)
Unmap(m, P) == [m EXCEPT !.frame = [p \in Pages |-> IF p \in P THEN 0 ELSE @[p]],
                         !.used = @ \ {m.frame[p] : p \in P}]

UnmapNow(P) ==
    /\ SetMemory(Unmap(Memory(frame), P))
    /\ demand' = demand \ P
    /\ UNCHANGED lost

(* Mutant: the rollback of a failed loop stops one page early.             *)
MapOrRollBackShort(lo, hi) ==
    LET m == MapPages(lo, hi)
    IN  SetMemory(IF m.ok THEN m ELSE Unmap(m, lo .. lo + m.done - 2))

(* All of lo .. hi - 1 is mapped, or what was mapped before the failing    *)
(* page is unmapped again.                                                 *)
MapOrRollBack(lo, hi) ==
    LET m == MapPages(lo, hi)
    IN  SetMemory(IF m.ok THEN m ELSE Unmap(m, lo .. lo + m.done - 1))

-----------------------------------------------------------------------------
(* cmd_exec.                                                               *)

Goto(t, s) == stage' = [stage EXCEPT ![t] = s]
Return(t) == Goto(t, "idle") /\ prog' = [prog EXCEPT ![t] = None]
At(t, s) == cpu = t /\ stage[t] = s

(* read_shell_file_bytes into the shared buffer.                           *)
Read(t, p) ==
    /\ At(t, "idle")
    /\ buf' = p
    /\ prog' = [prog EXCEPT ![t] = p]
    /\ mixed' = (mixed \/ outer # None)
    /\ Goto(t, "read")
    /\ UNCHANGED <<mem, lost, demand, usr, elf, got, alias, cpu, outer, irq>>

(* get_program_header_window of what the buffer holds now, for the length  *)
(* that the task has read.                                                 *)
HeadersFit(t) == HeaderEnd(buf, Len(Image[buf])) <= Size[prog[t]]

(* elf_load begins; a file that does not fit its length is refused.        *)
Load(t) ==
    /\ At(t, "read")
    /\ IF HeadersFit(t) /\ Extent[buf] <= Size[prog[t]]
       THEN /\ bias' = [bias EXCEPT ![t] = BiasOf(buf)]
            /\ Goto(t, "loading")
            /\ UNCHANGED prog
       ELSE Return(t) /\ UNCHANGED bias
    /\ UNCHANGED <<mem, lost, demand, usr, buf, got, alias, active, ident, trespass, sched>>

GotPages(t) == {got[t][i][1] : i \in 1 .. Len(got[t])}
GotFrames(t) == {got[t][i][2] : i \in 1 .. Len(got[t])}
EndLoad(t) == got' = [got EXCEPT ![t] = <<>>] /\ bias' = [bias EXCEPT ![t] = 0]

(* Mutant: the frames are not freed.                                       *)
RollbackKeepsFrames(t, p, m) ==
    /\ frame' = [q \in Pages |-> IF q \in GotPages(t) \cup {p} THEN 0 ELSE frame[q]]
    /\ lost' = (lost \cup FramesOf(GotPages(t) \cup {p})) \ GotFrames(t)
    /\ demand' = demand \ (GotPages(t) \cup {p})
    /\ used' = m.used /\ tables' = m.tables

(* rollback_mapped_pages after p could not be mapped: the pages the load   *)
(* has mapped are unmapped, whatever they map by now, and the frames it    *)
(* took are freed.  The page table of a split, in m, stays.                *)
Rollback(t, p, m) ==
    /\ frame' = [q \in Pages |-> IF q \in GotPages(t) \cup {p} THEN 0 ELSE frame[q]]
    /\ used' = m.used \ GotFrames(t)
    /\ lost' = (lost \cup FramesOf(GotPages(t) \cup {p})) \ GotFrames(t)
    /\ demand' = demand \ (GotPages(t) \cup {p})
    /\ tables' = m.tables

(* The header that the loop of elf_load is at.                              *)
Header(t) == Len(got[t]) + 1

(* One page of elf_load's loop, read from the buffer as it is now.  A page *)
(* that is already mapped is unmapped and its frame is not freed; one that *)
(* is identity mapped loses that mapping, after the huge page around it is *)
(* split.                                                                  *)
LoadPage(t) ==
    /\ At(t, "loading")
    /\ Header(t) <= Len(Image[buf]) /\ HeaderEnd(buf, Header(t)) <= Size[prog[t]]
    /\ LET p == Image[buf][Header(t)] + bias[t]
           free == Frames \ used
           stuck == p \in ident /\ tables["boot"] = 0 /\ free = {}
           unmapped == Memory([frame EXCEPT ![p] = 0])
           split == IF p \in ident /\ ~stuck THEN TableFor(unmapped, "boot", free)
                    ELSE unmapped
           m == MapPage(split, p)
       IN  /\ IF m.ok /\ ~stuck
              THEN /\ SetMemory(m)
                   /\ lost' = lost \cup FramesOf({p})
                   /\ demand' = demand \ {p}
                   /\ got' = [got EXCEPT ![t] = Append(@, <<p, m.frame[p]>>)]
                   /\ UNCHANGED <<stage, prog, bias>>
              ELSE Rollback(t, p, split) /\ EndLoad(t) /\ Return(t)
           /\ ident' = IF stuck THEN ident ELSE ident \ {p}
           /\ trespass' = (trespass \/ p \in StackPages)
    /\ UNCHANGED <<usr, buf, alias, active, sched>>

(* A header beyond the length that the task has read ends the load, and    *)
(* the pages it has mapped stay.                                           *)
LoadCut(t) ==
    /\ At(t, "loading")
    /\ Header(t) <= Len(Image[buf]) /\ HeaderEnd(buf, Header(t)) > Size[prog[t]]
    /\ EndLoad(t)
    /\ Return(t)
    /\ UNCHANGED <<mem, lost, demand, usr, buf, alias, active, ident, trespass, sched>>

(* register_active_image: by the length, the buffer is always the same.    *)
Loaded(t) ==
    /\ At(t, "loading")
    /\ Header(t) > Len(Image[buf])
    /\ active' = [active EXCEPT ![Size[prog[t]]] = bias[t]]
    /\ EndLoad(t)
    /\ Goto(t, "loaded")
    /\ UNCHANGED <<mem, lost, demand, usr, buf, prog, alias, ident, trespass, sched>>

(* exec goes on when no page of the stack window is mapped.                *)
CheckStack(t) ==
    /\ At(t, "loaded")
    /\ Goto(t, IF StackPages \cap Mapped = {} THEN "free" ELSE "unload")
    /\ UNCHANGED <<mem, lost, demand, usr, cmd, elf, sched>>

(* The elfcheck command loads a file and unloads it.                       *)
CheckOnly(t) ==
    /\ At(t, "loaded")
    /\ Goto(t, "unload")
    /\ UNCHANGED <<mem, lost, demand, usr, cmd, elf, sched>>

(* phys_alloc_pages(n): the lowest run of n free frames.                   *)
RunOf(n) == {s \in Frames : s .. s + n - 1 \subseteq Frames \ used}

(* virt_alloc_pages for the stack's frames.                                *)
BackStack(t) ==
    /\ At(t, "free")
    /\ LET n == StackHi - StackLo
       IN  IF RunOf(n) = {}
           THEN Goto(t, "unload") /\ UNCHANGED <<used, alias>>
           ELSE LET F == Lowest(RunOf(n)) .. Lowest(RunOf(n)) + n - 1
                IN  /\ used' = used \cup F
                    /\ alias' = [alias EXCEPT ![t] = F]
                    /\ Goto(t, "backed")
    /\ UNCHANGED <<frame, tables, lost, demand, usr, buf, prog, got, elf, sched>>

(* The stack window is mapped to the alias's frames; an entry that is      *)
(* present by now, or a missing page table, unwinds everything.            *)
MapStack(t) ==
    /\ At(t, "backed")
    /\ LET free == Frames \ used
           m == TableFor(Memory(frame), "lower", free)
       IN  IF StackPages \cap Mapped = {} /\ (tables["lower"] # 0 \/ free # {})
           THEN /\ SetMemory([m EXCEPT !.frame =
                     [p \in Pages |-> IF p \in StackPages
                                      THEN Lowest(alias[t]) + p - StackLo
                                      ELSE frame[p]]])
                /\ Goto(t, "stacked")
                /\ UNCHANGED alias
           ELSE /\ used' = used \ alias[t]
                /\ alias' = [alias EXCEPT ![t] = {}]
                /\ Goto(t, "unload")
                /\ UNCHANGED <<frame, tables>>
    /\ UNCHANGED <<lost, demand, usr, buf, prog, got, elf, sched>>

Up(b) == (b + 1) \div 2      \* align_up_page of a break

(* The pages task_user_heap_reset unmaps.                                  *)
HeapInUse == IF heap THEN HeapLo .. Up(brk) - 1 ELSE {}

(* task_user_heap_config: reset, then an empty heap.                       *)
Config(t) ==
    /\ At(t, "stacked")
    /\ UnmapNow(HeapInUse)
    /\ heap' = TRUE
    /\ brk' = 2 * HeapLo
    /\ Goto(t, "ready")
    /\ UNCHANGED <<mtab, bump, cmd, elf, sched>>

(* Arguments that do not fit on the stack undo everything, as a program's  *)
(* end does; heap and mmap areas are undone in the other order.            *)
ArgsTooLong(t) ==
    /\ At(t, "ready")
    /\ Goto(t, "exited")
    /\ UNCHANGED <<mem, lost, demand, usr, cmd, elf, sched>>

(* task_exec_user: iretq sets the interrupt flag.                          *)
Enter(t) ==
    /\ At(t, "ready")
    /\ Goto(t, "user")
    /\ irq' = TRUE
    /\ UNCHANGED <<mem, lost, demand, usr, cmd, elf, cpu, outer, mixed>>

(* Mutant: the reset forgets the break before it unmaps.                   *)
HeapResetForgets(t) ==
    /\ At(t, "exited")
    /\ heap' = FALSE
    /\ brk' = 0
    /\ Goto(t, "reset")
    /\ UNCHANGED <<mem, lost, demand, mtab, bump, cmd, elf, sched>>

(* task_user_heap_reset when task_exec_user returns.                       *)
HeapReset(t) ==
    /\ At(t, "exited")
    /\ UnmapNow(HeapInUse)
    /\ heap' = FALSE
    /\ brk' = 0
    /\ Goto(t, "reset")
    /\ UNCHANGED <<mtab, bump, cmd, elf, sched>>

(* syscall_mmap_cleanup (and syscall_fd_cleanup, which no state here sees).*)
CleanMmap(t) ==
    /\ At(t, "reset")
    /\ UnmapNow(UNION {mtab[i] : i \in Slots})
    /\ mtab' = [i \in Slots |-> {}]
    /\ bump' = MmapLo
    /\ Goto(t, "cleaned")
    /\ UNCHANGED <<heap, brk, cmd, elf, sched>>

(* Mutant: the alias is freed, the window stays mapped.                    *)
FreeStackKeepsWindow(t) ==
    /\ At(t, "cleaned")
    /\ used' = used \ alias[t]
    /\ alias' = [alias EXCEPT ![t] = {}]
    /\ Goto(t, "unload")
    /\ UNCHANGED <<frame, tables, lost, demand, usr, buf, prog, got, elf, sched>>

(* The window is unmapped, virt_free_pages frees the frames.               *)
FreeStack(t) ==
    /\ At(t, "cleaned")
    /\ frame' = [p \in Pages |-> IF p \in StackPages THEN 0 ELSE frame[p]]
    /\ used' = used \ alias[t]
    /\ alias' = [alias EXCEPT ![t] = {}]
    /\ Goto(t, "unload")
    /\ UNCHANGED <<tables, lost, demand, usr, buf, prog, got, elf, sched>>

(* elf_unload of what the buffer holds now, at the bias registered for the *)
(* length that the task has read: every page that has a translation is     *)
(* unmapped, which does nothing to a huge page, and the frame is freed.    *)
Unload(t) ==
    /\ At(t, "unload")
    /\ LET P == PagesAt(buf, active[Size[prog[t]]])
           homes == {Home[p] : p \in P \cap ident}
       IN  IF HeadersFit(t)
           THEN /\ frame' = [p \in Pages |-> IF p \in P THEN 0 ELSE frame[p]]
                /\ used' = used \ (FramesOf(P) \cup homes)
                /\ demand' = demand \ P
                /\ active' = [active EXCEPT ![Size[prog[t]]] = 0]
                /\ ident' = IF tables["boot"] = 0 THEN ident ELSE ident \ P
                /\ trespass' = (\/ trespass
                                \/ P \cap StackPages \cap Mapped # {}
                                \/ homes \cap used # {})
                /\ UNCHANGED <<tables, lost>>
           ELSE UNCHANGED <<mem, lost, demand, active, ident, trespass>>
    /\ Return(t)
    /\ UNCHANGED <<usr, buf, got, bias, alias, sched>>

-----------------------------------------------------------------------------
(* The program in ring 3: system calls, page faults, its end.              *)

InUser == stage[cpu] = "user"

(* task_user_heap_brk: a break inside the window that grows the heap.      *)
BrkGrow(b) ==
    /\ InUser /\ heap
    /\ b > brk /\ b <= 2 * HeapHi
    /\ MapOrRollBack(Up(brk), Up(b))
    /\ brk' = IF MapPages(Up(brk), Up(b)).ok THEN b ELSE brk
    /\ UNCHANGED <<lost, demand, heap, mtab, bump, stage, cmd, elf, sched>>

BrkShrink(b) ==
    /\ InUser /\ heap
    /\ b < brk /\ b >= 2 * HeapLo
    /\ UnmapNow(Up(b) .. Up(brk) - 1)
    /\ brk' = b
    /\ UNCHANGED <<heap, mtab, bump, stage, cmd, elf, sched>>

FreeSlots == {i \in Slots : mtab[i] = {}}

(* syscall_do_mmap of n pages at the bump address.                         *)
Mmap(n) ==
    /\ InUser
    /\ FreeSlots # {}
    /\ bump + n <= MmapHi
    /\ MapOrRollBack(bump, bump + n)
    /\ IF MapPages(bump, bump + n).ok
       THEN /\ mtab' = [mtab EXCEPT ![Lowest(FreeSlots)] = bump .. bump + n - 1]
            /\ bump' = bump + n
       ELSE UNCHANGED <<mtab, bump>>
    /\ UNCHANGED <<lost, demand, heap, brk, stage, cmd, elf, sched>>

(* syscall_do_munmap of an entry, whatever length the caller gives.        *)
Munmap(i) ==
    /\ InUser
    /\ mtab[i] # {}
    /\ UnmapNow(mtab[i])
    /\ mtab' = [mtab EXCEPT ![i] = {}]
    /\ UNCHANGED <<heap, brk, bump, stage, cmd, elf, sched>>

(* pf_recovery_attempt: the program touches an unmapped page of the lower  *)
(* half.  Without a frame the program ends, as UserExit does.              *)
Touch(p) ==
    /\ InUser
    /\ frame[p] = 0 /\ p \notin ident
    /\ MapPage(Memory(frame), p).ok
    /\ SetMemory(MapPage(Memory(frame), p))
    /\ demand' = demand \cup {p}
    /\ UNCHANGED <<lost, usr, stage, cmd, elf, sched>>

(* SYS_EXIT leaves the interrupt flag clear, a fault's handler sets it.    *)
UserExit(fault) ==
    /\ InUser
    /\ Goto(cpu, "exited")
    /\ irq' = fault
    /\ UNCHANGED <<mem, lost, demand, usr, cmd, elf, cpu, outer, mixed>>

-----------------------------------------------------------------------------
(* The timer.  The task switched to had yielded in its loop; it is not     *)
(* suspended before it yields again.                                       *)

Preempt(t) ==
    /\ outer = None /\ irq
    /\ stage[cpu] # "user" /\ t # cpu
    /\ cpu' = t
    /\ outer' = IF stage[cpu] = "idle" THEN None ELSE cpu
    /\ irq' \in BOOLEAN
    /\ UNCHANGED <<mem, lost, demand, usr, cmd, elf, stage, mixed>>

Resume ==
    /\ outer # None
    /\ stage[cpu] = "idle"
    /\ cpu' = outer
    /\ outer' = None
    /\ irq' = TRUE
    /\ UNCHANGED <<mem, lost, demand, usr, cmd, elf, stage, mixed>>

(* A task in its loop yields; earlier commands may have enabled or left    *)
(* disabled the other task's interrupts.                                   *)
Yield(t) ==
    /\ outer = None
    /\ stage[cpu] = "idle"
    /\ cpu' = t
    /\ irq' \in BOOLEAN
    /\ UNCHANGED <<mem, lost, demand, usr, cmd, elf, stage, outer, mixed>>

-----------------------------------------------------------------------------
Init ==
    /\ frame = [p \in Pages |-> 0]
    /\ used = Reserved /\ lost = {} /\ demand = {}
    /\ tables = [a \in Areas |-> 0]
    /\ buf = None
    /\ stage = [t \in Tasks |-> "idle"]
    /\ prog = [t \in Tasks |-> None]
    /\ got = [t \in Tasks |-> <<>>]
    /\ bias = [t \in Tasks |-> 0]
    /\ active = [n \in Sizes |-> 0]
    /\ ident = Ident /\ trespass = FALSE
    /\ alias = [t \in Tasks |-> {}]
    /\ heap = FALSE /\ brk = 0
    /\ mtab = [i \in Slots |-> {}]
    /\ bump = MmapLo
    /\ cpu \in Tasks /\ outer = None /\ irq \in BOOLEAN /\ mixed = FALSE

Exec(t) ==
    \/ \E p \in Progs : Read(t, p)
    \/ Load(t) \/ LoadPage(t) \/ LoadCut(t) \/ Loaded(t)
    \/ CheckStack(t) \/ CheckOnly(t) \/ BackStack(t) \/ MapStack(t) \/ Config(t) \/ ArgsTooLong(t) \/ Enter(t)
    \/ HeapReset(t) \/ CleanMmap(t) \/ FreeStack(t) \/ Unload(t)

Program ==
    \/ \E b \in 1 .. 2 * HeapHi + 1 : BrkGrow(b) \/ BrkShrink(b)
    \/ \E n \in 1 .. MmapHi - MmapLo : Mmap(n)
    \/ \E i \in Slots : Munmap(i)
    \/ \E p \in Pages \ KernelHalf : Touch(p)
    \/ \E fault \in BOOLEAN : UserExit(fault)

Next ==
    \/ \E t \in Tasks : Exec(t) \/ Preempt(t) \/ Yield(t)
    \/ Program
    \/ Resume

Spec == Init /\ [][Next]_vars

-----------------------------------------------------------------------------
(* Properties.                                                             *)

(* Types, a part of FramesSound. *)
TypeOK ==
    /\ frame \in [Pages -> Frames \cup {0}]
    /\ used \subseteq Frames /\ lost \subseteq Frames
    /\ tables \in [Areas -> Frames \cup {0}]
    /\ demand \subseteq Pages
    /\ buf \in Progs \cup {None}
    /\ stage \in [Tasks -> Stages]
    /\ prog \in [Tasks -> Progs \cup {None}]
    /\ got \in [Tasks -> Seq(ImagePages \X Frames)]
    /\ bias \in [Tasks -> {0, Bias}] /\ active \in [Sizes -> {0, Bias}]
    /\ ident \subseteq Ident /\ trespass \in BOOLEAN
    /\ alias \in [Tasks -> SUBSET Frames]
    /\ heap \in BOOLEAN
    /\ brk \in 0 .. 2 * HeapHi
    /\ mtab \in [Slots -> SUBSET MmapPages]
    /\ bump \in MmapLo .. MmapHi
    /\ cpu \in Tasks /\ outer \in Tasks \cup {None}
    /\ irq \in BOOLEAN /\ mixed \in BOOLEAN

(* Whatever tasks exec, in whatever order, phys_bitmap and the page tables *)
(* agree: a frame has one owner (the kernel, a page outside the stack      *)
(* window, a stack alias, a page table, or nobody after elf_load dropped   *)
(* its mapping), and exactly the owned frames are in use.  While a program *)
(* runs, every page below its break (task_user_heap_brk) and every page of *)
(* an mmap entry is mapped.  This ends when elf_load or elf_unload takes   *)
(* away a page of the stack window, or elf_unload frees a frame in use     *)
(* that it found in the identity mapping.                                  *)
Owners == {FramesOf({p}) : p \in Pages \ StackPages} \cup {alias[t] : t \in Tasks}
            \cup {{tables[a]} \ {0} : a \in Areas} \cup {lost, Reserved}
FramesSound ==
    ~trespass =>
      /\ TypeOK
      /\ InUser => HeapInUse \cup UNION {mtab[i] : i \in Slots} \subseteq Mapped
      /\ used = UNION Owners
      /\ \A p, q \in Mapped : frame[p] = frame[q] => p = q
      /\ \A A, B \in Owners : A # B => A \cap B = {}

(* The stack window is a lock, as long as no file is linked over it: the   *)
(* heap and mmap state has one owner at a time although cmd_exec may be    *)
(* suspended between any two of its steps, and the window maps the frames  *)
(* of the owner's alias.                                                   *)
Owning == {t \in Tasks : stage[t] \in {"stacked", "ready", "user", "exited",
                                       "reset", "cleaned"}}
WindowOwned ==
    ~trespass =>
      /\ \A s, t \in Owning : s = t
      /\ \A t \in Owning : FramesOf(StackPages) = alias[t]
      /\ Owning = {} => StackPages \cap Mapped = {}

(* A brk or mmap that fails leaves the heap and mmap areas as they were:   *)
(* only a new break, a new table of entries or a page fault changes them.  *)
FailedCallsUndone ==
    [][~trespass /\ InUser /\ <<brk, mtab, demand>>' = <<brk, mtab, demand>> =>
         \A p \in HeapPages \cup MmapPages : frame'[p] = frame[p]]_vars

(* Once every exec has ended, nothing of a program is left mapped and no   *)
(* frame is in use, except the kernel's, the pages the fault handler       *)
(* mapped (which no cleanup knows), the frames elf_load dropped and the    *)
(* page tables; unless an exec ran inside another one.                     *)
CleanAfterExec ==
    (\A t \in Tasks : stage[t] = "idle") /\ ~mixed /\ ~trespass =>
        /\ Mapped \subseteq demand
        /\ used = FramesOf(demand) \cup lost \cup ({tables[a] : a \in Areas} \ {0})
                    \cup Reserved

(* "unmap all pages that elf_load() mapped" (include/elf.h), and no more:  *)
(* the frames reserved for the kernel stay in use.                         *)
KernelKept == Reserved \subseteq used

(* "If still mapped after split+unmap, it's a real collision" (elf.c): no  *)
(* load takes the stack of an exec that is suspended.                      *)
LoadSeesCollision == \A t \in Owning : FramesOf(StackPages) = alias[t]

=============================================================================
