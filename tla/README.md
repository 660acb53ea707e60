# TG11-OS in TLA+

TG11-OS is a small x86-64 kernel in C: a preemptive round-robin scheduler on one
CPU, an ELF loader that runs ring-3 programs in one shared address space, system
calls with descriptors, pipes, a heap and mmap, a file system in memory and a
FAT32 driver, a network stack for one network card, USB, a terminal with a shell,
a script runner, background jobs, an editor, a small desktop and a BASIC
interpreter. This directory holds TLA+ modules that model its core and most of what a
user of its terminal meets, TLC configurations that check them on small instances,
and TLAPS proofs, for every value of the constants, of what matters most: of all the safety
properties of the scheduler, of programs and their memory, of descriptors, of the file system in
memory and of the network, of most of those of the two editors, of the shell's jobs and the variables of
its scripts, and of one of FAT32's.

Paths below are relative to `src/` of the repository. `PROJECT.json` holds, for each
definition, the source lines it models, for each property the mutation of the
model that violates it, the list of hazards the properties aim at, and the
disagreements found between the code and what its comments say.

## 1. The system

### 1.1 Components

| Component | State it keeps | Operations | Module |
|---|---|---|---|
| Task scheduler: `kernel/task.c`, `arch/x86_64/task_switch.s`, timer in `idt.c`, loop of `kernel/kernel.c` | `tasks[]` (id, state, ring link, name, stack pointer, protection), `current_task`, `preempt_disable_count`, `preempt_enabled`, `user_task_saved_rsp` | create, yield, exit, tick, stop, continue, kill, kill all, protect, reap, watchdog, enter and leave ring 3 | `Scheduler`, `SchedulerProofs` |
| Program execution and user memory: `cmd_exec` in `kernel/terminal.c`, `kernel/elf.c`, `kernel/usermode.c`, user heap in `kernel/task.c`, mmap in `kernel/syscall.c`, page faults in `idt.c`, page frames in `kernel/memory.c` | shared file buffer, page tables, frame bitmap, heap and mmap tables | read and load a file, back and map a stack, run, brk, mmap, munmap, page fault, exit or fault, cleanup, unload | `Exec`, `ExecProofs` |
| Descriptors and pipes: `kernel/syscall.c` | `syscall_fds[]`, `pipes[]` | open, close, lseek, read, write, pipe, poll, cleanup | `FdTable`, `Pipes`, `FdTableProofs` |
| File system in memory: `kernel/fs.c` | `nodes[]`, `cwd_node` | mkdir, touch, write, rm, cd, cp, mv | `RamFs`, `FsTree`, `ShellProofs` |
| Memory allocators: `kernel/memory.c` | frame bitmap, virtual page bitmap, heap blocks | `phys_alloc_page`, `kmalloc`, ... | frames in `Exec` |
| Interrupts and system call entry: `idt.c`, `interrupts.s`, `syscall.s`, `gdt.c` | descriptor tables, saved stacks | timer, keyboard, faults, `int 0x80` | timer and flag in `Scheduler`, faults in `Exec` |
| Command line of the shell: `run_command`, `run_command_single`, `run_command_dispatch`, background jobs in `kernel/terminal.c` | `input_buffer`, capture and pipe buffers, `last_exit_code`, script variables, aliases, `bg_jobs[]` | `;`, `&&`, `\|\|`, pipes, redirections, `&`, expansions, `xargs`, `set`, `test`, `wait`, `taskkill` | `Shell`, `Words`, `ShellMeaning`, `ShellProofs` |
| Text tools: `cmd_grep`, `cmd_sort`, ... in `kernel/terminal.c` | none | `cat`, `grep`, `wc`, `head`, `tail`, `sort`, `uniq`, `cut`, `rev`, `nl`, `tac`, `column`, `strings`, `tr`, `tee`, `seq`, `yes`, `paste`, `cmp`, `diff`, `find`, `calc`, `factor` | `TextTools`, `Words`, `TextMeaning` |
| Script runner: `cmd_run`, `cmd_source` in `kernel/terminal.c` | three block stacks, `run_source_mode`, saved variables | `if`, `elif`, `else`, `fi`, `while`, `until`, `done`, `break`, `continue`, `case`, `foreach`, `run`, `source` | `Script`, `ShellMeaning`, `ShellProofs` |
| Line editor, history, lines read for a program: `kernel/terminal.c` | `input_buffer`, cursor, selection, screen row, history ring, search, clipboard | each key with its modifiers, Enter, `!!`, `!N`, completion, `terminal_read_line` | `LineEditor`, `LineEditorProofs` |
| Full-screen editor: `kernel/terminal.c` | text buffer, cursor, window, selection, find, file | each key, open, save, close, text and hexadecimal | `TextEditor`, `FileProofs` |
| Desktop, autorun, keyboard queue: `kernel/terminal.c` | windows; boot script | drawing; start-up | not modelled |
| Network stack: `kernel/net.c` | ARP cache, ping slots, UDP slot, TCP connections | poll, resolve, ping, DHCP, DNS, connect, send, receive, close | `Tcp`, `TcpProofs`, `NetWait`, `NetWaitProofs` |
| Network driver: `drivers/e1000.c` | receive and transmit rings | send, poll, interrupt | not modelled |
| FAT32: `kernel/fat32.c` over `drivers/blockdev.c`, `drivers/ata.c` | mounted volume, next cluster to try, sector caches; on the disk the allocation tables, directories, files | mount, list, read, touch, write, mkdir, remove | `Fat`, `FileProofs` |
| Tiny BASIC: `kernel/basic.c` | program lines, FOR, WHILE and GOSUB stacks, DATA position, variables, file channels | run: every statement and the expression parser | `Basic`, `BasicMeaning` |
| USB: `drivers/usb.c` | controller rings, report queue | enumerate, poll | not modelled |
| Screen, framebuffer, serial port, mouse | cursor, scrollback | output | not modelled |
| Boot, build tools, user library and examples | none shared | none | not modelled |

### 1.2 How they interact

* **One CPU, one flag.** Everything runs on one CPU. A task keeps the CPU until it
  yields, exits, or the 100 Hz timer interrupts it with the interrupt flag set,
  preemption enabled, `preempt_disable_count = 0` and no ring-3 program running.
  The kernel has no locks: what is not under `cli` may be interrupted at any
  instruction, and interrupt handlers themselves run with interrupts off.
* **One nesting level.** `task_preempt_tick` raises the global
  `preempt_disable_count` and then switches away inside the handler; the count
  comes down when *that* task is resumed. Meanwhile every other task runs with
  preemption disabled.
* **One address space.** The shell, the serial console and every job run in the
  kernel's address space. A program is mapped in the user half of the same page
  tables, at fixed addresses, its file read into one shared buffer.
* **System calls** enter through `int 0x80` with interrupts off and stay off. The
  descriptors, pipes, heap and mmap tables are global; `cmd_exec` resets them
  before and after a program.
* **Shell to everything.** Commands call the file systems, the network stack and
  the scheduler directly; the network stack is polled from inside those calls,
  from the kernel's loop and from its own handlers.

### 1.3 What is hard about it

Ticks inside the scheduler's own functions; a task that disappears (killed, reaped,
its slot reused) while the ring, a saved context or a scan still refers to it; two
jobs that exec at once; unwinding from many different depths when memory runs out;
partial copies to user memory; pipes whose ends close in every order; a current
directory that has been removed; network answers that come late, twice, out of
order, or while another wait is in progress; buffers that are pointed into and
overwritten; power lost between two disk writes. The list, with the line where
each bites and the properties that cover it, is `PROJECT.json` "hazards".

### 1.4 What makes each component correct

* Scheduler: one task runs; the ring holds the live tasks, once each; every task off
  the CPU resumes on its own stack; the preemption counter never goes below zero;
  a protected task survives; a dead task stays dead; a ready task gets the CPU.
* Exec: page tables and bitmap agree on who owns a frame; at most one program owns
  the fixed addresses; loading and unloading take nothing that is not the program's; every page promised to a program is there; a failed call
  changes nothing; at the end nothing is left.
* Descriptors and pipes: a pipe is a bounded queue; its ends are open exactly while a
  descriptor names them.
* File system in memory: a tree; each call does what its caller sees by path.
* TCP: a byte stream is delivered in order and without holes, in both directions, and
  its end is reported after the last byte.
* The rest of the network stack: an answer is matched to its question; whoever waits for
  an address finds it once it has come; a ping slot is in use only while someone waits.
* FAT32: no cluster is in two chains; what a path reads is changed by calls on that
  path alone, also by one that is cut off; no cluster is lost while nothing fails.
* Command line: a line is the composition of its commands, whatever buffers their
  texts go through; a job's slot is in use exactly while the job lives.
* Text tools: each says of a text what its manual says, at every line boundary.
* Scripts: a script runs the commands its blocks say; its variables end with it.
* Line editor: the row shows the line, and history recalls what it lists.
* Text editor: the screen is the layout of the text from the window's top; a buffer not
  marked as modified is the text last loaded or written whole; a highlighted match is one.
* BASIC: the loop stacks are the loops around the running line; a program without jumps
  computes what its structure says.

## 2. The modules

Every variable of a module is a variable of the code or is commented as a history
variable. Every action is a call or the part of a call between two points where the
timer may interrupt it, and its definition carries the name of the C function or
names it in its comment. Definitions marked "Mutant" change one definition the way
a plausible bug would; no specification uses them.

### 2.1 `Scheduler`

`id`, `st`, `nxt`, `name`, `rsp` are the fields of `tasks[]`, `prot` is
`task_protect_mode`, `cur` is `current_task`, `count` is `preempt_disable_count`,
`user` says that `user_task_saved_rsp` is set. `pc` is where the one running thread is
and `iflag` its interrupt flag. Functions that run between `cli` and `sti` (kill,
stop, continue, protect, reap) are one step and leave the flag set. `task_create`,
`task_yield` and `task_exit` do not disable interrupts, so they are several steps:
`CreatePick`, `CreateFill`, `CreateLink`; `Yield`, `YieldScan`, `YieldSwitch`; `Exit`,
`ExitScan`, `ExitSwitch`. `Tick` may come between any two of them.

A context (`rsp[s]`) records whose stack it lies on, whether it was saved inside the
timer handler (then its resumption lowers `count`) and the flag it restores. Two
details of the assembly matter. `task_create` builds its frame with the flags word
lowest while `task_switch` pops it last, so a fresh task starts with interrupts
disabled. And between `current_task = next` and `task_switch` a tick stores the CPU's
stack pointer into the wrong task: such a behaviour ends in place `wild`, because
what happens next is not defined by the code.

`raced` records that a tick has hit one of the unprotected functions. The invariants
say "until then" (`~raced => ...`): they show that the scheduler is right for every
interleaving of tasks, commands and ticks outside its own functions, and
`SwitchOnlyWhenSafe` shows what one tick inside does.

### 2.2 `Exec`

Two tasks (the shell and a job) run `cmd_exec`. Its stages are the points between
which the timer may switch. The page loop of `elf_load` is one step a page, since it
reads the shared buffer again each time. Memory is `frame` (the page tables), `used`
(the frame bitmap) and `tables` (page-table frames, allocated on demand and never
freed). A program in ring 3 is not preempted and its system calls run with the flag
clear, so each call is a step. Two history variables name what the code keeps no
record of: `lost`, frames whose only mapping `elf_load` removed, and `demand`, pages
that the page-fault handler mapped.

A file is linked where it likes: no check of `elf_load` keeps it out of the windows of
heap, mmap and stack, and `LoadPage` unmaps whatever it finds. `bias` is the local
variable of `elf_load` and `active` is `elf_active_images[]`, which is searched by the
length alone, because the buffer is always the same. `Unload` works on the file that the
buffer holds *now*, at the bias registered for the length the task has read *then*. `ident`
is what is left of the boot loader's identity mapping by huge pages: `elf_load` splits one
before it unmaps a page of it, `elf_unload` does not, so that `paging_unmap_page` leaves the
mapping but `phys_free_page` frees the frame (`Home`), which may be one of the kernel's
(`Reserved`). `trespass` records the step at which `elf_load` or `elf_unload` takes a page of
the stack window, or `elf_unload` frees a frame in use through the identity mapping: nothing is promised from
there on, and the constraint `BeforeTrespass` of the run stops there. `ExecTrespass.cfg`
shows that both happen.

### 2.3 `FdTable` and `Pipes`

`FdTable` is `syscall_fds[]` and `pipes[]`, with the ring-buffer arithmetic and the
byte-wise copies that can fail part of the way. `Pipes` is what a program sees: a
bounded queue with two ends. `FdTable` implements `Pipes` under the mapping that
reads the queue out of the ring while an end is open.

### 2.4 `RamFs` and `FsTree`

`RamFs` is the node array with its sibling lists and `cwd_node`, every call with its
path resolution. `FsTree` is a set of paths with their contents and a current
directory that may be `Removed`. The model stops when `fs_mv` has put a node below an
unused one (`strayed`): `fs_mv` checks that the destination's parent is a directory but
not that it is still in use, so a move into a removed current directory corrupts
the tree (listed under "findings").

### 2.5 `Tcp`

One connection of the client, from `net_tcp_connect` to `net_tcp_close`. `state`,
`active`, `seq`, `ack`, `rx`, `rx_fin` are fields of `tcp_conn_t`; `call` is the call the
program is in and `left` what `net_tcp_send` has still to send. The handler runs
where the code polls: in the waiting loops of the calls, and inside
`tcp_send_segment`, whose `resolve_mac` polls for an ARP answer. So a segment can be
handled inside a call, and inside a handler that is about to acknowledge another one:
`sends` is the stack of segments that wait for an address, `Handle` is the code of
`handle_tcp` up to its first `tcp_send_segment`, and `Send` is that call's return with
what follows it. The header is filled in at that point, from the connection as
it is then, not as it was when the handler started.

The peer (external) is a correct TCP that keeps to the window it is offered; the
network loses, repeats and reorders its segments and ours: `Arriving` is everything
the peer may have sent so far, in pieces of any size up to `MaxSeg`. One connection is
enough: `net_tcp_connect` picks a new local port for each, so an earlier
connection's segments match no connection.

Four history variables delimit what the code promises. `overflow`: data that did not
fit has been acknowledged (`handle_tcp` stores what fits and acknowledges all). `apart`:
a segment with something new started before or after the next expected byte (the
code drops such data but takes its FIN). `nested`: a segment was handled inside
`tcp_send_segment`. `ended`: the program has been told of the end.

### 2.6 `Fat`

The volume: `fat` is the copies of the allocation table, `block` the clusters, each
a row of directory slots or filled with a chunk of a file, and `hint` is
`alloc_hint_cluster`. A call (`call`) looks up its path and then makes a sequence of
sector writes (`todo`), planned by the operators that bear the code's loops:
`FreeChain`, `AllocCluster`, `Extend`, `Fill`, `MakeDir`, each write with what the
code frees if it fails (`undo`). Nothing else touches the volume during a call, so
reads need no steps of their own; between any two writes the next one may fail
(`IoError`) or the power may go (`PowerLoss`, with which `hint` is lost). A call that
needs a directory entry may first extend the directory, and a write to a missing file first
touches it: the call then looks up again (`Extending`, `Placing`, `Filling`).

The code gives up a file's old clusters before it has new ones and writes the entry last; a
removal frees before it marks the entry. So a call that fails in between leaves an entry
that names free clusters. That does no harm until another call allocates one of
them, and is mended when the same path is written or removed again, as
`ramfs2fat` does. `tainted` records the allocation of a cluster that an entry other
than the call's own names; it also records that a look-up that could not read a sector was
taken for an absent name (`BlindCreate`), which makes the name a second time. From there
on the code promises nothing and the model stops. `SpaceKept` shows that without a
fault only a write that runs out of space (`cut`) leads there.

The sector caches are left out: every write empties both, so that a read never sees
anything but the disk. So is `fat32_set_attr_path`: the bits
it sets are only shown.
The functions on the root directory by name (`fat32_write_file_root` and its kin)
have no caller; one of them is listed under "findings".

### 2.7 `NetWait`

The other users of `net_poll`: `resolve_mac`, `net_ping`, the single UDP slot with DHCP
and DNS, and the commands that call them. `pkt` is the one packet buffer; `at` is where
a task is in its waiting loop: at its top, with a frame read and not handled, or inside
`net_poll` between two frames. The shell may be interrupted at each of these points; a
job then runs its whole command, since its task starts with interrupts disabled and
nothing here enables them (`Continues`). Frames under way (`air`) come in any order
or never; none is duplicated. A request the caller has given up may still be
answered. The loop's bound of 64 frames to a poll is not reached. `Hop` stands for
netmask, router and name server of the configuration. `Stale` (an answer to a request given
up has the same number, or two tasks waited at once) and `evicted` (the full cache has
overwritten an entry) delimit what is promised.

### 2.8 `Basic` and `BasicMeaning`

`Basic` is `basic_run`: a step is one turn of its loop, that is one line. A statement is
its words, an expression the sequence of its tokens, which `Expr` parses and evaluates in
one pass as the code does, with the random generator's state passed along. Strings are
sequences of character codes, so that `VAL`, `STR$`, `MID$`, `ASC` do what the code
does; the bitwise operators work on words of 16 bits. Arithmetic that leaves the
width of `int` is out of bounds. `BasicMeaning` says what a program means without the
machine: `ForsAt` and `WhilesAt` find the loops around a line from the text alone, and
`Meant` computes a program without jumps by recursion over its loops, its
expressions by a grammar with precedence. `tangled` records that a jump crossed
the border of a loop: the stacks then hold loops that do not enclose the line.
A name is what the parser takes for one, `AND`, `OR` and `NOT` where a value is expected
included, and what is left over behind the item of a `PRINT` ends it.

### 2.9 `LineEditor`

One action is one key with the modifiers held. `line` is the buffer, cursor, selection,
`terminal_last_drawn_length` and the screen's row: each handler draws what it draws in the
code, a full redraw up to the longer of two lengths or single cells. The row is
therefore state of its own, and that it shows the line is a property. A byte behind the
end of the line is `Junk`, so that one that gets into the line or on the clipboard is
noticed. `smeared`: a search, Ctrl+L, Tab or Ctrl+C has drawn what later redraws do not
blank; `strayed`: a selection survived a change of the line under it; `recalled.full`:
the ring was full when `!N` was pushed. Scrolling of the row and the keyboard
queue are left out.

### 2.10 `TextEditor`

The editor's buffer, cursor, selection, window and find, the file, and what is on the screen.
Every handler ends in `editor_render`, so an action is a key with its render, which
moves the window by the code's walks over rows and columns and then draws. `head` is
`editor_vga_start`: the window is moved by the rows that the header of the *last* render left
(`WindowRows`; all of the screen at the first one after the start), and the text is drawn below the
header of *this* one (`DrawnRows`), which a long query makes one row taller. `grown` records
that it came out taller. Text and hexadecimal mode, writes that fail, files that do not fit: `base`
is the text as it was last loaded or written whole, `partial` says that the file held more, and
`Gone` is what a failed write to FAT32 leaves.

### 2.11 `TextTools`, `Words`, `Shell`, `Script`, and what they are to mean

`TextTools` holds the text commands as functions from the text they read to the text they
write, each cutting lines in the way of its own loop; `Words` file name patterns,
`case` patterns, arithmetic, `test` and aliases. `Shell` runs a line: `stack` is what
the C stack holds (lines, commands, loops of `xargs` and `diff`), `io` the capture with its
static buffers and the pipe input, `input` the one input buffer, which `Dispatch`
reads when it runs and not when the line was split. Between any two steps the timer may
switch to a job. A job's command is one step, because a fresh task has interrupts
disabled, except `wait`, which yields. One dispatched command is one step as well:
what can be disturbed is the buffers between commands. Jobs are single
commands; `xargs` runs a command without arguments of its own (see the finding). File name
patterns are expanded after the alias.

`Script` adds the statements of a script with the code's three stacks. The
condition `any` is one whose outcome the script does not know, so that every script is
run with every sequence of outcomes. A `$(...)` in a condition is replaced by a variable,
the version, the directory or a file's text (`execute_substitution_command`) and runs no command, so that a
condition has no effects, whether its block is run or skipped. While a `case` is open, every line that ends in `)`
is a label, a command such as `echo $((1+1))` too (`TakenForLabel`).
`opened` keeps the order of blocks that the three
stacks lose, and `tangled` tells the scripts for which the code takes the wrong block for
the enclosing one; what it does with them and what the label rule does are
the subject of `ShellManual.cfg`.

`TextMeaning` and `ShellMeaning` are the reference definitions: lines by positions, by sets
and bags (each tool of a text as the tool reads it, `AsRead`: most take a last newline for the start of one more, empty line,
which is a disagreement `ShellManual.cfg` shows; `tail` and `sort` are held to their manual only for a
text that does not end in a newline, and the others are the subject of `ShellManual.cfg` too); a formula by the tree it was printed from; a line as a composition of functions from
states to states; a script as a tree of blocks, run by recursion over the outcomes that its
conditions had. History variables delimit the promise: `clean` (no job has run and nothing was cut
off in this line), `from.apart` (the line is the shell's own, not one whose output is
captured), `killed`.

### 2.12 How they compose

The kernel has no locks; what one module assumes of the others is this.
`Exec`'s rule of who runs (`Preempt`, `Resume`, `Yield`) is the scheduler's as `Scheduler`
shows it: at most one task is suspended by the timer at a time, because
`preempt_disable_count` stays raised until it is resumed (`CountCoversSuspended`).
`FdTable` uses that system calls run with interrupts off and a program is never
preempted (`CanPreempt` asks for no ring-3 program). `RamFs` models calls as atomic,
which holds for calls from one task; interleaved calls are a hazard that no property covers.
`NetWait` and `Shell` use the same rule of who runs: a job starts with interrupts
disabled, as `task_create` builds its frame (`Scheduler`'s contexts), and keeps the CPU until it
yields. `Tcp` and `NetWait` are two users of the same poll; their state is disjoint but
for the cache of addresses, whose wait `Tcp` abstracts to an answer that comes or does not.
`Script` extends `Shell`, whose commands it runs, and `Shell` uses `TextTools` and `Words`.
`Shell` takes the files for what `FsTree` shows of them, texts that keep what was written, with names instead of paths.

## 3. Runs

| Run | Question | Distinct states |
|---|---|---|
| `scheduler` | Do the scheduler's invariants hold for every interleaving of three slots? | 260 000 |
| `scheduler_coop` | Does a ready task get the CPU when every task keeps yielding? | 61 000 |
| `exec` | Is user memory accounted for, whoever execs, whatever fails, until a trespass? | 2 234 000 |
| `fd_table` | Are ends and descriptors paired, and do pipes implement queues? | 260 000 |
| `ram_fs` | Do the sibling lists implement a tree? | 12 700 |
| `tcp` | Are the streams in order and complete over a network that loses, repeats and reorders? | 407 000 |
| `fat` | What does a failed write, a failed look-up or a loss of power leave of the volume? | 840 000 |
| `net_wait` | Does each waiter get the answer to its own question, with one buffer, one cache and one slot for all? | 3 201 000 |
| `basic` | Do programs of a few lines compute what their text says? | 339 000 |
| `line_editor` | Does the row show the line, and does history recall what it lists? | 876 000 |
| `text_editor` | Is the screen the layout of the text, and the modified mark right? | 91 000 |
| `shell` | Do command lines, tools, jobs and scripts do what they say? | 161 000 |

All of them pass. What the properties say:

* `Scheduler`: `OnlyCurrentRuns`, `RingIntact` (the ring is the live tasks, and the scheduler
  never comes to the halt for lack of one, both until a race; with the types), `Identities`,
  `ContextsSound` and `CountCoversSuspended` are invariants about two or more tasks at
  once; `ProtectedSurvives` and `NoResurrection` are about steps: no command stops or
  removes a protected task and no dead task comes back. `ReadyTasksRun` is fairness of
  the round robin.
* `Exec`, each until a trespass: `FramesSound`, every frame has one owner, the bitmap agrees, and what a program was
  promised is mapped; `WindowOwned`, finding the stack window unmapped works as a
  lock between two execs; `CleanAfterExec`, after the end nothing is left
  but what the history variables name; `FailedCallsUndone`, a brk or mmap that fails
  after some pages undoes them.
* `FdTable`: `EndsHeld` and `PipesImplemented`. `RamFs`: `TreeSound` and
  `TreeImplemented`.
* `Tcp`: `InOrder`, what was received and what is stored is a prefix of the peer's bytes,
  until data has been acknowledged that did not fit; `EndComplete`, the end is reported
  after the last byte, if the peer's segments come as sent; `PeerComplete`, the peer
  gets the program's chunks in order and, unless handlers nested, the FIN after them.
* `Fat`: `ChainsApart`, no cluster in two chains, in the middle of a call and after one
  that failed, and none lost while nothing fails; `DirsSound`, no entry hidden behind an
  unused one, no stale contents read as entries, `..` leads up; `MirrorsAgree`, the copies of
  the table differ at one cluster for each fault; `Delivered`, a call that succeeds has done
  its work as a reader sees it; `OthersKept`, whatever happens to a call, all other paths
  read the same.
* `NetWait`: `NetSound`, no address in two entries; `HeardIsFound`, an awaited address is found
  when it has come; `AnswersMatch`, what a command reports answers its own question, and the
  configuration is one that a server has confirmed; `SlotsAccounted`, a slot is in use for a
  ping that is waited for, or for a number given up.
* `Basic`: `LoopsEnclose`, the FOR and WHILE stacks are the loops around the line, through
  subroutines; `MeansWhatItSays`, output and variables are those of the reference.
* `LineEditor`: `RowShowsLine` and `RecallAsListed`. `TextEditor`: `ShownAsLaidOut`,
  cells and cursor, except that right after a header that came out taller the cursor may be below
  what is drawn; `CleanMeansSaved`, a buffer without the mark is the text last loaded or written whole, and that is what
  the file holds unless it was too large or a failed write has destroyed it; `FindSound`.
* `Shell` and `Script`: `JobsAccounted`, `ToolsAgree`, `LineMeans`, `RunsAsNested`,
  `ScopesKept`.

The type invariant of a module is the first conjunct of one of its properties, except in the
modules of the terminal and of BASIC, whose properties say more than types.

Several properties end where a history variable says that something the code does not guard
against has happened (`raced`, `trespass`, `overflow`, `tainted`, `evicted`, `Stale`, `killed`, ...). They show
that nothing else breaks the component. They do not catch that hazard itself: what follows it is described under
"findings" and "hazards", and several are shown by the configurations below.
In `Fat.cfg` a write never runs out of space after giving up the old clusters (`cut` stays FALSE there); `FatSpace.cfg` has that case.

Eight further configurations are kept beside the runs, for use by hand. Seven show what the code does against
a comment, the manual or the change log; TLC finds each property below violated, and "findings" describes the disagreement:

| Configuration | Violated | What it shows |
|---|---|---|
| `SchedulerRace.cfg` | `SwitchOnlyWhenSafe` | "... to the next ready task when safe to do so" (`kernel/task.c:41-42`): a tick between `current_task = next` and the switch (`kernel/task.c:309`) stores the running thread's stack pointer into another task. |
| `SchedulerTightLoop.cfg` | `SerialConsoleResponds` | "this console can respond ... even when the VGA shell is blocked in a tight loop" (`kernel/serial_console.c:7-9`): a new task runs with interrupts disabled (the frame's order), so no timer can take the CPU from it until it first yields or enables them. |
| `ExecTrespass.cfg` | `KernelKept` | "unmap all pages that elf_load() mapped" (`include/elf.h`): an exec that was suspended while another one read a second file of the same length unloads pages nobody loaded, and frees a frame of the kernel behind the identity mapping. |
| `ExecTrespass.cfg` | `LoadSeesCollision` | "If still mapped after split+unmap, it's a real collision" (`kernel/elf.c`): a file linked over the stack window is loaded over the stack of a suspended exec. |
| `EditorMark.cfg` | `LiveMark` | "Editor now shows a live `[modified]` indicator" (`CHANGELOG.md`): after a save to FAT32 that failed, the text on the screen is nowhere on the disk and no mark is shown. |
| `ShellManual.cfg` | `NoLineAdded` | `grep`, `head`, `uniq`, `cut` and `rev` take a text that ends in a newline for one with an empty line more. |
| `ShellManual.cfg` | `TailGivesLastLines` | "Prints the last N lines": of a text that ends in a newline `tail` prints N + 1, the last one empty. |
| `ShellManual.cfg` | `SortGivesTheLines` | `sort` adds an empty line to a text that ends in a newline, and drops one that the order puts last. |
| `ShellManual.cfg` | `BlocksNest` | Three stacks do not keep which block encloses which: the rest of an arm of a `case` that was not chosen is run behind a loop in it. |
| `ShellManual.cfg` | `ArmsRunCommands` | In a `case` a command that ends in a parenthesis is taken for a label, and the rest of its arm is not run. |
| `TcpNext.cfg` | `NextExpected` | "next expected byte from remote" (`kernel/net.c:1118`): a segment longer than the space left is acknowledged whole, so the bytes cut off are never sent again. |
| `NetHang.cfg` | `WaitsBriefly` | "Send ARP request and wait briefly" (`kernel/net.c`, `resolve_mac`): with interrupts disabled the ticks stand still and the wait has no end. |

Two of these files serve several properties and say which constants go with each.

`FatSpace.cfg` passes: without faults, but with files of one or two clusters, every cluster is
accounted for also when space runs out (`SpaceKept`, 265 000 states).

### 3.1 Bounds

* `TaskMax = 3`: the kernel's task, one task that leaves (or stays), one more. With
  task ids up to `MaxId` 4 (3 for liveness) a slot is used, reclaimed and used again. The
  theorems below lift the main invariants to every size.
* `Exec`: seven frames, the first of them the kernel's, for more that may be wanted at once, so that each
  allocation can be the one that fails; a file of two pages, the first in the identity mapping, a PIE of one page and
  the same length, whose page is identity mapped without its bias, and a shorter file linked over the stack;
  breaks in half pages, so that two breaks on a page differ.
* `FdTable`: three descriptors and two pipes, one descriptor short of both pipes'
  ends, and two bytes a pipe: the ring wraps, writes are cut short, `pipe` unwinds.
* `RamFs`: the root and three nodes, so that the array is full; two names; paths of at
  most two parts, absolute and relative, with `.` and `..`.
* `Tcp`: a buffer of two bytes and three bytes from the peer in segments of one or two,
  so that a segment fits, half fits, overlaps one received before or leaves a hole; two
  chunks to the peer, so that the second can fail or be late; one handler inside another.
* `Fat`: three free clusters and directories of two slots to the cluster, so that a new
  directory is full from the start and its first entry extends it; two names, at the
  root and one below the other; files of two clusters with one fault, of one or two
  without. That is enough to link, to cut a chain, to fill the volume, to reuse a
  file's cluster for a directory and to meet the fault at each write of each call.
* `NetWait`: a cache of two entries with three hosts on the net, so that it overflows; two
  ping slots and two numbers to a ping, so that a second ping finds none free; two questions, so that the answer to one
  given up meets the next; one frame unasked.
* `Basic`: families of programs of up to three, four or five lines, one family for each part of the language,
  every combination of a few statements in each (`MCBasic`), PRINT with one item and with two; stacks of depth two, so that
  they overflow; strings of three characters, arrays of four, twenty lines run.
* `LineEditor`: a line of four characters, a ring of two, so that it is full after two lines;
  two characters typed and one of the rarer keys, which is enough to select over the end, delete, recall and
  redraw. `TextEditor`: a screen of three rows with a header of one, or two with a query,
  so that the window is of two rows or one, and of three before the first header; two columns and texts up to six
  characters, so that rows are exactly full, wrap and scroll; a buffer of five, so that a
  file of six does not fit and typing comes to the end; three changes.
* `Shell`: all texts of up to four characters of two letters and the newline, with some
  longer ones, and pairs of texts for `cmp` and `paste`; line buffers of three characters, tables of four lines, a capture of
  eleven, files of eleven; all chains of three of seven commands with every pair of
  operators; pipes of three stages and one of four; two job slots and two variables; every
  script of up to four units with every outcome of its conditions, at most one loop in those of four, and
  some chosen ones of three blocks inside each other or with a command in parentheses in a `case`; loops of two rounds, two scripts inside each other.
* Deadlock is checked except where a session ends with its last line, a program with its run, or
  an editor with its bound of steps (`basic`, `line_editor`, `text_editor`, `shell`); where the code stops for good the model stutters.

### 3.2 Fairness

`CoopSpec` assumes that the scheduler's own code makes progress (weak fairness), that a
program ends, and that each task yields again and again when it has the CPU (strong
fairness of `Yield`, since a tick may suspend it in between): the loops of task 0, the
shell, the serial console and `taskspin` call `task_yield` each time round.
`ReadyTasksRun` is the one liveness property that a run checks. `TightLoopSpec`, used by
hand, drops that for the shell and adds fairness of the timer, which is what the
comment in `serial_console.c` relies on; `FairSpec` of `NetWait`, also used by hand, lets
the tasks go round their loops.

## 4. Proofs

### 4.1 The scheduler

`SchedulerProofs` proves, for every `TaskMax >= 2` and every `MaxId` (assumptions
`TaskMaxAssumption`, `MaxIdAssumption`):

* `TypeCorrect`: `Spec => []TypeOK`;
* `OneRuns`: `Spec => []OnlyCurrentRuns`;
* `ContextsOnOwnStack`: `Spec => []ContextsSound`;
* `DeadCodeUnreached`: until a race no task runs past the end of `task_exit`.
* `UniqueIdentities`: `Spec => []Identities`;
* `ProtectedTasksSurvive`: `Spec => ProtectedSurvives`;
* `ExitIsFinal`: `Spec => NoResurrection`.

`OnlyCurrentRuns` is not inductive: that the current task is RUNNING again after a
resumption needs to know where the resumed task will continue. The inductive invariant
`IInv` therefore adds `TableInv` (unused slots are ZOMBIE, ids are unique and below
`next_id`, slot 0 is never given a protection mode), `PlaceInv` (what state the current
task has at each place inside the scheduler) and `ContextInv` (every task off the CPU
resumes in its own code, on its own stack, unless it has exited). The proof is
`Init => IInv`, one lemma per action for `IInv /\ [Next]_vars => IInv'`, and the
implication to each property. The two step properties follow from `IInv` by a case for
each action (`StepKeeps`). That there is one shell needs one more invariant,
`ShellInv`: a shell never exits, and a thread inside `task_create` for a shell has seen
none, which no tick can undo while `raced` is false. The lemmas on `FirstHop` and `Lowest` (a walk that stops at
the first slot of a set stops in it) rest on well-foundedness of the naturals.

A second invariant gives, from the same assumptions, the two properties that count or walk:

* `RingAlwaysIntact`: `Spec => []RingIntact`;
* `CounterCoversSuspended`: `Spec => []CountCoversSuspended`.

`RingIntact` speaks of walks along the ring. The invariant `RingInv` says it without walking
(`OneRing`): the links of the live slots lead to live slots, no two of them agree, and a set of them that
contains slot 0 and every successor of its members is all of them. `RingClosed` shows that this
survives `Reclaim`, which unlinks any set of dead slots at once, and `RingLinked` that it survives
`task_create`'s two assignments, between which the new slot points into the ring and nothing
points to it. `Round` goes back to walks: by the pigeonhole principle a walk repeats a slot, by injectivity
the first slot repeated is the one it began at, and what lies between is closed, hence all of the ring. That
no switch ends in a halt needs also that slot 0 is READY or RUNNING. The counter (`CountKept`,
`CountResumed`, `CountTicked`): a tick adds one suspended task and one to the count, a
resumption takes one away from both, and nothing else suspends.

### 4.2 The TCP client

`TcpProofs` proves, for every buffer size, segment size, number of bytes and depth of
nesting (assumption `TcpAssumption`), every property the run `tcp` checks:

* `TypeCorrect`: `Spec => []TypeOK`, with the bound on the receive buffer;
* `BytesInOrder`: `Spec => []InOrder`, which has `TypeOK` as a conjunct;
* `EndAfterLastByte`: `Spec => []EndComplete`;
* `ChunksInOrder`: `Spec => []PeerComplete`.

None of them is inductive: what is stored is in order only because `ack` counts it,
and what the peer gets is in order only because `seq` counts the chunks, through handlers
that nest and calls that fail. `IInv` therefore adds `StackInv` (the caller's segment
waits below those of the handlers), `CallInv` (what a state or a waiting segment says
of the call), `SeqInv` (`seq` is one more than the chunks sent while there is
more to send), `WireInv` and `PeerInv` (chunk k has number k, and the peer's list is as
long as its count), `OrderInv` (each byte at its place, element by element, and `ack`
behind the last, while the connection is established) and `EndInv` (when a FIN has
been taken, everything before it has). Three groups of lemmas carry it: pushing and
popping the stack, what an arriving segment may contain, and what storing and
taking do to the buffer. Then each part has a lemma for the handler, the returns
of `tcp_send_segment`, the calls and the peer.

### 4.3 What waits for the network

`NetWaitProofs` proves, for all hosts, every size of the cache and of the table of pings
and every number of questions (assumption `NetAssumption`), every property the run `net_wait` checks:

* `NetWaitSound`: `Spec => []NetSound`;
* `HeardFound`: `Spec => []HeardIsFound`;
* `AnswersMatched`: `Spec => []AnswersMatch`, which has `ConfigLeased` as a conjunct;
* `SlotsSound`: `Spec => []SlotsAccounted`.

That a report answers its own question cannot be seen from the state in which it is made: the
code compares a sequence number, or nothing at all. The invariant follows each answer from
the question to the report. `FrameInv`: a frame under way, or in `pkt_buf`, answers a
question that was asked, and no two answer the same one. `EchoInv` and `DnsInv`: it answers
the question that is waited for now, or one with its number has been given up; the same
holds of the frame in hand, of what a slot has received, and of the datagram that
`udp_rx` announces while it still lies in `pkt_buf`. `SlotInv` keeps requests in slots
apart, `CallInv` and `UdpInv` say what a command in each kind of wait may find, and `WhoInv`
that two tasks are in commands at once only if `crossed` says so. Most cases then rest on
one fact, `OneWaits`: uncrossed, who the frame is for and who the slot is for are the same
task. The step that looks least likely to keep it is the end of a job whose caller has
a frame in hand (`InHand`): nobody is waiting any more, so no slot can take it.

### 4.4 Descriptors and pipes

`FdTableProofs` proves, for any numbers of descriptors and pipes and any buffer size above 0
(assumption `FdAssumption`), both properties of the run `fd_table`:

* `EndsAlwaysHeld`: `Spec => []EndsHeld`;
* `ImplementsPipes`: `Spec => PipesImplemented`, the refinement of `Pipes`.

`EndsHeld` alone is not inductive: a read that follows a descriptor to its pipe needs that
there is one. `NamesInv` adds it, and that a file's descriptor has its file. The refinement
has a step for each call. `Create`, `Close`, `Read` and `Write` of `Pipes` are taken by `pipe`, by
`close` and the cleanup, by a read and by a write that copies all its bytes. A write whose copy
stops at an unmapped page, and a `pipe` that unwinds, take none: they change the buffer where
no queue lies, or a buffer that nobody holds. The arithmetic is in lemmas about a ring as
a function of its head, count and contents (`RingRead`, `RingWritten`, `PutIs`), which rest on
two facts about `%`: offsets add up (`ModMoved`), and two offsets of one lap are two slots
(`ModApart`).

### 4.5 Programs and their memory

`ExecProofs` proves all four properties of the run `exec`, for any tasks and files, linked anywhere, any
layout of the windows that keeps them apart from each other and from the identity mapping, and any number of
frames (`ImageAssumption`, `LayoutAssumption`). That a file avoids the windows is not assumed:

* `FramesAlwaysSound`: `Spec => []FramesSound`;
* `WindowAlwaysOwned`: `Spec => []WindowOwned`;
* `AlwaysCleanAfterExec`: `Spec => []CleanAfterExec`;
* `FailedCallsAlwaysUndone`: `Spec => FailedCallsUndone`.

What is inductive is `trespass \/ IInv` (`Inductive`): the promise ends with the step that takes a page of
the stack window or a frame in use behind the identity mapping, and each lemma about a step of `elf_load` or
`elf_unload` shows that it keeps `IInv` or sets `trespass`. Everything else that a file linked over a window or the
wrong bias can do is inside the proof: pages of heap and mmap replaced by a load, which leaves their frames lost but
owned, and pages of another image unmapped and freed by an unload.

The invariant `IInv` says why two execs that interleave, with one buffer, one window and one
heap between them, do not take each other's frames:

* `OwnInv` says who owns each frame. It is a predicate of any page tables, bitmap and owners
  (`Sound`), so that the lemmas `SoundMap`, `SoundUnmap`, `SoundLose`, `SoundUnwind`, ... also hold of the
  memory half way through a step.
* `WindowInv` makes the empty stack window the lock: `MapStack` refuses a window with a mapped page, so
  whoever maps it is its only owner, and heap and mmap belong to the owner (`UsrInv`).
* `GotInv` is the part that is easy to miss. `elf_load` frees on failure the frames it remembers, so
  they must still be its own: each is mapped where the load put it or is lost, and nothing
  that an inner exec will unload or roll back maps a frame that the suspended one remembers. It
  holds because an inner load unmaps a present page without freeing its frame.
* `DemandInv` and `CleanInv` say which pages a cleanup does not know: those of the fault handler.

The loops that map pages are a recursive function (`MapPages`). That it exists, so that its
equation may be used, is proved from the least page up to which there is none (`LoopExists`), and
what it does by the same argument (`MapPagesIs`): the first `done` pages are mapped to
frames that were free, and nothing else has changed.

### 4.6 The tree of nodes

`ShellProofs` proves of `RamFs`, for any number of nodes, any names and any paths (`FsAssumption`):

* `TreeAlwaysSound`: `Spec => []TreeSound`.
* `ImplementsTree`: `Spec => TreeImplemented`, the refinement of `FsTree`.

`TreeSound` speaks of loops over `next_sibling` and over `parent`. The invariant `TreeInv` says the
same by sets. `OneList`: a node's links list exactly the nodes that have it as parent,
no two links agree, and a set that contains the head and every successor is all of the list.
`Upwards`: the parents of nodes in use are in use, and no set of nodes other than the root is closed
under parents. That last part speaks of unused nodes too, because `fs_rm` leaves their
`parent` and a removed current directory is still a place to start from. `ListVisited` and `UpwardsVisited`
turn sets into loops (a loop that did not end would repeat a node); `ListUnlinked`, `ListPushed`,
`UpwardsMoved` and `UpwardsRemoved` say what one assignment to a link does to each. `MoveTree` has the
argument of `fs_mv`'s own check: a directory is not hung below itself because the loop asks, and a
file, for which nothing asks, because nothing hangs below a file (`PassedHasKids`).

For the refinement `Named` joins the invariant (`InTree`): the name of a node in use is a name and not
the blank that `fs_rm` leaves, so that no path is that of a removed current directory. The mapping reads
a node's path off its parents by recursion. It has an equation because the parents of nodes in use lead
out of every set but the empty one (`Grounded`): a largest set of nodes with paths is all of them
(`PathsExist`), and the nodes on which two solutions differ would be a closed set (`PathsUnique`). The same
argument gives every fact about paths. Two nodes have different ones (`PathsDiffer`); nodes that keep
parent and name keep theirs (`PathsAgree`); the nodes whose paths start with that of `n` are `n` and
those below (`BelowNode`); a moved node carries them along (`CarriedPaths`). Then each operation has
its lemma: `AddNext`, `WriteNext`, `CdNext`, `RemoveNext`, `MoveNext`, and `LoseNext` for the move that
strays. `Reached` is the one fact about look-ups: from a node in use a path leads to nodes in use,
so that a call that finds an unused one has started from a current directory that was
removed. This is why `FsTree` lets only such a caller see a write without effect or a `Lose`.

### 4.7 The full-screen editor

`FileProofs` extends `TextEditor` and `Fat`, whose volume the editor's files may lie on; the two
specifications share no variable, so that each theorem is about one of them. For every size of the buffer and
of the window, all files and all keys (`EditorAssumption`) it proves two of the three properties of the run `text_editor`:

* `EditorInvariant`: `EditorSpec => []EditorInv`;
* `UnmarkedIsSaved`: `EditorSpec => []CleanMeansSaved`;
* `MatchSpellsQuery`: `EditorSpec => []FindSound`.

`CleanMeansSaved` follows the text through `base`: `EditorInv` needs no fact about the disk for the mark, and the
only steps that part the file from `base` are the opening of a file too large (`partial`) and a failed write to
FAT32 (`Gone`). Neither of the last two says that cursor and anchor lie in the text, which every key's change of the text
rests on. `EditorInv` adds `SessionOK`: the cursor lies in the text, the anchor too while there is a selection, and selection,
match and find exist in text mode only, which is why `hexedit`'s keys need not reset them. Almost
every key is then one case: `EditOf` says that it leaves text, mark and match alone or sets the
mark and drops the match, and `Keeps` that such a key keeps the invariant. That a motion by
row, word or page ends in the text is a fact about loops (`editor_next_visual_row`, `editor_visual_row_start` and their kin): each
step stays in, hence the loop does, whose function exists by `IterExists`. Opening, saving and the
search have lemmas of their own; the search's first match is the least place that qualifies
(`LeastExists`).

### 4.8 The command line

`LineEditorProofs` proves, for every size of the line and of the history, all commands, directories
and keys (`LineAssumption`), both properties of the run `line_editor`:

* `PromptInvariant`: `Spec => []PromptInv`;
* `PartialRedrawsAddUp`: `Spec => []RowShowsLine`;
* `EventsRunAsListed`: `Spec => []RecallAsListed`.

That the row shows the line does not by itself survive a redraw, which blanks only up to
the longer of the line and `terminal_last_drawn_length`: what is needed is that everything beyond is
blank already (`Clean`) and that cells before it are those of the line (`Exact`); together `Shown`.
Every handler has a lemma that it takes a line that is well-formed to one that is, and a row that
is shown to one that is (`Keeps`), whether or not the row was right before: after a search or
Ctrl+L the first part still holds, and the next prompt restores the second (`FreshIs`). A byte from
behind the line is told from the others by the `Alphabet`, which has `Junk` in it only once a selection
has survived a change of the line (`strayed`): if the line consists of the alphabet and selection and cursor lie
within it, each cut, copy, insertion and completion is over the alphabet.

For the history, `HistInv` says that the ring read from its start is the list of the last lines, that
`history_pos` and the match of a search lie below the count, and that an event ran what was listed while
the ring was not full. `PushListed` is the arithmetic: a push to a ring that is not full appends, one to a
full ring drops the first. `RecallSame` follows: with room, the event that `!N` or `!!` names
in the list before it is pushed is the one it runs afterwards.

### 4.9 The copies of FAT32's table

`FileProofs` also proves, for every size of the volume, any number of copies and any number of faults
(`FatAssumption`), one of the five properties of the run `fat`:

* `MirrorInvariant`: `Spec => []MirrorInv`;
* `MirrorsStayAlike`: `Spec => []MirrorsAgree`.

Between two writes of one entry the copies do differ, and a fault there leaves them so. `MirrorInv`
says what every plan of writes has in common: entries are written copy by copy in order (`CopyByCopy`),
so that of a half-written one the copies before the next write have the new value
(`HalfWritten`), and the clusters at which copies differ, without the one being written, are no more
than the faults there have been. Each operator that plans writes (`FreeChain`, `AllocCluster`,
`Extend`, `Fill`, `MakeDir`, the undo of each, ...) has a lemma that its sequence is whole entries
(`Whole`), and so are two such sequences one behind the other (`WholeConcat`). A write that fails ends the plan and
puts another one in its place, which frees what the call had allocated (`GiveUp`): `NewPlan` shows
that this leaves at most one entry more that differs, the one in whose middle the fault was, and the
fault has been counted. A volume without space gives up as well but is no fault: the plans come to it
only between two entries.

### 4.10 Jobs and scripts

`ShellProofs` extends `Script` as well as `RamFs`. The two share no variable (the shell's `files` are
what its commands say they do to them), so that each theorem is about one of them. For every number of
slots, any sessions, any commands and any nesting of scripts (`ShellAssumption`, `ScriptAssumption`) it proves
two of the five properties of the run `shell`:

* `EverySlotAccounted`: `ScriptSpec => []JobsAccounted`;
* `VariablesEndWithScript`: `ScriptSpec => []ScopesKept`.

`JobInv` says of the job table what the property says, owner by owner, since a cardinality does not survive a
step by itself: whoever has a command to run has a slot in use and not one of a killed task, two
such tasks have two slots, and a slot in use has such a task or is a killed one's. `StartJobKeeps` is
where two could meet: the slot taken is the lowest free one (`LowestFree`), and with it no task
runs. `DispatchKeepsJobs` is `taskkill`, which ends all tasks and clears no slot.

That variables end with their script needs two facts about what is on the stack, neither of them
visible in the property. A script that shares with nobody has saved the variables it found, and no
statement, however blocks are tangled, makes another script of the one it stands in: `Kin` is what all
the operators of `Script` keep (`AfterKin`). And `run_source_mode`, one flag for all scripts, may be on
only while a sourced script is on the stack beyond which every script shares (`Sheltered`). It is
this that the end of a nested sourced script turns off, and the start of one that is not there: the flag
may be off too early, never too long. `HeirsFollow` says that a step that replaces the innermost
frame by frames of its kind keeps both; scripts that start and end have lemmas of their own.

### 4.11 What is not proved

Every safety property of `Scheduler`, `Exec`, `FdTable`, `RamFs`, `Tcp`, `NetWait` and `LineEditor`
that a run checks has a theorem. Model-checked only:

* `ReadyTasksRun` of `Scheduler`: liveness and fairness are out of the prover's reach.
* `ChainsApart`, `DirsSound`, `Delivered` and `OthersKept` of `Fat`. They speak of the volume after
  the rest of a plan, whatever part of it is made, so that an invariant has to say what every
  suffix of every plan will do to the chains; plans are folds over the caller's data and over the
  chain to be freed, and what a fold computes for every input is an induction over data, for which
  none of the installed provers can use the library's theorems. The invariant would also need the path
  look-up of `Delivered` and `OthersKept`, a recursion through the volume as it changes.
* `ShownAsLaidOut` of `TextEditor`: it compares two computations of the layout of a text, one by the walks of
  `editor_render` and one by positions, an induction over the text.
* `LoopsEnclose` and `MeansWhatItSays` of `BasicMeaning`, and `ToolsAgree`, `LineMeans` and `RunsAsNested` of
  `ShellMeaning`: each compares a machine with what a program, a text or a script says as a whole, which
  is an induction over that text; and the references, and the expressions of `Basic`, are RECURSIVE
  operators, with which the prover loses its SMT backend.

The proofs modules whose components search or loop begin with the facts they need for it: a set of naturals
that is not empty has a least element (`LeastExists`), and a function defined by iteration exists
(`IterExists`), so that its equation may be used.

## 5. Plan

What is left, in this order. Parameters stay CONSTANTS with named assumptions, an action an
operation, and no RECURSIVE operator comes into a module to be proved about.

1. Theorems: the chains of `Fat` (`ChainsApart`), which are lists as those of `RamFs` are, once the
   plans of `Fill` and `FreeChain` are written as steps and not as folds.
2. `Nic`: receive and transmit rings of the network card, interrupt and poll. Descriptors are
   owned by one side, every frame is delivered once and in order; abstractly a bounded queue.
3. Boot `autorun` with its stages and its delay over `Script`, and the keyboard queue between the
   interrupt handler and `terminal_poll`.
4. The frame allocator's scan and mark as two steps, if a use of it outside `exec` needs them.

## 6. Not modelled

Page flags, huge pages but for the identity mapping (`ident`), the contents of images, symbols; formatting of
listings and messages; device registers; names and paths character by character;
`kmalloc`. Stack allocation failure in `task_create` is left out of `Scheduler`.
Interleaved file-system and allocator calls of two tasks are listed as hazards
without a property.

Of the terminal: the desktop and the games are drawing; the commands that show system state
(`ps`, `pci`, `netinfo`, `hexdump`, ...) only read; prompts, line numbers and trace output of
scripts are left out; file commands are modelled with the file systems (`RamFs`, `Fat`). `autorun`
and the keyboard queue are not modelled yet. Of BASIC: LIST's output, the limits on lines and on
line length. The USB stack, the ATA port protocol, screen, framebuffer,
serial port and mouse are device input and output; boot code is straight-line; the user library runs
outside the kernel.
