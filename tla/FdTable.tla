------------------------------- MODULE FdTable -------------------------------
(***************************************************************************)
(* The file descriptors and pipes of a user program: open, close, lseek,   *)
(* read, write, pipe, poll and the cleanup at the program's end, of        *)
(* kernel/syscall.c.                                                       *)
(*                                                                         *)
(* System calls run with interrupts disabled and nothing else runs while a *)
(* program does: every call is one step, and the files a program can name  *)
(* do not change under it.  A call that touches user memory may find a     *)
(* page that is not mapped after some of its bytes.                        *)
(***************************************************************************)
EXTENDS Integers, Sequences, FiniteSets

CONSTANTS
    FdMax,    \* SYSCALL_FD_MAX
    PipeMax,  \* PIPE_MAX
    BufSize,  \* PIPE_BUF_SIZE
    Bytes,    \* what a byte may be
    Files,    \* the regular files a program can open
    Size,     \* their sizes
    MaxCount, \* bound: the largest count or offset a program asks for
    MaxPos    \* bound: the largest file position followed

ASSUME FdAssumption ==
    /\ FdMax \in Nat /\ PipeMax \in Nat /\ BufSize \in Nat \ {0}
    /\ MaxCount \in Nat /\ MaxPos \in Nat
    /\ Size \in [Files -> Nat]
    /\ 0 \in Bytes

Fds == 0 .. FdMax - 1
PipeIds == 0 .. PipeMax - 1
NoPipe == -1
NoFile == "none"
Kinds == {"none", "file", "read", "write"}
Offsets == -MaxCount .. MaxCount

VARIABLES
    type,   \* syscall_fds[].type
    pos,    \* syscall_fds[].pos
    path,   \* syscall_fds[].path
    pidx,   \* syscall_fds[].pipe_idx
    ropen,  \* pipes[].read_open
    wopen,  \* pipes[].write_open
    head,   \* pipes[].head
    count,  \* pipes[].count
    data,   \* pipes[].data
    got     \* the bytes the last call delivered from a pipe

fds == <<type, pos, path, pidx>>
pipes == <<ropen, wopen, head, count, data>>
vars == <<type, pos, path, pidx, ropen, wopen, head, count, data, got>>

Lowest(S) == CHOOSE x \in S : \A y \in S : x <= y
FreeFds == {f \in Fds : type[f] = "none"}
FreePipes == {p \in PipeIds : ~ropen[p] /\ ~wopen[p]}
Least(a, b) == IF a <= b THEN a ELSE b

-----------------------------------------------------------------------------
(* Files.                                                                  *)

(* syscall_open_user: the first free slot.                                 *)
Open(f) ==
    /\ FreeFds # {}
    /\ LET s == Lowest(FreeFds) IN
         /\ type' = [type EXCEPT ![s] = "file"]
         /\ pos' = [pos EXCEPT ![s] = 0]
         /\ pidx' = [pidx EXCEPT ![s] = NoPipe]
         /\ path' = [path EXCEPT ![s] = f]
    /\ got' = <<>>
    /\ UNCHANGED pipes

(* The new position of an lseek: a negative offset must not reach below 0. *)
SeekFrom(base, offset) == IF offset < 0 /\ -offset > base THEN {} ELSE {base + offset}

(* syscall_lseek_fd: from the start, from the position, from the end.      *)
Lseek(s, offset) ==
    /\ type[s] = "file"
    /\ \E base \in {0, pos[s], Size[path[s]]} : \E n \in SeekFrom(base, offset) :
         /\ n <= MaxPos
         /\ pos' = [pos EXCEPT ![s] = n]
    /\ got' = <<>>
    /\ UNCHANGED <<type, path, pidx, pipes>>

(* syscall_read_fd of a file: the position moves by what was copied out,   *)
(* and not at all when the copy meets an unmapped page.                    *)
ReadFile(s, n) ==
    /\ type[s] = "file"
    /\ pos[s] < Size[path[s]]
    /\ pos' = [pos EXCEPT ![s] = @ + Least(n, Size[path[s]] - @)]
    /\ got' = <<>>
    /\ UNCHANGED <<type, path, pidx, pipes>>

-----------------------------------------------------------------------------
(* Pipes.                                                                  *)

Slot(p, i) == (head[p] + i) % BufSize      \* where byte i of the queue lies

(* The queue that a pipe's ring buffer holds.                              *)
Queue(p) == [i \in 1 .. count[p] |-> data[p][Slot(p, i - 1)]]

(* syscall_do_pipe: the first pipe with both ends closed and the first two *)
(* free slots.  If the two numbers cannot be copied out, the slots and the *)
(* ends are given back.                                                    *)
Pipe(fault) ==
    LET p == Lowest(FreePipes)
        r == Lowest(FreeFds)
        w == Lowest(FreeFds \ {r})
    IN  /\ FreePipes # {} /\ Cardinality(FreeFds) >= 2
        /\ head' = [head EXCEPT ![p] = 0]
        /\ count' = [count EXCEPT ![p] = 0]
        /\ pidx' = [pidx EXCEPT ![r] = p, ![w] = p]
        /\ pos' = [pos EXCEPT ![r] = 0, ![w] = 0]
        /\ path' = [path EXCEPT ![r] = NoFile, ![w] = NoFile]
        /\ IF fault
           THEN UNCHANGED <<type, ropen, wopen>>
           ELSE /\ type' = [type EXCEPT ![r] = "read", ![w] = "write"]
                /\ ropen' = [ropen EXCEPT ![p] = TRUE]
                /\ wopen' = [wopen EXCEPT ![p] = TRUE]
        /\ got' = <<>>
        /\ UNCHANGED data

(* syscall_read_fd of a pipe's read end.                                   *)
ReadPipe(s, n) ==
    LET p == pidx[s]
        take == Least(n, count[p])
    IN  /\ type[s] = "read"
        /\ take > 0
        /\ got' = SubSeq(Queue(p), 1, take)
        /\ head' = [head EXCEPT ![p] = Slot(p, take)]
        /\ count' = [count EXCEPT ![p] = @ - take]
        /\ UNCHANGED <<fds, ropen, wopen, data>>

(* The ring buffer of p with the first n bytes of s put behind its queue.  *)
Put(p, s, n) ==
    [i \in 0 .. BufSize - 1 |->
       LET K == {k \in 1 .. n : Slot(p, count[p] + k - 1) = i}
       IN  IF K = {} THEN data[p][i] ELSE s[CHOOSE k \in K : TRUE]]

(* Mutant: the space left is not computed.                                 *)
WritePipeOverrun(s, b, ok) ==
    LET p == pidx[s]
        take == Len(b)
    IN  /\ type[s] = "write"
        /\ ropen[p]
        /\ take > 0 /\ ok <= take
        /\ data' = [data EXCEPT ![p] = Put(p, b, ok)]
        /\ count' = [count EXCEPT ![p] = Least(BufSize, IF ok = take THEN @ + take ELSE @)]
        /\ got' = <<>>
        /\ UNCHANGED <<fds, ropen, wopen, head>>

(* syscall_write_fd to a pipe's write end: as many bytes as there is space *)
(* for, none without a reader.  ok is the number of bytes before the first *)
(* unmapped one: those reach the buffer, but count moves only when all do. *)
WritePipe(s, b, ok) ==
    LET p == pidx[s]
        take == Least(Len(b), BufSize - count[p])
    IN  /\ type[s] = "write"
        /\ ropen[p]
        /\ take > 0 /\ ok <= take
        /\ data' = [data EXCEPT ![p] = Put(p, b, ok)]
        /\ count' = [count EXCEPT ![p] = IF ok = take THEN @ + take ELSE @]
        /\ got' = <<>>
        /\ UNCHANGED <<fds, ropen, wopen, head>>

-----------------------------------------------------------------------------
(* Closing.                                                                *)

(* Mutant: the end that the descriptor names stays open.                   *)
ReleaseKeepsPipe(D) ==
    /\ type' = [s \in Fds |-> IF s \in D THEN "none" ELSE type[s]]
    /\ pos' = [s \in Fds |-> IF s \in D THEN 0 ELSE pos[s]]
    /\ pidx' = [s \in Fds |-> IF s \in D THEN NoPipe ELSE pidx[s]]
    /\ path' = [s \in Fds |-> IF s \in D THEN NoFile ELSE path[s]]
    /\ got' = <<>>
    /\ UNCHANGED pipes

(* The slots of D are given back, with the pipe ends they name.            *)
Release(D) ==
    /\ type' = [s \in Fds |-> IF s \in D THEN "none" ELSE type[s]]
    /\ pos' = [s \in Fds |-> IF s \in D THEN 0 ELSE pos[s]]
    /\ pidx' = [s \in Fds |-> IF s \in D THEN NoPipe ELSE pidx[s]]
    /\ path' = [s \in Fds |-> IF s \in D THEN NoFile ELSE path[s]]
    /\ ropen' = [p \in PipeIds |->
                   ropen[p] /\ ~\E s \in D : type[s] = "read" /\ pidx[s] = p]
    /\ wopen' = [p \in PipeIds |->
                   wopen[p] /\ ~\E s \in D : type[s] = "write" /\ pidx[s] = p]
    /\ got' = <<>>
    /\ UNCHANGED <<head, count, data>>

(* syscall_close_fd *)
Close(s) == type[s] # "none" /\ Release({s})

(* syscall_fd_cleanup, when the program has ended; another one follows.    *)
Cleanup == Release({s \in Fds : type[s] # "none"})

(* syscall_do_poll and every call that fails change nothing.               *)
NoEffect == got' = <<>> /\ UNCHANGED <<fds, pipes>>

-----------------------------------------------------------------------------
Init ==
    /\ type = [s \in Fds |-> "none"]
    /\ pos = [s \in Fds |-> 0]
    /\ path = [s \in Fds |-> NoFile]
    /\ pidx = [s \in Fds |-> 0]
    /\ ropen = [p \in PipeIds |-> FALSE]
    /\ wopen = [p \in PipeIds |-> FALSE]
    /\ head = [p \in PipeIds |-> 0]
    /\ count = [p \in PipeIds |-> 0]
    /\ data = [p \in PipeIds |-> [i \in 0 .. BufSize - 1 |-> 0]]
    /\ got = <<>>

Chunks == UNION {[1 .. n -> Bytes] : n \in 1 .. MaxCount}

Next ==
    \/ \E f \in Files : Open(f)
    \/ \E fault \in BOOLEAN : Pipe(fault)
    \/ \E s \in Fds :
         \/ Close(s)
         \/ \E offset \in Offsets : Lseek(s, offset)
         \/ \E n \in 1 .. MaxCount : ReadFile(s, n) \/ ReadPipe(s, n)
         \/ \E b \in Chunks : \E ok \in 0 .. Len(b) : WritePipe(s, b, ok)
    \/ Cleanup
    \/ NoEffect

Spec == Init /\ [][Next]_vars

-----------------------------------------------------------------------------
(* Properties.                                                             *)

(* Types, a part of EndsHeld: a position is never negative                 *)
(* (syscall_lseek_fd's checks of a negative offset) and a pipe never holds *)
(* more than its buffer.                                                   *)
TypeOK ==
    /\ type \in [Fds -> Kinds]
    /\ pos \in [Fds -> Nat]
    /\ path \in [Fds -> Files \cup {NoFile}]
    /\ pidx \in [Fds -> PipeIds \cup {NoPipe, 0}]
    /\ ropen \in [PipeIds -> BOOLEAN] /\ wopen \in [PipeIds -> BOOLEAN]
    /\ head \in [PipeIds -> 0 .. BufSize - 1]
    /\ count \in [PipeIds -> 0 .. BufSize]
    /\ data \in [PipeIds -> [0 .. BufSize - 1 -> Bytes]]
    /\ got \in Seq(Bytes)

(* An end of a pipe is open exactly while one descriptor, and only one,    *)
(* names it: no pipe leaks when pipe() unwinds, when its two ends close in *)
(* any order or when the program ends, and none is closed under a          *)
(* descriptor that still uses it.                                          *)
Holders(p, k) == {s \in Fds : type[s] = k /\ pidx[s] = p}
EndsHeld ==
    TypeOK /\ \A p \in PipeIds :
      /\ ropen[p] <=> Holders(p, "read") # {}
      /\ wopen[p] <=> Holders(p, "write") # {}
      /\ \A k \in {"read", "write"} : \A s, t \in Holders(p, k) : s = t

(* The ring buffer, the descriptors and the partial copies implement       *)
(* bounded first-in first-out pipes: no byte is lost, repeated, reordered  *)
(* or delivered from an earlier use of the buffer.                         *)
Abstract == INSTANCE Pipes WITH
    Capacity <- BufSize,
    queue <- [p \in PipeIds |-> IF ropen[p] \/ wopen[p] THEN Queue(p) ELSE <<>>],
    reader <- ropen,
    writer <- wopen
PipesImplemented == Abstract!Spec

=============================================================================
