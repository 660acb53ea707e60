-------------------------------- MODULE Pipes --------------------------------
(***************************************************************************)
(* What the pipe system calls promise a user program: a pipe is a bounded  *)
(* queue of bytes between a write end and a read end.                      *)
(***************************************************************************)
EXTENDS Integers, Sequences

CONSTANTS
    PipeIds,  \* the pipes
    Bytes,    \* what a byte may be
    Capacity  \* bytes a pipe holds

VARIABLES
    queue,    \* the bytes in each pipe, oldest first
    reader,   \* the read end is open
    writer,   \* the write end is open
    got       \* the bytes that the last call delivered

vars == <<queue, reader, writer, got>>

Init ==
    /\ queue = [p \in PipeIds |-> <<>>]
    /\ reader = [p \in PipeIds |-> FALSE]
    /\ writer = [p \in PipeIds |-> FALSE]
    /\ got = <<>>

(* A pipe that nobody holds becomes an empty one with both ends open.      *)
Create(p) ==
    /\ ~reader[p] /\ ~writer[p]
    /\ queue' = [queue EXCEPT ![p] = <<>>]
    /\ reader' = [reader EXCEPT ![p] = TRUE]
    /\ writer' = [writer EXCEPT ![p] = TRUE]
    /\ got' = <<>>

(* Ends close.  What is queued stays until both have.                      *)
Close(R, W) ==
    /\ reader' = [p \in PipeIds |-> reader[p] /\ p \notin R]
    /\ writer' = [p \in PipeIds |-> writer[p] /\ p \notin W]
    /\ queue' = [p \in PipeIds |-> IF reader'[p] \/ writer'[p] THEN queue[p] ELSE <<>>]
    /\ got' = <<>>

(* Bytes go in only while somebody can read them, and only if they fit.    *)
Write(p, s) ==
    /\ reader[p] /\ writer[p]
    /\ Len(queue[p]) + Len(s) <= Capacity
    /\ queue' = [queue EXCEPT ![p] = @ \o s]
    /\ got' = <<>>
    /\ UNCHANGED <<reader, writer>>

(* The oldest n bytes come out, once.                                      *)
Read(p, n) ==
    /\ reader[p]
    /\ got' = SubSeq(queue[p], 1, n)
    /\ queue' = [queue EXCEPT ![p] = SubSeq(@, n + 1, Len(@))]
    /\ UNCHANGED <<reader, writer>>

(* A call that concerns no pipe, or that fails.                            *)
Other == got' = <<>> /\ UNCHANGED <<queue, reader, writer>>

Chunks == UNION {[1 .. n -> Bytes] : n \in 1 .. Capacity}

Next ==
    \/ \E p \in PipeIds : Create(p)
    \/ \E R, W \in SUBSET PipeIds : Close(R, W)
    \/ \E p \in PipeIds, s \in Chunks : Write(p, s)
    \/ \E p \in PipeIds : \E n \in 1 .. Len(queue[p]) : Read(p, n)
    \/ Other

Spec == Init /\ [][Next]_vars

=============================================================================
