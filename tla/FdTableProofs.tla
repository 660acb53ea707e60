--------------------------- MODULE FdTableProofs ---------------------------
(***************************************************************************)
(* Theorems about FdTable, for every number of descriptors and pipes and   *)
(* every buffer size: each open end of a pipe has its one descriptor, and  *)
(* the ring buffers implement the first-in first-out pipes of Pipes.       *)
(***************************************************************************)
EXTENDS FdTable, FiniteSetTheorems, SequenceTheorems, WellFoundedInduction, TLAPS

-----------------------------------------------------------------------------
(* Searches.                                                               *)

(* The first descriptor or pipe that is not in use: a search from 0        *)
(* upwards that has something to find ends at a first one.                 *)
LEMMA LeastExists ==
    ASSUME NEW S, S \subseteq Nat, S # {}
    PROVE  \E k \in S : \A j \in S : k <= j
<1> DEFINE Less == {ss \in Nat \X Nat : ss[1] < ss[2]}
<1>1. PICK k \in S : \A j \in S : ~(<<j, k>> \in Less)
  <2>1. IsWellFoundedOn(Less, Nat)
    BY NatLessThanWellFounded DEF OpToRel
  <2> QED BY <2>1, WFMin
<1>2. \A i, j \in Nat : i < j => <<i, j>> \in Less
  OBVIOUS
<1>3. \A j \in S : ~(j < k)
  BY <1>1, <1>2
<1> QED BY <1>3

-----------------------------------------------------------------------------
(* The inductive invariant.                                                *)

(* A descriptor of a pipe names one, a descriptor of a file has its file.  *)
NamesInv ==
    \A s \in Fds :
      /\ type[s] \in {"read", "write"} => pidx[s] \in PipeIds
      /\ type[s] = "file" => path[s] \in Files

IInv == EndsHeld /\ NamesInv

-----------------------------------------------------------------------------
(* Offsets in the ring buffer.                                             *)

(* The buffer has room for at least one byte.                              *)
LEMMA BufPositive == BufSize \in Nat \ {0}
BY FdAssumption

(* Every slot is one of the buffer.                                        *)
LEMMA ModInBuf ==
    ASSUME NEW x \in Nat
    PROVE  x % BufSize \in 0 .. BufSize - 1
BY BufPositive

(* Moving the head by t and looking j further is looking t + j further.    *)
LEMMA ModMoved ==
    ASSUME NEW h \in 0 .. BufSize - 1, NEW t \in 0 .. BufSize,
           NEW j \in 0 .. BufSize, t + j <= BufSize
    PROVE  (((h + t) % BufSize) + j) % BufSize = (h + (t + j)) % BufSize
BY BufPositive

(* Two offsets of one lap are two slots.                                   *)
LEMMA ModApart ==
    ASSUME NEW h \in 0 .. BufSize - 1,
           NEW i \in 0 .. BufSize - 1, NEW j \in 0 .. BufSize - 1,
           (h + i) % BufSize = (h + j) % BufSize
    PROVE  i = j
BY BufPositive

-----------------------------------------------------------------------------
(* Lemmas about single definitions.                                        *)

(* A search over a set of slots that is not empty finds one of them.       *)
LEMMA LowestIn ==
    ASSUME NEW S, S \subseteq Nat, S # {}
    PROVE  Lowest(S) \in S
BY LeastExists DEF Lowest

(* The smaller of two numbers is one of the two and exceeds neither.       *)
LEMMA LeastIs ==
    ASSUME NEW a \in Int, NEW b \in Int
    PROVE  /\ Least(a, b) \in Int
           /\ Least(a, b) <= a /\ Least(a, b) <= b
           /\ Least(a, b) \in {a, b}
BY DEF Least

(* Offsets up to the buffer size lie in the buffer.                        *)
LEMMA SlotIn ==
    ASSUME TypeOK, NEW p \in PipeIds, NEW i \in Nat
    PROVE  Slot(p, i) \in 0 .. BufSize - 1
<1>1. head[p] \in 0 .. BufSize - 1
  BY DEF TypeOK
<1>2. head[p] + i \in Nat
  BY <1>1, BufPositive
<1> QED BY <1>2, ModInBuf DEF Slot

(* What pipe() allocates: a pipe of which both ends are closed, and two    *)
(* descriptors, neither of them in use.                                    *)
LEMMA Allocated ==
    ASSUME FreePipes # {}, Cardinality(FreeFds) >= 2
    PROVE  /\ Lowest(FreePipes) \in FreePipes
           /\ Lowest(FreeFds) \in FreeFds
           /\ Lowest(FreeFds \ {Lowest(FreeFds)}) \in FreeFds \ {Lowest(FreeFds)}
<1> DEFINE r == Lowest(FreeFds)
<1>1. FreePipes \subseteq Nat /\ FreeFds \subseteq Nat
  BY FdAssumption DEF FreePipes, FreeFds, PipeIds, Fds
<1>2. FreeFds # {}
  BY FS_EmptySet
<1>3. r \in FreeFds
  BY <1>1, <1>2, LowestIn
<1>4. FreeFds \ {r} # {}
  <2>1. SUFFICES ASSUME FreeFds = {r} PROVE FALSE
    BY <1>3
  <2>2. Cardinality({r}) = 1
    BY FS_Singleton
  <2> HIDE DEF r
  <2> QED BY <2>1, <2>2
<1>5. FreeFds \ {r} \subseteq Nat
  BY <1>1
<1> QED BY <1>1, <1>2, <1>3, <1>4, <1>5, LowestIn

-----------------------------------------------------------------------------
(* The ring buffer and the queue it holds, as functions of their contents. *)

Ring(h, c, d) == [i \in 1 .. c |-> d[(h + (i - 1)) % BufSize]]
BufOffsets == 0 .. BufSize - 1
Buffers == [BufOffsets -> Bytes]

(* A pipe's queue is what its ring buffer holds, before a step and after.  *)
LEMMA QueueIsRing ==
    ASSUME NEW p \in PipeIds
    PROVE  /\ Queue(p) = Ring(head[p], count[p], data[p])
           /\ Queue(p)' = Ring(head'[p], count'[p], data'[p])
BY DEF Queue, Slot, Ring

(* A ring's queue is a sequence of bytes, as long as the count says.       *)
LEMMA RingIs ==
    ASSUME NEW h \in BufOffsets, NEW c \in 0 .. BufSize, NEW d \in Buffers
    PROVE  /\ Ring(h, c, d) \in Seq(Bytes)
           /\ Len(Ring(h, c, d)) = c
           /\ \A i \in 1 .. c : Ring(h, c, d)[i] = d[(h + (i - 1)) % BufSize]
<1>1. c \in Nat
  BY BufPositive
<1>2. \A i \in 1 .. c : d[(h + (i - 1)) % BufSize] \in Bytes
  <2>1. \A i \in 1 .. c : h + (i - 1) \in Nat
    BY <1>1, BufPositive DEF BufOffsets
  <2> QED BY <2>1, ModInBuf DEF BufOffsets, Buffers
<1>3. Ring(h, c, d) \in [1 .. c -> Bytes]
  BY <1>2 DEF Ring
<1>4. Ring(h, c, d) \in Seq(Bytes)
  BY <1>1, <1>3, SeqDef
<1>5. Len(Ring(h, c, d)) = c
  BY <1>1, <1>3, <1>4, LenProperties
<1> QED BY <1>4, <1>5 DEF Ring

(* read() takes t bytes: the head moves on and the queue loses its first t.*)
LEMMA RingRead ==
    ASSUME NEW h \in BufOffsets, NEW c \in 0 .. BufSize, NEW d \in Buffers,
           NEW t \in 0 .. c
    PROVE  Ring((h + t) % BufSize, c - t, d) = SubSeq(Ring(h, c, d), t + 1, c)
<1> DEFINE g == (h + t) % BufSize
           after == Ring(g, c - t, d)
           rest == SubSeq(Ring(h, c, d), t + 1, c)
<1>1. c \in Nat /\ t \in Nat /\ c - t \in 0 .. BufSize /\ t <= BufSize
  BY BufPositive
<1>2. g \in BufOffsets
  BY <1>1, BufPositive, ModInBuf DEF BufOffsets
<1>3. /\ after \in Seq(Bytes) /\ Len(after) = c - t
      /\ \A i \in 1 .. c - t : after[i] = d[(g + (i - 1)) % BufSize]
  <2> HIDE DEF g
  <2> QED BY <1>1, <1>2, RingIs
<1>4. /\ rest \in Seq(Bytes) /\ Len(rest) = c - t
      /\ \A i \in 1 .. c - t : rest[i] = Ring(h, c, d)[t + i]
  <2>1. \A i \in t + 1 .. c : Ring(h, c, d)[i] \in Bytes
    BY <1>1, RingIs, ElementOfSeq
  <2>2. /\ rest \in Seq(Bytes)
        /\ Len(rest) = IF t + 1 <= c THEN c - (t + 1) + 1 ELSE 0
        /\ \A i \in 1 .. c - (t + 1) + 1 : rest[i] = Ring(h, c, d)[t + 1 + i - 1]
    BY <1>1, <2>1, SubSeqProperties
  <2> HIDE DEF rest
  <2>3. \A i \in Int : t + 1 + i - 1 = t + i
    BY <1>1
  <2>4. c - (t + 1) + 1 = c - t /\ (~(t + 1 <= c) => c - t = 0)
    BY <1>1
  <2> QED BY <1>1, <2>2, <2>3, <2>4
<1>5. \A i \in 1 .. c - t : after[i] = rest[i]
  <2> SUFFICES ASSUME NEW i \in 1 .. c - t PROVE after[i] = rest[i]
    OBVIOUS
  <2>1. i - 1 \in 0 .. BufSize /\ t + (i - 1) <= BufSize /\ t + i \in 1 .. c
    BY <1>1, BufPositive
  <2>2. (g + (i - 1)) % BufSize = (h + (t + (i - 1))) % BufSize
    BY <1>1, <2>1, ModMoved DEF BufOffsets
  <2>3. rest[i] = d[(h + (t + i - 1)) % BufSize]
    <3>1. Ring(h, c, d)[t + i] = d[(h + (t + i - 1)) % BufSize]
      BY <2>1, RingIs
    <3> HIDE DEF rest
    <3> QED BY <1>4, <3>1
  <2>4. t + (i - 1) = t + i - 1
    BY <1>1
  <2> HIDE DEF g, after, rest
  <2> QED BY <1>3, <2>2, <2>3, <2>4
<1> HIDE DEF after, rest
<1>6. after = rest
  BY <1>1, <1>3, <1>4, <1>5, SeqEqual
<1> QED BY <1>6 DEF after, rest

(* write() puts t bytes behind the queue and then counts them: the queue   *)
(* is followed by them.                                                    *)
LEMMA RingWritten ==
    ASSUME NEW h \in BufOffsets, NEW c \in 0 .. BufSize, NEW d \in Buffers,
           NEW b \in Seq(Bytes), NEW t \in 0 .. Len(b), c + t <= BufSize,
           NEW e \in Buffers,
           \A i \in 1 .. c : e[(h + (i - 1)) % BufSize] = d[(h + (i - 1)) % BufSize],
           \A k \in 1 .. t : e[(h + (c + k - 1)) % BufSize] = b[k]
    PROVE  Ring(h, c + t, e) = Ring(h, c, d) \o SubSeq(b, 1, t)
<1> DEFINE after == Ring(h, c + t, e)
           old == Ring(h, c, d)
           new == SubSeq(b, 1, t)
<1>1. c \in Nat /\ t \in Nat /\ c + t \in 0 .. BufSize /\ Len(b) \in Nat
  BY BufPositive, LenProperties
<1>2. /\ after \in Seq(Bytes) /\ Len(after) = c + t
      /\ \A i \in 1 .. c + t : after[i] = e[(h + (i - 1)) % BufSize]
  BY <1>1, RingIs
<1>3. /\ old \in Seq(Bytes) /\ Len(old) = c
      /\ \A i \in 1 .. c : old[i] = d[(h + (i - 1)) % BufSize]
  BY RingIs
<1>4. /\ new \in Seq(Bytes) /\ Len(new) = t
      /\ \A i \in 1 .. t : new[i] = b[i]
  <2>1. \A i \in 1 .. t : b[i] \in Bytes
    BY <1>1, ElementOfSeq
  <2>2. /\ new \in Seq(Bytes) /\ Len(new) = IF 1 <= t THEN t - 1 + 1 ELSE 0
        /\ \A i \in 1 .. t - 1 + 1 : new[i] = b[1 + i - 1]
    BY <1>1, <2>1, SubSeqProperties
  <2> HIDE DEF new
  <2>3. t - 1 + 1 = t /\ (~(1 <= t) => t = 0) /\ \A i \in Int : 1 + i - 1 = i
    BY <1>1
  <2>4. Len(new) = t
    BY <2>2, <2>3
  <2>5. \A i \in 1 .. t : new[i] = b[i]
    BY <1>1, <2>2, <2>3
  <2> QED BY <2>2, <2>4, <2>5
<1> DEFINE both == old \o new
<1> HIDE DEF after, old, new
<1>5. /\ both \in Seq(Bytes) /\ Len(both) = c + t
      /\ \A i \in 1 .. c + t : both[i] = IF i <= c THEN old[i] ELSE new[i - c]
  <2>1. /\ both \in Seq(Bytes) /\ Len(both) = Len(old) + Len(new)
        /\ \A i \in 1 .. Len(old) + Len(new) :
             both[i] = IF i <= Len(old) THEN old[i] ELSE new[i - Len(old)]
    <3>1. old \in Seq(Bytes) /\ new \in Seq(Bytes)
      BY <1>3, <1>4
    <3> QED BY <3>1, ConcatProperties
  <2>2. Len(old) = c /\ Len(new) = t
    BY <1>3, <1>4
  <2> HIDE DEF both
  <2> QED BY <2>1, <2>2
<1> HIDE DEF both
<1>6. \A i \in 1 .. c + t : after[i] = both[i]
  <2> SUFFICES ASSUME NEW i \in 1 .. c + t PROVE after[i] = both[i]
    OBVIOUS
  <2>1. CASE i <= c
    <3>1. i \in 1 .. c
      BY <1>1, <2>1
    <3>2. both[i] = old[i]
      BY <1>5, <2>1
    <3> QED BY <1>2, <1>3, <3>1, <3>2
  <2>2. CASE i > c
    <3>1. i - c \in 1 .. t /\ c + (i - c) - 1 = i - 1 /\ ~(i <= c)
      BY <1>1, <2>2
    <3>2. e[(h + (i - 1)) % BufSize] = b[i - c]
      BY <3>1
    <3>3. both[i] = new[i - c]
      BY <1>5, <3>1
    <3> QED BY <1>2, <1>4, <3>1, <3>2, <3>3
  <2> QED BY <1>1, <2>1, <2>2
<1>7. after = both
  BY <1>2, <1>5, <1>6, SeqEqual
<1> QED BY <1>7 DEF after, both, old, new

(* Bytes put behind the queue reach their slots and leave the queue alone. *)
LEMMA PutIs ==
    ASSUME TypeOK, NEW p \in PipeIds, NEW b \in Seq(Bytes), NEW n \in 0 .. Len(b),
           count[p] + n <= BufSize
    PROVE  /\ Put(p, b, n) \in Buffers
           /\ \A k \in 1 .. n :
                Put(p, b, n)[(head[p] + (count[p] + k - 1)) % BufSize] = b[k]
           /\ \A i \in 1 .. count[p] :
                LET o == (head[p] + (i - 1)) % BufSize
                IN  Put(p, b, n)[o] = data[p][o]
<1> DEFINE K(i) == {k \in 1 .. n : Slot(p, count[p] + k - 1) = i}
           c == count[p]
           h == head[p]
<1>1. /\ c \in 0 .. BufSize /\ h \in BufOffsets /\ data[p] \in Buffers
      /\ n \in Nat /\ Len(b) \in Nat /\ c + n <= BufSize
  BY LenProperties DEF TypeOK, BufOffsets, Buffers
<1>2. \A i \in BufOffsets :
        Put(p, b, n)[i] = IF K(i) = {} THEN data[p][i] ELSE b[CHOOSE k \in K(i) : TRUE]
  BY DEF Put, BufOffsets
<1>3. Put(p, b, n) \in Buffers
  <2>1. \A k \in 1 .. n : b[k] \in Bytes
    BY <1>1, ElementOfSeq
  <2>2. \A i \in BufOffsets : K(i) # {} => (CHOOSE k \in K(i) : TRUE) \in 1 .. n
    OBVIOUS
  <2>3. \A i \in BufOffsets : Put(p, b, n)[i] \in Bytes
    <3> HIDE DEF K
    <3> QED BY <1>1, <1>2, <2>1, <2>2 DEF Buffers
  <2>4. Put(p, b, n) = [i \in BufOffsets |-> Put(p, b, n)[i]]
    BY DEF Put, BufOffsets
  <2> DEFINE P == Put(p, b, n)
  <2>5. P = [i \in BufOffsets |-> P[i]] /\ \A i \in BufOffsets : P[i] \in Bytes
    BY <2>3, <2>4
  <2> HIDE DEF P
  <2>6. P \in [BufOffsets -> Bytes]
    BY <2>5
  <2> QED BY <2>6 DEF P, Buffers
<1>4. \A k \in 1 .. n : c + k - 1 \in BufOffsets /\ (h + (c + k - 1)) % BufSize \in BufOffsets
  <2> SUFFICES ASSUME NEW k \in 1 .. n
               PROVE  c + k - 1 \in BufOffsets /\ (h + (c + k - 1)) % BufSize \in BufOffsets
    OBVIOUS
  <2>1. c + k - 1 \in BufOffsets
    BY <1>1, BufPositive DEF BufOffsets
  <2>2. PICK x \in Nat : x = h + (c + k - 1)
    BY <1>1, BufPositive, <2>1 DEF BufOffsets
  <2>3. x % BufSize \in BufOffsets
    BY ModInBuf DEF BufOffsets
  <2> QED BY <2>1, <2>2, <2>3
<1>5. ASSUME NEW k \in 1 .. n
      PROVE  Put(p, b, n)[(h + (c + k - 1)) % BufSize] = b[k]
  <2> DEFINE o == (h + (c + k - 1)) % BufSize
  <2>1. o \in BufOffsets
    BY <1>4
  <2>2. \A j \in K(o) : j = k
    <3> SUFFICES ASSUME NEW j \in K(o) PROVE j = k
      OBVIOUS
    <3>1. j \in 1 .. n /\ (h + (c + j - 1)) % BufSize = o
      BY DEF Slot
    <3>2. c + j - 1 \in BufOffsets /\ c + k - 1 \in BufOffsets
      BY <1>4, <3>1
    <3>3. c + j - 1 = c + k - 1
      BY <1>1, <3>1, <3>2, ModApart DEF BufOffsets
    <3> QED BY <1>1, <3>1, <3>3
  <2>3. k \in K(o)
    BY DEF Slot
  <2>4. (CHOOSE j \in K(o) : TRUE) \in K(o)
    BY <2>3
  <2> HIDE DEF K, o
  <2>5. Put(p, b, n)[o] = b[k]
    BY <1>2, <2>1, <2>2, <2>3, <2>4
  <2> QED BY <2>5 DEF o
<1>6. ASSUME NEW i \in 1 .. c
      PROVE  Put(p, b, n)[(h + (i - 1)) % BufSize] = data[p][(h + (i - 1)) % BufSize]
  <2> DEFINE o == (h + (i - 1)) % BufSize
  <2>1. i - 1 \in BufOffsets /\ o \in BufOffsets
    <3>1. i - 1 \in BufOffsets /\ h + (i - 1) \in Nat
      BY <1>1, BufPositive DEF BufOffsets
    <3> QED BY <3>1, ModInBuf DEF BufOffsets
  <2>2. K(o) = {}
    <3> SUFFICES ASSUME NEW j \in K(o) PROVE FALSE
      OBVIOUS
    <3>1. j \in 1 .. n /\ (h + (c + j - 1)) % BufSize = o
      BY DEF Slot
    <3>2. c + j - 1 = i - 1
      BY <1>1, <1>4, <2>1, <3>1, ModApart DEF BufOffsets
    <3> QED BY <1>1, <3>1, <3>2
  <2> HIDE DEF K, o
  <2>3. Put(p, b, n)[o] = data[p][o]
    BY <1>2, <2>1, <2>2
  <2> QED BY <2>3 DEF o
<1> QED BY <1>3, <1>5, <1>6

-----------------------------------------------------------------------------
(* The invariant holds at the start and every step keeps it.               *)

(* The initial tables: nothing is open.                                    *)
LEMMA InitIInv == Init => IInv
<1> SUFFICES ASSUME Init PROVE IInv
  OBVIOUS
<1>1. 0 \in 0 .. BufSize - 1 /\ 0 \in 0 .. BufSize /\ 0 \in Bytes
  BY BufPositive, FdAssumption
<1>2. got \in Seq(Bytes)
  BY EmptySeq DEF Init
<1>3. TypeOK
  BY <1>1, <1>2 DEF Init, TypeOK, Kinds
<1>4. \A p \in PipeIds, k \in {"read", "write"} : Holders(p, k) = {}
  BY DEF Init, Holders
<1>5. EndsHeld
  BY <1>3, <1>4 DEF Init, EndsHeld
<1>6. NamesInv
  BY DEF Init, NamesInv
<1> QED BY <1>5, <1>6 DEF IInv

(* A call that leaves the descriptors' kinds and pipes and the ends as     *)
(* they are keeps each end with its descriptor.                            *)
LEMMA EndsStay ==
    ASSUME EndsHeld, TypeOK', UNCHANGED <<type, pidx, ropen, wopen>>
    PROVE  EndsHeld'
<1>1. \A p \in PipeIds, k \in {"read", "write"} : Holders(p, k)' = Holders(p, k)
  BY DEF Holders
<1> QED BY <1>1 DEF EndsHeld

(* open() puts a file on a free descriptor.                                *)
LEMMA OpenKeeps ==
    ASSUME IInv, NEW f \in Files, Open(f)
    PROVE  IInv'
<1> DEFINE s == Lowest(FreeFds)
<1>1. s \in Fds /\ type[s] = "none"
  <2>1. FreeFds \subseteq Nat /\ FreeFds # {}
    BY FdAssumption DEF Open, FreeFds, Fds
  <2> QED BY <2>1, LowestIn DEF FreeFds
<1> HIDE DEF s
<1>2. /\ type' = [type EXCEPT ![s] = "file"]
      /\ pos' = [pos EXCEPT ![s] = 0]
      /\ pidx' = [pidx EXCEPT ![s] = NoPipe]
      /\ path' = [path EXCEPT ![s] = f]
      /\ got' = <<>> /\ UNCHANGED pipes
  BY DEF Open, s
<1>3. TypeOK /\ got' \in Seq(Bytes)
  BY <1>2, EmptySeq DEF IInv, EndsHeld
<1>4. TypeOK'
  BY <1>1, <1>2, <1>3 DEF TypeOK, Kinds, pipes
<1>5. \A p \in PipeIds, k \in {"read", "write"} : Holders(p, k)' = Holders(p, k)
  BY <1>1, <1>2, <1>3 DEF Holders, TypeOK
<1>6. EndsHeld'
  BY <1>2, <1>4, <1>5 DEF IInv, EndsHeld, pipes
<1>7. NamesInv'
  BY <1>1, <1>2, <1>3 DEF IInv, NamesInv, TypeOK
<1> QED BY <1>6, <1>7 DEF IInv

(* lseek() and read() of a file move a position, never below 0.            *)
LEMMA LseekKeeps ==
    ASSUME IInv, NEW s \in Fds, NEW offset \in Offsets, Lseek(s, offset)
    PROVE  IInv'
<1>1. TypeOK /\ got' \in Seq(Bytes)
  BY EmptySeq DEF IInv, EndsHeld, Lseek
<1>2. PICK base \in {0, pos[s], Size[path[s]]} : \E n \in SeekFrom(base, offset) :
        pos' = [pos EXCEPT ![s] = n]
  BY DEF Lseek
<1>3. base \in Nat
  <2>1. Size[path[s]] \in Nat
    BY FdAssumption DEF IInv, NamesInv, Lseek
  <2> QED BY <1>1, <2>1 DEF TypeOK
<1>4. PICK n \in SeekFrom(base, offset) : pos' = [pos EXCEPT ![s] = n]
  BY <1>2
<1>5. n \in Nat
  <2>1. offset \in Int
    BY FdAssumption DEF Offsets
  <2> QED BY <1>3, <1>4, <2>1 DEF SeekFrom
<1>6. UNCHANGED <<type, path, pidx, ropen, wopen, head, count, data>>
  BY DEF Lseek, pipes
<1>7. TypeOK'
  BY <1>1, <1>4, <1>5, <1>6 DEF TypeOK
<1>8. EndsHeld'
  BY <1>6, <1>7, EndsStay DEF IInv
<1>9. NamesInv'
  BY <1>6 DEF IInv, NamesInv
<1> QED BY <1>8, <1>9 DEF IInv

(* read() of a file moves the position by what it copied.                  *)
LEMMA ReadFileKeeps ==
    ASSUME IInv, NEW s \in Fds, NEW n \in 1 .. MaxCount, ReadFile(s, n)
    PROVE  IInv'
<1>1. TypeOK /\ got' \in Seq(Bytes)
  BY EmptySeq DEF IInv, EndsHeld, ReadFile
<1>2. Size[path[s]] \in Nat /\ pos[s] \in Nat /\ n \in Nat
  BY <1>1, FdAssumption DEF IInv, NamesInv, ReadFile, TypeOK
<1>3. pos[s] + Least(n, Size[path[s]] - pos[s]) \in Nat
  BY <1>2 DEF Least, ReadFile
<1>4. /\ pos' = [pos EXCEPT ![s] = pos[s] + Least(n, Size[path[s]] - pos[s])]
      /\ UNCHANGED <<type, path, pidx, ropen, wopen, head, count, data>>
  BY DEF ReadFile, pipes
<1>5. TypeOK'
  BY <1>1, <1>3, <1>4 DEF TypeOK
<1>6. EndsHeld'
  BY <1>4, <1>5, EndsStay DEF IInv
<1>7. NamesInv'
  BY <1>4 DEF IInv, NamesInv
<1> QED BY <1>6, <1>7 DEF IInv

(* pipe() gives each end of a free pipe one free descriptor; when the      *)
(* numbers cannot be copied out, the descriptors stay free and the ends    *)
(* closed.                                                                 *)
LEMMA PipeKeeps ==
    ASSUME IInv, NEW fault \in BOOLEAN, Pipe(fault)
    PROVE  IInv'
<1>1. /\ Lowest(FreePipes) \in FreePipes
      /\ Lowest(FreeFds) \in FreeFds
      /\ Lowest(FreeFds \ {Lowest(FreeFds)}) \in FreeFds \ {Lowest(FreeFds)}
  BY Allocated DEF Pipe
<1>2. PICK p \in FreePipes, r \in FreeFds, w \in FreeFds :
        /\ p = Lowest(FreePipes) /\ r = Lowest(FreeFds)
        /\ w = Lowest(FreeFds \ {r}) /\ w # r
  BY <1>1
<1>3. /\ p \in PipeIds /\ ~ropen[p] /\ ~wopen[p]
      /\ r \in Fds /\ type[r] = "none"
      /\ w \in Fds /\ type[w] = "none" /\ w # r
  BY <1>2 DEF FreePipes, FreeFds
<1>4. /\ head' = [head EXCEPT ![p] = 0]
      /\ count' = [count EXCEPT ![p] = 0]
      /\ pidx' = [pidx EXCEPT ![r] = p, ![w] = p]
      /\ pos' = [pos EXCEPT ![r] = 0, ![w] = 0]
      /\ path' = [path EXCEPT ![r] = NoFile, ![w] = NoFile]
      /\ got' = <<>> /\ UNCHANGED data
  BY <1>2 DEF Pipe
<1>5. TypeOK /\ got' \in Seq(Bytes) /\ 0 \in 0 .. BufSize - 1 /\ 0 \in 0 .. BufSize
  BY <1>4, EmptySeq, BufPositive DEF IInv, EndsHeld
<1>6. ASSUME NEW q \in PipeIds
      PROVE  (ropen[q] <=> Holders(q, "read") # {}) /\ (wopen[q] <=> Holders(q, "write") # {})
  BY DEF IInv, EndsHeld
<1>7. CASE fault
  <2>1. UNCHANGED <<type, ropen, wopen>>
    BY <1>7 DEF Pipe
  <2>2. TypeOK'
    BY <1>3, <1>4, <1>5, <2>1 DEF TypeOK
  <2>3. \A q \in PipeIds, k \in {"read", "write"} : Holders(q, k)' = Holders(q, k)
    BY <1>3, <1>4, <1>5, <2>1 DEF Holders, TypeOK
  <2>4. EndsHeld'
    BY <2>1, <2>2, <2>3 DEF IInv, EndsHeld
  <2>5. NamesInv'
    BY <1>3, <1>4, <1>5, <2>1 DEF IInv, NamesInv, TypeOK
  <2> QED BY <2>4, <2>5 DEF IInv
<1>8. CASE ~fault
  <2>1. /\ type' = [type EXCEPT ![r] = "read", ![w] = "write"]
        /\ ropen' = [ropen EXCEPT ![p] = TRUE]
        /\ wopen' = [wopen EXCEPT ![p] = TRUE]
    BY <1>2, <1>8 DEF Pipe
  <2>2. TypeOK'
    BY <1>3, <1>4, <1>5, <2>1 DEF TypeOK, Kinds
  <2>3. Holders(p, "read") = {} /\ Holders(p, "write") = {}
    BY <1>3, <1>6
  <2>4. Holders(p, "read")' = {r} /\ Holders(p, "write")' = {w}
    BY <1>3, <1>4, <1>5, <2>1, <2>3 DEF Holders, TypeOK
  <2>5. ASSUME NEW q \in PipeIds, q # p, NEW k \in {"read", "write"}
        PROVE  Holders(q, k)' = Holders(q, k)
    BY <1>3, <1>4, <1>5, <2>1, <2>5 DEF Holders, TypeOK
  <2>6. ASSUME NEW q \in PipeIds
        PROVE  /\ (ropen'[q] <=> Holders(q, "read")' # {})
               /\ (wopen'[q] <=> Holders(q, "write")' # {})
               /\ \A k \in {"read", "write"} : \A s, t \in Holders(q, k)' : s = t
    <3>1. CASE q = p
      <4>1. ropen'[q] /\ wopen'[q]
        BY <1>5, <2>1, <3>1 DEF TypeOK
      <4> QED BY <2>4, <3>1, <4>1
    <3>2. CASE q # p
      <4>1. (ropen'[q] <=> ropen[q]) /\ (wopen'[q] <=> wopen[q])
        BY <1>5, <2>1, <3>2 DEF TypeOK
      <4>2. \A k \in {"read", "write"} : \A s, t \in Holders(q, k) : s = t
        BY DEF IInv, EndsHeld
      <4>3. Holders(q, "read")' = Holders(q, "read") /\ Holders(q, "write")' = Holders(q, "write")
        BY <2>5, <3>2
      <4> QED BY <1>6, <4>1, <4>2, <4>3
    <3> QED BY <3>1, <3>2
  <2>7. EndsHeld'
    BY <2>2, <2>6 DEF EndsHeld
  <2>8. NamesInv'
    BY <1>3, <1>4, <1>5, <2>1 DEF IInv, NamesInv, TypeOK
  <2> QED BY <2>7, <2>8 DEF IInv
<1> QED BY <1>7, <1>8

(* read() of a pipe moves its head and its count, both within the buffer.  *)
LEMMA ReadPipeKeeps ==
    ASSUME IInv, NEW s \in Fds, NEW n \in 1 .. MaxCount, ReadPipe(s, n)
    PROVE  IInv'
<1>1. PICK p \in PipeIds : p = pidx[s]
  BY DEF IInv, NamesInv, ReadPipe
<1>2. PICK take \in Int : take = Least(n, count[p])
  BY FdAssumption, LeastIs DEF IInv, EndsHeld, TypeOK
<1>3. /\ take > 0 /\ got' = SubSeq(Queue(p), 1, take)
      /\ head' = [head EXCEPT ![p] = Slot(p, take)]
      /\ count' = [count EXCEPT ![p] = @ - take]
      /\ UNCHANGED <<type, pos, path, pidx, ropen, wopen, data>>
  BY <1>1, <1>2 DEF ReadPipe, fds
<1>4. TypeOK /\ head[p] \in BufOffsets /\ count[p] \in 0 .. BufSize /\ data[p] \in Buffers
  BY DEF IInv, EndsHeld, TypeOK, BufOffsets, Buffers
<1>5. take \in 1 .. count[p] /\ take \in Nat /\ count[p] - take \in 0 .. BufSize
  <2>1. n \in Int /\ count[p] \in Int
    BY <1>4, BufPositive, FdAssumption
  <2>2. take <= count[p]
    BY <1>2, <2>1, LeastIs
  <2> QED BY <1>3, <1>4, <2>1, <2>2, BufPositive
<1>6. Slot(p, take) \in 0 .. BufSize - 1
  BY <1>4, <1>5, SlotIn
<1>7. got' \in Seq(Bytes)
  <2>1. \A i \in 1 .. take : Queue(p)[i] \in Bytes
    BY <1>4, <1>5, QueueIsRing, RingIs, ElementOfSeq
  <2>2. SubSeq(Queue(p), 1, take) \in Seq(Bytes)
    BY <1>5, <2>1, SubSeqProperties
  <2> QED BY <1>3, <2>2
<1>8. TypeOK'
  BY <1>3, <1>4, <1>5, <1>6, <1>7 DEF TypeOK
<1>9. EndsHeld'
  BY <1>3, <1>8, EndsStay DEF IInv
<1>10. NamesInv'
  BY <1>3 DEF IInv, NamesInv
<1> QED BY <1>9, <1>10 DEF IInv

(* What write() to a pipe does: at most as many bytes as there is room for *)
(* reach the buffer behind the queue, and all of them or none are counted. *)
LEMMA WriteStep ==
    ASSUME IInv, NEW s \in Fds, NEW b \in Chunks, NEW ok \in 0 .. Len(b),
           WritePipe(s, b, ok)
    PROVE  \E p \in PipeIds, take \in 1 .. BufSize :
             /\ p = pidx[s] /\ type[s] = "write" /\ ropen[p]
             /\ b \in Seq(Bytes) /\ take <= Len(b) /\ ok <= take
             /\ count[p] + take <= BufSize
             /\ data' = [data EXCEPT ![p] = Put(p, b, ok)]
             /\ count' = [count EXCEPT ![p] = IF ok = take THEN @ + take ELSE @]
             /\ got' = <<>>
             /\ UNCHANGED <<type, pos, path, pidx, ropen, wopen, head>>
<1>1. PICK p \in PipeIds : p = pidx[s]
  BY DEF IInv, NamesInv, WritePipe
<1>2. b \in Seq(Bytes) /\ Len(b) \in Nat
  <2>1. PICK m \in 1 .. MaxCount : b \in [1 .. m -> Bytes]
    BY DEF Chunks
  <2>2. m \in Nat
    BY FdAssumption
  <2>3. b \in Seq(Bytes)
    BY <2>1, <2>2, SeqDef
  <2> QED BY <2>3, LenProperties
<1>3. count[p] \in 0 .. BufSize
  BY DEF IInv, EndsHeld, TypeOK
<1>4. PICK room \in Int : room = BufSize - count[p]
  BY <1>3, BufPositive
<1>5. PICK take \in Int : take = Least(Len(b), room)
  BY <1>2, LeastIs
<1>6. /\ type[s] = "write" /\ ropen[p] /\ take > 0 /\ ok <= take
      /\ data' = [data EXCEPT ![p] = Put(p, b, ok)]
      /\ count' = [count EXCEPT ![p] = IF ok = take THEN @ + take ELSE @]
      /\ got' = <<>>
      /\ UNCHANGED <<type, pos, path, pidx, ropen, wopen, head>>
  BY <1>1, <1>4, <1>5 DEF WritePipe, fds
<1>7. take <= Len(b) /\ take <= room
  BY <1>2, <1>5, LeastIs
<1>8. take \in 1 .. BufSize /\ count[p] + take <= BufSize
  BY <1>3, <1>4, <1>6, <1>7, BufPositive
<1> QED BY <1>1, <1>2, <1>6, <1>7, <1>8

(* write() to a pipe never counts more than the buffer holds.              *)
LEMMA WritePipeKeeps ==
    ASSUME IInv, NEW s \in Fds, NEW b \in Chunks, NEW ok \in 0 .. Len(b),
           WritePipe(s, b, ok)
    PROVE  IInv'
<1>1. PICK p \in PipeIds, take \in 1 .. BufSize :
        /\ b \in Seq(Bytes) /\ take <= Len(b) /\ ok <= take
        /\ count[p] + take <= BufSize
        /\ data' = [data EXCEPT ![p] = Put(p, b, ok)]
        /\ count' = [count EXCEPT ![p] = IF ok = take THEN @ + take ELSE @]
        /\ got' = <<>>
        /\ UNCHANGED <<type, pos, path, pidx, ropen, wopen, head>>
  BY WriteStep
<1>2. TypeOK /\ got' \in Seq(Bytes)
  BY <1>1, EmptySeq DEF IInv, EndsHeld
<1>3. count[p] \in Nat /\ take \in Nat /\ Len(b) \in Nat
  BY <1>1, <1>2, BufPositive, LenProperties DEF TypeOK
<1>4. (IF ok = take THEN count[p] + take ELSE count[p]) \in 0 .. BufSize
  BY <1>1, <1>2, <1>3, BufPositive DEF TypeOK
<1>5. Put(p, b, ok) \in [0 .. BufSize - 1 -> Bytes]
  <2>1. count[p] + ok <= BufSize
    BY <1>1, <1>3, BufPositive
  <2> QED BY <1>1, <1>2, <2>1, PutIs DEF Buffers, BufOffsets
<1>6. TypeOK'
  BY <1>1, <1>2, <1>4, <1>5 DEF TypeOK
<1>7. EndsHeld'
  BY <1>1, <1>6, EndsStay DEF IInv
<1>8. NamesInv'
  BY <1>1 DEF IInv, NamesInv
<1> QED BY <1>7, <1>8 DEF IInv

(* close() and the cleanup at the program's end give descriptors back and  *)
(* close exactly the ends that these named.                                *)
LEMMA ReleaseKeeps ==
    ASSUME IInv, NEW D \in SUBSET Fds, Release(D)
    PROVE  IInv'
<1>1. TypeOK /\ got' \in Seq(Bytes)
  BY EmptySeq DEF IInv, EndsHeld, Release
<1>2. ASSUME NEW s \in Fds
      PROVE  /\ type'[s] = IF s \in D THEN "none" ELSE type[s]
             /\ pidx'[s] = IF s \in D THEN NoPipe ELSE pidx[s]
             /\ path'[s] = IF s \in D THEN NoFile ELSE path[s]
  BY DEF Release
<1>3. ASSUME NEW p \in PipeIds
      PROVE  /\ ropen'[p] <=> ropen[p] /\ ~\E s \in D : type[s] = "read" /\ pidx[s] = p
             /\ wopen'[p] <=> wopen[p] /\ ~\E s \in D : type[s] = "write" /\ pidx[s] = p
  BY DEF Release
<1>4. TypeOK'
  <2>1. /\ type' \in [Fds -> Kinds] /\ pidx' \in [Fds -> PipeIds \cup {NoPipe, 0}]
        /\ pos' \in [Fds -> Nat] /\ path' \in [Fds -> Files \cup {NoFile}]
    BY <1>1 DEF Release, TypeOK, Kinds
  <2>2. ropen' \in [PipeIds -> BOOLEAN] /\ wopen' \in [PipeIds -> BOOLEAN]
    BY DEF Release
  <2>3. UNCHANGED <<head, count, data>>
    BY DEF Release
  <2> QED BY <1>1, <2>1, <2>2, <2>3 DEF TypeOK
<1>5. ASSUME NEW p \in PipeIds, NEW k \in {"read", "write"}
      PROVE  Holders(p, k)' = Holders(p, k) \ D
  BY <1>2 DEF Holders
<1>6. ASSUME NEW p \in PipeIds
      PROVE  /\ (ropen'[p] <=> Holders(p, "read")' # {})
             /\ (wopen'[p] <=> Holders(p, "write")' # {})
             /\ \A k \in {"read", "write"} : \A s, t \in Holders(p, k)' : s = t
  <2>1. /\ (ropen[p] <=> Holders(p, "read") # {})
        /\ (wopen[p] <=> Holders(p, "write") # {})
        /\ \A k \in {"read", "write"} : \A s, t \in Holders(p, k) : s = t
    BY DEF IInv, EndsHeld
  <2>2. ASSUME NEW k \in {"read", "write"}
        PROVE  (Holders(p, k)' # {})
                 <=> (/\ Holders(p, k) # {}
                      /\ ~\E s \in D : type[s] = k /\ pidx[s] = p)
    <3>1. \A s \in D : type[s] = k /\ pidx[s] = p <=> s \in Holders(p, k)
      BY DEF Holders
    <3> QED BY <1>5, <2>1, <3>1
  <2> QED BY <1>3, <1>5, <2>1, <2>2
<1>7. EndsHeld'
  BY <1>4, <1>6 DEF EndsHeld
<1>8. NamesInv'
  BY <1>2 DEF IInv, NamesInv
<1> QED BY <1>7, <1>8 DEF IInv

(* Every call keeps the invariant.                                         *)
LEMMA NextKeeps ==
    ASSUME IInv, [Next]_vars
    PROVE  IInv'
<1>1. ASSUME NEW f \in Files, Open(f) PROVE IInv'
  BY <1>1, OpenKeeps
<1>2. ASSUME NEW fault \in BOOLEAN, Pipe(fault) PROVE IInv'
  BY <1>2, PipeKeeps
<1>3. ASSUME NEW s \in Fds, Close(s) PROVE IInv'
  <2>1. Release({s}) /\ {s} \in SUBSET Fds
    BY <1>3 DEF Close
  <2> QED BY <2>1, ReleaseKeeps
<1>4. ASSUME NEW s \in Fds, NEW offset \in Offsets, Lseek(s, offset) PROVE IInv'
  BY <1>4, LseekKeeps
<1>5. ASSUME NEW s \in Fds, NEW n \in 1 .. MaxCount, ReadFile(s, n) PROVE IInv'
  BY <1>5, ReadFileKeeps
<1>6. ASSUME NEW s \in Fds, NEW n \in 1 .. MaxCount, ReadPipe(s, n) PROVE IInv'
  BY <1>6, ReadPipeKeeps
<1>7. ASSUME NEW s \in Fds, NEW b \in Chunks, NEW ok \in 0 .. Len(b), WritePipe(s, b, ok)
      PROVE  IInv'
  BY <1>7, WritePipeKeeps
<1>8. CASE Cleanup
  <2>1. PICK D \in SUBSET Fds : D = {s \in Fds : type[s] # "none"}
    OBVIOUS
  <2>2. Release(D)
    BY <1>8, <2>1 DEF Cleanup
  <2> QED BY <2>2, ReleaseKeeps
<1>9. CASE NoEffect
  <2>1. UNCHANGED <<type, pos, path, pidx, ropen, wopen, head, count, data>> /\ got' = <<>>
    BY <1>9 DEF NoEffect, fds, pipes
  <2>2. TypeOK'
    BY <2>1, EmptySeq DEF IInv, EndsHeld, TypeOK
  <2>3. EndsHeld'
    BY <2>1, <2>2, EndsStay DEF IInv
  <2> QED BY <2>1, <2>3 DEF IInv, NamesInv
<1>10. CASE UNCHANGED vars
  <2>1. UNCHANGED <<type, pos, path, pidx, ropen, wopen, head, count, data, got>>
    BY <1>10 DEF vars
  <2>2. TypeOK'
    BY <2>1 DEF IInv, EndsHeld, TypeOK
  <2>3. EndsHeld'
    BY <2>1, <2>2, EndsStay DEF IInv
  <2> QED BY <2>1, <2>3 DEF IInv, NamesInv
<1> QED
  BY <1>1, <1>2, <1>3, <1>4, <1>5, <1>6, <1>7, <1>8, <1>9, <1>10 DEF Next

(* The invariant holds in every reachable state.                           *)
THEOREM Inductive == Spec => []IInv
<1>1. IInv /\ [Next]_vars => IInv'
  BY NextKeeps
<1> QED BY <1>1, InitIInv, PTL DEF Spec

(* An end of a pipe is open exactly while one descriptor, and only one,    *)
(* names it, whatever calls were made, whichever of them met an unmapped   *)
(* page and in whatever order the descriptors were closed.                 *)
THEOREM EndsAlwaysHeld == Spec => []EndsHeld
<1>1. IInv => EndsHeld
  BY DEF IInv
<1> QED BY <1>1, Inductive, PTL

-----------------------------------------------------------------------------
(* The refinement: every call is a step of Pipes or leaves it unchanged.   *)

(* What a pipe that somebody holds has queued: the mapping of Abstract.    *)
Queued == [p \in PipeIds |-> IF ropen[p] \/ wopen[p] THEN Queue(p) ELSE <<>>]

(* Nothing is queued at the start.                                         *)
LEMMA InitImplements == Init => Abstract!Init
BY DEF Init, Abstract!Init

(* A call that leaves the ends of every pipe, and the queue of every pipe  *)
(* that somebody holds, as they are concerns no pipe.                      *)
LEMMA OtherImplements ==
    ASSUME got' = <<>>, UNCHANGED <<ropen, wopen>>,
           \A p \in PipeIds : ropen[p] \/ wopen[p] => Queue(p)' = Queue(p)
    PROVE  Abstract!Next
<1>1. Queued' = Queued
  BY DEF Queued
<1>2. Abstract!Other
  BY <1>1 DEF Abstract!Other, Queued
<1> QED BY <1>2 DEF Abstract!Next

(* A call that moves no pipe concerns none.                                *)
LEMMA PipesKept ==
    ASSUME got' = <<>>, UNCHANGED pipes
    PROVE  Abstract!Next
<1>1. UNCHANGED <<ropen, wopen, head, count, data>>
  BY DEF pipes
<1>2. \A p \in PipeIds : Queue(p)' = Queue(p)
  BY <1>1 DEF Queue, Slot
<1> QED BY <1>1, <1>2, OtherImplements

(* pipe() creates the pipe it allocates, empty; unwound, it has created    *)
(* none, although it has reset the buffer of one that nobody holds.        *)
LEMMA PipeImplements ==
    ASSUME IInv, NEW fault \in BOOLEAN, Pipe(fault)
    PROVE  Abstract!Next
<1>1. PICK p \in FreePipes : p = Lowest(FreePipes)
  BY Allocated DEF Pipe
<1>2. p \in PipeIds /\ ~ropen[p] /\ ~wopen[p]
  BY DEF FreePipes
<1>3. /\ head' = [head EXCEPT ![p] = 0] /\ count' = [count EXCEPT ![p] = 0]
      /\ data' = data /\ got' = <<>>
  BY <1>1 DEF Pipe
<1>4. TypeOK
  BY DEF IInv, EndsHeld
<1>5. ASSUME NEW q \in PipeIds, q # p
      PROVE  Queue(q)' = Queue(q)
  BY <1>2, <1>3, <1>4, <1>5 DEF Queue, Slot, TypeOK
<1>6. CASE fault
  <2>1. UNCHANGED <<ropen, wopen>>
    BY <1>6 DEF Pipe
  <2> QED BY <1>2, <1>3, <1>5, <2>1, OtherImplements
<1>7. CASE ~fault
  <2>1. ropen' = [ropen EXCEPT ![p] = TRUE] /\ wopen' = [wopen EXCEPT ![p] = TRUE]
    BY <1>1, <1>7 DEF Pipe
  <2>2. Queue(p)' = <<>>
    <3>1. count'[p] = 0
      BY <1>2, <1>3, <1>4 DEF TypeOK
    <3>2. Queue(p)' = [i \in 1 .. 0 |-> data'[p][(head'[p] + (i - 1)) % BufSize]]
      BY <3>1 DEF Queue, Slot
    <3> QED BY <3>2
  <2>3. ASSUME NEW q \in PipeIds
        PROVE  Queued'[q] = IF q = p THEN <<>> ELSE Queued[q]
    <3>1. CASE q = p
      BY <2>2, <3>1 DEF Queued
    <3>2. CASE q # p
      <4>1. (ropen'[q] <=> ropen[q]) /\ (wopen'[q] <=> wopen[q])
        BY <1>4, <2>1, <3>2 DEF TypeOK
      <4>2. Queued'[q] = IF ropen'[q] \/ wopen'[q] THEN Queue(q)' ELSE <<>>
        BY DEF Queued
      <4>3. Queued[q] = IF ropen[q] \/ wopen[q] THEN Queue(q) ELSE <<>>
        BY DEF Queued
      <4> QED BY <1>5, <3>2, <4>1, <4>2, <4>3
    <3> QED BY <3>1, <3>2
  <2>4. Queued' = [Queued EXCEPT ![p] = <<>>]
    <3>1. Queued' = [q \in PipeIds |-> Queued'[q]] /\ DOMAIN Queued = PipeIds
      BY DEF Queued
    <3> HIDE DEF Queued
    <3> QED BY <1>2, <2>3, <3>1
  <2>5. Abstract!Create(p)
    BY <1>2, <1>3, <2>1, <2>4 DEF Abstract!Create, Queued
  <2> QED BY <1>2, <2>5 DEF Abstract!Next
<1> QED BY <1>6, <1>7

(* read() delivers the oldest bytes, once.                                 *)
LEMMA ReadImplements ==
    ASSUME IInv, NEW s \in Fds, NEW n \in 1 .. MaxCount, ReadPipe(s, n)
    PROVE  Abstract!Next
<1>1. PICK p \in PipeIds : p = pidx[s]
  BY DEF IInv, NamesInv, ReadPipe
<1>2. /\ TypeOK /\ head[p] \in BufOffsets /\ count[p] \in 0 .. BufSize
      /\ data[p] \in Buffers
  BY DEF IInv, EndsHeld, TypeOK, BufOffsets, Buffers
<1>3. PICK take \in Int : take = Least(n, count[p])
  BY <1>2, FdAssumption, LeastIs
<1>4. /\ take > 0 /\ got' = SubSeq(Queue(p), 1, take)
      /\ head' = [head EXCEPT ![p] = Slot(p, take)]
      /\ count' = [count EXCEPT ![p] = @ - take]
      /\ UNCHANGED <<ropen, wopen, data>>
  BY <1>1, <1>3 DEF ReadPipe, fds
<1>5. ropen[p]
  <2>1. s \in Holders(p, "read")
    BY <1>1 DEF Holders, ReadPipe
  <2> QED BY <2>1 DEF IInv, EndsHeld
<1>6. take \in 1 .. count[p]
  <2>1. n \in Int /\ count[p] \in Int
    BY <1>2, BufPositive, FdAssumption
  <2>2. take <= count[p]
    BY <1>3, <2>1, LeastIs
  <2> QED BY <1>4, <2>1, <2>2
<1>7. Queued[p] = Queue(p) /\ Len(Queue(p)) = count[p]
  BY <1>2, <1>5, QueueIsRing, RingIs DEF Queued
<1>8. Queue(p)' = SubSeq(Queue(p), take + 1, count[p])
  <2>1. head'[p] = (head[p] + take) % BufSize
    BY <1>2, <1>4 DEF TypeOK, Slot
  <2>2. count'[p] = count[p] - take
    BY <1>2, <1>4 DEF TypeOK
  <2>3. take \in 0 .. count[p]
    BY <1>6
  <2>4. Ring((head[p] + take) % BufSize, count[p] - take, data[p])
          = SubSeq(Ring(head[p], count[p], data[p]), take + 1, count[p])
    BY <1>2, <2>3, RingRead
  <2> QED BY <1>4, <2>1, <2>2, <2>4, QueueIsRing
<1>9. ASSUME NEW q \in PipeIds, q # p
      PROVE  Queue(q)' = Queue(q)
  BY <1>2, <1>4, <1>9 DEF Queue, Slot, TypeOK
<1>10. Queued' = [Queued EXCEPT ![p] = SubSeq(@, take + 1, Len(@))]
  <2>1. ASSUME NEW q \in PipeIds
        PROVE  Queued'[q] = IF q = p THEN SubSeq(Queued[p], take + 1, Len(Queued[p]))
                                     ELSE Queued[q]
    <3>1. CASE q = p
      BY <1>4, <1>5, <1>7, <1>8, <3>1 DEF Queued
    <3>2. CASE q # p
      BY <1>4, <1>9, <3>2 DEF Queued
    <3> QED BY <3>1, <3>2
  <2>2. Queued' = [q \in PipeIds |-> Queued'[q]] /\ DOMAIN Queued = PipeIds
    BY DEF Queued
  <2> HIDE DEF Queued
  <2> QED BY <2>1, <2>2
<1>11. Abstract!Read(p, take) /\ take \in 1 .. Len(Queued[p])
  BY <1>4, <1>5, <1>6, <1>7, <1>10 DEF Abstract!Read, Queued
<1> QED BY <1>11 DEF Abstract!Next, Queued

(* write() appends what it counts and nothing else: bytes that a partial   *)
(* copy left behind the queue are in nobody's queue.                       *)
LEMMA WriteImplements ==
    ASSUME IInv, NEW s \in Fds, NEW b \in Chunks, NEW ok \in 0 .. Len(b),
           WritePipe(s, b, ok)
    PROVE  Abstract!Next
<1>1. PICK p \in PipeIds, take \in 1 .. BufSize :
        /\ p = pidx[s] /\ type[s] = "write" /\ ropen[p]
        /\ b \in Seq(Bytes) /\ take <= Len(b) /\ ok <= take
        /\ count[p] + take <= BufSize
        /\ data' = [data EXCEPT ![p] = Put(p, b, ok)]
        /\ count' = [count EXCEPT ![p] = IF ok = take THEN @ + take ELSE @]
        /\ got' = <<>>
        /\ UNCHANGED <<type, pos, path, pidx, ropen, wopen, head>>
  BY WriteStep
<1>2. /\ TypeOK /\ head[p] \in BufOffsets /\ count[p] \in 0 .. BufSize
      /\ data[p] \in Buffers
  BY DEF IInv, EndsHeld, TypeOK, BufOffsets, Buffers
<1>3. take \in Nat /\ Len(b) \in Nat /\ count[p] \in Nat
  BY <1>1, <1>2, BufPositive, LenProperties
<1>4. wopen[p]
  <2>1. s \in Holders(p, "write")
    BY <1>1 DEF Holders
  <2> QED BY <2>1 DEF IInv, EndsHeld
<1>5. /\ Put(p, b, ok) \in Buffers
      /\ \A k \in 1 .. ok : Put(p, b, ok)[(head[p] + (count[p] + k - 1)) % BufSize] = b[k]
      /\ \A i \in 1 .. count[p] : Put(p, b, ok)[(head[p] + (i - 1)) % BufSize]
                                    = data[p][(head[p] + (i - 1)) % BufSize]
  <2>1. count[p] + ok <= BufSize
    BY <1>1, <1>3, BufPositive
  <2> QED BY <1>1, <1>2, <2>1, PutIs
<1>6. data'[p] = Put(p, b, ok)
  BY <1>1, <1>2 DEF TypeOK
<1>7. ASSUME NEW q \in PipeIds, q # p
      PROVE  Queue(q)' = Queue(q)
  BY <1>1, <1>2, <1>7 DEF Queue, Slot, TypeOK
<1>8. CASE ok # take
  <2>1. count' = count
    BY <1>1, <1>2, <1>8 DEF TypeOK
  <2>2. \A i \in 1 .. count[p] : data'[p][(head[p] + (i - 1)) % BufSize]
                                   = data[p][(head[p] + (i - 1)) % BufSize]
    BY <1>5, <1>6
  <2>3. Queue(p)' = Queue(p)
    BY <1>1, <2>1, <2>2 DEF Queue, Slot
  <2> QED BY <1>1, <1>7, <2>3, OtherImplements
<1>9. CASE ok = take
  <2>1. count'[p] = count[p] + take
    BY <1>1, <1>2, <1>9 DEF TypeOK
  <2>2. Queue(p)' = Queue(p) \o SubSeq(b, 1, take)
    <3>1. take \in 0 .. Len(b)
      BY <1>1, <1>3
    <3>2. PICK h \in BufOffsets, c \in 0 .. BufSize, d \in Buffers, e \in Buffers :
            h = head[p] /\ c = count[p] /\ d = data[p] /\ e = Put(p, b, ok)
      BY <1>2, <1>5
    <3>3. /\ c + take <= BufSize
          /\ \A i \in 1 .. c : e[(h + (i - 1)) % BufSize] = d[(h + (i - 1)) % BufSize]
          /\ \A k \in 1 .. take : e[(h + (c + k - 1)) % BufSize] = b[k]
      BY <1>1, <1>5, <1>9, <3>2
    <3>4. Ring(h, c + take, e) = Ring(h, c, d) \o SubSeq(b, 1, take)
      BY <1>1, <3>1, <3>3, RingWritten
    <3> QED BY <1>1, <1>6, <2>1, <3>2, <3>4, QueueIsRing
  <2>3. Queued[p] = Queue(p) /\ Len(Queue(p)) = count[p]
    BY <1>1, <1>2, QueueIsRing, RingIs DEF Queued
  <2>4. Queued' = [Queued EXCEPT ![p] = @ \o SubSeq(b, 1, take)]
    <3>1. ASSUME NEW q \in PipeIds
          PROVE  Queued'[q] = IF q = p THEN Queued[p] \o SubSeq(b, 1, take) ELSE Queued[q]
      <4>1. CASE q = p
        BY <1>1, <2>2, <2>3, <4>1 DEF Queued
      <4>2. CASE q # p
        BY <1>1, <1>7, <4>2 DEF Queued
      <4> QED BY <4>1, <4>2
    <3>2. Queued' = [q \in PipeIds |-> Queued'[q]] /\ DOMAIN Queued = PipeIds
      BY DEF Queued
    <3> HIDE DEF Queued
    <3> QED BY <3>1, <3>2
  <2>5. SubSeq(b, 1, take) \in Abstract!Chunks /\ Len(SubSeq(b, 1, take)) = take
    <3>1. \A i \in 1 .. take : b[i] \in Bytes
      BY <1>1, <1>3, ElementOfSeq
    <3>2. /\ SubSeq(b, 1, take) \in Seq(Bytes)
          /\ Len(SubSeq(b, 1, take)) = IF 1 <= take THEN take - 1 + 1 ELSE 0
      BY <1>3, <3>1, SubSeqProperties
    <3>3. Len(SubSeq(b, 1, take)) = take
      BY <1>3, <3>2
    <3>4. SubSeq(b, 1, take) \in [1 .. take -> Bytes]
      BY <3>2, <3>3, LenProperties
    <3> QED BY <3>3, <3>4 DEF Abstract!Chunks
  <2>6. Abstract!Write(p, SubSeq(b, 1, take))
    BY <1>1, <1>4, <2>3, <2>4, <2>5 DEF Abstract!Write, Queued
  <2> QED BY <2>5, <2>6 DEF Abstract!Next
<1> QED BY <1>8, <1>9

(* close() and the cleanup close the ends that the descriptors named; what *)
(* is queued stays until both ends of its pipe are closed.                 *)
LEMMA ReleaseImplements ==
    ASSUME IInv, NEW D \in SUBSET Fds, Release(D)
    PROVE  Abstract!Next
<1>1. PICK R \in SUBSET PipeIds :
        R = {p \in PipeIds : \E s \in D : type[s] = "read" /\ pidx[s] = p}
  OBVIOUS
<1>2. PICK W \in SUBSET PipeIds :
        W = {p \in PipeIds : \E s \in D : type[s] = "write" /\ pidx[s] = p}
  OBVIOUS
<1>3. /\ ropen' = [p \in PipeIds |-> ropen[p] /\ p \notin R]
      /\ wopen' = [p \in PipeIds |-> wopen[p] /\ p \notin W]
      /\ got' = <<>> /\ UNCHANGED <<head, count, data>>
  BY <1>1, <1>2 DEF Release
<1>4. \A p \in PipeIds : Queue(p)' = Queue(p)
  BY <1>3 DEF Queue, Slot
<1>5. Queued' = [p \in PipeIds |-> IF ropen'[p] \/ wopen'[p] THEN Queued[p] ELSE <<>>]
  BY <1>3, <1>4 DEF Queued
<1>6. Abstract!Close(R, W)
  BY <1>3, <1>5 DEF Abstract!Close, Queued
<1> QED BY <1>6 DEF Abstract!Next

(* Every call of the program is a step of Pipes, or none.                  *)
LEMMA NextImplements ==
    ASSUME IInv, [Next]_vars
    PROVE  [Abstract!Next]_(Abstract!vars)
<1>1. ASSUME NEW f \in Files, Open(f) PROVE Abstract!Next
  BY <1>1, PipesKept DEF Open
<1>2. ASSUME NEW fault \in BOOLEAN, Pipe(fault) PROVE Abstract!Next
  BY <1>2, PipeImplements
<1>3. ASSUME NEW s \in Fds, Close(s) PROVE Abstract!Next
  <2>1. Release({s}) /\ {s} \in SUBSET Fds
    BY <1>3 DEF Close
  <2> QED BY <2>1, ReleaseImplements
<1>4. ASSUME NEW s \in Fds, NEW offset \in Offsets, Lseek(s, offset) PROVE Abstract!Next
  BY <1>4, PipesKept DEF Lseek
<1>5. ASSUME NEW s \in Fds, NEW n \in 1 .. MaxCount, ReadFile(s, n) PROVE Abstract!Next
  BY <1>5, PipesKept DEF ReadFile
<1>6. ASSUME NEW s \in Fds, NEW n \in 1 .. MaxCount, ReadPipe(s, n) PROVE Abstract!Next
  BY <1>6, ReadImplements
<1>7. ASSUME NEW s \in Fds, NEW b \in Chunks, NEW ok \in 0 .. Len(b), WritePipe(s, b, ok)
      PROVE  Abstract!Next
  BY <1>7, WriteImplements
<1>8. CASE Cleanup
  <2>1. PICK D \in SUBSET Fds : D = {s \in Fds : type[s] # "none"}
    OBVIOUS
  <2>2. Release(D)
    BY <1>8, <2>1 DEF Cleanup
  <2> QED BY <2>2, ReleaseImplements
<1>9. CASE NoEffect
  BY <1>9, PipesKept DEF NoEffect
<1>10. CASE UNCHANGED vars
  <2>1. UNCHANGED <<ropen, wopen, head, count, data, got>>
    BY <1>10 DEF vars
  <2>2. Queued' = Queued
    BY <2>1 DEF Queued, Queue, Slot
  <2> QED BY <2>1, <2>2 DEF Abstract!vars, Queued
<1> QED
  BY <1>1, <1>2, <1>3, <1>4, <1>5, <1>6, <1>7, <1>8, <1>9, <1>10 DEF Next

(* The descriptors and ring buffers implement bounded first-in first-out   *)
(* pipes: whatever the buffer size, no byte is lost, repeated, reordered   *)
(* or delivered from an earlier use of a buffer.                           *)
THEOREM ImplementsPipes == Spec => PipesImplemented
<1>1. IInv /\ [Next]_vars => [Abstract!Next]_(Abstract!vars)
  BY NextImplements
<1> QED
  BY <1>1, InitImplements, Inductive, PTL DEF Spec, PipesImplemented, Abstract!Spec

=============================================================================
