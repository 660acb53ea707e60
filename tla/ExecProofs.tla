----------------------------- MODULE ExecProofs -----------------------------
(***************************************************************************)
(* Theorems about Exec, for all tasks and files, every layout of the       *)
(* windows and every number of page frames: who owns the frames and the    *)
(* stack window whatever execs interleave, that failed calls change        *)
(* nothing, and that execs that do not interleave leave nothing behind.    *)
(***************************************************************************)
EXTENDS Exec, FiniteSetTheorems, SequenceTheorems, WellFoundedInduction, TLAPS

-----------------------------------------------------------------------------
(* Searches.                                                               *)

(* The first frame that is not in use: a search from frame 0 upwards that   *)
(* has something to find ends at a first one.                              *)
LEMMA LeastExists ==
    ASSUME NEW S, S \subseteq Nat, S # {}
    PROVE  \E k \in S : \A j \in S : k <= j
<1> DEFINE Less == {ss \in Nat \X Nat : ss[1] < ss[2]}
<1>1. PICK k \in S : \A j \in S : ~(<<j, k>> \in Less)
  <2>1. IsWellFoundedOn(Less, Nat)
    BY NatLessThanWellFounded DEF OpToRel
  <2> QED BY <2>1, WFMin
<1>2. \A i, j \in Nat : i < j => <<i, j>> \in Less
  OBVIOUS
<1>3. \A j \in S : ~(j < k)
  BY <1>1, <1>2
<1> QED BY <1>3

-----------------------------------------------------------------------------
(* The inductive invariant.                                                *)

(* The pages outside the stack window, whose frames are not an alias's.    *)
OwnPages == Pages \ StackPages

(* Every frame has one owner, and exactly the owned frames are in use.     *)
Accounts(fr, us, tb, al, rest) ==
    /\ \A f \in Frames :
         f \in us <=> \/ \E p \in OwnPages : fr[p] = f
                      \/ \E t \in Tasks : f \in al[t]
                      \/ \E a \in Areas : tb[a] = f
                      \/ f \in rest
    /\ \A p, q \in OwnPages : fr[p] = fr[q] /\ fr[p] # 0 => p = q
    /\ \A p \in OwnPages, t \in Tasks : fr[p] \notin al[t]
    /\ \A p \in OwnPages, a \in Areas : fr[p] = tb[a] => fr[p] = 0
    /\ \A p \in OwnPages : fr[p] \notin rest
    /\ \A s, t \in Tasks : s # t => al[s] \cap al[t] = {}
    /\ \A t \in Tasks, a \in Areas : tb[a] \notin al[t]
    /\ \A t \in Tasks : al[t] \cap rest = {}
    /\ \A a, b \in Areas : tb[a] = tb[b] /\ tb[a] # 0 => a = b
    /\ \A a \in Areas : tb[a] \notin rest
Sound(fr, us, tb, al, lo) ==
    Accounts(fr, us, tb, al, lo \cup Reserved) /\ lo \cap Reserved = {}

OwnInv == Sound(frame, used, tables, alias, lost)

(* Only the running task and the one suspended inside cmd_exec are in it;  *)
(* what a task holds between two steps goes with its stage.                *)
HasStack == {"stacked", "ready", "user", "exited", "reset", "cleaned"}
TaskInv ==
    /\ \A t \in Tasks : stage[t] # "idle" =>
         t \in {cpu, outer} /\ buf \in Progs /\ prog[t] \in Progs
    /\ outer # None => outer # cpu /\ stage[outer] \notin {"idle", "user"}
    /\ \A t \in Tasks : stage[t] # "loading" => got[t] = <<>>
    /\ \A t \in Tasks : stage[t] \notin HasStack \cup {"backed"} => alias[t] = {}

(* The stack window is empty, or maps the run of frames of its owner.      *)
StackSize == StackHi - StackLo
WindowInv ==
    /\ \A s, t \in Tasks : stage[s] \in HasStack /\ stage[t] \in HasStack => s = t
    /\ \A t \in Tasks : stage[t] = "backed" =>
         \E b \in Frames : alias[t] = b .. b + StackSize - 1
    /\ \A t \in Tasks : stage[t] \in HasStack =>
         /\ \A p \in StackPages : frame[p] \in alias[t]
         /\ \A f \in alias[t] : \E p \in StackPages : frame[p] = f
         /\ \A p, q \in StackPages : frame[p] = frame[q] => p = q
    /\ (\A t \in Tasks : stage[t] \notin HasStack) => \A p \in StackPages : frame[p] = 0

(* A frame that a load has taken is still where it put it, or lost; and    *)
(* nothing that the inner one of two execs will unmap or free is such a    *)
(* frame of the outer one.                                                 *)
BeforeLoaded == {"idle", "read", "loading"}
Holds(t) == PagesAt(buf, active[Size[prog[t]]])
Taken == HeapInUse \cup UNION {mtab[i] : i \in Slots}
GotInv ==
    /\ \A t \in Tasks : \A i \in 1 .. Len(got[t]) :
         /\ frame[got[t][i][1]] = got[t][i][2] \/ got[t][i][2] \in lost
         /\ got[t][i][1] \notin StackPages
    /\ outer # None =>
         /\ GotFrames(outer) \cap GotFrames(cpu) = {}
         /\ stage[cpu] = "loading" =>
              \A i \in 1 .. Len(got[cpu]) :
                i <= Len(Image[buf]) /\ frame[Image[buf][i] + bias[cpu]] \notin GotFrames(outer)
         /\ stage[cpu] \notin BeforeLoaded =>
              \A p \in Holds(cpu) : frame[p] \notin GotFrames(outer)
         /\ \A p \in Taken : frame[p] \notin GotFrames(outer)

(* The heap and the mmap area: whose they are and what is mapped in them.  *)
UsrInv ==
    /\ heap => /\ brk >= 2 * HeapLo
               /\ \E t \in Tasks : stage[t] \in {"ready", "user", "exited"}
    /\ \A t \in Tasks : stage[t] \in {"ready", "user"} => heap
    /\ \A t \in Tasks : stage[t] = "ready" => brk = 2 * HeapLo
    /\ \A i \in Slots : mtab[i] \subseteq MmapLo .. bump - 1
    /\ \A i, j \in Slots : i # j => mtab[i] \cap mtab[j] = {}
    /\ (\A t \in Tasks : stage[t] \notin {"user", "exited", "reset"}) =>
         bump = MmapLo /\ \A i \in Slots : mtab[i] = {}
    /\ \A t \in Tasks : stage[t] = "user" =>
         \A p \in HeapInUse \cup UNION {mtab[i] : i \in Slots} : frame[p] # 0

DemandInv == \A p \in demand : p \notin StackPages /\ frame[p] # 0

(* Without an exec inside another one, every mapped page is accounted for. *)
LoadedPages(t) ==
    IF stage[t] \in {"idle", "read"} THEN {}
    ELSE IF stage[t] = "loading" THEN GotPages(t) ELSE Holds(t)
CleanInv ==
    ~mixed =>
      /\ outer # None => stage[cpu] = "idle"
      /\ \A t \in Tasks : /\ stage[t] # "idle" => prog[t] = buf
                          /\ stage[t] \notin {"idle", "read"} => HeadersFit(t)
      /\ \A t \in Tasks : \A i \in 1 .. Len(got[t]) :
           i <= Len(Image[buf]) /\ got[t][i][1] = Image[buf][i] + bias[t]
      /\ \A p \in OwnPages : frame[p] # 0 =>
           \/ p \in demand \cup HeapInUse \cup UNION {mtab[i] : i \in Slots}
           \/ \E t \in Tasks : p \in LoadedPages(t)

IInv == /\ TypeOK /\ OwnInv /\ TaskInv /\ WindowInv /\ GotInv /\ UsrInv
        /\ DemandInv /\ CleanInv

-----------------------------------------------------------------------------
(* Owners of frames.  The lemmas of this part are about any page tables,   *)
(* bitmap and owners, not only the current ones.                           *)

FrameMaps == [Pages -> Frames \cup {0}]
TableMaps == [Areas -> Frames \cup {0}]
AliasMaps == [Tasks -> SUBSET Frames]

(* No frame is numbered 0, the entry of an unmapped page.                  *)
LEMMA FrameNotZero == 0 \notin Frames
BY LayoutAssumption DEF Frames

(* Unmapping pages and freeing their frames keeps the accounts.            *)
LEMMA SoundUnmap ==
    ASSUME NEW fr \in FrameMaps, NEW us \in SUBSET Frames, NEW tb \in TableMaps,
           NEW al \in AliasMaps, NEW lo \in SUBSET Frames,
           Sound(fr, us, tb, al, lo),
           NEW P \in SUBSET OwnPages, NEW fr2 \in FrameMaps, NEW us2 \in SUBSET Frames,
           \A q \in Pages : fr2[q] = IF q \in P THEN 0 ELSE fr[q],
           us2 = us \ {fr[p] : p \in P}
    PROVE  Sound(fr2, us2, tb, al, lo)
<1>1. \A q \in OwnPages : q \in Pages
  BY DEF OwnPages
<1>2. PICK rest \in SUBSET Frames : rest = lo \cup Reserved
  BY LayoutAssumption
<1>3. Accounts(fr, us, tb, al, rest)
  BY <1>2 DEF Sound
<1>4. Accounts(fr2, us2, tb, al, rest)
  BY <1>1, <1>3, FrameNotZero DEF Accounts, FrameMaps, TableMaps, AliasMaps
<1> QED BY <1>2, <1>4 DEF Sound

(* A page that had no frame gets one that was free.                        *)
LEMMA SoundMap ==
    ASSUME NEW fr \in FrameMaps, NEW us \in SUBSET Frames, NEW tb \in TableMaps,
           NEW al \in AliasMaps, NEW lo \in SUBSET Frames,
           Sound(fr, us, tb, al, lo),
           NEW p \in OwnPages, fr[p] = 0, NEW f \in Frames \ us
    PROVE  Sound([fr EXCEPT ![p] = f], us \cup {f}, tb, al, lo)
<1>1. \A q \in OwnPages : q \in Pages
  BY DEF OwnPages
<1>2. PICK rest \in SUBSET Frames : rest = lo \cup Reserved
  BY LayoutAssumption
<1>3. Accounts(fr, us, tb, al, rest)
  BY <1>2 DEF Sound
<1>4. Accounts([fr EXCEPT ![p] = f], us \cup {f}, tb, al, rest)
  BY <1>1, <1>3, FrameNotZero DEF Accounts, FrameMaps, TableMaps, AliasMaps
<1> QED BY <1>2, <1>4 DEF Sound

(* A half of the addresses gets a page table in a frame that was free.     *)
LEMMA SoundTable ==
    ASSUME NEW fr \in FrameMaps, NEW us \in SUBSET Frames, NEW tb \in TableMaps,
           NEW al \in AliasMaps, NEW lo \in SUBSET Frames,
           Sound(fr, us, tb, al, lo),
           NEW a \in Areas, tb[a] = 0, NEW f \in Frames \ us
    PROVE  Sound(fr, us \cup {f}, [tb EXCEPT ![a] = f], al, lo)
<1>1. \A q \in OwnPages : q \in Pages
  BY DEF OwnPages
<1>2. PICK rest \in SUBSET Frames : rest = lo \cup Reserved
  BY LayoutAssumption
<1>3. Accounts(fr, us, tb, al, rest)
  BY <1>2 DEF Sound
<1>4. Accounts(fr, us \cup {f}, [tb EXCEPT ![a] = f], al, rest)
  BY <1>1, <1>3, FrameNotZero DEF Accounts, FrameMaps, TableMaps, AliasMaps
<1> QED BY <1>2, <1>4 DEF Sound

(* A page is unmapped and its frame is not freed: the frame is lost.       *)
LEMMA SoundLose ==
    ASSUME NEW fr \in FrameMaps, NEW us \in SUBSET Frames, NEW tb \in TableMaps,
           NEW al \in AliasMaps, NEW lo \in SUBSET Frames,
           Sound(fr, us, tb, al, lo),
           NEW p \in OwnPages
    PROVE  Sound([fr EXCEPT ![p] = 0], us, tb, al, lo \cup ({fr[p]} \ {0}))
<1>1. \A q \in OwnPages : q \in Pages
  BY DEF OwnPages
<1>2. PICK rest \in SUBSET Frames : rest = lo \cup Reserved
  BY LayoutAssumption
<1>3. Accounts(fr, us, tb, al, rest) /\ lo \cap Reserved = {}
  BY <1>2 DEF Sound
<1>4. Accounts([fr EXCEPT ![p] = 0], us, tb, al, rest \cup ({fr[p]} \ {0}))
  BY <1>1, <1>3, FrameNotZero DEF Accounts, FrameMaps, TableMaps, AliasMaps
<1>5. /\ (lo \cup ({fr[p]} \ {0})) \cup Reserved = rest \cup ({fr[p]} \ {0})
      /\ (lo \cup ({fr[p]} \ {0})) \cap Reserved = {}
  BY <1>2, <1>3 DEF Accounts
<1> QED BY <1>4, <1>5 DEF Sound

(* What only concerns the stack window concerns no other page.             *)
LEMMA SoundStack ==
    ASSUME NEW fr \in FrameMaps, NEW us \in SUBSET Frames, NEW tb \in TableMaps,
           NEW al \in AliasMaps, NEW lo \in SUBSET Frames,
           Sound(fr, us, tb, al, lo),
           NEW fr2 \in FrameMaps, \A p \in OwnPages : fr2[p] = fr[p]
    PROVE  Sound(fr2, us, tb, al, lo)
<1>1. PICK rest : rest = lo \cup Reserved
  OBVIOUS
<1> QED BY <1>1 DEF Sound, Accounts

(* An alias takes free frames.                                             *)
LEMMA SoundAlias ==
    ASSUME NEW fr \in FrameMaps, NEW us \in SUBSET Frames, NEW tb \in TableMaps,
           NEW al \in AliasMaps, NEW lo \in SUBSET Frames,
           Sound(fr, us, tb, al, lo),
           NEW t \in Tasks, al[t] = {}, NEW F \in SUBSET (Frames \ us)
    PROVE  Sound(fr, us \cup F, tb, [al EXCEPT ![t] = F], lo)
<1>1. \A q \in OwnPages : q \in Pages
  BY DEF OwnPages
<1>2. PICK rest \in SUBSET Frames : rest = lo \cup Reserved
  BY LayoutAssumption
<1>3. Accounts(fr, us, tb, al, rest)
  BY <1>2 DEF Sound
<1>4. Accounts(fr, us \cup F, tb, [al EXCEPT ![t] = F], rest)
  BY <1>1, <1>3, FrameNotZero DEF Accounts, FrameMaps, TableMaps, AliasMaps
<1> QED BY <1>2, <1>4 DEF Sound

(* An alias gives its frames back.                                         *)
LEMMA SoundRelease ==
    ASSUME NEW fr \in FrameMaps, NEW us \in SUBSET Frames, NEW tb \in TableMaps,
           NEW al \in AliasMaps, NEW lo \in SUBSET Frames,
           Sound(fr, us, tb, al, lo),
           NEW t \in Tasks
    PROVE  Sound(fr, us \ al[t], tb, [al EXCEPT ![t] = {}], lo)
<1>1. \A q \in OwnPages : q \in Pages
  BY DEF OwnPages
<1>2. PICK rest \in SUBSET Frames : rest = lo \cup Reserved
  BY LayoutAssumption
<1>3. Accounts(fr, us, tb, al, rest)
  BY <1>2 DEF Sound
<1>4. Accounts(fr, us \ al[t], tb, [al EXCEPT ![t] = {}], rest)
  BY <1>1, <1>3, FrameNotZero DEF Accounts, FrameMaps, TableMaps, AliasMaps
<1> QED BY <1>2, <1>4 DEF Sound

(* A load unwinds: the pages P are unmapped and the frames G are freed,    *)
(* each of which is one that a page of P maps or one that was lost.  The   *)
(* other frames that pages of P map are lost.                              *)
LEMMA SoundUnwind ==
    ASSUME NEW fr \in FrameMaps, NEW us \in SUBSET Frames, NEW tb \in TableMaps,
           NEW al \in AliasMaps, NEW lo \in SUBSET Frames,
           Sound(fr, us, tb, al, lo),
           NEW P \in SUBSET OwnPages, NEW G \in SUBSET Frames,
           \A f \in G : f \in lo \/ \E p \in P : fr[p] = f,
           NEW fr2 \in FrameMaps,
           \A q \in Pages : fr2[q] = IF q \in P THEN 0 ELSE fr[q]
    PROVE  Sound(fr2, us \ G, tb, al, (lo \cup ({fr[p] : p \in P} \ {0})) \ G)
<1>1. \A q \in OwnPages : q \in Pages
  BY DEF OwnPages
<1>2. PICK rest \in SUBSET Frames : rest = lo \cup Reserved
  BY LayoutAssumption
<1>3. Accounts(fr, us, tb, al, rest) /\ lo \cap Reserved = {}
  BY <1>2 DEF Sound
<1>4. G \cap Reserved = {} /\ ({fr[p] : p \in P} \ {0}) \cap Reserved = {}
  BY <1>2, <1>3 DEF Accounts
<1>5. Accounts(fr2, us \ G, tb, al, (rest \cup ({fr[p] : p \in P} \ {0})) \ G)
  BY <1>1, <1>2, <1>3, FrameNotZero DEF Accounts, FrameMaps, TableMaps, AliasMaps
<1>6. PICK L : L = (lo \cup ({fr[p] : p \in P} \ {0})) \ G
  OBVIOUS
<1>7. /\ L \cup Reserved = (rest \cup ({fr[p] : p \in P} \ {0})) \ G
      /\ L \cap Reserved = {}
  BY <1>2, <1>3, <1>4, <1>6
<1> QED BY <1>5, <1>6, <1>7 DEF Sound

-----------------------------------------------------------------------------
(* The loops that map pages.                                               *)

Memories == [frame : FrameMaps, used : SUBSET Frames, tables : TableMaps,
             ok : BOOLEAN, done : Nat]

(* The lowest of some numbers is one of them.                              *)
LEMMA LowestIn ==
    ASSUME NEW S, S \subseteq Nat, S # {}
    PROVE  Lowest(S) \in S
BY LeastExists DEF Lowest

(* Page frames are numbers.                                                *)
LEMMA FramesAreNats == Frames \subseteq Nat /\ Frames \in SUBSET Nat
BY LayoutAssumption DEF Frames

(* What paging_map_page does when it has to: the half of the addresses has *)
(* a page table, the one it had or one in a free frame.                    *)
LEMMA TableForIs ==
    ASSUME NEW m \in Memories, NEW al \in AliasMaps, NEW lo \in SUBSET Frames,
           Sound(m.frame, m.used, m.tables, al, lo),
           NEW a \in Areas, NEW S \in SUBSET (Frames \ m.used),
           m.tables[a] # 0 \/ S # {}
    PROVE  LET n == TableFor(m, a, S)
           IN  /\ n \in Memories
               /\ Sound(n.frame, n.used, n.tables, al, lo)
               /\ n.frame = m.frame /\ n.ok = m.ok /\ n.done = m.done
               /\ m.used \subseteq n.used /\ n.used \subseteq m.used \cup S
               /\ \A f \in S : f # Lowest(S) => f \notin n.used
<1> DEFINE n == TableFor(m, a, S)
<1>1. CASE m.tables[a] # 0
  BY <1>1 DEF TableFor
<1>2. CASE m.tables[a] = 0
  <2>1. S \subseteq Nat
    BY FramesAreNats
  <2>2. PICK f \in S : f = Lowest(S)
    BY <1>2, <2>1, LowestIn
  <2>3. n = [m EXCEPT !.tables[a] = f, !.used = @ \cup {f}]
    BY <1>2, <2>2 DEF TableFor
  <2>4. /\ n.frame = m.frame /\ n.ok = m.ok /\ n.done = m.done
        /\ n.tables = [m.tables EXCEPT ![a] = f] /\ n.used = m.used \cup {f}
    BY <2>3 DEF Memories
  <2>5. n = [x \in {"frame", "used", "tables", "ok", "done"} |-> n[x]]
    BY <2>3 DEF Memories
  <2> HIDE DEF n
  <2>6. n.tables \in TableMaps /\ n.used \in SUBSET Frames
    BY <2>4 DEF Memories, TableMaps
  <2>7. n \in Memories
    BY <2>4, <2>5, <2>6 DEF Memories
  <2>8. Sound(m.frame, m.used \cup {f}, [m.tables EXCEPT ![a] = f], al, lo)
    <3>1. /\ m.frame \in FrameMaps /\ m.used \in SUBSET Frames /\ m.tables \in TableMaps
          /\ f \in Frames \ m.used
      BY DEF Memories
    <3> QED BY <1>2, <3>1, SoundTable
  <2>9. Sound(n.frame, n.used, n.tables, al, lo)
    BY <2>4, <2>8
  <2>10. /\ m.used \subseteq n.used /\ n.used \subseteq m.used \cup S
         /\ \A g \in S : g # Lowest(S) => g \notin n.used
    BY <2>2, <2>4
  <2> QED BY <2>4, <2>7, <2>9, <2>10 DEF n
<1> QED BY <1>1, <1>2

(* Two free frames, when as many are needed: the lowest, and one more.     *)
LEMMA FreeFrames ==
    ASSUME NEW free \in SUBSET Frames, NEW need \in {1, 2}, Cardinality(free) >= need
    PROVE  /\ Lowest(free) \in free
           /\ need = 2 => free \ {Lowest(free)} # {}
<1>1. free \subseteq Nat
  BY FramesAreNats
<1>2. free # {}
  BY FS_EmptySet
<1>3. Lowest(free) \in free
  BY <1>1, <1>2, LowestIn
<1>4. ASSUME need = 2, free = {Lowest(free)} PROVE FALSE
  <2>1. Cardinality({Lowest(free)}) = 1
    BY FS_Singleton
  <2> QED BY <1>4, <2>1
<1> QED BY <1>3, <1>4

(* paging_map_page maps the page to a frame that was free, or changes      *)
(* nothing and reports that it failed.                                     *)
LEMMA MapPageIs ==
    ASSUME NEW m \in Memories, NEW al \in AliasMaps, NEW lo \in SUBSET Frames,
           Sound(m.frame, m.used, m.tables, al, lo),
           NEW p \in OwnPages
    PROVE  LET n == MapPage(m, p)
           IN  /\ n \in Memories
               /\ Sound(n.frame, n.used, n.tables, al, lo)
               /\ m.used \subseteq n.used
               /\ n.ok => /\ m.ok /\ m.frame[p] = 0 /\ n.done = m.done + 1
                          /\ \E f \in Frames \ m.used : n.frame = [m.frame EXCEPT ![p] = f]
               /\ ~n.ok => n.frame = m.frame /\ n.done = m.done
<1> DEFINE n == MapPage(m, p)
           free == Frames \ m.used
           need == IF m.tables[Area(p)] = 0 THEN 2 ELSE 1
           cond == m.ok /\ m.frame[p] = 0 /\ Cardinality(free) >= need
<1>1. p \in Pages /\ Area(p) \in Areas
  BY DEF OwnPages, Area, Areas
<1>2. CASE ~cond
  <2>1. n = [m EXCEPT !.ok = FALSE]
    BY <1>2 DEF MapPage
  <2>2. /\ n.frame = m.frame /\ n.done = m.done /\ n.ok = FALSE
        /\ n.used = m.used /\ n.tables = m.tables
    BY <2>1 DEF Memories
  <2>3. n \in Memories
    BY <2>1 DEF Memories
  <2> HIDE DEF n
  <2> QED BY <2>2, <2>3 DEF n
<1>3. CASE cond
  <2>1. /\ Lowest(free) \in free
        /\ m.tables[Area(p)] = 0 => free \ {Lowest(free)} # {}
    BY <1>3, FreeFrames
  <2>2. PICK f \in free : f = Lowest(free)
    BY <2>1
  <2> DEFINE k == TableFor(m, Area(p), free \ {f})
  <2>3. /\ k \in Memories
        /\ Sound(k.frame, k.used, k.tables, al, lo)
        /\ k.frame = m.frame /\ k.ok = m.ok /\ k.done = m.done
        /\ m.used \subseteq k.used /\ k.used \subseteq m.used \cup (free \ {f})
    <3>1. PICK S \in SUBSET (Frames \ m.used) : S = free \ {f}
      OBVIOUS
    <3>2. PICK a \in Areas : a = Area(p)
      BY <1>1
    <3>3. m.tables[a] # 0 \/ S # {}
      BY <2>1, <2>2, <3>1, <3>2
    <3>4. /\ TableFor(m, a, S) \in Memories
          /\ LET o == TableFor(m, a, S)
             IN  /\ Sound(o.frame, o.used, o.tables, al, lo)
                 /\ o.frame = m.frame /\ o.ok = m.ok /\ o.done = m.done
                 /\ m.used \subseteq o.used /\ o.used \subseteq m.used \cup S
      BY <3>3, TableForIs
    <3> QED BY <3>1, <3>2, <3>4
  <2>4. n = [k EXCEPT !.frame[p] = f, !.used = @ \cup {f}, !.done = @ + 1]
    BY <1>3, <2>2 DEF MapPage
  <2> HIDE DEF k
  <2>5. /\ n.frame = [m.frame EXCEPT ![p] = f] /\ n.used = k.used \cup {f}
        /\ n.tables = k.tables /\ n.ok = m.ok /\ n.done = m.done + 1
    BY <2>3, <2>4 DEF Memories
  <2>6. n = [x \in {"frame", "used", "tables", "ok", "done"} |-> n[x]]
    BY <2>3, <2>4 DEF Memories
  <2> HIDE DEF n
  <2>7. /\ n.frame \in FrameMaps /\ n.used \in SUBSET Frames
        /\ n.tables \in TableMaps /\ n.ok \in BOOLEAN /\ n.done \in Nat
    <3>1. [m.frame EXCEPT ![p] = f] \in FrameMaps
      BY <1>1 DEF Memories, FrameMaps
    <3>2. k.used \cup {f} \in SUBSET Frames /\ k.tables \in TableMaps
      BY <2>3 DEF Memories
    <3>3. m.ok \in BOOLEAN /\ m.done + 1 \in Nat
      BY DEF Memories
    <3> QED BY <2>5, <3>1, <3>2, <3>3
  <2>8. n \in Memories
    BY <2>6, <2>7 DEF Memories
  <2>9. Sound([m.frame EXCEPT ![p] = f], k.used \cup {f}, k.tables, al, lo)
    <3>1. /\ k.frame \in FrameMaps /\ k.used \in SUBSET Frames /\ k.tables \in TableMaps
          /\ f \in Frames \ k.used /\ k.frame[p] = 0
      BY <1>3, <2>3 DEF Memories
    <3> QED BY <2>3, <3>1, SoundMap
  <2>10. Sound(n.frame, n.used, n.tables, al, lo)
    BY <2>5, <2>9
  <2>11. m.ok /\ m.frame[p] = 0 /\ m.used \subseteq n.used /\ n.ok
    BY <1>3, <2>3, <2>5
  <2>12. \E g \in Frames \ m.used : n.frame = [m.frame EXCEPT ![p] = g]
    BY <2>5
  <2> QED BY <2>5, <2>8, <2>10, <2>11, <2>12 DEF n
<1> QED BY <1>2, <1>3

(* The loop over lo .. hi - 1 is computed: the recursive function that     *)
(* MapPages chooses exists, by the least page up to which there is none.   *)
LEMMA LoopExists ==
    ASSUME NEW lo \in Nat, NEW hi \in Nat, lo <= hi
    PROVE  \E g : /\ g = [p \in lo .. hi |-> IF p = lo THEN Memory(frame)
                                                      ELSE MapPage(g[p - 1], p - 1)]
                  /\ MapPages(lo, hi) = g[hi]
<1> DEFINE Loop(g, n) == g = [p \in lo .. n |-> IF p = lo THEN Memory(frame)
                                                ELSE MapPage(g[p - 1], p - 1)]
           Bad == {n \in lo .. hi : ~\E g : Loop(g, n)}
<1>1. Bad = {}
  <2> SUFFICES ASSUME Bad # {} PROVE FALSE
    OBVIOUS
  <2>1. PICK k \in Bad : \A n \in Bad : k <= n
    <3>1. Bad \subseteq Nat
      OBVIOUS
    <3> HIDE DEF Bad
    <3> QED BY <3>1, LeastExists
  <2>2. k \in lo .. hi /\ ~\E g : Loop(g, k)
    OBVIOUS
  <2>3. CASE k = lo
    <3> DEFINE g == [p \in lo .. lo |-> Memory(frame)]
    <3>1. g = [p \in lo .. lo |-> IF p = lo THEN Memory(frame)
                                  ELSE MapPage(g[p - 1], p - 1)]
      OBVIOUS
    <3> QED BY <2>2, <2>3, <3>1
  <2>4. CASE k # lo
    <3>1. k - 1 \in lo .. hi /\ k \in Nat /\ ~(k <= k - 1)
      BY <2>2, <2>4
    <3>2. PICK g : Loop(g, k - 1)
      BY <2>1, <3>1
    <3> DEFINE h == [p \in lo .. k |-> IF p = k THEN MapPage(g[k - 1], k - 1) ELSE g[p]]
    <3>3. ASSUME NEW p \in lo .. k
          PROVE  h[p] = IF p = lo THEN Memory(frame) ELSE MapPage(h[p - 1], p - 1)
      <4>1. CASE p = lo
        BY <2>4, <3>1, <3>2, <4>1
      <4>2. CASE p # lo /\ p = k
        <5>1. h[p] = MapPage(g[k - 1], k - 1) /\ h[p - 1] = g[k - 1]
          BY <3>1, <4>2
        <5> QED BY <4>2, <5>1
      <4>3. CASE p # lo /\ p # k
        <5>1. p \in lo .. k - 1 /\ p - 1 \in lo .. k /\ p - 1 # k
          BY <3>1, <4>3
        <5>2. h[p] = g[p] /\ h[p - 1] = g[p - 1]
          BY <4>3, <5>1
        <5>3. g[p] = MapPage(g[p - 1], p - 1)
          BY <3>2, <4>3, <5>1
        <5> QED BY <4>3, <5>2, <5>3
      <4> QED BY <4>1, <4>2, <4>3
    <3>4. h = [p \in lo .. k |-> h[p]]
      OBVIOUS
    <3> HIDE DEF h
    <3>5. Loop(h, k)
      BY <3>3, <3>4
    <3> QED BY <2>2, <3>5
  <2> QED BY <2>3, <2>4
<1>2. \E g : Loop(g, hi)
  <2>1. hi \in lo .. hi
    OBVIOUS
  <2> HIDE DEF Loop
  <2> QED BY <1>1, <2>1
<1> DEFINE g == CHOOSE g : Loop(g, hi)
<1>3. Loop(g, hi)
  BY <1>2
<1>4. MapPages(lo, hi) = g[hi]
  BY DEF MapPages
<1> HIDE DEF g
<1> QED BY <1>3, <1>4

(* After the loop the first done pages map frames that were free, nothing  *)
(* else has changed, and the loop is over unless it says otherwise.        *)
Extends(m, lo, n) ==
    /\ m \in Memories
    /\ Sound(m.frame, m.used, m.tables, alias, lost)
    /\ used \subseteq m.used
    /\ m.done \in 0 .. n
    /\ m.ok => m.done = n
    /\ \A q \in Pages : IF q \in lo .. lo + m.done - 1
                        THEN frame[q] = 0 /\ m.frame[q] \in Frames \ used
                        ELSE m.frame[q] = frame[q]

(* So do the loops of task_user_heap_brk and syscall_do_mmap.              *)
LEMMA MapPagesIs ==
    ASSUME TypeOK, OwnInv, NEW lo \in Nat, NEW hi \in Nat, lo <= hi,
           lo .. hi - 1 \subseteq OwnPages
    PROVE  Extends(MapPages(lo, hi), lo, hi - lo)
<1>1. PICK g : /\ g = [p \in lo .. hi |-> IF p = lo THEN Memory(frame)
                                                    ELSE MapPage(g[p - 1], p - 1)]
               /\ MapPages(lo, hi) = g[hi]
  BY LoopExists
<1> DEFINE Bad == {p \in lo .. hi : ~Extends(g[p], lo, p - lo)}
<1>2. Bad = {}
  <2> SUFFICES ASSUME Bad # {} PROVE FALSE
    OBVIOUS
  <2>1. PICK k \in Bad : \A n \in Bad : k <= n
    <3>1. Bad \subseteq Nat
      OBVIOUS
    <3> HIDE DEF Bad
    <3> QED BY <3>1, LeastExists
  <2>2. k \in lo .. hi /\ ~Extends(g[k], lo, k - lo)
    OBVIOUS
  <2>3. CASE k = lo
    <3>1. g[k] = Memory(frame)
      BY <1>1, <2>2, <2>3
    <3> DEFINE m == Memory(frame)
    <3>2. /\ m.frame = frame /\ m.used = used /\ m.tables = tables
          /\ m.ok = TRUE /\ m.done = 0
      BY DEF Memory
    <3>3. m \in Memories
      BY DEF Memory, Memories, FrameMaps, TableMaps, TypeOK
    <3> HIDE DEF m
    <3>4. Extends(m, lo, 0)
      BY <3>2, <3>3 DEF Extends, OwnInv
    <3>5. k - lo = 0
      BY <2>3
    <3> QED BY <2>2, <3>1, <3>4, <3>5 DEF m
  <2>4. CASE k # lo
    <3>1. k - 1 \in lo .. hi /\ ~(k <= k - 1) /\ k - 1 \in lo .. hi - 1
      BY <2>2, <2>4
    <3>2. Extends(g[k - 1], lo, k - 1 - lo)
      BY <2>1, <3>1
    <3>3. g[k] = MapPage(g[k - 1], k - 1)
      BY <1>1, <2>2, <2>4
    <3>4. PICK p \in OwnPages : p = k - 1
      BY <3>1
    <3>5. PICK m : m = g[k - 1]
      OBVIOUS
    <3>6. PICK n : n = MapPage(m, p)
      OBVIOUS
    <3>7. m \in Memories /\ Sound(m.frame, m.used, m.tables, alias, lost) /\ used \subseteq m.used
      BY <3>2, <3>5 DEF Extends
    <3>8. /\ n \in Memories
          /\ Sound(n.frame, n.used, n.tables, alias, lost)
          /\ m.used \subseteq n.used
          /\ n.ok => /\ m.ok /\ m.frame[p] = 0 /\ n.done = m.done + 1
                     /\ \E f \in Frames \ m.used : n.frame = [m.frame EXCEPT ![p] = f]
          /\ ~n.ok => n.frame = m.frame /\ n.done = m.done
      <4>1. PICK al \in AliasMaps, ls \in SUBSET Frames : al = alias /\ ls = lost
        BY DEF TypeOK, AliasMaps
      <4>2. m \in Memories /\ Sound(m.frame, m.used, m.tables, al, ls)
        BY <3>7, <4>1
      <4>3. /\ MapPage(m, p) \in Memories
            /\ LET o == MapPage(m, p)
               IN  /\ Sound(o.frame, o.used, o.tables, al, ls)
                   /\ m.used \subseteq o.used
                   /\ o.ok => /\ m.ok /\ m.frame[p] = 0 /\ o.done = m.done + 1
                              /\ \E f \in Frames \ m.used : o.frame = [m.frame EXCEPT ![p] = f]
                   /\ ~o.ok => o.frame = m.frame /\ o.done = m.done
        BY <4>2, MapPageIs
      <4> QED BY <3>6, <4>1, <4>3
    <3>9. /\ m.done \in 0 .. k - 1 - lo /\ (m.ok => m.done = k - 1 - lo)
          /\ \A q \in Pages : IF q \in lo .. lo + m.done - 1
                              THEN frame[q] = 0 /\ m.frame[q] \in Frames \ used
                              ELSE m.frame[q] = frame[q]
      BY <3>2, <3>5 DEF Extends
    <3>10. CASE n.ok
      <4>1. /\ m.done = k - 1 - lo /\ n.done = k - lo /\ n.done \in 0 .. k - lo
        BY <2>2, <2>4, <3>8, <3>9, <3>10
      <4>2. PICK f \in Frames \ m.used : n.frame = [m.frame EXCEPT ![p] = f]
        BY <3>8, <3>10
      <4>3. m.frame \in [Pages -> Frames \cup {0}] /\ p \in Pages /\ m.frame[p] = 0
        BY <3>7, <3>8, <3>10 DEF Memories, FrameMaps, OwnPages
      <4>4. lo + m.done = p /\ lo + n.done - 1 = p
        BY <2>2, <3>4, <4>1
      <4>5. ASSUME NEW q \in Pages
            PROVE  IF q \in lo .. lo + n.done - 1
                   THEN frame[q] = 0 /\ n.frame[q] \in Frames \ used
                   ELSE n.frame[q] = frame[q]
        <5>1. CASE q = p
          <6>1. p \in lo .. p /\ ~(p \in lo .. p - 1)
            BY <2>2, <3>1, <3>4
          <6>2. frame[p] = 0
            BY <3>9, <4>3, <4>4, <6>1
          <6> QED BY <3>7, <4>2, <4>3, <4>4, <5>1, <6>1, <6>2
        <5>2. CASE q # p
          <6>1. n.frame[q] = m.frame[q]
            BY <4>2, <4>3, <5>2
          <6>2. q \in lo .. p <=> q \in lo .. p - 1
            BY <2>2, <3>1, <3>4, <5>2
          <6> QED BY <3>9, <4>4, <6>1, <6>2
        <5> QED BY <5>1, <5>2
      <4> QED BY <2>2, <3>3, <3>4, <3>5, <3>6, <3>7, <3>8, <4>1, <4>5 DEF Extends
    <3>11. CASE ~n.ok
      <4>1. n.done \in 0 .. k - lo
        BY <2>2, <3>8, <3>9, <3>11
      <4> QED BY <2>2, <3>3, <3>4, <3>5, <3>6, <3>7, <3>8, <3>9, <3>11, <4>1 DEF Extends
    <3> QED BY <3>10, <3>11
  <2> QED BY <2>3, <2>4
<1>3. hi \in lo .. hi
  OBVIOUS
<1> QED BY <1>1, <1>2, <1>3

-----------------------------------------------------------------------------
(* What the building blocks of the actions do to the current memory.       *)

(* The windows are apart from each other; images may lie anywhere.         *)
LEMMA Layout ==
    /\ HeapPages \subseteq OwnPages /\ MmapPages \subseteq OwnPages
    /\ OwnPages \subseteq Pages /\ ImagePages \subseteq Pages
    /\ StackPages \subseteq Pages /\ OwnPages \cap StackPages = {}
    /\ HeapPages \cap MmapPages = {}
    /\ \A p \in Progs, b \in {0, Bias} : PagesAt(p, b) \subseteq ImagePages
<1>1. \A p \in Progs, b \in {0, Bias} : PagesAt(p, b) \subseteq ImagePages
  BY DEF ImagePages
<1>2. /\ HeapPages \subseteq Pages /\ MmapPages \subseteq Pages
      /\ ImagePages \subseteq Pages /\ StackPages \subseteq Pages
  BY DEF Pages
<1> QED BY <1>1, <1>2, LayoutAssumption DEF OwnPages

(* A page of a file is one of its image's, with the bias.                  *)
LEMMA ImageIs ==
    ASSUME NEW p \in Progs
    PROVE  /\ Len(Image[p]) \in Nat
           /\ \A b : \A i \in 1 .. Len(Image[p]) : Image[p][i] + b \in PagesAt(p, b)
           /\ \A b : \A q \in PagesAt(p, b) :
                \E i \in 1 .. Len(Image[p]) : q = Image[p][i] + b
BY ImageAssumption, LenProperties DEF PagesAt

(* What elf_unload will walk are pages of the buffer's file.               *)
LEMMA HoldsIs ==
    ASSUME TypeOK, NEW t \in Tasks, buf \in Progs, prog[t] \in Progs
    PROVE  /\ Size[prog[t]] \in Sizes /\ active[Size[prog[t]]] \in {0, Bias}
           /\ bias[t] \in {0, Bias}
           /\ Holds(t) \subseteq ImagePages /\ Holds(t) \subseteq Pages
<1>1. Size[prog[t]] \in Sizes /\ bias[t] \in {0, Bias}
  BY DEF Sizes, TypeOK
<1>2. active[Size[prog[t]]] \in {0, Bias}
  BY <1>1 DEF TypeOK
<1> QED BY <1>1, <1>2, Layout DEF Holds

(* The pages below the break lie in the heap window.                       *)
LEMMA HeapInWindow ==
    ASSUME TypeOK, UsrInv
    PROVE  HeapInUse \subseteq HeapPages
<1>1. ASSUME heap PROVE HeapInUse \subseteq HeapPages
  <2>1. brk \in Nat /\ brk <= 2 * HeapHi /\ HeapLo \in Nat /\ HeapHi \in Nat
    BY LayoutAssumption DEF TypeOK
  <2>2. Up(brk) - 1 <= HeapHi - 1
    BY <2>1 DEF Up
  <2>3. HeapInUse = HeapLo .. Up(brk) - 1
    BY <1>1 DEF HeapInUse
  <2>4. Up(brk) \in Int
    BY <2>1 DEF Up
  <2> QED BY <2>1, <2>2, <2>3, <2>4 DEF HeapPages
<1>2. ~heap => HeapInUse = {}
  BY DEF HeapInUse
<1> QED BY <1>1, <1>2

(* The pages of the break and of the mmap entries lie in the heap window   *)
(* and the mmap area.                                                      *)
LEMMA TakenInAreas ==
    ASSUME TypeOK, UsrInv
    PROVE  /\ Taken \subseteq HeapPages \cup MmapPages /\ Taken \subseteq OwnPages
           /\ HeapInUse \subseteq HeapPages /\ \A i \in Slots : mtab[i] \subseteq MmapPages
<1>1. HeapInUse \subseteq HeapPages
  BY HeapInWindow
<1>2. \A i \in Slots : mtab[i] \subseteq MmapPages
  BY DEF TypeOK
<1> QED BY <1>1, <1>2, Layout DEF Taken

(* Unmapping pages of no stack frees what they mapped and forgets that     *)
(* faults mapped them.                                                     *)
LEMMA UnmapEffect ==
    ASSUME TypeOK, OwnInv, DemandInv, NEW P \in SUBSET OwnPages, UnmapNow(P), alias' = alias
    PROVE  /\ frame' \in FrameMaps /\ used' \in SUBSET Frames
           /\ tables' = tables /\ lost' = lost /\ demand' = demand \ P
           /\ \A q \in Pages : frame'[q] = IF q \in P THEN 0 ELSE frame[q]
           /\ OwnInv' /\ DemandInv'
<1> DEFINE m == Unmap(Memory(frame), P)
<1>1. /\ m.frame = [q \in Pages |-> IF q \in P THEN 0 ELSE frame[q]]
      /\ m.used = used \ {frame[q] : q \in P} /\ m.tables = tables
  BY DEF Unmap, Memory
<1>2. /\ frame' = [q \in Pages |-> IF q \in P THEN 0 ELSE frame[q]]
      /\ used' = used \ {frame[q] : q \in P} /\ tables' = tables
      /\ demand' = demand \ P /\ lost' = lost
  BY <1>1 DEF UnmapNow, SetMemory
<1> HIDE DEF m
<1>3. /\ frame \in FrameMaps /\ used \in SUBSET Frames /\ tables \in TableMaps
      /\ alias \in AliasMaps /\ lost \in SUBSET Frames
  BY DEF TypeOK, FrameMaps, TableMaps, AliasMaps
<1>4. frame' \in FrameMaps /\ used' \in SUBSET Frames
  BY <1>2, <1>3 DEF FrameMaps
<1>5. \A q \in Pages : frame'[q] = IF q \in P THEN 0 ELSE frame[q]
  BY <1>2
<1>6. Sound(frame', used', tables, alias, lost)
  <2>1. PICK fr \in FrameMaps, us \in SUBSET Frames, tb \in TableMaps, al \in AliasMaps,
             lo \in SUBSET Frames, fr2 \in FrameMaps, us2 \in SUBSET Frames :
          /\ fr = frame /\ us = used /\ tb = tables /\ al = alias /\ lo = lost
          /\ fr2 = frame' /\ us2 = used'
    BY <1>3, <1>4
  <2>2. Sound(fr, us, tb, al, lo)
    BY <2>1 DEF OwnInv
  <2>3. /\ us2 = us \ {fr[p] : p \in P}
        /\ \A q \in Pages : fr2[q] = IF q \in P THEN 0 ELSE fr[q]
    BY <1>2, <1>5, <2>1
  <2>4. Sound(fr2, us2, tb, al, lo)
    BY <2>2, <2>3, SoundUnmap
  <2> QED BY <2>1, <2>4
<1>7. OwnInv'
  BY <1>2, <1>6 DEF OwnInv
<1>8. DemandInv'
  BY <1>2, <1>5 DEF DemandInv, TypeOK
<1> QED BY <1>2, <1>4, <1>5, <1>7, <1>8

(* A loop that maps pages maps all of them, in frames that were free, or   *)
(* none.                                                                   *)
LEMMA MapEffect ==
    ASSUME TypeOK, OwnInv, DemandInv, NEW lo \in Nat, NEW hi \in Nat, lo <= hi,
           lo .. hi - 1 \subseteq OwnPages,
           MapOrRollBack(lo, hi), UNCHANGED <<alias, lost, demand>>
    PROVE  /\ frame' \in FrameMaps /\ used' \in SUBSET Frames /\ tables' \in TableMaps
           /\ OwnInv' /\ DemandInv'
           /\ \A q \in Pages : q \notin lo .. hi - 1 => frame'[q] = frame[q]
           /\ MapPages(lo, hi).ok =>
                \A q \in lo .. hi - 1 : frame[q] = 0 /\ frame'[q] \in Frames \ used
           /\ ~MapPages(lo, hi).ok => \A q \in Pages : frame'[q] = frame[q]
<1>1. PICK m : m = MapPages(lo, hi)
  OBVIOUS
<1>9. Extends(m, lo, hi - lo)
  BY <1>1, MapPagesIs
<1>2. /\ m \in Memories
      /\ Sound(m.frame, m.used, m.tables, alias, lost)
      /\ m.done \in 0 .. hi - lo
      /\ m.ok => m.done = hi - lo
      /\ \A q \in Pages : IF q \in lo .. lo + m.done - 1
                          THEN frame[q] = 0 /\ m.frame[q] \in Frames \ used
                          ELSE m.frame[q] = frame[q]
  BY <1>9 DEF Extends
<1>3. /\ m.frame \in FrameMaps /\ m.used \in SUBSET Frames /\ m.tables \in TableMaps
      /\ alias \in AliasMaps /\ lost \in SUBSET Frames /\ m.ok \in BOOLEAN
      /\ frame \in FrameMaps
  BY <1>2 DEF Memories, TypeOK, FrameMaps, AliasMaps
<1>4. lo .. hi - 1 \subseteq Pages
  BY Layout
<1>5. CASE m.ok
  <2>1. frame' = m.frame /\ used' = m.used /\ tables' = m.tables
    BY <1>1, <1>5 DEF MapOrRollBack, SetMemory
  <2>2. lo + m.done - 1 = hi - 1
    BY <1>2, <1>5
  <2>3. OwnInv'
    BY <1>2, <2>1 DEF OwnInv
  <2>4. \A q \in lo .. hi - 1 : frame[q] = 0 /\ frame'[q] \in Frames \ used
    BY <1>2, <1>4, <2>1, <2>2
  <2>5. \A q \in Pages : q \notin lo .. hi - 1 => frame'[q] = frame[q]
    BY <1>2, <2>1, <2>2
  <2>6. DemandInv'
    BY <1>4, <2>4, <2>5 DEF DemandInv, TypeOK
  <2> QED BY <1>1, <1>3, <1>5, <2>1, <2>3, <2>4, <2>5, <2>6
<1>6. CASE ~m.ok
  <2> DEFINE P == lo .. lo + m.done - 1
             n == Unmap(m, P)
  <2>1. /\ n.frame = [q \in Pages |-> IF q \in P THEN 0 ELSE m.frame[q]]
        /\ n.used = m.used \ {m.frame[q] : q \in P} /\ n.tables = m.tables
    BY <1>2 DEF Unmap, Memories
  <2>2. frame' = n.frame /\ used' = n.used /\ tables' = n.tables
    BY <1>1, <1>6 DEF MapOrRollBack, SetMemory
  <2> HIDE DEF n
  <2>3. P \in SUBSET OwnPages
    BY <1>2
  <2>4. frame' \in FrameMaps /\ used' \in SUBSET Frames
    BY <1>3, <2>1, <2>2 DEF FrameMaps
  <2>5. \A q \in Pages : frame'[q] = IF q \in P THEN 0 ELSE m.frame[q]
    BY <2>1, <2>2
  <2>6. Sound(frame', used', m.tables, alias, lost)
    <3>1. PICK fr \in FrameMaps, us \in SUBSET Frames, tb \in TableMaps, al \in AliasMaps,
               ls \in SUBSET Frames, fr2 \in FrameMaps, us2 \in SUBSET Frames :
            /\ fr = m.frame /\ us = m.used /\ tb = m.tables /\ al = alias /\ ls = lost
            /\ fr2 = frame' /\ us2 = used'
      BY <1>3, <2>4
    <3>2. Sound(fr, us, tb, al, ls)
      BY <1>2, <3>1
    <3>3. /\ us2 = us \ {fr[p] : p \in P}
          /\ \A q \in Pages : fr2[q] = IF q \in P THEN 0 ELSE fr[q]
      BY <2>1, <2>2, <2>5, <3>1
    <3>4. Sound(fr2, us2, tb, al, ls)
      BY <2>3, <3>2, <3>3, SoundUnmap
    <3> QED BY <3>1, <3>4
  <2>7. OwnInv'
    BY <2>1, <2>2, <2>6 DEF OwnInv
  <2>8. \A q \in Pages : frame'[q] = frame[q]
    BY <1>2, <2>5
  <2>9. DemandInv'
    BY <2>8 DEF DemandInv, TypeOK
  <2> QED BY <1>1, <1>3, <1>6, <2>1, <2>2, <2>4, <2>7, <2>8, <2>9
<1> QED BY <1>3, <1>5, <1>6

-----------------------------------------------------------------------------
(* The steps of cmd_exec and of the program that move a task on and touch  *)
(* no memory, and the timer's.                                             *)

(* What a load has noted is an image page and the frame it took for it.    *)
LEMMA GotIs ==
    ASSUME TypeOK, NEW t \in Tasks
    PROVE  /\ Len(got[t]) \in Nat
           /\ \A i \in 1 .. Len(got[t]) :
                got[t][i][1] \in ImagePages /\ got[t][i][2] \in Frames
           /\ GotFrames(t) \in SUBSET Frames /\ GotPages(t) \in SUBSET ImagePages
<1>1. got[t] \in Seq(ImagePages \X Frames)
  BY DEF TypeOK
<1>2. Len(got[t]) \in Nat
  BY <1>1, LenProperties
<1>3. ASSUME NEW i \in 1 .. Len(got[t])
      PROVE  got[t][i][1] \in ImagePages /\ got[t][i][2] \in Frames
  <2>1. got[t][i] \in ImagePages \X Frames
    BY <1>1, ElementOfSeq
  <2> QED BY <2>1
<1> QED BY <1>2, <1>3 DEF GotFrames, GotPages

(* A load notes no page of the stack window.                               *)
LEMMA GotOwn ==
    ASSUME TypeOK, GotInv, NEW t \in Tasks
    PROVE  /\ \A i \in 1 .. Len(got[t]) : got[t][i][1] \in OwnPages
           /\ GotPages(t) \subseteq OwnPages
<1>1. \A i \in 1 .. Len(got[t]) : got[t][i][1] \in OwnPages
  BY GotIs, Layout DEF GotInv, OwnPages
<1> QED BY <1>1 DEF GotPages

(* The frames that a load has noted are in use.                            *)
LEMMA GotInUse ==
    ASSUME TypeOK, OwnInv, GotInv, NEW t \in Tasks
    PROVE  /\ GotFrames(t) \subseteq used /\ 0 \notin GotFrames(t)
           /\ \A f \in GotFrames(t) : f \in lost \/ \E p \in OwnPages : frame[p] = f
<1>1. ASSUME NEW i \in 1 .. Len(got[t])
      PROVE  /\ got[t][i][2] \in used /\ got[t][i][2] \in Frames
             /\ got[t][i][2] \in lost \/ \E p \in OwnPages : frame[p] = got[t][i][2]
  <2>1. got[t][i][1] \in OwnPages /\ got[t][i][2] \in Frames
    BY GotIs, GotOwn
  <2>2. frame[got[t][i][1]] = got[t][i][2] \/ got[t][i][2] \in lost
    BY DEF GotInv
  <2> QED BY <2>1, <2>2 DEF OwnInv, Sound, Accounts
<1> QED BY <1>1, FrameNotZero DEF GotFrames

(* The fields of the type invariant that a step leaves alone stay typed.   *)
MemTyped == /\ frame \in FrameMaps /\ used \in SUBSET Frames /\ lost \in SUBSET Frames
            /\ tables \in TableMaps /\ demand \in SUBSET Pages
UsrTyped == /\ heap \in BOOLEAN /\ brk \in 0 .. 2 * HeapHi
            /\ mtab \in [Slots -> SUBSET MmapPages] /\ bump \in MmapLo .. MmapHi
CmdTyped == /\ buf \in Progs \cup {None} /\ stage \in [Tasks -> Stages]
            /\ prog \in [Tasks -> Progs \cup {None}]
            /\ got \in [Tasks -> Seq(ImagePages \X Frames)] /\ alias \in AliasMaps
ElfTyped == /\ bias \in [Tasks -> {0, Bias}] /\ active \in [Sizes -> {0, Bias}]
            /\ ident \subseteq Ident /\ trespass \in BOOLEAN
CpuTyped == /\ cpu \in Tasks /\ outer \in Tasks \cup {None}
            /\ irq \in BOOLEAN /\ mixed \in BOOLEAN

(* The type invariant, by the parts of the state.                          *)
LEMMA TypeParts == TypeOK <=> MemTyped /\ UsrTyped /\ CmdTyped /\ ElfTyped /\ CpuTyped
BY DEF TypeOK, MemTyped, UsrTyped, CmdTyped, ElfTyped, CpuTyped, FrameMaps, TableMaps, AliasMaps

(* Memory that stays as it is keeps its owners.                            *)
LEMMA MemStays ==
    ASSUME UNCHANGED <<frame, used, tables, lost, demand, alias>>
    PROVE  /\ OwnInv => OwnInv'
           /\ DemandInv => DemandInv'
BY DEF OwnInv, Sound, Accounts, DemandInv

(* The stack window stays its owner's while tasks move elsewhere.          *)
LEMMA WindowStays ==
    ASSUME TypeOK, WindowInv, alias' = alias,
           \A p \in StackPages : frame'[p] = frame[p],
           \A t \in Tasks : /\ stage'[t] \in HasStack <=> stage[t] \in HasStack
                            /\ stage'[t] = "backed" => stage[t] = "backed"
    PROVE  WindowInv'
BY DEF WindowInv, StackSize

(* What loads hold stays as it is while no load goes on, and no task       *)
(* begins or ends one: the pages that a load has noted stay, and what is   *)
(* mapped anew is no frame of the suspended exec.                          *)
LEMMA GotKept ==
    ASSUME TypeOK, GotInv, UNCHANGED <<got, cpu, outer, buf, prog, bias, active, lost>>,
           \A t \in Tasks : \A i \in 1 .. Len(got[t]) :
             \/ frame'[got[t][i][1]] = frame[got[t][i][1]]
             \/ got[t][i][2] \in lost,
           outer # None =>
             /\ \A q \in Pages : frame'[q] = frame[q] \/ frame'[q] \notin GotFrames(outer)
             /\ \A q \in Taken' : q \in Taken \/ frame'[q] \notin GotFrames(outer),
           Taken \subseteq Pages,
           stage'[cpu] \notin {"idle", "read"} => buf \in Progs /\ prog[cpu] \in Progs,
           outer # None => /\ stage'[cpu] = "loading" => stage[cpu] = "loading"
                           /\ stage'[cpu] \notin BeforeLoaded => stage[cpu] \notin BeforeLoaded
    PROVE  GotInv'
<1>1. /\ GotFrames(outer)' = GotFrames(outer)
      /\ GotFrames(cpu)' = GotFrames(cpu)
  BY DEF GotFrames
<1>2. Holds(cpu)' = Holds(cpu)
  BY DEF Holds, PagesAt
<1>3. \A t \in Tasks : \A i \in 1 .. Len(got'[t]) :
         /\ frame'[got'[t][i][1]] = got'[t][i][2] \/ got'[t][i][2] \in lost'
         /\ got'[t][i][1] \notin StackPages
  BY DEF GotInv
<1>4. ASSUME outer' # None
      PROVE  /\ GotFrames(outer)' \cap GotFrames(cpu)' = {}
             /\ (stage'[cpu'] = "loading" =>
                  \A i \in 1 .. Len(got'[cpu']) :
                    /\ i <= Len(Image[buf'])
                    /\ frame'[Image[buf'][i] + bias'[cpu']] \notin GotFrames(outer)')
             /\ (stage'[cpu'] \notin BeforeLoaded =>
                  \A p \in Holds(cpu)' : frame'[p] \notin GotFrames(outer)')
             /\ \A p \in Taken' : frame'[p] \notin GotFrames(outer)'
  <2>1. outer # None /\ cpu \in Tasks
    BY <1>4 DEF TypeOK
  <2>2. ASSUME stage'[cpu] = "loading", NEW i \in 1 .. Len(got[cpu])
        PROVE  /\ i <= Len(Image[buf])
               /\ frame'[Image[buf][i] + bias[cpu]] \notin GotFrames(outer)
    <3>1. /\ i <= Len(Image[buf]) /\ buf \in Progs /\ prog[cpu] \in Progs
          /\ frame[Image[buf][i] + bias[cpu]] \notin GotFrames(outer)
      BY <2>1, <2>2 DEF GotInv
    <3>2. Image[buf][i] + bias[cpu] \in Pages
      <4>1. Len(got[cpu]) \in Nat /\ Len(Image[buf]) \in Nat /\ bias[cpu] \in {0, Bias}
        BY <2>1, <3>1, GotIs, ImageIs, HoldsIs
      <4>2. i \in 1 .. Len(Image[buf])
        BY <3>1, <4>1
      <4> QED BY <3>1, <4>1, <4>2, ImageIs, Layout
    <3> QED BY <2>1, <3>1, <3>2
  <2>3. ASSUME stage'[cpu] \notin BeforeLoaded, NEW p \in Holds(cpu)
        PROVE  frame'[p] \notin GotFrames(outer)
    <3>1. p \in Pages
      BY <2>1, <2>3, HoldsIs DEF BeforeLoaded
    <3> QED BY <2>1, <2>3, <3>1 DEF GotInv
  <2>4. ASSUME NEW p \in Taken' PROVE frame'[p] \notin GotFrames(outer)
    BY <2>1 DEF GotInv
  <2>5. GotFrames(outer) \cap GotFrames(cpu) = {}
    BY <2>1 DEF GotInv
  <2> QED BY <1>1, <1>2, <2>2, <2>3, <2>4, <2>5
<1> QED BY <1>3, <1>4 DEF GotInv

Moves == {<<"loaded", "free">>, <<"loaded", "unload">>, <<"free", "unload">>,
          <<"ready", "exited">>, <<"ready", "user">>, <<"user", "exited">>}

(* The running task goes on without touching memory: CheckStack,           *)
(* CheckOnly, BackStack without frames, ArgsTooLong, Enter and UserExit.   *)
LEMMA MoveKeeps ==
    ASSUME IInv, NEW a, NEW b, <<a, b>> \in Moves, stage[cpu] = a,
           stage' = [stage EXCEPT ![cpu] = b], irq' \in BOOLEAN,
           UNCHANGED <<frame, used, tables, lost, demand, heap, brk, mtab, bump,
                       buf, prog, got, bias, active, ident, trespass, alias, cpu, outer, mixed>>
    PROVE  IInv'
<1>1. /\ TypeOK /\ OwnInv /\ TaskInv /\ WindowInv /\ GotInv /\ UsrInv
      /\ DemandInv /\ CleanInv
  BY DEF IInv
<1>2. /\ cpu \in Tasks /\ stage \in [Tasks -> Stages]
      /\ \A t \in Tasks : stage'[t] = IF t = cpu THEN b ELSE stage[t]
  BY <1>1 DEF TypeOK
<1>3. /\ (a = "loaded" /\ b = "free") \/ (a = "loaded" /\ b = "unload")
         \/ (a = "free" /\ b = "unload")
         \/ (a = "ready" /\ b = "exited") \/ (a = "ready" /\ b = "user")
         \/ (a = "user" /\ b = "exited")
  BY DEF Moves
<1>4. TypeOK'
  <2>1. CmdTyped' /\ ElfTyped' /\ CpuTyped'
    BY <1>1, <1>2, <1>3, TypeParts DEF CmdTyped, ElfTyped, CpuTyped, Stages
  <2>2. MemTyped' /\ UsrTyped'
    BY <1>1, TypeParts DEF MemTyped, UsrTyped
  <2> QED BY <2>1, <2>2 DEF TypeOK, MemTyped, UsrTyped, CmdTyped, ElfTyped, CpuTyped,
                            FrameMaps, TableMaps, AliasMaps
<1>5. OwnInv' /\ DemandInv'
  BY <1>1, MemStays
<1>6. TaskInv'
  BY <1>1, <1>2, <1>3 DEF TaskInv, HasStack
<1>7. WindowInv'
  <2>1. \A t \in Tasks : /\ stage'[t] \in HasStack <=> stage[t] \in HasStack
                         /\ stage'[t] = "backed" => stage[t] = "backed"
    BY <1>2, <1>3 DEF HasStack
  <2> QED BY <1>1, <2>1, WindowStays
<1>8. GotInv'
  <2>1. Taken' = Taken /\ Taken \subseteq Pages
    BY <1>1, TakenInAreas, Layout DEF Taken, HeapInUse, Up
  <2>2. stage'[cpu] \notin {"idle", "read", "loading"} /\ stage[cpu] \notin BeforeLoaded
    BY <1>2, <1>3 DEF BeforeLoaded
  <2>3. buf \in Progs /\ prog[cpu] \in Progs
    BY <1>1, <1>2, <2>2 DEF TaskInv, BeforeLoaded
  <2> QED BY <1>1, <2>1, <2>2, <2>3, GotKept
<1>9. UsrInv'
  <2>1. HeapInUse' = HeapInUse
    BY DEF HeapInUse, Up
  <2>2. CASE a \in {"loaded", "free"}
    BY <1>1, <1>2, <1>3, <2>1, <2>2 DEF UsrInv
  <2>3. CASE a = "user"
    BY <1>1, <1>2, <1>3, <2>1, <2>3 DEF UsrInv
  <2>4. CASE a = "ready"
    <3>1. heap /\ brk = 2 * HeapLo
      BY <1>1, <1>2, <2>4 DEF UsrInv
    <3>2. ASSUME NEW s \in Tasks, s # cpu PROVE stage[s] \notin HasStack
      BY <1>1, <1>2, <2>4, <3>2 DEF WindowInv, HasStack
    <3>3. bump = MmapLo /\ \A i \in Slots : mtab[i] = {}
      BY <1>1, <1>2, <2>4, <3>2 DEF UsrInv, HasStack
    <3>4. HeapInUse = {}
      <4>1. HeapLo \in Nat
        BY LayoutAssumption
      <4>2. Up(brk) = HeapLo
        BY <3>1, <4>1 DEF Up
      <4> QED BY <3>1, <4>1, <4>2 DEF HeapInUse
    <3>5. \E t \in Tasks : stage'[t] \in {"ready", "user", "exited"}
      BY <1>2, <1>3, <2>4
    <3>6. \A t \in Tasks : stage'[t] # "ready" 
      BY <1>2, <1>3, <2>4, <3>2 DEF HasStack
    <3> QED BY <1>1, <1>2, <1>3, <2>1, <2>4, <3>1, <3>3, <3>4, <3>5, <3>6 DEF UsrInv
  <2> QED BY <1>3, <2>2, <2>3, <2>4
<1>10. CleanInv'
  <2>1. HeapInUse' = HeapInUse
    BY DEF HeapInUse, Up
  <2>2. ASSUME NEW t \in Tasks
        PROVE  /\ LoadedPages(t)' = LoadedPages(t)
               /\ HeadersFit(t)' <=> HeadersFit(t)
               /\ stage'[t] # "idle" <=> stage[t] # "idle"
               /\ stage'[t] \notin {"idle", "read"} <=> stage[t] \notin {"idle", "read"}
    BY <1>2, <1>3 DEF LoadedPages, GotPages, Holds, PagesAt, HeadersFit, HeaderEnd
  <2>3. (outer # None => stage[cpu] = "idle") => outer = None
    BY <1>3
  <2> QED BY <1>1, <1>2, <2>1, <2>2, <2>3 DEF CleanInv
<1> QED BY <1>4, <1>5, <1>6, <1>7, <1>8, <1>9, <1>10 DEF IInv


(* Heap and mmap pages belong to a task that has run a program.            *)
LEMMA TakenByOwner ==
    ASSUME UsrInv, Taken # {}
    PROVE  \E t \in Tasks : stage[t] \in {"ready", "user", "exited", "reset"}
<1>1. CASE HeapInUse # {}
  BY <1>1 DEF UsrInv, HeapInUse
<1>2. CASE \E i \in Slots : mtab[i] # {}
  BY <1>2 DEF UsrInv
<1> QED BY <1>1, <1>2 DEF Taken

(* The timer and the loop of an idle task hand the processor over; a task  *)
(* inside cmd_exec is the one that runs or the one that is suspended.      *)
LEMMA SwitchKeeps ==
    ASSUME IInv, UNCHANGED <<mem, lost, demand, usr, cmd, elf, stage, mixed>>,
           cpu' \in Tasks, outer' \in Tasks \cup {None}, irq' \in BOOLEAN,
           \A t \in Tasks : stage[t] # "idle" => t \in {cpu', outer'},
           outer' # None => /\ outer' # cpu' /\ stage[cpu'] = "idle"
                            /\ stage[outer'] \notin {"idle", "user"}
    PROVE  IInv'
<1>1. /\ TypeOK /\ OwnInv /\ TaskInv /\ WindowInv /\ GotInv /\ UsrInv
      /\ DemandInv /\ CleanInv
  BY DEF IInv
<1>2. UNCHANGED <<frame, used, tables, lost, demand, heap, brk, mtab, bump, buf, prog,
                  got, bias, active, ident, trespass, alias, stage, mixed>>
  BY DEF mem, usr, cmd, elf
<1>3. TypeOK'
  BY <1>1, <1>2 DEF TypeOK
<1>4. OwnInv' /\ DemandInv'
  BY <1>1, <1>2, MemStays
<1>5. TaskInv'
  BY <1>1, <1>2 DEF TaskInv
<1>6. WindowInv'
  BY <1>1, <1>2, WindowStays
<1>7. GotInv'
  <2>1. \A t \in Tasks : \A i \in 1 .. Len(got'[t]) :
          /\ frame'[got'[t][i][1]] = got'[t][i][2] \/ got'[t][i][2] \in lost'
          /\ got'[t][i][1] \notin StackPages
    BY <1>1, <1>2 DEF GotInv
  <2>2. ASSUME outer' # None
        PROVE  /\ GotFrames(cpu)' = {} /\ stage'[cpu'] = "idle"
               /\ Taken' # {} => GotFrames(outer)' = {}
    <3>1. stage'[cpu'] = "idle" /\ stage[cpu'] = "idle"
      BY <1>2, <2>2
    <3>2. got'[cpu'] = <<>>
      BY <1>1, <1>2, <3>1 DEF TaskInv
    <3>3. ASSUME Taken' # {} PROVE got'[outer'] = <<>>
      <4>1. Taken = Taken'
        BY <1>2 DEF Taken, HeapInUse, Up
      <4>2. PICK t \in Tasks : stage[t] \in {"ready", "user", "exited", "reset"}
        BY <1>1, <3>3, <4>1, TakenByOwner
      <4>3. t = outer'
        BY <3>1, <4>2
      <4> QED BY <1>1, <1>2, <4>2, <4>3 DEF TaskInv
    <3> QED BY <3>1, <3>2, <3>3 DEF GotFrames
  <2>3. ASSUME outer' # None, NEW p \in Taken' PROVE frame'[p] \notin GotFrames(outer)'
    BY <2>2, <2>3
  <2> QED BY <2>1, <2>2, <2>3 DEF GotInv, BeforeLoaded
<1>8. UsrInv'
  BY <1>1, <1>2 DEF UsrInv, HeapInUse, Up
<1>9. CleanInv'
  <2>1. HeapInUse' = HeapInUse
    BY <1>2 DEF HeapInUse, Up
  <2>2. ASSUME NEW t \in Tasks
        PROVE  LoadedPages(t)' = LoadedPages(t) /\ (HeadersFit(t)' <=> HeadersFit(t))
    BY <1>2 DEF LoadedPages, GotPages, Holds, PagesAt, HeadersFit, HeaderEnd
  <2> QED BY <1>1, <1>2, <2>1, <2>2 DEF CleanInv
<1> QED BY <1>3, <1>4, <1>5, <1>6, <1>7, <1>8, <1>9 DEF IInv

(* Preempt, Resume and Yield.                                              *)
LEMMA TimerKeeps ==
    ASSUME IInv, Resume \/ \E t \in Tasks : Preempt(t) \/ Yield(t)
    PROVE  IInv'
<1>1. TypeOK /\ TaskInv /\ None \notin Tasks
  BY ImageAssumption DEF IInv
<1>2. /\ cpu \in Tasks /\ outer \in Tasks \cup {None}
      /\ \A t \in Tasks : stage[t] # "idle" => t = cpu \/ t = outer
      /\ outer # None => outer # cpu /\ stage[outer] \notin {"idle", "user"}
  BY <1>1 DEF TypeOK, TaskInv
<1>3. CASE Resume
  <2>1. UNCHANGED <<mem, lost, demand, usr, cmd, elf, stage, mixed>>
    BY <1>3 DEF Resume
  <2>2. /\ cpu' \in Tasks /\ outer' = None /\ irq' \in BOOLEAN
        /\ \A t \in Tasks : stage[t] # "idle" => t \in {cpu', outer'}
    BY <1>2, <1>3 DEF Resume
  <2> QED BY <2>1, <2>2, SwitchKeeps
<1>4. ASSUME NEW t \in Tasks, Preempt(t) PROVE IInv'
  <2>1. UNCHANGED <<mem, lost, demand, usr, cmd, elf, stage, mixed>>
    BY <1>4 DEF Preempt
  <2>2. /\ cpu' = t /\ irq' \in BOOLEAN /\ t # cpu /\ outer = None /\ stage[cpu] # "user"
        /\ outer' = IF stage[cpu] = "idle" THEN None ELSE cpu
    BY <1>4 DEF Preempt
  <2>3. stage[t] = "idle"
    BY <1>1, <1>2, <2>2
  <2>4. /\ outer' \in Tasks \cup {None}
        /\ \A s \in Tasks : stage[s] # "idle" => s \in {cpu', outer'}
        /\ outer' # None => /\ outer' # cpu' /\ stage[cpu'] = "idle"
                            /\ stage[outer'] \notin {"idle", "user"}
    BY <1>1, <1>2, <2>2, <2>3
  <2> QED BY <2>1, <2>2, <2>4, SwitchKeeps
<1>5. ASSUME NEW t \in Tasks, Yield(t) PROVE IInv'
  <2>1. UNCHANGED <<mem, lost, demand, usr, cmd, elf, stage, mixed>>
    BY <1>5 DEF Yield
  <2>2. /\ cpu' = t /\ irq' \in BOOLEAN /\ outer' = None /\ outer = None
        /\ stage[cpu] = "idle"
    BY <1>5 DEF Yield
  <2>3. \A s \in Tasks : stage[s] # "idle" => s \in {cpu', outer'}
    BY <1>1, <1>2, <2>2
  <2> QED BY <2>1, <2>2, <2>3, SwitchKeeps
<1> QED BY <1>3, <1>4, <1>5

(* A file is read into the shared buffer: no load of this task, and no     *)
(* claim about the buffer that another task's load still needs.            *)
LEMMA ReadKeeps ==
    ASSUME IInv, NEW t \in Tasks, NEW p \in Progs, Read(t, p)
    PROVE  IInv'
<1>1. /\ TypeOK /\ OwnInv /\ TaskInv /\ WindowInv /\ GotInv /\ UsrInv
      /\ DemandInv /\ CleanInv
  BY DEF IInv
<1>2. /\ UNCHANGED <<frame, used, tables, lost, demand, heap, brk, mtab, bump, got, bias,
                     active, ident, trespass, alias, cpu, outer, irq>>
      /\ buf' = p /\ prog' = [prog EXCEPT ![t] = p] /\ mixed' = (mixed \/ outer # None)
      /\ cpu = t /\ stage[t] = "idle" /\ stage' = [stage EXCEPT ![t] = "read"]
  BY DEF Read, At, Goto, mem, usr, elf
<1>3. /\ stage \in [Tasks -> Stages]
      /\ \A s \in Tasks : stage'[s] = IF s = t THEN "read" ELSE stage[s]
      /\ \A s \in Tasks : prog'[s] = IF s = t THEN p ELSE prog[s]
  BY <1>1, <1>2 DEF TypeOK
<1>4. TypeOK'
  <2>1. CmdTyped' /\ CpuTyped' /\ ElfTyped'
    BY <1>1, <1>2, <1>3, TypeParts DEF CmdTyped, CpuTyped, ElfTyped, Stages
  <2>2. MemTyped' /\ UsrTyped'
    BY <1>1, <1>2, TypeParts DEF MemTyped, UsrTyped
  <2> QED BY <2>1, <2>2 DEF TypeOK, MemTyped, UsrTyped, CmdTyped, ElfTyped, CpuTyped,
                            FrameMaps, TableMaps, AliasMaps
<1>5. OwnInv' /\ DemandInv'
  BY <1>1, <1>2, MemStays
<1>6. TaskInv'
  BY <1>1, <1>2, <1>3 DEF TaskInv, HasStack
<1>7. WindowInv'
  <2>1. \A s \in Tasks : /\ stage'[s] \in HasStack <=> stage[s] \in HasStack
                         /\ stage'[s] = "backed" => stage[s] = "backed"
    BY <1>2, <1>3 DEF HasStack
  <2> QED BY <1>1, <1>2, <2>1, WindowStays
<1>8. GotInv'
  <2>1. GotFrames(outer)' = GotFrames(outer) /\ GotFrames(cpu)' = GotFrames(cpu)
    BY <1>2 DEF GotFrames
  <2>2. stage'[cpu'] = "read" /\ Taken' = Taken
    BY <1>2, <1>3 DEF Taken, HeapInUse, Up
  <2>3. \A s \in Tasks : \A i \in 1 .. Len(got'[s]) :
          /\ frame'[got'[s][i][1]] = got'[s][i][2] \/ got'[s][i][2] \in lost'
          /\ got'[s][i][1] \notin StackPages
    BY <1>1, <1>2 DEF GotInv
  <2>4. outer' # None => /\ GotFrames(outer)' \cap GotFrames(cpu)' = {}
                         /\ \A q \in Taken' : frame'[q] \notin GotFrames(outer)'
    BY <1>1, <1>2, <2>1, <2>2 DEF GotInv
  <2> QED BY <2>2, <2>3, <2>4 DEF GotInv, BeforeLoaded
<1>9. UsrInv'
  <2>1. HeapInUse' = HeapInUse
    BY <1>2 DEF HeapInUse, Up
  <2> QED BY <1>1, <1>2, <1>3, <2>1 DEF UsrInv
<1>10. CleanInv'
  <2>1. HeapInUse' = HeapInUse
    BY <1>2 DEF HeapInUse, Up
  <2>2. ASSUME ~mixed'
        PROVE  outer = None /\ ~mixed /\ \A s \in Tasks : s # t => stage[s] = "idle"
    BY <1>1, <1>2, <2>2, ImageAssumption DEF TaskInv
  <2>3. ASSUME ~mixed', NEW s \in Tasks PROVE got[s] = <<>>
    BY <1>1, <1>2, <2>2, <2>3 DEF TaskInv
  <2>4. ASSUME ~mixed', NEW s \in Tasks PROVE LoadedPages(s) = {}
    BY <1>2, <2>2, <2>4 DEF LoadedPages
  <2>5. ASSUME ~mixed'
        PROVE  \A q \in OwnPages : frame[q] # 0 =>
                 q \in demand \cup HeapInUse \cup UNION {mtab[i] : i \in Slots}
    BY <1>1, <2>2, <2>4, <2>5 DEF CleanInv
  <2>6. ASSUME ~mixed'
        PROVE  /\ outer' # None => stage'[cpu'] = "idle"
               /\ \A s \in Tasks : /\ stage'[s] # "idle" => prog'[s] = buf'
                                   /\ stage'[s] \in {"idle", "read"}
               /\ \A s \in Tasks : \A i \in 1 .. Len(got'[s]) :
                    i <= Len(Image[buf']) /\ got'[s][i][1] = Image[buf'][i] + bias'[s]
               /\ \A q \in OwnPages : frame'[q] # 0 =>
                    q \in demand' \cup HeapInUse' \cup UNION {mtab'[i] : i \in Slots}
    BY <1>2, <1>3, <2>1, <2>2, <2>3, <2>5, <2>6
  <2> QED BY <2>6 DEF CleanInv
<1> QED BY <1>4, <1>5, <1>6, <1>7, <1>8, <1>9, <1>10 DEF IInv

(* A load begins, is refused, is cut off or ends: what it has noted is     *)
(* forgotten.  At its end, every page of the file is where it put it.      *)
LoadMoves == {<<"read", "loading">>, <<"read", "idle">>, <<"loading", "idle">>,
              <<"loading", "loaded">>}
LEMMA LoadMoveKeeps ==
    ASSUME IInv, NEW t \in Tasks, NEW a, NEW b, <<a, b>> \in LoadMoves,
           cpu = t, stage[t] = a, stage' = [stage EXCEPT ![t] = b],
           UNCHANGED <<frame, used, tables, lost, demand, heap, brk, mtab, bump, buf, alias,
                       ident, trespass, cpu, outer, irq, mixed>>,
           got' = [got EXCEPT ![t] = <<>>],
           bias' \in [Tasks -> {0, Bias}], \A s \in Tasks : s # t => bias'[s] = bias[s],
           active' \in [Sizes -> {0, Bias}],
           b # "idle" => prog' = prog,
           b = "idle" => prog' = [prog EXCEPT ![t] = None],
           b = "loading" => HeadersFit(t),
           <<a, b>> = <<"loading", "idle">> => ~HeadersFit(t),
           b = "loaded" => Len(got[t]) >= Len(Image[buf]) /\ active'[Size[prog[t]]] = bias[t]
    PROVE  IInv'
<1>1. /\ TypeOK /\ OwnInv /\ TaskInv /\ WindowInv /\ GotInv /\ UsrInv
      /\ DemandInv /\ CleanInv
  BY DEF IInv
<1>3. \/ a = "read" /\ b = "loading"
      \/ a = "read" /\ b = "idle"
      \/ a = "loading" /\ b = "idle"
      \/ a = "loading" /\ b = "loaded"
  BY DEF LoadMoves
<1>4. /\ stage \in [Tasks -> Stages] /\ DOMAIN got = Tasks
      /\ \A s \in Tasks : stage'[s] = IF s = t THEN b ELSE stage[s]
      /\ \A s \in Tasks : got'[s] = IF s = t THEN <<>> ELSE got[s]
      /\ \A s \in Tasks : s # t \/ b # "idle" => prog'[s] = prog[s]
      /\ buf \in Progs /\ prog[t] \in Progs
  BY <1>1, <1>3 DEF TypeOK, TaskInv
<1>5. TypeOK'
  <2>1. <<>> \in Seq(ImagePages \X Frames)
    BY EmptySeq
  <2>2. CmdTyped' /\ CpuTyped'
    BY <1>1, <1>3, <1>4, <2>1, TypeParts DEF CmdTyped, CpuTyped, Stages
  <2>3. MemTyped' /\ UsrTyped' /\ ElfTyped'
    BY <1>1, TypeParts DEF MemTyped, UsrTyped, ElfTyped
  <2> QED BY <2>2, <2>3 DEF TypeOK, MemTyped, UsrTyped, CmdTyped, ElfTyped, CpuTyped,
                            FrameMaps, TableMaps, AliasMaps
<1>6. OwnInv' /\ DemandInv'
  BY <1>1, MemStays
<1>7. TaskInv'
  <2>1. \A s \in Tasks : stage'[s] # "idle" =>
          s \in {cpu', outer'} /\ buf' \in Progs /\ prog'[s] \in Progs
    BY <1>1, <1>3, <1>4 DEF TaskInv
  <2>2. outer' # None => outer' # cpu' /\ stage'[outer'] \notin {"idle", "user"}
    BY <1>1, <1>4 DEF TaskInv, TypeOK
  <2> QED BY <1>1, <1>3, <1>4, <2>1, <2>2 DEF TaskInv, HasStack
<1>8. WindowInv'
  <2>1. \A s \in Tasks : /\ stage'[s] \in HasStack <=> stage[s] \in HasStack
                         /\ stage'[s] = "backed" => stage[s] = "backed"
    BY <1>3, <1>4 DEF HasStack
  <2> QED BY <1>1, <2>1, WindowStays
<1>9. GotInv'
  <2>1. \A s \in Tasks : \A i \in 1 .. Len(got'[s]) :
          /\ frame'[got'[s][i][1]] = got'[s][i][2] \/ got'[s][i][2] \in lost'
          /\ got'[s][i][1] \notin StackPages
    <3> SUFFICES ASSUME NEW s \in Tasks, NEW i \in 1 .. Len(got'[s])
                 PROVE  /\ frame'[got'[s][i][1]] = got'[s][i][2] \/ got'[s][i][2] \in lost'
                        /\ got'[s][i][1] \notin StackPages
      OBVIOUS
    <3>1. got'[s] = got[s] /\ s # t
      BY <1>4
    <3> QED BY <1>1, <3>1 DEF GotInv
  <2>2. ASSUME outer' # None
        PROVE  /\ GotFrames(outer)' = GotFrames(outer) /\ GotFrames(cpu)' = {}
               /\ got'[cpu'] = <<>> /\ stage'[cpu'] = b
    <3>1. outer # t /\ outer \in Tasks /\ outer' = outer /\ cpu' = t
      BY <1>1, <2>2 DEF TaskInv, TypeOK
    <3> QED BY <1>4, <3>1 DEF GotFrames
  <2>3. ASSUME outer' # None, stage'[cpu'] \notin BeforeLoaded
        PROVE  \A q \in Holds(cpu)' : frame'[q] \notin GotFrames(outer)'
    <3>1. /\ stage[t] = "loading" /\ Len(got[t]) >= Len(Image[buf])
          /\ active'[Size[prog[t]]] = bias[t] /\ prog' = prog
      BY <1>3, <1>4, <2>2, <2>3 DEF BeforeLoaded
    <3>2. Holds(cpu)' = PagesAt(buf, bias[t])
      BY <3>1 DEF Holds, PagesAt
    <3>3. Len(got[t]) \in Nat
      BY <1>1, GotIs
    <3>4. ASSUME NEW q \in PagesAt(buf, bias[t]) PROVE frame[q] \notin GotFrames(outer)
      <4>1. PICK i \in 1 .. Len(Image[buf]) : q = Image[buf][i] + bias[t]
        BY <1>4, ImageIs
      <4>2. i \in 1 .. Len(got[t])
        BY <1>4, <3>1, <3>3, ImageIs
      <4> QED BY <1>1, <2>3, <3>1, <4>1, <4>2 DEF GotInv
    <3> QED BY <2>2, <2>3, <3>2, <3>4
  <2>4. ASSUME outer' # None PROVE \A q \in Taken' : frame'[q] \notin GotFrames(outer)'
    <3>1. Taken' = Taken
      BY DEF Taken, HeapInUse, Up
    <3> QED BY <1>1, <2>2, <2>4, <3>1 DEF GotInv
  <2> QED BY <2>1, <2>2, <2>3, <2>4 DEF GotInv
<1>10. UsrInv'
  <2>1. HeapInUse' = HeapInUse
    BY DEF HeapInUse, Up
  <2> QED BY <1>1, <1>3, <1>4, <2>1 DEF UsrInv
<1>11. CleanInv'
  <2> SUFFICES ASSUME ~mixed
               PROVE  /\ outer' # None => stage'[cpu'] = "idle"
                      /\ \A s \in Tasks :
                           /\ stage'[s] # "idle" => prog'[s] = buf'
                           /\ stage'[s] \notin {"idle", "read"} => HeadersFit(s)'
                      /\ \A s \in Tasks : \A i \in 1 .. Len(got'[s]) :
                           i <= Len(Image[buf']) /\ got'[s][i][1] = Image[buf'][i] + bias'[s]
                      /\ \A q \in OwnPages : frame'[q] # 0 =>
                           \/ q \in demand' \cup HeapInUse' \cup UNION {mtab'[i] : i \in Slots}
                           \/ \E s \in Tasks : q \in LoadedPages(s)'
    BY DEF CleanInv
  <2>1. HeapInUse' = HeapInUse
    BY DEF HeapInUse, Up
  <2>2. outer = None /\ \A s \in Tasks : s # t => stage[s] = "idle" /\ stage'[s] = "idle"
    <3>1. outer = None
      BY <1>1, <1>3 DEF CleanInv
    <3> QED BY <1>1, <1>4, <3>1, ImageAssumption DEF TaskInv
  <2>3. /\ \A i \in 1 .. Len(got[t]) :
             i <= Len(Image[buf]) /\ got[t][i][1] = Image[buf][i] + bias[t]
        /\ prog[t] = buf /\ (a = "loading" => HeadersFit(t))
    BY <1>1, <1>3 DEF CleanInv
  <2>4. ASSUME NEW s \in Tasks PROVE LoadedPages(s) \subseteq LoadedPages(s)'
    <3>1. CASE s # t
      BY <2>2, <3>1 DEF LoadedPages
    <3>2. CASE s = t /\ stage[t] = "read"
      BY <3>2 DEF LoadedPages
    <3>3. CASE s = t /\ stage[t] = "loading"
      <4>1. LoadedPages(t)' = PagesAt(buf, bias[t])
        BY <1>3, <1>4, <2>3, <3>3 DEF LoadedPages, Holds, PagesAt
      <4>2. LoadedPages(t) = GotPages(t)
        BY <3>3 DEF LoadedPages
      <4>3. ASSUME NEW i \in 1 .. Len(got[t]) PROVE got[t][i][1] \in PagesAt(buf, bias[t])
        <5>1. i \in 1 .. Len(Image[buf])
          BY <1>1, <1>4, <2>3, GotIs, ImageIs
        <5> QED BY <1>4, <2>3, <5>1, ImageIs
      <4> QED BY <3>3, <4>1, <4>2, <4>3 DEF GotPages
    <3> QED BY <1>3, <3>1, <3>2, <3>3
  <2>5. \A s \in Tasks : \A i \in 1 .. Len(got'[s]) :
          i <= Len(Image[buf']) /\ got'[s][i][1] = Image[buf'][i] + bias'[s]
    <3> SUFFICES ASSUME NEW s \in Tasks, NEW i \in 1 .. Len(got'[s]) PROVE FALSE
      OBVIOUS
    <3>1. got'[s] = got[s] /\ s # t
      BY <1>4
    <3> QED BY <1>1, <2>2, <3>1 DEF TaskInv
  <2>6. \A q \in OwnPages : frame[q] # 0 =>
           \/ q \in demand \cup HeapInUse \cup UNION {mtab[i] : i \in Slots}
           \/ \E s \in Tasks : q \in LoadedPages(s)
    BY <1>1 DEF CleanInv
  <2>7. ASSUME NEW s \in Tasks
        PROVE  /\ stage'[s] # "idle" => prog'[s] = buf'
               /\ stage'[s] \notin {"idle", "read"} => HeadersFit(s)'
    <3>1. CASE s # t
      BY <2>2, <3>1
    <3>2. CASE s = t /\ b # "idle"
      <4>1. HeadersFit(t)' <=> HeadersFit(t)
        BY <3>2 DEF HeadersFit, HeaderEnd
      <4> QED BY <1>3, <1>4, <2>3, <3>2, <4>1
    <3>3. CASE s = t /\ b = "idle"
      BY <1>4, <3>3
    <3> QED BY <3>1, <3>2, <3>3
  <2> QED BY <2>1, <2>2, <2>4, <2>5, <2>6, <2>7
<1> QED BY <1>5, <1>6, <1>7, <1>8, <1>9, <1>10, <1>11 DEF IInv

(* Load, LoadCut and Loaded are such steps.                                *)
LEMMA LoadKeeps ==
    ASSUME IInv, NEW t \in Tasks, Load(t) \/ LoadCut(t) \/ Loaded(t)
    PROVE  IInv'
<1>1. TypeOK /\ TaskInv /\ bias \in [Tasks -> {0, Bias}] /\ active \in [Sizes -> {0, Bias}]
  BY DEF IInv, TypeOK
<1>2. CASE Load(t)
  <2>1. /\ cpu = t /\ stage[t] = "read"
        /\ UNCHANGED <<frame, used, tables, lost, demand, heap, brk, mtab, bump, buf, got, alias,
                       active, ident, trespass, cpu, outer, irq, mixed>>
    BY <1>2 DEF Load, At, mem, usr, sched
  <2>2. got' = [got EXCEPT ![t] = <<>>]
    <3>1. got[t] = <<>> /\ DOMAIN got = Tasks /\ got = [s \in Tasks |-> got[s]]
      BY <1>1, <2>1 DEF TaskInv, TypeOK
    <3> QED BY <2>1, <3>1
  <2>3. CASE HeadersFit(t) /\ Extent[buf] <= Size[prog[t]]
    <3>1. /\ bias' = [bias EXCEPT ![t] = BiasOf(buf)] /\ prog' = prog
          /\ stage' = [stage EXCEPT ![t] = "loading"]
      BY <1>2, <2>3 DEF Load, Goto
    <3>2. bias' \in [Tasks -> {0, Bias}] /\ \A s \in Tasks : s # t => bias'[s] = bias[s]
      BY <1>1, <3>1 DEF BiasOf
    <3>3. <<"read", "loading">> \in LoadMoves
      BY DEF LoadMoves
    <3> QED BY <1>1, <2>1, <2>2, <2>3, <3>1, <3>2, <3>3, LoadMoveKeeps
  <2>4. CASE ~(HeadersFit(t) /\ Extent[buf] <= Size[prog[t]])
    <3>1. /\ bias' = bias /\ prog' = [prog EXCEPT ![t] = None]
          /\ stage' = [stage EXCEPT ![t] = "idle"]
      BY <1>2, <2>4 DEF Load, Return, Goto
    <3>2. <<"read", "idle">> \in LoadMoves
      BY DEF LoadMoves
    <3> QED BY <1>1, <2>1, <2>2, <3>1, <3>2, LoadMoveKeeps
  <2> QED BY <2>3, <2>4
<1>3. CASE LoadCut(t)
  <2>1. /\ cpu = t /\ stage[t] = "loading" /\ stage' = [stage EXCEPT ![t] = "idle"]
        /\ prog' = [prog EXCEPT ![t] = None] /\ got' = [got EXCEPT ![t] = <<>>]
        /\ bias' = [bias EXCEPT ![t] = 0]
        /\ UNCHANGED <<frame, used, tables, lost, demand, heap, brk, mtab, bump, buf, alias,
                       active, ident, trespass, cpu, outer, irq, mixed>>
    BY <1>3 DEF LoadCut, At, EndLoad, Return, Goto, mem, usr, sched
  <2>2. bias' \in [Tasks -> {0, Bias}] /\ \A s \in Tasks : s # t => bias'[s] = bias[s]
    BY <1>1, <2>1
  <2>3. ~HeadersFit(t)
    <3>1. buf \in Progs /\ prog[t] \in Progs
      BY <1>1, <2>1 DEF TaskInv
    <3>2. /\ Len(got[t]) \in Nat /\ Len(Image[buf]) \in Nat
          /\ TableAt[buf] \in Nat /\ Size[prog[t]] \in Nat
      BY <1>1, <3>1, GotIs, ImageIs, ImageAssumption
    <3>3. /\ Len(got[t]) + 1 <= Len(Image[buf])
          /\ TableAt[buf] + (Len(got[t]) + 1) > Size[prog[t]]
      BY <1>3 DEF LoadCut, Header, HeaderEnd
    <3> QED BY <3>2, <3>3 DEF HeadersFit, HeaderEnd
  <2>4. <<"loading", "idle">> \in LoadMoves
    BY DEF LoadMoves
  <2> QED BY <1>1, <2>1, <2>2, <2>3, <2>4, LoadMoveKeeps
<1>4. CASE Loaded(t)
  <2>1. /\ cpu = t /\ stage[t] = "loading" /\ stage' = [stage EXCEPT ![t] = "loaded"]
        /\ prog' = prog /\ got' = [got EXCEPT ![t] = <<>>]
        /\ bias' = [bias EXCEPT ![t] = 0]
        /\ active' = [active EXCEPT ![Size[prog[t]]] = bias[t]]
        /\ UNCHANGED <<frame, used, tables, lost, demand, heap, brk, mtab, bump, buf, alias,
                       ident, trespass, cpu, outer, irq, mixed>>
    BY <1>4 DEF Loaded, At, EndLoad, Goto, mem, usr, sched
  <2>2. bias' \in [Tasks -> {0, Bias}] /\ \A s \in Tasks : s # t => bias'[s] = bias[s]
    BY <1>1, <2>1
  <2>3. buf \in Progs /\ prog[t] \in Progs /\ Size[prog[t]] \in Sizes
    BY <1>1, <2>1 DEF TaskInv, Sizes
  <2>4. active' \in [Sizes -> {0, Bias}] /\ active'[Size[prog[t]]] = bias[t]
    BY <1>1, <2>1, <2>3
  <2>5. Len(got[t]) >= Len(Image[buf])
    <3>1. /\ Len(got[t]) \in Nat /\ Len(Image[buf]) \in Nat
      BY <1>1, <2>3, GotIs, ImageIs
    <3> QED BY <1>4, <3>1 DEF Loaded, Header
  <2>6. <<"loading", "loaded">> \in LoadMoves
    BY DEF LoadMoves
  <2> QED BY <1>1, <2>1, <2>2, <2>4, <2>5, <2>6, LoadMoveKeeps
<1> QED BY <1>2, <1>3, <1>4

(* A page that elf_load takes out, with or without the page table that     *)
(* splitting the huge page around it needs.                                *)
LEMMA SplitIs ==
    ASSUME TypeOK, OwnInv, NEW p \in OwnPages, NEW s,
           \/ s = Memory([frame EXCEPT ![p] = 0])
           \/ /\ s = TableFor(Memory([frame EXCEPT ![p] = 0]), "boot", Frames \ used)
              /\ tables["boot"] # 0 \/ Frames \ used # {}
    PROVE  /\ s \in Memories /\ s.frame = [frame EXCEPT ![p] = 0] /\ used \subseteq s.used
           /\ Sound(s.frame, s.used, s.tables, alias, lost \cup ({frame[p]} \ {0}))
           /\ Sound(frame, s.used, s.tables, alias, lost)
<1>1. /\ frame \in FrameMaps /\ used \in SUBSET Frames /\ tables \in TableMaps
      /\ alias \in AliasMaps /\ lost \in SUBSET Frames /\ p \in Pages /\ "boot" \in Areas
  BY DEF TypeOK, FrameMaps, TableMaps, AliasMaps, OwnPages, Areas
<1>2. PICK fr \in FrameMaps : fr = [frame EXCEPT ![p] = 0]
  BY <1>1 DEF FrameMaps
<1>3. PICK lo \in SUBSET Frames, l0 \in SUBSET Frames, al \in AliasMaps :
        lo = lost \cup ({frame[p]} \ {0}) /\ l0 = lost /\ al = alias
  BY <1>1 DEF FrameMaps
<1>4. PICK u, v : u = Memory(fr) /\ v = Memory(frame)
  OBVIOUS
<1>5. /\ u \in Memories /\ u.frame = fr /\ u.used = used /\ u.tables = tables
      /\ v \in Memories /\ v.frame = frame /\ v.used = used /\ v.tables = tables
  BY <1>1, <1>4 DEF Memory, Memories
<1>6. Sound(v.frame, v.used, v.tables, al, l0)
  BY <1>3, <1>5 DEF OwnInv
<1>7. Sound(u.frame, u.used, u.tables, al, lo)
  <2>1. PICK f0 \in FrameMaps, us \in SUBSET Frames, tb \in TableMaps :
          f0 = frame /\ us = used /\ tb = tables
    BY <1>1
  <2>2. Sound(f0, us, tb, al, l0)
    BY <1>5, <1>6, <2>1
  <2>3. Sound([f0 EXCEPT ![p] = 0], us, tb, al, l0 \cup ({f0[p]} \ {0}))
    BY <2>2, SoundLose
  <2> QED BY <1>2, <1>3, <1>5, <2>1, <2>3
<1>8. CASE s = Memory([frame EXCEPT ![p] = 0])
  BY <1>2, <1>3, <1>4, <1>5, <1>6, <1>7, <1>8
<1>9. CASE /\ s = TableFor(Memory([frame EXCEPT ![p] = 0]), "boot", Frames \ used)
           /\ tables["boot"] # 0 \/ Frames \ used # {}
  <2>1. PICK a \in Areas : a = "boot"
    BY <1>1
  <2>2. PICK S \in SUBSET (Frames \ used) : S = Frames \ used
    OBVIOUS
  <2>3. s = TableFor(u, a, S) /\ (u.tables[a] # 0 \/ S # {}) /\ (v.tables[a] # 0 \/ S # {})
    BY <1>2, <1>4, <1>5, <1>9, <2>1, <2>2
  <2>4. /\ s \in Memories /\ Sound(s.frame, s.used, s.tables, al, lo)
        /\ s.frame = u.frame /\ u.used \subseteq s.used
    BY <1>5, <1>7, <2>2, <2>3, TableForIs
  <2>5. PICK w : w = TableFor(v, a, S)
    OBVIOUS
  <2>6. Sound(w.frame, w.used, w.tables, al, l0) /\ w.frame = v.frame
    BY <1>5, <1>6, <2>2, <2>3, <2>5, TableForIs
  <2>7. w.used = s.used /\ w.tables = s.tables
    BY <1>5, <2>3, <2>5 DEF TableFor, Memories
  <2> QED BY <1>2, <1>3, <1>5, <2>4, <2>6, <2>7
<1> QED BY <1>8, <1>9

(* One page of a load: it is mapped to a frame that was free, whatever     *)
(* frame it had before is lost, and the accounts stay sound; or the load   *)
(* unwinds, after a split that leaves a page table behind.                 *)
LEMMA LoadPageIs ==
    ASSUME TypeOK, OwnInv, TaskInv, NEW t \in Tasks, LoadPage(t), ~trespass'
    PROVE  /\ cpu = t /\ stage[t] = "loading" /\ buf \in Progs /\ prog[t] \in Progs
           /\ Len(got[t]) < Len(Image[buf])
           /\ UNCHANGED <<heap, brk, mtab, bump, buf, alias, active, cpu, outer, irq, mixed>>
           /\ ident' \subseteq Ident /\ trespass' \in BOOLEAN
           /\ \E p \in PagesAt(buf, bias[t]) :
                /\ p = Image[buf][Len(got[t]) + 1] + bias[t] /\ p \in OwnPages
                /\ \/ /\ \E f \in Frames \ used :
                           /\ frame' = [frame EXCEPT ![p] = f]
                           /\ got' = [got EXCEPT ![t] = Append(@, <<p, f>>)]
                      /\ used' \in SUBSET Frames /\ tables' \in TableMaps
                      /\ lost' = lost \cup ({frame[p]} \ {0})
                      /\ demand' = demand \ {p}
                      /\ OwnInv' /\ stage' = stage /\ prog' = prog /\ bias' = bias
                   \/ \E s \in Memories :
                        /\ Sound(frame, s.used, s.tables, alias, lost)
                        /\ Rollback(t, p, s) /\ EndLoad(t) /\ Return(t)
<1>1. /\ cpu = t /\ stage[t] = "loading" /\ Header(t) <= Len(Image[buf])
      /\ UNCHANGED <<heap, brk, mtab, bump, buf, alias, active, cpu, outer, irq, mixed>>
  BY DEF LoadPage, At, usr, sched
<1>2. buf \in Progs /\ prog[t] \in Progs
  BY <1>1 DEF TaskInv
<1>3. PICK p : p = Image[buf][Header(t)] + bias[t]
  OBVIOUS
<1>4. /\ p \in PagesAt(buf, bias[t]) /\ p \in Pages /\ Header(t) = Len(got[t]) + 1
      /\ Len(got[t]) < Len(Image[buf])
  <2>1. Len(got[t]) \in Nat /\ Len(Image[buf]) \in Nat /\ bias[t] \in {0, Bias}
    BY <1>2, GotIs, ImageIs, HoldsIs
  <2>2. Len(got[t]) + 1 \in 1 .. Len(Image[buf]) /\ Len(got[t]) < Len(Image[buf])
    BY <1>1, <2>1 DEF Header
  <2> QED BY <1>2, <1>3, <2>1, <2>2, ImageIs, Layout DEF Header
<1> DEFINE stuck == p \in ident /\ tables["boot"] = 0 /\ Frames \ used = {}
           u == Memory([frame EXCEPT ![p] = 0])
           split == IF p \in ident /\ ~stuck THEN TableFor(u, "boot", Frames \ used) ELSE u
           n == MapPage(split, p)
<1>5. /\ IF n.ok /\ ~stuck
         THEN /\ SetMemory(n)
              /\ lost' = lost \cup FramesOf({p})
              /\ demand' = demand \ {p}
              /\ got' = [got EXCEPT ![t] = Append(@, <<p, n.frame[p]>>)]
              /\ UNCHANGED <<stage, prog, bias>>
         ELSE Rollback(t, p, split) /\ EndLoad(t) /\ Return(t)
      /\ ident' = IF stuck THEN ident ELSE ident \ {p}
      /\ trespass' = (trespass \/ p \in StackPages)
  BY <1>3 DEF LoadPage
<1>6. p \in OwnPages /\ trespass' \in BOOLEAN /\ ident' \subseteq Ident
  BY <1>4, <1>5 DEF TypeOK, OwnPages
<1>7. PICK s : s = split
  OBVIOUS
<1>8. /\ s \in Memories /\ s.frame = [frame EXCEPT ![p] = 0] /\ used \subseteq s.used
      /\ Sound(s.frame, s.used, s.tables, alias, lost \cup ({frame[p]} \ {0}))
      /\ Sound(frame, s.used, s.tables, alias, lost)
  <2>1. \/ s = Memory([frame EXCEPT ![p] = 0])
        \/ /\ s = TableFor(Memory([frame EXCEPT ![p] = 0]), "boot", Frames \ used)
           /\ tables["boot"] # 0 \/ Frames \ used # {}
    BY <1>7
  <2> QED BY <1>6, <2>1, SplitIs
<1>9. CASE n.ok /\ ~stuck
  <2>1. PICK m : m = n
    OBVIOUS
  <2>2. /\ SetMemory(m) /\ lost' = lost \cup FramesOf({p}) /\ demand' = demand \ {p}
        /\ got' = [got EXCEPT ![t] = Append(@, <<p, m.frame[p]>>)]
        /\ stage' = stage /\ prog' = prog /\ bias' = bias /\ m = MapPage(s, p) /\ m.ok
    BY <1>5, <1>7, <1>9, <2>1
  <2> HIDE DEF n, split, stuck, u
  <2>3. /\ frame \in FrameMaps /\ alias \in AliasMaps
        /\ lost \cup ({frame[p]} \ {0}) \in SUBSET Frames
    BY <1>4 DEF TypeOK, FrameMaps, AliasMaps
  <2>4. PICK al \in AliasMaps, lo \in SUBSET Frames :
          al = alias /\ lo = lost \cup ({frame[p]} \ {0})
    BY <2>3
  <2>5. /\ m \in Memories /\ Sound(m.frame, m.used, m.tables, al, lo)
        /\ \E f \in Frames \ s.used : m.frame = [s.frame EXCEPT ![p] = f]
    <3>1. s \in Memories /\ Sound(s.frame, s.used, s.tables, al, lo)
      BY <1>8, <2>4
    <3>2. LET x == MapPage(s, p)
          IN  /\ x \in Memories /\ Sound(x.frame, x.used, x.tables, al, lo)
              /\ x.ok => \E f \in Frames \ s.used : x.frame = [s.frame EXCEPT ![p] = f]
      BY <1>6, <3>1, MapPageIs
    <3> QED BY <2>2, <3>2
  <2>6. PICK f \in Frames \ used : m.frame = [s.frame EXCEPT ![p] = f]
    BY <1>8, <2>5
  <2>7. m.frame = [frame EXCEPT ![p] = f] /\ m.frame[p] = f
    BY <1>4, <1>8, <2>3, <2>6 DEF FrameMaps
  <2>8. lost' = lo
    BY <2>2, <2>4 DEF FramesOf
  <2>9. /\ frame' = m.frame /\ used' = m.used /\ tables' = m.tables
        /\ used' \in SUBSET Frames /\ tables' \in TableMaps
    BY <2>2, <2>5 DEF SetMemory, Memories
  <2>10. OwnInv'
    BY <1>1, <2>4, <2>5, <2>8, <2>9 DEF OwnInv
  <2> QED BY <1>1, <1>2, <1>3, <1>4, <1>6, <2>2, <2>4, <2>7, <2>8, <2>9, <2>10
<1>10. CASE ~(n.ok /\ ~stuck)
  <2>1. Rollback(t, p, s) /\ EndLoad(t) /\ Return(t)
    BY <1>5, <1>7, <1>10
  <2> HIDE DEF n, split, stuck, u
  <2> QED BY <1>1, <1>2, <1>3, <1>4, <1>6, <1>8, <2>1
<1> QED BY <1>9, <1>10

(* A page of a file is loaded.                                             *)
LEMMA LoadPageKeeps ==
    ASSUME IInv, NEW t \in Tasks, cpu = t, stage[t] = "loading", buf \in Progs,
           prog[t] \in Progs, Len(got[t]) < Len(Image[buf]),
           UNCHANGED <<heap, brk, mtab, bump, buf, alias, bias, active, cpu, outer, irq, mixed,
                       stage, prog>>,
           ident' \subseteq Ident, trespass' \in BOOLEAN,
           NEW p \in PagesAt(buf, bias[t]), p \in OwnPages,
           p = Image[buf][Len(got[t]) + 1] + bias[t],
           NEW f \in Frames \ used, frame' = [frame EXCEPT ![p] = f],
           got' = [got EXCEPT ![t] = Append(@, <<p, f>>)],
           used' \in SUBSET Frames, tables' \in TableMaps,
           lost' = lost \cup ({frame[p]} \ {0}), demand' = demand \ {p}, OwnInv'
    PROVE  IInv'
<1>1. /\ TypeOK /\ OwnInv /\ TaskInv /\ WindowInv /\ GotInv /\ UsrInv
      /\ DemandInv /\ CleanInv
  BY DEF IInv
<1>2. p \in ImagePages /\ p \in OwnPages /\ p \in Pages /\ p \notin StackPages
  <2>1. bias[t] \in {0, Bias}
    BY <1>1, HoldsIs
  <2> QED BY <2>1, Layout
<1>3. /\ frame \in FrameMaps /\ lost \in SUBSET Frames /\ DOMAIN got = Tasks
      /\ got[t] \in Seq(ImagePages \X Frames)
  BY <1>1 DEF TypeOK, FrameMaps
<1>4. \A q \in Pages : frame'[q] = IF q = p THEN f ELSE frame[q]
  BY <1>2, <1>3 DEF FrameMaps
<1>5. PICK k \in Nat : k = Len(got[t])
  BY <1>1, GotIs
<1>6. /\ got'[t] \in Seq(ImagePages \X Frames) /\ Len(got'[t]) = k + 1
      /\ \A i \in 1 .. k : got'[t][i] = got[t][i]
      /\ got'[t][k + 1] = <<p, f>>
      /\ \A s \in Tasks : s # t => got'[s] = got[s]
  <2>1. <<p, f>> \in ImagePages \X Frames
    BY <1>2
  <2>2. got'[t] = Append(got[t], <<p, f>>) /\ \A s \in Tasks : s # t => got'[s] = got[s]
    BY <1>3
  <2> QED BY <1>3, <1>5, <2>1, <2>2, AppendProperties
<1>7. TypeOK'
  <2>1. frame' \in FrameMaps /\ lost' \in SUBSET Frames
    BY <1>2, <1>3 DEF FrameMaps
  <2>2. got' \in [Tasks -> Seq(ImagePages \X Frames)]
    <3>1. got \in [Tasks -> Seq(ImagePages \X Frames)]
      BY <1>1 DEF TypeOK
    <3> QED BY <1>6, <3>1
  <2>3. MemTyped' /\ CmdTyped' /\ ElfTyped'
    BY <1>1, <2>1, <2>2, TypeParts DEF MemTyped, CmdTyped, ElfTyped
  <2>4. UsrTyped' /\ CpuTyped'
    BY <1>1, TypeParts DEF UsrTyped, CpuTyped
  <2> QED BY <2>3, <2>4 DEF TypeOK, MemTyped, UsrTyped, CmdTyped, ElfTyped, CpuTyped,
                            FrameMaps, TableMaps, AliasMaps
<1>8. DemandInv'
  BY <1>1, <1>4 DEF DemandInv, TypeOK
<1>9. TaskInv'
  BY <1>1, <1>6 DEF TaskInv
<1>10. WindowInv'
  <2>1. \A q \in StackPages : frame'[q] = frame[q]
    BY <1>2, <1>4, Layout
  <2> QED BY <1>1, <2>1, WindowStays
<1>11. GotInv'
  <2>1. ASSUME NEW s \in Tasks, NEW i \in 1 .. Len(got'[s])
        PROVE  /\ frame'[got'[s][i][1]] = got'[s][i][2] \/ got'[s][i][2] \in lost'
               /\ got'[s][i][1] \notin StackPages
    <3>1. CASE s = t /\ i = k + 1
      BY <1>2, <1>4, <1>6, <3>1
    <3>2. CASE ~(s = t /\ i = k + 1)
      <4>1. i \in 1 .. Len(got[s]) /\ got'[s][i] = got[s][i]
        BY <1>5, <1>6, <2>1, <3>2
      <4>2. PICK q \in Pages, g \in Frames : q = got[s][i][1] /\ g = got[s][i][2]
        BY <1>1, <4>1, GotIs, Layout
      <4>3. (frame[q] = g \/ g \in lost) /\ q \notin StackPages
        BY <1>1, <4>1, <4>2 DEF GotInv
      <4>4. frame'[q] = g \/ g \in lost'
        BY <1>4, <4>3, FrameNotZero
      <4> QED BY <4>1, <4>2, <4>3, <4>4
    <3> QED BY <3>1, <3>2
  <2>2. ASSUME outer' # None
        PROVE  /\ GotFrames(outer)' \cap GotFrames(cpu)' = {}
               /\ \A i \in 1 .. Len(got'[cpu]) :
                    /\ i <= Len(Image[buf])
                    /\ frame'[Image[buf][i] + bias[cpu]] \notin GotFrames(outer)'
               /\ \A q \in Taken' : frame'[q] \notin GotFrames(outer)'
    <3>1. outer # t /\ outer \in Tasks /\ outer' = outer /\ cpu' = t
      BY <1>1, <2>2 DEF TaskInv, TypeOK
    <3>2. GotFrames(outer)' = GotFrames(outer)
      BY <1>6, <3>1 DEF GotFrames
    <3>3. GotFrames(cpu)' \subseteq GotFrames(cpu) \cup {f}
      <4> SUFFICES ASSUME NEW i \in 1 .. Len(got'[t])
                   PROVE  got'[t][i][2] \in GotFrames(t) \cup {f}
        BY <3>1 DEF GotFrames
      <4>1. CASE i = k + 1
        BY <1>6, <4>1
      <4>2. CASE i # k + 1
        <5>1. i \in 1 .. k /\ got'[t][i] = got[t][i]
          BY <1>6, <4>2
        <5> QED BY <1>5, <5>1 DEF GotFrames
      <4> QED BY <4>1, <4>2
    <3>4. f \notin GotFrames(outer)
      BY <1>1, <3>1, GotInUse
    <3>5. /\ GotFrames(outer) \cap GotFrames(cpu) = {}
          /\ \A i \in 1 .. k :
               i <= Len(Image[buf]) /\ frame[Image[buf][i] + bias[t]] \notin GotFrames(outer)
      BY <1>1, <1>5, <2>2, <3>1 DEF GotInv
    <3>6. ASSUME NEW i \in 1 .. k + 1
          PROVE  /\ i <= Len(Image[buf])
                 /\ frame'[Image[buf][i] + bias[t]] \notin GotFrames(outer)
      <4>1. Len(Image[buf]) \in Nat /\ k < Len(Image[buf])
        BY <1>5, ImageIs
      <4>2. i <= Len(Image[buf])
        BY <4>1
      <4>3. Image[buf][i] + bias[t] \in Pages
        <5>1. i \in 1 .. Len(Image[buf]) /\ bias[t] \in {0, Bias}
          BY <1>1, <4>1, <4>2, HoldsIs
        <5> QED BY <5>1, ImageIs, Layout
      <4>4. CASE Image[buf][i] + bias[t] = p
        BY <1>4, <3>4, <4>2, <4>3, <4>4
      <4>5. CASE Image[buf][i] + bias[t] # p
        <5>1. i \in 1 .. k
          BY <1>5, <4>5
        <5> QED BY <1>4, <3>5, <4>2, <4>3, <4>5, <5>1
      <4> QED BY <4>4, <4>5
    <3>7. ASSUME NEW q \in Taken' PROVE frame'[q] \notin GotFrames(outer)
      <4>1. q \in Taken /\ q \in Pages
        BY <1>1, TakenInAreas, Layout DEF Taken, HeapInUse, Up
      <4> QED BY <1>1, <1>4, <2>2, <3>4, <4>1 DEF GotInv
    <3> QED BY <1>6, <3>1, <3>2, <3>3, <3>4, <3>5, <3>6, <3>7
  <2>3. stage'[cpu'] \in BeforeLoaded
    BY DEF BeforeLoaded
  <2> QED BY <2>1, <2>2, <2>3 DEF GotInv
<1>12. UsrInv'
  <2>1. HeapInUse' = HeapInUse
    BY DEF HeapInUse, Up
  <2>2. ASSUME NEW q \in HeapInUse \cup UNION {mtab[i] : i \in Slots}
        PROVE  q \in Pages
    <3>1. HeapInUse \subseteq HeapPages
      BY <1>1, HeapInWindow
    <3>2. \A i \in Slots : mtab[i] \subseteq MmapPages
      BY <1>1 DEF TypeOK
    <3> QED BY <3>1, <3>2, Layout
  <2>3. f # 0
    BY FrameNotZero
  <2>4. \A s \in Tasks : stage'[s] = "user" =>
          \A q \in HeapInUse \cup UNION {mtab[i] : i \in Slots} : frame'[q] # 0
    BY <1>1, <1>4, <2>2, <2>3 DEF UsrInv
  <2> QED BY <1>1, <2>1, <2>4 DEF UsrInv
<1>13. CleanInv'
  <2> SUFFICES ASSUME ~mixed
               PROVE  /\ outer' # None => stage'[cpu'] = "idle"
                      /\ \A s \in Tasks : /\ stage'[s] # "idle" => prog'[s] = buf'
                                          /\ stage'[s] \notin {"idle", "read"} => HeadersFit(s)'
                      /\ \A s \in Tasks : \A i \in 1 .. Len(got'[s]) :
                           i <= Len(Image[buf']) /\ got'[s][i][1] = Image[buf'][i] + bias'[s]
                      /\ \A q \in OwnPages : frame'[q] # 0 =>
                           \/ q \in demand' \cup HeapInUse' \cup UNION {mtab'[i] : i \in Slots}
                           \/ \E s \in Tasks : q \in LoadedPages(s)'
    BY DEF CleanInv
  <2>1. HeapInUse' = HeapInUse
    BY DEF HeapInUse, Up
  <2>2. outer = None /\ outer' = None
    BY <1>1 DEF CleanInv
  <2>3. \A s \in Tasks : \A i \in 1 .. Len(got[s]) :
          i <= Len(Image[buf]) /\ got[s][i][1] = Image[buf][i] + bias[s]
    BY <1>1 DEF CleanInv
  <2>4. ASSUME NEW s \in Tasks, NEW i \in 1 .. Len(got'[s])
        PROVE  i <= Len(Image[buf']) /\ got'[s][i][1] = Image[buf'][i] + bias'[s]
    <3>1. CASE s = t /\ i = k + 1
      <4>1. Len(Image[buf]) \in Nat
        BY ImageIs
      <4> QED BY <1>5, <1>6, <3>1, <4>1
    <3>2. CASE ~(s = t /\ i = k + 1)
      <4>1. i \in 1 .. Len(got[s]) /\ got'[s][i] = got[s][i]
        BY <1>5, <1>6, <2>4, <3>2
      <4> QED BY <2>3, <4>1
    <3> QED BY <3>1, <3>2
  <2>5. p \in LoadedPages(t)'
    <3>1. p \in GotPages(t)'
      <4>1. k + 1 \in 1 .. Len(got'[t]) /\ got'[t][k + 1][1] = p
        BY <1>6
      <4> QED BY <4>1 DEF GotPages
    <3> QED BY <3>1 DEF LoadedPages
  <2>6. ASSUME NEW s \in Tasks PROVE LoadedPages(s) \subseteq LoadedPages(s)'
    <3>1. CASE s = t
      <4>1. \A i \in 1 .. Len(got[t]) : i \in 1 .. Len(got'[t]) /\ got'[t][i] = got[t][i]
        BY <1>5, <1>6
      <4>2. GotPages(t) \subseteq GotPages(t)'
        BY <4>1 DEF GotPages
      <4> QED BY <3>1, <4>2 DEF LoadedPages
    <3>2. CASE s # t
      BY <1>6, <3>2 DEF LoadedPages, GotPages, Holds, PagesAt
    <3> QED BY <3>1, <3>2
  <2>7. \A q \in OwnPages : frame[q] # 0 =>
           \/ q \in demand \cup HeapInUse \cup UNION {mtab[i] : i \in Slots}
           \/ \E s \in Tasks : q \in LoadedPages(s)
    BY <1>1 DEF CleanInv
  <2>8. ASSUME NEW q \in OwnPages, frame'[q] # 0
        PROVE  \/ q \in demand' \cup HeapInUse' \cup UNION {mtab'[i] : i \in Slots}
               \/ \E s \in Tasks : q \in LoadedPages(s)'
    <3>1. CASE q = p
      BY <2>5, <3>1
    <3>2. CASE q # p
      <4>1. frame[q] # 0
        BY <1>4, <2>8, <3>2, Layout
      <4> QED BY <2>1, <2>6, <2>7, <3>2, <4>1
    <3> QED BY <3>1, <3>2
  <2>9. ASSUME NEW s \in Tasks
        PROVE  /\ stage'[s] # "idle" => prog'[s] = buf'
               /\ stage'[s] \notin {"idle", "read"} => HeadersFit(s)'
    <3>1. HeadersFit(s)' <=> HeadersFit(s)
      BY DEF HeadersFit, HeaderEnd
    <3> QED BY <1>1, <3>1 DEF CleanInv
  <2> QED BY <2>2, <2>4, <2>8, <2>9
<1> QED BY <1>7, <1>8, <1>9, <1>10, <1>11, <1>12, <1>13 DEF IInv

(* A load unwinds: what the suspended exec has loaded stays or is lost.    *)
LEMMA RollbackKeeps ==
    ASSUME IInv, NEW t \in Tasks, cpu = t, stage[t] = "loading",
           UNCHANGED <<heap, brk, mtab, bump, buf, alias, active, cpu, outer, irq, mixed>>,
           ident' \subseteq Ident, trespass' \in BOOLEAN,
           NEW p \in OwnPages, NEW m \in Memories, Sound(frame, m.used, m.tables, alias, lost),
           Rollback(t, p, m), EndLoad(t), Return(t)
    PROVE  IInv'
<1>1. /\ TypeOK /\ OwnInv /\ TaskInv /\ WindowInv /\ GotInv /\ UsrInv
      /\ DemandInv /\ CleanInv
  BY DEF IInv
<1>2. /\ frame \in FrameMaps /\ used \in SUBSET Frames /\ tables \in TableMaps
      /\ alias \in AliasMaps /\ lost \in SUBSET Frames
  BY <1>1 DEF TypeOK, FrameMaps, TableMaps, AliasMaps
<1>3. PICK P : P = GotPages(t) \cup {p}
  OBVIOUS
<1>4. PICK G : G = GotFrames(t)
  OBVIOUS
<1>5. P \in SUBSET OwnPages /\ P \in SUBSET Pages /\ G \in SUBSET Frames
      /\ P \cap StackPages = {}
  <2>1. P \in SUBSET OwnPages /\ G \in SUBSET Frames
    BY <1>1, <1>3, <1>4, GotIs, GotOwn
  <2> QED BY <2>1, Layout
<1>6. /\ frame' = [q \in Pages |-> IF q \in P THEN 0 ELSE frame[q]]
      /\ used' = m.used \ G /\ tables' = m.tables
      /\ lost' = (lost \cup ({frame[q] : q \in P} \ {0})) \ G
      /\ demand' = demand \ P
      /\ stage' = [stage EXCEPT ![t] = "idle"] /\ prog' = [prog EXCEPT ![t] = None]
      /\ got' = [got EXCEPT ![t] = <<>>] /\ bias' = [bias EXCEPT ![t] = 0]
  BY <1>3, <1>4 DEF Rollback, EndLoad, FramesOf, Return, Goto
<1>7. /\ \A q \in Pages : frame'[q] = IF q \in P THEN 0 ELSE frame[q]
      /\ \A s \in Tasks : stage'[s] = IF s = t THEN "idle" ELSE stage[s]
      /\ \A s \in Tasks : got'[s] = IF s = t THEN <<>> ELSE got[s]
      /\ \A s \in Tasks : bias'[s] = IF s = t THEN 0 ELSE bias[s]
      /\ \A s \in Tasks : prog'[s] = IF s = t THEN None ELSE prog[s]
  BY <1>1, <1>6 DEF TypeOK
<1>8. /\ frame' \in FrameMaps /\ used' \in SUBSET Frames /\ lost' \in SUBSET Frames
      /\ m.used \in SUBSET Frames /\ m.tables \in TableMaps
  <2>1. \A q \in P : frame[q] \in Frames \cup {0}
    BY <1>2, <1>5 DEF FrameMaps
  <2>2. m.used \in SUBSET Frames /\ m.tables \in TableMaps
    BY DEF Memories
  <2> QED BY <1>2, <1>5, <1>6, <2>1, <2>2 DEF FrameMaps
<1>9. TypeOK'
  <2>1. <<>> \in Seq(ImagePages \X Frames)
    BY EmptySeq
  <2>2. CmdTyped' /\ ElfTyped' /\ CpuTyped'
    BY <1>1, <1>6, <2>1, TypeParts DEF CmdTyped, ElfTyped, CpuTyped, Stages
  <2>3. MemTyped' /\ UsrTyped'
    BY <1>1, <1>6, <1>8, TypeParts DEF MemTyped, UsrTyped
  <2> QED BY <2>2, <2>3 DEF TypeOK, MemTyped, UsrTyped, CmdTyped, ElfTyped, CpuTyped,
                            FrameMaps, TableMaps, AliasMaps
<1>10. OwnInv'
  <2>1. PICK fr \in FrameMaps, us \in SUBSET Frames, tb \in TableMaps, al \in AliasMaps,
             lo \in SUBSET Frames, fr2 \in FrameMaps :
          /\ fr = frame /\ us = m.used /\ tb = m.tables /\ al = alias /\ lo = lost
          /\ fr2 = frame'
    BY <1>2, <1>8
  <2>2. Sound(fr, us, tb, al, lo)
    BY <2>1
  <2>3. \A f \in G : f \in lo \/ \E q \in P : fr[q] = f
    <3> SUFFICES ASSUME NEW i \in 1 .. Len(got[t])
                 PROVE  \/ got[t][i][2] \in lost
                        \/ \E q \in GotPages(t) : frame[q] = got[t][i][2]
      BY <1>3, <1>4, <2>1 DEF GotFrames
    <3>1. got[t][i][1] \in GotPages(t)
      BY DEF GotPages
    <3> QED BY <1>1, <3>1 DEF GotInv
  <2>4. \A q \in Pages : fr2[q] = IF q \in P THEN 0 ELSE fr[q]
    BY <1>7, <2>1
  <2>5. Sound(fr2, us \ G, tb, al, (lo \cup ({fr[q] : q \in P} \ {0})) \ G)
    BY <1>5, <2>2, <2>3, <2>4, SoundUnwind
  <2> QED BY <1>6, <2>1, <2>5 DEF OwnInv
<1>11. DemandInv'
  BY <1>1, <1>6, <1>7 DEF DemandInv, TypeOK
<1>12. TaskInv'
  <2>1. outer # None => outer \in Tasks /\ outer # t /\ stage'[outer] = stage[outer]
    BY <1>1, <1>7 DEF TaskInv, TypeOK
  <2> QED BY <1>1, <1>7, <2>1 DEF TaskInv, HasStack
<1>13. WindowInv'
  <2>1. \A q \in StackPages : frame'[q] = frame[q]
    BY <1>5, <1>7, Layout
  <2>2. \A s \in Tasks : /\ stage'[s] \in HasStack <=> stage[s] \in HasStack
                         /\ stage'[s] = "backed" => stage[s] = "backed"
    BY <1>7 DEF HasStack
  <2> QED BY <1>1, <2>1, <2>2, WindowStays
<1>14. GotInv'
  <2>1. ASSUME NEW s \in Tasks, NEW i \in 1 .. Len(got'[s])
        PROVE  /\ frame'[got'[s][i][1]] = got'[s][i][2] \/ got'[s][i][2] \in lost'
               /\ got'[s][i][1] \notin StackPages
    <3>1. s # t /\ got'[s] = got[s] /\ i \in 1 .. Len(got[s])
      BY <1>7, <2>1
    <3>2. PICK q \in Pages, g \in Frames : q = got[s][i][1] /\ g = got[s][i][2]
      BY <1>1, <3>1, GotIs, Layout
    <3>3. (frame[q] = g \/ g \in lost) /\ q \notin StackPages
      BY <1>1, <3>1, <3>2 DEF GotInv
    <3>4. s = outer /\ outer # None
      <4>1. got[s] # <<>>
        BY <3>1
      <4>2. stage[s] = "loading"
        BY <1>1, <4>1 DEF TaskInv
      <4> QED BY <1>1, <3>1, <4>2, ImageAssumption DEF TaskInv
    <3>5. g \in GotFrames(outer)
      BY <3>1, <3>2, <3>4 DEF GotFrames
    <3>6. g \notin G
      BY <1>1, <1>4, <3>4, <3>5 DEF GotInv
    <3>7. frame'[q] = g \/ g \in lost'
      <4>1. CASE q \in P /\ frame[q] = g
        <5>1. g \in {frame[x] : x \in P} \ {0}
          BY <4>1, FrameNotZero
        <5> QED BY <1>6, <3>6, <5>1
      <4>2. CASE q \notin P /\ frame[q] = g
        BY <1>7, <4>2
      <4>3. CASE g \in lost
        BY <1>6, <3>6, <4>3
      <4> QED BY <3>3, <4>1, <4>2, <4>3
    <3> QED BY <3>1, <3>2, <3>3, <3>7
  <2>2. GotFrames(cpu)' = {} /\ stage'[cpu'] = "idle"
    <3>1. got'[cpu'] = <<>> /\ stage'[cpu'] = "idle"
      BY <1>7
    <3> QED BY <3>1 DEF GotFrames
  <2>3. ASSUME outer' # None, NEW q \in Taken' PROVE frame'[q] \notin GotFrames(outer)'
    <3>1. q \in Taken /\ q \in Pages
      BY <1>1, TakenInAreas, Layout DEF Taken, HeapInUse, Up
    <3>2. outer # None /\ outer \in Tasks /\ outer # t
      BY <1>1, <2>3 DEF TaskInv, TypeOK
    <3>3. GotFrames(outer)' = GotFrames(outer)
      BY <1>7, <3>2 DEF GotFrames
    <3>4. frame'[q] = frame[q] \/ frame'[q] = 0
      BY <1>7, <3>1
    <3>5. frame[q] \notin GotFrames(outer)
      BY <1>1, <3>1, <3>2 DEF GotInv
    <3>6. 0 \notin GotFrames(outer)
      BY <1>1, <3>2, GotInUse
    <3> QED BY <3>3, <3>4, <3>5, <3>6
  <2> QED BY <2>1, <2>2, <2>3 DEF GotInv, BeforeLoaded
<1>15. UsrInv'
  <2>1. HeapInUse' = HeapInUse
    BY DEF HeapInUse, Up
  <2>2. \A s \in Tasks : stage'[s] # "user"
    BY <1>1, <1>7, ImageAssumption DEF TaskInv
  <2> QED BY <1>1, <1>7, <2>1, <2>2 DEF UsrInv
<1>16. CleanInv'
  <2> SUFFICES ASSUME ~mixed
               PROVE  /\ outer' # None => stage'[cpu'] = "idle"
                      /\ \A s \in Tasks : /\ stage'[s] # "idle" => prog'[s] = buf'
                                          /\ stage'[s] \notin {"idle", "read"} => HeadersFit(s)'
                      /\ \A s \in Tasks : \A i \in 1 .. Len(got'[s]) :
                           i <= Len(Image[buf']) /\ got'[s][i][1] = Image[buf'][i] + bias'[s]
                      /\ \A q \in OwnPages : frame'[q] # 0 =>
                           \/ q \in demand' \cup HeapInUse' \cup UNION {mtab'[i] : i \in Slots}
                           \/ \E s \in Tasks : q \in LoadedPages(s)'
    BY DEF CleanInv
  <2>1. HeapInUse' = HeapInUse
    BY DEF HeapInUse, Up
  <2>2. stage'[cpu'] = "idle"
    BY <1>7
  <2>3. ASSUME NEW s \in Tasks, NEW i \in 1 .. Len(got'[s])
        PROVE  i <= Len(Image[buf']) /\ got'[s][i][1] = Image[buf'][i] + bias'[s]
    <3>1. got'[s] = got[s] /\ bias'[s] = bias[s]
      BY <1>7, <2>3
    <3> QED BY <1>1, <2>3, <3>1 DEF CleanInv
  <2>4. ASSUME NEW s \in Tasks, s # t PROVE stage[s] = "idle" /\ LoadedPages(s) = {}
    <3>1. outer = None
      BY <1>1 DEF CleanInv
    <3>2. stage[s] = "idle"
      BY <1>1, <2>4, <3>1, ImageAssumption DEF TaskInv
    <3> QED BY <3>2 DEF LoadedPages
  <2>5. LoadedPages(t) \subseteq P
    BY <1>3 DEF LoadedPages
  <2>6. \A q \in OwnPages : frame[q] # 0 =>
           \/ q \in demand \cup HeapInUse \cup UNION {mtab[i] : i \in Slots}
           \/ \E s \in Tasks : q \in LoadedPages(s)
    BY <1>1 DEF CleanInv
  <2>7. ASSUME NEW q \in OwnPages, frame'[q] # 0
        PROVE  q \in demand' \cup HeapInUse' \cup UNION {mtab'[i] : i \in Slots}
    <3>1. q \notin P /\ frame[q] # 0
      BY <1>7, <2>7, Layout
    <3> QED BY <1>6, <2>1, <2>4, <2>5, <2>6, <3>1
  <2>8. ASSUME NEW s \in Tasks PROVE stage'[s] = "idle"
    BY <1>7, <2>4
  <2> QED BY <2>2, <2>3, <2>7, <2>8
<1> QED BY <1>9, <1>10, <1>11, <1>12, <1>13, <1>14, <1>15, <1>16 DEF IInv
-----------------------------------------------------------------------------
(* The stack.                                                              *)

StackMoves == {<<"free", "backed">>, <<"backed", "stacked">>, <<"backed", "unload">>,
               <<"cleaned", "unload">>}

(* A step that only concerns the stack and keeps the owners of the frames  *)
(* and of the window.                                                      *)
LEMMA StackKeeps ==
    ASSUME IInv, NEW t \in Tasks, NEW a, NEW b, <<a, b>> \in StackMoves,
           cpu = t, stage[t] = a, stage' = [stage EXCEPT ![t] = b],
           UNCHANGED <<lost, demand, heap, brk, mtab, bump, buf, prog, got, bias, active,
                       ident, trespass, cpu, outer, irq, mixed>>,
           frame' \in FrameMaps, used' \in SUBSET Frames, tables' \in TableMaps,
           alias' \in AliasMaps,
           \A p \in OwnPages : frame'[p] = frame[p],
           \A s \in Tasks : s # t => alias'[s] = alias[s],
           b = "unload" => alias'[t] = {},
           OwnInv', WindowInv'
    PROVE  IInv'
<1>1. /\ TypeOK /\ OwnInv /\ TaskInv /\ GotInv /\ UsrInv
      /\ DemandInv /\ CleanInv
  BY DEF IInv
<1>2. /\ stage \in [Tasks -> Stages]
      /\ \A s \in Tasks : stage'[s] = IF s = t THEN b ELSE stage[s]
  BY <1>1 DEF TypeOK
<1>3. \/ a = "free" /\ b = "backed"
      \/ a = "backed" /\ b = "stacked"
      \/ a = "backed" /\ b = "unload"
      \/ a = "cleaned" /\ b = "unload"
  BY DEF StackMoves
<1>4. TypeOK'
  <2>1. CmdTyped' /\ ElfTyped' /\ CpuTyped'
    BY <1>1, <1>2, <1>3, TypeParts DEF CmdTyped, ElfTyped, CpuTyped, Stages
  <2>2. MemTyped' /\ UsrTyped'
    BY <1>1, TypeParts DEF MemTyped, UsrTyped
  <2> QED BY <2>1, <2>2 DEF TypeOK, MemTyped, UsrTyped, CmdTyped, ElfTyped, CpuTyped,
                            FrameMaps, TableMaps, AliasMaps
<1>5. DemandInv'
  BY <1>1 DEF DemandInv, TypeOK, OwnPages
<1>6. TaskInv'
  BY <1>1, <1>2, <1>3 DEF TaskInv, HasStack
<1>7. GotInv'
  <2>1. \A s \in Tasks : \A i \in 1 .. Len(got[s]) :
          frame'[got[s][i][1]] = frame[got[s][i][1]]
    BY <1>1, GotOwn
  <2>2. stage'[cpu] \notin {"idle", "read", "loading"} /\ stage[cpu] \notin BeforeLoaded
    BY <1>2, <1>3 DEF BeforeLoaded
  <2>3. buf \in Progs /\ prog[cpu] \in Progs
    BY <1>1, <1>3 DEF TaskInv
  <2>4. Taken' = Taken /\ Taken \subseteq Pages
    BY <1>1, TakenInAreas, Layout DEF Taken, HeapInUse, Up
  <2>5. ASSUME outer # None, NEW q \in Pages
        PROVE  frame'[q] = frame[q] \/ frame'[q] \notin GotFrames(outer)
    <3>1. CASE q \in OwnPages
      BY <3>1
    <3>2. CASE q \in StackPages
      <4>1. outer \in Tasks
        BY <1>1, <2>5 DEF TypeOK
      <4>2. frame'[q] = 0 \/ \E x \in Tasks : frame'[q] \in alias'[x]
        BY <3>2 DEF WindowInv
      <4>3. /\ 0 \notin GotFrames(outer)
            /\ \A g \in GotFrames(outer) : g \in lost' \/ \E p \in OwnPages : frame'[p] = g
        BY <1>1, <4>1, GotInUse
      <4>4. \A x \in Tasks : \A g \in alias'[x] :
              g \notin lost' /\ \A p \in OwnPages : frame'[p] # g
        BY DEF OwnInv, Sound, Accounts
      <4> QED BY <4>2, <4>3, <4>4
    <3> QED BY <3>1, <3>2 DEF OwnPages
  <2>6. ASSUME outer # None, NEW q \in Taken'
        PROVE  q \in Taken \/ frame'[q] \notin GotFrames(outer)
    BY <2>4, <2>6
  <2> QED BY <1>1, <2>1, <2>2, <2>3, <2>4, <2>5, <2>6, GotKept
<1>8. HeapInUse' = HeapInUse
  BY DEF HeapInUse, Up
<1>9. UsrInv'
  <2>1. ASSUME NEW s \in Tasks, stage'[s] = "user",
               NEW q \in HeapInUse \cup UNION {mtab[i] : i \in Slots}
        PROVE  frame'[q] # 0
    <3>1. stage[s] = "user"
      BY <1>2, <1>3, <2>1
    <3>2. q \in OwnPages
      <4>1. HeapInUse \subseteq HeapPages
        BY <1>1, HeapInWindow
      <4>2. \A i \in Slots : mtab[i] \subseteq MmapPages
        BY <1>1 DEF TypeOK
      <4> QED BY <2>1, <4>1, <4>2, Layout
    <3> QED BY <1>1, <2>1, <3>1, <3>2 DEF UsrInv
  <2> QED BY <1>1, <1>2, <1>3, <1>8, <2>1 DEF UsrInv
<1>10. CleanInv'
  <2>1. ASSUME NEW s \in Tasks
        PROVE  /\ LoadedPages(s)' = LoadedPages(s)
               /\ HeadersFit(s)' <=> HeadersFit(s)
               /\ stage'[s] # "idle" <=> stage[s] # "idle"
               /\ stage'[s] \notin {"idle", "read"} <=> stage[s] \notin {"idle", "read"}
    BY <1>2, <1>3 DEF LoadedPages, GotPages, Holds, PagesAt, HeadersFit, HeaderEnd
  <2>2. (outer # None => stage[cpu] = "idle") => outer = None
    BY <1>3
  <2> QED BY <1>1, <1>8, <2>1, <2>2 DEF CleanInv
<1> QED BY <1>4, <1>5, <1>6, <1>7, <1>9, <1>10 DEF IInv

(* Frames for a stack are taken, or none are free and exec gives up.       *)
LEMMA BackStackKeeps ==
    ASSUME IInv, NEW t \in Tasks, BackStack(t)
    PROVE  IInv'
<1>1. TypeOK /\ OwnInv /\ TaskInv /\ WindowInv
  BY DEF IInv
<1>2. /\ cpu = t /\ stage[t] = "free"
      /\ UNCHANGED <<frame, tables, lost, demand, heap, brk, mtab, bump, buf, prog, got, bias,
                     active, ident, trespass, cpu, outer, irq, mixed>>
  BY DEF BackStack, At, usr, elf, sched
<1>3. /\ frame \in FrameMaps /\ used \in SUBSET Frames /\ tables \in TableMaps
      /\ alias \in AliasMaps /\ lost \in SUBSET Frames /\ stage \in [Tasks -> Stages]
      /\ irq \in BOOLEAN
  BY <1>1 DEF TypeOK, FrameMaps, TableMaps, AliasMaps
<1>4. CASE RunOf(StackSize) = {}
  <2>1. stage' = [stage EXCEPT ![cpu] = "unload"] /\ UNCHANGED <<used, alias>>
    BY <1>2, <1>4 DEF BackStack, Goto, StackSize
  <2>2. <<"free", "unload">> \in Moves
    BY DEF Moves
  <2> QED BY <1>2, <1>3, <2>1, <2>2, MoveKeeps
<1>5. CASE RunOf(StackSize) # {}
  <2>1. PICK b : b = Lowest(RunOf(StackSize))
    OBVIOUS
  <2>2. b \in Frames /\ b .. b + StackSize - 1 \subseteq Frames \ used
    <3>1. RunOf(StackSize) \subseteq Nat
      BY FramesAreNats DEF RunOf
    <3>2. b \in RunOf(StackSize)
      BY <1>5, <2>1, <3>1, LowestIn
    <3> QED BY <3>2 DEF RunOf
  <2>3. PICK F \in SUBSET (Frames \ used) : F = b .. b + StackSize - 1
    BY <2>2
  <2>4. /\ used' = used \cup F /\ alias' = [alias EXCEPT ![t] = F]
        /\ stage' = [stage EXCEPT ![t] = "backed"]
    BY <1>5, <2>1, <2>3 DEF BackStack, Goto, StackSize
  <2>5. /\ \A s \in Tasks : alias'[s] = IF s = t THEN F ELSE alias[s]
        /\ \A s \in Tasks : stage'[s] = IF s = t THEN "backed" ELSE stage[s]
        /\ alias' \in AliasMaps /\ used' \in SUBSET Frames
    BY <1>3, <2>4 DEF AliasMaps
  <2>6. OwnInv'
    <3>1. PICK fr \in FrameMaps, us \in SUBSET Frames, tb \in TableMaps, al \in AliasMaps,
               lo \in SUBSET Frames :
            fr = frame /\ us = used /\ tb = tables /\ al = alias /\ lo = lost
      BY <1>3
    <3>2. Sound(fr, us, tb, al, lo) /\ F \in SUBSET (Frames \ us)
      BY <1>1, <3>1 DEF OwnInv
    <3>3. al[t] = {}
      BY <1>1, <1>2, <3>1 DEF TaskInv, HasStack
    <3>4. Sound(fr, us \cup F, tb, [al EXCEPT ![t] = F], lo)
      BY <3>2, <3>3, SoundAlias
    <3> QED BY <1>2, <2>4, <3>1, <3>4 DEF OwnInv
  <2>7. WindowInv'
    <3>1. \A s \in Tasks : stage'[s] \in HasStack => stage[s] \in HasStack /\ s # t
      BY <2>5 DEF HasStack
    <3>2. \A s \in Tasks : stage[s] \in HasStack => stage'[s] \in HasStack
      BY <1>2, <2>5 DEF HasStack
    <3>3. \A s \in Tasks : stage'[s] = "backed" =>
            \E x \in Frames : alias'[s] = x .. x + StackSize - 1
      BY <1>1, <2>2, <2>3, <2>5 DEF WindowInv
    <3>4. \A s \in Tasks : stage'[s] \in HasStack =>
            /\ \A p \in StackPages : frame'[p] \in alias'[s]
            /\ \A f \in alias'[s] : \E p \in StackPages : frame'[p] = f
            /\ \A p, q \in StackPages : frame'[p] = frame'[q] => p = q
      BY <1>1, <1>2, <2>5, <3>1 DEF WindowInv
    <3>5. /\ \A r, s \in Tasks : stage'[r] \in HasStack /\ stage'[s] \in HasStack => r = s
          /\ (\A s \in Tasks : stage'[s] \notin HasStack) => \A p \in StackPages : frame'[p] = 0
      BY <1>1, <1>2, <3>1, <3>2 DEF WindowInv
    <3> QED BY <3>3, <3>4, <3>5 DEF WindowInv, StackSize
  <2>8. <<"free", "backed">> \in StackMoves
    BY DEF StackMoves
  <2> QED BY <1>2, <1>3, <2>4, <2>5, <2>6, <2>7, <2>8, StackKeeps
<1> QED BY <1>4, <1>5

(* The frames behind a stack are given back: the window stays as it is, or *)
(* its owner has unmapped it.                                              *)
LEMMA ReleaseKeeps ==
    ASSUME IInv, NEW t \in Tasks, cpu = t,
           \/ stage[t] = "backed" /\ frame' = frame
           \/ /\ stage[t] = "cleaned"
              /\ frame' = [p \in Pages |-> IF p \in StackPages THEN 0 ELSE frame[p]],
           used' = used \ alias[t], alias' = [alias EXCEPT ![t] = {}],
           stage' = [stage EXCEPT ![t] = "unload"],
           UNCHANGED <<tables, lost, demand, heap, brk, mtab, bump, buf, prog, got, bias,
                       active, ident, trespass, cpu, outer, irq, mixed>>
    PROVE  IInv'
<1>1. TypeOK /\ OwnInv /\ TaskInv /\ WindowInv
  BY DEF IInv
<1>2. /\ frame \in FrameMaps /\ used \in SUBSET Frames /\ tables \in TableMaps
      /\ alias \in AliasMaps /\ lost \in SUBSET Frames /\ stage \in [Tasks -> Stages]
  BY <1>1 DEF TypeOK, FrameMaps, TableMaps, AliasMaps
<1>3. /\ \A s \in Tasks : alias'[s] = IF s = t THEN {} ELSE alias[s]
      /\ \A s \in Tasks : stage'[s] = IF s = t THEN "unload" ELSE stage[s]
      /\ alias' \in AliasMaps /\ used' \in SUBSET Frames /\ frame' \in FrameMaps
  BY <1>2 DEF AliasMaps, FrameMaps
<1>4. \A p \in OwnPages : frame'[p] = frame[p]
  BY DEF OwnPages
<1>5. OwnInv'
  <2>1. PICK fr \in FrameMaps, us \in SUBSET Frames, tb \in TableMaps, al \in AliasMaps,
             lo \in SUBSET Frames, fr2 \in FrameMaps :
          fr = frame /\ us = used /\ tb = tables /\ al = alias /\ lo = lost /\ fr2 = frame'
    BY <1>2, <1>3
  <2>2. Sound(fr, us, tb, al, lo) /\ \A p \in OwnPages : fr2[p] = fr[p]
    BY <1>1, <1>4, <2>1 DEF OwnInv
  <2>3. Sound(fr2, us, tb, al, lo)
    BY <2>2, SoundStack
  <2>4. Sound(fr2, us \ al[t], tb, [al EXCEPT ![t] = {}], lo)
    BY <2>3, SoundRelease
  <2> QED BY <2>1, <2>4 DEF OwnInv
<1>6. WindowInv'
  <2>1. CASE stage[t] = "backed" /\ frame' = frame
    <3>1. \A s \in Tasks : /\ stage'[s] \in HasStack <=> stage[s] \in HasStack
                           /\ stage'[s] = "backed" => stage[s] = "backed"
                           /\ stage'[s] \in HasStack \cup {"backed"} => s # t
      BY <1>3, <2>1 DEF HasStack
    <3> QED BY <1>1, <1>3, <2>1, <3>1 DEF WindowInv, StackSize
  <2>2. CASE /\ stage[t] = "cleaned"
             /\ frame' = [p \in Pages |-> IF p \in StackPages THEN 0 ELSE frame[p]]
    <3>1. \A s \in Tasks : stage'[s] \notin HasStack
      <4>1. \A s \in Tasks : stage[s] \in HasStack => s = t
        BY <1>1, <2>2 DEF WindowInv, HasStack
      <4> QED BY <1>3, <4>1 DEF HasStack
    <3>2. \A p \in StackPages : frame'[p] = 0
      BY <2>2, Layout
    <3>3. \A s \in Tasks : stage'[s] = "backed" => stage[s] = "backed" /\ s # t
      BY <1>3
    <3> QED BY <1>1, <1>3, <3>1, <3>2, <3>3 DEF WindowInv, StackSize
  <2> QED BY <2>1, <2>2
<1>7. PICK a : a = stage[t] /\ <<a, "unload">> \in StackMoves
  BY DEF StackMoves
<1> QED BY <1>2, <1>3, <1>4, <1>5, <1>6, <1>7, StackKeeps

(* The stack window is unmapped and its frames are freed.                  *)
LEMMA FreeStackKeeps ==
    ASSUME IInv, NEW t \in Tasks, FreeStack(t)
    PROVE  IInv'
BY ReleaseKeeps DEF FreeStack, At, Goto, usr, elf, sched

(* The lowest number of an interval is its first.                          *)
LEMMA LowestOfRun ==
    ASSUME NEW b \in Int, NEW c \in Int, b <= c
    PROVE  Lowest(b .. c) = b
<1>1. b \in b .. c /\ \A y \in b .. c : b <= y
  OBVIOUS
<1>2. \A x \in b .. c : (\A y \in b .. c : x <= y) => x = b
  <2> SUFFICES ASSUME NEW x \in b .. c, \A y \in b .. c : x <= y PROVE x = b
    OBVIOUS
  <2>1. x <= b /\ b <= x /\ x \in Int
    BY <1>1
  <2> QED BY <2>1
<1> QED BY <1>1, <1>2 DEF Lowest

(* The stack window is mapped to the frames taken for it: it was empty, so *)
(* no task owned it.                                                       *)
LEMMA MapStackKeeps ==
    ASSUME IInv, NEW t \in Tasks, MapStack(t)
    PROVE  IInv'
<1>1. TypeOK /\ OwnInv /\ TaskInv /\ WindowInv
  BY DEF IInv
<1>2. /\ cpu = t /\ stage[t] = "backed"
      /\ UNCHANGED <<lost, demand, heap, brk, mtab, bump, buf, prog, got, bias,
                     active, ident, trespass, cpu, outer, irq, mixed>>
  BY DEF MapStack, At, usr, elf, sched
<1>3. /\ frame \in FrameMaps /\ used \in SUBSET Frames /\ tables \in TableMaps
      /\ alias \in AliasMaps /\ lost \in SUBSET Frames /\ stage \in [Tasks -> Stages]
  BY <1>1 DEF TypeOK, FrameMaps, TableMaps, AliasMaps
<1> DEFINE Ok == StackPages \cap Mapped = {} /\ (tables["lower"] # 0 \/ Frames \ used # {})
<1>4. CASE ~Ok
  <2>1. /\ used' = used \ alias[t] /\ alias' = [alias EXCEPT ![t] = {}]
        /\ stage' = [stage EXCEPT ![t] = "unload"] /\ UNCHANGED <<frame, tables>>
    BY <1>4 DEF MapStack, Goto
  <2> QED BY <1>2, <2>1, ReleaseKeeps
<1>5. CASE Ok
  <2>1. PICK n : n = TableFor(Memory(frame), "lower", Frames \ used)
    OBVIOUS
  <2>2. /\ n \in Memories /\ n.used \in SUBSET Frames /\ n.tables \in TableMaps
        /\ Sound(frame, n.used, n.tables, alias, lost)
    <3>1. PICK m : m = Memory(frame)
      OBVIOUS
    <3>2. m \in Memories /\ m.used = used /\ m.frame = frame /\ m.tables = tables
      BY <1>3, <3>1 DEF Memory, Memories
    <3>3. PICK al \in AliasMaps, lo \in SUBSET Frames : al = alias /\ lo = lost
      BY <1>3
    <3>4. Sound(m.frame, m.used, m.tables, al, lo)
      BY <1>1, <3>2, <3>3 DEF OwnInv
    <3>5. LET x == TableFor(m, "lower", Frames \ m.used)
          IN  x \in Memories /\ x.frame = m.frame /\ Sound(x.frame, x.used, x.tables, al, lo)
      BY <1>5, <3>2, <3>4, TableForIs DEF Areas
    <3>6. n \in Memories /\ n.frame = frame /\ Sound(n.frame, n.used, n.tables, al, lo)
      BY <2>1, <3>1, <3>2, <3>5
    <3> QED BY <3>3, <3>6 DEF Memories
  <2>3. /\ frame' = [p \in Pages |-> IF p \in StackPages
                                     THEN Lowest(alias[t]) + p - StackLo
                                     ELSE frame[p]]
        /\ stage' = [stage EXCEPT ![t] = "stacked"] /\ alias' = alias
        /\ used' = n.used /\ tables' = n.tables
    <3>1. /\ SetMemory([n EXCEPT !.frame =
                  [p \in Pages |-> IF p \in StackPages
                                   THEN Lowest(alias[t]) + p - StackLo
                                   ELSE frame[p]]])
          /\ stage' = [stage EXCEPT ![t] = "stacked"] /\ alias' = alias
      BY <1>5, <2>1 DEF MapStack, Goto
    <3> QED BY <2>2, <3>1 DEF SetMemory, Memories
  <2>4. PICK b \in Frames : alias[t] = b .. b + StackSize - 1
    BY <1>1, <1>2 DEF WindowInv
  <2>5. b \in Nat /\ StackLo \in Nat /\ StackSize \in Nat /\ StackSize > 0
        /\ StackHi = StackLo + StackSize
    BY FramesAreNats, LayoutAssumption DEF StackSize
  <2>6. Lowest(alias[t]) = b
    BY <2>4, <2>5, LowestOfRun
  <2>7. \A p \in Pages : frame'[p] = IF p \in StackPages THEN b + p - StackLo ELSE frame[p]
    BY <2>3, <2>6
  <2>8. StackPages = StackLo .. StackLo + StackSize - 1
    BY <2>5 DEF StackPages
  <2>9. /\ \A p \in StackPages : frame'[p] = b + p - StackLo /\ frame'[p] \in alias[t]
        /\ \A f \in alias[t] : \E p \in StackPages : frame'[p] = f
        /\ \A p, q \in StackPages : frame'[p] = frame'[q] => p = q
    <3>1. \A p \in StackPages : frame'[p] = b + p - StackLo
      BY <2>7, Layout
    <3>2. \A p \in StackPages : b + p - StackLo \in alias[t]
      BY <2>4, <2>5, <2>8
    <3>3. ASSUME NEW f \in alias[t] PROVE \E p \in StackPages : frame'[p] = f
      <4>1. StackLo + (f - b) \in StackPages /\ b + (StackLo + (f - b)) - StackLo = f
        BY <2>4, <2>5, <2>8
      <4> QED BY <3>1, <4>1
    <3>4. \A p, q \in StackPages : b + p - StackLo = b + q - StackLo => p = q
      BY <2>5, <2>8
    <3> QED BY <3>1, <3>2, <3>3, <3>4
  <2>10. frame' \in FrameMaps
    <3>1. \A p \in Pages : frame'[p] \in Frames \cup {0}
      <4>1. alias[t] \subseteq Frames
        BY <1>3 DEF AliasMaps
      <4> QED BY <1>3, <2>7, <2>9, <4>1 DEF FrameMaps
    <3> QED BY <2>3, <3>1 DEF FrameMaps
  <2>11. \A p \in OwnPages : frame'[p] = frame[p]
    BY <2>7 DEF OwnPages
  <2>12. OwnInv'
    <3>1. PICK fr \in FrameMaps, us \in SUBSET Frames, tb \in TableMaps, al \in AliasMaps,
               lo \in SUBSET Frames, fr2 \in FrameMaps :
            fr = frame /\ us = n.used /\ tb = n.tables /\ al = alias /\ lo = lost /\ fr2 = frame'
      BY <1>3, <2>2, <2>10
    <3>2. Sound(fr, us, tb, al, lo) /\ \A p \in OwnPages : fr2[p] = fr[p]
      BY <2>2, <2>11, <3>1
    <3>3. Sound(fr2, us, tb, al, lo)
      BY <3>2, SoundStack
    <3> QED BY <1>2, <2>3, <3>1, <3>3 DEF OwnInv
  <2>13. WindowInv'
    <3>1. \A s \in Tasks : stage[s] \notin HasStack
      <4> SUFFICES ASSUME NEW s \in Tasks, stage[s] \in HasStack PROVE FALSE
        OBVIOUS
      <4>1. StackLo \in StackPages
        BY <2>5, <2>8
      <4>2. frame[StackLo] \in alias[s]
        BY <1>1, <4>1 DEF WindowInv
      <4>3. frame[StackLo] # 0
        BY <1>3, <4>2, FrameNotZero DEF AliasMaps
      <4>4. StackLo \in StackPages \cap Mapped
        BY <4>1, <4>3, Layout DEF Mapped
      <4> QED BY <1>5, <4>4
    <3>2. \A s \in Tasks : stage'[s] = IF s = t THEN "stacked" ELSE stage[s]
      BY <1>3, <2>3
    <3>3. /\ \A s \in Tasks : stage'[s] \in HasStack => s = t
          /\ \A s \in Tasks : stage'[s] = "backed" => stage[s] = "backed"
          /\ stage'[t] \in HasStack
      BY <3>1, <3>2 DEF HasStack
    <3> QED BY <1>1, <2>3, <2>9, <3>3 DEF WindowInv, StackSize
  <2>14. <<"backed", "stacked">> \in StackMoves
    BY DEF StackMoves
  <2> HIDE DEF Ok
  <2> QED BY <1>2, <1>3, <2>3, <2>2, <2>10, <2>11, <2>12, <2>13, <2>14, StackKeeps
<1> QED BY <1>4, <1>5
-----------------------------------------------------------------------------
(* The heap and the mmap area.                                             *)

UsrMoves == {<<"stacked", "ready">>, <<"exited", "reset">>, <<"reset", "cleaned">>,
             <<"user", "user">>}

(* The owner of the stack window is the running task or the suspended one, *)
(* and no other task owns it.                                              *)
LEMMA OwnerAlone ==
    ASSUME TypeOK, TaskInv, WindowInv, NEW t \in Tasks, stage[t] \in HasStack
    PROVE  \A s \in Tasks : s # t => stage[s] \notin HasStack
BY DEF WindowInv

(* A step of the window's owner that works on heap and mmap pages keeps    *)
(* what does not depend on them.                                           *)
LEMMA UsrKeeps ==
    ASSUME IInv, NEW t \in Tasks, NEW a, NEW b, <<a, b>> \in UsrMoves,
           cpu = t, stage[t] = a, stage' = [stage EXCEPT ![t] = b],
           UNCHANGED <<buf, prog, got, bias, active, ident, trespass, alias, cpu, outer, irq,
                       mixed, lost>>,
           frame' \in FrameMaps, used' \in SUBSET Frames, tables' \in TableMaps,
           demand' \in SUBSET Pages, UsrTyped',
           \A q \in Pages : q \notin HeapPages \cup MmapPages => frame'[q] = frame[q],
           \A q \in OwnPages : frame'[q] # 0 /\ frame[q] # 0 /\ q \in demand => q \in demand',
           \A q \in OwnPages : frame'[q] # 0 /\ frame[q] = 0 => q \in Taken',
           \A q \in Taken : frame'[q] # 0 => q \in Taken',
           \A q \in Pages : frame'[q] # frame[q] =>
             /\ frame[q] = 0 \/ q \in Taken
             /\ frame'[q] = 0 \/ frame'[q] \notin used,
           \A q \in Taken' : q \in Taken \/ frame'[q] \notin used,
           OwnInv', DemandInv', UsrInv'
    PROVE  IInv'
<1>1. /\ TypeOK /\ OwnInv /\ TaskInv /\ WindowInv /\ GotInv /\ UsrInv /\ CleanInv
  BY DEF IInv
<1>2. /\ stage \in [Tasks -> Stages]
      /\ \A s \in Tasks : stage'[s] = IF s = t THEN b ELSE stage[s]
  BY <1>1 DEF TypeOK
<1>3. \/ a = "stacked" /\ b = "ready"
      \/ a = "exited" /\ b = "reset"
      \/ a = "reset" /\ b = "cleaned"
      \/ a = "user" /\ b = "user"
  BY DEF UsrMoves
<1>4. TypeOK'
  <2>1. CmdTyped' /\ ElfTyped' /\ CpuTyped'
    BY <1>1, <1>2, <1>3, TypeParts DEF CmdTyped, ElfTyped, CpuTyped, Stages
  <2>2. MemTyped'
    BY <1>1, TypeParts DEF MemTyped
  <2> QED BY <2>1, <2>2 DEF TypeOK, MemTyped, UsrTyped, CmdTyped, ElfTyped, CpuTyped,
                            FrameMaps, TableMaps, AliasMaps
<1>5. TaskInv'
  BY <1>1, <1>2, <1>3 DEF TaskInv, HasStack
<1>6. WindowInv'
  <2>1. \A q \in StackPages : frame'[q] = frame[q]
    <3>1. StackPages \cap (HeapPages \cup MmapPages) = {} /\ StackPages \subseteq Pages
      BY Layout
    <3> QED BY <3>1
  <2>2. \A s \in Tasks : /\ stage'[s] \in HasStack <=> stage[s] \in HasStack
                         /\ stage'[s] = "backed" => stage[s] = "backed"
    BY <1>2, <1>3 DEF HasStack
  <2> QED BY <1>1, <2>1, <2>2, WindowStays
<1>7. buf \in Progs /\ prog[cpu] \in Progs
  BY <1>1, <1>3 DEF TaskInv
<1>8. Taken \subseteq Pages
  BY <1>1, TakenInAreas, Layout
<1>9. GotInv'
  <2>1. ASSUME NEW s \in Tasks, NEW i \in 1 .. Len(got[s])
        PROVE  frame'[got[s][i][1]] = frame[got[s][i][1]] \/ got[s][i][2] \in lost
    <3>1. PICK q \in Pages, g \in Frames : q = got[s][i][1] /\ g = got[s][i][2]
      BY <1>1, GotIs, Layout
    <3>2. frame[q] = g \/ g \in lost
      BY <1>1, <3>1 DEF GotInv
    <3>3. s = outer /\ outer # None
      <4>1. got[s] # <<>>
        BY <2>1
      <4>2. stage[s] = "loading"
        BY <1>1, <4>1 DEF TaskInv
      <4> QED BY <1>1, <1>3, <4>2, ImageAssumption DEF TaskInv
    <3>4. g \in GotFrames(outer)
      BY <3>1, <3>3 DEF GotFrames
    <3>5. q \in Taken => frame[q] # g
      BY <1>1, <3>3, <3>4 DEF GotInv
    <3>6. frame[q] = 0 => g \in lost
      BY <3>2, FrameNotZero
    <3> QED BY <3>1, <3>2, <3>5, <3>6
  <2>2. stage'[cpu] \notin {"idle", "read", "loading"} /\ stage[cpu] \notin BeforeLoaded
    BY <1>2, <1>3 DEF BeforeLoaded
  <2>3. outer # None => GotFrames(outer) \subseteq used /\ 0 \notin GotFrames(outer)
    <3>1. outer # None => outer \in Tasks
      BY <1>1 DEF TypeOK
    <3> QED BY <1>1, <3>1, GotInUse
  <2>4. outer # None =>
          /\ \A q \in Pages : frame'[q] = frame[q] \/ frame'[q] \notin GotFrames(outer)
          /\ \A q \in Taken' : q \in Taken \/ frame'[q] \notin GotFrames(outer)
    BY <2>3
  <2> QED BY <1>1, <1>7, <1>8, <2>1, <2>2, <2>4, GotKept
<1>10. CleanInv'
  <2> SUFFICES ASSUME ~mixed
               PROVE  /\ outer' # None => stage'[cpu'] = "idle"
                      /\ \A s \in Tasks : /\ stage'[s] # "idle" => prog'[s] = buf'
                                          /\ stage'[s] \notin {"idle", "read"} => HeadersFit(s)'
                      /\ \A s \in Tasks : \A i \in 1 .. Len(got'[s]) :
                           i <= Len(Image[buf']) /\ got'[s][i][1] = Image[buf'][i] + bias'[s]
                      /\ \A q \in OwnPages : frame'[q] # 0 =>
                           \/ q \in demand' \cup Taken'
                           \/ \E s \in Tasks : q \in LoadedPages(s)'
    BY DEF CleanInv, Taken
  <2>1. outer = None
    BY <1>1, <1>3 DEF CleanInv
  <2>2. ASSUME NEW s \in Tasks
        PROVE  /\ LoadedPages(s)' = LoadedPages(s)
               /\ HeadersFit(s)' <=> HeadersFit(s)
               /\ stage'[s] # "idle" <=> stage[s] # "idle"
               /\ stage'[s] \notin {"idle", "read"} <=> stage[s] \notin {"idle", "read"}
    BY <1>2, <1>3 DEF LoadedPages, GotPages, Holds, PagesAt, HeadersFit, HeaderEnd
  <2>3. /\ \A s \in Tasks : \A i \in 1 .. Len(got'[s]) :
             i <= Len(Image[buf']) /\ got'[s][i][1] = Image[buf'][i] + bias'[s]
        /\ \A s \in Tasks : /\ stage[s] # "idle" => prog[s] = buf
                            /\ stage[s] \notin {"idle", "read"} => HeadersFit(s)
    BY <1>1 DEF CleanInv
  <2>4. \A q \in OwnPages : frame[q] # 0 =>
           \/ q \in demand \cup Taken
           \/ \E s \in Tasks : q \in LoadedPages(s)
    BY <1>1 DEF CleanInv, Taken
  <2> QED BY <2>1, <2>2, <2>3, <2>4
<1> QED BY <1>4, <1>5, <1>6, <1>9, <1>10 DEF IInv

(* So does a step that unmaps such pages.                                  *)
LEMMA UsrUnmapKeeps ==
    ASSUME IInv, NEW t \in Tasks, NEW a, NEW b, <<a, b>> \in UsrMoves,
           cpu = t, stage[t] = a, stage' = [stage EXCEPT ![t] = b],
           UNCHANGED <<buf, prog, got, bias, active, ident, trespass, alias, cpu, outer, irq,
                       mixed>>,
           NEW P \in SUBSET Taken, UnmapNow(P),
           UsrTyped', Taken \ P \subseteq Taken', Taken' \subseteq Taken, UsrInv'
    PROVE  IInv'
<1>1. TypeOK /\ OwnInv /\ DemandInv /\ UsrInv
  BY DEF IInv
<1>2. P \in SUBSET OwnPages /\ P \subseteq HeapPages \cup MmapPages
  BY <1>1, TakenInAreas
<1>3. /\ frame' \in FrameMaps /\ used' \in SUBSET Frames
      /\ tables' = tables /\ lost' = lost /\ demand' = demand \ P
      /\ \A q \in Pages : frame'[q] = IF q \in P THEN 0 ELSE frame[q]
      /\ OwnInv' /\ DemandInv'
  BY <1>1, <1>2, UnmapEffect
<1>4. tables' \in TableMaps /\ demand' \in SUBSET Pages
  BY <1>1, <1>3 DEF TypeOK, TableMaps
<1>5. Taken \subseteq Pages /\ OwnPages \subseteq Pages
  BY <1>1, TakenInAreas, Layout
<1>6. /\ \A q \in Pages : q \notin HeapPages \cup MmapPages => frame'[q] = frame[q]
      /\ \A q \in OwnPages : frame'[q] # 0 /\ frame[q] # 0 /\ q \in demand => q \in demand'
      /\ \A q \in OwnPages : frame'[q] # 0 /\ frame[q] = 0 => q \in Taken'
      /\ \A q \in Taken : frame'[q] # 0 => q \in Taken'
      /\ \A q \in Pages : frame'[q] # frame[q] =>
           /\ frame[q] = 0 \/ q \in Taken
           /\ frame'[q] = 0 \/ frame'[q] \notin used
      /\ \A q \in Taken' : q \in Taken \/ frame'[q] \notin used
  BY <1>2, <1>3, <1>5
<1> QED BY <1>3, <1>4, <1>6, UsrKeeps

(* task_user_heap_config.                                                  *)
LEMMA ConfigKeeps ==
    ASSUME IInv, NEW t \in Tasks, Config(t)
    PROVE  IInv'
<1>1. TypeOK /\ OwnInv /\ DemandInv /\ TaskInv /\ WindowInv /\ UsrInv
  BY DEF IInv
<1>2. /\ cpu = t /\ stage[t] = "stacked" /\ stage' = [stage EXCEPT ![t] = "ready"]
      /\ UnmapNow(HeapInUse) /\ heap' = TRUE /\ brk' = 2 * HeapLo
      /\ UNCHANGED <<mtab, bump, buf, prog, got, bias, active, ident, trespass, alias, cpu,
                     outer, irq, mixed>>
  BY DEF Config, At, Goto, cmd, elf, sched
<1>3. \A s \in Tasks : stage'[s] = IF s = t THEN "ready" ELSE stage[s]
  BY <1>1, <1>2 DEF TypeOK
<1>4. UsrTyped'
  <2>1. 2 * HeapLo \in 0 .. 2 * HeapHi
    BY LayoutAssumption
  <2> QED BY <1>1, <1>2, <2>1, TypeParts DEF UsrTyped
<1>5. \A s \in Tasks : s # t => stage[s] \notin HasStack
  BY <1>1, <1>2, OwnerAlone DEF HasStack
<1>6. Taken \ HeapInUse \subseteq Taken' /\ Taken' \subseteq Taken
  <2>1. HeapInUse' = {}
    <3>1. Up(brk') = HeapLo /\ HeapLo \in Nat
      BY <1>2, LayoutAssumption DEF Up
    <3> QED BY <3>1 DEF HeapInUse
  <2> QED BY <1>2, <2>1 DEF Taken
<1>7. UsrInv'
  <2>1. bump = MmapLo /\ \A i \in Slots : mtab[i] = {}
    BY <1>1, <1>2, <1>5 DEF UsrInv, HasStack
  <2>2. \A s \in Tasks : stage'[s] # "user"
    BY <1>3, <1>5 DEF HasStack
  <2>3. HeapLo \in Nat /\ brk' >= 2 * HeapLo
    BY <1>2, LayoutAssumption
  <2> QED BY <1>2, <1>3, <2>1, <2>2, <2>3 DEF UsrInv
<1>9. PICK P \in SUBSET Taken : P = HeapInUse
  BY DEF Taken
<1>10. <<"stacked", "ready">> \in UsrMoves
  BY DEF UsrMoves
<1> QED BY <1>2, <1>4, <1>6, <1>7, <1>9, <1>10, UsrUnmapKeeps

(* task_user_heap_reset.                                                   *)
LEMMA HeapResetKeeps ==
    ASSUME IInv, NEW t \in Tasks, HeapReset(t)
    PROVE  IInv'
<1>1. TypeOK /\ OwnInv /\ DemandInv /\ TaskInv /\ WindowInv /\ UsrInv
  BY DEF IInv
<1>2. /\ cpu = t /\ stage[t] = "exited" /\ stage' = [stage EXCEPT ![t] = "reset"]
      /\ UnmapNow(HeapInUse) /\ heap' = FALSE /\ brk' = 0
      /\ UNCHANGED <<mtab, bump, buf, prog, got, bias, active, ident, trespass, alias, cpu,
                     outer, irq, mixed>>
  BY DEF HeapReset, At, Goto, cmd, elf, sched
<1>3. \A s \in Tasks : stage'[s] = IF s = t THEN "reset" ELSE stage[s]
  BY <1>1, <1>2 DEF TypeOK
<1>4. UsrTyped'
  <2>1. 0 \in 0 .. 2 * HeapHi
    BY LayoutAssumption
  <2> QED BY <1>1, <1>2, <2>1, TypeParts DEF UsrTyped
<1>5. \A s \in Tasks : s # t => stage[s] \notin HasStack
  BY <1>1, <1>2, OwnerAlone DEF HasStack
<1>6. Taken \ HeapInUse \subseteq Taken' /\ Taken' \subseteq Taken
  BY <1>2 DEF Taken, HeapInUse
<1>7. UsrInv'
  <2>1. \A s \in Tasks : stage'[s] \notin {"ready", "user"}
    BY <1>3, <1>5 DEF HasStack
  <2> QED BY <1>1, <1>2, <1>3, <2>1 DEF UsrInv
<1>9. PICK P \in SUBSET Taken : P = HeapInUse
  BY DEF Taken
<1>10. <<"exited", "reset">> \in UsrMoves
  BY DEF UsrMoves
<1> QED BY <1>2, <1>4, <1>6, <1>7, <1>9, <1>10, UsrUnmapKeeps

(* syscall_mmap_cleanup.                                                   *)
LEMMA CleanMmapKeeps ==
    ASSUME IInv, NEW t \in Tasks, CleanMmap(t)
    PROVE  IInv'
<1>1. TypeOK /\ OwnInv /\ DemandInv /\ TaskInv /\ WindowInv /\ UsrInv
  BY DEF IInv
<1>2. /\ cpu = t /\ stage[t] = "reset" /\ stage' = [stage EXCEPT ![t] = "cleaned"]
      /\ UnmapNow(UNION {mtab[i] : i \in Slots})
      /\ mtab' = [i \in Slots |-> {}] /\ bump' = MmapLo
      /\ UNCHANGED <<heap, brk, buf, prog, got, bias, active, ident, trespass, alias, cpu,
                     outer, irq, mixed>>
  BY DEF CleanMmap, At, Goto, cmd, elf, sched
<1>3. \A s \in Tasks : stage'[s] = IF s = t THEN "cleaned" ELSE stage[s]
  BY <1>1, <1>2 DEF TypeOK
<1>4. UsrTyped'
  <2>1. MmapLo \in MmapLo .. MmapHi
    BY LayoutAssumption
  <2> QED BY <1>1, <1>2, <2>1, TypeParts DEF UsrTyped
<1>5. \A s \in Tasks : s # t => stage[s] \notin HasStack
  BY <1>1, <1>2, OwnerAlone DEF HasStack
<1>6. HeapInUse' = HeapInUse
  BY <1>2 DEF HeapInUse, Up
<1>7. Taken \ UNION {mtab[i] : i \in Slots} \subseteq Taken' /\ Taken' \subseteq Taken
  BY <1>2, <1>6 DEF Taken
<1>8. UsrInv'
  <2>1. \A s \in Tasks : stage'[s] \notin {"ready", "user"}
    BY <1>3, <1>5 DEF HasStack
  <2>2. ~heap
    BY <1>1, <1>2, <1>5 DEF UsrInv, HasStack
  <2>3. \A i \in Slots : mtab'[i] = {}
    BY <1>2
  <2> QED BY <1>2, <2>1, <2>2, <2>3 DEF UsrInv
<1>9. PICK P \in SUBSET Taken : P = UNION {mtab[i] : i \in Slots}
  BY DEF Taken
<1>10. <<"reset", "cleaned">> \in UsrMoves
  BY DEF UsrMoves
<1> QED BY <1>2, <1>4, <1>7, <1>8, <1>9, <1>10, UsrUnmapKeeps

(* What a system call of the program finds: its task owns the window.      *)
LEMMA InUserIs ==
    ASSUME TypeOK, TaskInv, WindowInv, UsrInv, InUser
    PROVE  /\ cpu \in Tasks /\ stage[cpu] = "user" /\ heap
           /\ \A s \in Tasks : s # cpu => stage[s] \notin HasStack
           /\ stage = [stage EXCEPT ![cpu] = "user"]
           /\ <<"user", "user">> \in UsrMoves
           /\ HeapInUse = HeapLo .. Up(brk) - 1
           /\ brk \in Nat /\ HeapLo \in Nat /\ HeapHi \in Nat /\ brk >= 2 * HeapLo
<1>1. cpu \in Tasks /\ stage[cpu] = "user" /\ stage \in [Tasks -> Stages]
  BY DEF TypeOK, InUser
<1>2. \A s \in Tasks : s # cpu => stage[s] \notin HasStack
  BY <1>1, OwnerAlone DEF HasStack
<1>3. heap /\ brk >= 2 * HeapLo
  BY <1>1 DEF UsrInv
<1>4. brk \in Nat /\ HeapLo \in Nat /\ HeapHi \in Nat
  BY LayoutAssumption DEF TypeOK
<1>5. stage = [stage EXCEPT ![cpu] = "user"]
  BY <1>1
<1> QED BY <1>1, <1>2, <1>3, <1>4, <1>5 DEF UsrMoves, HeapInUse

(* A break that shrinks the heap.                                          *)
LEMMA BrkShrinkKeeps ==
    ASSUME IInv, NEW b \in Nat, BrkShrink(b)
    PROVE  IInv'
<1>1. TypeOK /\ OwnInv /\ DemandInv /\ TaskInv /\ WindowInv /\ UsrInv
  BY DEF IInv
<1>2. /\ InUser /\ b < brk /\ b >= 2 * HeapLo /\ heap
      /\ UnmapNow(Up(b) .. Up(brk) - 1) /\ brk' = b
      /\ UNCHANGED <<heap, mtab, bump, stage, buf, prog, got, bias, active, ident, trespass,
                     alias, cpu, outer, irq, mixed>>
  BY DEF BrkShrink, cmd, elf, sched
<1>3. /\ cpu \in Tasks /\ stage[cpu] = "user"
      /\ \A s \in Tasks : s # cpu => stage[s] \notin HasStack
      /\ stage' = [stage EXCEPT ![cpu] = "user"] /\ <<"user", "user">> \in UsrMoves
      /\ HeapInUse = HeapLo .. Up(brk) - 1
      /\ brk \in Nat /\ HeapLo \in Nat /\ HeapHi \in Nat
  BY <1>1, <1>2, InUserIs
<1>4. PICK u \in Nat : u = Up(b)
  BY DEF Up
<1>5. PICK v \in Nat : v = Up(brk)
  BY <1>3 DEF Up
<1>6. HeapLo <= u /\ u <= v
  BY <1>2, <1>3, <1>4, <1>5 DEF Up
<1>7. HeapInUse' = HeapLo .. u - 1 /\ HeapInUse = HeapLo .. v - 1
  BY <1>2, <1>3, <1>4, <1>5 DEF HeapInUse, Up
<1>8. PICK P \in SUBSET Taken : P = u .. v - 1
  <2>1. HeapLo .. v - 1 \subseteq Taken
    BY <1>7 DEF Taken
  <2>2. u .. v - 1 \subseteq HeapLo .. v - 1
    BY <1>3, <1>6
  <2> QED BY <2>1, <2>2
<1>9. HeapInUse' \subseteq HeapInUse \ P /\ HeapInUse \ P \subseteq HeapInUse'
  <2>1. HeapLo \in Nat
    BY <1>3
  <2>2. HeapLo .. u - 1 = (HeapLo .. v - 1) \ (u .. v - 1)
    BY <1>6, <2>1
  <2> QED BY <1>7, <1>8, <2>2
<1>10. P \subseteq HeapPages
  <2>1. HeapLo \in Nat
    BY <1>3
  <2>2. u .. v - 1 \subseteq HeapLo .. v - 1
    BY <1>6, <2>1
  <2> QED BY <1>1, <1>7, <1>8, <2>2, TakenInAreas
<1>11. Taken \ P \subseteq Taken' /\ Taken' \subseteq Taken \ P
  <2>1. \A i \in Slots : mtab[i] \cap P = {}
    BY <1>1, <1>10, TakenInAreas, Layout
  <2> QED BY <1>2, <1>9, <2>1 DEF Taken
<1>12. UsrTyped'
  <2>1. b \in 0 .. 2 * HeapHi
    <3>1. brk <= 2 * HeapHi
      BY <1>1 DEF TypeOK
    <3> QED BY <1>2, <1>3, <3>1
  <2> QED BY <1>1, <1>2, <2>1, TypeParts DEF UsrTyped
<1>13. UnmapNow(P)
  BY <1>2, <1>4, <1>5, <1>8
<1>14. UsrInv'
  <2>1. ASSUME NEW q \in Taken' PROVE frame'[q] # 0
    <3>1. q \in Taken /\ q \notin P /\ q \in Pages
      BY <1>1, <1>11, TakenInAreas, Layout
    <3>2. frame'[q] = frame[q]
      <4>1. P \in SUBSET OwnPages
        BY <1>1, TakenInAreas
      <4> QED BY <1>1, <1>2, <1>13, <3>1, <4>1, UnmapEffect
    <3> QED BY <1>1, <1>3, <3>1, <3>2 DEF UsrInv, Taken
  <2>2. \A s \in Tasks : stage[s] # "ready"
    BY <1>3 DEF HasStack
  <2> QED BY <1>1, <1>2, <2>1, <2>2 DEF UsrInv, Taken
<1> QED BY <1>2, <1>3, <1>8, <1>11, <1>12, <1>13, <1>14, UsrUnmapKeeps

(* An mmap entry is unmapped.                                              *)
LEMMA MunmapKeeps ==
    ASSUME IInv, NEW k \in Slots, Munmap(k)
    PROVE  IInv'
<1>1. TypeOK /\ OwnInv /\ DemandInv /\ TaskInv /\ WindowInv /\ UsrInv
  BY DEF IInv
<1>2. /\ InUser /\ UnmapNow(mtab[k]) /\ mtab' = [mtab EXCEPT ![k] = {}]
      /\ UNCHANGED <<heap, brk, bump, stage, buf, prog, got, bias, active, ident, trespass,
                     alias, cpu, outer, irq, mixed>>
  BY DEF Munmap, cmd, elf, sched
<1>3. /\ cpu \in Tasks /\ stage[cpu] = "user"
      /\ \A s \in Tasks : s # cpu => stage[s] \notin HasStack
      /\ stage' = [stage EXCEPT ![cpu] = "user"] /\ <<"user", "user">> \in UsrMoves
  BY <1>1, <1>2, InUserIs
<1>4. /\ \A i \in Slots : mtab'[i] = IF i = k THEN {} ELSE mtab[i]
      /\ mtab' \in [Slots -> SUBSET MmapPages]
  BY <1>1, <1>2 DEF TypeOK
<1>5. PICK P \in SUBSET Taken : P = mtab[k]
  BY DEF Taken
<1>6. HeapInUse' = HeapInUse
  BY <1>2 DEF HeapInUse, Up
<1>7. Taken \ P \subseteq Taken' /\ Taken' \subseteq Taken \ P
  <2>1. HeapInUse \cap P = {}
    BY <1>1, <1>5, TakenInAreas, Layout
  <2>2. \A i \in Slots : i # k => mtab[i] \cap P = {}
    BY <1>1, <1>5 DEF UsrInv
  <2> QED BY <1>4, <1>5, <1>6, <2>1, <2>2 DEF Taken
<1>8. UsrTyped'
  BY <1>1, <1>2, <1>4, TypeParts DEF UsrTyped
<1>9. UnmapNow(P)
  BY <1>2, <1>5
<1>10. UsrInv'
  <2>1. ASSUME NEW q \in Taken' PROVE frame'[q] # 0
    <3>1. q \in Taken /\ q \notin P /\ q \in Pages
      BY <1>1, <1>7, TakenInAreas, Layout
    <3>2. frame'[q] = frame[q]
      <4>1. P \in SUBSET OwnPages
        BY <1>1, TakenInAreas
      <4> QED BY <1>1, <1>2, <1>9, <3>1, <4>1, UnmapEffect
    <3> QED BY <1>1, <1>3, <3>1, <3>2 DEF UsrInv, Taken
  <2> QED BY <1>1, <1>2, <1>4, <1>3, <2>1 DEF UsrInv, Taken
<1> QED BY <1>2, <1>3, <1>5, <1>7, <1>8, <1>9, <1>10, UsrUnmapKeeps

(* A call that maps the pages lo .. hi - 1 or none of them, and that takes *)
(* the pages it has mapped.                                                *)
LEMMA UsrMapKeeps ==
    ASSUME IInv, InUser, NEW lo \in Nat, NEW hi \in Nat, lo <= hi,
           lo .. hi - 1 \subseteq HeapPages \cup MmapPages,
           MapOrRollBack(lo, hi),
           UNCHANGED <<lost, demand, heap, stage, buf, prog, got, bias, active, ident, trespass,
                       alias, cpu, outer, irq, mixed>>,
           UsrTyped', Taken \subseteq Taken',
           MapPages(lo, hi).ok => Taken' = Taken \cup (lo .. hi - 1),
           ~MapPages(lo, hi).ok => Taken' = Taken,
           (\A q \in Taken' : frame'[q] # 0) => UsrInv'
    PROVE  IInv'
<1>1. TypeOK /\ OwnInv /\ DemandInv /\ TaskInv /\ WindowInv /\ UsrInv
  BY DEF IInv
<1>2. /\ cpu \in Tasks /\ stage[cpu] = "user"
      /\ stage' = [stage EXCEPT ![cpu] = "user"] /\ <<"user", "user">> \in UsrMoves
  BY <1>1, InUserIs
<1>3. lo .. hi - 1 \subseteq OwnPages
  BY Layout
<1>4. /\ frame' \in FrameMaps /\ used' \in SUBSET Frames /\ tables' \in TableMaps
      /\ OwnInv' /\ DemandInv'
      /\ \A q \in Pages : q \notin lo .. hi - 1 => frame'[q] = frame[q]
      /\ MapPages(lo, hi).ok =>
           \A q \in lo .. hi - 1 : frame[q] = 0 /\ frame'[q] \in Frames \ used
      /\ ~MapPages(lo, hi).ok => \A q \in Pages : frame'[q] = frame[q]
  BY <1>1, <1>3, MapEffect
<1>5. Taken \subseteq Pages /\ OwnPages \subseteq Pages
  BY <1>1, TakenInAreas, Layout
<1>6. \A q \in Taken : frame[q] # 0
  BY <1>1, <1>2 DEF UsrInv, Taken
<1>7. /\ \A q \in Pages : q \notin HeapPages \cup MmapPages => frame'[q] = frame[q]
      /\ \A q \in OwnPages : frame'[q] # 0 /\ frame[q] # 0 /\ q \in demand => q \in demand'
      /\ \A q \in Taken : frame'[q] # 0 => q \in Taken'
  BY <1>4
<1>8. \A q \in OwnPages : frame'[q] # 0 /\ frame[q] = 0 => q \in Taken'
  <2>1. CASE MapPages(lo, hi).ok
    BY <1>4, <1>5, <2>1
  <2>2. CASE ~MapPages(lo, hi).ok
    BY <1>4, <1>5, <2>2
  <2> QED BY <2>1, <2>2
<1>12. /\ \A q \in Pages : frame'[q] # frame[q] =>
            /\ frame[q] = 0 \/ q \in Taken
            /\ frame'[q] = 0 \/ frame'[q] \notin used
       /\ \A q \in Taken' : q \in Taken \/ frame'[q] \notin used
  <2>1. CASE MapPages(lo, hi).ok
    BY <1>4, <2>1
  <2>2. CASE ~MapPages(lo, hi).ok
    BY <1>4, <2>2
  <2> QED BY <2>1, <2>2
<1>9. \A q \in Taken' : frame'[q] # 0
  <2>1. CASE MapPages(lo, hi).ok
    <3>1. ASSUME NEW q \in lo .. hi - 1 PROVE frame'[q] # 0
      BY <1>4, <2>1, FrameNotZero
    <3>2. ASSUME NEW q \in Taken, q \notin lo .. hi - 1 PROVE frame'[q] # 0
      BY <1>4, <1>5, <1>6, <3>2
    <3> QED BY <2>1, <3>1, <3>2
  <2>2. CASE ~MapPages(lo, hi).ok
    BY <1>4, <1>5, <1>6, <2>2
  <2> QED BY <2>1, <2>2
<1>10. UsrInv'
  BY <1>9
<1>11. demand' \in SUBSET Pages
  BY <1>1 DEF TypeOK
<1> QED BY <1>2, <1>4, <1>7, <1>8, <1>10, <1>11, <1>12, UsrKeeps

(* A break that grows the heap.                                            *)
LEMMA BrkGrowKeeps ==
    ASSUME IInv, NEW b \in Nat, BrkGrow(b)
    PROVE  IInv'
<1>1. TypeOK /\ OwnInv /\ DemandInv /\ TaskInv /\ WindowInv /\ UsrInv
  BY DEF IInv
<1>2. /\ InUser /\ b > brk /\ b <= 2 * HeapHi /\ heap
      /\ MapOrRollBack(Up(brk), Up(b))
      /\ brk' = IF MapPages(Up(brk), Up(b)).ok THEN b ELSE brk
      /\ UNCHANGED <<lost, demand, heap, mtab, bump, stage, buf, prog, got, bias, active, ident,
                     trespass, alias, cpu, outer, irq, mixed>>
  BY DEF BrkGrow, cmd, elf, sched
<1>3. /\ cpu \in Tasks /\ stage[cpu] = "user"
      /\ \A s \in Tasks : s # cpu => stage[s] \notin HasStack
      /\ brk \in Nat /\ HeapLo \in Nat /\ HeapHi \in Nat /\ brk >= 2 * HeapLo
  BY <1>1, <1>2, InUserIs
<1>4. PICK lo \in Nat : lo = Up(brk)
  BY <1>3 DEF Up
<1>5. PICK hi \in Nat : hi = Up(b)
  BY DEF Up
<1>6. HeapLo <= lo /\ lo <= hi /\ hi <= HeapHi
  BY <1>2, <1>3, <1>4, <1>5 DEF Up
<1>7. /\ MapOrRollBack(lo, hi)
      /\ brk' = IF MapPages(lo, hi).ok THEN b ELSE brk
  BY <1>2, <1>4, <1>5
<1>8. lo .. hi - 1 \subseteq HeapPages \cup MmapPages
  BY <1>3, <1>6 DEF HeapPages
<1>9. HeapInUse' = HeapLo .. Up(brk') - 1 /\ HeapInUse = HeapLo .. lo - 1
  BY <1>2, <1>4 DEF HeapInUse, Up
<1>10. /\ MapPages(lo, hi).ok => HeapInUse' = HeapInUse \cup (lo .. hi - 1)
       /\ ~MapPages(lo, hi).ok => HeapInUse' = HeapInUse
  <2>1. HeapLo .. hi - 1 = (HeapLo .. lo - 1) \cup (lo .. hi - 1)
    BY <1>3, <1>6
  <2> QED BY <1>4, <1>5, <1>7, <1>9, <2>1
<1>11. /\ Taken \subseteq Taken'
       /\ MapPages(lo, hi).ok => Taken' = Taken \cup (lo .. hi - 1)
       /\ ~MapPages(lo, hi).ok => Taken' = Taken
  BY <1>2, <1>10 DEF Taken
<1>12. UsrTyped' /\ brk' >= 2 * HeapLo
  <2>1. brk' \in 0 .. 2 * HeapHi /\ brk' >= 2 * HeapLo
    BY <1>1, <1>2, <1>3, <1>7 DEF TypeOK
  <2> QED BY <1>1, <1>2, <2>1, TypeParts DEF UsrTyped
<1>13. (\A q \in Taken' : frame'[q] # 0) => UsrInv'
  <2>1. \A s \in Tasks : stage[s] # "ready"
    BY <1>3 DEF HasStack
  <2> QED BY <1>1, <1>2, <1>12, <2>1 DEF UsrInv, Taken
<1> QED BY <1>2, <1>6, <1>7, <1>8, <1>11, <1>12, <1>13, UsrMapKeeps

(* An area is mapped at the bump address.                                  *)
LEMMA MmapKeeps ==
    ASSUME IInv, NEW n \in Nat, n > 0, Mmap(n)
    PROVE  IInv'
<1>1. TypeOK /\ OwnInv /\ DemandInv /\ TaskInv /\ WindowInv /\ UsrInv
  BY DEF IInv
<1>2. /\ InUser /\ FreeSlots # {} /\ bump + n <= MmapHi
      /\ MapOrRollBack(bump, bump + n)
      /\ IF MapPages(bump, bump + n).ok
         THEN /\ mtab' = [mtab EXCEPT ![Lowest(FreeSlots)] = bump .. bump + n - 1]
              /\ bump' = bump + n
         ELSE UNCHANGED <<mtab, bump>>
      /\ UNCHANGED <<lost, demand, heap, brk, stage, buf, prog, got, bias, active, ident,
                     trespass, alias, cpu, outer, irq, mixed>>
  BY DEF Mmap, cmd, elf, sched
<1>3. /\ cpu \in Tasks /\ stage[cpu] = "user"
      /\ \A s \in Tasks : s # cpu => stage[s] \notin HasStack
  BY <1>1, <1>2, InUserIs
<1>4. PICK lo \in Nat : lo = bump /\ MmapLo <= lo /\ MmapLo \in Nat /\ MmapHi \in Nat
  BY <1>1, LayoutAssumption DEF TypeOK
<1>5. PICK hi \in Nat : hi = lo + n /\ hi > lo /\ hi <= MmapHi
  BY <1>2, <1>4
<1>6. PICK k \in Slots : k = Lowest(FreeSlots) /\ mtab[k] = {}
  <2>1. FreeSlots \subseteq Nat
    BY LayoutAssumption DEF FreeSlots, Slots
  <2>2. Lowest(FreeSlots) \in FreeSlots
    BY <1>2, <2>1, LowestIn
  <2> QED BY <2>2 DEF FreeSlots
<1>7. /\ MapOrRollBack(lo, hi)
      /\ MapPages(lo, hi).ok =>
           /\ \A i \in Slots : mtab'[i] = IF i = k THEN lo .. hi - 1 ELSE mtab[i]
           /\ mtab' = [mtab EXCEPT ![k] = lo .. hi - 1]
           /\ bump' = hi
      /\ ~MapPages(lo, hi).ok => mtab' = mtab /\ bump' = bump
  <2>1. \A x : mtab' = [mtab EXCEPT ![k] = x] =>
          \A i \in Slots : mtab'[i] = IF i = k THEN x ELSE mtab[i]
    BY <1>1 DEF TypeOK
  <2>2. lo .. hi - 1 = bump .. bump + n - 1 /\ hi = bump + n
    BY <1>4, <1>5
  <2>3. MapOrRollBack(lo, hi) /\ MapPages(lo, hi) = MapPages(bump, bump + n)
    BY <1>2, <1>4, <2>2
  <2>4. MapPages(lo, hi).ok => mtab' = [mtab EXCEPT ![k] = lo .. hi - 1] /\ bump' = hi
    BY <1>2, <1>6, <2>2, <2>3
  <2>5. ~MapPages(lo, hi).ok => mtab' = mtab /\ bump' = bump
    BY <1>2, <2>3
  <2> QED BY <2>1, <2>3, <2>4, <2>5
<1>8. lo .. hi - 1 \subseteq MmapPages
  BY <1>4, <1>5 DEF MmapPages
<1>9. HeapInUse' = HeapInUse
  BY <1>2 DEF HeapInUse, Up
<1>10. /\ MapPages(lo, hi).ok => Taken' = Taken \cup (lo .. hi - 1)
       /\ ~MapPages(lo, hi).ok => Taken' = Taken
       /\ Taken \subseteq Taken'
  BY <1>6, <1>7, <1>9 DEF Taken
<1>11. UsrTyped'
  <2>1. mtab' \in [Slots -> SUBSET MmapPages] /\ bump' \in MmapLo .. MmapHi
    <3>1. mtab \in [Slots -> SUBSET MmapPages] /\ bump \in MmapLo .. MmapHi
      BY <1>1 DEF TypeOK
    <3>2. CASE MapPages(lo, hi).ok
      <4>1. hi \in MmapLo .. MmapHi
        BY <1>4, <1>5
      <4> QED BY <1>7, <1>8, <3>1, <3>2, <4>1
    <3>3. CASE ~MapPages(lo, hi).ok
      BY <1>7, <3>1, <3>3
    <3> QED BY <3>2, <3>3
  <2> QED BY <1>1, <1>2, <2>1, TypeParts DEF UsrTyped
<1>12. (\A q \in Taken' : frame'[q] # 0) => UsrInv'
  <2>1. /\ \A i \in Slots : mtab'[i] \subseteq MmapLo .. bump' - 1
        /\ \A i, j \in Slots : i # j => mtab'[i] \cap mtab'[j] = {}
    <3>1. /\ \A i \in Slots : mtab[i] \subseteq MmapLo .. lo - 1
          /\ \A i, j \in Slots : i # j => mtab[i] \cap mtab[j] = {}
      BY <1>1, <1>4 DEF UsrInv
    <3>2. CASE MapPages(lo, hi).ok
      <4>1. /\ MmapLo .. lo - 1 \subseteq MmapLo .. hi - 1 /\ lo .. hi - 1 \subseteq MmapLo .. hi - 1
            /\ (MmapLo .. lo - 1) \cap (lo .. hi - 1) = {}
        BY <1>4, <1>5
      <4> QED BY <1>7, <3>1, <3>2, <4>1
    <3>3. CASE ~MapPages(lo, hi).ok
      BY <1>4, <1>7, <3>1, <3>3
    <3> QED BY <3>2, <3>3
  <2>2. ~\A s \in Tasks : stage'[s] \notin {"user", "exited", "reset"}
    BY <1>2, <1>3
  <2> QED BY <1>1, <1>2, <2>1, <2>2 DEF UsrInv, Taken
<1>13. lo .. hi - 1 \subseteq HeapPages \cup MmapPages
  BY <1>8
<1> QED BY <1>2, <1>5, <1>7, <1>10, <1>11, <1>12, <1>13, UsrMapKeeps

(* A page fault of the program.  No page of the stack window faults: all   *)
(* of them are mapped.                                                     *)
LEMMA TouchKeeps ==
    ASSUME IInv, NEW p \in Pages, Touch(p)
    PROVE  IInv'
<1>1. /\ TypeOK /\ OwnInv /\ TaskInv /\ WindowInv /\ GotInv /\ UsrInv
      /\ DemandInv /\ CleanInv
  BY DEF IInv
<1>2. /\ InUser /\ frame[p] = 0 /\ MapPage(Memory(frame), p).ok
      /\ SetMemory(MapPage(Memory(frame), p)) /\ demand' = demand \cup {p}
      /\ UNCHANGED <<lost, heap, brk, mtab, bump, stage, buf, prog, got, bias, active, ident,
                     trespass, alias, cpu, outer, irq, mixed>>
  BY DEF Touch, usr, cmd, elf, sched
<1>3. cpu \in Tasks /\ stage[cpu] = "user" /\ heap
  BY <1>1, <1>2, InUserIs
<1>4. /\ frame \in FrameMaps /\ used \in SUBSET Frames /\ tables \in TableMaps
      /\ alias \in AliasMaps /\ lost \in SUBSET Frames
  BY <1>1 DEF TypeOK, FrameMaps, TableMaps, AliasMaps
<1>5. p \in OwnPages
  <2> SUFFICES ASSUME p \in StackPages PROVE FALSE
    BY DEF OwnPages
  <2>1. frame[p] \in alias[cpu]
    BY <1>1, <1>3 DEF WindowInv, HasStack
  <2> QED BY <1>2, <1>3, <1>4, <2>1, FrameNotZero DEF AliasMaps
<1>6. PICK m : m = Memory(frame)
  OBVIOUS
<1>7. m \in Memories /\ m.frame = frame /\ m.used = used /\ m.tables = tables
  BY <1>4, <1>6 DEF Memory, Memories
<1>8. PICK al \in AliasMaps, lo \in SUBSET Frames : al = alias /\ lo = lost
  BY <1>4
<1>9. Sound(m.frame, m.used, m.tables, al, lo)
  BY <1>1, <1>7, <1>8 DEF OwnInv
<1>10. PICK n : n = MapPage(m, p)
  OBVIOUS
<1>11. /\ n \in Memories /\ Sound(n.frame, n.used, n.tables, al, lo)
       /\ n.ok => \E f \in Frames \ used : n.frame = [frame EXCEPT ![p] = f]
  <2>1. LET x == MapPage(m, p)
        IN  /\ x \in Memories /\ Sound(x.frame, x.used, x.tables, al, lo)
            /\ x.ok => \E f \in Frames \ m.used : x.frame = [m.frame EXCEPT ![p] = f]
    BY <1>5, <1>7, <1>9, MapPageIs
  <2> QED BY <1>7, <1>10, <2>1
<1>12. /\ frame' = n.frame /\ used' = n.used /\ tables' = n.tables /\ n.ok
       /\ frame' \in FrameMaps /\ used' \in SUBSET Frames /\ tables' \in TableMaps
  BY <1>2, <1>6, <1>10, <1>11 DEF SetMemory, Memories
<1>13. PICK f \in Frames \ used : frame' = [frame EXCEPT ![p] = f]
  BY <1>11, <1>12
<1>14. /\ \A q \in Pages : frame'[q] = IF q = p THEN f ELSE frame[q]
       /\ f # 0
  BY <1>4, <1>13, FrameNotZero DEF FrameMaps
<1>15. TypeOK'
  <2>1. MemTyped' /\ CmdTyped' /\ UsrTyped' /\ ElfTyped' /\ CpuTyped'
    BY <1>1, <1>2, <1>12, TypeParts DEF MemTyped, CmdTyped, UsrTyped, ElfTyped, CpuTyped
  <2> QED BY <2>1 DEF TypeOK, MemTyped, UsrTyped, CmdTyped, ElfTyped, CpuTyped, FrameMaps,
                      TableMaps, AliasMaps
<1>16. OwnInv'
  BY <1>2, <1>8, <1>11, <1>12 DEF OwnInv
<1>17. DemandInv'
  BY <1>1, <1>2, <1>5, <1>14 DEF DemandInv, TypeOK, OwnPages
<1>18. TaskInv'
  BY <1>1, <1>2 DEF TaskInv
<1>19. WindowInv'
  <2>1. \A q \in StackPages : frame'[q] = frame[q]
    BY <1>5, <1>14, Layout
  <2> QED BY <1>1, <1>2, <2>1, WindowStays
<1>20. GotInv'
  <2>1. ASSUME NEW s \in Tasks, NEW i \in 1 .. Len(got[s])
        PROVE  frame'[got[s][i][1]] = frame[got[s][i][1]] \/ got[s][i][2] \in lost
    <3>1. PICK q \in Pages, g \in Frames : q = got[s][i][1] /\ g = got[s][i][2]
      BY <1>1, GotIs, Layout
    <3>2. frame[q] = g \/ g \in lost
      BY <1>1, <3>1 DEF GotInv
    <3>3. frame'[q] = frame[q] \/ g \in lost
      BY <1>2, <1>14, <3>2, FrameNotZero
    <3> QED BY <3>1, <3>3
  <2>2. Taken' = Taken /\ Taken \subseteq Pages
    BY <1>1, <1>2, TakenInAreas, Layout DEF Taken, HeapInUse, Up
  <2>3. outer # None =>
          /\ \A q \in Pages : frame'[q] = frame[q] \/ frame'[q] \notin GotFrames(outer)
          /\ \A q \in Taken' : q \in Taken \/ frame'[q] \notin GotFrames(outer)
    <3>1. outer # None => GotFrames(outer) \subseteq used
      <4>1. outer # None => outer \in Tasks
        BY <1>1 DEF TypeOK
      <4> QED BY <1>1, <4>1, GotInUse
    <3> QED BY <1>14, <2>2, <3>1
  <2>4. buf \in Progs /\ prog[cpu] \in Progs
    BY <1>1, <1>3 DEF TaskInv
  <2>5. stage'[cpu] = "user" /\ stage[cpu] = "user"
    BY <1>2, <1>3
  <2>6. UNCHANGED <<got, cpu, outer, buf, prog, bias, active, lost>>
    BY <1>2
  <2> QED BY <1>1, <2>1, <2>2, <2>3, <2>4, <2>5, <2>6, GotKept DEF BeforeLoaded
<1>21. UsrInv'
  <2>1. Taken' = Taken /\ HeapInUse' = HeapInUse
    BY <1>2 DEF Taken, HeapInUse, Up
  <2>2. \A q \in Taken : frame[q] # 0 /\ q \in Pages
    BY <1>1, <1>3, TakenInAreas, Layout DEF UsrInv, Taken
  <2>3. \A q \in Taken' : frame'[q] # 0
    BY <1>14, <2>1, <2>2
  <2> QED BY <1>1, <1>2, <2>3 DEF UsrInv, Taken
<1>22. CleanInv'
  <2>1. HeapInUse' = HeapInUse
    BY <1>2 DEF HeapInUse, Up
  <2>2. ASSUME NEW s \in Tasks
        PROVE  LoadedPages(s)' = LoadedPages(s) /\ (HeadersFit(s)' <=> HeadersFit(s))
    BY <1>2 DEF LoadedPages, GotPages, Holds, PagesAt, HeadersFit, HeaderEnd
  <2>3. \A q \in OwnPages : frame'[q] # 0 => frame[q] # 0 \/ q \in demand'
    BY <1>2, <1>14, Layout
  <2> QED BY <1>1, <1>2, <2>1, <2>2, <2>3 DEF CleanInv
<1> QED BY <1>15, <1>16, <1>17, <1>18, <1>19, <1>20, <1>21, <1>22 DEF IInv

(* elf_unload, as long as it meets neither a page of the stack window nor  *)
(* a frame in use behind the identity mapping, unmaps pages of no stack;   *)
(* without an exec inside another one they are those the task has loaded.  *)
LEMMA UnloadIs ==
    ASSUME TypeOK, OwnInv, TaskInv, DemandInv, CleanInv, NEW t \in Tasks, Unload(t), ~trespass'
    PROVE  /\ cpu = t /\ stage[t] = "unload" /\ buf \in Progs
           /\ stage' = [stage EXCEPT ![t] = "idle"] /\ prog' = [prog EXCEPT ![t] = None]
           /\ UNCHANGED <<heap, brk, mtab, bump, buf, got, bias, alias, cpu, outer, irq, mixed>>
           /\ active' \in [Sizes -> {0, Bias}] /\ ident' \subseteq Ident
           /\ trespass' \in BOOLEAN
           /\ \E P \in SUBSET OwnPages :
                /\ UnmapNow(P) /\ P \subseteq Holds(t)
                /\ ~mixed => \A q \in Holds(t) : q \in P \/ q \in StackPages
<1>1. /\ cpu = t /\ stage[t] = "unload"
      /\ stage' = [stage EXCEPT ![t] = "idle"] /\ prog' = [prog EXCEPT ![t] = None]
      /\ UNCHANGED <<heap, brk, mtab, bump, buf, got, bias, alias, cpu, outer, irq, mixed>>
  BY DEF Unload, At, Return, Goto, usr, sched
<1>2. buf \in Progs /\ prog[t] \in Progs
  BY <1>1 DEF TaskInv
<1>3. /\ Size[prog[t]] \in Sizes /\ Holds(t) \subseteq Pages
      /\ active \in [Sizes -> {0, Bias}] /\ ident \subseteq Ident
  BY <1>2, HoldsIs DEF TypeOK
<1>4. /\ frame \in FrameMaps /\ used \in SUBSET Frames /\ 0 \notin used
      /\ \A q \in demand : q \notin StackPages
  BY FrameNotZero DEF TypeOK, FrameMaps, DemandInv
<1>5. CASE HeadersFit(t)
  <2> DEFINE H == Holds(t)
             homes == {Home[p] : p \in H \cap ident}
             P == H \ StackPages
  <2>1. /\ frame' = [p \in Pages |-> IF p \in H THEN 0 ELSE frame[p]]
        /\ used' = used \ (FramesOf(H) \cup homes) /\ demand' = demand \ H
        /\ active' = [active EXCEPT ![Size[prog[t]]] = 0]
        /\ ident' = IF tables["boot"] = 0 THEN ident ELSE ident \ H
        /\ trespass' = (\/ trespass
                        \/ H \cap StackPages \cap Mapped # {}
                        \/ homes \cap used # {})
        /\ tables' = tables /\ lost' = lost
    BY <1>5 DEF Unload, Holds
  <2>2. trespass' \in BOOLEAN /\ homes \cap used = {} /\ H \cap StackPages \cap Mapped = {}
    BY <2>1
  <2> HIDE DEF homes
  <2>3. \A q \in H \cap StackPages : frame[q] = 0
    BY <1>3, <2>2 DEF Mapped
  <2>4. P \in SUBSET OwnPages
    BY <1>3 DEF OwnPages
  <2>5. frame' = [p \in Pages |-> IF p \in P THEN 0 ELSE frame[p]]
    BY <1>3, <2>1, <2>3
  <2>6. used' = used \ {frame[p] : p \in P}
    <3>1. used' = used \ FramesOf(H)
      BY <2>1, <2>2
    <3>2. used \ FramesOf(H) = used \ {frame[p] : p \in P}
      BY <1>4, <2>3 DEF FramesOf
    <3> QED BY <3>1, <3>2
  <2>7. demand' = demand \ P
    BY <1>4, <2>1
  <2>8. UnmapNow(P)
    BY <2>1, <2>5, <2>6, <2>7 DEF UnmapNow, SetMemory, Unmap, Memory
  <2>9. active' \in [Sizes -> {0, Bias}] /\ ident' \subseteq Ident
    BY <1>3, <2>1
  <2>10. P \subseteq Holds(t) /\ \A q \in Holds(t) : q \in P \/ q \in StackPages
    OBVIOUS
  <2> QED BY <1>1, <1>2, <2>2, <2>4, <2>8, <2>9, <2>10
<1>6. CASE ~HeadersFit(t)
  <2>1. /\ UNCHANGED <<frame, used, tables, lost, demand, active, ident, trespass>>
        /\ trespass' \in BOOLEAN
    BY <1>6 DEF Unload, mem, TypeOK
  <2>2. mixed
    BY <1>1, <1>6 DEF CleanInv, TypeOK
  <2>3. frame = [p \in Pages |-> frame[p]]
    BY <1>4 DEF FrameMaps
  <2>4. UnmapNow({})
    BY <2>1, <2>3 DEF UnmapNow, SetMemory, Unmap, Memory
  <2> QED BY <1>1, <1>2, <1>3, <2>1, <2>2, <2>4
<1> QED BY <1>5, <1>6

(* elf_unload frees nothing that a suspended exec has loaded.              *)
LEMMA UnloadKeeps ==
    ASSUME IInv, NEW t \in Tasks, Unload(t), ~trespass'
    PROVE  IInv'
<1>1. /\ TypeOK /\ OwnInv /\ TaskInv /\ WindowInv /\ GotInv /\ UsrInv
      /\ DemandInv /\ CleanInv
  BY DEF IInv
<1>2. /\ cpu = t /\ stage[t] = "unload" /\ buf \in Progs
      /\ stage' = [stage EXCEPT ![t] = "idle"] /\ prog' = [prog EXCEPT ![t] = None]
      /\ UNCHANGED <<heap, brk, mtab, bump, buf, got, bias, alias, cpu, outer, irq, mixed>>
      /\ active' \in [Sizes -> {0, Bias}] /\ ident' \subseteq Ident /\ trespass' \in BOOLEAN
  BY <1>1, UnloadIs
<1>3. \A s \in Tasks : stage'[s] = IF s = t THEN "idle" ELSE stage[s]
  BY <1>1, <1>2 DEF TypeOK
<1>4. PICK P \in SUBSET OwnPages :
        /\ UnmapNow(P) /\ P \subseteq Holds(t)
        /\ ~mixed => \A q \in Holds(t) : q \in P \/ q \in StackPages
  BY <1>1, UnloadIs
<1>7. /\ frame' \in FrameMaps /\ used' \in SUBSET Frames
      /\ tables' = tables /\ lost' = lost /\ demand' = demand \ P
      /\ \A q \in Pages : frame'[q] = IF q \in P THEN 0 ELSE frame[q]
      /\ OwnInv' /\ DemandInv'
  BY <1>1, <1>2, <1>4, UnmapEffect
<1>8. TypeOK'
  <2>1. CmdTyped' /\ ElfTyped' /\ CpuTyped'
    BY <1>1, <1>2, TypeParts DEF CmdTyped, ElfTyped, CpuTyped, Stages
  <2>2. MemTyped' /\ UsrTyped'
    BY <1>1, <1>2, <1>7, TypeParts DEF MemTyped, UsrTyped
  <2> QED BY <2>1, <2>2 DEF TypeOK, MemTyped, UsrTyped, CmdTyped, ElfTyped, CpuTyped,
                            FrameMaps, TableMaps, AliasMaps
<1>9. TaskInv'
  <2>1. outer # None => outer \in Tasks /\ outer # t /\ stage'[outer] = stage[outer]
    BY <1>1, <1>2, <1>3 DEF TaskInv, TypeOK
  <2> QED BY <1>1, <1>2, <1>3, <2>1 DEF TaskInv, HasStack
<1>10. WindowInv'
  <2>1. \A q \in StackPages : frame'[q] = frame[q]
    BY <1>4, <1>7, Layout
  <2>2. \A s \in Tasks : /\ stage'[s] \in HasStack <=> stage[s] \in HasStack
                         /\ stage'[s] = "backed" => stage[s] = "backed"
    BY <1>2, <1>3 DEF HasStack
  <2> QED BY <1>1, <1>2, <2>1, <2>2, WindowStays
<1>11. GotInv'
  <2>1. ASSUME NEW s \in Tasks, NEW i \in 1 .. Len(got'[s])
        PROVE  /\ frame'[got'[s][i][1]] = got'[s][i][2] \/ got'[s][i][2] \in lost'
               /\ got'[s][i][1] \notin StackPages
    <3>1. got' = got /\ i \in 1 .. Len(got[s])
      BY <1>2, <2>1
    <3>2. PICK q \in Pages, g \in Frames : q = got[s][i][1] /\ g = got[s][i][2]
      BY <1>1, <3>1, GotIs, Layout
    <3>3. (frame[q] = g \/ g \in lost) /\ q \notin StackPages
      BY <1>1, <3>1, <3>2 DEF GotInv
    <3>4. s = outer /\ outer # None
      <4>1. got[s] # <<>>
        BY <3>1
      <4>2. stage[s] = "loading"
        BY <1>1, <4>1 DEF TaskInv
      <4> QED BY <1>1, <1>2, <4>2, ImageAssumption DEF TaskInv
    <3>5. g \in GotFrames(outer)
      BY <3>1, <3>2, <3>4 DEF GotFrames
    <3>6. \A x \in P : frame[x] \notin GotFrames(outer)
      BY <1>1, <1>2, <1>4, <3>4 DEF GotInv, BeforeLoaded
    <3>7. frame'[q] = g \/ g \in lost
      BY <1>7, <3>2, <3>3, <3>5, <3>6
    <3> QED BY <1>7, <3>1, <3>2, <3>3, <3>7
  <2>2. stage'[cpu'] = "idle" /\ GotFrames(cpu)' = {}
    <3>1. got'[cpu'] = <<>> /\ stage'[cpu'] = "idle"
      BY <1>1, <1>2, <1>3 DEF TaskInv
    <3> QED BY <3>1 DEF GotFrames
  <2>3. ASSUME outer' # None, NEW q \in Taken' PROVE frame'[q] \notin GotFrames(outer)'
    <3>1. q \in Taken /\ q \in Pages
      BY <1>1, <1>2, TakenInAreas, Layout DEF Taken, HeapInUse, Up
    <3>2. outer # None /\ outer \in Tasks
      BY <1>1, <1>2, <2>3 DEF TypeOK
    <3>3. GotFrames(outer)' = GotFrames(outer)
      BY <1>2 DEF GotFrames
    <3>4. frame'[q] = frame[q] \/ frame'[q] = 0
      BY <1>7, <3>1
    <3>5. frame[q] \notin GotFrames(outer) /\ 0 \notin GotFrames(outer)
      BY <1>1, <3>1, <3>2, GotInUse DEF GotInv
    <3> QED BY <3>3, <3>4, <3>5
  <2> QED BY <2>1, <2>2, <2>3 DEF GotInv, BeforeLoaded
<1>12. HeapInUse' = HeapInUse
  BY <1>2 DEF HeapInUse, Up
<1>13. UsrInv'
  <2>1. ASSUME NEW s \in Tasks, stage'[s] = "user" PROVE FALSE
    <3>1. s # t /\ stage[s] = "user"
      BY <1>3, <2>1
    <3>2. s = outer /\ outer # None
      BY <1>1, <1>2, <3>1, ImageAssumption DEF TaskInv
    <3> QED BY <1>1, <3>1, <3>2 DEF TaskInv
  <2> QED BY <1>1, <1>2, <1>3, <1>12, <2>1 DEF UsrInv
<1>14. CleanInv'
  <2> SUFFICES ASSUME ~mixed
               PROVE  /\ outer' # None => stage'[cpu'] = "idle"
                      /\ \A s \in Tasks : /\ stage'[s] # "idle" => prog'[s] = buf'
                                          /\ stage'[s] \notin {"idle", "read"} => HeadersFit(s)'
                      /\ \A s \in Tasks : \A i \in 1 .. Len(got'[s]) :
                           i <= Len(Image[buf']) /\ got'[s][i][1] = Image[buf'][i] + bias'[s]
                      /\ \A q \in OwnPages : frame'[q] # 0 =>
                           \/ q \in demand' \cup HeapInUse' \cup UNION {mtab'[i] : i \in Slots}
                           \/ \E s \in Tasks : q \in LoadedPages(s)'
    BY <1>2 DEF CleanInv
  <2>1. stage'[cpu'] = "idle"
    BY <1>2, <1>3
  <2>2. \A s \in Tasks : \A i \in 1 .. Len(got'[s]) :
          i <= Len(Image[buf']) /\ got'[s][i][1] = Image[buf'][i] + bias'[s]
    BY <1>1, <1>2 DEF CleanInv
  <2>3. ASSUME NEW s \in Tasks, s # t PROVE stage[s] = "idle" /\ LoadedPages(s) = {}
    <3>1. outer = None
      BY <1>1, <1>2 DEF CleanInv
    <3>2. stage[s] = "idle"
      BY <1>1, <1>2, <2>3, <3>1, ImageAssumption DEF TaskInv
    <3> QED BY <3>2 DEF LoadedPages
  <2>4. \A q \in LoadedPages(t) : q \in P \/ q \in StackPages
    BY <1>2, <1>4 DEF LoadedPages
  <2>5. \A q \in OwnPages : frame[q] # 0 =>
           \/ q \in demand \cup HeapInUse \cup UNION {mtab[i] : i \in Slots}
           \/ \E s \in Tasks : q \in LoadedPages(s)
    BY <1>1 DEF CleanInv
  <2>6. ASSUME NEW q \in OwnPages, frame'[q] # 0
        PROVE  q \in demand' \cup HeapInUse' \cup UNION {mtab'[i] : i \in Slots}
    <3>1. q \notin P /\ q \notin StackPages /\ frame[q] # 0
      BY <1>7, <2>6, Layout
    <3> QED BY <1>2, <1>7, <1>12, <2>3, <2>4, <2>5, <3>1
  <2>7. ASSUME NEW s \in Tasks PROVE stage'[s] = "idle"
    BY <1>3, <2>3
  <2> QED BY <2>1, <2>2, <2>6, <2>7
<1> QED BY <1>7, <1>8, <1>9, <1>10, <1>11, <1>13, <1>14 DEF IInv
-----------------------------------------------------------------------------
(* The theorems.                                                           *)

(* At the start nothing is mapped and only the kernel's frames are in use. *)
LEMMA InitIInv ==
    ASSUME Init
    PROVE  IInv
<1>1. TypeOK
  <2>1. /\ 0 \in 0 .. 2 * HeapHi /\ MmapLo \in MmapLo .. MmapHi
        /\ <<>> \in Seq(ImagePages \X Frames)
    BY LayoutAssumption, EmptySeq
  <2>2. Reserved \subseteq Frames
    BY LayoutAssumption
  <2> QED BY <2>1, <2>2, ImageAssumption DEF Init, TypeOK, Stages
<1>2. /\ \A t \in Tasks : stage[t] = "idle" /\ got[t] = <<>> /\ alias[t] = {}
      /\ \A p \in Pages : frame[p] = 0
      /\ \A a \in Areas : tables[a] = 0
      /\ \A i \in Slots : mtab[i] = {}
      /\ used = Reserved /\ lost = {} /\ demand = {} /\ heap = FALSE /\ outer = None /\ bump = MmapLo
      /\ cpu \in Tasks
  BY DEF Init
<1>3. OwnInv
  <2>1. \A p \in OwnPages : frame[p] = 0
    BY <1>2, Layout
  <2>2. Reserved \subseteq Frames
    BY LayoutAssumption
  <2> QED BY <1>2, <2>1, <2>2, FrameNotZero DEF OwnInv, Sound, Accounts
<1>4. TaskInv
  BY <1>2 DEF TaskInv
<1>5. WindowInv
  BY <1>2, Layout DEF WindowInv, HasStack
<1>6. GotInv
  BY <1>2 DEF GotInv
<1>7. UsrInv
  BY <1>2 DEF UsrInv
<1>8. DemandInv /\ CleanInv
  <2>1. \A p \in OwnPages : frame[p] = 0
    BY <1>2, Layout
  <2> QED BY <1>2, <2>1 DEF DemandInv, CleanInv
<1> QED BY <1>1, <1>3, <1>4, <1>5, <1>6, <1>7, <1>8 DEF IInv

(* The steps of cmd_exec.                                                  *)
LEMMA ExecKeeps ==
    ASSUME IInv, NEW t \in Tasks, Exec(t), ~trespass'
    PROVE  IInv'
<1>1. ASSUME NEW p \in Progs, Read(t, p) PROVE IInv'
  BY <1>1, ReadKeeps
<1>2. CASE Load(t) \/ LoadCut(t) \/ Loaded(t)
  BY <1>2, LoadKeeps
<1>3. CASE LoadPage(t)
  <2>1. TypeOK /\ OwnInv /\ TaskInv
    BY DEF IInv
  <2>2. /\ cpu = t /\ stage[t] = "loading" /\ buf \in Progs /\ prog[t] \in Progs
        /\ Len(got[t]) < Len(Image[buf])
        /\ UNCHANGED <<heap, brk, mtab, bump, buf, alias, active, cpu, outer, irq, mixed>>
        /\ ident' \subseteq Ident /\ trespass' \in BOOLEAN
    BY <1>3, <2>1, LoadPageIs
  <2>3. PICK p \in PagesAt(buf, bias[t]) :
          /\ p = Image[buf][Len(got[t]) + 1] + bias[t] /\ p \in OwnPages
          /\ \/ /\ \E f \in Frames \ used :
                     /\ frame' = [frame EXCEPT ![p] = f]
                     /\ got' = [got EXCEPT ![t] = Append(@, <<p, f>>)]
                /\ used' \in SUBSET Frames /\ tables' \in TableMaps
                /\ lost' = lost \cup ({frame[p]} \ {0})
                /\ demand' = demand \ {p}
                /\ OwnInv' /\ stage' = stage /\ prog' = prog /\ bias' = bias
             \/ \E m \in Memories :
                  /\ Sound(frame, m.used, m.tables, alias, lost)
                  /\ Rollback(t, p, m) /\ EndLoad(t) /\ Return(t)
    BY <1>3, <2>1, LoadPageIs
  <2>4. ASSUME NEW m \in Memories, Sound(frame, m.used, m.tables, alias, lost),
               Rollback(t, p, m), EndLoad(t), Return(t)
        PROVE  IInv'
    BY <2>2, <2>3, <2>4, RollbackKeeps
  <2>5. CASE /\ \E f \in Frames \ used :
                  /\ frame' = [frame EXCEPT ![p] = f]
                  /\ got' = [got EXCEPT ![t] = Append(@, <<p, f>>)]
             /\ used' \in SUBSET Frames /\ tables' \in TableMaps
             /\ lost' = lost \cup ({frame[p]} \ {0})
             /\ demand' = demand \ {p}
             /\ OwnInv' /\ stage' = stage /\ prog' = prog /\ bias' = bias
    <3>1. PICK f \in Frames \ used :
            /\ frame' = [frame EXCEPT ![p] = f]
            /\ got' = [got EXCEPT ![t] = Append(@, <<p, f>>)]
      BY <2>5
    <3> QED BY <2>2, <2>3, <2>5, <3>1, LoadPageKeeps
  <2> QED BY <2>3, <2>4, <2>5
<1>4. ASSUME NEW a, NEW b, <<a, b>> \in Moves, stage[cpu] = a,
             stage' = [stage EXCEPT ![cpu] = b],
             UNCHANGED <<frame, used, tables, lost, demand, heap, brk, mtab, bump, buf, prog, got,
                         bias, active, ident, trespass, alias, cpu, outer, mixed>>,
             irq' \in BOOLEAN
      PROVE  IInv'
  BY <1>4, MoveKeeps
<1>5. irq \in BOOLEAN
  BY DEF IInv, TypeOK
<1>6. CASE CheckStack(t)
  <2>1. PICK b : b \in {"free", "unload"} /\ stage' = [stage EXCEPT ![cpu] = b]
    BY <1>6 DEF CheckStack, Goto, At
  <2>2. <<"loaded", b>> \in Moves
    BY <2>1 DEF Moves
  <2> QED BY <1>4, <1>5, <1>6, <2>1, <2>2 DEF CheckStack, At, mem, usr, cmd, elf, sched
<1>7. CASE CheckOnly(t)
  <2>1. <<"loaded", "unload">> \in Moves
    BY DEF Moves
  <2> QED BY <1>4, <1>5, <1>7, <2>1 DEF CheckOnly, At, Goto, mem, usr, cmd, elf, sched
<1>8. CASE ArgsTooLong(t)
  <2>1. <<"ready", "exited">> \in Moves
    BY DEF Moves
  <2> QED BY <1>4, <1>5, <1>8, <2>1 DEF ArgsTooLong, At, Goto, mem, usr, cmd, elf, sched
<1>9. CASE Enter(t)
  <2>1. <<"ready", "user">> \in Moves
    BY DEF Moves
  <2> QED BY <1>4, <1>9, <2>1 DEF Enter, At, Goto, mem, usr, cmd, elf
<1> QED BY <1>1, <1>2, <1>3, <1>6, <1>7, <1>8, <1>9, BackStackKeeps, MapStackKeeps, ConfigKeeps,
           HeapResetKeeps, CleanMmapKeeps, FreeStackKeeps, UnloadKeeps DEF Exec

(* The steps of a program in ring 3.                                       *)
LEMMA ProgramKeeps ==
    ASSUME IInv, Program
    PROVE  IInv'
<1>1. ASSUME NEW b \in 1 .. 2 * HeapHi + 1, BrkGrow(b) \/ BrkShrink(b) PROVE IInv'
  <2>1. b \in Nat
    BY LayoutAssumption
  <2> QED BY <1>1, <2>1, BrkGrowKeeps, BrkShrinkKeeps
<1>2. ASSUME NEW n \in 1 .. MmapHi - MmapLo, Mmap(n) PROVE IInv'
  <2>1. n \in Nat /\ n > 0
    BY LayoutAssumption
  <2> QED BY <1>2, <2>1, MmapKeeps
<1>3. ASSUME NEW k \in Slots, Munmap(k) PROVE IInv'
  BY <1>3, MunmapKeeps
<1>4. ASSUME NEW p \in Pages \ KernelHalf, Touch(p) PROVE IInv'
  BY <1>4, TouchKeeps
<1>5. ASSUME NEW fault \in BOOLEAN, UserExit(fault) PROVE IInv'
  <2>1. <<"user", "exited">> \in Moves
    BY DEF Moves
  <2> QED BY <1>5, <2>1, MoveKeeps DEF UserExit, InUser, Goto, mem, usr, cmd, elf
<1> QED BY <1>1, <1>2, <1>3, <1>4, <1>5 DEF Program

(* Every step of two execs, of their programs and of the timer that takes  *)
(* away no stack page and no frame in use keeps the invariant.             *)
LEMMA NextKeeps ==
    ASSUME IInv, [Next]_vars, ~trespass'
    PROVE  IInv'
<1>1. CASE Next
  BY <1>1, ExecKeeps, ProgramKeeps, TimerKeeps DEF Next
<1>2. CASE UNCHANGED vars
  <2>2. IInv => TypeOK /\ TaskInv /\ CleanInv
    BY DEF IInv
  <2>3. UNCHANGED <<frame, used, tables, lost, demand, buf, stage, prog, got, bias, active,
                    ident, trespass, alias, heap, brk, mtab, bump, cpu, outer, irq, mixed>>
    BY <1>2 DEF vars
  <2>4. TypeOK' /\ TaskInv' /\ UsrInv'
    BY <2>3 DEF IInv, TypeOK, TaskInv, UsrInv, HeapInUse, Up
  <2>5. OwnInv' /\ DemandInv'
    BY <2>3, MemStays DEF IInv
  <2>6. WindowInv'
    BY <2>3 DEF IInv, WindowInv, StackSize
  <2>7. GotInv'
    <3>1. Taken' = Taken
      BY <2>3 DEF Taken, HeapInUse, Up
    <3>2. Holds(cpu)' = Holds(cpu)
      BY <2>3 DEF Holds, PagesAt
    <3>3. GotFrames(cpu)' = GotFrames(cpu) /\ GotFrames(outer)' = GotFrames(outer)
      BY <2>3 DEF GotFrames
    <3> QED BY <2>3, <3>1, <3>2, <3>3 DEF IInv, GotInv
  <2>8. CleanInv'
    <3>1. HeapInUse' = HeapInUse
      BY <2>3 DEF HeapInUse, Up
    <3>2. ASSUME NEW t \in Tasks
          PROVE  LoadedPages(t)' = LoadedPages(t) /\ (HeadersFit(t)' <=> HeadersFit(t))
      BY <2>3 DEF LoadedPages, GotPages, Holds, PagesAt, HeadersFit, HeaderEnd
    <3> QED BY <2>2, <2>3, <3>1, <3>2 DEF CleanInv
  <2> QED BY <2>4, <2>5, <2>6, <2>7, <2>8 DEF IInv
<1> QED BY <1>1, <1>2

(* What is taken away stays taken away.                                    *)
LEMMA TrespassStays ==
    ASSUME trespass, [Next]_vars
    PROVE  trespass'
<1>1. ASSUME NEW t \in Tasks, Exec(t) PROVE trespass'
  <2>1. CASE LoadPage(t)
    BY <2>1 DEF LoadPage
  <2>2. CASE Unload(t)
    BY <2>2 DEF Unload
  <2>3. CASE ~LoadPage(t) /\ ~Unload(t)
    BY <1>1, <2>3 DEF Exec, Read, Load, LoadCut, Loaded, CheckStack, CheckOnly, BackStack,
                      MapStack, Config, ArgsTooLong, Enter, HeapReset, CleanMmap, FreeStack, elf
  <2> QED BY <2>1, <2>2, <2>3
<1>2. CASE Program
  BY <1>2 DEF Program, BrkGrow, BrkShrink, Mmap, Munmap, Touch, UserExit, elf
<1>3. CASE Resume \/ \E t \in Tasks : Preempt(t) \/ Yield(t)
  BY <1>3 DEF Resume, Preempt, Yield, elf
<1>4. CASE UNCHANGED vars
  BY <1>4 DEF vars
<1> QED BY <1>1, <1>2, <1>3, <1>4 DEF Next

(* Whatever tasks exec, and wherever the timer suspends them: until a load *)
(* or an unload takes away a page of the stack window or a frame in use,   *)
(* the page tables, the frame bitmap, the stack window and the accounts of *)
(* every load agree.                                                       *)
THEOREM Inductive == Spec => [](trespass \/ IInv)
<1>1. Init => trespass \/ IInv
  BY InitIInv
<1>2. (trespass \/ IInv) /\ [Next]_vars => (trespass \/ IInv)'
  BY NextKeeps, TrespassStays
<1> QED BY <1>1, <1>2, PTL DEF Spec

(* What the invariant says of each page, alias and page table is what      *)
(* FramesSound says of the sets of frames they own.                        *)
LEMMA OneOwner ==
    ASSUME IInv
    PROVE  FramesSound
<1>1. TypeOK /\ OwnInv /\ WindowInv /\ UsrInv
  BY DEF IInv
<1>2. /\ frame \in FrameMaps /\ used \in SUBSET Frames /\ tables \in TableMaps
      /\ alias \in AliasMaps /\ lost \in SUBSET Frames
  BY <1>1 DEF TypeOK, FrameMaps, TableMaps, AliasMaps
<1>3. InUser => HeapInUse \cup UNION {mtab[i] : i \in Slots} \subseteq Mapped
  <2> SUFFICES ASSUME InUser, NEW q \in Taken PROVE q \in Mapped
    BY DEF Taken
  <2>1. cpu \in Tasks /\ stage[cpu] = "user"
    BY <1>1 DEF InUser, TypeOK
  <2>2. frame[q] # 0 /\ q \in Pages
    BY <1>1, <2>1, TakenInAreas, Layout DEF UsrInv, Taken
  <2> QED BY <2>2 DEF Mapped
<1>4. \A p \in OwnPages : FramesOf({p}) = {frame[p]} \ {0}
  BY DEF FramesOf
<1>5. Owners = {FramesOf({p}) : p \in OwnPages} \cup {alias[t] : t \in Tasks}
                 \cup {{tables[a]} \ {0} : a \in Areas} \cup {lost, Reserved}
  BY DEF Owners, OwnPages
<1>6. ASSUME NEW A
      PROVE  A \in Owners <=> \/ \E p \in OwnPages : A = {frame[p]} \ {0}
                              \/ \E t \in Tasks : A = alias[t]
                              \/ \E a \in Areas : A = {tables[a]} \ {0}
                              \/ A = lost
                              \/ A = Reserved
  BY <1>4, <1>5
<1>7. /\ \A f \in Frames :
           f \in used <=> \/ \E p \in OwnPages : frame[p] = f
                          \/ \E t \in Tasks : f \in alias[t]
                          \/ \E a \in Areas : tables[a] = f
                          \/ f \in lost
                          \/ f \in Reserved
      /\ \A p, q \in OwnPages : frame[p] = frame[q] /\ frame[p] # 0 => p = q
      /\ \A p \in OwnPages, t \in Tasks : frame[p] \notin alias[t]
      /\ \A p \in OwnPages, a \in Areas : frame[p] = tables[a] => frame[p] = 0
      /\ \A p \in OwnPages : frame[p] \notin lost /\ frame[p] \notin Reserved
      /\ \A s, t \in Tasks : s # t => alias[s] \cap alias[t] = {}
      /\ \A t \in Tasks, a \in Areas : tables[a] \notin alias[t]
      /\ \A t \in Tasks : alias[t] \cap lost = {} /\ alias[t] \cap Reserved = {}
      /\ \A a, b \in Areas : tables[a] = tables[b] /\ tables[a] # 0 => a = b
      /\ \A a \in Areas : tables[a] \notin lost /\ tables[a] \notin Reserved
      /\ lost \cap Reserved = {}
  <2>1. PICK rest : rest = lost \cup Reserved
    OBVIOUS
  <2>2. Accounts(frame, used, tables, alias, rest) /\ lost \cap Reserved = {}
    BY <1>1, <2>1 DEF OwnInv, Sound
  <2> QED BY <2>1, <2>2 DEF Accounts
<1>8. used = UNION Owners
  <2>1. ASSUME NEW f \in used PROVE f \in UNION Owners
    <3>1. f \in Frames /\ f # 0
      BY <1>2, FrameNotZero
    <3>2. CASE \E p \in OwnPages : frame[p] = f
      <4>1. PICK p \in OwnPages : f \in {frame[p]} \ {0}
        BY <3>1, <3>2
      <4> QED BY <1>6, <4>1
    <3>3. CASE \E t \in Tasks : f \in alias[t]
      BY <1>6, <3>3
    <3>4. CASE \E a \in Areas : tables[a] = f
      <4>1. PICK a \in Areas : f \in {tables[a]} \ {0}
        BY <3>1, <3>4
      <4> QED BY <1>6, <4>1
    <3>5. CASE f \in lost \/ f \in Reserved
      BY <1>6, <3>5
    <3> QED BY <1>7, <2>1, <3>1, <3>2, <3>3, <3>4, <3>5
  <2>2. ASSUME NEW A \in Owners, NEW f \in A PROVE f \in used
    <3>1. ASSUME NEW p \in OwnPages, f = frame[p], f # 0 PROVE f \in Frames
      BY <1>2, <3>1, Layout DEF FrameMaps
    <3>2. ASSUME NEW a \in Areas, f = tables[a], f # 0 PROVE f \in Frames
      BY <1>2, <3>2 DEF TableMaps
    <3>3. ASSUME NEW t \in Tasks, f \in alias[t] PROVE f \in Frames
      BY <1>2, <3>3 DEF AliasMaps
    <3>4. Reserved \subseteq Frames
      BY LayoutAssumption
    <3> QED BY <1>2, <1>6, <1>7, <2>2, <3>1, <3>2, <3>3, <3>4
  <2> QED BY <2>1, <2>2
<1>9. \A p, q \in Mapped : frame[p] = frame[q] => p = q
  <2> SUFFICES ASSUME NEW p \in Mapped, NEW q \in Mapped, frame[p] = frame[q]
               PROVE  p = q
    OBVIOUS
  <2>1. /\ p \in Pages /\ q \in Pages /\ frame[p] # 0 /\ frame[q] # 0
    BY DEF Mapped
  <2>2. ASSUME NEW x \in StackPages, frame[x] # 0
        PROVE  \E t \in Tasks : /\ \A y \in StackPages : frame[y] \in alias[t]
                                /\ \A y, z \in StackPages : frame[y] = frame[z] => y = z
    BY <1>1, <2>2 DEF WindowInv
  <2>3. CASE p \in OwnPages /\ q \in OwnPages
    BY <1>7, <2>1, <2>3
  <2>4. CASE p \in StackPages /\ q \in StackPages
    BY <2>1, <2>2, <2>4
  <2>5. CASE p \in OwnPages /\ q \in StackPages
    BY <1>7, <2>1, <2>2, <2>5
  <2>6. CASE p \in StackPages /\ q \in OwnPages
    BY <1>7, <2>1, <2>2, <2>6
  <2> QED BY <2>1, <2>3, <2>4, <2>5, <2>6 DEF OwnPages
<1>10. \A A, B \in Owners : A # B => A \cap B = {}
  <2> SUFFICES ASSUME NEW A \in Owners, NEW B \in Owners, NEW f \in A, f \in B
               PROVE  A = B
    OBVIOUS
  <2>1. ASSUME NEW p \in OwnPages, A = {frame[p]} \ {0} PROVE A = B
    BY <1>6, <1>7, <2>1
  <2>2. ASSUME NEW t \in Tasks, A = alias[t] PROVE A = B
    BY <1>6, <1>7, <2>2
  <2>3. ASSUME NEW a \in Areas, A = {tables[a]} \ {0} PROVE A = B
    BY <1>6, <1>7, <2>3
  <2>4. ASSUME A = lost \/ A = Reserved PROVE A = B
    BY <1>6, <1>7, <2>4
  <2> QED BY <1>6, <2>1, <2>2, <2>3, <2>4
<1> QED BY <1>1, <1>3, <1>8, <1>9, <1>10 DEF FramesSound

(* phys_bitmap and the page tables agree, and a running program's heap and *)
(* mmap pages are mapped, whatever tasks exec and in whatever order, until *)
(* elf_load or elf_unload takes away a stack page or a frame in use.       *)
THEOREM FramesAlwaysSound == Spec => []FramesSound
<1>1. trespass \/ IInv => FramesSound
  BY OneOwner DEF FramesSound
<1> QED BY <1>1, Inductive, PTL

(* The stack window has one owner, and maps the frames of its alias.       *)
LEMMA OneWindow ==
    ASSUME IInv
    PROVE  WindowOwned
<1>1. TypeOK /\ WindowInv /\ alias \in AliasMaps
  BY DEF IInv, TypeOK, AliasMaps
<1>2. Owning = {t \in Tasks : stage[t] \in HasStack}
  BY DEF Owning, HasStack
<1>3. \A s, t \in Owning : s = t
  BY <1>1, <1>2 DEF WindowInv
<1>4. ASSUME NEW t \in Owning PROVE FramesOf(StackPages) = alias[t]
  <2>1. /\ \A p \in StackPages : frame[p] \in alias[t]
        /\ \A f \in alias[t] : \E p \in StackPages : frame[p] = f
    BY <1>1, <1>2 DEF WindowInv
  <2>2. 0 \notin alias[t]
    BY <1>1, <1>2, FrameNotZero DEF AliasMaps
  <2> QED BY <2>1, <2>2 DEF FramesOf
<1>5. Owning = {} => StackPages \cap Mapped = {}
  BY <1>1, <1>2 DEF WindowInv, Mapped
<1> QED BY <1>3, <1>4, <1>5 DEF WindowOwned

(* The stack window is a lock, although no instruction of cmd_exec takes   *)
(* one: an exec goes on only when no page of the window is mapped.  Where  *)
(* images lie is not assumed: the promise ends when elf_load takes a page  *)
(* of the window.                                                          *)
THEOREM WindowAlwaysOwned == Spec => []WindowOwned
<1>1. trespass \/ IInv => WindowOwned
  BY OneWindow DEF WindowOwned
<1> QED BY <1>1, Inductive, PTL

(* When all tasks are back in their loop, what remains is what the fault   *)
(* handler has mapped, lost frames and page tables.                        *)
LEMMA NothingLeft ==
    ASSUME IInv
    PROVE  CleanAfterExec
<1> SUFFICES ASSUME \A t \in Tasks : stage[t] = "idle", ~mixed, ~trespass
             PROVE  /\ Mapped \subseteq demand
                    /\ used = FramesOf(demand) \cup lost \cup ({tables[a] : a \in Areas} \ {0})
                                \cup Reserved
  BY DEF CleanAfterExec
<1>1. /\ TypeOK /\ OwnInv /\ TaskInv /\ WindowInv /\ UsrInv /\ DemandInv /\ CleanInv
  BY DEF IInv
<1>2. /\ frame \in FrameMaps /\ used \in SUBSET Frames /\ tables \in TableMaps
      /\ lost \in SUBSET Frames
  BY <1>1 DEF TypeOK, FrameMaps, TableMaps
<1>3. /\ HeapInUse = {} /\ \A i \in Slots : mtab[i] = {}
      /\ \A t \in Tasks : alias[t] = {} /\ LoadedPages(t) = {}
  <2>1. HeapInUse = {}
    BY <1>1 DEF UsrInv, HeapInUse
  <2>2. \A i \in Slots : mtab[i] = {}
    BY <1>1 DEF UsrInv
  <2>3. \A t \in Tasks : alias[t] = {} /\ LoadedPages(t) = {}
    BY <1>1 DEF TaskInv, HasStack, LoadedPages
  <2> QED BY <2>1, <2>2, <2>3
<1>4. \A p \in StackPages : frame[p] = 0
  BY <1>1 DEF WindowInv, HasStack
<1>5. \A p \in OwnPages : frame[p] # 0 => p \in demand
  BY <1>1, <1>3 DEF CleanInv
<1>6. Mapped \subseteq demand
  BY <1>4, <1>5 DEF Mapped, OwnPages
<1>7. \A p \in demand : p \in OwnPages /\ frame[p] # 0 /\ frame[p] \in Frames
  BY <1>1, <1>2 DEF DemandInv, TypeOK, OwnPages, FrameMaps
<1>8. \A f \in Frames : f \in used <=> \/ \E p \in OwnPages : frame[p] = f
                                       \/ \E a \in Areas : tables[a] = f
                                       \/ f \in lost
                                       \/ f \in Reserved
  BY <1>1, <1>3 DEF OwnInv, Sound, Accounts
<1>9. ASSUME NEW f \in used
      PROVE  f \in FramesOf(demand) \cup lost \cup ({tables[a] : a \in Areas} \ {0})
                   \cup Reserved
  <2>1. f \in Frames /\ f # 0
    BY <1>2, FrameNotZero
  <2> QED BY <1>5, <1>8, <1>9, <2>1 DEF FramesOf
<1>10. ASSUME NEW f \in FramesOf(demand) \cup lost \cup ({tables[a] : a \in Areas} \ {0})
                       \cup Reserved
       PROVE  f \in used
  <2>1. ASSUME f \in FramesOf(demand) PROVE f \in used
    BY <1>7, <1>8, <2>1 DEF FramesOf
  <2>2. ASSUME f \in {tables[a] : a \in Areas} \ {0} PROVE f \in used
    BY <1>2, <1>8, <2>2 DEF TableMaps
  <2>3. ASSUME f \in lost \/ f \in Reserved PROVE f \in used
    BY <1>2, <1>8, <2>3, LayoutAssumption
  <2> QED BY <2>1, <2>2, <2>3
<1> QED BY <1>6, <1>9, <1>10

(* Execs that did not run inside one another leave nothing of a program    *)
(* mapped and no frame in use but what the known gaps account for.         *)
THEOREM AlwaysCleanAfterExec == Spec => []CleanAfterExec
<1>1. trespass \/ IInv => CleanAfterExec
  BY NothingLeft DEF CleanAfterExec
<1> QED BY <1>1, Inductive, PTL

(* A step while a program runs that changes neither the break nor the      *)
(* entries nor the demand pages changes no page of the heap or of mmap.    *)
LEMMA StepUndone ==
    ASSUME IInv, [Next]_vars, InUser, brk' = brk, mtab' = mtab, demand' = demand
    PROVE  \A p \in HeapPages \cup MmapPages : frame'[p] = frame[p]
<1>1. /\ TypeOK /\ OwnInv /\ TaskInv /\ WindowInv /\ UsrInv /\ DemandInv
  BY DEF IInv
<1>2. /\ cpu \in Tasks /\ stage[cpu] = "user" /\ heap
      /\ brk \in Nat /\ HeapLo \in Nat /\ HeapHi \in Nat /\ brk >= 2 * HeapLo
  BY <1>1, InUserIs
<1>3. HeapPages \cup MmapPages \subseteq Pages
  BY Layout
<1>4. ASSUME NEW t \in Tasks, Exec(t) PROVE FALSE
  <2>1. CASE \E p \in Progs : Read(t, p)
    BY <1>2, <2>1 DEF Read, At
  <2>2. CASE LoadPage(t) \/ Unload(t)
    <3>1. At(t, "loading") \/ At(t, "unload")
      BY <2>2 DEF LoadPage, Unload
    <3> QED BY <1>2, <3>1 DEF At
  <2>3. CASE Load(t) \/ LoadCut(t) \/ Loaded(t) \/ CheckStack(t) \/ CheckOnly(t) \/ BackStack(t)
    BY <1>2, <2>3 DEF Load, LoadCut, Loaded, CheckStack, CheckOnly, BackStack, At
  <2>4. CASE MapStack(t) \/ Config(t) \/ ArgsTooLong(t) \/ Enter(t)
    BY <1>2, <2>4 DEF MapStack, Config, ArgsTooLong, Enter, At
  <2>5. CASE HeapReset(t) \/ CleanMmap(t) \/ FreeStack(t)
    BY <1>2, <2>5 DEF HeapReset, CleanMmap, FreeStack, At
  <2> QED BY <1>4, <2>1, <2>2, <2>3, <2>4, <2>5 DEF Exec
<1>5. CASE Resume \/ (\E t \in Tasks : Preempt(t) \/ Yield(t)) \/ UNCHANGED vars
  BY <1>5 DEF Resume, Preempt, Yield, mem, vars
<1>6. ASSUME NEW b \in 1 .. 2 * HeapHi + 1, BrkGrow(b)
      PROVE  \A p \in HeapPages \cup MmapPages : frame'[p] = frame[p]
  <2>1. /\ b > brk /\ b <= 2 * HeapHi
        /\ MapOrRollBack(Up(brk), Up(b))
        /\ brk' = IF MapPages(Up(brk), Up(b)).ok THEN b ELSE brk
        /\ UNCHANGED <<lost, demand, alias>>
    BY <1>6 DEF BrkGrow, cmd
  <2>2. PICK lo \in Nat : lo = Up(brk)
    BY <1>2 DEF Up
  <2>3. PICK hi \in Nat : hi = Up(b)
    BY <1>2 DEF Up
  <2>4. HeapLo <= lo /\ lo <= hi /\ hi <= HeapHi
    BY <1>2, <2>1, <2>2, <2>3 DEF Up
  <2>5. lo .. hi - 1 \subseteq OwnPages
    <3>1. lo .. hi - 1 \subseteq HeapPages
      BY <1>2, <2>4 DEF HeapPages
    <3> QED BY <3>1, Layout
  <2>6. MapOrRollBack(lo, hi) /\ ~MapPages(lo, hi).ok
    <3>1. b # brk
      BY <1>2, <2>1
    <3> QED BY <2>1, <2>2, <2>3, <3>1
  <2> QED BY <1>1, <1>3, <2>1, <2>4, <2>5, <2>6, MapEffect
<1>7. ASSUME NEW b \in 1 .. 2 * HeapHi + 1, BrkShrink(b) PROVE FALSE
  <2>1. b < brk /\ brk' = b
    BY <1>7 DEF BrkShrink
  <2> QED BY <1>2, <2>1
<1>8. ASSUME NEW n \in 1 .. MmapHi - MmapLo, Mmap(n)
      PROVE  \A p \in HeapPages \cup MmapPages : frame'[p] = frame[p]
  <2>1. /\ FreeSlots # {} /\ bump + n <= MmapHi
        /\ MapOrRollBack(bump, bump + n)
        /\ MapPages(bump, bump + n).ok =>
             mtab' = [mtab EXCEPT ![Lowest(FreeSlots)] = bump .. bump + n - 1]
        /\ UNCHANGED <<lost, demand, alias>>
    BY <1>8 DEF Mmap, cmd
  <2>2. PICK lo \in Nat : lo = bump /\ MmapLo <= lo /\ MmapLo \in Nat /\ MmapHi \in Nat
    BY <1>1, LayoutAssumption DEF TypeOK
  <2>3. PICK hi \in Nat : hi = lo + n /\ hi > lo /\ hi <= MmapHi
    BY <2>1, <2>2
  <2>4. PICK k \in Slots : k = Lowest(FreeSlots) /\ mtab[k] = {}
    <3>1. FreeSlots \subseteq Nat
      BY LayoutAssumption DEF FreeSlots, Slots
    <3>2. Lowest(FreeSlots) \in FreeSlots
      BY <2>1, <3>1, LowestIn
    <3> QED BY <3>2 DEF FreeSlots
  <2>5. lo .. hi - 1 \subseteq OwnPages
    <3>1. lo .. hi - 1 \subseteq MmapPages
      BY <2>2, <2>3 DEF MmapPages
    <3> QED BY <3>1, Layout
  <2>6. bump + n = hi
    BY <2>2, <2>3
  <2>7. ~MapPages(lo, hi).ok
    <3> SUFFICES ASSUME MapPages(lo, hi).ok PROVE FALSE
      OBVIOUS
    <3>1. mtab' = [mtab EXCEPT ![k] = bump .. bump + n - 1]
      BY <2>1, <2>2, <2>4, <2>6
    <3>2. mtab'[k] = bump .. bump + n - 1
      BY <1>1, <3>1 DEF TypeOK
    <3>3. bump \in bump .. bump + n - 1
      BY <2>2, <2>3
    <3> QED BY <2>4, <3>2, <3>3
  <2>8. MapOrRollBack(lo, hi)
    BY <2>1, <2>2, <2>6
  <2> QED BY <1>1, <1>3, <2>1, <2>3, <2>5, <2>7, <2>8, MapEffect
<1>9. ASSUME NEW k \in Slots, Munmap(k) PROVE FALSE
  <2>1. mtab[k] # {} /\ mtab' = [mtab EXCEPT ![k] = {}]
    BY <1>9 DEF Munmap
  <2> QED BY <1>1, <2>1 DEF TypeOK
<1>10. ASSUME NEW p \in Pages, Touch(p) PROVE FALSE
  <2>1. frame[p] = 0 /\ demand' = demand \cup {p}
    BY <1>10 DEF Touch
  <2> QED BY <1>1, <2>1 DEF DemandInv
<1>11. ASSUME NEW fault \in BOOLEAN, UserExit(fault) PROVE frame' = frame
  BY <1>11 DEF UserExit, mem
<1> QED BY <1>4, <1>5, <1>6, <1>7, <1>8, <1>9, <1>10, <1>11 DEF Next, Program

(* A brk or mmap that fails half way leaves the heap and mmap areas as it  *)
(* found them.                                                             *)
THEOREM FailedCallsAlwaysUndone == Spec => FailedCallsUndone
<1>1. (trespass \/ IInv) /\ [Next]_vars =>
        (~trespass /\ InUser /\ <<brk, mtab, demand>>' = <<brk, mtab, demand>> =>
           \A p \in HeapPages \cup MmapPages : frame'[p] = frame[p])
  BY StepUndone
<1>2. (trespass \/ IInv) /\ [Next]_vars =>
        [~trespass /\ InUser /\ <<brk, mtab, demand>>' = <<brk, mtab, demand>> =>
           \A p \in HeapPages \cup MmapPages : frame'[p] = frame[p]]_vars
  BY <1>1
<1> QED BY <1>2, Inductive, PTL DEF Spec, FailedCallsUndone
=============================================================================
