--------------------------------- MODULE Fat ---------------------------------
(***************************************************************************)
(* The FAT32 volume, kernel/fat32.c: the tables of the allocation chains,  *)
(* the directories and the files, under calls that touch, write, make and  *)
(* remove by path.                                                         *)
(*                                                                         *)
(* A call is the sequence of the sector writes it makes, planned from what *)
(* it has read and written one per step, so that a write may fail and the  *)
(* power may go between any two of them.  A cluster is one sector.  The    *)
(* sector caches, which every write empties, and names' characters are     *)
(* left out; a file's size is counted in clusters.                         *)
(***************************************************************************)
EXTENDS Integers, SequencesExt

CONSTANTS
    MaxCluster,  \* fs.max_data_cluster; the clusters are 2 .. MaxCluster
    FatCopies,   \* fs.fat_count
    Slots,       \* entries in a cluster of a directory
    Names,       \* names of files and directories
    Chunks,      \* what fills one cluster of a file
    PathInputs,  \* the paths that callers give
    DataInputs,  \* the data they write, a chunk for each cluster
    Depth,       \* bound: the longest path without "." and ".."
    MaxFaults    \* bound: writes and look-ups that fail, and losses of power

ASSUME FatAssumption ==
    /\ MaxCluster \in Nat /\ MaxCluster >= 2
    /\ FatCopies \in Nat \ {0} /\ Slots \in Nat /\ Slots >= 2
    /\ Depth \in Nat /\ MaxFaults \in Nat
    /\ Names \cap {".", "..", ""} = {}
    /\ PathInputs \subseteq Seq(Names \cup {".", ".."})
    /\ DataInputs \subseteq Seq(Chunks)

Clusters == 2 .. MaxCluster
Eoc == MaxCluster + 1    \* FAT32_EOC and above
RootDir == 2             \* fs.root_cluster

VARIABLES
    fat,     \* the copies of the allocation table on the disk
    block,   \* the clusters on the disk
    hint,    \* fs.alloc_hint_cluster
    call,    \* the call in progress
    todo,    \* the writes it is about to make
    faults,  \* history: how many faults there have been
    cut,     \* history: a write has freed its file's clusters and run out of space
    before,  \* history: what the paths read as when the call began
    tainted  \* history: a cluster with an owner was allocated, or an entry doubled

vars == <<fat, block, hint, call, todo, faults, cut, before, tainted>>

-----------------------------------------------------------------------------
(* What a cluster holds: the entries of a directory, or a chunk.           *)

Entry(nm, kind, first, size) == [name |-> nm, kind |-> kind, first |-> first, size |-> size]
Unused == Entry("", "unused", 0, 0)     \* first byte 0x00

(* Mutant: a removed entry gets the byte of an unused one.                 *)
Cleared == Unused

Deleted == Entry("", "deleted", 0, 0)   \* first byte 0xE5
Zeroes == [s \in 1 .. Slots |-> Unused]
Filled(chunk) == [s \in 1 .. Slots |-> Entry(chunk, "data", 0, 0)]

(* The first cluster of a new directory.                                   *)
Dots(self, up) ==
    [Zeroes EXCEPT ![1] = Entry(".", "dir", self, 0), ![2] = Entry("..", "dir", up, 0)]

(* The clusters met from c on by fat32_next_cluster, which reads the first *)
(* copy of the table; a free one ends the chain as the last one does.      *)
Chain(c) ==
    LET from[k \in 0 .. MaxCluster] ==
          [x \in Clusters |->
             IF fat[1][x] \notin Clusters \/ k = 0 THEN <<x>> ELSE <<x>> \o from[k - 1][fat[1][x]]]
    IN  from[MaxCluster][c]

(* The entries of a directory, numbered along its chain.                   *)
ClusterOf(d, n) == Chain(d)[((n - 1) \div Slots) + 1]
SlotOf(n) == ((n - 1) % Slots) + 1
EntriesOf(d) ==
    LET ch == Chain(d)
    IN  [n \in 1 .. Len(ch) * Slots |-> block[ch[((n - 1) \div Slots) + 1]][SlotOf(n)]]
At(d, n) == EntriesOf(d)[n]

Lowest(S) == IF S = {} THEN 0 ELSE CHOOSE n \in S : \A m \in S : n <= m

(* Those before the first unused one, where every search ends.             *)
Visible(es) ==
    LET end == Lowest({n \in DOMAIN es : es[n].kind = "unused"})
    IN  {n \in DOMAIN es : (end = 0 \/ n < end) /\ es[n].kind # "deleted"}

(* What fat32_ls_path lists.                                               *)
Listed(d) == LET es == EntriesOf(d) IN {n \in Visible(es) : es[n].name \notin {".", ".."}}

(* fat32_find_entry_in_dir, and the place that fat32_find_free_entry_in_dir
   finds without another cluster; 0 if there is none.                      *)
FindEntry(d, nm) ==
    LET es == EntriesOf(d) IN Lowest({n \in Visible(es) : es[n].name = nm})
FindFree(d) ==
    LET es == EntriesOf(d) IN Lowest({n \in DOMAIN es : es[n].kind \in {"unused", "deleted"}})

-----------------------------------------------------------------------------
(* Paths.                                                                  *)

(* fat32_get_parent_cluster *)
GetParent(d) ==
    IF d = RootDir \/ FindEntry(d, "..") = 0 THEN RootDir ELSE At(d, FindEntry(d, "..")).first

(* One part of a path from the directory d; 0 for none.                    *)
Follow(d, part) ==
    CASE d = 0       -> 0
      [] part = "."  -> d
      [] part = ".." -> GetParent(d)
      [] OTHER -> LET n == FindEntry(d, part)
                      e == At(d, n)
                  IN  IF n # 0 /\ e.kind = "dir" THEN e.first ELSE 0

(* fat32_resolve_dir_cluster *)
Resolve(path) == FoldLeft(Follow, RootDir, path)

(* fat32_resolve_parent_and_leaf, for a path that ends in a name.          *)
ParentOf(path) == Resolve(Front(path))
HasLeaf(path) == path # <<>> /\ Last(path) \notin {".", ".."}

(* What a path reads as: nothing, a directory, or a file's size and the    *)
(* clusters that fat32_read_file_entry finds.                              *)
Missing == <<"missing">>
Directory == <<"directory">>
FileOf(size, blocks) == <<"file", size, blocks>>

ReadEntry(e) ==
    IF e.first \notin Clusters THEN FileOf(0, <<>>)
    ELSE LET ch == Chain(e.first)
             read == IF Len(ch) < e.size THEN Len(ch) ELSE e.size
         IN  FileOf(e.size, [i \in 1 .. read |-> block[ch[i]]])

Paths == {p \in PathInputs : p \in Seq(Names) /\ p # <<>>}

Read(path) ==
    LET d == ParentOf(path)
        n == IF d = 0 THEN 0 ELSE FindEntry(d, Last(path))
        e == At(d, n)
    IN  IF n = 0 THEN Missing ELSE IF e.kind = "dir" THEN Directory ELSE ReadEntry(e)

-----------------------------------------------------------------------------
(* The writes.  One that fails ends the call; undo names the first of the  *)
(* clusters that the call then frees, or is 0.                             *)

WriteFat(i, c, v, undo) ==
    [kind |-> "fat", copy |-> i, cluster |-> c, value |-> v, undo |-> undo]
WriteBlock(c, b, undo) == [kind |-> "block", cluster |-> c, block |-> b, undo |-> undo]
WriteEntry(d, n, e, undo) ==
    [kind |-> "entry", cluster |-> ClusterOf(d, n), slot |-> SlotOf(n), entry |-> e, undo |-> undo]
WriteZeroes(c, undo) == [kind |-> "zero", cluster |-> c, undo |-> undo]
NoSpace(undo) == [kind |-> "nospace", undo |-> undo]

(* Mutant: only the copy that is read is written.                          *)
SetFirstCopy(c, v, undo) == <<WriteFat(1, c, v, undo)>>

(* fat32_set_cluster_value: every copy, one after the other.               *)
SetCluster(c, v, undo) == [i \in 1 .. FatCopies |-> WriteFat(i, c, v, undo)]

(* fat32_free_chain *)
FreeChain(c) ==
    IF c \notin Clusters THEN <<>>
    ELSE FlattenSeq([i \in 1 .. Len(Chain(c)) |-> SetCluster(Chain(c)[i], 0, 0)])

(* fat32_alloc_cluster: the free clusters in the order it takes them, and  *)
(* what it writes for one.                                                 *)
Free(c) == fat[1][c] = 0
FromHint == [i \in 1 .. MaxCluster - 1 |-> ((hint - 2 + i - 1) % (MaxCluster - 1)) + 2]

(* Mutant: any cluster that does not end a chain.                          *)
NotLast(c) == fat[1][c] # Eoc
AllocatableLinked == SelectSeq(FromHint, NotLast)

Allocatable == SelectSeq(FromHint, Free)

(* Mutant: the cluster is not zeroed.                                      *)
AllocDirty(c, undo) == SetCluster(c, Eoc, undo)

AllocCluster(c, undo) == SetCluster(c, Eoc, undo) \o <<WriteZeroes(c, undo)>>

(* fat32_find_free_entry_in_dir when the directory is full: another        *)
(* cluster, zeroed before it is linked.                                    *)
CanExtend(d) == fat[1][Last(Chain(d))] = Eoc
Extend(d) ==
    IF Allocatable = <<>> THEN <<NoSpace(0)>>
    ELSE LET c == Head(Allocatable)
         IN  AllocCluster(c, 0) \o SetCluster(Last(Chain(d)), c, c)

(* Mutant: the clusters are not linked.                                    *)
AllocApart(cs) ==
    FlattenSeq([i \in 1 .. Len(cs) |-> AllocCluster(cs[i], IF i = 1 THEN 0 ELSE cs[1])])

(* The clusters of fat32_write_file_path's loop, each linked to the one    *)
(* before it; then the data; then the entry.                               *)
AllocLinked(cs) ==
    FlattenSeq([i \in 1 .. Len(cs) |->
        IF i = 1 THEN AllocCluster(cs[1], 0)
        ELSE AllocCluster(cs[i], cs[1]) \o SetCluster(cs[i - 1], cs[i], cs[1])])

Fill(d, n, data) ==
    LET k == Len(data)
        avail == Allocatable
        first == IF avail = <<>> \/ k = 0 THEN 0 ELSE avail[1]
        entry == WriteEntry(d, n, Entry(At(d, n).name, "file", first, k), 0)
    IN  IF k = 0 THEN <<entry>>
        ELSE IF Len(avail) < k THEN AllocLinked(avail) \o <<NoSpace(first)>>
        ELSE AllocLinked(SubSeq(avail, 1, k)) \o SetCluster(avail[k], Eoc, first)
             \o [i \in 1 .. k |-> WriteBlock(avail[i], Filled(data[i]), 0)] \o <<entry>>

(* fat32_mkdir_path, once it has a place for the entry.                    *)
MakeDir(d, n, nm) ==
    IF Allocatable = <<>> THEN <<NoSpace(0)>>
    ELSE LET c == Head(Allocatable)
         IN  AllocCluster(c, 0)
             \o <<WriteBlock(c, Zeroes, c), WriteBlock(c, Dots(c, d), c),
                  WriteEntry(d, n, Entry(nm, "dir", c, 0), c)>>

-----------------------------------------------------------------------------
(* Who owns what: the directories, and the entries in them.                *)

Dirs ==
    LET level[k \in 0 .. Depth] ==
          IF k = 0 THEN {RootDir}
          ELSE UNION {LET es == EntriesOf(d)
                      IN  {es[n].first : n \in {m \in Listed(d) : es[m].kind = "dir"}} :
                        d \in level[k - 1]}
    IN  UNION {level[k] : k \in 0 .. Depth}

(* The entries: where they are and what they hold.                         *)
Live == UNION {LET es == EntriesOf(d) IN {<<d, n, es[n]>> : n \in Listed(d)} : d \in Dirs}
Owned(e) == IF e[3].first \in Clusters THEN ToSet(Chain(e[3].first)) ELSE {}
RootChain == ToSet(Chain(RootDir))
IsTarget(e) == e[1] = call.dir /\ e[3].name = call.name

Named == RootChain \cup UNION {Owned(e) : e \in Live}
NamedByOthers == RootChain \cup UNION {Owned(e) : e \in {l \in Live : ~IsTarget(l)}}

-----------------------------------------------------------------------------
(* Calls.                                                                  *)

NoCall == [op |-> "none", dir |-> 0, name |-> "", data |-> <<>>, stage |-> "none"]
Idle == call = NoCall

(* A new volume: the root directory, empty.                                *)
Init ==
    /\ fat = [i \in 1 .. FatCopies |-> [c \in Clusters |-> IF c = RootDir THEN Eoc ELSE 0]]
    /\ block = [c \in Clusters |-> Zeroes]
    /\ hint = 2
    /\ call = NoCall /\ todo = <<>> /\ before = <<>>
    /\ faults = 0 /\ cut = FALSE /\ tainted = FALSE

Start(op, path, data, stage, writes) ==
    /\ call' = [op |-> op, dir |-> ParentOf(path), name |-> Last(path), data |-> data,
                stage |-> stage]
    /\ todo' = writes
    /\ before' = [p \in Paths |-> Read(p)]
    /\ UNCHANGED <<fat, block, hint, cut>>

(* The entry a path names, if its directory exists.                        *)
CanResolve(path) == Idle /\ HasLeaf(path) /\ ParentOf(path) # 0
Found(path) == FindEntry(ParentOf(path), Last(path))
FoundEntry(path) == At(ParentOf(path), Found(path))

(* A call that the code refuses, or that finds nothing to do, is no step.  *)
fat32_touch_file_path(path) ==
    /\ CanResolve(path)
    /\ Found(path) = 0
    /\ Start("touch", path, <<>>, "place", <<>>)
    /\ UNCHANGED <<faults, tainted>>

fat32_mkdir_path(path) ==
    /\ CanResolve(path)
    /\ Found(path) = 0
    /\ Start("mkdir", path, <<>>, "place", <<>>)
    /\ UNCHANGED <<faults, tainted>>

(* A look-up that cannot read the directory finds nothing: the entry is    *)
(* made a second time.  (A write looks up twice before it would.)          *)
BlindCreate(path) ==
    /\ CanResolve(path)
    /\ Found(path) # 0
    /\ faults < MaxFaults
    /\ \E op \in {"touch", "mkdir"} : Start(op, path, <<>>, "place", <<>>)
    /\ faults' = faults + 1
    /\ tainted' = TRUE

(* What the file held is given up before it is written anew.               *)
fat32_write_file_path(path, data) ==
    /\ CanResolve(path)
    /\ IF Found(path) = 0 THEN Start("write", path, data, "place", <<>>)
       ELSE /\ FoundEntry(path).kind = "file"
            /\ Start("write", path, data, "fill", FreeChain(FoundEntry(path).first))
    /\ UNCHANGED <<faults, tainted>>

fat32_remove_path(path) ==
    /\ CanResolve(path)
    /\ Found(path) # 0
    /\ FoundEntry(path).kind = "dir" => Listed(FoundEntry(path).first) = {}
    /\ Start("remove", path, <<>>, "done",
             FreeChain(FoundEntry(path).first)
             \o <<WriteEntry(ParentOf(path), Found(path), Deleted, 0)>>)
    /\ UNCHANGED <<faults, tainted>>

-----------------------------------------------------------------------------
(* The call goes on: what it looks up and writes next.                     *)

Plan(stage, writes) ==
    /\ todo' = writes
    /\ call' = [call EXCEPT !.stage = stage]
    /\ UNCHANGED <<fat, block, hint, faults, cut, before, tainted>>

Stage(stage) == call.stage = stage /\ todo = <<>>
Target == FindEntry(call.dir, call.name)
TargetFirst == At(call.dir, Target).first

(* A place for a new entry, in another cluster if the directory is full.   *)
Extending ==
    /\ Stage("place")
    /\ FindFree(call.dir) = 0
    /\ IF CanExtend(call.dir) THEN Plan("place", Extend(call.dir)) ELSE Plan("failed", <<>>)

Placing ==
    LET n == FindFree(call.dir) IN
      /\ Stage("place")
      /\ n # 0
      /\ CASE call.op = "mkdir" -> Plan("done", MakeDir(call.dir, n, call.name))
           [] call.op = "touch" ->
                Plan("done", <<WriteEntry(call.dir, n, Entry(call.name, "file", 0, 0), 0)>>)
           [] call.op = "write" ->
                Plan("fill", <<WriteEntry(call.dir, n, Entry(call.name, "file", 0, 0), 0)>>)

(* The file has its entry, and no cluster.                                 *)
Filling == Stage("fill") /\ Plan("done", Fill(call.dir, Target, call.data))

Return ==
    /\ Stage("done") \/ Stage("failed")
    /\ call' = NoCall /\ before' = <<>>
    /\ UNCHANGED <<fat, block, hint, todo, faults, cut, tainted>>

-----------------------------------------------------------------------------
(* One write.                                                              *)

Pending == todo # <<>>
Write == Head(todo)

WritingFat ==
    /\ Pending /\ Write.kind = "fat"
    /\ fat' = [fat EXCEPT ![Write.copy][Write.cluster] = Write.value]
    /\ hint' = IF Write.value = 0 /\ Write.copy = FatCopies /\ Write.cluster < hint
               THEN Write.cluster ELSE hint
    /\ tainted' = (tainted \/ (/\ Write.copy = 1 /\ Write.value = Eoc
                               /\ Free(Write.cluster) /\ Write.cluster \in NamedByOthers))
    /\ todo' = Tail(todo)
    /\ UNCHANGED <<block, call, faults, cut, before>>

HintAfter(c) == IF c < MaxCluster THEN c + 1 ELSE 2

(* The end of fat32_alloc_cluster.                                         *)
WritingZeroes ==
    /\ Pending /\ Write.kind = "zero"
    /\ block' = [block EXCEPT ![Write.cluster] = Zeroes]
    /\ hint' = HintAfter(Write.cluster)
    /\ todo' = Tail(todo)
    /\ UNCHANGED <<fat, call, faults, cut, before, tainted>>

WritingBlock ==
    /\ Pending /\ Write.kind = "block"
    /\ block' = [block EXCEPT ![Write.cluster] = Write.block]
    /\ todo' = Tail(todo)
    /\ UNCHANGED <<fat, hint, call, faults, cut, before, tainted>>

WritingEntry ==
    /\ Pending /\ Write.kind = "entry"
    /\ block' = [block EXCEPT ![Write.cluster][Write.slot] = Write.entry]
    /\ todo' = Tail(todo)
    /\ UNCHANGED <<fat, hint, call, faults, cut, before, tainted>>

(* The call gives up, and frees what it has allocated.                     *)
GiveUp == todo' = FreeChain(Write.undo) /\ call' = [call EXCEPT !.stage = "failed"]

OutOfSpace ==
    /\ Pending /\ Write.kind = "nospace"
    /\ GiveUp
    /\ cut' = (cut \/ (call.op = "write" /\ Target # 0 /\ TargetFirst # 0))
    /\ UNCHANGED <<fat, block, hint, faults, before, tainted>>

(* The sector cannot be read or written.                                   *)
IoError ==
    /\ Pending /\ Write.kind # "nospace"
    /\ faults < MaxFaults
    /\ faults' = faults + 1
    /\ GiveUp
    /\ UNCHANGED <<fat, block, hint, cut, before, tainted>>

(* The power goes; the volume is mounted again.                            *)
PowerLoss ==
    /\ ~Idle
    /\ faults < MaxFaults
    /\ faults' = faults + 1
    /\ call' = NoCall /\ todo' = <<>> /\ hint' = 2 /\ before' = <<>>
    /\ UNCHANGED <<fat, block, cut, tainted>>

fat32_mount ==
    /\ Idle
    /\ hint' = 2
    /\ UNCHANGED <<fat, block, call, todo, faults, cut, before, tainted>>

Command ==
    \E path \in PathInputs :
        \/ fat32_touch_file_path(path) \/ fat32_mkdir_path(path) \/ fat32_remove_path(path)
        \/ BlindCreate(path)
        \/ \E data \in DataInputs : fat32_write_file_path(path, data)

Step ==
    \/ Extending \/ Placing \/ Filling \/ Return
    \/ WritingFat \/ WritingZeroes \/ WritingBlock \/ WritingEntry
    \/ OutOfSpace \/ IoError \/ PowerLoss \/ fat32_mount

(* What a tainted volume holds is not followed any further.                *)
Next == \/ ~tainted /\ (Command \/ Step)
        \/ tainted /\ UNCHANGED vars

Spec == Init /\ [][Next]_vars

-----------------------------------------------------------------------------
Entries ==
    [name : Names \cup Chunks \cup {".", "..", ""}, kind : {"unused", "deleted", "dir", "file", "data"},
     first : 0 .. MaxCluster, size : {0} \cup {Len(data) : data \in DataInputs}]

(* Types, part of ChainsApart: every entry of the table is a cluster, the  *)
(* end or 0, every slot an entry, and the next cluster to try exists       *)
(* (fs.alloc_hint_cluster).                                                *)
TypeOK ==
    /\ fat \in [1 .. FatCopies -> [Clusters -> 0 .. Eoc]]
    /\ block \in [Clusters -> [1 .. Slots -> Entries]]
    /\ hint \in Clusters
    /\ call.dir \in 0 .. MaxCluster
    /\ faults \in 0 .. MaxFaults
    /\ cut \in BOOLEAN /\ tainted \in BOOLEAN

(* Without faults, no cluster is lost between calls; and unless a write    *)
(* has run out of space, none with an owner is taken for free.             *)
(* (fat32_free_chain, the failing ends of fat32_write_file_path)           *)
SpaceKept ==
    Idle /\ faults = 0 =>
        /\ \A c \in Clusters : ~Free(c) => c \in Named
        /\ ~cut => ~tainted /\ \A c \in Named : ~Free(c)

(* No cluster is in two chains or twice in one: two files, or a file and a *)
(* directory, never share clusters, in the middle of a call or after one   *)
(* that failed.  (fat32_alloc_cluster, fat32_free_chain)  Nor is one lost. *)
ChainsApart ==
    /\ TypeOK /\ SpaceKept
    /\ ~tainted =>
        LET owners == {e \in Live : e[3].first # 0}
            chain == [e \in owners |-> Chain(e[3].first)]
        IN  \A e \in owners :
              /\ IsInjective(chain[e])
              /\ ToSet(chain[e]) \cap RootChain = {}
              /\ \A f \in owners \ {e} : ToSet(chain[e]) \cap ToSet(chain[f]) = {}

(* No entry lies behind an unused one, where no search would reach it; no  *)
(* name is twice in a directory; ".." leads to the directory above.        *)
(* (fat32_find_free_entry_in_dir, fat32_mkdir_path)                        *)
DirsSound ==
    ~tainted =>
        \A d \in Dirs :
            LET es == EntriesOf(d) IN
              /\ \A n \in DOMAIN es \ Visible(es) : es[n].kind \in {"unused", "deleted"}
              /\ \A n, m \in Visible(es) : n # m => es[n].name # es[m].name
              /\ \A n \in Listed(d) : es[n].kind = "dir" => GetParent(es[n].first) = d

(* The copies of the table differ at one cluster for each fault there has  *)
(* been, and at the one being written.  (fat32_set_cluster_value)          *)
MirrorsAgree ==
    \A i \in 1 .. FatCopies :
        Cardinality({c \in Clusters : fat[i][c] # fat[1][c]})
          <= faults + (IF Idle THEN 0 ELSE 1)

(* A call that succeeds has done what it is for: the file reads as it was  *)
(* written, the directory is there and empty, the entry is gone.           *)
(* (fat32_read_file_path after each of the calls)                          *)
Delivered ==
    Stage("done") /\ ~tainted =>
        CASE call.op = "remove" -> Target = 0
          [] call.op = "mkdir" ->
               /\ Target # 0 /\ At(call.dir, Target).kind = "dir"
               /\ Listed(TargetFirst) = {} /\ GetParent(TargetFirst) = call.dir
          [] OTHER ->
               /\ Target # 0 /\ At(call.dir, Target).kind = "file"
               /\ ReadEntry(At(call.dir, Target)) =
                    FileOf(Len(call.data), [i \in 1 .. Len(call.data) |-> Filled(call.data[i])])

(* A call changes what one path reads as: while it runs, and when it fails *)
(* or the power goes, every other file and directory reads the same.       *)
(* (fat32_write_file_path, fat32_remove_path, fat32_mkdir_path)            *)
OthersKept ==
    ~tainted /\ ~Idle =>
        \A p \in Paths :
            <<ParentOf(p), Last(p)>> # <<call.dir, call.name>> => Read(p) = before[p]

=============================================================================
