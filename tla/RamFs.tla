-------------------------------- MODULE RamFs --------------------------------
(***************************************************************************)
(* The file system in memory, kernel/fs.c: an array of nodes, each on the  *)
(* list of its parent's children, and the node of the current directory.   *)
(*                                                                         *)
(* A call is one step.  A path is a start (the root or the current         *)
(* directory) and a sequence of parts; characters, repeated slashes and    *)
(* the limits on lengths are left out.  A file's data is its size.         *)
(***************************************************************************)
EXTENDS Integers, Sequences

CONSTANTS
    MaxNodes,    \* FS_MAX_NODES
    MaxFileSize, \* FS_MAX_FILE_SIZE
    Names,       \* names of files and directories
    PathInputs,  \* the paths that callers give
    MaxSize      \* bound: the largest size a caller writes

ASSUME FsAssumption ==
    /\ MaxNodes \in Nat \ {0} /\ MaxFileSize \in Nat \ {0} /\ MaxSize \in Nat
    /\ Names \cap {".", "..", ""} = {}
    /\ \A p \in PathInputs : /\ p.abs \in BOOLEAN
                             /\ p.parts \in Seq(Names \cup {".", ".."})
                             /\ ~p.abs => p.parts # <<>>

Nodes == 0 .. MaxNodes - 1
Null == -1               \* no node

VARIABLES
    used,    \* nodes[].used
    isdir,   \* nodes[].is_dir
    parent,  \* nodes[].parent
    first,   \* nodes[].first_child
    next,    \* nodes[].next_sibling
    name,    \* nodes[].name
    size,    \* nodes[].size
    cwd,     \* cwd_node
    strayed  \* history: fs_mv has put a node below one that is not in use

vars == <<used, isdir, parent, first, next, name, size, cwd, strayed>>

-----------------------------------------------------------------------------
(* Lists and paths.                                                        *)

(* The nodes that a loop "while (node) node = f(node)" visits from n.      *)
Walk(f, n) ==
    LET at[k \in 0 .. MaxNodes] ==
          IF k = 0 THEN n ELSE LET m == at[k - 1] IN IF m = Null THEN Null ELSE f[m]
    IN  at
Visited(f, n) == {Walk(f, n)[k] : k \in 0 .. MaxNodes - 1} \ {Null}

(* The nodes on n's list of children, and n with the nodes above it.       *)
Children(n) == Visited(next, first[n])
Ancestors(n) == Visited(parent, n)

(* find_child *)
FindChild(n, nm) ==
    LET C == {c \in Children(n) : name[c] = nm}
    IN  IF C = {} THEN Null ELSE CHOOSE c \in C : TRUE

(* One part of a path: "." and ".." need not be asked of a directory.      *)
Follow(n, part) ==
    IF n = Null THEN Null
    ELSE CASE part = "." -> n
           [] part = ".." -> IF parent[n] # Null THEN parent[n] ELSE n
           [] OTHER -> FindChild(n, part)

(* The same, for split_parent_and_name: a name must be a directory's.      *)
FollowDir(n, part) ==
    LET m == Follow(n, part)
    IN  IF m # Null /\ part \notin {".", ".."} /\ ~isdir[m] THEN Null ELSE m

NameOf(path) == path.parts[Len(path.parts)]
Start(path) == IF path.abs THEN 0 ELSE cwd

(* resolve_path *)
Resolve(path) ==
    LET at[i \in 0 .. Len(path.parts)] ==
          IF i = 0 THEN Start(path) ELSE Follow(at[i - 1], path.parts[i])
    IN  at[Len(path.parts)]

(* split_parent_and_name; Null if there is no such parent or no name.      *)
ParentOf(path) ==
    LET at[i \in 0 .. Len(path.parts) - 1] ==
          IF i = 0 THEN Start(path) ELSE FollowDir(at[i - 1], path.parts[i])
    IN  IF path.parts = <<>> \/ NameOf(path) \in {".", ".."} THEN Null
        ELSE at[Len(path.parts) - 1]

-----------------------------------------------------------------------------
(* Nodes.                                                                  *)

Unused == {n \in Nodes \ {0} : ~used[n]}
Lowest(S) == CHOOSE x \in S : \A y \in S : x <= y

(* add_child's conditions and alloc_node's.                                *)
CanAdd(p, nm) ==
    /\ p # Null /\ used[p] /\ isdir[p]
    /\ FindChild(p, nm) = Null
    /\ Unused # {}

(* add_child: the first unused node becomes the first child of p.          *)
AddChild(p, nm, d, sz) ==
    LET n == Lowest(Unused) IN
      /\ used' = [used EXCEPT ![n] = TRUE]
      /\ isdir' = [isdir EXCEPT ![n] = d]
      /\ parent' = [parent EXCEPT ![n] = p]
      /\ first' = [first EXCEPT ![n] = Null, ![p] = n]
      /\ next' = [next EXCEPT ![n] = first[p]]
      /\ name' = [name EXCEPT ![n] = nm]
      /\ size' = [size EXCEPT ![n] = sz]

(* unlink_node_from_parent, on the lists given: n's predecessor, or its    *)
(* parent, takes n's successor.                                            *)
UnlinkFirst(n) == IF first[parent[n]] = n THEN [first EXCEPT ![parent[n]] = next[n]] ELSE first
UnlinkNext(n) == [m \in Nodes |-> IF m \in Children(parent[n]) /\ next[m] = n THEN next[n]
                                  ELSE next[m]]

-----------------------------------------------------------------------------
(* The operations.                                                         *)

fs_mkdir(path) ==
    LET p == ParentOf(path)
    IN  /\ p # Null
        /\ CanAdd(p, NameOf(path))
        /\ AddChild(p, NameOf(path), TRUE, 0)
        /\ UNCHANGED <<cwd, strayed>>

(* fs_touch: an existing file is left as it is.                            *)
fs_touch(path) ==
    LET p == ParentOf(path)
    IN  /\ p # Null
        /\ CanAdd(p, NameOf(path))
        /\ AddChild(p, NameOf(path), FALSE, 0)
        /\ UNCHANGED <<cwd, strayed>>

(* A file keeps at most FS_MAX_FILE_SIZE - 1 bytes; the rest is dropped.   *)
Stored(n) == IF n >= MaxFileSize THEN MaxFileSize - 1 ELSE n

(* fs_write_file: the node the path names, or a new one.                   *)
fs_write_file(path, n) ==
    LET node == Resolve(path)
        p == ParentOf(path)
    IN  /\ \/ /\ node # Null /\ ~isdir[node]
              /\ size' = [size EXCEPT ![node] = Stored(n)]
              /\ UNCHANGED <<used, isdir, parent, first, next, name>>
           \/ /\ node = Null /\ p # Null
              /\ CanAdd(p, NameOf(path))
              /\ AddChild(p, NameOf(path), FALSE, Stored(n))
        /\ UNCHANGED <<cwd, strayed>>

fs_cp(src, dst) ==
    LET node == Resolve(src)
    IN  /\ node # Null /\ ~isdir[node]
        /\ fs_write_file(dst, size[node])

(* Mutant: a directory with children is removed too.                       *)
RemoveNonEmpty(path) ==
    LET n == Resolve(path)
    IN  /\ n > 0
        /\ used[n] /\ parent[n] # Null /\ n \in Children(parent[n])
        /\ used' = [used EXCEPT ![n] = FALSE]
        /\ first' = [UnlinkFirst(n) EXCEPT ![n] = Null]
        /\ next' = [UnlinkNext(n) EXCEPT ![n] = Null]
        /\ name' = [name EXCEPT ![n] = ""]
        /\ size' = [size EXCEPT ![n] = 0]
        /\ UNCHANGED <<isdir, parent, cwd, strayed>>

(* fs_rm: a file or an empty directory, the current one included.  is_dir  *)
(* and parent keep their values.                                           *)
fs_rm(path) ==
    LET n == Resolve(path)
    IN  /\ n > 0
        /\ ~(isdir[n] /\ first[n] # Null)
        /\ used[n] /\ parent[n] # Null /\ n \in Children(parent[n])
        /\ used' = [used EXCEPT ![n] = FALSE]
        /\ first' = [UnlinkFirst(n) EXCEPT ![n] = Null]
        /\ next' = [UnlinkNext(n) EXCEPT ![n] = Null]
        /\ name' = [name EXCEPT ![n] = ""]
        /\ size' = [size EXCEPT ![n] = 0]
        /\ UNCHANGED <<isdir, parent, cwd, strayed>>

fs_cd(path) ==
    LET n == Resolve(path)
    IN  /\ n # Null /\ isdir[n]
        /\ cwd' = n
        /\ UNCHANGED <<used, isdir, parent, first, next, name, size, strayed>>

(* Mutant: a node is moved to a name that is taken.                        *)
MoveOntoNode(src, dst) ==
    LET n == Resolve(src)
        p == ParentOf(dst)
    IN  /\ n > 0 /\ p # Null
        /\ isdir[p]
        /\ isdir[n] => n \notin Ancestors(p)
        /\ used[n] /\ parent[n] # Null /\ n \in Children(parent[n])
        /\ parent' = [parent EXCEPT ![n] = p]
        /\ next' = [UnlinkNext(n) EXCEPT ![n] = UnlinkFirst(n)[p]]
        /\ first' = [UnlinkFirst(n) EXCEPT ![p] = n]
        /\ name' = [name EXCEPT ![n] = NameOf(dst)]
        /\ strayed' = (strayed \/ ~used[p])
        /\ UNCHANGED <<used, isdir, size, cwd>>

(* fs_mv: the new parent must have been a directory, not still be one.     *)
fs_mv(src, dst) ==
    LET n == Resolve(src)
        p == ParentOf(dst)
    IN  /\ n > 0 /\ p # Null
        /\ isdir[p]
        /\ FindChild(p, NameOf(dst)) = Null
        /\ isdir[n] => n \notin Ancestors(p)
        /\ used[n] /\ parent[n] # Null /\ n \in Children(parent[n])
        /\ parent' = [parent EXCEPT ![n] = p]
        /\ next' = [UnlinkNext(n) EXCEPT ![n] = UnlinkFirst(n)[p]]
        /\ first' = [UnlinkFirst(n) EXCEPT ![p] = n]
        /\ name' = [name EXCEPT ![n] = NameOf(dst)]
        /\ strayed' = (strayed \/ ~used[p])
        /\ UNCHANGED <<used, isdir, size, cwd>>

-----------------------------------------------------------------------------
(* fs_init without the programs it puts into the root.                     *)
Init ==
    /\ used = [n \in Nodes |-> n = 0]
    /\ isdir = [n \in Nodes |-> n = 0]
    /\ parent = [n \in Nodes |-> Null]
    /\ first = [n \in Nodes |-> Null]
    /\ next = [n \in Nodes |-> Null]
    /\ name = [n \in Nodes |-> ""]
    /\ size = [n \in Nodes |-> 0]
    /\ cwd = 0
    /\ strayed = FALSE

(* Once a node hangs below an unused one the walks of the code need not    *)
(* end, and the model stops.                                               *)
Operation ==
    \/ \E p \in PathInputs : fs_mkdir(p) \/ fs_touch(p) \/ fs_rm(p) \/ fs_cd(p)
    \/ \E p \in PathInputs, n \in 0 .. MaxSize : fs_write_file(p, n)
    \/ \E p, q \in PathInputs : fs_cp(p, q) \/ fs_mv(p, q)

Next == \/ ~strayed /\ Operation
        \/ strayed /\ UNCHANGED vars

Spec == Init /\ [][Next]_vars

-----------------------------------------------------------------------------
(* Properties.                                                             *)

(* Types, a part of TreeSound; no file is larger than its buffer.          *)
TypeOK ==
    /\ used \in [Nodes -> BOOLEAN] /\ isdir \in [Nodes -> BOOLEAN]
    /\ parent \in [Nodes -> Nodes \cup {Null}]
    /\ first \in [Nodes -> Nodes \cup {Null}]
    /\ next \in [Nodes -> Nodes \cup {Null}]
    /\ name \in [Nodes -> Names \cup {""}]
    /\ size \in [Nodes -> 0 .. MaxFileSize - 1]
    /\ cwd \in Nodes /\ strayed \in BOOLEAN

(* Until a node strays, whatever the callers do and wherever the current   *)
(* directory points, the nodes in use form one tree below the root: each   *)
(* lies on its parent's list and on no other, none is lost, and siblings   *)
(* have different names.                                                   *)
InUse == {n \in Nodes : used[n]}
TreeSound ==
    /\ TypeOK
    /\ ~strayed =>
      /\ \A n \in InUse : Children(n) = {m \in InUse \ {0} : parent[m] = n}
      /\ \A n \in InUse : ~isdir[n] => Children(n) = {}
      /\ \A n \in InUse : 0 \in Ancestors(n) /\ Ancestors(n) \subseteq InUse
      /\ \A m, n \in InUse \ {0} : parent[m] = parent[n] /\ name[m] = name[n] => m = n

(* The nodes implement a tree named by paths (module FsTree): each call    *)
(* has the effect its caller sees there or none, for every order of calls, *)
(* relative paths and a current directory that was removed included.       *)
PathOf[n \in Nodes] ==
    IF n = 0 \/ ~used[n] THEN <<>> ELSE Append(PathOf[parent[n]], name[n])
Rooted[n \in Nodes] == used[n] /\ (n = 0 \/ Rooted[parent[n]])
Value(n) == IF isdir[n] THEN -1 ELSE size[n]
Entries == {<<PathOf[n], Value(n)>> : n \in {m \in Nodes : Rooted[m]}}
Here == IF used[cwd] /\ isdir[cwd] THEN PathOf[cwd] ELSE <<"">>
Abstract == INSTANCE FsTree WITH
    Contents <- 0 .. MaxFileSize - 1, Dir <- -1, Removed <- <<"">>,
    tree <- Entries, cwd <- Here
TreeImplemented == Abstract!Spec

=============================================================================
