------------------------------- MODULE FsTree -------------------------------
(***************************************************************************)
(* What the file system in memory promises its callers: a tree of          *)
(* directories and files named by paths, and a current directory.          *)
(***************************************************************************)
EXTENDS Integers, SequencesExt

CONSTANTS
    Contents, \* what a file may hold
    Dir,      \* what a directory holds
    Removed   \* the current directory has been removed

VARIABLES
    tree,     \* the entries: paths with Dir or the content of a file
    cwd       \* the path of the current directory, or Removed

vars == <<tree, cwd>>

Root == <<>>
Paths == {e[1] : e \in tree}
IsDir(p) == <<p, Dir>> \in tree
Below(p) == {e \in tree : IsPrefix(p, e[1])}
CanAdd(p) == p # Root /\ p \notin Paths /\ IsDir(Front(p))

Init == tree = {<<Root, Dir>>} /\ cwd = Root

(* A removed current directory may turn into a directory made later.       *)
Mkdir(p) ==
    /\ CanAdd(p)
    /\ tree' = tree \cup {<<p, Dir>>}
    /\ cwd' = cwd \/ (cwd = Removed /\ cwd' = p)

Write(p, c) ==
    /\ (p \in Paths /\ ~IsDir(p)) \/ CanAdd(p)
    /\ tree' = {e \in tree : e[1] # p} \cup {<<p, c>>}
    /\ UNCHANGED cwd

(* A file, or an empty directory.                                          *)
Rm(p) ==
    /\ p # Root
    /\ {e[1] : e \in Below(p)} = {p}
    /\ tree' = tree \ Below(p)
    /\ cwd' = IF cwd = p THEN Removed ELSE cwd

(* What lay at src or below lies at dst or below.                          *)
Mv(src, dst) ==
    LET To(p) == IF IsPrefix(src, p) THEN dst \o SubSeq(p, Len(src) + 1, Len(p)) ELSE p
    IN  /\ src # Root /\ src \in Paths
        /\ CanAdd(dst) /\ ~IsPrefix(src, dst)
        /\ tree' = {<<To(e[1]), e[2]>> : e \in tree}
        /\ cwd' = IF cwd = Removed THEN cwd ELSE To(cwd)

Cd(p) ==
    /\ IsDir(p)
    /\ cwd' = p
    /\ UNCHANGED tree

(* With the current directory removed, a move may drop what it moves.      *)
Lose(p) ==
    /\ cwd = Removed
    /\ p # Root /\ p \in Paths
    /\ tree' = tree \ Below(p)
    /\ UNCHANGED cwd

(* A path that a call is about exists before it or after it.               *)
Next ==
    \/ \E p \in Paths' \ Paths :
         Mkdir(p) \/ (\E c \in Contents : Write(p, c)) \/ \E q \in Paths \ Paths' : Mv(q, p)
    \/ \E p \in Paths \ Paths' : Rm(p) \/ Lose(p)
    \/ \E p \in Paths : Cd(p) \/ \E c \in Contents : Write(p, c)

Spec == Init /\ [][Next]_vars

=============================================================================
