---------------------------- MODULE ShellProofs ----------------------------
(***************************************************************************)
(* Theorems about what the shell works on and how it runs what it gets:  *)
(* the file system in memory (RamFs), for every number of nodes, any names *)
(* and any paths; and the background jobs and the scripts (Shell, Script), *)
(* for every session, any commands and any number of slots.                *)
(***************************************************************************)
EXTENDS RamFs, Script, WellFoundedInduction, FiniteSetTheorems, SequenceTheorems, TLAPS

-----------------------------------------------------------------------------
(* Searches and loops.                                                     *)

(* The first node that is not used: a search from node 0 upwards that has  *)
(* something to find ends at a first one.                                  *)
LEMMA LeastExists ==
    ASSUME NEW S, S \subseteq Nat, S # {}
    PROVE  \E k \in S : \A j \in S : k <= j
<1> DEFINE Less == {ss \in Nat \X Nat : ss[1] < ss[2]}
<1>1. PICK k \in S : \A j \in S : ~(<<j, k>> \in Less)
  <2>1. IsWellFoundedOn(Less, Nat)
    BY NatLessThanWellFounded DEF OpToRel
  <2> QED BY <2>1, WFMin
<1>2. \A i, j \in Nat : i < j => <<i, j>> \in Less
  OBVIOUS
<1>3. \A j \in S : ~(j < k)
  BY <1>1, <1>2
<1> QED BY <1>3

(* Step k goes from x to f[k][x], and each of the first N stays within S.  *)
Within(f, N, S) == \A k \in 1 .. N : \A x \in S : f[k][x] \in S

(* h lists where N such steps from a lead.                                 *)
Iterates(h, a, f, N, S) ==
    /\ h \in [0 .. N -> S]
    /\ h[0] = a
    /\ \A k \in 1 .. N : h[k] = f[k][h[k - 1]]

(* Such a list exists: the function that a recursive definition over       *)
(* 0 .. N names is there, whatever its steps are.                          *)
LEMMA IterExists ==
    ASSUME NEW N \in Nat, NEW S, NEW a \in S, NEW f, Within(f, N, S)
    PROVE  \E h : Iterates(h, a, f, N, S)
<1> DEFINE B == {m \in 0 .. N : ~\E h : Iterates(h, a, f, m, S)}
<1>1. ASSUME B # {} PROVE FALSE
  <2>1. PICK m \in B : \A j \in B : m <= j
    <3>1. B \subseteq Nat
      OBVIOUS
    <3> HIDE DEF B
    <3> QED BY <1>1, <3>1, LeastExists
  <2>2. m # 0
    BY Iterates([i \in 0 .. 0 |-> a], a, f, 0, S) DEF Iterates
  <2>3. m - 1 \in 0 .. N /\ m - 1 \notin B /\ m \in 1 .. N
    BY <2>1, <2>2
  <2>4. PICK g : Iterates(g, a, f, m - 1, S)
    BY <2>3
  <2> DEFINE h == [i \in 0 .. m |-> IF i = m THEN f[m][g[m - 1]] ELSE g[i]]
  <2>5. h \in [0 .. m -> S] /\ h[0] = a
    BY <2>2, <2>3, <2>4 DEF Iterates, Within
  <2>6. \A k \in 1 .. m : h[k] = f[k][h[k - 1]]
    BY <2>3, <2>4 DEF Iterates
  <2>7. Iterates(h, a, f, m, S)
    <3> HIDE DEF h
    <3> QED BY <2>5, <2>6 DEF Iterates
  <2> QED BY <2>7
<1> QED BY <1>1

-----------------------------------------------------------------------------
(* There is a root, and a file has room for its last byte.                 *)
LEMMA Sizes == /\ MaxNodes \in Nat /\ MaxNodes >= 1
               /\ MaxFileSize \in Nat /\ MaxFileSize >= 1 /\ MaxSize \in Nat
<1>1. MaxNodes \in Nat \ {0} /\ MaxFileSize \in Nat \ {0} /\ MaxSize \in Nat
  BY FsAssumption, Zenon
<1> QED BY <1>1

USE Sizes

NodesOrNull == Nodes \cup {Null}

-----------------------------------------------------------------------------
(* Walks.                                                                  *)

(* h lists what a loop that follows f visits from n on; at the end it      *)
(* stays at Null.                                                          *)
Trail(h, f, n) ==
    /\ h \in [0 .. MaxNodes -> NodesOrNull]
    /\ h[0] = n
    /\ \A k \in 1 .. MaxNodes :
         h[k] = IF h[k - 1] = Null THEN Null ELSE f[h[k - 1]]

Links(f) == \A m \in Nodes : f[m] \in NodesOrNull

(* What the recursive definition of Walk says.                             *)
LEMMA WalkIsTrail ==
    ASSUME NEW f, Links(f), NEW n \in NodesOrNull
    PROVE  Trail(Walk(f, n), f, n)
<1> DEFINE g == [x \in NodesOrNull |-> IF x = Null THEN Null ELSE f[x]]
           ff == [k \in 1 .. MaxNodes |-> g]
           Body(at) == [k \in 0 .. MaxNodes |->
                          IF k = 0 THEN n
                          ELSE IF at[k - 1] = Null THEN Null ELSE f[at[k - 1]]]
<1>1. Walk(f, n) = CHOOSE at : at = Body(at)
  BY DEF Walk
<1>2. \A x \in NodesOrNull : g[x] \in NodesOrNull
  BY DEF Links, NodesOrNull
<1>3. PICK h : Iterates(h, n, ff, MaxNodes, NodesOrNull)
  <2>1. Within(ff, MaxNodes, NodesOrNull)
    BY <1>2 DEF Within
  <2>2. MaxNodes \in Nat
    OBVIOUS
  <2> HIDE DEF ff
  <2> QED BY <2>1, <2>2, IterExists, Zenon
<1>4. ASSUME NEW k \in 1 .. MaxNodes
      PROVE  h[k] = IF h[k - 1] = Null THEN Null ELSE f[h[k - 1]]
  <2>1. k - 1 \in 0 .. MaxNodes
    OBVIOUS
  <2>2. h[k - 1] \in NodesOrNull /\ h[k] = g[h[k - 1]]
    BY <1>3, <2>1 DEF Iterates
  <2> QED BY <2>2
<1>5. h \in [0 .. MaxNodes -> NodesOrNull] /\ h[0] = n
  BY <1>3 DEF Iterates
<1>6. h = Body(h)
  <2>1. \A k \in 0 .. MaxNodes : k = 0 \/ k \in 1 .. MaxNodes
    OBVIOUS
  <2>2. \A k \in 0 .. MaxNodes :
          h[k] = IF k = 0 THEN n ELSE IF h[k - 1] = Null THEN Null ELSE f[h[k - 1]]
    BY <1>4, <1>5, <2>1
  <2> QED BY <1>5, <2>2
<1>7. \E at : at = Body(at)
  <2> HIDE DEF Body
  <2> QED BY <1>6
<1>8. PICK w : w = Walk(f, n)
  OBVIOUS
<1>9. w = Body(w)
  <2> HIDE DEF Body
  <2> QED BY <1>1, <1>7, <1>8
<1>10. \A k \in 0 .. MaxNodes :
         w[k] = IF k = 0 THEN n ELSE IF w[k - 1] = Null THEN Null ELSE f[w[k - 1]]
  <2>1. \A k \in 0 .. MaxNodes : w[k] = Body(w)[k]
    <3> HIDE DEF Body
    <3> QED BY <1>9
  <2> QED BY <2>1
<1> DEFINE B == {k \in 0 .. MaxNodes : w[k] # h[k]}
<1>11. B = {}
  <2> SUFFICES ASSUME B # {} PROVE FALSE
    OBVIOUS
  <2>1. B \subseteq Nat
    OBVIOUS
  <2>2. PICK k \in B : \A j \in B : k <= j
    <3> HIDE DEF B
    <3> QED BY <2>1, LeastExists
  <2>3. k \in 0 .. MaxNodes /\ w[k] # h[k]
    OBVIOUS
  <2>4. k # 0
    BY <1>5, <1>10, <2>3
  <2>5. k \in 1 .. MaxNodes /\ k - 1 \in 0 .. MaxNodes /\ ~(k <= k - 1)
    BY <2>3, <2>4
  <2>6. w[k - 1] = h[k - 1]
    BY <2>2, <2>5
  <2> QED BY <1>4, <1>10, <2>3, <2>4, <2>5, <2>6
<1>12. \A k \in 0 .. MaxNodes : w[k] = h[k]
  BY <1>11
<1>13. w \in [0 .. MaxNodes -> NodesOrNull]
  <2>1. w = [k \in 0 .. MaxNodes |-> w[k]]
    BY <1>9
  <2>2. \A k \in 0 .. MaxNodes : w[k] \in NodesOrNull
    BY <1>5, <1>12
  <2> HIDE DEF Body
  <2> QED BY <2>1, <2>2
<1>14. w[0] = n /\ \A k \in 1 .. MaxNodes : k \in 0 .. MaxNodes /\ k # 0
  BY <1>10
<1> QED BY <1>8, <1>10, <1>13, <1>14 DEF Trail

(* What Visited collects.                                                  *)
LEMMA VisitedIs ==
    ASSUME NEW f, Links(f), NEW n \in NodesOrNull
    PROVE  \E h : /\ Trail(h, f, n)
                  /\ Visited(f, n) = {h[k] : k \in 0 .. MaxNodes - 1} \ {Null}
                  /\ Visited(f, n) \subseteq Nodes
<1>1. Trail(Walk(f, n), f, n)
  BY WalkIsTrail
<1>2. \A k \in 0 .. MaxNodes - 1 : k \in 0 .. MaxNodes
  OBVIOUS
<1>3. \A k \in 0 .. MaxNodes - 1 : Walk(f, n)[k] \in NodesOrNull
  BY <1>1, <1>2 DEF Trail
<1> QED BY <1>1, <1>3 DEF Visited, NodesOrNull

(* More hops than there are nodes visit a node twice.                      *)
LEMMA TrailRepeats ==
    ASSUME NEW h, NEW S \in SUBSET Nodes, NEW j \in 0 .. MaxNodes,
           Cardinality(S) <= j, \A k \in 0 .. j : h[k] \in S
    PROVE  \E x, y \in 0 .. j : x < y /\ h[x] = h[y]
<1> DEFINE g == [k \in 0 .. j |-> h[k]]
<1>1. /\ IsFiniteSet(0 .. j) /\ Cardinality(0 .. j) = j + 1
      /\ IsFiniteSet(S) /\ Cardinality(S) \in Nat
  <2>1. /\ IsFiniteSet(0 .. j)
        /\ Cardinality(0 .. j) = IF 0 > j THEN 0 ELSE j - 0 + 1
    BY FS_Interval
  <2>2. IsFiniteSet(0 .. MaxNodes - 1)
    BY FS_Interval
  <2>3. IsFiniteSet(S) /\ Cardinality(S) \in Nat
    BY <2>2, FS_Subset, FS_CardinalityType DEF Nodes
  <2> QED BY <2>1, <2>3
<1>2. g \in [0 .. j -> S]
  OBVIOUS
<1>3. Cardinality(S) < Cardinality(0 .. j)
  BY <1>1
<1>4. PICK x \in 0 .. j, y \in 0 .. j : x # y /\ g[x] = g[y]
  <2> HIDE DEF g
  <2> QED BY <1>1, <1>2, <1>3, FS_PigeonHole
<1>5. h[x] = h[y]
  BY <1>4
<1>6. x < y \/ y < x
  BY <1>4
<1> QED BY <1>5, <1>6

LEMMA CountNodes ==
    /\ IsFiniteSet(Nodes) /\ Cardinality(Nodes) = MaxNodes
    /\ Cardinality(Nodes \ {0}) = MaxNodes - 1
<1>1. /\ IsFiniteSet(0 .. MaxNodes - 1)
      /\ Cardinality(0 .. MaxNodes - 1)
           = IF 0 > MaxNodes - 1 THEN 0 ELSE (MaxNodes - 1) - 0 + 1
  BY FS_Interval
<1>2. IsFiniteSet(Nodes) /\ Cardinality(Nodes) = MaxNodes /\ 0 \in Nodes
  BY <1>1 DEF Nodes
<1>3. Cardinality(Nodes \ {0}) = IF 0 \in Nodes THEN Cardinality(Nodes) - 1 ELSE Cardinality(Nodes)
  BY <1>2, FS_RemoveElement
<1> QED BY <1>2, <1>3

-----------------------------------------------------------------------------
(* Lists of children.                                                      *)

(* From the head a the links f list exactly the nodes of K: they lead from *)
(* K to K or end, no two of them agree, none leads back to the head, and   *)
(* whoever starts at the head reaches all of K.                            *)
OneList(K, f, a) ==
    /\ K \in SUBSET Nodes /\ a \in K \cup {Null}
    /\ \A m \in K : f[m] \in K \cup {Null} /\ (a # Null => f[m] # a)
    /\ \A m, o \in K : f[m] = f[o] /\ f[m] # Null => m = o
    /\ \A S \in SUBSET K :
         (a # Null => a \in S) /\ (\A s \in S : f[s] # Null => f[s] \in S) => S = K

LEMMA NullApart == Null \notin Nodes /\ 0 \in Nodes
BY DEF Null, Nodes

(* The loop over the list visits the nodes of the list.                    *)
LEMMA ListVisited ==
    ASSUME NEW f, Links(f), NEW K, NEW a, OneList(K, f, a)
    PROVE  Visited(f, a) = K
<1>0. a \in NodesOrNull /\ Null \notin K
  BY NullApart DEF OneList, NodesOrNull
<1>1. PICK h : /\ Trail(h, f, a)
               /\ Visited(f, a) = {h[k] : k \in 0 .. MaxNodes - 1} \ {Null}
  BY <1>0, VisitedIs
<1>2. /\ h[0] = a
      /\ \A k \in 1 .. MaxNodes : h[k] = IF h[k - 1] = Null THEN Null ELSE f[h[k - 1]]
  BY <1>1 DEF Trail
<1>3. \A k \in 0 .. MaxNodes : h[k] \in K \cup {Null}
  <2> DEFINE B == {k \in 0 .. MaxNodes : h[k] \notin K \cup {Null}}
  <2>1. ASSUME B # {} PROVE FALSE
    <3>1. B \subseteq Nat
      OBVIOUS
    <3>2. PICK k \in B : \A j \in B : k <= j
      <4> HIDE DEF B
      <4> QED BY <2>1, <3>1, LeastExists
    <3>3. k \in 0 .. MaxNodes /\ h[k] \notin K \cup {Null}
      OBVIOUS
    <3>4. k # 0
      BY <1>2, <3>3 DEF OneList
    <3>5. k \in 1 .. MaxNodes /\ k - 1 \in 0 .. MaxNodes /\ ~(k <= k - 1)
      BY <3>3, <3>4
    <3>6. h[k - 1] \in K \cup {Null}
      BY <3>2, <3>5
    <3> QED BY <1>2, <3>3, <3>5, <3>6 DEF OneList
  <2> QED BY <2>1
<1> DEFINE Z == {k \in 0 .. MaxNodes : h[k] = Null}
<1>4. Z # {}
  <2> SUFFICES ASSUME Z = {} PROVE FALSE
    OBVIOUS
  <2>1. \A k \in 0 .. MaxNodes : h[k] \in K
    BY <1>3
  <2> DEFINE J == {j \in 0 .. MaxNodes : \E i \in 0 .. MaxNodes : i < j /\ h[i] = h[j]}
  <2>2. J # {} /\ J \subseteq Nat
    <3>1. MaxNodes \in 0 .. MaxNodes /\ Nodes \in SUBSET Nodes /\ Cardinality(Nodes) <= MaxNodes
      BY CountNodes
    <3>2. \A k \in 0 .. MaxNodes : h[k] \in Nodes
      BY <2>1 DEF OneList
    <3>3. PICK i \in 0 .. MaxNodes, j \in 0 .. MaxNodes : i < j /\ h[i] = h[j]
      BY <3>1, <3>2, TrailRepeats
    <3> QED BY <3>3
  <2>3. PICK j \in J : \A m \in J : j <= m
    <3> HIDE DEF J
    <3> QED BY <2>2, LeastExists
  <2>4. PICK i \in 0 .. MaxNodes : i < j /\ h[i] = h[j]
    OBVIOUS
  <2>5. j \in 1 .. MaxNodes /\ j - 1 \in 0 .. MaxNodes /\ ~(j <= j - 1)
    BY <2>4
  <2>6. h[j - 1] \in K /\ h[j] = f[h[j - 1]] /\ h[j] # Null
    BY <1>0, <1>2, <2>1, <2>5
  <2>7. CASE i = 0
    BY <1>2, <2>4, <2>6, <2>7 DEF OneList
  <2>8. CASE i # 0
    <3>1. i \in 1 .. MaxNodes /\ i - 1 \in 0 .. MaxNodes /\ i - 1 < j - 1
      BY <2>4, <2>5, <2>8
    <3>2. h[i - 1] \in K /\ h[i] = f[h[i - 1]]
      BY <1>0, <1>2, <2>1, <3>1
    <3>3. h[i - 1] = h[j - 1]
      BY <2>4, <2>6, <3>2 DEF OneList
    <3>4. j - 1 \in J
      BY <2>5, <3>1, <3>3
    <3> HIDE DEF J
    <3> QED BY <2>3, <2>5, <3>4
  <2> QED BY <2>7, <2>8
<1>5. PICK z \in Z : \A k \in Z : z <= k
  <2>1. Z \subseteq Nat
    OBVIOUS
  <2> HIDE DEF Z
  <2> QED BY <1>4, <2>1, LeastExists
<1>6. z \in 0 .. MaxNodes /\ h[z] = Null
  OBVIOUS
<1>7. \A k \in 0 .. z - 1 : h[k] \in K /\ k \in 0 .. MaxNodes - 1
  <2> SUFFICES ASSUME NEW k \in 0 .. z - 1 PROVE h[k] \in K /\ k \in 0 .. MaxNodes - 1
    OBVIOUS
  <2>1. k \in 0 .. MaxNodes /\ ~(z <= k) /\ k \in 0 .. MaxNodes - 1
    BY <1>6
  <2>2. k \notin Z
    BY <1>5, <2>1
  <2> QED BY <1>3, <2>1, <2>2
<1> HIDE DEF Z
<1> DEFINE C == {h[k] : k \in 0 .. z - 1}
<1>8. C = K
  <2>1. C \in SUBSET K
    BY <1>7
  <2>2. a # Null => a \in C
    <3> SUFFICES ASSUME a # Null PROVE a \in C
      OBVIOUS
    <3>1. z # 0
      BY <1>2, <1>6
    <3>2. 0 \in 0 .. z - 1
      BY <1>6, <3>1
    <3> QED BY <1>2, <3>2
  <2>3. \A s \in C : f[s] # Null => f[s] \in C
    <3> SUFFICES ASSUME NEW k \in 0 .. z - 1, f[h[k]] # Null PROVE f[h[k]] \in C
      OBVIOUS
    <3>1. k + 1 \in 1 .. MaxNodes /\ (k + 1) - 1 = k
      BY <1>6
    <3>2. h[k + 1] = f[h[k]]
      BY <1>0, <1>2, <1>7, <3>1
    <3>3. k + 1 # z
      BY <1>6, <3>2
    <3>4. k + 1 \in 0 .. z - 1
      BY <1>6, <3>3
    <3> QED BY <3>2, <3>4
  <2> HIDE DEF C
  <2> QED BY <2>1, <2>2, <2>3 DEF OneList
<1>9. \A t \in K : t \in Visited(f, a)
  <2> SUFFICES ASSUME NEW t \in K PROVE t \in Visited(f, a)
    OBVIOUS
  <2>1. PICK k \in 0 .. z - 1 : t = h[k]
    BY <1>8
  <2> QED BY <1>0, <1>1, <1>7, <2>1
<1>10. \A t \in Visited(f, a) : t \in K
  <2>1. \A k \in 0 .. MaxNodes - 1 : k \in 0 .. MaxNodes
    OBVIOUS
  <2> QED BY <1>1, <1>3, <2>1
<1> QED BY <1>9, <1>10

(* Taking node n out of a list.                                            *)
LEMMA ListUnlinked ==
    ASSUME NEW K, NEW f, NEW a, OneList(K, f, a), NEW n \in K, NEW g, NEW b,
           b = IF a = n THEN f[n] ELSE a,
           \A m \in K \ {n} : g[m] = IF f[m] = n THEN f[n] ELSE f[m]
    PROVE  OneList(K \ {n}, g, b)
<1> USE NullApart
<1>0. n # Null /\ Null \notin K /\ K \subseteq Nodes /\ a \in K \cup {Null}
  BY DEF OneList
<1>1. \A m \in K : f[m] \in K \cup {Null} /\ (a # Null => f[m] # a)
  BY DEF OneList
<1>2. \A m, o \in K : f[m] = f[o] /\ f[m] # Null => m = o
  BY DEF OneList
<1>3. f[n] # n
  <2> SUFFICES ASSUME f[n] = n PROVE FALSE
    OBVIOUS
  <2>1. \A s \in K \ {n} : f[s] # n
    BY <1>0, <1>2
  <2>2. a # n
    BY <1>0, <1>1
  <2>3. K \ {n} = K
    <3>1. PICK S : S = K \ {n}
      OBVIOUS
    <3>2. S \in SUBSET K /\ (a # Null => a \in S)
      BY <1>0, <2>2, <3>1
    <3>3. \A s \in S : f[s] # Null => f[s] \in S
      BY <1>1, <2>1, <3>1
    <3> QED BY <3>1, <3>2, <3>3 DEF OneList
  <2> QED BY <2>3
<1>4. b \in (K \ {n}) \cup {Null}
  BY <1>0, <1>1, <1>3
<1>5. ASSUME NEW m \in K \ {n}
      PROVE  g[m] \in (K \ {n}) \cup {Null} /\ (b # Null => g[m] # b)
  <2>1. CASE f[m] = n
    <3>1. g[m] = f[n] /\ a # n
      BY <1>0, <1>1, <2>1
    <3> QED BY <1>0, <1>1, <1>3, <3>1
  <2>2. CASE f[m] # n
    <3>1. g[m] = f[m]
      BY <2>2
    <3> QED BY <1>0, <1>1, <1>2, <2>2, <3>1
  <2> QED BY <2>1, <2>2
<1>6. ASSUME NEW m \in K \ {n}, NEW o \in K \ {n}, g[m] = g[o], g[m] # Null
      PROVE  m = o
  BY <1>0, <1>1, <1>2, <1>6
<1>7. ASSUME NEW S \in SUBSET (K \ {n}), b # Null => b \in S,
             \A s \in S : g[s] # Null => g[s] \in S
      PROVE  S = K \ {n}
  <2>1. CASE a = n \/ \E s \in S : f[s] = n
    <3>1. f[n] # Null => f[n] \in S
      BY <1>0, <1>7, <2>1
    <3>2. \A s \in S : f[s] # Null => f[s] \in S \cup {n}
      BY <1>7
    <3>3. a # Null => a \in S \cup {n}
      BY <1>7
    <3>4. S \cup {n} \in SUBSET K
      BY <1>0
    <3>5. \A s \in S \cup {n} : f[s] # Null => f[s] \in S \cup {n}
      BY <3>1, <3>2
    <3>6. S \cup {n} = K
      BY <3>3, <3>4, <3>5 DEF OneList
    <3> QED BY <3>6
  <2>2. CASE a # n /\ \A s \in S : f[s] # n
    <3>1. \A s \in S : f[s] # Null => f[s] \in S
      BY <1>7, <2>2
    <3>2. a # Null => a \in S
      BY <1>7, <2>2
    <3>3. S = K
      BY <3>1, <3>2 DEF OneList
    <3> QED BY <3>3
  <2> QED BY <2>1, <2>2
<1> QED BY <1>0, <1>4, <1>5, <1>6, <1>7 DEF OneList

(* Putting node n in front of a list.                                      *)
LEMMA ListPushed ==
    ASSUME NEW K, NEW f, NEW a, OneList(K, f, a), NEW n \in Nodes \ K, NEW g,
           g[n] = a, \A m \in K : g[m] = f[m]
    PROVE  OneList(K \cup {n}, g, n)
<1> USE NullApart
<1>0. n # Null /\ Null \notin K /\ K \subseteq Nodes /\ a \in K \cup {Null}
  BY DEF OneList
<1>1. \A m \in K : f[m] \in K \cup {Null} /\ (a # Null => f[m] # a)
  BY DEF OneList
<1>2. \A m, o \in K : f[m] = f[o] /\ f[m] # Null => m = o
  BY DEF OneList
<1>3. \A m \in K \cup {n} : g[m] \in (K \cup {n}) \cup {Null} /\ g[m] # n
  BY <1>0, <1>1
<1>4. ASSUME NEW m \in K \cup {n}, NEW o \in K \cup {n}, g[m] = g[o], g[m] # Null
      PROVE  m = o
  BY <1>0, <1>1, <1>2, <1>4
<1>5. ASSUME NEW S \in SUBSET (K \cup {n}), n \in S,
             \A s \in S : g[s] # Null => g[s] \in S
      PROVE  S = K \cup {n}
  <2>1. a # Null => a \in S \ {n}
    BY <1>0, <1>5
  <2>2. \A s \in S \ {n} : f[s] # Null => f[s] \in S \ {n}
    BY <1>1, <1>5
  <2>3. S \ {n} \in SUBSET K
    BY <1>5
  <2>4. S \ {n} = K
    BY <2>1, <2>2, <2>3 DEF OneList
  <2> QED BY <1>5, <2>4
<1> QED BY <1>0, <1>3, <1>4, <1>5 DEF OneList

(* A list depends on the links of its nodes only.                          *)
LEMMA ListSame ==
    ASSUME NEW K, NEW f, NEW a, OneList(K, f, a), NEW g, \A m \in K : g[m] = f[m]
    PROVE  OneList(K, g, a)
BY DEF OneList

LEMMA ListEmpty ==
    ASSUME NEW f
    PROVE  OneList({}, f, Null)
BY DEF OneList

LEMMA EmptyList ==
    ASSUME NEW K, NEW f, OneList(K, f, Null)
    PROVE  K = {}
<1>1. {} \in SUBSET K
  OBVIOUS
<1> QED BY <1>1 DEF OneList

-----------------------------------------------------------------------------
(* The way up.                                                             *)

(* The parents f lead from every node of U to the root within U, and no    *)
(* nodes, in use or not, lead in a circle.                                 *)
Upwards(U, f) ==
    /\ U \in SUBSET Nodes /\ 0 \in U /\ f[0] = Null
    /\ \A m \in U \ {0} : f[m] \in U
    /\ \A S \in SUBSET (Nodes \ {0}) : (\A s \in S : f[s] \in S) => S = {}

(* The walk up from a node of U stays in U and comes to the root.          *)
LEMMA UpwardsVisited ==
    ASSUME NEW f, Links(f), NEW U, Upwards(U, f), NEW n \in U
    PROVE  0 \in Visited(f, n) /\ Visited(f, n) \subseteq U
<1> USE NullApart
<1>0. n \in NodesOrNull /\ Null \notin U
  BY DEF Upwards, NodesOrNull
<1>1. PICK h : /\ Trail(h, f, n)
               /\ Visited(f, n) = {h[k] : k \in 0 .. MaxNodes - 1} \ {Null}
  BY <1>0, VisitedIs
<1>2. /\ h[0] = n
      /\ \A k \in 1 .. MaxNodes : h[k] = IF h[k - 1] = Null THEN Null ELSE f[h[k - 1]]
  BY <1>1 DEF Trail
<1>3. \A k \in 0 .. MaxNodes : h[k] \in U \cup {Null}
  <2> DEFINE B == {k \in 0 .. MaxNodes : h[k] \notin U \cup {Null}}
  <2>1. ASSUME B # {} PROVE FALSE
    <3>1. B \subseteq Nat
      OBVIOUS
    <3>2. PICK k \in B : \A j \in B : k <= j
      <4> HIDE DEF B
      <4> QED BY <2>1, <3>1, LeastExists
    <3>3. k \in 0 .. MaxNodes /\ h[k] \notin U \cup {Null}
      OBVIOUS
    <3>4. k # 0
      BY <1>2, <3>3
    <3>5. k \in 1 .. MaxNodes /\ k - 1 \in 0 .. MaxNodes /\ ~(k <= k - 1)
      BY <3>3, <3>4
    <3>6. h[k - 1] \in U \cup {Null}
      BY <3>2, <3>5
    <3>7. h[k] \in U \cup {Null}
      BY <1>2, <3>5, <3>6 DEF Upwards
    <3> QED BY <3>3, <3>7
  <2> QED BY <2>1
<1>4. \E z \in 0 .. MaxNodes - 1 : h[z] = 0
  <2> SUFFICES ASSUME \A z \in 0 .. MaxNodes - 1 : h[z] # 0 PROVE FALSE
    OBVIOUS
  <2>1. \A k \in 0 .. MaxNodes - 1 : h[k] \in U \ {0}
    <3> DEFINE B == {k \in 0 .. MaxNodes - 1 : h[k] = Null}
    <3>1. ASSUME B # {} PROVE FALSE
      <4>1. B \subseteq Nat
        OBVIOUS
      <4>2. PICK k \in B : \A j \in B : k <= j
        <5> HIDE DEF B
        <5> QED BY <3>1, <4>1, LeastExists
      <4>3. k \in 0 .. MaxNodes - 1 /\ h[k] = Null
        OBVIOUS
      <4>4. k # 0
        BY <1>0, <1>2, <4>3
      <4>5. k \in 1 .. MaxNodes /\ k - 1 \in 0 .. MaxNodes - 1 /\ ~(k <= k - 1)
            /\ k - 1 \in 0 .. MaxNodes
        BY <4>3, <4>4
      <4>6. h[k - 1] # Null
        BY <4>2, <4>5
      <4>7. h[k - 1] \in U \ {0}
        BY <1>3, <4>5, <4>6
      <4>8. h[k] \in U
        BY <1>2, <4>5, <4>6, <4>7 DEF Upwards
      <4> QED BY <1>0, <4>3, <4>8
    <3>2. \A k \in 0 .. MaxNodes - 1 : k \in 0 .. MaxNodes
      OBVIOUS
    <3> QED BY <1>3, <3>1, <3>2
  <2>2. PICK T : T = Nodes \ {0}
    OBVIOUS
  <2>3. /\ T \in SUBSET Nodes /\ Cardinality(T) <= MaxNodes - 1
        /\ MaxNodes - 1 \in 0 .. MaxNodes
    BY <2>2, CountNodes
  <2>4. \A k \in 0 .. MaxNodes - 1 : h[k] \in T
    BY <2>1, <2>2 DEF Upwards
  <2>5. PICK i \in 0 .. MaxNodes - 1, j \in 0 .. MaxNodes - 1 : i < j /\ h[i] = h[j]
    <3>1. PICK m : m = MaxNodes - 1
      OBVIOUS
    <3>2. \E x, y \in 0 .. m : x < y /\ h[x] = h[y]
      BY <2>3, <2>4, <3>1, TrailRepeats
    <3> QED BY <3>1, <3>2
  <2> DEFINE S == {h[k] : k \in i .. j - 1}
  <2>6. S \in SUBSET (Nodes \ {0}) /\ h[i] \in S
    <3>1. \A k \in i .. j - 1 : k \in 0 .. MaxNodes - 1
      BY <2>5
    <3>2. i \in i .. j - 1
      BY <2>5
    <3> QED BY <2>2, <2>4, <3>1, <3>2
  <2>7. \A s \in S : f[s] \in S
    <3> SUFFICES ASSUME NEW k \in i .. j - 1 PROVE f[h[k]] \in S
      OBVIOUS
    <3>1. k + 1 \in 1 .. MaxNodes /\ (k + 1) - 1 = k /\ k \in 0 .. MaxNodes - 1
      BY <2>5
    <3>2. h[k + 1] = f[h[k]]
      BY <1>0, <1>2, <2>1, <3>1
    <3>3. k + 1 \in i .. j - 1 \/ k + 1 = j
      BY <2>5
    <3> QED BY <2>5, <2>6, <3>2, <3>3
  <2> HIDE DEF S
  <2> QED BY <2>6, <2>7 DEF Upwards
<1>5. \A k \in 0 .. MaxNodes - 1 : k \in 0 .. MaxNodes
  OBVIOUS
<1> QED BY <1>0, <1>1, <1>3, <1>4, <1>5

(* Hanging node n below p, when the way up from p does not pass n.         *)
LEMMA UpwardsMoved ==
    ASSUME NEW f, Links(f), NEW U, Upwards(U, f), NEW p \in U,
           NEW n \in Nodes \ {0}, n \notin Visited(f, p), NEW g,
           g[n] = p, \A m \in Nodes \ {n} : g[m] = f[m]
    PROVE  Upwards(U \cup {n}, g)
<1> USE NullApart
<1>0. p \in NodesOrNull /\ Null \notin U /\ p \in Nodes
  BY DEF Upwards, NodesOrNull
<1>1. PICK h : /\ Trail(h, f, p)
               /\ Visited(f, p) = {h[k] : k \in 0 .. MaxNodes - 1} \ {Null}
  BY <1>0, VisitedIs
<1>2. /\ h[0] = p
      /\ \A k \in 1 .. MaxNodes : h[k] = IF h[k - 1] = Null THEN Null ELSE f[h[k - 1]]
  BY <1>1 DEF Trail
<1>3. 0 \in Visited(f, p) /\ Visited(f, p) \subseteq U
  BY UpwardsVisited
<1>4. PICK z \in 0 .. MaxNodes - 1 : h[z] = 0
  BY <1>1, <1>3
<1>5. ASSUME NEW S \in SUBSET (Nodes \ {0}), \A s \in S : g[s] \in S
      PROVE  S = {}
  <2>1. n \notin S
    <3> SUFFICES ASSUME n \in S PROVE FALSE
      OBVIOUS
    <3> DEFINE B == {k \in 0 .. z : h[k] \notin S}
    <3>1. B = {}
      <4> SUFFICES ASSUME B # {} PROVE FALSE
        OBVIOUS
      <4>1. B \subseteq Nat
        OBVIOUS
      <4>2. PICK k \in B : \A j \in B : k <= j
        <5> HIDE DEF B
        <5> QED BY <4>1, LeastExists
      <4>3. k \in 0 .. z /\ h[k] \notin S
        OBVIOUS
      <4>4. k # 0
        BY <1>2, <1>5, <4>3
      <4>5. k \in 1 .. MaxNodes /\ k - 1 \in 0 .. z /\ ~(k <= k - 1)
            /\ k - 1 \in 0 .. MaxNodes - 1
        BY <4>3, <4>4
      <4>6. h[k - 1] \in S
        BY <4>2, <4>5
      <4>7. h[k - 1] # Null /\ h[k - 1] \in Nodes
        BY <4>6
      <4>8. h[k - 1] # n
        BY <1>1, <4>5, <4>7
      <4>9. h[k] = g[h[k - 1]]
        BY <1>2, <4>5, <4>7, <4>8
      <4> QED BY <1>5, <4>3, <4>6, <4>9
    <3>2. h[z] \in S
      BY <3>1
    <3> QED BY <1>4, <3>2
  <2>2. \A s \in S : f[s] \in S
    BY <1>5, <2>1
  <2> QED BY <2>2 DEF Upwards
<1>6. \A m \in (U \cup {n}) \ {0} : g[m] \in U \cup {n}
  BY DEF Upwards
<1> QED BY <1>5, <1>6 DEF Upwards

(* Taking away a node that no other one of U hangs below.                  *)
LEMMA UpwardsRemoved ==
    ASSUME NEW f, NEW U, Upwards(U, f), NEW n \in U \ {0}, \A m \in U : f[m] # n
    PROVE  Upwards(U \ {n}, f)
BY DEF Upwards

-----------------------------------------------------------------------------
(* What the look-ups return.                                               *)

LEMMA LinksHold ==
    ASSUME TypeOK
    PROVE  Links(next) /\ Links(parent) /\ \A n \in Nodes : first[n] \in NodesOrNull
BY DEF TypeOK, Links, NodesOrNull

LEMMA ChildrenAreNodes ==
    ASSUME TypeOK, NEW n \in Nodes
    PROVE  Children(n) \subseteq Nodes
<1>1. Links(next) /\ first[n] \in NodesOrNull
  BY LinksHold
<1> QED BY <1>1, VisitedIs DEF Children

(* find_child returns a child of that name, or none when there is none.    *)
LEMMA FindChildIs ==
    ASSUME TypeOK, NEW n \in Nodes, NEW nm
    PROVE  /\ FindChild(n, nm) \in NodesOrNull
           /\ FindChild(n, nm) = Null => \A c \in Children(n) : name[c] # nm
<1> DEFINE C == {c \in Children(n) : name[c] = nm}
<1>1. C \subseteq Nodes
  BY ChildrenAreNodes
<1>2. CASE C = {}
  BY <1>2 DEF FindChild, NodesOrNull
<1>3. CASE C # {}
  <2>1. (CHOOSE c \in C : TRUE) \in C
    BY <1>3
  <2>2. FindChild(n, nm) = CHOOSE c \in C : TRUE
    BY <1>3 DEF FindChild
  <2> HIDE DEF C
  <2> QED BY <1>1, <2>1, <2>2, NullApart DEF NodesOrNull
<1> QED BY <1>2, <1>3

LEMMA FollowType ==
    ASSUME TypeOK, NEW n \in NodesOrNull, NEW part
    PROVE  Follow(n, part) \in NodesOrNull /\ FollowDir(n, part) \in NodesOrNull
<1>1. Null \in NodesOrNull /\ (n # Null => n \in Nodes)
  BY DEF NodesOrNull
<1>2. Follow(n, part) \in NodesOrNull
  <2>1. CASE n = Null
    BY <1>1, <2>1 DEF Follow
  <2>2. CASE n # Null
    <3>1. FindChild(n, part) \in NodesOrNull /\ parent[n] \in NodesOrNull
      BY <1>1, <2>2, FindChildIs DEF TypeOK, NodesOrNull
    <3> QED BY <2>2, <3>1 DEF Follow
  <2> QED BY <2>1, <2>2
<1> QED BY <1>1, <1>2 DEF FollowDir

(* The paths that callers give.                                            *)
LEMMA PathType ==
    ASSUME NEW p \in PathInputs
    PROVE  /\ p.parts \in Seq(Names \cup {".", ".."})
           /\ Len(p.parts) \in Nat
<1>1. p.parts \in Seq(Names \cup {".", ".."})
  BY FsAssumption, Zenon
<1> QED BY <1>1

(* Each part of the path leads from S to S.                                *)
StaysIn(S, path) ==
    /\ Start(path) \in S
    /\ \A x \in S, i \in 1 .. Len(path.parts) :
         Follow(x, path.parts[i]) \in S /\ FollowDir(x, path.parts[i]) \in S

(* Then resolve_path leads to S.                                           *)
LEMMA ResolveIn ==
    ASSUME NEW path \in PathInputs, NEW S, StaysIn(S, path)
    PROVE  Resolve(path) \in S
<1> DEFINE N == Len(path.parts)
           f == [k \in 1 .. N |-> [x \in S |-> Follow(x, path.parts[k])]]
           Body(at) == [i \in 0 .. N |-> IF i = 0 THEN Start(path)
                                         ELSE Follow(at[i - 1], path.parts[i])]
<1>0. N \in Nat
  BY PathType
<1>1. Start(path) \in S
  BY DEF StaysIn
<1>2. \A x \in S, i \in 1 .. N : Follow(x, path.parts[i]) \in S
  BY DEF StaysIn
<1>3. PICK h : Iterates(h, Start(path), f, N, S)
  <2>1. Within(f, N, S)
    BY <1>2 DEF Within
  <2> HIDE DEF f, N
  <2> QED BY <1>0, <1>1, <2>1, IterExists, Zenon
<1>4. h = Body(h)
  <2>1. h \in [0 .. N -> S] /\ h[0] = Start(path)
    BY <1>3 DEF Iterates
  <2>2. ASSUME NEW i \in 1 .. N PROVE h[i] = Follow(h[i - 1], path.parts[i])
    <3>1. i - 1 \in 0 .. N
      BY <1>0
    <3>2. h[i - 1] \in S /\ h[i] = f[i][h[i - 1]]
      BY <1>3, <2>1, <3>1 DEF Iterates
    <3> QED BY <3>2
  <2>3. \A i \in 0 .. N : i # 0 => i \in 1 .. N
    BY <1>0
  <2> HIDE DEF N
  <2>4. \A i \in 0 .. N : h[i] = IF i = 0 THEN Start(path)
                                  ELSE Follow(h[i - 1], path.parts[i])
    BY <2>1, <2>2, <2>3
  <2> QED BY <2>1, <2>4
<1>5. PICK w : w = CHOOSE at : at = Body(at)
  OBVIOUS
<1>6. w = Body(w)
  <2> HIDE DEF Body
  <2> QED BY <1>4, <1>5
<1>7. \A i \in 0 .. N : w[i] = IF i = 0 THEN Start(path)
                                ELSE Follow(w[i - 1], path.parts[i])
  <2>1. \A i \in 0 .. N : w[i] = Body(w)[i]
    <3> HIDE DEF Body
    <3> QED BY <1>6
  <2> QED BY <2>1
<1> DEFINE B == {i \in 0 .. N : w[i] \notin S}
<1>8. ASSUME B # {} PROVE FALSE
  <2> HIDE DEF N
  <2>1. B \subseteq Nat
    OBVIOUS
  <2>2. PICK k \in B : \A j \in B : k <= j
    <3> HIDE DEF B
    <3> QED BY <1>8, <2>1, LeastExists
  <2>3. k \in 0 .. N /\ w[k] \notin S
    OBVIOUS
  <2>4. k # 0
    BY <1>1, <1>7, <2>3
  <2>5. k \in 1 .. N /\ k - 1 \in 0 .. N /\ ~(k <= k - 1)
    BY <1>0, <2>3, <2>4
  <2>6. w[k - 1] \in S
    BY <2>2, <2>5
  <2>7. w[k] = Follow(w[k - 1], path.parts[k])
    BY <1>7, <2>3, <2>4
  <2> QED BY <1>2, <2>3, <2>5, <2>6, <2>7
<1>9. w[N] \in S
  <2> HIDE DEF N
  <2>1. N \in 0 .. N
    BY <1>0
  <2> QED BY <1>8, <2>1
<1> QED BY <1>5, <1>9 DEF Resolve

(* So does split_parent_and_name, when the path has a parent.              *)
LEMMA ParentOfIn ==
    ASSUME NEW path \in PathInputs, NEW S, StaysIn(S, path), path.parts # <<>>
    PROVE  ParentOf(path) \in S \cup {Null}
<1> DEFINE N == Len(path.parts) - 1
           f == [k \in 1 .. N |-> [x \in S |-> FollowDir(x, path.parts[k])]]
           Body(at) == [i \in 0 .. N |-> IF i = 0 THEN Start(path)
                                         ELSE FollowDir(at[i - 1], path.parts[i])]
<1>0. N \in Nat
  <2>1. path.parts \in Seq(Names \cup {".", ".."})
    BY PathType
  <2> QED BY <2>1
<1>1. Start(path) \in S
  BY DEF StaysIn
<1>2. \A x \in S, i \in 1 .. N : FollowDir(x, path.parts[i]) \in S
  BY <1>0 DEF StaysIn
<1>3. PICK h : Iterates(h, Start(path), f, N, S)
  <2>1. Within(f, N, S)
    BY <1>2 DEF Within
  <2> HIDE DEF f, N
  <2> QED BY <1>0, <1>1, <2>1, IterExists, Zenon
<1>4. h = Body(h)
  <2>1. h \in [0 .. N -> S] /\ h[0] = Start(path)
    BY <1>3 DEF Iterates
  <2>2. ASSUME NEW i \in 1 .. N PROVE h[i] = FollowDir(h[i - 1], path.parts[i])
    <3>1. i - 1 \in 0 .. N
      BY <1>0
    <3>2. h[i - 1] \in S /\ h[i] = f[i][h[i - 1]]
      BY <1>3, <2>1, <3>1 DEF Iterates
    <3> QED BY <3>2
  <2>3. \A i \in 0 .. N : i # 0 => i \in 1 .. N
    BY <1>0
  <2> HIDE DEF N
  <2>4. \A i \in 0 .. N : h[i] = IF i = 0 THEN Start(path)
                                  ELSE FollowDir(h[i - 1], path.parts[i])
    BY <2>1, <2>2, <2>3
  <2> QED BY <2>1, <2>4
<1>5. PICK w : w = CHOOSE at : at = Body(at)
  OBVIOUS
<1>6. w = Body(w)
  <2> HIDE DEF Body
  <2> QED BY <1>4, <1>5
<1>7. \A i \in 0 .. N : w[i] = IF i = 0 THEN Start(path)
                                ELSE FollowDir(w[i - 1], path.parts[i])
  <2>1. \A i \in 0 .. N : w[i] = Body(w)[i]
    <3> HIDE DEF Body
    <3> QED BY <1>6
  <2> QED BY <2>1
<1> DEFINE B == {i \in 0 .. N : w[i] \notin S}
<1>8. ASSUME B # {} PROVE FALSE
  <2> HIDE DEF N
  <2>1. B \subseteq Nat
    OBVIOUS
  <2>2. PICK k \in B : \A j \in B : k <= j
    <3> HIDE DEF B
    <3> QED BY <1>8, <2>1, LeastExists
  <2>3. k \in 0 .. N /\ w[k] \notin S
    OBVIOUS
  <2>4. k # 0
    BY <1>1, <1>7, <2>3
  <2>5. k \in 1 .. N /\ k - 1 \in 0 .. N /\ ~(k <= k - 1)
    BY <1>0, <2>3, <2>4
  <2>6. w[k - 1] \in S
    BY <2>2, <2>5
  <2>7. w[k] = FollowDir(w[k - 1], path.parts[k])
    BY <1>7, <2>3, <2>4
  <2> QED BY <1>2, <2>3, <2>5, <2>6, <2>7
<1>9. w[N] \in S
  <2> HIDE DEF N
  <2>1. N \in 0 .. N
    BY <1>0
  <2> QED BY <1>8, <2>1
<1>10. CASE NameOf(path) \in {".", ".."}
  BY <1>10 DEF ParentOf
<1>11. CASE NameOf(path) \notin {".", ".."}
  <2>1. ParentOf(path) = w[N]
    BY <1>5, <1>11 DEF ParentOf
  <2> QED BY <1>9, <2>1
<1> QED BY <1>10, <1>11

(* resolve_path leads to a node or to none.                                *)
LEMMA LooksUpNodes ==
    ASSUME TypeOK, NEW path \in PathInputs
    PROVE  StaysIn(NodesOrNull, path)
<1>1. Start(path) \in NodesOrNull
  BY NullApart DEF Start, NodesOrNull, TypeOK
<1> QED BY <1>1, FollowType DEF StaysIn

LEMMA ResolveType ==
    ASSUME TypeOK, NEW path \in PathInputs
    PROVE  Resolve(path) \in NodesOrNull
BY LooksUpNodes, ResolveIn

(* What split_parent_and_name leads to comes with a name.                  *)
LEMMA ParentOfType ==
    ASSUME TypeOK, NEW path \in PathInputs
    PROVE  /\ ParentOf(path) \in NodesOrNull
           /\ ParentOf(path) # Null => NameOf(path) \in Names
<1>1. CASE path.parts = <<>>
  BY <1>1 DEF ParentOf, NodesOrNull
<1>2. CASE path.parts # <<>>
  <2>1. ParentOf(path) # Null => NameOf(path) \notin {".", ".."}
    BY DEF ParentOf
  <2>2. NameOf(path) \in Names \cup {".", ".."}
    BY <1>2, PathType DEF NameOf
  <2>3. ParentOf(path) \in NodesOrNull \cup {Null}
    BY <1>2, LooksUpNodes, ParentOfIn
  <2> QED BY <2>1, <2>2, <2>3 DEF NodesOrNull
<1> QED BY <1>1, <1>2

-----------------------------------------------------------------------------
(* Type correctness.                                                       *)

LEMMA LowestIn ==
    ASSUME NEW S, S \subseteq Nat, S # {}
    PROVE  Lowest(S) \in S
BY LeastExists DEF Lowest

LEMMA FreeNode ==
    ASSUME NEW p, NEW nm, CanAdd(p, nm)
    PROVE  Lowest(Unused) \in Nodes \ {0} /\ ~used[Lowest(Unused)]
<1>1. Unused \subseteq Nat /\ Unused # {}
  BY DEF CanAdd, Unused, Nodes
<1> QED BY <1>1, LowestIn DEF Unused

LEMMA StoredType ==
    ASSUME NEW n \in Nat
    PROVE  Stored(n) \in 0 .. MaxFileSize - 1
BY DEF Stored

LEMMA ZeroSize == 0 \in 0 .. MaxFileSize - 1
OBVIOUS

(* add_child keeps the types.                                              *)
LEMMA AddType ==
    ASSUME TypeOK, NEW p \in Nodes, NEW nm \in Names, NEW d \in BOOLEAN,
           NEW sz \in 0 .. MaxFileSize - 1, CanAdd(p, nm), AddChild(p, nm, d, sz),
           UNCHANGED <<cwd, strayed>>
    PROVE  TypeOK'
<1>1. PICK n : n = Lowest(Unused)
  OBVIOUS
<1>2. n \in Nodes
  BY <1>1, FreeNode
<1> USE DEF TypeOK, AddChild
<1>3. /\ used' \in [Nodes -> BOOLEAN] /\ isdir' \in [Nodes -> BOOLEAN]
      /\ parent' \in [Nodes -> Nodes \cup {Null}]
  BY <1>1, <1>2
<1>4. /\ first' \in [Nodes -> Nodes \cup {Null}]
      /\ next' \in [Nodes -> Nodes \cup {Null}]
  BY <1>1, <1>2
<1>5. name' \in [Nodes -> Names \cup {""}] /\ size' \in [Nodes -> 0 .. MaxFileSize - 1]
  BY <1>1, <1>2
<1> QED BY <1>3, <1>4, <1>5

LEMMA UnlinkType ==
    ASSUME TypeOK, NEW n \in Nodes
    PROVE  /\ UnlinkFirst(n) \in [Nodes -> Nodes \cup {Null}]
           /\ UnlinkNext(n) \in [Nodes -> Nodes \cup {Null}]
BY DEF TypeOK, UnlinkFirst, UnlinkNext

LEMMA WriteType ==
    ASSUME TypeOK, NEW path \in PathInputs, NEW n \in Nat, fs_write_file(path, n)
    PROVE  TypeOK'
<1>1. PICK p : p = ParentOf(path)
  OBVIOUS
<1>2. p \in NodesOrNull /\ (p # Null => NameOf(path) \in Names)
  BY <1>1, ParentOfType
<1>3. Stored(n) \in 0 .. MaxFileSize - 1
  BY StoredType
<1>4. CASE /\ p # Null /\ CanAdd(p, NameOf(path))
           /\ AddChild(p, NameOf(path), FALSE, Stored(n))
           /\ UNCHANGED <<cwd, strayed>>
  BY <1>2, <1>3, <1>4, AddType DEF NodesOrNull
<1>5. CASE /\ \E node \in Nodes : size' = [size EXCEPT ![node] = Stored(n)]
           /\ UNCHANGED <<used, isdir, parent, first, next, name, cwd, strayed>>
  BY <1>3, <1>5 DEF TypeOK
<1>6. Resolve(path) # Null => Resolve(path) \in Nodes
  BY ResolveType DEF NodesOrNull
<1> QED BY <1>1, <1>4, <1>5, <1>6 DEF fs_write_file

LEMMA TypeStep ==
    ASSUME TypeOK, [Next]_vars
    PROVE  TypeOK'
<1>1. ASSUME NEW path \in PathInputs, fs_mkdir(path) \/ fs_touch(path) PROVE TypeOK'
  <2>1. PICK p : p = ParentOf(path)
    OBVIOUS
  <2>2. p \in Nodes /\ NameOf(path) \in Names
    BY <1>1, <2>1, ParentOfType DEF fs_mkdir, fs_touch, NodesOrNull
  <2>3. 0 \in 0 .. MaxFileSize - 1
    OBVIOUS
  <2> QED BY <1>1, <2>1, <2>2, <2>3, AddType DEF fs_mkdir, fs_touch
<1>2. ASSUME NEW path \in PathInputs, fs_rm(path) PROVE TypeOK'
  <2>1. PICK n : n = Resolve(path)
    OBVIOUS
  <2>2. n \in Nodes
    <3>1. n \in NodesOrNull /\ n > 0
      BY <1>2, <2>1, ResolveType DEF fs_rm
    <3> QED BY <3>1 DEF NodesOrNull, Null
  <2>3. PICK F, G : F = UnlinkFirst(n) /\ G = UnlinkNext(n)
    OBVIOUS
  <2>4. /\ F \in [Nodes -> Nodes \cup {Null}] /\ G \in [Nodes -> Nodes \cup {Null}]
    BY <2>2, <2>3, UnlinkType
  <2>5. /\ used' = [used EXCEPT ![n] = FALSE]
        /\ first' = [F EXCEPT ![n] = Null] /\ next' = [G EXCEPT ![n] = Null]
        /\ name' = [name EXCEPT ![n] = ""] /\ size' = [size EXCEPT ![n] = 0]
        /\ UNCHANGED <<isdir, parent, cwd, strayed>>
    BY <1>2, <2>1, <2>3 DEF fs_rm
  <2> USE DEF TypeOK
  <2>6. used' \in [Nodes -> BOOLEAN]
    BY <2>2, <2>5
  <2>7. /\ first' \in [Nodes -> Nodes \cup {Null}]
        /\ next' \in [Nodes -> Nodes \cup {Null}]
    BY <2>2, <2>4, <2>5
  <2>8. name' \in [Nodes -> Names \cup {""}]
    BY <2>2, <2>5
  <2>9. size' \in [Nodes -> 0 .. MaxFileSize - 1]
    BY <2>2, <2>5, ZeroSize
  <2>10. /\ isdir' \in [Nodes -> BOOLEAN] /\ parent' \in [Nodes -> Nodes \cup {Null}]
         /\ cwd' \in Nodes /\ strayed' \in BOOLEAN
    BY <2>5, Zenon
  <2> QED BY <2>6, <2>7, <2>8, <2>9, <2>10
<1>3. ASSUME NEW path \in PathInputs, fs_cd(path) PROVE TypeOK'
  <2>1. Resolve(path) \in Nodes
    BY <1>3, ResolveType DEF fs_cd, NodesOrNull
  <2> QED BY <1>3, <2>1 DEF fs_cd, TypeOK
<1>4. ASSUME NEW path \in PathInputs, NEW n \in 0 .. MaxSize, fs_write_file(path, n)
      PROVE  TypeOK'
  BY <1>4, WriteType
<1>5. ASSUME NEW src \in PathInputs, NEW dst \in PathInputs, fs_cp(src, dst)
      PROVE  TypeOK'
  <2>1. Resolve(src) \in Nodes
    BY <1>5, ResolveType DEF fs_cp, NodesOrNull
  <2>2. size[Resolve(src)] \in Nat
    <3>1. PICK n : n = Resolve(src)
      OBVIOUS
    <3>2. size[n] \in 0 .. MaxFileSize - 1
      BY <2>1, <3>1 DEF TypeOK
    <3> QED BY <3>1, <3>2
  <2> QED BY <1>5, <2>2, WriteType DEF fs_cp
<1>6. ASSUME NEW src \in PathInputs, NEW dst \in PathInputs, fs_mv(src, dst)
      PROVE  TypeOK'
  <2>1. PICK n, p : n = Resolve(src) /\ p = ParentOf(dst)
    OBVIOUS
  <2>2. n \in Nodes /\ p \in Nodes /\ NameOf(dst) \in Names
    <3>1. /\ n \in NodesOrNull /\ n > 0 /\ p \in NodesOrNull /\ p # Null
          /\ NameOf(dst) \in Names
      BY <1>6, <2>1, ResolveType, ParentOfType DEF fs_mv
    <3> QED BY <3>1 DEF NodesOrNull, Null
  <2>3. PICK F, G : F = UnlinkFirst(n) /\ G = UnlinkNext(n)
    OBVIOUS
  <2>4. /\ F \in [Nodes -> Nodes \cup {Null}] /\ G \in [Nodes -> Nodes \cup {Null}]
    BY <2>2, <2>3, UnlinkType
  <2>5. /\ parent' = [parent EXCEPT ![n] = p]
        /\ next' = [G EXCEPT ![n] = F[p]] /\ first' = [F EXCEPT ![p] = n]
        /\ name' = [name EXCEPT ![n] = NameOf(dst)]
        /\ strayed' = (strayed \/ ~used[p])
        /\ UNCHANGED <<used, isdir, size, cwd>>
    BY <1>6, <2>1, <2>3 DEF fs_mv
  <2>6. strayed' \in BOOLEAN
    BY <2>5, Zenon DEF TypeOK
  <2> QED BY <2>2, <2>4, <2>5, <2>6 DEF TypeOK
<1>7. CASE UNCHANGED vars
  BY <1>7 DEF vars, TypeOK
<1> QED BY <1>1, <1>2, <1>3, <1>4, <1>5, <1>6, <1>7 DEF Next, Operation

LEMMA InitType == Init => TypeOK
<1> SUFFICES ASSUME Init PROVE TypeOK
  OBVIOUS
<1> USE NullApart DEF Init
<1>1. used \in [Nodes -> BOOLEAN] /\ isdir \in [Nodes -> BOOLEAN]
  OBVIOUS
<1>2. /\ parent \in [Nodes -> Nodes \cup {Null}] /\ first \in [Nodes -> Nodes \cup {Null}]
      /\ next \in [Nodes -> Nodes \cup {Null}]
  OBVIOUS
<1>3. name \in [Nodes -> Names \cup {""}]
  OBVIOUS
<1>4. size \in [Nodes -> 0 .. MaxFileSize - 1]
  BY ZeroSize
<1>5. cwd \in Nodes /\ strayed \in BOOLEAN
  BY Zenon
<1> QED BY <1>1, <1>2, <1>3, <1>4, <1>5 DEF TypeOK

-----------------------------------------------------------------------------
(* The invariant of the tree.                                              *)

Kids(n) == {m \in InUse \ {0} : parent[m] = n}

(* The parents lead to the root, each node lists exactly the nodes that    *)
(* have it as parent, files list none, and siblings have different names.  *)
TreeInv ==
    /\ Upwards(InUse, parent)
    /\ \A n \in InUse : OneList(Kids(n), next, first[n])
    /\ \A n \in InUse : ~isdir[n] => Kids(n) = {}
    /\ \A m, n \in InUse \ {0} : parent[m] = parent[n] /\ name[m] = name[n] => m = n

(* The two walks on the tree.                                              *)
LEMMA TreeWalks ==
    ASSUME TypeOK, TreeInv, NEW n \in InUse
    PROVE  /\ Children(n) = Kids(n)
           /\ 0 \in Ancestors(n) /\ Ancestors(n) \subseteq InUse
<1>1. PICK f, g, U, K, a : /\ f = next /\ g = parent /\ U = InUse
                           /\ K = Kids(n) /\ a = first[n]
  OBVIOUS
<1>2. Links(f) /\ Links(g)
  BY <1>1, LinksHold
<1>3. OneList(K, f, a) /\ Upwards(U, g) /\ n \in U
  BY <1>1 DEF TreeInv
<1>4. Visited(f, a) = K
  BY <1>2, <1>3, ListVisited
<1>5. 0 \in Visited(g, n) /\ Visited(g, n) \subseteq U
  BY <1>2, <1>3, UpwardsVisited
<1> QED BY <1>1, <1>4, <1>5 DEF Children, Ancestors

LEMMA TreeImplies ==
    ASSUME TypeOK, ~strayed => TreeInv
    PROVE  TreeSound
<1> SUFFICES ASSUME TreeInv
    PROVE  /\ \A n \in InUse : Children(n) = {m \in InUse \ {0} : parent[m] = n}
           /\ \A n \in InUse : ~isdir[n] => Children(n) = {}
           /\ \A n \in InUse : 0 \in Ancestors(n) /\ Ancestors(n) \subseteq InUse
           /\ \A m, n \in InUse \ {0} : parent[m] = parent[n] /\ name[m] = name[n] => m = n
  BY DEF TreeSound
<1>1. \A n \in InUse : Children(n) = {m \in InUse \ {0} : parent[m] = n}
  BY TreeWalks DEF Kids
<1>2. \A n \in InUse : ~isdir[n] => Children(n) = {}
  BY TreeWalks DEF TreeInv
<1>3. \A n \in InUse : 0 \in Ancestors(n) /\ Ancestors(n) \subseteq InUse
  BY TreeWalks
<1> QED BY <1>1, <1>2, <1>3 DEF TreeInv

(* A name that find_child has not found is no sibling's.                   *)
LEMMA NameFree ==
    ASSUME TypeOK, TreeInv, NEW p \in InUse, NEW nm, FindChild(p, nm) = Null
    PROVE  \A c \in Kids(p) : name[c] # nm
<1>1. p \in Nodes
  BY DEF InUse
<1>2. Children(p) = Kids(p)
  BY TreeWalks
<1> QED BY <1>1, <1>2, FindChildIs

(* What the way up is after node n has been hung below p.                  *)
LEMMA HangBelow ==
    ASSUME TypeOK, NEW U, Upwards(U, parent), NEW p \in U, NEW n \in Nodes \ {0},
           n \notin Visited(parent, p), parent' = [parent EXCEPT ![n] = p]
    PROVE  Upwards(U \cup {n}, parent')
<1>1. PICK f, g : f = parent /\ g = parent'
  OBVIOUS
<1>2. g[n] = p /\ \A m \in Nodes \ {n} : g[m] = f[m]
  BY <1>1 DEF TypeOK
<1>3. Upwards(U, f) /\ n \notin Visited(f, p) /\ Links(f)
  BY <1>1, LinksHold
<1>4. Upwards(U \cup {n}, g)
  BY <1>2, <1>3, UpwardsMoved
<1> QED BY <1>1, <1>4

(* add_child hangs a new node into the tree.                               *)
LEMMA AddTree ==
    ASSUME TypeOK, TreeInv, NEW p, NEW nm, NEW d \in BOOLEAN, NEW sz,
           CanAdd(p, nm), p \in NodesOrNull, AddChild(p, nm, d, sz)
    PROVE  TreeInv'
<1> USE DEF TypeOK
<1>1. PICK n, U : n = Lowest(Unused) /\ U = InUse
  OBVIOUS
<1>2. n \in Nodes \ {0} /\ n \notin U /\ ~used[n]
  BY <1>1, FreeNode DEF InUse
<1>3. p \in U /\ p \in Nodes /\ p # n /\ isdir[p] /\ FindChild(p, nm) = Null
  BY <1>1, <1>2 DEF CanAdd, InUse, NodesOrNull
<1>4. /\ used' = [used EXCEPT ![n] = TRUE] /\ isdir' = [isdir EXCEPT ![n] = d]
      /\ parent' = [parent EXCEPT ![n] = p]
      /\ first' = [first EXCEPT ![n] = Null, ![p] = n]
      /\ next' = [next EXCEPT ![n] = first[p]] /\ name' = [name EXCEPT ![n] = nm]
  BY <1>1 DEF AddChild
<1>5. InUse' = U \cup {n}
  <2>1. n \in Nodes /\ used'[n] /\ \A m \in Nodes \ {n} : used'[m] = used[m]
    BY <1>2, <1>4
  <2>2. U = {m \in Nodes : used[m]} /\ InUse' = {m \in Nodes : used'[m]}
    BY <1>1 DEF InUse
  <2> QED BY <2>1, <2>2, Zenon
<1>6. Upwards(U, parent) /\ n \notin Visited(parent, p) /\ Links(parent)
  BY <1>1, <1>2, <1>3, TreeWalks, LinksHold DEF TreeInv, Ancestors
<1>7. Upwards(U \cup {n}, parent')
  BY <1>2, <1>3, <1>4, <1>6, HangBelow
<1>8. /\ \A o \in U \ {p} : Kids(o)' = Kids(o)
      /\ Kids(p)' = Kids(p) \cup {n}
      /\ Kids(n)' = {}
  <2>1. \A m \in U \ {0} : parent[m] # n
    <3>1. \A m \in U \ {0} : parent[m] \in U
      BY <1>6 DEF Upwards
    <3> QED BY <1>2, <3>1
  <2>2. \A m \in U : parent'[m] = parent[m]
    BY <1>1, <1>2, <1>4 DEF InUse
  <2>3. parent'[n] = p
    BY <1>2, <1>4
  <2>4. \A o : Kids(o)' = {m \in (U \cup {n}) \ {0} : parent'[m] = o}
    BY <1>5 DEF Kids
  <2>5. \A o : Kids(o) = {m \in U \ {0} : parent[m] = o}
    BY <1>1 DEF Kids
  <2>6. \A o \in U \ {p} : Kids(o)' = Kids(o)
    BY <1>2, <2>2, <2>3, <2>4, <2>5
  <2>7. Kids(p)' = Kids(p) \cup {n}
    <3>1. Kids(p)' = {m \in (U \cup {n}) \ {0} : parent'[m] = p}
      BY <2>4
    <3>2. Kids(p) = {m \in U \ {0} : parent[m] = p}
      BY <2>5
    <3> QED BY <1>2, <2>2, <2>3, <3>1, <3>2
  <2>8. Kids(n)' = {}
    <3>1. Kids(n)' = {m \in (U \cup {n}) \ {0} : parent'[m] = n}
      BY <2>4
    <3>2. \A m \in (U \cup {n}) \ {0} : parent'[m] # n
      BY <1>3, <2>1, <2>2, <2>3
    <3> QED BY <3>1, <3>2
  <2> QED BY <2>6, <2>7, <2>8
<1>9. ASSUME NEW o \in U \cup {n} PROVE OneList(Kids(o)', next', first'[o])
  <2>1. PICK f, g, K, a : f = next /\ g = next' /\ K = Kids(o) /\ a = first[o]
    OBVIOUS
  <2>2. \A m \in U : g[m] = f[m]
    BY <1>1, <1>2, <1>4, <2>1 DEF InUse
  <2>3. K \subseteq U
    BY <1>1, <2>1 DEF Kids
  <2>4. CASE o = n
    <3>1. first'[o] = Null
      BY <1>2, <1>3, <1>4, <2>4
    <3>2. OneList({}, g, Null)
      BY ListEmpty
    <3> QED BY <1>8, <2>1, <2>4, <3>1, <3>2
  <2>5. CASE o = p
    <3>1. OneList(K, f, a) /\ n \in Nodes \ K /\ g[n] = a /\ \A m \in K : g[m] = f[m]
      BY <1>1, <1>2, <1>3, <1>4, <2>1, <2>2, <2>3, <2>5 DEF TreeInv
    <3>2. OneList(K \cup {n}, g, n)
      BY <3>1, ListPushed
    <3>3. first'[o] = n
      BY <1>3, <1>4, <2>5
    <3> QED BY <1>8, <2>1, <2>5, <3>2, <3>3
  <2>6. CASE o # n /\ o # p
    <3>1. OneList(K, f, a) /\ \A m \in K : g[m] = f[m]
      BY <1>1, <2>1, <2>2, <2>3, <2>6 DEF TreeInv
    <3>2. OneList(K, g, a)
      BY <3>1, ListSame
    <3>3. first'[o] = a
      BY <1>1, <1>4, <2>1, <2>6 DEF InUse
    <3> QED BY <1>8, <2>1, <2>6, <3>2, <3>3
  <2> QED BY <2>4, <2>5, <2>6
<1>10. \A o \in U \cup {n} : ~isdir'[o] => Kids(o)' = {}
  <2>1. \A o \in U : isdir'[o] = isdir[o]
    BY <1>1, <1>2, <1>4 DEF InUse
  <2>2. \A o \in U : ~isdir[o] => Kids(o) = {}
    BY <1>1 DEF TreeInv
  <2> QED BY <1>3, <1>8, <2>1, <2>2
<1>11. ASSUME NEW l \in (U \cup {n}) \ {0}, NEW m \in (U \cup {n}) \ {0},
              parent'[l] = parent'[m], name'[l] = name'[m]
       PROVE  l = m
  <2>1. \A o \in U : parent'[o] = parent[o] /\ name'[o] = name[o]
    BY <1>1, <1>2, <1>4 DEF InUse
  <2>2. parent'[n] = p /\ name'[n] = nm
    BY <1>2, <1>4
  <2>3. \A o \in U \ {0} : parent[o] = p => name[o] # nm
    <3>1. \A c \in Kids(p) : name[c] # nm
      BY <1>1, <1>3, NameFree
    <3> QED BY <1>1, <3>1 DEF Kids
  <2>4. \A i, j \in U \ {0} : parent[i] = parent[j] /\ name[i] = name[j] => i = j
    BY <1>1 DEF TreeInv
  <2> QED BY <1>11, <2>1, <2>2, <2>3, <2>4
<1> QED BY <1>5, <1>7, <1>9, <1>10, <1>11 DEF TreeInv


(* Only a node with children is passed on the way up from another one.     *)
LEMMA PassedHasKids ==
    ASSUME TypeOK, TreeInv, NEW p \in InUse
    PROVE  p \in Ancestors(p) /\ \A n \in Ancestors(p) \ {p} : Kids(n) # {}
<1> USE NullApart
<1>1. PICK f, U : f = parent /\ U = InUse
  OBVIOUS
<1>2. Links(f) /\ Upwards(U, f) /\ p \in U /\ p \in Nodes /\ p \in NodesOrNull
  BY <1>1, LinksHold DEF TreeInv, InUse, NodesOrNull
<1>3. PICK h : /\ Trail(h, f, p)
               /\ Visited(f, p) = {h[k] : k \in 0 .. MaxNodes - 1} \ {Null}
  BY <1>2, VisitedIs
<1>4. Visited(f, p) \subseteq U
  BY <1>2, UpwardsVisited
<1>5. p \in Visited(f, p)
  <2>1. 0 \in 0 .. MaxNodes - 1 /\ h[0] = p
    BY <1>3 DEF Trail
  <2> QED BY <1>2, <1>3, <2>1
<1>6. ASSUME NEW n \in Visited(f, p) \ {p} PROVE Kids(n) # {}
  <2>1. PICK k \in 0 .. MaxNodes - 1 : n = h[k] /\ n # Null
    BY <1>3
  <2>2. k # 0
    BY <1>3, <1>6, <2>1 DEF Trail
  <2>3. k \in 1 .. MaxNodes /\ k - 1 \in 0 .. MaxNodes - 1
    BY <2>1, <2>2
  <2>4. h[k] = IF h[k - 1] = Null THEN Null ELSE f[h[k - 1]]
    BY <1>3, <2>3 DEF Trail
  <2>5. h[k - 1] # Null /\ f[h[k - 1]] = n
    BY <2>1, <2>4
  <2>6. h[k - 1] \in U
    BY <1>3, <1>4, <2>3, <2>5
  <2>7. h[k - 1] # 0
    BY <1>2, <2>1, <2>5 DEF Upwards
  <2> QED BY <1>1, <2>5, <2>6, <2>7 DEF Kids
<1> QED BY <1>1, <1>5, <1>6 DEF Ancestors

(* unlink_node_from_parent takes n off its parent's list, and off no other *)
(* one.                                                                    *)
LEMMA UnlinkLists ==
    ASSUME TypeOK, TreeInv, NEW n \in InUse \ {0}, NEW F, NEW G,
           F = UnlinkFirst(n), G = UnlinkNext(n), NEW o \in InUse
    PROVE  OneList(Kids(o) \ {n}, G, F[o])
<1> USE NullApart
<1>1. PICK f, K, a, q : f = next /\ K = Kids(o) /\ a = first[o] /\ q = parent[n]
  OBVIOUS
<1>2. /\ n \in Nodes /\ o \in Nodes /\ q \in InUse /\ q \in Nodes
      /\ n \in Kids(q) /\ (o # q => n \notin K)
  BY <1>1 DEF InUse, Kids, TreeInv, Upwards
<1>3. OneList(K, f, a) /\ K \subseteq Nodes
  BY <1>1 DEF TreeInv, OneList
<1>4. Children(q) = Kids(q)
  BY <1>2, TreeWalks
<1>5. \A m \in Nodes : G[m] = IF m \in Kids(q) /\ f[m] = n THEN f[n] ELSE f[m]
  BY <1>1, <1>4 DEF UnlinkNext
<1>6. CASE o = q
  <2>1. F[o] = IF a = n THEN f[n] ELSE a
    BY <1>1, <1>2, <1>6 DEF UnlinkFirst, TypeOK
  <2>2. \A m \in K \ {n} : G[m] = IF f[m] = n THEN f[n] ELSE f[m]
    BY <1>1, <1>3, <1>5, <1>6
  <2>3. n \in K
    BY <1>1, <1>2, <1>6
  <2>4. PICK b : b = F[o]
    OBVIOUS
  <2>5. b = IF a = n THEN f[n] ELSE a
    BY <2>1, <2>4
  <2>6. OneList(K \ {n}, G, b)
    BY <1>3, <2>2, <2>3, <2>5, ListUnlinked, SMT
  <2> QED BY <1>1, <2>4, <2>6
<1>7. CASE o # q
  <2>1. F[o] = a
    BY <1>1, <1>2, <1>7 DEF UnlinkFirst, TypeOK
  <2>2. \A m \in K : G[m] = f[m]
    BY <1>1, <1>2, <1>3, <1>5, <1>7 DEF Kids
  <2>3. K \ {n} = K
    BY <1>2, <1>7
  <2>4. OneList(K, G, a)
    BY <1>3, <2>2, ListSame
  <2> QED BY <1>1, <2>1, <2>3, <2>4
<1> QED BY <1>6, <1>7

(* What fs_rm removes has no children.                                     *)
LEMMA NoKids ==
    ASSUME TypeOK, TreeInv, NEW n \in InUse, ~(isdir[n] /\ first[n] # Null)
    PROVE  Kids(n) = {}
<1>1. PICK K, f, a : K = Kids(n) /\ f = next /\ a = first[n]
  OBVIOUS
<1>2. OneList(K, f, a)
  BY <1>1 DEF TreeInv
<1>3. CASE isdir[n]
  <2>1. a = Null
    BY <1>1, <1>3
  <2> QED BY <1>1, <1>2, <2>1, EmptyList
<1>4. CASE ~isdir[n]
  BY <1>4 DEF TreeInv
<1> QED BY <1>3, <1>4

(* fs_rm takes a node without children out of the tree.                    *)
LEMMA RemoveTree ==
    ASSUME TypeOK, TreeInv, NEW path \in PathInputs, fs_rm(path)
    PROVE  TreeInv'
<1> USE NullApart
<1>1. PICK n, U, F, G : /\ n = Resolve(path) /\ U = InUse
                        /\ F = UnlinkFirst(n) /\ G = UnlinkNext(n)
  OBVIOUS
<1>2. n \in NodesOrNull /\ n > 0 /\ used[n] /\ ~(isdir[n] /\ first[n] # Null)
  BY <1>1, ResolveType DEF fs_rm
<1>3. n \in U /\ n # 0 /\ n \in Nodes /\ U \subseteq Nodes
  BY <1>1, <1>2 DEF InUse, NodesOrNull, Null
<1>4. F \in [Nodes -> NodesOrNull] /\ G \in [Nodes -> NodesOrNull]
  BY <1>1, <1>3, UnlinkType DEF NodesOrNull
<1>5. /\ used' = [used EXCEPT ![n] = FALSE]
      /\ first' = [F EXCEPT ![n] = Null] /\ next' = [G EXCEPT ![n] = Null]
      /\ name' = [name EXCEPT ![n] = ""]
      /\ isdir' = isdir /\ parent' = parent
  BY <1>1 DEF fs_rm
<1>6. Kids(n) = {}
  BY <1>1, <1>2, <1>3, NoKids
<1>7. InUse' = U \ {n}
  BY <1>1, <1>3, <1>5 DEF InUse, TypeOK
<1>8. Upwards(U \ {n}, parent')
  <2>1. PICK f : f = parent
    OBVIOUS
  <2>2. Upwards(U, f)
    BY <1>1, <2>1 DEF TreeInv
  <2>3. \A m \in U : f[m] # n
    <3>1. \A m \in U \ {0} : f[m] # n
      BY <1>1, <1>6, <2>1 DEF Kids
    <3> QED BY <1>3, <2>2, <3>1 DEF Upwards
  <2>4. n \in U \ {0}
    BY <1>3
  <2>5. Upwards(U \ {n}, f)
    BY <2>2, <2>3, <2>4, UpwardsRemoved
  <2> QED BY <1>5, <2>1, <2>5
<1>9. \A o : Kids(o)' = Kids(o) \ {n}
  BY <1>1, <1>5, <1>7 DEF Kids
<1>10. ASSUME NEW o \in U \ {n} PROVE OneList(Kids(o)', next', first'[o])
  <2>1. PICK K, g, a : K = Kids(o) \ {n} /\ g = next' /\ a = F[o]
    OBVIOUS
  <2>2. OneList(K, G, a) /\ n \notin K /\ K \subseteq Nodes
    BY <1>1, <1>3, <2>1, UnlinkLists DEF OneList
  <2>3. \A m \in K : g[m] = G[m]
    BY <1>3, <1>4, <1>5, <2>1, <2>2
  <2>4. OneList(K, g, a)
    BY <2>2, <2>3, ListSame
  <2>5. first'[o] = a
    BY <1>3, <1>4, <1>5, <2>1
  <2> QED BY <1>9, <2>1, <2>4, <2>5
<1>11. \A o \in U \ {n} : ~isdir'[o] => Kids(o)' = {}
  BY <1>1, <1>5, <1>9 DEF TreeInv
<1>12. ASSUME NEW l \in (U \ {n}) \ {0}, NEW m \in (U \ {n}) \ {0},
              parent'[l] = parent'[m], name'[l] = name'[m]
       PROVE  l = m
  <2>1. \A o \in U \ {n} : name'[o] = name[o] /\ parent'[o] = parent[o]
    BY <1>3, <1>5 DEF TypeOK
  <2>2. \A i, j \in U \ {0} : parent[i] = parent[j] /\ name[i] = name[j] => i = j
    BY <1>1 DEF TreeInv
  <2> QED BY <1>12, <2>1, <2>2
<1> QED BY <1>7, <1>8, <1>10, <1>11, <1>12 DEF TreeInv

(* fs_mv hangs a node below a directory that is not below it.              *)
LEMMA MoveTree ==
    ASSUME TypeOK, TreeInv, NEW src \in PathInputs, NEW dst \in PathInputs,
           fs_mv(src, dst), ~strayed'
    PROVE  TreeInv'
<1> USE NullApart
<1>1. PICK n, p, U, F, G, nm : /\ n = Resolve(src) /\ p = ParentOf(dst) /\ U = InUse
                               /\ F = UnlinkFirst(n) /\ G = UnlinkNext(n)
                               /\ nm = NameOf(dst)
  OBVIOUS
<1>2. /\ n \in NodesOrNull /\ n > 0 /\ used[n] /\ (isdir[n] => n \notin Ancestors(p))
      /\ p \in NodesOrNull /\ p # Null /\ isdir[p] /\ FindChild(p, nm) = Null
  BY <1>1, ResolveType, ParentOfType DEF fs_mv
<1>3. /\ parent' = [parent EXCEPT ![n] = p]
      /\ next' = [G EXCEPT ![n] = F[p]] /\ first' = [F EXCEPT ![p] = n]
      /\ name' = [name EXCEPT ![n] = nm]
      /\ strayed' = (strayed \/ ~used[p])
      /\ used' = used /\ isdir' = isdir
  BY <1>1 DEF fs_mv
<1>4. /\ n \in U /\ n # 0 /\ n \in Nodes /\ p \in U /\ p \in Nodes /\ U \subseteq Nodes
  <2>1. used[p]
    BY <1>3, Zenon
  <2> QED BY <1>1, <1>2, <2>1 DEF InUse, NodesOrNull, Null
<1>5. F \in [Nodes -> NodesOrNull] /\ G \in [Nodes -> NodesOrNull]
  BY <1>1, <1>4, UnlinkType DEF NodesOrNull
<1>6. InUse' = U
  BY <1>1, <1>3 DEF InUse
<1>7. n # p /\ n \notin Ancestors(p)
  <2>1. p \in Ancestors(p) /\ \A m \in Ancestors(p) \ {p} : Kids(m) # {}
    BY <1>1, <1>4, PassedHasKids
  <2>2. CASE isdir[n]
    BY <1>2, <2>1, <2>2
  <2>3. CASE ~isdir[n]
    <3>1. Kids(n) = {}
      BY <1>1, <1>4, <2>3 DEF TreeInv
    <3> QED BY <1>2, <2>1, <2>3, <3>1
  <2> QED BY <2>2, <2>3
<1>8. Upwards(U, parent')
  <2>1. Upwards(U, parent) /\ n \notin Visited(parent, p) /\ n \in Nodes \ {0}
    BY <1>1, <1>4, <1>7 DEF TreeInv, Ancestors
  <2>2. Upwards(U \cup {n}, parent')
    BY <1>3, <1>4, <2>1, HangBelow
  <2>3. U \cup {n} = U
    BY <1>4
  <2> QED BY <2>2, <2>3
<1>9. /\ parent'[n] = p /\ name'[n] = nm
      /\ \A m \in U \ {n} : parent'[m] = parent[m] /\ name'[m] = name[m]
  BY <1>3, <1>4 DEF TypeOK
<1>10. /\ \A o \in U \ {p} : Kids(o)' = Kids(o) \ {n}
       /\ Kids(p)' = (Kids(p) \ {n}) \cup {n}
  <2>1. \A o : Kids(o)' = {m \in U \ {0} : parent'[m] = o}
    BY <1>6 DEF Kids
  <2>2. \A o : Kids(o) = {m \in U \ {0} : parent[m] = o}
    BY <1>1 DEF Kids
  <2>3. \A o \in U \ {p} : Kids(o)' = Kids(o) \ {n}
    BY <1>9, <2>1, <2>2
  <2>4. Kids(p)' = (Kids(p) \ {n}) \cup {n}
    <3>1. Kids(p)' = {m \in U \ {0} : parent'[m] = p}
      BY <2>1
    <3>2. Kids(p) = {m \in U \ {0} : parent[m] = p}
      BY <2>2
    <3> QED BY <1>4, <1>9, <3>1, <3>2
  <2> QED BY <2>3, <2>4
<1>11. ASSUME NEW o \in U PROVE OneList(Kids(o)', next', first'[o])
  <2>1. PICK K, g, a : K = Kids(o) \ {n} /\ g = next' /\ a = F[o]
    OBVIOUS
  <2>2. OneList(K, G, a) /\ n \notin K /\ K \subseteq Nodes
    BY <1>1, <1>4, <2>1, UnlinkLists DEF OneList
  <2>3. \A m \in K : g[m] = G[m]
    BY <1>4, <1>5, <1>3, <2>1, <2>2
  <2>4. CASE o = p
    <3>1. g[n] = a /\ n \in Nodes \ K
      BY <1>3, <1>4, <1>5, <2>1, <2>2, <2>4
    <3>2. OneList(K \cup {n}, g, n)
      BY <2>2, <2>3, <3>1, ListPushed
    <3>3. first'[o] = n
      BY <1>3, <1>4, <1>5, <2>4
    <3>4. Kids(o)' = K \cup {n}
      BY <1>10, <2>1, <2>4
    <3> QED BY <2>1, <3>2, <3>3, <3>4
  <2>5. CASE o # p
    <3>1. OneList(K, g, a)
      BY <2>2, <2>3, ListSame
    <3>2. first'[o] = a
      BY <1>3, <1>4, <1>5, <2>1, <2>5
    <3>3. Kids(o)' = K
      BY <1>10, <2>1, <2>5
    <3> QED BY <2>1, <3>1, <3>2, <3>3
  <2> QED BY <2>4, <2>5
<1>12. \A o \in U : ~isdir'[o] => Kids(o)' = {}
  BY <1>1, <1>2, <1>3, <1>10 DEF TreeInv
<1>13. ASSUME NEW l \in U \ {0}, NEW m \in U \ {0},
              parent'[l] = parent'[m], name'[l] = name'[m]
       PROVE  l = m
  <2>1. \A o \in U \ {0} : parent[o] = p => name[o] # nm
    <3>1. \A c \in Kids(p) : name[c] # nm
      BY <1>1, <1>2, <1>4, NameFree
    <3> QED BY <1>1, <3>1 DEF Kids
  <2>2. \A i, j \in U \ {0} : parent[i] = parent[j] /\ name[i] = name[j] => i = j
    BY <1>1 DEF TreeInv
  <2> QED BY <1>9, <1>13, <2>1, <2>2
<1> QED BY <1>6, <1>8, <1>11, <1>12, <1>13 DEF TreeInv

(* A step that changes neither a link nor a name leaves the tree alone.    *)
LEMMA SameTree ==
    ASSUME TreeInv, UNCHANGED <<used, isdir, parent, first, next, name>>
    PROVE  TreeInv'
<1>1. InUse' = InUse
  BY DEF InUse
<1>2. \A n : Kids(n)' = Kids(n)
  BY <1>1 DEF Kids
<1>3. /\ Upwards(InUse', parent')
      /\ \A n \in InUse' : OneList(Kids(n)', next', first'[n])
  BY <1>1, <1>2 DEF TreeInv
<1>4. /\ \A n \in InUse' : ~isdir'[n] => Kids(n)' = {}
      /\ \A m, n \in InUse' \ {0} : parent'[m] = parent'[n] /\ name'[m] = name'[n] => m = n
  BY <1>1, <1>2 DEF TreeInv
<1> QED BY <1>3, <1>4 DEF TreeInv

LEMMA WriteTree ==
    ASSUME TypeOK, TreeInv, NEW path \in PathInputs, NEW n, fs_write_file(path, n)
    PROVE  TreeInv'
<1>1. ParentOf(path) \in NodesOrNull
  BY ParentOfType
<1>2. CASE UNCHANGED <<used, isdir, parent, first, next, name>>
  BY <1>2, SameTree
<1>3. CASE /\ CanAdd(ParentOf(path), NameOf(path))
           /\ AddChild(ParentOf(path), NameOf(path), FALSE, Stored(n))
  BY <1>1, <1>3, AddTree
<1> QED BY <1>2, <1>3 DEF fs_write_file

(* What holds in every state.                                              *)
Sound == TypeOK /\ (~strayed => TreeInv)

LEMMA SoundStep == Sound /\ [Next]_vars => Sound'
<1> SUFFICES ASSUME Sound, [Next]_vars PROVE Sound'
  OBVIOUS
<1>1. TypeOK /\ TypeOK'
  BY TypeStep DEF Sound
<1>2. ASSUME ~strayed, ~strayed', Operation PROVE TreeInv'
  <2>1. TreeInv
    BY <1>2 DEF Sound
  <2>2. ASSUME NEW path \in PathInputs, fs_mkdir(path) \/ fs_touch(path) PROVE TreeInv'
    <3>1. ParentOf(path) \in NodesOrNull
      BY <1>1, ParentOfType
    <3>2. \E d \in BOOLEAN : /\ CanAdd(ParentOf(path), NameOf(path))
                             /\ AddChild(ParentOf(path), NameOf(path), d, 0)
      BY <2>2 DEF fs_mkdir, fs_touch
    <3> QED BY <1>1, <2>1, <3>1, <3>2, AddTree
  <2>3. ASSUME NEW path \in PathInputs, fs_rm(path) PROVE TreeInv'
    BY <1>1, <2>1, <2>3, RemoveTree
  <2>4. ASSUME NEW path \in PathInputs, fs_cd(path) PROVE TreeInv'
    BY <2>1, <2>4, SameTree DEF fs_cd
  <2>5. ASSUME NEW path \in PathInputs, NEW n \in 0 .. MaxSize, fs_write_file(path, n)
        PROVE  TreeInv'
    BY <1>1, <2>1, <2>5, WriteTree
  <2>6. ASSUME NEW src \in PathInputs, NEW dst \in PathInputs, fs_cp(src, dst)
        PROVE  TreeInv'
    BY <1>1, <2>1, <2>6, WriteTree DEF fs_cp
  <2>7. ASSUME NEW src \in PathInputs, NEW dst \in PathInputs, fs_mv(src, dst)
        PROVE  TreeInv'
    BY <1>1, <1>2, <2>1, <2>7, MoveTree
  <2> QED BY <1>2, <2>2, <2>3, <2>4, <2>5, <2>6, <2>7 DEF Operation
<1>3. ASSUME UNCHANGED vars, ~strayed' PROVE TreeInv'
  <2>1. TreeInv
    BY <1>3 DEF Sound, vars
  <2> QED BY <1>3, <2>1, SameTree DEF vars
<1>4. ~strayed' => TreeInv'
  BY <1>2, <1>3 DEF Next, vars
<1> QED BY <1>1, <1>4 DEF Sound

LEMMA SoundInit == Init => Sound
<1> SUFFICES ASSUME Init PROVE TreeInv
  BY InitType DEF Sound
<1> USE NullApart
<1>1. InUse = {0}
  BY DEF Init, InUse
<1>2. \A n : Kids(n) = {}
  BY <1>1 DEF Kids
<1>3. Upwards(InUse, parent)
  BY <1>1 DEF Upwards, Init
<1>4. \A n \in InUse : OneList(Kids(n), next, first[n])
  <2>1. OneList({}, next, Null)
    BY ListEmpty
  <2> QED BY <1>1, <1>2, <2>1 DEF Init
<1> QED BY <1>1, <1>2, <1>3, <1>4 DEF TreeInv

-----------------------------------------------------------------------------
(* Whatever the callers do, until fs_mv has put a node below one that is   *)
(* not in use (fs.c:673, which asks is_dir and not used), the nodes in use *)
(* form one tree: add_child, unlink_node_from_parent, fs_rm and fs_mv keep *)
(* every node on its parent's list and on no other, and no two siblings    *)
(* have the same name.                                                     *)
THEOREM TreeAlwaysSound == Spec => []TreeSound
<1>1. Init => Sound
  BY SoundInit
<1>2. Sound /\ [Next]_vars => Sound'
  BY SoundStep
<1>3. Sound => TreeSound
  BY TreeImplies DEF Sound
<1> QED BY <1>1, <1>2, <1>3, PTL DEF Spec

-----------------------------------------------------------------------------
(* Paths as sequences.                                                     *)

(* IsPrefix, position by position.                                         *)
Starts(s, t) == Len(s) <= Len(t) /\ \A i \in 1 .. Len(s) : s[i] = t[i]

LEMMA PrefixIs ==
    ASSUME NEW T, NEW s \in Seq(T), NEW t \in Seq(T)
    PROVE  Abstract!IsPrefix(s, t) <=> Starts(s, t)
<1>1. Len(s) \in Nat /\ Len(t) \in Nat
  OBVIOUS
<1>2. SubSeq(s, 1, Len(s)) = s
  BY SubSeqFull
<1>3. ASSUME Len(s) <= Len(t)
      PROVE  /\ SubSeq(t, 1, Len(s)) \in Seq(T) /\ Len(SubSeq(t, 1, Len(s))) = Len(s)
             /\ \A i \in 1 .. Len(s) : SubSeq(t, 1, Len(s))[i] = t[i]
  <2>1. \A i \in 1 .. Len(s) : t[i] \in T
    BY <1>1, <1>3
  <2>2. PICK n : n = Len(s)
    OBVIOUS
  <2>3. /\ SubSeq(t, 1, n) \in Seq(T)
        /\ Len(SubSeq(t, 1, n)) = IF 1 <= n THEN n - 1 + 1 ELSE 0
        /\ \A i \in 1 .. n - 1 + 1 : SubSeq(t, 1, n)[i] = t[1 + i - 1]
    BY <1>1, <2>1, <2>2, SubSeqProperties
  <2> QED BY <1>1, <2>2, <2>3
<1>4. ASSUME Len(s) <= Len(t), Starts(s, t) PROVE s = SubSeq(t, 1, Len(s))
  <2>1. PICK u : u = SubSeq(t, 1, Len(s))
    OBVIOUS
  <2>2. u \in Seq(T) /\ Len(u) = Len(s) /\ \A i \in 1 .. Len(s) : u[i] = s[i]
    BY <1>3, <1>4, <2>1 DEF Starts
  <2>3. s = u
    BY <2>2, SeqEqual
  <2> QED BY <2>1, <2>3
<1>5. ASSUME Len(s) <= Len(t), s = SubSeq(t, 1, Len(s)) PROVE Starts(s, t)
  BY <1>3, <1>5 DEF Starts
<1> QED BY <1>2, <1>4, <1>5 DEF Abstract!IsPrefix, Starts

LEMMA StartsAppend ==
    ASSUME NEW T, NEW s \in Seq(T), NEW t \in Seq(T), NEW a \in T
    PROVE  /\ Starts(t, Append(s, a)) <=> Starts(t, s) \/ t = Append(s, a)
           /\ Starts(t, t)
           /\ Starts(t, <<>>) => t = <<>>
<1>1. PICK u : u = Append(s, a)
  OBVIOUS
<1>2. /\ u \in Seq(T) /\ Len(u) = Len(s) + 1 /\ u[Len(s) + 1] = a
      /\ \A i \in 1 .. Len(s) : u[i] = s[i]
  BY <1>1, AppendProperties
<1>3. Len(s) \in Nat /\ Len(t) \in Nat /\ Len(<<>>) = 0
  OBVIOUS
<1>4. ASSUME Starts(t, s) PROVE Starts(t, u)
  BY <1>2, <1>3, <1>4 DEF Starts
<1>5. ASSUME Starts(t, u), Len(t) <= Len(s) PROVE Starts(t, s)
  BY <1>2, <1>3, <1>5 DEF Starts
<1>6. ASSUME Starts(t, u), ~(Len(t) <= Len(s)) PROVE t = u
  <2>1. Len(t) = Len(u)
    BY <1>2, <1>3, <1>6 DEF Starts
  <2>2. \A i \in 1 .. Len(t) : t[i] = u[i]
    BY <1>6 DEF Starts
  <2> QED BY <1>2, <2>1, <2>2, SeqEqual
<1>7. Starts(t, t)
  BY <1>3 DEF Starts
<1>8. Starts(t, <<>>) => t = <<>>
  BY <1>3, EmptySeq DEF Starts
<1> QED BY <1>1, <1>4, <1>5, <1>6, <1>7, <1>8

(* The path d with what s adds to its start t, as Mv has it.               *)
Moved(d, t, s) == d \o SubSeq(s, Len(t) + 1, Len(s))

LEMMA MovedSelf ==
    ASSUME NEW T, NEW d \in Seq(T), NEW t \in Seq(T)
    PROVE  Moved(d, t, t) = d
<1>1. SubSeq(t, Len(t) + 1, Len(t)) = <<>>
  <2>1. Len(t) \in Int /\ Len(t) + 1 \in Int /\ Len(t) < Len(t) + 1
    OBVIOUS
  <2> QED BY <2>1, SubSeqEmpty
<1> QED BY <1>1, ConcatEmptySeq DEF Moved

LEMMA MovedAppend ==
    ASSUME NEW T, NEW d \in Seq(T), NEW t \in Seq(T), NEW s \in Seq(T), NEW a \in T,
           Starts(t, s)
    PROVE  Moved(d, t, Append(s, a)) = Append(Moved(d, t, s), a)
<1>1. PICK u, m, n, k : /\ u = Append(s, a) /\ m = Len(t) + 1 /\ n = Len(s)
                        /\ k = Len(s) + 1
  OBVIOUS
<1>2. /\ u \in Seq(T) /\ Len(u) = k /\ u[k] = a /\ \A i \in 1 .. n : u[i] = s[i]
      /\ n \in Nat /\ m \in Nat /\ m >= 1 /\ m <= k /\ k = n + 1
  <2>1. Len(t) \in Nat /\ Len(s) \in Nat /\ Len(t) <= Len(s)
    BY DEF Starts
  <2> QED BY <1>1, <2>1, AppendProperties
<1>3. SubSeq(u, m, k) = SubSeq(u, m, n) \o <<u[k]>>
  <2>1. m \in 1 .. Len(u) /\ k \in m .. Len(u) /\ k - 1 = n
    BY <1>2
  <2> QED BY <1>2, <2>1, SubSeqRecursiveSecond
<1>4. PICK x, y : x = SubSeq(u, m, n) /\ y = SubSeq(s, m, n)
  OBVIOUS
<1>5. \A i \in m .. n : u[i] = s[i] /\ u[i] \in T /\ s[i] \in T
  BY <1>1, <1>2
<1>6. /\ x \in Seq(T) /\ Len(x) = (IF m <= n THEN n - m + 1 ELSE 0)
      /\ \A i \in 1 .. n - m + 1 : x[i] = u[m + i - 1]
  BY <1>2, <1>4, <1>5, SubSeqProperties
<1>7. /\ y \in Seq(T) /\ Len(y) = (IF m <= n THEN n - m + 1 ELSE 0)
      /\ \A i \in 1 .. n - m + 1 : y[i] = s[m + i - 1]
  BY <1>2, <1>4, <1>5, SubSeqProperties
<1>8. x = y
  <2>1. Len(x) = n - m + 1
    BY <1>2, <1>6
  <2>2. \A i \in 1 .. Len(x) : x[i] = y[i]
    BY <1>2, <1>5, <1>6, <1>7, <2>1
  <2> QED BY <1>6, <1>7, <2>2, SeqEqual
<1>9. Moved(d, t, Append(s, a)) = d \o (y \o <<a>>)
  BY <1>1, <1>2, <1>3, <1>4, <1>8 DEF Moved
<1>10. Append(Moved(d, t, s), a) = (d \o y) \o <<a>>
  <2>1. Moved(d, t, s) = d \o y
    BY <1>1, <1>4 DEF Moved
  <2>2. PICK e : e = d \o y
    OBVIOUS
  <2>3. e \in Seq(T)
    BY <1>7, <2>2, ConcatProperties
  <2>4. Append(e, a) = e \o <<a>>
    BY <2>3, AppendIsConcat
  <2>5. Moved(d, t, s) = e
    BY <2>1, <2>2
  <2> QED BY <2>2, <2>4, <2>5, Zenon
<1>11. <<a>> \in Seq(T)
  OBVIOUS
<1>12. (d \o y) \o <<a>> = d \o (y \o <<a>>)
  <2>1. PICK b : b = <<a>>
    OBVIOUS
  <2>2. d \in Seq(T) /\ y \in Seq(T) /\ b \in Seq(T)
    BY <1>7, <1>11, <2>1
  <2>3. (d \o y) \o b = d \o (y \o b)
    BY <2>2, ConcatAssociative, SMTT(30)
  <2> QED BY <2>1, <2>3
<1> QED BY <1>9, <1>10, <1>12

LEMMA FrontAppend ==
    ASSUME NEW T, NEW s \in Seq(T), NEW a \in T
    PROVE  Abstract!Front(Append(s, a)) = s
<1>1. PICK u, n : u = Append(s, a) /\ n = Len(s)
  OBVIOUS
<1>2. /\ u \in Seq(T) /\ Len(u) = n + 1 /\ n \in Nat
      /\ \A i \in 1 .. n : u[i] = s[i]
  BY <1>1, AppendProperties
<1>3. /\ SubSeq(u, 1, n) \in Seq(T)
      /\ Len(SubSeq(u, 1, n)) = IF 1 <= n THEN n - 1 + 1 ELSE 0
      /\ \A i \in 1 .. n - 1 + 1 : SubSeq(u, 1, n)[i] = u[1 + i - 1]
  <2>1. \A i \in 1 .. n : u[i] \in T
    BY <1>1, <1>2
  <2> QED BY <1>2, <2>1, SubSeqProperties
<1>4. PICK v : v = SubSeq(u, 1, n)
  OBVIOUS
<1>5. v \in Seq(T) /\ Len(v) = Len(s) /\ \A i \in 1 .. Len(s) : v[i] = s[i]
  BY <1>1, <1>2, <1>3, <1>4
<1>6. v = s
  BY <1>5, SeqEqual
<1>7. (n + 1) - 1 = n
  BY <1>2
<1> QED BY <1>1, <1>2, <1>4, <1>6, <1>7 DEF Abstract!Front

-----------------------------------------------------------------------------
(* Paths of nodes.                                                         *)

(* From each node of X the parents f lead out of X.                        *)
Grounded(X, f) ==
    /\ X \in SUBSET Nodes
    /\ \A m \in X : f[m] \in Nodes
    /\ \A S \in SUBSET X : (\A s \in S : f[s] \in S) => S = {}

(* What the recursive definition of PathOf says, W being all nodes.        *)
PathsOn(P, W, X, f, g, T) ==
    /\ P \in [W -> Seq(T)]
    /\ \A n \in W : P[n] = IF n \in X THEN Append(P[f[n]], g[n]) ELSE <<>>

(* The nodes whose parents are settled can be settled, one after another:  *)
(* a largest set of nodes with paths is all of them.                       *)
LEMMA PathsExist ==
    ASSUME NEW X, NEW f, Grounded(X, f), NEW T, NEW g, \A n \in X : g[n] \in T
    PROVE  \E P : PathsOn(P, Nodes, X, f, g, T)
<1> DEFINE Good == {W \in SUBSET Nodes : /\ \A n \in W \cap X : f[n] \in W
                                         /\ \E P : PathsOn(P, W, X, f, g, T)}
           Sizes0 == {MaxNodes - Cardinality(W) : W \in Good}
<1>1. IsFiniteSet(Nodes) /\ Cardinality(Nodes) = MaxNodes
  BY CountNodes
<1>2. \A W \in SUBSET Nodes : /\ IsFiniteSet(W) /\ Cardinality(W) \in Nat
                              /\ Cardinality(W) <= MaxNodes
  BY <1>1, FS_Subset, FS_CardinalityType
<1>3. Sizes0 \subseteq Nat
  <2>1. \A W \in Good : W \in SUBSET Nodes
    OBVIOUS
  <2>2. \A W \in SUBSET Nodes : MaxNodes - Cardinality(W) \in Nat
    BY <1>2
  <2> HIDE DEF Good
  <2> QED BY <2>1, <2>2
<1>4. Sizes0 # {}
  <2>1. {} \in Good
    <3>1. PathsOn([n \in {} |-> <<>>], {}, X, f, g, T)
      BY DEF PathsOn
    <3> QED BY <3>1
  <2> HIDE DEF Good
  <2> QED BY <2>1
<1>5. PICK z \in Sizes0 : \A y \in Sizes0 : z <= y
  <2> HIDE DEF Sizes0
  <2> QED BY <1>3, <1>4, LeastExists
<1>6. PICK W \in Good : z = MaxNodes - Cardinality(W)
  OBVIOUS
<1>7. W \in SUBSET Nodes /\ \A n \in W \cap X : f[n] \in W
  OBVIOUS
<1>8. PICK P : PathsOn(P, W, X, f, g, T)
  OBVIOUS
<1>9. ASSUME W # Nodes PROVE FALSE
  <2>1. PICK n \in Nodes \ W : n \in X => f[n] \in W
    <3>1. PICK S : S = Nodes \ W
      OBVIOUS
    <3>2. S # {}
      BY <1>7, <1>9, <3>1
    <3>3. CASE S \subseteq X
      <4>1. PICK s \in S : f[s] \notin S
        BY <3>2, <3>3 DEF Grounded
      <4>2. f[s] \in Nodes
        BY <3>3 DEF Grounded
      <4> QED BY <3>1, <4>1, <4>2
    <3>4. CASE ~(S \subseteq X)
      BY <3>1, <3>4
    <3> QED BY <3>3, <3>4
  <2> DEFINE V == W \cup {n}
             Q == [m \in V |-> IF m \in W THEN P[m]
                               ELSE IF n \in X THEN Append(P[f[n]], g[n]) ELSE <<>>]
  <2>2. \A m \in W : Q[m] = P[m] /\ P[m] \in Seq(T)
    BY <1>8 DEF PathsOn
  <2>3. Q[n] = (IF n \in X THEN Append(P[f[n]], g[n]) ELSE <<>>) /\ Q[n] \in Seq(T)
    <3>1. Q[n] = IF n \in X THEN Append(P[f[n]], g[n]) ELSE <<>>
      BY <2>1
    <3>2. CASE n \in X
      <4>1. P[f[n]] \in Seq(T) /\ g[n] \in T
        BY <2>1, <2>2, <3>2
      <4>2. Append(P[f[n]], g[n]) \in Seq(T)
        BY <4>1, AppendProperties
      <4> HIDE DEF Q
      <4> QED BY <3>1, <3>2, <4>2
    <3>3. CASE n \notin X
      <4> HIDE DEF Q
      <4> QED BY <3>1, <3>3
    <3> QED BY <3>2, <3>3
  <2>4. Q \in [V -> Seq(T)]
    <3>1. Q = [m \in V |-> Q[m]]
      OBVIOUS
    <3> HIDE DEF Q
    <3> QED BY <2>2, <2>3, <3>1
  <2>5. \A m \in V \cap X : f[m] \in W
    BY <1>7, <2>1
  <2>6. \A m \in V : Q[m] = IF m \in X THEN Append(Q[f[m]], g[m]) ELSE <<>>
    <3> SUFFICES ASSUME NEW m \in V
        PROVE  Q[m] = IF m \in X THEN Append(Q[f[m]], g[m]) ELSE <<>>
      OBVIOUS
    <3>1. m \in X => Q[f[m]] = P[f[m]]
      BY <2>2, <2>5
    <3>2. CASE m \in W
      <4>1. P[m] = IF m \in X THEN Append(P[f[m]], g[m]) ELSE <<>>
        BY <1>8, <3>2 DEF PathsOn
      <4> HIDE DEF Q
      <4> QED BY <2>2, <3>1, <3>2, <4>1
    <3>3. CASE m = n
      <4> HIDE DEF Q
      <4> QED BY <2>3, <3>1, <3>3
    <3> QED BY <3>2, <3>3
  <2>7. PathsOn(Q, V, X, f, g, T)
    <3> HIDE DEF Q, V
    <3> QED BY <2>4, <2>6 DEF PathsOn
  <2>8. V \in Good
    <3>1. V \in SUBSET Nodes /\ \A m \in V \cap X : f[m] \in V
      BY <1>7, <2>1, <2>5
    <3> HIDE DEF V, Q
    <3> QED BY <2>7, <3>1
  <2>9. Cardinality(V) = Cardinality(W) + 1
    BY <1>2, <1>7, <2>1, FS_AddElement
  <2>10. z <= MaxNodes - Cardinality(V)
    <3>1. MaxNodes - Cardinality(V) \in Sizes0
      <4> HIDE DEF V, Good
      <4> QED BY <2>8
    <3> HIDE DEF Sizes0
    <3> QED BY <1>5, <3>1
  <2> HIDE DEF V, Good, Sizes0
  <2>11. Cardinality(W) \in Nat
    BY <1>2, <1>7
  <2> QED BY <1>6, <2>9, <2>10, <2>11
<1> QED BY <1>8, <1>9

(* There is one such function.                                             *)
LEMMA PathsUnique ==
    ASSUME NEW X, NEW f, Grounded(X, f), NEW g, NEW P, NEW Q,
           \A n \in Nodes : P[n] = IF n \in X THEN Append(P[f[n]], g[n]) ELSE <<>>,
           \A n \in Nodes : Q[n] = IF n \in X THEN Append(Q[f[n]], g[n]) ELSE <<>>
    PROVE  \A n \in Nodes : P[n] = Q[n]
<1>1. PICK S : S = {n \in Nodes : P[n] # Q[n]}
  OBVIOUS
<1>2. S \in SUBSET X
  BY <1>1 DEF Grounded
<1>3. \A s \in S : f[s] \in S
  <2> SUFFICES ASSUME NEW s \in S, f[s] \notin S PROVE FALSE
    OBVIOUS
  <2>1. s \in X /\ f[s] \in Nodes /\ s \in Nodes
    BY <1>1, <1>2 DEF Grounded
  <2>2. P[f[s]] = Q[f[s]]
    BY <1>1, <2>1
  <2>3. P[s] = Q[s]
    BY <2>1, <2>2
  <2> QED BY <1>1, <2>3
<1>4. S = {}
  BY <1>2, <1>3 DEF Grounded
<1> QED BY <1>1, <1>4

(* The recursive definitions of PathOf and Rooted, of any links.           *)
PathBy(u, f, g) ==
    CHOOSE P : P = [n \in Nodes |-> IF n = 0 \/ ~u[n] THEN <<>>
                                    ELSE Append(P[f[n]], g[n])]
RootedBy(u, f) ==
    CHOOSE R : R = [n \in Nodes |-> u[n] /\ (n = 0 \/ R[f[n]])]

LEMMA PathByIs ==
    ASSUME NEW u, NEW U, \A n \in Nodes : n \in U <=> u[n], NEW f, Grounded(U \ {0}, f),
           NEW T, NEW g, \A n \in U \ {0} : g[n] \in T
    PROVE  PathsOn(PathBy(u, f, g), Nodes, U \ {0}, f, g, T)
<1> DEFINE Body(P) == [n \in Nodes |-> IF n = 0 \/ ~u[n] THEN <<>>
                                       ELSE Append(P[f[n]], g[n])]
<1>1. PICK X : X = U \ {0}
  OBVIOUS
<1>2. Grounded(X, f) /\ \A n \in X : g[n] \in T
  BY <1>1
<1>3. PICK P : PathsOn(P, Nodes, X, f, g, T)
  BY <1>2, PathsExist
<1>4. \A n \in Nodes : (n = 0 \/ ~u[n]) <=> n \notin X
  BY <1>1
<1>5. P = Body(P)
  BY <1>3, <1>4 DEF PathsOn
<1>6. PICK Q : Q = PathBy(u, f, g)
  OBVIOUS
<1>7. Q = Body(Q)
  <2>1. Q = CHOOSE R : R = Body(R)
    BY <1>6 DEF PathBy
  <2> HIDE DEF Body
  <2> QED BY <1>5, <2>1
<1>8. \A n \in Nodes : Q[n] = IF n \in X THEN Append(Q[f[n]], g[n]) ELSE <<>>
  <2>1. \A n \in Nodes : Q[n] = Body(Q)[n]
    <3> HIDE DEF Body
    <3> QED BY <1>7
  <2> QED BY <1>4, <2>1
<1>9. \A n \in Nodes : P[n] = IF n \in X THEN Append(P[f[n]], g[n]) ELSE <<>>
  BY <1>3 DEF PathsOn
<1>10. \A n \in Nodes : P[n] = Q[n]
  BY <1>2, <1>8, <1>9, PathsUnique
<1>11. Q \in [Nodes -> Seq(T)]
  <2>1. Q = [n \in Nodes |-> Q[n]]
    BY <1>7
  <2>2. \A n \in Nodes : Q[n] \in Seq(T)
    BY <1>3, <1>10 DEF PathsOn
  <2> HIDE DEF Body
  <2> QED BY <2>1, <2>2
<1> QED BY <1>1, <1>6, <1>8, <1>11 DEF PathsOn

(* U is the set of the nodes that the flags u mark.                        *)
Marked(U, u) == \A n \in Nodes : n \in U <=> u[n]

(* W are the nodes from which the parents f lead to the root within U.     *)
Leading(W, U, f) ==
    /\ W \in SUBSET Nodes
    /\ \A n \in Nodes : n \in W <=> n \in U /\ (n = 0 \/ f[n] \in W)

LEMMA RootedByIs ==
    ASSUME NEW u, NEW U, Marked(U, u), NEW f, Grounded(U \ {0}, f),
           NEW W, Leading(W, U, f)
    PROVE  Marked(W, RootedBy(u, f))
<1> USE DEF Marked, Leading
<1> DEFINE Body(R) == [n \in Nodes |-> u[n] /\ (n = 0 \/ R[f[n]])]
<1>1. PICK R0 : R0 = [n \in Nodes |-> n \in W]
  OBVIOUS
<1>2. R0 = Body(R0)
  <2>1. \A n \in Nodes : R0[n] = (u[n] /\ (n = 0 \/ R0[f[n]]))
    <3> SUFFICES ASSUME NEW n \in Nodes PROVE R0[n] = (u[n] /\ (n = 0 \/ R0[f[n]]))
      OBVIOUS
    <3>1. R0[n] = (n \in W) /\ (n \in U <=> u[n])
      BY <1>1
    <3>2. n \in U \ {0} => f[n] \in Nodes
      BY DEF Grounded
    <3>3. n \in U \ {0} => R0[f[n]] = (f[n] \in W)
      BY <1>1, <3>2
    <3>4. n \in W <=> u[n] /\ (n = 0 \/ f[n] \in W)
      BY <3>1
    <3>5. CASE n \in U \ {0}
      <4>1. (n \in W) = (u[n] /\ (n = 0 \/ f[n] \in W))
        BY <3>4, SMT
      <4> QED BY <3>1, <3>3, <3>5, <4>1, Zenon
    <3>6. CASE n \notin U \ {0}
      <4>1. (n \in W) = (u[n] /\ (n = 0 \/ R0[f[n]]))
        BY <3>1, <3>4, <3>6
      <4> QED BY <3>1, <4>1, Zenon
    <3> QED BY <3>5, <3>6
  <2> QED BY <1>1, <2>1
<1>3. PICK R : R = RootedBy(u, f)
  OBVIOUS
<1>4. R = Body(R)
  <2>1. R = CHOOSE Q : Q = Body(Q)
    BY <1>3 DEF RootedBy
  <2> HIDE DEF Body
  <2> QED BY <1>2, <2>1
<1>5. \A n \in Nodes : R[n] = (u[n] /\ (n = 0 \/ R[f[n]]))
  <2>1. \A n \in Nodes : R[n] = Body(R)[n]
    <3> HIDE DEF Body
    <3> QED BY <1>4
  <2> QED BY <2>1
<1>6. PICK S : S = {n \in Nodes : R[n] # R0[n]}
  OBVIOUS
<1>7. \A n \in Nodes : R0[n] = (u[n] /\ (n = 0 \/ R0[f[n]]))
  <2>1. \A n \in Nodes : R0[n] = Body(R0)[n]
    <3> HIDE DEF Body
    <3> QED BY <1>2
  <2> QED BY <2>1
<1>8. S \in SUBSET (U \ {0})
  <2> SUFFICES ASSUME NEW n \in S PROVE n \in U \ {0}
    OBVIOUS
  <2>1. n \in Nodes /\ R[n] # R0[n]
    BY <1>6
  <2> QED BY <1>5, <1>7, <2>1
<1>9. \A s \in S : f[s] \in S
  <2> SUFFICES ASSUME NEW s \in S, f[s] \notin S PROVE FALSE
    OBVIOUS
  <2>1. s \in Nodes /\ f[s] \in Nodes /\ R[s] # R0[s]
    BY <1>6, <1>8 DEF Grounded
  <2>2. R[f[s]] = R0[f[s]]
    BY <1>6, <2>1
  <2> QED BY <1>5, <1>7, <2>1, <2>2
<1>10. S = {}
  BY <1>8, <1>9 DEF Grounded
<1>11. \A n \in Nodes : R[n] = (n \in W)
  BY <1>1, <1>6, <1>10
<1> QED BY <1>3, <1>11

-----------------------------------------------------------------------------
(* The tree that the nodes stand for.                                      *)

Labels == Names \cup {""}

(* The nodes of U hang below the root by the parents f, with names g that  *)
(* tell siblings apart, and P is their paths.                              *)
Labelled(P, U, f, g) ==
    /\ 0 \in U /\ Grounded(U \ {0}, f)
    /\ \A m \in U \ {0} : f[m] \in U /\ g[m] \in Names
    /\ \A m, n \in U \ {0} : f[m] = f[n] /\ g[m] = g[n] => m = n
    /\ PathsOn(P, Nodes, U \ {0}, f, g, Labels)

LEMMA LabelledPaths ==
    ASSUME NEW P, NEW U, NEW f, NEW g, Labelled(P, U, f, g)
    PROVE  /\ P[0] = <<>>
           /\ \A m \in U : P[m] \in Seq(Labels)
           /\ \A m \in U \ {0} : /\ P[m] = Append(P[f[m]], g[m]) /\ P[m] # <<>>
                                 /\ f[m] \in U /\ g[m] \in Labels
<1>1. U \subseteq Nodes /\ 0 \in U
  BY DEF Labelled, Grounded, Nodes
<1>2. P[0] = <<>> /\ \A m \in U : P[m] \in Seq(Labels)
  BY <1>1 DEF Labelled, PathsOn
<1>3. ASSUME NEW m \in U \ {0}
      PROVE  /\ P[m] = Append(P[f[m]], g[m]) /\ P[m] # <<>>
             /\ f[m] \in U /\ g[m] \in Labels
  <2>1. P[m] = Append(P[f[m]], g[m]) /\ f[m] \in U /\ g[m] \in Labels
    BY <1>1 DEF Labelled, PathsOn, Labels
  <2>2. P[f[m]] \in Seq(Labels)
    BY <1>2, <2>1
  <2>3. Append(P[f[m]], g[m]) # <<>>
    BY <2>1, <2>2, AppendProperties
  <2> QED BY <2>1, <2>3
<1> QED BY <1>2, <1>3

(* Different nodes have different paths.                                   *)
LEMMA PathsDiffer ==
    ASSUME NEW P, NEW U, NEW f, NEW g, Labelled(P, U, f, g)
    PROVE  \A m, n \in U : P[m] = P[n] => m = n
<1>1. PICK S : S = {m \in U \ {0} : \E n \in U : P[m] = P[n] /\ m # n}
  OBVIOUS
<1>2. \A s \in S : f[s] \in S
  <2> SUFFICES ASSUME NEW m \in S PROVE f[m] \in S
    OBVIOUS
  <2>1. m \in U \ {0}
    BY <1>1
  <2>2. PICK n \in U : P[m] = P[n] /\ m # n
    BY <1>1
  <2>3. n # 0
    BY <2>1, <2>2, LabelledPaths
  <2>4. /\ P[m] = Append(P[f[m]], g[m]) /\ P[n] = Append(P[f[n]], g[n])
        /\ f[m] \in U /\ f[n] \in U /\ g[m] \in Labels /\ g[n] \in Labels
    BY <2>1, <2>3, LabelledPaths
  <2>5. P[f[m]] \in Seq(Labels) /\ P[f[n]] \in Seq(Labels)
    BY <2>4, LabelledPaths
  <2>6. P[f[m]] = P[f[n]] /\ g[m] = g[n]
    <3>1. PICK s, t, a, b : s = P[f[m]] /\ t = P[f[n]] /\ a = g[m] /\ b = g[n]
      OBVIOUS
    <3>2. /\ s \in Seq(Labels) /\ t \in Seq(Labels) /\ a \in Labels /\ b \in Labels
          /\ Append(s, a) = Append(t, b)
      BY <2>2, <2>4, <2>5, <3>1
    <3>3. s = t /\ a = b
      BY <3>2, AppendInjective
    <3> QED BY <3>1, <3>3
  <2>7. f[m] # f[n]
    BY <2>1, <2>2, <2>3, <2>6 DEF Labelled
  <2>8. f[m] # 0
    <3> SUFFICES ASSUME f[m] = 0 PROVE FALSE
      OBVIOUS
    <3>1. f[n] \in U \ {0} /\ P[f[n]] = <<>>
      BY <2>4, <2>6, <2>7, LabelledPaths
    <3> QED BY <3>1, LabelledPaths
  <2> QED BY <1>1, <2>4, <2>6, <2>7, <2>8
<1>3. S \in SUBSET (U \ {0})
  BY <1>1
<1>4. S = {}
  BY <1>2, <1>3 DEF Labelled, Grounded
<1>5. \A n \in U : n # 0 => P[n] # P[0]
  BY LabelledPaths
<1> QED BY <1>1, <1>4, <1>5

(* The nodes whose paths start with the path of n are n and those below.   *)
LEMMA BelowNode ==
    ASSUME NEW P, NEW U, NEW f, NEW g, Labelled(P, U, f, g), NEW n \in U \ {0}
    PROVE  /\ Starts(P[n], P[n]) /\ ~Starts(P[n], P[0])
           /\ \A m \in U \ {0, n} : Starts(P[n], P[m]) <=> Starts(P[n], P[f[m]])
<1>1. P[n] \in Seq(Labels) /\ P[n] # <<>> /\ P[0] = <<>>
  BY LabelledPaths
<1>2. Starts(P[n], P[n]) /\ ~Starts(P[n], P[0])
  <2>1. PICK t : t = P[n]
    OBVIOUS
  <2>2. f[n] \in U /\ g[n] \in Labels
    BY LabelledPaths
  <2>3. P[f[n]] \in Seq(Labels)
    BY <2>2, LabelledPaths
  <2>4. Starts(t, t) /\ (Starts(t, <<>>) => t = <<>>)
    BY <1>1, <2>1, <2>2, <2>3, StartsAppend
  <2> QED BY <1>1, <2>1, <2>4
<1>3. ASSUME NEW m \in U \ {0, n}
      PROVE  Starts(P[n], P[m]) <=> Starts(P[n], P[f[m]])
  <2>1. P[m] = Append(P[f[m]], g[m]) /\ f[m] \in U /\ g[m] \in Labels
    BY LabelledPaths
  <2>2. PICK s, a, t : s = P[f[m]] /\ a = g[m] /\ t = P[n]
    OBVIOUS
  <2>3. s \in Seq(Labels) /\ a \in Labels /\ t \in Seq(Labels)
    BY <1>1, <2>1, <2>2, LabelledPaths
  <2>4. Starts(t, Append(s, a)) <=> Starts(t, s) \/ t = Append(s, a)
    BY <2>3, StartsAppend
  <2>5. P[n] # P[m]
    BY PathsDiffer
  <2> QED BY <2>1, <2>2, <2>4, <2>5
<1> QED BY <1>2, <1>3

(* Nodes that keep parent and name keep their paths.                       *)
Follows(P, U, f, g) ==
    P[0] = <<>> /\ \A m \in U \ {0} : P[m] = Append(P[f[m]], g[m])

LEMMA PathsAgree ==
    ASSUME NEW U, NEW f, Grounded(U \ {0}, f), \A m \in U \ {0} : f[m] \in U,
           NEW g, NEW P, NEW Q, Follows(P, U, f, g), Follows(Q, U, f, g)
    PROVE  \A m \in U : P[m] = Q[m]
<1> USE DEF Follows
<1>1. PICK S : S = {m \in U \ {0} : P[m] # Q[m]}
  OBVIOUS
<1>2. S \in SUBSET (U \ {0})
  BY <1>1
<1>3. \A s \in S : f[s] \in S
  <2> SUFFICES ASSUME NEW s \in S, f[s] \notin S PROVE FALSE
    OBVIOUS
  <2>1. s \in U \ {0} /\ f[s] \in U /\ P[s] # Q[s]
    BY <1>1
  <2>2. P[f[s]] = Q[f[s]]
    BY <1>1, <2>1
  <2> QED BY <2>1, <2>2
<1>4. S = {}
  BY <1>2, <1>3 DEF Grounded
<1> QED BY <1>1, <1>4

Named == \A n \in InUse \ {0} : name[n] \in Names

(* The paths and entries of any nodes in use that form a tree.             *)
LEMMA View ==
    ASSUME NEW u, NEW U, Marked(U, u),
           NEW f, Links(f), Upwards(U, f),
           NEW g, \A n \in U \ {0} : g[n] \in Names,
           \A m, n \in U \ {0} : f[m] = f[n] /\ g[m] = g[n] => m = n
    PROVE  /\ Labelled(PathBy(u, f, g), U, f, g)
           /\ Marked(U, RootedBy(u, f))
<1> USE NullApart
<1>1. U \in SUBSET Nodes /\ 0 \in U /\ \A m \in U \ {0} : f[m] \in U
  BY DEF Upwards
<1>2. Grounded(U \ {0}, f)
  <2>1. U \ {0} \in SUBSET Nodes /\ \A m \in U \ {0} : f[m] \in Nodes
    BY <1>1
  <2>2. ASSUME NEW S \in SUBSET (U \ {0}), \A s \in S : f[s] \in S PROVE S = {}
    <3>1. S \in SUBSET (Nodes \ {0})
      BY <1>1
    <3> QED BY <2>2, <3>1 DEF Upwards
  <2> QED BY <2>1, <2>2 DEF Grounded
<1>3. \A n \in U \ {0} : g[n] \in Labels
  BY DEF Labels
<1>4. PathsOn(PathBy(u, f, g), Nodes, U \ {0}, f, g, Labels)
  BY <1>2, <1>3, PathByIs DEF Marked
<1>5. Leading(U, U, f)
  BY <1>1 DEF Leading
<1>6. Marked(U, RootedBy(u, f))
  BY <1>2, <1>5, RootedByIs
<1> QED BY <1>1, <1>2, <1>4, <1>6 DEF Labelled

(* The entries E are the paths P and the contents V of the nodes U.        *)
EntriesAre(E, P, V, U) == E = {<<P[m], V[m]>> : m \in U}
PathsIn(E) == {e[1] : e \in E}

LEMMA PathsInAre ==
    ASSUME NEW E, NEW P, NEW V, NEW U, EntriesAre(E, P, V, U)
    PROVE  \A x : x \in PathsIn(E) <=> \E m \in U : x = P[m]
<1> SUFFICES ASSUME NEW x PROVE x \in PathsIn(E) <=> \E m \in U : x = P[m]
  OBVIOUS
<1>1. ASSUME NEW e \in E, x = e[1] PROVE \E m \in U : x = P[m]
  <2>1. PICK m \in U : e = <<P[m], V[m]>>
    BY DEF EntriesAre
  <2> QED BY <1>1, <2>1
<1>2. ASSUME NEW m \in U, x = P[m] PROVE \E e \in E : x = e[1]
  <2>1. <<P[m], V[m]>> \in E /\ <<P[m], V[m]>>[1] = x
    BY <1>2 DEF EntriesAre
  <2> QED BY <2>1
<1> QED BY <1>1, <1>2 DEF PathsIn

Values == [m \in Nodes |-> Value(m)]

LEMMA ViewNow ==
    ASSUME TypeOK, TreeInv, Named
    PROVE  /\ Labelled(PathOf, InUse, parent, name)
           /\ Entries = {<<PathOf[m], Values[m]>> : m \in InUse}
           /\ \A y : y \in Abstract!Paths <=> \E m \in InUse : y = PathOf[m]
<1>1. PICK u, U, f, g : u = used /\ U = InUse /\ f = parent /\ g = name
  OBVIOUS
<1>2. Marked(U, u) /\ Links(f) /\ Upwards(U, f)
  BY <1>1, LinksHold DEF Marked, InUse, TreeInv
<1>3. /\ \A n \in U \ {0} : g[n] \in Names
      /\ \A m, n \in U \ {0} : f[m] = f[n] /\ g[m] = g[n] => m = n
  BY <1>1 DEF Named, TreeInv
<1>4. /\ Labelled(PathBy(u, f, g), U, f, g)
      /\ Marked(U, RootedBy(u, f))
  BY <1>2, <1>3, View
<1>5. PathOf = PathBy(u, f, g)
  BY <1>1 DEF PathOf, PathBy
<1>6. {n \in Nodes : Rooted[n]} = U
  <2>1. Rooted = RootedBy(u, f)
    BY <1>1 DEF Rooted, RootedBy
  <2>2. U \subseteq Nodes
    BY <1>2 DEF Upwards
  <2> QED BY <1>4, <2>1, <2>2 DEF Marked
<1>7. EntriesAre(Entries, PathOf, Values, U)
  <2>1. Entries = {<<PathOf[m], Value(m)>> : m \in U}
    BY <1>6 DEF Entries
  <2>2. \A m \in U : Value(m) = Values[m]
    BY <1>2 DEF Values, Upwards
  <2> QED BY <2>1, <2>2 DEF EntriesAre
<1>8. \A y : y \in Abstract!Paths <=> \E m \in U : y = PathOf[m]
  <2>1. PICK E, P, V : E = Entries /\ P = PathOf /\ V = Values
    OBVIOUS
  <2>2. EntriesAre(E, P, V, U)
    BY <1>7, <2>1
  <2>3. Abstract!Paths = PathsIn(E)
    BY <2>1 DEF Abstract!Paths, PathsIn
  <2> QED BY <2>1, <2>2, <2>3, PathsInAre
<1> QED BY <1>1, <1>4, <1>5, <1>7, <1>8 DEF EntriesAre

LEMMA ViewNext ==
    ASSUME TypeOK', TreeInv', Named'
    PROVE  /\ Labelled(PathOf', InUse', parent', name')
           /\ Entries' = {<<PathOf'[m], Values'[m]>> : m \in InUse'}
           /\ \A y : y \in Abstract!Paths' <=> \E m \in InUse' : y = PathOf'[m]
<1>1. PICK u, U, f, g : u = used' /\ U = InUse' /\ f = parent' /\ g = name'
  OBVIOUS
<1>2. Marked(U, u) /\ Links(f) /\ Upwards(U, f)
  BY <1>1 DEF Marked, InUse, TreeInv, TypeOK, Links, NodesOrNull
<1>3. /\ \A n \in U \ {0} : g[n] \in Names
      /\ \A m, n \in U \ {0} : f[m] = f[n] /\ g[m] = g[n] => m = n
  BY <1>1 DEF Named, TreeInv
<1>4. /\ Labelled(PathBy(u, f, g), U, f, g)
      /\ Marked(U, RootedBy(u, f))
  BY <1>2, <1>3, View
<1>5. PathOf' = PathBy(u, f, g)
  BY <1>1 DEF PathOf, PathBy
<1>6. {n \in Nodes : Rooted'[n]} = U
  <2>1. Rooted' = RootedBy(u, f)
    BY <1>1 DEF Rooted, RootedBy
  <2>2. U \subseteq Nodes
    BY <1>2 DEF Upwards
  <2> QED BY <1>4, <2>1, <2>2 DEF Marked
<1>7. EntriesAre(Entries', PathOf', Values', U)
  <2>1. Entries' = {<<PathOf'[m], Value(m)'>> : m \in U}
    BY <1>6 DEF Entries
  <2>2. \A m \in U : Value(m)' = Values'[m]
    BY <1>2 DEF Values, Upwards
  <2> QED BY <2>1, <2>2 DEF EntriesAre
<1>8. \A y : y \in Abstract!Paths' <=> \E m \in U : y = PathOf'[m]
  <2>1. PICK E, P, V : E = Entries' /\ P = PathOf' /\ V = Values'
    OBVIOUS
  <2>2. EntriesAre(E, P, V, U)
    BY <1>7, <2>1
  <2>3. Abstract!Paths' = PathsIn(E)
    BY <2>1 DEF Abstract!Paths, PathsIn
  <2> QED BY <2>1, <2>2, <2>3, PathsInAre
<1> QED BY <1>1, <1>4, <1>5, <1>7, <1>8 DEF EntriesAre

(* A new name in a directory is a new path.                                *)
LEMMA NewPath ==
    ASSUME NEW P, NEW U, NEW f, NEW g, Labelled(P, U, f, g),
           NEW p \in U, NEW nm \in Names, \A m \in U \ {0} : f[m] = p => g[m] # nm
    PROVE  \A m \in U : P[m] # Append(P[p], nm)
<1> SUFFICES ASSUME NEW m \in U, P[m] = Append(P[p], nm) PROVE FALSE
  OBVIOUS
<1>1. PICK s, t, a : s = P[f[m]] /\ t = P[p] /\ a = g[m]
  OBVIOUS
<1>2. t \in Seq(Labels) /\ nm \in Labels
  BY <1>1, LabelledPaths DEF Labels
<1>3. Append(t, nm) # <<>>
  BY <1>2, AppendProperties
<1>4. m # 0
  BY <1>1, <1>3, LabelledPaths
<1>5. /\ f[m] \in U /\ a \in Labels /\ s \in Seq(Labels) /\ Append(s, a) = Append(t, nm)
  BY <1>1, <1>4, LabelledPaths
<1>6. s = t /\ a = nm
  BY <1>2, <1>5, AppendInjective
<1>7. f[m] = p
  BY <1>1, <1>5, <1>6, PathsDiffer
<1> QED BY <1>1, <1>4, <1>6, <1>7

-----------------------------------------------------------------------------
(* Each call is a step of FsTree or changes nothing there.                 *)

NotBlank == "" \notin Names

LEMMA BlankApart == NotBlank
BY FsAssumption, Zenon DEF NotBlank

(* A directory or file that add_child makes is a new path.                 *)
LEMMA AddNext ==
    ASSUME TypeOK, TreeInv, Named, TypeOK', TreeInv', Named',
           NEW p \in NodesOrNull, NEW nm \in Names, NEW d \in BOOLEAN,
           NEW sz \in 0 .. MaxFileSize - 1, CanAdd(p, nm), AddChild(p, nm, d, sz), cwd' = cwd
    PROVE  Abstract!Next
<1> USE NullApart
<1>1. PICK n, P, Q, U, U2, f, f2, g, g2 :
        /\ n = Lowest(Unused) /\ P = PathOf /\ Q = PathOf' /\ U = InUse /\ U2 = InUse'
        /\ f = parent /\ f2 = parent' /\ g = name /\ g2 = name'
  OBVIOUS
<1>2. PICK V, V2 : V = Values /\ V2 = Values'
  OBVIOUS
<1>3. n \in Nodes \ {0} /\ n \notin U /\ ~used[n]
  BY <1>1, FreeNode DEF InUse
<1>4. p \in U /\ p \in Nodes /\ p # n /\ isdir[p] /\ FindChild(p, nm) = Null
  BY <1>1, <1>3 DEF CanAdd, InUse, NodesOrNull
<1>5. /\ used' = [used EXCEPT ![n] = TRUE] /\ isdir' = [isdir EXCEPT ![n] = d]
      /\ f2 = [f EXCEPT ![n] = p] /\ g2 = [g EXCEPT ![n] = nm]
      /\ size' = [size EXCEPT ![n] = sz]
  BY <1>1 DEF AddChild
<1>6. /\ U \subseteq Nodes /\ U2 = U \cup {n}
      /\ \A m \in U : f2[m] = f[m] /\ g2[m] = g[m] /\ V2[m] = V[m]
      /\ f2[n] = p /\ g2[n] = nm /\ V2[n] = (IF d THEN -1 ELSE sz) /\ V[p] = -1
  <2>1. U \subseteq Nodes
    BY <1>1 DEF InUse
  <2>2. U2 = U \cup {n}
    <3>1. n \in Nodes /\ used'[n] /\ \A m \in Nodes \ {n} : used'[m] = used[m]
      BY <1>3, <1>5 DEF TypeOK
    <3>2. U = {m \in Nodes : used[m]} /\ U2 = {m \in Nodes : used'[m]}
      BY <1>1 DEF InUse
    <3> QED BY <3>1, <3>2, Zenon
  <2>3. \A m \in U : f2[m] = f[m] /\ g2[m] = g[m] /\ V2[m] = V[m]
    <3> SUFFICES ASSUME NEW m \in U PROVE f2[m] = f[m] /\ g2[m] = g[m] /\ V2[m] = V[m]
      OBVIOUS
    <3>1. m \in Nodes /\ m # n
      BY <1>3, <2>1
    <3>2. f2[m] = f[m] /\ g2[m] = g[m]
      <4>1. DOMAIN f = Nodes /\ DOMAIN g = Nodes
        BY <1>1 DEF TypeOK
      <4> QED BY <1>5, <3>1, <4>1
    <3>3. isdir'[m] = isdir[m]
      <4>1. DOMAIN isdir = Nodes
        BY DEF TypeOK
      <4> QED BY <1>5, <3>1, <4>1
    <3>4. size'[m] = size[m]
      <4>1. DOMAIN size = Nodes
        BY DEF TypeOK
      <4> QED BY <1>5, <3>1, <4>1
    <3>5. V[m] = (IF isdir[m] THEN -1 ELSE size[m])
      BY <1>2, <3>1 DEF Values, Value
    <3>6. V2[m] = (IF isdir'[m] THEN -1 ELSE size'[m])
      BY <1>2, <3>1 DEF Values, Value
    <3> QED BY <3>2, <3>3, <3>4, <3>5, <3>6
  <2>4. f2[n] = p /\ g2[n] = nm
    <3>1. DOMAIN f = Nodes /\ DOMAIN g = Nodes
      BY <1>1 DEF TypeOK
    <3> QED BY <1>3, <1>5, <3>1
  <2>5. V2[n] = IF d THEN -1 ELSE sz
    <3>1. isdir'[n] = d /\ size'[n] = sz
      BY <1>3, <1>5 DEF TypeOK
    <3> QED BY <1>2, <1>3, <3>1 DEF Values, Value
  <2>6. V[p] = -1
    BY <1>2, <1>4 DEF Values, Value
  <2> QED BY <2>1, <2>2, <2>3, <2>4, <2>5, <2>6
<1>7. /\ Labelled(P, U, f, g) /\ Labelled(Q, U2, f2, g2)
      /\ Entries = {<<P[m], V[m]>> : m \in U}
      /\ Entries' = {<<Q[m], V2[m]>> : m \in U2}
  BY <1>1, <1>2, ViewNow, ViewNext
<1>8. PICK x, v : x = Append(P[p], nm) /\ v = IF d THEN -1 ELSE sz
  OBVIOUS
<1>9. /\ \A m \in U : Q[m] = P[m] /\ P[m] # x
      /\ Q[n] = x
  <2>1. \A m \in U : Q[m] = P[m]
    <3>1. Follows(P, U, f, g)
      BY <1>7, LabelledPaths DEF Follows
    <3>2. Q[0] = <<>> /\ \A m \in U2 \ {0} : Q[m] = Append(Q[f2[m]], g2[m])
      BY <1>7, LabelledPaths
    <3>3. Follows(Q, U, f, g)
      BY <1>6, <3>2 DEF Follows
    <3>4. Grounded(U \ {0}, f) /\ \A m \in U \ {0} : f[m] \in U
      BY <1>7 DEF Labelled
    <3> QED BY <3>1, <3>3, <3>4, PathsAgree
  <2>2. \A m \in U \ {0} : f[m] = p => g[m] # nm
    <3>1. \A c \in Kids(p) : name[c] # nm
      BY <1>1, <1>4, NameFree
    <3> QED BY <1>1, <3>1 DEF Kids
  <2>3. \A m \in U : P[m] # x
    BY <1>4, <1>7, <1>8, <2>2, NewPath
  <2>4. Q[n] = Append(Q[p], nm)
    BY <1>3, <1>6, <1>7, LabelledPaths
  <2> QED BY <1>4, <1>8, <2>1, <2>3, <2>4
<1>10. Entries' = Entries \cup {<<x, v>>}
  <2>1. \A m \in U : <<Q[m], V2[m]>> = <<P[m], V[m]>>
    BY <1>6, <1>9
  <2>2. <<Q[n], V2[n]>> = <<x, v>>
    BY <1>6, <1>8, <1>9
  <2>3. {<<Q[m], V2[m]>> : m \in U \cup {n}}
          = {<<P[m], V[m]>> : m \in U} \cup {<<x, v>>}
    BY <2>1, <2>2
  <2> QED BY <1>6, <1>7, <2>3
<1>11. /\ \A y : y \in Abstract!Paths <=> \E m \in U : y = P[m]
       /\ \A y : y \in Abstract!Paths' <=> \E m \in U2 : y = Q[m]
  BY <1>1, <1>2, ViewNow, ViewNext
<1>12. x \in Abstract!Paths' \ Abstract!Paths
  BY <1>6, <1>9, <1>11
<1>13. Abstract!CanAdd(x)
  <2>1. P[p] \in Seq(Labels) /\ nm \in Labels
    BY <1>4, <1>7, LabelledPaths DEF Labels
  <2>2. x # <<>>
    BY <1>8, <2>1, AppendProperties
  <2>3. Abstract!Front(x) = P[p]
    BY <1>8, <2>1, FrontAppend
  <2>4. <<P[p], -1>> \in Entries
    BY <1>4, <1>6, <1>7
  <2> QED
    BY <1>12, <2>2, <2>3, <2>4 DEF Abstract!CanAdd, Abstract!IsDir, Abstract!Root
<1>14. CASE d
  <2>1. Here' = Here \/ (Here = <<"">> /\ Here' = x)
    <3>1. CASE cwd = n
      <4>1. Here = <<"">>
        BY <1>3, <3>1 DEF Here
      <4>2. used'[cwd'] /\ isdir'[cwd']
        BY <1>3, <1>5, <1>14, <3>1 DEF TypeOK
      <4>3. Here' = x
        BY <1>1, <1>9, <3>1, <4>2 DEF Here
      <4> QED BY <4>1, <4>3
    <3>2. CASE cwd # n
      <4>1. cwd \in Nodes /\ used'[cwd] = used[cwd] /\ isdir'[cwd] = isdir[cwd]
        BY <1>5, <3>2 DEF TypeOK
      <4>2. used[cwd] => Q[cwd] = P[cwd]
        BY <1>1, <1>9, <4>1 DEF InUse
      <4> QED BY <1>1, <4>1, <4>2 DEF Here
    <3> QED BY <3>1, <3>2
  <2>2. Abstract!Mkdir(x)
    BY <1>8, <1>10, <1>13, <1>14, <2>1 DEF Abstract!Mkdir
  <2> QED BY <1>12, <2>2 DEF Abstract!Next
<1>15. CASE ~d
  <2>1. Here' = Here
    <3>1. CASE cwd = n
      <4>1. ~used[cwd] /\ ~isdir'[cwd']
        BY <1>3, <1>5, <1>15, <3>1 DEF TypeOK
      <4> QED BY <4>1 DEF Here
    <3>2. CASE cwd # n
      <4>1. cwd \in Nodes /\ used'[cwd] = used[cwd] /\ isdir'[cwd] = isdir[cwd]
        BY <1>5, <3>2 DEF TypeOK
      <4>2. used[cwd] => Q[cwd] = P[cwd]
        BY <1>1, <1>9, <4>1 DEF InUse
      <4> QED BY <1>1, <4>1, <4>2 DEF Here
    <3> QED BY <3>1, <3>2
  <2>2. Entries' = {e \in Entries : e[1] # x} \cup {<<x, v>>}
    BY <1>7, <1>9, <1>10
  <2>3. Abstract!Write(x, sz)
    BY <1>8, <1>13, <1>15, <2>1, <2>2 DEF Abstract!Write
  <2> QED BY <1>12, <2>3 DEF Abstract!Next
<1> QED BY <1>14, <1>15

(* From a node in use a look-up leads to nodes in use.                     *)
LEMMA LooksUpInUse ==
    ASSUME TypeOK, TreeInv, NEW path \in PathInputs, used[Start(path)]
    PROVE  StaysIn(InUse \cup {Null}, path)
<1> USE NullApart
<1>1. PICK U : U = InUse
  OBVIOUS
<1>2. Start(path) \in U
  BY <1>1 DEF Start, InUse, TypeOK
<1>3. ASSUME NEW n \in U, NEW part
      PROVE  Follow(n, part) \in U \cup {Null} /\ FollowDir(n, part) \in U \cup {Null}
  <2>1. n # Null /\ n \in Nodes
    BY <1>1, <1>3 DEF InUse
  <2>2. parent[n] # Null => parent[n] \in U
    BY <1>1, <1>3 DEF TreeInv, Upwards
  <2>3. FindChild(n, part) \in U \cup {Null}
    <3>1. Children(n) \subseteq U
      BY <1>1, <1>3, TreeWalks DEF Kids
    <3>2. PICK C : C = {c \in Children(n) : name[c] = part}
      OBVIOUS
    <3>3. FindChild(n, part) = IF C = {} THEN Null ELSE CHOOSE c \in C : TRUE
      BY <3>2 DEF FindChild
    <3>4. C # {} => (CHOOSE c \in C : TRUE) \in C
      OBVIOUS
    <3> QED BY <3>1, <3>2, <3>3, <3>4
  <2>4. Follow(n, part) \in U \cup {Null}
    BY <1>3, <2>1, <2>2, <2>3 DEF Follow
  <2> QED BY <2>4 DEF FollowDir
<1>4. \A part : Follow(Null, part) = Null /\ FollowDir(Null, part) = Null
  BY DEF Follow, FollowDir
<1>5. \A n \in U \cup {Null} : \A part :
        Follow(n, part) \in U \cup {Null} /\ FollowDir(n, part) \in U \cup {Null}
  BY <1>3, <1>4
<1> QED BY <1>1, <1>2, <1>5 DEF StaysIn

(* A call comes to a node that is not in use only from a current directory *)
(* that has been removed.                                                  *)
LEMMA Reached ==
    ASSUME TypeOK, TreeInv, NEW path \in PathInputs, NEW n \in Nodes, ~used[n],
           n = Resolve(path) \/ n = ParentOf(path)
    PROVE  ~used[cwd]
<1> SUFFICES ASSUME used[cwd] PROVE FALSE
  OBVIOUS
<1>1. used[Start(path)]
  BY DEF Start, TreeInv, Upwards, InUse
<1>2. PICK S : S = InUse \cup {Null}
  OBVIOUS
<1>3. StaysIn(S, path)
  BY <1>1, <1>2, LooksUpInUse
<1>4. n \notin S
  BY <1>2, NullApart DEF InUse
<1>5. Resolve(path) \in S
  BY <1>3, ResolveIn
<1>6. n = ParentOf(path)
  BY <1>4, <1>5
<1>7. path.parts # <<>>
  BY <1>6, NullApart DEF ParentOf
<1>8. ParentOf(path) \in S \cup {Null}
  BY <1>3, <1>7, ParentOfIn
<1> QED BY <1>2, <1>4, <1>6, <1>8

(* The step of FsTree that a step of RamFs is.                             *)
Mapped == Abstract!Next \/ (Entries' = Entries /\ Here' = Here)

(* fs_write_file on a file that exists.                                    *)
LEMMA WriteNext ==
    ASSUME TypeOK, TreeInv, Named, TypeOK', TreeInv', Named',
           NEW n \in Nodes, ~isdir[n], NEW sz \in 0 .. MaxFileSize - 1,
           size' = [size EXCEPT ![n] = sz],
           UNCHANGED <<used, isdir, parent, first, next, name, cwd>>
    PROVE  Mapped
<1> USE NullApart
<1>1. PICK P, U, V, V2 : P = PathOf /\ U = InUse /\ V = Values /\ V2 = Values'
  OBVIOUS
<1>2. PathOf' = P /\ InUse' = U
  BY <1>1 DEF PathOf, InUse
<1>3. /\ Labelled(P, U, parent, name)
      /\ Entries = {<<P[m], V[m]>> : m \in U}
      /\ Entries' = {<<P[m], V2[m]>> : m \in U}
  BY <1>1, <1>2, ViewNow, ViewNext
<1>4. /\ \A m \in Nodes \ {n} : V2[m] = V[m]
      /\ V2[n] = sz
      /\ V[n] # -1
  <2>1. size[n] \in 0 .. MaxFileSize - 1
    BY DEF TypeOK
  <2>2. V[n] # -1
    BY <1>1, <2>1 DEF Values, Value
  <2>3. size'[n] = sz /\ \A m \in Nodes \ {n} : size'[m] = size[m]
    BY DEF TypeOK
  <2> QED BY <1>1, <2>2, <2>3 DEF Values, Value
<1>5. Here' = Here
  BY <1>1, <1>2 DEF Here
<1>6. U \subseteq Nodes
  BY <1>1 DEF InUse
<1>7. CASE n \notin U
  <2>1. \A m \in U : <<P[m], V2[m]>> = <<P[m], V[m]>>
    BY <1>4, <1>6, <1>7
  <2>2. Entries' = Entries
    BY <1>3, <2>1
  <2> QED BY <1>5, <2>2 DEF Mapped
<1>8. CASE n \in U
  <2>1. PICK x : x = P[n]
    OBVIOUS
  <2>2. \A m \in U : P[m] = x => m = n
    BY <1>3, <1>8, <2>1, PathsDiffer
  <2>3. <<x, -1>> \notin Entries
    BY <1>3, <1>4, <2>2
  <2>4. x \in Abstract!Paths
    BY <1>1, <1>8, <2>1, ViewNow
  <2>5. Entries' = {e \in Entries : e[1] # x} \cup {<<x, sz>>}
    <3>1. \A m \in U \ {n} : <<P[m], V2[m]>> = <<P[m], V[m]>> /\ P[m] # x
      BY <1>4, <1>6, <2>2
    <3>2. <<P[n], V2[n]>> = <<x, sz>>
      BY <1>4, <2>1
    <3>3. {e \in Entries : e[1] # x} = {<<P[m], V[m]>> : m \in U \ {n}}
      BY <1>3, <2>1, <3>1
    <3>4. Entries' = {<<P[m], V2[m]>> : m \in U \ {n}} \cup {<<P[n], V2[n]>>}
      BY <1>3, <1>8
    <3>5. {<<P[m], V2[m]>> : m \in U \ {n}} = {<<P[m], V[m]>> : m \in U \ {n}}
      BY <3>1
    <3> QED BY <3>2, <3>3, <3>4, <3>5
  <2>6. Abstract!Write(x, sz)
    BY <1>5, <2>3, <2>4, <2>5 DEF Abstract!Write, Abstract!IsDir
  <2> QED BY <2>4, <2>6 DEF Abstract!Next, Mapped
<1> QED BY <1>7, <1>8

LEMMA CdNext ==
    ASSUME TypeOK, TreeInv, Named, NEW path \in PathInputs, fs_cd(path)
    PROVE  Mapped
<1>1. PICK n : n = Resolve(path)
  OBVIOUS
<1>2. n \in Nodes /\ isdir[n] /\ cwd' = n /\ used' = used /\ isdir' = isdir
  BY <1>1, ResolveType DEF fs_cd, NodesOrNull
<1>3. PathOf' = PathOf /\ Entries' = Entries
  BY DEF fs_cd, PathOf, Entries, Rooted, Value
<1>4. CASE ~used[n]
  <2>1. ~used[cwd]
    BY <1>1, <1>2, <1>4, Reached
  <2>2. Here = <<"">> /\ Here' = <<"">>
    BY <1>2, <1>4, <2>1 DEF Here
  <2> QED BY <1>3, <2>2 DEF Mapped
<1>5. CASE used[n]
  <2>1. PICK x : x = PathOf[n]
    OBVIOUS
  <2>2. n \in InUse /\ Values[n] = -1
    BY <1>2, <1>5 DEF InUse, Values, Value
  <2>3. <<x, -1>> \in Entries /\ x \in Abstract!Paths
    BY <2>1, <2>2, ViewNow
  <2>4. Here' = x
    BY <1>2, <1>3, <1>5, <2>1 DEF Here
  <2>5. Abstract!Cd(x)
    BY <1>3, <2>3, <2>4 DEF Abstract!Cd, Abstract!IsDir
  <2> QED BY <2>3, <2>5 DEF Abstract!Next, Mapped
<1> QED BY <1>4, <1>5

(* The nodes whose paths do not start with that of n.                      *)
Apart(P, U, n) == {m \in U : ~Starts(P[n], P[m])}

(* What fs_rm takes out of the entries, and what a move that strays does.  *)
LEMMA DropBelow ==
    ASSUME NEW P, NEW U, NEW f, NEW g, Labelled(P, U, f, g), NEW n \in U \ {0},
           NEW W, W = Apart(P, U, n), NEW V, NEW E, EntriesAre(E, P, V, U),
           NEW Q, NEW V2, NEW E2, EntriesAre(E2, Q, V2, W),
           \A m \in W : Q[m] = P[m] /\ V2[m] = V[m]
    PROVE  /\ E2 = E \ {e \in E : Abstract!IsPrefix(P[n], e[1])}
           /\ \A m \in W : Q[m] # P[n]
           /\ P[n] # <<>>
<1>1. PICK x : x = P[n]
  OBVIOUS
<1>2. x \in Seq(Labels) /\ x # <<>>
  BY <1>1, LabelledPaths
<1>3. \A m \in U : Abstract!IsPrefix(x, P[m]) <=> Starts(x, P[m])
  <2> SUFFICES ASSUME NEW m \in U PROVE Abstract!IsPrefix(x, P[m]) <=> Starts(x, P[m])
    OBVIOUS
  <2>1. PICK t : t = P[m]
    OBVIOUS
  <2>2. t \in Seq(Labels)
    BY <2>1, LabelledPaths
  <2> QED BY <1>2, <2>1, <2>2, PrefixIs
<1>4. \A m \in U : m \in W <=> ~Abstract!IsPrefix(x, P[m])
  BY <1>1, <1>3 DEF Apart
<1>5. W \subseteq U
  BY DEF Apart
<1>6. ASSUME NEW e \in E2 PROVE e \in E /\ ~Abstract!IsPrefix(x, e[1])
  <2>1. PICK m \in W : e = <<Q[m], V2[m]>>
    BY DEF EntriesAre
  <2>2. e = <<P[m], V[m]>> /\ m \in U
    BY <1>5, <2>1
  <2>3. e[1] = P[m]
    BY <2>2
  <2> QED BY <1>4, <2>2, <2>3 DEF EntriesAre
<1>7. ASSUME NEW e \in E, ~Abstract!IsPrefix(x, e[1]) PROVE e \in E2
  <2>1. PICK m \in U : e = <<P[m], V[m]>>
    BY DEF EntriesAre
  <2>2. e[1] = P[m]
    BY <2>1
  <2>3. m \in W
    BY <1>4, <1>7, <2>2
  <2>4. e = <<Q[m], V2[m]>>
    BY <2>1, <2>3
  <2> QED BY <2>3, <2>4 DEF EntriesAre
<1>8. E2 = E \ {e \in E : Abstract!IsPrefix(x, e[1])}
  BY <1>6, <1>7
<1>9. ASSUME NEW m \in W PROVE Q[m] # x
  <2>1. Starts(x, x)
    BY <1>1, BelowNode
  <2>2. Q[m] = P[m] /\ ~Starts(x, P[m])
    BY <1>1 DEF Apart
  <2> QED BY <2>1, <2>2
<1> QED BY <1>1, <1>2, <1>8, <1>9

(* A node without children is alone below its path.                        *)
LEMMA LeafAlone ==
    ASSUME NEW P, NEW U, NEW f, NEW g, Labelled(P, U, f, g), NEW n \in U \ {0},
           \A m \in U \ {0} : f[m] # n
    PROVE  Apart(P, U, n) = U \ {n}
<1>1. PICK S : S = {m \in U \ {0, n} : Starts(P[n], P[m])}
  OBVIOUS
<1>2. \A s \in S : f[s] \in S
  <2> SUFFICES ASSUME NEW s \in S PROVE f[s] \in S
    OBVIOUS
  <2>1. s \in U \ {0, n} /\ Starts(P[n], P[s])
    BY <1>1
  <2>2. Starts(P[n], P[f[s]]) /\ ~Starts(P[n], P[0])
    BY <2>1, BelowNode
  <2>3. f[s] \in U /\ f[s] # n /\ f[s] # 0
    BY <2>1, <2>2 DEF Labelled
  <2> QED BY <1>1, <2>2, <2>3
<1>3. S \in SUBSET (U \ {0})
  BY <1>1
<1>4. S = {}
  BY <1>2, <1>3 DEF Labelled, Grounded
<1>5. Starts(P[n], P[n]) /\ ~Starts(P[n], P[0])
  BY BelowNode
<1> QED BY <1>1, <1>4, <1>5 DEF Apart

LEMMA RemoveNext ==
    ASSUME TypeOK, TreeInv, Named, TypeOK', TreeInv', Named',
           NEW path \in PathInputs, fs_rm(path)
    PROVE  Mapped
<1> USE NullApart
<1>1. PICK n, P, Q, U, f, g, g2 :
        /\ n = Resolve(path) /\ P = PathOf /\ Q = PathOf' /\ U = InUse
        /\ f = parent /\ g = name /\ g2 = name'
  OBVIOUS
<1>2. PICK V, V2, E, E2, W, x :
        /\ V = Values /\ V2 = Values' /\ E = Entries /\ E2 = Entries'
        /\ W = U \ {n} /\ x = P[n]
  OBVIOUS
<1>3. n \in NodesOrNull /\ n > 0 /\ used[n] /\ ~(isdir[n] /\ first[n] # Null)
  BY <1>1, ResolveType DEF fs_rm
<1>4. n \in U /\ n # 0 /\ n \in Nodes /\ U \subseteq Nodes
  BY <1>1, <1>3 DEF InUse, NodesOrNull, Null
<1>5. /\ used' = [used EXCEPT ![n] = FALSE] /\ name' = [name EXCEPT ![n] = ""]
      /\ size' = [size EXCEPT ![n] = 0]
      /\ isdir' = isdir /\ parent' = parent /\ cwd' = cwd
  BY <1>1 DEF fs_rm
<1>6. InUse' = W
  BY <1>1, <1>2, <1>4, <1>5 DEF InUse, TypeOK
<1>7. \A m \in W : g2[m] = g[m] /\ V2[m] = V[m]
  <2> SUFFICES ASSUME NEW m \in W PROVE g2[m] = g[m] /\ V2[m] = V[m]
    OBVIOUS
  <2>1. m \in Nodes /\ m # n
    BY <1>2, <1>4
  <2>2. name'[m] = name[m] /\ size'[m] = size[m] /\ isdir'[m] = isdir[m]
    BY <1>5, <2>1 DEF TypeOK
  <2> QED BY <1>1, <1>2, <2>1, <2>2 DEF Values, Value
<1>8. /\ Labelled(P, U, f, g) /\ Labelled(Q, W, f, g2)
      /\ EntriesAre(E, P, V, U) /\ EntriesAre(E2, Q, V2, W)
  <2>1. Labelled(P, U, f, g) /\ E = {<<P[m], V[m]>> : m \in U}
    BY <1>1, <1>2, ViewNow
  <2>2. Labelled(Q, W, f, g2) /\ E2 = {<<Q[m], V2[m]>> : m \in W}
    BY <1>1, <1>2, <1>5, <1>6, ViewNext
  <2> QED BY <2>1, <2>2 DEF EntriesAre
<1>9. \A m \in U \ {0} : f[m] # n
  BY <1>1, <1>3, <1>4, NoKids DEF Kids
<1>10. W = Apart(P, U, n)
  BY <1>2, <1>4, <1>8, <1>9, LeafAlone
<1>11. \A m \in W : Q[m] = P[m]
  <2>1. P[0] = <<>> /\ \A m \in U \ {0} : P[m] = Append(P[f[m]], g[m])
    BY <1>8, LabelledPaths
  <2>2. Follows(P, W, f, g2)
    BY <1>2, <1>7, <2>1 DEF Follows
  <2>3. Follows(Q, W, f, g2)
    BY <1>8, LabelledPaths DEF Follows
  <2>4. Grounded(W \ {0}, f) /\ \A m \in W \ {0} : f[m] \in W
    BY <1>8 DEF Labelled
  <2> QED BY <2>2, <2>3, <2>4, PathsAgree
<1>12. /\ E2 = E \ {e \in E : Abstract!IsPrefix(x, e[1])}
       /\ \A m \in W : Q[m] # x
       /\ x # <<>>
  <2>1. n \in U \ {0} /\ \A m \in W : Q[m] = P[m] /\ V2[m] = V[m]
    BY <1>4, <1>7, <1>11
  <2>2. /\ E2 = E \ {e \in E : Abstract!IsPrefix(P[n], e[1])}
        /\ \A m \in W : Q[m] # P[n]
        /\ P[n] # <<>>
    BY <1>8, <1>10, <2>1, DropBelow
  <2> QED BY <1>2, <2>2
<1>13. /\ \A y : y \in Abstract!Paths <=> \E m \in U : y = P[m]
       /\ \A y : y \in Abstract!Paths' <=> \E m \in W : y = Q[m]
  BY <1>1, <1>6, ViewNow, ViewNext
<1>14. x \in Abstract!Paths \ Abstract!Paths'
  BY <1>2, <1>4, <1>12, <1>13
<1>15. {e[1] : e \in Abstract!Below(x)} = {x}
  <2>1. Abstract!Below(x) = {e \in E : Abstract!IsPrefix(x, e[1])}
    BY <1>2 DEF Abstract!Below
  <2>2. \A e \in Abstract!Below(x) : e[1] = x
    <3> SUFFICES ASSUME NEW e \in E, Abstract!IsPrefix(x, e[1]) PROVE e[1] = x
      BY <2>1
    <3>1. PICK m \in U : e = <<P[m], V[m]>>
      BY <1>8 DEF EntriesAre
    <3>2. m \in W => e \in E2
      BY <1>7, <1>8, <1>11, <3>1 DEF EntriesAre
    <3>3. m = n
      BY <1>2, <1>12, <3>2
    <3> QED BY <1>2, <3>1, <3>3
  <2>3. <<x, V[n]>> \in Abstract!Below(x)
    <3>1. <<x, V[n]>> \in E
      BY <1>2, <1>4, <1>8 DEF EntriesAre
    <3>2. <<x, V[n]>> \notin E2
      <4> SUFFICES ASSUME NEW m \in W, <<x, V[n]>> = <<Q[m], V2[m]>> PROVE FALSE
        BY <1>8 DEF EntriesAre
      <4> QED BY <1>12
    <3> QED BY <1>12, <2>1, <3>1, <3>2
  <2>4. <<x, V[n]>>[1] = x
    OBVIOUS
  <2> QED BY <2>2, <2>3, <2>4
<1>16. Here' = IF Here = x THEN <<"">> ELSE Here
  <2>1. CASE cwd = n
    <3>1. ~used'[cwd']
      BY <1>4, <1>5, <2>1 DEF TypeOK
    <3> QED BY <1>1, <1>2, <2>1, <3>1 DEF Here
  <2>2. CASE cwd # n
    <3>1. cwd \in Nodes /\ used'[cwd] = used[cwd] /\ isdir'[cwd] = isdir[cwd]
      BY <1>5, <2>2 DEF TypeOK
    <3>2. used[cwd] => cwd \in W
      BY <1>1, <1>2, <2>2, <3>1 DEF InUse
    <3>3. Here' = Here
      BY <1>1, <1>5, <1>11, <3>1, <3>2 DEF Here
    <3>4. used[cwd] => P[cwd] # x
      BY <1>11, <1>12, <3>2
    <3>5. Here = x => Here = <<"">>
      BY <1>1, <3>4 DEF Here
    <3> QED BY <3>3, <3>5
  <2> QED BY <2>1, <2>2
<1>17. Abstract!Rm(x)
  <2>1. Entries' = Entries \ Abstract!Below(x)
    BY <1>2, <1>12 DEF Abstract!Below
  <2> QED BY <1>12, <1>15, <1>16, <2>1 DEF Abstract!Rm, Abstract!Root
<1> QED BY <1>14, <1>17 DEF Abstract!Next, Mapped

(* Every start of a node's path is the path of a node.                     *)
LEMMA StartsArePaths ==
    ASSUME NEW P, NEW U, NEW f, NEW g, Labelled(P, U, f, g), NEW n \in U,
           NEW y \in Seq(Labels), Starts(y, P[n])
    PROVE  \E m \in U : P[m] = y
<1> SUFFICES ASSUME \A m \in U : P[m] # y PROVE FALSE
  OBVIOUS
<1>1. PICK S : S = {m \in U : Starts(y, P[m])}
  OBVIOUS
<1>2. P[0] = <<>> /\ 0 \in U
  <2>1. P[0] = <<>>
    BY LabelledPaths
  <2> QED BY <2>1 DEF Labelled
<1>3. ~Starts(y, <<>>)
  <2>1. Len(<<>>) = 0 /\ Len(y) \in Nat
    OBVIOUS
  <2>2. y # <<>>
    BY <1>2
  <2>3. Len(y) # 0
    BY <2>2, EmptySeq
  <2> QED BY <2>1, <2>3 DEF Starts
<1>4. S \in SUBSET (U \ {0})
  BY <1>1, <1>2, <1>3
<1>5. \A s \in S : f[s] \in S
  <2> SUFFICES ASSUME NEW m \in S PROVE f[m] \in S
    OBVIOUS
  <2>1. PICK s, a : s = P[f[m]] /\ a = g[m]
    OBVIOUS
  <2>2. m \in U \ {0} /\ f[m] \in U /\ P[m] = Append(s, a) /\ a \in Labels
    BY <1>4, <2>1, LabelledPaths
  <2>3. s \in Seq(Labels)
    BY <2>1, <2>2, LabelledPaths
  <2>4. Starts(y, Append(s, a)) => Starts(y, s) \/ y = Append(s, a)
    BY <2>2, <2>3, StartsAppend
  <2> QED BY <1>1, <2>1, <2>2, <2>4
<1>6. S = {}
  BY <1>4, <1>5 DEF Labelled, Grounded
<1> QED BY <1>1, <1>6

(* No node has the path that stands for a removed current directory.       *)
LEMMA RemovedApart ==
    ASSUME NEW P, NEW U, NEW f, NEW g, Labelled(P, U, f, g)
    PROVE  \A m \in U : P[m] # <<"">>
<1>0. PICK b, e : b = "" /\ e = <<b>> /\ e = <<"">>
  OBVIOUS
<1> SUFFICES ASSUME NEW m \in U, P[m] = e PROVE FALSE
  BY <1>0
<1>1. PICK s, a : s = P[f[m]] /\ a = g[m]
  OBVIOUS
<1>2. m # 0
  <2>1. P[0] = <<>>
    BY LabelledPaths
  <2>2. e # <<>>
    <3>1. e = <<b>>
      BY <1>0
    <3> QED BY <3>1
  <2> QED BY <2>1, <2>2
<1>3. s \in Seq(Labels) /\ a \in Labels /\ Append(s, a) = e /\ a \in Names
  <2>1. P[m] = Append(s, a) /\ f[m] \in U /\ a \in Labels
    BY <1>1, <1>2, LabelledPaths
  <2>2. s \in Seq(Labels)
    BY <1>1, <2>1, LabelledPaths
  <2>3. a \in Names
    BY <1>1, <1>2 DEF Labelled
  <2> QED BY <2>1, <2>2, <2>3
<1>4. a = b
  <2>1. PICK u : u = Append(s, a)
    OBVIOUS
  <2>2. Len(u) = Len(s) + 1 /\ u[Len(s) + 1] = a /\ Len(s) \in Nat
    BY <1>3, <2>1, AppendProperties
  <2>3. Len(e) = 1 /\ e[1] = b
    <3>1. e = <<b>>
      BY <1>0
    <3> QED BY <3>1
  <2>4. Len(u) = 1 /\ u[1] = b
    BY <1>3, <2>1, <2>3
  <2>5. Len(s) + 1 = 1
    BY <2>2, <2>4
  <2> QED BY <2>2, <2>4, <2>5
<1> QED BY <1>0, <1>3, <1>4, BlankApart DEF NotBlank

(* Where a move of what lies at or below x to d takes the path s.          *)
Carried(d, x, s) == IF Starts(x, s) THEN Moved(d, x, s) ELSE s

LEMMA CarriedStarts ==
    ASSUME NEW T, NEW d \in Seq(T), NEW x \in Seq(T), NEW s \in Seq(T), Starts(x, s)
    PROVE  Starts(d, Moved(d, x, s))
<1>1. PICK r : r = SubSeq(s, Len(x) + 1, Len(s))
  OBVIOUS
<1>2. r \in Seq(T)
  <2>1. PICK k, l : k = Len(x) + 1 /\ l = Len(s)
    OBVIOUS
  <2>2. k \in Nat /\ l \in Nat /\ k >= 1
    BY <2>1
  <2>3. \A i \in k .. l : s[i] \in T
    BY <2>1, <2>2
  <2> QED BY <1>1, <2>1, <2>2, <2>3, SubSeqProperties
<1>3. PICK z : z = d \o r
  OBVIOUS
<1>4. /\ Len(z) = Len(d) + Len(r)
      /\ \A i \in 1 .. Len(d) + Len(r) : z[i] = IF i <= Len(d) THEN d[i] ELSE r[i - Len(d)]
  BY <1>2, <1>3, ConcatProperties
<1>5. Len(d) \in Nat /\ Len(r) \in Nat
  BY <1>2
<1>6. Starts(d, z)
  BY <1>4, <1>5 DEF Starts
<1> QED BY <1>1, <1>3, <1>6 DEF Moved

(* A node that is hung elsewhere carries what lies below it along.         *)
LEMMA CarriedPaths ==
    ASSUME NEW P, NEW U, NEW f, NEW g, Labelled(P, U, f, g), NEW n \in U \ {0},
           NEW p \in U, NEW nm \in Names, \A m \in U \ {0} : f[m] = p => g[m] # nm,
           NEW Q, NEW f2, NEW g2, Labelled(Q, U, f2, g2), f2[n] = p, g2[n] = nm,
           \A m \in U \ {n} : f2[m] = f[m] /\ g2[m] = g[m]
    PROVE  /\ \A m \in U : Q[m] = Carried(Append(P[p], nm), P[n], P[m])
           /\ ~Starts(P[n], Append(P[p], nm))
           /\ \A m \in U : P[m] # Append(P[p], nm) /\ Q[m] # P[n]
<1>1. PICK x, d : x = P[n] /\ d = Append(P[p], nm)
  OBVIOUS
<1>2. /\ x \in Seq(Labels) /\ d \in Seq(Labels) /\ P[p] \in Seq(Labels) /\ nm \in Labels
  <2>1. x \in Seq(Labels) /\ P[p] \in Seq(Labels) /\ nm \in Labels
    BY <1>1, LabelledPaths DEF Labels
  <2>2. Append(P[p], nm) \in Seq(Labels)
    BY <2>1, AppendProperties
  <2> QED BY <1>1, <2>1, <2>2
<1>3. \A m \in U : P[m] # d
  BY <1>1, NewPath
<1>4. Starts(x, x) /\ ~Starts(x, P[0])
  BY <1>1, BelowNode
<1>5. \A m \in U \ {0, n} : f[m] \in U /\ (Starts(x, P[m]) <=> Starts(x, P[f[m]]))
  BY <1>1, BelowNode DEF Labelled
<1>6. ~Starts(x, P[p])
  <2> SUFFICES ASSUME Starts(x, P[p]) PROVE FALSE
    OBVIOUS
  <2>1. PICK S : S = {m \in U : Starts(x, P[m])}
    OBVIOUS
  <2>2. S \in SUBSET (U \ {0})
    BY <1>4, <2>1
  <2>3. \A s \in S : f2[s] \in S
    BY <1>5, <2>1, <2>2
  <2>4. S = {}
    BY <2>2, <2>3 DEF Labelled, Grounded
  <2> QED BY <1>1, <1>4, <2>1, <2>4
<1>7. ~Starts(x, d)
  <2>1. Starts(x, Append(P[p], nm)) <=> Starts(x, P[p]) \/ x = Append(P[p], nm)
    BY <1>2, StartsAppend
  <2> QED BY <1>1, <1>3, <1>6, <2>1
<1>8. PICK R : R = [m \in U |-> Carried(d, x, P[m])]
  OBVIOUS
<1>9. R[0] = <<>>
  <2>1. R[0] = P[0]
    BY <1>4, <1>8 DEF Carried, Labelled
  <2> QED BY <2>1, LabelledPaths
<1>10. R[n] = Append(R[p], nm)
  <2>1. Moved(d, x, x) = d
    BY <1>2, MovedSelf
  <2> QED BY <1>1, <1>4, <1>6, <1>8, <2>1 DEF Carried
<1>11. ASSUME NEW m \in U \ {0, n} PROVE R[m] = Append(R[f[m]], g[m])
  <2>1. PICK s, a, b : s = P[f[m]] /\ a = g[m] /\ b = P[m]
    OBVIOUS
  <2>2. b = Append(s, a) /\ a \in Labels /\ f[m] \in U
    BY <2>1, LabelledPaths
  <2>3. s \in Seq(Labels)
    BY <2>1, <2>2, LabelledPaths
  <2>4. R[m] = Carried(d, x, b) /\ R[f[m]] = Carried(d, x, s)
    BY <1>8, <2>1, <2>2
  <2>5. Starts(x, b) <=> Starts(x, s)
    BY <1>5, <2>1
  <2>6. CASE Starts(x, s)
    <3>1. Moved(d, x, Append(s, a)) = Append(Moved(d, x, s), a)
      BY <1>2, <2>2, <2>3, <2>6, MovedAppend
    <3>2. R[m] = Moved(d, x, b) /\ R[f[m]] = Moved(d, x, s)
      BY <2>4, <2>5, <2>6 DEF Carried
    <3> QED BY <2>1, <2>2, <3>1, <3>2
  <2>7. CASE ~Starts(x, s)
    BY <2>1, <2>2, <2>4, <2>5, <2>7 DEF Carried
  <2> QED BY <2>6, <2>7
<1>12. Follows(R, U, f2, g2)
  <2>1. \A m \in U \ {0} : R[m] = Append(R[f2[m]], g2[m])
    BY <1>10, <1>11
  <2> QED BY <1>9, <2>1 DEF Follows
<1>13. Follows(Q, U, f2, g2)
  BY LabelledPaths DEF Follows
<1>14. \A m \in U : Q[m] = R[m]
  <2>1. Grounded(U \ {0}, f2) /\ \A m \in U \ {0} : f2[m] \in U
    BY DEF Labelled
  <2> QED BY <1>12, <1>13, <2>1, PathsAgree
<1>15. \A m \in U : Q[m] = Carried(d, x, P[m])
  BY <1>8, <1>14
<1>16. ASSUME NEW m \in U, Q[m] = x PROVE FALSE
  <2>1. PICK s : s = P[m]
    OBVIOUS
  <2>2. s \in Seq(Labels)
    BY <2>1, LabelledPaths
  <2>3. CASE Starts(x, s)
    <3>1. x = Moved(d, x, s)
      BY <1>15, <1>16, <2>1, <2>3 DEF Carried
    <3>2. Starts(d, x)
      BY <1>2, <2>2, <2>3, <3>1, CarriedStarts
    <3>3. d \in Seq(Labels) /\ Starts(d, P[n]) /\ n \in U
      BY <1>1, <1>2, <3>2
    <3>4. \E l \in U : P[l] = d
      BY <3>3, StartsArePaths
    <3> QED BY <1>3, <3>4
  <2>4. CASE ~Starts(x, s)
    <3>1. s = x
      BY <1>15, <1>16, <2>1, <2>4 DEF Carried
    <3> QED BY <1>4, <2>4, <3>1
  <2> QED BY <2>3, <2>4
<1> QED BY <1>1, <1>3, <1>7, <1>15, <1>16

(* What fs_mv changes, apart from the lists.                               *)
LEMMA MoveChanges ==
    ASSUME TypeOK, NEW src \in PathInputs, NEW dst \in PathInputs, fs_mv(src, dst),
           NEW n, n = Resolve(src), NEW p, p = ParentOf(dst), NEW nm, nm = NameOf(dst)
    PROVE  /\ n \in InUse \ {0} /\ p \in Nodes /\ nm \in Names
           /\ isdir[p] /\ FindChild(p, nm) = Null
           /\ parent'[n] = p /\ name'[n] = nm
           /\ \A m \in InUse \ {n} : parent'[m] = parent[m] /\ name'[m] = name[m]
           /\ InUse' = InUse /\ Values' = Values
           /\ used' = used /\ isdir' = isdir /\ cwd' = cwd
           /\ strayed' = (strayed \/ ~used[p])
<1>1. /\ n \in NodesOrNull /\ n > 0 /\ used[n]
      /\ p \in NodesOrNull /\ p # Null /\ isdir[p] /\ FindChild(p, nm) = Null
      /\ nm \in Names
  BY ResolveType, ParentOfType DEF fs_mv
<1>2. n \in Nodes \ {0} /\ n \in InUse /\ p \in Nodes
  BY <1>1 DEF InUse, NodesOrNull, Null
<1>3. /\ parent' = [parent EXCEPT ![n] = p] /\ name' = [name EXCEPT ![n] = nm]
      /\ used' = used /\ isdir' = isdir /\ size' = size /\ cwd' = cwd
      /\ strayed' = (strayed \/ ~used[p])
  BY DEF fs_mv
<1>4. parent'[n] = p /\ \A m \in InUse \ {n} : parent'[m] = parent[m]
  BY <1>2, <1>3 DEF TypeOK, InUse
<1>5. name'[n] = nm /\ \A m \in InUse \ {n} : name'[m] = name[m]
  BY <1>2, <1>3 DEF TypeOK, InUse
<1>6. InUse' = InUse /\ Values' = Values
  BY <1>3 DEF InUse, Values, Value
<1> QED BY <1>1, <1>2, <1>3, <1>4, <1>5, <1>6

(* fs_mv into a directory in use.                                          *)
LEMMA MoveNext ==
    ASSUME TypeOK, TreeInv, Named, TypeOK', TreeInv', Named',
           NEW src \in PathInputs, NEW dst \in PathInputs, fs_mv(src, dst), ~strayed'
    PROVE  Mapped
<1>1. PICK n, p, nm : n = Resolve(src) /\ p = ParentOf(dst) /\ nm = NameOf(dst)
  OBVIOUS
<1>2. PICK P, Q, U, f, f2, g, g2 :
        /\ P = PathOf /\ Q = PathOf' /\ U = InUse
        /\ f = parent /\ f2 = parent' /\ g = name /\ g2 = name'
  OBVIOUS
<1>3. /\ n \in InUse \ {0} /\ p \in Nodes /\ nm \in Names
      /\ isdir[p] /\ FindChild(p, nm) = Null
      /\ parent'[n] = p /\ name'[n] = nm
      /\ \A m \in InUse \ {n} : parent'[m] = parent[m] /\ name'[m] = name[m]
      /\ InUse' = InUse /\ Values' = Values
      /\ used' = used /\ isdir' = isdir /\ cwd' = cwd
      /\ strayed' = (strayed \/ ~used[p])
  BY <1>1, MoveChanges
<1>4. p \in U /\ n \in U \ {0} /\ U \subseteq Nodes
  <2>1. used[p]
    BY <1>3, Zenon
  <2> QED BY <1>2, <1>3, <2>1 DEF InUse
<1>5. PICK V, x, d : V = Values /\ x = P[n] /\ d = Append(P[p], nm)
  OBVIOUS
<1>6. Labelled(P, U, f, g) /\ Entries = {<<P[m], V[m]>> : m \in U}
  BY <1>2, <1>5, ViewNow
<1>7. Labelled(Q, U, f2, g2) /\ Entries' = {<<Q[m], V[m]>> : m \in U}
  BY <1>2, <1>3, <1>5, ViewNext
<1>8. \A m \in U \ {0} : f[m] = p => g[m] # nm
  BY <1>2, <1>3, <1>4, NameFree DEF Kids
<1>9. /\ \A m \in U : Q[m] = Carried(d, x, P[m])
      /\ ~Starts(x, d)
      /\ \A m \in U : P[m] # d /\ Q[m] # x
  <2>1. f2[n] = p /\ g2[n] = nm /\ \A m \in U \ {n} : f2[m] = f[m] /\ g2[m] = g[m]
    BY <1>2, <1>3
  <2>2. /\ \A m \in U : Q[m] = Carried(Append(P[p], nm), P[n], P[m])
        /\ ~Starts(P[n], Append(P[p], nm))
        /\ \A m \in U : P[m] # Append(P[p], nm) /\ Q[m] # P[n]
    BY <1>3, <1>4, <1>6, <1>7, <1>8, <2>1, CarriedPaths
  <2> QED BY <1>5, <2>2
<1>10. x \in Seq(Labels) /\ P[p] \in Seq(Labels) /\ nm \in Labels /\ d \in Seq(Labels)
  <2>1. x \in Seq(Labels) /\ P[p] \in Seq(Labels) /\ nm \in Labels
    <3>1. \A m \in U : P[m] \in Seq(Labels)
      BY <1>6, LabelledPaths
    <3> QED BY <1>3, <1>4, <1>5, <3>1 DEF Labels
  <2>2. Append(P[p], nm) \in Seq(Labels)
    BY <2>1, AppendProperties
  <2> QED BY <1>5, <2>1, <2>2
<1>11. /\ \A m \in U : Abstract!IsPrefix(x, P[m]) <=> Starts(x, P[m])
       /\ ~Abstract!IsPrefix(x, d)
  <2>1. \A t \in Seq(Labels) : Abstract!IsPrefix(x, t) <=> Starts(x, t)
    BY <1>10, PrefixIs
  <2>2. \A m \in U : P[m] \in Seq(Labels)
    BY <1>6, LabelledPaths
  <2> QED BY <1>9, <1>10, <2>1, <2>2
<1>12. \A m \in U : Q[m] = IF Abstract!IsPrefix(x, P[m])
                           THEN d \o SubSeq(P[m], Len(x) + 1, Len(P[m])) ELSE P[m]
  BY <1>9, <1>11 DEF Carried, Moved
<1>13. /\ \A y : y \in Abstract!Paths <=> \E m \in U : y = P[m]
       /\ \A y : y \in Abstract!Paths' <=> \E m \in U : y = Q[m]
  BY <1>2, <1>3, ViewNow, ViewNext
<1>14. x \in Abstract!Paths \ Abstract!Paths' /\ x # <<>>
  <2>1. x # <<>>
    BY <1>4, <1>5, <1>6, LabelledPaths
  <2> QED BY <1>4, <1>5, <1>9, <1>13, <2>1
<1>15. d \in Abstract!Paths' \ Abstract!Paths
  <2>1. Q[n] = d
    <3>1. Starts(x, P[n])
      BY <1>4, <1>5, <1>6, BelowNode
    <3>2. Moved(d, x, P[n]) = d
      <4>1. Moved(d, x, x) = d
        BY <1>10, MovedSelf
      <4> QED BY <1>5, <4>1
    <3> QED BY <1>4, <1>9, <3>1, <3>2 DEF Carried
  <2> QED BY <1>4, <1>9, <1>13, <2>1
<1>16. Abstract!CanAdd(d)
  <2>1. d # <<>>
    BY <1>5, <1>10, AppendProperties
  <2>2. Abstract!Front(d) = P[p]
    BY <1>5, <1>10, FrontAppend
  <2>3. <<P[p], -1>> \in Entries
    <3>1. V[p] = -1
      BY <1>3, <1>5 DEF Values, Value
    <3> QED BY <1>4, <1>6, <3>1
  <2> QED
    BY <1>15, <2>1, <2>2, <2>3 DEF Abstract!CanAdd, Abstract!IsDir, Abstract!Root
<1>17. Entries' = {<<IF Abstract!IsPrefix(x, e[1])
                     THEN d \o SubSeq(e[1], Len(x) + 1, Len(e[1])) ELSE e[1], e[2]>> :
                     e \in Entries}
  <2> DEFINE Shifted(y) == IF Abstract!IsPrefix(x, y)
                           THEN d \o SubSeq(y, Len(x) + 1, Len(y)) ELSE y
  <2>1. \A m \in U : Q[m] = Shifted(P[m])
    BY <1>12
  <2> HIDE DEF Shifted
  <2>2. Entries' = {<<Shifted(e[1]), e[2]>> : e \in Entries}
    <3>1. ASSUME NEW e2 \in Entries' PROVE \E e \in Entries : e2 = <<Shifted(e[1]), e[2]>>
      <4>1. PICK m \in U : e2 = <<Q[m], V[m]>>
        BY <1>7
      <4>2. <<P[m], V[m]>> \in Entries
        BY <1>6
      <4>3. PICK e : e = <<P[m], V[m]>>
        OBVIOUS
      <4>4. e[1] = P[m] /\ e[2] = V[m]
        BY <4>3
      <4> QED BY <2>1, <4>1, <4>2, <4>3, <4>4
    <3>2. ASSUME NEW e \in Entries PROVE <<Shifted(e[1]), e[2]>> \in Entries'
      <4>1. PICK m \in U : e = <<P[m], V[m]>>
        BY <1>6
      <4>2. e[1] = P[m] /\ e[2] = V[m]
        BY <4>1
      <4>3. <<Q[m], V[m]>> \in Entries'
        BY <1>7
      <4> QED BY <2>1, <4>2, <4>3
    <3> QED BY <3>1, <3>2
  <2> QED BY <2>2 DEF Shifted
<1>18. Here' = IF Here = <<"">> THEN Here
               ELSE IF Abstract!IsPrefix(x, Here)
                    THEN d \o SubSeq(Here, Len(x) + 1, Len(Here)) ELSE Here
  <2>1. CASE used[cwd] /\ isdir[cwd]
    <3>1. cwd \in U
      BY <1>2, <2>1 DEF InUse, TypeOK
    <3>2. Here = P[cwd] /\ Here' = Q[cwd]
      BY <1>2, <1>3, <2>1 DEF Here
    <3>3. P[cwd] # <<"">>
      BY <1>6, <3>1, RemovedApart
    <3> QED BY <1>12, <3>1, <3>2, <3>3
  <2>2. CASE ~(used[cwd] /\ isdir[cwd])
    BY <1>3, <2>2 DEF Here
  <2> QED BY <2>1, <2>2
<1>19. Abstract!Mv(x, d)
  BY <1>11, <1>14, <1>16, <1>17, <1>18 DEF Abstract!Mv, Abstract!Root
<1> QED BY <1>14, <1>15, <1>19 DEF Abstract!Next, Mapped

(* fs_mv into a removed directory: the current directory has been removed, *)
(* and what is moved is lost.                                              *)
LEMMA LoseNext ==
    ASSUME TypeOK, TreeInv, Named,
           NEW src \in PathInputs, NEW dst \in PathInputs, fs_mv(src, dst),
           ~used[ParentOf(dst)]
    PROVE  Mapped
<1> USE NullApart
<1>1. PICK n, p, nm : n = Resolve(src) /\ p = ParentOf(dst) /\ nm = NameOf(dst)
  OBVIOUS
<1>2. PICK P, Q, U, f, f2, g, g2 :
        /\ P = PathOf /\ Q = PathOf' /\ U = InUse
        /\ f = parent /\ f2 = parent' /\ g = name /\ g2 = name'
  OBVIOUS
<1>3. PICK V, E, E2, W : /\ V = Values /\ E = Entries /\ E2 = Entries'
                         /\ W = Apart(P, U, n)
  OBVIOUS
<1>4. /\ n \in InUse \ {0} /\ p \in Nodes /\ nm \in Names
      /\ isdir[p] /\ FindChild(p, nm) = Null
      /\ parent'[n] = p /\ name'[n] = nm
      /\ \A m \in InUse \ {n} : parent'[m] = parent[m] /\ name'[m] = name[m]
      /\ InUse' = InUse /\ Values' = Values
      /\ used' = used /\ isdir' = isdir /\ cwd' = cwd
  BY <1>1, MoveChanges
<1>5. ~used[p]
  BY <1>1
<1>6. ~used[cwd]
  BY <1>1, <1>4, <1>5, Reached
<1>7. p \notin U /\ n \in U \ {0} /\ U \subseteq Nodes
  BY <1>2, <1>4, <1>5 DEF InUse
<1>8. /\ f2[n] = p /\ g2[n] = nm
      /\ \A m \in U \ {n} : f2[m] = f[m] /\ g2[m] = g[m]
  BY <1>2, <1>4
<1>9. Labelled(P, U, f, g) /\ EntriesAre(E, P, V, U)
  BY <1>2, <1>3, ViewNow DEF EntriesAre
<1>10. Grounded(U \ {0}, f2)
  <2>1. \A m \in U \ {0} : f2[m] \in Nodes
    BY <1>4, <1>7, <1>8, <1>9 DEF Labelled
  <2>2. ASSUME NEW S \in SUBSET (U \ {0}), \A s \in S : f2[s] \in S PROVE S = {}
    <3>1. n \notin S
      BY <1>7, <1>8, <2>2
    <3>2. \A s \in S : f[s] \in S
      BY <1>8, <2>2, <3>1
    <3> QED BY <1>9, <3>2 DEF Labelled, Grounded
  <2>3. U \ {0} \in SUBSET Nodes
    BY <1>7
  <2> QED BY <2>1, <2>2, <2>3 DEF Grounded
<1>11. /\ 0 \in W /\ n \notin W /\ W \subseteq U
       /\ \A m \in U \ {0, n} : f[m] \in U /\ (m \in W <=> f[m] \in W)
  <2>1. /\ Starts(P[n], P[n]) /\ ~Starts(P[n], P[0])
        /\ \A m \in U \ {0, n} : Starts(P[n], P[m]) <=> Starts(P[n], P[f[m]])
    BY <1>7, <1>9, BelowNode
  <2>2. 0 \in U /\ \A m \in U \ {0, n} : f[m] \in U
    BY <1>9 DEF Labelled
  <2> QED BY <1>3, <1>7, <2>1, <2>2 DEF Apart
<1>12. Leading(W, U, f2)
  BY <1>7, <1>8, <1>11 DEF Leading
<1>13. PICK u : u = used'
  OBVIOUS
<1>14. Marked(U, u)
  BY <1>2, <1>4, <1>13 DEF Marked, InUse
<1>15. {m \in Nodes : Rooted'[m]} = W
  <2>1. Marked(W, RootedBy(u, f2))
    BY <1>10, <1>12, <1>14, RootedByIs
  <2>2. Rooted' = RootedBy(u, f2)
    BY <1>2, <1>13 DEF Rooted, RootedBy
  <2> QED BY <1>7, <1>11, <2>1, <2>2 DEF Marked
<1>16. PathsOn(Q, Nodes, U \ {0}, f2, g2, Labels)
  <2>1. \A m \in U \ {0} : g2[m] \in Labels
    BY <1>4, <1>8, <1>9 DEF Labelled, Labels
  <2>2. \A m \in Nodes : m \in U <=> u[m]
    BY <1>14 DEF Marked
  <2>3. PathsOn(PathBy(u, f2, g2), Nodes, U \ {0}, f2, g2, Labels)
    BY <1>10, <2>1, <2>2, PathByIs
  <2>4. PathOf' = PathBy(u, f2, g2)
    BY <1>2, <1>13 DEF PathOf, PathBy
  <2> QED BY <1>2, <2>3, <2>4
<1>17. \A m \in W : Q[m] = P[m]
  <2>1. P[0] = <<>> /\ \A m \in U \ {0} : P[m] = Append(P[f[m]], g[m])
    BY <1>9, LabelledPaths
  <2>2. Follows(P, W, f2, g2)
    BY <1>8, <1>11, <2>1 DEF Follows
  <2>3. Follows(Q, W, f2, g2)
    BY <1>7, <1>11, <1>16 DEF PathsOn, Follows
  <2>4. \A m \in W \ {0} : f2[m] \in W
    BY <1>8, <1>11
  <2>5. Grounded(W \ {0}, f2)
    BY <1>10, <1>11 DEF Grounded
  <2> QED BY <2>2, <2>3, <2>4, <2>5, PathsAgree
<1>18. EntriesAre(E2, Q, V, W)
  <2>1. Entries' = {<<PathOf'[m], Value(m)'>> : m \in W}
    BY <1>15 DEF Entries
  <2>2. \A m \in W : Value(m)' = V[m]
    <3>1. \A m \in Nodes : Value(m)' = Values'[m]
      BY DEF Values
    <3> QED BY <1>3, <1>4, <1>7, <1>11, <3>1
  <2> QED BY <1>2, <1>3, <2>1, <2>2 DEF EntriesAre
<1>19. PICK x : x = P[n]
  OBVIOUS
<1>20. /\ E2 = E \ {e \in E : Abstract!IsPrefix(x, e[1])}
       /\ \A m \in W : Q[m] # x
       /\ x # <<>>
  <2>1. \A m \in W : Q[m] = P[m] /\ V[m] = V[m]
    BY <1>17
  <2>2. /\ E2 = E \ {e \in E : Abstract!IsPrefix(P[n], e[1])}
        /\ \A m \in W : Q[m] # P[n]
        /\ P[n] # <<>>
    BY <1>3, <1>7, <1>9, <1>18, <2>1, DropBelow
  <2> QED BY <1>19, <2>2
<1>21. x \in Abstract!Paths \ Abstract!Paths'
  <2>1. x \in Abstract!Paths
    BY <1>2, <1>7, <1>19, ViewNow
  <2>2. Abstract!Paths' = PathsIn(E2)
    BY <1>3 DEF Abstract!Paths, PathsIn
  <2>3. x \notin PathsIn(E2)
    BY <1>18, <1>20, PathsInAre
  <2> QED BY <2>1, <2>2, <2>3
<1>22. Here = <<"">> /\ Here' = <<"">>
  BY <1>4, <1>6 DEF Here
<1>23. Abstract!Lose(x)
  <2>1. Entries' = Entries \ Abstract!Below(x)
    BY <1>3, <1>20 DEF Abstract!Below
  <2> QED BY <1>20, <1>21, <1>22, <2>1 DEF Abstract!Lose, Abstract!Root
<1> QED BY <1>21, <1>23 DEF Abstract!Next, Mapped

-----------------------------------------------------------------------------
(* The refinement.                                                         *)

(* What holds in every state, with the names of the nodes in use.          *)
InTree == Sound /\ (~strayed => Named)

LEMMA AddNamed ==
    ASSUME TypeOK, Named, NEW p, NEW nm \in Names, NEW d, NEW sz,
           CanAdd(p, nm), AddChild(p, nm, d, sz)
    PROVE  Named'
<1>1. PICK n : n = Lowest(Unused)
  OBVIOUS
<1>2. n \in Nodes \ {0}
  BY <1>1, FreeNode
<1>3. used' = [used EXCEPT ![n] = TRUE] /\ name' = [name EXCEPT ![n] = nm]
  BY <1>1 DEF AddChild
<1>4. \A m \in Nodes \ {n} : used'[m] = used[m] /\ name'[m] = name[m]
  BY <1>3 DEF TypeOK
<1>5. name'[n] = nm
  BY <1>2, <1>3 DEF TypeOK
<1> QED BY <1>4, <1>5 DEF Named, InUse

LEMMA WriteNamed ==
    ASSUME TypeOK, Named, NEW path \in PathInputs, NEW n, fs_write_file(path, n)
    PROVE  Named'
<1>1. CASE UNCHANGED <<used, isdir, parent, first, next, name>>
  BY <1>1 DEF Named, InUse
<1>2. CASE /\ ParentOf(path) # Null
           /\ CanAdd(ParentOf(path), NameOf(path))
           /\ AddChild(ParentOf(path), NameOf(path), FALSE, Stored(n))
  <2>1. NameOf(path) \in Names
    BY <1>2, ParentOfType
  <2> QED BY <1>2, <2>1, AddNamed
<1> QED BY <1>1, <1>2 DEF fs_write_file

LEMMA NamedStep ==
    ASSUME TypeOK, Named, Operation
    PROVE  Named'
<1>1. ASSUME NEW path \in PathInputs, fs_mkdir(path) \/ fs_touch(path) PROVE Named'
  <2>1. PICK d : /\ ParentOf(path) # Null
                 /\ CanAdd(ParentOf(path), NameOf(path))
                 /\ AddChild(ParentOf(path), NameOf(path), d, 0)
    BY <1>1 DEF fs_mkdir, fs_touch
  <2>2. NameOf(path) \in Names
    BY <2>1, ParentOfType
  <2> QED BY <2>1, <2>2, AddNamed
<1>2. ASSUME NEW path \in PathInputs, fs_rm(path) PROVE Named'
  <2>1. PICK n : n = Resolve(path)
    OBVIOUS
  <2>2. n \in NodesOrNull /\ n > 0
    BY <1>2, <2>1, ResolveType DEF fs_rm
  <2>3. n \in Nodes
    BY <2>2 DEF NodesOrNull, Null
  <2>4. used' = [used EXCEPT ![n] = FALSE] /\ name' = [name EXCEPT ![n] = ""]
    BY <1>2, <2>1 DEF fs_rm
  <2>5. /\ \A m \in Nodes \ {n} : used'[m] = used[m] /\ name'[m] = name[m]
        /\ ~used'[n]
    BY <2>3, <2>4 DEF TypeOK
  <2> QED BY <2>5 DEF Named, InUse
<1>3. ASSUME NEW path \in PathInputs, fs_cd(path) PROVE Named'
  BY <1>3 DEF fs_cd, Named, InUse
<1>4. ASSUME NEW path \in PathInputs, NEW n \in 0 .. MaxSize, fs_write_file(path, n)
      PROVE  Named'
  BY <1>4, WriteNamed
<1>5. ASSUME NEW src \in PathInputs, NEW dst \in PathInputs, fs_cp(src, dst)
      PROVE  Named'
  BY <1>5, WriteNamed DEF fs_cp
<1>6. ASSUME NEW src \in PathInputs, NEW dst \in PathInputs, fs_mv(src, dst)
      PROVE  Named'
  <2>1. PICK n, p, nm : n = Resolve(src) /\ p = ParentOf(dst) /\ nm = NameOf(dst)
    OBVIOUS
  <2>2. /\ nm \in Names /\ InUse' = InUse /\ name'[n] = nm
        /\ \A m \in InUse \ {n} : name'[m] = name[m]
    BY <1>6, <2>1, MoveChanges
  <2> QED BY <2>2 DEF Named
<1> QED BY <1>1, <1>2, <1>3, <1>4, <1>5, <1>6 DEF Operation

LEMMA InTreeInit == Init => InTree
<1> SUFFICES ASSUME Init PROVE Named
  BY SoundInit DEF InTree
<1>1. InUse = {0}
  BY NullApart DEF Init, InUse
<1> QED BY <1>1 DEF Named

LEMMA InTreeStep == InTree /\ [Next]_vars => InTree'
<1> SUFFICES ASSUME InTree, [Next]_vars PROVE ~strayed' => Named'
  BY SoundStep DEF InTree
<1>1. TypeOK
  BY DEF InTree, Sound
<1>2. ASSUME ~strayed, Operation PROVE Named'
  BY <1>1, <1>2, NamedStep DEF InTree
<1>3. ASSUME UNCHANGED vars, ~strayed' PROVE Named'
  BY <1>3 DEF InTree, Named, InUse, vars
<1> QED BY <1>2, <1>3 DEF Next

(* One call is a step of FsTree, or changes nothing there.                 *)
LEMMA CallMapped ==
    ASSUME InTree, InTree', ~strayed, Operation
    PROVE  Mapped
<1>1. TypeOK /\ TreeInv /\ Named /\ TypeOK'
  BY DEF InTree, Sound
<1>2. ASSUME ~strayed' PROVE TreeInv' /\ Named'
  BY <1>2 DEF InTree, Sound
<1>3. ASSUME NEW path \in PathInputs, NEW d \in BOOLEAN, NEW sz \in 0 .. MaxFileSize - 1,
             ParentOf(path) # Null, CanAdd(ParentOf(path), NameOf(path)),
             AddChild(ParentOf(path), NameOf(path), d, sz), UNCHANGED <<cwd, strayed>>
      PROVE  Mapped
  <2>1. PICK p, nm : p = ParentOf(path) /\ nm = NameOf(path)
    OBVIOUS
  <2>2. p \in NodesOrNull /\ nm \in Names
    BY <1>1, <1>3, <2>1, ParentOfType
  <2>3. CanAdd(p, nm) /\ AddChild(p, nm, d, sz) /\ cwd' = cwd
    BY <1>3, <2>1
  <2>4. TreeInv' /\ Named'
    BY <1>2, <1>3
  <2> QED BY <1>1, <2>2, <2>3, <2>4, AddNext DEF Mapped
<1>4. ASSUME NEW path \in PathInputs, NEW sz \in Nat, fs_write_file(path, sz)
      PROVE  Mapped
  <2>1. Stored(sz) \in 0 .. MaxFileSize - 1
    BY StoredType
  <2>2. CASE /\ ParentOf(path) # Null /\ CanAdd(ParentOf(path), NameOf(path))
             /\ AddChild(ParentOf(path), NameOf(path), FALSE, Stored(sz))
             /\ UNCHANGED <<cwd, strayed>>
    BY <1>3, <2>1, <2>2
  <2>3. CASE /\ Resolve(path) # Null /\ ~isdir[Resolve(path)]
             /\ size' = [size EXCEPT ![Resolve(path)] = Stored(sz)]
             /\ UNCHANGED <<used, isdir, parent, first, next, name, cwd, strayed>>
    <3>1. PICK n, z : n = Resolve(path) /\ z = Stored(sz)
      OBVIOUS
    <3>2. n \in Nodes
      BY <1>1, <2>3, <3>1, ResolveType DEF NodesOrNull
    <3>3. /\ ~isdir[n] /\ z \in 0 .. MaxFileSize - 1
          /\ size' = [size EXCEPT ![n] = z]
      BY <2>1, <2>3, <3>1
    <3>4. TreeInv' /\ Named'
      BY <1>2, <2>3
    <3>5. UNCHANGED <<used, isdir, parent, first, next, name, cwd>>
      BY <2>3
    <3> QED BY <1>1, <3>2, <3>3, <3>4, <3>5, WriteNext
  <2> QED BY <1>4, <2>2, <2>3 DEF fs_write_file
<1>5. ASSUME NEW path \in PathInputs, fs_mkdir(path) \/ fs_touch(path) PROVE Mapped
  <2>1. PICK d \in BOOLEAN :
          /\ ParentOf(path) # Null /\ CanAdd(ParentOf(path), NameOf(path))
          /\ AddChild(ParentOf(path), NameOf(path), d, 0)
          /\ UNCHANGED <<cwd, strayed>>
    BY <1>5 DEF fs_mkdir, fs_touch
  <2> QED BY <1>3, <2>1, ZeroSize
<1>6. ASSUME NEW path \in PathInputs, fs_rm(path) PROVE Mapped
  <2>1. ~strayed'
    BY <1>6 DEF fs_rm
  <2> QED BY <1>1, <1>2, <1>6, <2>1, RemoveNext
<1>7. ASSUME NEW path \in PathInputs, fs_cd(path) PROVE Mapped
  BY <1>1, <1>7, CdNext
<1>8. ASSUME NEW path \in PathInputs, NEW n \in 0 .. MaxSize, fs_write_file(path, n)
      PROVE  Mapped
  BY <1>4, <1>8
<1>9. ASSUME NEW src \in PathInputs, NEW dst \in PathInputs, fs_cp(src, dst)
      PROVE  Mapped
  <2>1. PICK n : n = Resolve(src)
    OBVIOUS
  <2>2. n \in Nodes
    BY <1>1, <1>9, <2>1, ResolveType DEF fs_cp, NodesOrNull
  <2>3. size[n] \in 0 .. MaxFileSize - 1
    BY <1>1, <2>2 DEF TypeOK
  <2>4. size[n] \in Nat /\ fs_write_file(dst, size[n])
    BY <1>9, <2>1, <2>3 DEF fs_cp
  <2> QED BY <1>4, <2>4
<1>10. ASSUME NEW src \in PathInputs, NEW dst \in PathInputs, fs_mv(src, dst)
       PROVE  Mapped
  <2>1. CASE used[ParentOf(dst)]
    <3>1. strayed' = (strayed \/ ~used[ParentOf(dst)])
      BY <1>10 DEF fs_mv
    <3>2. ~strayed'
      BY <2>1, <3>1, Zenon
    <3> QED BY <1>1, <1>2, <1>10, <3>2, MoveNext
  <2>2. CASE ~used[ParentOf(dst)]
    BY <1>1, <1>10, <2>2, LoseNext
  <2> QED BY <2>1, <2>2
<1> QED BY <1>5, <1>6, <1>7, <1>8, <1>9, <1>10 DEF Operation

LEMMA MappedStep ==
    ASSUME InTree, InTree', [Next]_vars
    PROVE  [Abstract!Next]_(Abstract!vars)
<1>1. ASSUME UNCHANGED vars PROVE Mapped
  BY <1>1 DEF vars, Mapped, Entries, Here, PathOf, Rooted, Value
<1>2. Mapped
  BY <1>1, CallMapped DEF Next
<1> QED BY <1>2 DEF Mapped, Abstract!vars

LEMMA MappedInit == Init => Abstract!Init
<1> SUFFICES ASSUME Init PROVE Abstract!Init
  OBVIOUS
<1> USE NullApart
<1>1. TypeOK /\ TreeInv /\ Named /\ InUse = {0}
  <2>1. InUse = {0} /\ ~strayed
    BY DEF Init, InUse
  <2> QED BY <2>1, InTreeInit DEF InTree, Sound
<1>2. PathOf[0] = <<>> /\ Values[0] = -1
  <2>1. Labelled(PathOf, InUse, parent, name)
    BY <1>1, ViewNow
  <2>2. PathOf[0] = <<>>
    BY <2>1, LabelledPaths
  <2> QED BY <2>2 DEF Values, Value, Init
<1>3. Entries = {<<PathOf[m], Values[m]>> : m \in {0}}
  BY <1>1, ViewNow
<1>4. Entries = {<<<<>>, -1>>}
  BY <1>2, <1>3
<1>5. Here = <<>>
  BY <1>2 DEF Here, Init
<1> QED BY <1>4, <1>5 DEF Abstract!Init, Abstract!Root

(* The array of nodes implements the tree that callers see: whatever the   *)
(* order of the calls, each of fs_mkdir, fs_touch, fs_write_file, fs_cp,   *)
(* fs_rm, fs_mv and fs_cd has the effect FsTree gives it, or none.         *)
THEOREM ImplementsTree == Spec => TreeImplemented
<1>1. Init => InTree /\ Abstract!Init
  BY InTreeInit, MappedInit
<1>2. InTree /\ [Next]_vars => InTree'
  BY InTreeStep
<1>3. InTree /\ InTree' /\ [Next]_vars => [Abstract!Next]_(Abstract!vars)
  BY MappedStep
<1> QED BY <1>1, <1>2, <1>3, PTL DEF Spec, TreeImplemented, Abstract!Spec
-----------------------------------------------------------------------------
(* The table of background jobs and the tasks that run them.               *)
JobTable(C) == [Slots -> [active : BOOLEAN, cmd : C]]
Tasks_ == [id : Nat, slot : Slots, at : {"ready", "waits", "done"}]
Runs(x) == x.at # "done"

(* A slot is in use exactly while a task has its command to run or was     *)
(* killed with it, and there is only one such task.                        *)
JobInv ==
    /\ \E C : jobs \in JobTable(C)
    /\ born \in Nat /\ tasks \subseteq Tasks_
    /\ \A x \in tasks : Runs(x) => jobs[x.slot].active /\ x.slot \notin killed
    /\ \A x, y \in tasks : Runs(x) /\ Runs(y) /\ x.slot = y.slot => x = y
    /\ \A s \in Slots : s \in killed => jobs[s].active
    /\ \A s \in Slots : jobs[s].active => s \in killed \/ \E x \in tasks : Runs(x) /\ x.slot = s

LEMMA SlotsAre == Slots \subseteq Nat
  BY ShellAssumption DEF Slots

(* The slot that a new job takes.                                          *)
LEMMA LowestFree ==
    ASSUME NEW S, S \subseteq Slots, S # {}
    PROVE  Min(S) \in S
<1>1. \E k \in S : \A j \in S : k <= j
  BY LeastExists, SlotsAre
<1> QED BY <1>1 DEF Min

LEMMA JobsStart == ShellInit => JobInv
<1> SUFFICES ASSUME ShellInit PROVE JobInv
  OBVIOUS
<1>1. jobs \in JobTable({<<>>}) /\ tasks = {} /\ killed = {} /\ born = 0
  BY DEF ShellInit, JobTable
<1>2. \A s \in Slots : ~jobs[s].active
  BY DEF ShellInit
<1> QED BY <1>1, <1>2 DEF JobInv

LEMMA JobsSame ==
    ASSUME JobInv, UNCHANGED <<jobs, tasks, born, killed>>
    PROVE  JobInv'
  BY DEF JobInv, JobTable, Tasks_, Runs

(* Setting up pipes and redirections leaves the jobs alone.                *)
LEMMA StagesAlone ==
    ASSUME NEW f, NEW ts, StartStages(f, ts)
    PROVE  UNCHANGED <<jobs, tasks, born>>
<1>1. \A how, t, rest, x : Begin(f, how, t, rest, x) => UNCHANGED <<jobs, tasks, born>>
  BY DEF Begin
<1>2. Complain(f) => UNCHANGED <<jobs, tasks, born>>
  BY DEF Complain
<1> QED BY <1>1, <1>2 DEF StartStages

LEMMA StartJobKeeps ==
    ASSUME JobInv, NEW f, NEW ts, StartJob(f, ts), killed' = killed
    PROVE  JobInv'
<1>1. CASE Complain(f)
  BY <1>1, JobsSame DEF Complain
<1>2. CASE ~Complain(f)
  <2> DEFINE free == {s \in Slots : IsFree(s)}
             slot == Min(free)
             x == [id |-> born, slot |-> slot, at |-> "ready"]
  <2>1. /\ free # {} /\ jobs' = [jobs EXCEPT ![slot] = [active |-> TRUE, cmd |-> ts]]
        /\ tasks' = tasks \cup {x} /\ born' = born + 1
    BY <1>2 DEF StartJob
  <2>2. slot \in Slots /\ ~jobs[slot].active
    <3>1. free \subseteq Slots
      OBVIOUS
    <3>2. Min(free) \in free
      BY <2>1, <3>1, LowestFree
    <3> QED BY <3>2 DEF IsFree
  <2> HIDE DEF slot, free
  <2>3. PICK C : jobs \in JobTable(C)
    BY DEF JobInv
  <2>4. jobs' \in JobTable(C \cup {ts})
    BY <2>1, <2>2, <2>3 DEF JobTable
  <2>5. born \in Nat /\ tasks \subseteq Tasks_ /\ x \in Tasks_ /\ Runs(x) /\ x.slot = slot
    BY <2>2 DEF JobInv, Tasks_, Runs
  <2>6. jobs'[slot].active /\ \A s \in Slots \ {slot} : jobs'[s] = jobs[s]
    BY <2>1, <2>2, <2>3 DEF JobTable
  <2>7. slot \notin killed /\ \A y \in tasks : Runs(y) => y.slot # slot
    BY <2>2, <2>5 DEF JobInv
  <2> HIDE DEF x
  <2>8. \A y \in tasks' : Runs(y) => jobs'[y.slot].active /\ y.slot \notin killed'
    BY <2>1, <2>5, <2>6, <2>7 DEF JobInv, Tasks_
  <2>9. \A y, z \in tasks' : Runs(y) /\ Runs(z) /\ y.slot = z.slot => y = z
    BY <2>1, <2>5, <2>7 DEF JobInv
  <2>10. \A s \in Slots : s \in killed' => jobs'[s].active
    BY <2>6, <2>7 DEF JobInv
  <2>11. \A s \in Slots : jobs'[s].active => s \in killed' \/ \E y \in tasks' : Runs(y) /\ y.slot = s
    BY <2>1, <2>5, <2>6 DEF JobInv
  <2>12. born' \in Nat /\ tasks' \subseteq Tasks_
    BY <2>1, <2>5
  <2> QED BY <2>4, <2>8, <2>9, <2>10, <2>11, <2>12 DEF JobInv, Runs
<1> QED BY <1>1, <1>2

LEMMA SegmentKeepsJobs ==
    ASSUME JobInv, TakeSegment
    PROVE  JobInv'
<1>1. PICK f : \/ UNCHANGED <<jobs, tasks, born>>
               \/ Single(f, Words_(Head(Top.segs).ts))
  BY DEF TakeSegment
<1>2. CASE Single(f, Words_(Head(Top.segs).ts))
  <2> DEFINE words == Words_(Head(Top.segs).ts)
  <2>1. Complain(f) \/ StartJob(f, Front(words)) \/ StartStages(f, words)
    BY <1>2 DEF Single
  <2> HIDE DEF words
  <2> QED BY <2>1, StartJobKeeps, StagesAlone, JobsSame DEF TakeSegment, Complain
<1> QED BY <1>1, <1>2, JobsSame DEF TakeSegment

(* taskkill leaves the slots of the tasks it ends in use, for good.        *)
LEMMA DispatchKeepsJobs ==
    ASSUME JobInv, Dispatch
    PROVE  JobInv'
<1>1. UNCHANGED <<jobs, born>>
  BY DEF Dispatch
<1>2. \/ UNCHANGED <<tasks, killed>>
      \/ tasks' = {} /\ killed' = killed \cup {x.slot : x \in {y \in tasks : y.at # "done"}}
  <2>1. ASSUME NEW c, Run(c)
        PROVE  \/ UNCHANGED <<tasks, killed>>
               \/ tasks' = {} /\ killed' = killed \cup {x.slot : x \in {y \in tasks : y.at # "done"}}
    BY <2>1, Zenon DEF Run
  <2> QED BY <2>1, Zenon DEF Dispatch
<1>3. CASE UNCHANGED <<tasks, killed>>
  BY <1>1, <1>3, JobsSame
<1>4. CASE tasks' = {} /\ killed' = killed \cup {x.slot : x \in {y \in tasks : y.at # "done"}}
  <2>1. \A s \in Slots : s \in killed' => jobs[s].active
    BY <1>4 DEF JobInv, Runs
  <2>2. \A s \in Slots : jobs[s].active => s \in killed'
    BY <1>4 DEF JobInv, Runs
  <2> QED BY <1>1, <1>4, <2>1, <2>2 DEF JobInv, JobTable
<1> QED BY <1>2, <1>3, <1>4

(* The steps of a job: it waits, is done or reports.                       *)
LEMMA JobKeepsJobs ==
    ASSUME JobInv, Job
    PROVE  JobInv'
<1>1. PICK x \in tasks : (JobRuns(x) \/ JobWakes(x) \/ JobReports(x)) /\ UNCHANGED <<born, killed>>
  BY DEF Job
<1>2. PICK C : jobs \in JobTable(C)
  BY DEF JobInv
<1>3. /\ x \in Tasks_ /\ tasks \subseteq Tasks_ /\ born \in Nat
      /\ \A y \in tasks : Runs(y) => jobs[y.slot].active /\ y.slot \notin killed
      /\ \A y, z \in tasks : Runs(y) /\ Runs(z) /\ y.slot = z.slot => y = z
      /\ \A s \in Slots : s \in killed => jobs[s].active
      /\ \A s \in Slots : jobs[s].active => s \in killed \/ \E y \in tasks : Runs(y) /\ y.slot = s
  BY <1>1 DEF JobInv
<1>4. CASE /\ x.at = "ready" /\ tasks' = (tasks \ {x}) \cup {[x EXCEPT !.at = "waits"]} /\ jobs' = jobs
  <2> DEFINE w == [x EXCEPT !.at = "waits"]
  <2>1. w \in Tasks_ /\ Runs(w) /\ Runs(x) /\ w.slot = x.slot
    BY <1>3, <1>4 DEF Tasks_, Runs
  <2> HIDE DEF w
  <2>2. \A y \in tasks' : y = w \/ (y \in tasks /\ y # x)
    BY <1>4, Zenon DEF w
  <2>3. tasks' \subseteq Tasks_ /\ w \in tasks'
    BY <1>3, <1>4, <2>1 DEF w
  <2>4. \A y \in tasks' : Runs(y) => jobs[y.slot].active /\ y.slot \notin killed
    BY <1>1, <1>3, <2>1, <2>2
  <2>5. \A y, z \in tasks' : Runs(y) /\ Runs(z) /\ y.slot = z.slot => y = z
    BY <1>1, <1>3, <2>1, <2>2
  <2>6. \A s \in Slots : jobs[s].active => s \in killed \/ \E y \in tasks' : Runs(y) /\ y.slot = s
    BY <1>3, <1>4, <2>1, <2>3
  <2> QED BY <1>1, <1>2, <1>3, <1>4, <2>3, <2>4, <2>5, <2>6 DEF JobInv, JobTable, Runs
<1>5. CASE /\ Runs(x) /\ jobs' = [jobs EXCEPT ![x.slot].active = FALSE]
           /\ \/ tasks' = tasks \ {x}
              \/ tasks' = (tasks \ {x}) \cup {[x EXCEPT !.at = "done"]}
  <2> DEFINE w == [x EXCEPT !.at = "done"]
  <2>1. w \in Tasks_ /\ ~Runs(w)
    BY <1>3 DEF Tasks_, Runs
  <2> HIDE DEF w
  <2>2. \A y \in tasks' : Runs(y) => y \in tasks /\ y # x
    BY <1>5, <2>1 DEF w
  <2>3. \A y \in tasks : y # x => y \in tasks'
    BY <1>5
  <2>4. tasks' \subseteq Tasks_
    BY <1>3, <1>5, <2>1 DEF w
  <2>5. x.slot \in Slots /\ jobs' \in JobTable(C)
    <3>1. x.slot \in Slots
      BY <1>3 DEF Tasks_
    <3>2. jobs[x.slot] \in [active : BOOLEAN, cmd : C]
      BY <1>2, <3>1 DEF JobTable
    <3>3. [jobs[x.slot] EXCEPT !.active = FALSE] \in [active : BOOLEAN, cmd : C]
      BY <3>2
    <3> QED BY <1>2, <1>5, <3>1, <3>3, Zenon DEF JobTable
  <2>6. ~jobs'[x.slot].active /\ \A s \in Slots \ {x.slot} : jobs'[s] = jobs[s]
    BY <1>2, <1>5, <2>5 DEF JobTable
  <2>7. \A y \in tasks' : Runs(y) => y.slot # x.slot /\ y.slot \in Slots
    BY <1>1, <1>3, <1>5, <2>2 DEF Tasks_
  <2>8. \A y \in tasks' : Runs(y) => jobs'[y.slot].active /\ y.slot \notin killed
    BY <1>3, <2>2, <2>6, <2>7
  <2>9. \A y, z \in tasks' : Runs(y) /\ Runs(z) /\ y.slot = z.slot => y = z
    BY <1>3, <2>2
  <2>10. \A s \in Slots : s \in killed => jobs'[s].active
    BY <1>1, <1>3, <1>5, <2>6
  <2>11. \A s \in Slots : jobs'[s].active => s \in killed \/ \E y \in tasks' : Runs(y) /\ y.slot = s
    BY <1>3, <2>3, <2>6
  <2> QED BY <1>1, <1>3, <2>4, <2>5, <2>8, <2>9, <2>10, <2>11 DEF JobInv, Runs
<1>6. CASE x.at = "done" /\ jobs' = jobs /\ tasks' = tasks \ {x}
  <2>1. ~Runs(x)
    BY <1>6 DEF Runs
  <2> QED BY <1>1, <1>2, <1>3, <1>6, <2>1 DEF JobInv, JobTable, Runs
<1> QED BY <1>1, <1>4, <1>5, <1>6 DEF JobRuns, JobWaits, JobDid, JobWakes, JobReports, Runs

LEMMA StepKeepsJobs ==
    ASSUME JobInv, [ScriptNext]_scriptVars
    PROVE  JobInv'
<1>1. CASE UNCHANGED scriptVars
  BY <1>1, JobsSame DEF scriptVars, shell
<1>2. CASE TypeLine \/ Xargs \/ Diff \/ Collect \/ EndLine
  BY <1>2, JobsSame DEF TypeLine, Xargs, Diff, Collect, EndLine
<1>3. CASE ScriptStep
  BY <1>3, JobsSame DEF ScriptStep, Statement, Command, For, ForItem, GiveUp, StartScript, EndScript
<1> QED BY <1>1, <1>2, <1>3, SegmentKeepsJobs, DispatchKeepsJobs, JobKeepsJobs DEF ScriptNext

(* A slot of bg_jobs is in use exactly while one task has its command to   *)
(* run or was killed with it (run_command_single, bg_task_entry,           *)
(* cmd_taskkill).                                                          *)
THEOREM EverySlotAccounted == ScriptSpec => []JobsAccounted
<1>1. ScriptInit => JobInv
  BY JobsStart DEF ScriptInit
<1>2. JobInv /\ [ScriptNext]_scriptVars => JobInv'
  BY StepKeepsJobs
<1>3. JobInv => JobsAccounted
  <2> SUFFICES ASSUME JobInv, NEW s \in Slots
               PROVE  LET owners == {x \in tasks : x.slot = s /\ x.at # "done"}
                      IN /\ Cardinality(owners) + (IF s \in killed THEN 1 ELSE 0) <= 1
                         /\ jobs[s].active = (owners # {} \/ s \in killed)
    BY DEF JobsAccounted
  <2> DEFINE owners == {x \in tasks : x.slot = s /\ x.at # "done"}
  <2>1. \A x \in owners : x \in tasks /\ Runs(x) /\ x.slot = s
    BY DEF Runs
  <2>2. \A x, y \in owners : x = y
    BY <2>1 DEF JobInv
  <2>3. owners # {} => s \notin killed
    BY <2>1 DEF JobInv
  <2>4. Cardinality(owners) = IF owners = {} THEN 0 ELSE 1
    <3>1. CASE owners = {}
      BY <3>1, FS_EmptySet
    <3>2. CASE owners # {}
      <4>1. PICK x : x \in owners
        BY <3>2
      <4>2. owners = {x}
        BY <2>2, <4>1
      <4> QED BY <3>2, <4>2, FS_Singleton
    <3> QED BY <3>1, <3>2
  <2>5. jobs[s].active \in BOOLEAN
    BY DEF JobInv, JobTable
  <2>6. jobs[s].active <=> owners # {} \/ s \in killed
    BY DEF JobInv, Runs
  <2> QED BY <2>3, <2>4, <2>5, <2>6
<1> QED BY <1>1, <1>2, <1>3, PTL DEF ScriptSpec
-----------------------------------------------------------------------------
(* The variables of scripts that run each other.                           *)

(* What keeps a script the script it was: its kind, the variables saved    *)
(* for it and how it was begun.                                            *)
Kin(f, g) ==
    /\ {"kind", "saved", "from"} \subseteq DOMAIN g
    /\ g.kind = f.kind /\ g.saved = f.saved /\ g.from = f.from
Plain(f) == "kind" \in DOMAIN f /\ f.kind # "script"

LEMMA KinSteps ==
    ASSUME NEW f, NEW g, Kin(f, g)
    PROVE  /\ Kin(f, On(g)) /\ Kin(f, Stop(g)) /\ Kin(f, Again(g)) /\ Kin(f, Counted(g)) 
           /\ \A b : Kin(f, To(g, b)) /\ Kin(f, Answered(g, b))
           /\ \A b, v : Kin(f, Learned(g, b, v))
           /\ \A k : Kin(f, Opens(g, k))
           /\ \A k, c : Kin(f, Closes(g, k, c))
<1>1. Kin(f, On(g)) /\ Kin(f, Stop(g))
  BY DEF Kin, On, Stop
<1>2. Kin(f, Again(g)) /\ Kin(f, Counted(g))
  BY DEF Kin, Again, Counted
<1>3. \A b : Kin(f, To(g, b))
  BY DEF Kin, To
<1>4. \A b, v : Kin(f, Learned(g, b, v))
  BY DEF Kin, Learned
<1>5. \A k : Kin(f, Opens(g, k))
  BY DEF Kin, Opens
<1>6. \A k, c : Kin(f, Closes(g, k, c))
  BY DEF Kin, Closes
<1>7. \A b : Kin(f, Answered(g, b))
  BY <1>4 DEF Answered
<1> QED BY <1>1, <1>2, <1>3, <1>4, <1>5, <1>6, <1>7

LEMMA KinPuts ==
    ASSUME NEW f, NEW g, Kin(f, g)
    PROVE  /\ \A v : Kin(f, [g EXCEPT !.ifs = v]) /\ Kin(f, [g EXCEPT !.whiles = v]) /\ Kin(f, [g EXCEPT !.cases = v])
           /\ \A v : Kin(f, [g EXCEPT !.opened = v]) /\ Kin(f, [g EXCEPT !.tangled = v]) /\ Kin(f, [g EXCEPT !.log = v])
  BY DEF Kin

LEMMA IfKin ==
    ASSUME NEW f, NEW s, Kin(f, f), NEW g \in If(f, s)
    PROVE  Kin(f, g)
<1>1. CASE Len(f.ifs) >= NestMax
  BY <1>1, KinSteps DEF If
<1>2. CASE ~(Len(f.ifs) >= NestMax)
  <2>1. PICK b \in Ask(s.cond) : 
           g = LET u == Opens(To(On(f), f.exec /\ b), "if")
                   h == [u EXCEPT !.ifs = Append(@, [parent |-> f.exec, taken |-> f.exec /\ b, running |-> f.exec /\ b])]
               IN IF f.exec THEN Answered(h, b) ELSE h
    BY <1>2 DEF If
  <2>2. Kin(f, Opens(To(On(f), f.exec /\ b), "if"))
    BY KinSteps
  <2> DEFINE u == Opens(To(On(f), f.exec /\ b), "if")
             v == Append(u.ifs, [parent |-> f.exec, taken |-> f.exec /\ b, running |-> f.exec /\ b])
             h == [u EXCEPT !.ifs = v]
  <2>3. Kin(f, h)
    BY <2>2, KinPuts
  <2>4. g = h \/ g = Answered(h, b)
    BY <2>1
  <2> HIDE DEF h
  <2> QED BY <2>3, <2>4, KinSteps
<1> QED BY <1>1, <1>2

LEMMA ArmKin ==
    ASSUME NEW f, Kin(f, f)
    PROVE  \A b : Kin(f, Arm(f, b)) /\ Kin(f, Arm_(f, b))
<1> SUFFICES ASSUME NEW b PROVE Kin(f, Arm(f, b)) /\ Kin(f, Arm_(f, b))
  OBVIOUS
<1>1. Kin(f, To(On(f), b))
  BY KinSteps
<1> QED BY <1>1 DEF Arm, Arm_, Kin

LEMMA ElseKin ==
    ASSUME NEW f, NEW s, Kin(f, f)
    PROVE  /\ \A g \in Elif(f, s) : g = <<>> \/ Kin(f, g)
           /\ \A g \in Else(f) : g = <<>> \/ Kin(f, g)
<1>1. \A g \in Else(f) : g = <<>> \/ Kin(f, g)
  <2>1. Kin(f, Arm(f, FALSE)) /\ Kin(f, Arm(f, TRUE))
    BY ArmKin
  <2>2. Kin(f, [Arm(f, TRUE) EXCEPT !.ifs[Len(f.ifs)].taken = TRUE])
    BY <2>1 DEF Kin
  <2> QED BY <2>1, <2>2 DEF Else
<1>2. ASSUME NEW b PROVE Kin(f, [Answered(Arm(f, b), b) EXCEPT !.ifs[Len(f.ifs)].taken = b])
  <2>1. Kin(f, Answered(Arm(f, b), b))
    BY ArmKin, KinSteps
  <2> QED BY <2>1 DEF Kin
<1>3. \A g \in Elif(f, s) : g = <<>> \/ Kin(f, g)
  BY <1>2, ArmKin DEF Elif
<1> QED BY <1>1, <1>3

LEMMA FiKin ==
    ASSUME NEW f, NEW g \in Fi(f), Kin(f, f)
    PROVE  g = <<>> \/ Kin(f, g)
<1> DEFINE h == [On(f) EXCEPT !.ifs = Front(f.ifs)]
<1>1. Kin(f, h)
  BY KinSteps, KinPuts
<1>2. g = <<>> \/ \E b, k : g = Closes(To(h, b), "if", k)
  BY DEF Fi
<1> HIDE DEF h
<1> QED BY <1>1, <1>2, KinSteps

LEMMA WhileKin ==
    ASSUME NEW f, NEW s, NEW g \in While(f, s), Kin(f, f)
    PROVE  Kin(f, g)
<1>1. ASSUME NEW u, NEW b, NEW v, Kin(f, u)
      PROVE  Kin(f, Opens([To(On(u), b) EXCEPT !.whiles = Append(@, v)], "while"))
  <2>1. Kin(f, To(On(u), b))
    BY <1>1, KinSteps
  <2>2. Kin(f, [To(On(u), b) EXCEPT !.whiles = Append(@, v)])
    BY <2>1 DEF Kin
  <2> QED BY <2>2, KinSteps
<1> DEFINE w == [start |-> f.pc + 1, cond |-> s.cond, until |-> s.until, parent |-> f.exec, running |-> FALSE, turns |-> 0]
           Begun(u, b) == Opens([To(On(u), b) EXCEPT !.whiles = Append(@, [w EXCEPT !.running = b])], "while")
<1>2. g = Stop(f) \/ g = Begun(f, FALSE) \/ \E b : g = Begun(Answered(f, b), Goes(w, b))
  BY Zenon DEF While
<1>3. \A u, b : Kin(f, u) => Kin(f, Begun(u, b))
  BY <1>1
<1> HIDE DEF Begun, w
<1>4. Kin(f, Begun(f, FALSE)) /\ \A b : Kin(f, Begun(Answered(f, b), Goes(w, b)))
  BY <1>3, KinSteps
<1> QED BY <1>2, <1>4, KinSteps

LEMMA DoneKin ==
    ASSUME NEW f, NEW g \in Done(f), Kin(f, f)
    PROVE  g = <<>> \/ Kin(f, g)
<1> DEFINE up == Front(f.whiles)
           w == Last(f.whiles)
           h == [On(f) EXCEPT !.whiles = up]
           Over(x) == CASE up # <<>> -> Closes(To(x, Last(up).running), "while", "while")
                        [] up = <<>> /\ f.ifs # <<>> -> Closes(To(x, Last(f.ifs).running), "while", "if")
                        [] OTHER -> Closes(To(x, TRUE), "while", "none")
           Long == [To(h, w.parent) EXCEPT !.opened = Front(@), !.tangled = @ \/ Last(f.opened) # "while"]
<1>1. \/ g = <<>> \/ g = Over(h) \/ g = Long
      \/ \E b : g = Again(Counted(Answered(f, b))) \/ g = Over(Answered(h, b))
  BY Zenon DEF Done
<1>2. Kin(f, h)
  BY KinSteps, KinPuts
<1>3. ASSUME NEW x, Kin(f, x) PROVE Kin(f, Over(x))
  <2>1. \A b, k : Kin(f, Closes(To(x, b), "while", k))
    BY <1>3, KinSteps
  <2> QED BY <2>1
<1>4. Kin(f, Long)
  <2> HIDE DEF h, w
  <2>1. Kin(f, To(h, w.parent))
    BY <1>2, KinSteps
  <2> QED BY <2>1 DEF Kin
<1> HIDE DEF h, Over, Long
<1>5. \A b : Kin(f, Answered(h, b)) /\ Kin(f, Again(Counted(Answered(f, b))))
  BY <1>2, KinSteps
<1> QED BY <1>1, <1>2, <1>3, <1>4, <1>5

LEMMA LeftKin ==
    ASSUME NEW f, NEW g, Kin(f, g)
    PROVE  Kin(f, Left(g))
  BY DEF Left, To, Kin

LEMMA BreakKin ==
    ASSUME NEW f, NEW g \in Break(f), Kin(f, f)
    PROVE  g = <<>> \/ Kin(f, g)
<1>1. Kin(f, On(f)) /\ Kin(f, Left(On(f)))
  BY KinSteps, LeftKin
<1> DEFINE h == [Left(On(f)) EXCEPT !.tangled = @ \/ Len(Inside(f)) > 1 \/ Inside(f) = <<"case">>]
<1>2. Kin(f, h)
  BY <1>1, KinPuts
<1>3. g = <<>> \/ g = On(f) \/ g = h
  BY DEF Break
<1> HIDE DEF h
<1> QED BY <1>1, <1>2, <1>3

LEMMA ContinueKin ==
    ASSUME NEW f, NEW g \in Continue_(f), Kin(f, f)
    PROVE  g = <<>> \/ Kin(f, g)
<1> DEFINE h == [f EXCEPT !.tangled = @ \/ Inside(f) # <<>> \/ TooLong(f)]
           u == [On(h) EXCEPT !.whiles = Front(@)]
<1>1. Kin(f, h)
  BY KinPuts
<1>2. Kin(f, u)
  <2> HIDE DEF h
  <2>1. Kin(f, On(h))
    BY <1>1, KinSteps
  <2> QED BY <2>1, KinPuts
<1>3. \/ g = <<>> \/ g = On(f) \/ g = To(u, Last(f.whiles).parent)
      \/ \E b : g = Again(Counted(Answered(h, b))) \/ g = Left(On(Counted(Answered(h, b))))
  BY Zenon DEF Continue_
<1> HIDE DEF h, u
<1>4. \A b : Kin(f, Counted(Answered(h, b)))
  BY <1>1, KinSteps
<1>5. \A b : Kin(f, Again(Counted(Answered(h, b)))) /\ Kin(f, On(Counted(Answered(h, b))))
  BY <1>4, KinSteps
<1> QED BY <1>1, <1>2, <1>3, <1>5, KinSteps, LeftKin

LEMMA CaseKin ==
    ASSUME NEW f, NEW s, Kin(f, f)
    PROVE  /\ \A g \in Case(f, s) : Kin(f, g)
           /\ \A g \in Label(f, s) : Kin(f, g)
           /\ \A g \in NextArm(f) : Kin(f, g)
           /\ \A g \in Esac(f) : g = <<>> \/ Kin(f, g)
<1>1. \A g \in Case(f, s) : Kin(f, g)
  <2>1. Kin(f, To(On(f), FALSE))
    BY KinSteps
  <2>2. ASSUME NEW v PROVE Kin(f, Opens([To(On(f), FALSE) EXCEPT !.cases = Append(@, v)], "case"))
    <3>1. Kin(f, [To(On(f), FALSE) EXCEPT !.cases = Append(@, v)])
      BY <2>1, KinPuts
    <3> QED BY <3>1, KinSteps
  <2> DEFINE Begun(v) == Opens([To(On(f), FALSE) EXCEPT !.cases = Append(@, v)], "case")
  <2>3. ASSUME NEW g \in Case(f, s)
        PROVE  g = Stop(f) \/ \E v : g = Begun(v) \/ \E b, y : g = Learned(Begun(v), b, y)
    BY Zenon DEF Case
  <2>4. \A v : Kin(f, Begun(v))
    BY <2>2
  <2> HIDE DEF Begun
  <2>5. \A v, b, y : Kin(f, Learned(Begun(v), b, y))
    BY <2>4, KinSteps
  <2> QED BY <2>3, <2>4, <2>5, KinSteps
<1>2. \A g \in Label(f, s) : Kin(f, g)
  BY ArmKin, KinSteps DEF Label
<1>3. \A g \in NextArm(f) : Kin(f, g)
  <2>1. Kin(f, Arm_(f, FALSE))
    BY ArmKin
  <2>2. Kin(f, [Arm_(f, FALSE) EXCEPT !.cases[Len(f.cases)].matched = @ \/ Last(f.cases).running])
    BY <2>1 DEF Kin
  <2> QED BY <2>2, KinSteps DEF NextArm
<1>4. \A g \in Esac(f) : g = <<>> \/ Kin(f, g)
  <2>1. Kin(f, To(On(f), Last(f.cases).parent))
    BY KinSteps
  <2> DEFINE h == [To(On(f), Last(f.cases).parent) EXCEPT !.cases = Front(@)]
  <2>2. Kin(f, h)
    BY <2>1, KinPuts
  <2>3. \A g \in Esac(f) : g = <<>> \/ \E k : g = Closes(h, "case", k)
    BY Zenon DEF Esac
  <2> HIDE DEF h
  <2>4. \A k : Kin(f, Closes(h, "case", k))
    BY <2>2, KinSteps
  <2> QED BY <2>3, <2>4
<1> QED BY <1>1, <1>2, <1>3, <1>4

(* No statement makes another script of the one it stands in.              *)
LEMMA AfterKin ==
    ASSUME NEW f, NEW s, Kin(f, f), IsControl(f, s), NEW g \in After(f, s)
    PROVE  g = <<>> \/ Kin(f, g)
<1>1. g \in If(f, s) \cup Elif(f, s) \cup Else(f) \cup Fi(f) \cup While(f, s) \cup Done(f) \cup Break(f)
             \cup Continue_(f) \cup Case(f, s) \cup Label(f, s) \cup NextArm(f) \cup Esac(f)
  BY DEF After, Control, IsControl
<1> QED BY <1>1, IfKin, ElseKin, FiKin, WhileKin, DoneKin, BreakKin, ContinueKin, CaseKin
-----------------------------------------------------------------------------
(* A script keeps the variables it found, unless it shares its caller's.   *)
Framed(f) ==
    /\ "kind" \in DOMAIN f
    /\ f.kind = "script" => /\ {"saved", "from"} \subseteq DOMAIN f
                            /\ {f.from.shared, f.from.source} \subseteq BOOLEAN
                            /\ ~f.from.shared => f.saved = <<f.from.env>>
Stacked(s) == \E X : s \in Seq(X) /\ \A f \in X : Framed(f)
(* From a sourced script on, every script shares the variables.            *)
Sheltered(s, k) ==
    /\ k \in DOMAIN s /\ s[k].kind = "script" /\ s[k].from.source
    /\ \A j \in k .. Len(s) : s[j].kind = "script" => s[j].from.shared

ScopeInv ==
    /\ Stacked(stack) /\ sourcing \in BOOLEAN
    /\ sourcing => \E k : Sheltered(stack, k)
    /\ ScopesKept

LEMMA KinFramed ==
    ASSUME NEW f, NEW g, Kin(f, g), Framed(f)
    PROVE  Framed(g)
  BY DEF Kin, Framed

LEMMA PlainFramed ==
    ASSUME NEW f, Plain(f)
    PROVE  Framed(f)
  BY DEF Plain, Framed

LEMMA LastFront ==
    ASSUME NEW X, NEW s \in Seq(X), s # <<>>
    PROVE  /\ Len(s) \in Nat \ {0} /\ Last(s) = s[Len(s)] /\ Last(s) \in X
           /\ Front(s) \in Seq(X) /\ Len(Front(s)) = Len(s) - 1
           /\ \A i \in 1 .. Len(s) - 1 : Front(s)[i] = s[i]
<1>1. Len(s) \in Nat \ {0} /\ \A i \in 1 .. Len(s) : s[i] \in X
  OBVIOUS
<1>2. /\ SubSeq(s, 1, Len(s) - 1) \in Seq(X) /\ Len(SubSeq(s, 1, Len(s) - 1)) = Len(s) - 1
      /\ \A i \in 1 .. Len(s) - 1 : SubSeq(s, 1, Len(s) - 1)[i] = s[i]
  <2>1. 1 \in Int /\ Len(s) - 1 \in Int /\ \A i \in 1 .. Len(s) - 1 : s[i] \in X
    BY <1>1
  <2> DEFINE m == Len(s) - 1
             u == SubSeq(s, 1, m)
  <2>2. /\ u \in Seq(X) /\ Len(u) = IF 1 <= m THEN m - 1 + 1 ELSE 0
        /\ \A i \in 1 .. m - 1 + 1 : u[i] = s[1 + i - 1]
    BY <2>1, SubSeqProperties
  <2>3. m \in Nat /\ m - 1 + 1 = m /\ \A i \in 1 .. m : 1 + i - 1 = i
    BY <1>1
  <2> HIDE DEF m, u
  <2>4. Len(u) = m /\ \A i \in 1 .. m : u[i] = s[i]
    BY <2>2, <2>3
  <2> QED BY <2>2, <2>4 DEF m, u
<1> QED BY <1>1, <1>2 DEF Last, Front

(* What takes the place of the innermost frame: first the frame itself,    *)
(* if it is a script, then frames that are none.                           *)
Heirs(f, fs) ==
    /\ fs \in Seq({fs[i] : i \in DOMAIN fs}) /\ \A i \in DOMAIN fs : Framed(fs[i])
    /\ \A i \in DOMAIN fs : fs[i].kind = "script" => i = 1 /\ f.kind = "script" /\ fs[1].from = f.from
    /\ f.kind = "script" => fs # <<>> /\ fs[1].kind = "script" /\ fs[1].from = f.from

LEMMA HeirsFollow ==
    ASSUME NEW s, s # <<>>, Stacked(s), NEW fs, Heirs(Last(s), fs)
    PROVE  /\ Stacked(Front(s) \o fs)
           /\ \A k : Sheltered(s, k) => Sheltered(Front(s) \o fs, k)
<1>1. PICK X : s \in Seq(X) /\ \A f \in X : Framed(f)
  BY DEF Stacked
<1> DEFINE Y == {fs[i] : i \in DOMAIN fs}
           n == Len(s)
           t == Front(s) \o fs
<1>2. /\ n \in Nat \ {0} /\ Last(s) = s[n]
      /\ Front(s) \in Seq(X) /\ Len(Front(s)) = n - 1
      /\ \A i \in 1 .. n - 1 : Front(s)[i] = s[i]
  BY <1>1, LastFront
<1>3. fs \in Seq(Y) /\ \A f \in Y : Framed(f)
  BY DEF Heirs
<1> HIDE DEF Y, n
<1>4. /\ t \in Seq(X \cup Y) /\ Len(t) = n - 1 + Len(fs)
      /\ \A i \in 1 .. n - 1 : t[i] = s[i]
      /\ \A j \in n .. Len(t) : t[j] = fs[j - n + 1]
  BY <1>2, <1>3
<1>5. Stacked(t)
  BY <1>1, <1>3, <1>4 DEF Stacked
<1>6. ASSUME NEW k, Sheltered(s, k) PROVE Sheltered(t, k)
  <2> HIDE DEF t
  <2>1. k \in 1 .. n /\ s[k].kind = "script" /\ s[k].from.source
    BY <1>1, <1>6 DEF Sheltered, n
  <2>2. \A j \in k .. n : s[j].kind = "script" => s[j].from.shared
    BY <1>6 DEF Sheltered, n
  <2>3. Len(fs) \in Nat /\ DOMAIN fs = 1 .. Len(fs)
    BY <1>3
  <2>4. \A i \in 1 .. Len(fs) : fs[i].kind = "script" => i = 1 /\ s[n].kind = "script" /\ fs[i].from = s[n].from
    BY <1>2, <2>3 DEF Heirs
  <2>5. s[n].kind = "script" => 1 \in 1 .. Len(fs) /\ fs[1].kind = "script" /\ fs[1].from = s[n].from
    BY <1>2, <1>3, <2>3 DEF Heirs
  <2>6. k \in DOMAIN t /\ t[k].kind = "script" /\ t[k].from.source
    <3>1. CASE k < n
      BY <1>2, <1>4, <2>1, <2>3, <3>1
    <3>2. CASE k = n
      <4>1. n \in n .. Len(t) /\ n - n + 1 = 1 /\ DOMAIN t = 1 .. Len(t)
        BY <1>2, <1>4, <2>1, <2>3, <2>5, <3>2
      <4>2. t[n] = fs[1]
        BY <1>4, <4>1
      <4> QED BY <1>2, <2>1, <2>5, <3>2, <4>1, <4>2
    <3> QED BY <1>2, <2>1, <3>1, <3>2
  <2>7. ASSUME NEW j \in k .. Len(t), t[j].kind = "script" PROVE t[j].from.shared
    <3>1. CASE j < n
      BY <1>2, <1>4, <2>1, <2>2, <2>7, <3>1
    <3>2. CASE ~(j < n)
      <4>1. j \in n .. Len(t) /\ j - n + 1 \in 1 .. Len(fs)
        BY <1>2, <1>4, <2>1, <2>3, <2>7, <3>2
      <4>2. t[j] = fs[j - n + 1]
        BY <1>4, <4>1
      <4> QED BY <1>2, <2>1, <2>2, <2>4, <2>7, <4>1, <4>2
    <3> QED BY <3>1, <3>2
  <2> QED BY <2>6, <2>7 DEF Sheltered
<1> QED BY <1>5, <1>6

LEMMA HeirsAre ==
    ASSUME NEW f, Framed(f), NEW g, NEW h, Plain(h)
    PROVE  /\ Kin(f, g) => Heirs(f, <<g>>) /\ Heirs(f, <<g, h>>)
           /\ Plain(f) /\ Plain(g) => Heirs(f, <<g>>) /\ Heirs(f, <<g, h>>)
           /\ Plain(f) => Heirs(f, <<>>)
<1>1. <<g>> \in Seq({<<g>>[i] : i \in DOMAIN <<g>>}) /\ <<g, h>> \in Seq({<<g, h>>[i] : i \in DOMAIN <<g, h>>})
  OBVIOUS
<1>2. Framed(h) /\ (Kin(f, g) \/ Plain(g) => Framed(g))
  BY KinFramed, PlainFramed
<1>3. ASSUME Kin(f, g) PROVE Heirs(f, <<g>>) /\ Heirs(f, <<g, h>>)
  BY <1>1, <1>2, <1>3 DEF Heirs, Kin, Plain
<1>4. ASSUME Plain(f), Plain(g) PROVE Heirs(f, <<g>>) /\ Heirs(f, <<g, h>>)
  BY <1>1, <1>2, <1>4 DEF Heirs, Plain
<1>5. ASSUME Plain(f) PROVE Heirs(f, <<>>)
  BY <1>5 DEF Heirs, Plain
<1> QED BY <1>3, <1>4, <1>5

LEMMA TopFramed ==
    ASSUME ScopeInv, stack # <<>>
    PROVE  Framed(Top)
<1>1. PICK X : stack \in Seq(X) /\ \A f \in X : Framed(f)
  BY DEF ScopeInv, Stacked
<1> QED BY <1>1, LastFront DEF Top

LEMMA StackSame ==
    ASSUME ScopeInv, UNCHANGED stack, UNCHANGED scripting
    PROVE  ScopeInv'
  BY DEF ScopeInv, ScopesKept, scripting

(* A step that leaves the scripts that run the ones they are.              *)
LEMMA StackGoesOn ==
    ASSUME ScopeInv, stack # <<>>, NEW fs, Heirs(Top, fs), stack' = Under \o fs, UNCHANGED scripting
    PROVE  ScopeInv'
<1>1. Stacked(stack') /\ \A k : Sheltered(stack, k) => Sheltered(stack', k)
  BY HeirsFollow DEF ScopeInv, Top, Under
<1>2. sourcing' \in BOOLEAN /\ ScopesKept'
  BY DEF ScopeInv, ScopesKept, scripting
<1>3. sourcing' => \E k : Sheltered(stack, k)
  BY DEF ScopeInv, scripting
<1> QED BY <1>1, <1>2, <1>3 DEF ScopeInv

LEMMA TopChanges ==
    ASSUME ScopeInv, stack # <<>>, NEW g, NEW h, Plain(h), Kin(Top, g) \/ (Plain(Top) /\ Plain(g)),
           stack' = Append(Under, g) \/ stack' = Under \o <<g, h>>, UNCHANGED scripting
    PROVE  ScopeInv'
<1>1. Heirs(Top, <<g>>) /\ Heirs(Top, <<g, h>>)
  BY TopFramed, HeirsAre
<1>2. Append(Under, g) = Under \o <<g>>
  <2>1. PICK X : stack \in Seq(X)
    BY DEF ScopeInv, Stacked
  <2>2. Under \in Seq(X)
    BY <2>1, LastFront DEF Under
  <2> QED BY <2>2
<1> QED BY <1>1, <1>2, StackGoesOn

LEMMA TopEnds ==
    ASSUME ScopeInv, stack # <<>>, Plain(Top), stack' = Under, UNCHANGED scripting
    PROVE  ScopeInv'
<1>1. Heirs(Top, <<>>)
  BY TopFramed, HeirsAre
<1>2. Under = Under \o <<>>
  <2>1. PICK X : stack \in Seq(X)
    BY DEF ScopeInv, Stacked
  <2>2. Under \in Seq(X)
    BY <2>1, LastFront DEF Under
  <2> QED BY <2>2, ConcatEmptySeq
<1> QED BY <1>1, <1>2, StackGoesOn

LEMMA TopPlain ==
    ASSUME ScopeInv, stack # <<>>, Top.kind # "script"
    PROVE  Plain(Top)
  BY TopFramed DEF Framed, Plain

LEMMA PlainFrames ==
    /\ Plain(Call) /\ \A ts : Plain(Line(ts))
    /\ \A ts, e : Plain([Line(ts) EXCEPT !.from.env = e])
    /\ \A n, is, l : Plain([kind |-> "for", name |-> n, items |-> is, line |-> l])
    /\ \A c, ls : Plain([kind |-> "xargs", c |-> c, ls |-> ls])
    /\ \A i, j, t, u : Plain([kind |-> "diff", i |-> i, j |-> j, t |-> t, u |-> u])
  BY DEF Plain, Call, Line

LEMMA PlainChanges ==
    ASSUME NEW f, Plain(f)
    PROVE  /\ \A v : Plain([f EXCEPT !.segs = v])
           /\ \A a, b, c : Plain([f EXCEPT !.step = a, !.how = b, !.rest = c])
           /\ \A b, c : Plain([f EXCEPT !.how = b, !.rest = c])
           /\ \A v : Plain([f EXCEPT !.items = v])
           /\ \A v : Plain([f EXCEPT !.ls = v])
           /\ \A v, w : Plain([f EXCEPT !.i = v, !.j = w])
  BY DEF Plain

LEMMA SegmentKeepsScopes ==
    ASSUME ScopeInv, TakeSegment, UNCHANGED scripting
    PROVE  ScopeInv'
<1> DEFINE f == [Top EXCEPT !.segs = Tail(@)]
<1>1. stack # <<>> /\ Plain(Top)
  BY TopPlain DEF TakeSegment
<1>2. Plain(f)
  BY <1>1, PlainChanges
<1>3. stack' = Append(Under, f) \/ \E a, b, c : stack' = Under \o <<[f EXCEPT !.step = a, !.how = b, !.rest = c], Call>>
  <2> HIDE DEF f
  <2>1. stack' = Append(Under, f) \/ \E words : Single(f, words)
    BY Zenon DEF TakeSegment, f
  <2>2. ASSUME NEW words, Single(f, words), stack' # Append(Under, f)
        PROVE  \E a, b, c : stack' = Under \o <<[f EXCEPT !.step = a, !.how = b, !.rest = c], Call>>
    <3>1. ~Complain(f) /\ \A ts : ~StartJob(f, ts)
      BY <2>2, Zenon DEF Complain, StartJob
    <3>2. \A how, t, rest, x : Begin(f, how, t, rest, x) =>
             stack' = Under \o <<[f EXCEPT !.step = "collect", !.how = how, !.rest = rest], Call>>
      BY DEF Begin
    <3>3. \E ts : StartStages(f, ts)
      BY <2>2, <3>1, Zenon DEF Single
    <3>4. PICK how, t, rest, x : Begin(f, how, t, rest, x)
      BY <3>1, <3>3, Zenon DEF StartStages
    <3>5. stack' = Under \o <<[f EXCEPT !.step = "collect", !.how = how, !.rest = rest], Call>>
      BY <3>2, <3>4
    <3> QED BY <3>5, Zenon
  <2> QED BY <2>1, <2>2
<1> HIDE DEF f
<1>4. \A a, b, c : Plain([f EXCEPT !.step = a, !.how = b, !.rest = c])
  BY <1>2, PlainChanges
<1> QED BY <1>1, <1>2, <1>3, <1>4, TopChanges, PlainFrames

LEMMA DispatchKeepsScopes ==
    ASSUME ScopeInv, Dispatch, UNCHANGED scripting
    PROVE  ScopeInv'
<1>1. stack # <<>> /\ Plain(Top)
  BY TopPlain DEF Dispatch
<1>2. \/ stack' = Under
      \/ \E c, ls : stack' = Append(Under, [kind |-> "xargs", c |-> c, ls |-> ls])
      \/ \E i, j, t, u : stack' = Append(Under, [kind |-> "diff", i |-> i, j |-> j, t |-> t, u |-> u])
  <2>1. ASSUME NEW c, Run(c)
        PROVE  \/ stack' = Under
               \/ \E d, ls : stack' = Append(Under, [kind |-> "xargs", c |-> d, ls |-> ls])
               \/ \E i, j, t, u : stack' = Append(Under, [kind |-> "diff", i |-> i, j |-> j, t |-> t, u |-> u])
    BY <2>1, Zenon DEF Run
  <2> QED BY <2>1, Zenon DEF Dispatch
<1> QED BY <1>1, <1>2, TopChanges, TopEnds, PlainFrames

LEMMA CommandsKeepScopes ==
    ASSUME ScopeInv, UNCHANGED scripting, Xargs \/ Diff \/ Collect \/ EndLine
    PROVE  ScopeInv'
<1>1. stack # <<>> /\ Plain(Top)
  BY TopPlain DEF Xargs, Diff, Collect, EndLine
<1>2. CASE Xargs
  <2>1. stack' = Under \/ stack' = Under \o <<[Top EXCEPT !.ls = Tail(@)], Call>>
    BY <1>2 DEF Xargs
  <2> QED BY <1>1, <2>1, TopChanges, TopEnds, PlainFrames, PlainChanges
<1>3. CASE Diff
  <2>1. stack' = Under \/ \E i, j : stack' = Append(Under, [Top EXCEPT !.i = i, !.j = j])
    BY <1>3, Zenon DEF Diff
  <2> QED BY <1>1, <2>1, TopChanges, TopEnds, PlainFrames, PlainChanges
<1>4. CASE Collect
  <2>1. \/ \E b, c : stack' = Under \o <<[Top EXCEPT !.how = b, !.rest = c], Call>>
        \/ \E a, b, c : stack' = Append(Under, [Top EXCEPT !.step = a, !.how = b, !.rest = c])
    BY <1>4, Zenon DEF Collect
  <2> QED BY <1>1, <2>1, TopChanges, PlainFrames, PlainChanges
<1>5. CASE EndLine
  BY <1>1, <1>5, TopEnds DEF EndLine
<1> QED BY <1>2, <1>3, <1>4, <1>5

LEMMA StatementKeepsScopes ==
    ASSUME ScopeInv, Statement \/ Command \/ For \/ ForItem \/ GiveUp
    PROVE  ScopeInv'
<1>1. stack # <<>> /\ Framed(Top) /\ UNCHANGED scripting
  BY TopFramed DEF Statement, Command, For, ForItem, GiveUp, AtScript, scripting
<1>2. CASE Top.kind = "script"
  <2>1. Kin(Top, Top)
    BY <1>1, <1>2 DEF Kin, Framed
  <2>2. Kin(Top, On(Top)) /\ Kin(Top, Stop(Top))
    BY <2>1, KinSteps
  <2>3. CASE Statement
    <3>1. PICK g \in After(Top, Now) : stack' = Append(Under, IF g = <<>> THEN [On(Top) EXCEPT !.tangled = TRUE] ELSE g)
      BY <2>3, Zenon DEF Statement
    <3>2. g = <<>> \/ Kin(Top, g)
      BY <2>1, <2>3, AfterKin DEF Statement
    <3>3. Kin(Top, [On(Top) EXCEPT !.tangled = TRUE])
      BY <2>2, KinPuts
    <3> QED BY <1>1, <3>1, <3>2, <3>3, TopChanges, PlainFrames
  <2>4. CASE Command
    <3>1. \/ stack' = Append(Under, On(Top)) \/ stack' = Append(Under, Stop(Top))
          \/ \E v, ts : stack' = Under \o <<[On(Top) EXCEPT !.log = v], Line(ts)>>
      BY <2>4, Zenon DEF Command
    <3>2. \A v : Kin(Top, [On(Top) EXCEPT !.log = v])
      BY <2>2, KinPuts
    <3> QED BY <1>1, <2>2, <3>1, <3>2, TopChanges, PlainFrames
  <2>5. CASE For
    <3>1. \/ stack' = Append(Under, On(Top))
          \/ \E n, is, l : stack' = Under \o <<On(Top), [kind |-> "for", name |-> n, items |-> is, line |-> l]>>
      BY <2>5, Zenon DEF For
    <3> QED BY <1>1, <2>2, <3>1, TopChanges, PlainFrames
  <2>6. CASE GiveUp
    BY <1>1, <2>2, <2>6, TopChanges, PlainFrames DEF GiveUp
  <2>7. ~ForItem
    BY <1>2 DEF ForItem
  <2> QED BY <2>3, <2>4, <2>5, <2>6, <2>7
<1>3. CASE Top.kind # "script"
  <2>1. ForItem /\ Plain(Top)
    BY <1>1, <1>3, TopPlain DEF Statement, Command, For, GiveUp, AtScript
  <2>2. \/ stack' = Under
        \/ \E v, ts, e : stack' = Under \o <<[Top EXCEPT !.items = v], [Line(ts) EXCEPT !.from.env = e]>>
    BY <2>1, Zenon DEF ForItem
  <2> QED BY <1>1, <2>1, <2>2, TopChanges, TopEnds, PlainFrames, PlainChanges
<1> QED BY <1>2, <1>3

(* A script that begins.                                                   *)
LEMMA StartKeepsScopes ==
    ASSUME ScopeInv, StartScript
    PROVE  ScopeInv'
<1>1. stack # <<>> /\ Plain(Top) /\ ran' = ran
  BY TopPlain DEF StartScript
<1>2. PICK source \in BOOLEAN :
         \/ stack' = Under /\ sourcing' = (sourcing /\ ~source)
         \/ /\ sourcing' = (sourcing \/ source)
            /\ \E text : stack' = Append(Under, Script(text, IF sourcing' THEN <<>> ELSE <<env>>,
                                                       [env |-> env, source |-> source, shared |-> sourcing']))
  BY Zenon DEF StartScript
<1>3. PICK X : stack \in Seq(X) /\ \A f \in X : Framed(f)
  BY DEF ScopeInv, Stacked
<1>4. sourcing \in BOOLEAN /\ sourcing' \in BOOLEAN /\ ScopesKept'
  BY <1>1, <1>2 DEF ScopeInv, ScopesKept
<1>5. /\ Len(stack) \in Nat \ {0} /\ Under \in Seq(X) /\ Len(Under) = Len(stack) - 1 
      /\ \A i \in 1 .. Len(stack) - 1 : Under[i] = stack[i]
      /\ Top = stack[Len(stack)]
  BY <1>1, <1>3, LastFront DEF Under, Top
<1>6. CASE stack' = Under /\ sourcing' = (sourcing /\ ~source)
  <2>1. Stacked(stack')
    BY <1>3, <1>5, <1>6 DEF Stacked
  <2>2. \A k : Sheltered(stack, k) => Sheltered(stack', k)
    BY <1>1, <1>3, <1>5, <1>6 DEF Sheltered, Plain
  <2> QED BY <1>4, <1>6, <2>1, <2>2 DEF ScopeInv
<1>7. CASE /\ sourcing' = (sourcing \/ source)
           /\ \E text : stack' = Append(Under, Script(text, IF sourcing' THEN <<>> ELSE <<env>>,
                                                      [env |-> env, source |-> source, shared |-> sourcing']))
  <2> PICK text : stack' = Append(Under, Script(text, IF sourcing' THEN <<>> ELSE <<env>>,
                                                [env |-> env, source |-> source, shared |-> sourcing']))
    BY <1>7
  <2> DEFINE g == Script(text, IF sourcing' THEN <<>> ELSE <<env>>, [env |-> env, source |-> source, shared |-> sourcing'])
             n == Len(stack)
  <2>1. /\ Framed(g) /\ g.kind = "script" /\ (g.from.source <=> source) /\ (g.from.shared <=> sourcing')
    BY <1>4 DEF Script, Framed
  <2>2. /\ stack' \in Seq(X \cup {g}) /\ Len(stack') = n /\ stack'[n] = g
        /\ \A i \in 1 .. n - 1 : stack'[i] = stack[i]
    <3> HIDE DEF g
    <3>1. stack' = Append(Under, g)
      BY DEF g
    <3> QED BY <1>5, <3>1
  <2> HIDE DEF g
  <2>3. Stacked(stack')
    BY <1>3, <2>1, <2>2 DEF Stacked
  <2>4. (source \/ sourcing) => sourcing'
    BY <1>7, Zenon
  <2>5. n \in Nat \ {0} /\ DOMAIN stack' = 1 .. n
    BY <1>5, <2>2
  <2> HIDE DEF n
  <2>6. CASE source
    <3>1. \A j \in n .. Len(stack') : j = n
      BY <2>2, <2>5
    <3>2. stack'[n].kind = "script" /\ stack'[n].from.source /\ stack'[n].from.shared
      BY <2>1, <2>2, <2>6, <2>4
    <3>3. Sheltered(stack', n)
      BY <2>5, <3>1, <3>2 DEF Sheltered
    <3> QED BY <1>4, <2>3, <3>3 DEF ScopeInv
  <2>7. CASE ~source
    <3>1. ASSUME sourcing, NEW k, Sheltered(stack, k) PROVE Sheltered(stack', k)
      <4>1. k \in 1 .. n - 1
        BY <1>1, <1>3, <1>5, <3>1 DEF Sheltered, Plain, n
      <4>2. \A j \in k .. n - 1 : stack'[j].kind = "script" => stack'[j].from.shared
        BY <1>5, <2>2, <2>5, <3>1, <4>1 DEF Sheltered, n
      <4>3. stack'[n].from.shared
        BY <2>1, <2>2, <2>4, <3>1
      <4>4. \A j \in k .. Len(stack') : j \in k .. n - 1 \/ j = n
        BY <2>2, <2>5, <4>1
      <4>5. k \in DOMAIN stack' /\ stack'[k].kind = "script" /\ stack'[k].from.source
        BY <2>2, <2>5, <3>1, <4>1 DEF Sheltered
      <4> QED BY <4>2, <4>3, <4>4, <4>5 DEF Sheltered
    <3> QED BY <1>4, <1>7, <2>3, <2>7, <3>1 DEF ScopeInv
  <2> QED BY <2>6, <2>7
<1> QED BY <1>2, <1>6, <1>7

(* A script that ends.                                                     *)
LEMMA EndKeepsScopes ==
    ASSUME ScopeInv, EndScript
    PROVE  ScopeInv'
<1>1. /\ stack # <<>> /\ Top.kind = "script" /\ stack' = Under
      /\ sourcing' = (sourcing /\ ~Top.from.source)
      /\ env' = PutBack(Top) /\ ran' = [Top EXCEPT !.saved = <<env'>>]
  BY DEF EndScript
<1>2. PICK X : stack \in Seq(X) /\ \A f \in X : Framed(f)
  BY DEF ScopeInv, Stacked
<1>3. /\ Len(stack) \in Nat \ {0} /\ Under \in Seq(X) /\ Len(Under) = Len(stack) - 1 
      /\ \A i \in 1 .. Len(stack) - 1 : Under[i] = stack[i]
      /\ Top = stack[Len(stack)] /\ Top \in X
  BY <1>1, <1>2, LastFront DEF Under, Top
<1>4. /\ {"saved", "from"} \subseteq DOMAIN Top /\ {Top.from.shared, Top.from.source} \subseteq BOOLEAN
      /\ ~Top.from.shared => Top.saved = <<Top.from.env>>
  BY <1>1, <1>2, <1>3 DEF Framed
<1>5. Stacked(stack') /\ sourcing' \in BOOLEAN
  BY <1>1, <1>2, <1>3 DEF Stacked, ScopeInv
<1>6. ASSUME sourcing' PROVE \E k : Sheltered(stack', k)
  <2> sourcing /\ ~Top.from.source
    BY <1>1, <1>6, Zenon
  <2>1. PICK k : Sheltered(stack, k)
    BY DEF ScopeInv
  <2>2. k \in 1 .. Len(stack) - 1
    BY <1>2, <1>3, <2>1 DEF Sheltered
  <2>3. Sheltered(stack', k)
    BY <1>1, <1>2, <1>3, <2>1, <2>2 DEF Sheltered
  <2> QED BY <2>3
<1>7. ASSUME ~Top.from.shared PROVE env' = Top.from.env
  <2>1. ~sourcing
    <3>1. \A k : ~Sheltered(stack, k)
      BY <1>1, <1>2, <1>3, <1>7 DEF Sheltered
    <3> QED BY <3>1 DEF ScopeInv
  <2> QED BY <1>1, <1>4, <1>7, <2>1 DEF PutBack
<1>8. ran'.from = Top.from /\ ran'.saved = <<env'>>
  BY <1>1, <1>4
<1>9. ScopesKept'
  BY <1>7, <1>8 DEF ScopesKept
<1> QED BY <1>5, <1>6, <1>9 DEF ScopeInv

(* Nothing is sourced at the prompt.                                       *)
LEMMA TypedKeepsScopes ==
    ASSUME ScopeInv, TypeLine, UNCHANGED scripting
    PROVE  ScopeInv'
<1>1. PICK ts : stack = <<>> /\ stack' = <<Line(ts)>>
  BY DEF TypeLine
<1>2. ~sourcing
  BY <1>1 DEF ScopeInv, Sheltered
<1>3. Framed(Line(ts))
  BY PlainFrames, PlainFramed
<1> HIDE DEF Line
<1>4. stack' \in Seq({Line(ts)})
  BY <1>1
<1>5. Stacked(stack')
  BY <1>3, <1>4 DEF Stacked
<1>6. sourcing' = sourcing /\ ran' = ran
  BY DEF scripting
<1> QED BY <1>2, <1>5, <1>6 DEF ScopeInv, ScopesKept

LEMMA StepKeepsScopes ==
    ASSUME ScopeInv, [ScriptNext]_scriptVars
    PROVE  ScopeInv'
<1>1. CASE UNCHANGED scriptVars
  BY <1>1, StackSame DEF scriptVars, shell, scripting
<1>2. CASE Job /\ UNCHANGED scripting
  BY <1>2, StackSame DEF Job
<1>3. CASE ScriptStep
  BY <1>3, StatementKeepsScopes, StartKeepsScopes, EndKeepsScopes DEF ScriptStep
<1> QED BY <1>1, <1>2, <1>3, TypedKeepsScopes, SegmentKeepsScopes, DispatchKeepsScopes, CommandsKeepScopes DEF ScriptNext

(* The variables that a script changed are put back when it ends, in order *)
(* or not, unless it was sourced or is run by one that was (cmd_run,       *)
(* cmd_source).                                                            *)
THEOREM VariablesEndWithScript == ScriptSpec => []ScopesKept
<1>1. ScriptInit => ScopeInv
  <2> SUFFICES ASSUME ScriptInit PROVE ScopeInv
    OBVIOUS
  <2>1. stack = <<>> /\ sourcing = FALSE /\ ran = <<>>
    BY DEF ScriptInit, ShellInit
  <2>2. Stacked(stack)
    <3>1. stack \in Seq({}) 
      BY <2>1
    <3> QED BY <3>1 DEF Stacked
  <2> QED BY <2>1, <2>2 DEF ScopeInv, ScopesKept, None
<1>2. ScopeInv /\ [ScriptNext]_scriptVars => ScopeInv'
  BY StepKeepsScopes
<1>3. ScopeInv => ScopesKept
  BY DEF ScopeInv
<1> QED BY <1>1, <1>2, <1>3, PTL DEF ScriptSpec
=============================================================================
