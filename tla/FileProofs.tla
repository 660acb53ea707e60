----------------------------- MODULE FileProofs -----------------------------
(***************************************************************************)
(* Theorems about the full-screen editor of TextEditor, for every size of  *)
(* the buffer and of the window, and for all files and keys; and about the *)
(* FAT32 volume of Fat, for every size of the volume, every number of      *)
(* copies of its table and of faults.                                      *)
(***************************************************************************)
EXTENDS TextEditor, Fat, WellFoundedInduction, SequenceTheorems, FiniteSetTheorems, TLAPS

-----------------------------------------------------------------------------
(* Searches and loops.                                                     *)

(* The first place that qualifies: a search of a text or of a table from   *)
(* its start that has something to find ends at a first one.               *)
LEMMA LeastExists ==
    ASSUME NEW S, S \subseteq Nat, S # {}
    PROVE  \E k \in S : \A j \in S : k <= j
<1> DEFINE Less == {ss \in Nat \X Nat : ss[1] < ss[2]}
<1>1. PICK k \in S : \A j \in S : ~(<<j, k>> \in Less)
  <2>1. IsWellFoundedOn(Less, Nat)
    BY NatLessThanWellFounded DEF OpToRel
  <2> QED BY <2>1, WFMin
<1>2. \A i, j \in Nat : i < j => <<i, j>> \in Less
  OBVIOUS
<1>3. \A j \in S : ~(j < k)
  BY <1>1, <1>2
<1> QED BY <1>3

(* Step k goes from x to f[k][x], and each of the first N stays within S.  *)
Within(f, N, S) == \A k \in 1 .. N : \A x \in S : f[k][x] \in S

(* h lists where N such steps from a lead.                                 *)
Iterates(h, a, f, N, S) ==
    /\ h \in [0 .. N -> S]
    /\ h[0] = a
    /\ \A k \in 1 .. N : h[k] = f[k][h[k - 1]]

(* Such a list exists: the function that a recursive definition over       *)
(* 0 .. N names is there, whatever its steps are.                          *)
LEMMA IterExists ==
    ASSUME NEW N \in Nat, NEW S, NEW a \in S, NEW f, Within(f, N, S)
    PROVE  \E h : Iterates(h, a, f, N, S)
<1> DEFINE B == {m \in 0 .. N : ~\E h : Iterates(h, a, f, m, S)}
<1>1. ASSUME B # {} PROVE FALSE
  <2>1. PICK m \in B : \A j \in B : m <= j
    <3>1. B \subseteq Nat
      OBVIOUS
    <3> HIDE DEF B
    <3> QED BY <1>1, <3>1, LeastExists
  <2>2. m # 0
    BY Iterates([i \in 0 .. 0 |-> a], a, f, 0, S) DEF Iterates
  <2>3. m - 1 \in 0 .. N /\ m - 1 \notin B /\ m \in 1 .. N
    BY <2>1, <2>2
  <2>4. PICK g : Iterates(g, a, f, m - 1, S)
    BY <2>3
  <2> DEFINE h == [i \in 0 .. m |-> IF i = m THEN f[m][g[m - 1]] ELSE g[i]]
  <2>5. h \in [0 .. m -> S] /\ h[0] = a
    BY <2>2, <2>3, <2>4 DEF Iterates, Within
  <2>6. \A k \in 1 .. m : h[k] = f[k][h[k - 1]]
    BY <2>3, <2>4 DEF Iterates
  <2>7. Iterates(h, a, f, m, S)
    <3> HIDE DEF h
    <3> QED BY <2>5, <2>6 DEF Iterates
  <2> QED BY <2>7
<1> QED BY <1>1

-----------------------------------------------------------------------------
Bytes == 0 .. 255
Spot(e) == 0 .. Length(e)

-----------------------------------------------------------------------------
(* What is always so of the buffer, its cursor and its selection.          *)
Record(top) ==
    [open : BOOLEAN, hex : BOOLEAN, buf : Seq(Bytes), cur : Nat, sel : BOOLEAN, anchor : Nat, top : {top},
     dirty : BOOLEAN, nib : {0, 1}, find : BOOLEAN, query : Seq(Bytes),
     match : [valid : BOOLEAN, start : Nat, end : Nat]]
IsEditor(e) ==
    /\ e \in Record(e.top)
    /\ e.cur \in Spot(e)
    /\ e.sel => ~e.hex /\ e.anchor \in Spot(e)
    /\ e.match.valid => ~e.hex
    /\ e.find => ~e.hex

(* r is e after a key that does not search: the text, its mark and its     *)
(* match are the same, or the mark is set and no match is left.            *)
EditOf(e, r) ==
    /\ IsEditor(r)
    /\ r.open = e.open /\ r.hex = e.hex
    /\ \/ r.buf = e.buf /\ r.dirty = e.dirty /\ r.match = e.match
       \/ r.dirty /\ ~r.match.valid

(* Drawing moves the window and nothing else.                              *)
LEMMA ScrollKeeps ==
    ASSUME NEW e, IsEditor(e)
    PROVE  EditOf(e, Scroll(e)) /\ Scroll(e).buf = e.buf /\ Scroll(e).match = e.match /\ Scroll(e).dirty = e.dirty
<1>1. \E t : Scroll(e) = [e EXCEPT !.top = t]
  BY Zenon DEF Scroll, ScrollText, ScrollFrom, ScrollHex
<1>2. PICK t : Scroll(e) = [e EXCEPT !.top = t]
  BY <1>1
<1>3. IsEditor([e EXCEPT !.top = t])
  BY DEF IsEditor, Record, Spot, Length
<1>4. [e EXCEPT !.top = t].open = e.open /\ [e EXCEPT !.top = t].hex = e.hex
  BY DEF IsEditor, Record
<1>5. /\ [e EXCEPT !.top = t].buf = e.buf /\ [e EXCEPT !.top = t].match = e.match
      /\ [e EXCEPT !.top = t].dirty = e.dirty
  BY DEF IsEditor, Record
<1> QED BY <1>2, <1>3, <1>4, <1>5 DEF EditOf

(* The fields that the keys change together, one lemma for each group.     *)
LEMMA SelectionCleared ==
    ASSUME NEW t, NEW e \in Record(t), NEW r, r = ClearSelection(e)
    PROVE  /\ r \in Record(t)
           /\ ~r.sel /\ r.open = e.open /\ r.find = e.find /\ r.hex = e.hex /\ r.buf = e.buf /\ r.cur = e.cur
           /\ r.dirty = e.dirty /\ r.match = e.match /\ r.top = e.top
  BY Zenon DEF Record, ClearSelection

LEMMA Unselected ==
    ASSUME NEW t, NEW e \in Record(t), NEW r, r = [e EXCEPT !.sel = FALSE]
    PROVE  /\ r \in Record(t)
           /\ ~r.sel /\ r.open = e.open /\ r.find = e.find /\ r.hex = e.hex /\ r.buf = e.buf /\ r.cur = e.cur
           /\ r.dirty = e.dirty /\ r.match = e.match /\ r.top = e.top
  BY Zenon DEF Record

LEMMA AtCursor ==
    ASSUME NEW t, NEW e \in Record(t), NEW c \in Nat, NEW r, r = [e EXCEPT !.cur = c]
    PROVE  /\ r \in Record(t)
           /\ r.cur = c /\ r.open = e.open /\ r.find = e.find /\ r.hex = e.hex /\ r.buf = e.buf /\ r.sel = e.sel
           /\ r.anchor = e.anchor /\ r.dirty = e.dirty /\ r.match = e.match /\ r.top = e.top
  BY Zenon DEF Record

(* A key that moves the cursor to a place in the text changes nothing.     *)
LEMMA MoveEdits ==
    ASSUME NEW e, IsEditor(e), ~e.hex, NEW to \in Spot(e), NEW shift \in BOOLEAN
    PROVE  EditOf(e, MoveTo(e, to, shift)) /\ MoveTo(e, to, shift).buf = e.buf
<1> DEFINE d == IF shift /\ ~e.sel THEN [e EXCEPT !.sel = TRUE, !.anchor = e.cur] ELSE e
           m == [d EXCEPT !.cur = to]
           r == IF ~shift THEN ClearSelection(m) ELSE IF m.anchor = to THEN [m EXCEPT !.sel = FALSE] ELSE m
<1>0. e \in Record(e.top) /\ to \in Nat /\ e.cur \in Nat /\ Length(e) \in Nat
  BY DEF IsEditor, Record, Spot, Length
<1>1. /\ d \in Record(e.top) /\ d.top = e.top /\ d.open = e.open /\ d.buf = e.buf /\ d.hex = e.hex /\ d.find = e.find
      /\ d.match = e.match /\ d.dirty = e.dirty
      /\ d.sel => d.anchor \in Spot(e)
  <2>1. CASE shift /\ ~e.sel
    <3>1. e.cur \in Spot(e)
      BY DEF IsEditor
    <3>2. d = [e EXCEPT !.sel = TRUE, !.anchor = e.cur]
      BY <2>1
    <3> HIDE DEF d
    <3>3. /\ d \in Record(e.top) /\ d.top = e.top /\ d.open = e.open /\ d.buf = e.buf /\ d.hex = e.hex /\ d.find = e.find
          /\ d.match = e.match /\ d.dirty = e.dirty /\ d.anchor = e.cur
      BY <1>0, <3>2, Zenon DEF Record
    <3> QED BY <3>1, <3>3
  <2>2. CASE ~(shift /\ ~e.sel)
    BY <1>0, <2>2 DEF IsEditor
  <2> QED BY <2>1, <2>2
<1> HIDE DEF d
<1>2. /\ m \in Record(e.top) /\ m.top = e.top /\ m.open = e.open /\ m.buf = e.buf /\ m.hex = e.hex /\ m.find = e.find
      /\ m.match = e.match /\ m.dirty = e.dirty /\ m.cur = to
      /\ m.sel => m.anchor \in Spot(e)
  <2>1. m = [d EXCEPT !.cur = to]
    OBVIOUS
  <2> HIDE DEF m
  <2>2. /\ m \in Record(e.top) /\ m.top = d.top /\ m.open = d.open /\ m.buf = d.buf /\ m.hex = d.hex /\ m.find = d.find
        /\ m.match = d.match /\ m.dirty = d.dirty /\ m.cur = to /\ m.sel = d.sel /\ m.anchor = d.anchor
    BY <1>0, <1>1, <2>1, AtCursor
  <2> QED BY <1>1, <2>2, Zenon
<1> HIDE DEF m
<1>3. /\ r \in Record(e.top) /\ r.top = e.top /\ r.open = e.open /\ r.buf = e.buf /\ r.hex = e.hex /\ r.find = e.find
      /\ r.match = e.match /\ r.dirty = e.dirty /\ r.cur = to
      /\ r.sel => r.anchor \in Spot(e)
  <2>1. CASE ~shift
    <3>1. r = ClearSelection(m)
      BY <2>1
    <3> HIDE DEF r
    <3> QED BY <1>0, <1>2, <3>1, SelectionCleared
  <2>2. CASE shift /\ m.anchor = to
    <3>1. r = [m EXCEPT !.sel = FALSE]
      BY <2>2
    <3> HIDE DEF r
    <3> QED BY <1>0, <1>2, <3>1, Unselected
  <2>3. CASE shift /\ m.anchor # to
    BY <1>2, <2>3
  <2> QED BY <2>1, <2>2, <2>3
<1> HIDE DEF r
<1>4. IsEditor(r)
  BY <1>0, <1>3 DEF IsEditor, Spot, Length
<1>5. EditOf(e, r) /\ r.buf = e.buf
  BY <1>3, <1>4, Zenon DEF EditOf
<1> QED BY <1>5 DEF MoveTo, r, m, d

-----------------------------------------------------------------------------
(* Where the keys move the cursor: always to a place in the text.          *)
LEMMA LengthIs ==
    ASSUME NEW e, IsEditor(e)
    PROVE  /\ e.buf \in Seq(Bytes) /\ Length(e) \in Nat /\ e.cur \in Spot(e)
           /\ \A k \in 1 .. Length(e) : e.buf[k] \in Bytes
  BY DEF IsEditor, Record, Length

LEMMA LeastIn ==
    ASSUME NEW S, S \subseteq Nat, S # {}
    PROVE  Least(S) \in S /\ \A j \in S : Least(S) <= j
  BY LeastExists DEF Least

LEMMA GreatestIn ==
    ASSUME NEW n \in Nat, NEW S, S \subseteq 0 .. n, S # {}
    PROVE  Greatest(S) \in S /\ \A j \in S : j <= Greatest(S)
<1> DEFINE T == {n - j : j \in S}
<1>0. \A j \in S : j \in Nat /\ j <= n /\ n - j \in Nat
  <2>1. \A j \in 0 .. n : j \in Nat /\ j <= n /\ n - j \in Nat
    OBVIOUS
  <2> QED BY <2>1
<1>1. T \subseteq Nat /\ T # {}
  BY <1>0
<1>2. PICK k \in T : \A j \in T : k <= j
  <2> HIDE DEF T
  <2> QED BY <1>1, LeastExists
<1>3. PICK i \in S : k = n - i
  BY <1>2
<1>4. \A j \in S : j <= i
  <2> SUFFICES ASSUME NEW j \in S PROVE j <= i
    OBVIOUS
  <2>1. n - j \in T /\ j \in Nat /\ i \in Nat
    BY <1>0
  <2>2. k <= n - j
    BY <1>2, <2>1
  <2> QED BY <1>3, <2>1, <2>2
<1> QED BY <1>4 DEF Greatest

(* Ends of lines and of words.                                             *)
LEMMA LinesWithin ==
    ASSUME NEW e, IsEditor(e), NEW i \in Spot(e)
    PROVE  LineStart(e, i) \in 0 .. i /\ LineEnd(e, i) \in i .. Length(e)
<1> DEFINE A == {j \in 0 .. i : \A k \in j + 1 .. i : e.buf[k] # NL}
           B == {j \in i .. Length(e) : \A k \in i + 1 .. j : e.buf[k] # NL}
<1>0. Length(e) \in Nat /\ i \in Nat /\ i <= Length(e)
  BY LengthIs DEF Spot
<1>1. i \in A /\ A \subseteq Nat /\ i \in B /\ B \subseteq 0 .. Length(e)
  BY <1>0
<1>2. Least(A) \in A /\ Greatest(B) \in B
  <2> HIDE DEF A, B
  <2> QED BY <1>0, <1>1, LeastIn, GreatestIn
<1> QED BY <1>2 DEF LineStart, LineEnd

LEMMA WordsWithin ==
    ASSUME NEW e, IsEditor(e), NEW i \in Spot(e)
    PROVE  WordLeft(e, i) \in Spot(e) /\ WordRight(e, i) \in Spot(e)
<1>0. Length(e) \in Nat
  BY LengthIs
<1>1. ASSUME NEW j \in Spot(e), NEW w \in BOOLEAN
      PROVE  BackWhile(e, j, w) \in Spot(e) /\ AheadWhile(e, j, w) \in Spot(e)
  <2> DEFINE A == {m \in 0 .. j : \A k \in m + 1 .. j : IsWord(e.buf[k]) = w}
             B == {m \in j .. Length(e) : \A k \in j + 1 .. m : IsWord(e.buf[k]) = w}
  <2>0. j \in Nat /\ j <= Length(e)
    BY <1>0 DEF Spot
  <2>1. j \in A /\ A \subseteq Nat /\ A \subseteq 0 .. j /\ j \in B /\ B \subseteq 0 .. Length(e)
    BY <1>0, <2>0
  <2>2. Least(A) \in A /\ Greatest(B) \in B
    <3> HIDE DEF A, B
    <3> QED BY <1>0, <2>1, LeastIn, GreatestIn
  <2>3. Least(A) \in Spot(e) /\ Greatest(B) \in Spot(e)
    BY <1>0, <2>0, <2>2 DEF Spot
  <2> QED BY <2>3 DEF BackWhile, AheadWhile
<1> QED BY <1>1 DEF WordLeft, WordRight

(* The ends of a visual row.                                               *)
LEMMA NextRowWithin ==
    ASSUME NEW e, IsEditor(e), NEW i \in Spot(e)
    PROVE  NextRow(e, i) \in Spot(e) /\ (i < Length(e) => NextRow(e, i) > i)
<1> DEFINE A == {j \in i + 1 .. Length(e) : e.buf[j] = NL \/ j - i = Width \/ j = Length(e)}
<1>0. Length(e) \in Nat /\ i \in Nat /\ i <= Length(e)
  BY LengthIs DEF Spot
<1>1. CASE i >= Length(e)
  BY <1>0, <1>1 DEF NextRow, Spot
<1>2. CASE i < Length(e)
  <2>1. Length(e) \in A /\ A \subseteq Nat
    BY <1>0, <1>2
  <2>2. Least(A) \in A
    <3> HIDE DEF A
    <3> QED BY <2>1, LeastIn
  <2>3. NextRow(e, i) = Least(A)
    BY <1>0, <1>2 DEF NextRow
  <2> QED BY <1>0, <2>2, <2>3 DEF Spot
<1> QED BY <1>0, <1>1, <1>2

LEMMA RowStartWithin ==
    ASSUME NEW e, IsEditor(e), NEW i \in Spot(e)
    PROVE  RowStart(e, i) \in 0 .. i
<1> DEFINE Cut(j, r) == e.buf[j] = NL \/ j - r = Width \/ j = Length(e)
           V == 0 .. i
           f == [k \in 1 .. i |-> [r \in V |-> IF Cut(k, r) THEN k ELSE r]]
           Body(start) == [j \in 0 .. i |->
                             IF j = 0 THEN 0
                             ELSE LET r == start[j - 1] IN IF Cut(j, r) THEN j ELSE r]
<1>0. i \in Nat
  BY LengthIs DEF Spot
<1>1. RowStart(e, i) = (CHOOSE start : start = Body(start))[i]
  BY Zenon DEF RowStart
<1>2. PICK h : Iterates(h, 0, f, i, V)
  <2>1. Within(f, i, V)
    BY <1>0 DEF Within
  <2>2. 0 \in V
    BY <1>0
  <2> HIDE DEF f, V
  <2> QED BY <1>0, <2>1, <2>2, IterExists, Zenon
<1>3. h \in [0 .. i -> V] /\ h[0] = 0
  BY <1>2, Zenon DEF Iterates
<1>4. h = Body(h)
  <2>1. ASSUME NEW j \in 0 .. i, j # 0
        PROVE  h[j] = IF Cut(j, h[j - 1]) THEN j ELSE h[j - 1]
    <3>1. j \in 1 .. i /\ j - 1 \in 0 .. i
      BY <1>0, <2>1
    <3>2. h[j] = f[j][h[j - 1]] /\ h[j - 1] \in V
      BY <1>2, <1>3, <3>1 DEF Iterates
    <3> HIDE DEF V, Cut
    <3> QED BY <3>1, <3>2
  <2>2. \A j \in 0 .. i : h[j] = IF j = 0 THEN 0 ELSE IF Cut(j, h[j - 1]) THEN j ELSE h[j - 1]
    BY <1>3, <2>1
  <2> HIDE DEF Cut
  <2> QED BY <1>3, <2>2
<1>5. PICK g : g = Body(g) /\ RowStart(e, i) = g[i]
  <2> HIDE DEF Body
  <2> QED BY <1>1, <1>4
<1> DEFINE B == {k \in 0 .. i : g[k] \notin 0 .. k}
<1>6. ASSUME B # {} PROVE FALSE
  <2>1. B \subseteq Nat
    OBVIOUS
  <2>2. PICK k \in B : \A j \in B : k <= j
    <3> HIDE DEF B
    <3> QED BY <1>6, <2>1, LeastExists
  <2>3. k \in 0 .. i /\ g[k] \notin 0 .. k
    OBVIOUS
  <2>4. \A j \in 0 .. i : g[j] = IF j = 0 THEN 0 ELSE IF Cut(j, g[j - 1]) THEN j ELSE g[j - 1]
    <3>1. \A j \in 0 .. i : Body(g)[j] = IF j = 0 THEN 0 ELSE IF Cut(j, g[j - 1]) THEN j ELSE g[j - 1]
      <4> HIDE DEF Cut
      <4> QED OBVIOUS
    <3> HIDE DEF Body, Cut
    <3> QED BY <1>5, <3>1
  <2>5. k # 0
    BY <2>3, <2>4
  <2>6. k - 1 \in 0 .. i /\ ~(k <= k - 1)
    BY <1>0, <2>3, <2>5
  <2>7. g[k - 1] \in 0 .. k - 1
    BY <2>2, <2>6
  <2>8. g[k] = k \/ g[k] = g[k - 1]
    BY <2>3, <2>4, <2>5
  <2> QED BY <2>3, <2>7, <2>8
<1>7. i \in 0 .. i
  BY <1>0
<1> QED BY <1>5, <1>6, <1>7

LEMMA PrevRowWithin ==
    ASSUME NEW e, IsEditor(e), NEW i \in Spot(e)
    PROVE  PrevRow(e, i) \in Spot(e)
<1>0. Length(e) \in Nat /\ i \in Nat /\ i <= Length(e)
  BY LengthIs DEF Spot
<1>1. CASE i = 0
  BY <1>0, <1>1 DEF PrevRow, Spot
<1>2. CASE i # 0
  <2>1. i - 1 \in Spot(e)
    BY <1>0, <1>2 DEF Spot
  <2>2. RowStart(e, i - 1) \in 0 .. i - 1
    BY <2>1, RowStartWithin
  <2> QED BY <1>0, <1>2, <2>2 DEF PrevRow, Spot
<1> QED BY <1>1, <1>2

LEMMA RowsAwayWithin ==
    ASSUME NEW e, IsEditor(e), NEW r \in Spot(e), NEW n \in Nat, NEW down \in BOOLEAN
    PROVE  RowsAway(e, r, n, down) \in Spot(e)
<1> DEFINE V == Spot(e)
           g == [x \in V |-> IF down THEN NextRow(e, x) ELSE PrevRow(e, x)]
           f == [k \in 1 .. n |-> g]
           Body(s) == [k \in 0 .. n |-> IF k = 0 THEN r ELSE IF down THEN NextRow(e, s[k - 1]) ELSE PrevRow(e, s[k - 1])]
<1>1. RowsAway(e, r, n, down) = (CHOOSE s : s = Body(s))[n]
  BY Zenon DEF RowsAway
<1>2. \A x \in V : g[x] \in V
  BY NextRowWithin, PrevRowWithin
<1>3. PICK h : Iterates(h, r, f, n, V)
  <2>1. Within(f, n, V)
    BY <1>2 DEF Within
  <2> HIDE DEF f
  <2> QED BY <2>1, IterExists, Zenon
<1>4. h \in [0 .. n -> V] /\ h[0] = r
  BY <1>3, Zenon DEF Iterates
<1>5. h = Body(h)
  <2>1. ASSUME NEW k \in 0 .. n, k # 0
        PROVE  h[k] = IF down THEN NextRow(e, h[k - 1]) ELSE PrevRow(e, h[k - 1])
    <3>1. k \in 1 .. n /\ k - 1 \in 0 .. n
      BY <2>1
    <3>2. h[k] = g[h[k - 1]] /\ h[k - 1] \in V
      BY <1>3, <1>4, <3>1 DEF Iterates
    <3> QED BY <3>2
  <2>2. \A k \in 0 .. n : h[k] = IF k = 0 THEN r ELSE IF down THEN NextRow(e, h[k - 1]) ELSE PrevRow(e, h[k - 1])
    BY <1>4, <2>1
  <2> QED BY <1>4, <2>2
<1>6. PICK q : q = Body(q) /\ RowsAway(e, r, n, down) = q[n]
  <2> HIDE DEF Body
  <2> QED BY <1>1, <1>5
<1> DEFINE B == {k \in 0 .. n : q[k] \notin V}
<1>7. ASSUME B # {} PROVE FALSE
  <2>1. B \subseteq Nat
    OBVIOUS
  <2>2. PICK k \in B : \A j \in B : k <= j
    <3> HIDE DEF B
    <3> QED BY <1>7, <2>1, LeastExists
  <2>3. k \in 0 .. n /\ q[k] \notin V
    OBVIOUS
  <2>4. q[k] = IF k = 0 THEN r ELSE IF down THEN NextRow(e, q[k - 1]) ELSE PrevRow(e, q[k - 1])
    <3>1. Body(q)[k] = IF k = 0 THEN r ELSE IF down THEN NextRow(e, q[k - 1]) ELSE PrevRow(e, q[k - 1])
      BY <2>3
    <3> HIDE DEF Body
    <3> QED BY <1>6, <3>1
  <2>5. k # 0
    BY <2>3, <2>4
  <2>6. k - 1 \in 0 .. n /\ ~(k <= k - 1)
    BY <2>3, <2>5
  <2>7. q[k - 1] \in V
    BY <2>2, <2>6
  <2> QED BY <2>3, <2>4, <2>5, <2>7, NextRowWithin, PrevRowWithin
<1>8. n \in 0 .. n
  OBVIOUS
<1> QED BY <1>6, <1>7, <1>8

LEMMA PageWithin ==
    ASSUME NEW e, IsEditor(e), NEW n \in Nat, NEW down \in BOOLEAN
    PROVE  MoveRows(e, e.cur, n, down) \in Spot(e)
<1> DEFINE s == RowStart(e, e.cur)
           r == RowsAway(e, s, n, down)
           col == e.cur - s
<1>0. Length(e) \in Nat /\ e.cur \in Nat /\ e.cur <= Length(e) /\ e.cur \in Spot(e)
  BY LengthIs DEF Spot
<1>1. s \in 0 .. e.cur
  BY <1>0, RowStartWithin
<1>2. s \in Spot(e) /\ col \in Nat
  BY <1>0, <1>1 DEF Spot
<1>3. r \in Spot(e)
  BY <1>2, RowsAwayWithin
<1> HIDE DEF s, r, col
<1>4. r \in Nat /\ r <= Length(e)
  BY <1>0, <1>3 DEF Spot
<1>5. RowLength(e, r) \in Nat /\ r + RowLength(e, r) <= Length(e)
  <2>1. CASE r >= Length(e)
    BY <1>0, <1>4, <2>1 DEF RowLength
  <2>2. CASE r < Length(e)
    <3>1. NextRow(e, r) \in Nat /\ NextRow(e, r) <= Length(e) /\ NextRow(e, r) > r
      BY <1>0, <1>3, <2>2, NextRowWithin DEF Spot
    <3> QED BY <1>0, <1>4, <2>2, <3>1 DEF RowLength
  <2> QED BY <1>0, <1>4, <2>1, <2>2
<1>6. InRow(e, col, r) \in Spot(e)
  BY <1>0, <1>2, <1>4, <1>5 DEF InRow, Smaller, Spot
<1> QED BY <1>6 DEF MoveRows, s, r, col

-----------------------------------------------------------------------------
(* Changes of the text.                                                    *)
LEMMA EditOfEdit ==
    ASSUME NEW e, NEW d, NEW r, EditOf(e, d), EditOf(d, r)
    PROVE  EditOf(e, r)
  BY Zenon DEF EditOf

LEMMA EditOfSame ==
    ASSUME NEW e, IsEditor(e)
    PROVE  EditOf(e, e)
  BY Zenon DEF EditOf

(* A new text, with the cursor in it and no selection.                     *)
Rewrite(e, b, c) == ClearSelection(Touched([e EXCEPT !.buf = b, !.cur = c]))

LEMMA Rewritten ==
    ASSUME NEW e, IsEditor(e), NEW b, NEW c, b \in Seq(Bytes), c \in 0 .. Len(b)
    PROVE  EditOf(e, Rewrite(e, b, c)) /\ ~Rewrite(e, b, c).sel
<1> DEFINE r == Rewrite(e, b, c)
           d == [e EXCEPT !.buf = b, !.cur = c]
           t == Touched(d)
<1>0. e \in Record(e.top) /\ c \in Nat
  BY DEF IsEditor
<1>1. d \in Record(e.top) /\ d.buf = b /\ d.cur = c /\ d.open = e.open /\ d.hex = e.hex /\ d.find = e.find /\ d.top = e.top
  BY <1>0, Zenon DEF Record
<1> HIDE DEF d
<1>2. NoMatch \in [valid : BOOLEAN, start : Nat, end : Nat] /\ ~NoMatch.valid
  BY DEF NoMatch
<1>3. /\ t \in Record(e.top) /\ t.buf = b /\ t.cur = c /\ t.open = e.open /\ t.hex = e.hex /\ t.find = e.find /\ t.top = e.top
      /\ t.dirty /\ t.match = NoMatch
  BY <1>1, <1>2, Zenon DEF Record, Touched
<1> HIDE DEF t
<1>4. r = ClearSelection(t)
  BY DEF t, d, Rewrite
<1> HIDE DEF r
<1>5. /\ r \in Record(e.top) /\ r.buf = b /\ r.cur = c /\ r.open = e.open /\ r.hex = e.hex /\ r.find = e.find /\ r.top = e.top
      /\ r.dirty /\ r.match = NoMatch /\ ~r.sel
  BY <1>3, <1>4, Zenon DEF Record, ClearSelection
<1>6. r.cur \in Spot(r)
  BY <1>5 DEF Spot, Length
<1>7. r \in Record(r.top)
  BY <1>5
<1>7a. e.find => ~e.hex
  BY DEF IsEditor
<1>8. IsEditor(r)
  BY <1>2, <1>7a, <1>5, <1>6, <1>7, Zenon DEF IsEditor
<1>9. EditOf(e, r) /\ ~r.sel
  BY <1>2, <1>5, <1>8, Zenon DEF EditOf
<1> QED BY <1>9 DEF r

LEMMA PartsOf ==
    ASSUME NEW s \in Seq(Bytes), NEW i \in 0 .. Len(s)
    PROVE  /\ SubSeq(s, 1, i) \in Seq(Bytes) /\ Len(SubSeq(s, 1, i)) = i
           /\ SubSeq(s, i + 1, Len(s)) \in Seq(Bytes) /\ Len(SubSeq(s, i + 1, Len(s))) = Len(s) - i
<1>1. Len(s) \in Nat /\ i \in Nat /\ i <= Len(s)
  OBVIOUS
<1>2. \A j \in 1 .. i : s[j] \in Bytes
  BY <1>1
<1>3. \A j \in i + 1 .. Len(s) : s[j] \in Bytes
  BY <1>1
<1> QED BY <1>1, <1>2, <1>3, SubSeqProperties

LEMMA DeleteEdits ==
    ASSUME NEW e, IsEditor(e), NEW start \in Nat, NEW end \in Nat
    PROVE  /\ EditOf(e, DeleteRange(e, start, end))
           /\ DeleteRange(e, start, end).sel => e.sel /\ DeleteRange(e, start, end) = e
<1>0. Length(e) \in Nat /\ e.buf \in Seq(Bytes) /\ Length(e) = Len(e.buf)
  BY LengthIs DEF Length
<1>1. CASE end <= start \/ start > Length(e)
  BY <1>1, EditOfSame, Zenon DEF DeleteRange
<1>2. CASE ~(end <= start \/ start > Length(e))
  <2> DEFINE b == SubSeq(e.buf, 1, start) \o SubSeq(e.buf, Smaller(end, Length(e)) + 1, Len(e.buf))
  <2>1. Smaller(end, Length(e)) \in 0 .. Len(e.buf) /\ start \in 0 .. Len(e.buf)
    BY <1>0, <1>2 DEF Smaller
  <2>2. /\ SubSeq(e.buf, 1, start) \in Seq(Bytes) /\ Len(SubSeq(e.buf, 1, start)) = start
        /\ SubSeq(e.buf, Smaller(end, Length(e)) + 1, Len(e.buf)) \in Seq(Bytes)
    BY <1>0, <2>1, PartsOf
  <2>3. b \in Seq(Bytes) /\ start \in 0 .. Len(b)
    BY <2>2
  <2>4. DeleteRange(e, start, end) = Rewrite(e, b, start)
    <3>1. DeleteRange(e, start, end) = ClearSelection(Touched([e EXCEPT !.buf = b, !.cur = start]))
      BY <1>2 DEF DeleteRange
    <3> QED BY <3>1 DEF Rewrite
  <2> HIDE DEF b
  <2>5. EditOf(e, DeleteRange(e, start, end)) /\ ~DeleteRange(e, start, end).sel
    BY <2>3, <2>4, Rewritten
  <2> QED BY <2>5
<1> QED BY <1>1, <1>2

LEMMA SelectionWithin ==
    ASSUME NEW e, IsEditor(e), HasSelection(e)
    PROVE  From(e) \in Spot(e) /\ To(e) \in Spot(e) /\ Selected(e) \in Seq(Bytes)
<1>0. Length(e) \in Nat /\ e.buf \in Seq(Bytes) /\ Length(e) = Len(e.buf)
  BY LengthIs DEF Length
<1>1. e.cur \in 0 .. Length(e) /\ e.anchor \in 0 .. Length(e)
  BY DEF IsEditor, HasSelection, Spot
<1>2. From(e) \in 0 .. Length(e) /\ To(e) \in 0 .. Length(e)
  BY <1>0, <1>1 DEF From, To, Smaller, Larger
<1>3. \A j \in From(e) + 1 .. To(e) : e.buf[j] \in Bytes
  BY <1>0, <1>2
<1>4. Selected(e) \in Seq(Bytes)
  BY <1>0, <1>2, <1>3, SubSeqProperties DEF Selected
<1> QED BY <1>2, <1>4 DEF Spot

LEMMA SelectionEdits ==
    ASSUME NEW e, IsEditor(e)
    PROVE  EditOf(e, DeleteSelection(e))
<1>0. Length(e) \in Nat
  BY LengthIs
<1>1. CASE HasSelection(e)
  <2>1. From(e) \in Nat /\ To(e) \in Nat
    BY <1>0, <1>1, SelectionWithin DEF Spot
  <2> QED BY <1>1, <2>1, DeleteEdits DEF DeleteSelection
<1>2. CASE ~HasSelection(e)
  BY <1>2, EditOfSame DEF DeleteSelection
<1> QED BY <1>1, <1>2

LEMMA InsertEdits ==
    ASSUME NEW e, IsEditor(e), NEW text \in Seq(Bytes)
    PROVE  EditOf(e, InsertText(e, text))
<1> DEFINE d == DeleteSelection(e)
<1>1. EditOf(e, d) /\ IsEditor(d)
  BY SelectionEdits, Zenon DEF EditOf
<1>2. CASE text = <<>>
  BY <1>2, EditOfSame DEF InsertText
<1>3. CASE text # <<>> /\ Length(d) + Len(text) >= Size
  BY <1>1, <1>3 DEF InsertText
<1>4. CASE text # <<>> /\ ~(Length(d) + Len(text) >= Size)
  <2> DEFINE b == SubSeq(d.buf, 1, d.cur) \o text \o SubSeq(d.buf, d.cur + 1, Len(d.buf))
             c == d.cur + Len(text)
  <2>0. d.buf \in Seq(Bytes) /\ d.cur \in 0 .. Len(d.buf)
    BY <1>1, LengthIs DEF Spot, Length
  <2>1. InsertText(e, text) = Rewrite(d, b, c)
    <3>1. InsertText(e, text) = ClearSelection(Touched([d EXCEPT !.buf = b, !.cur = c]))
      BY <1>4 DEF InsertText
    <3> QED BY <3>1 DEF Rewrite
  <2> HIDE DEF d
  <2>2. /\ SubSeq(d.buf, 1, d.cur) \in Seq(Bytes) /\ Len(SubSeq(d.buf, 1, d.cur)) = d.cur
        /\ SubSeq(d.buf, d.cur + 1, Len(d.buf)) \in Seq(Bytes)
    BY <2>0, PartsOf
  <2>3. b \in Seq(Bytes) /\ c \in 0 .. Len(b)
    <3> DEFINE front == SubSeq(d.buf, 1, d.cur)
               rest == SubSeq(d.buf, d.cur + 1, Len(d.buf))
    <3>1. front \in Seq(Bytes) /\ Len(front) = d.cur /\ rest \in Seq(Bytes) /\ b = front \o text \o rest
      BY <2>2
    <3>2. d.cur \in Nat
      BY <2>0
    <3> HIDE DEF front, rest, b
    <3>3. front \o text \in Seq(Bytes) /\ Len(front \o text) = d.cur + Len(text)
      BY <3>1, ConcatProperties
    <3>4. b \in Seq(Bytes) /\ Len(b) = d.cur + Len(text) + Len(rest)
      BY <3>1, <3>3
    <3>5. Len(text) \in Nat /\ Len(rest) \in Nat
      BY <3>1
    <3> QED BY <3>2, <3>4, <3>5
  <2> HIDE DEF b, c
  <2>4. EditOf(d, InsertText(e, text))
    BY <1>1, <2>1, <2>3, Rewritten
  <2> QED BY <1>1, <2>4, EditOfEdit
<1> QED BY <1>2, <1>3, <1>4

-----------------------------------------------------------------------------
(* Hexadecimal mode, in which there are no selection and no match.         *)
LEMMA InHex ==
    ASSUME NEW e, IsEditor(e), e.hex
    PROVE  ~e.sel /\ ~e.match.valid /\ ~e.find
  BY Zenon DEF IsEditor

LEMMA HexMoved ==
    ASSUME NEW e, IsEditor(e), e.hex, NEW i \in Spot(e)
    PROVE  EditOf(e, [e EXCEPT !.cur = i, !.nib = 0]) /\ [e EXCEPT !.cur = i, !.nib = 0].buf = e.buf
<1> DEFINE r == [e EXCEPT !.cur = i, !.nib = 0]
<1>0. e \in Record(e.top) /\ i \in Nat /\ 0 \in {0, 1}
  BY LengthIs DEF IsEditor, Spot
<1>1. /\ r \in Record(e.top) /\ r.open = e.open /\ r.hex = e.hex /\ r.find = e.find /\ r.buf = e.buf /\ r.cur = i
      /\ r.sel = e.sel /\ r.dirty = e.dirty /\ r.match = e.match /\ r.top = e.top
  BY <1>0, Zenon DEF Record
<1> HIDE DEF r
<1>2. r.cur \in Spot(r) /\ r \in Record(r.top)
  BY <1>1 DEF Spot, Length
<1>3. IsEditor(r)
  BY <1>1, <1>2, InHex, Zenon DEF IsEditor
<1>4. EditOf(e, r) /\ r.buf = e.buf
  BY <1>1, <1>3, Zenon DEF EditOf
<1> QED BY <1>4 DEF r

HexRewrite(e, b, c, n) == [e EXCEPT !.buf = b, !.cur = c, !.nib = n]

LEMMA HexRewritten ==
    ASSUME NEW e, IsEditor(e), e.hex, NEW b, NEW c, NEW n, b \in Seq(Bytes), c \in 0 .. Len(b), n \in {0, 1}
    PROVE  /\ IsEditor(HexRewrite(e, b, c, n))
           /\ HexRewrite(e, b, c, n).open = e.open /\ HexRewrite(e, b, c, n).hex = e.hex
<1> DEFINE r == [e EXCEPT !.buf = b, !.cur = c, !.nib = n]
<1>0. e \in Record(e.top) /\ c \in Nat
  BY DEF IsEditor
<1>1. /\ r \in Record(e.top) /\ r.open = e.open /\ r.hex = e.hex /\ r.find = e.find /\ r.buf = b /\ r.cur = c
      /\ r.sel = e.sel /\ r.dirty = e.dirty /\ r.match = e.match /\ r.top = e.top
  BY <1>0, Zenon DEF Record
<1> HIDE DEF r
<1>2. r.cur \in Spot(r) /\ r \in Record(r.top)
  BY <1>1 DEF Spot, Length
<1>3. IsEditor(r)
  BY <1>1, <1>2, InHex, Zenon DEF IsEditor
<1>4. IsEditor(r) /\ r.open = e.open /\ r.hex = e.hex
  BY <1>1, <1>3
<1> QED BY <1>4 DEF r, HexRewrite

LEMMA TouchedEdits ==
    ASSUME NEW e, NEW d, IsEditor(d), d.open = e.open, d.hex = e.hex
    PROVE  EditOf(e, Touched(d))
<1> DEFINE r == Touched(d)
<1>1. NoMatch \in [valid : BOOLEAN, start : Nat, end : Nat] /\ ~NoMatch.valid
  BY DEF NoMatch
<1>2. d \in Record(d.top)
  BY DEF IsEditor
<1>3. /\ r \in Record(d.top) /\ r.open = d.open /\ r.hex = d.hex /\ r.find = d.find /\ r.buf = d.buf /\ r.cur = d.cur
      /\ r.sel = d.sel /\ r.anchor = d.anchor /\ r.dirty /\ r.match = NoMatch /\ r.top = d.top
  BY <1>1, <1>2, Zenon DEF Record, Touched
<1> HIDE DEF r
<1>4. Spot(r) = Spot(d)
  BY <1>3 DEF Spot, Length
<1>5. r \in Record(r.top)
  BY <1>3
<1>6. IsEditor(r)
  BY <1>1, <1>3, <1>4, <1>5, Zenon DEF IsEditor
<1>7. EditOf(e, r)
  BY <1>1, <1>3, <1>6, Zenon DEF EditOf
<1> QED BY <1>7 DEF r

LEMMA HexRemoved ==
    ASSUME NEW e, IsEditor(e), e.hex, NEW i \in Nat, i < Length(e)
    PROVE  LET b == SubSeq(e.buf, 1, i) \o SubSeq(e.buf, i + 2, Len(e.buf))
           IN  b \in Seq(Bytes) /\ i \in 0 .. Len(b)
<1>0. e.buf \in Seq(Bytes) /\ Length(e) = Len(e.buf) /\ Len(e.buf) \in Nat
  BY LengthIs DEF Length
<1>1. SubSeq(e.buf, 1, i) \in Seq(Bytes) /\ Len(SubSeq(e.buf, 1, i)) = i
  BY <1>0, PartsOf
<1>2. SubSeq(e.buf, i + 2, Len(e.buf)) \in Seq(Bytes)
  <2>1. i + 1 \in 0 .. Len(e.buf) /\ (i + 1) + 1 = i + 2
    BY <1>0
  <2> QED BY <1>0, <2>1, PartsOf
<1>3. ASSUME NEW x \in Seq(Bytes), NEW y \in Seq(Bytes), Len(x) = i
      PROVE  x \o y \in Seq(Bytes) /\ i \in 0 .. Len(x \o y)
  BY <1>3, ConcatProperties
<1> QED BY <1>1, <1>2, <1>3

(* Deleting a byte; the match, of which hexadecimal mode has none, stays.  *)
LEMMA HexRemoveEdits ==
    ASSUME IsEditor(ed), ed.hex, NEW i \in Nat, i < Length(ed)
    PROVE  EditOf(ed, HexRemove(i))
<1> DEFINE b == SubSeq(ed.buf, 1, i) \o SubSeq(ed.buf, i + 2, Len(ed.buf))
           r == [ed EXCEPT !.buf = b, !.cur = i, !.nib = 0, !.dirty = TRUE]
<1>0. HexRemove(i) = r
  BY DEF HexRemove
<1>1. b \in Seq(Bytes) /\ i \in 0 .. Len(b)
  BY HexRemoved
<1>2. ed \in Record(ed.top) /\ 0 \in {0, 1}
  BY DEF IsEditor
<1> HIDE DEF b
<1>3. /\ r \in Record(ed.top) /\ r.open = ed.open /\ r.hex = ed.hex /\ r.find = ed.find /\ r.buf = b /\ r.cur = i
      /\ r.sel = ed.sel /\ r.dirty /\ r.match = ed.match /\ r.top = ed.top
  BY <1>1, <1>2, Zenon DEF Record
<1> HIDE DEF r
<1>4. r.cur \in Spot(r) /\ r \in Record(r.top)
  BY <1>1, <1>3 DEF Spot, Length
<1>5. IsEditor(r)
  BY <1>3, <1>4, InHex, Zenon DEF IsEditor
<1>6. EditOf(ed, r)
  BY <1>3, <1>5, InHex, Zenon DEF EditOf
<1> QED BY <1>0, <1>6

(* Either digit of a byte, at the end of the text in a byte of its own.    *)
DigitText(e, h) ==
    LET bytes == IF e.cur = Length(e) THEN Append(e.buf, 0) ELSE e.buf
        b == bytes[e.cur + 1]
    IN [bytes EXCEPT ![e.cur + 1] = IF e.nib = 0 THEN (b % 16) + 16 * h ELSE b - (b % 16) + h]

LEMMA DigitIn ==
    ASSUME NEW e, IsEditor(e), NEW h \in Nibbles
    PROVE  DigitText(e, h) \in Seq(Bytes) /\ e.cur + 1 \in 0 .. Len(DigitText(e, h))
<1> DEFINE bytes == IF e.cur = Length(e) THEN Append(e.buf, 0) ELSE e.buf
           b == bytes[e.cur + 1]
           v == IF e.nib = 0 THEN (b % 16) + 16 * h ELSE b - (b % 16) + h
<1>0. e.buf \in Seq(Bytes) /\ Length(e) = Len(e.buf) /\ Len(e.buf) \in Nat /\ e.cur \in 0 .. Len(e.buf)
  BY LengthIs DEF Length, Spot
<1>1. h \in 0 .. 15
  BY EditorAssumption
<1>2. bytes \in Seq(Bytes) /\ e.cur + 1 \in 1 .. Len(bytes)
  <2>1. CASE e.cur = Length(e)
    <3>1. Append(e.buf, 0) \in Seq(Bytes) /\ Len(Append(e.buf, 0)) = Len(e.buf) + 1
      BY <1>0, AppendProperties DEF Bytes
    <3> QED BY <1>0, <2>1, <3>1
  <2>2. CASE e.cur # Length(e)
    BY <1>0, <2>2
  <2> QED BY <2>1, <2>2
<1> HIDE DEF bytes
<1>3. b \in Bytes
  BY <1>2
<1> HIDE DEF b
<1>4. v \in Bytes
  <2>1. b % 16 \in 0 .. 15 /\ b - (b % 16) \in 0 .. 240
    BY <1>3 DEF Bytes
  <2>2. (b % 16) + 16 * h \in 0 .. 255 /\ b - (b % 16) + h \in 0 .. 255
    BY <1>1, <2>1
  <2> QED BY <2>2 DEF Bytes
<1> HIDE DEF v
<1>5. [bytes EXCEPT ![e.cur + 1] = v] \in Seq(Bytes) /\ Len([bytes EXCEPT ![e.cur + 1] = v]) = Len(bytes)
  BY <1>2, <1>4
<1>6. DigitText(e, h) = [bytes EXCEPT ![e.cur + 1] = v]
  BY DEF DigitText, v, b, bytes
<1> QED BY <1>0, <1>2, <1>5, <1>6

LEMMA DigitEdits ==
    ASSUME IsEditor(ed), ed.hex, NEW h \in Nibbles
    PROVE  /\ EditOf(ed, Touched([ed EXCEPT !.buf = DigitText(ed, h), !.nib = 1]))
           /\ EditOf(ed, Touched([ed EXCEPT !.buf = DigitText(ed, h), !.nib = 0, !.cur = @ + 1]))
<1> DEFINE b == DigitText(ed, h)
           r1 == HexRewrite(ed, b, ed.cur, 1)
           r2 == HexRewrite(ed, b, ed.cur + 1, 0)
<1>0. ed \in Record(ed.top) /\ ed.cur \in Nat
  BY LengthIs DEF IsEditor, Spot
<1>1. b \in Seq(Bytes) /\ ed.cur + 1 \in 0 .. Len(b)
  BY DigitIn
<1> HIDE DEF b
<1>2. ed.cur \in 0 .. Len(b) /\ Len(b) \in Nat
  BY <1>0, <1>1
<1>3. [ed EXCEPT !.buf = b, !.nib = 1] = r1
  BY <1>0 DEF Record, HexRewrite
<1>4. [ed EXCEPT !.buf = b, !.nib = 0, !.cur = @ + 1] = r2
  BY <1>0 DEF Record, HexRewrite
<1>4a. 0 \in {0, 1} /\ 1 \in {0, 1}
  OBVIOUS
<1>5. \A bb, cc, n : bb \in Seq(Bytes) /\ cc \in 0 .. Len(bb) /\ n \in {0, 1} =>
          /\ IsEditor(HexRewrite(ed, bb, cc, n))
          /\ HexRewrite(ed, bb, cc, n).open = ed.open /\ HexRewrite(ed, bb, cc, n).hex = ed.hex
  BY HexRewritten, Zenon
<1>6. /\ IsEditor(r1) /\ r1.open = ed.open /\ r1.hex = ed.hex
      /\ IsEditor(r2) /\ r2.open = ed.open /\ r2.hex = ed.hex
  <2>1. b \in Seq(Bytes) /\ ed.cur \in 0 .. Len(b) /\ 1 \in {0, 1} /\ ed.cur + 1 \in 0 .. Len(b) /\ 0 \in {0, 1}
    BY <1>1, <1>2, <1>4a
  <2>2. r1 = HexRewrite(ed, b, ed.cur, 1) /\ r2 = HexRewrite(ed, b, ed.cur + 1, 0)
    OBVIOUS
  <2> HIDE DEF r1, r2
  <2>3. IsEditor(r1) /\ r1.open = ed.open /\ r1.hex = ed.hex
    <3>1. /\ IsEditor(HexRewrite(ed, b, ed.cur, 1))
          /\ HexRewrite(ed, b, ed.cur, 1).open = ed.open /\ HexRewrite(ed, b, ed.cur, 1).hex = ed.hex
      BY <1>5, <2>1
    <3> QED BY <2>2, <3>1
  <2>4. IsEditor(r2) /\ r2.open = ed.open /\ r2.hex = ed.hex
    BY <1>5, <2>1, <2>2
  <2> QED BY <2>3, <2>4
<1> HIDE DEF r1, r2
<1>7. EditOf(ed, Touched(r1)) /\ EditOf(ed, Touched(r2))
  BY <1>6, TouchedEdits
<1> QED BY <1>3, <1>4, <1>7 DEF b

LEMMA FloorIn ==
    ASSUME NEW c \in Nat, NEW w \in Nat \ {0}
    PROVE  (c \div w) * w \in 0 .. c
<1>1. c \div w \in Nat /\ c = w * (c \div w) + (c % w) /\ c % w \in 0 .. w - 1
  OBVIOUS
<1>2. w * (c \div w) \in Nat /\ w * (c \div w) = (c \div w) * w
  BY <1>1
<1> QED BY <1>1, <1>2

-----------------------------------------------------------------------------
(* The invariant: the types of the session and of the file, and what the   *)
(* two properties say of them.                                             *)
SessionOK ==
    /\ IsEditor(ed) /\ clip \in Seq(Bytes) /\ last \in Seq(Bytes)
    /\ disk \in [fat : BOOLEAN, data : Seq(Bytes) \cup {Gone}] /\ head \in Nat
EditorInv == SessionOK /\ CleanMeansSaved /\ FindSound

(* The rows under any header that editor_draw_header draws.                *)
LEMMA HeaderIn == \A e : HeaderOf(e) \in Nat
  BY EditorAssumption DEF HeaderOf

LEMMA RowsIn ==
    ASSUME head \in Nat
    PROVE  WindowRows \in Nat /\ Larger(WindowRows - 1, 1) \in Nat
<1>1. Screen \in Nat
  BY EditorAssumption
<1>2. WindowRows \in Nat
  BY <1>1 DEF WindowRows, VisibleRows
<1> QED BY <1>2 DEF Larger

(* A key that leaves the text alone, or changes it and says so, keeps all  *)
(* of it.                                                                  *)
LEMMA Keeps ==
    ASSUME EditorInv, EditOf(ed, ed'), last' = last, disk' = disk, partial' = partial, base' = base,
           clip' \in Seq(Bytes), head' \in Nat,
           \/ missed' = FALSE
           \/ missed' = missed /\ ed'.buf = ed.buf
    PROVE  EditorInv'
<1>1. SessionOK'
  BY Zenon DEF EditorInv, SessionOK, EditOf, IsEditor
<1>2. CleanMeansSaved'
  BY Zenon DEF EditorInv, CleanMeansSaved, EditOf
<1>3. ed'.open /\ ed'.match.valid => /\ MatchAt(ed'.buf, last', ed'.match.start)
                                    /\ ed'.match.end = ed'.match.start + Len(last')
  BY Zenon DEF EditorInv, FindSound, EditOf
<1>4. missed' => \A i \in 0 .. Length(ed') : ~MatchAt(ed'.buf, last', i)
  <2> SUFFICES ASSUME missed' PROVE \A i \in 0 .. Length(ed') : ~MatchAt(ed'.buf, last', i)
    OBVIOUS
  <2>1. missed /\ ed'.buf = ed.buf
    OBVIOUS
  <2> QED BY <2>1, Zenon DEF EditorInv, FindSound, Length
<1> QED BY <1>1, <1>2, <1>3, <1>4 DEF EditorInv, FindSound

LEMMA ShowEdits ==
    ASSUME IsEditor(ed), NEW e, EditOf(ed, e), Show(e)
    PROVE  EditOf(ed, ed') /\ ed'.buf = e.buf /\ head' \in Nat
<1>1. ed' = Scroll(e) /\ IsEditor(e) /\ head' = HeaderOf(Scroll(e))
  BY Zenon DEF Show, Shows, EditOf
<1>2. EditOf(e, Scroll(e)) /\ Scroll(e).buf = e.buf
  BY <1>1, ScrollKeeps
<1>3. head' \in Nat
  BY <1>1, HeaderIn
<1> QED BY <1>1, <1>2, <1>3, EditOfEdit

LEMMA MovesKeep ==
    ASSUME EditorInv, NEW e, EditOf(ed, e), e.buf = ed.buf, Moves(e)
    PROVE  EditorInv'
<1>1. /\ Show(e) /\ clip' = clip /\ last' = last /\ disk' = disk /\ partial' = partial /\ base' = base /\ missed' = missed
      /\ clip \in Seq(Bytes) /\ IsEditor(ed)
  BY Zenon DEF Moves, EditorInv, SessionOK
<1>2. EditOf(ed, ed') /\ ed'.buf = ed.buf /\ head' \in Nat
  BY <1>1, ShowEdits
<1> QED BY <1>1, <1>2, Keeps

LEMMA ChangesKeep ==
    ASSUME EditorInv, NEW e, EditOf(ed, e), Changes(e)
    PROVE  EditorInv'
<1>1. /\ Show(e) /\ clip' = clip /\ last' = last /\ disk' = disk /\ partial' = partial /\ base' = base /\ missed' = FALSE
      /\ clip \in Seq(Bytes) /\ IsEditor(ed)
  BY Zenon DEF Changes, EditorInv, SessionOK
<1>2. EditOf(ed, ed') /\ head' \in Nat
  BY <1>1, ShowEdits
<1> QED BY <1>1, <1>2, Keeps

-----------------------------------------------------------------------------
(* One lemma for each group of keys.                                       *)
LEMMA InOrder ==
    ASSUME EditorInv
    PROVE  /\ IsEditor(ed) /\ clip \in Seq(Bytes) /\ last \in Seq(Bytes)
           /\ Length(ed) \in Nat /\ ed.cur \in Nat /\ ed.cur <= Length(ed) /\ ed.cur \in Spot(ed)
<1>1. IsEditor(ed) /\ clip \in Seq(Bytes) /\ last \in Seq(Bytes)
  BY Zenon DEF EditorInv, SessionOK
<1>2. Length(ed) \in Nat /\ ed.cur \in Spot(ed)
  BY <1>1, LengthIs
<1> QED BY <1>1, <1>2 DEF Spot

LEMMA TypingKeeps ==
    ASSUME EditorInv, (\E c \in Glyphs : Insert(c)) \/ Backspace \/ Delete \/ Paste
    PROVE  EditorInv'
<1>0. IsEditor(ed) /\ Length(ed) \in Nat /\ ed.cur \in Nat /\ clip \in Seq(Bytes)
  BY InOrder
<1>7. ASSUME Moves(ed) PROVE EditorInv'
  BY <1>0, <1>7, EditOfSame, MovesKeep
<1>1. ASSUME NEW c \in Glyphs, Insert(c) PROVE EditorInv'
  <2>1. <<c>> \in Seq(Bytes)
    BY EditorAssumption DEF Bytes
  <2>2. EditOf(ed, InsertText(ed, <<c>>))
    BY <1>0, <1>1, <2>1, InsertEdits DEF Insert
  <2>3. Changes(InsertText(ed, <<c>>)) \/ Moves(ed)
    BY <1>1, Zenon DEF Insert
  <2> QED BY <1>7, <2>2, <2>3, ChangesKeep
<1>2. ASSUME Changes(DeleteSelection(ed)) PROVE EditorInv'
  BY <1>0, <1>2, SelectionEdits, ChangesKeep
<1>3. ASSUME NEW i \in Nat, NEW j \in Nat, Changes(DeleteRange(ed, i, j)) PROVE EditorInv'
  BY <1>0, <1>3, DeleteEdits, ChangesKeep
<1>4. CASE Backspace
  <2>1. Changes(DeleteSelection(ed)) \/ (ed.cur > 0 /\ Changes(DeleteRange(ed, ed.cur - 1, ed.cur)))
    BY <1>4 DEF Backspace
  <2>2. ed.cur > 0 => ed.cur - 1 \in Nat
    BY <1>0
  <2> QED BY <1>0, <1>2, <1>3, <2>1, <2>2
<1>5. CASE Delete
  <2>1. Changes(DeleteSelection(ed)) \/ Changes(DeleteRange(ed, ed.cur, ed.cur + 1)) \/ Moves(ed)
    BY <1>5, Zenon DEF Delete
  <2>2. ed.cur + 1 \in Nat
    BY <1>0
  <2> QED BY <1>0, <1>2, <1>3, <1>7, <2>1, <2>2
<1>6. CASE Paste
  <2>1. Changes(InsertText(ed, clip))
    BY <1>6 DEF Paste
  <2> QED BY <1>0, <2>1, InsertEdits, ChangesKeep
<1> QED BY <1>1, <1>4, <1>5, <1>6

LEMMA CursorKeeps ==
    ASSUME EditorInv, Active(FALSE), NEW to \in Spot(ed), NEW shift \in BOOLEAN, Moves(MoveTo(ed, to, shift))
    PROVE  EditorInv'
<1>1. IsEditor(ed) /\ ~ed.hex
  BY InOrder DEF Active
<1>2. EditOf(ed, MoveTo(ed, to, shift)) /\ MoveTo(ed, to, shift).buf = ed.buf
  BY <1>1, MoveEdits
<1> QED BY <1>2, MovesKeep

LEMMA MovingKeeps ==
    ASSUME EditorInv, NEW shift \in BOOLEAN, NEW ctrl \in BOOLEAN,
           Left(shift, ctrl) \/ Right(shift, ctrl) \/ Home(shift, ctrl) \/ End(shift, ctrl)
    PROVE  EditorInv'
<1>0. /\ IsEditor(ed) /\ Length(ed) \in Nat /\ ed.cur \in Nat /\ ed.cur <= Length(ed) /\ ed.cur \in Spot(ed)
  BY InOrder
<1>1. WordLeft(ed, ed.cur) \in Spot(ed) /\ WordRight(ed, ed.cur) \in Spot(ed)
  BY <1>0, WordsWithin
<1>2. LineStart(ed, ed.cur) \in Spot(ed) /\ LineEnd(ed, ed.cur) \in Spot(ed)
  <2>1. LineStart(ed, ed.cur) \in 0 .. ed.cur /\ LineEnd(ed, ed.cur) \in ed.cur .. Length(ed)
    BY <1>0, LinesWithin
  <2> QED BY <1>0, <2>1 DEF Spot
<1>3. /\ Larger(ed.cur - 1, 0) \in Spot(ed) /\ Smaller(ed.cur + 1, Length(ed)) \in Spot(ed)
      /\ 0 \in Spot(ed) /\ Length(ed) \in Spot(ed)
  BY <1>0 DEF Larger, Smaller, Spot
<1>4. \E to \in Spot(ed) : Active(FALSE) /\ Moves(MoveTo(ed, to, shift))
  <2>1. CASE Left(shift, ctrl)
    BY <1>1, <1>3, <2>1, Zenon DEF Left
  <2>2. CASE Right(shift, ctrl)
    BY <1>1, <1>3, <2>2, Zenon DEF Right
  <2>3. CASE Home(shift, ctrl)
    BY <1>2, <1>3, <2>3, Zenon DEF Home
  <2>4. CASE End(shift, ctrl)
    BY <1>2, <1>3, <2>4, Zenon DEF End
  <2> QED BY <2>1, <2>2, <2>3, <2>4
<1> QED BY <1>4, CursorKeeps

LEMMA LinesKeep ==
    ASSUME EditorInv, NEW shift \in BOOLEAN, Up(shift) \/ Down(shift) \/ \E down \in BOOLEAN : Page(shift, down)
    PROVE  EditorInv'
<1> DEFINE start == LineStart(ed, ed.cur)
           end == LineEnd(ed, ed.cur)
<1>0. /\ IsEditor(ed) /\ Length(ed) \in Nat /\ ed.cur \in Nat /\ ed.cur <= Length(ed) /\ ed.cur \in Spot(ed)
  BY InOrder
<1>1. start \in 0 .. ed.cur /\ end \in ed.cur .. Length(ed)
  BY <1>0, LinesWithin
<1>2. CASE Up(shift)
  <2> DEFINE to == IF start = 0 THEN ed.cur ELSE Smaller(LineStart(ed, start - 1) + ed.cur - start, start - 1)
  <2>1. Active(FALSE) /\ Moves(MoveTo(ed, to, shift))
    BY <1>2 DEF Up
  <2>2. CASE start = 0
    BY <1>0, <2>1, <2>2, CursorKeeps
  <2>3. CASE start # 0
    <3>1. start - 1 \in Spot(ed)
      BY <1>0, <1>1, <2>3 DEF Spot
    <3>2. LineStart(ed, start - 1) \in 0 .. start - 1
      BY <1>0, <3>1, LinesWithin
    <3> HIDE DEF start, end
    <3>3. to \in Spot(ed)
      BY <1>0, <1>1, <2>3, <3>2 DEF Smaller, Spot
    <3> HIDE DEF to
    <3> QED BY <2>1, <3>3, CursorKeeps
  <2> QED BY <2>2, <2>3
<1>3. CASE Down(shift)
  <2> DEFINE to == IF end >= Length(ed) THEN ed.cur
                   ELSE Smaller(end + 1 + ed.cur - LineStart(ed, ed.cur), LineEnd(ed, end + 1))
  <2>1. Active(FALSE) /\ Moves(MoveTo(ed, to, shift))
    BY <1>3 DEF Down
  <2>2. CASE end >= Length(ed)
    BY <1>0, <2>1, <2>2, CursorKeeps
  <2>3. CASE ~(end >= Length(ed))
    <3>1. end + 1 \in Spot(ed)
      BY <1>0, <1>1, <2>3 DEF Spot
    <3>2. LineEnd(ed, end + 1) \in end + 1 .. Length(ed)
      BY <1>0, <3>1, LinesWithin
    <3>3. to \in Spot(ed)
      <4>1. to = Smaller(end + 1 + ed.cur - start, LineEnd(ed, end + 1))
        BY <2>3
      <4> HIDE DEF start, end, to
      <4> QED BY <1>0, <1>1, <3>2, <4>1 DEF Smaller, Spot
    <3> HIDE DEF to
    <3> QED BY <2>1, <3>3, CursorKeeps
  <2> QED BY <2>2, <2>3
<1>4. ASSUME NEW down \in BOOLEAN, Page(shift, down) PROVE EditorInv'
  <2>1. Larger(WindowRows - 1, 1) \in Nat
    BY RowsIn DEF EditorInv, SessionOK
  <2>2. MoveRows(ed, ed.cur, Larger(WindowRows - 1, 1), down) \in Spot(ed)
    BY <1>0, <2>1, PageWithin
  <2> QED BY <1>4, <2>2, CursorKeeps DEF Page
<1> QED BY <1>2, <1>3, <1>4

LEMMA SelectAllEdits ==
    ASSUME NEW e, IsEditor(e), ~e.hex
    PROVE  LET r == [e EXCEPT !.sel = TRUE, !.anchor = 0, !.cur = Length(e)]
           IN  EditOf(e, r) /\ r.buf = e.buf
<1> DEFINE r == [e EXCEPT !.sel = TRUE, !.anchor = 0, !.cur = Length(e)]
<1>0. e \in Record(e.top) /\ Length(e) \in Nat /\ 0 \in Nat
  BY LengthIs DEF IsEditor
<1>1. /\ r \in Record(e.top) /\ r.open = e.open /\ r.hex = e.hex /\ r.find = e.find /\ r.buf = e.buf /\ r.cur = Length(e)
      /\ r.anchor = 0 /\ r.dirty = e.dirty /\ r.match = e.match /\ r.top = e.top
  BY <1>0, Zenon DEF Record
<1> HIDE DEF r
<1>2. r.cur \in Spot(r) /\ r.anchor \in Spot(r) /\ r \in Record(r.top)
  BY <1>0, <1>1 DEF Spot, Length
<1>3. IsEditor(r)
  BY <1>1, <1>2, Zenon DEF IsEditor
<1>4. EditOf(e, r) /\ r.buf = e.buf
  BY <1>1, <1>3, Zenon DEF EditOf
<1> QED BY <1>4 DEF r

LEMMA SelectingKeeps ==
    ASSUME EditorInv, SelectAll \/ Copy \/ CutOut
    PROVE  EditorInv'
<1>0. IsEditor(ed) /\ clip \in Seq(Bytes)
  BY InOrder
<1>1. CASE SelectAll
  <2> DEFINE r == [ed EXCEPT !.sel = TRUE, !.anchor = 0, !.cur = Length(ed)]
  <2>1. Moves(r) /\ ~ed.hex
    BY <1>1 DEF SelectAll, Active
  <2>2. EditOf(ed, r) /\ r.buf = ed.buf
    BY <1>0, <2>1, SelectAllEdits
  <2> HIDE DEF r
  <2> QED BY <2>1, <2>2, MovesKeep
<1>2. CASE Copy
  <2>1. /\ HasSelection(ed) /\ clip' = Selected(ed) /\ Show(ed) /\ last' = last /\ disk' = disk /\ partial' = partial /\ base' = base
        /\ missed' = missed
    BY <1>2, Zenon DEF Copy
  <2>2. EditOf(ed, ed') /\ ed'.buf = ed.buf /\ head' \in Nat
    BY <1>0, <2>1, EditOfSame, ShowEdits
  <2>3. Selected(ed) \in Seq(Bytes)
    BY <1>0, <2>1, SelectionWithin
  <2> QED BY <2>1, <2>2, <2>3, Keeps
<1>3. CASE CutOut
  <2>1. /\ HasSelection(ed) /\ clip' = Selected(ed) /\ Show(DeleteSelection(ed)) /\ last' = last /\ disk' = disk
        /\ partial' = partial /\ base' = base /\ missed' = FALSE
    BY <1>3, Zenon DEF CutOut
  <2>2. EditOf(ed, ed') /\ head' \in Nat
    BY <1>0, <2>1, SelectionEdits, ShowEdits
  <2>3. Selected(ed) \in Seq(Bytes)
    BY <1>0, <2>1, SelectionWithin
  <2> QED BY <2>1, <2>2, <2>3, Keeps
<1> QED BY <1>1, <1>2, <1>3

LEMMA HexMoveKeeps ==
    ASSUME EditorInv, HexMove
    PROVE  EditorInv'
<1>0. /\ IsEditor(ed) /\ Length(ed) \in Nat /\ ed.cur \in Nat /\ ed.cur <= Length(ed) /\ ed.cur \in Spot(ed)
  BY InOrder
<1>1. HexWidth \in Nat \ {0}
  BY EditorAssumption
<1> DEFINE row == (ed.cur \div HexWidth) * HexWidth
           page == Larger(WindowRows - 1, 1) * HexWidth
<1>2. row \in 0 .. ed.cur
  BY <1>0, <1>1, FloorIn
<1>3. page \in Nat
  <2>1. Larger(WindowRows - 1, 1) \in Nat
    BY RowsIn DEF EditorInv, SessionOK
  <2> QED BY <1>1, <2>1
<1>4. \E i \in Spot(ed) : Go(i) /\ ed.hex
  <2>1. /\ ed.hex
        /\ \/ Go(Larger(ed.cur - 1, 0)) \/ Go(Smaller(ed.cur + 1, Length(ed)))
           \/ Go(row) \/ Go(0) \/ Go(Smaller(row + HexWidth - 1, Length(ed))) \/ Go(Length(ed))
           \/ Go(Larger(ed.cur - page, 0)) \/ Go(Smaller(ed.cur + page, Length(ed)))
           \/ Go(IF ed.cur >= HexWidth THEN ed.cur - HexWidth ELSE ed.cur) \/ Go(Smaller(ed.cur + HexWidth, Length(ed)))
    BY Zenon DEF HexMove, Active
  <2> HIDE DEF row, page
  <2>2. /\ Larger(ed.cur - 1, 0) \in Spot(ed) /\ Smaller(ed.cur + 1, Length(ed)) \in Spot(ed) /\ row \in Spot(ed)
        /\ 0 \in Spot(ed) /\ Smaller(row + HexWidth - 1, Length(ed)) \in Spot(ed) /\ Length(ed) \in Spot(ed)
    BY <1>0, <1>1, <1>2 DEF Larger, Smaller, Spot
  <2>3. /\ Larger(ed.cur - page, 0) \in Spot(ed) /\ Smaller(ed.cur + page, Length(ed)) \in Spot(ed)
        /\ (IF ed.cur >= HexWidth THEN ed.cur - HexWidth ELSE ed.cur) \in Spot(ed)
        /\ Smaller(ed.cur + HexWidth, Length(ed)) \in Spot(ed)
    BY <1>0, <1>1, <1>3 DEF Larger, Smaller, Spot
  <2> QED BY <2>1, <2>2, <2>3, Zenon
<1>5. PICK i \in Spot(ed) : Go(i) /\ ed.hex
  BY <1>4
<1> DEFINE r == [ed EXCEPT !.cur = i, !.nib = 0]
<1>6. EditOf(ed, r) /\ r.buf = ed.buf
  BY <1>0, <1>5, HexMoved
<1>7. Moves(r)
  BY <1>5 DEF Go
<1> HIDE DEF r
<1> QED BY <1>6, <1>7, MovesKeep

LEMMA HexKeeps ==
    ASSUME EditorInv, HexDelete \/ HexBackspace \/ \E h \in Nibbles : HexDigit(h)
    PROVE  EditorInv'
<1>0. IsEditor(ed) /\ Length(ed) \in Nat /\ ed.cur \in Nat /\ ed.cur <= Length(ed)
  BY InOrder
<1>1. CASE HexDelete
  <2>1. ed.hex /\ ed.cur < Length(ed) /\ Changes(HexRemove(ed.cur))
    BY <1>1 DEF HexDelete, Active
  <2> QED BY <1>0, <2>1, HexRemoveEdits, ChangesKeep
<1>2. CASE HexBackspace
  <2>1. ed.hex /\ ed.cur > 0 /\ Changes(Touched(HexRemove(ed.cur - 1)))
    BY <1>2 DEF HexBackspace, Active
  <2>2. ed.cur - 1 \in Nat /\ ed.cur - 1 < Length(ed)
    BY <1>0, <2>1
  <2>3. EditOf(ed, HexRemove(ed.cur - 1))
    BY <1>0, <2>1, <2>2, HexRemoveEdits
  <2>4. EditOf(ed, Touched(HexRemove(ed.cur - 1)))
    BY <2>3, TouchedEdits DEF EditOf
  <2> QED BY <2>1, <2>4, ChangesKeep
<1>3. ASSUME NEW h \in Nibbles, HexDigit(h) PROVE EditorInv'
  <2> DEFINE r1 == Touched([ed EXCEPT !.buf = DigitText(ed, h), !.nib = 1])
             r2 == Touched([ed EXCEPT !.buf = DigitText(ed, h), !.nib = 0, !.cur = @ + 1])
  <2>1. ed.hex /\ (Changes(r1) \/ Changes(r2))
    <3>1. CASE ed.nib = 0
      BY <1>3, <3>1, Zenon DEF HexDigit, DigitText, Active
    <3>2. CASE ed.nib # 0
      BY <1>3, <3>2, Zenon DEF HexDigit, DigitText, Active
    <3> QED BY <3>1, <3>2
  <2>2. EditOf(ed, r1) /\ EditOf(ed, r2)
    BY <1>0, <2>1, DigitEdits
  <2> HIDE DEF r1, r2
  <2> QED BY <2>1, <2>2, ChangesKeep
<1> QED BY <1>1, <1>2, <1>3

(* The keys of the prompt for a search.                                    *)
Asked(e, f, q) == [e EXCEPT !.find = f, !.query = q]

LEMMA AskedEdits ==
    ASSUME NEW e, IsEditor(e), NEW f, NEW q, f \in BOOLEAN, f => ~e.hex, q \in Seq(Bytes)
    PROVE  EditOf(e, Asked(e, f, q)) /\ Asked(e, f, q).buf = e.buf
<1> DEFINE r == Asked(e, f, q)
<1>0. e \in Record(e.top)
  BY DEF IsEditor
<1>1. /\ r \in Record(e.top) /\ r.open = e.open /\ r.hex = e.hex /\ r.find = f /\ r.buf = e.buf /\ r.cur = e.cur
      /\ r.sel = e.sel /\ r.anchor = e.anchor /\ r.dirty = e.dirty /\ r.match = e.match /\ r.top = e.top
  BY <1>0, Zenon DEF Record, Asked
<1> HIDE DEF r
<1>2. Spot(r) = Spot(e) /\ r \in Record(r.top)
  BY <1>1 DEF Spot, Length
<1>3. IsEditor(r)
  BY <1>1, <1>2, Zenon DEF IsEditor
<1>4. EditOf(e, r) /\ r.buf = e.buf
  BY <1>1, <1>3, Zenon DEF EditOf
<1> QED BY <1>4 DEF r

LEMMA AskingKeeps ==
    ASSUME EditorInv, FindOpen \/ FindBackspace \/ FindCancel \/ \E c \in Glyphs : FindType(c)
    PROVE  EditorInv'
<1>0. /\ IsEditor(ed) /\ last \in Seq(Bytes) /\ clip \in Seq(Bytes)
      /\ ed \in Record(ed.top) /\ ed.query \in Seq(Bytes) /\ ed.find \in BOOLEAN /\ (ed.find => ~ed.hex)
  <2>1. IsEditor(ed) /\ last \in Seq(Bytes) /\ clip \in Seq(Bytes)
    BY InOrder
  <2> QED BY <2>1, Zenon DEF IsEditor, Record
<1>1. CASE FindOpen
  <2> DEFINE q == IF ed.query = <<>> THEN last ELSE ed.query
             r == Asked(ed, TRUE, q)
  <2>1. Show([ed EXCEPT !.find = TRUE, !.query = q]) /\ ~ed.hex
    BY <1>1 DEF FindOpen, Active
  <2>2. q \in Seq(Bytes)
    BY <1>0
  <2> HIDE DEF q
  <2>3. Show(r)
    BY <2>1 DEF Asked
  <2>4. EditOf(ed, r) /\ r.buf = ed.buf
    <3>1. ASSUME NEW f \in BOOLEAN, f = TRUE
          PROVE  EditOf(ed, Asked(ed, f, q)) /\ Asked(ed, f, q).buf = ed.buf
      BY <1>0, <2>1, <2>2, AskedEdits
    <3> QED BY <3>1
  <2> HIDE DEF r
  <2>5. EditOf(ed, ed') /\ ed'.buf = ed.buf /\ head' \in Nat
    BY <1>0, <2>3, <2>4, ShowEdits
  <2>6. clip' = clip /\ last' = last /\ disk' = disk /\ partial' = partial /\ base' = base /\ missed' = missed
    BY <1>1 DEF FindOpen
  <2> QED BY <1>0, <2>5, <2>6, Keeps
<1>2. ASSUME NEW f \in BOOLEAN, f => ~ed.hex, NEW q \in Seq(Bytes), Finding(Asked(ed, f, q))
      PROVE  EditorInv'
  <2>1. EditOf(ed, Asked(ed, f, q)) /\ Asked(ed, f, q).buf = ed.buf
    BY <1>0, <1>2, AskedEdits
  <2>2. Moves(Asked(ed, f, q))
    BY <1>2 DEF Finding
  <2> QED BY <2>1, <2>2, MovesKeep
<1>3. ASSUME NEW c \in Glyphs, FindType(c) PROVE EditorInv'
  <2> DEFINE q == Append(ed.query, c)
  <2>1. q \in Seq(Bytes)
    BY <1>0, EditorAssumption, AppendProperties DEF Bytes
  <2>2. Finding([ed EXCEPT !.query = q])
    BY <1>3 DEF FindType
  <2> HIDE DEF q
  <2>3. [ed EXCEPT !.query = q] = Asked(ed, ed.find, q)
    BY <1>0 DEF Record, Asked
  <2> QED BY <1>0, <1>2, <2>1, <2>2, <2>3
<1>4. CASE FindBackspace
  <2> DEFINE q == Front(ed.query)
  <2>1. q \in Seq(Bytes)
    <3>1. ed.query # <<>> /\ q = SubSeq(ed.query, 1, Len(ed.query) - 1)
      BY <1>4 DEF FindBackspace, Front
    <3>2. Len(ed.query) - 1 \in 0 .. Len(ed.query)
      BY <1>0, <3>1
    <3> QED BY <1>0, <3>1, <3>2, PartsOf
  <2>2. Finding([ed EXCEPT !.query = q])
    BY <1>4 DEF FindBackspace
  <2> HIDE DEF q
  <2>3. [ed EXCEPT !.query = q] = Asked(ed, ed.find, q)
    BY <1>0 DEF Record, Asked
  <2> QED BY <1>0, <1>2, <2>1, <2>2, <2>3
<1>5. CASE FindCancel
  <2>1. [ed EXCEPT !.find = FALSE] = Asked(ed, FALSE, ed.query)
    BY <1>0 DEF Record, Asked
  <2>2. Finding(Asked(ed, FALSE, ed.query))
    BY <1>5, <2>1 DEF FindCancel
  <2> QED BY <1>0, <1>2, <2>2
<1> QED BY <1>1, <1>3, <1>4, <1>5

(* A search ends at one of the places, from whichever it starts.           *)
LEMMA SearchIn ==
    ASSUME NEW e, NEW n \in Nat, NEW places, places \subseteq 0 .. n, places # {}
    PROVE  NextOf(e, places) \in places /\ PrevOf(e, places) \in places
<1>0. places \subseteq Nat
  OBVIOUS
<1>1. ASSUME NEW s PROVE \A S : S = {i \in places : i >= s} /\ S # {} => Least(S) \in places
  BY <1>0, LeastIn
<1>2. ASSUME NEW s PROVE \A S : S = {i \in places : i < s} /\ S # {} => Greatest(S) \in places
  BY GreatestIn
<1>3. Least(places) \in places /\ Greatest(places) \in places
  BY <1>0, LeastIn, GreatestIn
<1>4. NextOf(e, places) \in places
  <2> DEFINE start == IF e.match.valid /\ e.match.end > e.cur THEN e.match.end ELSE e.cur
             S == {i \in places : i >= start}
  <2>1. NextOf(e, places) = IF \E i \in places : i >= start THEN Least(S) ELSE Least(places)
    BY DEF NextOf
  <2> HIDE DEF start
  <2>2. CASE \E i \in places : i >= start
    <3>1. S # {}
      BY <2>2
    <3>2. Least(S) \in places
      BY <1>1, <3>1
    <3> QED BY <2>1, <2>2, <3>2
  <2>3. CASE ~\E i \in places : i >= start
    BY <1>3, <2>1, <2>3
  <2> QED BY <2>2, <2>3
<1>5. PrevOf(e, places) \in places
  <2> DEFINE start == IF e.cur = 0 THEN Length(e) ELSE e.cur
             S == {i \in places : i < start}
  <2>1. PrevOf(e, places) = IF \E i \in places : i < start THEN Greatest(S) ELSE Greatest(places)
    BY DEF PrevOf
  <2> HIDE DEF start
  <2>2. CASE \E i \in places : i < start
    <3>1. S # {}
      BY <2>2
    <3>2. Greatest(S) \in places
      BY <1>2, <3>1
    <3> QED BY <2>1, <2>2, <3>2
  <2>3. CASE ~\E i \in places : i < start
    BY <1>3, <2>1, <2>3
  <2> QED BY <2>2, <2>3
<1> QED BY <1>4, <1>5

LEMMA SearchKeeps ==
    ASSUME EditorInv, NEW shift \in BOOLEAN, FindEnter(shift)
    PROVE  EditorInv'
<1> DEFINE e == [ed EXCEPT !.find = FALSE]
           places == {i \in 0 .. Length(ed) : MatchAt(ed.buf, ed.query, i)}
           i == IF shift THEN PrevOf(e, places) ELSE NextOf(e, places)
           hit == [valid |-> TRUE, start |-> i, end |-> i + Len(ed.query)]
<1>0. /\ IsEditor(ed) /\ last \in Seq(Bytes) /\ clip \in Seq(Bytes) /\ Length(ed) \in Nat
      /\ ed \in Record(ed.top) /\ ed.query \in Seq(Bytes) /\ ~ed.hex /\ ed.open
  <2>1. IsEditor(ed) /\ last \in Seq(Bytes) /\ clip \in Seq(Bytes) /\ Length(ed) \in Nat
    BY InOrder
  <2>2. ed.open /\ ed.find
    BY DEF FindEnter
  <2> QED BY <2>1, <2>2, Zenon DEF IsEditor, Record
<1>1. clip' = clip /\ disk' = disk /\ partial' = partial /\ base' = base
  BY DEF FindEnter
<1>2. CASE ed.query = <<>>
  <2>1. Show(e) /\ missed' = missed /\ last' = last
    BY <1>2 DEF FindEnter
  <2>2. e = Asked(ed, FALSE, ed.query)
    BY <1>0 DEF Record, Asked
  <2>3. EditOf(ed, e) /\ e.buf = ed.buf
    <3>1. ASSUME NEW f \in BOOLEAN, f = FALSE
          PROVE  EditOf(ed, Asked(ed, f, ed.query)) /\ Asked(ed, f, ed.query).buf = ed.buf
      BY <1>0, <3>1, AskedEdits
    <3>2. EditOf(ed, Asked(ed, FALSE, ed.query)) /\ Asked(ed, FALSE, ed.query).buf = ed.buf
      BY <3>1
    <3> HIDE DEF e
    <3> QED BY <2>2, <3>2
  <2> HIDE DEF e
  <2>4. EditOf(ed, ed') /\ ed'.buf = ed.buf /\ head' \in Nat
    BY <1>0, <2>1, <2>3, ShowEdits
  <2> QED BY <1>0, <1>1, <2>1, <2>4, Keeps
<1>3. e \in Record(e.top) /\ e.open = ed.open /\ e.hex = ed.hex /\ e.buf = ed.buf /\ e.cur = ed.cur /\ ~e.find
      /\ e.sel = ed.sel /\ e.anchor = ed.anchor /\ e.dirty = ed.dirty /\ e.top = ed.top
  BY <1>0 DEF Record
<1>4. \/ /\ places = {}
         /\ Show([e EXCEPT !.match = NoMatch]) /\ missed' = TRUE /\ last' = ed.query
      \/ /\ places # {}
         /\ Show([e EXCEPT !.match = hit, !.cur = i]) /\ missed' = FALSE /\ last' = ed.query
      \/ ed.query = <<>>
  BY Zenon DEF FindEnter
<1>5. CASE places = {} /\ Show([e EXCEPT !.match = NoMatch]) /\ missed' = TRUE /\ last' = ed.query
  <2> DEFINE r == [e EXCEPT !.match = NoMatch]
  <2>0. NoMatch \in [valid : BOOLEAN, start : Nat, end : Nat] /\ ~NoMatch.valid
    BY DEF NoMatch
  <2> HIDE DEF e
  <2>1. /\ r \in Record(e.top) /\ r.open = e.open /\ r.hex = e.hex /\ ~r.find /\ r.buf = e.buf /\ r.cur = e.cur
        /\ r.sel = e.sel /\ r.anchor = e.anchor /\ r.dirty = e.dirty /\ r.match = NoMatch /\ r.top = e.top
    BY <1>3, <2>0, Zenon DEF Record
  <2>2. ed' = Scroll(r) /\ head' \in Nat
    BY <1>5, HeaderIn DEF Show, Shows
  <2> HIDE DEF r
  <2>3. Spot(r) = Spot(ed) /\ r \in Record(r.top)
    BY <1>3, <2>1 DEF Spot, Length
  <2>4. IsEditor(r)
    BY <1>0, <1>3, <2>0, <2>1, <2>3, Zenon DEF IsEditor
  <2>5. /\ IsEditor(ed') /\ ed'.buf = ed.buf /\ ed'.dirty = ed.dirty /\ ~ed'.match.valid /\ ed'.open = ed.open
    BY <1>3, <2>0, <2>1, <2>2, <2>4, ScrollKeeps, Zenon DEF EditOf
  <2>6. \A k \in 0 .. Length(ed) : ~MatchAt(ed.buf, ed.query, k)
    BY <1>5
  <2> HIDE DEF places, hit
  <2>7. SessionOK'
    BY <1>0, <1>1, <1>5, <2>2, <2>5, Zenon DEF EditorInv, SessionOK
  <2>8. CleanMeansSaved'
    BY <1>1, <2>5, Zenon DEF EditorInv, CleanMeansSaved
  <2>9. FindSound'
    BY <1>5, <2>5, <2>6, Zenon DEF FindSound, Length
  <2> QED BY <2>7, <2>8, <2>9 DEF EditorInv
<1>6. CASE places # {} /\ Show([e EXCEPT !.match = hit, !.cur = i]) /\ missed' = FALSE /\ last' = ed.query
  <2> DEFINE r == [e EXCEPT !.match = hit, !.cur = i]
  <2>0. i \in places
    <3>1. places \subseteq 0 .. Length(ed)
      OBVIOUS
    <3> HIDE DEF e, places
    <3> QED BY <1>0, <1>6, <3>1, SearchIn
  <2>1. i \in 0 .. Length(ed) /\ MatchAt(ed.buf, ed.query, i)
    BY <2>0
  <2> HIDE DEF i, places, e
  <2>2. /\ hit \in [valid : BOOLEAN, start : Nat, end : Nat] /\ hit.valid /\ hit.start = i /\ hit.end = i + Len(ed.query)
        /\ i \in Nat
    BY <1>0, <2>1
  <2> HIDE DEF hit
  <2>3. /\ r \in Record(e.top) /\ r.open = e.open /\ r.hex = e.hex /\ ~r.find /\ r.buf = e.buf /\ r.cur = i
        /\ r.sel = e.sel /\ r.anchor = e.anchor /\ r.dirty = e.dirty /\ r.match = hit /\ r.top = e.top
    BY <1>3, <2>2, Zenon DEF Record
  <2>4. ed' = Scroll(r) /\ head' \in Nat
    BY <1>6, HeaderIn DEF Show, Shows
  <2> HIDE DEF r
  <2>5. Spot(r) = Spot(ed) /\ r \in Record(r.top) /\ r.cur \in Spot(r)
    BY <1>3, <2>1, <2>3 DEF Spot, Length
  <2>6. IsEditor(r)
    BY <1>0, <1>3, <2>3, <2>5, Zenon DEF IsEditor
  <2>7. /\ IsEditor(ed') /\ ed'.buf = ed.buf /\ ed'.dirty = ed.dirty /\ ed'.match = hit /\ ed'.open = ed.open
    BY <1>3, <2>3, <2>4, <2>6, ScrollKeeps, Zenon DEF EditOf
  <2>8. SessionOK'
    BY <1>0, <1>1, <1>6, <2>4, <2>7, Zenon DEF EditorInv, SessionOK
  <2>9. CleanMeansSaved'
    BY <1>1, <2>7, Zenon DEF EditorInv, CleanMeansSaved
  <2>10. FindSound'
    BY <1>6, <2>1, <2>2, <2>7, Zenon DEF FindSound
  <2> QED BY <2>8, <2>9, <2>10 DEF EditorInv
<1> QED BY <1>2, <1>4, <1>5, <1>6

(* The file, and sessions that begin and end.                              *)
LEMMA SavedKeeps ==
    ASSUME EditorInv, Save \/ SaveFails
    PROVE  EditorInv'
<1>0. /\ IsEditor(ed) /\ last \in Seq(Bytes) /\ clip \in Seq(Bytes) /\ ed \in Record(ed.top) /\ ed.buf \in Seq(Bytes)
      /\ disk \in [fat : BOOLEAN, data : Seq(Bytes) \cup {Gone}]
  BY Zenon DEF EditorInv, SessionOK, IsEditor, Record
<1>1. CASE Save
  <2> DEFINE r == [ed EXCEPT !.dirty = FALSE]
  <2>1. /\ disk' = [disk EXCEPT !.data = ed.buf] /\ base' = ed.buf /\ Show(r)
        /\ clip' = clip /\ last' = last /\ missed' = missed
    BY <1>1, Zenon DEF Save
  <2>2. /\ r \in Record(ed.top) /\ r.open = ed.open /\ r.hex = ed.hex /\ r.find = ed.find /\ r.buf = ed.buf
        /\ r.cur = ed.cur /\ r.sel = ed.sel /\ r.anchor = ed.anchor /\ r.match = ed.match /\ r.top = ed.top
    BY <1>0, Zenon DEF Record
  <2>3. ed' = Scroll(r) /\ head' \in Nat
    BY <2>1, HeaderIn DEF Show, Shows
  <2> HIDE DEF r
  <2>4. Spot(r) = Spot(ed) /\ r \in Record(r.top)
    BY <2>2 DEF Spot, Length
  <2>5. IsEditor(r)
    BY <1>0, <2>2, <2>4, Zenon DEF IsEditor
  <2>6. IsEditor(ed') /\ ed'.buf = ed.buf /\ ed'.match = ed.match /\ ed'.open = ed.open
    BY <2>2, <2>3, <2>5, ScrollKeeps, Zenon DEF EditOf
  <2>7. disk' \in [fat : BOOLEAN, data : Seq(Bytes) \cup {Gone}] /\ disk'.data = ed.buf
    BY <1>0, <2>1
  <2>8. SessionOK'
    BY <1>0, <2>1, <2>3, <2>6, <2>7, Zenon DEF SessionOK
  <2>9. CleanMeansSaved'
    BY <2>1, <2>6, <2>7, Zenon DEF CleanMeansSaved
  <2>10. FindSound'
    BY <2>1, <2>6, Zenon DEF EditorInv, FindSound, Length
  <2> QED BY <2>8, <2>9, <2>10 DEF EditorInv
<1>2. CASE SaveFails
  <2>1. /\ disk' = disk \/ (disk.fat /\ disk' = [disk EXCEPT !.data = Gone])
        /\ Show(ed) /\ partial' = partial /\ base' = base
        /\ clip' = clip /\ last' = last /\ missed' = missed
    BY <1>2, Zenon DEF SaveFails
  <2>2. EditOf(ed, ed') /\ ed'.buf = ed.buf /\ head' \in Nat
    BY <1>0, <2>1, EditOfSame, ShowEdits
  <2>3. CASE disk' = disk
    BY <1>0, <2>1, <2>2, <2>3, Keeps
  <2>4. CASE disk.fat /\ disk' = [disk EXCEPT !.data = Gone]
    <3>1. disk' \in [fat : BOOLEAN, data : Seq(Bytes) \cup {Gone}] /\ disk'.fat /\ disk'.data = Gone
      BY <1>0, <2>4
    <3>2. SessionOK'
      BY <1>0, <2>1, <2>2, <3>1, Zenon DEF SessionOK, EditOf
    <3>3. CleanMeansSaved'
      BY <2>1, <2>2, <3>1, Zenon DEF EditorInv, CleanMeansSaved, EditOf
    <3>4. FindSound'
      BY <2>1, <2>2, Zenon DEF EditorInv, FindSound, Length, EditOf
    <3> QED BY <3>2, <3>3, <3>4 DEF EditorInv
  <2> QED BY <2>1, <2>3, <2>4
<1> QED BY <1>1, <1>2

LEMMA ClosedOK == IsEditor(Closed) /\ ~Closed.open
<1>1. NoMatch \in [valid : BOOLEAN, start : Nat, end : Nat] /\ ~NoMatch.valid
  BY DEF NoMatch
<1>2. <<>> \in Seq(Bytes) /\ Len(<<>>) = 0
  OBVIOUS
<1>3. Closed \in Record(0)
  BY <1>1, <1>2 DEF Closed, Record
<1>4. /\ Closed.cur \in Spot(Closed) /\ ~Closed.sel /\ ~Closed.find /\ ~Closed.match.valid /\ Closed.top = 0
  BY <1>1, <1>2 DEF Closed, Spot, Length
<1>5. ~Closed.open
  BY DEF Closed
<1> QED BY <1>3, <1>4, <1>5 DEF IsEditor

LEMMA ClosedKeeps ==
    ASSUME EditorInv, SaveAndClose \/ Close
    PROVE  EditorInv'
<1>0. /\ last \in Seq(Bytes) /\ clip \in Seq(Bytes) /\ ed.buf \in Seq(Bytes)
      /\ disk \in [fat : BOOLEAN, data : Seq(Bytes) \cup {Gone}]
  BY Zenon DEF EditorInv, SessionOK, IsEditor, Record
<1>1. ed' = Closed /\ missed' = FALSE /\ clip' = clip /\ last' = last /\ head' = head /\ head \in Nat
  BY Zenon DEF SaveAndClose, Close, Shut, EditorInv, SessionOK
<1>2. disk' = disk \/ disk' = [disk EXCEPT !.data = ed.buf]
  BY Zenon DEF SaveAndClose, Close, Shut
<1>3. disk' \in [fat : BOOLEAN, data : Seq(Bytes) \cup {Gone}]
  BY <1>0, <1>2
<1>4. SessionOK'
  BY <1>0, <1>1, <1>3, ClosedOK DEF SessionOK
<1>5. CleanMeansSaved' /\ FindSound'
  BY <1>1, ClosedOK DEF CleanMeansSaved, FindSound
<1> QED BY <1>4, <1>5 DEF EditorInv

LEMMA OpenedKeeps ==
    ASSUME EditorInv, NEW hex \in BOOLEAN, Open(hex)
    PROVE  EditorInv'
<1> DEFINE room == IF hex THEN Size ELSE Size - 1
           text == CASE disk.data = Gone \/ (Len(disk.data) > room /\ disk.fat) -> <<>>
                     [] disk.data # Gone /\ Len(disk.data) <= room -> disk.data
                     [] OTHER -> SubSeq(disk.data, 1, room)
           r == [Closed EXCEPT !.open = TRUE, !.hex = hex, !.buf = text, !.cur = Len(text), !.anchor = Len(text)]
<1>0. /\ last \in Seq(Bytes) /\ clip \in Seq(Bytes) /\ disk \in [fat : BOOLEAN, data : Seq(Bytes) \cup {Gone}]
  BY Zenon DEF EditorInv, SessionOK
<1>1. /\ Show(r) /\ partial' = (text # disk.data) /\ base' = text /\ missed' = FALSE
      /\ clip' = clip /\ last' = last /\ disk' = disk
  BY Zenon DEF Open
<1>2. text \in Seq(Bytes)
  <2>1. CASE disk.data = Gone \/ (Len(disk.data) > room /\ disk.fat)
    <3>1. room \in Nat
      BY EditorAssumption
    <3>2. text = <<>>
      <4>1. CASE disk.data = Gone
        BY <4>1
      <4>2. CASE disk.data # Gone
        <5>1. disk.data \in Seq(Bytes)
          BY <1>0, <4>2
        <5>2. Len(disk.data) \in Nat /\ Len(disk.data) > room /\ disk.fat
          BY <2>1, <4>2, <5>1
        <5> HIDE DEF room
        <5> QED BY <3>1, <4>2, <5>2
      <4> QED BY <4>1, <4>2
    <3>3. <<>> \in Seq(Bytes)
      OBVIOUS
    <3> HIDE DEF text
    <3> QED BY <3>2, <3>3
  <2>2. CASE ~(disk.data = Gone \/ (Len(disk.data) > room /\ disk.fat))
    <3>1. disk.data \in Seq(Bytes) /\ room \in Nat
      BY <1>0, <2>2, EditorAssumption
    <3>2. CASE Len(disk.data) <= room
      <4>1. text = disk.data
        BY <2>2, <3>2
      <4> QED BY <3>1, <4>1
    <3>3. CASE ~(Len(disk.data) <= room)
      <4>1. text = SubSeq(disk.data, 1, room)
        BY <2>2, <3>3
      <4>2. room \in 0 .. Len(disk.data)
        BY <3>1, <3>3
      <4> HIDE DEF room, text
      <4> QED BY <3>1, <4>1, <4>2, PartsOf
    <3> QED BY <3>2, <3>3
  <2> QED BY <2>1, <2>2
<1> HIDE DEF text, room
<1>3. NoMatch \in [valid : BOOLEAN, start : Nat, end : Nat] /\ ~NoMatch.valid
  BY DEF NoMatch
<1>4. Len(text) \in Nat /\ <<>> \in Seq(Bytes)
  BY <1>2
<1>5. Closed \in Record(0) /\ ~Closed.sel /\ Closed.top = 0 /\ ~Closed.find /\ Closed.match = NoMatch
  BY <1>3, <1>4 DEF Closed, Record
<1>6. r \in Record(0) /\ r.buf = text /\ r.cur = Len(text) /\ r.sel = Closed.sel /\ r.top = Closed.top
      /\ r.find = Closed.find /\ r.match = Closed.match
  BY <1>2, <1>4, <1>5, Zenon DEF Record
<1> HIDE DEF r
<1>7. /\ r.buf = text /\ r.cur = Len(text) /\ ~r.sel /\ r.top = 0 /\ ~r.find /\ r.match = NoMatch
  BY <1>5, <1>6, Zenon
<1>8. r.cur \in Spot(r)
  BY <1>4, <1>7 DEF Spot, Length
<1>9. IsEditor(r)
  BY <1>3, <1>6, <1>7, <1>8 DEF IsEditor
<1>10. ed' = Scroll(r) /\ head' \in Nat
  BY <1>1, HeaderIn DEF Show, Shows
<1>11. IsEditor(ed') /\ ed'.buf = text /\ ed'.match = NoMatch
  BY <1>7, <1>9, <1>10, ScrollKeeps, Zenon DEF EditOf
<1>12. SessionOK'
  BY <1>0, <1>1, <1>10, <1>11, Zenon DEF SessionOK
<1>13. CleanMeansSaved'
  BY <1>1, <1>11, Zenon DEF CleanMeansSaved
<1>14. FindSound'
  BY <1>1, <1>3, <1>11, Zenon DEF FindSound
<1> QED BY <1>12, <1>13, <1>14 DEF EditorInv

-----------------------------------------------------------------------------
(* The session's types hold, an unmodified buffer is what the file holds,  *)
(* and a match spells the query, in every state: whatever keys of          *)
(* editor_handle_key and editor_hex_handle_key come in whatever order.     *)
THEOREM EditorInvariant == EditorSpec => []EditorInv
<1>1. ASSUME EditorInit PROVE EditorInv
  <2>1. /\ ed = Closed /\ clip = <<>> /\ last = <<>> /\ disk \in Files /\ missed = FALSE /\ head \in Nat
    BY <1>1 DEF EditorInit
  <2>2. disk \in [fat : BOOLEAN, data : Seq(Bytes) \cup {Gone}]
    <3>1. disk \in [fat : BOOLEAN, data : Seq(Bytes)]
      BY <2>1, EditorAssumption DEF Bytes
    <3> QED BY <3>1
  <2>3. <<>> \in Seq(Bytes)
    OBVIOUS
  <2>4. SessionOK
    BY <2>1, <2>2, <2>3, ClosedOK, Zenon DEF SessionOK
  <2>5. CleanMeansSaved /\ FindSound
    BY <2>1, ClosedOK DEF CleanMeansSaved, FindSound
  <2> QED BY <2>4, <2>5 DEF EditorInv
<1>2. ASSUME EditorInv, [EditorNext]_editorVars PROVE EditorInv'
  <2>1. CASE UNCHANGED editorVars
    BY <1>2, <2>1 DEF editorVars, EditorInv, SessionOK, CleanMeansSaved, FindSound
  <2>2. CASE EditorNext
    <3>1. ASSUME NEW hex \in BOOLEAN, Open(hex) PROVE EditorInv'
      BY <1>2, <3>1, OpenedKeeps
    <3>2. ASSUME NEW c \in Glyphs, Insert(c) \/ FindType(c) PROVE EditorInv'
      BY <1>2, <3>2, TypingKeeps, AskingKeeps
    <3>3. CASE Backspace \/ Delete \/ Paste
      BY <1>2, <3>3, TypingKeeps
    <3>4. CASE SelectAll \/ Copy \/ CutOut
      BY <1>2, <3>4, SelectingKeeps
    <3>5. ASSUME NEW shift \in BOOLEAN, NEW ctrl \in BOOLEAN,
                 Left(shift, ctrl) \/ Right(shift, ctrl) \/ Home(shift, ctrl) \/ End(shift, ctrl)
          PROVE  EditorInv'
      BY <1>2, <3>5, MovingKeeps
    <3>6. ASSUME NEW shift \in BOOLEAN, Up(shift) \/ Down(shift) \/ Page(shift, TRUE) \/ Page(shift, FALSE)
          PROVE  EditorInv'
      BY <1>2, <3>6, LinesKeep
    <3>7. CASE HexMove
      BY <1>2, <3>7, HexMoveKeeps
    <3>8. CASE HexDelete \/ HexBackspace \/ \E h \in Nibbles : HexDigit(h)
      BY <1>2, <3>8, HexKeeps
    <3>9. CASE FindOpen \/ FindBackspace \/ FindCancel
      BY <1>2, <3>9, AskingKeeps
    <3>10. ASSUME NEW shift \in BOOLEAN, FindEnter(shift) PROVE EditorInv'
      BY <1>2, <3>10, SearchKeeps
    <3>11. CASE Save \/ SaveFails
      BY <1>2, <3>11, SavedKeeps
    <3>12. CASE SaveAndClose \/ Close
      BY <1>2, <3>12, ClosedKeeps
    <3> QED BY <2>2, <3>1, <3>2, <3>3, <3>4, <3>5, <3>6, <3>7, <3>8, <3>9, <3>10, <3>11, <3>12, Zenon DEF EditorNext
  <2> QED BY <1>2, <2>1, <2>2
<1> QED BY <1>1, <1>2, PTL DEF EditorSpec

(* A buffer that editor_dirty does not mark is the text as it was last     *)
(* loaded or written whole: every key that changes the text sets the mark  *)
(* and only a write of the whole text resets it.  The file holds that text *)
(* too, marked or not, unless it never fitted the buffer or a failed write *)
(* of fat32_write_file_path has destroyed it.                              *)
THEOREM UnmarkedIsSaved == EditorSpec => []CleanMeansSaved
<1>1. EditorInv => CleanMeansSaved
  BY DEF EditorInv
<1> QED BY <1>1, EditorInvariant, PTL

(* A match that is highlighted spells the last query at its place, and a   *)
(* search that found nothing is right as long as its report stands.        *)
THEOREM MatchSpellsQuery == EditorSpec => []FindSound
<1>1. EditorInv => FindSound
  BY DEF EditorInv
<1> QED BY <1>1, EditorInvariant, PTL

-----------------------------------------------------------------------------
(* Sequences of writes in which the copies of a table entry are written    *)
(* one right after the other, as fat32_set_cluster_value does.             *)
IsList(s) == \E X : s \in Seq(X)

(* w is the write of the copy after the one that v writes.                 *)
Follows(v, w) ==
    v.kind = "fat" /\ w.kind = "fat" /\ w.cluster = v.cluster /\ w.value = v.value /\ w.copy = v.copy + 1

CopyByCopy(s) ==
    \A j \in 1 .. Len(s) : s[j].kind = "fat" =>
        /\ s[j].copy \in 1 .. FatCopies
        /\ s[j].copy < FatCopies => j < Len(s) /\ Follows(s[j], s[j + 1])
        /\ s[j].copy > 1 /\ j > 1 => Follows(s[j - 1], s[j])

(* Such a sequence that does not begin in the middle of an entry.          *)
Whole(s) ==
    /\ IsList(s) /\ CopyByCopy(s)
    /\ Len(s) > 0 /\ s[1].kind = "fat" => s[1].copy = 1

LEMMA WholeEmpty == Whole(<<>>)
<1>1. <<>> \in Seq({}) /\ Len(<<>>) = 0
  OBVIOUS
<1> QED BY <1>1 DEF Whole, IsList, CopyByCopy

LEMMA WholeEntry ==
    ASSUME NEW c, NEW v, NEW undo
    PROVE  Whole(SetCluster(c, v, undo))
<1> DEFINE s == SetCluster(c, v, undo)
<1>0. FatCopies \in Nat \ {0}
  BY FatAssumption
<1>1. s = [i \in 1 .. FatCopies |-> WriteFat(i, c, v, undo)]
  BY DEF SetCluster
<1> HIDE DEF s
<1>2. \A i \in 1 .. FatCopies : /\ s[i] = WriteFat(i, c, v, undo)
                                /\ s[i].kind = "fat" /\ s[i].copy = i /\ s[i].cluster = c /\ s[i].value = v
  BY <1>1 DEF WriteFat
<1>3. s \in Seq({WriteFat(i, c, v, undo) : i \in 1 .. FatCopies}) /\ Len(s) = FatCopies
  BY <1>0, <1>1
<1>4. CopyByCopy(s)
  BY <1>0, <1>2, <1>3 DEF CopyByCopy, Follows
<1>5. IsList(s)
  BY <1>3 DEF IsList
<1>6. s[1].copy = 1
  BY <1>0, <1>2
<1>7. Whole(s)
  BY <1>4, <1>5, <1>6 DEF Whole
<1> QED BY <1>7 DEF s

LEMMA WholeOne ==
    ASSUME NEW w, w.kind # "fat"
    PROVE  Whole(<<w>>)
<1> DEFINE s == <<w>>
<1>1. s \in Seq({w}) /\ Len(s) = 1 /\ s[1] = w
  OBVIOUS
<1> HIDE DEF s
<1>2. IsList(s)
  BY <1>1 DEF IsList
<1>3. CopyByCopy(s)
  BY <1>1 DEF CopyByCopy
<1>4. Whole(s)
  BY <1>1, <1>2, <1>3 DEF Whole
<1> QED BY <1>4 DEF s

LEMMA WholeConcat ==
    ASSUME NEW s, NEW t, Whole(s), Whole(t)
    PROVE  Whole(s \o t)
<1>1. PICK X : s \in Seq(X)
  BY DEF Whole, IsList
<1>2. PICK Y : t \in Seq(Y)
  BY DEF Whole, IsList
<1> DEFINE Z == X \cup Y
           u == s \o t
           m == Len(s)
           n == Len(t)
<1>3. s \in Seq(Z) /\ t \in Seq(Z) /\ m \in Nat /\ n \in Nat
  BY <1>1, <1>2
<1> HIDE DEF Z
<1>4. /\ u \in Seq(Z) /\ Len(u) = m + n
      /\ \A j \in 1 .. m + n : u[j] = IF j <= m THEN s[j] ELSE t[j - m]
  BY <1>3, ConcatProperties
<1> HIDE DEF u, m, n
<1>5. \A j \in 1 .. m : u[j] = s[j]
  BY <1>3, <1>4
<1>6. \A j \in 1 .. n : u[m + j] = t[j]
  BY <1>3, <1>4
<1>7. CopyByCopy(u)
  <2> SUFFICES ASSUME NEW j \in 1 .. m + n, u[j].kind = "fat"
               PROVE  /\ u[j].copy \in 1 .. FatCopies
                      /\ u[j].copy < FatCopies => j < m + n /\ Follows(u[j], u[j + 1])
                      /\ u[j].copy > 1 /\ j > 1 => Follows(u[j - 1], u[j])
    BY <1>4 DEF CopyByCopy
  <2>1. CASE j <= m
    <3>1. j \in 1 .. m /\ u[j] = s[j]
      BY <1>3, <1>5, <2>1
    <3>2. /\ s[j].copy \in 1 .. FatCopies
          /\ s[j].copy < FatCopies => j < m /\ Follows(s[j], s[j + 1])
          /\ s[j].copy > 1 /\ j > 1 => Follows(s[j - 1], s[j])
      BY <3>1 DEF Whole, CopyByCopy, m
    <3>3. j < m => j + 1 \in 1 .. m /\ u[j + 1] = s[j + 1] /\ j < m + n
      BY <1>3, <1>5, <3>1
    <3>4. j > 1 => j - 1 \in 1 .. m /\ u[j - 1] = s[j - 1]
      BY <1>3, <1>5, <3>1
    <3> QED BY <3>1, <3>2, <3>3, <3>4
  <2>2. CASE j > m
    <3> DEFINE i == j - m
    <3>1. i \in 1 .. n /\ j = m + i
      BY <1>3, <2>2
    <3>2. u[j] = t[i]
      BY <1>6, <3>1
    <3>3. /\ t[i].copy \in 1 .. FatCopies
          /\ t[i].copy < FatCopies => i < n /\ Follows(t[i], t[i + 1])
          /\ t[i].copy > 1 /\ i > 1 => Follows(t[i - 1], t[i])
      BY <3>1, <3>2 DEF Whole, CopyByCopy, n
    <3>4. i = 1 => t[i].copy = 1
      BY <3>1, <3>2 DEF Whole, n
    <3>5. i < n => i + 1 \in 1 .. n /\ u[m + (i + 1)] = t[i + 1] /\ j + 1 = m + (i + 1) /\ j < m + n
      BY <1>3, <1>6, <3>1
    <3>6. i > 1 => i - 1 \in 1 .. n /\ u[m + (i - 1)] = t[i - 1] /\ j - 1 = m + (i - 1)
      BY <1>3, <1>6, <3>1
    <3>7. i = 1 \/ i > 1
      BY <3>1
    <3> HIDE DEF i
    <3> QED BY <3>2, <3>3, <3>4, <3>5, <3>6, <3>7
  <2> QED BY <1>3, <2>1, <2>2
<1>8. IsList(u)
  BY <1>4 DEF IsList
<1>9. Len(u) > 0 /\ u[1].kind = "fat" => u[1].copy = 1
  <2>1. CASE m > 0
    <3>1. u[1] = s[1]
      BY <1>3, <1>5, <2>1
    <3> QED BY <2>1, <3>1 DEF Whole, m
  <2>2. CASE m = 0
    <3>1. Len(u) > 0 => n > 0 /\ u[1] = t[1]
      BY <1>3, <1>4, <1>6, <2>2
    <3> QED BY <3>1 DEF Whole, n
  <2> QED BY <1>3, <2>1, <2>2
<1>10. Whole(u)
  BY <1>7, <1>8, <1>9 DEF Whole
<1> QED BY <1>10 DEF u

(* Writes of which none is to the table.                                   *)
LEMMA WholeOthers ==
    ASSUME NEW n \in Nat, NEW g, g = [i \in 1 .. n |-> g[i]], \A i \in 1 .. n : g[i].kind # "fat"
    PROVE  Whole(g)
<1> DEFINE S == {g[i] : i \in 1 .. n}
<1>1. g \in Seq(S) /\ Len(g) = n
  <2>1. g \in [1 .. n -> S]
    OBVIOUS
  <2> HIDE DEF S
  <2> QED BY <2>1
<1>2. IsList(g)
  BY <1>1 DEF IsList
<1>3. CopyByCopy(g)
  BY <1>1 DEF CopyByCopy
<1>4. Len(g) > 0 => g[1].kind # "fat"
  BY <1>1
<1> QED BY <1>2, <1>3, <1>4 DEF Whole

(* A list is a list over what is in it.                                    *)
LEMMA ListOver ==
    ASSUME NEW s, IsList(s), NEW X, \A j \in 1 .. Len(s) : s[j] \in X
    PROVE  s \in Seq(X)
<1>1. PICK Y : s \in Seq(Y)
  BY DEF IsList
<1> QED BY <1>1

(* Whole sequences one after the other.                                    *)
LEMMA WholeFlatten ==
    ASSUME NEW n \in Nat, NEW g, g = [i \in 1 .. n |-> g[i]], \A i \in 1 .. n : Whole(g[i])
    PROVE  Whole(FlattenSeq(g))
<1> DEFINE X == UNION {{g[i][j] : j \in 1 .. Len(g[i])} : i \in 1 .. n}
           S == Seq(X)
           step == [k \in 1 .. n |-> [x \in S |-> x \o g[k]]]
           Body(flatten) == [i \in 1 .. n |-> IF i = 1 THEN g[i] ELSE flatten[i - 1] \o g[i]]
<1>0. Len(g) = n
  <2>1. g \in Seq({g[i] : i \in 1 .. n})
    <3>1. g \in [1 .. n -> {g[i] : i \in 1 .. n}]
      OBVIOUS
    <3> QED BY <3>1
  <2> QED BY <2>1
<1>1. CASE n = 0
  <2>1. g = <<>>
    BY <1>1
  <2>2. FlattenSeq(g) = g
    BY <1>0, <1>1, Zenon DEF FlattenSeq
  <2> QED BY <2>1, <2>2, WholeEmpty
<1>2. CASE n # 0
  <2>1. FlattenSeq(g) = (CHOOSE flatten : flatten = Body(flatten))[n]
    BY <1>0, <1>2, Zenon DEF FlattenSeq
  <2>2. \A i \in 1 .. n : g[i] \in S
    <3> SUFFICES ASSUME NEW i \in 1 .. n PROVE g[i] \in Seq(X)
      OBVIOUS
    <3>1. IsList(g[i])
      BY DEF Whole
    <3>2. \A j \in 1 .. Len(g[i]) : g[i][j] \in X
      OBVIOUS
    <3> HIDE DEF X
    <3> QED BY <3>1, <3>2, ListOver
  <2>3. <<>> \in S
    OBVIOUS
  <2> HIDE DEF X
  <2>4. \A k \in 1 .. n : \A x \in S : step[k][x] \in S
    BY <2>2
  <2>5. PICK h : Iterates(h, <<>>, step, n, S)
    <3>1. Within(step, n, S)
      BY <2>4 DEF Within
    <3> HIDE DEF step, S
    <3> QED BY <2>3, <3>1, IterExists
  <2>6. h \in [0 .. n -> S] /\ h[0] = <<>> /\ \A k \in 1 .. n : h[k] = step[k][h[k - 1]]
    BY <2>5 DEF Iterates
  <2>7. \A k \in 1 .. n : h[k] = h[k - 1] \o g[k]
    <3> SUFFICES ASSUME NEW k \in 1 .. n PROVE h[k] = h[k - 1] \o g[k]
      OBVIOUS
    <3>1. k - 1 \in 0 .. n
      OBVIOUS
    <3>2. h[k - 1] \in S /\ h[k] = step[k][h[k - 1]]
      BY <2>6, <3>1
    <3> HIDE DEF S
    <3> QED BY <3>2
  <2>8. h[1] = g[1]
    <3>1. 1 \in 1 .. n
      BY <1>2
    <3>2. g[1] \in Seq(X)
      BY <2>2, <3>1
    <3>3. PICK k \in 1 .. n : k = 1 /\ k - 1 = 0
      BY <3>1
    <3>4. h[1] = <<>> \o g[1]
      BY <2>6, <2>7, <3>3
    <3> QED BY <3>2, <3>4, ConcatEmptySeq
  <2> DEFINE hh == [i \in 1 .. n |-> h[i]]
  <2>9. hh = Body(hh)
    <3>1. ASSUME NEW i \in 1 .. n PROVE hh[i] = IF i = 1 THEN g[i] ELSE hh[i - 1] \o g[i]
      <4>1. CASE i = 1
        BY <2>8, <4>1
      <4>2. CASE i # 1
        <5>1. i - 1 \in 1 .. n
          BY <4>2
        <5> QED BY <2>7, <4>2, <5>1
      <4> QED BY <4>1, <4>2
    <3> QED BY <3>1
  <2>10. PICK F : F = Body(F) /\ FlattenSeq(g) = F[n]
    <3> HIDE DEF Body, hh
    <3> QED BY <2>1, <2>9
  <2>11. \A i \in 1 .. n : F[i] = IF i = 1 THEN g[i] ELSE F[i - 1] \o g[i]
    <3>1. \A i \in 1 .. n : Body(F)[i] = IF i = 1 THEN g[i] ELSE F[i - 1] \o g[i]
      OBVIOUS
    <3> HIDE DEF Body
    <3> QED BY <2>10, <3>1
  <2> DEFINE B == {i \in 1 .. n : ~Whole(F[i])}
  <2>12. ASSUME B # {} PROVE FALSE
    <3>1. B \subseteq Nat
      OBVIOUS
    <3>2. PICK k \in B : \A j \in B : k <= j
      <4> HIDE DEF B
      <4> QED BY <2>12, <3>1, LeastExists
    <3>3. k \in 1 .. n /\ ~Whole(F[k])
      OBVIOUS
    <3>4. k # 1
      BY <2>11, <3>3
    <3>5. k - 1 \in 1 .. n /\ ~(k <= k - 1)
      BY <3>3, <3>4
    <3>6. Whole(F[k - 1])
      BY <3>2, <3>5
    <3>7. F[k] = F[k - 1] \o g[k]
      BY <2>11, <3>3, <3>4
    <3> QED BY <3>3, <3>6, <3>7, WholeConcat
  <2>13. n \in 1 .. n
    BY <1>2
  <2> QED BY <2>10, <2>12, <2>13
<1> QED BY <1>1, <1>2

-----------------------------------------------------------------------------
(* What the calls plan to write.                                           *)

(* A chain that fat32_next_cluster is followed along is a list of clusters. *)
LEMMA ChainIn ==
    ASSUME NEW c \in Clusters
    PROVE  Chain(c) \in Seq(Clusters)
<1> DEFINE V == Seq(Clusters)
           S == [Clusters -> V]
           next(x) == fat[1][x]
           a == [x \in Clusters |-> <<x>>]
           On(g, k) == [x \in Clusters |-> IF next(x) \notin Clusters \/ k = 0 THEN <<x>> ELSE <<x>> \o g[next(x)]]
           step == [k \in 1 .. MaxCluster |-> [g \in S |-> On(g, k)]]
           Body(from) == [k \in 0 .. MaxCluster |->
                            [x \in Clusters |->
                               IF next(x) \notin Clusters \/ k = 0 THEN <<x>> ELSE <<x>> \o from[k - 1][next(x)]]]
<1>0. MaxCluster \in Nat
  BY FatAssumption
<1>1. Chain(c) = (CHOOSE from : from = Body(from))[MaxCluster][c]
  BY Zenon DEF Chain
<1> HIDE DEF next
<1>2. a \in S /\ \A x \in Clusters : <<x>> \in V
  OBVIOUS
<1>3. \A k, g : g \in S => On(g, k) \in S
  <2> SUFFICES ASSUME NEW k, NEW g \in S PROVE On(g, k) \in S
    OBVIOUS
  <2>1. \A x \in Clusters : next(x) \in Clusters => <<x>> \o g[next(x)] \in V
    BY <1>2
  <2> HIDE DEF V
  <2> QED BY <1>2, <2>1
<1>4. Within(step, MaxCluster, S)
  <2> HIDE DEF On, S
  <2> QED BY <1>3 DEF Within
<1>5. PICK h : Iterates(h, a, step, MaxCluster, S)
  <2> HIDE DEF step, S, a
  <2> QED BY <1>0, <1>2, <1>4, IterExists
<1>6. h \in [0 .. MaxCluster -> S] /\ h[0] = a /\ \A k \in 1 .. MaxCluster : h[k] = step[k][h[k - 1]]
  BY <1>5 DEF Iterates
<1>7. h = Body(h)
  <2>1. ASSUME NEW k \in 0 .. MaxCluster PROVE h[k] = On(h[k - 1], k)
    <3>1. CASE k = 0
      <4>1. On(h[k - 1], k) = a
        BY <3>1
      <4> QED BY <1>6, <3>1, <4>1
    <3>2. CASE k # 0
      <4>1. k - 1 \in 0 .. MaxCluster /\ k \in 1 .. MaxCluster
        BY <1>0, <3>2
      <4> HIDE DEF On, S
      <4>2. h[k - 1] \in S /\ h[k] = step[k][h[k - 1]]
        BY <1>6, <4>1
      <4> QED BY <4>1, <4>2
    <3> QED BY <3>1, <3>2
  <2>2. h = [k \in 0 .. MaxCluster |-> On(h[k - 1], k)]
    <3> HIDE DEF On, S
    <3> QED BY <1>6, <2>1
  <2> QED BY <2>2, Zenon
<1>8. PICK F : F = Body(F) /\ Chain(c) = F[MaxCluster][c]
  <2> HIDE DEF Body
  <2> QED BY <1>1, <1>7
<1>9. \A k \in 0 .. MaxCluster : F[k] = On(F[k - 1], k)
  <2>1. \A k \in 0 .. MaxCluster : Body(F)[k] = On(F[k - 1], k)
    OBVIOUS
  <2> HIDE DEF Body, On
  <2> QED BY <1>8, <2>1
<1> DEFINE B == {k \in 0 .. MaxCluster : F[k] \notin S}
<1>10. ASSUME B # {} PROVE FALSE
  <2>1. B \subseteq Nat
    OBVIOUS
  <2>2. PICK k \in B : \A j \in B : k <= j
    <3> HIDE DEF B
    <3> QED BY <1>10, <2>1, LeastExists
  <2>3. k \in 0 .. MaxCluster /\ F[k] \notin S
    OBVIOUS
  <2>4. k # 0
    <3>1. k = 0 => On(F[k - 1], k) = a
      OBVIOUS
    <3> HIDE DEF On, S, a
    <3> QED BY <1>2, <1>9, <2>3, <3>1
  <2>5. k - 1 \in 0 .. MaxCluster /\ ~(k <= k - 1)
    BY <1>0, <2>3, <2>4
  <2> HIDE DEF S, On
  <2>6. F[k - 1] \in S
    BY <2>2, <2>5
  <2> QED BY <1>3, <1>9, <2>3, <2>6
<1>11. F[MaxCluster] \in S
  BY <1>0, <1>10
<1> QED BY <1>8, <1>11

LEMMA WholeFree ==
    ASSUME NEW c
    PROVE  Whole(FreeChain(c))
<1>1. CASE c \notin Clusters
  BY <1>1, WholeEmpty DEF FreeChain
<1>2. CASE c \in Clusters
  <2> DEFINE n == Len(Chain(c))
             g == [i \in 1 .. n |-> SetCluster(Chain(c)[i], 0, 0)]
  <2>1. n \in Nat
    BY <1>2, ChainIn
  <2>2. FreeChain(c) = FlattenSeq(g)
    BY <1>2 DEF FreeChain
  <2> HIDE DEF n
  <2>3. g = [i \in 1 .. n |-> g[i]] /\ \A i \in 1 .. n : Whole(g[i])
    BY WholeEntry
  <2> HIDE DEF g
  <2> QED BY <2>1, <2>2, <2>3, WholeFlatten
<1> QED BY <1>1, <1>2

LEMMA WholeAlloc ==
    ASSUME NEW c, NEW undo
    PROVE  Whole(AllocCluster(c, undo))
<1>1. WriteZeroes(c, undo).kind # "fat"
  BY DEF WriteZeroes
<1> QED BY <1>1, WholeEntry, WholeOne, WholeConcat DEF AllocCluster

LEMMA WholeNoSpace ==
    ASSUME NEW undo
    PROVE  Whole(<<NoSpace(undo)>>)
<1>1. NoSpace(undo).kind # "fat"
  BY DEF NoSpace
<1> QED BY <1>1, WholeOne

LEMMA WholeWriteEntry ==
    ASSUME NEW d, NEW n, NEW e, NEW undo
    PROVE  Whole(<<WriteEntry(d, n, e, undo)>>)
<1>1. WriteEntry(d, n, e, undo).kind # "fat"
  BY DEF WriteEntry
<1> QED BY <1>1, WholeOne

LEMMA WholeExtend ==
    ASSUME NEW d
    PROVE  Whole(Extend(d))
  BY WholeNoSpace, WholeAlloc, WholeEntry, WholeConcat DEF Extend

LEMMA WholeAllocLinked ==
    ASSUME NEW cs, Len(cs) \in Nat
    PROVE  Whole(AllocLinked(cs))
<1> DEFINE n == Len(cs)
           g == [i \in 1 .. n |->
                   IF i = 1 THEN AllocCluster(cs[1], 0)
                   ELSE AllocCluster(cs[i], cs[1]) \o SetCluster(cs[i - 1], cs[i], cs[1])]
<1>1. AllocLinked(cs) = FlattenSeq(g)
  BY DEF AllocLinked
<1> HIDE DEF n
<1>2. \A i \in 1 .. n : Whole(AllocCluster(cs[1], 0)) /\ Whole(AllocCluster(cs[i], cs[1]) \o SetCluster(cs[i - 1], cs[i], cs[1]))
  BY WholeAlloc, WholeEntry, WholeConcat
<1>3. g = [i \in 1 .. n |-> g[i]] /\ \A i \in 1 .. n : Whole(g[i])
  BY <1>2
<1> HIDE DEF g
<1> QED BY <1>1, <1>3, WholeFlatten DEF n

LEMMA WholeFill ==
    ASSUME NEW d, NEW n, NEW data \in Seq(Chunks)
    PROVE  Whole(Fill(d, n, data))
<1> DEFINE k == Len(data)
           avail == Allocatable
           first == IF avail = <<>> \/ k = 0 THEN 0 ELSE avail[1]
           entry == WriteEntry(d, n, Entry(At(d, n).name, "file", first, k), 0)
           blocks == [i \in 1 .. k |-> WriteBlock(avail[i], Filled(data[i]), 0)]
           linked == AllocLinked(SubSeq(avail, 1, k))
           end == SetCluster(avail[k], Eoc, first)
<1>0. k \in Nat
  OBVIOUS
<1>1. Whole(<<entry>>)
  BY WholeWriteEntry
<1>2. CASE k = 0
  <2>1. Fill(d, n, data) = <<entry>>
    BY <1>2 DEF Fill
  <2> QED BY <1>1, <2>1
<1>3. CASE k # 0 /\ Len(avail) < k
  <2>1. Fill(d, n, data) = AllocLinked(avail) \o <<NoSpace(first)>>
    BY <1>3 DEF Fill
  <2>2. Len(avail) \in Nat
    BY DEF Allocatable
  <2> HIDE DEF avail, first
  <2> QED BY <2>1, <2>2, WholeAllocLinked, WholeNoSpace, WholeConcat
<1>4. CASE k # 0 /\ ~(Len(avail) < k)
  <2>1. Fill(d, n, data) = linked \o end \o blocks \o <<entry>>
    BY <1>4 DEF Fill
  <2>2. Whole(linked)
    <3>1. Len(SubSeq(avail, 1, k)) \in Nat
      BY <1>0
    <3> QED BY <3>1, WholeAllocLinked
  <2>3. Whole(end)
    BY WholeEntry
  <2>4. Whole(blocks)
    <3>1. blocks = [i \in 1 .. k |-> blocks[i]] /\ \A i \in 1 .. k : blocks[i].kind # "fat"
      BY DEF WriteBlock
    <3> HIDE DEF blocks, k
    <3> QED BY <1>0, <3>1, WholeOthers
  <2> HIDE DEF linked, end, blocks, entry
  <2>5. Whole(linked \o end)
    BY <2>2, <2>3, WholeConcat
  <2>6. Whole(linked \o end \o blocks)
    BY <2>4, <2>5, WholeConcat
  <2> QED BY <1>1, <2>1, <2>6, WholeConcat
<1> QED BY <1>2, <1>3, <1>4

LEMMA WholeMakeDir ==
    ASSUME NEW d, NEW n, NEW nm
    PROVE  Whole(MakeDir(d, n, nm))
<1>1. CASE Allocatable = <<>>
  BY <1>1, WholeNoSpace DEF MakeDir
<1>2. CASE Allocatable # <<>>
  <2> DEFINE c == Head(Allocatable)
             b1 == WriteBlock(c, Zeroes, c)
             b2 == WriteBlock(c, Dots(c, d), c)
             b3 == WriteEntry(d, n, Entry(nm, "dir", c, 0), c)
             tail == <<b1, b2, b3>>
  <2>1. MakeDir(d, n, nm) = AllocCluster(c, 0) \o tail
    BY <1>2 DEF MakeDir
  <2>2. b1.kind # "fat" /\ b2.kind # "fat" /\ b3.kind # "fat"
    BY DEF WriteBlock, WriteEntry
  <2> HIDE DEF b1, b2, b3, c
  <2>3. tail = [i \in 1 .. 3 |-> tail[i]] /\ \A i \in 1 .. 3 : tail[i].kind # "fat"
    BY <2>2
  <2> HIDE DEF tail
  <2>4. Whole(tail)
    BY <2>3, WholeOthers
  <2> QED BY <2>1, <2>4, WholeAlloc, WholeConcat
<1> QED BY <1>1, <1>2

-----------------------------------------------------------------------------
(* The invariant.                                                          *)
Calls(X) ==
    [op : {"none", "touch", "mkdir", "write", "remove"}, dir : X, name : X, data : Seq(Chunks),
     stage : {"none", "place", "fill", "done", "failed"}]
CallOK ==
    /\ \E X : call \in Calls(X)
    /\ call.stage = "place" => call.op \in {"touch", "mkdir", "write"}
TableOK == \E V : fat \in [1 .. FatCopies -> [Clusters -> V]]

(* An entry of the table is written in some copies and not yet in others;  *)
(* the copies before the one that is next hold the value already.          *)
Midway == todo # <<>> /\ Write.kind = "fat" /\ Write.copy > 1
Opened == IF Midway THEN {Write.cluster} ELSE {}
HalfWritten ==
    Midway /\ Write.cluster \in Clusters =>
        \A i \in 1 .. FatCopies : i < Write.copy => fat[i][Write.cluster] = Write.value

(* The clusters at which some copy is not like the one that is read.       *)
Unlike == {c \in Clusters : \E i \in 1 .. FatCopies : fat[i][c] # fat[1][c]}

MirrorInv ==
    /\ faults \in Nat /\ TableOK /\ CallOK
    /\ IsList(todo) /\ CopyByCopy(todo)
    /\ Idle => todo = <<>>
    /\ HalfWritten
    /\ Cardinality(Unlike \ Opened) <= faults

(* The rest of the writes once the first one is made.                      *)
LEMMA RestOfWrites ==
    ASSUME NEW s, IsList(s), CopyByCopy(s), s # <<>>
    PROVE  /\ IsList(Tail(s)) /\ CopyByCopy(Tail(s))
           /\ Tail(s) # <<>> /\ Head(Tail(s)).kind = "fat" =>
                /\ Head(Tail(s)).copy \in 1 .. FatCopies
                /\ Head(Tail(s)).copy > 1 => Follows(Head(s), Head(Tail(s)))
           /\ Head(s).kind = "fat" =>
                /\ Head(s).copy \in 1 .. FatCopies
                /\ Head(s).copy < FatCopies => Tail(s) # <<>> /\ Follows(Head(s), Head(Tail(s)))
<1>1. PICK X : s \in Seq(X)
  BY DEF IsList
<1> DEFINE t == Tail(s)
           n == Len(s)
<1>2. n \in Nat /\ n > 0 /\ t \in Seq(X) /\ Len(t) = n - 1 /\ Head(s) = s[1]
  BY <1>1
<1>3. \A j \in 1 .. n - 1 : t[j] = s[j + 1]
  BY <1>1, <1>2
<1> HIDE DEF t, n
<1>4. t # <<>> <=> n > 1
  <2>1. t = <<>> <=> Len(t) = 0
    BY <1>2, EmptySeq
  <2> QED BY <1>2, <2>1
<1>5. n > 1 => Head(t) = s[2]
  BY <1>2, <1>3, <1>4
<1>6. \A j \in 1 .. n : s[j].kind = "fat" =>
        /\ s[j].copy \in 1 .. FatCopies
        /\ s[j].copy < FatCopies => j < n /\ Follows(s[j], s[j + 1])
        /\ s[j].copy > 1 /\ j > 1 => Follows(s[j - 1], s[j])
  BY DEF CopyByCopy, n
<1>7. CopyByCopy(t)
  <2> SUFFICES ASSUME NEW j \in 1 .. n - 1, t[j].kind = "fat"
               PROVE  /\ t[j].copy \in 1 .. FatCopies
                      /\ t[j].copy < FatCopies => j < n - 1 /\ Follows(t[j], t[j + 1])
                      /\ t[j].copy > 1 /\ j > 1 => Follows(t[j - 1], t[j])
    BY <1>2 DEF CopyByCopy
  <2>1. j + 1 \in 1 .. n /\ t[j] = s[j + 1] /\ (j + 1) - 1 = j /\ j + 1 > 1
    BY <1>2, <1>3
  <2>2. /\ s[j + 1].copy \in 1 .. FatCopies
        /\ s[j + 1].copy < FatCopies => j + 1 < n /\ Follows(s[j + 1], s[(j + 1) + 1])
        /\ s[j + 1].copy > 1 => Follows(s[j], s[j + 1])
    BY <1>6, <2>1
  <2>3. j + 1 < n => j < n - 1 /\ t[j + 1] = s[(j + 1) + 1]
    BY <1>2, <1>3
  <2>4. j > 1 => t[j - 1] = s[j]
    <3>1. j > 1 => j - 1 \in 1 .. n - 1 /\ (j - 1) + 1 = j
      BY <1>2
    <3> QED BY <1>3, <3>1
  <2> QED BY <2>1, <2>2, <2>3, <2>4
<1>8. IsList(t)
  BY <1>2 DEF IsList
<1>9. t # <<>> /\ Head(t).kind = "fat" =>
        Head(t).copy \in 1 .. FatCopies /\ (Head(t).copy > 1 => Follows(Head(s), Head(t)))
  <2> SUFFICES ASSUME n > 1, Head(t).kind = "fat"
               PROVE  Head(t).copy \in 1 .. FatCopies /\ (Head(t).copy > 1 => Follows(Head(s), Head(t)))
    BY <1>4
  <2>1. 2 \in 1 .. n
    BY <1>2
  <2> QED BY <1>2, <1>5, <1>6, <2>1
<1>10. Head(s).kind = "fat" =>
         /\ Head(s).copy \in 1 .. FatCopies
         /\ Head(s).copy < FatCopies => t # <<>> /\ Follows(Head(s), Head(t))
  <2>1. 1 \in 1 .. n
    BY <1>2
  <2> QED BY <1>2, <1>4, <1>5, <1>6, <2>1
<1> QED BY <1>7, <1>8, <1>9, <1>10 DEF t

LEMMA ClustersFinite ==
    IsFiniteSet(Clusters)
<1>1. MaxCluster \in Nat
  BY FatAssumption
<1>2. 2 \in Int /\ MaxCluster \in Int
  BY <1>1
<1> QED BY <1>2, FS_Interval DEF Clusters

(* A whole plan in the place of what is left of the last one: an entry     *)
(* that stays half written counts as a fault.                              *)
LEMMA NewPlan ==
    ASSUME MirrorInv, fat' = fat, Whole(todo'), CallOK', Idle' => todo' = <<>>,
           \/ ~Midway /\ faults' = faults
           \/ faults' = faults + 1
    PROVE  MirrorInv'
<1>0. faults \in Nat /\ faults' \in Nat /\ Unlike' = Unlike /\ Cardinality(Unlike \ Opened) <= faults /\ TableOK'
  <2>1. faults \in Nat /\ Cardinality(Unlike \ Opened) <= faults /\ TableOK
    BY DEF MirrorInv
  <2>2. Unlike' = Unlike
    BY Zenon DEF Unlike
  <2>3. TableOK'
    BY <2>1 DEF TableOK
  <2> QED BY <2>1, <2>2, <2>3
<1>1. IsList(todo') /\ CopyByCopy(todo')
  BY DEF Whole
<1>2. ~Midway'
  <2> SUFFICES ASSUME todo' # <<>>, Write'.kind = "fat" PROVE ~(Write'.copy > 1)
    BY DEF Midway
  <2>1. PICK X : todo' \in Seq(X)
    BY <1>1 DEF IsList
  <2>2. Len(todo') > 0 /\ Write' = todo'[1]
    BY <2>1 DEF Write
  <2> QED BY <2>2 DEF Whole
<1>3. HalfWritten' /\ Opened' = {}
  BY <1>2 DEF HalfWritten, Opened
<1>4. Unlike \subseteq Clusters /\ IsFiniteSet(Unlike) /\ IsFiniteSet(Unlike \ Opened) /\ Cardinality(Unlike \ Opened) \in Nat
  <2>1. Unlike \subseteq Clusters
    BY DEF Unlike
  <2>2. IsFiniteSet(Unlike) /\ IsFiniteSet(Unlike \ Opened)
    BY <2>1, ClustersFinite, FS_Subset
  <2> QED BY <2>1, <2>2, FS_CardinalityType
<1>5. Cardinality(Unlike) <= faults'
  <2>1. CASE ~Midway /\ faults' = faults
    <3>1. Unlike \ Opened = Unlike
      BY <2>1 DEF Opened
    <3> QED BY <1>0, <2>1, <3>1
  <2>2. CASE faults' = faults + 1
    <3>1. CASE Opened = {}
      <4>1. Unlike \ Opened = Unlike
        BY <3>1
      <4>2. Cardinality(Unlike) <= faults /\ Cardinality(Unlike) \in Nat
        BY <1>0, <1>4, <4>1
      <4> QED BY <1>0, <2>2, <4>2
    <3>2. CASE Opened # {}
      <4>1. PICK c : Opened = {c}
        BY <3>2 DEF Opened
      <4>2. Unlike \subseteq (Unlike \ Opened) \cup {c}
        BY <4>1
      <4>3. /\ IsFiniteSet((Unlike \ Opened) \cup {c})
            /\ Cardinality((Unlike \ Opened) \cup {c}) = Cardinality(Unlike \ Opened) + 1
        BY <1>4, <4>1, FS_AddElement
      <4>4. Cardinality(Unlike) <= Cardinality((Unlike \ Opened) \cup {c}) /\ Cardinality(Unlike) \in Nat
        BY <1>4, <4>2, <4>3, FS_Subset, FS_CardinalityType
      <4> QED BY <1>0, <1>4, <2>2, <4>3, <4>4
    <3> QED BY <3>1, <3>2
  <2> QED BY <2>1, <2>2
<1>6. Unlike' \ Opened' = Unlike
  BY <1>0, <1>3
<1>7. Cardinality((Unlike \ Opened)') <= faults'
  BY <1>5, <1>6
<1> QED BY <1>0, <1>1, <1>3, <1>7 DEF MirrorInv

(* A write that is not to the table.                                       *)
LEMMA OtherWrite ==
    ASSUME MirrorInv, Pending, Write.kind # "fat", fat' = fat, call' = call, faults' = faults, todo' = Tail(todo)
    PROVE  MirrorInv'
<1>1. todo # <<>> /\ IsList(todo) /\ CopyByCopy(todo) /\ ~Midway
  BY DEF MirrorInv, Pending, Midway
<1>2. IsList(todo') /\ CopyByCopy(todo')
  BY <1>1, RestOfWrites
<1>3. ~Midway'
  <2> SUFFICES ASSUME todo' # <<>>, Write'.kind = "fat", Write'.copy > 1 PROVE FALSE
    BY DEF Midway
  <2>1. Follows(Head(todo), Head(todo'))
    BY <1>1, RestOfWrites DEF Write
  <2> QED BY <2>1 DEF Follows, Write
<1>4. HalfWritten' /\ Opened' = {} /\ Opened = {}
  BY <1>1, <1>3 DEF HalfWritten, Opened
<1>5. Unlike' = Unlike
  BY Zenon DEF Unlike
<1>6. Cardinality((Unlike \ Opened)') <= faults'
  BY <1>4, <1>5 DEF MirrorInv
<1>7. faults' \in Nat /\ TableOK' /\ CallOK' /\ (Idle' => todo' = <<>>)
  <2>1. ~Idle
    BY <1>1 DEF MirrorInv
  <2> QED BY <2>1 DEF MirrorInv, TableOK, CallOK, Idle
<1> QED BY <1>2, <1>4, <1>6, <1>7 DEF MirrorInv

(* The write of one copy.                                                  *)
LEMMA TableWrite ==
    ASSUME MirrorInv, WritingFat
    PROVE  MirrorInv'
<1> DEFINE w == Write
           c == Write.cluster
           k == Write.copy
<1>0. FatCopies \in Nat \ {0}
  BY FatAssumption
<1>1. /\ todo # <<>> /\ w.kind = "fat" /\ fat' = [fat EXCEPT ![k][c] = w.value] /\ todo' = Tail(todo)
      /\ call' = call /\ faults' = faults /\ w = Head(todo)
  BY DEF WritingFat, Pending, Write
<1>2. IsList(todo) /\ CopyByCopy(todo) /\ ~Idle /\ faults \in Nat /\ CallOK /\ HalfWritten
  BY <1>1 DEF MirrorInv
<1>3. IsList(todo') /\ CopyByCopy(todo') /\ k \in 1 .. FatCopies
  BY <1>1, <1>2, RestOfWrites
<1>4. PICK V : fat \in [1 .. FatCopies -> [Clusters -> V]]
  BY DEF MirrorInv, TableOK
<1>5. fat' \in [1 .. FatCopies -> [Clusters -> V \cup {w.value}]]
  <2>1. fat \in [1 .. FatCopies -> [Clusters -> V \cup {w.value}]]
    BY <1>4
  <2> HIDE DEF w
  <2> QED BY <1>1, <2>1
<1>6. \A i \in 1 .. FatCopies, x \in Clusters :
        fat'[i][x] = IF i = k /\ x = c THEN w.value ELSE fat[i][x]
  <2> HIDE DEF w, c, k
  <2> QED BY <1>1, <1>3, <1>4
<1>7. k < FatCopies => Midway' /\ Write'.cluster = c /\ Write'.value = w.value /\ Write'.copy = k + 1
  <2> SUFFICES ASSUME k < FatCopies
               PROVE  Midway' /\ Write'.cluster = c /\ Write'.value = w.value /\ Write'.copy = k + 1
    OBVIOUS
  <2>1. todo' # <<>> /\ Follows(Head(todo), Head(todo'))
    BY <1>1, <1>2, RestOfWrites
  <2>2. /\ Write'.kind = "fat" /\ Write'.cluster = c /\ Write'.value = w.value /\ Write'.copy = k + 1
    BY <1>1, <2>1 DEF Follows, Write
  <2> QED BY <1>3, <2>1, <2>2 DEF Midway
<1>8. k = FatCopies => ~Midway'
  <2> SUFFICES ASSUME k = FatCopies, Midway' PROVE FALSE
    OBVIOUS
  <2>1. todo' # <<>> /\ Write'.kind = "fat" /\ Write'.copy > 1 /\ Write' = Head(todo')
    BY DEF Midway, Write
  <2>2. Write'.copy \in 1 .. FatCopies /\ Follows(Head(todo), Head(todo'))
    BY <1>1, <1>2, <2>1, RestOfWrites
  <2>3. Write'.copy = k + 1
    BY <1>1, <2>1, <2>2 DEF Follows
  <2> QED BY <1>0, <2>2, <2>3
<1>9. HalfWritten'
  <2>1. CASE k < FatCopies
    <3> SUFFICES ASSUME c \in Clusters, NEW i \in 1 .. FatCopies, i < k + 1
                 PROVE  fat'[i][c] = w.value
      BY <1>7, <2>1 DEF HalfWritten
    <3>1. i = k \/ i < k
      BY <1>3
    <3>2. i < k => Midway /\ fat[i][c] = w.value
      BY <1>1, <1>2, <1>3 DEF Midway, HalfWritten
    <3> HIDE DEF w, c, k
    <3> QED BY <1>6, <3>1, <3>2
  <2>2. CASE k = FatCopies
    BY <1>8, <2>2 DEF HalfWritten
  <2> QED BY <1>0, <1>3, <2>1, <2>2
<1>10. Unlike' \ Opened' \subseteq Unlike \ Opened
  <2> SUFFICES ASSUME NEW x \in Clusters, x \in Unlike', x \notin Opened' PROVE x \in Unlike /\ x \notin Opened
    BY DEF Unlike
  <2>1. PICK i \in 1 .. FatCopies : fat'[i][x] # fat'[1][x]
    BY DEF Unlike
  <2>2. 1 \in 1 .. FatCopies
    BY <1>0
  <2>3. CASE x # c
    <3>1. fat'[i][x] = fat[i][x] /\ fat'[1][x] = fat[1][x]
      <4> HIDE DEF w, c, k
      <4> QED BY <1>6, <2>2, <2>3
    <3>2. x \in Unlike
      BY <2>1, <3>1 DEF Unlike
    <3> QED BY <2>3, <3>2 DEF Opened
  <2>4. CASE x = c
    <3>1. k = FatCopies
      <4>1. k < FatCopies => x \in Opened'
        BY <1>7, <2>4 DEF Opened
      <4> QED BY <1>0, <1>3, <4>1
    <3>2. \A j \in 1 .. FatCopies : fat'[j][c] = w.value
      <4> SUFFICES ASSUME NEW j \in 1 .. FatCopies PROVE fat'[j][c] = w.value
        OBVIOUS
      <4>1. j = k \/ j < k
        BY <1>0, <3>1
      <4>2. j < k => Midway /\ fat[j][c] = w.value
        BY <1>1, <1>2, <1>3, <2>4 DEF Midway, HalfWritten
      <4>3. c \in Clusters
        BY <2>4
      <4> HIDE DEF w, c, k
      <4> QED BY <1>6, <4>1, <4>2, <4>3
    <3> QED BY <2>1, <2>2, <2>4, <3>2
  <2> QED BY <2>3, <2>4
<1>11. Cardinality((Unlike \ Opened)') <= faults'
  <2> DEFINE U == Unlike \ Opened
             UU == Unlike' \ Opened'
  <2>1. U \subseteq Clusters
    BY DEF Unlike
  <2>2. IsFiniteSet(U)
    BY <2>1, ClustersFinite, FS_Subset
  <2>3. UU \subseteq U
    BY <1>10
  <2>4. Cardinality(U) <= faults
    BY DEF MirrorInv
  <2> HIDE DEF U, UU
  <2>5. Cardinality(UU) <= Cardinality(U) /\ Cardinality(UU) \in Nat /\ Cardinality(U) \in Nat
    <3>1. IsFiniteSet(UU) /\ Cardinality(UU) <= Cardinality(U)
      BY <2>2, <2>3, FS_Subset
    <3> QED BY <2>2, <3>1, FS_CardinalityType
  <2>6. Cardinality(UU) <= faults'
    BY <1>1, <1>2, <2>4, <2>5
  <2> QED BY <2>6 DEF UU
<1>12. TableOK'
  BY <1>5 DEF TableOK
<1>13. CallOK' /\ ~Idle'
  BY <1>1, <1>2 DEF CallOK, Idle
<1> QED BY <1>1, <1>2, <1>3, <1>9, <1>11, <1>12, <1>13 DEF MirrorInv

-----------------------------------------------------------------------------
(* The steps of calls that plan.                                           *)
Stages == {"place", "fill", "done", "failed"}

LEMMA NoCallIn == NoCall \in Calls({0, ""}) /\ NoCall.stage = "none"
<1> DEFINE X == {0, ""}
<1>1. <<>> \in Seq(Chunks) /\ 0 \in X /\ "" \in X
  OBVIOUS
<1> HIDE DEF X
<1>2. NoCall \in Calls(X) /\ NoCall.stage = "none"
  BY <1>1 DEF NoCall, Calls
<1> QED BY <1>2 DEF X

LEMMA NoCallOK ==
    ASSUME call' = NoCall
    PROVE  CallOK'
  BY NoCallIn DEF CallOK

LEMMA StagedOK ==
    ASSUME CallOK, NEW stage \in Stages, call' = [call EXCEPT !.stage = stage],
           stage = "place" => call.stage = "place"
    PROVE  CallOK' /\ ~Idle'
<1>1. PICK X : call \in Calls(X)
  BY DEF CallOK
<1>2. stage \in {"none", "place", "fill", "done", "failed"} /\ stage # "none"
  BY DEF Stages
<1>3. call' \in Calls(X) /\ call'.stage = stage /\ call'.op = call.op
  BY <1>1, <1>2 DEF Calls
<1> QED BY <1>2, <1>3, NoCallIn DEF CallOK, Idle

LEMMA PlanKeeps ==
    ASSUME MirrorInv, todo = <<>>, NEW stage \in Stages, NEW writes, Whole(writes), Plan(stage, writes),
           stage = "place" => call.stage = "place"
    PROVE  MirrorInv'
<1>1. /\ todo' = writes /\ call' = [call EXCEPT !.stage = stage] /\ fat' = fat /\ faults' = faults
      /\ CallOK /\ ~Midway
  BY DEF Plan, MirrorInv, Midway
<1>2. CallOK' /\ ~Idle'
  BY <1>1, StagedOK
<1> QED BY <1>1, <1>2, NewPlan

LEMMA StartKeeps ==
    ASSUME MirrorInv, Idle, NEW op \in {"touch", "mkdir", "write", "remove"}, NEW path, NEW data \in Seq(Chunks),
           NEW stage \in Stages, NEW writes, Whole(writes), Start(op, path, data, stage, writes),
           faults' = faults \/ faults' = faults + 1, stage = "place" => op # "remove"
    PROVE  MirrorInv'
<1> DEFINE d == ParentOf(path)
           nm == Last(path)
           X == {d, nm}
<1>1. /\ call' = [op |-> op, dir |-> d, name |-> nm, data |-> data, stage |-> stage]
      /\ todo' = writes /\ fat' = fat /\ todo = <<>> /\ ~Midway
  BY DEF Start, MirrorInv, Midway
<1>2. stage \in {"none", "place", "fill", "done", "failed"} /\ stage # "none" /\ d \in X /\ nm \in X
  BY DEF Stages
<1>3. call' \in Calls(X) /\ call'.stage = stage /\ call'.op = op
  <2> HIDE DEF X, d, nm
  <2> QED BY <1>1, <1>2 DEF Calls
<1>5. CallOK' /\ ~Idle'
  BY <1>2, <1>3, NoCallIn DEF CallOK, Idle
<1> QED BY <1>1, <1>5, NewPlan

LEMMA CommandKeeps ==
    ASSUME MirrorInv, Command
    PROVE  MirrorInv'
<1>0. <<>> \in Seq(Chunks) /\ Whole(<<>>) /\ DataInputs \subseteq Seq(Chunks)
  <2>1. DataInputs \subseteq Seq(Chunks)
    BY FatAssumption
  <2> QED BY <2>1, WholeEmpty
<1>1. PICK path \in PathInputs :
        \/ fat32_touch_file_path(path) \/ fat32_mkdir_path(path) \/ fat32_remove_path(path)
        \/ BlindCreate(path)
        \/ \E data \in DataInputs : fat32_write_file_path(path, data)
  BY DEF Command
<1>2. "place" \in Stages /\ "done" \in Stages /\ "fill" \in Stages
  BY DEF Stages
<1>3. CASE fat32_touch_file_path(path)
  <2>1. Start("touch", path, <<>>, "place", <<>>) /\ Idle /\ faults' = faults
    BY <1>3 DEF fat32_touch_file_path, CanResolve
  <2> QED BY <1>0, <1>2, <2>1, StartKeeps
<1>4. CASE fat32_mkdir_path(path)
  <2>1. Start("mkdir", path, <<>>, "place", <<>>) /\ Idle /\ faults' = faults
    BY <1>4 DEF fat32_mkdir_path, CanResolve
  <2> QED BY <1>0, <1>2, <2>1, StartKeeps
<1>5. CASE fat32_remove_path(path)
  <2> DEFINE ws == FreeChain(FoundEntry(path).first) \o <<WriteEntry(ParentOf(path), Found(path), Deleted, 0)>>
  <2>1. Start("remove", path, <<>>, "done", ws) /\ Idle /\ faults' = faults
    BY <1>5 DEF fat32_remove_path, CanResolve
  <2>2. Whole(ws)
    BY WholeFree, WholeWriteEntry, WholeConcat
  <2> HIDE DEF ws
  <2> QED BY <1>0, <1>2, <2>1, <2>2, StartKeeps
<1>6. CASE BlindCreate(path)
  <2>1. PICK op \in {"touch", "mkdir"} : Start(op, path, <<>>, "place", <<>>)
    BY <1>6 DEF BlindCreate
  <2>2. Idle /\ faults' = faults + 1
    BY <1>6 DEF BlindCreate, CanResolve
  <2> QED BY <1>0, <1>2, <2>1, <2>2, StartKeeps
<1>7. ASSUME NEW data \in DataInputs, fat32_write_file_path(path, data) PROVE MirrorInv'
  <2>1. Idle /\ faults' = faults /\ data \in Seq(Chunks)
    BY <1>0, <1>7 DEF fat32_write_file_path, CanResolve
  <2>2. \/ Start("write", path, data, "place", <<>>)
        \/ Start("write", path, data, "fill", FreeChain(FoundEntry(path).first))
    BY <1>7 DEF fat32_write_file_path
  <2>3. Whole(FreeChain(FoundEntry(path).first))
    BY WholeFree
  <2>4. CASE Start("write", path, data, "place", <<>>)
    BY <1>0, <1>2, <2>1, <2>4, StartKeeps
  <2>5. CASE Start("write", path, data, "fill", FreeChain(FoundEntry(path).first))
    BY <1>2, <2>1, <2>3, <2>5, StartKeeps
  <2> QED BY <2>2, <2>4, <2>5
<1> QED BY <1>1, <1>3, <1>4, <1>5, <1>6, <1>7

LEMMA StepKeeps ==
    ASSUME MirrorInv, Step
    PROVE  MirrorInv'
<1>0. "place" \in Stages /\ "done" \in Stages /\ "fill" \in Stages /\ "failed" \in Stages /\ Whole(<<>>)
  BY WholeEmpty DEF Stages
<1>1. CASE Extending
  <2>1. todo = <<>> /\ call.stage = "place" /\ (Plan("place", Extend(call.dir)) \/ Plan("failed", <<>>))
    BY <1>1 DEF Extending, Stage
  <2> QED BY <1>0, <2>1, WholeExtend, PlanKeeps
<1>2. CASE Placing
  <2> DEFINE n == FindFree(call.dir)
             e == WriteEntry(call.dir, n, Entry(call.name, "file", 0, 0), 0)
  <2>1. /\ todo = <<>> /\ CallOK
        /\ CASE call.op = "mkdir" -> Plan("done", MakeDir(call.dir, n, call.name))
             [] call.op = "touch" -> Plan("done", <<e>>)
             [] call.op = "write" -> Plan("fill", <<e>>)
    BY <1>2 DEF Placing, Stage, MirrorInv
  <2>2. Whole(MakeDir(call.dir, n, call.name)) /\ Whole(<<e>>)
    BY WholeMakeDir, WholeWriteEntry
  <2>3. call.op \in {"touch", "mkdir", "write"}
    BY <1>2, <2>1 DEF Placing, Stage, CallOK
  <2> HIDE DEF n, e
  <2> QED BY <1>0, <2>1, <2>2, <2>3, PlanKeeps
<1>3. CASE Filling
  <2>1. todo = <<>> /\ Plan("done", Fill(call.dir, Target, call.data)) /\ call.data \in Seq(Chunks)
    BY <1>3 DEF Filling, Stage, MirrorInv, CallOK, Calls
  <2> QED BY <1>0, <2>1, WholeFill, PlanKeeps
<1>4. CASE Return
  <2>1. todo = <<>> /\ todo' = <<>> /\ fat' = fat /\ faults' = faults /\ ~Midway /\ call' = NoCall
    BY <1>4 DEF Return, Stage, Midway
  <2> QED BY <1>0, <2>1, NoCallOK, NewPlan
<1>5. CASE WritingFat
  BY <1>5, TableWrite
<1>6. CASE WritingZeroes \/ WritingBlock \/ WritingEntry
  <2>1. Pending /\ Write.kind # "fat" /\ fat' = fat /\ call' = call /\ faults' = faults /\ todo' = Tail(todo)
    BY <1>6 DEF WritingZeroes, WritingBlock, WritingEntry
  <2> QED BY <2>1, OtherWrite
<1>7. CASE OutOfSpace
  <2>1. /\ ~Midway /\ fat' = fat /\ faults' = faults /\ todo' = FreeChain(Write.undo)
        /\ call' = [call EXCEPT !.stage = "failed"] /\ CallOK
    BY <1>7 DEF OutOfSpace, GiveUp, Midway, MirrorInv
  <2>2. CallOK' /\ ~Idle'
    BY <1>0, <2>1, StagedOK
  <2> QED BY <2>1, <2>2, WholeFree, NewPlan
<1>8. CASE IoError
  <2>1. /\ fat' = fat /\ faults' = faults + 1 /\ todo' = FreeChain(Write.undo)
        /\ call' = [call EXCEPT !.stage = "failed"] /\ CallOK
    BY <1>8 DEF IoError, GiveUp, MirrorInv
  <2>2. CallOK' /\ ~Idle'
    BY <1>0, <2>1, StagedOK
  <2> QED BY <2>1, <2>2, WholeFree, NewPlan
<1>9. CASE PowerLoss
  <2>1. fat' = fat /\ faults' = faults + 1 /\ todo' = <<>> /\ call' = NoCall
    BY <1>9 DEF PowerLoss
  <2> QED BY <1>0, <2>1, NoCallOK, NewPlan
<1>10. CASE fat32_mount
  BY <1>10 DEF fat32_mount, MirrorInv, TableOK, CallOK, Idle, HalfWritten, Midway, Write, Opened, Unlike
<1> QED BY <1>1, <1>2, <1>3, <1>4, <1>5, <1>6, <1>7, <1>8, <1>9, <1>10 DEF Step

-----------------------------------------------------------------------------
(* The copies of the table are written one right after the other, and      *)
(* those already written hold the value, whenever fat32_set_cluster_value  *)
(* is under way; each fault leaves at most one entry half written.         *)
THEOREM MirrorInvariant == Spec => []MirrorInv
<1>1. ASSUME Init PROVE MirrorInv
  <2>1. FatCopies \in Nat \ {0} /\ MaxCluster \in Nat
    BY FatAssumption
  <2> DEFINE V == {Eoc, 0}
             row == [c \in Clusters |-> IF c = RootDir THEN Eoc ELSE 0]
  <2>2. fat = [i \in 1 .. FatCopies |-> row] /\ call = NoCall /\ todo = <<>> /\ faults = 0
    BY <1>1 DEF Init
  <2>3. TableOK
    <3>1. row \in [Clusters -> V]
      OBVIOUS
    <3> HIDE DEF row, V
    <3>2. fat \in [1 .. FatCopies -> [Clusters -> V]]
      BY <2>2, <3>1
    <3> QED BY <3>2 DEF TableOK
  <2>4. CallOK
    BY <2>2, NoCallIn DEF CallOK
  <2>5. IsList(todo) /\ CopyByCopy(todo)
    BY <2>2, WholeEmpty DEF Whole
  <2>6. HalfWritten
    BY <2>2 DEF HalfWritten, Midway
  <2>7. Unlike = {}
    <3>1. 1 \in 1 .. FatCopies
      BY <2>1
    <3>2. \A i \in 1 .. FatCopies : fat[i] = row
      <4> HIDE DEF row
      <4> QED BY <2>2
    <3> HIDE DEF row
    <3>3. \A c \in Clusters, i \in 1 .. FatCopies : fat[i][c] = fat[1][c]
      BY <3>1, <3>2
    <3> QED BY <3>3 DEF Unlike
  <2>8. Cardinality(Unlike \ Opened) <= faults
    <3>1. Unlike \ Opened = {}
      BY <2>7
    <3>2. Cardinality(Unlike \ Opened) = 0
      BY <3>1, FS_EmptySet
    <3> QED BY <2>2, <3>2
  <2> QED BY <2>2, <2>3, <2>4, <2>5, <2>6, <2>8 DEF MirrorInv
<1>2. ASSUME MirrorInv, [Next]_vars PROVE MirrorInv'
  <2>1. CASE UNCHANGED vars
    BY <1>2, <2>1 DEF vars, MirrorInv, TableOK, CallOK, Idle, HalfWritten, Midway, Write, Opened, Unlike
  <2>2. CASE Next
    BY <1>2, <2>1, <2>2, CommandKeeps, StepKeeps DEF Next
  <2> QED BY <1>2, <2>1, <2>2
<1> QED BY <1>1, <1>2, PTL DEF Spec

(* Two copies of the allocation table differ at no more clusters than      *)
(* there were failed writes and losses of power, and at one more only      *)
(* while a call is in progress (fat32_set_cluster_value).                  *)
THEOREM MirrorsStayAlike == Spec => []MirrorsAgree
<1>1. ASSUME MirrorInv PROVE MirrorsAgree
  <2> SUFFICES ASSUME NEW i \in 1 .. FatCopies
               PROVE  Cardinality({c \in Clusters : fat[i][c] # fat[1][c]}) <= faults + (IF Idle THEN 0 ELSE 1)
    BY DEF MirrorsAgree
  <2> DEFINE D == {c \in Clusters : fat[i][c] # fat[1][c]}
             U == Unlike \ Opened
  <2>1. D \subseteq Unlike /\ Unlike \subseteq Clusters /\ faults \in Nat /\ Cardinality(U) <= faults
    BY <1>1 DEF Unlike, MirrorInv
  <2>2. IsFiniteSet(D) /\ IsFiniteSet(U)
    BY <2>1, ClustersFinite, FS_Subset
  <2>3. Cardinality(D) \in Nat /\ Cardinality(U) \in Nat
    BY <2>2, FS_CardinalityType
  <2>4. CASE Opened = {}
    <3>1. D \subseteq U
      BY <2>1, <2>4
    <3> HIDE DEF D, U
    <3>2. Cardinality(D) <= Cardinality(U)
      BY <2>2, <3>1, FS_Subset
    <3>3. Cardinality(D) <= faults + (IF Idle THEN 0 ELSE 1)
      BY <2>1, <2>3, <3>2
    <3> QED BY <3>3 DEF D
  <2>5. CASE Opened # {}
    <3>1. ~Idle
      BY <1>1, <2>5 DEF MirrorInv, Opened, Midway
    <3>2. PICK c : Opened = {c}
      BY <2>5 DEF Opened
    <3>3. D \subseteq U \cup {c}
      BY <2>1, <3>2
    <3>4. c \notin U
      BY <3>2
    <3> HIDE DEF D, U
    <3>5. IsFiniteSet(U \cup {c}) /\ Cardinality(U \cup {c}) = Cardinality(U) + 1
      BY <2>2, <3>4, FS_AddElement
    <3>6. Cardinality(D) <= Cardinality(U \cup {c})
      BY <3>3, <3>5, FS_Subset
    <3>7. Cardinality(D) <= faults + (IF Idle THEN 0 ELSE 1)
      BY <2>1, <2>3, <3>1, <3>5, <3>6
    <3> QED BY <3>7 DEF D
  <2> QED BY <2>4, <2>5
<1> QED BY <1>1, MirrorInvariant, PTL
=============================================================================
