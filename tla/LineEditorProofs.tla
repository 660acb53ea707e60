-------------------------- MODULE LineEditorProofs --------------------------
(***************************************************************************)
(* Theorems about the command line of LineEditor, its row on the screen    *)
(* and its history, for every size of the line and of the history, and for *)
(* all commands, directories and keys.                                     *)
(***************************************************************************)
EXTENDS LineEditor, FiniteSetTheorems, SequenceTheorems, WellFoundedInduction, TLAPS

-----------------------------------------------------------------------------
(* Searches and loops.                                                     *)

(* A search from the start that has something to find ends at a first one. *)
LEMMA LeastExists ==
    ASSUME NEW S, S \subseteq Nat, S # {}
    PROVE  \E k \in S : \A j \in S : k <= j
<1> DEFINE Less == {ss \in Nat \X Nat : ss[1] < ss[2]}
<1>1. PICK k \in S : \A j \in S : ~(<<j, k>> \in Less)
  <2>1. IsWellFoundedOn(Less, Nat)
    BY NatLessThanWellFounded DEF OpToRel
  <2> QED BY <2>1, WFMin
<1>2. \A i, j \in Nat : i < j => <<i, j>> \in Less
  OBVIOUS
<1>3. \A j \in S : ~(j < k)
  BY <1>1, <1>2
<1> QED BY <1>3

(* Step k goes from x to f[k][x], and each of the first N stays within S.  *)
Within(f, N, S) == \A k \in 1 .. N : \A x \in S : f[k][x] \in S

(* h lists where N such steps from a lead.                                 *)
Iterates(h, a, f, N, S) ==
    /\ h \in [0 .. N -> S]
    /\ h[0] = a
    /\ \A k \in 1 .. N : h[k] = f[k][h[k - 1]]

(* Such a list exists: the function that a recursive definition over       *)
(* 0 .. N names is there, whatever its steps are.                          *)
LEMMA IterExists ==
    ASSUME NEW N \in Nat, NEW S, NEW a \in S, NEW f, Within(f, N, S)
    PROVE  \E h : Iterates(h, a, f, N, S)
<1> DEFINE B == {m \in 0 .. N : ~\E h : Iterates(h, a, f, m, S)}
<1>1. ASSUME B # {} PROVE FALSE
  <2>1. PICK m \in B : \A j \in B : m <= j
    <3>1. B \subseteq Nat
      OBVIOUS
    <3> HIDE DEF B
    <3> QED BY <1>1, <3>1, LeastExists
  <2>2. m # 0
    BY Iterates([i \in 0 .. 0 |-> a], a, f, 0, S) DEF Iterates
  <2>3. m - 1 \in 0 .. N /\ m - 1 \notin B /\ m \in 1 .. N
    BY <2>1, <2>2
  <2>4. PICK g : Iterates(g, a, f, m - 1, S)
    BY <2>3
  <2> DEFINE h == [i \in 0 .. m |-> IF i = m THEN f[m][g[m - 1]] ELSE g[i]]
  <2>5. h \in [0 .. m -> S] /\ h[0] = a
    BY <2>2, <2>3, <2>4 DEF Iterates, Within
  <2>6. \A k \in 1 .. m : h[k] = f[k][h[k - 1]]
    BY <2>3, <2>4 DEF Iterates
  <2>7. Iterates(h, a, f, m, S)
    <3> HIDE DEF h
    <3> QED BY <2>5, <2>6 DEF Iterates
  <2> QED BY <2>7
<1> QED BY <1>1

-----------------------------------------------------------------------------
(* Lines whose characters are of X, where a byte from behind the end of a  *)
(* line is only if X has it; the row of such a line.                       *)
IsAlphabet(X) == Glyphs \subseteq X /\ X \subseteq AnyByte
TextsOf(X) == {t \in Seq(X) : Len(t) < Size}
LineRecord(X) ==
    [buf : TextsOf(X), cur : Nat, sel : BOOLEAN, anchor : Nat, drawn : 0 .. Size - 1,
     row : [Cells -> AnyByte \cup {"^", "C"}], hw : Int]
Anchored(l, X) == Junk \notin X /\ l.sel => l.anchor <= Len(l.buf)
IsLine(l, X) == l \in LineRecord(X) /\ l.cur <= Len(l.buf) /\ Anchored(l, X)

(* Nothing stands in the row from where it was drawn to on; it shows all   *)
(* of the line.                                                            *)
Clean(l) == l.drawn < Size /\ \A i \in Cells : i >= l.drawn => l.row[i] = Blank
Exact(l) == \A i \in Cells : l.row[i] = IF i < Len(l.buf) THEN l.buf[i + 1] ELSE Blank
Shown(l) == l.hw = l.cur /\ Exact(l) /\ Len(l.buf) <= l.drawn /\ Clean(l)
Keeps(l, r, X) == IsLine(r, X) /\ (Shown(l) => Shown(r))

LEMMA Sizes == Size \in Nat \ {0} /\ HistorySize \in Nat \ {0}
  BY LineAssumption

LEMMA CellsAre == Cells = 0 .. Size /\ Blank \in AnyByte
  BY LineAssumption DEF Cells, AnyByte, Glyphs

LEMMA Fields ==
    ASSUME NEW X, NEW l \in LineRecord(X)
    PROVE  /\ l.buf \in Seq(X) /\ Len(l.buf) \in Nat /\ Len(l.buf) < Size /\ l.buf \in TextsOf(X)
           /\ l.cur \in Nat /\ l.anchor \in Nat /\ l.drawn \in Nat /\ l.drawn < Size /\ l.sel \in BOOLEAN
           /\ l.row \in [Cells -> AnyByte \cup {"^", "C"}]
  BY Sizes DEF LineRecord, TextsOf

(* The line with another text and the cursor at c.                         *)
Put(l, b, c) == ClearSelection([l EXCEPT !.buf = b, !.cur = c])

LEMMA ClearedIs ==
    ASSUME NEW X, NEW l \in LineRecord(X), NEW r, r = ClearSelection(l)
    PROVE  /\ r \in LineRecord(X) /\ ~r.sel /\ r.buf = l.buf /\ r.cur = l.cur /\ r.drawn = l.drawn
           /\ r.row = l.row /\ r.hw = l.hw
  BY Zenon DEF LineRecord, ClearSelection

LEMMA PutIs ==
    ASSUME NEW X, NEW l \in LineRecord(X), NEW b \in TextsOf(X), NEW c \in 0 .. Len(b), NEW r, r = Put(l, b, c)
    PROVE  /\ IsLine(r, X) /\ ~r.sel /\ r.buf = b /\ r.cur = c /\ r.drawn = l.drawn
           /\ r.row = l.row /\ r.hw = l.hw
<1> DEFINE d == [l EXCEPT !.buf = b, !.cur = c]
<1>0. c \in Nat /\ c <= Len(b)
  BY DEF TextsOf
<1>1. d \in LineRecord(X) /\ d.buf = b /\ d.cur = c /\ d.drawn = l.drawn /\ d.row = l.row /\ d.hw = l.hw
  BY <1>0, Zenon DEF LineRecord
<1> HIDE DEF d
<1>2. r = ClearSelection(d)
  BY DEF Put, d
<1>3. /\ r \in LineRecord(X) /\ ~r.sel /\ r.buf = b /\ r.cur = c /\ r.drawn = l.drawn
      /\ r.row = l.row /\ r.hw = l.hw
  BY <1>1, <1>2, ClearedIs
<1> QED BY <1>0, <1>3 DEF IsLine, Anchored

(* terminal_redraw_input_line *)
LEMMA RedrawKeeps ==
    ASSUME NEW X, IsAlphabet(X), NEW l, IsLine(l, X)
    PROVE  IsLine(Redraw(l), X) /\ (Clean(l) => Shown(Redraw(l)))
<1> DEFINE row == [i \in Cells |-> CASE i < Len(l.buf) -> l.buf[i + 1]
                                     [] i >= Len(l.buf) /\ i < ClearTo(l) /\ i < Size - 1 -> Blank
                                     [] OTHER -> l.row[i]]
           a == IF l.sel THEN l.anchor ELSE l.cur
           r == [l EXCEPT !.row = row, !.drawn = Len(l.buf), !.hw = l.cur, !.anchor = a]
<1>0. l \in LineRecord(X) /\ l.cur <= Len(l.buf)
  BY DEF IsLine
<1>1. /\ l.buf \in Seq(X) /\ Len(l.buf) \in Nat /\ Len(l.buf) < Size
      /\ l.cur \in Nat /\ l.anchor \in Nat /\ l.drawn \in Nat /\ l.sel \in BOOLEAN
      /\ l.row \in [Cells -> AnyByte \cup {"^", "C"}] /\ X \subseteq AnyByte
  BY <1>0, Fields DEF IsAlphabet
<1>2. \A i \in Cells : i < Len(l.buf) => l.buf[i + 1] \in AnyByte
  BY <1>1, CellsAre
<1>3. row \in [Cells -> AnyByte \cup {"^", "C"}]
  BY <1>1, <1>2, CellsAre
<1>4. a \in Nat /\ l.cur \in Int /\ Len(l.buf) \in 0 .. Size - 1
  BY <1>1, Sizes
<1>5. Redraw(l) = r
  BY DEF Redraw
<1>6. /\ Clean(l) => \A i \in Cells : row[i] = IF i < Len(l.buf) THEN l.buf[i + 1] ELSE Blank
  BY <1>1, CellsAre, Sizes DEF Clean, ClearTo, Larger
<1> HIDE DEF row, a
<1>7. /\ r \in LineRecord(X) /\ r.buf = l.buf /\ r.cur = l.cur /\ r.sel = l.sel /\ r.anchor = a
      /\ r.row = row /\ r.drawn = Len(l.buf) /\ r.hw = l.cur
  BY <1>0, <1>1, <1>3, <1>4, Zenon DEF LineRecord
<1> HIDE DEF r
<1>8. Anchored(r, X)
  BY <1>7 DEF IsLine, Anchored, a
<1>9. IsLine(r, X)
  BY <1>0, <1>7, <1>8 DEF IsLine
<1>10. Clean(l) => Exact(r)
  BY <1>6, <1>7 DEF Exact
<1>11. Clean(l) => Clean(r)
  BY <1>6, <1>7, <1>1, CellsAre DEF Clean
<1>12. Clean(l) => Shown(r)
  BY <1>1, <1>7, <1>10, <1>11 DEF Shown
<1> QED BY <1>5, <1>9, <1>12

LEMMA PutKeeps ==
    ASSUME NEW X, IsAlphabet(X), NEW l \in LineRecord(X), NEW b \in TextsOf(X), NEW c \in 0 .. Len(b)
    PROVE  Keeps(l, Redraw(Put(l, b, c)), X) /\ (Clean(l) => Shown(Redraw(Put(l, b, c))))
<1> DEFINE r == Put(l, b, c)
<1>1. IsLine(r, X) /\ r.drawn = l.drawn /\ r.row = l.row
  BY PutIs
<1> HIDE DEF r
<1>2. Clean(l) => Clean(r)
  BY <1>1 DEF Clean
<1>3. IsLine(Redraw(r), X) /\ (Clean(r) => Shown(Redraw(r)))
  BY <1>1, RedrawKeeps
<1>4. Keeps(l, Redraw(r), X) /\ (Clean(l) => Shown(Redraw(r)))
  BY <1>2, <1>3 DEF Keeps, Shown
<1> QED BY <1>4 DEF r

LEMMA KeepsItself ==
    ASSUME NEW X, NEW l, IsLine(l, X)
    PROVE  Keeps(l, l, X)
  BY DEF Keeps

LEMMA KeepsOn ==
    ASSUME NEW X, NEW l, NEW m, NEW r, Keeps(l, m, X), Keeps(m, r, X)
    PROVE  Keeps(l, r, X)
  BY DEF Keeps

LEMMA ConcatIs ==
    ASSUME NEW X, NEW s \in Seq(X), NEW t \in Seq(X)
    PROVE  s \o t \in Seq(X) /\ Len(s \o t) = Len(s) + Len(t)
  BY ConcatProperties

(* A text without the characters from start to end.                        *)
LEMMA PartsOf ==
    ASSUME NEW X, NEW s \in Seq(X), NEW i \in 0 .. Len(s)
    PROVE  /\ SubSeq(s, 1, i) \in Seq(X) /\ Len(SubSeq(s, 1, i)) = i
           /\ SubSeq(s, i + 1, Len(s)) \in Seq(X) /\ Len(SubSeq(s, i + 1, Len(s))) = Len(s) - i
<1>1. Len(s) \in Nat /\ i \in Nat /\ i <= Len(s)
  OBVIOUS
<1>2. \A j \in 1 .. i : s[j] \in X
  BY <1>1
<1>3. \A j \in i + 1 .. Len(s) : s[j] \in X
  BY <1>1
<1> QED BY <1>1, <1>2, <1>3, SubSeqProperties

LEMMA WithoutIs ==
    ASSUME NEW X, NEW s \in TextsOf(X), NEW i \in Nat, NEW j \in Nat, i <= j, j <= Len(s)
    PROVE  /\ SubSeq(s, 1, i) \o SubSeq(s, j + 1, Len(s)) \in TextsOf(X)
           /\ Len(SubSeq(s, 1, i) \o SubSeq(s, j + 1, Len(s))) = Len(s) - (j - i)
<1> DEFINE front == SubSeq(s, 1, i)
           rest == SubSeq(s, j + 1, Len(s))
<1>1. s \in Seq(X) /\ Len(s) \in Nat /\ Len(s) < Size
  BY DEF TextsOf
<1>2. i \in 0 .. Len(s) /\ j \in 0 .. Len(s)
  BY <1>1
<1>3. front \in Seq(X) /\ Len(front) = i /\ rest \in Seq(X) /\ Len(rest) = Len(s) - j
  BY <1>1, <1>2, PartsOf
<1> HIDE DEF front, rest
<1>4. front \o rest \in Seq(X) /\ Len(front \o rest) = i + (Len(s) - j)
  BY <1>3, ConcatIs
<1>5. front \o rest \in TextsOf(X) /\ Len(front \o rest) = Len(s) - (j - i)
  BY <1>1, <1>4, Sizes DEF TextsOf
<1> QED BY <1>5 DEF front, rest

LEMMA DeleteKeeps ==
    ASSUME NEW X, IsAlphabet(X), NEW l, IsLine(l, X), NEW start \in Nat, NEW end \in Nat
    PROVE  Keeps(l, DeleteRange(l, start, end), X)
<1>0. l \in LineRecord(X) /\ l.buf \in TextsOf(X) /\ Len(l.buf) \in Nat
  BY Fields DEF IsLine
<1>1. CASE end <= start \/ start > Len(l.buf)
  BY <1>1, KeepsItself DEF DeleteRange
<1>2. CASE ~(end <= start \/ start > Len(l.buf))
  <2> DEFINE e == Smaller(end, Len(l.buf))
             b == SubSeq(l.buf, 1, start) \o SubSeq(l.buf, e + 1, Len(l.buf))
  <2>1. e \in Nat /\ start <= e /\ e <= Len(l.buf)
    BY <1>0, <1>2 DEF Smaller
  <2>2. DeleteRange(l, start, end) = Redraw(Put(l, b, start))
    <3>1. DeleteRange(l, start, end) = Redraw(ClearSelection([l EXCEPT !.buf = b, !.cur = start]))
      BY <1>2 DEF DeleteRange
    <3> QED BY <3>1 DEF Put
  <2> HIDE DEF e
  <2>3. b \in TextsOf(X) /\ Len(b) = Len(l.buf) - (e - start)
    BY <1>0, <2>1, WithoutIs
  <2> HIDE DEF b
  <2>4. start \in 0 .. Len(b)
    BY <1>0, <2>1, <2>3
  <2> QED BY <1>0, <2>2, <2>3, <2>4, PutKeeps
<1> QED BY <1>1, <1>2

LEMMA EndsOf ==
    ASSUME NEW X, NEW l, IsLine(l, X)
    PROVE  From(l) \in Nat /\ To(l) \in Nat /\ From(l) <= To(l)
<1>1. l.cur \in Nat /\ l.anchor \in Nat
  BY Fields DEF IsLine
<1> QED BY <1>1 DEF From, To, Smaller, Larger

LEMMA DeleteSelectionKeeps ==
    ASSUME NEW X, IsAlphabet(X), NEW l, IsLine(l, X)
    PROVE  Keeps(l, DeleteSelection(l), X)
<1>1. CASE HasSelection(l)
  BY <1>1, EndsOf, DeleteKeeps DEF DeleteSelection
<1>2. CASE ~HasSelection(l)
  BY <1>2, KeepsItself DEF DeleteSelection
<1> QED BY <1>1, <1>2

LEMMA InsertKeeps ==
    ASSUME NEW X, IsAlphabet(X), NEW l, IsLine(l, X), NEW text \in Seq(X)
    PROVE  Keeps(l, InsertText(l, text), X)
<1> DEFINE d == DeleteSelection(l)
<1>1. Keeps(l, d, X)
  BY DeleteSelectionKeeps
<1>2. CASE text = <<>>
  BY <1>2, KeepsItself DEF InsertText
<1>3. CASE text # <<>> /\ Len(d.buf) + Len(text) >= Size
  BY <1>1, <1>3 DEF InsertText
<1>4. CASE text # <<>> /\ ~(Len(d.buf) + Len(text) >= Size)
  <2> DEFINE front == SubSeq(d.buf, 1, d.cur)
             rest == SubSeq(d.buf, d.cur + 1, Len(d.buf))
             b == front \o text \o rest
             c == d.cur + Len(text)
  <2>1. InsertText(l, text) = Redraw(Put(d, b, c))
    <3>1. InsertText(l, text) = Redraw(ClearSelection([d EXCEPT !.buf = b, !.cur = c]))
      BY <1>4 DEF InsertText
    <3> QED BY <3>1 DEF Put
  <2> HIDE DEF d
  <2>2. d \in LineRecord(X) /\ d.buf \in Seq(X) /\ d.cur \in 0 .. Len(d.buf) /\ Len(d.buf) \in Nat
    BY <1>1, Fields DEF Keeps, IsLine
  <2>3. front \in Seq(X) /\ Len(front) = d.cur /\ rest \in Seq(X) /\ Len(rest) = Len(d.buf) - d.cur
    BY <2>2, PartsOf
  <2>4. d.cur \in Nat /\ Len(text) \in Nat
    BY <2>2
  <2> HIDE DEF front, rest
  <2>5. front \o text \in Seq(X) /\ Len(front \o text) = d.cur + Len(text)
    BY <2>3, ConcatIs
  <2>6. b \in Seq(X) /\ Len(b) = d.cur + Len(text) + (Len(d.buf) - d.cur)
    <3> DEFINE more == front \o text
    <3>1. more \in Seq(X) /\ Len(more) = d.cur + Len(text)
      BY <2>5
    <3> HIDE DEF more
    <3>2. more \o rest \in Seq(X) /\ Len(more \o rest) = Len(more) + Len(rest)
      BY <2>3, <3>1, ConcatIs
    <3>3. more \o rest \in Seq(X) /\ Len(more \o rest) = d.cur + Len(text) + (Len(d.buf) - d.cur)
      BY <2>3, <3>1, <3>2
    <3> QED BY <3>3 DEF more
  <2> HIDE DEF b
  <2>6a. Len(d.buf) + Len(text) < Size
    BY <1>4, <2>2, <2>4, Sizes
  <2>6b. Len(b) = Len(d.buf) + Len(text) /\ c \in 0 .. Len(b)
    BY <2>2, <2>4, <2>6
  <2>7. b \in TextsOf(X) /\ c \in 0 .. Len(b)
    BY <2>6, <2>6a, <2>6b DEF TextsOf
  <2> HIDE DEF b, c
  <2>8. Keeps(d, InsertText(l, text), X)
    BY <2>1, <2>2, <2>7, PutKeeps
  <2> QED BY <1>1, <2>8, KeepsOn
<1> QED BY <1>2, <1>3, <1>4

(* A new line and a cleared one; what is written over it.                  *)
LEMMA EmptyIs ==
    ASSUME NEW X, NEW row \in [Cells -> AnyByte \cup {"^", "C"}]
    PROVE  /\ IsLine(Empty(row), X) /\ Empty(row).buf = <<>> /\ Empty(row).drawn = 0 /\ Empty(row).row = row
           /\ Empty(row).sel = FALSE /\ Empty(row).cur = 0 /\ Empty(row).hw = 0
<1>1. <<>> \in TextsOf(X) /\ Len(<<>>) = 0 /\ 0 \in 0 .. Size - 1
  BY Sizes DEF TextsOf
<1>2. Empty(row) \in LineRecord(X)
  BY <1>1 DEF Empty, LineRecord
<1> QED BY <1>1, <1>2 DEF IsLine, Anchored, Empty

LEMMA FreshIs ==
    ASSUME NEW X
    PROVE  IsLine(Fresh, X) /\ ~Fresh.sel /\ Shown(Fresh) /\ Fresh.buf = <<>> /\ Fresh.row \in [Cells -> AnyByte \cup {"^", "C"}]
<1> DEFINE row == [i \in Cells |-> Blank]
<1>1. row \in [Cells -> AnyByte \cup {"^", "C"}]
  BY CellsAre
<1>2. \A i \in Cells : row[i] = Blank
  OBVIOUS
<1>3. Fresh = Empty(row)
  BY DEF Fresh
<1> HIDE DEF row
<1>4. /\ IsLine(Fresh, X) /\ ~Fresh.sel /\ Fresh.buf = <<>> /\ Fresh.drawn = 0 /\ Fresh.row = row /\ Fresh.cur = 0 /\ Fresh.hw = 0
  BY <1>1, <1>3, EmptyIs
<1>5. Len(<<>>) = 0 /\ \A i \in Cells : ~(i < 0)
  BY CellsAre
<1>6. Shown(Fresh)
  BY <1>2, <1>4, <1>5, Sizes DEF Shown, Exact, Clean
<1> QED BY <1>1, <1>4, <1>6

LEMMA ClearLineIs ==
    ASSUME NEW X, NEW l, IsLine(l, X)
    PROVE  /\ IsLine(ClearLine(l), X) /\ ClearLine(l).buf = <<>> /\ ~ClearLine(l).sel
           /\ Clean(l) => Clean(ClearLine(l))
<1> DEFINE row == [i \in Cells |-> IF i < Larger(l.drawn, Len(l.buf)) THEN Blank ELSE l.row[i]]
<1>0. l.row \in [Cells -> AnyByte \cup {"^", "C"}] /\ l.drawn \in Nat /\ Len(l.buf) \in Nat
  BY Fields DEF IsLine
<1>1. row \in [Cells -> AnyByte \cup {"^", "C"}]
  BY <1>0, CellsAre
<1>2. Clean(l) => \A i \in Cells : row[i] = Blank
  BY <1>0, CellsAre DEF Clean, Larger
<1>3. ClearLine(l) = Empty(row)
  BY DEF ClearLine
<1> HIDE DEF row
<1>4. IsLine(ClearLine(l), X) /\ ~ClearLine(l).sel /\ ClearLine(l).buf = <<>> /\ ClearLine(l).drawn = 0 /\ ClearLine(l).row = row
  BY <1>1, <1>3, EmptyIs
<1> QED BY <1>2, <1>4, Sizes DEF Clean

LEMMA ReplaceKeeps ==
    ASSUME NEW X, IsAlphabet(X), NEW l, IsLine(l, X), NEW text \in TextsOf(X)
    PROVE  Keeps(l, Replace(l, text), X)
<1> DEFINE d == ClearLine(l)
<1>1. d \in LineRecord(X) /\ (Clean(l) => Clean(d))
  BY ClearLineIs DEF IsLine
<1>2. Len(text) \in 0 .. Len(text)
  BY DEF TextsOf
<1>3. Replace(l, text) = Redraw(Put(d, text, Len(text)))
  BY DEF Replace, Put
<1> HIDE DEF d
<1>4. IsLine(Replace(l, text), X) /\ (Clean(d) => Shown(Replace(l, text)))
  BY <1>1, <1>2, <1>3, PutKeeps DEF Keeps
<1> QED BY <1>1, <1>4 DEF Keeps, Shown

LEMMA WriteOutIs ==
    ASSUME NEW X, IsAlphabet(X), NEW l, IsLine(l, X), ~l.sel, NEW text \in TextsOf(X)
    PROVE  IsLine(WriteOut(l, text), X)
<1> DEFINE row == [i \in Cells |-> IF i < Len(text) THEN text[i + 1] ELSE l.row[i]]
           r == [l EXCEPT !.buf = text, !.cur = Len(text), !.hw = Len(text), !.row = row]
<1>0. l \in LineRecord(X) /\ l.row \in [Cells -> AnyByte \cup {"^", "C"}] /\ X \subseteq AnyByte
  BY Fields DEF IsLine, IsAlphabet
<1>1. text \in Seq(X) /\ Len(text) \in Nat
  BY DEF TextsOf
<1>2. \A i \in Cells : i < Len(text) => text[i + 1] \in AnyByte
  BY <1>0, <1>1, CellsAre
<1>3. row \in [Cells -> AnyByte \cup {"^", "C"}]
  BY <1>0, <1>2
<1>4. WriteOut(l, text) = r
  BY DEF WriteOut
<1> HIDE DEF row
<1>5. Len(text) \in Int
  BY <1>1
<1>6. r \in LineRecord(X) /\ r.buf = text /\ r.cur = Len(text) /\ r.sel = l.sel
  BY <1>0, <1>1, <1>3, <1>5, Zenon DEF LineRecord
<1> HIDE DEF r
<1> QED BY <1>1, <1>4, <1>6 DEF IsLine, Anchored

(* The line with its cursor at c and a selection from a, if s.             *)
Selected(l, s, a, c) == [l EXCEPT !.sel = s, !.anchor = a, !.cur = c]

LEMMA SelectedIs ==
    ASSUME NEW X, NEW l \in LineRecord(X), NEW s \in BOOLEAN, NEW a \in 0 .. Len(l.buf), NEW c \in 0 .. Len(l.buf),
           NEW r, r = Selected(l, s, a, c)
    PROVE  IsLine(r, X) /\ r.buf = l.buf /\ r.drawn = l.drawn /\ r.row = l.row
<1>0. a \in Nat /\ c \in Nat /\ a <= Len(l.buf) /\ c <= Len(l.buf)
  BY Fields
<1>1. r \in LineRecord(X) /\ r.buf = l.buf /\ r.drawn = l.drawn /\ r.row = l.row /\ r.anchor = a /\ r.cur = c
  BY <1>0, Zenon DEF LineRecord, Selected
<1> QED BY <1>0, <1>1 DEF IsLine, Anchored

LEMMA DrawnAgain ==
    ASSUME NEW X, IsAlphabet(X), NEW l, NEW r, IsLine(r, X), r.drawn = l.drawn, r.row = l.row
    PROVE  Keeps(l, Redraw(r), X)
<1>1. Clean(l) => Clean(r)
  BY DEF Clean
<1> QED BY <1>1, RedrawKeeps DEF Keeps, Shown

(* A move of the cursor.                                                   *)
LEMMA MoveKeeps ==
    ASSUME NEW X, IsAlphabet(X), NEW l, IsLine(l, X), NEW to \in 0 .. Len(l.buf), NEW shift \in BOOLEAN
    PROVE  Keeps(l, MoveTo(l, to, shift), X)
<1> DEFINE d == IF shift /\ ~l.sel THEN [l EXCEPT !.sel = TRUE, !.anchor = l.cur] ELSE l
           m == [d EXCEPT !.cur = to]
           r == IF ~shift THEN ClearSelection(m) ELSE IF m.anchor = to THEN [m EXCEPT !.sel = FALSE] ELSE m
<1>0. l \in LineRecord(X) /\ l.cur <= Len(l.buf) /\ Anchored(l, X) /\ Len(l.buf) \in Nat /\ l.cur \in Nat
  BY Fields DEF IsLine
<1>0a. to \in Nat /\ to <= Len(l.buf)
  BY <1>0
<1>1. /\ d \in LineRecord(X) /\ d.buf = l.buf /\ d.drawn = l.drawn /\ d.row = l.row
      /\ Anchored(d, X)
  <2>1. CASE shift /\ ~l.sel
    <3> DEFINE e == [l EXCEPT !.sel = TRUE, !.anchor = l.cur]
    <3>1. ASSUME NEW t \in BOOLEAN, t = TRUE, NEW f, f = [l EXCEPT !.sel = t, !.anchor = l.cur]
          PROVE  f \in LineRecord(X) /\ f.buf = l.buf /\ f.drawn = l.drawn /\ f.row = l.row /\ f.anchor = l.cur
      BY <1>0, <3>1, Zenon DEF LineRecord
    <3>2. e \in LineRecord(X) /\ e.buf = l.buf /\ e.drawn = l.drawn /\ e.row = l.row /\ e.anchor = l.cur
      BY <3>1, Zenon
    <3>3. d = e
      BY <2>1
    <3> HIDE DEF e, d
    <3> QED BY <1>0, <3>2, <3>3 DEF Anchored
  <2>2. CASE ~(shift /\ ~l.sel)
    <3>1. d = l
      BY <2>2
    <3> HIDE DEF d
    <3> QED BY <1>0, <3>1
  <2> QED BY <2>1, <2>2
<1> HIDE DEF d
<1>2. /\ m \in LineRecord(X) /\ m.buf = l.buf /\ m.drawn = l.drawn /\ m.row = l.row /\ m.cur = to
      /\ m.sel = d.sel /\ m.anchor = d.anchor
  BY <1>0a, <1>1, Zenon DEF LineRecord
<1> HIDE DEF m
<1>3. Anchored(m, X)
  BY <1>1, <1>2 DEF Anchored
<1>4. IsLine(r, X) /\ r.drawn = l.drawn /\ r.row = l.row
  <2>1. CASE ~shift
    <3>1. r = ClearSelection(m)
      BY <2>1
    <3> HIDE DEF r
    <3>2. r \in LineRecord(X) /\ ~r.sel /\ r.buf = m.buf /\ r.cur = m.cur /\ r.drawn = m.drawn /\ r.row = m.row
      BY <1>2, <3>1, ClearedIs
    <3> QED BY <1>0a, <1>2, <3>2 DEF IsLine, Anchored
  <2>2. CASE shift /\ m.anchor = to
    <3>1. r = [m EXCEPT !.sel = FALSE]
      BY <2>2
    <3>2. ASSUME NEW f \in BOOLEAN, f = FALSE, NEW q, q = [m EXCEPT !.sel = f]
          PROVE  q \in LineRecord(X) /\ q.buf = m.buf /\ q.cur = m.cur /\ q.drawn = m.drawn /\ q.row = m.row /\ q.sel = FALSE
      BY <1>2, <3>2, Zenon DEF LineRecord
    <3> HIDE DEF r
    <3>3. r \in LineRecord(X) /\ r.buf = m.buf /\ r.cur = m.cur /\ r.drawn = m.drawn /\ r.row = m.row /\ r.sel = FALSE
      BY <3>1, <3>2
    <3> QED BY <1>0a, <1>2, <3>3 DEF IsLine, Anchored
  <2>3. CASE shift /\ m.anchor # to
    <3>1. r = m
      BY <2>3
    <3> HIDE DEF r
    <3> QED BY <1>0a, <1>2, <1>3, <3>1 DEF IsLine
  <2> QED BY <2>1, <2>2, <2>3
<1>5. MoveTo(l, to, shift) = Redraw(r)
  BY DEF MoveTo, d, m
<1> HIDE DEF r
<1> QED BY <1>4, <1>5, DrawnAgain

(* handle_backspace without a selection.                                   *)
Shortened(l) == SubSeq(l.buf, 1, l.cur - 1) \o SubSeq(l.buf, l.cur + 1, Len(l.buf))
Rewritten(l) ==
    [i \in Cells |-> CASE i >= l.cur - 1 /\ i < Len(Shortened(l)) -> Shortened(l)[i + 1]
                       [] i = Len(Shortened(l)) -> Blank
                       [] OTHER -> l.row[i]]
Backspaced(l) ==
    ClearSelection([l EXCEPT !.buf = Shortened(l), !.cur = @ - 1, !.hw = l.cur - 1, !.row = Rewritten(l)])

LEMMA BackspaceKeeps ==
    ASSUME NEW X, IsAlphabet(X), NEW l, IsLine(l, X), l.cur > 0
    PROVE  Keeps(l, Backspaced(l), X)
<1> DEFINE b == Shortened(l)
           row == Rewritten(l)
           d == [l EXCEPT !.buf = b, !.cur = l.cur - 1, !.hw = l.cur - 1, !.row = row]
<1>0. /\ l \in LineRecord(X) /\ l.cur <= Len(l.buf) /\ Len(l.buf) \in Nat /\ l.cur \in Nat /\ l.buf \in TextsOf(X)
      /\ l.row \in [Cells -> AnyByte \cup {"^", "C"}] /\ X \subseteq AnyByte /\ l.buf \in Seq(X)
  BY Fields DEF IsLine, IsAlphabet
<1>1. b \in TextsOf(X) /\ Len(b) = Len(l.buf) - 1
  <2>1. l.cur - 1 \in Nat /\ l.cur - 1 <= l.cur
    BY <1>0
  <2>2. /\ SubSeq(l.buf, 1, l.cur - 1) \o SubSeq(l.buf, l.cur + 1, Len(l.buf)) \in TextsOf(X)
        /\ Len(SubSeq(l.buf, 1, l.cur - 1) \o SubSeq(l.buf, l.cur + 1, Len(l.buf))) = Len(l.buf) - (l.cur - (l.cur - 1))
    BY <1>0, <2>1, WithoutIs
  <2> QED BY <1>0, <2>2 DEF Shortened
<1>2. \A i \in 1 .. l.cur - 1 : b[i] = l.buf[i]
  <2> DEFINE front == SubSeq(l.buf, 1, l.cur - 1)
             rest == SubSeq(l.buf, l.cur + 1, Len(l.buf))
  <2>1. l.cur - 1 \in 0 .. Len(l.buf) /\ l.cur \in 0 .. Len(l.buf)
    BY <1>0
  <2>2. front \in Seq(X) /\ Len(front) = l.cur - 1 /\ rest \in Seq(X)
    BY <1>0, <2>1, PartsOf
  <2>3. \A i \in 1 .. l.cur - 1 : front[i] = l.buf[i]
    BY <1>0
  <2>4. b = front \o rest
    BY DEF Shortened
  <2> HIDE DEF b, front, rest
  <2> QED BY <1>0, <2>2, <2>3, <2>4
<1> HIDE DEF b
<1>3. b \in Seq(X) /\ Len(b) < Size /\ l.cur - 1 \in Nat /\ l.cur - 1 \in Int /\ l.cur - 1 <= Len(b)
  BY <1>0, <1>1 DEF TextsOf
<1>3a. /\ l.cur \in Nat /\ l.cur > 0 /\ Len(b) \in Nat /\ Len(l.buf) = Len(b) + 1
       /\ l.cur - 1 <= Len(b) /\ l.cur <= Len(l.buf)
  BY <1>0, <1>1, <1>3
<1>4. row = [i \in Cells |-> CASE i >= l.cur - 1 /\ i < Len(b) -> b[i + 1]
                               [] i = Len(b) -> Blank
                               [] OTHER -> l.row[i]]
  BY DEF Rewritten, b
<1> HIDE DEF row
<1>4a. \A i \in Cells : i < Len(b) => b[i + 1] \in AnyByte
  BY <1>0, <1>3, CellsAre
<1>5. row \in [Cells -> AnyByte \cup {"^", "C"}]
  BY <1>0, <1>3, <1>4, <1>4a, CellsAre
<1>6. /\ d \in LineRecord(X) /\ d.buf = b /\ d.cur = l.cur - 1 /\ d.hw = l.cur - 1 /\ d.row = row /\ d.drawn = l.drawn
  BY <1>0, <1>1, <1>3, <1>5, Zenon DEF LineRecord
<1>7. Backspaced(l) = ClearSelection(d)
  BY DEF Backspaced, b, row
<1> HIDE DEF d
<1> DEFINE r == Backspaced(l)
<1>8. /\ r \in LineRecord(X) /\ ~r.sel /\ r.buf = b /\ r.cur = l.cur - 1 /\ r.hw = l.cur - 1 /\ r.row = row /\ r.drawn = l.drawn
  BY <1>6, <1>7, ClearedIs
<1> HIDE DEF r
<1>9. IsLine(r, X)
  BY <1>3, <1>8 DEF IsLine, Anchored
<1>10. ASSUME Shown(l) PROVE Shown(r)
  <2>1. \A i \in Cells : row[i] = IF i < Len(b) THEN b[i + 1] ELSE Blank
    <3> SUFFICES ASSUME NEW i \in Cells
                 PROVE  row[i] = IF i < Len(b) THEN b[i + 1] ELSE Blank
      OBVIOUS
    <3>1. i \in Nat /\ l.row[i] = IF i < Len(l.buf) THEN l.buf[i + 1] ELSE Blank
      BY <1>10, CellsAre DEF Shown, Exact
    <3>2. CASE i < l.cur - 1
      <4>1. i + 1 \in 1 .. l.cur - 1 /\ i < Len(b) /\ i < Len(l.buf) /\ ~(i >= l.cur - 1) /\ i # Len(b)
        BY <1>3a, <3>1, <3>2
      <4>2. row[i] = l.row[i]
        BY <1>4, <4>1
      <4> QED BY <1>2, <3>1, <4>1, <4>2
    <3>3. CASE i >= l.cur - 1 /\ i < Len(b)
      BY <1>4, <3>3
    <3>4. CASE i = Len(b)
      BY <1>3, <1>4, <3>1, <3>4
    <3>5. CASE i > Len(b)
      <4>1. ~(i < Len(b)) /\ i # Len(b) /\ ~(i < Len(l.buf))
        BY <1>3a, <3>1, <3>5
      <4> QED BY <1>4, <3>1, <4>1
    <3> QED BY <1>3, <3>1, <3>2, <3>3, <3>4, <3>5
  <2>2. Exact(r)
    BY <1>8, <2>1 DEF Exact
  <2>3. l.drawn \in Nat /\ l.drawn < Size /\ Len(l.buf) <= l.drawn
    BY <1>0, <1>10, Fields DEF Shown, Clean
  <2>4. \A i \in Cells : i >= l.drawn => row[i] = Blank
    <3> SUFFICES ASSUME NEW i \in Cells, i >= l.drawn PROVE row[i] = Blank
      OBVIOUS
    <3>1. i \in Nat
      BY CellsAre
    <3>2. ~(i < Len(b))
      BY <1>3a, <2>3, <3>1
    <3> QED BY <2>1, <3>2
  <2>5. Clean(r) /\ Len(r.buf) <= r.drawn
    BY <1>3a, <1>8, <2>3, <2>4 DEF Clean
  <2> QED BY <1>8, <2>2, <2>5 DEF Shown
<1> QED BY <1>9, <1>10 DEF Keeps, r

(* Ctrl+A: the whole line is selected and the cursor stands at its end.    *)
AllSelected(l) == [l EXCEPT !.sel = TRUE, !.anchor = 0, !.cur = Len(l.buf)]

LEMMA SelectAllKeeps ==
    ASSUME NEW X, IsAlphabet(X), NEW l, IsLine(l, X)
    PROVE  Keeps(l, Redraw(AllSelected(l)), X)
<1> DEFINE r == AllSelected(l)
<1>0. l \in LineRecord(X) /\ Len(l.buf) \in Nat
  BY Fields DEF IsLine
<1>1. ASSUME NEW s \in BOOLEAN, s = TRUE, NEW z \in 0 .. Len(l.buf), z = 0, NEW c \in 0 .. Len(l.buf),
             c = Len(l.buf), NEW q, q = [l EXCEPT !.sel = s, !.anchor = z, !.cur = c]
      PROVE  IsLine(q, X) /\ q.drawn = l.drawn /\ q.row = l.row
  <2>1. q = Selected(l, s, z, c)
    BY <1>1 DEF Selected
  <2> QED BY <1>0, <2>1, SelectedIs
<1>2. 0 \in 0 .. Len(l.buf) /\ Len(l.buf) \in 0 .. Len(l.buf)
  BY <1>0
<1>3. IsLine(r, X) /\ r.drawn = l.drawn /\ r.row = l.row
  BY <1>1, <1>2, Zenon DEF AllSelected
<1> HIDE DEF r
<1>4. Keeps(l, Redraw(r), X)
  BY <1>3, DrawnAgain
<1> QED BY <1>4 DEF r

(* Where the cursor goes word by word.                                     *)
LEMMA LeastIn ==
    ASSUME NEW S, S \subseteq Nat, S # {}
    PROVE  Least(S) \in S
  BY LeastExists DEF Least

LEMMA GreatestExists ==
    ASSUME NEW n \in Nat, NEW S, S \subseteq 0 .. n, S # {}
    PROVE  \E k \in S : \A j \in S : j <= k
<1> DEFINE T == {m \in 0 .. n : \E j \in S : m = n - j}
<1>1. PICK m \in T : \A j \in T : m <= j
  <2>1. \A x \in S : n - x \in T
    OBVIOUS
  <2>2. T \subseteq Nat
    OBVIOUS
  <2> HIDE DEF T
  <2> QED BY <2>1, <2>2, LeastExists
<1>2. PICK k \in S : m = n - k
  BY <1>1
<1>3. ASSUME NEW j \in S PROVE j <= k
  <2>1. n - j \in T
    OBVIOUS
  <2>2. m <= n - j
    BY <1>1, <2>1
  <2> QED BY <1>2, <2>2
<1> QED BY <1>3

LEMMA WordsWithin ==
    ASSUME NEW X, NEW l, IsLine(l, X)
    PROVE  WordLeft(l) \in 0 .. Len(l.buf) /\ WordRight(l) \in 0 .. Len(l.buf)
<1>0. Len(l.buf) \in Nat /\ l.cur \in 0 .. Len(l.buf)
  BY Fields DEF IsLine
<1>1. ASSUME NEW i \in 0 .. Len(l.buf)
      PROVE  /\ Back(l.buf, i, NoWord) \in 0 .. Len(l.buf) /\ Back(l.buf, i, IsWord) \in 0 .. Len(l.buf)
             /\ Ahead(l.buf, i, NoWord) \in 0 .. Len(l.buf) /\ Ahead(l.buf, i, IsWord) \in 0 .. Len(l.buf)
  <2>1. Back(l.buf, i, NoWord) \in 0 .. Len(l.buf)
    <3> DEFINE S == {k \in 0 .. i : \A j \in k + 1 .. i : NoWord(l.buf[j])}
    <3>1. i \in S /\ S \subseteq Nat /\ S \subseteq 0 .. Len(l.buf)
      BY <1>0
    <3>2. Back(l.buf, i, NoWord) = Least(S)
      BY DEF Back
    <3> HIDE DEF S
    <3> QED BY <3>1, <3>2, LeastIn
  <2>2. Back(l.buf, i, IsWord) \in 0 .. Len(l.buf)
    <3> DEFINE S == {k \in 0 .. i : \A j \in k + 1 .. i : IsWord(l.buf[j])}
    <3>1. i \in S /\ S \subseteq Nat /\ S \subseteq 0 .. Len(l.buf)
      BY <1>0
    <3>2. Back(l.buf, i, IsWord) = Least(S)
      BY DEF Back
    <3> HIDE DEF S
    <3> QED BY <3>1, <3>2, LeastIn
  <2>3. Ahead(l.buf, i, NoWord) \in 0 .. Len(l.buf)
    <3> DEFINE S == {k \in i .. Len(l.buf) : \A j \in i + 1 .. k : NoWord(l.buf[j])}
    <3>1. i \in S /\ S \subseteq 0 .. Len(l.buf)
      BY <1>0
    <3>2. Ahead(l.buf, i, NoWord) = CHOOSE k \in S : \A j \in S : j <= k
      BY DEF Ahead
    <3> HIDE DEF S
    <3> QED BY <1>0, <3>1, <3>2, GreatestExists
  <2>4. Ahead(l.buf, i, IsWord) \in 0 .. Len(l.buf)
    <3> DEFINE S == {k \in i .. Len(l.buf) : \A j \in i + 1 .. k : IsWord(l.buf[j])}
    <3>1. i \in S /\ S \subseteq 0 .. Len(l.buf)
      BY <1>0
    <3>2. Ahead(l.buf, i, IsWord) = CHOOSE k \in S : \A j \in S : j <= k
      BY DEF Ahead
    <3> HIDE DEF S
    <3> QED BY <1>0, <3>1, <3>2, GreatestExists
  <2> QED BY <2>1, <2>2, <2>3, <2>4
<1>2. WordLeft(l) \in 0 .. Len(l.buf)
  BY <1>0, <1>1 DEF WordLeft
<1>3. WordRight(l) \in 0 .. Len(l.buf)
  BY <1>0, <1>1 DEF WordRight
<1> QED BY <1>2, <1>3

LEMMA WordStart ==
    ASSUME NEW X, NEW l, IsLine(l, X)
    PROVE  Back(l.buf, Back(l.buf, l.cur, IsBlank), NoBlank) \in Nat
<1>0. Len(l.buf) \in Nat /\ l.cur \in 0 .. Len(l.buf)
  BY Fields DEF IsLine
<1> DEFINE i == Back(l.buf, l.cur, IsBlank)
<1>1. i \in Nat
  <2> DEFINE S == {k \in 0 .. l.cur : \A j \in k + 1 .. l.cur : IsBlank(l.buf[j])}
  <2>1. l.cur \in S /\ S \subseteq Nat
    BY <1>0
  <2>2. i = Least(S)
    BY DEF Back
  <2> HIDE DEF S
  <2> QED BY <2>1, <2>2, LeastIn
<1> HIDE DEF i
<1>2. Back(l.buf, i, NoBlank) \in Nat
  <2> DEFINE S == {k \in 0 .. i : \A j \in k + 1 .. i : NoBlank(l.buf[j])}
  <2>1. i \in S /\ S \subseteq Nat
    BY <1>1
  <2>2. Back(l.buf, i, NoBlank) = Least(S)
    BY DEF Back
  <2> HIDE DEF S
  <2> QED BY <2>1, <2>2, LeastIn
<1> QED BY <1>2 DEF i

(* What is cut from the line; a selection that ends in the line has no     *)
(* byte from behind it.                                                    *)
LEMMA BytesIn ==
    ASSUME NEW X, IsAlphabet(X), NEW l, IsLine(l, X), HasSelection(l)
    PROVE  Bytes(l, From(l), To(l)) \in Seq(X)
<1>0. /\ l.buf \in Seq(X) /\ Len(l.buf) \in Nat /\ l.cur \in Nat /\ l.cur <= Len(l.buf) /\ l.anchor \in Nat
      /\ Anchored(l, X) /\ l.sel
  BY Fields DEF IsLine, HasSelection
<1>1. From(l) \in Nat /\ To(l) \in Nat /\ From(l) <= To(l)
  BY EndsOf
<1>2. Junk \in X \/ To(l) <= Len(l.buf)
  BY <1>0 DEF Anchored, To, Larger
<1>3. \A k \in 1 .. To(l) - From(l) : (IF From(l) + k <= Len(l.buf) THEN l.buf[From(l) + k] ELSE Junk) \in X
  BY <1>0, <1>1, <1>2
<1>4. To(l) - From(l) \in Nat
  BY <1>1
<1> DEFINE n == To(l) - From(l)
           s == [k \in 1 .. n |-> IF From(l) + k <= Len(l.buf) THEN l.buf[From(l) + k] ELSE Junk]
<1>5. s \in [1 .. n -> X]
  BY <1>3
<1>6. Bytes(l, From(l), To(l)) = s
  BY DEF Bytes
<1> HIDE DEF s, n
<1>7. n \in Nat
  BY <1>4 DEF n
<1> QED BY <1>5, <1>6, <1>7

(* Completion of the line.                                                 *)
LEMMA FitIn ==
    ASSUME NEW X, NEW text \in Seq(X)
    PROVE  Fit(text) \in TextsOf(X)
<1> DEFINE n == Smaller(Len(text), Size - 1)
<1>1. n \in 0 .. Len(text) /\ n < Size
  BY Sizes DEF Smaller
<1> HIDE DEF n
<1>2. SubSeq(text, 1, n) \in Seq(X) /\ Len(SubSeq(text, 1, n)) = n
  BY <1>1, PartsOf
<1> QED BY <1>1, <1>2 DEF Fit, TextsOf, n

LEMMA AfterIn ==
    ASSUME NEW X, NEW text \in Seq(X), NEW c
    PROVE  After(text, c) \in 0 .. Len(text)
<1>1. Len(text) \in Nat /\ Position(text, c) \subseteq 0 .. Len(text)
  BY DEF Position
<1>2. CASE Position(text, c) = {}
  BY <1>1, <1>2 DEF After
<1>3. CASE Position(text, c) # {}
  <2>1. \E i \in Position(text, c) : \A j \in Position(text, c) : j <= i
    BY <1>1, <1>3, GreatestExists
  <2> QED BY <1>1, <1>3, <2>1 DEF After
<1> QED BY <1>2, <1>3

LEMMA CommonIn ==
    ASSUME NEW names, names # {}, names \subseteq Seq(Glyphs)
    PROVE  CommonPrefix(names) \in Seq(Glyphs) /\ \E n \in names : Len(CommonPrefix(names)) <= Len(n)
<1> DEFINE shared == {k \in 0 .. Size : \A n, m \in names : k <= Len(n) /\ SubSeq(n, 1, k) = SubSeq(m, 1, k)}
           n0 == CHOOSE n \in names : TRUE
           k0 == CHOOSE k \in shared : \A j \in shared : j <= k
<1>1. 0 \in shared
  <2>1. \A n \in names : 0 <= Len(n) /\ SubSeq(n, 1, 0) = <<>>
    OBVIOUS
  <2> QED BY <2>1, Sizes
<1>2. shared \subseteq 0 .. Size
  OBVIOUS
<1>3. \A k \in shared : \A n \in names : k <= Len(n)
  OBVIOUS
<1>4. n0 \in names /\ n0 \in Seq(Glyphs)
  OBVIOUS
<1>5. CommonPrefix(names) = SubSeq(n0, 1, k0)
  BY DEF CommonPrefix
<1> HIDE DEF shared, n0
<1>6. k0 \in shared
  <2>1. \E k \in shared : \A j \in shared : j <= k
    BY <1>1, <1>2, Sizes, GreatestExists
  <2> QED BY <2>1
<1> HIDE DEF k0
<1>7. k0 \in 0 .. Len(n0)
  BY <1>2, <1>3, <1>4, <1>6
<1>8. SubSeq(n0, 1, k0) \in Seq(Glyphs) /\ Len(SubSeq(n0, 1, k0)) = k0
  BY <1>4, <1>7, PartsOf
<1> QED BY <1>4, <1>5, <1>7, <1>8

LEMMA WiderSeq ==
    ASSUME NEW X, NEW Y, X \subseteq Y, NEW s \in Seq(X)
    PROVE  s \in Seq(Y)
  OBVIOUS

LEMMA ListMatchesIs ==
    ASSUME NEW X, IsAlphabet(X), NEW l, IsLine(l, X)
    PROVE  IsLine(ListMatches(l), X)
<1>1. l.buf \in TextsOf(X)
  BY Fields DEF IsLine
<1>2. IsLine(Fresh, X) /\ ~Fresh.sel
  BY FreshIs
<1> QED BY <1>1, <1>2, WriteOutIs DEF ListMatches

LEMMA CompletedIs ==
    ASSUME NEW X, IsAlphabet(X), NEW l, IsLine(l, X), NEW text \in TextsOf(X)
    PROVE  IsLine(WriteOut(ClearLine(l), text), X)
  BY ClearLineIs, WriteOutIs

LEMMA CompleteCommandIs ==
    ASSUME NEW X, IsAlphabet(X), NEW l, IsLine(l, X)
    PROVE  IsLine(CompleteCommand(l), X)
<1> DEFINE found == Starting(Commands, l.buf)
           common == CommonPrefix(found)
<1>1. found \subseteq Commands
  BY DEF Starting
<1>2. CompleteCommand(l) =
        CASE found = {} -> l
          [] Cardinality(found) = 1 -> WriteOut(ClearLine(l), common \o <<Blank>>)
          [] Cardinality(found) > 1 /\ Len(common) > Len(l.buf) -> WriteOut(ClearLine(l), common)
          [] OTHER -> ListMatches(l)
  BY DEF CompleteCommand
<1> HIDE DEF found
<1>3. CASE found = {}
  <2>1. Cardinality(found) = 0
    BY <1>3, FS_EmptySet
  <2> QED BY <1>2, <1>3, <2>1
<1>4. CASE found # {}
  <2>1. \A c \in found : c \in Seq(Glyphs) /\ Len(c) + 1 < Size
    BY <1>1, LineAssumption
  <2>2. found \subseteq Seq(Glyphs)
    BY <2>1
  <2>3. common \in Seq(Glyphs) /\ \E n \in found : Len(common) <= Len(n)
    BY <1>4, <2>2, CommonIn
  <2> HIDE DEF common
  <2>4. Glyphs \subseteq X /\ Blank \in X
    BY LineAssumption DEF IsAlphabet, Glyphs
  <2>5. common \in Seq(X) /\ Len(common) \in Nat /\ Len(common) + 1 < Size
    BY <2>1, <2>3, <2>4, Sizes, WiderSeq
  <2>6. <<Blank>> \in Seq(X) /\ Len(<<Blank>>) = 1
    BY <2>4
  <2>7. common \o <<Blank>> \in Seq(X) /\ Len(common \o <<Blank>>) = Len(common) + Len(<<Blank>>)
    BY <2>5, <2>6, ConcatIs
  <2>8. common \in TextsOf(X) /\ common \o <<Blank>> \in TextsOf(X)
    BY <2>5, <2>6, <2>7, Sizes DEF TextsOf
  <2>9. /\ IsLine(WriteOut(ClearLine(l), common), X) /\ IsLine(WriteOut(ClearLine(l), common \o <<Blank>>), X)
        /\ IsLine(ListMatches(l), X)
    BY <2>8, CompletedIs, ListMatchesIs
  <2> QED BY <1>2, <1>4, <2>9
<1> QED BY <1>3, <1>4

LEMMA CompletePathIs ==
    ASSUME NEW X, IsAlphabet(X), NEW l, IsLine(l, X)
    PROVE  IsLine(CompletePath(l), X)
<1> DEFINE space == After(l.buf, Blank)
           word == SubSeq(l.buf, space + 1, Len(l.buf))
           slash == After(word, "/")
           part == SubSeq(word, slash + 1, Len(word))
           kept == SubSeq(l.buf, 1, Len(l.buf) - Len(part))
           found == {e \in Listing(SubSeq(word, 1, slash)) : IsPrefix(part, e.name)}
           common == CommonPrefix({e.name : e \in found})
           more == IF \E e \in found : e.dir THEN <<"/">> ELSE <<Blank>>
<1>0. l.buf \in Seq(X) /\ Len(l.buf) \in Nat /\ Len(l.buf) < Size /\ X \subseteq AnyByte /\ Glyphs \subseteq X
  BY Fields DEF IsLine, IsAlphabet
<1>1. CompletePath(l) =
        CASE found = {} -> l
          [] Cardinality(found) = 1 -> WriteOut(ClearLine(l), Fit(Fit(kept \o common) \o more))
          [] Cardinality(found) > 1 /\ Len(common) > Len(part) -> WriteOut(ClearLine(l), Fit(kept \o common))
          [] OTHER -> ListMatches(l)
  BY DEF CompletePath
<1>2. space \in 0 .. Len(l.buf)
  BY <1>0, AfterIn
<1> HIDE DEF space
<1>3. word \in Seq(X) /\ Len(word) = Len(l.buf) - space
  BY <1>0, <1>2, PartsOf
<1> HIDE DEF word
<1>4. slash \in 0 .. Len(word)
  BY <1>3, AfterIn
<1> HIDE DEF slash
<1>5. /\ part \in Seq(X) /\ Len(part) = Len(word) - slash
      /\ SubSeq(word, 1, slash) \in Seq(X) /\ Len(SubSeq(word, 1, slash)) = slash
  BY <1>3, <1>4, PartsOf
<1>6. Len(l.buf) - Len(part) \in 0 .. Len(l.buf)
  <2> HIDE DEF part
  <2> QED BY <1>0, <1>2, <1>3, <1>4, <1>5
<1>7. kept \in Seq(X)
  BY <1>0, <1>6, PartsOf
<1>8. found \subseteq [name : Seq(Glyphs), dir : BOOLEAN]
  <2> DEFINE dir == SubSeq(word, 1, slash)
  <2>1. slash \in 0 .. Size
    BY <1>0, <1>2, <1>3, <1>4, Sizes
  <2>0. dir \in Seq(X) /\ Len(dir) = slash
    BY <1>5
  <2> HIDE DEF dir
  <2>2. dir \in [1 .. slash -> AnyByte]
    BY <1>0, <2>0
  <2>3. Listing(dir) \subseteq [name : Seq(Glyphs), dir : BOOLEAN]
    BY <2>1, <2>2, LineAssumption
  <2> QED BY <2>3 DEF dir
<1> HIDE DEF part, kept, found
<1>9. CASE found = {}
  <2>1. Cardinality(found) = 0
    BY <1>9, FS_EmptySet
  <2> HIDE DEF common, more
  <2> QED BY <1>1, <1>9, <2>1
<1>10. CASE found # {}
  <2> DEFINE names == {e.name : e \in found}
  <2>1. names # {} /\ names \subseteq Seq(Glyphs)
    BY <1>8, <1>10
  <2> HIDE DEF names
  <2>2. CommonPrefix(names) \in Seq(Glyphs)
    BY <2>1, CommonIn
  <2>3. common \in Seq(X)
    BY <1>0, <2>2, WiderSeq DEF names
  <2>4. more \in Seq(X)
    <3>1. Blank \in X /\ "/" \in X
      BY <1>0, LineAssumption DEF Glyphs
    <3> QED BY <3>1
  <2> HIDE DEF common, more
  <2>5. kept \o common \in Seq(X)
    BY <1>7, <2>3, ConcatIs
  <2>6. Fit(kept \o common) \in TextsOf(X) /\ Fit(kept \o common) \in Seq(X)
    BY <2>5, FitIn DEF TextsOf
  <2>7. Fit(kept \o common) \o more \in Seq(X)
    BY <2>4, <2>6, ConcatIs
  <2>8. Fit(Fit(kept \o common) \o more) \in TextsOf(X)
    BY <2>7, FitIn
  <2>9. /\ IsLine(WriteOut(ClearLine(l), Fit(Fit(kept \o common) \o more)), X)
        /\ IsLine(WriteOut(ClearLine(l), Fit(kept \o common)), X)
        /\ IsLine(ListMatches(l), X)
    BY <2>6, <2>8, CompletedIs, ListMatchesIs
  <2> QED BY <1>1, <1>10, <2>9
<1> QED BY <1>9, <1>10

LEMMA CompleteIs ==
    ASSUME NEW X, IsAlphabet(X), NEW l, IsLine(l, X)
    PROVE  IsLine(Complete(l), X)
  BY CompleteCommandIs, CompletePathIs DEF Complete

-----------------------------------------------------------------------------
LEMMA TenfoldPositive ==
    ASSUME NEW a \in Nat \ {0}, NEW v \in Nat
    PROVE  a * 10 + v \in Nat \ {0}
  OBVIOUS

(* The number of an event `!N' is at least 1.                              *)
LEMMA NumberPositive ==
    ASSUME NEW text \in Seq(AnyByte), IsNth(text)
    PROVE  Number(text) \in Nat \ {0}
<1> DEFINE d == DigitsOf(text)
           n == Len(d)
           a == Ahead(text, 1, IsDigit)
           S == {i \in 1 .. Len(text) : \A j \in 2 .. i : IsDigit(text[j])}
<1>1. Len(text) \in Nat /\ Len(text) >= 2 /\ Value(text[2]) >= 1
  BY DEF IsNth
<1>2. a \in S /\ a >= 2
  <2>1. 2 \in S
    <3>1. \A j \in 2 .. 2 : j = 2
      OBVIOUS
    <3>2. Value(text[2]) \in -1 .. 9
      <4>1. text[2] \in AnyByte
        BY <1>1
      <4> QED BY <4>1, LineAssumption
    <3>3. IsDigit(text[2])
      BY <1>1, <3>2 DEF IsDigit
    <3> QED BY <1>1, <3>1, <3>3
  <2>2. a = CHOOSE i \in S : \A j \in S : j <= i
    <3>1. {i \in 1 .. Len(text) : \A j \in 1 + 1 .. i : IsDigit(text[j])} = S
      OBVIOUS
    <3> QED BY <3>1 DEF Ahead
  <2>3. S \subseteq 0 .. Len(text)
    OBVIOUS
  <2> HIDE DEF S, a
  <2>4. a \in S /\ \A j \in S : j <= a
    BY <1>1, <2>1, <2>2, <2>3, GreatestExists
  <2>5. a \in Nat
    BY <1>1, <2>3, <2>4
  <2> QED BY <2>1, <2>4, <2>5
<1>3. /\ n \in Nat /\ n >= 1 /\ \A k \in 1 .. n : Value(d[k]) \in Nat
      /\ Value(d[1]) >= 1
  <2>2. d = SubSeq(text, 2, a)
    BY DEF DigitsOf
  <2> HIDE DEF d, a
  <2>1. a \in 2 .. Len(text) /\ \A j \in 2 .. a : IsDigit(text[j]) /\ text[j] \in AnyByte
    BY <1>1, <1>2
  <2> HIDE DEF S
  <2>3. Len(d) = a - 1 /\ \A k \in 1 .. a - 1 : d[k] = text[k + 1]
    BY <1>1, <2>1, <2>2
  <2>4. \A j \in 2 .. a : Value(text[j]) \in Nat
    BY <2>1, LineAssumption DEF IsDigit
  <2>5. \A k \in 1 .. a - 1 : k + 1 \in 2 .. a
    BY <2>1
  <2> QED BY <1>1, <2>1, <2>3, <2>4, <2>5
<1> HIDE DEF d, a, S
<1> DEFINE f == [k \in 1 .. n |-> [x \in Nat |-> x * 10 + Value(d[k])]]
           Body(upto) == [k \in 0 .. n |-> IF k = 0 THEN 0 ELSE upto[k - 1] * 10 + Value(d[k])]
<1>4. Number(text) = (CHOOSE upto : upto = Body(upto))[n]
  BY Zenon DEF Number, d
<1>5. PICK h : Iterates(h, 0, f, n, Nat)
  <2>1. Within(f, n, Nat)
    <3>1. ASSUME NEW k \in 1 .. n, NEW x \in Nat PROVE f[k][x] \in Nat
      <4>1. Value(d[k]) \in Nat
        BY <1>3
      <4> QED BY <4>1
    <3> QED BY <3>1 DEF Within
  <2>2. 0 \in Nat
    OBVIOUS
  <2> HIDE DEF f
  <2> QED BY <1>3, <2>1, <2>2, IterExists, Zenon
<1>6. h \in [0 .. n -> Nat] /\ h[0] = 0
  BY <1>5, Zenon DEF Iterates
<1>7. h = Body(h)
  <2>1. ASSUME NEW k \in 0 .. n, k # 0 PROVE h[k] = h[k - 1] * 10 + Value(d[k])
    <3>1. k \in 1 .. n /\ k - 1 \in 0 .. n
      BY <1>3, <2>1
    <3>2. h[k] = f[k][h[k - 1]] /\ h[k - 1] \in Nat
      BY <1>5, <1>6, <3>1 DEF Iterates
    <3> QED BY <3>1, <3>2
  <2>2. \A k \in 0 .. n : h[k] = IF k = 0 THEN 0 ELSE h[k - 1] * 10 + Value(d[k])
    BY <1>6, <2>1
  <2> QED BY <1>6, <2>2
<1>8. PICK g : g = Body(g) /\ Number(text) = g[n]
  <2> HIDE DEF Body
  <2> QED BY <1>4, <1>7
<1>9. \A k \in 0 .. n : g[k] = IF k = 0 THEN 0 ELSE g[k - 1] * 10 + Value(d[k])
  <2>1. \A k \in 0 .. n : Body(g)[k] = IF k = 0 THEN 0 ELSE g[k - 1] * 10 + Value(d[k])
    OBVIOUS
  <2> HIDE DEF Body
  <2> QED BY <1>8, <2>1
<1> DEFINE B == {k \in 1 .. n : g[k] \notin Nat \ {0}}
<1>10. ASSUME B # {} PROVE FALSE
  <2>1. B \subseteq Nat
    OBVIOUS
  <2>2. PICK k \in B : \A j \in B : k <= j
    <3> HIDE DEF B
    <3> QED BY <1>10, <2>1, LeastExists
  <2>3. k \in 1 .. n /\ k \in 0 .. n /\ g[k] \notin Nat \ {0} /\ Value(d[k]) \in Nat
    BY <1>3, <2>2
  <2>4. CASE k = 1
    <3>1. 0 \in 0 .. n /\ 1 \in 0 .. n
      BY <1>3
    <3>2. g[0] = 0 /\ g[1] = g[0] * 10 + Value(d[1])
      BY <1>9, <3>1
    <3> QED BY <1>3, <2>3, <2>4, <3>2
  <2>5. CASE k # 1
    <3>1. k - 1 \in 1 .. n /\ ~(k <= k - 1)
      BY <2>3, <2>5
    <3>2. g[k - 1] \in Nat \ {0}
      BY <2>2, <3>1
    <3>3. g[k] = g[k - 1] * 10 + Value(d[k])
      BY <1>9, <2>3, <2>5
    <3>4. g[k] \in Nat \ {0}
      BY <2>3, <3>2, <3>3, TenfoldPositive
    <3> QED BY <2>3, <3>4
  <2> QED BY <2>4, <2>5
<1>11. n \in 1 .. n
  BY <1>3
<1> QED BY <1>8, <1>10, <1>11

-----------------------------------------------------------------------------
(* The ring of the history.                                                *)
HistoryOf(X) ==
    [ring : [0 .. HistorySize - 1 -> TextsOf(X)], start : 0 .. HistorySize - 1, count : 0 .. HistorySize]

LEMMA SlotIn ==
    ASSUME NEW s \in 0 .. HistorySize - 1, NEW i \in Nat
    PROVE  (s + i) % HistorySize \in 0 .. HistorySize - 1
<1>1. HistorySize \in Nat \ {0}
  BY Sizes
<1> QED BY <1>1

LEMMA SlotsApart ==
    ASSUME NEW s \in 0 .. HistorySize - 1, NEW i \in 0 .. HistorySize - 1, NEW j \in 0 .. HistorySize - 1,
           (s + i) % HistorySize = (s + j) % HistorySize
    PROVE  i = j
<1>1. HistorySize \in Nat \ {0}
  BY Sizes
<1> QED BY <1>1

LEMMA SlotsMoved ==
    ASSUME NEW s \in 0 .. HistorySize - 1, NEW i \in 0 .. HistorySize - 1
    PROVE  (((s + 1) % HistorySize) + i) % HistorySize = (s + (i + 1)) % HistorySize
<1>1. HistorySize \in Nat \ {0}
  BY Sizes
<1> QED BY <1>1

LEMMA OnceAround ==
    ASSUME NEW s \in 0 .. HistorySize - 1
    PROVE  (s + HistorySize) % HistorySize = s /\ s % HistorySize = s
<1>1. HistorySize \in Nat \ {0}
  BY Sizes
<1> QED BY <1>1

LEMMA NthIn ==
    ASSUME NEW X, NEW h \in HistoryOf(X), NEW i \in Nat
    PROVE  Nth(h, i) \in TextsOf(X)
<1>1. h.start \in 0 .. HistorySize - 1 /\ h.ring \in [0 .. HistorySize - 1 -> TextsOf(X)]
  BY DEF HistoryOf
<1> QED BY <1>1, SlotIn DEF Nth

(* history_push, but for empty and repeated lines.                         *)
Pushed(h, text) ==
    IF h.count < HistorySize THEN [h EXCEPT !.ring[NextSlot(h)] = text, !.count = @ + 1]
    ELSE [h EXCEPT !.ring[NextSlot(h)] = text, !.start = (@ + 1) % HistorySize]
Repeated(h, text) == text = <<>> \/ (h.count > 0 /\ Nth(h, h.count - 1) = text)

LEMMA PushIs ==
    ASSUME NEW h, NEW text
    PROVE  Push(h, text) = IF Repeated(h, text) THEN h ELSE Pushed(h, text)
  BY Zenon DEF Push, Repeated, Pushed

LEMMA PushedFields ==
    ASSUME NEW X, NEW h \in HistoryOf(X), NEW text \in TextsOf(X), NEW p, p = Pushed(h, text)
    PROVE  /\ p \in HistoryOf(X) /\ p.ring = [h.ring EXCEPT ![NextSlot(h)] = text]
           /\ NextSlot(h) \in 0 .. HistorySize - 1
           /\ h.count < HistorySize => p.start = h.start /\ p.count = h.count + 1
           /\ ~(h.count < HistorySize) => p.start = (h.start + 1) % HistorySize /\ p.count = h.count
<1>0. /\ h.start \in 0 .. HistorySize - 1 /\ h.ring \in [0 .. HistorySize - 1 -> TextsOf(X)]
      /\ h.count \in 0 .. HistorySize
  BY DEF HistoryOf
<1>1. NextSlot(h) \in 0 .. HistorySize - 1
  BY <1>0, SlotIn DEF NextSlot
<1> DEFINE r == [h.ring EXCEPT ![NextSlot(h)] = text]
<1>2. r \in [0 .. HistorySize - 1 -> TextsOf(X)]
  BY <1>0, <1>1
<1>3. CASE h.count < HistorySize
  <2>1. h.count + 1 \in 0 .. HistorySize
    BY <1>0, <1>3, Sizes
  <2>2. p = [h EXCEPT !.ring = r, !.count = h.count + 1]
    BY <1>3 DEF Pushed
  <2> HIDE DEF r
  <2>3. p \in HistoryOf(X) /\ p.ring = r /\ p.start = h.start /\ p.count = h.count + 1
    BY <1>0, <1>2, <2>1, <2>2, Zenon DEF HistoryOf
  <2> QED BY <1>1, <1>3, <2>3 DEF r
<1>4. CASE ~(h.count < HistorySize)
  <2>1. (h.start + 1) % HistorySize \in 0 .. HistorySize - 1
    BY <1>0, SlotIn
  <2>2. p = [h EXCEPT !.ring = r, !.start = (h.start + 1) % HistorySize]
    BY <1>4 DEF Pushed
  <2> HIDE DEF r
  <2>3. p \in HistoryOf(X) /\ p.ring = r /\ p.start = (h.start + 1) % HistorySize /\ p.count = h.count
    BY <1>0, <1>2, <2>1, <2>2, Zenon DEF HistoryOf
  <2> QED BY <1>1, <1>4, <2>3 DEF r
<1> QED BY <1>3, <1>4

(* What the ring holds after that: one line more, or without the oldest.   *)
LEMMA PushedNth ==
    ASSUME NEW X, NEW h \in HistoryOf(X), NEW text \in TextsOf(X), NEW p, p = Pushed(h, text)
    PROVE  /\ h.count < HistorySize => \A i \in 0 .. h.count : Nth(p, i) = IF i < h.count THEN Nth(h, i) ELSE text
           /\ ~(h.count < HistorySize) =>
                \A i \in 0 .. h.count - 1 : Nth(p, i) = IF i < h.count - 1 THEN Nth(h, i + 1) ELSE text
<1>0. /\ h.start \in 0 .. HistorySize - 1 /\ h.ring \in [0 .. HistorySize - 1 -> TextsOf(X)]
      /\ h.count \in 0 .. HistorySize
  BY DEF HistoryOf
<1>1. /\ p \in HistoryOf(X) /\ p.ring = [h.ring EXCEPT ![NextSlot(h)] = text]
      /\ NextSlot(h) \in 0 .. HistorySize - 1
      /\ h.count < HistorySize => p.start = h.start /\ p.count = h.count + 1
      /\ ~(h.count < HistorySize) => p.start = (h.start + 1) % HistorySize /\ p.count = h.count
  BY PushedFields
<1>2. \A x \in 0 .. HistorySize - 1 : p.ring[x] = IF x = NextSlot(h) THEN text ELSE h.ring[x]
  BY <1>0, <1>1
<1>3. ASSUME h.count < HistorySize, NEW i \in 0 .. h.count
      PROVE  Nth(p, i) = IF i < h.count THEN Nth(h, i) ELSE text
  <2>1. i \in 0 .. HistorySize - 1 /\ h.count \in 0 .. HistorySize - 1 /\ i \in Nat
    BY <1>0, <1>3, Sizes
  <2>2. (h.start + i) % HistorySize \in 0 .. HistorySize - 1
    BY <1>0, <2>1, SlotIn
  <2>3. (h.start + i) % HistorySize = NextSlot(h) => i = h.count
    BY <1>0, <2>1, SlotsApart DEF NextSlot
  <2>4. Nth(p, i) = p.ring[(h.start + i) % HistorySize]
    BY <1>1, <1>3 DEF Nth
  <2>5. Nth(p, i) = IF (h.start + i) % HistorySize = NextSlot(h) THEN text ELSE h.ring[(h.start + i) % HistorySize]
    BY <1>2, <2>2, <2>4
  <2>6. CASE i = h.count
    BY <2>5, <2>6 DEF NextSlot
  <2>7. CASE i # h.count
    <3>1. i < h.count
      BY <1>0, <2>7
    <3> QED BY <2>3, <2>5, <2>7, <3>1 DEF Nth
  <2> QED BY <2>6, <2>7, <2>1
<1>4. ASSUME ~(h.count < HistorySize), NEW i \in 0 .. h.count - 1
      PROVE  Nth(p, i) = IF i < h.count - 1 THEN Nth(h, i + 1) ELSE text
  <2>1. h.count = HistorySize /\ i \in 0 .. HistorySize - 1 /\ i + 1 \in Nat
    BY <1>0, <1>4, Sizes
  <2>2. NextSlot(h) = h.start
    BY <1>0, <2>1, OnceAround DEF NextSlot
  <2>3. Nth(p, i) = p.ring[(h.start + (i + 1)) % HistorySize]
    <3>1. Nth(p, i) = p.ring[(((h.start + 1) % HistorySize) + i) % HistorySize]
      BY <1>1, <1>4 DEF Nth
    <3> QED BY <1>0, <2>1, <3>1, SlotsMoved
  <2>4. (h.start + (i + 1)) % HistorySize \in 0 .. HistorySize - 1
    BY <1>0, <2>1, SlotIn
  <2>5. CASE i = h.count - 1
    <3>1. (h.start + (i + 1)) % HistorySize = h.start
      <4>1. i + 1 = HistorySize
        BY <2>1, <2>5, Sizes
      <4> QED BY <1>0, <4>1, OnceAround
    <3> QED BY <1>2, <2>1, <2>2, <2>3, <2>4, <2>5, <3>1, Sizes
  <2>6. CASE i # h.count - 1
    <3>1. i + 1 \in 0 .. HistorySize - 1 /\ i + 1 # 0 /\ 0 \in 0 .. HistorySize - 1 /\ i < h.count - 1
      BY <2>1, <2>6, Sizes
    <3>2. (h.start + (i + 1)) % HistorySize # (h.start + 0) % HistorySize
      BY <1>0, <3>1, SlotsApart
    <3>3. (h.start + 0) % HistorySize = h.start
      BY <1>0, OnceAround
    <3>4. p.ring[(h.start + (i + 1)) % HistorySize] = h.ring[(h.start + (i + 1)) % HistorySize]
      BY <1>2, <2>2, <2>4, <3>2, <3>3
    <3> QED BY <2>3, <3>1, <3>4 DEF Nth
  <2> QED BY <2>5, <2>6
<1> QED BY <1>3, <1>4

LEMMA ListedIs ==
    ASSUME NEW X, NEW h \in HistoryOf(X)
    PROVE  /\ Listed(h) \in Seq(TextsOf(X)) /\ Len(Listed(h)) = h.count
           /\ Listed(h) = [n \in 1 .. h.count |-> Nth(h, n - 1)]
<1>1. h.count \in Nat
  BY Sizes DEF HistoryOf
<1>2. \A n \in 1 .. h.count : Nth(h, n - 1) \in TextsOf(X)
  BY <1>1, NthIn
<1>3. [n \in 1 .. h.count |-> Nth(h, n - 1)] \in [1 .. h.count -> TextsOf(X)]
  BY <1>2
<1> DEFINE s == [n \in 1 .. h.count |-> Nth(h, n - 1)]
<1> HIDE DEF s
<1>4. s \in [1 .. h.count -> TextsOf(X)] /\ Listed(h) = s
  BY <1>3 DEF s, Listed
<1>5. s \in Seq(TextsOf(X)) /\ Len(s) = h.count
  BY <1>1, <1>4
<1> QED BY <1>4, <1>5 DEF s

LEMMA SameSeq ==
    ASSUME NEW T, NEW s \in Seq(T), NEW t \in Seq(T), Len(s) = Len(t), \A n \in 1 .. Len(s) : s[n] = t[n]
    PROVE  s = t
  BY SeqEqual

(* The lines submitted with one more, as long as the ring has them.        *)
Submitted(rec, text) ==
    IF text = <<>> \/ (rec # <<>> /\ Last(rec) = text) THEN rec ELSE LastOf(Append(rec, text), HistorySize)

LEMMA SameRepeated ==
    ASSUME NEW X, NEW h \in HistoryOf(X), NEW text
    PROVE  Repeated(h, text) <=> text = <<>> \/ (Listed(h) # <<>> /\ Last(Listed(h)) = text)
<1>1. /\ Listed(h) \in Seq(TextsOf(X)) /\ Len(Listed(h)) = h.count
      /\ Listed(h) = [n \in 1 .. h.count |-> Nth(h, n - 1)]
  BY ListedIs
<1>2. h.count \in Nat
  BY Sizes DEF HistoryOf
<1>3. Listed(h) # <<>> <=> h.count > 0
  BY <1>1, <1>2
<1>4. h.count > 0 => Last(Listed(h)) = Nth(h, h.count - 1)
  <2>1. h.count > 0 => h.count \in 1 .. h.count
    BY <1>2
  <2>2. h.count > 0 => Listed(h)[h.count] = Nth(h, h.count - 1)
    BY <1>1, <2>1
  <2> QED BY <1>1, <2>2 DEF Last
<1> QED BY <1>3, <1>4 DEF Repeated

EndsIn(q, rec, text, T) ==
    /\ Len(rec) < HistorySize =>
         q \in Seq(T) /\ Len(q) = Len(rec) + 1 /\ \A n \in 1 .. Len(rec) + 1 : q[n] = Append(rec, text)[n]
    /\ Len(rec) = HistorySize =>
         q \in Seq(T) /\ Len(q) = HistorySize /\ \A n \in 1 .. HistorySize : q[n] = Append(rec, text)[n + 1]

LEMMA LastOfIs ==
    ASSUME NEW T, NEW rec \in Seq(T), NEW text \in T, Len(rec) <= HistorySize
    PROVE  EndsIn(LastOf(Append(rec, text), HistorySize), rec, text, T)
<1> DEFINE all == Append(rec, text)
           first == Larger(1, Len(all) - HistorySize + 1)
           r == LastOf(all, HistorySize)
<1>1. all \in Seq(T) /\ Len(all) = Len(rec) + 1 /\ Len(rec) \in Nat /\ all = Append(rec, text)
  OBVIOUS
<1>2. r = SubSeq(all, first, Len(all)) /\ r = LastOf(Append(rec, text), HistorySize)
  BY DEF LastOf
<1>3. Len(rec) < HistorySize \/ Len(rec) = HistorySize
  BY <1>1, Sizes
<1> HIDE DEF all, r
<1>4. CASE Len(rec) < HistorySize
  <2>1. first = 1
    BY <1>1, <1>4, Sizes DEF Larger
  <2>2. \A j \in 1 .. Len(all) : all[j] \in T
    BY <1>1
  <2>3. r = SubSeq(all, 1, Len(all))
    BY <1>2, <2>1
  <2>4. r \in Seq(T) /\ Len(r) = Len(all) /\ \A n \in 1 .. Len(all) : r[n] = all[n]
    BY <1>1, <2>2, <2>3
  <2>5. Len(rec) # HistorySize
    BY <1>1, <1>4, Sizes
  <2>6. EndsIn(r, rec, text, T)
    BY <1>1, <2>4, <2>5 DEF EndsIn
  <2> QED BY <1>2, <2>6
<1>5. CASE Len(rec) = HistorySize
  <2>1. first = 2
    BY <1>1, <1>5, Sizes DEF Larger
  <2>2. \A j \in 2 .. Len(all) : all[j] \in T
    BY <1>1
  <2>3. r = SubSeq(all, 2, Len(all))
    BY <1>2, <2>1
  <2>4. r \in Seq(T) /\ Len(r) = Len(all) - 1 /\ \A n \in 1 .. Len(all) - 1 : r[n] = all[n + 1]
    BY <1>1, <2>2, <2>3
  <2>5. ~(Len(rec) < HistorySize) /\ Len(all) - 1 = HistorySize
    BY <1>1, <1>5, Sizes
  <2>6. EndsIn(r, rec, text, T)
    BY <1>1, <2>4, <2>5 DEF EndsIn
  <2> QED BY <1>2, <2>6
<1> QED BY <1>3, <1>4, <1>5

LEMMA PushListed ==
    ASSUME NEW X, NEW h \in HistoryOf(X), NEW text \in TextsOf(X)
    PROVE  /\ Push(h, text) \in HistoryOf(X) /\ Push(h, text).count \in Nat
           /\ h.count <= Push(h, text).count
           /\ Listed(Push(h, text)) = Submitted(Listed(h), text)
<1> DEFINE p == Pushed(h, text)
           rec == Listed(h)
           T == TextsOf(X)
<1>0. /\ rec \in Seq(T) /\ Len(rec) = h.count /\ \A n \in 1 .. h.count : rec[n] = Nth(h, n - 1)
      /\ h.count \in Nat /\ h.count <= HistorySize
  BY ListedIs, Sizes DEF HistoryOf
<1>1. CASE Repeated(h, text)
  BY <1>0, <1>1, PushIs, SameRepeated DEF Submitted
<1>1a. p = Pushed(h, text)
  OBVIOUS
<1> HIDE DEF p
<1>2. CASE ~Repeated(h, text)
  <2>1. Push(h, text) = p
    BY <1>1a, <1>2, PushIs
  <2>2. /\ p \in HistoryOf(X)
        /\ h.count < HistorySize => p.count = h.count + 1
        /\ ~(h.count < HistorySize) => p.count = h.count
    <3> HIDE DEF rec, T
    <3>1. /\ p \in HistoryOf(X) /\ p.ring = [h.ring EXCEPT ![NextSlot(h)] = text]
          /\ NextSlot(h) \in 0 .. HistorySize - 1
          /\ h.count < HistorySize => p.start = h.start /\ p.count = h.count + 1
          /\ ~(h.count < HistorySize) => p.start = (h.start + 1) % HistorySize /\ p.count = h.count
      BY <1>1a, PushedFields, SMT
    <3> QED BY <3>1
  <2>3. /\ Listed(p) \in Seq(T) /\ Len(Listed(p)) = p.count
        /\ Listed(p) = [n \in 1 .. p.count |-> Nth(p, n - 1)]
    BY <2>2, ListedIs
  <2> DEFINE r == LastOf(Append(rec, text), HistorySize)
  <2>4. Submitted(rec, text) = r
    BY <1>2, SameRepeated DEF Submitted
  <2>5. /\ h.count < HistorySize => \A i \in 0 .. h.count : Nth(p, i) = IF i < h.count THEN Nth(h, i) ELSE text
        /\ ~(h.count < HistorySize) =>
             \A i \in 0 .. h.count - 1 : Nth(p, i) = IF i < h.count - 1 THEN Nth(h, i + 1) ELSE text
    BY <1>1a, PushedNth
  <2>6. \A n \in 1 .. h.count + 1 : Append(rec, text)[n] = IF n <= h.count THEN Nth(h, n - 1) ELSE text
    <3> HIDE DEF rec, T
    <3> QED BY <1>0
  <2>7. /\ h.count < HistorySize =>
             r \in Seq(T) /\ Len(r) = h.count + 1 /\ \A n \in 1 .. h.count + 1 : r[n] = Append(rec, text)[n]
        /\ h.count = HistorySize =>
             r \in Seq(T) /\ Len(r) = HistorySize /\ \A n \in 1 .. HistorySize : r[n] = Append(rec, text)[n + 1]
    <3> HIDE DEF rec, T
    <3>1. text \in T
      BY DEF T
    <3>2. EndsIn(r, rec, text, T)
      <4>1. rec \in Seq(T) /\ Len(rec) <= HistorySize
        BY <1>0
      <4> QED BY <3>1, <4>1, LastOfIs
    <3> QED BY <1>0, <3>2 DEF EndsIn
  <2> HIDE DEF p, r, T
  <2>8. CASE h.count < HistorySize
    <3>1. \A n \in 1 .. h.count + 1 : Listed(p)[n] = r[n]
      <4> SUFFICES ASSUME NEW n \in 1 .. h.count + 1 PROVE Listed(p)[n] = r[n]
        OBVIOUS
      <4>1. n - 1 \in 0 .. h.count /\ (n - 1 < h.count <=> n <= h.count)
        BY <1>0
      <4>2. Listed(p)[n] = Nth(p, n - 1)
        BY <2>2, <2>3, <2>8
      <4>3. Nth(p, n - 1) = IF n <= h.count THEN Nth(h, n - 1) ELSE text
        BY <2>5, <2>8, <4>1
      <4> QED BY <2>6, <2>7, <2>8, <4>2, <4>3
    <3>2. Listed(p) = r
        <4>1. /\ Listed(p) \in Seq(T) /\ Len(Listed(p)) = h.count + 1 /\ r \in Seq(T) /\ Len(r) = h.count + 1
        BY <2>2, <2>3, <2>7, <2>8
      <4> QED BY <3>1, <4>1, SameSeq
    <3> QED BY <1>0, <2>1, <2>2, <2>4, <2>8, <3>2
  <2>9. CASE h.count = HistorySize
    <3>1. \A n \in 1 .. HistorySize : Listed(p)[n] = r[n]
      <4> SUFFICES ASSUME NEW n \in 1 .. HistorySize PROVE Listed(p)[n] = r[n]
        OBVIOUS
      <4>1. n - 1 \in 0 .. h.count - 1 /\ (n - 1 < h.count - 1 <=> n + 1 <= h.count) /\ n + 1 \in 1 .. h.count + 1
            /\ (n - 1) + 1 = n /\ (n + 1) - 1 = n
        BY <1>0, <2>9, Sizes
      <4>2. Listed(p)[n] = Nth(p, n - 1)
        BY <2>2, <2>3, <2>9, Sizes
      <4>3. Nth(p, n - 1) = IF n + 1 <= h.count THEN Nth(h, n) ELSE text
        BY <2>5, <2>9, <4>1, Sizes
      <4>4. Append(rec, text)[n + 1] = IF n + 1 <= h.count THEN Nth(h, n) ELSE text
        BY <2>6, <4>1
      <4>5. r[n] = Append(rec, text)[n + 1]
        BY <2>7, <2>9
      <4> QED BY <4>2, <4>3, <4>4, <4>5
    <3>2. p.count = HistorySize
      BY <2>2, <2>9, Sizes
    <3>3. Listed(p) = r
      BY <2>3, <2>7, <2>9, <3>1, <3>2
    <3> QED BY <1>0, <2>1, <2>2, <2>4, <2>9, <3>2, <3>3
  <2> QED BY <1>0, <2>8, <2>9, Sizes
<1> QED BY <1>1, <1>2

-----------------------------------------------------------------------------
(* Recall: what `!N' and `!!' run.                                         *)

LEMMA ExpandIn ==
    ASSUME NEW X, IsAlphabet(X), NEW h \in HistoryOf(X), NEW text \in TextsOf(X)
    PROVE  Expand(text, h) \in TextsOf(X)
<1>0. /\ h.count \in Nat /\ text \in Seq(X) /\ text \in Seq(AnyByte) /\ <<>> \in TextsOf(X) /\ Blank \in X
      /\ Len(text) \in Nat
  <2>1. h.count \in Nat /\ <<>> \in TextsOf(X)
    BY Sizes DEF HistoryOf, TextsOf
  <2>2. text \in Seq(X) /\ X \subseteq AnyByte
    BY DEF IsAlphabet, TextsOf
  <2>3. text \in Seq(AnyByte)
    BY <2>2, WiderSeq
  <2>4. Blank \in X
    BY LineAssumption DEF IsAlphabet, Glyphs
  <2> QED BY <2>1, <2>2, <2>3, <2>4
<1> DEFINE old == LastBefore(h)
           more == SubSeq(text, 4, Len(text))
<1>1. ASSUME h.count >= 2 PROVE old \in TextsOf(X)
  <2>1. h.count - 2 \in Nat
    BY <1>0, <1>1
  <2> QED BY <2>1, NthIn DEF LastBefore
<1>2. more \in Seq(X)
  BY <1>0
<1>3. ASSUME IsNth(text) PROVE Nth(h, Number(text) - 1) \in TextsOf(X)
  <2>1. Number(text) - 1 \in Nat
    <3>1. Number(text) \in Nat \ {0}
      BY <1>0, <1>3, NumberPositive
    <3> HIDE DEF Number
    <3> QED BY <3>1
  <2> QED BY <2>1, NthIn
<1> HIDE DEF old, more
<1>4. ASSUME h.count >= 2
      PROVE  (IF more # <<>> /\ Len(old) + 1 + Len(more) < Size THEN old \o <<Blank>> \o more ELSE old) \in TextsOf(X)
  <2>1. old \in Seq(X) /\ Len(old) \in Nat /\ Len(more) \in Nat /\ <<Blank>> \in Seq(X) /\ Len(<<Blank>>) = 1
    BY <1>0, <1>1, <1>2, <1>4 DEF TextsOf
  <2>2. old \o <<Blank>> \in Seq(X) /\ Len(old \o <<Blank>>) = Len(old) + 1
    BY <2>1, ConcatIs
  <2>3. (old \o <<Blank>>) \o more \in Seq(X) /\ Len((old \o <<Blank>>) \o more) = Len(old) + 1 + Len(more)
    BY <1>2, <2>2, ConcatIs
  <2> QED BY <1>1, <1>4, <2>3 DEF TextsOf
<1>5. CASE IsLast(text) /\ h.count >= 2
  <2>1. Expand(text, h) = IF more # <<>> /\ Len(old) + 1 + Len(more) < Size THEN old \o <<Blank>> \o more ELSE old
    <3>1. ~IsNth(text) /\ ~(h.count < 2)
      BY <1>0, <1>5 DEF IsNth
    <3> QED BY <1>5, <3>1 DEF Expand, old, more
  <2> QED BY <1>4, <1>5, <2>1
<1>6. CASE IsNth(text) /\ Number(text) <= h.count - 1
  <2>1. ~IsLast(text) /\ Number(text) \in Nat
    <3>1. Number(text) \in Nat \ {0}
      BY <1>0, <1>6, NumberPositive
    <3> HIDE DEF Number
    <3> QED BY <1>6, <3>1 DEF IsNth
  <2>2. Expand(text, h) = Nth(h, Number(text) - 1)
    BY <1>0, <1>6, <2>1 DEF Expand
  <2> QED BY <1>3, <1>6, <2>2
<1>7. CASE ~(IsLast(text) /\ h.count >= 2) /\ ~(IsNth(text) /\ Number(text) <= h.count - 1)
  <2>1. Expand(text, h) \in {<<>>, text}
    BY <1>7 DEF Expand
  <2> QED BY <1>0, <2>1
<1> QED BY <1>5, <1>6, <1>7

(* While the ring has room, the line pushed first moves no number.         *)
LEMMA RecallSame ==
    ASSUME NEW X, IsAlphabet(X), NEW h \in HistoryOf(X), NEW text \in TextsOf(X), h.count # HistorySize
    PROVE  Due(text, h) = Expand(text, Push(h, text))
<1> DEFINE p == Push(h, text)
<1>0. h.count \in Nat /\ h.count < HistorySize /\ text \in Seq(AnyByte)
  <2>1. h.count \in 0 .. HistorySize
    BY DEF HistoryOf
  <2>2. text \in Seq(X) /\ X \subseteq AnyByte
    BY DEF IsAlphabet, TextsOf
  <2> QED BY <2>1, <2>2, Sizes, WiderSeq
<1>1. ASSUME text # <<>>, h.count > 0 => Nth(h, h.count - 1) # text
      PROVE  p.count = h.count + 1 /\ \A i \in 0 .. h.count - 1 : Nth(p, i) = Nth(h, i)
  <2>1. ~Repeated(h, text)
    BY <1>1 DEF Repeated
  <2>2. p = Pushed(h, text)
    BY <2>1, PushIs
  <2> HIDE DEF p
  <2>3. p.count = h.count + 1
    <3>1. /\ p \in HistoryOf(X) /\ p.ring = [h.ring EXCEPT ![NextSlot(h)] = text]
          /\ NextSlot(h) \in 0 .. HistorySize - 1
          /\ h.count < HistorySize => p.start = h.start /\ p.count = h.count + 1
          /\ ~(h.count < HistorySize) => p.start = (h.start + 1) % HistorySize /\ p.count = h.count
      BY <2>2, PushedFields
    <3> QED BY <1>0, <3>1
  <2>4. \A i \in 0 .. h.count : Nth(p, i) = IF i < h.count THEN Nth(h, i) ELSE text
    BY <1>0, <2>2, PushedNth
  <2> QED BY <1>0, <2>3, <2>4
<1> HIDE DEF p
<1>2. CASE IsNth(text) /\ Number(text) <= h.count /\ Nth(h, h.count - 1) # text
  <2>1. Number(text) \in Nat \ {0} /\ text # <<>> /\ ~IsLast(text)
    BY <1>0, <1>2, NumberPositive DEF IsNth
  <2>2. p.count = h.count + 1 /\ \A i \in 0 .. h.count - 1 : Nth(p, i) = Nth(h, i)
    BY <1>1, <1>2, <2>1
  <2>3. Expand(text, p) = Nth(p, Number(text) - 1)
    BY <1>0, <1>2, <2>1, <2>2 DEF Expand
  <2>4. Due(text, h) = Nth(h, Number(text) - 1)
    BY <1>2, <2>1 DEF Due, IsLast
  <2>5. Number(text) - 1 \in 0 .. h.count - 1
    BY <1>0, <1>2, <2>1
  <2> QED BY <2>2, <2>3, <2>4, <2>5 DEF p
<1>3. CASE text = <<"!", "!">> /\ h.count > 0 /\ Nth(h, h.count - 1) # text
  <2>1. IsLast(text) /\ text # <<>> /\ ~IsNth(text) /\ SubSeq(text, 4, Len(text)) = <<>>
    BY <1>3 DEF IsLast, IsNth
  <2>2. p.count = h.count + 1 /\ \A i \in 0 .. h.count - 1 : Nth(p, i) = Nth(h, i)
    BY <1>1, <1>3, <2>1
  <2>3. Expand(text, p) = Nth(p, p.count - 2)
    BY <1>0, <1>3, <2>1, <2>2 DEF Expand, LastBefore
  <2>4. Due(text, h) = Nth(h, h.count - 1)
    BY <1>3, <2>1 DEF Due
  <2>5. h.count - 1 \in 0 .. h.count - 1 /\ p.count - 2 = h.count - 1
    BY <1>0, <1>3, <2>2
  <2> QED BY <2>2, <2>3, <2>4, <2>5 DEF p
<1>4. CASE ~(IsNth(text) /\ Number(text) <= h.count /\ Nth(h, h.count - 1) # text)
           /\ ~(text = <<"!", "!">> /\ h.count > 0 /\ Nth(h, h.count - 1) # text)
  BY <1>4, Zenon DEF Due, p
<1> QED BY <1>2, <1>3, <1>4

LEMMA FoundIn ==
    ASSUME NEW h, NEW term, NEW from \in Int, from >= -1
    PROVE  FindBack(h, term, from) \in -1 .. from
<1> DEFINE at == {i \in 0 .. from : HasTerm(Nth(h, i), term)}
<1>1. CASE term = <<>> \/ h.count = 0 \/ at = {}
  BY <1>1 DEF FindBack
<1>2. CASE ~(term = <<>> \/ h.count = 0 \/ at = {})
  <2>1. FindBack(h, term, from) = CHOOSE i \in at : \A j \in at : j <= i
    BY <1>2 DEF FindBack
  <2>2. from \in Nat /\ at \subseteq 0 .. from
    BY <1>2
  <2> HIDE DEF at
  <2>3. \E k \in at : \A j \in at : j <= k
    BY <1>2, <2>2, GreatestExists
  <2>4. FindBack(h, term, from) \in 0 .. from
    BY <2>1, <2>2, <2>3
  <2> HIDE DEF FindBack
  <2> QED BY <2>2, <2>4
<1> QED BY <1>1, <1>2

-----------------------------------------------------------------------------
(* The inductive invariant.                                                *)

(* What a line may consist of: bytes from behind its end only once a       *)
(* selection may have reached there.                                       *)
Alphabet == IF strayed THEN AnyByte ELSE Glyphs
Browsing(X, n) == [pos : -1 .. n - 1, draft : TextsOf(X)]
Searches(n) == [on : BOOLEAN, term : Seq(Chars), match : -1 .. n - 1]

(* Whoever reads keys has a line whose cursor is in it, shown in the row   *)
(* unless the row is smeared; a search smears it and ends with the line.   *)
LineInv ==
    /\ mode \in {"prompt", "program", "run"} /\ strayed \in BOOLEAN /\ smeared \in BOOLEAN
    /\ line \in LineRecord(Alphabet) /\ clip \in Seq(Alphabet)
    /\ mode # "run" => IsLine(line, Alphabet)
    /\ mode # "run" /\ ~smeared => Shown(line)
    /\ search.on => mode # "run" /\ smeared

(* The ring lists what was submitted; browsing and searching point to it.  *)
HistInv ==
    /\ hist \in HistoryOf(Alphabet) /\ Listed(hist) = recent
    /\ browse \in Browsing(Alphabet, hist.count) /\ search \in Searches(hist.count)
    /\ ~recalled.full => recalled.ran = recalled.due

PromptInv == LineInv /\ HistInv

LEMMA AlphabetIs == IsAlphabet(Glyphs) /\ IsAlphabet(AnyByte) /\ IsAlphabet(Alphabet) /\ Blank \in Alphabet
  BY LineAssumption DEF IsAlphabet, Alphabet, AnyByte, Glyphs

LEMMA NoJunk == Junk \notin Glyphs
  BY LineAssumption DEF Glyphs, Junk

LEMMA Wider ==
    ASSUME NEW X, NEW Y, X \subseteq Y
    PROVE  Seq(X) \subseteq Seq(Y) /\ TextsOf(X) \subseteq TextsOf(Y) /\ HistoryOf(X) \subseteq HistoryOf(Y)
<1>1. Seq(X) \subseteq Seq(Y)
  BY WiderSeq
<1>2. TextsOf(X) \subseteq TextsOf(Y)
  BY <1>1 DEF TextsOf
<1>3. HistoryOf(X) \subseteq HistoryOf(Y)
  BY <1>2 DEF HistoryOf
<1> QED BY <1>1, <1>2, <1>3

LEMMA InitInv == Init => PromptInv
<1> SUFFICES ASSUME Init PROVE PromptInv
  OBVIOUS
<1>1. Alphabet = Glyphs /\ mode = "prompt" /\ line = Fresh
  BY DEF Init, Alphabet
<1>2. IsLine(line, Alphabet) /\ Shown(line) /\ line \in LineRecord(Alphabet)
  BY <1>1, FreshIs DEF IsLine
<1>3. LineInv
  <2>1. clip \in Seq(Alphabet) /\ ~search.on
    BY DEF Init
  <2>2. strayed \in BOOLEAN /\ smeared \in BOOLEAN
    BY Zenon DEF Init
  <2> QED BY <1>1, <1>2, <2>1, <2>2, Zenon DEF LineInv
<1>4. /\ recent \in Seq(Seq(Glyphs)) /\ Len(recent) <= HistorySize /\ Len(recent) \in Nat
      /\ \A n \in 1 .. Len(recent) : Len(recent[n]) < Size /\ recent[n] \in Seq(Glyphs)
  <2>1. recent \in Past
    BY DEF Init
  <2>2. recent \in Seq(Seq(Glyphs)) /\ Len(recent) <= HistorySize /\ \A n \in 1 .. Len(recent) : Len(recent[n]) < Size
    BY <2>1, LineAssumption
  <2> QED BY <2>2
<1> DEFINE ring == [i \in 0 .. HistorySize - 1 |-> IF i < Len(recent) THEN recent[i + 1] ELSE <<>>]
<1>5. /\ \A n \in 1 .. Len(recent) : recent[n] \in TextsOf(Glyphs)
      /\ <<>> \in TextsOf(Glyphs)
  BY <1>4, Sizes DEF TextsOf
<1>6. ring \in [0 .. HistorySize - 1 -> TextsOf(Glyphs)]
  <2> SUFFICES ASSUME NEW i \in 0 .. HistorySize - 1 PROVE ring[i] \in TextsOf(Glyphs)
    OBVIOUS
  <2>1. i < Len(recent) => i + 1 \in 1 .. Len(recent)
    BY <1>4
  <2> QED BY <1>5, <2>1
<1>7. hist = [ring |-> ring, start |-> 0, count |-> Len(recent)]
  BY DEF Init
<1>8. hist \in HistoryOf(Glyphs) /\ hist.count = Len(recent)
  BY <1>4, <1>6, <1>7, Sizes DEF HistoryOf
<1>9. \A n \in 1 .. Len(recent) : Nth(hist, n - 1) = recent[n]
  <2> SUFFICES ASSUME NEW n \in 1 .. Len(recent) PROVE Nth(hist, n - 1) = recent[n]
    OBVIOUS
  <2>1. n - 1 \in 0 .. HistorySize - 1 /\ n - 1 < Len(recent) /\ (n - 1) + 1 = n
    BY <1>4, Sizes
  <2>2. (0 + (n - 1)) % HistorySize = n - 1
    BY <2>1, OnceAround
  <2>3. Nth(hist, n - 1) = ring[n - 1]
    BY <1>7, <2>2 DEF Nth
  <2> QED BY <2>1, <2>3
<1>10. Listed(hist) = recent
  <2> HIDE DEF ring
  <2>1. /\ Listed(hist) \in Seq(TextsOf(Glyphs)) /\ Len(Listed(hist)) = Len(recent)
        /\ Listed(hist) = [n \in 1 .. Len(recent) |-> Nth(hist, n - 1)]
    BY <1>8, ListedIs
  <2>2. Listed(hist) \in Seq(Seq(Glyphs))
    BY <2>1, TextsOf(Glyphs) \subseteq Seq(Glyphs), WiderSeq DEF TextsOf
  <2>3. \A n \in 1 .. Len(Listed(hist)) : Listed(hist)[n] = recent[n]
    BY <1>9, <2>1
  <2> QED BY <1>4, <2>1, <2>2, <2>3, SameSeq
<1>11. browse \in Browsing(Glyphs, hist.count) /\ search \in Searches(hist.count)
  BY <1>4, <1>5, <1>8 DEF Init, NotBrowsing, Browsing, Searches
<1>12. recalled.ran = recalled.due
  BY DEF Init, Nothing
<1>13. HistInv
  <2> HIDE DEF ring
  <2> QED BY <1>1, <1>8, <1>10, <1>11, <1>12 DEF HistInv
<1> QED BY <1>3, <1>13 DEF PromptInv

(* A key that leaves the history alone keeps the invariant if the line it  *)
(* leaves is one, and shown unless the row is smeared now.                 *)
LEMMA KeyKeeps ==
    ASSUME PromptInv, mode # "run", mode' = mode, hist' = hist, recent' = recent, recalled' = recalled,
           strayed' \in BOOLEAN, strayed => strayed', IsLine(line', Alphabet'), smeared' \in BOOLEAN,
           ~smeared' => Shown(line'), clip' \in Seq(Alphabet'), browse' \in Browsing(Alphabet', hist.count),
           search' \in Searches(hist.count), search'.on => smeared'
    PROVE  PromptInv'
<1>1. Alphabet \subseteq Alphabet'
  BY AlphabetIs DEF Alphabet, AnyByte, PromptInv, LineInv
<1>2. hist \in HistoryOf(Alphabet')
  BY <1>1, Wider DEF PromptInv, HistInv
<1>3. LineInv'
  BY DEF PromptInv, LineInv, IsLine
<1>4. HistInv'
  BY <1>2 DEF PromptInv, HistInv
<1> QED BY <1>3, <1>4 DEF PromptInv

(* A key of the line editor, where the row shows the line if it did.       *)
LEMMA EditKeeps ==
    ASSUME PromptInv, Editing, Keeps(line, line', Alphabet), clip' \in Seq(Alphabet),
           browse' \in Browsing(Alphabet, hist.count),
           UNCHANGED <<hist, search, mode, recent, recalled, smeared, strayed>>
    PROVE  PromptInv'
<1>1. mode # "run" /\ Alphabet' = Alphabet
  BY DEF Editing, Reading, Alphabet
<1>2. IsLine(line', Alphabet') /\ (~smeared' => Shown(line'))
  BY <1>1 DEF Keeps, PromptInv, LineInv
<1>3. /\ strayed' \in BOOLEAN /\ (strayed => strayed') /\ smeared' \in BOOLEAN
      /\ search' \in Searches(hist.count) /\ (search'.on => smeared')
  BY DEF PromptInv, LineInv, HistInv
<1> QED BY <1>1, <1>2, <1>3, KeyKeeps

(* What an action may take for granted.                                    *)
LEMMA AtTheLine ==
    ASSUME PromptInv, Reading
    PROVE  /\ IsAlphabet(Alphabet) /\ IsLine(line, Alphabet) /\ clip \in Seq(Alphabet)
           /\ hist \in HistoryOf(Alphabet) /\ hist.count \in Nat /\ mode # "run"
           /\ browse \in Browsing(Alphabet, hist.count) /\ search \in Searches(hist.count)
<1>1. mode # "run" /\ IsLine(line, Alphabet) /\ clip \in Seq(Alphabet)
  BY DEF PromptInv, LineInv, Reading
<1>2. hist \in HistoryOf(Alphabet) /\ browse \in Browsing(Alphabet, hist.count) /\ search \in Searches(hist.count)
  BY DEF PromptInv, HistInv
<1>3. hist.count \in Nat
  BY <1>2, Sizes DEF HistoryOf
<1> QED BY <1>1, <1>2, <1>3, AlphabetIs

-----------------------------------------------------------------------------
(* Typing, deleting and moving.                                            *)

LEMMA TypingKeeps ==
    ASSUME PromptInv, \/ \E c \in Chars : Type(c)
                      \/ KeypadSlash \/ Paste
    PROVE  PromptInv'
<1>1. PICK text \in Seq(Alphabet) :
          /\ Editing /\ line' = InsertText(line, text)
          /\ UNCHANGED <<hist, browse, search, clip, mode, recent, recalled, smeared, strayed>>
  <2>1. CASE \E c \in Chars : Type(c)
    <3>1. PICK c \in Chars : Type(c)
      BY <2>1
    <3>2. <<c>> \in Seq(Alphabet)
      BY AlphabetIs DEF IsAlphabet, Glyphs
    <3> QED BY <3>1, <3>2 DEF Type, Edit
  <2>2. CASE KeypadSlash
    <3>1. <<"/">> \in Seq(Alphabet)
      BY AlphabetIs DEF IsAlphabet, Glyphs
    <3> QED BY <2>2, <3>1 DEF KeypadSlash, Edit
  <2>3. CASE Paste
    BY <2>3 DEF Paste, Edit, PromptInv, LineInv
  <2> QED BY <2>1, <2>2, <2>3
<1>2. Reading
  BY <1>1 DEF Editing
<1>3. Keeps(line, line', Alphabet)
  BY <1>1, <1>2, AtTheLine, InsertKeeps
<1>4. clip' \in Seq(Alphabet) /\ browse' \in Browsing(Alphabet, hist.count)
  BY <1>1, <1>2, AtTheLine
<1> QED BY <1>1, <1>3, <1>4, EditKeeps

LEMMA BackspaceStep ==
    ASSUME PromptInv, Backspace
    PROVE  PromptInv'
<1>1. Editing /\ UNCHANGED <<hist, browse, search, clip, mode, recent, recalled, smeared, strayed>>
  BY DEF Backspace, JustLine
<1>2. Reading
  BY <1>1 DEF Editing
<1>3. Keeps(line, line', Alphabet)
  <2>1. CASE HasSelection(line)
    <3>1. line' = DeleteSelection(line)
      BY <2>1 DEF Backspace, Edit
    <3> QED BY <1>2, <3>1, AtTheLine, DeleteSelectionKeeps
  <2>2. CASE ~HasSelection(line)
    <3>1. line.cur > 0 /\ line' = Backspaced(line)
      BY <2>2 DEF Backspace, Edit, Backspaced, Shortened, Rewritten
    <3> QED BY <1>2, <3>1, AtTheLine, BackspaceKeeps
  <2> QED BY <2>1, <2>2
<1>4. clip' \in Seq(Alphabet) /\ browse' \in Browsing(Alphabet, hist.count)
  BY <1>1, <1>2, AtTheLine
<1> QED BY <1>1, <1>3, <1>4, EditKeeps

(* Part of the line goes: Delete, the three keys that kill, and Ctrl+X.    *)
LEMMA DeletingKeeps ==
    ASSUME PromptInv, Delete \/ KillBefore \/ KillAfter \/ KillWord \/ Cut
    PROVE  PromptInv'
<1>1. Editing /\ UNCHANGED <<hist, browse, search, mode, recent, recalled, smeared, strayed>>
  BY DEF Delete, KillBefore, KillAfter, KillWord, Cut, JustLine
<1>2. Reading
  BY <1>1 DEF Editing
<1>3. /\ IsAlphabet(Alphabet) /\ IsLine(line, Alphabet) /\ clip \in Seq(Alphabet)
      /\ browse \in Browsing(Alphabet, hist.count)
  BY <1>2, AtTheLine
<1>4. line.cur \in Nat /\ line.cur + 1 \in Nat /\ Len(line.buf) \in Nat /\ 0 \in Nat
  BY <1>3, Fields DEF IsLine
<1>5. CASE Delete
  <2>1. clip' = clip
    BY <1>5 DEF Delete, JustLine
  <2>2. CASE HasSelection(line)
    <3>1. line' = DeleteSelection(line)
      BY <1>5, <2>2 DEF Delete, Edit
    <3>2. Keeps(line, line', Alphabet)
      BY <1>3, <3>1, DeleteSelectionKeeps
    <3> QED BY <1>1, <1>3, <2>1, <3>2, EditKeeps
  <2>3. CASE ~HasSelection(line)
    <3>1. line' = DeleteRange(line, line.cur, line.cur + 1)
      BY <1>5, <2>3 DEF Delete, Edit
    <3>2. Keeps(line, line', Alphabet)
      BY <1>3, <1>4, <3>1, DeleteKeeps
    <3> QED BY <1>1, <1>3, <2>1, <3>2, EditKeeps
  <2> QED BY <2>2, <2>3
<1>6. CASE KillBefore
  <2>1. clip' = clip /\ line' = DeleteRange(line, 0, line.cur)
    BY <1>6 DEF KillBefore, JustLine, Edit
  <2>2. Keeps(line, line', Alphabet)
    BY <1>3, <1>4, <2>1, DeleteKeeps
  <2> QED BY <1>1, <1>3, <2>1, <2>2, EditKeeps
<1>7. CASE KillAfter
  <2>1. clip' = clip /\ line' = DeleteRange(line, line.cur, Len(line.buf))
    BY <1>7 DEF KillAfter, JustLine, Edit
  <2>2. Keeps(line, line', Alphabet)
    BY <1>3, <1>4, <2>1, DeleteKeeps
  <2> QED BY <1>1, <1>3, <2>1, <2>2, EditKeeps
<1>8. CASE KillWord
  <2> DEFINE start == Back(line.buf, Back(line.buf, line.cur, IsBlank), NoBlank)
  <2>1. clip' = clip /\ line' = DeleteRange(line, start, line.cur)
    BY <1>8 DEF KillWord, JustLine, Edit
  <2>2. start \in Nat
    BY <1>3, WordStart
  <2> HIDE DEF start
  <2>3. Keeps(line, line', Alphabet)
    BY <1>3, <1>4, <2>1, <2>2, DeleteKeeps
  <2> QED BY <1>1, <1>3, <2>1, <2>3, EditKeeps
<1>9. CASE Cut
  <2>1. /\ HasSelection(line) /\ clip' = Bytes(line, From(line), To(line))
        /\ line' = DeleteRange(line, From(line), To(line))
    BY <1>9 DEF Cut, Edit
  <2>2. clip' \in Seq(Alphabet)
    BY <1>3, <2>1, BytesIn
  <2>3. From(line) \in Nat /\ To(line) \in Nat
    BY <1>3, EndsOf
  <2>4. Keeps(line, line', Alphabet)
    BY <1>3, <2>1, <2>3, DeleteKeeps
  <2>5. browse' = browse
    BY <1>9 DEF Cut
  <2> QED BY <1>1, <1>3, <2>2, <2>4, <2>5, EditKeeps
<1> QED BY <1>5, <1>6, <1>7, <1>8, <1>9

LEMMA MovingKeeps ==
    ASSUME PromptInv,
           \/ \E shift, ctrl \in BOOLEAN : Left(shift, ctrl) \/ Right(shift, ctrl)
           \/ \E shift \in BOOLEAN : Home(shift) \/ End(shift)
           \/ SelectAll
    PROVE  PromptInv'
<1>1. Editing /\ UNCHANGED <<hist, browse, search, clip, mode, recent, recalled, smeared, strayed>>
  BY DEF Left, Right, Home, End, SelectAll, JustLine
<1>2. Reading
  BY <1>1 DEF Editing
<1>3. /\ IsAlphabet(Alphabet) /\ IsLine(line, Alphabet) /\ clip \in Seq(Alphabet)
      /\ browse \in Browsing(Alphabet, hist.count)
  BY <1>2, AtTheLine
<1>4. line.cur \in Nat /\ Len(line.buf) \in Nat /\ line.cur <= Len(line.buf)
  BY <1>3, Fields DEF IsLine
<1>5. WordLeft(line) \in 0 .. Len(line.buf) /\ WordRight(line) \in 0 .. Len(line.buf)
  BY <1>3, WordsWithin
<1>6. CASE SelectAll
  <2>1. line' = Redraw(AllSelected(line))
    BY <1>6 DEF SelectAll, Edit, AllSelected
  <2>2. Keeps(line, line', Alphabet)
    BY <1>3, <2>1, SelectAllKeeps
  <2> QED BY <1>1, <1>3, <2>2, EditKeeps
<1>7. CASE ~SelectAll
  <2>1. PICK shift \in BOOLEAN, to \in 0 .. Len(line.buf) : line' = MoveTo(line, to, shift)
    <3>1. CASE \E shift, ctrl \in BOOLEAN : Left(shift, ctrl)
      <4>1. PICK shift \in BOOLEAN, ctrl \in BOOLEAN : Left(shift, ctrl)
        BY <3>1
      <4>2. line.cur - 1 \in 0 .. Len(line.buf)
        BY <1>4, <4>1 DEF Left
      <4> QED BY <1>5, <4>1, <4>2 DEF Left, Edit
    <3>2. CASE \E shift, ctrl \in BOOLEAN : Right(shift, ctrl)
      <4>1. PICK shift \in BOOLEAN, ctrl \in BOOLEAN : Right(shift, ctrl)
        BY <3>2
      <4>2. line.cur + 1 \in 0 .. Len(line.buf)
        BY <1>4, <4>1 DEF Right
      <4> QED BY <1>5, <4>1, <4>2 DEF Right, Edit
    <3>3. CASE \E shift \in BOOLEAN : Home(shift) \/ End(shift)
      <4>1. 0 \in 0 .. Len(line.buf) /\ Len(line.buf) \in 0 .. Len(line.buf)
        BY <1>4
      <4> QED BY <3>3, <4>1 DEF Home, End, Edit
    <3> QED BY <1>7, <3>1, <3>2, <3>3
  <2>2. Keeps(line, line', Alphabet)
    BY <1>3, <2>1, MoveKeeps
  <2> QED BY <1>1, <1>3, <2>2, EditKeeps
<1> QED BY <1>6, <1>7

-----------------------------------------------------------------------------
(* The history, completion, and what clears the row.                       *)

LEMMA DraftIs ==
    ASSUME NEW X, NEW n \in Nat, NEW b \in Browsing(X, n)
    PROVE  b.pos \in -1 .. n - 1 /\ b.draft \in TextsOf(X)
  BY DEF Browsing

LEMMA BrowsingKeeps ==
    ASSUME PromptInv, Up \/ Down
    PROVE  PromptInv'
<1>1. Editing /\ UNCHANGED <<hist, search, clip, mode, recent, recalled, smeared, strayed>>
  BY DEF Up, Down
<1>2. Reading
  BY <1>1 DEF Editing
<1>3. /\ IsAlphabet(Alphabet) /\ IsLine(line, Alphabet) /\ clip \in Seq(Alphabet)
      /\ browse \in Browsing(Alphabet, hist.count) /\ hist \in HistoryOf(Alphabet) /\ hist.count \in Nat
  BY <1>2, AtTheLine
<1>4. browse.pos \in -1 .. hist.count - 1 /\ browse.draft \in TextsOf(Alphabet) /\ line.buf \in TextsOf(Alphabet)
  BY <1>3, DraftIs, Fields DEF IsLine
<1>5. PICK text \in TextsOf(Alphabet) : line' = Replace(line, text) /\ browse' \in Browsing(Alphabet, hist.count)
  <2>1. CASE Up
    <3> DEFINE pos == IF browse.pos = -1 THEN hist.count - 1 ELSE browse.pos - 1
    <3>1. pos \in 0 .. hist.count - 1 /\ pos \in Nat
      BY <1>3, <1>4, <2>1 DEF Up
    <3>2. Nth(hist, pos) \in TextsOf(Alphabet)
      BY <1>3, <3>1, NthIn
    <3>3. /\ browse' = [pos |-> pos, draft |-> IF browse.pos = -1 THEN line.buf ELSE browse.draft]
          /\ line' = Replace(line, Nth(hist, pos))
      BY <2>1 DEF Up, Edit
    <3> HIDE DEF pos
    <3>4. browse' \in Browsing(Alphabet, hist.count)
      BY <1>3, <1>4, <3>1, <3>3 DEF Browsing
    <3> QED BY <3>2, <3>3, <3>4
  <2>2. CASE Down /\ browse.pos < hist.count - 1
    <3>1. browse.pos + 1 \in 0 .. hist.count - 1 /\ browse.pos + 1 \in Nat
      BY <1>3, <1>4, <2>2
    <3>2. Nth(hist, browse.pos + 1) \in TextsOf(Alphabet)
      BY <1>3, <3>1, NthIn
    <3>3. browse' = [browse EXCEPT !.pos = @ + 1] /\ line' = Replace(line, Nth(hist, browse.pos + 1))
      BY <2>2 DEF Down, Edit
    <3>4. browse' \in Browsing(Alphabet, hist.count)
      BY <1>3, <3>1, <3>3 DEF Browsing
    <3> QED BY <3>2, <3>3, <3>4
  <2>3. CASE Down /\ ~(browse.pos < hist.count - 1)
    <3>1. browse' = NotBrowsing /\ line' = Replace(line, browse.draft)
      BY <2>3 DEF Down, Edit
    <3>2. NotBrowsing \in Browsing(Alphabet, hist.count)
      BY <1>3, Sizes DEF NotBrowsing, Browsing, TextsOf
    <3> QED BY <1>4, <3>1, <3>2
  <2> QED BY <2>1, <2>2, <2>3
<1>6. Keeps(line, line', Alphabet)
  BY <1>3, <1>5, ReplaceKeeps
<1> QED BY <1>1, <1>3, <1>5, <1>6, EditKeeps

LEMMA TabKeeps ==
    ASSUME PromptInv, Tab
    PROVE  PromptInv'
<1>1. /\ Editing /\ UNCHANGED <<hist, browse, search, clip, mode, recent, recalled, strayed>>
      /\ line' = Complete(line) /\ smeared' = (smeared \/ Complete(line) # line)
  BY DEF Tab, Edit
<1>2. Reading /\ ~search.on
  BY <1>1 DEF Editing
<1>3. /\ IsAlphabet(Alphabet) /\ IsLine(line, Alphabet) /\ clip \in Seq(Alphabet) /\ mode # "run"
      /\ browse \in Browsing(Alphabet, hist.count) /\ search \in Searches(hist.count)
  BY <1>2, AtTheLine
<1>4. IsLine(line', Alphabet') /\ Alphabet' = Alphabet /\ strayed \in BOOLEAN
  BY <1>1, <1>3, CompleteIs DEF Alphabet, PromptInv, LineInv
<1>5. smeared' \in BOOLEAN /\ (~smeared' => Shown(line'))
  BY <1>1, <1>3 DEF PromptInv, LineInv
<1> QED BY <1>1, <1>2, <1>3, <1>4, <1>5, KeyKeeps

LEMMA ClearScreenKeeps ==
    ASSUME PromptInv, ClearScreen
    PROVE  PromptInv'
<1>1. /\ Editing /\ UNCHANGED <<hist, browse, search, clip, mode, recent, recalled, strayed>>
      /\ line' = WriteOut(Fresh, line.buf) /\ smeared' = (line.buf # <<>>)
  BY DEF ClearScreen, Edit
<1>2. Reading /\ ~search.on
  BY <1>1 DEF Editing
<1>3. /\ IsAlphabet(Alphabet) /\ IsLine(line, Alphabet) /\ clip \in Seq(Alphabet) /\ mode # "run"
      /\ browse \in Browsing(Alphabet, hist.count) /\ search \in Searches(hist.count)
  BY <1>2, AtTheLine
<1>4. IsLine(line', Alphabet') /\ Alphabet' = Alphabet /\ strayed \in BOOLEAN
  <2>1. line.buf \in TextsOf(Alphabet)
    BY <1>3, Fields DEF IsLine
  <2>2. IsLine(WriteOut(Fresh, line.buf), Alphabet)
    BY <1>3, <2>1, FreshIs, WriteOutIs
  <2> QED BY <1>1, <2>2 DEF Alphabet, PromptInv, LineInv
<1>5. smeared' \in BOOLEAN
  BY <1>1
<1>6. ASSUME ~smeared' PROVE Shown(line')
  <2>1. line.buf = <<>>
    BY <1>1, <1>6
  <2>2. line' = WriteOut(Fresh, <<>>)
    BY <1>1, <2>1
  <2>3. WriteOut(Fresh, <<>>) = Fresh
    <3>1. Fresh.row = [i \in Cells |-> Blank]
      BY DEF Fresh, Empty
    <3> DEFINE row == [i \in Cells |-> IF i < 0 THEN <<>>[i + 1] ELSE Fresh.row[i]]
    <3>2. row = Fresh.row
      BY <3>1, CellsAre
    <3>3. WriteOut(Fresh, <<>>) = [Fresh EXCEPT !.buf = <<>>, !.cur = 0, !.hw = 0, !.row = row]
      BY DEF WriteOut
    <3> HIDE DEF row
    <3> QED BY <3>2, <3>3 DEF Fresh, Empty
  <2> QED BY <2>2, <2>3, FreshIs
<1> QED BY <1>1, <1>2, <1>3, <1>4, <1>5, <1>6, KeyKeeps

LEMMA InterruptKeeps ==
    ASSUME PromptInv, Interrupt
    PROVE  PromptInv'
<1>1. Editing /\ UNCHANGED <<hist, browse, search, clip, mode, recent, recalled, strayed>>
  BY DEF Interrupt
<1>2. Reading /\ ~search.on
  BY <1>1 DEF Editing
<1>3. /\ IsAlphabet(Alphabet) /\ IsLine(line, Alphabet) /\ clip \in Seq(Alphabet) /\ mode # "run"
      /\ browse \in Browsing(Alphabet, hist.count) /\ search \in Searches(hist.count)
  BY <1>2, AtTheLine
<1>4. Alphabet' = Alphabet /\ strayed' \in BOOLEAN /\ (strayed => strayed')
  BY <1>1 DEF Alphabet, PromptInv, LineInv
<1>5. CASE line.buf = <<>>
  <2> DEFINE row == [[line.row EXCEPT ![0] = "^"] EXCEPT ![1] = "C"]
  <2>1. smeared' = TRUE /\ line' = [line EXCEPT !.row = row, !.hw = -1]
    BY <1>5 DEF Interrupt, Edit
  <2>2. line \in LineRecord(Alphabet) /\ row \in [Cells -> AnyByte \cup {"^", "C"}]
    BY <1>3, Fields DEF IsLine
  <2> HIDE DEF row
  <2>3. -1 \in Int
    OBVIOUS
  <2>4. line' \in LineRecord(Alphabet) /\ line'.buf = line.buf /\ line'.cur = line.cur
        /\ line'.sel = line.sel /\ line'.anchor = line.anchor
    BY <2>1, <2>2, <2>3, Zenon DEF LineRecord
  <2>5. IsLine(line', Alphabet)
    BY <1>3, <2>4 DEF IsLine, Anchored
  <2>6. smeared' \in BOOLEAN /\ smeared'
    BY <2>1, Zenon
  <2> QED BY <1>1, <1>3, <1>4, <2>5, <2>6, KeyKeeps
<1>6. CASE line.buf # <<>>
  <2>1. smeared' = FALSE /\ line' = Fresh
    BY <1>6 DEF Interrupt, Edit
  <2>2. IsLine(line', Alphabet') /\ Shown(line')
    BY <2>1, FreshIs
  <2>3. smeared' \in BOOLEAN
    BY <2>1, Zenon
  <2> QED BY <1>1, <1>2, <1>3, <1>4, <2>2, <2>3, KeyKeeps
<1> QED BY <1>5, <1>6

-----------------------------------------------------------------------------
(* Search.                                                                 *)

(* The search for another term, which ends at m.                           *)
LookedFor(s, term, m) == [s EXCEPT !.term = term, !.match = m]

(* The line a search leaves is the match or the line it began with.        *)
LEMMA AcceptedIs ==
    ASSUME PromptInv, Reading, search.on, NEW s \in BOOLEAN, strayed => s,
           Accepted.sel /\ Accepted.anchor > Len(Accepted.buf) => s,
           NEW X, X = IF s THEN AnyByte ELSE Glyphs
    PROVE  IsAlphabet(X) /\ Alphabet \subseteq X /\ Accepted \in LineRecord(X) /\ IsLine(Accepted, X)
<1>1. /\ IsAlphabet(Alphabet) /\ IsLine(line, Alphabet) /\ hist \in HistoryOf(Alphabet) /\ hist.count \in Nat
      /\ search \in Searches(hist.count)
  BY AtTheLine
<1>2. IsAlphabet(X) /\ Alphabet \subseteq X
  BY AlphabetIs DEF Alphabet, IsAlphabet, AnyByte
<1>3. search.match \in -1 .. hist.count - 1
  BY <1>1 DEF Searches
<1>4. line \in LineRecord(Alphabet)
  BY <1>1 DEF IsLine
<1>5. CASE search.match < 0
  <2>1. Accepted = Redraw(line)
    BY <1>5 DEF Accepted
  <2>2. IsLine(Redraw(line), Alphabet)
    BY <1>1, RedrawKeeps
  <2> DEFINE a == Accepted
  <2>3. IsLine(a, Alphabet)
    BY <2>1, <2>2
  <2> HIDE DEF a
  <2>4. a \in LineRecord(X) /\ a.cur <= Len(a.buf)
    BY <1>2, <2>3, Wider DEF IsLine, LineRecord
  <2>5. Anchored(a, X)
    BY <1>2, <2>3 DEF IsLine, Anchored
  <2> QED BY <1>2, <2>4, <2>5 DEF IsLine, a
<1>6. CASE ~(search.match < 0)
  <2> DEFINE text == Nth(hist, search.match)
             l == [line EXCEPT !.buf = text, !.cur = Len(text)]
             a == Accepted
  <2>1. a = Redraw(l)
    BY <1>6 DEF Accepted
  <2>2. search.match \in Nat
    BY <1>1, <1>3, <1>6
  <2>3. text \in TextsOf(Alphabet)
    BY <1>1, <2>2, NthIn
  <2>4. text \in TextsOf(Alphabet) /\ Len(text) \in Nat
    BY <2>3 DEF TextsOf
  <2> HIDE DEF text
  <2>5. l \in LineRecord(Alphabet) /\ l.buf = text /\ l.cur = Len(text)
    BY <1>4, <2>4, Zenon DEF LineRecord
  <2> HIDE DEF l
  <2>6. l \in LineRecord(AnyByte)
    BY <1>1, <2>5, Wider DEF LineRecord, IsAlphabet
  <2>7. IsLine(l, AnyByte)
    BY <2>4, <2>5, <2>6 DEF IsLine, Anchored, AnyByte
  <2>8. IsLine(a, AnyByte)
    BY <2>1, <2>7, AlphabetIs, RedrawKeeps
  <2>9. /\ a.buf = l.buf /\ a.cur = l.cur /\ a.sel = l.sel /\ a.drawn = Len(l.buf)
        /\ a.row = Redraw(l).row /\ a.anchor = (IF l.sel THEN l.anchor ELSE l.cur) /\ a.hw = l.cur
    BY <2>1, <2>6, Zenon DEF Redraw, LineRecord
  <2> HIDE DEF a
  <2>10. a \in LineRecord(X)
    <3>1. a.buf \in TextsOf(X)
      BY <1>2, <2>4, <2>5, <2>9, Wider
    <3>2. a \in LineRecord(AnyByte)
      BY <2>8 DEF IsLine
    <3> QED BY <3>1, <3>2 DEF LineRecord
  <2>11. Anchored(a, X) /\ a.cur <= Len(a.buf)
    <3>1. a.anchor \in Nat /\ Len(a.buf) \in Nat
      BY <2>10, Fields
    <3>2. a.sel => (a.anchor <= Len(a.buf) \/ s)
      BY <3>1 DEF a
    <3>3. s => Junk \in X
      BY DEF AnyByte
    <3> QED BY <2>4, <2>5, <2>9, <3>2, <3>3 DEF Anchored
  <2> QED BY <1>2, <2>10, <2>11 DEF IsLine, a
<1> QED BY <1>5, <1>6

LEMMA SearchingKeeps ==
    ASSUME PromptInv, \/ OpenSearch \/ SearchBack \/ SearchOlder \/ CancelSearch
                      \/ \E c \in Chars : SearchType(c)
    PROVE  PromptInv'
<1>1. Reading /\ UNCHANGED <<hist, browse, clip, mode, recent, recalled, strayed>>
  BY DEF OpenSearch, SearchBack, SearchOlder, CancelSearch, SearchType, Editing
<1>2. /\ IsAlphabet(Alphabet) /\ IsLine(line, Alphabet) /\ clip \in Seq(Alphabet) /\ mode # "run"
      /\ browse \in Browsing(Alphabet, hist.count) /\ search \in Searches(hist.count) /\ hist.count \in Nat
  BY <1>1, AtTheLine
<1>3. Alphabet' = Alphabet /\ strayed' \in BOOLEAN /\ (strayed => strayed') /\ smeared \in BOOLEAN
  BY <1>1 DEF Alphabet, PromptInv, LineInv
<1>4. search.match \in -1 .. hist.count - 1 /\ search.term \in Seq(Chars) /\ (search.on => smeared)
  BY <1>2 DEF Searches, PromptInv, LineInv
<1>5. CASE OpenSearch
  <2>1. /\ search' = [on |-> TRUE, term |-> <<>>, match |-> -1] /\ line' = Searched(line) /\ smeared' = TRUE
    BY <1>5 DEF OpenSearch, Edit
  <2>2. -1 \in -1 .. hist.count - 1 /\ <<>> \in Seq(Chars)
    BY <1>2
  <2>3. search' \in Searches(hist.count) /\ smeared' \in BOOLEAN /\ smeared'
    BY <2>1, <2>2, Zenon DEF Searches
  <2> DEFINE row == [i \in Cells |-> Junk]
  <2>4. row \in [Cells -> AnyByte \cup {"^", "C"}] /\ line' = [line EXCEPT !.row = row, !.hw = -1]
    BY <2>1 DEF Searched, AnyByte
  <2> HIDE DEF row
  <2>5. -1 \in Int /\ line \in LineRecord(Alphabet)
    BY <1>2 DEF IsLine
  <2>6. line' \in LineRecord(Alphabet) /\ line'.buf = line.buf /\ line'.cur = line.cur
        /\ line'.sel = line.sel /\ line'.anchor = line.anchor
    BY <2>4, <2>5, Zenon DEF LineRecord
  <2>7. IsLine(line', Alphabet)
    BY <1>2, <2>6 DEF IsLine, Anchored
  <2> QED BY <1>1, <1>2, <1>3, <2>3, <2>7, KeyKeeps
<1>6. CASE SearchBack \/ SearchOlder \/ \E c \in Chars : SearchType(c)
  <2>1. line' = line /\ smeared' = smeared /\ search.on
    BY <1>6 DEF SearchBack, SearchOlder, SearchType
  <2>2. PICK term \in Seq(Chars), m \in -1 .. hist.count - 1 : search' = LookedFor(search, term, m)
    <3>1. CASE SearchBack
      <4>1. Front(search.term) \in Seq(Chars)
        BY <1>4 DEF Front
      <4>2. FindBack(hist, Front(search.term), hist.count - 1) \in -1 .. hist.count - 1
        BY <1>2, FoundIn
      <4>3. search' = LookedFor(search, Front(search.term), FindBack(hist, Front(search.term), hist.count - 1))
        BY <3>1 DEF SearchBack, LookFor, LookedFor
      <4> QED BY <4>1, <4>2, <4>3, Zenon
    <3>2. CASE SearchOlder
      <4>1. search.match - 1 \in Int /\ search.match - 1 >= -1 /\ search.match - 1 <= hist.count - 1
        BY <1>2, <1>4, <3>2 DEF SearchOlder
      <4>2. FindBack(hist, search.term, search.match - 1) \in -1 .. search.match - 1
        BY <4>1, FoundIn
      <4>3. FindBack(hist, search.term, search.match - 1) \in -1 .. hist.count - 1
        <5> HIDE DEF FindBack
        <5> QED BY <1>2, <1>4, <4>1, <4>2
      <4>4. search' = LookedFor(search, search.term, FindBack(hist, search.term, search.match - 1))
        BY <1>2, <3>2 DEF SearchOlder, Searches, LookedFor
      <4> QED BY <1>4, <4>3, <4>4, Zenon
    <3>3. CASE \E c \in Chars : SearchType(c)
      <4>1. PICK c \in Chars : SearchType(c)
        BY <3>3
      <4>2. Append(search.term, c) \in Seq(Chars)
        BY <1>4
      <4>3. FindBack(hist, Append(search.term, c), hist.count - 1) \in -1 .. hist.count - 1
        BY <1>2, FoundIn
      <4>4. search' = LookedFor(search, Append(search.term, c), FindBack(hist, Append(search.term, c), hist.count - 1))
        <5>1. LookFor(Append(search.term, c))
          BY <4>1 DEF SearchType
        <5> QED BY <5>1, Zenon DEF LookFor, LookedFor
      <4> QED BY <4>2, <4>3, <4>4, Zenon
    <3> QED BY <1>6, <3>1, <3>2, <3>3, Zenon
  <2>3. search' \in Searches(hist.count) /\ search'.on = search.on
    BY <1>2, <2>2, Zenon DEF Searches, LookedFor
  <2> QED BY <1>1, <1>2, <1>3, <1>4, <2>1, <2>3, KeyKeeps
<1>7. CASE CancelSearch
  <2>1. line' = Redraw(line) /\ smeared' = smeared /\ search.on /\ search' = [search EXCEPT !.on = FALSE]
    BY <1>7 DEF CancelSearch, Edit
  <2>2. IsLine(line', Alphabet)
    BY <1>2, <2>1, RedrawKeeps
  <2>3. search' \in Searches(hist.count)
    BY <1>2, <2>1, Zenon DEF Searches
  <2> QED BY <1>1, <1>2, <1>3, <1>4, <2>1, <2>2, <2>3, KeyKeeps
<1> QED BY <1>5, <1>6, <1>7

LEMMA AcceptKeeps ==
    ASSUME PromptInv, NEW tab \in BOOLEAN, AcceptSearch(tab)
    PROVE  PromptInv'
<1>1. /\ Reading /\ search.on /\ UNCHANGED <<hist, browse, clip, mode, recent, recalled, smeared>>
      /\ search' = [search EXCEPT !.on = FALSE]
      /\ line' = IF tab THEN Complete(Accepted) ELSE Accepted
      /\ strayed' = (strayed \/ (Accepted.sel /\ Accepted.anchor > Len(Accepted.buf)))
  BY DEF AcceptSearch, Edit
<1>2. /\ clip \in Seq(Alphabet) /\ mode # "run" /\ hist.count \in Nat
      /\ browse \in Browsing(Alphabet, hist.count) /\ search \in Searches(hist.count)
  BY <1>1, AtTheLine
<1>3. smeared \in BOOLEAN /\ smeared /\ strayed \in BOOLEAN
  BY <1>1 DEF PromptInv, LineInv
<1>4. strayed' \in BOOLEAN /\ (strayed => strayed')
  BY <1>1, <1>3
<1>5. /\ IsAlphabet(Alphabet') /\ Alphabet \subseteq Alphabet' /\ IsLine(Accepted, Alphabet')
  BY <1>1, <1>4, AcceptedIs DEF Alphabet
<1>6. IsLine(line', Alphabet')
  BY <1>1, <1>5, CompleteIs
<1>7. search' \in Searches(hist.count)
  BY <1>1, <1>2, Zenon DEF Searches
<1>8. clip' \in Seq(Alphabet') /\ browse' \in Browsing(Alphabet', hist.count)
  BY <1>1, <1>2, <1>5, Wider DEF Browsing
<1> QED BY <1>1, <1>2, <1>3, <1>4, <1>6, <1>7, <1>8, KeyKeeps

-----------------------------------------------------------------------------
(* The end of a line, and who reads the next one.                          *)

(* submit_current_line of a line l; more bytes may be in it than before if *)
(* l comes from a search.                                                  *)
LEMMA SubmitKeeps ==
    ASSUME PromptInv, Reading, NEW l, IsLine(l, Alphabet'), Alphabet \subseteq Alphabet', IsAlphabet(Alphabet'),
           strayed' \in BOOLEAN,
           search' \in Searches(hist.count), ~search'.on, Submit(l)
    PROVE  PromptInv'
<1> DEFINE X == Alphabet'
           h == Push(hist, l.buf)
           ran == Expand(l.buf, h)
<1>1. /\ hist \in HistoryOf(Alphabet) /\ hist.count \in Nat /\ clip \in Seq(Alphabet)
      /\ browse \in Browsing(Alphabet, hist.count) /\ mode \in {"prompt", "program"} /\ smeared \in BOOLEAN
      /\ Listed(hist) = recent
  BY AtTheLine DEF Reading, PromptInv, LineInv, HistInv
<1>2. /\ hist \in HistoryOf(X) /\ clip' \in Seq(X) /\ l \in LineRecord(X) /\ l.buf \in TextsOf(X) /\ IsAlphabet(X)
  <2>1. l \in LineRecord(X)
    BY DEF IsLine
  <2>2. clip' = clip
    BY DEF Submit
  <2> HIDE DEF X
  <2> QED BY <1>1, <2>1, <2>2, Wider, Fields DEF X
<1>3. \A n \in Nat : browse' \in Browsing(X, n)
  BY Sizes DEF Submit, NotBrowsing, Browsing, TextsOf
<1>4. CASE mode = "program"
  <2>1. /\ line' = [l EXCEPT !.buf = <<>>, !.cur = 0] /\ mode' = "run"
        /\ UNCHANGED <<hist, recent, recalled, smeared>>
    BY <1>4 DEF Submit
  <2>2. <<>> \in TextsOf(X) /\ 0 \in Nat
    BY Sizes DEF TextsOf
  <2> HIDE DEF X
  <2>3. line' \in LineRecord(X)
    BY <1>2, <2>1, <2>2, Zenon DEF LineRecord
  <2>4. LineInv'
    BY <1>1, <1>2, <2>1, <2>3 DEF LineInv, X
  <2>5. HistInv'
    BY <1>1, <1>2, <1>3, <2>1 DEF HistInv, X, PromptInv
  <2> QED BY <2>4, <2>5 DEF PromptInv
<1>5. CASE mode = "prompt"
  <2>1. /\ hist' = h
        /\ recent' = IF l.buf = <<>> \/ (recent # <<>> /\ Last(recent) = l.buf) THEN recent
                     ELSE LastOf(Append(recent, l.buf), HistorySize)
        /\ recalled' = [due |-> Due(l.buf, hist), ran |-> ran, full |-> hist.count = HistorySize]
        /\ IF ran = <<>> /\ l.buf # <<>>
           THEN line' = Fresh /\ smeared' = FALSE /\ UNCHANGED mode
           ELSE line' = [l EXCEPT !.buf = ran] /\ mode' = "run" /\ UNCHANGED smeared
    BY <1>5 DEF Submit
  <2> HIDE DEF X
  <2>2. h \in HistoryOf(X) /\ h.count \in Nat /\ hist.count <= h.count /\ Listed(h) = Submitted(recent, l.buf)
    BY <1>1, <1>2, PushListed
  <2>3. recent' = Submitted(recent, l.buf)
    BY <2>1 DEF Submitted
  <2>4. ran \in TextsOf(X)
    BY <1>2, <2>2, ExpandIn
  <2>5. hist.count # HistorySize => Due(l.buf, hist) = ran
    BY <1>2, RecallSame
  <2> HIDE DEF h, ran
  <2>6. ~recalled'.full => recalled'.ran = recalled'.due
    BY <2>1, <2>5
  <2>7. search' \in Searches(h.count)
    BY <1>1, <2>2 DEF Searches
  <2>8. HistInv'
    BY <1>3, <2>1, <2>2, <2>3, <2>6, <2>7 DEF HistInv, X
  <2>9. LineInv'
    <3>1. CASE ran = <<>> /\ l.buf # <<>>
      <4>1. line' = Fresh /\ smeared' = FALSE /\ mode' = mode
        BY <2>1, <3>1
      <4>2. IsLine(line', X) /\ Shown(line') /\ line' \in LineRecord(X)
        BY <4>1, FreshIs DEF IsLine
      <4>3. smeared' \in BOOLEAN
        BY <4>1, Zenon
      <4> QED BY <1>1, <1>2, <4>1, <4>2, <4>3 DEF LineInv, X
    <3>2. CASE ~(ran = <<>> /\ l.buf # <<>>)
      <4>1. line' = [l EXCEPT !.buf = ran] /\ mode' = "run" /\ smeared' = smeared
        BY <2>1, <3>2
      <4>2. line' \in LineRecord(X)
        BY <1>2, <2>4, <4>1, Zenon DEF LineRecord
      <4> QED BY <1>1, <1>2, <4>1, <4>2 DEF LineInv, X
    <3> QED BY <3>1, <3>2
  <2> QED BY <2>8, <2>9 DEF PromptInv
<1> QED BY <1>1, <1>4, <1>5

LEMMA EnterKeeps ==
    ASSUME PromptInv, Enter
    PROVE  PromptInv'
<1>1. Editing /\ Submit(line) /\ UNCHANGED <<search, strayed>>
  BY DEF Enter
<1>2. Reading /\ ~search.on
  BY <1>1 DEF Editing
<1>3. Alphabet' = Alphabet /\ strayed' \in BOOLEAN
  BY <1>1 DEF Alphabet, PromptInv, LineInv
<1>4. IsAlphabet(Alphabet) /\ IsLine(line, Alphabet) /\ search \in Searches(hist.count)
  BY <1>2, AtTheLine
<1> QED BY <1>1, <1>2, <1>3, <1>4, SubmitKeeps

LEMMA SearchEnterKeeps ==
    ASSUME PromptInv, SearchEnter
    PROVE  PromptInv'
<1>1. /\ Reading /\ search.on /\ search' = [search EXCEPT !.on = FALSE] /\ Submit(Accepted)
      /\ strayed' = (strayed \/ (Accepted.sel /\ Accepted.anchor > Len(Accepted.buf)))
  BY DEF SearchEnter
<1>2. strayed \in BOOLEAN /\ search \in Searches(hist.count)
  BY <1>1, AtTheLine DEF PromptInv, LineInv
<1>3. strayed' \in BOOLEAN /\ (strayed => strayed')
  BY <1>1, <1>2
<1>4. IsAlphabet(Alphabet') /\ Alphabet \subseteq Alphabet' /\ IsLine(Accepted, Alphabet')
  BY <1>1, <1>3, AcceptedIs DEF Alphabet
<1>5. search' \in Searches(hist.count) /\ ~search'.on
  BY <1>1, <1>2, Zenon DEF Searches
<1> QED BY <1>1, <1>3, <1>4, <1>5, SubmitKeeps

(* terminal_read_line: the selection and how far the row was drawn stay.   *)
LEMMA ReadLineKeeps ==
    ASSUME PromptInv, ReadLine
    PROVE  PromptInv'
<1> DEFINE X == Alphabet'
<1>1. /\ mode = "run" /\ mode' = "program"
      /\ line' = [line EXCEPT !.buf = <<>>, !.cur = 0, !.hw = 0, !.row = Fresh.row]
      /\ smeared' = FALSE /\ strayed' = (strayed \/ (line.sel /\ line.anchor > 0))
      /\ recalled' = Nothing /\ UNCHANGED <<hist, browse, search, clip, recent>>
  BY DEF ReadLine, Edit
<1>2. /\ strayed \in BOOLEAN /\ line \in LineRecord(Alphabet) /\ clip \in Seq(Alphabet) /\ ~search.on
      /\ hist \in HistoryOf(Alphabet) /\ Listed(hist) = recent
      /\ browse \in Browsing(Alphabet, hist.count) /\ search \in Searches(hist.count)
  BY <1>1 DEF PromptInv, LineInv, HistInv
<1>3. strayed' \in BOOLEAN /\ (strayed => strayed')
  BY <1>1, <1>2
<1>4. Alphabet \subseteq X
  BY <1>3, AlphabetIs DEF Alphabet, AnyByte
<1>5. /\ clip' \in Seq(X) /\ hist' \in HistoryOf(X) /\ browse' \in Browsing(X, hist.count)
  <2> HIDE DEF X
  <2> QED BY <1>1, <1>2, <1>4, Wider DEF Browsing
<1>6. <<>> \in TextsOf(X) /\ 0 \in Nat /\ 0 \in Int /\ Len(<<>>) = 0
  BY Sizes DEF TextsOf
<1>7. Fresh.row \in [Cells -> AnyByte \cup {"^", "C"}] /\ \A i \in Cells : Fresh.row[i] = Blank
  BY FreshIs DEF Fresh, Empty
<1>8. line \in LineRecord(X)
  <2> HIDE DEF X
  <2> QED BY <1>2, <1>4, Wider DEF LineRecord
<1>9. /\ line' \in LineRecord(X) /\ line'.buf = <<>> /\ line'.cur = 0 /\ line'.hw = 0 /\ line'.row = Fresh.row
      /\ line'.sel = line.sel /\ line'.anchor = line.anchor /\ line'.drawn = line.drawn
  <2> HIDE DEF X
  <2> QED BY <1>1, <1>6, <1>7, <1>8, Zenon DEF LineRecord
<1>10. line.drawn \in Nat /\ line.drawn < Size /\ line.anchor \in Nat
  BY <1>2, Fields
<1>11. Shown(line')
  BY <1>6, <1>7, <1>9, <1>10, CellsAre DEF Shown, Exact, Clean
<1>12. Anchored(line', X)
  <2>1. line.sel /\ line.anchor > 0 => Junk \in X
    BY <1>1, <1>2 DEF Alphabet, AnyByte
  <2> HIDE DEF X
  <2> QED BY <1>6, <1>9, <1>10, <2>1 DEF Anchored
<1>13. IsLine(line', X)
  BY <1>6, <1>9, <1>12 DEF IsLine
<1>14. smeared' \in BOOLEAN
  BY <1>1, Zenon
<1>15. LineInv'
  BY <1>1, <1>2, <1>3, <1>5, <1>9, <1>11, <1>13, <1>14 DEF LineInv
<1>16. recalled'.ran = recalled'.due
  BY <1>1 DEF Nothing
<1>17. HistInv'
  BY <1>1, <1>2, <1>5, <1>16 DEF HistInv
<1> QED BY <1>15, <1>17 DEF PromptInv

(* The command returns to the prompt, perhaps with another clipboard.      *)
LEMMA ReturningKeeps ==
    ASSUME PromptInv, Return \/ \E text \in Elsewhere : EditFile(text)
    PROVE  PromptInv'
<1>1. /\ mode = "run" /\ mode' = "prompt" /\ line' = Fresh /\ smeared' = FALSE
      /\ recalled' = Nothing /\ UNCHANGED <<hist, browse, search, recent, strayed>>
      /\ clip' = clip \/ clip' \in Elsewhere
  BY DEF Return, EditFile, Edit
<1>2. /\ strayed \in BOOLEAN /\ clip \in Seq(Alphabet) /\ ~search.on
      /\ hist \in HistoryOf(Alphabet) /\ Listed(hist) = recent
      /\ browse \in Browsing(Alphabet, hist.count) /\ search \in Searches(hist.count)
  BY <1>1 DEF PromptInv, LineInv, HistInv
<1>3. Alphabet' = Alphabet /\ strayed' \in BOOLEAN
  BY <1>1, <1>2 DEF Alphabet
<1>4. clip' \in Seq(Alphabet)
  <2>1. Elsewhere \subseteq Seq(Glyphs) /\ Glyphs \subseteq Alphabet
    BY LineAssumption, AlphabetIs DEF IsAlphabet
  <2>2. Elsewhere \subseteq Seq(Alphabet)
    BY <2>1, WiderSeq
  <2> QED BY <1>1, <1>2, <2>2
<1>5. IsLine(line', Alphabet) /\ Shown(line') /\ line' \in LineRecord(Alphabet)
  BY <1>1, FreshIs DEF IsLine
<1>6. smeared' \in BOOLEAN
  BY <1>1, Zenon
<1>7. LineInv'
  BY <1>1, <1>2, <1>3, <1>4, <1>5, <1>6 DEF LineInv
<1>8. recalled'.ran = recalled'.due
  BY <1>1 DEF Nothing
<1>9. HistInv'
  BY <1>1, <1>2, <1>3, <1>8 DEF HistInv
<1> QED BY <1>7, <1>9 DEF PromptInv

-----------------------------------------------------------------------------
LEMMA StepKeeps ==
    ASSUME PromptInv, [Next]_vars
    PROVE  PromptInv'
<1>1. CASE UNCHANGED vars
  BY <1>1 DEF vars, PromptInv, LineInv, HistInv, Alphabet
<1>2. CASE \E c \in Chars : Type(c) \/ SearchType(c)
  BY <1>2, TypingKeeps, SearchingKeeps
<1>3. CASE KeypadSlash \/ Paste
  BY <1>3, TypingKeeps
<1>4. CASE Backspace
  BY <1>4, BackspaceStep
<1>5. CASE Delete \/ KillBefore \/ KillAfter \/ KillWord \/ Cut
  BY <1>5, DeletingKeeps
<1>6. CASE \/ \E shift, ctrl \in BOOLEAN : Left(shift, ctrl) \/ Right(shift, ctrl)
           \/ \E shift \in BOOLEAN : Home(shift) \/ End(shift)
           \/ SelectAll
  BY <1>6, MovingKeeps
<1>7. CASE Up \/ Down
  BY <1>7, BrowsingKeeps
<1>8. CASE Tab \/ ClearScreen \/ Interrupt
  BY <1>8, TabKeeps, ClearScreenKeeps, InterruptKeeps
<1>9. CASE OpenSearch \/ SearchBack \/ SearchOlder \/ CancelSearch
  BY <1>9, SearchingKeeps
<1>10. CASE \E tab \in BOOLEAN : AcceptSearch(tab)
  BY <1>10, AcceptKeeps
<1>11. CASE Enter \/ SearchEnter
  BY <1>11, EnterKeeps, SearchEnterKeeps
<1>12. CASE ReadLine
  BY <1>12, ReadLineKeeps
<1>13. CASE Return \/ \E text \in Elsewhere : EditFile(text)
  BY <1>13, ReturningKeeps
<1> QED
  BY <1>1, <1>2, <1>3, <1>4, <1>5, <1>6, <1>7, <1>8, <1>9, <1>10, <1>11, <1>12, <1>13 DEF Next

(* Whatever is typed, the invariant of the prompt holds.                   *)
THEOREM PromptInvariant == Spec => []PromptInv
<1>1. PromptInv /\ [Next]_vars => PromptInv'
  BY StepKeeps
<1> QED BY InitInv, <1>1, PTL DEF Spec

(* The row shows the line and nothing else, the cursor and the selection   *)
(* lie within the line and the line within its buffer, and no byte from    *)
(* behind the line gets into it (terminal_redraw_input_line and the        *)
(* handlers of the keys).                                                  *)
THEOREM PartialRedrawsAddUp == Spec => []RowShowsLine
<1>1. PromptInv => RowShowsLine
  <2> SUFFICES ASSUME PromptInv PROVE RowShowsLine
    OBVIOUS
  <2>1. /\ line \in LineRecord(Alphabet) /\ clip \in Seq(Alphabet) /\ mode \in {"prompt", "program", "run"}
        /\ mode # "run" => IsLine(line, Alphabet)
        /\ mode # "run" /\ ~smeared => Shown(line)
    BY DEF PromptInv, LineInv
  <2>2. Len(line.buf) < Size /\ line.buf \in Seq(Alphabet)
    BY <2>1, Fields
  <2>3. ShownInRow
    BY <2>1 DEF ShownInRow, Reading, Shown, Exact
  <2>4. line.cur <= Len(line.buf) \/ mode = "run"
    BY <2>1 DEF IsLine
  <2>5. ASSUME ~strayed
        PROVE  /\ line.sel => line.anchor <= Len(line.buf) \/ mode = "run"
               /\ Junk \notin ToSet(clip) \cup ToSet(line.buf)
    <3>1. Alphabet = Glyphs /\ Junk \notin Alphabet
      BY <2>5, NoJunk DEF Alphabet
    <3>2. line.sel => line.anchor <= Len(line.buf) \/ mode = "run"
      BY <2>1, <3>1 DEF IsLine, Anchored
    <3>3. ToSet(clip) \subseteq Alphabet /\ ToSet(line.buf) \subseteq Alphabet
      BY <2>1, <2>2 DEF ToSet
    <3> QED BY <3>1, <3>2, <3>3
  <2> QED BY <2>2, <2>3, <2>4, <2>5 DEF RowShowsLine
<1> QED BY <1>1, PromptInvariant, PTL

(* The ring holds the lines submitted, oldest first, browsing and search   *)
(* point into it, and `!N' and `!!' run the line that the list showed      *)
(* (submit_current_line, history_push).                                    *)
THEOREM EventsRunAsListed == Spec => []RecallAsListed
<1>1. PromptInv => RecallAsListed
  <2> SUFFICES ASSUME PromptInv PROVE RecallAsListed
    OBVIOUS
  <2>1. /\ hist \in HistoryOf(Alphabet) /\ Listed(hist) = recent
        /\ browse \in Browsing(Alphabet, hist.count) /\ search \in Searches(hist.count)
        /\ ~recalled.full => recalled.ran = recalled.due
    BY DEF PromptInv, HistInv
  <2>2. hist.count \in Nat
    BY <2>1, Sizes DEF HistoryOf
  <2>3. browse.pos < hist.count /\ search.match < hist.count
    BY <2>1, <2>2 DEF Browsing, Searches
  <2> QED BY <2>1, <2>3 DEF RecallAsListed
<1> QED BY <1>1, PromptInvariant, PTL

====
