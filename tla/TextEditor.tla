----------------------------- MODULE TextEditor -----------------------------
(***************************************************************************)
(* The full-screen editor of kernel/terminal.c (`edit' and `hexedit'): one *)
(* buffer, its window on the screen, selection, clipboard, find, and the   *)
(* file it is loaded from and saved to.                                    *)
(*                                                                         *)
(* Indices count from 0 as in the code: character i is buf[i + 1].  Every  *)
(* handler but those of modifier keys ends in editor_render, which moves   *)
(* the window so that it has the cursor and draws it; one action is one    *)
(* key with its render.                                                    *)
(***************************************************************************)
EXTENDS Integers, Sequences, FiniteSets, SequencesExt

CONSTANTS
    Size,           \* EDITOR_BUFFER_SIZE
    Width,          \* editor_text_width
    Screen,         \* screen_get_height
    Header,         \* rows of the header without a search
    FindFits,       \* the longest query that fits the header's row for it
    HexWidth,       \* EDITOR_HEX_BYTES_PER_ROW
    Glyphs,         \* character codes that are typed, the newline among them
    Nibbles,        \* hexadecimal digits that are typed
    Files,          \* the files: whether on FAT32, and what they hold
    QueryMax,       \* sizeof(editor_find_query) - 1
    MaxSteps        \* bound: changes, copies, searches and files opened

NL == 10
Gone == <<-1>>      \* a file that a failed write has left in pieces

ASSUME EditorAssumption ==
    /\ {Size, Width, Screen, HexWidth} \subseteq Nat \ {0} /\ {Header, FindFits, QueryMax, MaxSteps} \subseteq Nat
    /\ Glyphs \subseteq 0 .. 255 /\ Nibbles \subseteq 0 .. 15
    /\ Files \subseteq [fat : BOOLEAN, data : Seq(0 .. 255)]

VARIABLES
    ed,         \* the editor's buffer, cursor, selection, window and find
    clip,       \* editor_clipboard
    last,       \* editor_find_last_query, which outlives a session
    disk,       \* the file: where it lives and what it holds
    shown,      \* the text area of the screen and the hardware cursor
    head,       \* editor_vga_start, in rows: the header as it was last drawn
    steps,      \* how many changes, copies, searches and files opened there were
    partial,    \* history: what was opened is not all that the file held
    base,       \* history: the text as it was last loaded or written whole
    missed,     \* history: the last search found nothing
    lost,       \* history: text above the window was replaced and the
                \* cursor stayed in it, so that the window did not move
    grown       \* history: the header came out taller than the last one,
                \* after the window had been moved

editorVars == <<ed, clip, last, disk, shown, head, steps, partial, base, missed, lost, grown>>
-----------------------------------------------------------------------------
Larger(a, b) == IF a > b THEN a ELSE b
Smaller(a, b) == IF a < b THEN a ELSE b
Least(S) == CHOOSE i \in S : \A j \in S : i <= j
Greatest(S) == CHOOSE i \in S : \A j \in S : j <= i
Length(e) == Len(e.buf)

(* Visual rows: a line is cut every Width characters. *)
NextRow(e, i) ==
    IF i >= Length(e) THEN Length(e)
    ELSE Least({j \in i + 1 .. Length(e) : e.buf[j] = NL \/ j - i = Width \/ j = Length(e)})
\* The last start of a row up to i; the end of the text counts as one.
RowStart(e, i) ==
    LET start[j \in 0 .. i] ==
            IF j = 0 THEN 0
            ELSE LET r == start[j - 1] IN IF e.buf[j] = NL \/ j - r = Width \/ j = Length(e) THEN j ELSE r
    IN start[i]
PrevRow(e, i) == IF i = 0 THEN 0 ELSE RowStart(e, i - 1)
RowLength(e, r) ==
    IF r >= Length(e) THEN 0
    ELSE NextRow(e, r) - r - (IF e.buf[NextRow(e, r)] = NL THEN 1 ELSE 0)
RowsAway(e, r, n, down) ==
    LET s[k \in 0 .. n] == IF k = 0 THEN r ELSE IF down THEN NextRow(e, s[k - 1]) ELSE PrevRow(e, s[k - 1]) IN s[n]
InRow(e, col, r) == r + Smaller(col, RowLength(e, r))
MoveRows(e, i, n, down) == InRow(e, i - RowStart(e, i), RowsAway(e, RowStart(e, i), n, down))
\* editor_cursor_row_from_top
RowFrom(e, top, i) ==
    LET at[j \in top .. Larger(top, i)] ==
            IF j = top THEN <<0, 0>>
            ELSE LET p == at[j - 1] IN
                 IF e.buf[j] = NL \/ p[2] + 1 >= Width THEN <<p[1] + 1, 0>> ELSE <<p[1], p[2] + 1>>
    IN IF i < top THEN 0 ELSE at[i][1]

LineStart(e, i) == Least({j \in 0 .. i : \A k \in j + 1 .. i : e.buf[k] # NL})
LineEnd(e, i) == Greatest({j \in i .. Length(e) : \A k \in i + 1 .. j : e.buf[k] # NL})
IsWord(c) == c \in 48 .. 57 \cup 65 .. 90 \cup 97 .. 122 \cup {95}
BackWhile(e, i, word) == Least({j \in 0 .. i : \A k \in j + 1 .. i : IsWord(e.buf[k]) = word})
AheadWhile(e, i, word) == Greatest({j \in i .. Length(e) : \A k \in i + 1 .. j : IsWord(e.buf[k]) = word})
WordLeft(e, i) == BackWhile(e, BackWhile(e, i, FALSE), TRUE)
WordRight(e, i) == AheadWhile(e, AheadWhile(e, i, TRUE), FALSE)
-----------------------------------------------------------------------------
(* Selection and changes of the buffer. *)
HasSelection(e) == e.sel /\ e.anchor # e.cur
From(e) == Smaller(e.anchor, e.cur)
To(e) == Larger(e.anchor, e.cur)
ClearSelection(e) == [e EXCEPT !.sel = FALSE, !.anchor = e.cur]
NoMatch == [valid |-> FALSE, start |-> 0, end |-> 0]
\* Mutant: an edit that leaves the match where it was.
EditedOnly(e) == [e EXCEPT !.dirty = TRUE]
\* Mutant: an edit that does not count as one.
MatchDropped(e) == [e EXCEPT !.match = NoMatch]
Touched(e) == [e EXCEPT !.dirty = TRUE, !.match = NoMatch]

DeleteRange(e, start, end) ==
    IF end <= start \/ start > Length(e) THEN e
    ELSE ClearSelection(Touched([e EXCEPT
            !.buf = SubSeq(@, 1, start) \o SubSeq(@, Smaller(end, Length(e)) + 1, Len(@)), !.cur = start]))
DeleteSelection(e) == IF HasSelection(e) THEN DeleteRange(e, From(e), To(e)) ELSE e
Selected(e) == SubSeq(e.buf, From(e) + 1, To(e))
\* The selection goes even when the text does not fit then.
InsertText(e, text) ==
    IF text = <<>> THEN e
    ELSE LET d == DeleteSelection(e) IN
         IF Length(d) + Len(text) >= Size THEN d
         ELSE ClearSelection(Touched([d EXCEPT
                 !.buf = SubSeq(@, 1, d.cur) \o text \o SubSeq(@, d.cur + 1, Len(@)), !.cur = @ + Len(text)]))
MoveTo(e, to, shift) ==
    LET anchored == IF shift /\ ~e.sel THEN [e EXCEPT !.sel = TRUE, !.anchor = e.cur] ELSE e
        moved == [anchored EXCEPT !.cur = to]
    IN IF ~shift THEN ClearSelection(moved)
       ELSE IF moved.anchor = to THEN [moved EXCEPT !.sel = FALSE] ELSE moved
-----------------------------------------------------------------------------
(* editor_render *)
\* editor_visible_rows under a header of h rows
VisibleRows(h) == IF h < Screen THEN Screen - h ELSE 1
\* The header that editor_draw_header draws: a long query takes a second row.
HeaderOf(e) == Header + (IF e.find /\ Len(e.query) > FindFits THEN 1 ELSE 0)
\* Mutant: the window that scrolls one row too late.
RowsAndOne == VisibleRows(head) + 1
\* The window is moved before the header is drawn, by the rows that the
\* last header left.
WindowRows == VisibleRows(head)
\* The text is drawn below the new header.
DrawnRows(e) == VisibleRows(HeaderOf(e))

CutTop(e) == Smaller(e.top, Length(e))
ScrollFrom(e, top) ==
    LET t[k \in 0 .. Length(e)] ==
            IF k = 0 THEN top
            ELSE LET p == t[k - 1] IN IF RowFrom(e, p, e.cur) >= WindowRows THEN NextRow(e, p) ELSE p
    IN [e EXCEPT !.top = t[Length(e)]]
ScrollText(e) == ScrollFrom(e, IF e.cur < CutTop(e) THEN RowStart(e, e.cur) ELSE CutTop(e))
ScrollHex(e) ==
    LET floor(i) == (i \div HexWidth) * HexWidth
        cut == IF e.top > Length(e) THEN floor(Length(e)) ELSE e.top
        top == IF e.cur < cut THEN floor(e.cur) ELSE cut
        rows == (e.cur - top) \div HexWidth
    IN [e EXCEPT !.top = IF rows < WindowRows THEN top ELSE top + (rows - WindowRows + 1) * HexWidth]
Scroll(e) == IF e.hex THEN ScrollHex(e) ELSE ScrollText(e)

\* What is drawn, row by row from the top of the window.
DrawnAt(e, i, soft) ==
    <<Smaller(RowFrom(e, e.top, i), DrawnRows(e) - 1), Smaller(i - RowStart(e, i) + (IF soft THEN 1 ELSE 0), Width - 1)>>
DrawnCursor(e, soft) == DrawnAt(e, IF soft THEN e.cur - 1 ELSE e.cur, soft)
DrawnRow(e, from, to) ==
    [c \in 0 .. Width - 1 |-> IF from + c < to /\ e.buf[from + c + 1] # NL THEN {e.buf[from + c + 1]} ELSE {}]
DrawText(e) ==
    [cells |-> [k \in 0 .. DrawnRows(e) - 1 |-> LET from == RowsAway(e, e.top, k, TRUE) IN DrawnRow(e, from, NextRow(e, from))],
     at |-> DrawnCursor(e, e.cur > 0 /\ RowStart(e, e.cur) = e.cur /\ e.buf[e.cur] # NL)]
DrawHex(e) ==
    LET cell(i) == IF i < Length(e) THEN {e.buf[i + 1]} ELSE {}
    IN [cells |-> [k \in 0 .. DrawnRows(e) - 1 |-> [c \in 0 .. HexWidth - 1 |-> cell(e.top + k * HexWidth + c)]],
        at |-> <<Smaller((e.cur - e.top) \div HexWidth, DrawnRows(e) - 1), (e.cur - e.top) % HexWidth>>]
Draw(e) == IF e.hex THEN DrawHex(e) ELSE DrawText(e)

\* The text above the window.
Above(e) == SubSeq(e.buf, 1, Smaller(e.top, Length(e)))
\* The step to the editor e, drawn.
Shows(e, r) ==
    /\ ed' = r /\ shown' = Draw(r) /\ head' = HeaderOf(r) /\ grown' = (HeaderOf(r) > head)
    /\ lost' = (~e.hex /\ (lost \/ (ed.open /\ Above(e) # Above(ed))) /\ e.cur >= CutTop(e))
Show(e) == Shows(e, Scroll(e))
-----------------------------------------------------------------------------
Closed == [open |-> FALSE, hex |-> FALSE, buf |-> <<>>, cur |-> 0, sel |-> FALSE, anchor |-> 0, top |-> 0,
           dirty |-> FALSE, nib |-> 0, find |-> FALSE, query |-> <<>>, match |-> NoMatch]
Blank == [cells |-> <<>>, at |-> <<0, 0>>]

EditorInit ==
    /\ ed = Closed /\ clip = <<>> /\ last = <<>> /\ shown = Blank /\ head = 0
    /\ disk \in Files
    /\ steps = 0 /\ partial = FALSE /\ base = <<>> /\ missed = FALSE /\ lost = FALSE /\ grown = FALSE

Counted == steps < MaxSteps /\ steps' = steps + 1

\* editor_open_file: what does not fit is cut off when the file is in memory;
\* from FAT32 nothing is read then, and the buffer is empty.
Open(hex) ==
    LET room == IF hex THEN Size ELSE Size - 1
        text == CASE disk.data = Gone \/ (Len(disk.data) > room /\ disk.fat) -> <<>>
                  [] disk.data # Gone /\ Len(disk.data) <= room -> disk.data
                  [] OTHER -> SubSeq(disk.data, 1, room)
    IN /\ ~ed.open /\ Counted
       /\ Show([Closed EXCEPT !.open = TRUE, !.hex = hex, !.buf = text, !.cur = Len(text), !.anchor = Len(text)])
       /\ partial' = (text # disk.data) /\ base' = text /\ missed' = FALSE
       /\ UNCHANGED <<clip, last, disk>>

Active(hex) == ed.open /\ ed.hex = hex /\ ~ed.find
\* A key that only moves the cursor or the selection.
Moves(e) == Show(e) /\ UNCHANGED <<clip, last, disk, steps, partial, base, missed>>
\* A key that changes the buffer.
Changes(e) == Counted /\ Show(e) /\ missed' = FALSE /\ UNCHANGED <<clip, last, disk, partial, base>>

\* Enter leaves it to editor_insert_text to say that the buffer is full.
Insert(c) ==
    /\ Active(FALSE)
    /\ \/ (Length(ed) + 1 < Size \/ c = NL) /\ Changes(InsertText(ed, <<c>>))
       \/ Length(ed) + 1 >= Size /\ c # NL /\ Moves(ed)
Backspace ==
    /\ Active(FALSE)
    /\ \/ HasSelection(ed) /\ Changes(DeleteSelection(ed))
       \/ ~HasSelection(ed) /\ ed.cur > 0 /\ Changes(DeleteRange(ed, ed.cur - 1, ed.cur))
Delete ==
    /\ Active(FALSE)
    /\ \/ HasSelection(ed) /\ Changes(DeleteSelection(ed))
       \/ ~HasSelection(ed) /\ ed.cur < Length(ed) /\ Changes(DeleteRange(ed, ed.cur, ed.cur + 1))
       \/ ~HasSelection(ed) /\ ed.cur = Length(ed) /\ Moves(ed)

Left(shift, ctrl) ==
    Active(FALSE) /\ Moves(MoveTo(ed, IF ctrl THEN WordLeft(ed, ed.cur) ELSE Larger(ed.cur - 1, 0), shift))
Right(shift, ctrl) ==
    Active(FALSE) /\ Moves(MoveTo(ed, IF ctrl THEN WordRight(ed, ed.cur) ELSE Smaller(ed.cur + 1, Length(ed)), shift))
Home(shift, ctrl) == Active(FALSE) /\ Moves(MoveTo(ed, IF ctrl THEN 0 ELSE LineStart(ed, ed.cur), shift))
End(shift, ctrl) == Active(FALSE) /\ Moves(MoveTo(ed, IF ctrl THEN Length(ed) ELSE LineEnd(ed, ed.cur), shift))
\* The column in the neighbouring line, as far as that goes.
Up(shift) ==
    LET start == LineStart(ed, ed.cur) IN
    Active(FALSE) /\ Moves(MoveTo(ed, IF start = 0 THEN ed.cur
                                      ELSE Smaller(LineStart(ed, start - 1) + ed.cur - start, start - 1), shift))
Down(shift) ==
    LET end == LineEnd(ed, ed.cur) IN
    Active(FALSE) /\ Moves(MoveTo(ed, IF end >= Length(ed) THEN ed.cur
                                      ELSE Smaller(end + 1 + ed.cur - LineStart(ed, ed.cur), LineEnd(ed, end + 1)), shift))
Page(shift, down) == Active(FALSE) /\ Moves(MoveTo(ed, MoveRows(ed, ed.cur, Larger(WindowRows - 1, 1), down), shift))
SelectAll == Active(FALSE) /\ Moves([ed EXCEPT !.sel = TRUE, !.anchor = 0, !.cur = Length(ed)])

Copy ==
    /\ Active(FALSE) /\ HasSelection(ed) /\ clip' = Selected(ed) /\ Counted
    /\ Show(ed) /\ UNCHANGED <<last, disk, partial, base, missed>>
CutOut ==
    /\ Active(FALSE) /\ HasSelection(ed) /\ clip' = Selected(ed) /\ Counted
    /\ Show(DeleteSelection(ed)) /\ missed' = FALSE /\ UNCHANGED <<last, disk, partial, base>>
Paste == Active(FALSE) /\ clip # <<>> /\ Changes(InsertText(ed, clip))
-----------------------------------------------------------------------------
(* Hexadecimal mode: every byte is two digits. *)
Go(i) == Moves([ed EXCEPT !.cur = i, !.nib = 0])
HexMove ==
    LET row == (ed.cur \div HexWidth) * HexWidth
        page == Larger(WindowRows - 1, 1) * HexWidth
    IN /\ Active(TRUE)
       /\ \/ Go(Larger(ed.cur - 1, 0)) \/ Go(Smaller(ed.cur + 1, Length(ed)))
          \/ Go(row) \/ Go(0) \/ Go(Smaller(row + HexWidth - 1, Length(ed))) \/ Go(Length(ed))
          \/ Go(Larger(ed.cur - page, 0)) \/ Go(Smaller(ed.cur + page, Length(ed)))
          \/ Go(IF ed.cur >= HexWidth THEN ed.cur - HexWidth ELSE ed.cur) \/ Go(Smaller(ed.cur + HexWidth, Length(ed)))
HexRemove(i) == [ed EXCEPT !.buf = SubSeq(@, 1, i) \o SubSeq(@, i + 2, Len(@)), !.cur = i, !.nib = 0, !.dirty = TRUE]
HexDelete == Active(TRUE) /\ ed.cur < Length(ed) /\ Changes(HexRemove(ed.cur))
HexBackspace == Active(TRUE) /\ ed.cur > 0 /\ Changes(Touched(HexRemove(ed.cur - 1)))
HexDigit(h) ==
    LET bytes == IF ed.cur = Length(ed) THEN Append(ed.buf, 0) ELSE ed.buf
        b == bytes[ed.cur + 1]
    IN /\ Active(TRUE) /\ ed.cur < Size
       /\ Changes(Touched(
            IF ed.nib = 0 THEN [ed EXCEPT !.buf = [bytes EXCEPT ![ed.cur + 1] = (b % 16) + 16 * h], !.nib = 1]
            ELSE [ed EXCEPT !.buf = [bytes EXCEPT ![ed.cur + 1] = b - (b % 16) + h], !.nib = 0, !.cur = @ + 1]))
-----------------------------------------------------------------------------
(* Find. *)
Upper(c) == IF c \in 97 .. 122 THEN c - 32 ELSE c
\* editor_find_match_at, for any text and query
MatchAt(buf, q, i) ==
    q # <<>> /\ i + Len(q) <= Len(buf) /\ \A k \in 1 .. Len(q) : Upper(buf[i + k]) = Upper(q[k])

FindOpen ==
    /\ Active(FALSE) /\ Counted
    /\ Show([ed EXCEPT !.find = TRUE, !.query = IF @ = <<>> THEN last ELSE @])
    /\ UNCHANGED <<clip, last, disk, partial, base, missed>>
Finding(e) == ed.open /\ ed.find /\ Moves(e)
FindType(c) == Len(ed.query) < QueryMax /\ c \in 32 .. 126 /\ Finding([ed EXCEPT !.query = Append(@, c)])
FindBackspace == ed.query # <<>> /\ Finding([ed EXCEPT !.query = Front(@)])
FindCancel == Finding([ed EXCEPT !.find = FALSE])

\* The order in which the places are tried: from the cursor, or from the
\* end of the last match, and then from the other end of the text.
NextOf(e, places) ==
    LET start == IF e.match.valid /\ e.match.end > e.cur THEN e.match.end ELSE e.cur
    IN IF \E i \in places : i >= start THEN Least({i \in places : i >= start}) ELSE Least(places)
PrevOf(e, places) ==
    LET start == IF e.cur = 0 THEN Length(e) ELSE e.cur
    IN IF \E i \in places : i < start THEN Greatest({i \in places : i < start}) ELSE Greatest(places)
FindEnter(shift) ==
    LET e == [ed EXCEPT !.find = FALSE]
        places == {i \in 0 .. Length(ed) : MatchAt(ed.buf, ed.query, i)}
        i == IF shift THEN PrevOf(e, places) ELSE NextOf(e, places)
    IN /\ ed.open /\ ed.find
       /\ last' = IF ed.query = <<>> THEN last ELSE ed.query
       /\ IF ed.query = <<>> THEN Show(e) /\ UNCHANGED missed
          ELSE IF places = {} THEN Show([e EXCEPT !.match = NoMatch]) /\ missed' = TRUE
          ELSE /\ Show([e EXCEPT !.match = [valid |-> TRUE, start |-> i, end |-> i + Len(ed.query)], !.cur = i])
               /\ missed' = FALSE
       /\ UNCHANGED <<clip, disk, steps, partial, base>>
-----------------------------------------------------------------------------
(* Saving and closing.  A failed write may leave a FAT32 file in pieces. *)
Shut ==
    /\ ed' = Closed /\ shown' = Blank
    /\ partial' = FALSE /\ base' = <<>> /\ missed' = FALSE /\ lost' = FALSE /\ grown' = FALSE
    /\ UNCHANGED <<clip, last, head, steps>>
Save ==
    /\ ed.open /\ ~ed.find /\ disk' = [disk EXCEPT !.data = ed.buf] /\ partial' = FALSE /\ base' = ed.buf
    /\ Show([ed EXCEPT !.dirty = FALSE]) /\ UNCHANGED <<clip, last, steps, missed>>
SaveFails ==
    /\ ed.open /\ ~ed.find
    /\ disk' = disk \/ (disk.fat /\ disk' = [disk EXCEPT !.data = Gone])
    /\ Show(ed) /\ UNCHANGED <<clip, last, steps, partial, base, missed>>
SaveAndClose ==
    ed.open /\ ~ed.find /\ disk' = [disk EXCEPT !.data = ed.buf] /\ Shut
\* Esc, or Ctrl+Shift+W in a search too
Close == ed.open /\ Shut /\ UNCHANGED disk
-----------------------------------------------------------------------------
EditorNext ==
    \/ \E hex \in BOOLEAN : Open(hex)
    \/ \E c \in Glyphs : Insert(c) \/ FindType(c)
    \/ Backspace \/ Delete \/ SelectAll \/ Copy \/ CutOut \/ Paste
    \/ \E shift, ctrl \in BOOLEAN : Left(shift, ctrl) \/ Right(shift, ctrl) \/ Home(shift, ctrl) \/ End(shift, ctrl)
    \/ \E shift \in BOOLEAN : Up(shift) \/ Down(shift) \/ Page(shift, TRUE) \/ Page(shift, FALSE)
    \/ HexMove \/ HexDelete \/ HexBackspace \/ \E h \in Nibbles : HexDigit(h)
    \/ FindOpen \/ FindBackspace \/ FindCancel \/ \E shift \in BOOLEAN : FindEnter(shift)
    \/ Save \/ SaveFails \/ SaveAndClose \/ Close

EditorSpec == EditorInit /\ [][EditorNext]_editorVars
-----------------------------------------------------------------------------
(* The layout a reader expects, in closed form: a line of n characters with *)
(* its newline takes n \div Width + 1 rows.                                 *)
RowsAbove(e, i) ==
    FoldSet(LAMBDA k, n : n + (k - 1 - LineStart(e, k - 1)) \div Width + 1, 0, {k \in 1 .. i : e.buf[k] = NL})
Place(e, i) ==
    LET k == i - LineStart(e, i) IN <<RowsAbove(e, i) + k \div Width, k % Width>>
SoftBreak(e, i) == i > 0 /\ Place(e, i)[2] = 0 /\ e.buf[i] # NL

\* The screen shows the rows of the text from the top of the window on, and
\* the hardware cursor stands on the character the next key acts on, or
\* behind the last one of its row: the walks of editor_render over rows,
\* columns and window agree with the layout.  The cursor's row is in the
\* window, except right after a header that came out taller than the one
\* before it, by which the window had been moved: the first one since the
\* machine was started, and a query that no longer fits its row.  Excused
\* are a window over whose top a selection was replaced, and a cursor that a
\* page up or a jump left at the top of the window in the middle of a line.
ShownAsLaidOut ==
    ed.open /\ ~lost =>
        IF ed.hex
        THEN LET row == (ed.cur - ed.top) \div HexWidth
             IN /\ ed.top % HexWidth = 0
                /\ row < DrawnRows(ed) \/ grown
                /\ row < DrawnRows(ed) =>
                     /\ shown.at = <<row, ed.cur % HexWidth>>
                     /\ ed.cur < Length(ed) => shown.cells[shown.at[1]][shown.at[2]] = {ed.buf[ed.cur + 1]}
        ELSE LET place(i) == <<Place(ed, i)[1] - Place(ed, ed.top)[1], Place(ed, i)[2]>>
                 mine == place(ed.cur)
                 before == <<mine[1] - 1, Width - 1>>
             IN /\ Place(ed, ed.top)[2] = 0
                /\ \A k \in 0 .. DrawnRows(ed) - 1, c \in 0 .. Width - 1 :
                       shown.cells[k][c] = {ed.buf[i] : i \in {j \in 1 .. Length(ed) : ed.buf[j] # NL /\ place(j - 1) = <<k, c>>}}
                /\ mine[1] >= 0
                /\ IF SoftBreak(ed, ed.cur)
                   THEN /\ before[1] < DrawnRows(ed) \/ grown
                        /\ before[1] < DrawnRows(ed) => shown.at = before \/ ed.cur = ed.top
                   ELSE /\ mine[1] < DrawnRows(ed) \/ grown
                        /\ mine[1] < DrawnRows(ed) => shown.at = mine

\* A buffer that is not marked as modified is the text as it was last loaded
\* or written whole: every way to change it sets editor_dirty, and only a
\* complete write resets it.  That text is what the file holds, unless the
\* file was too large to be loaded whole, or a failed write to FAT32 has left
\* it in pieces, for which editor_save does not set the mark (LiveMark).
CleanMeansSaved ==
    ed.open =>
        /\ ~ed.dirty => ed.buf = base
        /\ partial \/ disk.data = base \/ (disk.fat /\ disk.data = Gone)

\* "Editor now shows a live `[modified]` indicator in header" (CHANGELOG.md:70):
\* without it, the file that was loaded whole holds what the editor shows.
LiveMark == ed.open /\ ~ed.dirty /\ ~partial => disk.data = ed.buf

\* A highlighted match spells the query that was searched for, wherever the
\* text has been edited since, and a search that reports nothing is right.
FindSound ==
    /\ ed.open /\ ed.match.valid => /\ MatchAt(ed.buf, last, ed.match.start)
                                    /\ ed.match.end = ed.match.start + Len(last)
    /\ missed => \A i \in 0 .. Length(ed) : ~MatchAt(ed.buf, last, i)
=============================================================================
