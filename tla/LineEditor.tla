----------------------------- MODULE LineEditor -----------------------------
(***************************************************************************)
(* The command line of kernel/terminal.c: the line being typed and the     *)
(* screen row that shows it, selection and clipboard, history with its     *)
(* recall by arrows, by search and by `!!' and `!N', completion, and lines *)
(* read on behalf of a running program.                                    *)
(*                                                                         *)
(* The row is not drawn from the line as a whole: most handlers redraw it  *)
(* up to the longer of the old and the new length, some write single cells,*)
(* and terminal_last_drawn_length remembers how much may have to be        *)
(* blanked.  One action is one key with the modifiers held.                *)
(***************************************************************************)
EXTENDS Integers, Sequences, FiniteSets, SequencesExt

CONSTANTS
    Size,           \* INPUT_BUFFER_SIZE
    HistorySize,    \* HISTORY_SIZE
    Chars,          \* what can be typed, with " ", "!" and digits among them
    Value(_),       \* the number a digit stands for, -1 for no digit
    Commands,       \* cmd_list and the aliases
    Listing(_),     \* directory part of a word -> its entries [name, dir]
    Past,           \* the lines in the history at the start, oldest first
    Elsewhere,      \* texts the full-screen editor may leave on the clipboard
    TermMax,        \* the longest search term (62)
    MaxTyped,       \* bound: characters typed or pasted in a behaviour
    MaxOdd,         \* bound: how often one searches, completes, clears
                    \* the screen, cuts, or starts to browse the history
    MaxLines        \* bound: lines submitted in a behaviour

Blank == " "
Junk == "#"         \* a byte behind the end of the line, or search text
Glyphs == Chars \cup {"/"}     \* the keypad and directories add "/"
AnyByte == Glyphs \cup {Junk}

ASSUME LineAssumption ==
    /\ {Size, HistorySize} \subseteq Nat \ {0}
    /\ TermMax \in Nat /\ MaxTyped \in Nat /\ MaxLines \in Nat
    /\ Blank \in Chars /\ Junk \notin Chars
    /\ \A c \in AnyByte : Value(c) \in -1 .. 9
    /\ \A c \in Commands : c \in Seq(Glyphs) /\ Len(c) + 1 < Size
    /\ \A n \in 0 .. Size : \A dir \in [1 .. n -> AnyByte] :
           Listing(dir) \subseteq [name : Seq(Glyphs), dir : BOOLEAN]
    /\ Elsewhere \subseteq Seq(Glyphs)
    /\ \A past \in Past : /\ past \in Seq(Seq(Glyphs)) /\ Len(past) <= HistorySize
                          /\ \A n \in 1 .. Len(past) : past[n] # <<>> /\ Len(past[n]) < Size
                          /\ \A n \in 2 .. Len(past) : past[n] # past[n - 1]

VARIABLES
    line,       \* input_buffer, cursor_pos, selection, last_drawn and the row
    hist,       \* history, history_start, history_count
    browse,     \* history_pos and history_draft
    search,     \* rsearch_active, rsearch_term, rsearch_match
    clip,       \* editor_clipboard
    mode,       \* who reads the keys: the prompt, a program's read_line, or
                \* no one while a command runs
    typed,      \* how much has been typed
    odd,        \* how many of these there were
    lines,      \* how many lines have been submitted
    recent,     \* history: the lines submitted, without repetitions
    recalled,   \* history: what the last `!N' or `!!' should have run and ran
    smeared,    \* history: cells of this row may show something else
    strayed     \* history: a selection may reach beyond the line

vars == <<line, hist, browse, search, clip, mode, typed, odd, lines, recent, recalled, smeared, strayed>>
-----------------------------------------------------------------------------
(* The line and its row.  Cell i of the row is prompt_vga_start + i. *)
Larger(a, b) == IF a > b THEN a ELSE b
Smaller(a, b) == IF a < b THEN a ELSE b
Cells == 0 .. Size
Empty(row) == [buf |-> <<>>, cur |-> 0, sel |-> FALSE, anchor |-> 0, drawn |-> 0, row |-> row, hw |-> 0]
Fresh == Empty([i \in Cells |-> Blank])

HasSelection(l) == l.sel /\ l.anchor # l.cur
From(l) == Smaller(l.anchor, l.cur)
To(l) == Larger(l.anchor, l.cur)
ClearSelection(l) == [l EXCEPT !.sel = FALSE, !.anchor = l.cur]
Bytes(l, i, j) == [k \in 1 .. j - i |-> IF i + k <= Len(l.buf) THEN l.buf[i + k] ELSE Junk]

\* Mutant: the redraw forgets how far the row was drawn before.
JustTheLine(l) == Len(l.buf) + 1
ClearTo(l) == Larger(l.drawn, Len(l.buf) + 1)

\* terminal_redraw_input_line
Redraw(l) ==
    [l EXCEPT !.row = [i \in Cells |-> CASE i < Len(l.buf) -> l.buf[i + 1]
                                         [] i >= Len(l.buf) /\ i < ClearTo(l) /\ i < Size - 1 -> Blank
                                         [] OTHER -> l.row[i]],
              !.drawn = Len(l.buf), !.hw = l.cur,
              !.anchor = IF l.sel THEN l.anchor ELSE l.cur]

ClearLine(l) ==
    Empty([i \in Cells |-> IF i < Larger(l.drawn, Len(l.buf)) THEN Blank ELSE l.row[i]])

DeleteRange(l, start, end) ==
    IF end <= start \/ start > Len(l.buf) THEN l
    ELSE LET e == Smaller(end, Len(l.buf)) IN
         Redraw(ClearSelection([l EXCEPT !.buf = SubSeq(@, 1, start) \o SubSeq(@, e + 1, Len(@)), !.cur = start]))

DeleteSelection(l) == IF HasSelection(l) THEN DeleteRange(l, From(l), To(l)) ELSE l

InsertText(l, text) ==
    IF text = <<>> THEN l
    ELSE LET d == DeleteSelection(l) IN
         IF Len(d.buf) + Len(text) >= Size THEN d
         ELSE Redraw(ClearSelection([d EXCEPT !.buf = SubSeq(@, 1, d.cur) \o text \o SubSeq(@, d.cur + 1, Len(@)),
                                              !.cur = @ + Len(text)]))

\* clear_input_line, the copy from the history, draw_from_buffer
Replace(l, text) == Redraw(ClearSelection([ClearLine(l) EXCEPT !.buf = text, !.cur = Len(text)]))

\* The copy of a completion: the cells are written, last_drawn stays 0.
WriteOut(l, text) ==
    [l EXCEPT !.buf = text, !.cur = Len(text), !.hw = Len(text),
              !.row = [i \in Cells |-> IF i < Len(text) THEN text[i + 1] ELSE @[i]]]

\* A move of the cursor: the selection grows with shift and goes without.
MoveTo(l, to, shift) ==
    LET anchored == IF shift /\ ~l.sel THEN [l EXCEPT !.sel = TRUE, !.anchor = l.cur] ELSE l
        moved == [anchored EXCEPT !.cur = to]
    IN Redraw(IF ~shift THEN ClearSelection(moved)
              ELSE IF moved.anchor = to THEN [moved EXCEPT !.sel = FALSE] ELSE moved)
-----------------------------------------------------------------------------
(* The history: a ring of HistorySize lines. *)
Nth(h, i) == h.ring[(h.start + i) % HistorySize]

NextSlot(h) == (h.start + h.count) % HistorySize

Push(h, text) ==
    CASE text = <<>> \/ (h.count > 0 /\ Nth(h, h.count - 1) = text) -> h
      [] text # <<>> /\ ~(h.count > 0 /\ Nth(h, h.count - 1) = text) /\ h.count < HistorySize ->
            [h EXCEPT !.ring[NextSlot(h)] = text, !.count = @ + 1]
      [] OTHER -> [h EXCEPT !.ring[NextSlot(h)] = text, !.start = (@ + 1) % HistorySize]

Listed(h) == [n \in 1 .. h.count |-> Nth(h, n - 1)]     \* what `history' prints

HasTerm(text, term) == \E i \in 0 .. Len(text) - Len(term) : SubSeq(text, i + 1, i + Len(term)) = term
\* rsearch_find: the newest line from `from' backwards that has the term
FindBack(h, term, from) ==
    LET at == {i \in 0 .. from : HasTerm(Nth(h, i), term)} IN
    IF term = <<>> \/ h.count = 0 \/ at = {} THEN -1 ELSE CHOOSE i \in at : \A j \in at : j <= i
-----------------------------------------------------------------------------
(* Completion of the line. *)
Position(text, c) == {i \in 1 .. Len(text) : text[i] = c}
After(text, c) == IF Position(text, c) = {} THEN 0 ELSE CHOOSE i \in Position(text, c) : \A j \in Position(text, c) : j <= i
Starting(names, p) == {n \in names : IsPrefix(p, n)}
CommonPrefix(names) ==
    LET shared == {k \in 0 .. Size : \A n, m \in names : k <= Len(n) /\ SubSeq(n, 1, k) = SubSeq(m, 1, k)}
    IN SubSeq(CHOOSE n \in names : TRUE, 1, CHOOSE k \in shared : \A j \in shared : j <= k)
Fit(text) == SubSeq(text, 1, Smaller(Len(text), Size - 1))

\* The list of the candidates is printed and the line shown again below it.
ListMatches(l) == WriteOut(Fresh, l.buf)

CompleteCommand(l) ==
    LET found == Starting(Commands, l.buf)
        common == CommonPrefix(found)
    IN CASE found = {} -> l
         [] Cardinality(found) = 1 -> WriteOut(ClearLine(l), common \o <<Blank>>)
         [] Cardinality(found) > 1 /\ Len(common) > Len(l.buf) -> WriteOut(ClearLine(l), common)
         [] OTHER -> ListMatches(l)

CompletePath(l) ==
    LET word == SubSeq(l.buf, After(l.buf, Blank) + 1, Len(l.buf))
        slash == After(word, "/")
        part == SubSeq(word, slash + 1, Len(word))
        kept == SubSeq(l.buf, 1, Len(l.buf) - Len(part))
        found == {e \in Listing(SubSeq(word, 1, slash)) : IsPrefix(part, e.name)}
        common == CommonPrefix({e.name : e \in found})
    IN CASE found = {} -> l
         [] Cardinality(found) = 1 ->
               WriteOut(ClearLine(l), Fit(Fit(kept \o common) \o (IF \E e \in found : e.dir THEN <<"/">> ELSE <<Blank>>)))
         [] Cardinality(found) > 1 /\ Len(common) > Len(part) -> WriteOut(ClearLine(l), Fit(kept \o common))
         [] OTHER -> ListMatches(l)

Complete(l) == IF Position(l.buf, Blank) = {} THEN CompleteCommand(l) ELSE CompletePath(l)
-----------------------------------------------------------------------------
\* The draft is not read again once the browsing is over.
NotBrowsing == [pos |-> -1, draft |-> <<>>]
Nothing == [due |-> <<>>, ran |-> <<>>, full |-> FALSE]
Init ==
    /\ line = Fresh
    /\ recent \in Past
    /\ hist = [ring |-> [i \in 0 .. HistorySize - 1 |-> IF i < Len(recent) THEN recent[i + 1] ELSE <<>>],
                start |-> 0, count |-> Len(recent)]
    /\ browse = NotBrowsing
    /\ search = [on |-> FALSE, term |-> <<>>, match |-> -1]
    /\ clip = <<>> /\ mode = "prompt" /\ typed = 0 /\ odd = 0 /\ lines = 0
    /\ recalled = Nothing
    /\ smeared = FALSE /\ strayed = FALSE

Reading == mode \in {"prompt", "program"}
Editing == Reading /\ ~search.on
Edit(l) == line' = l
JustLine == UNCHANGED <<hist, browse, search, clip, mode, typed, odd, lines, recent, recalled, smeared, strayed>>
Spent(n) == typed + n <= MaxTyped /\ typed' = typed + n
Odd == odd < MaxOdd /\ odd' = odd + 1

Type(c) ==
    /\ Editing /\ Spent(1) /\ Len(line.buf) < Size - 1
    /\ Edit(InsertText(line, <<c>>))
    /\ UNCHANGED <<hist, browse, search, clip, mode, odd, lines, recent, recalled, smeared, strayed>>

\* The keypad's key is looked at before the test for a full line.
KeypadSlash ==
    /\ Editing /\ Spent(1)
    /\ Len(line.buf) < Size - 1 \/ HasSelection(line)
    /\ Edit(InsertText(line, <<"/">>))
    /\ UNCHANGED <<hist, browse, search, clip, mode, odd, lines, recent, recalled, smeared, strayed>>

Paste ==
    /\ Editing /\ clip # <<>> /\ Spent(Len(clip))
    /\ Edit(InsertText(line, clip))
    /\ UNCHANGED <<hist, browse, search, clip, mode, odd, lines, recent, recalled, smeared, strayed>>

\* handle_backspace: without a selection only the cells behind the cursor
\* are written again.
Backspace ==
    /\ Editing
    /\ IF HasSelection(line) THEN Edit(DeleteSelection(line))
       ELSE /\ line.cur > 0
            /\ LET b == SubSeq(line.buf, 1, line.cur - 1) \o SubSeq(line.buf, line.cur + 1, Len(line.buf)) IN
               Edit(ClearSelection([line EXCEPT
                   !.buf = b, !.cur = @ - 1, !.hw = line.cur - 1,
                   !.row = [i \in Cells |-> CASE i >= line.cur - 1 /\ i < Len(b) -> b[i + 1]
                                              [] i = Len(b) -> Blank
                                              [] OTHER -> @[i]]]))
    /\ JustLine

Delete ==
    /\ Editing
    /\ \/ HasSelection(line) /\ Edit(DeleteSelection(line))
       \/ ~HasSelection(line) /\ line.cur < Len(line.buf) /\ Edit(DeleteRange(line, line.cur, line.cur + 1))
    /\ JustLine

IsWord(c) == c \notin {Blank, "!", "/", Junk}
Least(S) == CHOOSE i \in S : \A j \in S : i <= j
Back(buf, from, P(_)) == Least({i \in 0 .. from : \A j \in i + 1 .. from : P(buf[j])})
Ahead(buf, from, P(_)) == LET S == {i \in from .. Len(buf) : \A j \in from + 1 .. i : P(buf[j])}
                          IN CHOOSE i \in S : \A j \in S : j <= i
NoWord(c) == ~IsWord(c)
WordLeft(l) == Back(l.buf, Back(l.buf, l.cur, NoWord), IsWord)
WordRight(l) == Ahead(l.buf, Ahead(l.buf, l.cur, IsWord), NoWord)

Left(shift, ctrl) ==
    /\ Editing /\ line.cur > 0
    /\ Edit(MoveTo(line, IF ctrl THEN WordLeft(line) ELSE line.cur - 1, shift)) /\ JustLine
Right(shift, ctrl) ==
    /\ Editing /\ line.cur < Len(line.buf)
    /\ Edit(MoveTo(line, IF ctrl THEN WordRight(line) ELSE line.cur + 1, shift)) /\ JustLine
Home(shift) == Editing /\ Edit(MoveTo(line, 0, shift)) /\ JustLine
End(shift) == Editing /\ Edit(MoveTo(line, Len(line.buf), shift)) /\ JustLine
SelectAll ==
    Editing /\ Edit(Redraw([line EXCEPT !.sel = TRUE, !.anchor = 0, !.cur = Len(line.buf)])) /\ JustLine

KillBefore == Editing /\ line.cur > 0 /\ Edit(DeleteRange(line, 0, line.cur)) /\ JustLine
KillAfter ==
    Editing /\ line.cur < Len(line.buf) /\ Edit(DeleteRange(line, line.cur, Len(line.buf))) /\ JustLine
IsBlank(c) == c = Blank
NoBlank(c) == c # Blank
KillWord ==
    /\ Editing /\ line.cur > 0
    /\ Edit(DeleteRange(line, Back(line.buf, Back(line.buf, line.cur, IsBlank), NoBlank), line.cur)) /\ JustLine

\* Ctrl+X; the branch of Ctrl+C that copies comes after the one that cancels.
Cut ==
    /\ Editing /\ Odd /\ HasSelection(line)
    /\ clip' = Bytes(line, From(line), To(line))
    /\ Edit(DeleteRange(line, From(line), To(line)))
    /\ UNCHANGED <<hist, browse, search, mode, typed, lines, recent, recalled, smeared, strayed>>

Up ==
    /\ Editing /\ hist.count > 0 /\ browse.pos # 0 /\ IF browse.pos = -1 THEN Odd ELSE UNCHANGED odd
    /\ LET pos == IF browse.pos = -1 THEN hist.count - 1 ELSE browse.pos - 1 IN
       /\ browse' = [pos |-> pos, draft |-> IF browse.pos = -1 THEN line.buf ELSE browse.draft]
       /\ Edit(Replace(line, Nth(hist, pos)))
    /\ UNCHANGED <<hist, search, clip, mode, typed, lines, recent, recalled, smeared, strayed>>
Down ==
    /\ Editing /\ browse.pos # -1
    /\ IF browse.pos < hist.count - 1
       THEN browse' = [browse EXCEPT !.pos = @ + 1] /\ Edit(Replace(line, Nth(hist, browse.pos + 1)))
       ELSE browse' = NotBrowsing /\ Edit(Replace(line, browse.draft))
    /\ UNCHANGED <<hist, search, clip, mode, typed, odd, lines, recent, recalled, smeared, strayed>>

Tab ==
    /\ Editing /\ Odd
    /\ Edit(Complete(line)) /\ smeared' = (smeared \/ Complete(line) # line)
    /\ UNCHANGED <<hist, browse, search, clip, mode, typed, lines, recent, recalled, strayed>>

ClearScreen ==
    /\ Editing /\ Odd /\ Edit(WriteOut(Fresh, line.buf)) /\ smeared' = (line.buf # <<>>)
    /\ UNCHANGED <<hist, browse, search, clip, mode, typed, lines, recent, recalled, strayed>>

\* Ctrl+C: an empty line only gets a "^C" that no prompt follows; any other
\* is dropped, and the place in the history stays.
Interrupt ==
    /\ Editing
    /\ IF line.buf = <<>>
       THEN /\ Edit([line EXCEPT !.row[0] = "^", !.row[1] = "C", !.hw = -1])
            /\ smeared' = TRUE
       ELSE Edit(Fresh) /\ smeared' = FALSE
    /\ UNCHANGED <<hist, browse, search, clip, mode, typed, odd, lines, recent, recalled, strayed>>
-----------------------------------------------------------------------------
(* Search in the history. *)
Searched(l) == [l EXCEPT !.row = [i \in Cells |-> Junk], !.hw = -1]
OpenSearch ==
    /\ Editing /\ Odd
    /\ search' = [on |-> TRUE, term |-> <<>>, match |-> -1]
    /\ Edit(Searched(line)) /\ smeared' = TRUE
    /\ UNCHANGED <<hist, browse, clip, mode, typed, lines, recent, recalled, strayed>>
LookFor(term) == search' = [search EXCEPT !.term = term, !.match = FindBack(hist, term, hist.count - 1)]
SearchType(c) ==
    /\ Reading /\ search.on /\ Len(search.term) < TermMax /\ Spent(1) /\ LookFor(Append(search.term, c))
    /\ UNCHANGED <<line, hist, browse, clip, mode, odd, lines, recent, recalled, smeared, strayed>>
SearchBack ==
    /\ Reading /\ search.on /\ search.term # <<>> /\ LookFor(Front(search.term))
    /\ UNCHANGED <<line, hist, browse, clip, mode, typed, odd, lines, recent, recalled, smeared, strayed>>
SearchOlder ==
    /\ Reading /\ search.on /\ search.match > 0
    /\ search' = [search EXCEPT !.match = FindBack(hist, search.term, search.match - 1)]
    /\ UNCHANGED <<line, hist, browse, clip, mode, typed, odd, lines, recent, recalled, smeared, strayed>>
CancelSearch ==
    /\ Reading /\ search.on
    /\ search' = [search EXCEPT !.on = FALSE] /\ Edit(Redraw(line))
    /\ UNCHANGED <<hist, browse, clip, mode, typed, odd, lines, recent, recalled, smeared, strayed>>

\* rsearch_accept: the selection of the old line stays.
Accepted == IF search.match < 0 THEN Redraw(line)
            ELSE LET text == Nth(hist, search.match) IN Redraw([line EXCEPT !.buf = text, !.cur = Len(text)])
\* A key that stands for no character: the match is taken and the key goes
\* on to the line; Tab is the one that does something there.
AcceptSearch(tab) ==
    /\ Reading /\ search.on
    /\ search' = [search EXCEPT !.on = FALSE]
    /\ Edit(IF tab THEN Complete(Accepted) ELSE Accepted)
    /\ strayed' = (strayed \/ (Accepted.sel /\ Accepted.anchor > Len(Accepted.buf)))
    /\ UNCHANGED <<hist, browse, clip, mode, typed, odd, lines, recent, recalled, smeared>>
-----------------------------------------------------------------------------
(* The end of a line. *)
IsDigit(c) == Value(c) >= 0
DigitsOf(text) == SubSeq(text, 2, Ahead(text, 1, IsDigit))
Number(text) ==
    LET d == DigitsOf(text)
        upto[k \in 0 .. Len(d)] == IF k = 0 THEN 0 ELSE upto[k - 1] * 10 + Value(d[k])
    IN upto[Len(d)]
IsLast(text) == Len(text) >= 2 /\ text[1] = "!" /\ text[2] = "!" /\ (Len(text) = 2 \/ text[3] = Blank)
IsNth(text) == Len(text) >= 2 /\ text[1] = "!" /\ ~IsLast(text) /\ Value(text[2]) >= 1

\* Mutant: `!!' is looked up as if it had not been pushed.
LastIsNewest(h) == Nth(h, h.count - 1)
LastBefore(h) == Nth(h, h.count - 2)

\* The line that runs, <<>> when there is no such event; h has the line.
Expand(text, h) ==
    CASE IsLast(text) /\ h.count >= 2 ->
            LET old == LastBefore(h)
                more == SubSeq(text, 4, Len(text))
            IN IF more # <<>> /\ Len(old) + 1 + Len(more) < Size THEN old \o <<Blank>> \o more ELSE old
      [] IsNth(text) /\ Number(text) <= h.count - 1 -> Nth(h, Number(text) - 1)
      [] IsLast(text) /\ h.count < 2 -> <<>>
      [] IsNth(text) /\ Number(text) > h.count - 1 -> <<>>
      [] OTHER -> text

\* What `!N' should run by the list that `history' prints before it.
Due(text, h) ==
    CASE IsNth(text) /\ Number(text) <= h.count /\ Nth(h, h.count - 1) # text -> Nth(h, Number(text) - 1)
      [] text = <<"!", "!">> /\ h.count > 0 /\ Nth(h, h.count - 1) # text -> Nth(h, h.count - 1)
      [] OTHER -> Expand(text, Push(h, text))

LastOf(s, n) == SubSeq(s, Larger(1, Len(s) - n + 1), Len(s))
\* submit_current_line of the line l
Submit(l) ==
    /\ lines < MaxLines /\ lines' = lines + 1
    /\ browse' = NotBrowsing
    /\ IF mode = "program"
       THEN /\ line' = [l EXCEPT !.buf = <<>>, !.cur = 0]
            /\ mode' = "run"
            /\ UNCHANGED <<hist, recent, recalled, smeared>>
       ELSE LET h == Push(hist, l.buf)
                ran == Expand(l.buf, h)
            IN /\ hist' = h
               /\ recent' = IF l.buf = <<>> \/ (recent # <<>> /\ Last(recent) = l.buf) THEN recent
                            ELSE LastOf(Append(recent, l.buf), HistorySize)
               /\ recalled' = [due |-> Due(l.buf, hist), ran |-> ran, full |-> hist.count = HistorySize]
               /\ IF ran = <<>> /\ l.buf # <<>>
                  THEN line' = Fresh /\ smeared' = FALSE /\ UNCHANGED mode
                  ELSE line' = [l EXCEPT !.buf = ran] /\ mode' = "run" /\ UNCHANGED smeared
    /\ UNCHANGED <<clip, typed, odd>>
Enter == Editing /\ Submit(line) /\ UNCHANGED <<search, strayed>>
SearchEnter ==
    /\ Reading /\ search.on /\ search' = [search EXCEPT !.on = FALSE]
    /\ Submit(Accepted)
    /\ strayed' = (strayed \/ (Accepted.sel /\ Accepted.anchor > Len(Accepted.buf)))

\* terminal_read_line: neither the selection nor last_drawn is reset.
ReadLine ==
    /\ mode = "run" /\ mode' = "program"
    /\ Edit([line EXCEPT !.buf = <<>>, !.cur = 0, !.hw = 0, !.row = Fresh.row])
    /\ smeared' = FALSE /\ strayed' = (strayed \/ (line.sel /\ line.anchor > 0))
    /\ recalled' = Nothing /\ UNCHANGED <<hist, browse, search, clip, typed, odd, lines, recent>>
\* The command was `edit': editor_close comes back with another clipboard.
EditFile(text) ==
    /\ mode = "run" /\ mode' = "prompt" /\ clip' = text /\ Edit(Fresh) /\ smeared' = FALSE
    /\ recalled' = Nothing /\ UNCHANGED <<hist, browse, search, typed, odd, lines, recent, strayed>>
Return ==
    /\ mode = "run" /\ mode' = "prompt" /\ Edit(Fresh) /\ smeared' = FALSE
    /\ recalled' = Nothing /\ UNCHANGED <<hist, browse, search, clip, typed, odd, lines, recent, strayed>>
-----------------------------------------------------------------------------
Next ==
    \/ \E c \in Chars : Type(c) \/ SearchType(c)
    \/ KeypadSlash \/ Paste \/ Backspace \/ Delete \/ SelectAll \/ KillBefore \/ KillAfter \/ KillWord \/ Cut
    \/ \E shift, ctrl \in BOOLEAN : Left(shift, ctrl) \/ Right(shift, ctrl)
    \/ \E shift \in BOOLEAN : Home(shift) \/ End(shift)
    \/ Up \/ Down \/ Tab \/ ClearScreen \/ Interrupt
    \/ OpenSearch \/ SearchBack \/ SearchOlder \/ CancelSearch \/ \E tab \in BOOLEAN : AcceptSearch(tab)
    \/ Enter \/ SearchEnter \/ ReadLine \/ Return \/ \E text \in Elsewhere : EditFile(text)

Spec == Init /\ [][Next]_vars
-----------------------------------------------------------------------------
\* The row shows the line and nothing else, and the cursor stands where the
\* next character goes: the partial redraws of terminal_redraw_input_line,
\* handle_backspace, clear_input_line and the arrows add up.  Not promised
\* from a search, Ctrl+L, Tab or a Ctrl+C on the empty line to the next prompt.
ShownInRow ==
    Reading /\ ~smeared =>
        /\ \A i \in Cells : line.row[i] = IF i < Len(line.buf) THEN line.buf[i + 1] ELSE Blank
        /\ line.hw = line.cur

\* And cursor and selection lie within the line and the line within its
\* buffer, so that no byte from behind the line gets into it or onto the
\* clipboard; rsearch_accept and terminal_read_line, which change the line
\* under a selection, are excused.
RowShowsLine ==
    /\ ShownInRow
    /\ line.cur <= Len(line.buf) \/ mode = "run"
    /\ Len(line.buf) < Size
    /\ ~strayed => /\ line.sel => line.anchor <= Len(line.buf) \/ mode = "run"
                   /\ Junk \notin ToSet(clip) \cup ToSet(line.buf)

\* The ring holds the last lines submitted, oldest first, browsing and
\* searching point into it, and `!N' and `!!' run the line that the list of
\* the history showed, as long as the history was not full: then pushing the
\* `!N' line shifts the numbers.
RecallAsListed ==
    /\ Listed(hist) = recent
    /\ browse.pos < hist.count /\ search.match < hist.count
    /\ ~recalled.full => recalled.ran = recalled.due
=============================================================================
