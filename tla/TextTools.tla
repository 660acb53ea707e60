----------------------------- MODULE TextTools -----------------------------
(***************************************************************************)
(* The text commands of kernel/terminal.c as functions from the text they  *)
(* read (a file, or the output of the stage before) to the text they       *)
(* write.  A text is a sequence of character codes.  A command is a record *)
(* [tool, flags, pat, to, nums, files]: the option letters it was given,   *)
(* pattern or sets of characters, its numbers, and the files it names.     *)
(*                                                                         *)
(* Most of them cut the text where a newline or the end is, so that a text *)
(* that ends in a newline has an empty line after it; what each does about *)
(* that line differs.                                                      *)
(***************************************************************************)
EXTENDS Integers, Sequences, FiniteSets, SequencesExt

CONSTANTS
    LineMax,    \* sizeof line_buf - 1, the part of a line that is looked at
    SortMax,    \* the size of cmd_sort's line table
    TacMax,     \* of cmd_tac's
    Columns     \* the screen's width

NL == 10
CR == 13
Blank == 32
ASSUME TextAssumption == {LineMax, SortMax, TacMax, Columns} \subseteq Nat \ {0}

Lesser(a, b) == IF a < b THEN a ELSE b
Abs(n) == IF n < 0 THEN 0 - n ELSE n

\* uint_to_dec, and the sign the callers write
Dec(n) == LET D[k \in Nat] == IF k < 10 THEN <<48 + k>> ELSE Append(D[k \div 10], 48 + (k % 10))
          IN (IF n < 0 THEN <<45>> ELSE <<>>) \o D[Abs(n)]
Digit(c) == c \in 48 .. 57
\* the number a line starts with, as `sort -n' and `test' read it
Number(s) ==
    LET t == IF s # <<>> /\ s[1] = 45 THEN Tail(s) ELSE s
        k == SelectInSeq(t, LAMBDA c : ~Digit(c))
        v == FoldLeft(LAMBDA n, c : 10 * n + c - 48, 0, IF k = 0 THEN t ELSE SubSeq(t, 1, k - 1))
    IN IF t = s THEN v ELSE 0 - v
-----------------------------------------------------------------------------
(* Lines. *)
Pieces(t) ==
    FoldLeft(LAMBDA ps, c : IF c = NL THEN Append(ps, <<>>) ELSE [ps EXCEPT ![Len(ps)] = Append(@, c)], <<<<>>>>, t)
Clean(p) ==
    LET s == SubSeq(p, 1, Lesser(Len(p), LineMax))
    IN IF s # <<>> /\ Last(s) = CR THEN Front(s) ELSE s
Lines(t) == [k \in DOMAIN Pieces(t) |-> Clean(Pieces(t)[k])]
WithNL(s) == Append(s, NL)
Written(ls) == FlattenSeq([k \in DOMAIN ls |-> WithNL(ls[k])])
Ended(t) == IF t = <<>> \/ Last(t) = NL THEN t ELSE WithNL(t)

\* cmd_cat adds a newline to every file, but to a stage's output only where
\* it is missing.
Cat(c, t, piped) == IF piped THEN Ended(t) ELSE WithNL(t)

\* cmd_grep
Lower(x) == IF x \in 65 .. 90 THEN x + 32 ELSE x
Same(x, y, flags) == IF "i" \in flags THEN Lower(x) = Lower(y) ELSE x = y
Occurs(pat, l, flags) == \E k \in 0 .. Len(l) - Len(pat) : \A j \in DOMAIN pat : Same(l[k + j], pat[j], flags)
Hit(c, l) == Occurs(c.pat, l, c.flags) # ("v" \in c.flags)
Grep(c, t) ==
    LET ls == Lines(t)
        hits == SelectSeq([k \in DOMAIN ls |-> k], LAMBDA k : Hit(c, ls[k]))
        Shown(k) == (IF "n" \in c.flags THEN Append(Dec(k), 58) ELSE <<>>) \o ls[k]
    IN IF "c" \in c.flags THEN WithNL(Dec(Len(hits))) ELSE Written([h \in DOMAIN hits |-> Shown(hits[h])])

\* cmd_find: the entries of the directory whose name holds the pattern
Find(c, names) == SelectSeq(names, LAMBDA n : Occurs(c.pat, n, {"i"}))

\* cmd_wc
IsSpace(x) == x \in {Blank, 9, NL, CR}
Wc(c, t) ==
    LET n == FoldLeft(LAMBDA a, x : [l |-> a.l + (IF x = NL THEN 1 ELSE 0),
                                     w |-> a.w + (IF ~IsSpace(x) /\ ~a.inside THEN 1 ELSE 0), inside |-> ~IsSpace(x)],
                      [l |-> 0, w |-> 0, inside |-> FALSE], t)
        all == c.flags \cap {"l", "w", "c"} = {}
        Col(f, v) == IF all \/ f \in c.flags THEN <<Blank, Blank>> \o Dec(v) ELSE <<>>
    IN Col("l", n.l) \o Col("w", n.w) \o Col("c", Len(t)) \o <<NL>>

\* cmd_head, cmd_tail: tail counts the lines in another way than it cuts them
Head_(c, t) == LET ls == Lines(t) IN Written(SubSeq(ls, 1, Lesser(c.nums[1], Len(ls))))
LineCount(t) == Len(Pieces(t)) - (IF t = <<>> \/ Last(t) = NL THEN 1 ELSE 0)
Tail_(c, t) ==
    LET ls == Lines(t)
        from == LineCount(t) - c.nums[1]
    IN Written(SubSeq(ls, (IF from < 0 THEN 0 ELSE from) + 1, Len(ls)))

\* cmd_sort
Spaceless(s) == LET k == SelectInSeq(s, LAMBDA x : x # Blank) IN IF k = 0 THEN <<>> ELSE SubSeq(s, k, Len(s))
Above(a, b) ==
    LET d == SelectInSeq([k \in 1 .. Lesser(Len(a), Len(b)) |-> k], LAMBDA k : a[k] # b[k])
    IN IF d = 0 THEN Len(a) > Len(b) ELSE a[d] > b[d]
OutOfOrder(a, b, flags) ==
    LET x == IF "r" \in flags THEN b ELSE a
        y == IF "r" \in flags THEN a ELSE b
    IN IF "n" \in flags THEN Number(Spaceless(x)) > Number(Spaceless(y)) ELSE Above(x, y)
Bubble(ls, last, flags) ==
    FoldLeft(LAMBDA s, j : IF OutOfOrder(s[j], s[j + 1], flags) THEN [s EXCEPT ![j] = s[j + 1], ![j + 1] = s[j]] ELSE s,
             ls, [j \in 1 .. last |-> j])
\* Mutant: the passes end one too early.
OnePassShort(ls, flags) == FoldLeft(LAMBDA s, i : Bubble(s, Len(ls) - i, flags), ls, [i \in 1 .. Len(ls) - 2 |-> i])
Sorted(ls, flags) == FoldLeft(LAMBDA s, i : Bubble(s, Len(ls) - i, flags), ls, [i \in 1 .. Len(ls) - 1 |-> i])
Sort(c, t) ==
    LET ls == Sorted(SubSeq(Pieces(t), 1, Lesser(SortMax, Len(Pieces(t)))), c.flags)
    IN Written(IF Last(ls) = <<>> THEN Front(ls) ELSE ls)

\* cmd_uniq
Group(c, g) ==
    IF g.n = 0 \/ ("d" \in c.flags /\ g.n = 1) \/ ("u" \in c.flags /\ g.n > 1) THEN <<>>
    ELSE <<(IF "c" \in c.flags THEN Append(Dec(g.n), Blank) ELSE <<>>) \o g.l>>
Uniq(c, t) ==
    LET g == FoldLeft(LAMBDA a, l : IF a.n > 0 /\ l = a.l THEN [a EXCEPT !.n = @ + 1]
                                    ELSE [l |-> l, n |-> 1, out |-> a.out \o Group(c, a)],
                      [l |-> <<>>, n |-> 0, out |-> <<>>], Lines(t))
    IN Written(g.out \o Group(c, g))

\* cmd_tr
Translate(x, from, to) ==
    LET k == SelectInSeq(from, LAMBDA y : y = x) IN IF k = 0 THEN x ELSE to[Lesser(k, Len(to))]
Tr(c, t) == Ended([k \in DOMAIN t |-> Translate(t[k], c.pat, c.to)])

\* cmd_cut: nothing at all for a line with too few fields
Fields(l, delim) == Pieces([k \in DOMAIN l |-> IF l[k] = delim THEN NL ELSE l[k]])
Cut(c, t) ==
    LET field == IF c.nums[1] < 1 THEN 1 ELSE c.nums[1]
        rows == SelectSeq(Lines(t), LAMBDA l : Len(Fields(l, c.pat[1])) >= field)
    IN Written([k \in DOMAIN rows |-> Fields(rows[k], c.pat[1])[field]])

\* cmd_rev, cmd_nl, cmd_tac
Rev(c, t) == Written([k \in DOMAIN Lines(t) |-> Reverse(Lines(t)[k])])
Nl(c, t) ==
    LET ls == IF Last(Lines(t)) = <<>> THEN Front(Lines(t)) ELSE Lines(t)
    IN Written([k \in DOMAIN ls |-> Dec(k) \o <<Blank, Blank>> \o ls[k]])
Tac(c, t) ==
    LET ls == SubSeq(Pieces(t), 1, Lesser(TacMax, Len(Pieces(t))))
    IN Written(Reverse(IF Last(ls) = <<>> THEN Front(ls) ELSE ls))

\* cmd_seq (while it ends), cmd_yes
Seq_(c) ==
    LET step == IF c.nums[3] = 0 THEN 1 ELSE c.nums[3]
        n == IF c.nums[2] < c.nums[1] THEN 0 ELSE 1 + (c.nums[2] - c.nums[1]) \div step
    IN Written([k \in 1 .. n |-> Dec(c.nums[1] + (k - 1) * step)])
Yes(c) == Written([k \in 1 .. c.nums[1] |-> c.pat])

\* cmd_cmp: the first byte that differs or that one file has not, 0 for none
Cmp(t, u) ==
    LET d == SelectInSeq([k \in 1 .. Lesser(Len(t), Len(u)) |-> k], LAMBDA k : t[k] # u[k])
    IN IF d > 0 THEN d ELSE IF Len(t) # Len(u) THEN 1 + Lesser(Len(t), Len(u)) ELSE 0

\* cmd_diff: where the next line begins in each file.  The position never
\* passes the end, which is what the loop waits for.
DiffNext(i, t) ==
    LET rest == SubSeq(t, i + 1, Len(t))
        l == Clean(Pieces(rest)[1])
        j == i + Len(l)
    IN IF i <= Len(t) THEN j + (IF j < Len(t) THEN 1 ELSE 0) ELSE i
DiffGoesOn(i, j, t, u) == (i <= Len(t) \/ j <= Len(u)) /\ ~(i > Len(t) /\ j > Len(u))

\* cmd_paste: two blanks between the lines of the two files
Ungrouped(t) == LET ps == Pieces(t) IN IF Last(ps) = <<>> THEN Front(ps) ELSE ps
Paste(c, t, u) ==
    LET a == Ungrouped(t)
        b == Ungrouped(u)
        Row(s, k) == IF k \in DOMAIN s THEN s[k] ELSE <<>>
    IN Written([k \in 1 .. (IF Len(a) > Len(b) THEN Len(a) ELSE Len(b)) |-> Row(a, k) \o c.pat \o Row(b, k)])

\* cmd_column
WordsOf(t) ==
    LET ps == Pieces([k \in DOMAIN t |-> IF t[k] \in {Blank, NL, CR} THEN NL ELSE t[k]])
    IN SelectSeq(ps, LAMBDA w : w # <<>>)
Column(t) ==
    LET ws == WordsOf(t)
        wide == Max({Len(ws[k]) : k \in DOMAIN ws}) + 2
        per == IF Columns \div wide < 1 THEN 1 ELSE Columns \div wide
        After(k) == IF k % per = 0 \/ k = Len(ws) THEN <<NL>> ELSE [j \in 1 .. wide - Len(ws[k]) |-> Blank]
    IN IF ws = <<>> THEN <<>> ELSE FlattenSeq([k \in DOMAIN ws |-> ws[k] \o After(k)])

\* cmd_strings
Strings(c, t) ==
    LET least == IF c.nums[1] < 1 THEN 1 ELSE c.nums[1]
        runs == Pieces([k \in DOMAIN t |-> IF t[k] \in 32 .. 126 THEN t[k] ELSE NL])
    IN Written(SelectSeq(runs, LAMBDA r : Len(r) >= least))

\* cmd_factor
Factor(n) ==
    LET F[m \in 1 .. n, d \in 2 .. n + 1] ==
            IF m = 1 THEN <<>>
            ELSE IF m % d = 0 THEN <<d>> \o F[m \div d, d]
            ELSE F[m, IF (d + 1) * (d + 1) > m THEN m ELSE d + 1]
    IN F[n, 2]
Factors(c) == LET fs == Factor(c.nums[1]) IN Written([k \in DOMAIN fs |-> Dec(fs[k])])
=============================================================================
