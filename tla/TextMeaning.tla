---------------------------- MODULE TextMeaning ----------------------------
(***************************************************************************)
(* What the text commands of TextTools and the words of Words are to give, *)
(* said without the order in which the code finds it: by positions, by     *)
(* sets of lines and by bags, and for a formula by the tree it is the text *)
(* of.                                                                     *)
(***************************************************************************)
EXTENDS Words, Bags

-----------------------------------------------------------------------------
(* The lines of a text: what a newline ends, and what is left after the    *)
(* last one unless that is nothing.                                        *)
Breaks(t) == {i \in DOMAIN t : t[i] = NL}
LinesOf(t) ==
    LET ends == SetToSortSeq(Breaks(t) \cup (IF t = <<>> \/ Last(t) = NL THEN {} ELSE {Len(t) + 1}), <)
    IN [k \in DOMAIN ends |-> SubSeq(t, IF k = 1 THEN 1 ELSE ends[k - 1] + 1, ends[k] - 1)]
Seen(ls) == [k \in DOMAIN ls |-> Clean(ls[k])]

(* Most commands take a text that ends in a newline, and an empty one, for *)
(* a text with an empty line at its end, which no manual page says.        *)
IsEnded(t) == t = <<>> \/ Last(t) = NL
AsRead(t) == Seen(LinesOf(t) \o (IF IsEnded(t) THEN <<<<>>>> ELSE <<>>))

Those(S, ls) == [k \in 1 .. Cardinality(S) |-> ls[SetToSortSeq(S, <)[k]]]
HasIt(c, l) ==
    LET Low(s) == [k \in DOMAIN s |-> IF "i" \in c.flags THEN Lower(s[k]) ELSE s[k]]
    IN \E i \in 1 .. Len(l) + 1, j \in 0 .. Len(l) : Low(SubSeq(l, i, j)) = Low(c.pat)
Wanted(c, ls) == {k \in DOMAIN ls : HasIt(c, ls[k]) = ("v" \notin c.flags)}
GrepMeans(c, ls, out) ==
    LET S == Wanted(c, ls)
        Numbered == [k \in DOMAIN ls |-> (IF "n" \in c.flags THEN Dec(k) \o <<58>> ELSE <<>>) \o ls[k]]
    IN LinesOf(out) = IF "c" \in c.flags THEN <<Dec(Cardinality(S))>> ELSE Those(S, Numbered)

WordStarts(t) == {i \in DOMAIN t : ~IsSpace(t[i]) /\ (i = 1 \/ IsSpace(t[i - 1]))}
WcMeans(c, t, out) ==
    LET all == c.flags \cap {"l", "w", "c"} = {}
        cols == (IF all \/ "l" \in c.flags THEN <<Cardinality(Breaks(t))>> ELSE <<>>)
                  \o (IF all \/ "w" \in c.flags THEN <<Cardinality(WordStarts(t))>> ELSE <<>>)
                  \o (IF all \/ "c" \in c.flags THEN <<Len(t)>> ELSE <<>>)
    IN out = FlattenSeq([k \in DOMAIN cols |-> <<Blank, Blank>> \o Dec(cols[k])]) \o <<NL>>

(* Sorted: in order, and each line that is not empty as often as it is     *)
(* there, equal keys as they came.                                         *)
Full(ls) == SelectSeq(ls, LAMBDA l : l # <<>>)
SortMeans(c, t, out) ==
    LET a == LinesOf(t)
        b == LinesOf(out)
        Key(l) == Number(Spaceless(l))
        Key2(l) == IF "n" \in c.flags THEN <<Key(l)>> ELSE l
    IN /\ \A k \in 1 .. Len(b) - 1 : ~OutOfOrder(b[k], b[k + 1], c.flags)
       /\ \A l \in Range(Full(a)) \cup Range(Full(b)) :
             SelectSeq(Full(b), LAMBDA x : Key2(x) = Key2(l)) = SelectSeq(Full(a), LAMBDA x : Key2(x) = Key2(l))
       /\ (~IsEnded(t) /\ Full(a) = a) => Full(b) = b
\* the lines of the text and no others
SameLines(t, out) ==
    LET Times(x, l) == Cardinality({k \in DOMAIN LinesOf(x) : LinesOf(x)[k] = l})
    IN \A l \in Range(LinesOf(t)) \cup Range(LinesOf(out)) : Times(out, l) = Times(t, l)

(* The last n lines. *)
LastLines(t, n) == LET ls == Seen(LinesOf(t)) IN Written(SubSeq(ls, Max({1, Len(ls) - n + 1}), Len(ls)))

(* A run is a line and the equal ones right behind it. *)
UniqMeans(c, ls, out) ==
    LET heads == {k \in DOMAIN ls : k = 1 \/ ls[k] # ls[k - 1]}
        Long(k) == Min({j \in heads \cup {Len(ls) + 1} : j > k}) - k
        kept == {k \in heads : ("d" \in c.flags => Long(k) > 1) /\ ("u" \in c.flags => Long(k) = 1)}
    IN LinesOf(out) = Those(kept, [k \in DOMAIN ls |-> (IF "c" \in c.flags /\ k \in heads THEN Dec(Long(k)) \o <<Blank>> ELSE <<>>) \o ls[k]])

CutMeans(c, ls, out) ==
    LET delim == c.pat[1]
        f == IF c.nums[1] < 1 THEN 1 ELSE c.nums[1]
        Behind(l, i) == Cardinality({j \in 1 .. i - 1 : l[j] = delim})
        Field(l) == Those({i \in DOMAIN l : l[i] # delim /\ Behind(l, i) = f - 1}, l)
        some == {k \in DOMAIN ls : Behind(ls[k], Len(ls[k]) + 1) >= f - 1}
    IN LinesOf(out) = Those(some, [k \in DOMAIN ls |-> Field(ls[k])])

(* The rows of `column' hold the words in their order, as many in each row *)
(* as fit on the screen, or one.                                           *)
ColumnMeans(t, out) ==
    LET Solid(s) == SelectSeq(s, LAMBDA x : ~IsSpace(x))
        rows == LinesOf(out)
    IN /\ Solid(out) = Solid(t)
       /\ Cardinality(WordStarts(out)) = Cardinality(WordStarts(t))
       /\ \A k \in DOMAIN rows : Len(rows[k]) <= Columns \/ Cardinality(WordStarts(rows[k])) = 1

StringsMeans(c, t, out) ==
    LET Ok(i) == i \in DOMAIN t /\ t[i] \in 32 .. 126
        least == IF c.nums[1] < 1 THEN 1 ELSE c.nums[1]
        runs == {<<i, j>> \in (DOMAIN t) \X (DOMAIN t) : i <= j /\ ~Ok(i - 1) /\ ~Ok(j + 1) /\ \A m \in i .. j : Ok(m)}
        long == SetToSortSeq({r \in runs : r[2] - r[1] + 1 >= least}, LAMBDA a, b : a[1] < b[1])
    IN LinesOf(out) = [k \in DOMAIN long |-> SubSeq(t, long[k][1], long[k][2])]

SeqMeans(c, out) ==
    LET step == IF c.nums[3] = 0 THEN 1 ELSE c.nums[3]
        ns == SetToSortSeq({n \in c.nums[1] .. c.nums[2] : (n - c.nums[1]) % step = 0}, <)
    IN LinesOf(out) = [k \in DOMAIN ns |-> Dec(ns[k])]
PasteMeans(c, t, u, out) ==
    LET Line_(x, k) == IF k \in DOMAIN LinesOf(x) THEN LinesOf(x)[k] ELSE <<>>
        rows == DOMAIN LinesOf(t) \cup DOMAIN LinesOf(u)
    IN LinesOf(out) = [k \in rows |-> Line_(t, k) \o c.pat \o Line_(u, k)]
\* the first position that one has not, or where they differ; 0 for none
CmpMeans(t, u, out) ==
    LET d == {k \in DOMAIN t \cup DOMAIN u : k \notin DOMAIN t \/ k \notin DOMAIN u \/ t[k] # u[k]}
    IN out = WithNL(Dec(Min(d \cup (IF d = {} THEN {0} ELSE {}))))

IsPrime(n) == n > 1 /\ \A d \in 2 .. n - 1 : n % d # 0
FactorMeans(n, fs) ==
    /\ \A k \in DOMAIN fs : IsPrime(fs[k]) /\ (k > 1 => fs[k - 1] <= fs[k])
    /\ FoldLeft(LAMBDA a, b : a * b, 1, fs) = n

(* A name matches if a piece of it can be found for every star. *)
RECURSIVE Matches(_, _)
Matches(pattern, name) ==
    CASE pattern = <<>> -> name = <<>>
      [] pattern # <<>> /\ Head(pattern) = Star -> \E k \in 0 .. Len(name) : Matches(Tail(pattern), SubSeq(name, k + 1, Len(name)))
      [] OTHER -> name # <<>> /\ (Head(pattern) = Question \/ Head(pattern) = Head(name)) /\ Matches(Tail(pattern), Tail(name))
\* glob_match wants a character for every star but the last of those a
\* pattern ends with
StarsAtEnd(p) == \E k \in 1 .. Len(p) - 1 : p[k] = Star /\ p[k + 1] = Star

(* A formula is the text of a tree, with parentheses only where the order  *)
(* of the operators asks for them.                                         *)
RECURSIVE ValueOf(_), Text(_)
ValueOf(e) ==
    IF e.kind = "num" THEN e.n
    ELSE LET a == ValueOf(e.l)
             b == ValueOf(e.r)
         IN CASE e.op = "+" -> a + b [] e.op = "-" -> a - b [] e.op = "*" -> a * b
              [] e.op = "/" -> Quot(a, b) [] e.op = "%" -> Rest(a, b)
Level(e) == CASE e.kind = "num" -> 3 [] e.kind # "num" /\ e.op \in {"*", "/", "%"} -> 2 [] OTHER -> 1
Text(e) ==
    LET Sign(s) == [sign |-> s, n |-> 0]
        In(x, level) == IF Level(x) >= level THEN Text(x) ELSE <<Sign("(")>> \o Text(x) \o <<Sign(")")>>
    IN IF e.kind = "num" THEN <<[sign |-> "num", n |-> e.n]>>
       ELSE In(e.l, Level(e)) \o <<Sign(e.op)>> \o In(e.r, Level(e) + 1)

(* Aliases are followed to the end if there is one. *)
RECURSIVE Followed(_, _, _)
Followed(line, aliases, n) ==
    IF n = 0 THEN <<>>
    ELSE IF line # <<>> /\ Head(line) \in DOMAIN aliases THEN Followed(aliases[Head(line)] \o Tail(line), aliases, n - 1) ELSE line
-----------------------------------------------------------------------------
(* What command c is to write about the text it was given, if ls are its   *)
(* lines.  cat ends the last line of a stage's text, and adds an end of    *)
(* line to every file.  tail counts the lines by the newlines: of a text   *)
(* that ends in one it is only said that the last lines come first.  sort  *)
(* and tac look at the lines their tables hold.                            *)
MeansOf(c, given, ls, out) ==
    LET t == given.text
    IN CASE c.tool = "cat" -> out = IF given.piped THEN Ended(t) ELSE WithNL(t)
         [] c.tool = "grep" -> GrepMeans(c, ls, out)
         [] c.tool = "wc" -> WcMeans(c, t, out)
         [] c.tool = "head" -> out = Written(SubSeq(ls, 1, Lesser(c.nums[1], Len(ls))))
         [] c.tool = "tail" /\ IsEnded(t) -> IsPrefix(LastLines(t, c.nums[1]), out)
         [] c.tool = "tail" /\ ~IsEnded(t) -> out = LastLines(t, c.nums[1])
         [] c.tool = "sort" -> Len(Pieces(t)) <= SortMax => SortMeans(c, t, out)
         [] c.tool = "uniq" -> UniqMeans(c, ls, out)
         [] c.tool = "tr" ->
               LET ToOf(x) == LET js == {j \in DOMAIN c.pat : c.pat[j] = x} IN IF js = {} THEN x ELSE c.to[Lesser(Min(js), Len(c.to))]
               IN out = Ended([k \in DOMAIN t |-> ToOf(t[k])])
         [] c.tool = "cut" -> CutMeans(c, ls, out)
         [] c.tool = "rev" -> LinesOf(out) = [k \in DOMAIN ls |-> Reverse(ls[k])]
         [] c.tool = "nl" -> LET own == Seen(LinesOf(t))
                                 n == IF ~IsEnded(t) /\ Last(own) = <<>> THEN Len(own) - 1 ELSE Len(own)
                             IN LinesOf(out) = [k \in 1 .. n |-> Dec(k) \o <<Blank, Blank>> \o own[k]]
         [] c.tool = "tac" -> Len(Pieces(t)) <= TacMax => LinesOf(out) = Reverse(LinesOf(t))
         [] c.tool = "column" -> ColumnMeans(t, out)
         [] c.tool = "strings" -> StringsMeans(c, t, out)
Means(c, given, out) == MeansOf(c, given, AsRead(given.text), out)
=============================================================================
