---------------------------- MODULE ShellMeaning ----------------------------
(***************************************************************************)
(* What a command line and a script are to do, said by composition: a line *)
(* is a chain of pipelines, each the composition of its commands, and a    *)
(* script a tree of blocks.  The shell finds neither: it moves texts       *)
(* through shared buffers, and keeps its blocks on three stacks.           *)
(***************************************************************************)
EXTENDS Script, TextMeaning

-----------------------------------------------------------------------------
(* Lines.  A state is [files, env, exit, screen]. *)
Kinds(ts) == [k \in DOMAIN ts |-> ts[k].t]
HasNo(ts, S) == \A k \in DOMAIN ts : ts[k].t \notin S
IsOne(ts) == Len(ts) = 1 /\ ts[1].t = "cmd" /\ (IsSimple(ts[1].c) \/ (ts[1].c.tool = "xargs" /\ IsSimple(ts[1].c.of)))
\* pipelines of three commands at most, or one command with one redirection
Bars(ts) == SelectSeq([k \in DOMAIN ts |-> k], LAMBDA k : ts[k].t = "|")
Between(ts, cuts) == [k \in 1 .. Len(cuts) - 1 |-> SubSeq(ts, cuts[k] + 1, cuts[k + 1] - 1)]
Stages(ts) == Between(ts, <<0>> \o Bars(ts) \o <<Len(ts) + 1>>)
AreOne(stages) == Len(stages) <= 3 /\ \A k \in DOMAIN stages : IsOne(stages[k])
IsPipeline(ts) == AreOne(Stages(ts))
IsRedirected(ts) == Len(ts) = 3 /\ IsOne(SubSeq(ts, 1, 1)) /\ ts[2].t \in {"<", ">", ">>"} /\ ts[3].t = "file"

\* a command with a text as its input: what it writes and leaves
Left_(st, r) == [out |-> r.out, code |-> r.code, st |-> [st EXCEPT !.files = r.files, !.env = r.env]]
Given(c, l) == IF "files" \in DOMAIN c THEN [c EXCEPT !.files = <<l>>] ELSE [c EXCEPT !.pat = l]
Then(x, y) == [y EXCEPT !.out = x.out \o @]
Calls(c, ls) == IF c.tool = "xargs" THEN [k \in DOMAIN ls |-> Given(c.of, ls[k])] ELSE <<c>>
Stage(c, st, stdin) ==
    IF c.tool = "xargs" /\ stdin = None THEN [out |-> Note, code |-> 0, st |-> st]
    ELSE FoldLeft(LAMBDA x, call : Then(x, Left_(x.st, Effect(call, x.st.files, x.st.env, stdin))), [out |-> <<>>, code |-> 0, st |-> st], Calls(c, SelectSeq(LinesOf(stdin), LAMBDA l : l # <<>>)))
Piped(stages, st, stdin) ==
    FoldLeft(LAMBDA x, s : Stage(s[1].c, x.st, x.out), [out |-> stdin, code |-> 0, st |-> st], stages)

\* where the text comes from and where it goes
Reads(ts) == IsRedirected(ts) /\ ts[2].t = "<"
Writes(ts) == IsRedirected(ts) /\ ts[2].t # "<"
Commands(ts) == IF IsRedirected(ts) THEN <<SubSeq(ts, 1, 1)>> ELSE Stages(ts)
Landed(ts, r) ==
    IF Writes(ts)
    THEN [r.st EXCEPT !.exit = r.code,
                      !.files = Store(r.st.files, ts[3].name, (IF ts[2].t = ">>" THEN Lookup(r.st.files, ts[3].name) ELSE None) \o r.out)]
    ELSE [r.st EXCEPT !.exit = r.code, !.screen = @ \o r.out]
PipelineMeans(ts, st) ==
    IF Reads(ts) /\ ts[3].name \notin DOMAIN st.files THEN [st EXCEPT !.screen = @ \o Note]
    ELSE Landed(ts, Piped(Commands(ts), st, IF Reads(ts) THEN st.files[ts[3].name] ELSE None))

\* The chain, from the left: its pieces with the operators before them.
SegmentMeans(full, st) == IF full = <<>> THEN [st EXCEPT !.screen = @ \o Note] ELSE PipelineMeans(full, st)
Runs_(op, st) == CASE op = "&&" -> st.exit = 0 [] op = "||" -> st.exit # 0 [] OTHER -> TRUE
Wording(ts, st, aliases) ==
    LET line == Followed([j \in DOMAIN ts |-> Substituted(ts[j], st.env, st.exit, st.files)], aliases, AliasMax)
    IN [j \in DOMAIN line |-> Globbed(line[j], st.files)]
LinkMeans(op, words, st, aliases) ==
    IF words = <<>> \/ ~Runs_(op, st) THEN st ELSE SegmentMeans(Wording(words, st, aliases), st)
ChainMeans(ts, first, aliases) ==
    LET ops == <<0>> \o SelectSeq([k \in DOMAIN ts |-> k], LAMBDA k : ts[k].t \in Operators) \o <<Len(ts) + 1>>
        Op_(k) == IF k = 1 THEN ";" ELSE ts[ops[k]].t
    IN FoldLeft(LAMBDA st, k : LinkMeans(Op_(k), SubSeq(ts, ops[k] + 1, ops[k + 1] - 1), st, aliases),
                first, [k \in 1 .. Len(ops) - 1 |-> k])
OrdinaryWords(full) == full = <<>> \/ IsPipeline(full) \/ IsRedirected(full)
Ordinary(ts, aliases) ==
    LET ops == {0, Len(ts) + 1} \cup {k \in DOMAIN ts : ts[k].t \in Operators}
    IN \A k \in 1 .. Len(ts) + 1 :
           (k \in ops /\ k - 1 \notin ops) => OrdinaryWords(Followed(SubSeq(ts, Max({j \in ops : j < k}) + 1, k - 1), aliases, AliasMax))
-----------------------------------------------------------------------------
(* Scripts.  Blocks are found by counting what opens and what closes, and  *)
(* run from the outside in, given what their conditions come to.  What     *)
(* is left of the outcomes, the commands run and how it ended are          *)
(* [ans, log, ctl]; "out" is a block whose next outcome is not known.      *)
Openers == {"if", "while", "case"}
Closers == {"fi", "done", "esac"}
CloserOf(k) == CASE k = "if" -> "fi" [] k = "while" -> "done" [] k = "case" -> "esac"
\* how many blocks statement p is in, not counting one that it opens or closes
Level_(text, p) ==
    Cardinality({q \in 1 .. p - 1 : text[q].st \in Openers}) - Cardinality({q \in 1 .. p : text[q].st \in Closers})
Closing(text, p) == Min({q \in p + 1 .. Len(text) : text[q].st \in Closers /\ Level_(text, q) = Level_(text, p)})
WellNested(text) ==
    /\ \A p \in DOMAIN text : Level_(text, p) >= 0
    /\ Cardinality({p \in DOMAIN text : text[p].st \in Openers}) = Cardinality({p \in DOMAIN text : text[p].st \in Closers})
    /\ \A p \in DOMAIN text : text[p].st \in Openers => text[Closing(text, p)].st = CloserOf(text[p].st)
\* the statements of the block opened at p that are its own and of a kind
Parts(text, p, S) == SetToSortSeq({q \in p + 1 .. Closing(text, p) - 1 : text[q].st \in S /\ Level_(text, q) = Level_(text, p) + 1}, <)

RECURSIVE Perform(_, _, _, _), Arms(_, _, _, _), Rounds(_, _, _, _)
\* statements lo to hi
Perform(text, lo, hi, r) ==
    IF lo > hi \/ r.ctl # "go" THEN r
    ELSE LET s == text[lo]
             q == IF s.st \in Openers THEN Closing(text, lo) ELSE lo
             fits == SelectSeq(Parts(text, lo, {"label"}), LAMBDA a : CaseMatches(Head(r.ans).value, text[a].patterns))
             known == [r EXCEPT !.ans = Tail(@)]
             next == CASE s.st = "do" -> [r EXCEPT !.log = Append(@, lo)]
                       [] s.st \in {"break", "continue"} -> [r EXCEPT !.ctl = s.st]
                       [] s.st = "if" -> Arms(text, lo, <<lo>> \o Parts(text, lo, {"elif", "else"}), r)
                       [] s.st = "while" -> Rounds(text, lo, r, 0)
                       [] s.st = "case" -> IF r.ans = <<>> THEN [r EXCEPT !.ctl = "out"]
                                           ELSE IF fits = <<>> THEN known
                                           ELSE Perform(text, fits[1] + 1, Min({e \in fits[1] .. q : e = q \/ (text[e].st = ";;" /\ Level_(text, e) = Level_(text, lo) + 1)}) - 1, known)
                       [] OTHER -> r
         IN Perform(text, q + 1, hi, next)
Arms(text, p, arms, r) ==
    LET a == Head(arms)
        to == IF Len(arms) > 1 THEN arms[2] - 1 ELSE Closing(text, p) - 1
        body(x) == Perform(text, a + 1, to, x)
    IN IF arms = <<>> THEN r
       ELSE IF text[a].st = "else" THEN body(r)
       ELSE IF r.ans = <<>> THEN [r EXCEPT !.ctl = "out"]
       ELSE IF Head(r.ans).yes THEN body([r EXCEPT !.ans = Tail(@)])
       ELSE Arms(text, p, Tail(arms), [r EXCEPT !.ans = Tail(@)])
Rounds(text, p, r, n) ==
    LET body == Perform(text, p + 1, Closing(text, p) - 1, [r EXCEPT !.ans = Tail(@)])
    IN IF n > LoopMax THEN r                \* given up
       ELSE IF r.ans = <<>> THEN [r EXCEPT !.ctl = "out"]
       ELSE IF Head(r.ans).yes = text[p].until THEN [r EXCEPT !.ans = Tail(@)]
       ELSE CASE body.ctl \in {"go", "continue"} -> Rounds(text, p, [body EXCEPT !.ctl = "go"], n + 1)
              [] body.ctl = "break" -> [body EXCEPT !.ctl = "go"]
              [] OTHER -> body
Performed(f) == Perform(f.text, 1, Len(f.text), [ans |-> f.asked, log |-> <<>>, ctl |-> "go"])
-----------------------------------------------------------------------------
(* Properties. *)

\* A text command says of the text it was given what its manual page says:
\* cmd_cat, cmd_grep, cmd_wc, cmd_head, cmd_tail, cmd_sort, cmd_uniq,
\* cmd_tr, cmd_cut, cmd_rev, cmd_nl, cmd_tac, cmd_column, cmd_strings, and
\* of two files or of numbers cmd_cmp, cmd_paste and cmd_seq.  Where the
\* code and the page disagree about the end of a text that ends in a
\* newline, and about empty lines in sort, Means says what is left out.  A
\* formula has the value of the tree it is the text of, factors are prime,
\* and a pattern stands for the names that match it, or for itself.
ToolsAgree ==
    last # None =>
        LET c == last.c
            both == c.tool \in {"cmp", "paste"} /\ Range(c.files) \subseteq DOMAIN last.files
            File_(k) == last.files[c.files[k]]
            Hides(n) == Head(n) = 46 /\ (c.words[1].text = <<>> \/ Head(c.words[1].text) # 46)
            fits == {n \in DOMAIN last.files : ~Hides(n) /\ Matches(c.words[1].text, n)}
        IN /\ last.in.ok => Means(c, last.in, last.out)
           /\ c.tool = "seq" => SeqMeans(c, last.out)
           /\ (both /\ c.tool = "cmp") => CmpMeans(File_(1), File_(2), last.out)
           /\ (both /\ c.tool = "paste") => PasteMeans(c, File_(1), File_(2), last.out)
           /\ c.tool = "calc" => last.out = WithNL(Dec(ValueOf(c.tree)))
           /\ c.tool = "factor" => FactorMeans(c.nums[1], [k \in DOMAIN LinesOf(last.out) |-> Number(LinesOf(last.out)[k])])
           /\ (c.tool = "echo" /\ "words" \in DOMAIN c /\ Len(c.words) = 1 /\ c.words[1].kind = "text" /\ ~StarsAtEnd(c.words[1].text)) =>
                 last.out \in {FlattenSeq([k \in DOMAIN q |-> (IF k > 1 THEN <<Blank>> ELSE <<>>) \o q[k]]) \o <<NL>> :
                               q \in IF fits = {} THEN {<<c.words[1].text>>} ELSE SetToSeqs(fits)}

\* A line does what it says: its commands in their order, those that `&&'
\* and `||' let run, each with the output of the one before it as input,
\* the last one's output on the screen or in the file.  It is about lines
\* of the shell itself that no job disturbed and whose output was not cut,
\* with three commands in a pipe at most and no pipe together with a
\* redirection (run_command, run_command_single, cmd_xargs).
LineMeans ==
    (ended # None /\ ended.clean /\ ended.from.apart /\ Ordinary(ended.from.line, session.aliases)) =>
        ended.to = ChainMeans(ended.from.line,
                              [files |-> ended.from.files, env |-> ended.from.env, exit |-> ended.from.exit, screen |-> ended.from.screen],
                              session.aliases)

\* A script runs the commands that its blocks say, in their order, whatever
\* its conditions turn out to be; one that was stopped has run the first of
\* them.  Left out are the scripts for which cmd_run takes the wrong block
\* for the inner one, and those with a command in a case block that it takes
\* for a label: what becomes of them, BlocksNest and ArmsRunCommands say.
AsNested(f) ==
    LET r == Performed(f)
    IN IF f.stopped THEN IsPrefix(f.log, r.log) ELSE r.log = f.log /\ r.ans = <<>> /\ r.ctl = "go"
InCase(text, p) == \E q \in 1 .. p - 1 : text[q].st = "case" /\ p < Closing(text, q)
TakenForLabel(text) == \E p \in DOMAIN text : text[p].st = "do" /\ Closed(text[p]) /\ InCase(text, p)
RunsAsNested ==
    (ran # None /\ WellNested(ran.text) /\ ~ran.tangled /\ ~TakenForLabel(ran.text)) => AsNested(ran)

\* What the manual page of run promises without these two exceptions, and
\* what cmd_run does not keep: a loop or an if block in an arm of a case ends
\* as any other, and a command in an arm is run although it ends in a
\* parenthesis.
BlocksNest ==
    (ran # None /\ WellNested(ran.text) /\ ~TakenForLabel(ran.text)) => AsNested(ran)
ArmsRunCommands ==
    (ran # None /\ WellNested(ran.text) /\ ~ran.tangled) => AsNested(ran)

\* The lines of a text are what its newlines end, and what is left: no page
\* says that another, empty one comes behind the last newline, which cmd_grep
\* matches and counts, and which cmd_head, cmd_uniq, cmd_cut and cmd_rev
\* write.
NoLineAdded ==
    (last # None /\ last.in.ok /\ last.c.tool \in {"grep", "head", "uniq", "cut", "rev"}) =>
        MeansOf(last.c, last.in, Seen(LinesOf(last.in.text)), last.out)

\* What the manual pages of tail and sort say of every text: the last N
\* lines, and the lines of the text.  cmd_tail and cmd_sort do not keep it
\* for a text that ends in a newline.
TailGivesLastLines ==
    (last # None /\ last.in.ok /\ last.c.tool = "tail") => last.out = LastLines(last.in.text, last.c.nums[1])
SortGivesTheLines ==
    (last # None /\ last.in.ok /\ last.c.tool = "sort" /\ Len(Pieces(last.in.text)) <= SortMax) => SameLines(last.in.text, last.out)
=============================================================================
