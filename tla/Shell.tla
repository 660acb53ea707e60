------------------------------- MODULE Shell -------------------------------
(***************************************************************************)
(* How kernel/terminal.c runs a command line: the chain of `;', `&&' and   *)
(* `||', pipes and redirections through the captured output, background    *)
(* jobs, and the commands of TextTools and Words that the line is made of. *)
(*                                                                         *)
(* One input buffer, one capture and one pipe input serve everyone who     *)
(* runs a command: the shell, a script it runs, `xargs', and the jobs,     *)
(* which are tasks of their own.  The timer switches to a job between any  *)
(* two steps of the shell; a job's command runs to its end at once, since  *)
(* a fresh task has interrupts off, unless it is a `wait', which yields.   *)
(*                                                                         *)
(* A line is a sequence of tokens [t, ...]: commands, the operators, file  *)
(* names and aliases.  The stack holds what the shell has not finished.    *)
(***************************************************************************)
EXTENDS Words

CONSTANTS
    Sessions,   \* [files, lines, fat, scripts, aliases]: what is typed, one
                \* line after the other, and what is there for it
    JobMax,     \* BG_JOB_MAX
    VarMax,     \* SCRIPT_VAR_MAX
    BufSize,    \* sizeof pipe_buf
    FileMax     \* FS_MAX_FILE_SIZE

ASSUME ShellAssumption == {JobMax, VarMax, BufSize, FileMax} \subseteq Nat \ {0}

VARIABLES
    session,    \* the session this is
    todo,       \* its lines that have not been typed yet
    stack,      \* the shell: lines, scripts and commands begun, innermost last
    input,      \* input_buffer, as tokens
    io,         \* terminal_output_capture, its buffer and length, the static
                \* buffers, pipe_stdin_buf and pipe_stdin_len, and the screen
    exit,       \* last_exit_code
    files,      \* the file system
    env,        \* script_var_names, script_var_values
    jobs,       \* bg_jobs: [active, cmd]
    tasks,      \* the tasks of jobs: [id, slot, at]
    born,       \* how many job tasks there were
    killed,     \* history: slots whose task was killed before it was done
    clean,      \* history: nothing has disturbed the line being run
    last,       \* history: the last text command with its input and output
    ended       \* history: the last line that ended, from what and to what

shell == <<session, todo, stack, input, io, exit, files, env, jobs, tasks, born, killed, clean, last, ended>>
-----------------------------------------------------------------------------
None == <<>>
Note == <<Question, NL>>        \* a message
Slots == 1 .. JobMax
Tok(t) == [t |-> t]

(* Output and input. *)
Quiet == [on |-> FALSE, buf |-> "pipe", len |-> 0, from |-> "none", avail |-> 0,
          bufs |-> [b \in {"pipe", "pipe2", "redir", "in"} |-> <<>>], screen |-> <<>>]
Bytes(s, n) == [k \in 1 .. n |-> IF k <= Len(s) THEN s[k] ELSE 0]
\* Mutant: the length of the capture before is kept.
Continue(x, b) == [x EXCEPT !.on = TRUE, !.buf = b]
Capture(x, b) == [x EXCEPT !.on = TRUE, !.buf = b, !.len = 0]
Release(x) == [x EXCEPT !.on = FALSE]
Feed(x, b, n) == [x EXCEPT !.from = b, !.avail = n]
Stdin(x) == IF x.from = "none" THEN None ELSE Bytes(x.bufs[x.from], x.avail)

\* terminal_putc
Put(x, text) ==
    IF ~x.on THEN [x EXCEPT !.screen = @ \o text]
    ELSE LET old == x.bufs[x.buf]
             n == Lesser(Len(text), BufSize - 1 - x.len)
             new == Bytes(old, x.len) \o SubSeq(text, 1, n)
         IN [x EXCEPT !.bufs[x.buf] = new \o SubSeq(old, Len(new) + 1, Len(old)), !.len = @ + n]
Overflows(x, text) == x.on /\ x.len + Len(text) > BufSize - 1
-----------------------------------------------------------------------------
(* Commands.  What is to be written, left in last_exit_code, in the files  *)
(* and in the variables. *)
Outcome(text, code, fs, vs) == [out |-> text, code |-> code, files |-> fs, env |-> vs]
Says(text, fs, vs) == Outcome(text, 0, fs, vs)
Store(fs, name, text) == [n \in DOMAIN fs \cup {name} |-> IF n = name THEN SubSeq(text, 1, Lesser(Len(text), FileMax - 1)) ELSE fs[n]]
\* script_set_var: a full table takes no new name
Assign(vs, name, v) ==
    IF name \notin DOMAIN vs /\ Cardinality(DOMAIN vs) >= VarMax THEN vs
    ELSE [n \in DOMAIN vs \cup {name} |-> IF n = name THEN v ELSE vs[n]]
Lookup(vs, name) == IF name \in DOMAIN vs THEN vs[name] ELSE None
\* fs_ls, in one order
Listing(fs) == SetToSortSeq(DOMAIN fs, LAMBDA a, b : Above(b, a))

Filters == {"cat", "grep", "wc", "head", "tail", "sort", "uniq", "cut", "rev", "nl", "tac", "column", "strings", "tr"}
Filtered(c, t, piped) ==
    CASE c.tool = "cat" -> Cat(c, t, piped) [] c.tool = "grep" -> Grep(c, t) [] c.tool = "wc" -> Wc(c, t)
      [] c.tool = "head" -> Head_(c, t) [] c.tool = "tail" -> Tail_(c, t) [] c.tool = "sort" -> Sort(c, t)
      [] c.tool = "uniq" -> Uniq(c, t) [] c.tool = "cut" -> Cut(c, t) [] c.tool = "rev" -> Rev(c, t)
      [] c.tool = "nl" -> Nl(c, t) [] c.tool = "tac" -> Tac(c, t) [] c.tool = "column" -> Column(t)
      [] c.tool = "strings" -> Strings(c, t) [] c.tool = "tr" -> Tr(c, t)
\* the dispatcher does not pass these on without an argument
Bare(c) ==
    CASE c.tool \in {"cat", "tac"} -> TRUE
      [] c.tool = "wc" -> c.flags = {}
      [] c.tool = "head" \/ c.tool = "tail" -> c.nums = <<10>>
      [] c.tool = "strings" -> c.nums = <<4>>
      [] OTHER -> FALSE
\* the text a filter works on: [ok, text, piped].  A file counts only if it
\* is there, a pipe only if something is in it.
Source(c, fs, stdin) ==
    CASE c.tool \notin Filters -> [ok |-> FALSE, text |-> None, piped |-> FALSE]
      [] c.tool \in Filters /\ c.files # None -> [ok |-> c.files[1] \in DOMAIN fs, text |-> Lookup(fs, c.files[1]), piped |-> FALSE]
      [] c.tool \in Filters /\ c.files = None /\ (Bare(c) \/ stdin = None) -> [ok |-> FALSE, text |-> None, piped |-> TRUE]
      [] OTHER -> [ok |-> TRUE, text |-> stdin, piped |-> TRUE]

\* run_command_dispatch, for a command that is done when it returns; exists
\* is `test -e'
EffectOn(c, fs, vs, stdin, src) ==
    LET Both == c.files[1] \in DOMAIN fs /\ c.files[2] \in DOMAIN fs
    IN CASE c.tool \in Filters -> Says(IF src.ok THEN Filtered(c, src.text, src.piped) ELSE Note, fs, vs)
         [] c.tool = "tee" -> IF stdin = None THEN Says(Note, fs, vs) ELSE Says(Ended(stdin), Store(fs, c.files[1], stdin), vs)
         [] c.tool = "echo" -> Says(WithNL(c.pat), fs, vs)
         [] c.tool = "seq" -> Says(Seq_(c), fs, vs)
         [] c.tool = "yes" -> Says(Yes(c), fs, vs)
         [] c.tool = "paste" -> Says(IF Both THEN Paste(c, fs[c.files[1]], fs[c.files[2]]) ELSE Note, fs, vs)
         [] c.tool = "cmp" -> Says(IF ~Both THEN Note
                                   ELSE WithNL(Dec(Cmp(fs[c.files[1]], fs[c.files[2]]))), fs, vs)
         [] c.tool = "find" -> Says(Written(Find(c, Listing(fs))), fs, vs)
         [] c.tool = "calc" -> Says(WithNL(Dec(Calc(c.formula))), fs, vs)
         [] c.tool = "factor" -> Says(Factors(c), fs, vs)
         [] c.tool = "true" -> Says(None, fs, vs)
         [] c.tool = "false" -> Outcome(None, 1, fs, vs)
         [] c.tool = "test" -> Outcome(None, IF Compare(c.op, c.pat, c.to) THEN 0 ELSE 1, fs, vs)
         [] c.tool = "exists" -> Outcome(None, IF c.files[1] \in DOMAIN fs THEN 0 ELSE 1, fs, vs)
         [] c.tool = "set" -> Says(None, fs, Assign(vs, c.name, c.pat))
         [] c.tool = "unset" -> IF c.name \in DOMAIN vs THEN Says(None, fs, [n \in DOMAIN vs \ {c.name} |-> vs[n]])
                                ELSE Outcome(Note, 1, fs, vs)
         [] OTHER -> Outcome(Note, 1, fs, vs)
Effect(c, fs, vs, stdin) == EffectOn(c, fs, vs, stdin, Source(c, fs, stdin))
\* jobs, taskkill, wait, and the commands that run others
IsSimple(c) == c.tool \notin {"jobs", "taskkill", "wait", "xargs", "diff", "run", "source"}

\* expand_command_substitutions: $name, ${name:-text} and $? in a command's
\* words, before the aliases; expand_globs, behind them
Joined(words) == FlattenSeq([k \in DOMAIN words |-> (IF k > 1 THEN <<Blank>> ELSE <<>>) \o words[k]])
ValueOf_(w, vs, code, fs) ==
    CASE w.kind = "text" -> w.text
      [] w.kind = "var" -> (IF Lookup(vs, w.name) = None THEN w.text ELSE vs[w.name])
      [] w.kind = "len" -> Dec(Len(Lookup(vs, w.name)))
      [] w.kind = "exit" -> Dec(code)
      [] w.kind = "sum" -> Dec(Calc(w.formula))
      [] w.kind = "cat" -> Lookup(fs, w.text)
HasWords(tok) == tok.t = "cmd" /\ "words" \in DOMAIN tok.c
Substituted(tok, vs, code, fs) ==
    IF ~HasWords(tok) THEN tok
    ELSE [tok EXCEPT !.c.words = [k \in DOMAIN @ |-> [kind |-> "text", text |-> ValueOf_(@[k], vs, code, fs)]]]
Globbed(tok, fs) ==
    IF ~HasWords(tok) THEN tok
    ELSE [tok EXCEPT !.c.pat = Joined(FlattenSeq([k \in DOMAIN tok.c.words |-> Glob(tok.c.words[k].text, Listing(fs))]))]
-----------------------------------------------------------------------------
(* The stack. *)
Top == Last(stack)
Under == Front(stack)
Operators == {";", "&&", "||"}
\* run_command's segments, each with the operator before it
Segments(line) ==
    LET s == FoldLeft(LAMBDA a, x : IF x.t \in Operators
                                    THEN [segs |-> Append(a.segs, [op |-> a.op, ts |-> a.cur]), op |-> x.t, cur |-> <<>>]
                                    ELSE [a EXCEPT !.cur = Append(@, x)],
                      [segs |-> <<>>, op |-> ";", cur |-> <<>>], line)
    IN Append(s.segs, [op |-> s.op, ts |-> s.cur])
Line(ts) == [kind |-> "line", segs |-> Segments(ts), step |-> "next", how |-> "plain", rest |-> <<>>,
             from |-> [line |-> ts, files |-> files, env |-> env, exit |-> exit, screen |-> io.screen,
                       apart |-> ~io.on /\ io.from = "none"]]
Call == [kind |-> "call"]

ShellInit ==
    /\ session \in Sessions
    /\ todo = session.lines /\ files = session.files
    /\ stack = <<>> /\ input = <<>> /\ io = Quiet /\ exit = 0
    /\ env = [n \in {} |-> None]
    /\ jobs = [s \in Slots |-> [active |-> FALSE, cmd |-> <<>>]]
    /\ tasks = {} /\ born = 0 /\ killed = {}
    /\ clean = TRUE /\ last = None /\ ended = None

\* submit_current_line, run_command
TypeLine ==
    /\ stack = <<>> /\ todo # <<>>
    /\ stack' = <<Line(Head(todo))>> /\ todo' = Tail(todo)
    /\ input' = Head(todo) /\ clean' = TRUE /\ ended' = None
    /\ UNCHANGED <<session, io, exit, files, env, jobs, tasks, born, killed, last>>

Skip(op) == (op = "&&" /\ exit # 0) \/ (op = "||" /\ exit = 0)
First(ts, S) == SelectInSeq(ts, LAMBDA x : x.t \in S)
NameIn(ts) == IF Len(ts) = 1 /\ ts[1].t = "file" THEN ts[1].name ELSE <<Question>>

\* A message and nothing else: the segment is over.
Complain(f) == /\ stack' = Append(Under, f) /\ input' = <<>> /\ io' = Put(io, Note)
               /\ UNCHANGED <<jobs, tasks, born>>

\* Mutant: a slot is taken whether it is in use or not.
IsThere(s) == s \in Slots
IsFree(s) == ~jobs[s].active
\* a trailing `&'
StartJob(f, ts) ==
    LET free == {s \in Slots : IsFree(s)}
        slot == Min(free)
    IN \/ (ts = <<>> \/ free = {}) /\ Complain(f)
       \/ /\ ts # <<>> /\ free # {}
          /\ \/ Complain(f)          \* task_create failed
             \/ /\ jobs' = [jobs EXCEPT ![slot] = [active |-> TRUE, cmd |-> ts]]
                /\ tasks' = tasks \cup {[id |-> born, slot |-> slot, at |-> "ready"]}
                /\ born' = born + 1
                /\ stack' = Append(Under, f) /\ input' = <<>> /\ io' = Put(io, Note)

\* Pipes and redirections of one segment: the buffers are set up for the
\* first command, and what remains is left for Collect.
Begin(f, how, ts, rest, x) ==
    /\ stack' = Under \o <<[f EXCEPT !.step = "collect", !.how = how, !.rest = rest], Call>>
    /\ input' = ts /\ io' = x
    /\ UNCHANGED <<jobs, tasks, born>>
StartStages(f, ts) ==
    LET p == First(ts, {"|", ">", ">>"})
        lt == First(SubSeq(ts, 1, IF p = 0 THEN Len(ts) ELSE p - 1), {"<"})
        left == SubSeq(ts, 1, p - 1)
        right == SubSeq(ts, p + 1, Len(ts))
        name == NameIn(SubSeq(ts, lt + 1, Len(ts)))
    IN CASE lt # 0 /\ (p = 0 \/ ts[p].t # "|") ->
              (IF name \notin DOMAIN files THEN Complain(f)
               ELSE Begin(f, "plain", SubSeq(ts, 1, lt - 1), <<>>, Feed([io EXCEPT !.bufs["in"] = files[name]], "in", Len(files[name]))))
         [] p # 0 /\ ts[p].t = "|" -> Begin(f, "pipe", left, right, Capture(io, "pipe"))
         [] lt = 0 /\ p # 0 /\ ts[p].t # "|" ->
              (IF right = <<>> THEN Complain(f) ELSE Begin(f, ts[p].t, left, right, Capture(io, "redir")))
         [] OTHER -> Begin(f, "alone", ts, <<>>, io)

\* run_command_single, words being the segment after every expansion
Single(f, words) ==
    CASE words = <<>> -> Complain(f)
      [] words # <<>> /\ Last(words).t = "&" -> StartJob(f, Front(words))
      [] OTHER -> StartStages(f, words)
Words_(ts) ==
    LET resolved == ResolveAliases([k \in DOMAIN ts |-> Substituted(ts[k], env, exit, files)], session.aliases)
    IN [k \in DOMAIN resolved |-> Globbed(resolved[k], files)]
TakeSegment ==
    /\ stack # <<>> /\ Top.kind = "line" /\ Top.step = "next" /\ Top.segs # <<>>
    /\ LET seg == Head(Top.segs)
           f == [Top EXCEPT !.segs = Tail(@)]
       IN IF seg.ts = <<>> \/ Skip(seg.op)
          THEN stack' = Append(Under, f) /\ UNCHANGED <<input, io, jobs, tasks, born>>
          ELSE Single(f, Words_(seg.ts))
    /\ UNCHANGED <<session, todo, exit, files, env, killed, clean, last, ended>>
-----------------------------------------------------------------------------
(* run_command_dispatch reads the input buffer that is there when it runs. *)
Did(c, r) ==
    /\ io' = Put(io, r.out) /\ exit' = r.code /\ files' = r.files /\ env' = r.env
    /\ clean' = (clean /\ ~Overflows(io, r.out))
    /\ last' = [c |-> c, in |-> Source(c, files, Stdin(io)), out |-> r.out, files |-> files]
Listed == FlattenSeq([s \in Slots |-> IF jobs[s].active THEN WithNL(Dec(s)) ELSE <<>>])
Same_ == UNCHANGED <<files, env, last>>

\* a command and nothing more in the buffer
Run(c) ==
    CASE IsSimple(c) -> Did(c, Effect(c, files, env, Stdin(io))) /\ stack' = Under /\ UNCHANGED <<tasks, killed>>
      [] c.tool = "jobs" -> /\ io' = Put(io, IF Listed = <<>> THEN Note ELSE Listed)
                            /\ clean' = (clean /\ ~Overflows(io, Note \o Listed))
                            /\ exit' = 0 /\ stack' = Under /\ Same_ /\ UNCHANGED <<tasks, killed>>
      [] c.tool = "taskkill" -> /\ tasks' = {} /\ killed' = killed \cup {x.slot : x \in {y \in tasks : y.at # "done"}}
                                /\ io' = Put(io, Note) /\ clean' = (clean /\ ~Overflows(io, Note))
                                /\ exit' = 0 /\ stack' = Under /\ Same_
      [] c.tool = "wait" -> exit' = 0 /\ stack' = Under /\ Same_ /\ UNCHANGED <<io, clean, tasks, killed>>
      [] c.tool = "xargs" ->
            /\ exit' = 0 /\ Same_ /\ UNCHANGED <<clean, tasks, killed>>
            /\ IF Stdin(io) = None THEN stack' = Under /\ io' = Put(io, Note)
               ELSE io' = io /\ stack' = Append(Under, [kind |-> "xargs", c |-> c.of,
                        ls |-> SelectSeq([k \in DOMAIN Pieces(Stdin(io)) |-> Pieces(Stdin(io))[k]], LAMBDA l : l \notin {<<>>, <<CR>>})])
      [] c.tool = "diff" ->
            /\ exit' = 0 /\ Same_ /\ UNCHANGED <<clean, tasks, killed>>
            /\ IF {c.files[1], c.files[2]} \subseteq DOMAIN files
               THEN io' = io /\ stack' = Append(Under, [kind |-> "diff", i |-> 0, j |-> 0, t |-> files[c.files[1]], u |-> files[c.files[2]]])
               ELSE stack' = Under /\ io' = Put(io, Note)
      [] OTHER -> FALSE        \* run and source: module Script
\* words behind a command are arguments it does not know
Dispatch ==
    /\ stack # <<>> /\ Top.kind = "call"
    /\ IF Len(input) = 1 /\ input[1].t = "cmd" THEN Run(input[1].c)
       ELSE /\ io' = Put(io, IF input = <<>> THEN <<>> ELSE Note)
            /\ exit' = (IF input # <<>> /\ input[1].t # "cmd" THEN 1 ELSE 0)
            /\ stack' = Under /\ Same_ /\ UNCHANGED <<clean, tasks, killed>>
    /\ UNCHANGED <<session, todo, input, jobs, born, ended>>

\* cmd_xargs: the next line, as the only argument of the command
Xargs ==
    /\ stack # <<>> /\ Top.kind = "xargs"
    /\ IF Top.ls = <<>> THEN stack' = Under /\ UNCHANGED input
       ELSE LET l == Head(Top.ls)
                arg == IF Last(l) = CR THEN Front(l) ELSE l
            IN /\ input' = <<[t |-> "cmd", c |-> IF "files" \in DOMAIN Top.c /\ Top.c.tool # "echo" THEN [Top.c EXCEPT !.files = <<arg>>]
                                                 ELSE [Top.c EXCEPT !.pat = arg]]>>
               /\ stack' = Under \o <<[Top EXCEPT !.ls = Tail(@)], Call>>
    /\ UNCHANGED <<session, todo, io, exit, files, env, jobs, tasks, born, killed, clean, last, ended>>

\* cmd_diff: one turn of its loop
Diff ==
    /\ stack # <<>> /\ Top.kind = "diff"
    /\ stack' = IF DiffGoesOn(Top.i, Top.j, Top.t, Top.u)
                THEN Append(Under, [Top EXCEPT !.i = DiffNext(Top.i, Top.t), !.j = DiffNext(Top.j, Top.u)]) ELSE Under
    /\ UNCHANGED <<session, todo, input, io, exit, files, env, jobs, tasks, born, killed, clean, last, ended>>

-----------------------------------------------------------------------------
(* What run_command_single does after a command. *)
Redirected(how, name, x) ==
    LET new == Bytes(x.bufs["redir"], x.len)
        room == FileMax - x.len - 1
        old == Lookup(files, name)
    IN CASE how = ">" -> new
         [] how = ">>" /\ Len(old) > room /\ session.fat -> new
         [] OTHER -> SubSeq(old, 1, Lesser(Len(old), room)) \o new
Cuts(how, name, x) == how = ">>" /\ Len(Lookup(files, name)) > FileMax - x.len - 1

Collect ==
    /\ stack # <<>> /\ Top.kind = "line" /\ Top.step = "collect"
    /\ LET x == Release(io)
           bar == First(Top.rest, {"|"})
           Next_(how, rest, ts, y) == /\ stack' = Under \o <<[Top EXCEPT !.how = how, !.rest = rest], Call>>
                                      /\ input' = ts /\ io' = y /\ UNCHANGED <<files, clean>>
           Over(y) == /\ stack' = Append(Under, [Top EXCEPT !.step = "next", !.how = "alone", !.rest = <<>>])
                      /\ input' = <<>> /\ io' = y
       IN CASE Top.how = "pipe" /\ bar = 0 -> Next_("plain", <<>>, Top.rest, Feed(x, "pipe", x.len))
            [] Top.how = "pipe" /\ bar # 0 -> Next_("pipe2", SubSeq(Top.rest, bar + 1, Len(Top.rest)), SubSeq(Top.rest, 1, bar - 1),
                                                    Capture(Feed(x, "pipe", x.len), "pipe2"))
            [] Top.how = "pipe2" -> Next_("plain", <<>>, Top.rest, Feed(x, "pipe2", x.len))
            [] Top.how = "plain" -> Over(Feed(io, "none", 0)) /\ UNCHANGED <<files, clean>>
            [] Top.how \in {">", ">>"} -> /\ Over(x)
                                          /\ files' = Store(files, NameIn(Top.rest), Redirected(Top.how, NameIn(Top.rest), x))
                                          /\ clean' = (clean /\ ~Cuts(Top.how, NameIn(Top.rest), x))
            [] OTHER -> Over(io) /\ UNCHANGED <<files, clean>>
    /\ UNCHANGED <<session, todo, exit, env, jobs, tasks, born, killed, last, ended>>

EndLine ==
    /\ stack # <<>> /\ Top.kind = "line" /\ Top.step = "next" /\ Top.segs = <<>>
    /\ stack' = Under /\ input' = <<>>
    /\ ended' = [from |-> Top.from, clean |-> clean, to |-> [files |-> files, env |-> env, exit |-> exit, screen |-> io.screen]]
    /\ UNCHANGED <<session, todo, io, exit, files, env, jobs, tasks, born, killed, clean, last>>
-----------------------------------------------------------------------------
(* Jobs: bg_task_entry.  The jobs of Sessions are single commands that are *)
(* done when they return, or a `wait'. *)
\* the command in the job's slot, put into the input buffer and dispatched
JobWaits(x, c) ==
    /\ c.tool = "wait"
    /\ tasks' = (tasks \ {x}) \cup {[x EXCEPT !.at = "waits"]}
    /\ exit' = 0 /\ UNCHANGED <<io, files, env, jobs, last>>
JobDid(x, c, r) ==
    /\ IsSimple(c) /\ tasks' = tasks \ {x}
    /\ jobs' = [jobs EXCEPT ![x.slot].active = FALSE]
    /\ io' = Put(Put(io, r.out), Note) /\ exit' = r.code /\ files' = r.files /\ env' = r.env
    /\ last' = [c |-> c, in |-> Source(c, files, Stdin(io)), out |-> r.out, files |-> files]
Order(x) == jobs[x.slot].cmd[1].c
JobRuns(x) ==
    /\ x.at = "ready" /\ input' = jobs[x.slot].cmd /\ clean' = FALSE
    /\ JobWaits(x, Order(x)) \/ JobDid(x, Order(x), Effect(Order(x), files, env, Stdin(io)))
JobWakes(x) ==
    /\ x.at = "waits" /\ tasks' = (tasks \ {x}) \cup {[x EXCEPT !.at = "done"]}
    /\ jobs' = [jobs EXCEPT ![x.slot].active = FALSE]
    /\ UNCHANGED <<input, io, exit, files, env, clean, last>>
JobReports(x) ==
    /\ x.at = "done" /\ tasks' = tasks \ {x} /\ io' = Put(io, Note) /\ clean' = FALSE
    /\ UNCHANGED <<input, exit, files, env, jobs, last>>
Job == \E x \in tasks : (JobRuns(x) \/ JobWakes(x) \/ JobReports(x)) /\ UNCHANGED <<session, todo, stack, born, killed, ended>>

=============================================================================
