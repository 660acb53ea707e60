------------------------------- MODULE Script -------------------------------
(***************************************************************************)
(* The script runner of kernel/terminal.c, cmd_run and cmd_source: the     *)
(* statements of a script and the lines between them, which the shell of   *)
(* module Shell runs.                                                      *)
(*                                                                         *)
(* if, while and case blocks are kept on three stacks of their own, so     *)
(* that which of two open blocks is the inner one is not known; what is    *)
(* executed next when a block is closed is taken from the stack that the   *)
(* code looks at first.  opened is the order that was lost: it tells the   *)
(* scripts for which the code looks at the right one.                      *)
(*                                                                         *)
(* A statement is [st, ...].  The condition [op |-> "any"] is one whose    *)
(* outcome the script does not know beforehand; to find it changes         *)
(* nothing, since the $(...) of a condition gives a variable, the version, *)
(* the directory or a file's text and runs no command                      *)
(* (execute_substitution_command).  A command that ends in a parenthesis   *)
(* has "patterns", what it says when it is read as the label of a case.    *)
(***************************************************************************)
EXTENDS Shell

CONSTANTS
    NestMax,    \* the size of if_stack, while_stack and case_stack
    LoopMax,    \* the rounds of a loop after which it is given up
    DepthMax    \* scripts that may run at once

ASSUME ScriptAssumption == {NestMax, LoopMax, DepthMax} \subseteq Nat \ {0}

VARIABLES
    sourcing,   \* run_source_mode
    ran         \* history: the script that ended last

scripting == <<sourcing, ran>>
scriptVars == <<shell, scripting>>
-----------------------------------------------------------------------------
Depth == Cardinality({k \in DOMAIN stack : stack[k].kind = "script"})
Script(text, old, from) ==
    [kind |-> "script", text |-> text, pc |-> 1, exec |-> TRUE, ifs |-> <<>>, whiles |-> <<>>, cases |-> <<>>,
     saved |-> old, from |-> from, log |-> <<>>, asked |-> <<>>, opened |-> <<>>, tangled |-> FALSE, stopped |-> FALSE]
On(f) == [f EXCEPT !.pc = @ + 1]
Stop(f) == [f EXCEPT !.pc = Len(f.text) + 1, !.stopped = TRUE]
To(f, b) == [f EXCEPT !.exec = b]

\* eval_script_condition: the outcomes it may have
Ask(c) == CASE c.op = "any" -> BOOLEAN
            [] c.op = "==" -> {c.name \in DOMAIN env /\ Lookup(env, c.name) = c.text}
            [] c.op = "!=" -> {c.name \in DOMAIN env /\ Lookup(env, c.name) # c.text}
\* history: what the script has asked for, a condition or the value of a case
Learned(f, b, v) == [f EXCEPT !.asked = Append(@, [yes |-> b, value |-> v])]
Answered(f, b) == Learned(f, b, None)

(* The true nesting. *)
Opens(f, kind) == [f EXCEPT !.opened = Append(@, kind)]
\* the block around the one being closed is not the one the code takes
Closes(f, kind, chosen) ==
    LET o == f.opened
    IN IF o = <<>> \/ Last(o) # kind \/ chosen # (IF Len(o) = 1 THEN "none" ELSE o[Len(o) - 1])
       THEN [f EXCEPT !.opened = IF o = <<>> THEN o ELSE Front(o), !.tangled = TRUE]
       ELSE [f EXCEPT !.opened = Front(o)]
\* what is open within the innermost loop
Inside(f) == SubSeq(f.opened, SelectLastInSeq(f.opened, LAMBDA k : k = "while") + 1, Len(f.opened))
-----------------------------------------------------------------------------
(* What a statement makes of its script, as a set; <<>> stands for an      *)
(* error message after which the next statement runs. *)
If(f, s) ==
    IF Len(f.ifs) >= NestMax THEN {Stop(f)}
    ELSE {LET g == Opens(To(On(f), f.exec /\ b), "if")
              h == [g EXCEPT !.ifs = Append(@, [parent |-> f.exec, taken |-> f.exec /\ b, running |-> f.exec /\ b])]
          IN IF f.exec THEN Answered(h, b) ELSE h : b \in Ask(s.cond)}
Arm(f, b) == [To(On(f), b) EXCEPT !.ifs[Len(f.ifs)].running = b]
ClosedTo(f) == ~Last(f.ifs).parent \/ Last(f.ifs).taken
\* Mutant: a condition is tested although a branch before it was taken.
ElifAlways(f, s) ==
    IF f.ifs = <<>> THEN {<<>>}
    ELSE IF ~Last(f.ifs).parent THEN {Arm(f, FALSE)}
    ELSE {[Answered(Arm(f, b), b) EXCEPT !.ifs[Len(f.ifs)].taken = b] : b \in Ask(s.cond)}
Elif(f, s) ==
    IF f.ifs = <<>> THEN {<<>>}
    ELSE IF ClosedTo(f) THEN {Arm(f, FALSE)}
    ELSE {[Answered(Arm(f, b), b) EXCEPT !.ifs[Len(f.ifs)].taken = b] : b \in Ask(s.cond)}
Else(f) ==
    IF f.ifs = <<>> THEN {<<>>}
    ELSE IF ClosedTo(f) THEN {Arm(f, FALSE)}
    ELSE {[Arm(f, TRUE) EXCEPT !.ifs[Len(f.ifs)].taken = TRUE]}
Fi(f) ==
    LET up == Front(f.ifs)
        g == [On(f) EXCEPT !.ifs = up]
    IN IF f.ifs = <<>> THEN {<<>>}
       ELSE CASE up # <<>> -> {Closes(To(g, Last(up).running), "if", "if")}
              [] up = <<>> /\ f.whiles # <<>> -> {Closes(To(g, Last(f.whiles).running), "if", "while")}
              [] up = <<>> /\ f.whiles = <<>> /\ f.cases # <<>> -> {Closes(To(g, Last(f.cases).running), "if", "case")}
              [] OTHER -> {Closes(To(g, TRUE), "if", "none")}

Goes(w, b) == b # w.until
While(f, s) ==
    LET w == [start |-> f.pc + 1, cond |-> s.cond, until |-> s.until, parent |-> f.exec, running |-> FALSE, turns |-> 0]
        Begun(g, b) == Opens([To(On(g), b) EXCEPT !.whiles = Append(@, [w EXCEPT !.running = b])], "while")
    IN IF Len(f.whiles) >= NestMax THEN {Stop(f)}
       ELSE IF ~f.exec THEN {Begun(f, FALSE)}
       ELSE {Begun(Answered(f, b), Goes(w, b)) : b \in Ask(w.cond)}
Again(f) == [f EXCEPT !.pc = Last(f.whiles).start, !.opened = SubSeq(@, 1, Len(@) - Len(Inside(f)))]
Counted(f) == [f EXCEPT !.whiles[Len(f.whiles)].turns = @ + 1]
TooLong(f) == Last(f.whiles).turns >= LoopMax
Done(f) ==
    LET up == Front(f.whiles)
        w == Last(f.whiles)
        g == [On(f) EXCEPT !.whiles = up]
        Over(x) == CASE up # <<>> -> Closes(To(x, Last(up).running), "while", "while")
                     [] up = <<>> /\ f.ifs # <<>> -> Closes(To(x, Last(f.ifs).running), "while", "if")
                     [] OTHER -> Closes(To(x, TRUE), "while", "none")
    IN IF f.whiles = <<>> THEN {<<>>}
       ELSE IF ~(w.parent /\ w.running) THEN {Over(g)}
       ELSE IF TooLong(f) THEN {[To(g, w.parent) EXCEPT !.opened = Front(@), !.tangled = @ \/ Last(f.opened) # "while"]}
       ELSE {IF Goes(w, b) THEN Again(Counted(Answered(f, b))) ELSE Over(Answered(g, b)) : b \in Ask(w.cond)}
Left(f) == [To(f, FALSE) EXCEPT !.whiles[Len(f.whiles)].running = FALSE]
Break(f) ==
    IF f.whiles = <<>> THEN {<<>>}
    ELSE IF ~f.exec THEN {On(f)}
    ELSE {[Left(On(f)) EXCEPT !.tangled = @ \/ Len(Inside(f)) > 1 \/ Inside(f) = <<"case">>]}
Continue_(f) ==
    LET g == [f EXCEPT !.tangled = @ \/ Inside(f) # <<>> \/ TooLong(f)]
    IN IF f.whiles = <<>> THEN {<<>>}
       ELSE IF ~f.exec THEN {On(f)}
       ELSE IF TooLong(f) THEN {To([On(g) EXCEPT !.whiles = Front(@)], Last(f.whiles).parent)}
       ELSE {IF Goes(Last(f.whiles), b) THEN Again(Counted(Answered(g, b))) ELSE Left(On(Counted(Answered(g, b)))) :
                b \in Ask(Last(f.whiles).cond)}

Case(f, s) ==
    LET v == IF f.exec THEN Lookup(env, s.name) ELSE None
        g == Opens([To(On(f), FALSE) EXCEPT !.cases = Append(@, [value |-> v, parent |-> f.exec, matched |-> FALSE, running |-> FALSE])], "case")
    IN IF Len(f.cases) >= NestMax THEN {Stop(f)} ELSE {IF f.exec THEN Learned(g, TRUE, v) ELSE g}
Arm_(f, b) == [To(On(f), b) EXCEPT !.cases[Len(f.cases)].running = b]
\* Every line that ends in a parenthesis is a label while a case is open,
\* also when it is a command.
Closed(s) == "patterns" \in DOMAIN s
IsLabel(f, s) == Closed(s) /\ (s.st = "label" \/ f.cases # <<>>)
Label(f, s) ==
    IF f.cases = <<>> THEN (IF f.exec THEN {Stop(f)} ELSE {On(f)})      \* a command it does not know
    ELSE {Arm_(f, Last(f.cases).parent /\ ~Last(f.cases).matched /\ CaseMatches(Last(f.cases).value, s.patterns))}
NextArm(f) ==
    IF f.cases = <<>> THEN {On(f)}
    ELSE {[Arm_(f, FALSE) EXCEPT !.cases[Len(f.cases)].matched = @ \/ Last(f.cases).running]}
Esac(f) ==
    IF f.cases = <<>> THEN {<<>>}
    ELSE LET o == f.opened IN {Closes([To(On(f), Last(f.cases).parent) EXCEPT !.cases = Front(@)], "case",
                                      IF Len(o) > 1 THEN o[Len(o) - 1] ELSE "none")}

Control == {"if", "elif", "else", "fi", "while", "done", "break", "continue", "case", ";;", "esac"}
IsControl(f, s) == s.st \in Control \/ IsLabel(f, s)
After(f, s) ==
    CASE IsLabel(f, s) -> Label(f, s) [] s.st = "if" -> If(f, s) [] s.st = "elif" -> Elif(f, s) [] s.st = "else" -> Else(f) [] s.st = "fi" -> Fi(f)
      [] s.st = "while" -> While(f, s) [] s.st = "done" -> Done(f) [] s.st = "break" -> Break(f) [] s.st = "continue" -> Continue_(f)
      [] s.st = "case" -> Case(f, s) [] s.st = ";;" -> NextArm(f) [] s.st = "esac" -> Esac(f)
-----------------------------------------------------------------------------
AtScript == stack # <<>> /\ Top.kind = "script" /\ Top.pc <= Len(Top.text)
Now == Top.text[Top.pc]
Said(n) == Put(io, FlattenSeq([k \in 1 .. n |-> Note]))

\* if ... esac
Statement ==
    /\ AtScript /\ IsControl(Top, Now)
    /\ \E g \in After(Top, Now) :
          LET wrong == g = <<>>
              h == IF wrong THEN [On(Top) EXCEPT !.tangled = TRUE] ELSE g
          IN /\ stack' = Append(Under, h)
             /\ io' = IF wrong \/ (h.stopped /\ ~Top.stopped) THEN Said(1) ELSE io
    /\ UNCHANGED <<session, todo, input, exit, files, env, jobs, tasks, born, killed, clean, last, ended, sourcing, ran>>

\* any other line, run_inline_command
Command ==
    /\ AtScript /\ Now.st = "do" /\ ~IsLabel(Top, Now)
    /\ LET f == On(Top)
           known == \A k \in DOMAIN Now.line : k > 1 \/ Now.line[k].t # "unknown"
       IN CASE ~Top.exec -> stack' = Append(Under, f) /\ UNCHANGED <<input, io>>
            [] Top.exec /\ ~known -> stack' = Append(Under, Stop(Top)) /\ io' = Said(1) /\ UNCHANGED input
            [] OTHER -> /\ stack' = Under \o <<[f EXCEPT !.log = Append(@, Top.pc)], Line(Now.line)>>
                        /\ input' = Now.line /\ UNCHANGED io
    /\ UNCHANGED <<session, todo, exit, files, env, jobs, tasks, born, killed, clean, last, ended, sourcing, ran>>

\* foreach, for: the body once for every item
For ==
    /\ AtScript /\ Now.st = "for"
    /\ stack' = IF Top.exec THEN Under \o <<On(Top), [kind |-> "for", name |-> Now.name, items |-> Now.items, line |-> Now.line]>>
                ELSE Append(Under, On(Top))
    /\ UNCHANGED <<session, todo, input, io, exit, files, env, jobs, tasks, born, killed, clean, last, ended, sourcing, ran>>
ForItem ==
    /\ stack # <<>> /\ Top.kind = "for"
    /\ IF Top.items = <<>> THEN stack' = Under /\ UNCHANGED <<input, env>>
       ELSE /\ env' = Assign(env, Top.name, Head(Top.items))
            /\ input' = Top.line
            /\ stack' = Under \o <<[Top EXCEPT !.items = Tail(@)], [Line(Top.line) EXCEPT !.from.env = env']>>
    /\ UNCHANGED <<session, todo, io, exit, files, jobs, tasks, born, killed, clean, last, ended, sourcing, ran>>

\* Ctrl+C between two lines, or the timeout
GiveUp ==
    /\ AtScript /\ session.impatient
    /\ stack' = Append(Under, Stop(Top)) /\ io' = Said(1)
    /\ UNCHANGED <<session, todo, input, exit, files, env, jobs, tasks, born, killed, clean, last, ended, sourcing, ran>>

\* cmd_run, cmd_source up to the first line
StartScript ==
    /\ stack # <<>> /\ Top.kind = "call" /\ Len(input) = 1 /\ input[1].t = "cmd" /\ input[1].c.tool \in {"run", "source"}
    /\ LET c == input[1].c
           source == c.tool = "source"
           there == c.script \in DOMAIN session.scripts
       IN /\ exit' = 0
          /\ IF Depth >= DepthMax \/ ~there
             THEN stack' = Under /\ io' = Said(1) /\ sourcing' = (sourcing /\ ~source)
             ELSE /\ sourcing' = (sourcing \/ source)
                  /\ stack' = Append(Under, Script(session.scripts[c.script], IF sourcing' THEN <<>> ELSE <<env>>, [env |-> env, source |-> source, shared |-> sourcing']))
                  /\ io' = io
    /\ UNCHANGED <<session, todo, input, files, env, jobs, tasks, born, killed, clean, last, ended, ran>>

\* Mutant: a script that was given up does not put the variables back.
KeptWhenStopped(f) == IF sourcing \/ f.stopped THEN env ELSE IF f.saved = <<>> THEN [n \in {} |-> None] ELSE f.saved[1]
\* The variables it ends with.  A sourced script that has sourced another
\* copies back a table that it never filled: what is on the stack there is
\* taken to be zeros.
PutBack(f) == IF sourcing THEN env ELSE IF f.saved = <<>> THEN [n \in {} |-> None] ELSE f.saved[1]
\* cmd_run behind the last line, cmd_source
EndScript ==
    /\ stack # <<>> /\ Top.kind = "script" /\ Top.pc > Len(Top.text)
    /\ stack' = Under
    /\ io' = Said((IF Top.ifs # <<>> THEN 1 ELSE 0) + (IF Top.whiles # <<>> THEN 1 ELSE 0) + (IF Top.cases # <<>> THEN 1 ELSE 0))
    /\ env' = PutBack(Top)
    /\ sourcing' = (sourcing /\ ~Top.from.source)
    /\ ran' = [Top EXCEPT !.saved = <<env'>>]
    /\ UNCHANGED <<session, todo, input, exit, files, jobs, tasks, born, killed, clean, last, ended>>

ScriptStep == Statement \/ Command \/ For \/ ForItem \/ GiveUp \/ StartScript \/ EndScript
ScriptNext ==
    \/ TypeLine /\ UNCHANGED scripting
    \/ TakeSegment /\ UNCHANGED scripting
    \/ Dispatch /\ UNCHANGED scripting
    \/ Xargs /\ UNCHANGED scripting
    \/ Diff /\ UNCHANGED scripting
    \/ Collect /\ UNCHANGED scripting
    \/ EndLine /\ UNCHANGED scripting
    \/ Job /\ UNCHANGED scripting
    \/ ScriptStep
ScriptInit == ShellInit /\ sourcing = FALSE /\ ran = <<>>
ScriptSpec == ScriptInit /\ [][ScriptNext]_scriptVars
-----------------------------------------------------------------------------
(* Properties. *)

\* The job table tells the truth: a slot is in use exactly while one task
\* has its command to run, or was killed before it was done.  A slot given
\* out twice would lose a command and make two tasks run the other
\* (run_command_single, bg_task_entry, cmd_taskkill).
JobsAccounted ==
    \A s \in Slots :
        LET owners == {x \in tasks : x.slot = s /\ x.at # "done"}
        IN /\ Cardinality(owners) + (IF s \in killed THEN 1 ELSE 0) <= 1
           /\ jobs[s].active = (owners # {} \/ s \in killed)

\* What a script that was not sourced does to the variables ends with it,
\* however it ends: in order, at an unknown command, at Ctrl+C or by its
\* timeout, and whatever scripts it runs itself (cmd_run, cmd_source).
ScopesKept ==
    (ran # None /\ ~ran.from.shared) => ran.saved[1] = ran.from.env
=============================================================================
