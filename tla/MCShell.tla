------------------------------ MODULE MCShell ------------------------------
(***************************************************************************)
(* Sessions for module Shell: every text tool on every small text, every   *)
(* chain of three commands, pipes and redirections, formulas, patterns and *)
(* aliases, jobs among the lines of the shell, and every small script.     *)
(***************************************************************************)
EXTENDS ShellMeaning

a == 97
b == 98
F == <<102>>
G == <<103>>
Cmd(tool, flags, pat, to, nums, fs) == [tool |-> tool, flags |-> flags, pat |-> pat, to |-> to, nums |-> nums, files |-> fs]
Plain(tool, fs) == Cmd(tool, {}, <<>>, <<>>, <<1>>, fs)
C(c) == [t |-> "cmd", c |-> c]
File(n) == [t |-> "file", name |-> n]
Bar == Tok("|")
Semi == Tok(";")
NoAlias == [x \in {} |-> <<>>]
NoScript == [x \in {} |-> <<>>]
Session(fs, lines) == [files |-> fs, lines |-> lines, fat |-> FALSE, scripts |-> NoScript, aliases |-> NoAlias, impatient |-> FALSE]

(* Text tools. *)
Filters_ ==
    {Cmd("grep", f, <<a>>, <<>>, <<>>, <<>>) : f \in {{}, {"v"}, {"i", "n"}, {"c"}, {"v", "n"}}}
      \cup {Cmd("grep", {}, <<a, a>>, <<>>, <<>>, <<>>)}
      \cup {Cmd("wc", f, <<>>, <<>>, <<>>, <<>>) : f \in {{"l"}, {"w", "c"}}}
      \cup {Cmd(t, {}, <<>>, <<>>, <<n>>, <<>>) : t \in {"head", "tail"}, n \in {1, 2}}
      \cup {Cmd("sort", f, <<>>, <<>>, <<>>, <<>>) : f \in {{}, {"r"}, {"n"}, {"n", "r"}}}
      \cup {Cmd("uniq", f, <<>>, <<>>, <<>>, <<>>) : f \in {{}, {"c"}, {"d"}, {"u", "c"}}}
      \cup {Cmd("cut", {}, <<a>>, <<>>, <<n>>, <<>>) : n \in {1, 2}}
      \cup {Plain(t, <<>>) : t \in {"rev", "nl", "column"}}
      \cup {Cmd("strings", {}, <<>>, <<>>, <<2>>, <<>>)}
      \cup {Cmd("tr", {}, <<a, NL>>, <<b>>, <<>>, <<>>)}
OnFile(c) == [c EXCEPT !.files = <<F>>]
Texts == UNION {[1 .. n -> {a, b, NL}] : n \in 0 .. 4}
           \cup {<<a, Blank, b, NL, NL, 65>>, <<a, CR, NL, b, CR, NL>>, <<49, 48, NL, 57, NL, 45, 49>>, <<b, NL, b, NL, a, NL, b>>,
                 <<Blank, 50, NL, 49, 48, NL>>, <<a, b, b, a, NL, b, a, a, b>>, <<9, a, a, Blank, b, 7, a, b>>, <<98, 10, 97, 10, 66>>}
ToolSessions == {Session(F :> t, <<<<C(OnFile(c))>>, <<C(c), Tok("<"), File(F)>>>>) : c \in {x \in Filters_ : x.tool # "tr"}, t \in Texts}
                  \cup {Session(F :> t, <<<<C(c), Tok("<"), File(F)>>>>) : c \in {x \in Filters_ : x.tool = "tr"}, t \in Texts}
                  \cup {Session(F :> t, <<<<C(Plain("tac", <<F>>))>>, <<C(Plain("cat", <<F>>)), Bar, C(Cmd("wc", {"c"}, <<>>, <<>>, <<>>, <<>>))>>>>) : t \in Texts}

\* two files, and numbers
Short == UNION {[1 .. n -> {a, NL}] : n \in 0 .. 2}
PairSessions == {Session((F :> t) @@ (G :> u), <<<<C(Plain("cmp", <<F, G>>)), Semi, C(Cmd("paste", {}, <<Blank, Blank>>, <<>>, <<>>, <<F, G>>))>>>>) :
                    t \in Short, u \in Short}
                  \cup {Session(F :> <<>>, <<<<C(Cmd("seq", {}, <<>>, <<>>, <<m, n, step>>, <<>>))>>>>) : m \in 1 .. 2, n \in 0 .. 5, step \in 0 .. 3}

(* Words. *)
Num(n) == [kind |-> "num", n |-> n]
Op(op, l, r) == [kind |-> "op", op |-> op, l |-> l, r |-> r]
Ops == {"+", "-", "*", "/", "%"}
Leaves == {Num(2), Num(7)}
Trees1 == {Op(o, l, r) : o \in Ops, l \in Leaves, r \in Leaves \cup {Num(0)}}
Trees2 == {Op(o, Op(p, Num(9), Num(4)), r) : o \in Ops, p \in Ops, r \in Trees1 \cup Leaves}
            \cup {Op(o, l, Op(p, Num(9), Num(2))) : o \in Ops, p \in Ops, l \in Leaves}
CalcOf(e) == Cmd("calc", {}, <<>>, <<>>, <<>>, <<>>) @@ [formula |-> Text(e), tree |-> e]
Echo(words) == [tool |-> "echo", flags |-> {}, pat |-> <<>>, words |-> words]
EchoText(t) == [tool |-> "echo", flags |-> {}, pat |-> t]
W(t) == [kind |-> "text", text |-> t]
Var(n, t) == [kind |-> "var", name |-> n, text |-> t]
Patterns == UNION {[1 .. n -> {a, Star, Question}] : n \in 1 .. 3}
Names == {<<a>>, <<a, a>>, <<b, a>>, <<a, b>>, <<46, a>>}
Al(n) == [t |-> "alias", a |-> n]
Aliases == {(Al(1) :> <<Al(2)>>) @@ (Al(2) :> <<Al(3)>>) @@ (Al(3) :> <<C(EchoText(<<a>>))>>), (Al(1) :> <<Al(2)>>) @@ (Al(2) :> <<Al(1)>>),
            (Al(1) :> <<C(Echo(<<W(<<Star>>)>>))>>), (Al(1) :> <<Al(2), Bar, C(Plain("rev", <<>>))>>) @@ (Al(2) :> <<C(Plain("cat", <<F>>))>>)}
WordSessions == {Session(F :> <<>>, <<<<C(CalcOf(e))>>>>) : e \in Trees1 \cup Trees2}
                  \cup {Session(F :> <<>>, <<<<C(Cmd("factor", {}, <<>>, <<>>, <<n>>, <<>>))>>>>) : n \in 2 .. 40}
                  \cup {Session([n \in N |-> <<>>], <<<<C(Echo(<<W(p)>>))>>>>) : p \in Patterns, N \in {Names, {<<b, b>>}}}
                  \cup {[Session(F :> <<a, b>>, <<<<Al(1)>>, <<C(EchoText(<<a>>)), Semi, Al(1)>>>>) EXCEPT !.aliases = al] : al \in Aliases}

(* Chains, pipes, redirections. *)
Set(n, t) == [tool |-> "set", flags |-> {}, pat |-> t, name |-> n]
Unset(n) == [tool |-> "unset", flags |-> {}, name |-> n]
Test(op, x, y) == [tool |-> "test", flags |-> {}, op |-> op, pat |-> x, to |-> y]
Links == {Plain("true", <<>>), Plain("false", <<>>), Set("v", <<a>>), Echo(<<Var("v", <<b>>), [kind |-> "exit"]>>),
          Plain("exists", <<G>>), Test("-lt", <<45, 50>>, <<49>>), [tool |-> "tee", flags |-> {}, files |-> <<G>>]}
ChainSessions == {Session(F :> <<a>>, <<<<C(x), Tok(o), C(y), Tok(p), C(z)>>>>) : x \in Links, y \in Links, z \in Links, o \in Operators, p \in Operators}
Middle == {c \in Filters_ : c.tool \in {"uniq", "tr", "rev", "sort"} \/ (c.tool = "grep" /\ c.flags = {"v"})}
            \cup {Cmd("wc", {"w"}, <<>>, <<>>, <<>>, <<>>), [tool |-> "tee", flags |-> {}, files |-> <<G>>]}
XArgs(c) == [tool |-> "xargs", of |-> c]
Lasts == {EchoText(<<>>), Plain("cat", <<>>), Cmd("grep", {}, <<a>>, <<>>, <<>>, <<>>)}
PipeSessions == {Session((F :> t) @@ (G :> <<b>>), <<<<C(Plain("cat", <<F>>)), Bar, C(x), Bar, C(y)>>>>) :
                    x \in Middle, y \in Middle \cup {XArgs(l) : l \in Lasts}, t \in {<<b, NL, a, NL, a>>, <<a, Blank, b, NL>>, <<>>, <<70 + 32, NL, 71 + 32>>}}
Bg(c) == <<C(c), Tok("&")>>
Into(c, how, n) == <<C(c), Tok(how), File(n)>>
RedirSessions == {[Session(F :> <<b>>, <<Into(EchoText(t), o, G), Into(EchoText(u), p, G), Into(Plain("cat", <<G>>), q, F)>>) EXCEPT !.fat = m] :
                     t \in {<<a>>, <<a, a, a, a, a>>}, u \in {<<b>>, <<b, b, b, b, b, b, b>>}, o \in {">", ">>"}, p \in {">", ">>"}, q \in {"<", ">", ">>"}, m \in BOOLEAN}
OddSessions == {Session(F :> <<a>>, <<l>>) :
                   l \in {Into(EchoText(<<b>>), ">", G) \o <<Bar, C(Plain("cat", <<F>>))>>, <<C(EchoText(<<a>>)), Tok(">")>>, <<Tok("&")>>, <<Semi, Semi>>,
                          <<C(Plain("cat", <<F>>)), Bar>>, <<Bar, C(Plain("rev", <<F>>))>>, Into(Plain("rev", <<>>), "<", G),
                          <<C(Plain("cat", <<F>>)), Bar, C(Plain("rev", <<>>)), Bar, C(Plain("nl", <<>>)), Bar, C(Plain("nl", <<>>))>>,
                          <<C(Plain("cat", <<F>>)), Tok("<"), File(F), Bar, C(Plain("rev", <<>>))>>, <<C(XArgs(EchoText(<<>>)))>>,
                          <<Tok("unknown")>>, <<C([tool |-> "diff", files |-> <<F, G>>])>>,
                          <<C(Unset("v")), Semi, C(Set("v", <<a>>)), Semi, C(Set("w", <<a>>)), Semi, C(Set("x", <<b>>)), Semi, C(Unset("w")), Semi, C(Set("x", <<b>>)), Semi, C(Echo(<<Var("x", <<>>)>>))>>,
                          <<C(Cmd("seq", {}, <<>>, <<>>, <<1, 5, 2>>, <<>>)), Bar, C(Plain("nl", <<>>))>>,
                          <<C(Cmd("yes", {}, <<a>>, <<>>, <<2>>, <<>>)), Bar, C(Cmd("paste", {}, <<Blank, Blank>>, <<>>, <<>>, <<F, F>>))>>,
                          <<C(Plain("cmp", <<F, F>>)), Semi, C(Cmd("find", {}, <<102>>, <<>>, <<>>, <<>>)), Semi, C(Plain("nosuch", <<>>))>>}}
                 \cup {Session((F :> <<a, NL, b>>) @@ (G :> t), <<<<C([tool |-> "diff", files |-> <<F, G>>])>>>>) : t \in {<<>>, <<a, NL, a>>}}

(* Jobs. *)
Wait == [tool |-> "wait"]
JobLines == {Bg(EchoText(<<b>>)), Bg(Wait), <<C([tool |-> "taskkill"])>>, <<C([tool |-> "jobs"])>>,
             <<C(Plain("cat", <<F>>)), Bar, C(Plain("rev", <<>>))>>, Into(EchoText(<<a>>), ">", G)}
JobSessions == {Session(F :> <<b, a>>, <<l, m, n>>) : l \in {Bg(EchoText(<<b>>)), Bg(Wait)}, m \in JobLines, n \in JobLines}
                 \cup {Session(F :> <<b, a>>, <<Bg(Wait), <<C([tool |-> "taskkill"])>>, Bg(EchoText(<<b>>)), Bg(Set("v", <<a>>)), <<C(Wait), Semi, C([tool |-> "jobs"])>>>>)}

(* Scripts. *)
Either == [op |-> "any"]
St(s) == [st |-> s]
IfC == [st |-> "if", cond |-> Either]
Do(l) == [st |-> "do", line |-> l]
Nop == Do(<<C(Plain("true", <<>>))>>)
WhileC(u) == [st |-> "while", cond |-> Either, until |-> u]
CaseOf(n) == [st |-> "case", name |-> n]
Lab(ps) == [st |-> "label", patterns |-> ps]
Block(u, o, c) == <<o>> \o u \o <<c>>
RECURSIVE Unit(_, _), Body(_, _)
Unit(n, loop) ==
    IF n = 1 THEN {<<Nop>>} \cup (IF loop THEN {<<St("break")>>, <<St("continue")>>} ELSE {})
    ELSE {Block(x, IfC, St("fi")) : x \in Body(n - 1, loop)}
           \cup {Block(x, WhileC(n % 2 = 1), St("done")) : x \in Body(n - 1, TRUE)}
           \cup {Block(<<Lab(p)>> \o x \o <<St(";;")>>, CaseOf("v"), St("esac")) : x \in Body(n - 1, loop), p \in {<<<<>>, <<Star>>>>, <<<<b, Star>>>>}}
           \cup UNION {{Block(x \o <<arm>> \o y, IfC, St("fi")) : x \in Body(k, loop), y \in Body(n - 1 - k, loop), arm \in {St("else"), [st |-> "elif", cond |-> Either]}} : k \in 1 .. n - 2}
Body(n, loop) == IF n = 0 THEN {<<>>} ELSE UNION {{x \o y : x \in Unit(k, loop), y \in Body(n - k, loop)} : k \in 1 .. n}
Runs(s) == [tool |-> "run", script |-> s]
Sources(s) == [tool |-> "source", script |-> s]
SetIt(n, t) == Do(<<C(Set(n, t))>>)
\* a command whose text ends in a parenthesis
Paren == [st |-> "do", line |-> <<C(Plain("true", <<>>))>>, patterns |-> <<<<a, a>>>>]
Scripted(ss, lines, hurry) == [Session(F :> <<a>>, lines) EXCEPT !.scripts = ss, !.impatient = hurry]
Deep == {<<WhileC(FALSE), IfC, St("continue"), St("fi"), Nop, St("done")>>,
         <<WhileC(FALSE), WhileC(TRUE), IfC, St("break"), St("fi"), Nop, St("done"), Nop, St("done"), Nop>>,
         <<IfC, WhileC(FALSE), Nop, St("done"), Nop, St("else"), Nop, St("fi"), Nop>>,
         <<St("fi"), St("done"), St("esac"), St("else"), [st |-> "elif", cond |-> Either], St("break"), St("continue"), St(";;"), Nop>>,
         <<IfC, IfC, IfC, IfC, Nop, St("fi"), St("fi"), St("fi"), St("fi")>>,
         <<WhileC(TRUE), WhileC(TRUE), WhileC(TRUE), WhileC(TRUE), Nop>>, <<CaseOf("v"), CaseOf("v"), CaseOf("v"), CaseOf("v")>>,
         <<Lab(<<<<a>>>>)>>, <<IfC, Paren, St("else"), Paren, Paren, St("fi"), WhileC(FALSE), Paren, St("done")>>, <<Nop, Do(<<Tok("unknown")>>), Nop>>,
         <<SetIt("v", <<a, b>>), CaseOf("v"), Lab(<<<<b>>, <<a, Star>>>>), Nop, St(";;"), Lab(<<<<Star>>>>), Nop, St(";;"), St("esac"), Nop>>,
         <<SetIt("v", <<b>>), CaseOf("v"), Lab(<<<<Star, a>>>>), Nop, St(";;"), Lab(<<<<Star, b>>>>), Nop, St(";;"), St("esac")>>,
         <<[st |-> "if", cond |-> [op |-> "==", name |-> "v", text |-> <<a>>]], Nop, St("fi"), [st |-> "if", cond |-> [op |-> "!=", name |-> "v", text |-> <<a>>]], Nop, St("else"), Nop, St("fi")>>,
         <<[st |-> "for", name |-> "i", items |-> <<<<a>>, <<b>>>>, line |-> <<C(Echo(<<Var("i", <<>>)>>))>>], IfC, [st |-> "for", name |-> "i", items |-> <<<<a>>>>, line |-> <<C(Set("v", <<b>>))>>], St("fi")>>}
RunLine == <<C(Runs("s"))>>
\* Loops in loops have very many runs: one at most in the larger scripts.
Loops(t) == Cardinality({p \in DOMAIN t : t[p].st = "while"})
ScriptSessions(n) == {Scripted("s" :> t, <<RunLine>>, FALSE) :
                         t \in UNION {{x \in Body(k, FALSE) : k <= 3 \/ Loops(x) <= 1} : k \in 1 .. n} \cup Deep}
Inner == {<<SetIt("w", <<a>>)>>, <<SetIt("v", <<a>>), Do(<<Tok("unknown")>>)>>, <<SetIt("w", <<b>>), Do(<<C(Runs("s"))>>)>>, <<>>}
Outer == {<<SetIt("v", <<b>>), Do(<<C(r)>>), Do(<<C(Echo(<<Var("v", <<>>), Var("w", <<>>)>>))>>)>> : r \in {Runs("t"), Sources("t")}}
NestedSessions == {Scripted(("s" :> x) @@ ("t" :> y), <<<<C(r)>>, <<C(Echo(<<Var("v", <<>>), Var("w", <<>>)>>))>>>>, h) :
                      x \in Outer, y \in Inner, r \in {Runs("s"), Sources("s"), Runs("nosuch")}, h \in BOOLEAN}
                   \cup {Scripted("s" :> <<Nop, Do(<<C(EchoText(<<a>>)), Bar, C(Plain("rev", <<>>))>>)>>, <<<<C(Runs("s")), Bar, C(Plain("cat", <<>>))>>, Into(Runs("s"), ">", G)>>, FALSE)}

\* the same, with a case around it
ArmSessions == {Scripted("s" :> x, <<RunLine>>, FALSE) :
                   x \in {<<SetIt("v", <<a>>), CaseOf("v"), Lab(<<<<a>>>>), Nop, Paren, Nop, St(";;"), Lab(<<<<Star>>>>), Paren, St(";;"), St("esac"), Paren>>,
                          <<IfC, CaseOf("v"), Lab(<<<<Star>>>>), IfC, Paren, St("fi"), Paren, Nop, St(";;"), St("esac"), St("fi")>>,
                          <<WhileC(FALSE), CaseOf("v"), Lab(<<<<Star>>>>), Paren, Nop, St(";;"), St("esac"), Paren, St("done")>>}}
\* blocks within blocks, and nothing that leaves them early
NestSessions == {x \in ScriptSessions(4) : \A n \in DOMAIN x.scripts["s"] : x.scripts["s"][n].st \notin {"break", "continue"}}

MCSessions == ToolSessions \cup PairSessions \cup ArmSessions \cup WordSessions \cup ChainSessions \cup PipeSessions \cup RedirSessions \cup OddSessions \cup JobSessions
                \cup ScriptSessions(4) \cup NestedSessions
=============================================================================
