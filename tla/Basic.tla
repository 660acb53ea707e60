------------------------------- MODULE Basic -------------------------------
(***************************************************************************)
(* The Tiny BASIC interpreter, kernel/basic.c: basic_run and the parser of *)
(* expressions it is built on.  A program is a sequence of lines, each a   *)
(* label and a statement; the statement's text is its words, classified by *)
(* its first one, and an expression is the sequence of its tokens, which   *)
(* the code parses and evaluates in one pass, every time it gets there.    *)
(*                                                                         *)
(* A step of the machine is one turn of basic_run's loop, that is one      *)
(* line.  A string is the sequence of its character codes.  What the       *)
(* program prints is kept as the sequence of the values printed.           *)
(*                                                                         *)
(* PRINT# and INPUT# have handlers in basic.c (2165 and 2262) that no      *)
(* program reaches: the handlers of PRINT and INPUT come first and take    *)
(* every statement that starts with these words.                           *)
(***************************************************************************)
EXTENDS Integers, FiniteSets, SequencesExt, TLC
LOCAL INSTANCE Bitwise

CONSTANTS Programs,     \* families of programs that are run: each a set of sequences of lines
          Vars,         \* names of numeric variables, "A" to "Z"
          Strs,         \* names of string variables, "A$" to "Z$"
          Fns,          \* names of functions, "FNA" to "FNZ"
          Stored,       \* the files there are: a function from names to contents
          Number,       \* the value of each number token
          Literal,      \* the characters of each string literal token
          Inputs,       \* the lines a user may type at INPUT
          Absent,       \* the contents of a file that does not exist
          MaxSteps,     \* BASIC_MAX_STEPS
          CallDepth,    \* BASIC_MAX_CALL_DEPTH
          ForDepth,     \* BASIC_MAX_FOR_DEPTH
          WhileDepth,   \* BASIC_MAX_WHILE_DEPTH
          StrMax,       \* BASIC_MAX_STRING_LEN - 1
          ArrayMax,     \* BASIC_ARRAY_MAX
          FnMax,        \* BASIC_MAX_DEF_FN
          Channels,     \* 1 .. BASIC_MAX_FILES
          Rand          \* <<factor, step, modulus>> of the generator of RND

VARIABLES
  prog,     \* lines[]
  pc,       \* index of the line to run, from 1
  steps,    \* lines run so far
  env,      \* vars, strs, arrays, fns, files, seed: what expressions read
  calls,    \* call_stack
  fors,     \* for_stack
  whiles,   \* while_stack
  data,     \* <<data_line, items of that line already read>>
  disk,     \* contents of the files
  out,      \* values printed
  phase     \* "run", "done", "failed", or "ended" (END and STOP)

vars == <<prog, pc, steps, env, calls, fors, whiles, data, disk, out, phase>>

Word == 2 ^ 16          \* stands for 2^32 in the bitwise operators
ToWord(v) == v % Word
FromWord(u) == IF u >= Word \div 2 THEN u - Word ELSE u

(* C's division: towards zero, and a remainder with the sign of the dividend. *)
Abs(v) == IF v < 0 THEN -v ELSE v
Quotient(a, b) == LET q == Abs(a) \div Abs(b) IN IF (a < 0) = (b < 0) THEN q ELSE -q
Remainder(a, b) == a - b * Quotient(a, b)

AddOps == {"+", "-", "AND", "OR", "XOR"}
MulOps == {"*", "/", "%"}

Defined(op, b) == op \in {"/", "%"} => b # 0
Apply(op, a, b) ==
  CASE op = "+" -> a + b
    [] op = "-" -> a - b
    [] op = "*" -> a * b
    [] op = "/" -> Quotient(a, b)
    [] op = "%" -> Remainder(a, b)
    [] op = "AND" -> FromWord(ToWord(a) & ToWord(b))
    [] op = "OR" -> FromWord(ToWord(a) | ToWord(b))
    [] op = "XOR" -> FromWord(ToWord(a) ^^ ToWord(b))

-----------------------------------------------------------------------------
(* Expressions.  A parser takes the tokens and the state, and gives the     *)
(* value, the tokens it left and the state (RND moves the generator on).    *)

Good(v, rest, e) == [ok |-> TRUE, v |-> v, rest |-> rest, e |-> e]
Bad == [ok |-> FALSE]
Starts(s, tokens) == s # <<>> /\ Head(s) \in tokens

Cut(s) == SubSeq(s, 1, IF Len(s) < StrMax THEN Len(s) ELSE StrMax)

(* b_int_to_text and b_parse_int_from_text; the codes of "0" and "-" are 48 and 45. *)
RECURSIVE Digits(_)
Digits(n) == IF n < 10 THEN <<48 + n>> ELSE Append(Digits(n \div 10), 48 + (n % 10))
IntToText(v) == IF v < 0 THEN <<45>> \o Digits(-v) ELSE Digits(v)

IsDigit(c) == c \in 48 .. 57
TextToInt(s) ==
  LET t == IF Starts(s, {45}) THEN Tail(s) ELSE s
      n == CHOOSE k \in 0 .. Len(t) : /\ \A i \in 1 .. k : IsDigit(t[i])
                                      /\ k < Len(t) => ~IsDigit(t[k + 1])
      v == FoldLeft(LAMBDA acc, c : acc * 10 + (c - 48), 0, SubSeq(t, 1, n))
  IN  IF t = s THEN v ELSE -v

(* INSTR, with its search stopped by the end of either string. *)
Position(hay, needle) ==
  LET At == {i \in 1 .. Len(hay) : IsPrefix(needle, SubSeq(hay, i, Len(hay)))}
  IN  IF needle = <<>> THEN 1
      ELSE IF At = {} THEN 0 ELSE CHOOSE i \in At : \A j \in At : i <= j

Between(k, lo, hi) == IF k < lo THEN lo ELSE IF k > hi THEN hi ELSE k
Mid(s, from, n) ==
  LET f == IF from < 1 THEN 1 ELSE from
      k == IF n < 0 THEN 0 ELSE n
  IN  SubSeq(s, f, Between(f + k - 1, 0, Len(s)))
LeftOf(s, n) == SubSeq(s, 1, Between(n, 0, Len(s)))
RightOf(s, n) == SubSeq(s, Len(s) - Between(n, 0, Len(s)) + 1, Len(s))

RECURSIVE Expr(_, _), StrExpr(_, _), Factor(_, _), TermTail(_), ExprTail(_), StrTail(_)

(* The rest of a rule goes on with what the part before it gave. *)
Then(r, Rest(_)) == IF r.ok THEN Rest(r) ELSE Bad
Closed(r, v) == IF Starts(r.rest, {")"}) THEN Good(v, Tail(r.rest), r.e) ELSE Bad

(* b_parse_builtin_paren_expr: "(" expression ")" *)
Paren(s, e) ==
  IF Starts(s, {"("}) THEN Then(Expr(Tail(s), e), LAMBDA r : Closed(r, r.v)) ELSE Bad

(* The arguments of the functions of strings: a string and then numbers. *)
StrArg(s, e) == IF Starts(s, {"("}) THEN StrExpr(Tail(s), e) ELSE Bad
Comma(r) == IF Starts(r.rest, {","}) THEN Expr(Tail(r.rest), r.e) ELSE Bad
Slice(f, a, b) ==
  CASE f = "LEFT$" -> Closed(b, LeftOf(a.v, b.v))
    [] f = "RIGHT$" -> Closed(b, RightOf(a.v, b.v))
    [] f = "MID$" /\ Starts(b.rest, {","}) ->
         Then(Comma(b), LAMBDA c : Closed(c, Mid(a.v, b.v, c.v)))
    [] f = "MID$" /\ ~Starts(b.rest, {","}) -> Closed(b, Mid(a.v, b.v, StrMax + 1))

Chr(n) == IF n % 256 = 0 THEN <<>> ELSE <<n % 256>>

(* One piece of a string expression. *)
StrAtom(s, e) ==
  IF Starts(s, DOMAIN Literal) THEN Good(Cut(Literal[Head(s)]), Tail(s), e)
  ELSE Good(e.strs[Head(s)], Tail(s), e)
StrPart(s, e) ==
  CASE Starts(s, DOMAIN Literal \cup Strs) -> StrAtom(s, e)
    [] Starts(s, {"CHR$", "STR$"}) ->
         Then(Paren(Tail(s), e),
              LAMBDA n : Good(IF Head(s) = "CHR$" THEN Chr(n.v) ELSE IntToText(n.v), n.rest, n.e))
    [] Starts(s, {"LEFT$", "RIGHT$", "MID$"}) ->
         Then(StrArg(Tail(s), e),
              LAMBDA a : Then(Comma(a), LAMBDA b : Slice(Head(s), a, b)))
    [] OTHER -> Bad

StrTail(r) ==
  IF ~r.ok \/ ~Starts(r.rest, {"+"}) THEN r
  ELSE StrTail(Then(StrPart(Tail(r.rest), r.e), LAMBDA p : Good(Cut(r.v \o p.v), p.rest, p.e)))
StrExpr(s, e) == StrTail(StrPart(s, e))

(* RND(n) is 0 when n is not positive, and then the generator stays. *)
Random(n, rest, e) ==
  LET seed == (e.seed * Rand[1] + Rand[2]) % Rand[3]
  IN  IF n <= 0 THEN Good(0, rest, e) ELSE Good(seed % n, rest, [e EXCEPT !.seed = seed])

(* A function's body is read with the parameter's variable set to the       *)
(* argument, and the variable is put back.                                  *)
Applied(f, a) ==
  Then(Expr(f.body, [a.e EXCEPT !.vars[f.param] = a.v]),
       LAMBDA b : Good(b.v, a.rest, [b.e EXCEPT !.vars[f.param] = a.e.vars[f.param]]))
CallFn(s, e) ==
  LET i == SelectInSeq(e.fns, LAMBDA d : d.name = Head(s))
  IN  IF i = 0 THEN Bad ELSE Then(Paren(Tail(s), e), LAMBDA a : Applied(e.fns[i], a))

(* EOF(n): a channel that is not open, or none at all, is at its end. *)
AtEof(e, n) ==
  IF n \in Channels /\ e.files[n].active /\ e.files[n].pos < Len(e.files[n].buf)
  THEN 0 ELSE -1

(* b_parse_value, and what b_parse_factor tries before it.  A word where a  *)
(* value is expected stands for the variable of its first letter, also that *)
(* of an operator or of a function that no parenthesis follows.             *)
Letter == [v \in Vars |-> v] @@
  [AND |-> "A", OR |-> "O", XOR |-> "X", NOT |-> "N", ABS |-> "A", EOF |-> "E", RND |-> "R",
   LEN |-> "L", VAL |-> "V", ASC |-> "A", INSTR |-> "I", TAB |-> "T", SPC |-> "S"]
\* variables that are not in Vars are never set
ValueIn(e, v) == IF v \in Vars THEN e.vars[v] ELSE 0
ArrayIn(e, v) == IF v \in Vars THEN e.arrays[v] ELSE <<>>
Element(s, e) ==
  Then(Paren(Tail(s), e),
       LAMBDA i : LET cells == ArrayIn(i.e, Letter[Head(s)])
                  IN  IF i.v \in 0 .. Len(cells) - 1 THEN Good(cells[i.v + 1], i.rest, i.e) ELSE Bad)

OfNumber(f, n) ==
  CASE f = "ABS" -> Good(Abs(n.v), n.rest, n.e)
    [] f = "EOF" -> Good(AtEof(n.e, n.v), n.rest, n.e)
    [] f = "RND" -> Random(n.v, n.rest, n.e)
OfString(f, a) ==
  CASE f = "LEN" -> Closed(a, Len(a.v))
    [] f = "VAL" -> Closed(a, TextToInt(a.v))
    [] f = "ASC" -> Closed(a, IF a.v = <<>> THEN 0 ELSE Head(a.v))
    [] f = "INSTR" ->
         IF ~Starts(a.rest, {","}) THEN Bad
         ELSE Then(StrExpr(Tail(a.rest), a.e), LAMBDA b : Closed(b, Position(a.v, b.v)))

Primary(s, e) ==
  LET call == Starts(Tail(s), {"("})
  IN  CASE s = <<>> -> Bad
        [] Starts(s, {"("}) -> Paren(s, e)
        [] Starts(s, DOMAIN Number) -> Good(Number[Head(s)], Tail(s), e)
        [] Starts(s, {"ABS", "EOF", "RND"}) /\ call ->
             Then(Paren(Tail(s), e), LAMBDA n : OfNumber(Head(s), n))
        [] Starts(s, {"LEN", "VAL", "ASC", "INSTR"}) /\ call ->
             Then(StrArg(Tail(s), e), LAMBDA a : OfString(Head(s), a))
        [] Starts(s, Fns) -> CallFn(s, e)
        [] OTHER -> CASE ~Starts(s, DOMAIN Letter) -> Bad
                      [] Starts(s, DOMAIN Letter) /\ call -> Element(s, e)
                      [] OTHER -> Good(ValueIn(e, Letter[Head(s)]), Tail(s), e)

Factor(s, e) ==
  LET signs == CHOOSE k \in 0 .. Len(s) :
                 /\ \A i \in 1 .. k : s[i] \in {"+", "-"}
                 /\ k < Len(s) => s[k + 1] \notin {"+", "-"}
      minus == Cardinality({i \in 1 .. signs : s[i] = "-"})
  IN  IF Starts(s, {"NOT"})
      THEN Then(Factor(Tail(s), e), LAMBDA r : Good(-r.v - 1, r.rest, r.e))
      ELSE Then(Primary(SubSeq(s, signs + 1, Len(s)), e),
                LAMBDA p : Good(IF minus % 2 = 0 THEN p.v ELSE -p.v, p.rest, p.e))

(* The two loops of b_parse_term and b_parse_expr: r is what is parsed so   *)
(* far, o what comes after the next operator.                               *)
Joined(op, r, o) == IF Defined(op, o.v) THEN Good(Apply(op, r.v, o.v), o.rest, o.e) ELSE Bad

TermTail(r) ==
  IF ~r.ok \/ ~Starts(r.rest, MulOps) THEN r
  ELSE TermTail(Then(Factor(Tail(r.rest), r.e), LAMBDA f : Joined(Head(r.rest), r, f)))
Term(s, e) == TermTail(Factor(s, e))

ExprTail(r) ==
  IF ~r.ok \/ ~Starts(r.rest, AddOps) THEN r
  ELSE ExprTail(Then(Term(Tail(r.rest), r.e), LAMBDA t : Joined(Head(r.rest), r, t)))
Expr(s, e) == ExprTail(Term(s, e))

-----------------------------------------------------------------------------
(* Where lines are found. *)

Lines == DOMAIN prog
Kind(l) == prog[l].stmt.k

(* Mutant: the first closing line, however deep. *)
FirstClosing(open, close, at) ==
  SelectInSubSeq(prog, at + 1, Len(prog), LAMBDA l : l.stmt.k = close)

(* b_find_matching_next and b_find_matching_wend: the first closing line    *)
(* that finds every later opening line closed; 0 when there is none.        *)
Matching(open, close, at) ==
  LET Depth(l) == Cardinality({i \in at + 1 .. l : Kind(i) = open})
                  - Cardinality({i \in at + 1 .. l : Kind(i) = close})
      Ends == {l \in Lines : l > at /\ Kind(l) = close /\ Depth(l) = -1}
  IN  IF Ends = {} THEN 0 ELSE CHOOSE l \in Ends : \A m \in Ends : l <= m

(* b_find_label: the first line with the label, 0 when there is none. *)
FindLabel(label) == SelectInSeq(prog, LAMBDA l : l.label = label)

(* b_read_next_data_item: the item after the cursor, <<>> when there is none. *)
NextItem(cursor) ==
  LET After == {<<l, i>> \in Lines \X (1 .. 4) :
                  /\ Kind(l) = "DATA" /\ i <= Len(prog[l].stmt.items)
                  /\ l > cursor[1] \/ (l = cursor[1] /\ i > cursor[2])}
  IN  IF After = {} THEN <<>>
      ELSE CHOOSE p \in After :
             \A q \in After : p[1] < q[1] \/ (p[1] = q[1] /\ p[2] <= q[2])

-----------------------------------------------------------------------------
(* The machine. *)

Blank == [vars |-> [v \in Vars |-> 0], strs |-> [v \in Strs |-> <<>>],
          arrays |-> [v \in Vars |-> <<>>]]
Shut == [active |-> FALSE, mode |-> "input", path |-> CHOOSE p \in DOMAIN Stored : TRUE,
         buf |-> <<>>, pos |-> 0]

Init ==
  /\ \E family \in DOMAIN Programs : prog \in Programs[family]
  /\ pc = 1 /\ steps = 0
  /\ env = Blank @@ [fns |-> <<>>, files |-> [c \in Channels |-> Shut], seed |-> 0]
  /\ calls = <<>> /\ fors = <<>> /\ whiles = <<>>
  /\ data = <<1, 0>>
  /\ disk = Stored
  /\ out = <<>> /\ phase = "run"

(* The files basic_run saves and closes when it leaves through b_cleanup.   *)
(* A write that the file system refuses goes unnoticed.                     *)
CloseAll ==
  LET Saved(p) == {c \in Channels : /\ env.files[c].active /\ env.files[c].path = p
                                    /\ env.files[c].mode # "input"}
      Latest(p) == CHOOSE c \in Saved(p) : \A d \in Saved(p) : d <= c
  IN  /\ disk' = [p \in DOMAIN disk |-> IF Saved(p) = {} THEN disk[p] ELSE env.files[Latest(p)].buf]
      /\ env' = [env EXCEPT !.files = [c \in Channels |-> [@[c] EXCEPT !.active = FALSE]]]

(* b_runtime_error and the way out. *)
Fail ==
  /\ phase' = "failed"
  /\ CloseAll
  /\ UNCHANGED <<pc, calls, fors, whiles, data, out>>

(* One turn of the loop that runs a line of one of these kinds. *)
Statement(kinds) ==
  /\ phase = "run" /\ pc \in Lines /\ steps < MaxSteps
  /\ Kind(pc) \in kinds
  /\ steps' = steps + 1
  /\ UNCHANGED prog

Stmt == prog[pc].stmt
Goes(to) == pc' = to /\ phase' = "run"

TooManySteps ==
  /\ phase = "run" /\ pc \in Lines /\ steps = MaxSteps
  /\ steps' = steps + 1 /\ UNCHANGED prog
  /\ Fail

FallOff ==
  /\ phase = "run" /\ pc \notin Lines
  /\ phase' = "done" /\ CloseAll
  /\ UNCHANGED <<prog, pc, steps, calls, fors, whiles, data, out>>

(* Blank lines, comments and labels alone; CLS, CLEAR, LIST; DATA. *)
Skip ==
  /\ Statement({"REM", "CLS", "LIST", "DATA"})
  /\ Goes(pc + 1)
  /\ UNCHANGED <<env, calls, fors, whiles, data, disk, out>>

(* The return in the middle of the function: the files stay as they are. *)
End ==
  /\ Statement({"END", "STOP"})
  /\ phase' = "ended"
  /\ UNCHANGED <<pc, env, calls, fors, whiles, data, disk, out>>

(* RUN starts again with the variables cleared.  The functions, the files,  *)
(* the WHILE stack and the count of steps are left as they are.             *)
Run ==
  /\ Statement({"RUN"})
  /\ Goes(1)
  /\ env' = Blank @@ env
  /\ calls' = <<>> /\ fors' = <<>> /\ data' = <<1, 0>>
  /\ UNCHANGED <<whiles, disk, out>>

Jump(to, e) ==
  /\ Goes(to)
  /\ env' = e
  /\ UNCHANGED <<calls, fors, whiles, data, disk, out>>

(* A statement that only changes what expressions read. *)
Sets(r) == \/ r.ok /\ Jump(pc + 1, r.e)
           \/ ~r.ok /\ Fail

(* Each item is a string if it parses as one, and a number otherwise; TAB   *)
(* and SPC print blanks.  What was printed before an error stays printed,   *)
(* and what an item leaves unread ends the statement.                       *)
PrintText(acc, s) ==
  LET Add(r, text) == [acc EXCEPT !.e = r.e, !.out = Append(@, text), !.more = (r.rest = <<>>)]
      Number_(r) == IF r.ok THEN Add(r, IntToText(r.v)) ELSE [acc EXCEPT !.ok = FALSE]
      String_(r) == IF r.ok THEN Add(r, r.v) ELSE Number_(Expr(s, acc.e))
  IN  String_(StrExpr(s, acc.e))
PrintTab(acc, r) ==
  IF r.ok THEN [acc EXCEPT !.e = r.e, !.more = (r.rest = <<>>)] ELSE [acc EXCEPT !.ok = FALSE]
PrintItem(acc, s) ==
  IF ~acc.ok \/ ~acc.more THEN acc
  ELSE IF Starts(s, {"TAB", "SPC"}) /\ Starts(Tail(s), {"("}) THEN PrintTab(acc, Paren(Tail(s), acc.e))
  ELSE PrintText(acc, s)

Printed(all) ==
  IF all.ok
  THEN /\ Goes(pc + 1)
       /\ env' = all.e /\ out' = all.out
       /\ UNCHANGED <<calls, fors, whiles, data, disk>>
  ELSE /\ phase' = "failed" /\ CloseAll /\ out' = all.out
       /\ UNCHANGED <<pc, calls, fors, whiles, data>>

PrintItems ==
  /\ Statement({"PRINT"})
  /\ Printed(FoldLeft(PrintItem, [ok |-> TRUE, more |-> TRUE, e |-> env, out |-> out], Stmt.items))

(* READ: every variable of the list takes the next item.  A numeric item is *)
(* an expression, read with the variables as they are now.                  *)
ReadItem(acc, v, item) ==
  LET Number_(r) == IF r.ok /\ r.rest = <<>> THEN [acc EXCEPT !.e = [r.e EXCEPT !.vars[v] = r.v]]
                    ELSE [acc EXCEPT !.ok = FALSE]
  IN  IF v \in Strs THEN [acc EXCEPT !.e.strs[v] = item.text]
      ELSE IF item.quoted THEN [acc EXCEPT !.ok = FALSE]
      ELSE Number_(Expr(item.tokens, acc.e))
ReadOne(acc, v) ==
  LET At(d) == IF ~acc.ok \/ d = <<>> THEN [acc EXCEPT !.ok = FALSE]
               ELSE ReadItem([acc EXCEPT !.data = d], v, prog[d[1]].stmt.items[d[2]])
  IN  At(NextItem(acc.data))

ReadAll(all) ==
  IF all.ok
  THEN /\ Goes(pc + 1)
       /\ env' = all.e /\ data' = all.data
       /\ UNCHANGED <<calls, fors, whiles, disk, out>>
  ELSE Fail

Read ==
  /\ Statement({"READ"})
  /\ ReadAll(FoldLeft(ReadOne, [ok |-> TRUE, e |-> env, data |-> data], Stmt.into))

(* Mutant: the place in the line is not reset. *)
RestoreLine ==
  /\ Statement({"RESTORE"})
  /\ LET l == IF Stmt.label < 0 THEN 1 ELSE FindLabel(Stmt.label)
     IN  \/ /\ l # 0
            /\ Goes(pc + 1)
            /\ data' = <<l, data[2]>>
            /\ UNCHANGED <<env, calls, fors, whiles, disk, out>>
         \/ l = 0 /\ Fail

(* RESTORE: a negative label, which is also what none stands for, is the    *)
(* first line; the cursor may stand on any line.                            *)
Restore ==
  /\ Statement({"RESTORE"})
  /\ LET l == IF Stmt.label < 0 THEN 1 ELSE FindLabel(Stmt.label)
     IN  \/ /\ l # 0
            /\ Goes(pc + 1)
            /\ data' = <<l, 0>>
            /\ UNCHANGED <<env, calls, fors, whiles, disk, out>>
         \/ l = 0 /\ Fail

(* DIM A(n) makes n + 1 cells. *)
DimArray(acc, v, n) ==
  IF n.ok /\ n.v \in 0 .. ArrayMax - 1
  THEN [acc EXCEPT !.e = [n.e EXCEPT !.arrays[v] = [i \in 1 .. n.v + 1 |-> 0]]]
  ELSE [acc EXCEPT !.ok = FALSE]
DimOne(acc, d) == IF acc.ok THEN DimArray(acc, d.v, Paren(d.size, acc.e)) ELSE acc

Dim ==
  /\ Statement({"DIM"})
  /\ Sets(FoldLeft(DimOne, [ok |-> TRUE, e |-> env], Stmt.dims))

(* A[(i)] = expression, with LET or without.  A negative index is the       *)
(* code's mark of a plain variable, so A(-1) = v assigns A.               *)
Assigned(e, v, index, value) ==
  IF index < 0 THEN [ok |-> TRUE, e |-> [e EXCEPT !.vars[v] = value]]
  ELSE IF index < Len(e.arrays[v])
       THEN [ok |-> TRUE, e |-> [e EXCEPT !.arrays[v][index + 1] = value]]
       ELSE Bad

Let ==
  /\ Statement({"LET"})
  /\ Sets(Then(IF Stmt.index = <<>> THEN Good(-1, <<>>, env) ELSE Paren(Stmt.index, env),
               LAMBDA i : Then(Expr(Stmt.e, i.e), LAMBDA r : Assigned(r.e, Stmt.v, i.v, r.v))))

(* A$ = a literal or a variable: no other string expression is understood. *)
LetString ==
  /\ Statement({"LET$"})
  /\ Sets(IF ~Starts(Stmt.e, DOMAIN Literal \cup Strs) THEN Bad
          ELSE [ok |-> TRUE, e |-> [env EXCEPT !.strs[Stmt.v] = StrAtom(Stmt.e, env).v]])

(* INPUT: a number is an expression, whole; a string may stand in quotes. *)
TypedIn(line) ==
  IF Stmt.v \in Strs THEN [ok |-> TRUE, e |-> [env EXCEPT !.strs[Stmt.v] = line.text]]
  ELSE Then(Expr(line.tokens, env),
            LAMBDA r : [ok |-> r.rest = <<>>, e |-> [r.e EXCEPT !.vars[Stmt.v] = r.v]])
Input ==
  /\ Statement({"INPUT"})
  /\ \/ \E line \in Inputs : Sets(TypedIn(line))
     \/ Fail      \* terminal_read_line refuses

Beyond(v, end, step) == (step > 0 /\ v > end) \/ (step < 0 /\ v < end)

(* FOR: a loop that runs no time is skipped with what it encloses.  Nothing *)
(* looks whether the loop is already on the stack.                          *)
EntersFor(from, to, step) ==
  LET skip == Beyond(from, to, step.v)
      next == Matching("FOR", "NEXT", pc)
      ok == step.ok /\ step.v # 0 /\ (IF skip THEN next # 0 ELSE Len(fors) < ForDepth)
  IN  \/ /\ ok
         /\ env' = [step.e EXCEPT !.vars[Stmt.v] = from]
         /\ Goes(IF skip THEN next + 1 ELSE pc + 1)
         /\ fors' = IF skip THEN fors
                    ELSE Append(fors, [v |-> Stmt.v, end |-> to, step |-> step.v,
                                       body |-> pc + 1])
         /\ UNCHANGED <<calls, whiles, data, disk, out>>
      \/ ~ok /\ Fail
ForStep(from, to) ==
  EntersFor(from.v, to.v,
            IF ~to.ok THEN Bad
            ELSE IF Stmt.step = <<>> THEN Good(1, <<>>, to.e) ELSE Expr(Stmt.step, to.e))
ForTo(from) ==
  ForStep(from, IF from.ok /\ from.rest = <<>> THEN Expr(Stmt.to, from.e) ELSE Bad)
For == Statement({"FOR"}) /\ ForTo(Expr(Stmt.from, env))

(* NEXT goes by the stack, whatever FOR it is the text's NEXT of. *)
Next_ ==
  /\ Statement({"NEXT"})
  /\ LET ok == fors # <<>> /\ (Stmt.v # "" => Last(fors).v = Stmt.v)
         top == Last(fors)
         v == env.vars[top.v] + top.step
         again == ~Beyond(v, top.end, top.step)
     IN  \/ /\ ok
            /\ env' = [env EXCEPT !.vars[top.v] = v]
            /\ fors' = IF again THEN fors ELSE Front(fors)
            /\ Goes(IF again THEN top.body ELSE pc + 1)
            /\ UNCHANGED <<calls, whiles, data, disk, out>>
         \/ ~ok /\ Fail

EntersWhile(r) ==
  LET wend == Matching("WHILE", "WEND", pc)
      enter == r.v # 0
      ok == r.ok /\ (IF enter THEN Len(whiles) < WhileDepth ELSE wend # 0)
  IN  \/ /\ ok
         /\ env' = r.e
         /\ whiles' = IF enter THEN Append(whiles, pc) ELSE whiles
         /\ Goes(IF enter THEN pc + 1 ELSE wend + 1)
         /\ UNCHANGED <<calls, fors, data, disk, out>>
      \/ ~ok /\ Fail
While == Statement({"WHILE"}) /\ EntersWhile(Expr(Stmt.e, env))

(* WEND reads the condition of the WHILE on top of the stack again. *)
Repeats(r) ==
  \/ /\ r.ok
     /\ env' = r.e
     /\ whiles' = IF r.v # 0 THEN whiles ELSE Front(whiles)
     /\ Goes(IF r.v # 0 THEN Last(whiles) + 1 ELSE pc + 1)
     /\ UNCHANGED <<calls, fors, data, disk, out>>
  \/ ~r.ok /\ Fail
Wend ==
  /\ Statement({"WEND"})
  /\ Repeats(IF whiles = <<>> THEN Bad ELSE Expr(prog[Last(whiles)].stmt.e, env))

(* DEF FN: the body is kept as text and read when it is called. *)
Def ==
  /\ Statement({"DEF"})
  /\ LET f == [name |-> Stmt.f, param |-> Stmt.p, body |-> Stmt.body]
         i == SelectInSeq(env.fns, LAMBDA d : d.name = Stmt.f)
         ok == i # 0 \/ Len(env.fns) < FnMax
     IN  \/ /\ ok
            /\ env' = [env EXCEPT !.fns = IF i # 0 THEN [@ EXCEPT ![i] = f] ELSE Append(@, f)]
            /\ Goes(pc + 1)
            /\ UNCHANGED <<calls, fors, whiles, data, disk, out>>
         \/ ~ok /\ Fail

(* ADD, SUB, MUL, DIV and MOD: a variable and an expression. *)
OpOf(k) == CASE k = "ADD" -> "+" [] k = "SUB" -> "-" [] k = "MUL" -> "*"
             [] k = "DIV" -> "/" [] k = "MOD" -> "%"
Arithmetic ==
  /\ Statement({"ADD", "SUB", "MUL", "DIV", "MOD"})
  /\ Sets(Then(Expr(Stmt.e, env),
               LAMBDA r : IF Defined(OpOf(Stmt.k), r.v)
                          THEN [ok |-> TRUE,
                                e |-> [r.e EXCEPT !.vars[Stmt.v] = Apply(OpOf(Stmt.k), @, r.v)]]
                          ELSE Bad))

Call(to, e) ==
  /\ Goes(to)
  /\ env' = e
  /\ calls' = Append(calls, pc + 1)
  /\ UNCHANGED <<fors, whiles, data, disk, out>>

Goto ==
  /\ Statement({"GOTO"})
  /\ LET to == FindLabel(Stmt.label)
     IN  \/ to # 0 /\ Jump(to, env)
         \/ to = 0 /\ Fail

Gosub ==
  /\ Statement({"GOSUB"})
  /\ LET to == FindLabel(Stmt.label)
         ok == to # 0 /\ Len(calls) < CallDepth
     IN  \/ ok /\ Call(to, env)
         \/ ~ok /\ Fail

(* ON: a selector that picks nothing goes on with the next line. *)
Selects(r) ==
  LET picked == r.v \in DOMAIN Stmt.labels
      to == FindLabel(Stmt.labels[r.v])
      ok == r.ok /\ (picked => to # 0 /\ (Stmt.sub => Len(calls) < CallDepth))
  IN  \/ ok /\ picked /\ Stmt.sub /\ Call(to, r.e)
      \/ ok /\ picked /\ ~Stmt.sub /\ Jump(to, r.e)
      \/ ok /\ ~picked /\ Jump(pc + 1, r.e)
      \/ ~ok /\ Fail
On == Statement({"ON"}) /\ Selects(Expr(Stmt.e, env))

Return ==
  /\ Statement({"RETURN"})
  /\ \/ /\ calls # <<>>
        /\ Goes(Last(calls))
        /\ calls' = Front(calls)
        /\ UNCHANGED <<env, fors, whiles, data, disk, out>>
     \/ calls = <<>> /\ Fail

Compare(op, a, b) ==
  CASE op = "=" -> a = b [] op = "<>" -> a # b [] op = "<" -> a < b
    [] op = "<=" -> a <= b [] op = ">" -> a > b [] op = ">=" -> a >= b

Decides(l, r) ==
  LET holds == Compare(Stmt.op, l.v, r.v)
      to == FindLabel(Stmt.label)
      ok == r.ok /\ r.rest = <<>> /\ (holds => to # 0)
  IN  \/ ok /\ holds /\ Jump(to, r.e)
      \/ ok /\ ~holds /\ Jump(pc + 1, r.e)
      \/ ~ok /\ Fail
IfRight(l) == Decides(l, IF l.ok /\ l.rest = <<>> THEN Expr(Stmt.r, l.e) ELSE Bad)
If == Statement({"IF"}) /\ IfRight(Expr(Stmt.l, env))

(* OPEN takes the file's contents at once, for input and for append. *)
Opens(r, was) ==
  LET ok == /\ r.ok /\ r.v \in Channels /\ ~r.e.files[r.v].active
            /\ Stmt.mode = "input" => was # Absent
      buf == IF Stmt.mode = "output" \/ was = Absent THEN <<>> ELSE was
      file == [active |-> TRUE, mode |-> Stmt.mode, path |-> Stmt.path, buf |-> buf,
               pos |-> IF Stmt.mode = "append" THEN Len(buf) ELSE 0]
  IN  Sets([ok |-> ok, e |-> [r.e EXCEPT !.files[r.v] = file]])
Open == Statement({"OPEN"}) /\ Opens(Expr(Stmt.e, env), disk[Stmt.path])

Closes(r) ==
  LET f == r.e.files[r.v]
      ok == r.ok /\ r.v \in Channels /\ f.active
  IN  \/ /\ ok
         /\ env' = [r.e EXCEPT !.files[r.v].active = FALSE]
         /\ disk' = IF f.mode = "input" THEN disk ELSE [disk EXCEPT ![f.path] = f.buf]
         /\ Goes(pc + 1)
         /\ UNCHANGED <<calls, fors, whiles, data, out>>
      \/ ~ok /\ Fail
Close == Statement({"CLOSE"}) /\ Closes(Expr(Stmt.e, env))

Unknown ==
  /\ Statement({"?"})
  /\ Fail

Next ==
  \/ TooManySteps \/ FallOff \/ Skip \/ End \/ Run \/ PrintItems \/ Read \/ Restore \/ Dim
  \/ Let \/ LetString \/ Input \/ For \/ Next_ \/ While \/ Wend \/ Def \/ Arithmetic
  \/ Goto \/ Gosub \/ On \/ Return \/ If \/ Open \/ Close \/ Unknown

Spec == Init /\ [][Next]_vars
=============================================================================
