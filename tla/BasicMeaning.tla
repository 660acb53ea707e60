---------------------------- MODULE BasicMeaning ----------------------------
(***************************************************************************)
(* What a BASIC program means, said without the machine of Basic: which    *)
(* loops enclose a line, by the text alone; what an expression denotes, by *)
(* its grammar; and what a program without jumps computes, by recursion    *)
(* over its structure.  The properties compare the machine with them.      *)
(***************************************************************************)
EXTENDS Basic

VARIABLES
  scopes,   \* per active GOSUB: the stacks it found, and the line it went to
  tangled   \* a jump has crossed the borders of a loop

mvars == <<prog, pc, steps, env, calls, fors, whiles, data, disk, out, phase, scopes, tangled>>

-----------------------------------------------------------------------------
(* Loops, by the text. *)

(* l .. m is balanced in these two kinds of line. *)
Balanced(open, close, l, m) ==
  LET Count(k, n) == Cardinality({i \in l .. n : Kind(i) = k})
  IN  /\ Count(open, m) = Count(close, m)
      /\ \A n \in l .. m : Count(open, n) >= Count(close, n)

(* The loops of one kind around line p, outermost first. *)
Enclosing(open, close, p) ==
  LET Ended(l) == \E n \in l + 1 .. p - 1 :
                    Kind(n) = close /\ Balanced(open, close, l + 1, n - 1)
  IN  SelectSeq([l \in 1 .. p - 1 |-> l], LAMBDA l : Kind(l) = open /\ ~Ended(l))

ForsAt(p) == Enclosing("FOR", "NEXT", p)
WhilesAt(p) == Enclosing("WHILE", "WEND", p)

(* A step that does not fall through to the next line may change the loops  *)
(* around it only as the statement says: FOR and NEXT the FOR loops, WHILE  *)
(* and WEND the WHILE loops, GOSUB both, and RETURN back to where they were *)
(* when the subroutine was entered.  NEXT and WEND close a loop that their   *)
(* own text opens, not one of the caller's.                                 *)
Crosses ==
  LET k == Kind(pc)
      top == Last(scopes)
  IN  /\ phase = "run" /\ phase' = "run" /\ pc \in Lines
      /\ \/ k = "RETURN" /\ (ForsAt(pc) # ForsAt(top.line) \/ WhilesAt(pc) # WhilesAt(top.line))
         \/ /\ k \notin {"RETURN", "RUN"} /\ calls' = calls
            /\ \/ k \notin {"FOR", "NEXT"} /\ pc' # pc + 1 /\ ForsAt(pc') # ForsAt(pc)
               \/ k \notin {"WHILE", "WEND"} /\ pc' # pc + 1 /\ WhilesAt(pc') # WhilesAt(pc)
               \/ k = "NEXT" /\ Len(ForsAt(pc)) <= Len(ForsAt(top.line))
               \/ k = "WEND" /\ Len(WhilesAt(pc)) <= Len(WhilesAt(top.line))

MInit ==
  /\ Init
  /\ scopes = <<[fors |-> <<>>, whiles |-> <<>>, line |-> 1]>>
  /\ tangled = FALSE

MNext ==
  /\ Next
  /\ tangled' = (tangled \/ Crosses)
  /\ scopes' =
       IF phase = "run" /\ pc \in Lines /\ Kind(pc) = "RUN" /\ phase' = "run"
       THEN <<[fors |-> <<>>, whiles |-> whiles, line |-> 1]>>
       ELSE IF Len(calls') > Len(calls)
       THEN Append(scopes, [fors |-> fors, whiles |-> whiles, line |-> pc'])
       ELSE SubSeq(scopes, 1, Len(calls') + 1)

MSpec == MInit /\ [][MNext]_mvars

-----------------------------------------------------------------------------
(* Expressions, by the grammar: the set of values a sequence of tokens has, *)
(* which is empty when it is no expression or divides by zero.              *)

RECURSIVE ExprValues(_, _), TermValues(_, _), FactorValues(_, _)

Splits(s, ops) == {i \in 2 .. Len(s) - 1 : s[i] \in ops}
Combined(s, ops, L(_), R(_)) ==
  UNION {{Apply(s[i], a, b) : a \in L(SubSeq(s, 1, i - 1)),
                              b \in {c \in R(SubSeq(s, i + 1, Len(s))) : Defined(s[i], c)}} :
         i \in Splits(s, ops)}

ExprValues(s, vs) ==
  TermValues(s, vs) \cup
  Combined(s, AddOps, LAMBDA l : ExprValues(l, vs), LAMBDA r : TermValues(r, vs))

TermValues(s, vs) ==
  FactorValues(s, vs) \cup
  Combined(s, MulOps, LAMBDA l : TermValues(l, vs), LAMBDA r : FactorValues(r, vs))

FactorValues(s, vs) ==
  CASE s = <<>> -> {}
    [] Len(s) = 1 -> IF s[1] \in DOMAIN Number THEN {Number[s[1]]}
                     ELSE IF s[1] \in Vars THEN {vs[s[1]]} ELSE {}
    [] Len(s) > 1 /\ s[1] = "-" -> IF s[2] = "NOT" THEN {}
                                   ELSE {-v : v \in FactorValues(Tail(s), vs)}
    [] Len(s) > 1 /\ s[1] = "+" -> IF s[2] = "NOT" THEN {} ELSE FactorValues(Tail(s), vs)
    [] Len(s) > 1 /\ s[1] = "NOT" -> {-v - 1 : v \in FactorValues(Tail(s), vs)}
    [] Len(s) > 1 /\ s[1] = "(" /\ Last(s) = ")" -> ExprValues(SubSeq(s, 2, Len(s) - 1), vs)
    [] OTHER -> {}

-----------------------------------------------------------------------------
(* Programs, by their structure. *)

Plain == {"REM", "CLS", "LIST", "DATA", "PRINT", "READ", "LET", "FOR", "NEXT", "WHILE",
          "WEND", "ADD", "SUB", "MUL", "DIV", "MOD", "RESTORE"}

(* Loops inside loops, none across the border of another. *)
Structured ==
  /\ \A l \in Lines : Kind(l) \in Plain
  /\ Balanced("FOR", "NEXT", 1, Len(prog)) /\ Balanced("WHILE", "WEND", 1, Len(prog))
  /\ \A l \in Lines :
       /\ Kind(l) = "NEXT" => WhilesAt(l) = WhilesAt(Last(ForsAt(l)))
       /\ Kind(l) = "WEND" => ForsAt(l) = ForsAt(Last(WhilesAt(l)))
       /\ Kind(l) = "NEXT" => prog[l].stmt.v \in {"", prog[Last(ForsAt(l))].stmt.v}

Items(n) == FlattenSeq([l \in 1 .. n |-> IF Kind(l) = "DATA" THEN prog[l].stmt.items ELSE <<>>])

(* The closing line of the loop that line l opens. *)
EndOf(l) ==
  LET At(p) == IF Kind(l) = "FOR" THEN ForsAt(p) ELSE WhilesAt(p)
      close == IF Kind(l) = "FOR" THEN "NEXT" ELSE "WEND"
  IN  CHOOSE n \in Lines : n > l /\ Kind(n) = close /\ At(n) # <<>> /\ Last(At(n)) = l

(* A state of the reference: the variables, the count of items read, what   *)
(* was printed, the loop turns left, and whether all of it has a meaning.   *)
Start == [vars |-> [v \in Vars |-> 0], strs |-> [v \in Strs |-> <<>>], read |-> 0,
          out |-> <<>>, turns |-> MaxSteps, ok |-> TRUE]
Lost(s) == [s EXCEPT !.ok = FALSE]

(* The one value of an expression, given to f. *)
With(s, tokens, f(_)) ==
  LET V == ExprValues(tokens, s.vars) IN IF V = {} THEN Lost(s) ELSE f(CHOOSE v \in V : TRUE)

MeanPrint(s, item) ==
  IF Starts(item, DOMAIN Literal) /\ Len(item) = 1
  THEN [s EXCEPT !.out = Append(@, Literal[item[1]])]
  ELSE IF Starts(item, Strs) /\ Len(item) = 1
  THEN [s EXCEPT !.out = Append(@, s.strs[item[1]])]
  ELSE With(s, item, LAMBDA v : [s EXCEPT !.out = Append(@, IntToText(v))])

MeanRead(s, v) ==
  LET all == Items(Len(prog))
      item == all[s.read + 1]
      moved == [s EXCEPT !.read = @ + 1]
  IN  IF ~s.ok \/ s.read >= Len(all) \/ (v \in Vars /\ item.quoted) THEN Lost(s)
      ELSE IF v \in Strs THEN [moved EXCEPT !.strs[v] = item.text]
      ELSE With(moved, item.tokens, LAMBDA n : [moved EXCEPT !.vars[v] = n])

RECURSIVE Mean(_, _, _), MeanFor(_, _, _, _), MeanWhile(_, _)

(* The body of the FOR at l, once per value from v on. *)
MeanFor(s, l, v, range) ==
  LET b == Mean([s EXCEPT !.vars[prog[l].stmt.v] = v, !.turns = @ - 1], l + 1, EndOf(l) - 1)
  IN  IF s.turns = 0 \/ ~s.ok THEN Lost(s)
      ELSE IF Beyond(v, range.end, range.step) THEN [s EXCEPT !.vars[prog[l].stmt.v] = v]
      ELSE IF ~b.ok THEN b
      ELSE MeanFor(b, l, b.vars[prog[l].stmt.v] + range.step, range)

MeanWhile(s, l) ==
  LET b == Mean([s EXCEPT !.turns = @ - 1], l + 1, EndOf(l) - 1)
  IN  IF s.turns = 0 \/ ~s.ok THEN Lost(s)
      ELSE With(s, prog[l].stmt.e, LAMBDA c : IF c = 0 THEN s ELSE MeanWhile(b, l))

MeanLine(s, l) ==
  LET st == prog[l].stmt
  IN  CASE st.k \in {"REM", "CLS", "LIST", "DATA"} -> s
        [] st.k = "PRINT" -> FoldLeft(MeanPrint, s, st.items)
        [] st.k = "READ" -> FoldLeft(MeanRead, s, st.into)
        [] st.k = "RESTORE" ->
             IF st.label < 0 THEN [s EXCEPT !.read = 0]
             ELSE IF FindLabel(st.label) = 0 THEN Lost(s)
             ELSE [s EXCEPT !.read = Len(Items(FindLabel(st.label) - 1))]
        [] st.k = "LET" -> IF st.index # <<>> THEN Lost(s)
                           ELSE With(s, st.e, LAMBDA v : [s EXCEPT !.vars[st.v] = v])
        [] st.k = "FOR" ->
             With(s, st.from, LAMBDA v :
               With(s, st.to, LAMBDA t :
                 With(s, IF st.step = <<>> THEN <<"1">> ELSE st.step, LAMBDA d :
                   IF d = 0 THEN Lost(s) ELSE MeanFor(s, l, v, [end |-> t, step |-> d]))))
        [] st.k = "WHILE" -> MeanWhile(s, l)
        [] OTHER ->
             With(s, st.e, LAMBDA v :
               IF Defined(OpOf(st.k), v)
               THEN [s EXCEPT !.vars[st.v] = Apply(OpOf(st.k), @, v)] ELSE Lost(s))

(* Lines l to m, one after the other, a loop as one. *)
Mean(s, l, m) ==
  IF l > m \/ ~s.ok THEN s
  ELSE Mean(MeanLine(s, l), IF Kind(l) \in {"FOR", "WHILE"} THEN EndOf(l) + 1 ELSE l + 1, m)

Meant == Mean(Start, 1, Len(prog))

-----------------------------------------------------------------------------
(* Properties. *)

After(s, n) == SubSeq(s, n + 1, Len(s))

(* While no jump has crossed the border of a loop, the FOR and the WHILE    *)
(* stack are the loops around the line that runs next: above what a         *)
(* subroutine found, those its text has entered since.  A loop that is      *)
(* skipped, ended or left by RETURN or RUN leaves no frame behind, and NEXT *)
(* and WEND go back to their own loop.                                      *)
LoopsEnclose ==
  LET top == Last(scopes)
  IN  phase = "run" /\ ~tangled =>
        /\ [i \in DOMAIN fors |-> fors[i].body - 1]
             = [i \in DOMAIN top.fors |-> top.fors[i].body - 1]
               \o After(ForsAt(pc), Len(ForsAt(top.line)))
        /\ whiles = top.whiles \o After(WhilesAt(pc), Len(WhilesAt(top.line)))

(* A program without jumps whose reference has a meaning ends without an    *)
(* error, has printed what the reference prints and leaves its variables    *)
(* as the reference does: precedence and association of the operators, the  *)
(* turns of nested loops, the order of DATA through loops and RESTORE.      *)
MeansWhatItSays ==
  (phase \in {"done", "failed"} /\ steps <= MaxSteps /\ Structured /\ Meant.ok) =>
    /\ phase = "done"
    /\ out = Meant.out /\ env.vars = Meant.vars /\ env.strs = Meant.strs
=============================================================================
