------------------------------ MODULE MCBasic ------------------------------
(***************************************************************************)
(* The programs that TLC runs: every program of a few lines over a small   *)
(* set of statements, one set per part of the language, and every PRINT of *)
(* a few tokens.                                                           *)
(***************************************************************************)
EXTENDS BasicMeaning

Nums == ("0" :> 0 @@ "1" :> 1 @@ "2" :> 2 @@ "3" :> 3 @@ "7" :> 7)
Lits == ("'ab'" :> <<97, 98>> @@ "'-2'" :> <<45, 50>>)
Files == ("f" :> <<48>> @@ "g" :> Absent)
Generator == <<5, 3, 16>>
Typed == {[tokens |-> <<"2">>, text |-> <<50>>], [tokens |-> <<"2", "2">>, text |-> <<50, 50>>]}

Line(n, s) == [label |-> n, stmt |-> s]
Item(t) == [quoted |-> FALSE, tokens |-> <<t>>, text |-> <<48 + Nums[t]>>]
Quoted(t) == [quoted |-> TRUE, tokens |-> <<>>, text |-> Lits[t]]

PrintOf(s) == [k |-> "PRINT", items |-> <<s>>]
LetOf(v, s) == [k |-> "LET", v |-> v, index |-> <<>>, e |-> s]
ForOf(v, a, b, c) == [k |-> "FOR", v |-> v, from |-> a, to |-> b, step |-> c]
NextOf(v) == [k |-> "NEXT", v |-> v]
WhileOf(s) == [k |-> "WHILE", e |-> s]
Only(k) == [k |-> k]
MathOf(k, v, s) == [k |-> k, v |-> v, e |-> s]
IfOf(a, op, b, n) == [k |-> "IF", l |-> a, op |-> op, r |-> b, label |-> n]
OnOf(e, sub, ns) == [k |-> "ON", e |-> e, sub |-> sub, labels |-> ns]
To(k, n) == [k |-> k, label |-> n]
DataOf(items) == [k |-> "DATA", items |-> items]
ReadOf(vs) == [k |-> "READ", into |-> vs]

Unlabelled(stmts) == {Line(-1, s) : s \in stmts}

Loops ==
  Unlabelled({ForOf("A", <<"1">>, <<"2">>, <<>>), ForOf("B", <<"2">>, <<"A">>, <<"-", "1">>),
              NextOf(""), WhileOf(<<"2", "-", "B">>), Only("WEND"),
              MathOf("ADD", "B", <<"1">>), PrintOf(<<"A", "+", "B">>)})
Jumps ==
  Unlabelled({NextOf("A"), To("GOSUB", 20), Only("RETURN"), IfOf(<<"A">>, "<", <<"2">>, 20)})
  \cup {Line(10, ForOf("A", <<"1">>, <<"2">>, <<>>)), Line(20, MathOf("ADD", "A", <<"1">>)),
        Line(30, To("GOTO", 10)), Line(40, OnOf(<<"A">>, TRUE, <<20, 40, 10>>))}
Reruns ==
  Unlabelled({Only("RUN"), WhileOf(<<"2", "-", "B">>), Only("WEND"), Only("RETURN"), Only("END"),
              OnOf(<<"B">>, FALSE, <<20, 50>>), To("GOSUB", 20)})
  \cup {Line(20, MathOf("ADD", "B", <<"1">>))}
Datas ==
  Unlabelled({ReadOf(<<"A">>), ReadOf(<<"B", "A$">>), To("RESTORE", 20), To("RESTORE", -1),
              PrintOf(<<"A">>), PrintOf(<<"A$">>), DataOf(<<Item("1"), Item("2")>>),
              ForOf("B", <<"1">>, <<"2">>, <<>>), NextOf("")})
  \cup {Line(20, DataOf(<<Quoted("'ab'")>>))}
Cells ==
  Unlabelled({LetOf("A", <<"1">>),
              [k |-> "DIM", dims |-> <<[v |-> "A", size |-> <<"(", "2", ")">>]>>],
              [k |-> "LET", v |-> "A", index |-> <<"(", "A", "-", "1", ")">>, e |-> <<"3">>],
              [k |-> "INPUT", v |-> "A"], [k |-> "INPUT", v |-> "A$"],
              [k |-> "LET$", v |-> "A$", e |-> <<"'ab'">>],
              [k |-> "DEF", f |-> "FNA", p |-> "A", body |-> <<"A", "*", "2">>],
              PrintOf(<<"FNA", "(", "A", ")">>),
              PrintOf(<<"A", "(", "0", ")">>), MathOf("DIV", "A", <<"A", "-", "1">>)})
Chans ==
  Unlabelled({[k |-> "OPEN", path |-> "g", mode |-> "input", e |-> <<"2">>],
              [k |-> "OPEN", path |-> "f", mode |-> "input", e |-> <<"1">>],
              [k |-> "OPEN", path |-> "f", mode |-> "output", e |-> <<"2">>],
              [k |-> "OPEN", path |-> "g", mode |-> "append", e |-> <<"1">>],
              [k |-> "CLOSE", e |-> <<"1">>], [k |-> "CLOSE", e |-> <<"2">>],
              PrintOf(<<"EOF", "(", "1", ")">>), PrintOf(<<"#", "1">>), Only("?")})

Texts == {<<"LEFT$", "(", "A$", ",", "1", ")", "+", "MID$", "(", "A$", ",", "2", ")">>,
          <<"RIGHT$", "(", "A$", ",", "1", ")", "+", "CHR$", "(", "3", ")">>,
          <<"MID$", "(", "A$", ",", "0", ",", "1", ")">>,
          <<"INSTR", "(", "A$", ",", "RIGHT$", "(", "A$", ",", "1", ")", ")">>,
          <<"VAL", "(", "'-2'", "+", "STR$", "(", "LEN", "(", "A$", ")", ")", ")">>,
          <<"ASC", "(", "A$", ")", "-", "ABS", "(", "-", "2", ")">>,
          <<"RND", "(", "3", ")", "+", "RND", "(", "3", ")">>, <<"TAB", "(", "2", ")">>}
Strings ==
  Unlabelled({[k |-> "LET$", v |-> "A$", e |-> <<l>>] : l \in DOMAIN Lits}
             \cup {PrintOf(t) : t \in Texts}
             \cup {[k |-> "PRINT", items |-> <<<<"A$">>, f, <<"2">>>>] : f \in {<<"'ab'", "+", "A$">>, <<"2", "2">>}})

Tokens == {"2", "A", "+", "-", "*", "/", "(", ")", "NOT", "AND"}
Sums == {PrintOf(s) : s \in BoundedSeq(Tokens, 4)}
LongSums ==
  {PrintOf(<<"7", f[1], "2", f[2], f[3], f[4], "3">>) :
     f \in [1 .. 4 -> {"+", "-", "*", "/", "%", "XOR", "OR", "2"}]}

Small ==
  <<{<<>>}, [1 .. 3 -> Loops], [1 .. 4 -> Loops], [1 .. 5 -> Loops], [1 .. 5 -> Jumps],
    [1 .. 4 -> Reruns], [1 .. 4 -> Datas], [1 .. 3 -> Cells], [1 .. 3 -> Chans],
    [1 .. 2 -> Strings], [1 .. 1 -> Unlabelled(Sums \cup LongSums)]>>
=============================================================================
