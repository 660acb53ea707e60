------------------------------- MODULE Words -------------------------------
(***************************************************************************)
(* What the shell of kernel/terminal.c works out about a word or a few:    *)
(* file name patterns, the patterns of `case', arithmetic, `test', and     *)
(* alias expansion.  Strings are sequences of character codes, as in       *)
(* TextTools.                                                              *)
(***************************************************************************)
EXTENDS TextTools

CONSTANTS
    AliasMax        \* COMMAND_ALIAS_MAX

Star == 42
Question == 63
Slash == 47

\* glob_match: what comes after a star is looked for at every character of
\* the rest, but not behind the last
GlobMatch(pattern, name) ==
    LET G[p \in 1 .. Len(pattern) + 1, n \in 1 .. Len(name) + 1] ==
            CASE p > Len(pattern) -> n > Len(name)
              [] p <= Len(pattern) /\ pattern[p] = Star -> p = Len(pattern) \/ \E m \in n .. Len(name) : G[p + 1, m]
              [] p <= Len(pattern) /\ pattern[p] = Question -> n <= Len(name) /\ G[p + 1, n + 1]
              [] OTHER -> n <= Len(name) /\ pattern[p] = name[n] /\ G[p + 1, n + 1]
    IN G[1, 1]

\* expand_globs: the names of the pattern's directory that match it, or the
\* word itself.  names is what fs_ls lists there.
Glob(word, names) ==
    LET slash == SelectLastInSeq(word, LAMBDA x : x = Slash)
        pattern == SubSeq(word, slash + 1, Len(word))
        Fits(n) == (n[1] = 46 => pattern # <<>> /\ pattern[1] = 46) /\ GlobMatch(pattern, n)
        found == SelectSeq(names, Fits)
    IN IF \A k \in DOMAIN word : word[k] \notin {Star, Question} THEN <<word>>
       ELSE IF found = <<>> THEN <<word>>
       ELSE [k \in DOMAIN found |-> SubSeq(word, 1, slash) \o found[k]]

\* case_pattern_match, case_pattern_match_multi: a star counts at one end
\* of an alternative only
CaseMatch(v, p) ==
    CASE p = <<Star>> -> TRUE
      [] Len(p) > 1 /\ p[1] = Star -> IsSuffix(Tail(p), v)
      [] Len(p) > 1 /\ p[1] # Star /\ Last(p) = Star -> IsPrefix(Front(p), v)
      [] OTHER -> v = p
CaseMatches(v, alternatives) == \E k \in DOMAIN alternatives : alternatives[k] # <<>> /\ CaseMatch(v, alternatives[k])

(* Arithmetic: eval_arith_factor, _term and eval_arith_expr_inner.  A      *)
(* formula is a sequence of numbers (not negative) and signs; what is      *)
(* evaluated from position p on is [v, p], the value and where it ends.    *)
Quot(a, b) == IF b = 0 THEN 0 ELSE IF (a < 0) = (b < 0) THEN Abs(a) \div Abs(b) ELSE 0 - (Abs(a) \div Abs(b))
Rest(a, b) == IF b = 0 THEN 0 ELSE a - b * Quot(a, b)
At(f, p) == IF p <= Len(f) THEN f[p] ELSE [sign |-> "end"]
Is(f, p, signs) == At(f, p).sign \in signs

\* v[part, p, l] is what the code makes of the formula from p on: of a factor,
\* of a term or expression, or of the rest of one of which it has l so far.
Factor_(f, v, p) ==
    LET q == IF Is(f, p, {"+", "-"}) THEN p + 1 ELSE p
        in == v["expr", q + 1, 0]
        r == CASE Is(f, q, {"("}) -> [v |-> in.v, p |-> IF Is(f, in.p, {")"}) THEN in.p + 1 ELSE in.p]
               [] Is(f, q, {"num"}) -> [v |-> f[q].n, p |-> q + 1]
               [] OTHER -> [v |-> 0, p |-> q]
    IN IF Is(f, p, {"-"}) THEN [r EXCEPT !.v = 0 - @] ELSE r
Term(f, v, p, l) ==
    LET r == v["factor", p + 1, 0]
        so == CASE f[p].sign = "*" -> l * r.v
                [] f[p].sign = "/" -> Quot(l, r.v)
                [] OTHER -> Rest(l, r.v)
    IN IF Is(f, p, {"*", "/", "%"}) THEN v["terms", r.p, so] ELSE [v |-> l, p |-> p]
Expr(f, v, p, l) ==
    LET r == v["term", p + 1, 0]
    IN IF Is(f, p, {"+", "-"}) THEN v["exprs", r.p, IF f[p].sign = "+" THEN l + r.v ELSE l - r.v] ELSE [v |-> l, p |-> p]
Evaluated(f) ==
    LET v[part \in {"factor", "term", "terms", "expr", "exprs"}, p \in Nat, l \in Int] ==
            CASE part = "factor" -> Factor_(f, v, p)
              [] part = "term" -> (LET r == v["factor", p, 0] IN v["terms", r.p, r.v])
              [] part = "terms" -> Term(f, v, p, l)
              [] part = "expr" -> (LET r == v["term", p, 0] IN v["exprs", r.p, r.v])
              [] part = "exprs" -> Expr(f, v, p, l)
    IN v["expr", 1, 0]

\* cmd_calc; eval_arithmetic, for `expr' and $((...))
Calc(f) == Evaluated(f).v

\* cmd_test on two operands, and eval_script_condition's comparisons.  An
\* operand of `test' that is no number counts as the number it starts with.
Compare(op, a, b) ==
    CASE op \in {"=", "=="} -> a = b
      [] op = "!=" -> a # b
      [] op \in {"-eq", "-ne", "-lt", "-gt", "-le", "-ge"} ->
            LET x == Number(a)
                y == Number(b)
            IN (CASE op = "-eq" -> x = y [] op = "-ne" -> x # y [] op = "-lt" -> x < y
                  [] op = "-gt" -> x > y [] op = "-le" -> x <= y [] op = "-ge" -> x >= y)
      [] OTHER -> a # <<>>

\* resolve_command_aliases: the first word is replaced while it is an
\* alias, AliasMax times at most.  <<>> stands for "expansion loop too deep".
ResolveAliases(line, aliases) ==
    LET R[k \in 0 .. AliasMax] ==
            IF k = 0 THEN line
            ELSE LET l == R[k - 1]
                 IN IF l # <<>> /\ Head(l) \in DOMAIN aliases THEN aliases[Head(l)] \o Tail(l) ELSE l
        stopped == \E k \in 0 .. AliasMax - 1 : LET l == R[k] IN l = <<>> \/ Head(l) \notin DOMAIN aliases
    IN IF stopped THEN R[AliasMax] ELSE <<>>
=============================================================================
