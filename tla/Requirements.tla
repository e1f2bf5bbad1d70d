---------------------------- MODULE Requirements ----------------------------
(***************************************************************************)
(* Versions, the constraints that ask for them (src/semver.c) and the      *)
(* conditions a dependency may depend on (src/cmd/idf/component/rules.c).  *)
(*                                                                         *)
(* A version is its four numbers and its prerelease identifiers, numbers   *)
(* or words; texts are token sequences, and words are ranks among words.   *)
(***************************************************************************)
EXTENDS Integers, SequencesExt

CONSTANT Word   \* numbers are unsigned and wrap here

Version(n, pre) == [n |-> n, pre |-> pre]
Plain(M, m, p) == Version(<<M, m, p, 0>>, <<>>)
Num(k) == <<"num", k>>
Text(k) == <<"text", k>>

-----------------------------------------------------------------------------
\* Which of two versions comes first: -1, 0 or 1.
Sign(a, b) == IF a < b THEN -1 ELSE IF a > b THEN 1 ELSE 0
IdentCmp(a, b) ==
    IF a[1] = b[1] THEN Sign(a[2], b[2]) ELSE IF a[1] = "num" THEN -1 ELSE 1

\* The first difference counts, of prefixes the shorter one comes first.
Lexicographic(cmp(_, _), s, t) ==
    LET i == SelectInSeq(Zip(s, t), LAMBDA p : cmp(p[1], p[2]) # 0)
    IN  IF i # 0 THEN cmp(s[i], t[i]) ELSE Sign(Len(s), Len(t))

PreCmp(s, t) ==
    IF s = <<>> \/ t = <<>> THEN Sign(IF s = <<>> THEN 1 ELSE 0, IF t = <<>> THEN 1 ELSE 0)
    ELSE Lexicographic(IdentCmp, s, t)
Cmp(a, b) == IF a.n # b.n THEN Lexicographic(Sign, a.n, b.n) ELSE PreCmp(a.pre, b.pre)

-----------------------------------------------------------------------------
\* Predicates.  One text may stand for two of them: as written is a version of
\* one to three numbers, zeros taken for those left out.
Pred(op, v) == [op |-> op, v |-> v]
Star == Pred("*", Plain(0, 0, 0))

Padded(n) == n \o [i \in 1..3 - Len(n) |-> 0]
Low(w) == Version(Append(Padded(w.n), w.rev), w.pre)

\* make_v3 after an addition.
Bumped(M, m, p) == Plain(M % Word, m % Word, p % Word)
CaretEnd(n) ==
    IF n[1] > 0 THEN Bumped(n[1] + 1, 0, 0)
    ELSE IF n[2] > 0 THEN Bumped(0, n[2] + 1, 0)
    ELSE Bumped(0, 0, n[3] + 1)
\* Mutant: ~1 and ~1.2 end before the next minor version, as ~1.2.3 does.
TildeEndAsWritten(n) == Bumped(n[1], Padded(n)[2] + 1, 0)
TildeEnd(n) == IF Len(n) = 3 THEN Bumped(n[1], n[2] + 1, 0) ELSE Bumped(n[1] + 1, 0, 0)
BareEnd(n) == IF Len(n) = 2 THEN Bumped(n[1], n[2] + 1, 0) ELSE Bumped(n[1] + 1, 0, 0)

Between(low, end) == <<Pred(">=", low), Pred("<", end)>>
Predicates(op, w) ==
    CASE op = "^" -> Between(Low(w), CaretEnd(Padded(w.n)))
      [] op \in {"~", "~="} -> Between(Low(w), TildeEnd(w.n))
      [] op \in {"", "=", "=="} /\ Len(w.n) < 3 -> Between(Low(w), BareEnd(w.n))
      [] op \in {"", "=", "=="} /\ Len(w.n) = 3 -> <<Pred("==", Low(w))>>
      [] OTHER -> <<Pred(op, Low(w))>>

-----------------------------------------------------------------------------
\* semver_constraint_parse: clauses of predicates, or nothing.
Start == [clauses |-> <<<<>>>>, op |-> "", bad |-> FALSE]
Grown(P, preds) == [P EXCEPT !.clauses[Len(P.clauses)] = @ \o preds, !.op = ""]
Take(P, tok) ==
    CASE tok[1] = "ver" -> Grown(P, Predicates(P.op, tok[2]))
      [] P.op # "" -> [P EXCEPT !.bad = TRUE]
      [] tok[1] = "op" -> [P EXCEPT !.op = tok[2]]
      [] tok = <<"*">> -> Grown(P, <<Star>>)
      [] tok = <<"||">> -> [P EXCEPT !.clauses = Append(@, <<>>)]
      [] OTHER -> P
Result(P) == IF P.bad \/ P.op # "" \/ <<>> \in ToSet(P.clauses) THEN <<>> ELSE P.clauses
Constraint(toks) == Result(FoldLeft(Take, Start, toks))

\* A prerelease is taken only where one of the same version is asked for.
Holds(pred, v) ==
    /\ v.pre # <<>> => pred.op # "*" /\ pred.v.pre # <<>> /\ v.n = pred.v.n
    /\ LET c == Cmp(v, pred.v)
       IN  CASE pred.op = "*" -> TRUE
             [] pred.op = "==" -> c = 0
             [] pred.op = "!=" -> c # 0
             [] pred.op = "<" -> c < 0
             [] pred.op = "<=" -> c <= 0
             [] pred.op = ">" -> c > 0
             [] pred.op = ">=" -> c >= 0
Matches(clauses, v) == \E c \in ToSet(clauses) : \A pred \in ToSet(c) : Holds(pred, v)

Said(v) == [n |-> SubSeq(v.n, 1, 3), rev |-> v.n[4], pre |-> v.pre]
PredToks(pred) == IF pred.op = "*" THEN <<<<"*">>>> ELSE <<<<"op", pred.op>>, <<"ver", Said(pred.v)>>>>
Formatted(clauses) ==
    FlattenSeq([i \in DOMAIN clauses |->
        (IF i = 1 THEN <<>> ELSE <<<<"||">>>>) \o
        FlattenSeq([j \in DOMAIN clauses[i] |->
            (IF j = 1 THEN <<>> ELSE <<<<",">>>>) \o PredToks(clauses[i][j])])])

-----------------------------------------------------------------------------
\* rules_eval: a condition is evaluated while it is read, all of it, and an error
\* anywhere makes it one.  R is what is left, the value so far, and the error.
Tok(R) == IF R.toks = <<>> THEN <<"end">> ELSE Head(R.toks)
Next1(R) == [R EXCEPT !.toks = Tail(@)]
Fail(R) == [R EXCEPT !.err = TRUE, !.val = FALSE]
Give(R, val) == [R EXCEPT !.val = val]

\* A context has a target, the version of ESP-IDF and the configuration; scalars
\* are words, <<"word", rank>>, or versions as written.
Compares(op, c) ==
    CASE op = "==" -> c = 0 [] op = "!=" -> c # 0 [] op = "<" -> c < 0 [] op = "<=" -> c <= 0
      [] op = ">" -> c > 0 [] op = ">=" -> c >= 0

OfWords(R, given, op, rhs) ==
    IF rhs[1] # "word" THEN Give(R, op = "!=") ELSE Give(R, Compares(op, Sign(given, rhs[2])))
Compare(R, ctx, lhs, op, rhs) ==
    CASE lhs = "target" -> IF op \in {"==", "!="} THEN OfWords(R, ctx.target, op, rhs) ELSE Fail(R)
      [] lhs = "idf_version" ->
            IF rhs[1] # "ver" THEN Fail(R)
            ELSE Give(R, Matches(Constraint(<<<<"op", op>>, rhs>>), ctx.version))
      [] OTHER -> IF lhs \in DOMAIN ctx.config THEN OfWords(R, ctx.config[lhs], op, rhs) ELSE Fail(R)

\* A list: whether one of its items is the value.
RECURSIVE Items(_, _, _, _)
More(R, ctx, lhs, found) ==
    IF Tok(R) = <<",">> THEN Items(Next1(R), ctx, lhs, found)
    ELSE IF Tok(R) = <<"]">> THEN Give(Next1(R), found) ELSE Fail(R)
Items(R, ctx, lhs, found) ==
    IF Tok(R) \in {<<"]">>, <<"end">>} THEN More(R, ctx, lhs, found)
    ELSE IF Tok(R)[1] \notin {"word", "ver"} THEN Fail(R)
    ELSE LET S == Compare(R, ctx, lhs, "==", Tok(R)) IN More(Next1(S), ctx, lhs, found \/ S.val)

Member(R, ctx, lhs, op) ==
    IF Tok(R) # <<"[">> THEN Fail(R)
    ELSE LET S == Items(Next1(R), ctx, lhs, FALSE) IN Give(S, IF op = "in" THEN S.val ELSE ~S.val)
Scalar(R, ctx, lhs, op) ==
    IF Tok(R)[1] \in {"word", "ver"} THEN Compare(Next1(R), ctx, lhs, op, Tok(R)) ELSE Fail(R)
Clause(R, ctx, lhs) ==
    IF Tok(R)[1] # "op" THEN Fail(R)
    ELSE IF Tok(R)[2] \in {"in", "not in"} THEN Member(Next1(R), ctx, lhs, Tok(R)[2])
    ELSE Scalar(Next1(R), ctx, lhs, Tok(R)[2])

RECURSIVE Either(_, _), Also(_, _, _)
Close(R) == IF Tok(R) = <<")">> THEN Next1(R) ELSE Fail(R)
Atom(R, ctx) ==
    CASE Tok(R) = <<"(">> -> Close(Either(Next1(R), ctx))
      [] Tok(R)[1] = "name" -> Clause(Next1(R), ctx, Tok(R)[2])
      [] OTHER -> Fail(R)

Joined(R, S, op) == Give(S, IF op = "&&" THEN R.val /\ S.val ELSE R.val \/ S.val)
Operand(R, ctx, op) == IF op = "&&" THEN Atom(R, ctx) ELSE Also(Atom(R, ctx), ctx, "&&")
Also(R, ctx, op) ==
    IF Tok(R) = <<op>> THEN Also(Joined(R, Operand(Next1(R), ctx, op), op), ctx, op) ELSE R
Either(R, ctx) == Also(Operand(R, ctx, "||"), ctx, "||")

Verdict(R) == IF R.err \/ R.toks # <<>> THEN "error" ELSE IF R.val THEN "yes" ELSE "no"
RulesEval(toks, ctx) == Verdict(Either([toks |-> toks, val |-> FALSE, err |-> FALSE], ctx))
=============================================================================
