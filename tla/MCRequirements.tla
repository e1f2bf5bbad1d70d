--------------------------- MODULE MCRequirements ---------------------------
(***************************************************************************)
(* Versions, constraints and conditions a manifest may have, and what they *)
(* mean.                                                                   *)
(***************************************************************************)
EXTENDS Requirements

Written(n, rev, pre) == [n |-> n, rev |-> rev, pre |-> pre]

-----------------------------------------------------------------------------
\* What a predicate asks of a version without a prerelease: to be no lower and to
\* agree in its first numbers, up to the one that may grow.
AtLeast(v, low) == Cmp(v, low) >= 0
Agree(v, low, k) == SubSeq(v.n, 1, k) = SubSeq(low.n, 1, k)
Significant(low) == LET k == SelectInSeq(low.n, LAMBDA x : x > 0) IN IF k \in 1..3 THEN k ELSE 3
Asks(op, w, v) ==
    CASE op = "*" -> TRUE
      [] op = "^" -> AtLeast(v, Low(w)) /\ Agree(v, Low(w), Significant(Low(w)))
      [] op \in {"~", "~="} -> AtLeast(v, Low(w)) /\ Agree(v, Low(w), IF Len(w.n) = 3 THEN 2 ELSE 1)
      [] op \in {"", "=", "=="} -> IF Len(w.n) < 3 THEN Agree(v, Low(w), Len(w.n)) ELSE v = Low(w)
      [] op = "!=" -> v # Low(w)
      [] op = "<" -> ~AtLeast(v, Low(w))
      [] op = "<=" -> ~AtLeast(v, Low(w)) \/ v = Low(w)
      [] op = ">" -> AtLeast(v, Low(w)) /\ v # Low(w)
      [] op = ">=" -> AtLeast(v, Low(w))
\* A prerelease is for those who name one of the same version; a caret or a tilde
\* never does, for the end of its range names none.
Names(op, w, v) == op \notin {"^", "~", "~=", "*"} /\ w.pre # <<>> /\ Low(w).n = v.n
Asked(spec, v) ==
    \E c \in ToSet(spec) : \A p \in ToSet(c) : Asks(p[1], p[2], v) /\ (v.pre # <<>> => Names(p[1], p[2], v))

PartToks(op, w) ==
    CASE op = "*" -> <<<<"*">>>> [] op = "" -> <<<<"ver", w>>>> [] OTHER -> <<<<"op", op>>, <<"ver", w>>>>
\* Predicates are written one after another, commas may stand between them.
SpecToks(spec, comma) ==
    FlattenSeq([i \in DOMAIN spec |->
        (IF i = 1 THEN <<>> ELSE <<<<"||">>>>) \o
        FlattenSeq([j \in DOMAIN spec[i] |->
            (IF j > 1 /\ comma THEN <<<<",">>>> ELSE <<>>) \o
            PartToks(spec[i][j][1], spec[i][j][2])])])

Pres == {<<Num(1)>>, <<Text(1)>>, <<Text(1), Num(1)>>}
Candidates ==
    {Version(<<M, m, p, r>>, <<>>) : M, m, p \in 0..2, r \in 0..1} \cup
    {Version(<<M, 1, p, 0>>, pre) : M, p \in 0..1, pre \in Pres}

MatchesAsked(clauses, spec) ==
    /\ clauses # <<>>
    /\ \A v \in Candidates :
          /\ Matches(clauses, v) = Asked(spec, v)
          /\ Matches(Constraint(Formatted(clauses)), v) = Matches(clauses, v)

Ranked == {v \in Candidates : v.n[1] < 2 /\ v.n[3] < 2}

\* The order is one: of three versions, and of a release and what led to it.
Ordered(a, b, c) ==
    /\ Cmp(a, b) = -Cmp(b, a) /\ (Cmp(a, b) = 0 <=> a = b)
    /\ Cmp(a, b) <= 0 /\ Cmp(b, c) <= 0 => Cmp(a, c) <= 0
    /\ a.n = b.n /\ a.pre # <<>> /\ b.pre = <<>> => Cmp(a, b) < 0

-----------------------------------------------------------------------------
\* Conditions as trees, with as few parentheses as they need.
RECURSIVE CondToks(_, _)
CondToks(e, least) ==
    LET level == IF e[1] = "or" THEN 1 ELSE IF e[1] = "and" THEN 2 ELSE 3
        toks == CASE e[1] = "or" -> CondToks(e[2], 1) \o <<<<"||">>>> \o CondToks(e[3], 2)
                  [] e[1] = "and" -> CondToks(e[2], 2) \o <<<<"&&">>>> \o CondToks(e[3], 3)
                  [] e[1] = "is" -> <<<<"name", e[2]>>, <<"op", e[3]>>, e[4]>>
                  [] OTHER -> <<<<"name", e[2]>>, <<"op", e[1]>>, <<"[">>>> \o
                              FlattenSeq([i \in DOMAIN e[3] |-> <<e[3][i], <<",">>>>]) \o <<<<"]">>>>
    IN  IF level < least THEN <<<<"(">>>> \o toks \o <<<<")">>>> ELSE toks

Is(lhs, op, rhs, ctx) ==
    CASE lhs = "target" -> IF op = "==" THEN ctx.target = rhs[2] ELSE ctx.target # rhs[2]
      [] lhs = "idf_version" -> Asked(<<<<<<op, rhs[2]>>>>>>, ctx.version)
      [] OTHER -> CASE op = "==" -> ctx.config[lhs] = rhs[2] [] op = "<" -> ctx.config[lhs] < rhs[2]
Known(e, ctx) ==
    /\ e[2] = "target" => e[1] # "is" \/ e[3] \in {"==", "!="}
    /\ e[2] \in {"target", "idf_version"} \cup DOMAIN ctx.config
RECURSIVE Sound(_, _), True(_, _)
Sound(e, ctx) == IF e[1] \in {"or", "and"} THEN Sound(e[2], ctx) /\ Sound(e[3], ctx) ELSE Known(e, ctx)
True(e, ctx) ==
    CASE e[1] = "or" -> True(e[2], ctx) \/ True(e[3], ctx)
      [] e[1] = "and" -> True(e[2], ctx) /\ True(e[3], ctx)
      [] e[1] = "is" -> Is(e[2], e[3], e[4], ctx)
      [] OTHER -> (e[1] = "in") = \E x \in ToSet(e[3]) : Is(e[2], "==", x, ctx)
Decided(e, ctx) ==
    RulesEval(CondToks(e, 1), ctx) = IF ~Sound(e, ctx) THEN "error" ELSE IF True(e, ctx) THEN "yes" ELSE "no"

RequirementsMean(x) ==
    CASE x.kind = "order" -> \A c \in Ranked : Ordered(x.a, x.b, c)
      [] x.kind = "spec" -> MatchesAsked(Constraint(SpecToks(x.spec, x.comma)), x.spec)
      [] x.kind = "condition" -> Decided(x.tree, x.ctx)

-----------------------------------------------------------------------------
Ops == {"*", "", "=", "==", "!=", "<", "<=", ">", ">=", "^", "~", "~="}
Bits == 0..1
Writtens ==
    {Written(n, 0, <<>>) : n \in {<<M>> : M \in Bits} \cup {<<M, m>> : M, m \in Bits}} \cup
    {Written(<<M, m, p>>, r, pre) : M, m, p, r \in Bits, pre \in {<<>>, <<Text(1)>>}}
Singles == Ops \X Writtens
Few == {<<op, w>> \in Singles : op \in {"", "!=", "<", ">=", "^", "*"} /\ w.rev = 0 /\
                                w \in {Written(<<0, 1>>, 0, <<>>), Written(<<0, 1, 1>>, 0, <<>>),
                                       Written(<<1, 1, 0>>, 0, <<Text(1)>>)}}
Specs == {<<<<s>>>> : s \in Singles} \cup {<<<<s, t>>>> : s, t \in Few} \cup {<<<<s>>, <<t>>>> : s, t \in Few}

V(n) == <<"ver", Written(n, 0, <<>>)>>
W(k) == <<"word", k>>
Clauses ==
    {<<"is", "target", op, W(1)>> : op \in {"==", "<"}} \cup
    {<<"is", "idf_version", op, V(<<1, 1>>)>> : op \in {">=", "!=", "=="}} \cup
    {<<"is", "CONFIG_A", "<", W(2)>>, <<"in", "target", <<W(1), W(2)>>>>, <<"not in", "idf_version", <<V(<<1>>), V(<<0, 1>>)>>>>}
Pairs == {<<op, c, d>> : op \in {"or", "and"}, c, d \in Clauses}
ConditionTrees == Clauses \cup Pairs \cup {<<op, c, d>> : op \in {"or", "and"}, c \in {<<"is", "target", "==", W(1)>>}, d \in Pairs}
         \cup {<<op, d, c>> : op \in {"or", "and"}, c \in {<<"in", "target", <<W(2)>>>>}, d \in Pairs}
Contexts ==
    {[target |-> t, version |-> Version(<<1, m, 1, 0>>, <<>>), config |-> [x \in c |-> 1]] :
        t \in 1..3, m \in Bits, c \in {{}, {"CONFIG_A"}}}

RequirementInputs ==
    {[kind |-> "order", a |-> a, b |-> b] : a, b \in Ranked} \cup
    {[kind |-> "spec", spec |-> s, comma |-> Len(s) = 1] : s \in Specs} \cup
    {[kind |-> "condition", tree |-> t, ctx |-> c] : t \in ConditionTrees, c \in Contexts}
=============================================================================
