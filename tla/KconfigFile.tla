----------------------------- MODULE KconfigFile -----------------------------
(***************************************************************************)
(* Kconfig files and the declarations they make                            *)
(* (src/cmd/idf/kconfgen/kc_lex.c, kc_parse.c).                            *)
(*                                                                         *)
(* A file is its lines, of words, strings, operators and variables; the    *)
(* parser takes one token at a time, and the files that are sourced are    *)
(* read in the middle of the one that names them.  P is the parser with    *)
(* all it has made: the lexer's frames, the token it looks at, the symbols *)
(* and the nodes of the menu, in the order they came.                      *)
(***************************************************************************)
EXTENDS Integers, Sequences, FiniteSets, SequencesExt, TLC

CONSTANTS MaxFrames,  \* files that may be open besides the first
          Env         \* the variables of the environment

None == <<>>
NoSym == ""
Eof == <<"eof", "">>
Nl == <<"nl", "">>

Types == {"bool", "tristate", "int", "hex", "string", "float"}
DefTypes == {"def_bool", "def_tristate", "def_int", "def_hex", "def_string"}
Sources == {"source", "rsource", "osource", "orsource"}
PropWords ==
    Types \cup DefTypes \cup
    {"default", "prompt", "depends", "select", "imply", "range", "help", "option",
     "optional", "modules", "visible", "warning", "set"}
Keywords ==
    PropWords \cup Sources \cup
    {"mainmenu", "menu", "endmenu", "choice", "endchoice", "config", "menuconfig", "if",
     "endif", "comment", "on"}

TypeOf(w) ==
    CASE w \in {"bool", "tristate", "def_bool", "def_tristate"} -> "bool"
      [] w \in {"int", "def_int"} -> "int"
      [] w \in {"hex", "def_hex"} -> "hex"
      [] w \in {"string", "def_string"} -> "string"
      [] OTHER -> w

-----------------------------------------------------------------------------
(* Tokens *)

Is(P, t) == P.tok[1] = t
Die(P) == [P EXCEPT !.dead = TRUE, !.tok = Eof]

\* What a line says, a comment aside.
Text(line) == IF line.toks # <<>> /\ Head(line.toks)[1] = "#" THEN <<>> ELSE line.toks
Blank(line) == line.toks = <<>>

\* $(V) is a variable of the files, or else one of the environment; ${V} is
\* one of the environment.
Lookup(P, raw) ==
    LET v == raw[2]
    IN  IF raw[1] \in {"$(", "'$("} /\ v \in DOMAIN P.vars THEN P.vars[v]
        ELSE IF v \in DOMAIN Env THEN Env[v] ELSE ""

\* In a string, a variable that is not set is empty.
Quoted(P, raw) ==
    [P EXCEPT !.tok = IF raw[1] = "str" THEN raw ELSE <<"str", Lookup(P, raw)>>]

Lexed(P, raw) ==
    CASE raw[1] = "word" ->
            [P EXCEPT !.tok = <<IF raw[2] \in Keywords THEN raw[2] ELSE "name", raw[2]>>]
      [] raw[1] = "op" -> [P EXCEPT !.tok = <<raw[2], "">>]
      [] raw[1] \in {"str", "'$(", "'${"} -> Quoted(P, raw)
      [] OTHER -> IF Lookup(P, raw) = "" THEN Die(P)
                  ELSE [P EXCEPT !.tok = <<"name", Lookup(P, raw)>>]

NextLine(lines, l) ==
    CHOOSE k \in l + 1..Len(lines) + 1 :
       /\ k > Len(lines) \/ Text(lines[k]) # <<>>
       /\ \A j \in l + 1..k - 1 : Text(lines[j]) = <<>>

Move(P, l, c) ==
    [P EXCEPT !.frames[Len(P.frames)].line = l, !.frames[Len(P.frames)].col = c]

\* Mutant: the mark of an ended line is left for the file that goes on.
PopFrameOnly(P) == [P EXCEPT !.frames = Front(P.frames)]
PopFrame(P) == [P EXCEPT !.eol = FALSE, !.frames = Front(P.frames)]

\* The end of a file ends its last line.
RECURSIVE Advance(_)
Advance(P) ==
    IF P.dead \/ P.frames = <<>> THEN [P EXCEPT !.tok = Eof]
    ELSE LET f == Last(P.frames)
             file == P.files[f.path]
             n == Len(file.lines)
         IN  IF f.line <= n /\ f.col <= Len(Text(file.lines[f.line]))
               THEN Lexed(Move(P, f.line, f.col + 1), Text(file.lines[f.line])[f.col])
             ELSE IF f.line < n \/ (f.line = n /\ file.ended)
               THEN [Move(P, NextLine(file.lines, f.line), 1) EXCEPT !.tok = Nl]
             ELSE IF ~P.eol THEN [P EXCEPT !.eol = TRUE, !.tok = Nl]
             ELSE Advance(PopFrame(P))

\* Help is the lines that follow down to one that is indented less than the
\* first of them.
HelpEnd(lines, from) ==
    LET said == {l \in from..Len(lines) : ~Blank(lines[l])}
        base == IF said = {} THEN 0
                ELSE lines[CHOOSE l \in said : \A k \in said : l <= k].ind
    IN  CHOOSE k \in from..Len(lines) + 1 :
          /\ k > Len(lines) \/ (k \in said /\ lines[k].ind < base)
          /\ \A l \in (from..k - 1) \cap said : lines[l].ind >= base

ReadHelp(P) ==
    IF P.frames = <<>> THEN Die(P)
    ELSE LET f == Last(P.frames)
             lines == P.files[f.path].lines
             from == IF f.col = 1 THEN f.line ELSE Len(lines) + 1
             end == HelpEnd(lines, from)
             said == SelectSeq(SubSeq(lines, from, end - 1), LAMBDA l : ~Blank(l))
         IN  Advance([Move(P, IF f.col = 1 THEN end ELSE f.line, f.col)
                        EXCEPT !.args = <<[i \in DOMAIN said |-> said[i].toks]>>])

Expect(P, t) == IF Is(P, t) THEN Advance(P) ELSE Die(P)
EatNl(P) == IF Is(P, "nl") THEN Advance(P) ELSE P

-----------------------------------------------------------------------------
(* Symbols, expressions *)

NewSym == [type |-> "unknown", defs |-> 0, props |-> <<>>]
Intern(P, s) ==
    IF s \in DOMAIN P.of THEN P
    ELSE [P EXCEPT !.order = Append(@, s),
                   !.of = [x \in DOMAIN P.of \cup {s} |-> IF x = s THEN NewSym ELSE P.of[x]]]

RECURSIVE Unary(_), Chain(_, _), Operand(_, _)
ParseExpr(P) == Chain(Operand(P, "||"), "||")

Primary(P) ==
    CASE Is(P, "(") -> Expect(ParseExpr(Advance(P)), ")")
      [] Is(P, "str") -> [Advance(P) EXCEPT !.expr = <<"lit", P.tok[2]>>]
      [] Is(P, "name") -> [Advance(Intern(P, P.tok[2])) EXCEPT !.expr = <<"sym", P.tok[2]>>]
      [] OTHER -> Die(P)

Negated(P) == [P EXCEPT !.expr = <<"!", P.expr>>]
Unary(P) == IF Is(P, "!") THEN Negated(Unary(Advance(P))) ELSE Primary(P)

Joined(op, left, P) == [P EXCEPT !.expr = <<op, left, P.expr>>]
Compared(P) ==
    IF P.tok[1] \in {"=", "!=", "<", "<=", ">", ">="}
      THEN Joined(P.tok[1], P.expr, Unary(Advance(P))) ELSE P
Comparison(P) == Compared(Unary(P))

Operand(P, op) == IF op = "||" THEN Chain(Operand(P, "&&"), "&&") ELSE Comparison(P)

\* Operands of one operator group from the left.
Chain(P, op) ==
    IF Is(P, op) THEN Chain(Joined(op, P.expr, Operand(Advance(P), op)), op) ELSE P

And(d, e) == IF d = None THEN e ELSE <<"&&", d, e>>

-----------------------------------------------------------------------------
(* Properties *)

\* What follows the word of a property.
Shape(w) ==
    CASE w = "prompt" -> <<"str", "if?", "nl">>
      [] w = "default" \/ w \in DefTypes -> <<"expr", "if?", "nl">>
      [] w \in {"select", "imply"} -> <<"symbol", "if?", "nl">>
      [] w = "set" -> <<"name", "=", "expr", "if?", "nl">>
      [] w = "warning" -> <<"str", "if?", "nl">>
      [] w = "range" -> <<"expr", "expr", "if?", "nl">>
      [] w = "depends" -> <<"on", "expr", "nl">>
      [] w = "visible" -> <<"if", "expr", "nl">>
      [] w \in {"optional", "modules"} -> <<"nl">>

Take(P, a) == [P EXCEPT !.args = Append(@, a)]
ArgTaken(P) == Take(P, P.expr)
CondTaken(P) == [P EXCEPT !.cond = P.expr]
Part(P, part) ==
    CASE part \in {"str", "name"} -> IF Is(P, part) THEN Take(Advance(P), P.tok[2]) ELSE Die(P)
      [] part = "symbol" ->
            IF Is(P, "name") THEN Take(Advance(Intern(P, P.tok[2])), P.tok[2]) ELSE Die(P)
      [] part = "expr" -> ArgTaken(ParseExpr(P))
      [] part = "if?" -> IF Is(P, "if") THEN CondTaken(ParseExpr(Advance(P))) ELSE P
      [] OTHER -> Expect(P, part)
Parts(P, shape) == FoldLeft(Part, [P EXCEPT !.args = <<>>, !.cond = None], shape)

AddProp(P, s, kind) ==
    [P EXCEPT !.of[s].props =
        Append(@, [kind |-> kind, args |-> P.args, cond |-> P.cond, menu |-> P.in])]

\* The first type counts.
OfType(P, s, w) ==
    IF P.of[s].type = "unknown" THEN [P EXCEPT !.of[s].type = TypeOf(w)] ELSE P

TypeLine(P, s) ==
    IF Is(P, "str") THEN Expect(AddProp(Parts(P, <<"str", "if?">>), s, "prompt"), "nl")
    ELSE Expect(P, "nl")

Depends(P, s, m) ==
    IF s = NoSym \/ P.node[m].kind = "config" THEN [P EXCEPT !.node[m].dep = And(@, P.expr)]
    ELSE AddProp(P, s, "depends")

Visible(P, m) ==
    IF P.node[m].kind = "menu" THEN [P EXCEPT !.node[m].visible = And(@, P.expr)] ELSE P

SetLine(P, s, kind) ==
    AddProp(Parts(IF Is(P, "default") THEN Advance(P) ELSE P, Shape("set")), s, kind)

HelpText(P) == IF Is(P, "nl") THEN ReadHelp([P EXCEPT !.cond = None]) ELSE Die(P)
HelpLine(P) == HelpText(Advance(P))
Helped(P, s) == IF P.dead THEN P ELSE AddProp(P, s, "help")

\* An option's value matters if its name is env.
OptionValue(P, s, name) ==
    IF ~(Is(P, "str") \/ Is(P, "name")) THEN Die(P)
    ELSE IF name # "env" THEN Expect(Advance(P), "nl")
    ELSE Expect(AddProp([Advance(P) EXCEPT !.args = <<P.tok[2]>>, !.cond = None], s, "env"), "nl")
OptionIs(P, s, name) ==
    IF Is(P, "=") THEN OptionValue(Advance(P), s, name) ELSE Expect(P, "nl")
OptionLine(P, s) ==
    IF Is(P, "name") \/ Is(P, "modules") THEN OptionIs(Advance(P), s, P.tok[2]) ELSE Die(P)

\* What a line of parts gives, and before it the type that def_... states.
Given(P, s, m, w) ==
    CASE w \in DefTypes -> AddProp(P, s, "default")
      [] w = "depends" -> Depends(P, s, m)
      [] w = "visible" -> Visible(P, m)
      [] w \in {"optional", "modules"} -> P
      [] OTHER -> AddProp(P, s, w)
Stated(P, s, w) == IF w \in DefTypes THEN OfType(P, s, w) ELSE P

PropLineOf(P, s, m, w) ==
    CASE w \in Types -> TypeLine(OfType(P, s, w), s)
      [] w = "set" -> SetLine(P, s, IF Is(P, "default") THEN "set default" ELSE "set")
      [] w = "option" -> OptionLine(P, s)
      [] OTHER -> Given(Parts(Stated(P, s, w), Shape(w)), s, m, w)
PropLine(P, s, m) ==
    IF Is(P, "help") THEN Helped(HelpLine(P), s) ELSE PropLineOf(Advance(P), s, m, P.tok[1])

RECURSIVE PropLines(_, _, _)
PropLines(P, s, m) ==
    IF P.tok[1] \in PropWords THEN PropLines(PropLine(P, s, m), s, m) ELSE P

-----------------------------------------------------------------------------
(* Statements *)

NewNode(P, kind, up, sym, prompt, dep) ==
    [P EXCEPT !.node = Append(@, [kind |-> kind, up |-> up, sym |-> sym, prompt |-> prompt,
                                  dep |-> dep, visible |-> None])]

RECURSIVE Body(_, _, _, _)

Defined(P, s) == [Intern(P, s) EXCEPT !.of[s].defs = @ + 1]
\* What is said of symbol s belongs to the node made last.
Within(P) == [P EXCEPT !.in = Len(P.node)]

ConfigNamed(P, up, s) ==
    LET m == Len(P.node) + 1
        Q == NewNode(Expect(Advance(Defined(P, s)), "nl"), "config", up, s, "", None)
    IN  [PropLines(Within(Q), s, m) EXCEPT !.in = P.in]
Config(P, up) == IF Is(P, "name") THEN ConfigNamed(P, up, P.tok[2]) ELSE Die(P)

\* What may stand before a menu's or comment's own statements.
RECURSIVE HeadLines(_, _)
HeadLines(P, m) ==
    CASE P.tok[1] \in {"depends", "visible"} -> HeadLines(PropLine(P, NoSym, m), m)
      [] Is(P, "help") /\ P.node[m].kind = "menu" -> HeadLines(HelpLine(P), m)
      [] OTHER -> P

TitledNode(P, kind, up) ==
    IF P.dead THEN P
    ELSE HeadLines(NewNode(P, kind, up, NoSym, P.args[1], None), Len(P.node) + 1)
Titled(P, kind, up) == TitledNode(Parts(Advance(P), <<"str", "nl">>), kind, up)

Menu(P, up) ==
    LET m == Len(P.node) + 1
    IN  EatNl(Expect(Body(Titled(P, "menu", up), m, NoSym, "endmenu"), "endmenu"))

\* A choice is a symbol of its own, whatever its name.
ChoiceOf(P, up, s, in) ==
    LET Q == NewNode(Expect(P, "nl"), "choice", up, s, "", None)
        R == [Body(Within(Q), Len(P.node) + 1, s, "endchoice") EXCEPT !.in = in]
    IN  EatNl(Expect(R, "endchoice"))
Choice(P, up) ==
    LET s == IF Is(P, "name") THEN "__choice:" \o P.tok[2] ELSE "__anon_choice_" \o ToString(P.anon)
        Q == IF Is(P, "name") THEN Advance(Intern(P, s)) ELSE [Intern(P, s) EXCEPT !.anon = @ + 1]
    IN  ChoiceOf(Q, up, s, P.in)

IfNode(P, up) == NewNode(P, "if", up, NoSym, "", P.expr)
If(P, up) ==
    LET Q == IfNode(Parts(Advance(P), <<"expr", "nl">>), up)
    IN  EatNl(Expect(Body(Q, Len(P.node) + 1, NoSym, "endif"), "endif"))

\* A path is names, an unset variable an empty one; rsource looks beside the
\* file it stands in.
SourcePath(P, word, raw) ==
    IF word \in {"rsource", "orsource"} THEN Front(Last(P.frames).path) \o raw ELSE raw

PushFile(P, path, optional) ==
    IF path \notin DOMAIN P.files THEN IF optional THEN P ELSE Die(P)
    ELSE IF Len(P.frames) > MaxFrames THEN Die(P)
    ELSE [P EXCEPT !.frames = Append(@, [path |-> path, line |-> 1, col |-> 1])]

SourceFile(P, word, path) ==
    IF ~Is(P, "nl") THEN Die(P)
    ELSE IF path = <<>> THEN Advance(P)
    ELSE Advance(PushFile(P, path, word \in {"osource", "orsource"}))
SourceOf(P, word) ==
    LET Q == Advance(P)
        raw == IF Is(P, "str") THEN P.tok[2] ELSE <<P.tok[2]>>
    IN  IF P.tok[1] \in {"str", "name"} THEN SourceFile(Q, word, SourcePath(Q, word, raw)) ELSE Die(P)

Assigned(P, name) ==
    LET v == IF Is(P, "nl") THEN "" ELSE P.tok[2]
        Q == IF Is(P, "nl") THEN P ELSE Advance(P)
    IN  IF P.tok[1] \notin {"str", "name", "nl"} THEN Die(P)
        ELSE [Expect(Q, "nl") EXCEPT !.vars =
                [x \in DOMAIN @ \cup {name} |-> IF x = name THEN v ELSE @[x]]]
Preset(P, name) == IF Is(P, "=") \/ Is(P, ":=") THEN Assigned(Advance(P), name) ELSE Die(P)

RECURSIVE Swallow(_)
Swallow(P) == IF P.tok \in {Nl, Eof} THEN EatNl(P) ELSE Swallow(Advance(P))

MainMenu(P) == IF P.dead THEN P ELSE [P EXCEPT !.node[1].prompt = P.args[1]]

Statement(P, m, s) ==
    LET w == P.tok[1]
    IN  CASE w \in {"config", "menuconfig"} -> Config(Advance(P), m)
          [] w = "menu" -> Menu(P, m)
          [] w = "choice" -> Choice(Advance(P), m)
          [] w = "if" -> If(P, m)
          [] w = "comment" -> Titled(P, "comment", m)
          [] w \in Sources -> SourceOf(Advance(P), w)
          [] w = "mainmenu" -> IF m = 1 THEN MainMenu(Parts(Advance(P), <<"str", "nl">>)) ELSE Die(P)
          [] w = "name" /\ s = NoSym -> Preset(Advance(P), P.tok[2])
          [] w \in PropWords /\ s # NoSym -> PropLine(P, s, m)
          [] w = "set" /\ s = NoSym -> Swallow(P)
          [] OTHER -> Die(P)

Body(P, m, s, end) ==
    IF Is(P, "nl") THEN Body(Advance(P), m, s, end)
    ELSE IF P.tok[1] \in {end, "eof"} THEN P
    ELSE Body(Statement(P, m, s), m, s, end)

Ended(P) == IF Len(P.node) > 1 /\ P.node[1].prompt = "" THEN Die(P) ELSE P

Parse(files, root) ==
    LET P0 == [files |-> files, frames |-> <<[path |-> root, line |-> 1, col |-> 1]>>,
               eol |-> FALSE, vars |-> <<>>, tok |-> Nl, expr |-> None, args |-> <<>>,
               cond |-> None, of |-> <<>>, order |-> <<>>, anon |-> 0, in |-> 0,
               node |-> <<[kind |-> "root", up |-> 0, sym |-> NoSym, prompt |-> "",
                           dep |-> None, visible |-> None]>>,
               dead |-> FALSE]
    IN  Ended(Body(Advance(P0), 1, NoSym, "eof"))

-----------------------------------------------------------------------------
(* The tree: a symbol takes in the nodes after it that need it *)

RECURSIVE DependsOn(_, _)
DependsOn(e, s) ==
    CASE e = None -> FALSE
      [] e[1] = "sym" -> e[2] = s
      [] e[1] \in {"=", "!="} ->
           LET other == IF e[3] = <<"sym", s>> THEN e[2] ELSE e[3]
           IN  /\ <<"sym", s>> \in {e[2], e[3]}
               /\ other[1] \in {"sym", "lit"}
               /\ other[2] \in (IF e[1] = "=" THEN {"y", "yes"} ELSE {"n", "no"})
      [] e[1] = "&&" -> DependsOn(e[2], s) \/ DependsOn(e[3], s)
      [] OTHER -> FALSE

AutoMenuDep(P, prev, next) ==
    LET n == P.node[next]
        s == P.node[prev].sym
    IN  CASE n.kind \in {"config", "choice"} ->
               \E i \in DOMAIN P.of[n.sym].props :
                  LET p == P.of[n.sym].props[i]
                  IN  \/ p.kind = "prompt" /\ DependsOn(p.cond, s)
                      \/ p.kind = "depends" /\ DependsOn(p.args[1], s)
          [] n.kind \in {"menu", "comment"} -> DependsOn(n.dep, s)
          [] OTHER -> FALSE

KidsOf(P, m) == SelectSeq([i \in DOMAIN P.node |-> i], LAMBDA n : P.node[n].up = m)

RECURSIVE Finalize(_, _), Gather(_, _, _), Forest(_, _)
\* The first of some siblings as a tree, and those it has left.
Finalize(P, ns) ==
    LET n == Head(ns)
        g == Gather(P, n, Tail(ns))
    IN  IF P.node[n].kind = "config"
          THEN [tree |-> [node |-> n, kids |-> g.kids], rest |-> g.rest]
          ELSE [tree |-> [node |-> n, kids |-> Forest(P, KidsOf(P, n))], rest |-> Tail(ns)]
Gather(P, n, ns) ==
    IF ns = <<>> \/ ~AutoMenuDep(P, n, Head(ns)) THEN [kids |-> <<>>, rest |-> ns]
    ELSE LET r == Finalize(P, ns)
             g == Gather(P, n, r.rest)
         IN  [kids |-> <<r.tree>> \o g.kids, rest |-> g.rest]
Forest(P, ns) ==
    IF ns = <<>> THEN <<>>
    ELSE LET r == Finalize(P, ns) IN <<r.tree>> \o Forest(P, r.rest)

Hoisted(P) == [node |-> 1, kids |-> Forest(P, KidsOf(P, 1))]
=============================================================================
