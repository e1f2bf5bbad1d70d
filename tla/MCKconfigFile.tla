--------------------------- MODULE MCKconfigFile ---------------------------
(***************************************************************************)
(* Kconfig declarations as an author has them in mind, the files they can  *)
(* be written in, and what reading the files must give.                    *)
(***************************************************************************)
EXTENDS KconfigFile

Item(kind, name, props, kids) ==
    [kind |-> kind, name |-> name, cond |-> None, props |-> props, kids |-> kids]
When(cond, kids) == [Item("if", "", <<>>, kids) EXCEPT !.cond = cond]
Say(word, args) == [word |-> word, args |-> args, cond |-> None]
SayIf(word, args, cond) == [word |-> word, args |-> args, cond |-> cond]

S(x) == <<"sym", x>>
Lit(x) == <<"lit", x>>

-----------------------------------------------------------------------------
(* Writing *)

W(x) == <<"word", x>>
Op(x) == <<"op", x>>
Line(ind, toks) == [ind |-> ind, toks |-> toks]

Rank(e) ==
    CASE e[1] = "||" -> 1 [] e[1] = "&&" -> 2 [] e[1] = "!" -> 4
      [] e[1] \in {"sym", "lit"} -> 5 [] OTHER -> 3

\* 4 and "5" are always written as variables.
RECURSIVE ExprToks(_, _)
ExprToks(e, least) ==
    LET toks ==
          CASE e[1] = "sym" -> <<IF e[2] = "4" THEN <<"$(", "LIMIT">> ELSE W(e[2])>>
            [] e[1] = "lit" -> <<IF e[2] = "5" THEN <<"'${", "VALUE">> ELSE <<"str", e[2]>>>>
            [] e[1] = "!" -> <<Op("!")>> \o ExprToks(e[2], 4)
            [] OTHER -> LET side == IF Rank(e) = 3 THEN 4 ELSE Rank(e)
                            right == IF Rank(e) = 3 THEN 4 ELSE Rank(e) + 1
                        IN  ExprToks(e[2], side) \o <<Op(e[1])>> \o ExprToks(e[3], right)
    IN  IF Rank(e) < least THEN <<Op("(")>> \o toks \o <<Op(")")>> ELSE toks

PropToks(p) ==
    LET e(i) == ExprToks(p.args[i], 1)
        said ==
          CASE p.word \in Types \cup {"prompt", "warning"} ->
                  <<W(p.word)>> \o [i \in DOMAIN p.args |-> <<"str", p.args[i]>>]
            [] p.word \in DefTypes \cup {"default"} -> <<W(p.word)>> \o e(1)
            [] p.word \in {"select", "imply"} -> <<W(p.word), W(p.args[1])>>
            [] p.word = "range" -> <<W("range")>> \o e(1) \o e(2)
            [] p.word = "set" -> <<W("set"), W(p.args[1]), Op("=")>> \o e(2)
            [] p.word = "set default" -> <<W("set"), W("default"), W(p.args[1]), Op("=")>> \o e(2)
            [] p.word = "preset" -> <<W(p.args[1]), Op(":="), W(p.args[2])>>
            [] p.word = "env" -> <<W("option"), W("env"), Op("="), <<"str", p.args[1]>>>>
            [] p.word = "depends" -> <<W("depends"), W("on")>> \o e(1)
            [] p.word = "visible" -> <<W("visible"), W("if")>> \o e(1)
            [] OTHER -> <<W(p.word)>>
    IN  IF p.cond = None THEN said ELSE said \o <<W("if")>> \o ExprToks(p.cond, 1)

Noise(style) ==
    CASE style.noise = "none" -> <<>>
      [] style.noise = "blank" -> <<Line(0, <<>>)>>
      [] style.noise = "comment" -> <<Line(3, <<<<"#", "">>>>)>>

\* Help is indented by two or more, its own paragraphs further.
PropLinesOf(p, ind, style) ==
    IF p.word # "help" THEN <<Line(ind, PropToks(p))>> \o Noise(style)
    ELSE <<Line(ind, <<W("help")>>)>> \o Noise(style) \o
         FlattenSeq([i \in DOMAIN p.args[1] |->
             <<Line(ind + 1 + i, p.args[1][i]), Line(0, <<>>)>>])

HeadToks(item) ==
    CASE item.kind = "if" -> <<W("if")>> \o ExprToks(item.cond, 1)
      [] item.kind \in {"menu", "comment", "mainmenu"} -> <<W(item.kind), <<"str", item.name>>>>
      [] item.kind = "choice" /\ item.name = "" -> <<W("choice")>>
      [] OTHER -> <<W(item.kind), W(item.name)>>
End(item) ==
    IF item.kind \in {"menu", "choice", "if"} THEN <<<<W("end" \o item.kind)>>>> ELSE <<>>

RECURSIVE Size(_)
Size(items) == IF items = <<>> THEN 0 ELSE 1 + Size(Head(items).kids) + Size(Tail(items))

\* Some items from the one numbered from on, in the file at path: its lines,
\* and the files of the items that have one of their own.
RECURSIVE Written(_, _, _, _, _)
ItemWith(item, ind, style, kids) ==
    [lines |-> <<Line(ind, HeadToks(item))>> \o Noise(style) \o
               FlattenSeq([i \in DOMAIN item.props |-> PropLinesOf(item.props[i], ind + 1, style)]) \o
               kids.lines \o [i \in DOMAIN End(item) |-> Line(ind, End(item)[i])],
     files |-> kids.files]
ItemWritten(item, from, ind, path, style) ==
    ItemWith(item, ind, style, Written(item.kids, from + 1, ind + style.step, path, style))

\* An item before what is written behind it, its own lines here or in a file.
Behind(it, rest) == [lines |-> it.lines \o rest.lines, files |-> rest.files @@ it.files]
Sourced(it, ind, below, place, style) ==
    [lines |-> <<Line(ind, <<W(style.word), <<"str",
                    IF style.word \in {"rsource", "orsource"} THEN below ELSE place>>>>)>>,
     files |-> it.files @@ place :> [lines |-> it.lines, ended |-> style.ended]]
OwnFile(item, from, ind, path, below, style) ==
    Sourced(ItemWritten(item, from, 0, Front(path) \o below, style), ind, below, Front(path) \o below, style)
Written(items, from, ind, path, style) ==
    IF items = <<>> THEN [lines |-> <<>>, files |-> <<>>]
    ELSE Behind(IF from \in style.out
                  THEN OwnFile(Head(items), from, ind, path, <<ToString(from), "Kconfig">>, style)
                  ELSE ItemWritten(Head(items), from, ind, path, style),
                Written(Tail(items), from + 1 + Size(Head(items).kids), ind, path, style))

Root == <<"src", "Kconfig">>
FilesWith(w, style) == w.files @@ Root :> [lines |-> Noise(style) \o w.lines, ended |-> style.ended]
FilesOf(items, style) == FilesWith(Written(items, 1, 0, Root, style), style)

-----------------------------------------------------------------------------
(* What it says *)

RECURSIVE Flat(_, _, _)
Flat(items, up, from) ==
    IF items = <<>> THEN <<>>
    ELSE LET kids == Flat(Head(items).kids, from, from + 1)
         IN  <<[item |-> Head(items), up |-> up]>> \o kids \o
             Flat(Tail(items), up, from + 1 + Len(kids))

SymOf(item, i) ==
    CASE item.kind \in {"config", "menuconfig"} -> item.name
      [] item.kind = "choice" -> IF item.name = "" THEN "__anon_choice_0"
                                 ELSE "__choice:" \o item.name
      [] OTHER -> NoSym

AllOf(item, word) ==
    FoldLeft(LAMBDA d, p : IF p.word = word THEN And(d, p.args[1]) ELSE d, item.cond, item.props)

NodeOf(flat) ==
    [i \in 1..Len(flat) |->
        LET it == flat[i].item
            own == it.kind \in {"menu", "comment"}
        IN  [kind |-> IF it.kind = "menuconfig" THEN "config" ELSE it.kind, up |-> flat[i].up,
             sym |-> SymOf(it, i), prompt |-> IF own THEN it.name ELSE "",
             dep |-> IF it.kind = "choice" THEN None ELSE AllOf(it, "depends"),
             visible |-> IF it.kind = "menu" THEN AllOf(it, "visible") ELSE None]]

KindOf(w) ==
    CASE w \in Types -> "prompt" [] w \in DefTypes -> "default" [] OTHER -> w
Kept(item, p) ==
    /\ p.word = "depends" => item.kind = "choice"
    /\ p.word \notin {"visible", "optional", "modules"}
    /\ p.word \in Types => p.args # <<>>
PropsOf(flat, s) ==
    FlattenSeq([i \in DOMAIN flat |->
       LET it == flat[i].item
           ps == SelectSeq(it.props, LAMBDA p : Kept(it, p))
       IN  IF SymOf(it, i) # s THEN <<>>
           ELSE [j \in DOMAIN ps |-> [kind |-> KindOf(ps[j].word), args |-> ps[j].args,
                                      cond |-> ps[j].cond, menu |-> i + 1]]])
TypesSaid(flat, s) ==
    FlattenSeq([i \in DOMAIN flat |->
       IF SymOf(flat[i].item, i) # s THEN <<>>
       ELSE SelectSeq([j \in DOMAIN flat[i].item.props |-> flat[i].item.props[j].word],
                      LAMBDA w : w \in Types \cup DefTypes)])

RECURSIVE Preorder(_)
Preorder(t) == <<t.node>> \o FlattenSeq([i \in DOMAIN t.kids |-> Preorder(t.kids[i])])

\* The mainmenu is the first item; the nodes are those of the others.
Means(P, items) ==
    LET flat == Flat(Tail(items), 1, 2)
        said == {SymOf(flat[i].item, i) : i \in DOMAIN flat} \ {NoSym}
    IN  /\ ~P.dead
        /\ P.node[1].prompt = Head(items).name
        /\ Tail(P.node) = NodeOf(flat)
        /\ \A s \in said :
              /\ P.of[s].props = PropsOf(flat, s)
              /\ P.of[s].type = IF TypesSaid(flat, s) = <<>> THEN "unknown"
                                ELSE TypeOf(Head(TypesSaid(flat, s)))
        /\ Preorder(Hoisted(P)) = [i \in DOMAIN P.node |-> i]

\* A file whose last line sources another one and is not ended.
SourcedLast(files) ==
    \E p \in DOMAIN files :
       LET lines == files[p].lines
       IN  ~files[p].ended /\ lines # <<>> /\ Last(lines).toks # <<>>
           /\ Head(Last(lines).toks) \in {W(x) : x \in Sources}
FilesMean(files, items) == SourcedLast(files) \/ Means(Parse(files, Root), items)
EndedReadsAsMeant(items, style) == FilesMean(FilesOf(items, style), items)

-----------------------------------------------------------------------------
(* Programs and layouts *)

Main == Item("mainmenu", "top", <<Say("preset", <<"LIMIT", "4">>)>>, <<>>)
Conf(name, props) == Item("config", name, props, <<>>)
Prompt == Say("bool", <<"prompt">>)
Help == Say("help", <<<<<<W("some"), Op("=")>>, <<W("config"), W("more")>>>>>>)

\* Everything that may be said of a symbol, some of it again later and
\* elsewhere; a text is not read as statements.
Everything ==
    <<Main,
      Conf("A", <<Prompt, Say("depends", <<S("B")>>), SayIf("default", <<S("y")>>, <<"!", S("C")>>),
                  Say("select", <<"D">>), SayIf("imply", <<"E">>, S("B")), Help>>),
      Item("menuconfig", "N", <<SayIf("def_int", <<S("3")>>, S("A")), Say("range", <<S("0"), S("A_MAX")>>),
                  Say("env", <<"VALUE">>), Say("depends", <<S("A")>>), Say("depends", <<S("B")>>),
                  Say("warning", <<"mind">>), Say("modules", <<>>)>>, <<>>),
      When(<<"||", S("A"), S("B")>>,
           <<Conf("A", <<Say("int", <<>>), SayIf("prompt", <<"again">>, S("B")),
                         Say("set", <<"N", S("4")>>), SayIf("set default", <<"N", Lit("5")>>, S("C"))>>),
             Item("comment", "note", <<Say("depends", <<S("A")>>)>>, <<>>)>>)>>

\* Menus, conditions and choices in each other.
Nested ==
    <<Main,
      Item("menu", "outer", <<Say("depends", <<S("A")>>), Say("visible", <<S("B")>>), Help,
                              Say("visible", <<S("C")>>)>>,
           <<Item("choice", "KIND", <<Prompt, Say("depends", <<S("B")>>), SayIf("default", <<S("M2")>>, S("A"))>>,
                  <<Conf("M1", <<Prompt>>),
                    When(S("A"), <<Conf("M2", <<Prompt, Help>>)>>)>>),
             Item("menu", "inner", <<>>, <<Conf("KIND", <<Say("def_string", <<Lit("one")>>)>>)>>)>>),
      Item("choice", "", <<Say("optional", <<>>)>>, <<Conf("M3", <<Say("tristate", <<"three">>)>>)>>)>>

\* Symbols and what needs them: all but the last two go under A.
Needing ==
    <<Main,
      Conf("A", <<Prompt>>),
      Conf("B", <<SayIf("bool", <<"b">>, S("A"))>>),
      Conf("C", <<SayIf("bool", <<"c">>, <<"&&", S("A"), <<"=", S("B"), S("y")>>>>)>>),
      Item("menu", "m", <<Say("depends", <<<<"!=", S("A"), S("n")>>>>)>>, <<Conf("D", <<Prompt>>)>>),
      Item("choice", "K", <<Say("depends", <<S("A")>>)>>, <<Conf("M", <<Prompt>>)>>),
      Conf("E", <<Prompt, Say("depends", <<S("A")>>)>>),
      Conf("F", <<SayIf("bool", <<"f">>, S("A"))>>)>>

Programs == {Everything, Nested, Needing}

Layouts(items) ==
    {st \in [out : {o \in SUBSET (2..Size(items)) : Cardinality(o) <= 2},
             word : {"source", "orsource"}, ended : BOOLEAN,
             noise : {"none", "blank", "comment"}, step : {0, 4}] :
        st.step = 0 => st.noise = "none"}

Leaves == {S("A"), Lit("x")}
Simple == Leaves \cup {<<op, l, r>> : op \in {"&&", "||", "="}, l \in {S("A")}, r \in Leaves}
                 \cup {<<"!", l>> : l \in Leaves}
Compound == {<<op, l, r>> : op \in {"&&", "||"}, l \in Simple, r \in Simple}
Expressions ==
    Compound \cup {<<"!", e>> : e \in Simple \cup {c \in Compound : c[2] = S("A")}}
             \cup {<<op, e, S("B")>> : op \in {"<", "!="}, e \in Simple}
             \cup {<<op, c, S("B")>> : op \in {"&&", "||"}, c \in {c \in Compound : c[3] = S("A")}}

Plain == [out |-> {}, word |-> "source", ended |-> TRUE, noise |-> "none", step |-> 4]
KconfigInputs ==
    UNION {{[items |-> p, style |-> st] : st \in Layouts(p)} : p \in Programs}
    \cup {[items |-> <<Main, When(e, <<Conf("Z", <<Prompt>>)>>)>>, style |-> Plain] : e \in Expressions}
=============================================================================
