---------------------------- MODULE LinkerScript ----------------------------
(***************************************************************************)
(* ice idf ldgen (src/cmd/idf/ldgen/gen.c): parsed fragments and the       *)
(* sections of the libraries in, a linker script out.  A fragment says     *)
(* which input sections go to which output section, its target; a mapping  *)
(* says so of all archives, of one, of one of its objects or of one        *)
(* symbol, and the most specific mapping is meant to count.                *)
(*                                                                         *)
(* A section name is the sequence of its parts (.text.f is <<"text","f">>), *)
(* and so is the file name of an object (a.c.obj is <<"a","c","obj">>).    *)
(* The linker itself is not part of the repository: Placed says which line *)
(* of a script it puts an input section under.                             *)
(***************************************************************************)
EXTENDS Integers, Sequences, SequencesExt, FiniteSets

CONSTANT MaxIndents   \* the levels of indentation a fragment file may have

Star == "*"
NoSymbol == "-"

Literal(path) == [path |-> path, glob |-> FALSE]
Glob(path) == [path |-> path, glob |-> TRUE]

\* ".text+" in a sections fragment stands for .text and for .text.*
ExpandSectionEntry(e) ==
    IF e.plus THEN <<Literal(e.path), Glob(e.path)>> ELSE <<Literal(e.path)>>

\* .text.* covers every name with more parts.
GlobMatch(p, section) ==
    IF p.glob THEN IsStrictPrefix(p.path, section) ELSE section = p.path

\* What a pattern says of one symbol: .text.* covers .text.f and .text.f.*
ForSymbol(p, symbol) ==
    IF p.glob THEN <<Literal(Append(p.path, symbol)), Glob(Append(p.path, symbol))>>
    ELSE <<>>

Distinct(s) ==
    FoldLeft(LAMBDA acc, x : IF Contains(acc, x) THEN acc ELSE Append(acc, x), <<>>, s)

----------------------------------------------------------------------------
\* Conditions.  cfg says whether there is a configuration and which
\* expressions are true of it; without one, not even an else counts.
Arm(branches, cfg) ==
    LET i == SelectInSeq(branches, LAMBDA b : b.expr = "else" \/ b.expr \in cfg.true)
    IN IF cfg.known /\ i > 0 THEN branches[i].body ELSE <<>>

RECURSIVE Selected(_, _)
Selected(stmts, cfg) ==
    FlattenSeq([i \in DOMAIN stmts |->
        IF stmts[i].kind = "cond" THEN Selected(Arm(stmts[i].branches, cfg), cfg)
        ELSE <<stmts[i]>>])

----------------------------------------------------------------------------
\* gen_compile: one rule for every mapping entry and every line of its scheme.
Named(frags, kind, name) ==
    SelectInSeq(frags, LAMBDA f : f.kind = kind /\ f.name = name)

SectionPatterns(frag, cfg) ==
    LET entries == Selected(frag.stmts, cfg)
    IN Distinct(FlattenSeq([i \in DOMAIN entries |-> ExpandSectionEntry(entries[i])]))

Specificity(archive, object, symbol) ==
    CASE symbol # NoSymbol -> 3
      [] symbol = NoSymbol /\ object # Star -> 2
      [] symbol = NoSymbol /\ object = Star -> IF archive # Star THEN 1 ELSE 0

FlagsFor(entry, line) ==
    LET i == SelectInSeq(entry.flags, LAMBDA f : f.sections = line.sections /\ f.target = line.target)
    IN IF i = 0 THEN <<>> ELSE entry.flags[i].flags

CompileEntry(frags, cfg, archive, entry) ==
    LET scheme == frags[Named(frags, "scheme", entry.scheme)]
        lines  == Selected(scheme.stmts, cfg)
    IN [j \in DOMAIN lines |->
          [archive |-> archive, object |-> entry.object, symbol |-> entry.symbol,
           patterns |-> SectionPatterns(frags[Named(frags, "sections", lines[j].sections)], cfg),
           target |-> lines[j].target, flags |-> FlagsFor(entry, lines[j]),
           specificity |-> Specificity(archive, entry.object, entry.symbol)]]

CompileMapping(frags, cfg, m) ==
    LET entries == Selected(m.entries, cfg)
    IN FlattenSeq([i \in DOMAIN entries |->
          CompileEntry(frags, cfg, Selected(m.archive, cfg)[1].name, entries[i])])

\* A fragment that names what is nowhere defined ends the program.
Compiles(frags, cfg) ==
    LET maps == SelectSeq(frags, LAMBDA f : f.kind = "mapping")
        Defined(entry) ==
            LET s == Named(frags, "scheme", entry.scheme)
            IN s > 0 /\ \A line \in ToSet(Selected(frags[s].stmts, cfg)) :
                            Named(frags, "sections", line.sections) > 0
    IN \A m \in ToSet(maps) : /\ Selected(m.archive, cfg) # <<>>
                              /\ \A e \in ToSet(Selected(m.entries, cfg)) : Defined(e)

RuleBefore(a, b) ==
    \/ a.specificity < b.specificity
    \/ a.specificity = b.specificity /\ a.order < b.order

\* Sections and schemes from all files first, then the mappings, in order.
Compile(files, cfg) ==
    LET frags == Selected(FlattenSeq(files), cfg)
        maps  == SelectSeq(frags, LAMBDA f : f.kind = "mapping")
        rules == FlattenSeq([i \in DOMAIN maps |-> CompileMapping(frags, cfg, maps[i])])
    IN IF ~Compiles(frags, cfg) THEN <<>>
       ELSE SortSeq([i \in DOMAIN rules |-> rules[i] @@ [order |-> i]],
                    RuleBefore)

----------------------------------------------------------------------------
\* gen_resolve.  db: the archives the libraries file names, each with its
\* objects, each with its sections; x: one input section of them.
MatchObject(r, o) == r.object = Star \/ (Head(o) = r.object /\ Last(o) \in {"o", "obj"} /\ Len(o) > 1)

MatchSection(r, section) ==
    \E p \in ToSet(r.patterns) :
        IF r.symbol = NoSymbol THEN GlobMatch(p, section)
        ELSE \E q \in ToSet(ForSymbol(p, r.symbol)) : GlobMatch(q, section)

Claims(r, x) ==
    /\ r.archive \in {Star, x.archive} /\ MatchObject(r, x.object)
    /\ MatchSection(r, x.section)

FindRule(rules, x) == SelectLastInSeq(rules, LAMBDA r : Claims(r, x))

InputSections(db) ==
    FlattenSeq([a \in DOMAIN db |-> FlattenSeq([o \in DOMAIN db[a].objs |->
        [s \in DOMAIN db[a].objs[o].sections |->
            [archive |-> db[a].name, object |-> db[a].objs[o].name,
             section |-> db[a].objs[o].sections[s]]]])])

InDb(db, archive) == SelectInSeq(db, LAMBDA a : a.name = archive)

RuleEntityInDb(db, r) ==
    LET a == InDb(db, r.archive)
    IN a > 0 /\ (r.object = Star \/ \E o \in ToSet(db[a].objs) : MatchObject(r, o.name))

\* What every rule's literal lines will name, in the order of the libraries.
AttachDbMatches(rules, db) ==
    [i \in DOMAIN rules |->
        SelectSeq(InputSections(db), LAMBDA x : FindRule(rules, x) = i)]

\* Rules about a symbol nobody has: of an archive or object that is not there,
\* or of a function that was inlined.
DroppedRules(rules, db, matches) ==
    {i \in DOMAIN rules : rules[i].symbol # NoSymbol
                            /\ (~RuleEntityInDb(db, rules[i]) \/ matches[i] = <<>>)}

EntityContainsScope(c, r) ==
    \/ c.archive = Star
    \/ /\ c.archive = r.archive
       /\ c.object \in {Star, r.object}

PatternsIntersect(a, b) == ToSet(a.patterns) \cap ToSet(b.patterns) # {}

\* Mutant: the broadest rule rather than the nearest.
BasisFirst(rules, dropped, i) ==
    SelectInSubSeq(rules, 1, i - 1, LAMBDA b :
        /\ b.order \notin {rules[d].order : d \in dropped}
        /\ b.specificity < rules[i].specificity
        /\ EntityContainsScope(b, rules[i]) /\ PatternsIntersect(b, rules[i]))

\* The rule whose wildcard rule i narrows: the nearest before it that is less
\* specific.
Basis(rules, dropped, i) ==
    SelectLastInSubSeq(rules, 1, i - 1, LAMBDA b :
        /\ b.order \notin {rules[d].order : d \in dropped}
        /\ b.specificity < rules[i].specificity
        /\ EntityContainsScope(b, rules[i]) /\ PatternsIntersect(b, rules[i]))

ExcludePattern(db, r, basis) ==
    LET perObject == r.object # Star /\ (basis.archive # Star \/ InDb(db, r.archive) = 0)
    IN [archive |-> r.archive, object |-> IF perObject THEN <<r.object>> ELSE <<>>]

\* What the wildcard of every rule must leave out.
CrossTargetExcludes(rules, dropped, db) ==
    LET Narrows(i, b) == /\ i \notin dropped /\ rules[i].specificity > 0
                         /\ Basis(rules, dropped, i) = b
                         /\ rules[b].target # rules[i].target
    IN [b \in DOMAIN rules |->
          {ExcludePattern(db, rules[i], rules[b]) : i \in {j \in DOMAIN rules : Narrows(j, b)}}]

Resolve(rules, db) ==
    LET matches == AttachDbMatches(rules, db)
        dropped == DroppedRules(rules, db, matches)
        excludes == CrossTargetExcludes(rules, dropped, db)
    IN [i \in DOMAIN rules |->
          rules[i] @@ [matches |-> matches[i], dropped |-> i \in dropped,
                       excludes |-> excludes[i]]]

----------------------------------------------------------------------------
\* gen_emit.  A line selects sections of files; a file selector without parts
\* of an object's name covers the whole archive, with one part the object
\* whatever its suffix.
Line(archive, object, patterns, excludes, r) ==
    [is |-> "input", archive |-> archive, object |-> object, patterns |-> patterns,
     excludes |-> excludes, keep |-> \E f \in ToSet(r.flags) : f.kind = "KEEP",
     sort |-> SelectSeq(r.flags, LAMBDA f : f.kind = "SORT")]

Wrappers(r, before) ==
    FlattenSeq([i \in DOMAIN r.flags |->
        CASE r.flags[i].kind = "SURROUND" ->
               <<[is |-> IF before THEN "start" ELSE "end", symbol |-> r.flags[i].symbol]>>
          [] r.flags[i].kind = "ALIGN" ->
               IF (before /\ r.flags[i].pre) \/ (~before /\ r.flags[i].post)
               THEN <<[is |-> "align"]>> ELSE <<>>
          [] OTHER -> <<>>])

\* One line for every object, its sections by their names.
RuleMatches(r) ==
    LET files == Distinct([i \in DOMAIN r.matches |->
                             <<r.matches[i].archive, r.matches[i].object>>])
        Of(f) == SelectSeq(r.matches, LAMBDA x : <<x.archive, x.object>> = f)
    IN [i \in DOMAIN files |->
          Line(files[i][1], files[i][2],
               {Literal(x.section) : x \in ToSet(Of(files[i]))}, {}, r)]

GlobLine(r, archive, object) ==
    LET patterns == IF r.symbol = NoSymbol THEN ToSet(r.patterns)
                    ELSE UNION {ToSet(ForSymbol(p, r.symbol)) : p \in ToSet(r.patterns)}
    IN IF patterns = {} THEN <<>> ELSE <<Line(archive, object, patterns, r.excludes, r)>>

EmitRule(r) ==
    IF r.dropped THEN <<>>
    ELSE Wrappers(r, TRUE)
         \o (CASE r.matches # <<>> -> RuleMatches(r)
               [] r.matches = <<>> /\ r.archive # Star ->
                    GlobLine(r, r.archive, IF r.object = Star THEN <<>> ELSE <<r.object>>)
               [] OTHER -> <<>>)
         \o (IF r.specificity = 0 THEN GlobLine(r, Star, <<>>) ELSE <<>>)
         \o Wrappers(r, FALSE)

EmitTarget(rules, target) ==
    LET mine == SortSeq(SelectSeq(rules, LAMBDA r : r.target = target),
                        LAMBDA a, b : a.order < b.order)
    IN FlattenSeq([i \in DOMAIN mine |-> EmitRule(mine[i])])

\* The markers of a template, in the order its author gave them; those for
\* arrays and mutable libraries stay empty.
FillTemplate(rules, template) ==
    [i \in DOMAIN template |->
        [target |-> template[i].target,
         lines |-> IF template[i].kind = "mapping" THEN EmitTarget(rules, template[i].target)
                   ELSE <<>>]]

\* ldgen --canonical: where every known input section goes.
Canonical(rules) ==
    UNION {{[x |-> m, target |-> r.target] : m \in ToSet(r.matches)} : r \in ToSet(rules)}

----------------------------------------------------------------------------
\* The linker: the first line of the script that matches takes the section.
FileMatches(archive, object, x) ==
    /\ archive \in {Star, x.archive}
    /\ \/ object = <<>> \/ object = x.object
       \/ Len(object) = 1 /\ IsStrictPrefix(object, x.object)

LineMatches(line, x) ==
    /\ line.is = "input" /\ FileMatches(line.archive, line.object, x)
    /\ \A e \in line.excludes : ~FileMatches(e.archive, e.object, x)
    /\ \E p \in line.patterns : GlobMatch(p, x.section)

Placed(script, x) ==
    LET i == SelectInSeq(script, LAMBDA part :
                 \E line \in ToSet(part.lines) : LineMatches(line, x))
    IN IF i = 0 THEN "orphan" ELSE script[i].target

----------------------------------------------------------------------------
\* Two rules of one scope that say different things of one section, or rules
\* whose patterns cover one section without having one in common: ldgen does
\* not claim to sort those out.
Clash(a, b, x) ==
    /\ Claims(a, x) /\ Claims(b, x) /\ a.target # b.target
    /\ \/ a.specificity = b.specificity
       \/ ~PatternsIntersect(a, b)

\* A rule that goes where another one of its scope or a broader one goes already.
Redundant(rules, i) ==
    \E j \in DOMAIN rules \ {i} :
                            /\ rules[j].specificity <= rules[i].specificity
                            /\ rules[j].target = rules[i].target
                            /\ EntityContainsScope(rules[j], rules[i])
                            /\ PatternsIntersect(rules[j], rules[i])

Wanted(rules, x) ==
    LET i == FindRule(SelectSeq(rules, LAMBDA r : ~r.dropped), x)
    IN IF i = 0 THEN "orphan" ELSE SelectSeq(rules, LAMBDA r : ~r.dropped)[i].target

\* "Output-section order in sections.ld.in no longer affects correctness"
\* (README.md of ldgen): in whatever order a template names the targets, every
\* input section, of archives ldgen knows and of others, is linked where the
\* most specific mapping says.
AnyOrder(rules, template, sections) ==
    \A x \in sections :
        (~\E a, b \in ToSet(rules) : Clash(a, b, x)) =>
            Placed(FillTemplate(rules, template), x) = Wanted(rules, x)

\* The same, as long as no mapping goes where a broader one goes already.
\* What --canonical prints says the same of the sections ldgen knows.
AnyOrderUnlessRedundant(rules, template, sections) ==
    /\ (~\E i \in DOMAIN rules : Redundant(rules, i)) => AnyOrder(rules, template, sections)
    /\ \A c \in Canonical(rules) : c.target = Wanted(rules, c.x)

-----------------------------------------------------------------------------
(***************************************************************************)
(* Fragment files (src/cmd/idf/ldgen/lf.c): lines with their indentation   *)
(* become tokens, tokens the fragments compiled above.  A token has a type *)
(* and a value; the condition after if or elif, which the parser takes raw *)
(* up to the colon, is one token TEXT.                                     *)
(***************************************************************************)

Token(t) == [t |-> t, v |-> ""]
Word(v) == [t |-> "NAME", v |-> v]
Wild(v) == [t |-> "NAME", v |-> v, plus |-> TRUE]   \* .text+

----------------------------------------------------------------------------
\* The lexer, a line at a time: blank and comment lines have no tokens.
\* Mutant: a line leaves one block at a time.
ProcessIndentOnce(lex, indent) ==
    LET kept == SelectSeq(lex.stack, LAMBDA n : n <= indent)
    IN IF indent > Last(lex.stack)
       THEN [lex EXCEPT !.stack = Append(@, indent), !.out = Append(@, Token("INDENT"))]
       ELSE [lex EXCEPT !.stack = kept,
                        !.out = @ \o (IF kept = lex.stack THEN <<>> ELSE <<Token("DEDENT")>>)]

ProcessIndent(lex, indent) ==
    LET kept == SelectSeq(lex.stack, LAMBDA n : n <= indent)
    IN IF indent > Last(lex.stack)
       THEN [lex EXCEPT !.stack = Append(@, indent), !.out = Append(@, Token("INDENT")),
                        !.ok = @ /\ Len(lex.stack) < MaxIndents]
       ELSE [lex EXCEPT !.stack = kept,
                        !.out = @ \o [n \in 1..Len(lex.stack) - Len(kept) |-> Token("DEDENT")],
                        !.ok = @ /\ Last(kept) = indent]

LexLine(lex, line) ==
    IF line.tokens = <<>> THEN lex
    ELSE [ProcessIndent(lex, line.indent) EXCEPT !.out = @ \o Append(line.tokens, Token("NL"))]

RECURSIVE LexFrom(_, _, _)
LexFrom(lines, i, lex) ==
    IF i > Len(lines) \/ ~lex.ok THEN lex ELSE LexFrom(lines, i + 1, LexLine(lex, lines[i]))

\* The tokens of a file, as far as its indentation is accepted.
Tokens(lines) ==
    LET lex == LexFrom(lines, 1, [stack |-> <<0>>, out |-> <<>>, ok |-> TRUE])
    IN [ok |-> lex.ok,
        tokens |-> lex.out \o [n \in 1..Len(lex.stack) - 1 |-> Token("DEDENT")]]

----------------------------------------------------------------------------
\* The parser.  A result has the place of the next token and what was read;
\* parsing dies on a token that is not expected, and hangs where a loop that
\* waits for the end of a block meets a token no statement starts with.
Read(i, v) == [at |-> i, v |-> v, end |-> "read"]
Dies(i) == [at |-> i, v |-> <<>>, end |-> "dies"]
Hangs(i) == [at |-> i, v |-> <<>>, end |-> "hangs"]
Then(r, Next(_)) == IF r.end = "read" THEN Next(r) ELSE r

Peek(T, i) == IF i > Len(T) THEN Token("EOF") ELSE T[i]
IsKw(T, i, words) == Peek(T, i).t = "NAME" /\ Peek(T, i).v \in words

\* The values of a row of tokens of these types.
Expect(T, i, types) ==
    IF \A k \in DOMAIN types : Peek(T, i + k - 1).t = types[k]
    THEN Read(i + Len(types), [k \in DOMAIN types |-> Peek(T, i + k - 1).v])
    ELSE Dies(i)

NameOrStar(T, i) ==
    IF Peek(T, i).t = "STAR" THEN Read(i + 1, Star)
    ELSE Then(Expect(T, i, <<"NAME">>), LAMBDA r : Read(r.at, r.v[1]))

----------------------------------------------------------------------------
\* Flags.
NoFlag == [kind |-> "KEEP", alignment |-> 0, pre |-> FALSE, post |-> FALSE,
           sort |-> <<>>, symbol |-> ""]

\* After the number: nothing, pre, pre and post, or post; a comma without a
\* space after it is not taken for one.
AlignFlag(T, i) ==
    LET Comma(j) == Peek(T, j).t = "COMMA"
        flag == [NoFlag EXCEPT !.kind = "ALIGN", !.alignment = Peek(T, i).v, !.pre = TRUE]
        Close(j, f) == Then(Expect(T, j, <<"RPAREN">>), LAMBDA r : Read(r.at, f))
    IN CASE Peek(T, i).t # "NUM" -> Dies(i)
         [] Peek(T, i).t = "NUM" /\ ~(Comma(i + 1) /\ Peek(T, i + 1).v = "spaced") -> Close(i + 1, flag)
         [] OTHER ->
              CASE IsKw(T, i + 2, {"post"}) -> Close(i + 3, [flag EXCEPT !.pre = FALSE, !.post = TRUE])
                [] IsKw(T, i + 2, {"pre"}) /\ Comma(i + 3) ->
                     IF IsKw(T, i + 4, {"post"}) THEN Close(i + 5, [flag EXCEPT !.post = TRUE])
                     ELSE Close(i + 4, flag)
                [] IsKw(T, i + 2, {"pre"}) /\ ~Comma(i + 3) -> Close(i + 3, flag)
                [] OTHER -> Close(i + 2, flag)

SortFlag(T, i) ==
    LET Keys(n) == Then(Expect(T, i, CASE n = 0 -> <<"RPAREN">>
                                       [] n = 1 -> <<"NAME", "RPAREN">>
                                       [] n = 2 -> <<"NAME", "COMMA", "NAME", "RPAREN">>),
                        LAMBDA r : Read(r.at, [NoFlag EXCEPT !.kind = "SORT", !.sort =
                            CASE n = 0 -> <<>> [] n = 1 -> <<r.v[1]>> [] n = 2 -> <<r.v[1], r.v[3]>>]))
    IN CASE Peek(T, i).t # "NAME" -> Keys(0)
         [] Peek(T, i).t = "NAME" /\ Peek(T, i + 1).t # "COMMA" -> Keys(1)
         [] OTHER -> Keys(2)

FlagWords == {"KEEP", "ALIGN", "SORT", "SURROUND"}

ParseFlag(T, i) ==
    CASE Peek(T, i + 1).t # "LPAREN" -> Dies(i + 1)
      [] OTHER ->
         CASE IsKw(T, i, {"KEEP"}) ->
                Then(Expect(T, i + 2, <<"RPAREN">>), LAMBDA r : Read(r.at, [NoFlag EXCEPT !.pre = TRUE]))
           [] IsKw(T, i, {"ALIGN"}) -> AlignFlag(T, i + 2)
           [] IsKw(T, i, {"SORT"}) -> SortFlag(T, i + 2)
           [] OTHER -> Then(Expect(T, i + 2, <<"NAME", "RPAREN">>),
                            LAMBDA r : Read(r.at, [NoFlag EXCEPT !.kind = "SURROUND", !.symbol = r.v[1]]))

RECURSIVE ParseFlags(_, _, _)
ParseFlags(T, i, acc) ==
    IF ~IsKw(T, i, FlagWords) THEN Read(i, acc)
    ELSE Then(ParseFlag(T, i), LAMBDA r : ParseFlags(T, r.at, Append(acc, r.v)))

ParseFlagItem(T, i) ==
    Then(Expect(T, i, <<"NAME", "ARROW", "NAME">>), LAMBDA r :
        Then(ParseFlags(T, r.at, <<>>), LAMBDA fs :
            IF fs.v = <<>> THEN Dies(fs.at)
            ELSE Read(fs.at, [sections |-> r.v[1], target |-> r.v[3], flags |-> fs.v])))

RECURSIVE ParseFlagItems(_, _, _)
ParseFlagItems(T, i, acc) ==
    Then(ParseFlagItem(T, i), LAMBDA r :
        IF Peek(T, r.at).t # "COMMA" THEN Read(r.at, Append(acc, r.v))
        ELSE ParseFlagItems(T, IF Peek(T, r.at + 1).t = "NL" THEN r.at + 2 ELSE r.at + 1,
                            Append(acc, r.v)))

\* After the semicolon: on the same line, or a block of their own.
ParseFlagList(T, i) ==
    LET newline == Peek(T, i).t = "NL"
        block == newline /\ Peek(T, i + 1).t = "INDENT"
    IN Then(ParseFlagItems(T, CASE block -> i + 2
                                [] newline /\ ~block -> i + 1
                                [] OTHER -> i, <<>>), LAMBDA r :
         LET close == IF block /\ Peek(T, r.at).t = "NL" THEN r.at + 1 ELSE r.at
         IN Then(Expect(T, close, <<IF block THEN "DEDENT" ELSE "NL">>),
                 LAMBDA e : Read(e.at, r.v)))

----------------------------------------------------------------------------
\* One entry of each kind.
Entry(T, i, kind) ==
    CASE kind = "sections" ->
           Then(Expect(T, i, <<"NAME", "NL">>), LAMBDA r :
               Read(r.at, [kind |-> "entry", path |-> <<r.v[1]>>, plus |-> T[i] = Wild(r.v[1])]))
      [] kind = "scheme" ->
           Then(Expect(T, i, <<"NAME", "ARROW", "NAME", "NL">>), LAMBDA r :
               Read(r.at, [kind |-> "entry", sections |-> r.v[1], target |-> r.v[3]]))
      [] kind = "archive" ->
           Then(NameOrStar(T, i), LAMBDA r : Then(Expect(T, r.at, <<"NL">>), LAMBDA e :
               Read(e.at, [kind |-> "entry", name |-> r.v])))
      [] kind = "mapping" ->
           Then(NameOrStar(T, i), LAMBDA r :
             LET symbol == Peek(T, i).t = "NAME" /\ Peek(T, r.at).t = "COLON"
                 types == IF symbol THEN <<"COLON", "NAME", "LPAREN", "NAME", "RPAREN">>
                          ELSE <<"LPAREN", "NAME", "RPAREN">>
             IN Then(Expect(T, r.at, types), LAMBDA e :
                  Then(IF Peek(T, e.at).t = "SEMI" THEN ParseFlagList(T, e.at + 1)
                       ELSE Then(Expect(T, e.at, <<"NL">>), LAMBDA n : Read(n.at, <<>>)),
                       LAMBDA f : Read(f.at, [kind |-> "entry", object |-> r.v,
                           symbol |-> IF symbol THEN e.v[2] ELSE NoSymbol,
                           scheme |-> e.v[Len(e.v) - 1], flags |-> f.v]))))

\* What a statement of a block can start with.
Starts(T, i, kind) ==
    CASE kind = "frags" -> Peek(T, i).t \notin {"EOF", "DEDENT"}
      [] kind \in {"sections", "scheme"} -> Peek(T, i).t = "NAME"
      [] kind \in {"archive", "mapping"} -> Peek(T, i).t \in {"NAME", "STAR"}

RECURSIVE Stmts(_, _, _, _), Block(_, _, _, _), Branches(_, _, _, _), Fragment(_, _)

\* Statements until one that cannot be one.  elif and else are left to the
\* conditional they belong to, except between fragments, where they are an error.
Stmts(T, i, kind, acc) ==
    LET More(r) == Stmts(T, r.at, kind, Append(acc, r.v))
    IN CASE ~Starts(T, i, kind) -> Read(i, acc)
         [] Starts(T, i, kind) /\ IsKw(T, i, {"if"}) ->
              Then(Branches(T, i, kind, <<>>), More)
         [] Starts(T, i, kind) /\ IsKw(T, i, {"elif", "else"}) /\ kind # "frags" -> Read(i, acc)
         [] kind = "frags" /\ Peek(T, i).t = "NL" -> Stmts(T, i + 1, kind, acc)
         [] kind = "frags" /\ Peek(T, i).t \notin {"NL", "EOF", "DEDENT"} /\ ~IsKw(T, i, {"if"}) ->
              Then(Fragment(T, i), More)
         [] OTHER -> Then(Entry(T, i, kind), More)

\* The body of a block, as long as there is no DEDENT.
Block(T, i, kind, acc) ==
    IF Peek(T, i).t \in {"DEDENT", "EOF"}
    THEN Then(Expect(T, i, <<"DEDENT">>), LAMBDA r : Read(r.at, acc))
    ELSE Then(Stmts(T, i, kind, <<>>), LAMBDA r :
             IF r.at = i THEN Hangs(i) ELSE Block(T, r.at, kind, acc \o r.v))

Branches(T, i, kind, acc) ==
    LET first == acc = <<>>
        Conditional == Expect(T, i, <<"NAME", "TEXT", "NL", "INDENT">>)
        Otherwise == Expect(T, i, <<"NAME", "COLON", "NL", "INDENT">>)
        Body(at, expr, last) ==
            Then(Block(T, at, kind, <<>>), LAMBDA b :
                LET more == Append(acc, [expr |-> expr, body |-> b.v])
                IN IF last THEN Read(b.at, [kind |-> "cond", branches |-> more])
                   ELSE Branches(T, b.at, kind, more))
    IN CASE first \/ IsKw(T, i, {"elif"}) ->
              Then(Conditional, LAMBDA r : Body(r.at, r.v[2], FALSE))
         [] ~first /\ IsKw(T, i, {"else"}) -> Then(Otherwise, LAMBDA r : Body(r.at, "else", TRUE))
         [] OTHER -> Read(i, [kind |-> "cond", branches |-> acc])

\* The entries of a fragment, in a block or no deeper than the key.
ParseEntries(T, i, kind) ==
    IF ~IsKw(T, i, {"entries"}) THEN Dies(i)
    ELSE Then(Expect(T, i, <<"NAME", "COLON", "NL">>), LAMBDA r :
             IF Peek(T, r.at).t = "INDENT" THEN Block(T, r.at + 1, kind, <<>>)
             ELSE Stmts(T, r.at, kind, <<>>))

ParseArchive(T, i) ==
    IF ~IsKw(T, i, {"archive"}) THEN Dies(i)
    ELSE Then(Expect(T, i, <<"NAME", "COLON">>), LAMBDA r :
             IF Starts(T, r.at, "archive")
             THEN Then(Entry(T, r.at, "archive"), LAMBDA e : Read(e.at, <<e.v>>))
             ELSE Then(Expect(T, r.at, <<"NL", "INDENT">>), LAMBDA b :
                          Block(T, b.at, "archive", <<>>)))

Fragment(T, i) ==
    LET kind == Peek(T, i + 1).v
    IN Then(Expect(T, i, <<"LBRACK", "NAME", "COLON", "NAME", "RBRACK", "NL">>), LAMBDA r :
        CASE kind = "mapping" ->
               Then(ParseArchive(T, r.at), LAMBDA a :
                 Then(ParseEntries(T, a.at, "mapping"), LAMBDA e :
                   Read(e.at, [kind |-> kind, name |-> r.v[4], archive |-> a.v, entries |-> e.v])))
          [] kind \in {"sections", "scheme"} ->
               Then(ParseEntries(T, r.at, kind), LAMBDA e :
                   Read(e.at, [kind |-> kind, name |-> r.v[4], stmts |-> e.v]))
          [] OTHER -> Dies(i + 1))

\* lf_parse: fragments up to the end of the file.
Parse(lines) ==
    LET lex == Tokens(lines)
        r == Stmts(lex.tokens, 1, "frags", <<>>)
    IN IF ~lex.ok \/ (r.end = "read" /\ r.at <= Len(lex.tokens)) THEN Dies(r.at) ELSE r

----------------------------------------------------------------------------
\* A fragment file as the grammar in ldgen's README has it: one way to write
\* fragments down.  deep: how far a block is indented; blocks: whether the
\* entries of a fragment, and its flags, are blocks of their own.
TextLine(indent, tokens) == [indent |-> indent, tokens |-> tokens]
Name(v) == IF v = Star THEN Token("STAR") ELSE Word(v)

FlagTokens(f) ==
    CASE f.kind = "KEEP" -> <<Word("KEEP"), Token("LPAREN"), Token("RPAREN")>>
      [] f.kind = "ALIGN" ->
           <<Word("ALIGN"), Token("LPAREN"), [t |-> "NUM", v |-> f.alignment]>>
           \o (IF f.pre /\ f.post THEN <<[t |-> "COMMA", v |-> "spaced"], Word("pre")>> ELSE <<>>)
           \o (IF f.post THEN <<[t |-> "COMMA", v |-> "spaced"], Word("post")>> ELSE <<>>)
           \o <<Token("RPAREN")>>
      [] f.kind = "SORT" ->
           <<Word("SORT"), Token("LPAREN")>>
           \o (CASE f.sort = <<>> -> <<>>
                 [] Len(f.sort) = 1 -> <<Word(f.sort[1])>>
                 [] Len(f.sort) = 2 -> <<Word(f.sort[1]), Token("COMMA"), Word(f.sort[2])>>)
           \o <<Token("RPAREN")>>
      [] f.kind = "SURROUND" ->
           <<Word("SURROUND"), Token("LPAREN"), Word(f.symbol), Token("RPAREN")>>

ItemTokens(item) ==
    <<Word(item.sections), Token("ARROW"), Word(item.target)>>
    \o FlattenSeq([i \in DOMAIN item.flags |-> FlagTokens(item.flags[i])])

EntryLines(e, kind, at, style) ==
    CASE kind = "sections" -> <<TextLine(at, <<IF e.plus THEN Wild(e.path[1]) ELSE Word(e.path[1])>>)>>
      [] kind = "scheme" ->
           <<TextLine(at, <<Word(e.sections), Token("ARROW"), Word(e.target)>>)>>
      [] kind = "archive" -> <<TextLine(at, <<Name(e.name)>>)>>
      [] kind = "mapping" ->
           LET head == <<Name(e.object)>>
                       \o (IF e.symbol = NoSymbol THEN <<>> ELSE <<Token("COLON"), Word(e.symbol)>>)
                       \o <<Token("LPAREN"), Word(e.scheme), Token("RPAREN")>>
               comma(i) == IF i < Len(e.flags) THEN <<Token("COMMA")>> ELSE <<>>
           IN CASE e.flags = <<>> -> <<TextLine(at, head)>>
                [] e.flags # <<>> /\ style.blocks ->
                     <<TextLine(at, Append(head, Token("SEMI")))>>
                     \o [i \in DOMAIN e.flags |->
                           TextLine(at + style.deep, ItemTokens(e.flags[i]) \o comma(i))]
                [] OTHER ->
                     <<TextLine(at, Append(head, Token("SEMI")) \o
                          FlattenSeq([i \in DOMAIN e.flags |-> ItemTokens(e.flags[i]) \o comma(i)]))>>

RECURSIVE StmtLines(_, _, _, _)
FragmentLines(f, at, style) ==
    LET body == IF style.blocks THEN at + style.deep ELSE at
        entries(s) == <<TextLine(at, <<Word("entries"), Token("COLON")>>)>>
                      \o StmtLines(s, IF f.kind = "mapping" THEN "mapping" ELSE f.kind, body, style)
    IN <<TextLine(at, <<Token("LBRACK"), Word(f.kind), Token("COLON"), Word(f.name), Token("RBRACK")>>)>>
       \o (IF f.kind # "mapping" THEN entries(f.stmts)
           ELSE (IF Len(f.archive) = 1 /\ f.archive[1].kind = "entry" /\ ~style.blocks
                 THEN <<TextLine(at, <<Word("archive"), Token("COLON"), Name(f.archive[1].name)>>)>>
                 ELSE <<TextLine(at, <<Word("archive"), Token("COLON")>>)>>
                      \o StmtLines(f.archive, "archive", at + style.deep, style))
                \o entries(f.entries))
       \o <<TextLine(0, <<>>)>>

StmtLines(stmts, kind, at, style) ==
    FlattenSeq([i \in DOMAIN stmts |->
        IF stmts[i].kind = "cond"
        THEN LET bs == stmts[i].branches
             IN FlattenSeq([b \in DOMAIN bs |->
                  <<TextLine(at, CASE bs[b].expr = "else" -> <<Word("else"), Token("COLON")>>
                                   [] OTHER -> <<Word(IF b = 1 THEN "if" ELSE "elif"),
                                                 [t |-> "TEXT", v |-> bs[b].expr]>>)>>
                  \o StmtLines(bs[b].body, kind, at + style.deep, style)])
        ELSE IF kind = "frags" THEN FragmentLines(stmts[i], at, style)
        ELSE EntryLines(stmts[i], kind, at, style)])

\* What is written down is read back, in every style: no block ends where
\* another one does not, and no else is taken by the wrong if.
ReadsBack(frags, style) ==
    Parse(StmtLines(frags, "frags", 0, style)) =
        Read(Len(Tokens(StmtLines(frags, "frags", 0, style)).tokens) + 1, frags)
=============================================================================
