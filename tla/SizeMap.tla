------------------------------ MODULE SizeMap ------------------------------
(***************************************************************************)
(* The memory map of ice idf size (memmap.c, memmap_ops.c, views.c): which *)
(* bytes of a linked image belong to which memory type, output section,    *)
(* archive, object file and symbol, how two maps are compared and how they *)
(* are shown.  A memory map is a function from paths, <<type>>,            *)
(* <<type, section>> and so on down to the symbol, to a size and to its    *)
(* difference from a reference; for a type it is what is used of it.       *)
(*                                                                         *)
(* Names of sections, archives and objects are pairs: what --unify and     *)
(* abbreviated reports drop (directories, the section's first dot          *)
(* segments), and what they keep.  The order of a report is left out.      *)
(***************************************************************************)
EXTENDS Integers, SequencesExt, FiniteSetsExt, Functions

CONSTANT Chip   \* the target's memory: records of name, primary, secondary, length

TypeNames == {r.name : r \in ToSet(Chip)}
Flash == {"FLASH"}   \* the types whose name has "flash" in it

Within(a, start, length) == start <= a /\ a < start + length
Sum(f(_), S) == MapThenSumSet(f, S)
First(seq, test(_)) == SelectInSeq(seq, test)

-----------------------------------------------------------------------------
\* The linker's regions, cut where the chip's memory changes its type.
Holds(r, a) ==
    Within(a, r.primary, r.length) \/ (r.secondary # 0 /\ Within(a, r.secondary, r.length))
EndOf(r, a) == r.length + IF Within(a, r.primary, r.length) THEN r.primary ELSE r.secondary

RECURSIVE Cut(_, _)
Cut(reg, done) ==
    LET i == First(Chip, LAMBDA r : Holds(r, reg.origin))
        k == First(done, LAMBDA f : reg.origin + reg.length = f.origin + f.length)
        used == Min({reg.length, EndOf(Chip[i], reg.origin) - reg.origin})
        piece(range, n) == [origin |-> reg.origin, length |-> n, range |-> range]
    IN  IF reg.length = 0 THEN done
        ELSE IF i # 0 THEN Cut([reg EXCEPT !.origin = @ + used, !.length = @ - used],
                               Append(done, piece(Chip[i], used)))
        ELSE IF k # 0 THEN Append(done, piece(done[k].range, reg.length))
        ELSE done

Fragments(regions) ==
    FoldLeft(LAMBDA done, r : Cut(r, done), <<>>, SelectSeq(regions, LAMBDA r : r.name # "*default*"))

\* A fragment whose memory an earlier one reaches by the other of its addresses.
Distance(a, b) == IF a > b THEN a - b ELSE b - a
IsAlias(fs, i) ==
    LET r == fs[i].range
        apart == IF r.secondary # 0 THEN Distance(r.primary, r.secondary) ELSE 0
    IN  \E k \in 1..(i - 1) : /\ fs[k].range.name = r.name
                              /\ Distance(fs[k].origin, fs[i].origin) = apart
                              /\ fs[k].length = fs[i].length

Totals(fs) ==
    [t \in TypeNames |-> Sum(LAMBDA i : fs[i].length,
                             {i \in DOMAIN fs : fs[i].range.name = t /\ ~IsAlias(fs, i)})]

-----------------------------------------------------------------------------
\* Sections, their inputs and these inputs' symbols; elf is empty or one record.
NoLoad == {"dummy", "reserved_for_iram", "noload"}
Bss == {"bss", "noinit"}
PassesName(name) == name[2] \in {"text", "data", "rodata", "vectors", "eh_frame"} \cup Bss \/ name[1] = "flash"
PassesElf(s, elf) == \E e \in elf.sections : e.name = s.name /\ e.size > 0 /\ e.alloc

Counted(s, elf) ==
    /\ s.size > 0 /\ s.name[2] \notin NoLoad
    /\ IF elf # <<>> THEN PassesElf(s, elf[1]) ELSE PassesName(s.name)

Sections(sections, elf) ==
    LET kept == SelectSeq(sections, LAMBDA s : Counted(s, elf))
        bare(inputs) == [k \in DOMAIN inputs |-> [syms |-> <<>>] @@ inputs[k]]
    IN  [i \in DOMAIN kept |-> [kept[i] EXCEPT
            !.inputs = bare(SelectSeq(@, LAMBDA in : in.size > 0 \/ in.fill > 0))]]

Symbol(name, address, size) ==
    [name |-> name, address |-> address, size |-> size, fill |-> 0, syms |-> <<>>]
SelfSymbol(in) == Symbol(in.name[1] \o in.name[2], in.address, in.size)

SyntheticSymbols(ws) ==
    [i \in DOMAIN ws |-> [ws[i] EXCEPT !.inputs =
        [j \in DOMAIN @ |-> [@[j] EXCEPT !.syms = <<SelfSymbol(ws[i].inputs[j])>>]]]]

\* Symbols and inputs are walked together in address order.  A symbol is kept if
\* it lies inside its input; inputs walked over without one stand for themselves,
\* the ones behind the last symbol have none.
AddressOrder(ws) ==
    SetToSortSeq({<<i, j>> \in (DOMAIN ws) \X (1..Max({0} \cup {Len(s.inputs) : s \in ToSet(ws)})) :
                      j <= Len(ws[i].inputs)},
                 LAMBDA p, q :
                    LET a == ws[p[1]].inputs[p[2]].address
                        b == ws[q[1]].inputs[q[2]].address
                    IN  a < b \/ (a = b /\ (p[1] < q[1] \/ (p[1] = q[1] /\ p[2] < q[2]))))

Wanted(symbols) ==
    SortSeq(SelectSeq(symbols, LAMBDA s : s.size > 0 /\ s.type \in {"func", "object"}),
            LAMBDA s, t : s.value < t.value)

Assigned(ws, order, sorted) ==
    LET at(n) == ws[order[n][1]].inputs[order[n][2]]
        host(s) == LET n == First(order, LAMBDA p : s.value < ws[p[1]].inputs[p[2]].address
                                                                + ws[p[1]].inputs[p[2]].size)
                   IN  IF n = 0 THEN Len(order) + 1 ELSE n
        inside(s, n) == /\ host(s) = n /\ s.value >= at(n).address
                        /\ s.value + s.size <= at(n).address + at(n).size
        reached == Max({0} \cup {host(s) : s \in ToSet(sorted)})
        shown(s) == Symbol(IF s.type = "func" THEN s.name \o "()" ELSE s.name, s.value, s.size)
        given(n) == LET own == SelectSeq(sorted, LAMBDA s : inside(s, n))
                    IN  IF own = <<>> /\ n < reached THEN <<SelfSymbol(at(n))>>
                        ELSE [k \in DOMAIN own |-> shown(own[k])]
        nth(i, j) == CHOOSE n \in DOMAIN order : order[n] = <<i, j>>
    IN  [i \in DOMAIN ws |-> [ws[i] EXCEPT !.inputs =
            [j \in DOMAIN @ |-> [@[j] EXCEPT !.syms = given(nth(i, j))]]]]

ElfSymbols(ws, symbols) == Assigned(ws, AddressOrder(ws), Wanted(symbols))

-----------------------------------------------------------------------------
\* What runs over the end of a region is cut there, with all that is in it.
PastEnd(x) == x.address + x.size + x.fill

RECURSIVE Heads(_, _), Tails(_, _)
HeadSize(x, at) == Min({at - x.address, x.size})
HeadFill(x, at) == at - x.address - HeadSize(x, at)
Head1(x, at) == [x EXCEPT !.size = HeadSize(x, at), !.fill = HeadFill(x, at), !.syms = Heads(@, at)]
Tail1(x, at) == [x EXCEPT !.address = at, !.size = @ - HeadSize(x, at), !.fill = @ - HeadFill(x, at),
                          !.syms = Tails(@, at)]
Heads(xs, at) ==
    LET mine == SelectSeq(xs, LAMBDA x : PastEnd(x) <= at \/ x.address < at)
    IN  [k \in DOMAIN mine |-> IF PastEnd(mine[k]) <= at THEN mine[k] ELSE Head1(mine[k], at)]
Tails(xs, at) ==
    LET mine == SelectSeq(xs, LAMBDA x : PastEnd(x) > at)
    IN  [k \in DOMAIN mine |-> IF mine[k].address >= at THEN mine[k] ELSE Tail1(mine[k], at)]

RECURSIVE SplitSection(_, _)
SplitSection(s, fs) ==
    LET i == First(fs, LAMBDA f : Within(s.address, f.origin, f.length))
        end == fs[i].origin + fs[i].length
    IN  IF i = 0 \/ s.address + s.size <= end THEN <<s>>
        ELSE <<[s EXCEPT !.size = end - s.address, !.inputs = Heads(@, end)]>> \o
             SplitSection([s EXCEPT !.address = end, !.size = @ - (end - s.address),
                                    !.inputs = Tails(@, end)], fs)

SplitSections(ws, fs) == FlattenSeq([i \in DOMAIN ws |-> SplitSection(ws[i], fs)])

\* The type and section a piece is counted for, or <<>>: one that no region holds
\* goes to the region before it as an overflow, if another region follows.
Overflow(name) == <<name[1], name[2] \o "_overflow">>
Placed(s, fs) ==
    LET sorted == SortSeq(fs, LAMBDA f, g : f.origin < g.origin)
        holds(f) == Within(s.address, f.origin, f.length)
        j == SelectInSubSeq(sorted, 1, Len(sorted), holds)
        next == SelectInSubSeq(sorted, 2, Len(sorted), LAMBDA f : f.origin > s.address)
    IN  IF j # 0 THEN <<sorted[j].range.name, s.name>>
        ELSE IF next # 0 THEN <<sorted[next - 1].range.name, Overflow(s.name)>>
        ELSE <<>>

-----------------------------------------------------------------------------
\* What a piece adds to the map: pairs of a path and a size.
InputParts(in, path) ==
    LET object == path \o <<in.archive, in.object>>
    IN  <<<<path \o <<in.archive>>, in.size>>, <<object, in.size>>>> \o
        [k \in DOMAIN in.syms |-> <<Append(object, in.syms[k].name), in.syms[k].size>>]

PieceParts(s, path) ==
    <<<<SubSeq(path, 1, 1), s.size>>, <<path, s.size>>>> \o
    FlattenSeq([k \in DOMAIN s.inputs |-> InputParts(s.inputs[k], path)])

Amount(size, diff) == [size |-> size, diff |-> diff]

ImageSize(ws, elf) ==
    IF elf # <<>> THEN Sum(LAMBDA e : IF e.alloc /\ e.bits THEN e.size ELSE 0, elf[1].sections)
    ELSE Sum(LAMBDA i : IF ws[i].name[2] \in Bss THEN 0 ELSE ws[i].size, DOMAIN ws)

AllParts(pieces, fs) ==
    FlattenSeq([i \in DOMAIN pieces |->
        LET path == Placed(pieces[i], fs)
        IN  IF path = <<>> THEN <<>> ELSE PieceParts(pieces[i], path)])

Added(parts) ==
    [p \in {part[1] : part \in ToSet(parts)} \cup {<<t>> : t \in TypeNames} |->
        Amount(Sum(LAMBDA i : parts[i][2], {i \in DOMAIN parts : parts[i][1] = p}), 0)]

WithSymbols(ws, elf) ==
    IF elf # <<>> THEN ElfSymbols(ws, elf[1].symbols) ELSE SyntheticSymbols(ws)

Mapped(ws, fs, elf, symbols) ==
    LET pieces == SplitSections(IF symbols THEN WithSymbols(ws, elf) ELSE ws, fs)
    IN  [total |-> [t \in TypeNames |-> Amount(Totals(fs)[t], 0)],
         node |-> Added(AllParts(pieces, fs)),
         image |-> Amount(ImageSize(ws, elf), 0)]

Load(mf, elf, symbols) == Mapped(Sections(mf.sections, elf), Fragments(mf.regions), elf, symbols)

-----------------------------------------------------------------------------
\* Operations on maps.
Under(mm, p, n) == {q \in DOMAIN mm.node : Len(q) = Len(p) + n /\ SubSeq(q, 1, Len(p)) = p}
Paths(mm, n) == {p \in DOMAIN mm.node : Len(p) = n}

Empty(mm) == {p \in Paths(mm, 2) : Under(mm, p, 1) = {}}
\* Mutant: a type keeps what the sections that are dropped had.
ReusedAsSized(mm) == [p \in DOMAIN mm.node \ Empty(mm) |-> mm.node[p]]
Reused(mm) ==
    [p \in DOMAIN mm.node \ Empty(mm) |->
        IF Len(p) > 1 THEN mm.node[p]
        ELSE [mm.node[p] EXCEPT !.size = Sum(LAMBDA q : mm.node[q].size, Under(mm, p, 1) \ Empty(mm))]]
WithoutTypes(mm) ==
    LET types == {t \in DOMAIN mm.total : mm.node[<<t>>].size # 0}
    IN  [mm EXCEPT !.total = Restrict(@, types),
                   !.node = Restrict(@, {p \in DOMAIN @ : p[1] \in types})]
RemoveUnused(mm) == WithoutTypes([mm EXCEPT !.node = Reused(mm)])

IgnoreFlashSize(mm) ==
    [mm EXCEPT !.total = [t \in DOMAIN @ |-> IF t \in Flash THEN [@[t] EXCEPT !.size = 0] ELSE @[t]]]

\* What is only in the reference is in the result with no size of its own.
Compared(cur, ref) ==
    LET of(f, x) == IF x \in DOMAIN f THEN f[x].size ELSE 0
    IN  [x \in DOMAIN cur \cup DOMAIN ref |-> Amount(of(cur, x), of(cur, x) - of(ref, x))]
Diff(cur, ref) ==
    [total |-> Compared(cur.total, ref.total), node |-> Compared(cur.node, ref.node),
     image |-> Amount(cur.image.size, cur.image.size - ref.image.size)]

Short(name) == <<"", name[2]>>
ShortPath(p) == [k \in DOMAIN p |-> IF k \in 2..4 THEN Short(p[k]) ELSE p[k]]
Unify(mm) ==
    LET alike(p) == {q \in DOMAIN mm.node : ShortPath(q) = p}
    IN  [mm EXCEPT !.node = [p \in {ShortPath(q) : q \in DOMAIN @} |->
            Amount(Sum(LAMBDA q : mm.node[q].size, alike(p)), Sum(LAMBDA q : mm.node[q].diff, alike(p)))]]

\* What a tree shows: no deeper than asked for and, of a comparison, only what
\* has changed below what has changed.
Depth(args) == CASE args.view = "symbols" -> 5 [] args.view = "archives" -> 3 [] args.view = "files" -> 4
                 [] OTHER -> 5
Changed(amount, args) == ~args.diff \/ args.unchanged \/ amount.diff # 0
Trim(mm, args) ==
    LET kept(p) == /\ Len(p) <= Depth(args)
                   /\ \A n \in 1..Len(p) : Changed(mm.node[SubSeq(p, 1, n)], args)
                   /\ (args.view = "symbols" /\ Len(p) >= 3) => p[3][2] = args.archive
    IN  [mm EXCEPT !.node = Restrict(@, {p \in DOMAIN @ : kept(p)}),
                   !.total = Restrict(@, {t \in DOMAIN @ : kept(<<t>>)})]

-----------------------------------------------------------------------------
\* Tables: for every archive, object or symbol a row of cells, one per section.
Key(p, args) ==
    CASE args.view = "archives" -> <<p[3]>>
      [] args.view = "files" -> IF args.unify THEN <<p[4]>> ELSE <<p[3], p[4]>>
      [] args.view = "symbols" -> IF args.unify THEN <<p[5]>> ELSE <<p[3], p[4], p[5]>>

Shown(mm, args) ==
    {p \in Paths(mm, Depth(args)) : args.view = "symbols" => p[3][2] = args.archive}

Row(mm, ps) ==
    [cell \in Paths(mm, 2) |->
        LET mine == {p \in ps : SubSeq(p, 1, 2) = cell}
        IN  Amount(Sum(LAMBDA p : mm.node[p].size, mine), Sum(LAMBDA p : mm.node[p].diff, mine))]

RowDiff(row) == Sum(LAMBDA cell : row[cell].diff, DOMAIN row)
Rows(mm, args) ==
    LET ps == Shown(mm, args)
        all == [key \in {Key(p, args) : p \in ps} |-> Row(mm, {p \in ps : Key(p, args) = key})]
        changed == {key \in DOMAIN all : Changed(Amount(0, RowDiff(all[key])), args)}
    IN  Restrict(all, changed)

\* Rows whose name has one of the patterns in it; none of them: all rows.
RowName(key, args) ==
    CASE args.view = "symbols" -> key[Len(key)]
      [] args.view = "archives" -> IF args.abbrev THEN Short(key[1]) ELSE key[1]
      [] args.view = "files" -> IF args.abbrev THEN Short(key[Len(key)]) ELSE key
Filtered(rows, args) ==
    IF args.filter = {} THEN rows
    ELSE Restrict(rows, {key \in DOMAIN rows : RowName(key, args) \in args.filter})

-----------------------------------------------------------------------------
\* Which archive uses symbols of which other one: the first reference of an entry
\* of the cross-reference table is the definition.
Dependencies(mf, mm, elf, args) ==
    LET known == {p[3] : p \in Paths(mm, 3)}
        live == {s.name : s \in {t \in ToSet(elf[1].symbols) : t.type \in {"func", "object"} /\ ~t.abs}}
        uses == {<<x, r>> \in (DOMAIN mf.xrefs) \X (2..Max({1} \cup {Len(x.refs) : x \in ToSet(mf.xrefs)})) :
                    LET refs == mf.xrefs[x].refs
                    IN  /\ r <= Len(refs) /\ mf.xrefs[x].symbol \in live
                        /\ refs[1] # refs[r] /\ {refs[1], refs[r]} \subseteq known}
        edge(u) == LET refs == mf.xrefs[u[1]].refs
                   IN  IF args.reverse THEN <<refs[1], refs[u[2]]>> ELSE <<refs[u[2]], refs[1]>>
    IN  [e \in {edge(u) : u \in uses} |-> {mf.xrefs[u[1]].symbol : u \in {v \in uses : edge(v) = e}}]

-----------------------------------------------------------------------------
\* The command.  A map file's ELF file is used if the build directory's
\* description is of this executable, and the file is there.
Described(build) == build.desc # <<>> /\ build.desc[1].app \in {"", build.name}
ElfOf(build) == IF Described(build) /\ build.desc[1].app # "" THEN build.elf ELSE <<>>
TargetOf(build, args) ==
    IF args.target # "" THEN args.target
    ELSE IF Described(build) /\ build.desc[1].target # "" THEN build.desc[1].target
    ELSE build.map.target

Prepared(build, args) ==
    LET kept(mm) == IF args.unused THEN mm ELSE RemoveUnused(mm)
        sized(mm) == IF args.flash THEN mm ELSE IgnoreFlashSize(mm)
    IN  sized(kept(Load(build.map, ElfOf(build), args.view = "symbols")))

Measured(build, ref, args) ==
    LET against(cur) == IF args.diff THEN Diff(cur, Prepared(ref, args)) ELSE cur
        unified(mm) == IF args.unify THEN Unify(mm) ELSE mm
    IN  unified(against(Prepared(build, args)))

-----------------------------------------------------------------------------
(* The linker's map file (map.c).  A line is whether it begins in the first  *)
(* column, and its tokens: hexadecimal numbers, names, references to an      *)
(* object file of an archive, and other words.                               *)

None == <<>>
Unknown == -1   \* an address the next line gives

Hex(n) == <<"hex", n>>
Name(n) == <<"name", n>>
Ref(archive, object) == <<"ref", archive, object>>
Other(w) == <<"word", w>>
Top(toks) == [top |-> TRUE, toks |-> toks]
Indented(toks) == [top |-> FALSE, toks |-> toks]

IsHex(toks, i) == i \in DOMAIN toks /\ toks[i][1] = "hex"
Numbers(toks, i) == IsHex(toks, i) /\ IsHex(toks, i + 1)
Blank(line) == line.toks = <<>>
Starts(line, w) == line.toks # <<>> /\ line.toks[1] = Other(w)
Keyword(line) == line.toks[1][1] = "word"

-----------------------------------------------------------------------------
\* flush_input: an input outside of its section, or at the address of the next
\* one, has no size; what fills the room behind an empty one is the last other's.
Outside(sec, inp) == inp.address < sec.address \/ inp.address >= sec.address + sec.size
Settled(sec, inp) == IF Outside(sec, inp) THEN [inp EXCEPT !.size = 0] ELSE inp

Overtaken(inputs, inp) ==
    IF Last(inputs).address = inp.address THEN [inputs EXCEPT ![Len(inputs)].size = 0] ELSE inputs

GiveFill(inputs, fill) ==
    LET k == SelectLastInSeq(inputs, LAMBDA in : in.size > 0)
    IN  IF k = 0 THEN inputs ELSE [inputs EXCEPT ![k].fill = @ + fill]

Joined(inputs, inp) ==
    IF inp.size > 0 THEN Append(inputs, inp)
    ELSE Append(GiveFill(inputs, inp.fill), [inp EXCEPT !.fill = 0])

Flush(sec, inp) ==
    IF inp = None \/ inp.address = Unknown THEN sec
    ELSE IF sec.inputs = <<>> THEN [sec EXCEPT !.inputs = <<inp>>]
    ELSE [sec EXCEPT !.inputs = Joined(Overtaken(@, inp), Settled(sec, inp))]

-----------------------------------------------------------------------------
\* parse_sections, a line at a time: R is the sections so far, the one that is
\* open and its last input.
Closed(R) ==
    [R EXCEPT !.secs = Append(@, Flush(R.sec, R.inp)), !.sec = None, !.inp = None]

Opened(R, toks) ==
    LET given == Numbers(toks, 2)
    IN  [R EXCEPT !.inp = None,
                  !.sec = [name |-> toks[1][2], inputs |-> <<>>,
                           address |-> IF given THEN toks[2][2] ELSE Unknown,
                           size |-> IF given THEN toks[3][2] ELSE 0]]

NewInput(name) == [name |-> name, address |-> Unknown, size |-> 0, fill |-> 0, archive |-> "", object |-> ""]
Located(inp, toks, i) ==
    [inp EXCEPT !.address = toks[i][2], !.size = toks[i + 1][2],
                !.archive = toks[i + 2][2], !.object = toks[i + 2][3]]

Filled(R, toks) ==
    IF R.inp = None \/ Len(toks) < 3 THEN R
    ELSE [R EXCEPT !.inp.fill = @ + toks[3][2],
                   !.inp.size = IF R.inp.address = toks[2][2] THEN 0 ELSE @]

\* A line of numbers is where the input is that the line before names, or data
\* written there; any other is a symbol.
ExplicitData == {Other("BYTE"), Other("SHORT"), Other("LONG"), Other("QUAD"), Other("SQUAD")}
NumbersLine(R, toks) ==
    IF R.inp = None THEN R
    ELSE IF R.inp.address = Unknown
    THEN [R EXCEPT !.inp = IF Numbers(toks, 1) /\ Len(toks) >= 3 THEN Located(@, toks, 1) ELSE None]
    ELSE IF Len(toks) >= 4 /\ toks[3] \in ExplicitData THEN [R EXCEPT !.inp.fill = @ + toks[2][2]]
    ELSE R

NamedLine(R, toks) ==
    LET next == [R EXCEPT !.sec = Flush(@, R.inp), !.inp = NewInput(toks[1][2])]
    IN  IF Len(toks) >= 4 /\ Numbers(toks, 2) THEN [next EXCEPT !.inp = Located(@, toks, 2)]
        ELSE IF Len(toks) = 1 /\ toks[1][1] # "ref" THEN next
        ELSE R

InSection(R, line) ==
    LET toks == line.toks
    IN  IF Blank(line) THEN Closed(R)
        ELSE IF Starts(line, "*fill*") THEN Filled(R, toks)
        ELSE IF Starts(line, "*") THEN R
        ELSE IF IsHex(toks, 1) THEN NumbersLine(R, toks)
        ELSE NamedLine(R, toks)

\* The section's own numbers may be on a line of their own.
PlaceLine(R, line) ==
    IF IsHex(line.toks, 1) /\ Len(line.toks) < 2 THEN [R EXCEPT !.sec.address = 0]
    ELSE IF IsHex(line.toks, 1)
      THEN [R EXCEPT !.sec.address = line.toks[1][2],
                     !.sec.size = IF IsHex(line.toks, 2) THEN line.toks[2][2] ELSE 0]
    ELSE IF Blank(line) THEN Closed(R)
    ELSE InSection([R EXCEPT !.sec.address = 0], line)

ReadLine(R, line) ==
    IF R.sec # None THEN IF R.sec.address = Unknown THEN PlaceLine(R, line) ELSE InSection(R, line)
    ELSE IF line.top /\ ~Blank(line) /\ ~Keyword(line) THEN Opened(R, line.toks)
    ELSE IF R.target = "" /\ Starts(line, "IDF_TARGET") THEN [R EXCEPT !.target = line.toks[2][2]]
    ELSE R

NoSections == [secs |-> <<>>, sec |-> None, inp |-> None, target |-> ""]
AtEnd(R) == IF R.sec = None THEN R
            ELSE Closed(IF R.sec.address = Unknown THEN [R EXCEPT !.sec.address = 0] ELSE R)
ReadSections(lines) == AtEnd(FoldLeft(ReadLine, NoSections, lines))

-----------------------------------------------------------------------------
\* parse_xrefs: a symbol and the archive that defines it, then those that use it.
AddRef(xrefs, line) ==
    LET toks == line.toks
    IN  IF line.top
          THEN IF Len(toks) < 2 THEN xrefs
               ELSE Append(xrefs, [symbol |-> toks[1][2], refs |-> <<toks[2][2]>>])
        ELSE IF xrefs = <<>> THEN xrefs
        ELSE [xrefs EXCEPT ![Len(xrefs)].refs = Append(@, toks[1][2])]

Before(lines, test(_)) ==
    LET k == SelectInSeq(lines, test) IN IF k = 0 THEN lines ELSE SubSeq(lines, 1, k - 1)
After(lines, test(_)) ==
    LET k == SelectInSeq(lines, test) IN IF k = 0 THEN <<>> ELSE SubSeq(lines, k + 1, Len(lines))

ReadXrefs(lines) ==
    FoldLeft(AddRef, <<>>, Before(After(lines, LAMBDA l : Starts(l, "Symbol")), Blank))

\* map_read, behind the memory regions.
IsTable(line) == Starts(line, "Cross")
Of(R, regions, xrefs) == [regions |-> regions, sections |-> R.secs, target |-> R.target, xrefs |-> xrefs]
MapRead(regions, lines) ==
    Of(ReadSections(Before(lines, IsTable)), regions, ReadXrefs(After(lines, IsTable)))
=============================================================================
