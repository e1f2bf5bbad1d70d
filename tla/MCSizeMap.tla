----------------------------- MODULE MCSizeMap -----------------------------
(***************************************************************************)
(* Images a linker may lay out, the map files it writes of them, and what  *)
(* ice idf size must make of these.                                        *)
(***************************************************************************)
EXTENDS SizeMap


\* A part of an output section: an input section, room between two (fill) or
\* data of the linker script, or an input that is said to be where the next one is.
Part(kind, name, archive, object, size) ==
    [kind |-> kind, name |-> name, archive |-> archive, object |-> object, size |-> size]
LibA == <<"a/", "libx.a">>
LibB == <<"b/", "libx.a">>
In(archive, object, size) == Part("input", <<".", "text">>, archive, <<"", object>>, size)
Ghost(size) == Part("ghost", <<".", "literal">>, LibB, <<"", "g.o">>, size)
Fill(size) == Part("fill", <<"", "">>, <<>>, <<>>, size)
Data(size) == Part("data", <<"", "">>, <<>>, <<>>, size)

Room(part) == IF part.kind = "ghost" THEN 0 ELSE part.size
RoomOf(parts) == MapThenSumSet(LAMBDA k : Room(parts[k]), DOMAIN parts)
At(s, k) == s.address + RoomOf(SubSeq(s.parts, 1, k - 1))
IsInput(part) == part.kind \in {"input", "ghost"}

-----------------------------------------------------------------------------
\* The map file: numbers go to a line of their own behind a long name.
PartLines(s, k, style) ==
    LET part == s.parts[k]
        where == <<Hex(At(s, k)), Hex(part.size)>>
        input == where \o <<Ref(part.archive, part.object)>>
        noise == IF style.noise THEN <<Indented(<<Hex(At(s, k)), Other("app_main")>>)>> ELSE <<>>
    IN  CASE part.kind = "fill" -> <<Indented(<<Other("*fill*")>> \o where)>>
          [] part.kind = "data" -> <<Indented(where \o <<Other("LONG"), Hex(7)>>)>>
          [] OTHER -> (IF style.long
                         THEN <<Indented(<<Name(part.name)>>), Indented(input)>>
                         ELSE <<Indented(<<Name(part.name)>> \o input)>>) \o noise

SectionLines(s, style) ==
    LET where == <<Hex(s.address), Hex(RoomOf(s.parts))>>
    IN  (IF style.long THEN <<Top(<<Name(s.name)>>), Indented(where)>>
         ELSE <<Top(<<Name(s.name)>> \o where)>>) \o
        (IF style.noise THEN <<Indented(<<Other("*"), Other("(.text)")>>)>> ELSE <<>>) \o
        FlattenSeq([k \in DOMAIN s.parts |-> PartLines(s, k, style)]) \o <<Top(<<>>)>>

XrefLines(xrefs) ==
    FlattenSeq([x \in DOMAIN xrefs |->
        [r \in DOMAIN xrefs[x].refs |->
            IF r = 1 THEN Top(<<Name(xrefs[x].symbol), Ref(xrefs[x].refs[1], "o")>>)
            ELSE Indented(<<Ref(xrefs[x].refs[r], "o")>>)]])

Lines(image, style) ==
    <<Indented(<<Other("IDF_TARGET"), Name("chip")>>), Top(<<Other("LOAD ")>>)>> \o
    FlattenSeq([i \in DOMAIN image.sections |-> SectionLines(image.sections[i], style)]) \o
    <<Top(<<Other("Cross")>>), Top(<<>>), Top(<<Other("Symbol"), Name("File")>>)>> \o
    XrefLines(image.xrefs) \o <<Top(<<>>)>>

MapOf(image, style) == MapRead(image.regions, Lines(image, style))

\* The inputs of a section, those without room empty, and all of its room from
\* the first input on; but what is behind two or more empty inputs the section
\* begins with is lost.
Kept(s) == {k \in DOMAIN s.parts : IsInput(s.parts[k])}
BeginsEmpty(s) ==
    \E k \in Kept(s) : At(s, k) = s.address /\ Cardinality({j \in Kept(s) : j <= k}) >= 2
SectionRead(read, s) ==
    LET order == SetToSortSeq(Kept(s), <)
        said(k) == <<s.parts[k].name, At(s, k), Room(s.parts[k]), s.parts[k].archive, s.parts[k].object>>
        got(in) == <<in.name, in.address, in.size, in.archive, in.object>>
        all == MapThenSumSet(LAMBDA k : read.inputs[k].size + read.inputs[k].fill, DOMAIN read.inputs)
    IN  /\ <<read.name, read.address, read.size>> = <<s.name, s.address, RoomOf(s.parts)>>
        /\ [k \in DOMAIN read.inputs |-> got(read.inputs[k])] = [i \in DOMAIN order |-> said(order[i])]
        /\ order # <<>> /\ ~BeginsEmpty(s) => all = s.address + RoomOf(s.parts) - At(s, order[1])

ReadRight(mf, image) ==
    /\ Len(mf.sections) = Len(image.sections) /\ mf.target = "chip" /\ mf.xrefs = image.xrefs
    /\ \A i \in DOMAIN mf.sections : SectionRead(mf.sections[i], image.sections[i])
ReadsMap(image, style) == ReadRight(MapOf(image, style), image)

-----------------------------------------------------------------------------
\* The memory type of an address, if a region has it.
TypeAt(regions, b) ==
    {Chip[i].name : i \in {j \in DOMAIN Chip : Holds(Chip[j], b) /\
        \E r \in ToSet(regions) : r.name # "*default*" /\ Within(b, r.origin, r.length)}}
RoomIn(regions, t, from, size) == Cardinality({b \in from..from + size - 1 : TypeAt(regions, b) = {t}})

Regular(image) ==
    \A s \in ToSet(image.sections) : \A b \in s.address..s.address + RoomOf(s.parts) - 1 :
        TypeAt(image.regions, b) # {}

\* Every byte counts once, for the type of the memory it is in, and its archive.
Sizes(mm, p) == IF p \in DOMAIN mm.node THEN mm.node[p].size ELSE 0
PartsIn(image, i, archive) ==
    {k \in DOMAIN image.sections[i].parts :
        image.sections[i].parts[k].kind = "input" /\ image.sections[i].parts[k].archive = archive}
CountsBytes(mm, image) ==
    LET counted == {i \in DOMAIN image.sections : Counted([name |-> image.sections[i].name, size |-> RoomOf(image.sections[i].parts)], <<>>)}
        room(t, i) == RoomIn(image.regions, t, image.sections[i].address, RoomOf(image.sections[i].parts))
        share(t, i, archive) ==
            MapThenSumSet(LAMBDA k : RoomIn(image.regions, t, At(image.sections[i], k),
                                            image.sections[i].parts[k].size), PartsIn(image, i, archive))
    IN  \A t \in TypeNames :
            /\ Sizes(mm, <<t>>) = MapThenSumSet(LAMBDA i : room(t, i), counted)
            /\ \A i \in counted, archive \in {LibA, LibB} :
                   Sizes(mm, <<t, image.sections[i].name, archive>>) =
                        MapThenSumSet(LAMBDA j : share(t, j, archive),
                                      {j \in counted : image.sections[j].name = image.sections[i].name})

\* What is above is the sum of what is below: types of sections and archives of
\* objects exactly, sections but for fill, objects but for room no symbol has.
Below(mm, p, amount(_)) == MapThenSumSet(LAMBDA q : amount(mm.node[q]), Under(mm, p, 1))
SizesAdd(mm) ==
    \A p \in DOMAIN mm.node :
        LET below == Below(mm, p, LAMBDA a : a.size)
        IN  CASE Len(p) \in {1, 3} -> mm.node[p].size = below
              [] Len(p) = 5 -> TRUE
              [] OTHER -> mm.node[p].size >= below
DiffsAdd(mm) ==
    \A p \in DOMAIN mm.node :
        (Len(p) = 1 \/ (Len(p) = 3 /\ Under(mm, p, 1) # {})) => mm.node[p].diff = Below(mm, p, LAMBDA a : a.diff)

CellsOf(rows, amount(_)) ==
    MapThenSumSet(LAMBDA key : MapThenSumSet(LAMBDA cell : amount(rows[key][cell]), DOMAIN rows[key]),
                  DOMAIN rows)
RowsOf(rows, amounts, args) ==
    /\ CellsOf(rows, LAMBDA a : a.diff) = MapThenSumSet(LAMBDA p : amounts[p].diff, DOMAIN amounts)
    /\ ~args.diff => CellsOf(rows, LAMBDA a : a.size) = MapThenSumSet(LAMBDA p : amounts[p].size, DOMAIN amounts)
RowsAdd(mm, args) == RowsOf(Filtered(Rows(mm, args), args), Restrict(mm.node, Shown(mm, args)), args)

\* What a type has is counted once, of regions that share no memory, or all of it.
Home(b) ==
    LET i == First(Chip, LAMBDA r : r.secondary # 0 /\ Within(b, r.secondary, r.length))
    IN  IF i = 0 THEN b ELSE b - Chip[i].secondary + Chip[i].primary
Bytes(r) == r.origin..r.origin + r.length - 1
Memory(r) == {Home(b) : b \in Bytes(r)}
Used(regions) == {r \in ToSet(regions) : r.name # "*default*"}
Apart(regions) ==
    \A r, q \in Used(regions) : r # q =>
        Bytes(r) \cap Bytes(q) = {} /\ (Memory(r) = Memory(q) \/ Memory(r) \cap Memory(q) = {})
ChipTotals(mm, regions) ==
    \A r \in ToSet(Chip) : mm.total[r.name].size =
        Cardinality({b \in UNION {Memory(q) : q \in Used(regions)} : Within(b, r.primary, r.length)})

\* Symbols: one for all of an input, or for its second half and on to the next.
SymbolsOf(image, half) ==
    FlattenSeq([i \in DOMAIN image.sections |->
        LET s == image.sections[i]
            sym(k) == [name |-> ToString(At(s, k)), type |-> IF k % 2 = 0 THEN "object" ELSE "func",
                       value |-> At(s, k) + IF half THEN 1 ELSE 0, size |-> Room(s.parts[k]), abs |-> FALSE]
        IN  [k \in DOMAIN s.parts |-> sym(k)]])
ElfFor(image, half) ==
    [sections |-> {[name |-> s.name, size |-> RoomOf(s.parts), alloc |-> TRUE, bits |-> s.name[2] # "bss"] :
                      s \in ToSet(image.sections)},
     symbols |-> SymbolsOf(image, half) \o
                 <<[name |-> "f", type |-> "func", value |-> 0, size |-> 0, abs |-> FALSE]>>]

Build(image, elf) ==
    [name |-> "app", map |-> MapOf(image, [long |-> FALSE, noise |-> FALSE]), elf |-> elf,
     desc |-> <<[app |-> "app", target |-> "chip"]>>]

\* A single map: as it is loaded, and as it is shown.
OneMapRight(mm, image, elf) ==
    /\ SizesAdd(mm) /\ SizesAdd(RemoveUnused(mm)) /\ SizesAdd(Unify(mm))
    /\ elf = <<>> /\ Regular(image) => CountsBytes(mm, image)
    /\ elf = <<>> /\ Apart(image.regions) => ChipTotals(mm, image.regions)

\* A comparison: the changes shown add up to the change there is, on every level
\* and whatever is left out because it has not changed.
ComparedRight(mm, args) ==
    DiffsAdd(mm) /\ DiffsAdd(Trim(mm, args)) /\ RowsAdd(mm, args)
UnifiedEither(cur, ref) == Unify(Diff(cur, ref)).node = Diff(Unify(cur), Unify(ref)).node

\* Which archives use which is the reverse of which are used by which, and an
\* archive that is in no image, or uses itself, is in neither.
BothWays(uses, used) ==
    /\ \A e \in DOMAIN uses : e[1] # e[2] /\ used[<<e[2], e[1]>>] = uses[e]
    /\ Cardinality(DOMAIN used) = Cardinality(DOMAIN uses)
DependsRight(build, mm) ==
    BothWays(Dependencies(build.map, mm, build.elf, [reverse |-> FALSE]),
             Dependencies(build.map, mm, build.elf, [reverse |-> TRUE]))

OneRight(build, mm, image) ==
    /\ OneMapRight(mm, image, ElfOf(build))
    /\ ElfOf(build) # <<>> => DependsRight(build, mm)
ShownRight(mm, args) == SizesAdd(mm) /\ RowsAdd(mm, args)

ComparesRight(cur, ref, args) ==
    /\ ComparedRight(Measured(cur, ref, args), args)
    /\ UnifiedEither(Prepared(cur, args), Prepared(ref, args))
MeasuresRight(cur, image, args) ==
    /\ OneRight(cur, Load(cur.map, ElfOf(cur), TRUE), image)
    /\ ShownRight(Measured(cur, cur, args), args) /\ TargetOf(cur, args) = "chip"

ElfGiven(x) == IF x.elf = "none" THEN <<>> ELSE <<ElfFor(x.image, x.elf = "half")>>
SizesRight(x) ==
    IF x.args.diff THEN ComparesRight(Build(x.image, <<>>), Build(x.ref, <<>>), x.args)
    ELSE MeasuresRight(Build(x.image, ElfGiven(x)), x.image, x.args)

-----------------------------------------------------------------------------
Sect(name, address, parts) == [name |-> name, address |-> address, parts |-> parts]
Text == <<"flash", "text">>
Iram == <<"iram0", "text">>
DramBss == <<"dram0", "bss">>

PartLists ==
    {<<In(LibA, "x.o", 3), Fill(1), In(LibB, "x.o", 4), Data(2)>>,
     <<Fill(1), In(LibA, "x.o", 0), Fill(2), In(LibA, "y.o", 5)>>,
     <<In(LibB, "y.o", 2), Ghost(3), In(LibA, "x.o", 6), Fill(2)>>,
     <<In(LibA, "x.o", 0), In(LibB, "y.o", 0), Fill(2), In(LibB, "y.o", 2)>>,
     <<Data(3)>>}
Short3 == {<<In(LibA, "x.o", 2)>>, <<In(LibB, "x.o", 2), In(LibA, "x.o", 1)>>, <<Fill(1)>>}

\* A chip with one memory at two addresses, and one that is on its own.
Region(name, origin, length) == [name |-> name, origin |-> origin, length |-> length]
RegionLists ==
    {<<Region("flash", 8, 8), Region("dram", 16, 8), Region("rtc", 24, 4), Region("iram", 32, 8)>>,
     <<Region("*default*", 0, 99), Region("iram", 34, 6), Region("mixed", 8, 18), Region("dram", 18, 6)>>,
     <<Region("flash", 8, 4), Region("dram", 18, 4), Region("iram", 33, 5)>>}

Laid(s, t, regions) ==
    [sections |-> <<s, t>>, regions |-> regions,
     xrefs |-> <<[symbol |-> "f", refs |-> <<LibA, LibB>>], [symbol |-> "g", refs |-> <<LibA, LibA>>]>>]
Clear(image) ==
    LET s == image.sections[1] t == image.sections[2]
    IN  s.address + RoomOf(s.parts) <= t.address \/ t.address + RoomOf(t.parts) <= s.address
Images ==
    {image \in {Laid(Sect(first[1], first[2], p), Sect(second[1], second[2], q), r) :
                    first \in {<<Text, 8>>, <<Text, 12>>, <<Iram, 33>>, <<<<"rtc", "noload">>, 24>>},
                    second \in {<<DramBss, 22>>, <<Iram, 18>>, <<Text, 24>>},
                    p \in PartLists, q \in Short3, r \in RegionLists} : Clear(image)}

Args(view, diff, unify) ==
    [view |-> view, diff |-> diff, unify |-> unify, unchanged |-> FALSE, unused |-> FALSE, flash |-> FALSE,
     archive |-> "libx.a", abbrev |-> TRUE, filter |-> {}, target |-> "", reverse |-> FALSE]

Compared2 == {im \in Images : Len(im.sections[2].parts) = 2}
SizeInputs ==
    {[image |-> image, ref |-> image, args |-> Args("symbols", FALSE, FALSE), elf |-> elf] :
        image \in Images, elf \in {"none", "whole", "half"}} \cup
    {[image |-> image, ref |-> ref, args |-> Args(a[1], TRUE, a[2]), elf |-> "none"] :
        image \in {im \in Compared2 : Len(im.regions) = 4 /\ im.regions[1].name = "flash"},
        ref \in {im \in Compared2 : im.regions[1].name = "*default*" /\ im.sections[1].address = 8},
        a \in {<<"archives", FALSE>>, <<"files", FALSE>>, <<"files", TRUE>>}}
=============================================================================
