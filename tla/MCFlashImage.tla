---------------------------- MODULE MCFlashImage ----------------------------
(***************************************************************************)
(* ELF files a linker may write, what an image made of them must be, and   *)
(* files merged.                                                           *)
(***************************************************************************)
EXTENDS FlashImage

Sec(name, type, addr, size) == [name |-> name, type |-> type, addr |-> addr, size |-> size]

\* An ELF file: its headers, the data of groups of sections that lie one behind
\* another, the names and the section headers.  Each group is a program header.
SizeOf(secs) == FoldLeft(LAMBDA n, s : n + s.size, 0, secs)

ElfOf(groups, class, stripped) ==
    LET secs == FlattenSeq(groups)
        before(g) == FlattenSeq(SubSeq(groups, 1, g - 1))
        ehdr == EhdrSize([class |-> class])
        phdr == PhdrSize([class |-> class])
        data == ehdr + Len(groups) * phdr
        names == data + SizeOf(secs)
        shoff == names + 10
        shdr == IF class = 32 THEN 40 ELSE 64
        header(s, off) == [name |-> s.name, nameoff |-> 1, type |-> s.type, addr |-> s.addr, off |-> off, size |-> s.size]
        desc == SelectInSeq(secs, LAMBDA s : s.name = ".flash.appdesc")
    IN  [len |-> IF stripped THEN names ELSE shoff + (Len(secs) + 2) * shdr,
         class |-> class, entry |-> groups[Len(groups)][1].addr,
         phoff |-> ehdr, phentsize |-> phdr, shoff |-> shoff, shentsize |-> shdr, shstrndx |-> Len(secs) + 1,
         segs |-> [g \in DOMAIN groups |->
                      [type |-> PTLOAD, paddr |-> groups[g][1].addr, off |-> data + SizeOf(before(g)),
                       filesz |-> SizeOf(groups[g])]],
         secs |-> IF stripped THEN <<>>
                  ELSE <<header(Sec("", 0, 0, 0), 0)>>
                       \o [i \in DOMAIN secs |-> header(secs[i], data + SizeOf(SubSeq(secs, 1, i - 1)))]
                       \o <<header(Sec(".shstrtab", 3, 0, 10), names)>>,
         zeros |-> UNION {LET o == data + SizeOf(SubSeq(secs, 1, i - 1)) IN o..(o + secs[i].size - 1) :
                             i \in {j \in DOMAIN secs : secs[j].type = NOBITS}},
         desc |-> IF desc = 0 THEN 0 - 1 ELSE data + SizeOf(SubSeq(secs, 1, desc - 1))]

-----------------------------------------------------------------------------
\* What an image must be.

\* What the sections of an ELF file say is at an address; what they do not is zero.
Said(groups, elf) ==
    LET secs == FlattenSeq(groups)
        all == [i \in DOMAIN secs |->
                   [addr |-> secs[i].addr, end |-> secs[i].addr + secs[i].size,
                    off |-> elf.segs[1].off + SizeOf(SubSeq(secs, 1, i - 1)), data |-> secs[i].type # NOBITS]]
    IN  SelectSeq(all, LAMBDA s : s.data)

ElfAt(elf, said, a) ==
    LET k == SelectInSeq(said, LAMBDA s : s.addr <= a /\ a < s.end)
    IN  IF k = 0 THEN B(0) ELSE ElfByte(elf, said[k].off + a - said[k].addr)

\* What a chip finds at an address: the last segment for it was loaded last.
Found(bytes, segs, a) ==
    LET k == SelectLastInSeq(segs, LAMBDA s : s.load <= a /\ a < s.load + s.size)
    IN  IF k = 0 THEN <<"nothing">> ELSE bytes[segs[k].at + (a - segs[k].load) + 1]

IsPad(s) == s.load = 0
InField(pos, offset) == offset # 0 /\ pos >= offset /\ pos < offset + DigestLen
FieldIn(s, offset) == offset # 0 /\ s.at <= offset /\ offset + DigestLen <= s.at + s.size

\* Every byte is what the ELF file has for its address, but for the digest in it.
BytesMeant(bytes, elf, said, segs, offset) ==
    \A k \in DOMAIN segs : ~IsPad(segs[k]) =>
        \A i \in 0..(segs[k].size - 1) :
            LET pos == segs[k].at + i
            IN  \/ bytes[pos + 1] = B(0)
                \/ bytes[pos + 1] =
                       IF FieldIn(segs[k], offset) /\ InField(pos, offset) THEN <<"elf sha", pos - offset + 1>>
                       ELSE ElfAt(elf, said, segs[k].load + i)

\* Nothing is left out.
AllFound(bytes, elf, said, segs) ==
    \A s \in ToSet(said) : \A a \in s.addr..(s.end - 1) :
        LET b == Found(bytes, segs, a)
        IN  b = ElfByte(elf, s.off + a - s.addr) \/ b[1] = "elf sha"

\* Flash is mapped by pages, but for what follows a gap smaller than a header, or a
\* segment that was made longer for the ESP32.
InPage(s) == s.at % IromAlign = s.load % IromAlign
ShortGap(segs, k) == k > 1 /\ IsPad(segs[k - 1]) /\ segs[k - 1].size = 0
IsLonger(said, seg) == ~\E s \in ToSet(said) : s.end > seg.load + seg.size - 4 /\ s.addr < seg.load + seg.size
Lengthened(said, segs, k) == \E j \in 1..(k - 1) : IsFlashType(segs[j].type) /\ IsLonger(said, segs[j])
InPages(said, segs, chip) ==
    \A k \in DOMAIN segs : IsFlashType(segs[k].type) =>
        InPage(segs[k]) \/ ShortGap(segs, k) \/ (chip = "esp32" /\ Lengthened(said, segs, k))

\* What was asked for is what is read, and a description comes first of what is in flash.
SaysWhatWasAsked(info, elf, chip, cfg) ==
    /\ info.chip = chip /\ info.entry = elf.entry /\ info.mode = cfg.mode /\ info.size = cfg.size
    /\ Encode(Chips[chip].freqs, info.freq) = Encode(Chips[chip].freqs, cfg.freq)
    /\ info.minRev = cfg.minRev /\ info.maxRev = cfg.maxRev
    /\ info.checksum = "valid" /\ info.digest = IF cfg.digest THEN "valid" ELSE "none"
    /\ info.appDesc # 0 /\ ~cfg.useSegments /\ elf.secs # <<>> =>
          \A k \in 1..(info.appDesc - 1) : ~IsFlashType(info.segs[k].type)

ImageRight(elf, said, chip, cfg, bytes, info) ==
    /\ info.ok
    /\ Len(info.segs) <= MaxSegs
    /\ SaysWhatWasAsked(info, elf, chip, cfg)
    /\ BytesMeant(bytes, elf, said, info.segs, cfg.shaOffset)
    /\ AllFound(bytes, elf, said, info.segs)
    /\ InPages(said, info.segs, chip)

BuildRight(image, elf, groups, chip, cfg, fits) ==
    /\ image.refused = ~fits
    /\ fits => ImageRight(elf, Said(groups, elf), chip, cfg, image.bytes, Info(image.bytes, NoChip))

Cut(elf, n) == [elf EXCEPT !.len = elf.len - n]
BuiltAs(elf, input) ==
    BuildRight(Create(elf, input.chip, input.cfg), elf, input.groups, input.chip, input.cfg,
               input.cut = 0 /\ Len(input.groups) <= MaxSegs \div 2)
InputElf(input) == ElfOf(input.groups, input.class, input.stripped)
BuiltRight(input) == BuiltAs(Cut(InputElf(input), input.cut), input)

\* Files merged are where they were to be and what is between them is erased; those
\* that would be in the same place are refused, as those outside are.
PlaceOf(e, base) == (e.off - base)..(EndOf(e) - base - 1)
MergedRight(inputs, base, padTo) ==
    LET merged == Merge(inputs, base, padTo)
        Of(e) == PlaceOf(e, base)
        clash == \E i, j \in DOMAIN inputs : i < j /\ Of(inputs[i]) \cap Of(inputs[j]) # {}
        outside == \E e \in ToSet(inputs) : e.off < base \/ (padTo # 0 /\ EndOf(e) - base > padTo)
    IN  /\ clash \/ outside => merged.refused
        /\ merged.refused => clash \/ outside \/ \E e \in ToSet(inputs) : e.data = <<>>
        /\ ~merged.refused =>
              /\ padTo # 0 => Len(merged.bytes) = padTo
              /\ \A e \in ToSet(inputs) : \A k \in DOMAIN e.data : merged.bytes[e.off - base + k] = e.data[k]
              /\ \A p \in DOMAIN merged.bytes :
                    merged.bytes[p] = B(255) \/ \E e \in ToSet(inputs) : p - 1 \in Of(e)
              /\ \A n \in 0..(Len(merged.bytes) + 2) : PadTo(merged.bytes, n) = PadTo(PadTo(merged.bytes, n - 1), n)
\* Whether all that is in flash is where it can be mapped.
AllInPages(info) == info.ok => \A s \in ToSet(info.segs) : IsFlashType(s.type) => InPage(s)
InPagesAlways(input) ==
    input.kind = "built" => AllInPages(Info(Create(InputElf(input), input.chip, input.cfg).bytes, NoChip))

ImageLoads(input) ==
    IF input.kind = "merged" THEN MergedRight(input.files, input.base, input.padTo) ELSE BuiltRight(input)

-----------------------------------------------------------------------------
Bases ==
    [esp32 |-> [drom |-> \H3F400020, dram |-> \H3FFB0000, iram |-> \H40080000, irom |-> \H400D0020],
     esp32c6 |-> [drom |-> \H42800020, dram |-> \H40800000, iram |-> \H40810000, irom |-> \H42000020],
     esp32c3 |-> [drom |-> \H3C000020, dram |-> \H3FC80000, iram |-> \H40380000, irom |-> \H42000020]]

Data(name, addr, size) == Sec(name, PROGBITS, addr, size)

\* Constants, the description before them or in a page of its own behind them.
Rodata(at, desc, size) ==
    CASE desc = "none" -> <<<<Data(".flash.rodata", at, size)>>>>
      [] desc = "first" -> <<<<Data(".flash.appdesc", at, 40), Data(".flash.rodata", at + 40, size)>>>>
      [] desc = "later" -> <<<<Data(".flash.rodata", at, size)>>, <<Data(".flash.appdesc", at + 2 * IromAlign, 40)>>>>

\* Data of RAM: behind room without any, around some, or in two parts that the file has
\* in the other order.
Dram(at, sizes) ==
    CASE Len(sizes) = 0 -> <<>>
      [] Len(sizes) = 1 -> <<<<Sec(".dram0.dummy", NOBITS, at, 4), Data(".dram0.data", at + 4, sizes[1])>>>>
      [] Len(sizes) = 2 -> <<<<Data(".dram0.data", at, sizes[1]), Sec(".dram0.gap", NOBITS, at + sizes[1], 3),
                               Data(".dram0.more", at + sizes[1] + 3, sizes[2])>>>>
      [] Len(sizes) = 3 -> <<<<Data(".dram0.more", at + sizes[1] + sizes[2], sizes[3])>>, <<Data(".dram0.data", at, sizes[1])>>>>

Code(at, size) == IF size = 0 THEN <<>> ELSE <<<<Data(".text", at, size)>>>>

Cfg(mode, size, freq, rev, segments, digest, offset) ==
    [mode |-> mode, size |-> size, freq |-> freq, minRev |-> rev, maxRev |-> 65535, useSegments |-> segments,
     digest |-> digest, shaOffset |-> offset, padTo |-> 0]
Cfgs ==
    {<<Cfg("dio", "2MB", "40m", 0, FALSE, TRUE, 40), FALSE, 32>>,
     <<Cfg("qio", "128MB", "80m", 300, TRUE, TRUE, 100), FALSE, 64>>,
     <<Cfg("dout", "1MB", "20m", 99, FALSE, FALSE, 0), TRUE, 32>>}

Input(chip, groups, cfg, cut) ==
    [kind |-> "built", chip |-> chip, groups |-> groups, cfg |-> cfg[1], stripped |-> cfg[2], class |-> cfg[3],
     cut |-> cut]
Program(chip, desc, d, ram, iram, irom) ==
    Rodata(Bases[chip].drom, desc, d) \o Dram(Bases[chip].dram, ram) \o Code(Bases[chip].iram, iram)
    \o Code(Bases[chip].irom, irom)

Built ==
    {Input(chip, Program(chip, desc, d, ram, iram, irom), cfg, 0) :
         chip \in DOMAIN Bases, desc \in {"none", "first", "later"}, d \in {5, 44, 48, 52, 56},
         ram \in {<<>>, <<5>>, <<100>>, <<5, 7>>, <<6, 1, 9>>, <<8, 0, 9>>}, iram \in {0, 13}, irom \in {0, 70}, cfg \in Cfgs}
\* The end of the ELF file is missing, or it has more to map than an image holds.
CutShort ==
    {Input("esp32c3", Program("esp32c3", "none", 44, <<5>>, 0, 70), cfg, n) : cfg \in Cfgs, n \in 1..150}
Scattered ==
    {Input("esp32", [k \in 1..n |-> <<Data(".flash.rodata", \H3F400020 + 4 * IromAlign * k, 4)>>], cfg, 0) :
         n \in {8, 9}, cfg \in Cfgs}

Files == {[off |-> o, data |-> [k \in 1..n |-> <<"elf", 10 * o + k>>]] : o \in 0..4, n \in 0..2}
Merged ==
    [kind : {"merged"}, files : UNION {[1..n -> Files] : n \in 1..2}, base : 0..2, padTo : {0, 3, 5}]

ImageInputs == Built \cup CutShort \cup Scattered \cup Merged
=============================================================================
