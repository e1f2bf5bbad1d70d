----------------------------- MODULE FlashImage -----------------------------
(***************************************************************************)
(* Firmware images: elf.c reads an ELF file, elf2image.c makes a flash     *)
(* image of it (ice image create), image info reads one and image merge    *)
(* puts several into one file; binary.c has what they know of the chips.   *)
(*                                                                         *)
(* A byte is <<"b", value>>, a byte of the ELF file <<"elf", offset>>, the *)
(* first one of an application's description <<"magic", offset>>; digests  *)
(* and checksums are tokens made of what they are of.                      *)
(***************************************************************************)
EXTENDS Integers, Sequences, FiniteSets, SequencesExt, FiniteSetsExt

CONSTANTS IromAlign,   \* BIN_IROM_ALIGN, the size of a page of the flash cache
          MaxSegs,     \* BIN_MAX_SEGS
          AppDescLen   \* what print_app_desc needs of a description

SegHdrLen == 8
HeaderLen == 24
DigestLen == 32
Esp32Tail == 36

PROGBITS == 1
NOBITS == 8
PTLOAD == 1

-----------------------------------------------------------------------------
\* What is known of the chips.

Window(lo, end, type) == [lo |-> lo, end |-> end, type |-> type]
Freqs == <<<<"80m", 15>>, <<"40m", 0>>, <<"26m", 1>>, <<"20m", 2>>>>
Chip(id, ranges, freqs) == [id |-> id, ranges |-> ranges, freqs |-> freqs]

Esp32 == Chip(0, <<Window(\H3F400000, \H3F800000, "DROM"), Window(\H3FF80000, \H3FF82000, "RTC"),
                   Window(\H3FFAE000, \H40000000, "DRAM"), Window(\H40070000, \H40080000, "IRAM"),
                   Window(\H40080000, \H400A0000, "IRAM"), Window(\H400D0000, \H40400000, "IROM"),
                   Window(\H400C0000, \H400C2000, "RTC"), Window(\H50000000, \H50002000, "RTC")>>, Freqs)
Esp32s2 == Chip(2, <<Window(\H3F000000, \H3F3F0000, "DROM"), Window(\H3FFB0000, \H40000000, "DRAM"),
                     Window(\H40020000, \H40070000, "IRAM"), Window(\H40080000, \H40B80000, "IROM"),
                     Window(\H50000000, \H50002000, "RTC")>>, Freqs)
Esp32s3 == Chip(9, <<Window(\H3C000000, \H3E000000, "DROM"), Window(\H3FC88000, \H3FD00000, "DRAM"),
                     Window(\H40370000, \H403E0000, "IRAM"), Window(\H42000000, \H44000000, "IROM"),
                     Window(\H50000000, \H50002000, "RTC"), Window(\H600FE000, \H60100000, "RTC")>>, Freqs)
Esp32c2 == Chip(12, <<Window(\H3C000000, \H3C400000, "DROM"), Window(\H3FCA0000, \H3FCE0000, "DRAM"),
                      Window(\H4037C000, \H403C0000, "IRAM"), Window(\H42000000, \H42400000, "IROM")>>,
                <<<<"60m", 15>>, <<"30m", 0>>, <<"20m", 1>>, <<"15m", 2>>>>)
Esp32c3 == Chip(5, <<Window(\H3C000000, \H3C800000, "DROM"), Window(\H3FC80000, \H3FCE0000, "DRAM"),
                     Window(\H4037C000, \H403E0000, "IRAM"), Window(\H42000000, \H42800000, "IROM"),
                     Window(\H50000000, \H50002000, "RTC")>>, Freqs)
Esp32c5 == Chip(23, <<Window(\H42000000, \H44000000, "DROM"), Window(\H40800000, \H40860000, "DRAM"),
                      Window(\H50000000, \H50004000, "RTC")>>,
                <<<<"80m", 15>>, <<"40m", 0>>, <<"20m", 2>>>>)
C6Ranges == <<Window(\H42000000, \H42800000, "IROM"), Window(\H42800000, \H43000000, "DROM"),
              Window(\H40800000, \H40880000, "DRAM"), Window(\H50000000, \H50004000, "RTC")>>
Esp32c6 == Chip(13, C6Ranges, <<<<"80m", 0>>, <<"40m", 0>>, <<"20m", 2>>>>)
Esp32h2 == Chip(16, C6Ranges, <<<<"48m", 15>>, <<"24m", 0>>, <<"16m", 1>>, <<"12m", 2>>>>)
Esp32p4 == Chip(18, <<Window(\H40000000, \H4C000000, "DROM"), Window(\H4FF00000, \H4FFA0000, "DRAM"),
                      Window(\H50108000, \H50110000, "RTC")>>, Freqs)

Chips == [esp32 |-> Esp32, esp32s2 |-> Esp32s2, esp32s3 |-> Esp32s3, esp32c2 |-> Esp32c2,
          esp32c3 |-> Esp32c3, esp32c5 |-> Esp32c5, esp32c6 |-> Esp32c6, esp32h2 |-> Esp32h2,
          esp32p4 |-> Esp32p4]
NoChip == "?"

ChipById(id) ==
    IF \E c \in DOMAIN Chips : Chips[c].id = id THEN CHOOSE c \in DOMAIN Chips : Chips[c].id = id ELSE NoChip

Classify(chip, vaddr) ==
    IF chip = NoChip THEN "?"
    ELSE LET k == SelectInSeq(Chips[chip].ranges, LAMBDA r : vaddr >= r.lo /\ vaddr < r.end)
         IN  IF k = 0 THEN "?" ELSE Chips[chip].ranges[k].type

IsFlashType(type) == type \in {"DROM", "IROM"}

FlashModes == <<<<"qio", 0>>, <<"qout", 1>>, <<"dio", 2>>, <<"dout", 3>>>>
FlashSizes == <<<<"1MB", 0>>, <<"2MB", 16>>, <<"4MB", 32>>, <<"8MB", 48>>,
                <<"16MB", 64>>, <<"32MB", 80>>, <<"64MB", 96>>, <<"128MB", 112>>>>

Known(table, key) == \E k \in DOMAIN table : table[k][1] = key
Encode(table, key) == table[SelectInSeq(table, LAMBDA kv : kv[1] = key)][2]
Decode(table, value) ==
    LET k == SelectInSeq(table, LAMBDA kv : kv[2] = value) IN IF k = 0 THEN "?" ELSE table[k][1]

-----------------------------------------------------------------------------
\* Reading an ELF file: its header tables must lie inside of it.

EhdrSize(elf) == IF elf.class = 32 THEN 52 ELSE 64
PhdrSize(elf) == IF elf.class = 32 THEN 32 ELSE 56

SegmentsRefused(elf) ==
    \/ elf.len < EhdrSize(elf)
    \/ Len(elf.segs) > 0 /\ (elf.phentsize < PhdrSize(elf) \/ elf.phoff + Len(elf.segs) * elf.phentsize > elf.len)

SectionsRefused(elf) ==
    \/ elf.len < EhdrSize(elf)
    \/ /\ elf.secs # <<>>
       /\ \/ elf.shoff + Len(elf.secs) * elf.shentsize > elf.len
          \/ elf.shstrndx >= Len(elf.secs)
          \/ LET str == elf.secs[elf.shstrndx + 1] IN str.off + str.size > elf.len

\* All but the null section; a name outside of the string table is empty.
Sections(elf) ==
    IF elf.secs = <<>> \/ SectionsRefused(elf) THEN <<>>
    ELSE LET size == elf.secs[elf.shstrndx + 1].size
         IN  [i \in 1..Len(elf.secs) - 1 |->
                 LET s == elf.secs[i + 1] IN IF s.nameoff < size THEN s ELSE [s EXCEPT !.name = ""]]

-----------------------------------------------------------------------------
\* What of it is loaded: its sections with data, or its program headers.

IsProgbitsLoadable(type) == type \in {PROGBITS, 14, 15, 16}

UpToWord(size) == ((size + 3) \div 4) * 4

ImgSeg(vaddr, data, size, flash, name) ==
    [vaddr |-> vaddr, data |-> data, size |-> size, padded |-> UpToWord(size), flash |-> flash,
     pad |-> FALSE, name |-> name]

Collected(refused, segs) == [refused |-> refused, segs |-> segs]

CollectSections(elf, chip) ==
    LET kept == SelectSeq(Sections(elf), LAMBDA s : IsProgbitsLoadable(s.type) /\ s.addr # 0 /\ s.size # 0)
    IN  Collected(\/ SectionsRefused(elf)
                  \/ \E s \in ToSet(kept) : s.off + s.size > elf.len \/ Classify(chip, s.addr) = "?",
                  [i \in DOMAIN kept |->
                      ImgSeg(kept[i].addr, kept[i].off, kept[i].size,
                             IsFlashType(Classify(chip, kept[i].addr)), kept[i].name)])

\* Without the room of sections that have no data before and after those that do.
ProgbitsExtent(secs, p) ==
    LET inside == SelectSeq(secs, LAMBDA s :
                      /\ IsProgbitsLoadable(s.type) /\ s.size # 0
                      /\ s.addr >= p.paddr /\ s.addr + s.size <= p.paddr + p.filesz)
        end == Max({0} \cup {s.addr + s.size : s \in ToSet(inside)})
        first == inside[SelectInSeq(inside, LAMBDA s : \A t \in ToSet(inside) : s.addr <= t.addr)]
    IN  IF inside = <<>> THEN [paddr |-> 0, off |-> 0, filesz |-> 0]
        ELSE [paddr |-> first.addr, off |-> first.off, filesz |-> end - first.addr]

CollectOf(elf, secs, chip) ==
    LET loads == SelectSeq(elf.segs, LAMBDA p : p.type = PTLOAD /\ p.paddr # 0 /\ p.filesz # 0)
        trimmed == [i \in DOMAIN loads |-> IF secs = <<>> THEN loads[i] ELSE ProgbitsExtent(secs, loads[i])]
        kept == SelectSeq(trimmed, LAMBDA p : p.filesz # 0)
    IN  Collected(\/ SegmentsRefused(elf) \/ SectionsRefused(elf)
                  \/ \E p \in ToSet(loads) : p.off + p.filesz > elf.len
                  \/ \E p \in ToSet(kept) : Classify(chip, p.paddr) = "?",
                  [i \in DOMAIN kept |->
                      ImgSeg(kept[i].paddr, kept[i].off, kept[i].filesz,
                             IsFlashType(Classify(chip, kept[i].paddr)), "")])
CollectSegments(elf, chip) == CollectOf(elf, Sections(elf), chip)

OrSegments(sections, elf, chip, useSegments) ==
    IF useSegments \/ (~sections.refused /\ sections.segs = <<>>) THEN CollectSegments(elf, chip) ELSE sections
Collect(elf, chip, useSegments) == OrSegments(CollectSections(elf, chip), elf, chip, useSegments)

-----------------------------------------------------------------------------
SortByVaddr(segs) ==
    FoldLeft(LAMBDA out, s : SelectSeq(out, LAMBDA t : t.vaddr <= s.vaddr) \o <<s>>
                             \o SelectSeq(out, LAMBDA t : t.vaddr > s.vaddr), <<>>, segs)

\* Mutant: that the data is contiguous in the ELF file is not asked.
CanMergeByAddress(prev, cur) == prev.flash = cur.flash /\ prev.vaddr + prev.size = cur.vaddr

CanMerge(prev, cur) ==
    /\ prev.flash = cur.flash
    /\ prev.vaddr + prev.size = cur.vaddr
    /\ prev.data + prev.size = cur.data

Longer(s, more) == [s EXCEPT !.size = s.size + more, !.padded = UpToWord(s.size + more)]

MergeAdjacent(segs) ==
    FoldLeft(LAMBDA out, s :
                 IF out # <<>> /\ CanMerge(Last(out), s)
                 THEN Append(Front(out), Longer(Last(out), s.size)) ELSE Append(out, s), <<>>, segs)

\* An application's description comes first of what is in flash.
AppdescToFront(segs) ==
    LET first == SelectInSeq(segs, LAMBDA s : s.flash)
        hit == SelectInSeq(segs, LAMBDA s : s.flash /\ s.name = ".flash.appdesc")
    IN  IF hit = 0 THEN segs
        ELSE SubSeq(segs, 1, first - 1) \o <<segs[hit]>> \o SubSeq(segs, first, hit - 1)
             \o SubSeq(segs, hit + 1, Len(segs))

-----------------------------------------------------------------------------
\* The data of a segment in flash must be as far into a page of the file as it is
\* in memory: what is before its header is filled with segments for RAM, the last
\* of them cut, or with one that is loaded nowhere.

PadNeeded(cur, vaddr) ==
    LET hdr == ((vaddr % IromAlign) + IromAlign - SegHdrLen) % IromAlign
        here == cur % IromAlign
    IN  IF here <= hdr THEN hdr - here ELSE IromAlign - here + hdr

Placed(st, seg) ==
    [st EXCEPT !.out = Append(st.out, seg), !.pos = st.pos + SegHdrLen + seg.padded]

CutHead(seg, n) == [seg EXCEPT !.size = n, !.padded = n]
\* A gap that ends within a word can cut into the padding: the size that is
\* negative here is 2^32 more in the code.
CutTail(seg, n) ==
    [seg EXCEPT !.data = seg.data + n, !.vaddr = seg.vaddr + n, !.size = seg.size - n, !.padded = seg.padded - n]

PadSeg(n) ==
    [vaddr |-> 0, data |-> 0, size |-> n, padded |-> n, flash |-> FALSE, pad |-> TRUE, name |-> ""]

RECURSIVE FillGap(_, _)
FillGap(st, gap) ==
    IF gap = 0 THEN st
    ELSE IF st.ram = <<>> \/ gap <= SegHdrLen
    THEN Placed(st, PadSeg(IF gap < SegHdrLen THEN 0 ELSE gap - SegHdrLen))
    ELSE IF Head(st.ram).padded <= gap - SegHdrLen
    THEN FillGap([Placed(st, Head(st.ram)) EXCEPT !.ram = Tail(st.ram)], gap - SegHdrLen - Head(st.ram).padded)
    ELSE [Placed(st, CutHead(Head(st.ram), gap - SegHdrLen)) EXCEPT
             !.ram = <<CutTail(Head(st.ram), gap - SegHdrLen)>> \o Tail(st.ram)]

Layout(segs) ==
    LET flash == SelectSeq(segs, LAMBDA s : s.flash)
        st == FoldLeft(LAMBDA acc, s : Placed(FillGap(acc, PadNeeded(acc.pos, s.vaddr)), s),
                       [out |-> <<>>, pos |-> HeaderLen, ram |-> SelectSeq(segs, LAMBDA s : ~s.flash)], flash)
    IN  st.out \o st.ram

-----------------------------------------------------------------------------
B(v) == <<"b", v>>
Zeros(n) == [k \in 1..n |-> B(0)]
Le16(v) == <<B(v % 256), B((v \div 256) % 256)>>
Le32(v) == Le16(v % 65536) \o Le16(v \div 65536)
ElfByte(elf, o) == IF o \in elf.zeros THEN B(0) ELSE IF o = elf.desc THEN <<"magic", o>> ELSE <<"elf", o>>
ElfDigest == [k \in 1..DigestLen |-> <<"elf sha", k>>]
DigestOf(bytes) == [k \in 1..DigestLen |-> <<"sha", bytes, k>>]

\* The exclusive or of bytes: zeros do not matter, what is there twice cancels out.
Odd(bytes) == {b \in ToSet(bytes) \ {B(0)} : Cardinality({k \in DOMAIN bytes : bytes[k] = b}) % 2 = 1}
Xor(sum, bytes) == SymDiff(sum, Odd(bytes))

\* esp32_flash_pad: no segment in flash ends in the first bytes of a page.
FlashPad(chip, seg, end) ==
    IF chip # "esp32" \/ ~seg.flash \/ end % IromAlign >= Esp32Tail THEN 0 ELSE Esp32Tail - (end % IromAlign)

SegBytes(elf, seg) ==
    (IF seg.pad THEN Zeros(seg.size) ELSE [k \in 1..seg.size |-> ElfByte(elf, seg.data + k - 1)])
    \o Zeros(seg.padded - seg.size)

\* The digest of the ELF file goes where it is asked for, if that is in the segment.
Patched(data, start, offset) ==
    IF offset = 0 \/ offset < start \/ offset + DigestLen > start + Len(data) THEN data
    ELSE [k \in DOMAIN data |->
             IF start + k > offset /\ start + k <= offset + DigestLen THEN ElfDigest[start + k - offset] ELSE data[k]]

WriteSeg(acc, elf, chip, offset, seg) ==
    LET start == Len(acc.bytes) + SegHdrLen
        raw == SegBytes(elf, seg)
        data == Patched(raw \o Zeros(FlashPad(chip, seg, start + seg.padded)), start, offset)
    IN  [bytes |-> acc.bytes \o Le32(seg.vaddr) \o Le32(Len(data)) \o data, sum |-> Xor(acc.sum, data)]

Header(n, elf, chip, cfg) ==
    <<B(\HE9), B(n), B(Encode(FlashModes, cfg.mode)),
      B(Encode(FlashSizes, cfg.size) + Encode(Chips[chip].freqs, cfg.freq))>> \o Le32(elf.entry)
    \o <<B(\HEE), B(0), B(0), B(0)>> \o Le16(Chips[chip].id) \o <<B(0)>> \o Le16(cfg.minRev) \o Le16(cfg.maxRev)
    \o Zeros(4) \o <<B(IF cfg.digest THEN 1 ELSE 0)>>

Refused == [refused |-> TRUE, bytes |-> <<>>]
Made(bytes) == [refused |-> FALSE, bytes |-> bytes]

Body(elf, chip, cfg, segs) ==
    FoldLeft(LAMBDA acc, s : WriteSeg(acc, elf, chip, cfg.shaOffset, s),
             [bytes |-> Header(Len(segs), elf, chip, cfg), sum |-> {}], segs)
\* The checksum is the last byte of sixteen.
Summed(body) == body.bytes \o Zeros((16 - ((Len(body.bytes) + 1) % 16)) % 16) \o <<<<"sum", body.sum>>>>
Digested(bytes, digest) == bytes \o (IF digest THEN DigestOf(bytes) ELSE <<>>)
E2iWrite(elf, chip, cfg, segs) == Digested(Summed(Body(elf, chip, cfg, segs)), cfg.digest)

E2iLaidOut(elf, chip, cfg, segs) == IF Len(segs) > MaxSegs THEN Refused ELSE Made(E2iWrite(elf, chip, cfg, segs))
E2iOrdered(elf, chip, cfg, segs) ==
    IF Len(segs) > MaxSegs THEN Refused ELSE E2iLaidOut(elf, chip, cfg, Layout(segs))

E2iCollected(elf, chip, cfg, found) ==
    IF found.refused \/ found.segs = <<>> THEN Refused
    ELSE E2iOrdered(elf, chip, cfg, AppdescToFront(MergeAdjacent(SortByVaddr(found.segs))))

E2iBuild(elf, chip, cfg) ==
    IF \/ ~Known(FlashModes, cfg.mode) \/ ~Known(FlashSizes, cfg.size) \/ ~Known(Chips[chip].freqs, cfg.freq)
       \/ SegmentsRefused(elf)
    THEN Refused ELSE E2iCollected(elf, chip, cfg, Collect(elf, chip, cfg.useSegments))

\* pad_to: a shorter image ends in erased flash.
PadTo(bytes, target) == bytes \o [k \in 1..(target - Len(bytes)) |-> B(255)]

Filled(image, target) == IF image.refused \/ target = 0 THEN image ELSE Made(PadTo(image.bytes, target))

\* cmd_image_create
Create(elf, chip, cfg) ==
    IF chip \notin DOMAIN Chips THEN Refused
    ELSE Filled(E2iBuild(elf, chip, cfg), cfg.padTo)

-----------------------------------------------------------------------------
\* ice image info

Rd16(bytes, pos) == bytes[pos + 1][2] + bytes[pos + 2][2] * 256
Rd32(bytes, pos) == Rd16(bytes, pos) + Rd16(bytes, pos + 2) * 65536

WalkSeg(acc, bytes, chip, end) ==
    IF ~acc.ok \/ acc.pos + SegHdrLen > end THEN [acc EXCEPT !.ok = FALSE]
    ELSE LET size == Rd32(bytes, acc.pos + 4)
             at == acc.pos + SegHdrLen
         IN  IF at + size > end THEN [acc EXCEPT !.ok = FALSE]
             ELSE [ok |-> TRUE, pos |-> at + size,
                   sum |-> Xor(acc.sum, SubSeq(bytes, at + 1, at + size)),
                   segs |-> Append(acc.segs, [at |-> at, load |-> Rd32(bytes, acc.pos), size |-> size,
                                              type |-> Classify(chip, Rd32(bytes, acc.pos))])]

InfoRefused == [ok |-> FALSE]

\* "invalid" is said of a checksum behind the end, "mismatch" of one that differs.
Verdict(valid) == IF valid THEN "valid" ELSE "mismatch"
SumVerdict(bytes, walked, end) ==
    LET pos == (walked.pos \div 16) * 16 + 15
    IN  IF pos >= end THEN "invalid" ELSE Verdict(bytes[pos + 1] = <<"sum", walked.sum>>)
DigestVerdict(bytes, digest) ==
    IF ~digest THEN "none" ELSE IF Len(bytes) < DigestLen THEN "too short"
    ELSE Verdict(SubSeq(bytes, Len(bytes) - DigestLen + 1, Len(bytes))
                     = DigestOf(SubSeq(bytes, 1, Len(bytes) - DigestLen)))

\* The first segment that begins as a description does, if it is long enough.
AppDescOf(bytes, segs) ==
    LET k == SelectInSeq(segs, LAMBDA s : s.size >= 4 /\ bytes[s.at + 1][1] = "magic")
    IN  IF k = 0 \/ segs[k].size < AppDescLen THEN 0 ELSE k

\* The digest, if there is one, is the end of the file.
End(bytes, digest) == IF digest /\ Len(bytes) >= DigestLen THEN Len(bytes) - DigestLen ELSE Len(bytes)
Walked(bytes, chip, end) ==
    FoldLeft(LAMBDA acc, k : WalkSeg(acc, bytes, chip, end),
             [ok |-> TRUE, pos |-> HeaderLen, sum |-> {}, segs |-> <<>>], [k \in 1..bytes[2][2] |-> k])
InfoOf(bytes, chip, digest, walked) ==
    LET sizeFreq == bytes[4][2]
    IN  IF ~walked.ok THEN InfoRefused
        ELSE [ok |-> TRUE, chip |-> chip, entry |-> Rd32(bytes, 4), segs |-> walked.segs,
              mode |-> Decode(FlashModes, bytes[3][2]),
              size |-> Decode(FlashSizes, sizeFreq - (sizeFreq % 16)),
              freq |-> IF chip = NoChip THEN "?" ELSE Decode(Chips[chip].freqs, sizeFreq % 16),
              minRev |-> Rd16(bytes, 15), maxRev |-> Rd16(bytes, 17),
              checksum |-> SumVerdict(bytes, walked, End(bytes, digest)), digest |-> DigestVerdict(bytes, digest),
              appDesc |-> AppDescOf(bytes, walked.segs)]

InfoFor(bytes, chip, digest) == InfoOf(bytes, chip, digest, Walked(bytes, chip, End(bytes, digest)))

Info(bytes, named) ==
    IF Len(bytes) < HeaderLen \/ bytes[1] # B(\HE9) \/ named \notin DOMAIN Chips \cup {NoChip} THEN InfoRefused
    ELSE InfoFor(bytes, IF named = NoChip THEN ChipById(Rd16(bytes, 12)) ELSE named, bytes[24] # B(0))

-----------------------------------------------------------------------------
\* ice image merge: each input is put where it is said to be, less the base.

EndOf(e) == e.off + Len(e.data)
Meet(a, b) == a.off < EndOf(b) /\ b.off < EndOf(a)

MergeRefused(inputs, base, padTo) ==
    LET end == Max({EndOf(e) : e \in ToSet(inputs)}) - base
    IN  \/ \E e \in ToSet(inputs) : e.off < base
        \/ \E i, j \in DOMAIN inputs : i < j /\ Meet(inputs[i], inputs[j])
        \/ padTo # 0 /\ end > padTo
        \/ padTo = 0 /\ end = 0

Merge(inputs, base, padTo) ==
    IF MergeRefused(inputs, base, padTo) THEN Refused
    ELSE LET total == IF padTo # 0 THEN padTo ELSE Max({EndOf(e) : e \in ToSet(inputs)}) - base
         IN  Made(FoldLeft(LAMBDA out, e :
                      [k \in DOMAIN out |-> IF k - 1 >= e.off - base /\ k - 1 < EndOf(e) - base
                                            THEN e.data[k - (e.off - base)] ELSE out[k]],
                      [k \in 1..total |-> B(255)], inputs))
=============================================================================
