---------------------------- MODULE PartitionTable ----------------------------
(***************************************************************************)
(* Partition tables (partition_table.c): a CSV file is read into entries,  *)
(* offsets it leaves out are filled in, and the result is checked; entries *)
(* are written to and read from the image the chip boots with; and the     *)
(* commands that check an image against a table, or write, read and erase  *)
(* a partition of a device (cmd/idf/partition-table, cmd/target/partition).*)
(*                                                                         *)
(* Addresses and sizes are counted in Unit bytes and wrap as uint32_t does.*)
(***************************************************************************)
EXTENDS Integers, Sequences, SequencesExt, TLC

CONSTANTS MaxEntries,   \* slots of the image, the digest's included
          Extras        \* subtypes registered by the user: [type, name, val]

Unit == 512
Word == 2^23            \* 2^32 bytes
Sector == 4096 \div Unit
AppAlign == 65536 \div Unit
TableSize == Sector
Scale == [s \in {"", "K", "M"} |-> CASE s = "" -> 1 [] s = "K" -> 1024 \div Unit [] s = "M" -> (1024 * 1024) \div Unit]

App == 0
Data == 1
Boot == 2
Ptable == 3
Undefined == 6   \* the subtype of an empty field

-----------------------------------------------------------------------------
(* Names of types and subtypes                                              *)

TypeNames == "app" :> App @@ "data" :> Data @@ "bootloader" :> Boot @@ "partition_table" :> Ptable

Named(type, names) == {[type |-> type, name |-> n, val |-> names[n]] : n \in DOMAIN names}

\* Slots of the app type: numbered, and read and written before any other name.
AppSlots ==
    {[type |-> App, name |-> "ota_" \o ToString(k), val |-> 16 + k] : k \in 0..15} \cup
    {[type |-> App, name |-> "tee_" \o ToString(k), val |-> 48 + k] : k \in 0..1}

StaticNames ==
    Named(App, "factory" :> 0 @@ "test" :> 32) \cup
    Named(Data, "ota" :> 0 @@ "phy" :> 1 @@ "nvs" :> 2 @@ "coredump" :> 3 @@ "undefined" :> 6) \cup
    Named(Boot, "primary" :> 0 @@ "ota" :> 1 @@ "recovery" :> 2) \cup
    Named(Ptable, "primary" :> 0 @@ "ota" :> 1)

\* The three tables in the order in which they are looked through.
Subtypes == <<AppSlots, StaticNames, Extras>>

Numeric(s) == {v \in 0..255 : ToString(v) = s}
Type(s) == IF s \in DOMAIN TypeNames THEN {TypeNames[s]} ELSE Numeric(s)

FirstOf(sets) == IF \E i \in DOMAIN sets : sets[i] # {}
                 THEN sets[CHOOSE i \in DOMAIN sets : sets[i] # {} /\ \A j \in 1..i - 1 : sets[j] = {}]
                 ELSE {}

Subtype(type, s) ==
    FirstOf([i \in 1..3 |-> {x.val : x \in {y \in Subtypes[i] : y.type = type /\ y.name = s}}]
              \o <<Numeric(s)>>)

FormatType(type) ==
    IF \E s \in DOMAIN TypeNames : TypeNames[s] = type
    THEN CHOOSE s \in DOMAIN TypeNames : TypeNames[s] = type ELSE ToString(type)

FormatSubtype(type, val) ==
    CHOOSE s \in FirstOf([i \in 1..3 |-> {x.name : x \in {y \in Subtypes[i] : y.type = type /\ y.val = val}}]
                           \o <<{ToString(val)}>>) : TRUE

\* A new name is refused when the type has it with another value.
Registers(extra) ==
    \A x \in StaticNames \cup Extras :
        x.type = extra.type /\ x.name = extra.name => x.val = extra.val

\* A number with a suffix.
Amount(a) == (a[1] * Scale[a[2]]) % Word

\* Mutant: every size is a number of kilobytes.
FormatRounded(n) == IF n % Scale["M"] = 0
                    THEN <<n \div Scale["M"], "M">> ELSE <<n \div Scale["K"], "K">>

FormatSize(n) == IF n % Scale["M"] = 0 THEN <<n \div Scale["M"], "M">>
                 ELSE IF n % Scale["K"] = 0 THEN <<n \div Scale["K"], "K">> ELSE <<n, "">>

-----------------------------------------------------------------------------
(* Reading a CSV file.  A row has name, type, sub, flags (a set), off (an   *)
(* amount or nothing) and size (an amount, an end address, or nothing).     *)

\* Entries whose place comes from the command line.
Located(e) == (e.type = Boot /\ e.subtype \in {0, 2}) \/ (e.type = Ptable /\ e.subtype = 0)

TypeOf(row) == CHOOSE t \in Type(row.type) : TRUE
SubtypeOf(row) == IF row.sub = "" THEN Undefined
                  ELSE CHOOSE v \in Subtype(TypeOf(row), row.sub) : TRUE

Readable(row, opts) ==
    /\ Type(row.type) # {}
    /\ IF row.sub = "" THEN TypeOf(row) # App ELSE Subtype(TypeOf(row), row.sub) # {}
    /\ TypeOf(row) = Boot => opts.boot # <<>>
    /\ TypeOf(row) \notin {Boot, Ptable} => row.size # <<>>

EntryOf(row, opts) ==
    LET kind == [type |-> TypeOf(row), subtype |-> SubtypeOf(row)]
        placed == row.off # <<>> /\ ~Located(kind)
        sized == kind.type \notin {Boot, Ptable}
    IN  [name |-> row.name, type |-> kind.type, subtype |-> kind.subtype,
         set |-> placed, offset |-> IF placed THEN Amount(row.off) ELSE 0,
         end |-> sized /\ row.size[1] = "-",
         size |-> CASE sized -> Amount(row.size[2])
                    [] kind.type = Boot -> (opts.table - opts.boot[1]) % Word
                    [] OTHER -> TableSize,
         flags |-> row.flags \cap {"encrypted", "readonly"}]

AlignOf(type) == IF type = App THEN AppAlign ELSE Sector
AlignUp(n, align) == IF n % align = 0 THEN n ELSE (n + align - (n % align)) % Word

Settled(e, offset, size) == [e EXCEPT !.set = TRUE, !.offset = offset, !.size = size, !.end = FALSE]

\* One entry more, after those already placed, which end at st.last.
PlaceLocated(st, e, opts) ==
    IF e.type = Boot /\ e.subtype = 2 /\ opts.recovery = <<>> THEN [st EXCEPT !.ok = FALSE]
    ELSE LET at == IF e.type = Ptable THEN opts.table
                   ELSE IF e.subtype = 0 THEN opts.boot[1] ELSE opts.recovery[1]
         IN  [st EXCEPT !.entries = Append(@, Settled(e, at, e.size))]

\* Mutant: an offset that is given is believed.
PlaceUnchecked(st, e) ==
    LET offset == IF e.set THEN e.offset ELSE AlignUp(st.last, AlignOf(e.type))
        size == IF e.end THEN e.size - offset ELSE e.size
    IN  IF e.end /\ size <= 0 THEN [st EXCEPT !.ok = FALSE]
        ELSE [st EXCEPT !.entries = Append(@, Settled(e, offset, size)),
                        !.last = (offset + size) % Word]

PlaceNext(st, e) ==
    LET offset == IF e.set THEN e.offset ELSE AlignUp(st.last, AlignOf(e.type))
        size == IF e.end THEN e.size - offset ELSE e.size
    IN  IF (e.set /\ offset < st.last) \/ (e.end /\ size <= 0)
        THEN [st EXCEPT !.ok = FALSE]
        ELSE [st EXCEPT !.entries = Append(@, Settled(e, offset, size)),
                        !.last = (offset + size) % Word]

PlaceEntry(st, e, opts) ==
    IF ~st.ok THEN st ELSE IF Located(e) THEN PlaceLocated(st, e, opts) ELSE PlaceNext(st, e)

Place(entries, opts) ==
    LET after[i \in 0..Len(entries)] ==
          IF i = 0 THEN [ok |-> TRUE, last |-> opts.table + TableSize, entries |-> <<>>]
          ELSE PlaceEntry(after[i - 1], entries[i], opts)
    IN after[Len(entries)]

Valid(e, opts) ==
    /\ e.size # 0
    /\ e.offset % AlignOf(e.type) = 0
    /\ e.type = App => e.size % (IF opts.secure = "v1" THEN AppAlign ELSE Sector) = 0
    /\ opts.flash # 0 => (e.offset + e.size) % Word <= opts.flash

Checked(st, opts) ==
    [ok |-> st.ok /\ \A e \in ToSet(st.entries) : Valid(e, opts), entries |-> st.entries]

\* pt_parse_csv: the entries, and whether the file is accepted.
ParseCsv(rows, opts) ==
    IF Len(rows) > MaxEntries \/ \E i \in DOMAIN rows : ~Readable(rows[i], opts)
    THEN [ok |-> FALSE, entries |-> <<>>]
    ELSE Checked(Place([i \in DOMAIN rows |-> EntryOf(rows[i], opts)], opts), opts)

\* pt_to_csv: every offset and size is spelled out.
ToCsv(entries) ==
    [i \in DOMAIN entries |->
        LET e == entries[i]
        IN  [name |-> e.name, type |-> FormatType(e.type), sub |-> FormatSubtype(e.type, e.subtype),
             off |-> <<e.offset, "">>, size |-> <<"", FormatSize(e.size)>>, flags |-> e.flags]]

-----------------------------------------------------------------------------
(* The image: slots, with a digest of those before it behind the last one.  *)

Blank == [magic |-> "blank"]
Slot(e) == [magic |-> "entry", e |-> e]
Digest(slots) == [magic |-> "md5", of |-> slots]

ToBinary(entries, opts) ==
    LET slots == [i \in DOMAIN entries |-> Slot(entries[i])]
        used == IF opts.md5 THEN Append(slots, Digest(slots)) ELSE slots
    IN  IF Len(used) > MaxEntries THEN [ok |-> FALSE, slots |-> <<>>]
        ELSE [ok |-> TRUE, slots |-> used \o [i \in 1..MaxEntries - Len(used) |-> Blank]]

\* Those of some entries or slots, in their order.
Picked(entries, those) ==
    FlattenSeq([i \in DOMAIN entries |-> IF entries[i] \in those THEN <<entries[i]>> ELSE <<>>])

\* Slots up to the first blank one; a digest must be that of the entries so far.
FromBinary(slots, verify) ==
    LET used == SubSeq(slots, 1, SelectInSeq(Append(slots, Blank), LAMBDA s : s = Blank) - 1)
        entriesIn(k) == Picked(SubSeq(used, 1, k), {s \in ToSet(used) : s.magic = "entry"})
        all == entriesIn(Len(used))
    IN  [ok |-> \A k \in DOMAIN used :
                    \/ used[k].magic = "entry"
                    \/ /\ used[k].magic = "md5"
                       /\ (verify => used[k].of = entriesIn(k - 1)),
         entries |-> [i \in DOMAIN all |-> all[i].e]]

-----------------------------------------------------------------------------
(* The commands.  A file has rows or slots; what a command does to the flash *)
(* is the addresses it touches.                                             *)

NoTable == [ok |-> FALSE, entries |-> <<>>]

\* partition-table: a CSV file becomes an image.
Image(read, opts, noVerify) ==
    IF read.ok /\ (noVerify \/ read.entries # <<>>) THEN ToBinary(read.entries, opts)
    ELSE [ok |-> FALSE, slots |-> <<>>]
Generate(rows, opts, noVerify) == Image(ParseCsv(rows, opts), opts, noVerify)

\* pt_load: what starts like an image is one; an erased one is taken for text.
PtLoad(file, opts) ==
    CASE file.kind = "csv" -> ParseCsv(file.rows, opts)
      [] file.slots[1] # Blank -> FromBinary(file.slots, opts.md5)
      [] OTHER -> NoTable

AsCsv(read) == [kind |-> "csv", rows |-> IF read.ok THEN ToCsv(read.entries) ELSE <<>>]
Decode(file, opts) == AsCsv(PtLoad(file, opts))

OfType(entries, type, sub) ==
    Picked(entries, {e \in ToSet(entries) : e.type = type /\ (sub # <<>> => e.subtype = sub[1])})

\* pt_target_select, match_all: by name, by type, or the app that is started first.
Select(entries, sel) ==
    CASE sel.by = "name" -> Picked(entries, {e \in ToSet(entries) : e.name = sel.name})
      [] sel.by = "type" -> OfType(entries, sel.type, sel.sub)
      [] sel.by = "boot" -> OfType(entries, App, <<0>>)
                              \o FlattenSeq([k \in 1..16 |-> OfType(entries, App, <<15 + k>>)])

\* check-partition: the verdict on an image of this size.
CheckPartition(entries, type, sub, size) ==
    LET matching == OfType(entries, type, sub)
        small == Picked(matching, {e \in ToSet(matching) : e.size < size})
    IN  CASE small = <<>> -> "fits"
          [] small = matching -> "error"
          [] OTHER -> "warning"

\* check-bootloader: an image that would run into the table.
CheckBootloader(table, boot, size) == table > boot /\ size <= table - boot

Touched(offset, size) == [from |-> offset - (offset % Sector), to |-> offset + AlignUp(size, Sector)]
Meet(a, b) == a.from < b.to /\ b.from < a.to
Nothing == [from |-> 0, to |-> 0]

\* write: flash is erased and written by sectors.
Write(entries, sel, size, ignoreReadonly) ==
    LET found == Select(entries, sel)
        e == Head(found)
    IN  IF found = <<>> \/ ("readonly" \in e.flags /\ ~ignoreReadonly) \/ size > e.size
        THEN [ok |-> FALSE, touched |-> Nothing]
        ELSE [ok |-> TRUE, touched |-> Touched(e.offset, size)]

\* erase: the flasher erases whole sectors only, and readonly is not looked at.
Erase(entries, sel) ==
    LET found == Select(entries, sel)
        e == Head(found)
    IN  IF found = <<>> \/ e.offset % Sector # 0 \/ e.size % Sector # 0
        THEN [ok |-> FALSE, touched |-> Nothing]
        ELSE [ok |-> TRUE, touched |-> Touched(e.offset, e.size)]

\* read, info: an address and a size.
Info(entries, sel, all) ==
    LET found == Select(entries, sel)
        shown == IF found = <<>> \/ all THEN found ELSE <<Head(found)>>
    IN  [i \in DOMAIN shown |-> <<shown[i].offset, shown[i].size>>]
===============================================================================
