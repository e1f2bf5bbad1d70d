-------------------------- MODULE MCPartitionTable --------------------------
(***************************************************************************)
(* Partition tables a user may write, and what must be so of every one     *)
(* that is accepted.                                                       *)
(***************************************************************************)
EXTENDS PartitionTable

Row(name, type, sub, off, size) ==
    [name |-> name, type |-> type, sub |-> sub, off |-> off, size |-> size, flags |-> {}]

Plain(n, suffix) == <<"", <<n, suffix>>>>
UpTo(n) == <<"-", <<n, "">>>>
At(n) == <<n, "">>

Kinds == {<<"app", "factory">>, <<"app", "ota_3">>, <<"app", "51">>, <<"data", "nvs">>, <<"data", "">>,
          <<"data", "log">>, <<"64", "7">>, <<"bootloader", "primary">>, <<"bootloader", "recovery">>,
          <<"bootloader", "ota">>, <<"bootloader", "">>, <<"partition_table", "primary">>,
          <<"partition_table", "ota">>}

\* 0x9000, 0x9200, 0x10000 and an address in the last 64K.
Offsets == {<<>>, At(72), At(73), At(128), At(Word - AppAlign)}
Sizes == {<<>>, Plain(0, ""), Plain(1, ""), Plain(4, "K"), Plain(64, "K"), Plain(2, "M"),
          Plain(4095, "M"), UpTo(130)}

Wide == {Row("a", k[1], k[2], o, z) : k \in Kinds, o \in Offsets, z \in Sizes}
Narrow == {Row("b", "app", "ota_3", <<>>, Plain(64, "K")), Row("c", "app", "factory", At(256), Plain(4, "K")),
           [Row("d", "data", "nvs", <<>>, Plain(1, "")) EXCEPT !.flags = {"readonly", "unknown"}],
           Row("e", "data", "log", At(80), UpTo(130)), Row("f", "bootloader", "primary", <<>>, <<>>),
           Row("g", "bootloader", "recovery", At(72), <<>>), Row("h", "data", "", <<>>, Plain(4095, "M"))}

Opts == [table |-> 64, boot |-> <<8>>, recovery |-> <<96>>, md5 |-> TRUE, secure |-> "none", flash |-> 2048]
AllOpts == {Opts, [Opts EXCEPT !.flash = 0, !.boot = <<>>, !.md5 = FALSE], [Opts EXCEPT !.secure = "v1"],
            [Opts EXCEPT !.recovery = <<>>, !.boot = <<128>>]}

Tables ==
    [rows : {<<r>> : r \in Wide} \cup {<<r, n>> : r \in Wide, n \in Narrow}, opts : AllOpts] \cup
    [rows : {<<x, y, z>> : x \in Narrow, y \in Narrow, z \in Narrow}, opts : {Opts, [Opts EXCEPT !.md5 = FALSE]}]

-----------------------------------------------------------------------------
Entries(t) == ParseCsv(t.rows, t.opts).entries
Accepted(t) == (\A x \in Extras : Registers(x)) /\ ParseCsv(t.rows, t.opts).ok

\* Tables all of whose partitions end before the last 64K of the address space.
NoneWraps(t) ==
    \A i \in DOMAIN Entries(t) : Entries(t)[i].offset + Entries(t)[i].size <= Word - AppAlign

\* The partitions whose place is not given on the command line are apart from
\* each other and behind the table, to the sector, and in the flash.
LaidOut(t) ==
    LET es == Entries(t)
        own == {i \in DOMAIN es : ~Located(es[i])}
    IN  \A i \in own :
            /\ es[i].offset >= t.opts.table + TableSize
            /\ t.opts.flash # 0 => es[i].offset + es[i].size <= t.opts.flash
            /\ \A j \in own \ {i} : ~Meet(Touched(es[i].offset, es[i].size),
                                        Touched(es[j].offset, es[j].size))

\* However a partition is named to the commands, and whatever image they let a
\* user write, nothing of another one is lost.
Selectors(es) == {[by |-> "name", name |-> e.name] : e \in ToSet(es)} \cup {[by |-> "boot"]} \cup
                 {[by |-> "type", type |-> e.type, sub |-> <<e.subtype>>] : e \in ToSet(es)}

WritesStayInside(t, sizes) ==
    LET es == Entries(t)
        apart(e, done) == \A other \in ToSet(es) \ {e} :
            Located(e) \/ Located(other) \/ ~Meet(done.touched, Touched(other.offset, other.size))
    IN  \A sel \in Selectors(es) : Info(es, sel, FALSE) # <<>> =>
            LET e == Head(Select(es, sel))
            IN  /\ Info(es, sel, FALSE) = <<<<e.offset, e.size>>>>
                /\ apart(e, Erase(es, sel))
                /\ \A size \in sizes : apart(e, Write(es, sel, size, TRUE))

\* An app that fits where it was checked may be written to every partition of
\* its type, and a bootloader to the partition it is for.
CheckedFits(t, sizes) ==
    LET es == Entries(t)
        allowed(type, sub, size) ==
            \A e \in ToSet(OfType(es, type, sub)) :
                Write(<<e>>, [by |-> "type", type |-> type, sub |-> sub], size, TRUE).ok
    IN  \A size \in sizes :
            /\ CheckPartition(es, App, <<>>, size) = "fits" => allowed(App, <<>>, size)
            /\ t.opts.boot # <<>> /\ CheckBootloader(t.opts.table, t.opts.boot[1], size)
                  => allowed(Boot, <<0>>, size)

SafeLayout(t, sizes) == LaidOut(t) /\ WritesStayInside(t, sizes) /\ CheckedFits(t, sizes)

\* Images as long as what there is, and a little longer.
ImageSizes == {0, 1, 8, 9, 56, 57, 128, 129, 4096, Word - 1}

\* The image has the entries of the file, the CSV decoded from it makes the same
\* image again, and an image with one entry changed is refused.
Binary(slots) == [kind |-> "binary", slots |-> slots]
ReadsAs(slots, es, opts) == PtLoad(Binary(slots), opts) = [ok |-> TRUE, entries |-> es]
FindsDamage(slots, es, opts) ==
    LET damaged(i) == [slots EXCEPT ![i] = Slot([es[i] EXCEPT !.size = @ + 1])]
    IN  opts.md5 => \A i \in DOMAIN es : ~PtLoad(Binary(damaged(i)), opts).ok
IsImageOf(slots, es, opts) ==
    /\ ReadsAs(slots, es, opts) /\ FindsDamage(slots, es, opts)
    /\ PtLoad(Decode(Binary(slots), opts), opts) = [ok |-> TRUE, entries |-> es]

SameAgain(t) ==
    LET image == Generate(t.rows, t.opts, TRUE)
    IN  image.ok => IsImageOf(image.slots, Entries(t), t.opts)
=============================================================================
