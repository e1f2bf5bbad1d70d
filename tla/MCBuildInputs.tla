---------------------------- MODULE MCBuildInputs ----------------------------
(***************************************************************************)
(* What ice computes for a build from the files of a project: its          *)
(* configuration and the files that declare it, the linker script and the  *)
(* fragments it is made from, what its objects depend on, its partition    *)
(* table, the sizes of what was linked, the image made of it, the versions *)
(* and conditions its manifest states, and the YAML it keeps them in.  A   *)
(* behaviour is about one of them, its topic.                              *)
(***************************************************************************)
EXTENDS MenuList, Functions, TLC

CONSTANTS Topics,   \* the topics of a run
          MaxMaps   \* mappings added to the default one

VARIABLES topic,   \* what this behaviour is about
          made,    \* whether there is an input yet
          input    \* the input of a topic other than the configuration

LS == INSTANCE MCLinkerScript WITH MaxIndents <- 8

CD == INSTANCE ConfigDep WITH
          SdkPieces <- {"config/sdkconfig.h"},
          Names <- "a.c" :> <<"A", "B">> @@ "a.h" :> <<"B">> @@ "b.h" :> <<>>

KF == INSTANCE MCKconfigFile WITH MaxFrames <- 2, Env <- [VALUE |-> "5"]

PT == INSTANCE MCPartitionTable WITH
          MaxEntries <- 3, Extras <- {[type |-> 1, name |-> "log", val |-> 64]}

Memory(name, primary, secondary, length) ==
    [name |-> name, primary |-> primary, secondary |-> secondary, length |-> length]
SM == INSTANCE MCSizeMap WITH
          Chip <- <<Memory("FLASH", 8, 0, 8), Memory("DIRAM", 16, 32, 8), Memory("RTC", 24, 0, 4)>>

RQ == INSTANCE MCRequirements WITH Word <- 8

YF == INSTANCE MCYamlFile WITH Alphabet <- <<"#", "/", "a", "b">>

FI == INSTANCE MCFlashImage WITH IromAlign <- 64, MaxSegs <- 16, AppDescLen <- 48

buildVars == <<kconfVars, menuVars, topic, made, input>>

-----------------------------------------------------------------------------
About(t) == topic = t /\ made

\* elf2image.c: pads are inserted "so each flash segment's data lands on its
\* required BIN_IROM_ALIGN offset", where the chip can map it.
FlashInPages == About("images") => FI!InPagesAlways(input)

\* Every input section is linked where its most specific mapping says, in
\* whatever order a template names the output sections: the lines ldgen emits
\* for one target (gen.c) leave to the others what is theirs.
PlacedByItsRule == About("linker script") => LS!PlacedAnyOrder(input)

\* A dependency file the compiler wrapper rewrote (configdep.c) has the
\* dependencies the compiler wrote and a marker for every option they name, in
\* whatever way lines are continued and ended.
DependenciesKept ==
    About("dependencies") => CD!KeepsDependencies(input.paths, input.sep, input.end)

\* Tables that are accepted, but for those with a partition that reaches the last
\* 64K of the address space: the sums are 32 bits wide and no check notices.
SoundTable == About("partition table") /\ PT!Accepted(input) /\ PT!NoneWraps(input)

\* The partitions of an accepted table (partition_table.c) are apart from each
\* other and in the flash, so that no write or erase the commands allow touches
\* another one, and an app that fits where it was checked can be written there.
LayoutSound == SoundTable => PT!SafeLayout(input, PT!ImageSizes)

\* Every byte of an image is counted once, for the memory it is in and the archive
\* it comes from (memmap.c), however regions cut sections into pieces and symbols
\* lie across them; what a report shows adds up: of one map, of names unified, and
\* of two maps compared (memmap_ops.c, views.c), with what has not changed left out.
SizesAddUp == About("sizes") => SM!SizesRight(input)

\* A constraint (semver.c) is met by the versions its predicates ask for, a
\* prerelease only where one of the same version is named, and says so again when
\* it is formatted; versions have one order, in which a prerelease comes before
\* its release.  A condition (rules.c) holds exactly where what it says is true,
\* and is an error if any part of it is one.
RequirementsHold == About("requirements") => RQ!RequirementsMean(input)

\* An image (elf2image.c) loads every byte of the ELF file's sections at its address
\* and nothing but zeros besides, whatever is merged, cut and filled in on the way;
\* flash is where the chip can map it, but for what follows a gap too small for a
\* header or, on the ESP32, a segment that was lengthened; its checksum and digest
\* hold for those who read it (info.c), with the ELF file's digest in its place.  An
\* ELF file that is cut short is refused.  Files merged (merge.c) are all there, and
\* those that would overwrite each other are refused.
ImageLoads == About("images") => FI!ImageLoads(input)

\* What ice reads is what was written.  Kconfig files declare what their author
\* meant (kc_lex.c, kc_parse.c), whichever parts of them are files of their own,
\* however these are indented and spaced, and whether or not their last lines are
\* ended; left out are files that source another one in a last line that is not.
\* A fragment file says what its author wrote, however it is indented and wrapped:
\* lf.c ends no block where another one does not, and no else belongs to another
\* if.  What is read back from a partition table's image, and from the CSV file
\* decoded from it, is the table; an image damaged in one of its entries is refused.
\* The linker's map file (map.c) says where every input section is, and how much
\* room is filled behind it, however long the names in it are.  A YAML document
\* (yaml.c) is the value it was written for, in every style in use; so is a lock
\* file ice wrote (lockfile.c), and what a manifest says of a dependency is what
\* was meant (manifest.c).
FilesReadBack ==
    /\ About("kconfig files") => KF!EndedReadsAsMeant(input.items, input.style)
    /\ About("fragments") => LS!ReadsBack(input.frags, input.style)
    /\ SoundTable => PT!SameAgain(input)
    /\ About("sizes") => \A long \in BOOLEAN : SM!ReadsMap(input.image, [long |-> long, noise |-> long])
    /\ About("yaml files") => YF!YamlFileReadsBack(input)

-----------------------------------------------------------------------------
(* Kconfig trees *)

Is(s) == [sym |-> s, is |-> TRUE]
Not(s) == [sym |-> s, is |-> FALSE]
Always == {{}}

KNode(kind, sym, up, dep) ==
    [kind |-> kind, sym |-> sym, up |-> up, dep |-> dep, visibleIf |-> {}]

Prop(kind, node, cond) ==
    [kind |-> kind, node |-> node, cond |-> cond, target |-> NoSym,
     expr |-> Always, val |-> 0, lo |-> 0, hi |-> 0]
DefaultY(cond) == Prop("default", 1, cond)
DefaultInt(v, cond) == [Prop("default", 1, cond) EXCEPT !.val = v]
DefaultPick(m, cond) == [Prop("default", 1, cond) EXCEPT !.target = m]
Forces(kind, node, s, cond) == [Prop(kind, node, cond) EXCEPT !.target = s]
InRange(lo, hi, cond) == [Prop("range", 1, cond) EXCEPT !.lo = lo, !.hi = hi]

Decls(type, prompt, props) ==
    [type |-> type, prompt |-> prompt, props |-> props, dependsOn |-> {}, env |-> "none"]
Bool(props) == Decls("bool", Always, props)
Derived(props) == Decls("bool", {}, props)
Number(props) == Decls("int", Always, props)
Choice(props) == Decls("choice", Always, props)

\* Symbols that hang on one another, the dependent ones first; a deprecated
\* name and an inverted one.
Chain ==
    [order |-> <<"D", "I", "B", "A">>,
     node |-> <<KNode("sym", "A", 0, {}), KNode("if", NoSym, 0, {Is("A")}),
                KNode("sym", "B", 2, {}), KNode("sym", "D", 0, {}),
                KNode("sym", "I", 2, {})>>,
     of |-> "A" :> Bool(<<>>) @@ "B" :> Bool(<<DefaultY({})>>) @@
            "D" :> Derived(<<DefaultY({Is("B")})>>) @@
            "I" :> Number(<<DefaultInt(3, {Is("B")}), DefaultInt(1, {}), InRange(0, 2, {Not("B")})>>),
     renames |-> {[old |-> "OLD_A", new |-> "A", invert |-> FALSE],
                  [old |-> "NO_B", new |-> "B", invert |-> TRUE]}]

\* Select and imply, from a symbol that a variable of the environment sets, and
\* a symbol that sets another one to n.
Forcing ==
    [order |-> <<"S", "X", "W", "Z", "E">>,
     node |-> <<KNode("sym", "S", 0, {}), KNode("sym", "X", 0, {Is("Z")}),
                KNode("sym", "W", 0, {Is("Z")}), KNode("sym", "Z", 0, {}),
                KNode("sym", "E", 0, {})>>,
     of |-> "S" :> Bool(<<Forces("select", 1, "X", {Is("E")}), Forces("imply", 1, "W", {})>>) @@
            "X" :> Bool(<<>>) @@ "W" :> Bool(<<>>) @@ "Z" :> Bool(<<DefaultY({Not("S")}),
                           [Forces("set", 4, "W", {}) EXCEPT !.expr = {}]>>) @@
            "E" :> [Derived(<<>>) EXCEPT !.env = "y"],
     renames |-> {}]

\* A choice whose default hangs on another symbol, as does a derived one on
\* its winner.
Choosing ==
    [order |-> <<"C", "M2", "D", "M1", "M3", "A">>,
     node |-> <<KNode("choice", "C", 0, {}), KNode("sym", "M1", 1, {}),
                KNode("if", NoSym, 1, {}), KNode("sym", "M2", 3, {}),
                KNode("sym", "M3", 1, {}), KNode("sym", "D", 0, {}),
                KNode("sym", "A", 0, {})>>,
     of |-> "C" :> Choice(<<DefaultPick("M2", {Is("A")}), DefaultPick("M3", {})>>) @@
            "M1" :> Bool(<<>>) @@ "M2" :> Bool(<<>>) @@ "M3" :> Bool(<<>>) @@
            "D" :> Derived(<<DefaultY({Is("M2")})>>) @@ "A" :> Bool(<<>>),
     renames |-> {}]

\* Menus: comments, a symbol that hides others, a choice in a menu.
Menus ==
    [order |-> <<"A", "B", "C", "M1", "M2", "D">>,
     node |-> <<KNode("comment", NoSym, 0, {}), KNode("sym", "A", 0, {}),
                KNode("menu", NoSym, 0, {}), KNode("comment", NoSym, 3, {}),
                KNode("if", NoSym, 3, {Is("A")}), KNode("sym", "B", 5, {}),
                KNode("choice", "C", 3, {}), KNode("sym", "M1", 7, {}), KNode("sym", "M2", 7, {}),
                KNode("sym", "D", 0, {})>>,
     of |-> "A" :> Bool(<<>>) @@ "B" :> Bool(<<>>) @@ "C" :> Choice(<<>>) @@
            "M1" :> Bool(<<>>) @@ "M2" :> Bool(<<>>) @@ "D" :> Bool(<<>>),
     renames |-> {}]

\* A menu in an if, and a symbol that depends on the one before it.
Guarded ==
    [order |-> <<"A", "B", "C", "D">>,
     node |-> <<KNode("sym", "A", 0, {}), KNode("sym", "B", 1, {}), KNode("if", NoSym, 0, {Is("A")}),
                KNode("sym", "C", 3, {}), KNode("menu", NoSym, 3, {}), KNode("sym", "D", 5, {})>>,
     of |-> "A" :> Bool(<<>>) @@ "B" :> [Bool(<<>>) EXCEPT !.dependsOn = {Is("A")}] @@
            "C" :> Bool(<<>>) @@ "D" :> Bool(<<>>),
     renames |-> {}]

UserLine(s, v) == [name |-> s, val |-> v, pragma |-> FALSE]
DefaultLine(s, v) == [name |-> s, val |-> v, pragma |-> TRUE]

NoLines(k) == {{}}
Settable(k) == {s \in DOMAIN k.of : k.of[s].prompt # {} /\ k.of[s].type # "choice"}
OneLine(k) == {{UserLine(s, v)} : s \in Settable(k), v \in {N, Y}}
Some1(k) == {{}} \cup OneLine(k)
Some2(k) == {{}} \cup OneLine(k) \cup {{DefaultLine(s, Y)} : s \in {x \in DOMAIN k.of : k.of[x].type # "choice"}}
AllTrees == {Chain, Forcing, Choosing, Menus, Guarded}
GuardedTree == {Guarded}

\* The menus are for menuconfig's lists, the other trees for the tools.
ForLists == tree.order \in {Menus.order, Guarded.order}

\* The one or the other: both begin with the files as they are.
ConfigInit ==
    /\ MInit
    /\ IF ForLists THEN defaults = {} /\ sdkconfig = {} /\ policy = "sdkconfig"
       ELSE height = 4

ConfigNext ==
    \/ ForLists /\ MNext
    \/ ~ForLists /\ KNext /\ UNCHANGED menuVars

-----------------------------------------------------------------------------
Lists == {<<>>} \cup UNION {{p \in [1..n -> {"a.c", "a.h", "b.h", "config/sdkconfig.h"}] :
                                 IsInjective(p)} : n \in 1..4}
DepFiles ==
    [paths : Lists, end : {<<>>, <<"nl">>, <<"cr", "nl">>},
     sep : {<<"space">>, <<"space", "bs", "nl", "space">>, <<"space", "bs", "cr", "nl", "space">>}]

Material ==
    CASE topic = "kconfig files" -> KF!KconfigInputs
      [] topic = "linker script" -> LS!MapLists
      [] topic = "fragments" -> LS!FragmentFiles
      [] topic = "dependencies" -> DepFiles
      [] topic = "partition table" -> PT!Tables
      [] topic = "sizes" -> SM!SizeInputs
      [] topic = "requirements" -> RQ!RequirementInputs
      [] topic = "yaml files" -> YF!YamlInputs
      [] topic = "images" -> FI!ImageInputs

Idle == topic # "configuration" /\ UNCHANGED <<kconfVars, menuVars, topic>>

BuildInit ==
    /\ topic \in Topics /\ made = FALSE /\ input = <<>>
    /\ ConfigInit
    /\ topic # "configuration" =>
          tree.order = Chain.order /\ defaults = {} /\ sdkconfig = {} /\ policy = "sdkconfig"

BuildNext ==
    \/ topic = "configuration" /\ ConfigNext /\ UNCHANGED <<topic, made, input>>
    \/ Idle /\ ~made /\ made' = TRUE /\ input' \in Material

BuildSpec == BuildInit /\ [][BuildNext]_buildVars
=============================================================================
