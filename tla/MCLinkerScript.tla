---------------------------- MODULE MCLinkerScript ----------------------------
(***************************************************************************)
(* Libraries, fragments and templates for TLC.                             *)
(***************************************************************************)
EXTENDS LinkerScript, Functions

CONSTANT MaxMaps   \* mappings added to the default one of all archives

-----------------------------------------------------------------------------
(* Linker fragments *)

Obj(name, secs) == [name |-> <<name, "c", "obj">>, sections |-> secs]
\* Of two archives foo is known, with two objects, and blob is not.
Libraries ==
    <<[name |-> "foo",
       objs |-> <<Obj("a", <<<<"text">>, <<"text", "f">>, <<"text", "f", "part">>, <<"data">>>>),
                  Obj("b", <<<<"text", "g">>, <<"data", "v">>>>)>>]>>
Sections ==
    ToSet(InputSections(Libraries)) \cup
    {[archive |-> "blob", object |-> <<o, "o">>, section |-> s] : o \in {"a", "b"},
                                                      s \in {<<"text", "f">>, <<"data">>}}

Stmt(rec) == [kind |-> "entry"] @@ rec
SectionsFrag(name, stmts) == [kind |-> "sections", name |-> name, stmts |-> stmts]
SchemeFrag(name, stmts) == [kind |-> "scheme", name |-> name, stmts |-> stmts]
MapFrag(archive, entries) ==
    [kind |-> "mapping", name |-> "m", archive |-> archive, entries |-> entries]
Path(name) == Stmt([path |-> <<name>>, plus |-> TRUE])
To(s, t) == Stmt([sections |-> s, target |-> t])
Of(archive) == <<Stmt([name |-> archive])>>
MapTo(object, symbol, scheme, flags) ==
    Stmt([object |-> object, symbol |-> symbol, scheme |-> scheme, flags |-> flags])

DefaultFrags ==
    <<SectionsFrag("text", <<Path("text")>>), SectionsFrag("data", <<Path("data")>>),
      SchemeFrag("default", <<To("text", "flash"), To("data", "dram")>>),
      SchemeFrag("iram", <<To("text", "iram")>>),
      SchemeFrag("rtc", <<To("text", "rtc"), To("data", "rtc")>>),
      MapFrag(Of(Star), <<MapTo(Star, NoSymbol, "default", <<>>)>>)>>

Scopes == {<<"foo", "*", "-">>, <<"foo", "a", "-">>, <<"foo", "b", "-">>, <<"foo", "a", "f">>,
           <<"blob", "*", "-">>, <<"blob", "a", "-">>, <<"blob", "a", "f">>}
Maps == {MapFrag(Of(s[1]), <<MapTo(s[2], s[3], scheme, <<>>)>>) :
            s \in Scopes, scheme \in {"default", "iram", "rtc"}}

Targets == {"flash", "dram", "iram", "rtc"}
Templates ==
    {[i \in 1..4 |-> [kind |-> "mapping", target |-> p[i]]] :
        p \in {q \in [1..4 -> Targets] : IsInjective(q)}}

NoConfig == [known |-> FALSE, true |-> {}]
RulesOf(maps) == Resolve(Compile(<<DefaultFrags, maps>>, NoConfig), Libraries)

\* Of the fragments with these mappings: in whatever order a template names the
\* output sections, every input section is linked where its most specific
\* mapping says.
PlacedAnyOrder(maps) ==
    LET rules == RulesOf(maps)
    IN \A t \in Templates : AnyOrderUnlessRedundant(rules, t, Sections)

MapLists == SeqOf(Maps, MaxMaps)

-----------------------------------------------------------------------------
(* Fragment files *)

Cond(branches) == [kind |-> "cond", branches |-> branches]
When(expr, body) == [expr |-> expr, body |-> body]
Conds(bodies) ==
    {Cond(<<When("A", x)>>) : x \in bodies}
    \cup {Cond(<<When("A", x), When("else", y)>>) : x, y \in bodies}
    \cup {Cond(<<When("A", x), When("B", x), When("else", y)>>) : x, y \in bodies}

Bodies == {<<Path("text")>>, <<Path("text"), Stmt([path |-> <<"data">>, plus |-> FALSE])>>}
Nested == {<<c>> : c \in Conds(Bodies)} \cup {<<Path("bss"), c>> : c \in Conds(Bodies)}
           \cup {<<c, Path("bss")>> : c \in Conds(Bodies)}

Flag(kind) == [NoFlag EXCEPT !.kind = kind]
Align(pre, post) == [Flag("ALIGN") EXCEPT !.alignment = 4, !.pre = pre, !.post = post]
FlagItem(flags) == [sections |-> "text", target |-> "iram", flags |-> flags]
FlagLists ==
    {<<>>, <<FlagItem(<<[Flag("KEEP") EXCEPT !.pre = TRUE], Align(TRUE, TRUE)>>)>>,
     <<FlagItem(<<[Flag("SORT") EXCEPT !.sort = <<"name", "alignment">>], Align(FALSE, TRUE)>>),
       FlagItem(<<[Flag("SURROUND") EXCEPT !.symbol = "x"], Flag("SORT"), Align(TRUE, FALSE)>>)>>}
Archives == {Of("foo"), Of(Star), <<Cond(<<When("A", Of("foo")), When("else", Of(Star))>>)>>}
MapEntries == {MapTo(Star, NoSymbol, "iram", f) : f \in FlagLists}
               \cup {MapTo("a", s, "iram", f) : s \in {NoSymbol, "f"}, f \in FlagLists}
MapFrags == {MapFrag(a, <<e, g>>) : a \in Archives, e, g \in MapEntries}
CondMaps == {MapFrag(a, <<Cond(<<When("A", <<e>>), When("else", <<e, e>>)>>), e>>) :
               a \in Archives, e \in MapEntries}

Fragments ==
    {<<SectionsFrag("s", b)>> : b \in Nested}
    \cup {<<SectionsFrag("s", <<c>>)>> : c \in Conds({b \in Nested : Head(b) = Path("bss")})}
    \cup {<<m, DefaultFrags[3]>> : m \in MapFrags \cup CondMaps}
    \cup {<<Cond(<<When("A", <<DefaultFrags[4], m>>), When("B", <<m>>),
                   When("else", <<DefaultFrags[4]>>)>>), DefaultFrags[3]>> : m \in CondMaps}
FragmentFiles == [frags : Fragments, style : [deep : {1, 4}, blocks : BOOLEAN]]
=============================================================================
