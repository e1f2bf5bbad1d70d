----------------------------- MODULE MCYamlFile -----------------------------
(***************************************************************************)
(* Documents for YamlFile: small values written in every style that is in  *)
(* use (how deep a level is, whether sequences are below their key or      *)
(* beside it, whether a map starts behind its dash, brackets, quotes,      *)
(* comments, the end of the last line), and small lock files.              *)
(***************************************************************************)
EXTENDS YamlFile

Eoln(s) == IF s.comments THEN <<" ", "#", " ", "a", ":", " ", "'", "nl", "nl", " ", "#", "-", "nl">> ELSE <<"nl">>

\* Text that may stand without quotes.
PlainOk(t) ==
    /\ FromPlain(t) = Str(t)
    /\ t[1] \notin {" ", "#", "["} \cup Quotes /\ t[Len(t)] # " "
    /\ ~(t[1] = "-" /\ (Len(t) = 1 \/ t[2] = " "))
    /\ \A i \in DOMAIN t : /\ t[i] \notin {",", "]", "nl"}
                           /\ ~(t[i] = ":" /\ (i = Len(t) \/ t[i + 1] = " "))
                           /\ ~(t[i] = "#" /\ t[i - 1] = " ")

Double(t) ==
    <<"\"">> \o FlattenSeq([i \in DOMAIN t |-> CASE t[i] \in {"\"", "\\"} -> <<"\\", t[i]>>
                                                 [] t[i] = "nl" -> <<"\\", "n">>
                                                 [] OTHER -> <<t[i]>>]) \o <<"\"">>
Single(t) == <<"'">> \o FlattenSeq([i \in DOMAIN t |-> IF t[i] = "'" THEN <<"'", "'">> ELSE <<t[i]>>]) \o <<"'">>
TextOf(t, s) ==
    CASE s.quote = "plain" /\ PlainOk(t) -> t
      [] s.quote = "single" /\ "nl" \notin ToSet(t) -> Single(t)
      [] OTHER -> Double(t)
ScalarText(v, s) ==
    CASE v[1] = "null" -> <<"~">>
      [] v[1] = "bool" -> IF v[2] THEN <<"true">> ELSE <<"false">>
      [] v[1] = "string" -> TextOf(v[2], s)
IsScalar(v) == v[1] \in {"null", "bool", "string"}

\* A key is quoted where it has to be: no character a reader takes for its end.
KeyText(k, s) == IF ({":", "#"} \cup Quotes) \cap ToSet(k) = {} THEN k ELSE TextOf(k, [s EXCEPT !.quote = "double"])

RECURSIVE FlowText(_, _)
Listed(items, s) ==
    FlattenSeq([i \in DOMAIN items |-> (IF i = 1 THEN <<>> ELSE <<",", " ">>) \o FlowText(items[i], s)])
FlowText(v, s) == IF IsScalar(v) THEN ScalarText(v, s) ELSE <<"[">> \o Listed(v[2], s) \o <<"]">>
RECURSIVE NoMap(_)
NoMap(v) == v[1] # "map" /\ (v[1] = "seq" => \A i \in DOMAIN v[2] : NoMap(v[2][i]))
InFlow(v, s) == NoMap(v) /\ v[1] = "seq" /\ (s.flow \/ v[2] = <<>>)

RECURSIVE Block(_, _, _), Entry(_, _, _)
\* A value behind a colon or a dash.
After(v, i, s, keyed) ==
    CASE v = Null -> Eoln(s)
      [] v # Null /\ IsScalar(v) -> <<" ">> \o ScalarText(v, s) \o Eoln(s)
      [] InFlow(v, s) -> <<" ">> \o FlowText(v, s) \o Eoln(s)
      [] OTHER -> Eoln(s) \o Block(v, IF keyed /\ s.beside /\ v[1] = "seq" THEN i ELSE i + s.step, s)
Entry(e, i, s) == KeyText(e[1], s) \o <<":">> \o After(e[2], i, s, TRUE)
Dashed(v, i, s) ==
    IF s.compact /\ v[1] = "map"
    THEN <<" ">> \o Entry(v[2][1], i + 2, s)
         \o FlattenSeq([n \in 1..(Len(v[2]) - 1) |-> Spaces(i + 2) \o Entry(v[2][n + 1], i + 2, s)])
    ELSE After(v, i, s, FALSE)
Block(v, i, s) ==
    FlattenSeq([n \in DOMAIN v[2] |->
        Spaces(i) \o (IF v[1] = "map" THEN Entry(v[2][n], i, s) ELSE <<"-">> \o Dashed(v[2][n], i, s))])
Document(v, s) ==
    CASE IsScalar(v) -> ScalarText(v, s) \o Eoln(s)
      [] InFlow(v, s) -> FlowText(v, s) \o Eoln(s)
      [] OTHER -> Block(v, 0, s)
Unended(d) == IF d # <<>> /\ d[Len(d)] = "nl" THEN SubSeq(d, 1, Len(d) - 1) ELSE d
Written(v, s) == IF s.ended THEN Document(v, s) ELSE Unended(Document(v, s))

\* A document is read as the value it was written for.
YamlReadsBack(v, s) == YamlParse(Written(v, s)) = v

\* The lock file that is read is the one that was written, whatever order its
\* entries and names were in.
SameEntries(es, fs) == Len(es) = Len(fs) /\ ToSet(es) = ToSet(fs)
LockKept(lf, read) ==
    /\ read # <<>>
    /\ read[1].target = lf.target /\ read[1].hash = lf.hash
    /\ read[1].version = IF lf.version = None THEN <<"3.0.0">> ELSE lf.version
    /\ SameEntries(read[1].entries, lf.entries) /\ SameEntries(read[1].direct, lf.direct)
LockReadsBack(lf) ==
    /\ LockKept(lf, LockParse(LockText(lf)))
    /\ LockText([lf EXCEPT !.entries = Reverse(@), !.direct = Reverse(@)]) = LockText(lf)

\* A manifest is read as what it was written for: one dependency with what is said
\* of it in any order, or only its version.
Said(key, t) == IF t = None THEN <<>> ELSE <<<<<<key>>, Str(t)>>>>
Boolean(key, b) == IF b THEN <<<<<<key>>, Bool(TRUE)>>>> ELSE <<>>
Rules(conds) ==
    IF conds = <<>> THEN <<>>
    ELSE <<<<<<"rules">>, List([i \in DOMAIN conds |-> Map(<<<<<<"if">>, IF conds[i] = None THEN Null ELSE Str(conds[i])>>>>)])>>>>
Fields(m) ==
    Said("git", m.git) \o Said("path", m.path) \o Said("version", m.spec) \o Said("if", m.cond) \o
    Rules(m.rules) \o Boolean("pre_release", m.pre_release) \o Said("service_url", m.url) \o
    (IF m.public = -1 THEN <<>> ELSE <<<<<<"public">>, Bool(m.public = 1)>>>>)
DepValue(m, fields) == IF fields = Said("version", m.spec) /\ fields # <<>> THEN fields[1][2] ELSE Map(fields)
ManifestFor(m, fields) ==
    Map(<<<<<<"targets">>, List(<<Bool(TRUE), Str(<<"a">>)>>)>>, <<<<"dependencies">>, Map(<<<<m.name, DepValue(m, fields)>>>>)>>,
          <<<<"version">>, Str(<<"1">>)>>>>)
Meant(m) == [version |-> <<"1">>, description |-> None, targets |-> <<<<"a">>>>, deps |-> <<m>>]
ManifestReadsBack(m, s) ==
    Fields(m) # <<>> =>
        \A fields \in {Fields(m), Reverse(Fields(m))} : ManifestParse(Written(ManifestFor(m, fields), s)) = <<Meant(m)>>

YamlFileReadsBack(in) ==
    CASE in.kind = "lock" -> LockReadsBack(in.lock)
      [] in.kind = "manifest" -> ManifestReadsBack(in.dep, in.style)
      [] in.kind = "value" -> YamlReadsBack(in.value, in.style)

-----------------------------------------------------------------------------
Texts == {<<"a">>, <<"true">>, <<>>, <<"a", " ", "#", "b">>, <<"a", "#", "'">>, <<"-", "a", ":", "b">>,
          <<"'", "\"", ":", " ", "\\">>, <<"a", ",", "]", "nl">>}
Scalars == {Null, Bool(TRUE)} \cup {Str(t) : t \in Texts}
Few == {Null, Str(<<"a">>), Str(<<"#", ":", " ", "a">>)}
Keys == {<<"a">>, <<"b", "'", ":", " ", "b">>}

Flat(S) ==
    {List(l) : l \in {<<>>} \cup {<<x>> : x \in S} \cup {<<x, y>> : x \in S, y \in Few}} \cup
    {Map(m) : m \in {<<<<k, x>>>> : k \in Keys, x \in S} \cup {<<<<<<"a">>, x>>, <<<<"b">>, y>>>> : x \in S, y \in Few}}
Shallow == {List(<<Str(<<"a">>), Null>>), List(<<>>), Map(<<<<<<"a">>, Null>>, <<<<"b">>, Str(<<"a">>)>>>>),
            Map(<<<<<<"b", "'">>, List(<<Null>>)>>>>), Map(<<<<<<"b">>, Map(<<<<<<"a">>, Null>>>>)>>>>),
            List(<<List(<<Str(<<"#", ":">>)>>), Map(<<<<<<"a">>, Bool(FALSE)>>, <<<<"b">>, Null>>>>)>>)}
Values == Scalars \cup Flat(Scalars) \cup Flat(Shallow)

Styles ==
    {s \in [step : {1, 2}, beside : BOOLEAN, compact : BOOLEAN, flow : BOOLEAN,
            quote : {"plain", "single", "double"}, comments : BOOLEAN, ended : BOOLEAN] :
        (s.step = 1) = (s.compact = s.beside) /\ (s.ended \/ s.quote = "plain")}

Hash == <<"0", "\\", "\"">>
NestedDeps ==
    {<<>>} \cup
    {<<[name |-> <<"b">>, version |-> <<"*">>, require |-> r],
       [name |-> <<"#", "a">>, version |-> None, require |-> None]>> : r \in {None, <<"a">>}}
Sources(type, keys) == [k \in SourceKeys |-> IF k \in keys THEN <<"a", ":", " ", "#", type>> ELSE None]
Entries ==
    {[name |-> n, version |-> v, hash |-> h, type |-> s[1], source |-> Sources(s[1], s[2]), nested |-> d] :
        n \in {<<"a">>, <<"a", "/", "b">>}, v \in {None, <<"1">>}, h \in {None, Hash}, d \in NestedDeps,
        s \in {<<"idf", {}>>, <<"service", {"registry_url"}>>, <<"git", {"git_ref", "git_url"}>>,
               <<"local", {"path"}>>, <<"unknown", {}>>}}
Directs == {<<>>, <<<<"b">>, <<"a">>>>, <<<<"a">>, <<"a", "/", "b">>>>}
LockFiles ==
    {[version |-> v, target |-> t, hash |-> h, direct |-> d, entries |-> e] :
        v \in {None, <<"2">>}, t \in {None, <<"true">>}, h \in {None, Hash}, d \in Directs,
        e \in {<<>>} \cup {<<x>> : x \in {y \in Entries : y.version = None}}} \cup
    {[version |-> None, target |-> <<"a">>, hash |-> Hash, direct |-> <<<<"a">>>>, entries |-> <<x, y>>] :
        x \in {e \in Entries : e.name = <<"a", "/", "b">>},
        y \in {e \in Entries : e.name = <<"a">> /\ e.hash = None /\ e.version # None}}

Origins == {<<None, None, "registry">>, <<None, <<"a", "/", "b">>, "path">>, <<<<"a", ":", "b">>, None, "git">>,
            <<<<"a">>, <<"b">>, "git">>}
Dependencies ==
    {[name |-> <<"a", "/", "b">>, spec |-> v, public |-> p, pre_release |-> b, source |-> o[3], git |-> o[1],
      path |-> o[2], url |-> u, cond |-> c, rules |-> r] :
        v \in {None, <<"*">>, <<">=", "1">>}, p \in {-1, 0, 1}, b \in BOOLEAN, o \in Origins, u \in {None},
        c \in {None, <<"a", " ", "#", "b">>}, r \in {<<>>, <<<<"a", " ", "b">>, None>>}}

YamlInputs ==
    {[kind |-> "manifest", dep |-> m, style |-> s] :
        m \in Dependencies, s \in {t \in Styles : t.compact /\ t.quote # "single" /\ t.ended = t.flow /\ t.ended = t.comments}} \cup
    {[kind |-> "value", value |-> v, style |-> s] : v \in Values, s \in Styles} \cup
    {[kind |-> "lock", lock |-> lf] : lf \in LockFiles}
=============================================================================
