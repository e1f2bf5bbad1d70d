------------------------------ MODULE YamlFile ------------------------------
(***************************************************************************)
(* YAML as ice reads it (yaml.c), and the two files it keeps in it: the    *)
(* dependencies.lock it writes and reads (lockfile.c), and the manifest of *)
(* a component (manifest.c).                                               *)
(*                                                                         *)
(* A document is a sequence of tokens: a space, a sign, the end of a line, *)
(* "nl", or a word, for a run of other characters.  Tabs, carriage returns *)
(* and the escapes other than \n, \" and \\ are left out.  A value is a    *)
(* tuple that starts with its type; what has been read is a pair of a      *)
(* value and the position behind it, which is 0 where reading failed.      *)
(***************************************************************************)
EXTENDS Integers, Sequences, SequencesExt

CONSTANT Alphabet   \* the words of names, in the order of their bytes

Null == <<"null">>
Bool(b) == <<"bool", b>>
Str(t) == <<"string", t>>
List(items) == <<"seq", items>>
Map(members) == <<"map", members>>
Refused == <<"refused">>
Failed == <<Null, 0>>

At(d, p) == IF p <= Len(d) THEN d[p] ELSE "end"
Ended == {"nl", "end"}
Quotes == {"\"", "'"}

Until(d, p, S) == CHOOSE q \in p..(Len(d) + 2) : At(d, q) \in S /\ \A r \in p..(q - 1) : At(d, r) \notin S
Past(d, p, S) == CHOOSE q \in p..(Len(d) + 2) : At(d, q) \notin S /\ \A r \in p..(q - 1) : At(d, r) \in S
SkipWs(d, p) == Past(d, p, {" "})
Eol(d, p) == Until(d, p, Ended)
Indent(d, p) == SkipWs(d, p) - p
Col(d, p) == p - 1 - Max({0} \cup {q \in 1..(p - 1) : d[q] = "nl"})

RECURSIVE SkipBlank(_, _)
Blank(d, p, q) ==
    CASE At(d, q) = "#" -> SkipBlank(d, Eol(d, q) + 1)
      [] At(d, q) = "nl" -> SkipBlank(d, q + 1)
      [] At(d, q) = "end" -> q
      [] OTHER -> p
SkipBlank(d, p) == Blank(d, p, SkipWs(d, p))

-----------------------------------------------------------------------------
\* Scalars, and sequences in brackets.
Escaped(t) ==
    CASE t \in {"\"", "\\"} -> <<t>>
      [] t = "n" -> <<"nl">>
      [] OTHER -> <<"\\", t>>

RECURSIVE DQuoted(_, _, _)
DQuoted(d, p, acc) ==
    CASE At(d, p) = "\"" -> <<acc, p + 1>>
      [] At(d, p) = "\\" /\ At(d, p + 1) # "end" -> DQuoted(d, p + 2, acc \o Escaped(At(d, p + 1)))
      [] At(d, p) \in Ended \/ (At(d, p) = "\\" /\ At(d, p + 1) = "end") -> Failed
      [] OTHER -> DQuoted(d, p + 1, Append(acc, At(d, p)))

RECURSIVE SQuoted(_, _, _)
SQuoted(d, p, acc) ==
    CASE At(d, p) = "'" /\ At(d, p + 1) = "'" -> SQuoted(d, p + 2, Append(acc, "'"))
      [] At(d, p) = "'" /\ At(d, p + 1) # "'" -> <<acc, p + 1>>
      [] At(d, p) \in Ended -> Failed
      [] OTHER -> SQuoted(d, p + 1, Append(acc, At(d, p)))

Quoted(d, p) == IF At(d, p) = "\"" THEN DQuoted(d, p + 1, <<>>) ELSE SQuoted(d, p + 1, <<>>)

Trimmed(t) == SubSeq(t, 1, Max({0} \cup {i \in 1..Len(t) : t[i] # " "}))

\* The end of a plain scalar; S ends one inside brackets.
Stops(d, p, q, S) == At(d, q) \in Ended \cup S \/ (At(d, q) = "#" /\ q > p /\ At(d, q - 1) = " ")
PlainEnd(d, p, S) == CHOOSE q \in p..(Len(d) + 1) : Stops(d, p, q, S) /\ \A r \in p..(q - 1) : ~Stops(d, p, r, S)

FromPlain(t) ==
    CASE t \in {<<"true">>, <<"True">>, <<"TRUE">>} -> Bool(TRUE)
      [] t \in {<<"false">>, <<"False">>, <<"FALSE">>} -> Bool(FALSE)
      [] t \in {<<>>, <<"~">>, <<"null">>, <<"Null">>, <<"NULL">>} -> Null
      [] OTHER -> Str(t)

StrRead(r) == IF r[2] = 0 THEN Failed ELSE <<Str(r[1]), r[2]>>
PlainTo(d, p, q) == <<FromPlain(Trimmed(SubSeq(d, p, q - 1))), q>>

Spacing == {" ", "nl"}
RECURSIVE FlowSeq(_, _, _)
Scalar(d, p, S) ==
    CASE At(d, p) \in Quotes -> StrRead(Quoted(d, p))
      [] At(d, p) = "[" -> FlowSeq(d, Past(d, p + 1, Spacing), <<>>)
      [] OTHER -> PlainTo(d, p, PlainEnd(d, p, S))
FlowThen(d, p, items) ==
    CASE At(d, p) = "," -> FlowSeq(d, Past(d, p + 1, Spacing), items)
      [] At(d, p) = "]" -> <<List(items), p + 1>>
      [] OTHER -> Failed
FlowItem(d, r, items) ==
    IF r[2] = 0 THEN Failed ELSE FlowThen(d, Past(d, r[2], Spacing), Append(items, r[1]))
FlowSeq(d, p, items) ==
    CASE At(d, p) = "]" -> <<List(items), p + 1>>
      [] At(d, p) = "end" -> Failed
      [] OTHER -> FlowItem(d, Scalar(d, p, {",", "]"}), items)

\* Behind a value its line may have a comment, and nothing else.
LineEnds(d, v, q) == CASE At(d, q) = "nl" -> <<v, q + 1>> [] At(d, q) = "end" -> <<v, q>> [] OTHER -> Failed
AfterWs(d, v, q) == LineEnds(d, v, IF At(d, q) = "#" THEN Eol(d, q) ELSE q)
EndOfLine(d, r) == IF r[2] = 0 THEN Failed ELSE AfterWs(d, r[1], SkipWs(d, r[2]))
Inline(d, p) == EndOfLine(d, Scalar(d, p, {}))

-----------------------------------------------------------------------------
\* Maps and sequences, by their indentation.
Parts(d, p) == At(d, p) \in Ended \cup {" "}
IsDash(d, p) == At(d, p) = "-" /\ Parts(d, p + 1)
IsColon(d, p) == At(d, p) = ":" /\ Parts(d, p + 1)

\* Whether a key follows on the line, inside a quote of kind q or outside any.
RECURSIVE KeyFrom(_, _, _)
KeyFrom(d, p, q) ==
    CASE At(d, p) \in Ended \/ (q = "" /\ At(d, p) = "#") -> FALSE
      [] q = "" /\ IsColon(d, p) -> TRUE
      [] q = "" /\ At(d, p) \in Quotes -> KeyFrom(d, p + 1, At(d, p))
      [] q # "" /\ At(d, p) = q -> KeyFrom(d, p + 1, "")
      [] q = "\"" /\ At(d, p) = "\\" -> KeyFrom(d, p + 2, q)
      [] OTHER -> KeyFrom(d, p + 1, q)
IsKey(d, p) == KeyFrom(d, p, "")

KeyEnds(d, q) == At(d, q) \in Ended \cup {"#"} \/ IsColon(d, q)
KeyTo(d, p) == CHOOSE q \in p..(Len(d) + 1) : KeyEnds(d, q) /\ \A r \in p..(q - 1) : ~KeyEnds(d, r)
PlainKey(t, q) == IF t = <<>> THEN Failed ELSE <<t, q>>
KeyToken(d, p) ==
    IF At(d, p) \in Quotes THEN Quoted(d, p) ELSE PlainKey(Trimmed(SubSeq(d, p, KeyTo(d, p) - 1)), KeyTo(d, p))

RECURSIVE Node(_, _)
\* What is on the lines below a key, or a dash, at an indentation.  A sequence below
\* a key may be no deeper than the key.
Below(d, p, indent, keyed) ==
    IF \/ p > Len(d) \/ Indent(d, p) < indent
       \/ Indent(d, p) = indent /\ ~(keyed /\ IsDash(d, p + indent))
    THEN <<Null, p>>
    ELSE Node(d, p)
Value(d, p, indent, keyed) ==
    IF At(d, p) \in Ended \cup {"#"} THEN Below(d, SkipBlank(d, Eol(d, p) + 1), indent, keyed) ELSE Inline(d, p)
Member(k, r) == IF r[2] = 0 THEN Failed ELSE <<<<k, r[1]>>, r[2]>>
KeyThen(d, k, indent) ==
    IF k[2] = 0 \/ At(d, k[2]) # ":" THEN Failed
    ELSE Member(k[1], Value(d, SkipWs(d, k[2] + 1), indent, TRUE))
MapEntry(d, p, indent) == KeyThen(d, KeyToken(d, p), indent)

RECURSIVE MapLine(_, _, _, _)
MapMore(d, r, indent, members) ==
    IF r[2] = 0 THEN Failed ELSE MapLine(d, SkipBlank(d, r[2]), indent, Append(members, r[1]))
MapLine(d, p, indent, members) ==
    CASE p > Len(d) \/ Indent(d, p) < indent -> <<Map(members), p>>
      [] p <= Len(d) /\ Indent(d, p) > indent -> Failed
      [] p <= Len(d) /\ Indent(d, p) = indent /\ ~IsKey(d, p + indent) -> <<Map(members), p + indent>>
      [] OTHER -> MapMore(d, MapEntry(d, p + indent, indent), indent, members)

\* An item may be the first key of a map whose other keys are below it.
Compact(d, p, col) == MapMore(d, MapEntry(d, p, col), col, <<>>)
SeqItem(d, p, indent) == IF IsKey(d, p) THEN Compact(d, p, Col(d, p)) ELSE Value(d, p, indent, FALSE)

RECURSIVE SeqLine(_, _, _, _)
SeqMore(d, r, indent, items) ==
    IF r[2] = 0 THEN Failed ELSE SeqLine(d, SkipBlank(d, r[2]), indent, Append(items, r[1]))
SeqLine(d, p, indent, items) ==
    CASE p > Len(d) \/ Indent(d, p) < indent -> <<List(items), p>>
      [] p <= Len(d) /\ Indent(d, p) > indent -> Failed
      [] p <= Len(d) /\ Indent(d, p) = indent /\ ~IsDash(d, p + indent) -> <<List(items), p>>
      [] OTHER -> SeqMore(d, SeqItem(d, SkipWs(d, p + indent + 1), indent), indent, items)

NodeAt(d, p, q) ==
    CASE IsDash(d, q) -> SeqLine(d, p, q - p, <<>>)
      [] ~IsDash(d, q) /\ At(d, q) # "[" /\ IsKey(d, q) -> MapLine(d, p, q - p, <<>>)
      [] OTHER -> Inline(d, q)
Node(d, p) == NodeAt(d, p, SkipWs(d, p))

Root(d, r) == IF r[2] = 0 \/ SkipBlank(d, r[2]) <= Len(d) THEN Refused ELSE r[1]
ParseFrom(d, p) == IF p > Len(d) THEN Null ELSE Root(d, Node(d, p))
YamlParse(d) == ParseFrom(d, SkipBlank(d, 1))

-----------------------------------------------------------------------------
\* What the readers of a file take from a map.
None == <<"none">>
Keyed(m, k) == IF m[1] = "map" THEN SelectSeq(m[2], LAMBDA e : e[1] = k) ELSE <<>>
Get(m, k) == IF Keyed(m, k) = <<>> THEN Null ELSE Keyed(m, k)[1][2]
StrOf(v) == IF v[1] = "string" THEN v[2] ELSE None
GetStr(m, k) == StrOf(Get(m, <<k>>))
Items(v) == IF v[1] = "seq" THEN v[2] ELSE <<>>
Members(v) == IF v[1] = "map" THEN v[2] ELSE <<>>
Strings(v) == [i \in DOMAIN SelectSeq(Items(v), LAMBDA x : x[1] = "string") |->
                  SelectSeq(Items(v), LAMBDA x : x[1] = "string")[i][2]]
AllMaps(vs) == \A i \in DOMAIN vs : vs[i][1] = "map"

\* dependencies.lock
SrcTypes == {"idf", "service", "git", "local"}
SrcType(t) == CASE t \in {<<s>> : s \in SrcTypes} -> t[1] [] t = <<"path">> -> "local" [] OTHER -> "unknown"
SourceKeys == {"git_ref", "git_url", "path", "registry_url"}

Nested(v) == [name |-> GetStr(v, "name"), version |-> GetStr(v, "version"), require |-> GetStr(v, "require")]
LockEntry(name, v) ==
    [name |-> name, version |-> GetStr(v, "version"), hash |-> GetStr(v, "component_hash"),
     type |-> SrcType(GetStr(Get(v, <<"source">>), "type")),
     source |-> [k \in SourceKeys |-> GetStr(Get(v, <<"source">>), k)],
     nested |-> [i \in DOMAIN Items(Get(v, <<"dependencies">>)) |-> Nested(Items(Get(v, <<"dependencies">>))[i])]]

LockOf(root) ==
    [version |-> GetStr(root, "version"), target |-> GetStr(root, "target"),
     hash |-> GetStr(root, "manifest_hash"), direct |-> Strings(Get(root, <<"direct_dependencies">>)),
     entries |-> [i \in DOMAIN Members(Get(root, <<"dependencies">>)) |->
                     LockEntry(Members(Get(root, <<"dependencies">>))[i][1],
                               Members(Get(root, <<"dependencies">>))[i][2])]]
LockValid(root) ==
    /\ root[1] = "map"
    /\ \A i \in DOMAIN Members(Get(root, <<"dependencies">>)) :
          LET v == Members(Get(root, <<"dependencies">>))[i][2]
          IN  v[1] = "map" /\ AllMaps(Items(Get(v, <<"dependencies">>)))
\* Nothing is read from a file that is not of this shape.
LockRead(root) == IF LockValid(root) THEN <<LockOf(root)>> ELSE <<>>
LockParse(d) == LockRead(YamlParse(d))

\* Writing it.
Spaces(n) == [i \in 1..n |-> " "]
Quoting(t) == IF t \in {"\"", "\\"} THEN <<"\\", t>> ELSE <<t>>
QStr(t) == <<"\"">> \o FlattenSeq([i \in DOMAIN t |-> Quoting(t[i])]) \o <<"\"">>
KeyLine(indent, key) == Spaces(indent) \o key \o <<":", "nl">>
KV(indent, key, val) ==
    IF val = None THEN <<>> ELSE Spaces(indent) \o <<key, ":", " ">> \o QStr(val) \o <<"nl">>

EmitNested(n) ==
    Spaces(4) \o <<"-", " ", "name", ":", " ">> \o QStr(IF n.name = None THEN <<>> ELSE n.name) \o <<"nl">>
    \o KV(6, "require", n.require) \o KV(6, "version", n.version)
EmitEntry(e) ==
    KeyLine(2, e.name) \o KV(4, "component_hash", e.hash)
    \o (IF e.nested = <<>> THEN <<>>
        ELSE KeyLine(4, <<"dependencies">>) \o FlattenSeq([i \in DOMAIN e.nested |-> EmitNested(e.nested[i])]))
    \o KeyLine(4, <<"source">>)
    \o KV(6, "git_ref", e.source["git_ref"]) \o KV(6, "git_url", e.source["git_url"])
    \o KV(6, "path", e.source["path"]) \o KV(6, "registry_url", e.source["registry_url"])
    \o KV(6, "type", <<e.type>>) \o KV(4, "version", e.version)

\* strcmp() of names, by where their words are in Alphabet.
Rank(t) == CHOOSE n \in DOMAIN Alphabet : Alphabet[n] = t
Precedes(s, t) ==
    \E n \in 0..Len(s) :
        /\ n < Len(t) /\ SubSeq(s, 1, n) = SubSeq(t, 1, n)
        /\ n = Len(s) \/ Rank(s[n + 1]) < Rank(t[n + 1])

SortedEntries(es) == SortSeq(es, LAMBDA e, f : Precedes(e.name, f.name))
SortedNames(ns) == SortSeq(ns, Precedes)
EmitEntries(es) == KeyLine(0, <<"dependencies">>) \o FlattenSeq([i \in DOMAIN es |-> EmitEntry(es[i])])
EmitDirect(ns) ==
    KeyLine(0, <<"direct_dependencies">>)
    \o FlattenSeq([i \in DOMAIN ns |-> <<"-", " ">> \o QStr(ns[i]) \o <<"nl">>])
LockText(lf) ==
    (IF lf.entries = <<>> THEN <<>> ELSE EmitEntries(SortedEntries(lf.entries)))
    \o (IF lf.direct = <<>> THEN <<>> ELSE EmitDirect(SortedNames(lf.direct)))
    \o KV(0, "manifest_hash", lf.hash) \o KV(0, "target", lf.target)
    \o KV(0, "version", IF lf.version = None THEN <<"3.0.0">> ELSE lf.version)

\* The manifest of a component.
Flag(m, k) == Get(m, <<k>>) = Bool(TRUE)
Given(m, k) == Keyed(m, <<k>>) # <<>>
DepOf(name, m) ==
    [name |-> name, spec |-> GetStr(m, "version"),
     public |-> IF Given(m, "public") THEN IF Flag(m, "public") THEN 1 ELSE 0 ELSE -1,
     pre_release |-> Flag(m, "pre_release"),
     source |-> IF GetStr(m, "git") # None THEN "git" ELSE IF GetStr(m, "path") # None THEN "path" ELSE "registry",
     git |-> GetStr(m, "git"), path |-> GetStr(m, "path"), url |-> GetStr(m, "service_url"),
     cond |-> GetStr(m, "if"),
     rules |-> [i \in DOMAIN Items(Get(m, <<"rules">>)) |-> GetStr(Items(Get(m, <<"rules">>))[i], "if")]]
Dep(name, v) == IF v[1] = "string" THEN DepOf(name, Map(<<<<<<"version">>, v>>>>)) ELSE DepOf(name, v)

ManifestOf(root, deps) ==
    [version |-> GetStr(root, "version"), description |-> GetStr(root, "description"),
     targets |-> Strings(Get(root, <<"targets">>)),
     deps |-> [i \in DOMAIN deps |-> Dep(deps[i][1], deps[i][2])]]
ManifestRead(root) ==
    IF root[1] # "map" \/ \E i \in DOMAIN Members(Get(root, <<"dependencies">>)) :
                             Members(Get(root, <<"dependencies">>))[i][2][1] \notin {"string", "map"}
    THEN <<>>
    ELSE <<ManifestOf(root, Members(Get(root, <<"dependencies">>)))>>
ManifestParse(d) == ManifestRead(YamlParse(d))
=============================================================================
