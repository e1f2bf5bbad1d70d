----------------------------- MODULE ConfigText -----------------------------
(***************************************************************************)
(* The entries of ice's configuration, the INI files they are read from    *)
(* and written to, and what an option gets from them: src/config.c and     *)
(* the seeding of src/options.c.                                           *)
(*                                                                         *)
(* Keys, values and lines are sequences of tokens: one token is a word of  *)
(* characters a name may have, or one other character.                     *)
(***************************************************************************)
EXTENDS Integers, SequencesExt

CONSTANT ReservedWords   \* words with an underscore in front

Scopes == <<"default", "user", "local", "project">>
Rank(scope) == SelectInSeq(Scopes, LAMBDA s : s = scope)
Entry(key, val, scope) == [key |-> key, val |-> val, scope |-> scope]

Blank == {" "}
Opens == {"#", ";"}        \* what begins a comment
Marks == Blank \cup Opens \cup {"[", "]", "\"", "\\", "=", ".", "nl"}
Names(text) == ToSet(text) \cap Marks = {}

IsReserved(key) == key # <<>> /\ key[1] \in ReservedWords

-----------------------------------------------------------------------------
\* The store: a list of entries.
OfKey(entries, key) == SelectSeq(entries, LAMBDA e : e.key = key)
At(entries, scope) == SelectSeq(entries, LAMBDA e : e.scope = scope)
Values(entries) == [i \in DOMAIN entries |-> entries[i].val]

Unset(entries, key, scope) == SelectSeq(entries, LAMBDA e : e.key # key \/ e.scope # scope)
Add(entries, key, val, scope) == Append(entries, Entry(key, val, scope))
Set(entries, key, val, scope) == Add(Unset(entries, key, scope), key, val, scope)

\* config_get: of the entries of the highest scope the last one, or none.
Better(best, e) == IF best = <<>> \/ Rank(e.scope) >= Rank(best[1].scope) THEN <<e>> ELSE best
Get(entries, key) == Values(FoldLeft(Better, <<>>, OfKey(entries, key)))

-----------------------------------------------------------------------------
\* Reading.
First(text, tokens) == SelectInSeq(text, LAMBDA t : t \in tokens)
Upto(text, tokens) == IF First(text, tokens) = 0 THEN text ELSE SubSeq(text, 1, First(text, tokens) - 1)
From(text, k) == SubSeq(text, k, Len(text))
LeftTrim(text) == From(text, SelectInSeq(Append(text, "end"), LAMBDA t : t \notin Blank))
RightTrim(text) == SubSeq(text, 1, SelectLastInSeq(text, LAMBDA t : t \notin Blank))
OnlyComment(text) == LeftTrim(text) = <<>> \/ Head(LeftTrim(text)) \in Opens

\* What is between quotes, a backslash takes the next character as it is; left is
\* what follows the closing quote, and has nothing if there is none.
Unquoted(s, t) ==
    CASE s.state = "closed" -> [s EXCEPT !.left = Append(@, t)]
      [] s.state = "escape" -> [s EXCEPT !.state = "open", !.text = Append(@, t)]
      [] t = "\\" -> [s EXCEPT !.state = "escape"]
      [] t = "\"" -> [s EXCEPT !.state = "closed"]
      [] OTHER -> [s EXCEPT !.text = Append(@, t)]
Quoted(text) == FoldLeft(Unquoted, [state |-> "open", text |-> <<>>, left |-> <<>>], text)

\* parse_section.  A subsection that is wrong leaves no section, anything else that
\* is wrong the one there was.
WithSub(name, q) ==
    IF q.state = "closed" /\ LeftTrim(q.left) = <<>> THEN name \o <<".">> \o q.text ELSE <<>>
Named(name, rest, section) ==
    IF name = <<>> \/ ~Names(name) THEN section
    ELSE IF rest = <<>> THEN name
    ELSE IF Head(rest) # "\"" THEN <<>> ELSE WithSub(name, Quoted(Tail(rest)))
Inside(inner, section) ==
    Named(Upto(inner, Blank), LeftTrim(From(inner, Len(Upto(inner, Blank)) + 1)), section)
ParseSection(line, section) ==
    LET end == First(line, {"]"})
    IN  IF end = 0 \/ ~OnlyComment(From(line, end + 1)) THEN section
        ELSE Inside(RightTrim(LeftTrim(SubSeq(line, 2, end - 1))), section)

\* parse_kv: one value, or none.
ParseValue(text) ==
    IF text = <<>> \/ Head(text) # "\"" THEN <<RightTrim(Upto(text, Opens))>>
    ELSE LET end == First(Tail(text), {"\""})
         IN  IF end # 0 /\ OnlyComment(From(text, end + 2)) THEN <<SubSeq(text, 2, end)>> ELSE <<>>
ParseKv(line, section) ==
    LET name == RightTrim(Upto(line, {"="}))
        key == section \o <<".">> \o name
    IN  IF section = <<>> \/ "=" \notin ToSet(line) \/ name = <<>> \/ ~Names(name) \/ IsReserved(key) THEN <<>>
        ELSE [i \in DOMAIN ParseValue(LeftTrim(From(line, First(line, {"="}) + 1))) |->
                  <<key, ParseValue(LeftTrim(From(line, First(line, {"="}) + 1)))[i]>>]

ParseLine(read, line) ==
    CASE OnlyComment(line) -> read
      [] Head(LeftTrim(line)) = "[" -> [read EXCEPT !.section = ParseSection(LeftTrim(line), @)]
      [] OTHER -> [read EXCEPT !.pairs = @ \o ParseKv(LeftTrim(line), read.section)]
Load(lines, scope) ==
    LET pairs == FoldLeft(ParseLine, [section |-> <<>>, pairs |-> <<>>], lines).pairs
    IN  [i \in DOMAIN pairs |-> Entry(pairs[i][1], pairs[i][2], scope)]

-----------------------------------------------------------------------------
\* Writing.  A value that cannot be written ends the command.
NeedsQuoting(v) == v = <<>> \/ {v[1], Last(v)} \cap Blank # {} \/
                   ToSet(v) \cap (Opens \cup {"\"", "\\", "nl"}) # {}
Unwritable(v) == ToSet(v) \cap {"\"", "\\", "nl"} # {}
WriteValue(v) == IF NeedsQuoting(v) THEN <<"\"">> \o v \o <<"\"">> ELSE v

LastDot(key) == SelectLastInSeq(key, LAMBDA t : t = ".")
\* Mutant: keys are grouped by what is before their first dot.
FirstDotParent(key) == Upto(key, {"."})
Parent(key) == SubSeq(key, 1, LastDot(key) - 1)
Written(entries) == SelectSeq(entries, LAMBDA e : LastDot(e.key) # 0 /\ ~IsReserved(e.key))
Distinct(s) == FoldLeft(LAMBDA seen, x : IF Contains(seen, x) THEN seen ELSE Append(seen, x), <<>>, s)
Headers(entries) == Distinct([i \in DOMAIN Written(entries) |-> Parent(Written(entries)[i].key)])

Escaped(text) == FlattenSeq([i \in DOMAIN text |-> IF text[i] \in {"\"", "\\"} THEN <<"\\", text[i]>> ELSE <<text[i]>>])
HeaderLine(h) ==
    IF "." \notin ToSet(h) THEN <<"[">> \o h \o <<"]">>
    ELSE <<"[">> \o Upto(h, {"."}) \o <<" ", "\"">> \o Escaped(From(h, First(h, {"."}) + 1)) \o <<"\"", "]">>
Children(entries, h) ==
    SelectSeq(entries, LAMBDA e : IsPrefix(Append(h, "."), e.key) /\ "." \notin ToSet(From(e.key, Len(h) + 2)))
KeyLine(e, h) == <<" ">> \o From(e.key, Len(h) + 2) \o <<" ", "=", " ">> \o WriteValue(e.val)

Section(entries, h) ==
    <<HeaderLine(h)>> \o [i \in DOMAIN Children(entries, h) |-> KeyLine(Children(entries, h)[i], h)]
RenderIni(entries) ==
    LET hs == Headers(entries)
    IN  FlattenSeq([i \in DOMAIN hs |-> (IF i = 1 THEN <<>> ELSE <<<<>>>>) \o Section(entries, hs[i])])
\* Some value of a key that is written cannot be.
CannotRender(entries) ==
    \E h \in ToSet(Headers(entries)) : \E e \in ToSet(Children(entries, h)) : Unwritable(e.val)

-----------------------------------------------------------------------------
\* config_load_profile: the profile's entries, the underscore keeps them off disk;
\* what the build directory says, where it was configured: B has at most one value
\* for each of these.
Promoted(entries, name) ==
    LET prefix == <<"project", ".", name, ".">>
        own == SelectSeq(At(entries, "local"), LAMBDA e : IsPrefix(prefix, e.key))
    IN  [i \in DOMAIN own |-> Entry(<<"_project", ".">> \o From(own[i].key, Len(prefix) + 1), own[i].val, "project")]
Runtime(name, vals) == [i \in DOMAIN vals |-> Entry(<<"_project", ".", name>>, vals[i], "project")]
BuildDir(entries) == Get(entries, <<"_project", ".", "build-dir">>)
Derived(B, dir) ==
    Runtime("target", B.target) \o
    FlattenSeq([i \in DOMAIN B.name |->
        Runtime("mapfile", <<dir \o <<"/", B.name[i], ".", "map">>>>) \o
        Runtime("elf", <<dir \o <<"/", B.name[i], ".", "elf">>>>)]) \o
    Runtime("openocd-args", B.openocd) \o Runtime("gdb-prefix", B.gdb)
WithDerived(entries, B) ==
    IF BuildDir(entries) = <<>> THEN entries ELSE entries \o Derived(B, BuildDir(entries)[1])
LoadProfile(entries, name, B) ==
    WithDerived(SelectSeq(entries, LAMBDA e : e.scope # "project") \o Promoted(entries, name), B)

\* resolve_profile_name: what the command line says, the configuration, or default.
Given(vals) == vals # <<>> /\ vals[1] # <<>>
ProfileName(entries, asked) ==
    LET kept == Get(entries, <<"project", ".", "default-profile">>)
    IN  IF asked # <<>> THEN asked[1] ELSE IF Given(kept) THEN kept[1][1] ELSE "default"

\* seed_defaults: what an option starts from.  A switch is a word or another; a list
\* has everything, whatever the scope.
Truths == {<<w>> : w \in {"true", "yes", "on", "1"}}
Lies == {<<w>> : w \in {"false", "no", "off", "0"}}
Usable(kind, v) == v # <<>> /\ (kind = "switch" => v \in Truths \cup Lies)
Seeded(kind, old, vals) ==
    IF vals = <<>> \/ ~Usable(kind, vals[1]) THEN old
    ELSE IF kind = "list" THEN Append(old, vals[1])
    ELSE IF kind = "switch" THEN <<vals[1] \in Truths>> ELSE <<vals[1]>>
FromConfig(kind, old, entries, key) ==
    IF kind = "list" THEN old \o Values(OfKey(entries, key)) ELSE Seeded(kind, old, Get(entries, key))
Seed(kind, builtin, entries, key, env) == Seeded(kind, FromConfig(kind, builtin, entries, key), env)
=============================================================================
