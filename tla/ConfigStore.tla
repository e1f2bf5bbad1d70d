----------------------------- MODULE ConfigStore -----------------------------
(***************************************************************************)
(* The two configuration files and the commands that rewrite them: "ice    *)
(* config" (src/cmd/config/config.c) and what "ice init" stages for a      *)
(* profile (src/cmd/init/init.c), one after another, with the user's       *)
(* editor between them.  Each command reads the file, changes the entries, *)
(* and writes the whole file again.                                        *)
(***************************************************************************)
LOCAL INSTANCE Integers
LOCAL INSTANCE Sequences
LOCAL INSTANCE TLC

CONSTANTS
    Changes,    \* what ice config is asked for: mode, scope, key, and value
    Profiles,   \* what ice init is asked for
    MaxChanges  \* bound on commands and edits

T == INSTANCE ConfigText WITH ReservedWords <- {"_project"}

VARIABLES
    confFile,  \* the lines of each file
    told,      \* the values the commands gave each key, by scope
    changes    \* commands and edits so far

storeVars == <<confFile, told, changes>>

ConfFiles == {"user", "local"}
Build == [target |-> <<<<"esp32">>>>, name |-> <<"app">>, openocd |-> <<>>, gdb |-> <<>>]
Pager == <<"core", ".", "pager">>
BuiltIn == <<T!Entry(Pager, <<"less">>, "default")>>

\* The keys of a profile.
Key(p, leaf) == <<"project", ".", p.name, ".">> \o leaf
Asked(p) ==
    (IF p.port = <<>> THEN <<>> ELSE Key(p, <<"serial", ".", "port">>) :> <<p.port>>) @@
    Key(p, <<"chip">>) :> <<p.chip>> @@ Key(p, <<"build-dir">>) :> <<p.dir>> @@ Key(p, <<"define">>) :> p.defines

\* A key without a section is not written, and neither is a reserved one.
Lasts(key) == T!LastDot(key) # 0 /\ ~T!IsReserved(key)
Keys == {key \in {c.key : c \in Changes} \cup UNION {DOMAIN Asked(p) : p \in Profiles} : Lasts(key)}

StoreInit ==
    /\ confFile = [s \in ConfFiles |-> <<>>]
    /\ told = [s \in ConfFiles |-> [key \in Keys |-> <<>>]]
    /\ changes = 0

Loaded(s) == T!Load(confFile[s], s)

\* config_write_file, for entries that can be written.
Write(s, entries) ==
    /\ ~T!CannotRender(T!At(entries, s))
    /\ confFile' = [confFile EXCEPT ![s] = T!RenderIni(T!At(entries, s))]

Changed(c, entries) ==
    CASE c.mode = "set" -> T!Set(entries, c.key, c.val, c.scope)
      [] c.mode = "add" -> T!Add(entries, c.key, c.val, c.scope)
      [] c.mode = "unset" -> T!Unset(entries, c.key, c.scope)

Given(c, old) ==
    CASE c.mode = "set" -> <<c.val>> [] c.mode = "add" -> Append(old, c.val) [] c.mode = "unset" -> <<>>

ChangeSetting(c) ==
    /\ c.mode = "set" => ~T!IsReserved(c.key)
    /\ c.mode = "unset" => T!OfKey(Loaded(c.scope), c.key) # <<>>
    /\ Write(c.scope, Changed(c, Loaded(c.scope)))
    /\ told' = IF Lasts(c.key) THEN [told EXCEPT ![c.scope][c.key] = Given(c, @)] ELSE told

\* stage_local_config: the profile's settings, a port only if one was given, and the
\* lists anew.
PutScalars(entries, p) ==
    T!Set(T!Set(entries, Key(p, <<"chip">>), p.chip, "local"), Key(p, <<"build-dir">>), p.dir, "local")
PutPort(entries, p) ==
    IF p.port = <<>> THEN entries ELSE T!Set(entries, Key(p, <<"serial", ".", "port">>), p.port, "local")
PutDefines(entries, p) ==
    T!Unset(entries, Key(p, <<"define">>), "local") \o
    [i \in DOMAIN p.defines |-> T!Entry(Key(p, <<"define">>), p.defines[i], "local")]
Staged(entries, p) == PutDefines(PutPort(PutScalars(entries, p), p), p)
InitProfile(p) ==
    /\ Write("local", Staged(Loaded("local"), p))
    /\ told' = [told EXCEPT !["local"] = Asked(p) @@ @]

\* The user's editor, in a file as ice wrote it: white space, quotes and comments,
\* the same settings.
Reworded(line) ==
    CASE line = <<>> -> <<";", "note">>
      [] line[1] = "[" -> <<" ">> \o line \o <<" ", "#", "[", "]">>
      [] OTHER ->
            LET eq == T!First(line, {"="})
                v == T!From(line, eq + 2)
            IN  <<" ", " ">> \o T!LeftTrim(T!RightTrim(SubSeq(line, 1, eq - 1))) \o <<"=", " ">> \o
                (IF v[1] = "\"" THEN v ELSE <<"\"">> \o v \o <<"\"">>) \o <<" ", ";", "=">>
EditorWrites(s) ==
    /\ confFile[s] # <<>> /\ confFile[s] = T!RenderIni(Loaded(s))
    /\ confFile' = [confFile EXCEPT ![s] = [i \in DOMAIN @ |-> Reworded(@[i])]]
    /\ UNCHANGED told

StoreNext ==
    /\ changes < MaxChanges
    /\ changes' = changes + 1
    /\ \/ \E c \in Changes : ChangeSetting(c)
       \/ \E p \in Profiles : InitProfile(p)
       \/ \E s \in ConfFiles : EditorWrites(s)

StoreSpec == StoreInit /\ [][StoreNext]_storeVars

-----------------------------------------------------------------------------
\* What a process reads when it starts.
Store == BuiltIn \o Loaded("user") \o Loaded("local")
Told(s, key) == IF key \in Keys THEN told[s][key] ELSE <<>>
LastOf(vals) == IF vals = <<>> THEN <<>> ELSE <<vals[Len(vals)]>>
Nearest(key, default) ==
    IF Told("local", key) # <<>> THEN LastOf(Told("local", key))
    ELSE IF Told("user", key) # <<>> THEN LastOf(Told("user", key)) ELSE default

Meant(key) == Nearest(key, T!Get(BuiltIn, key))

\* A profile is what its own settings say.
ProfileOf(p, leaf) ==
    T!Values(T!OfKey(T!LoadProfile(Store, p.name, Build), <<"_project", ".">> \o leaf))
\* What an option for a key starts from, if the environment says env.
Starts(kind, key, env) == T!Seed(kind, <<>>, Store, key, env)
DefaultProfile == <<"project", ".", "default-profile">>

\* Each command rewrites a file it has read (config.c): it keeps every setting the
\* others made, whatever their values hold and however the user has formatted them,
\* and changes its own.  The local file is nearer than the user's, which is nearer
\* than the built-in values; the environment is nearer still, but adds to a list.
SettingsKept == changes > 0 =>
    /\ \A s \in ConfFiles, key \in Keys : T!Values(T!OfKey(Loaded(s), key)) = told[s][key]
    /\ \A key \in Keys, env \in {<<>>, <<<<>>>>, <<<<"z">>>>} :
          /\ T!Get(Store, key) = Meant(key)
          /\ LET near == IF env = <<<<"z">>>> THEN env ELSE Meant(key)
             IN  Starts("text", key, env) = IF near = <<<<>>>> THEN <<>> ELSE near
          /\ key # Pager => Starts("list", key, env) =
                told["user"][key] \o told["local"][key] \o IF env = <<<<"z">>>> THEN env ELSE <<>>
    /\ \A p \in Profiles, key \in Keys :
          T!IsPrefix(Key(p, <<>>), key) =>
             ProfileOf(p, T!From(key, Len(Key(p, <<>>)) + 1)) = told["local"][key]
    /\ \A asked \in {<<>>, <<"q">>} :
          T!ProfileName(Store, asked) =
             IF asked # <<>> THEN "q" ELSE IF Meant(DefaultProfile) # <<>> THEN "p" ELSE "default"
=============================================================================
