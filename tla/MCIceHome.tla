----------------------------- MODULE MCIceHome -----------------------------
(***************************************************************************)
(* Instances of the three stores of ~/.ice, of a project's build directory *)
(* and of the configuration files for TLC.  They share no file, so a       *)
(* behaviour is about one of them: the others stay as they begin.          *)
(***************************************************************************)
EXTENDS ToolStore, RepoStore, SelfUpdate, ProjectDir, ConfigStore, TLC

CONSTANTS
    Topics,   \* the stores to look at
    u1, u2, master, release, tag, d1, e1, e2, s1, s2

TwoTools == <<"gcc", "gdb">>
Users == {u1, u2}
Branches == {master, release}
Tags == {tag}
Dests == {d1}
Exes == {e1, e2}
Settings == {s1, s2}

\* A command may fail or be interrupted at every step.
Anywhere == Steps \ {"idle"}

\* Keys with a section, a subsection and a dot in it, one that is kept from the
\* files and one without a section; values that need quotes and one that has none.
Chip(p) == <<"project", ".", p, ".", "chip">>
Define == <<"project", ".", "p", ".", "define">>
Change(mode, scope, key, val) == [mode |-> mode, scope |-> scope, key |-> key, val |-> val]
SettingChanges ==
    {Change("set", s, Pager, v) : s \in ConfFiles, v \in {<<>>, <<"x">>, <<"x", " ", "#", "y">>, <<"x", "=", "y", " ">>, <<"x", "\"">>}} \cup
    {Change(m, "local", Define, v) : m \in {"add", "set"}, v \in {<<"x", "=", "y">>, <<" ", "[", "y", "]">>}} \cup
    {Change("set", "user", Chip("p"), <<"x">>), Change("set", "local", Chip("\""), <<"x">>)} \cup
    {Change("set", s, DefaultProfile, <<"p">>) : s \in ConfFiles} \cup
    {Change(m, "local", key, <<"x">>) : m \in {"add", "set"}, key \in {<<"_project", ".", "chip">>, <<"chip">>}} \cup
    {Change("unset", s, key, <<>>) : s \in ConfFiles, key \in {Pager, Define, Chip("p")}}
SettingProfiles ==
    {[name |-> "p", chip |-> <<"x">>, dir |-> <<"b", "/", "p">>, port |-> port, defines |-> d] :
        port \in {<<>>, <<"/", "y">>}, d \in {<<>>, <<<<"x", "=">>, <<"y", " ", "y">>>>}}

VARIABLE topic

homeVars == <<topic, toolVars, repoVars, updateVars, vars, storeVars>>

\* What stays as it begins begins in one way.
HomeInit ==
    /\ topic \in Topics
    /\ ToolInit /\ RepoInit /\ UpdateInit /\ Init /\ StoreInit
    /\ topic = "repo" \/ reach = "group"
    /\ topic = "update" \/ \A p \in Updater : from[p] = e1

HomeNext ==
    /\ \/ topic = "tools" /\ ToolNext /\ UNCHANGED <<repoVars, updateVars, vars, storeVars>>
       \/ topic = "repo" /\ RepoNext /\ UNCHANGED <<toolVars, updateVars, vars, storeVars>>
       \/ topic = "update" /\ UpdateNext /\ UNCHANGED <<toolVars, repoVars, vars, storeVars>>
       \/ topic = "project" /\ Next /\ UNCHANGED <<toolVars, repoVars, updateVars, storeVars>>
       \/ topic = "settings" /\ StoreNext /\ UNCHANGED <<toolVars, repoVars, updateVars, vars>>
    /\ UNCHANGED topic

HomeSpec == HomeInit /\ [][HomeNext]_homeVars

UserSymmetry == Permutations(Users) \cup Permutations(Settings)
=============================================================================
