----------------------------- MODULE ConfigDep -----------------------------
(***************************************************************************)
(* The compiler wrapper `ice idf configdep`                                *)
(* (src/cmd/idf/configdep/configdep.c): it replaces sdkconfig.h in the     *)
(* dependency file a compiler wrote by a marker file for every option the  *)
(* other dependencies name.  The text of a dependency file, after the      *)
(* colon, is a sequence of "space", "nl", "cr", the backslash "bs" and     *)
(* pieces of paths, which have none of them.                               *)
(***************************************************************************)
EXTENDS Integers, Sequences, SequencesExt

CONSTANTS
    SdkPieces,   \* the pieces that end in /sdkconfig.h
    Names        \* Names[f]: the options the text of file f names, in order

White == {"space", "nl", "cr"}

\* add_dep: nothing is no path, and the first sdkconfig.h is taken out.
AddDep(d, path) ==
    CASE path = <<>> -> d
      [] path # <<>> /\ ~d.sdkconfig /\ Last(path) \in SdkPieces -> [d EXCEPT !.sdkconfig = TRUE]
      [] OTHER -> [d EXCEPT !.deps = Append(@, path)]

\* Mutant: what a continued line begins with belongs to the path before.
OnCharKeeps(d, c) ==
    [IF c \in White /\ d.last # "bs"
     THEN [AddDep(d, d.path) EXCEPT !.path = <<>>]
     ELSE [d EXCEPT !.path = Append(@, c)]
     EXCEPT !.last = c]

\* A blank ends a path, but after a backslash, which continues the line or, as
\* far as this goes, is part of the path.
OnChar(d, c) ==
    [CASE c \in {"nl", "cr"} /\ d.last = "bs" -> [d EXCEPT !.path = <<>>]
       [] c \in White /\ d.last # "bs" -> [AddDep(d, d.path) EXCEPT !.path = <<>>]
       [] OTHER -> [d EXCEPT !.path = Append(@, c)]
     EXCEPT !.last = c]

\* What is known after some characters more.
Read(d, chars) ==
    LET after[i \in 0..Len(chars)] ==
          IF i = 0 THEN d ELSE LET before == after[i - 1] IN OnChar(before, chars[i])
    IN after[Len(chars)]

Parse(text) ==
    LET d == Read([deps |-> <<>>, sdkconfig |-> FALSE, path |-> <<>>, last |-> "start"], text)
    IN AddDep(d, d.path)

\* scan_deps: files that are not there name nothing.
Options(deps) ==
    UNION {IF Len(p) = 1 /\ Head(p) \in DOMAIN Names THEN ToSet(Names[Head(p)]) ELSE {} :
              p \in ToSet(deps)}

Marker(option) == <<"cdep", option>>

\* What is in the dependency file afterwards, written only when sdkconfig.h was.
Rewritten(text) ==
    LET d == Parse(text)
    IN [written |-> d.sdkconfig, deps |-> ToSet(d.deps),
        markers |-> {Marker(o) : o \in Options(d.deps)}]

-----------------------------------------------------------------------------
\* A compiler's text for some paths: how it separates them and ends.
Text(paths, sep, end) ==
    FlattenSeq([i \in DOMAIN paths |-> sep \o <<paths[i]>>]) \o end

\* However the compiler broke the lines, no dependency is lost or made up and
\* every option the sources name has its marker.
KeepsDependencies(paths, sep, end) ==
    LET sources == ToSet(paths) \ SdkPieces
    IN Rewritten(Text(paths, sep, end)) =
          [written |-> ToSet(paths) \cap SdkPieces # {}, deps |-> {<<p>> : p \in sources},
           markers |-> {Marker(o) : o \in UNION {ToSet(Names[p]) : p \in sources \cap DOMAIN Names}}]
=============================================================================
