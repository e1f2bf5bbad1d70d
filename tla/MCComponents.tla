------------------------ MODULE MCComponents ------------------------------
(***************************************************************************)
(* Instances of the component manager for TLC: projects and what two       *)
(* registries answer; of the solver alone, the calls any client could      *)
(* make; and a project's disk, with a component that has a hash, one       *)
(* without and one from git.  They share nothing, so a behaviour is about  *)
(* one of them, and the others stay as they begin.                         *)
(***************************************************************************)
EXTENDS ComponentResolve, ComponentStore, TLC

CONSTANTS idf, qa, qb, qc, home, mirror

Pkgs == {idf, qa, qb, qc}
Urls == {home, mirror}

From(p, S, u) == [pkg |-> p, spec |-> S, url |-> u]
On(p, S) == From(p, S, NoUrl)
Rel(v, ds) == [ver |-> v, deps |-> ds]

\* The project requires qa, and with it an idf, a qb, or either from a mirror;
\* qa requires qb, its older release perhaps qc, which nothing else does, or a
\* qb of the mirror; qb and qc may require qa again; and releases that do not
\* parse are among them.
AnyProject ==
    { [roots |-> rs, idf |-> v,
       index |-> (home :> (qa :> <<Rel(1, a1), Rel(2, a2)>>
                        @@ qb :> <<Rel(2, b2), Rel(1, <<>>)>>
                        @@ qc :> <<Rel(1, c1), Rel(BadVersion, <<>>)>>)
               @@ mirror :> (qa :> <<Rel(2, <<On(qb, {1, 2})>>)>>
                          @@ qb :> <<Rel(1, b2)>>))] :
        rs \in { <<On(qa, {1, 2})>>, <<On(qa, {2}), On(idf, {2})>>,
                 <<On(qb, {1}), On(qa, {1, 2})>>,
                 <<From(qb, {1, 2}, mirror), On(qa, {1, 2})>>,
                 <<On(qa, {1, 2}), From(qa, {2}, mirror), On(qb, {1, 2})>>,
                 <<From(qa, {1, 2}, mirror), On(qc, BadSpec)>>, <<>> },
        v \in {NoVer, 2},
        a1 \in { <<>>, <<On(qc, {1})>>, <<On(qb, {2}), On(qc, {1})>> },
        a2 \in { <<On(qb, {1})>>, <<From(qb, {1, 2}, mirror)>>,
                 <<On(qb, {2}), On(idf, {2})>>, <<On(qc, {2})>>,
                 <<On(qb, {1, 2}), On(qc, BadSpec)>> },
        b2 \in { <<>>, <<On(qa, {1})>>, <<On(idf, {1})>>, <<On(qb, {2})>> },
        c1 \in { <<>>, <<On(qa, {1, 2})>>, <<From(qb, {2}, mirror)>> } }

-----------------------------------------------------------------------------
(* The solver alone *)

Needs(p, S) == Plain(On(p, S))
Root(p, S) == [op |-> "root", dep |-> Needs(p, S)]
AddV(p, v, ds) == [op |-> "add", pkg |-> p, ver |-> v, deps |-> ds]
SolveCall == [op |-> "solve"]

Some == {{1}, {2}, {1, 2}}
OneDep(q) == {<<Needs(q, S)>> : S \in Some}
TwoDeps(q, r) == {<<Needs(q, S), Needs(r, T)>> : S \in Some, T \in Some}

\* Two versions of each of three packages; qa requires qb, qc or both,
\* qb may require qc, and qc may close the circle to qa.  Roots in two orders.
Searches ==
    { <<r>> \o rs \o <<AddV(qa, 1, a1), AddV(qa, 2, a2), AddV(qb, 2, b2), AddV(qb, 1, b1),
             AddV(qc, 1, <<>>), AddV(qc, 2, c2), SolveCall>> :
        r \in {Root(qa, {1, 2}), Root(qb, {1, 2})},
        rs \in {<<>>, <<Root(qc, {1})>>},
        a1 \in {<<>>} \cup OneDep(qb),
        a2 \in OneDep(qc) \cup TwoDeps(qb, qc),
        b1 \in {<<>>} \cup OneDep(qc),
        b2 \in OneDep(qc) \cup OneDep(qa),
        c2 \in {<<>>, <<Needs(qa, {1})>>} }

\* The corners of the interface: nothing registered, no requirement, a package
\* without versions, refused strings and duplicates, a version that requires
\* itself, and solving again after more was registered.
Corners ==
    { <<SolveCall>>,
      <<AddV(qa, 1, <<>>), SolveCall>>,
      <<Root(qb, {1, 2}), AddV(qa, 1, <<>>), SolveCall>>,
      <<Root(qa, {2}), AddV(qa, BadVersion, <<>>), SolveCall, AddV(qa, 2, <<>>), SolveCall>>,
      <<Root(qa, BadSpec), AddV(qa, 1, <<>>), SolveCall>>,
      <<Root(qa, {1, 2}), AddV(qa, 2, <<Needs(qb, {1}), Needs(qc, BadSpec)>>),
        AddV(qa, 1, <<>>), SolveCall>>,
      <<Root(qa, {1}), AddV(qa, 1, <<>>), AddV(qa, 1, <<Needs(qb, {1})>>), SolveCall>>,
      <<Root(qa, {1, 2}), AddV(qa, 2, <<Needs(qa, {1})>>), AddV(qa, 1, <<Needs(qa, {1})>>), SolveCall>>,
      <<Root(qa, {1, 2}), AddV(qa, 1, <<Needs(qb, {})>>), SolveCall,
        AddV(qa, 2, <<Needs(qb, {1})>>), AddV(qb, 1, <<>>), SolveCall,
        Root(qb, {2}), SolveCall, AddV(qb, 2, <<>>), SolveCall>> }

AllScripts == Searches \cup Corners \cup {<<>>}

\* solve_resolve with a solver of its own, or a solver that another client
\* drives, or neither.
Resolving == RInit
Alone ==
    /\ project = CHOOSE x \in AnyProject : TRUE
    /\ stage = "died" /\ queue = <<>> /\ seen = {} /\ fetched = <<>>
    /\ at = <<1, 1>> /\ resolved = {}
    /\ Init /\ script # <<>>
Neither ==
    /\ project = CHOOSE x \in AnyProject : TRUE
    /\ stage = "died" /\ queue = <<>> /\ seen = {} /\ fetched = <<>>
    /\ at = <<1, 1>> /\ resolved = {}
    /\ Init /\ script = <<>>

-----------------------------------------------------------------------------
(* The disk: version 2 has a file less than version 1. *)

CONSTANTS hc, pl, gt, fa, fb

Comps == {hc, pl, gt}
Kinds == hc :> "hashed" @@ pl :> "plain" @@ gt :> "git"
Files == {fa, fb}
ShipsTwo == <<{fa, fb}, {fa}>>
Checkouts == {hc :> 2 @@ gt :> 1 @@ pl :> 1}
EditSteps ==
    {"off", "load", "save", "next", "wipe", "checkout", "emit", "done"}

Untouched == wants = None /\ cur = hc /\ StoreInit

VARIABLE topic

allVars == <<topic, rvars, storeVars>>

ComponentsInit ==
    \/ topic = "resolve" /\ (Resolving \/ Alone) /\ Untouched
    \/ topic = "store" /\ Neither /\ StoreInit /\ wants \in {None, Service}

ComponentsNext ==
    /\ \/ topic = "resolve" /\ RNext /\ UNCHANGED storeVars
       \/ topic = "store" /\ StoreNext /\ UNCHANGED rvars
    /\ UNCHANGED topic

\* One thread resolves, and a prepare that runs goes on.
ComponentsSpec ==
    /\ ComponentsInit /\ [][ComponentsNext]_allVars
    /\ WF_allVars(topic = "resolve" /\ ComponentsNext)
    /\ WF_allVars(topic = "store" /\ Step /\ UNCHANGED <<topic, rvars>>)

=============================================================================
