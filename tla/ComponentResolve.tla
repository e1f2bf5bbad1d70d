-------------------------- MODULE ComponentResolve --------------------------
(***************************************************************************)
(* How the component manager turns the requirements of a project into      *)
(* versions (solve_resolve in src/cmd/idf/component/solve.c): a walk over  *)
(* the registries collects every component the solver could need, the      *)
(* solver of PubGrub is told about them call by call, and its answer is    *)
(* assembled into entries for dependencies.lock.                           *)
(*                                                                         *)
(* What a registry answers is data: for each component it knows, the       *)
(* published versions in order, each with its dependencies.  The "if" and  *)
(* "rules" of a dependency are not looked at.                              *)
(***************************************************************************)
EXTENDS PubGrub

CONSTANTS
    Url,         \* registries
    DefaultUrl,  \* DEFAULT_REGISTRY_URL
    NoUrl,       \* a dependency that names no registry
    Idf,         \* the package "idf", which no registry has
    Projects     \* the projects to resolve, with what the registries answer

ASSUME IdfAssumption == Idf \in Pkg
\* solve_resolve makes a solver of its own: nobody else calls it.
ASSUME NoCallsAssumption == <<>> \in Scripts
\* "0.0.0" is a version.
ASSUME LowestAssumption == 1 \in Ver
ASSUME UrlAssumption == DefaultUrl \in Url /\ NoUrl \notin Url

\* struct solve_root and struct reg_dep; struct reg_version.
Wanted == [pkg : Pkg, spec : Specs, url : Url \cup {NoUrl}]
Release == [ver : Ver \cup {BadVersion}, deps : Seq(Wanted)]

\* The requirements of a project, the version of its ESP-IDF, and what
\* reg_fetch_component finds at each registry.
IsProject(x) ==
    /\ x.roots \in Seq(Wanted) /\ x.idf \in Ver \cup {NoVer}
    /\ \A u \in Url :
          /\ DOMAIN x.index[u] \subseteq Pkg \ {Idf}
          /\ x.index[u] \in [DOMAIN x.index[u] -> Seq(Release)]

ASSUME ProjectsAssumption == \A x \in Projects : IsProject(x)

VARIABLES
    project,  \* what is resolved
    stage,    \* where solve_resolve is
    queue,    \* requests (component, registry) still to look at
    seen,     \* names already looked at
    fetched,  \* fetched_set: what was found, in order, and where
    at,       \* the two indices of the loop in progress
    resolved  \* the answer: entries of the lock file to come

walk == <<queue, seen, fetched>>
rvars == <<project, stage, walk, at, resolved, vars>>

\* A dependency that names no registry is looked for at the default one.
Request(d, default) ==
    [name |-> d.pkg, url |-> IF d.url = NoUrl THEN default ELSE d.url]

\* bfs_collect starts with the roots.
RInit ==
    /\ project \in Projects
    /\ stage = "collect"
    /\ queue = [k \in 1..Len(project.roots) |-> Request(project.roots[k], DefaultUrl)]
    /\ seen = {} /\ fetched = <<>>
    /\ at = <<1, 1>>
    /\ resolved = {}
    /\ script = <<>> /\ Init

-----------------------------------------------------------------------------
(* The walk over the registries *)

\* Mutant: what was seen before goes back to the end of the queue.
PassRequeues ==
    /\ stage = "collect" /\ queue # <<>>
    /\ Head(queue).name \in seen \cup {Idf}
    /\ seen' = seen \cup {Head(queue).name}
    /\ queue' = Append(Tail(queue), Head(queue))
    /\ UNCHANGED <<project, stage, fetched, at, resolved, vars>>

\* A name seen before, from whichever registry, and idf are not fetched.
Pass ==
    /\ stage = "collect" /\ queue # <<>>
    /\ Head(queue).name \in seen \cup {Idf}
    /\ seen' = seen \cup {Head(queue).name}
    /\ queue' = Tail(queue)
    /\ UNCHANGED <<project, stage, fetched, at, resolved, vars>>

Fetch ==
    /\ stage = "collect" /\ queue # <<>>
    /\ LET r == Head(queue)
           known == project.index[r.url]
       IN /\ r.name \notin seen \cup {Idf}
          /\ r.name \in DOMAIN known
          /\ seen' = seen \cup {r.name}
          /\ fetched' = Append(fetched,
                [name |-> r.name, url |-> r.url, releases |-> known[r.name]])
    /\ queue' = Tail(queue)
    /\ stage' = "push" /\ at' = <<1, 1>>
    /\ UNCHANGED <<project, resolved, vars>>

\* No such component, or no answer: die().
FetchFails ==
    /\ stage = "collect" /\ queue # <<>>
    /\ Head(queue).name \notin seen \cup {Idf}
    /\ stage' = "died"
    /\ UNCHANGED <<project, walk, at, resolved, vars>>

Found == fetched[Len(fetched)]
Releases == Len(Found.releases)
Deps == Found.releases[at[1]].deps

\* Mutant: a request is marked as seen when it is made, so it is never fetched.
PushMarks ==
    /\ stage = "push" /\ at[1] <= Releases /\ at[2] <= Len(Deps)
    /\ LET d == Deps[at[2]]
       IN /\ queue' = IF d.pkg \in seen
                        THEN queue ELSE Append(queue, Request(d, Found.url))
          /\ seen' = seen \cup {d.pkg}
    /\ at' = <<at[1], at[2] + 1>>
    /\ UNCHANGED <<project, stage, fetched, resolved, vars>>

\* Mutant: the newest request is served first.
PushFront ==
    /\ stage = "push" /\ at[1] <= Releases /\ at[2] <= Len(Deps)
    /\ LET d == Deps[at[2]]
       IN queue' = IF d.pkg \in seen
                     THEN queue ELSE <<Request(d, Found.url)>> \o queue
    /\ at' = <<at[1], at[2] + 1>>
    /\ UNCHANGED <<project, stage, seen, fetched, resolved, vars>>

\* The dependencies of every release are requested, from the registry of the
\* component unless they name another.
Push ==
    /\ stage = "push" /\ at[1] <= Releases /\ at[2] <= Len(Deps)
    /\ LET d == Deps[at[2]]
       IN queue' = IF d.pkg \in seen
                     THEN queue ELSE Append(queue, Request(d, Found.url))
    /\ at' = <<at[1], at[2] + 1>>
    /\ UNCHANGED <<project, stage, seen, fetched, resolved, vars>>

PushedRelease ==
    /\ stage = "push" /\ at[1] <= Releases /\ at[2] > Len(Deps)
    /\ at' = <<at[1] + 1, 1>>
    /\ UNCHANGED <<project, stage, walk, resolved, vars>>

PushedAll ==
    /\ stage = "push" /\ at[1] > Releases
    /\ stage' = "collect"
    /\ UNCHANGED <<project, walk, at, resolved, vars>>

-----------------------------------------------------------------------------
(* Feeding the solver: one call at a time *)

Plain(d) == [pkg |-> d.pkg, spec |-> d.spec]
Plainly(ds) == [k \in 1..Len(ds) |-> Plain(ds[k])]

Calls(call) ==
    /\ script' = <<call>>
    /\ UNCHANGED <<registry, pc, i, search, answer>>

SolverReturned == pc = "idle" /\ script = <<>>

\* detect_idf_version makes a version the parser accepts; without one the
\* package is "0.0.0", the lowest there is.
IdfVersion == IF project.idf = NoVer THEN 1 ELSE project.idf

\* register_idf
RegisterIdf ==
    /\ stage = "collect" /\ queue = <<>>
    /\ Calls([op |-> "add", pkg |-> Idf, ver |-> IdfVersion, deps |-> <<>>])
    /\ stage' = "register" /\ at' = <<1, 1>>
    /\ UNCHANGED <<project, walk, resolved>>

\* register_component: what the solver makes of a release is not looked at.
Register ==
    /\ stage = "register" /\ SolverReturned
    /\ at[1] <= Len(fetched)
    /\ LET c == fetched[at[1]]
       IN IF at[2] <= Len(c.releases)
            THEN /\ Calls([op |-> "add", pkg |-> c.name,
                           ver |-> c.releases[at[2]].ver,
                           deps |-> Plainly(c.releases[at[2]].deps)])
                 /\ at' = <<at[1], at[2] + 1>>
            ELSE at' = <<at[1] + 1, 1>> /\ UNCHANGED vars
    /\ UNCHANGED <<project, stage, walk, resolved>>

RegisteredAll ==
    /\ stage = "register" /\ SolverReturned
    /\ at[1] > Len(fetched)
    /\ stage' = "require" /\ at' = <<1, 1>>
    /\ UNCHANGED <<project, walk, resolved, vars>>

\* A root the solver refuses ends it all; the refused call changes nothing.
Require ==
    /\ stage = "require" /\ SolverReturned
    /\ at[1] <= Len(project.roots)
    /\ LET d == Plain(project.roots[at[1]])
       IN IF d.spec = BadSpec
            THEN stage' = "failed" /\ UNCHANGED <<at, vars>>
            ELSE /\ Calls([op |-> "root", dep |-> d])
                 /\ at' = <<at[1] + 1, 1>> /\ UNCHANGED stage
    /\ UNCHANGED <<project, walk, resolved>>

RequiredAll ==
    /\ stage = "require" /\ SolverReturned
    /\ at[1] > Len(project.roots)
    /\ Calls([op |-> "solve"])
    /\ stage' = "solve"
    /\ UNCHANGED <<project, walk, at, resolved>>

\* find_component and find_version
FoundAt(p) == CHOOSE k \in 1..Len(fetched) : fetched[k].name = p
ReleaseOf(p, v) ==
    LET rs == fetched[FoundAt(p)].releases
        matching == {k \in 1..Len(rs) : rs[k].ver = v}
    IN rs[CHOOSE k \in matching : \A j \in matching : k <= j]

ResolvedEntry(p) ==
    IF p = Idf
      THEN [name |-> p, ver |-> chosen[p], url |-> NoUrl, nested |-> <<>>]
      ELSE [name |-> p, ver |-> chosen[p], url |-> fetched[FoundAt(p)].url,
            nested |-> Plainly(ReleaseOf(p, chosen[p]).deps)]

Assemble ==
    /\ stage = "solve" /\ SolverReturned
    /\ IF result = "solved"
         THEN /\ resolved' = {ResolvedEntry(p) : p \in {q \in Pkg : chosen[q] # NoVer}}
              /\ stage' = "resolved"
         ELSE stage' = "failed" /\ UNCHANGED resolved
    /\ UNCHANGED <<project, walk, at, vars>>

-----------------------------------------------------------------------------
Ended == stage \in {"resolved", "failed", "died"}

Client ==
    \/ Pass \/ Fetch \/ FetchFails \/ Push \/ PushedRelease \/ PushedAll
    \/ RegisterIdf \/ Register \/ RegisteredAll
    \/ Require \/ RequiredAll \/ Assemble

\* A call in progress takes the solver's steps.
Solver == Next /\ UNCHANGED <<project, stage, walk, at, resolved>>

RNext == Client \/ Solver

RSpec == RInit /\ [][RNext]_rvars

\* One thread does it all.
FairRSpec == RSpec /\ WF_rvars(RNext)

-----------------------------------------------------------------------------
(* Properties *)

RTypeOK ==
    /\ IsProject(project)
    /\ stage \in {"collect", "push", "register", "require", "solve",
                  "resolved", "failed", "died"}
    /\ queue \in Seq([name : Pkg, url : Url])
    /\ seen \subseteq Pkg
    /\ fetched \in Seq([name : Pkg \ {Idf}, url : Url, releases : Seq(Release)])
    /\ at \in Nat \X Nat
    /\ \A e \in resolved : e \in [name : Pkg, ver : Ver, url : Url \cup {NoUrl},
                                   nested : Seq(Dep)]
    /\ TypeOK

\* What there is to resolve, whether the walk came across it or not: of a
\* component the releases that can be parsed, at the registry the walk used
\* for it or, when it used none, at any.
Sources(p) ==
    {fetched[k].url : k \in {j \in 1..Len(fetched) : fetched[j].name = p}}
Published(p) ==
    LET url == IF Sources(p) # {} THEN CHOOSE u \in Sources(p) : TRUE ELSE DefaultUrl
    IN IF p = Idf THEN <<[ver |-> IdfVersion, deps |-> <<>>]>>
       ELSE IF p \in DOMAIN project.index[url] THEN project.index[url][p]
       ELSE <<>>
Usable(r) == r.ver # BadVersion /\ \A k \in 1..Len(r.deps) : r.deps[k].spec # BadSpec
UsableOf(p, v) ==
    {k \in 1..Len(Published(p)) : Usable(Published(p)[k]) /\ Published(p)[k].ver = v}

\* Of several releases of one version the first counts.
FirstUsable(p, v) == CHOOSE k \in UsableOf(p, v) : \A j \in UsableOf(p, v) : k <= j

WorldVers == [p \in Pkg |-> {v \in Ver : UsableOf(p, v) # {}}]
WorldDeps ==
    [p \in Pkg |-> [v \in Ver |->
        IF UsableOf(p, v) = {} THEN <<>> ELSE Plainly(Published(p)[FirstUsable(p, v)].deps)]]
WorldRoots == Plainly(project.roots)

World == INSTANCE VersionSolver WITH vers <- WorldVers, deps <- WorldDeps, roots <- WorldRoots

\* The entries written to the lock file, as an assignment.
Locked ==
    [p \in Pkg |-> IF \E e \in resolved : e.name = p
                     THEN (CHOOSE e \in resolved : e.name = p).ver
                     ELSE NoVer]

\* What is resolved is a solution of the project over everything published,
\* not only over what the walk came across, and the project is refused only
\* when there is none: the walk misses nothing, a release that cannot be
\* parsed takes no other with it (solve.c, register_component), and no entry
\* is lost or altered on the way to the lock file.
ResolvedRight ==
    /\ stage = "resolved" => World!Solution(Locked)
    /\ stage = "failed" => \A s \in World!Assignments : ~World!Solution(s)

\* A component the project itself requires comes from the registry the project
\* names for it, whatever other components say: roots are looked at first.
RootsChoose ==
    \A k \in 1..Len(fetched) : \A r \in 1..Len(project.roots) :
       /\ project.roots[r].pkg = fetched[k].name
       /\ \A q \in 1..(r - 1) : project.roots[q].pkg # fetched[k].name
       => fetched[k].url = Request(project.roots[r], DefaultUrl).url

\* Circles or not, the walk and the search come to an end.
Resolves == <>Ended
=============================================================================
