------------------------------- MODULE PubGrub -------------------------------
(***************************************************************************)
(* The dependency solver of src/pubgrub.c: packages and dependencies are   *)
(* registered by calls, then solve() runs a depth-first search with        *)
(* chronological backtracking over a stack of decisions.                   *)
(*                                                                         *)
(* A version is its rank in SemVer order, and a constraint is the set of   *)
(* versions it matches: how either is spelled is src/semver.c's business.  *)
(* A specification string the parser rejects is BadSpec, a version string  *)
(* it rejects is BadVersion.  A frame of the stack is one activation of    *)
(* search_step with the try_version it is in.                              *)
(***************************************************************************)
EXTENDS Integers, Sequences

CONSTANTS
    Pkg,       \* package names
    MaxVer,    \* versions have ranks 1..MaxVer
    Scripts    \* the sequences of calls a client of the solver makes

Ver == 1..MaxVer
NoVer == 0       \* "undecided" (decided[i] == -1), or no version being tried
BadVersion == -1
BadSpec == {-1}

Specs == (SUBSET Ver) \cup {BadSpec}
Dep == [pkg : Pkg, spec : Specs]

\* The public calls: pubgrub_solver_root_dep, _add and _solve.
Call == [op : {"root"}, dep : Dep]
   \cup [op : {"add"}, pkg : Pkg, ver : Ver \cup {BadVersion}, deps : Seq(Dep)]
   \cup [op : {"solve"}]

ASSUME MaxVerAssumption == MaxVer \in Nat
ASSUME ScriptsAssumption == Scripts \subseteq Seq(Call)

VARIABLES
    script,  \* the calls still to come
    order,   \* packages[]: interned names in registration order
    vers,    \* vers[p]: registered versions of p
    deps,    \* deps[p][v]: dependencies of version v of p
    roots,   \* root_deps
    pc,      \* where the solver is
    i,       \* index of the dependency being handled
    cons,    \* pkg_cons: all constraints, each with the frame it came from
    decided, \* decided[p]
    frames,  \* the decision stack: package, version tried, versions left
    result,  \* what the last solve returned: nothing yet, an error, or
    chosen   \* ... "solved" with these versions

answer == <<result, chosen>>
registry == <<order, vers, deps, roots>>
search == <<cons, decided, frames>>
vars == <<script, registry, pc, i, search, answer>>

ConsEntry == [pkg : Pkg, spec : SUBSET Ver, src : Nat]
Frame == [pkg : Pkg, ver : Ver \cup {NoVer}, left : SUBSET Ver]

Interned == {order[k] : k \in 1..Len(order)}
Intern(p) == IF p \in Interned THEN order ELSE Append(order, p)

Undecided == [p \in Pkg |-> NoVer]

Init ==
    /\ script \in Scripts
    /\ order = <<>>
    /\ vers = [p \in Pkg |-> {}]
    /\ deps = [p \in Pkg |-> [v \in Ver |-> <<>>]]
    /\ roots = <<>>
    /\ pc = "idle"
    /\ i = 0
    /\ cons = {} /\ decided = Undecided /\ frames = <<>>
    /\ result = "none" /\ chosen = Undecided

Called(op) == pc = "idle" /\ script # <<>> /\ Head(script).op = op
Returned == pc' = "idle" /\ script' = Tail(script)

-----------------------------------------------------------------------------
(* Registration *)

\* pubgrub_solver_root_dep: a bad specification is refused with no effect.
RootDep ==
    /\ Called("root")
    /\ LET d == Head(script).dep
       IN IF d.spec = BadSpec
            THEN UNCHANGED registry
            ELSE /\ order' = Intern(d.pkg)
                 /\ roots' = Append(roots, d)
                 /\ UNCHANGED <<vers, deps>>
    /\ Returned
    /\ UNCHANGED <<i, search, answer>>

\* pubgrub_solver_add: a bad version string is refused with no effect, a
\* duplicate after its package has been interned.
Add ==
    /\ Called("add")
    /\ LET c == Head(script)
       IN IF c.ver = BadVersion
            THEN Returned /\ UNCHANGED <<registry, i>>
            ELSE /\ order' = Intern(c.pkg)
                 /\ IF c.ver \in vers[c.pkg]
                      THEN Returned /\ i' = i
                      ELSE pc' = "adding" /\ i' = 1 /\ script' = script
                 /\ UNCHANGED <<vers, deps, roots>>
    /\ UNCHANGED <<search, answer>>

\* Its loop over the dependencies interns each name, and gives the version up
\* at the first bad specification: the names stay, the version does not.
AddDepName ==
    /\ pc = "adding"
    /\ LET c == Head(script)
       IN /\ i <= Len(c.deps)
          /\ IF c.deps[i].spec = BadSpec
               THEN Returned /\ UNCHANGED <<order, i>>
               ELSE /\ order' = Intern(c.deps[i].pkg)
                    /\ i' = i + 1
                    /\ UNCHANGED <<pc, script>>
    /\ UNCHANGED <<vers, deps, roots, search, answer>>

AddVersion ==
    /\ pc = "adding"
    /\ LET c == Head(script)
       IN /\ i > Len(c.deps)
          /\ vers' = [vers EXCEPT ![c.pkg] = @ \cup {c.ver}]
          /\ deps' = [deps EXCEPT ![c.pkg][c.ver] = c.deps]
    /\ Returned
    /\ UNCHANGED <<order, roots, i, search, answer>>

-----------------------------------------------------------------------------
(* Search *)

Depth == Len(frames)
Top == frames[Depth]

\* version_ok and has_any_valid
VersionOk(C, p, v) == \A c \in C : c.pkg = p => v \in c.spec
Viable(C, p) == {v \in vers[p] : VersionOk(C, p, v)}

\* add_constraint: the entry is recorded in any case; a conflict is a decided
\* version outside it, or a package left with no version.
Entry(d, src) == [pkg |-> d.pkg, spec |-> d.spec, src |-> src]
AddConstraint(d, src) == cons' = cons \cup {Entry(d, src)}
\* Mutant: the version already decided is not compared.
ConflictUndecided(d, C) == Viable(C, d.pkg) = {}
Conflict(d, C) ==
    \/ decided[d.pkg] # NoVer /\ decided[d.pkg] \notin d.spec
    \/ Viable(C, d.pkg) = {}

\* pubgrub_solver_solve starts from a new search; with no package at all it
\* succeeds at once.
Solve ==
    /\ Called("solve")
    /\ cons' = {} /\ decided' = Undecided /\ frames' = <<>>
    /\ i' = 1
    /\ IF order = <<>>
         THEN Returned /\ result' = "solved"
         ELSE pc' = "roots" /\ result' = "none" /\ script' = script
    /\ chosen' = Undecided
    /\ UNCHANGED registry

SearchFails ==
    /\ Returned
    /\ result' = "error" /\ chosen' = Undecided

RootConstraint ==
    /\ pc = "roots"
    /\ i <= Len(roots)
    /\ AddConstraint(roots[i], 0)
    /\ i' = i + 1
    /\ IF Conflict(roots[i], cons')
         THEN SearchFails
         ELSE UNCHANGED <<pc, script, answer>>
    /\ UNCHANGED <<registry, decided, frames>>

RootsDone ==
    /\ pc = "roots"
    /\ i > Len(roots)
    /\ pc' = "step"
    /\ UNCHANGED <<script, registry, i, search, answer>>

\* pick_next: constrained but undecided, fewest viable versions first, ties
\* by registration order.
Open == {p \in Interned : decided[p] = NoVer /\ \E c \in cons : c.pkg = p}

VersionCount(p) ==
    LET count[v \in 0..MaxVer] ==
          IF v = 0 THEN 0
          ELSE count[v - 1] + (IF v \in Viable(cons, p) THEN 1 ELSE 0)
    IN count[MaxVer]

RegisteredBefore(p, q) ==
    \E j, k \in 1..Len(order) : j < k /\ order[j] = p /\ order[k] = q

PickedNext(p) ==
    \A q \in Open \ {p} :
       \/ VersionCount(p) < VersionCount(q)
       \/ VersionCount(p) = VersionCount(q) /\ RegisteredBefore(p, q)

\* search_step with nothing left to decide: fill_solution reads decided[].
Solved ==
    /\ pc = "step"
    /\ Open = {}
    /\ result' = "solved" /\ chosen' = decided
    /\ Returned
    /\ UNCHANGED <<registry, i, search>>

\* search_step opens a frame on the package to decide.
SearchStep ==
    /\ pc = "step"
    /\ \E p \in Open :
          /\ PickedNext(p)
          /\ frames' = Append(frames, [pkg |-> p, ver |-> NoVer, left |-> vers[p]])
    /\ pc' = "loop"
    /\ UNCHANGED <<script, registry, i, cons, decided, answer>>

\* Mutant: lowest version first.
TryLowest ==
    /\ pc = "loop"
    /\ \E v \in Top.left :
          /\ VersionOk(cons, Top.pkg, v)
          /\ \A u \in Top.left : u < v => ~VersionOk(cons, Top.pkg, u)
          /\ frames' = [frames EXCEPT ![Depth] =
                [pkg |-> Top.pkg, ver |-> v, left |-> {u \in Top.left : u > v}]]
          /\ decided' = [decided EXCEPT ![Top.pkg] = v]
    /\ i' = 1
    /\ pc' = "deps"
    /\ UNCHANGED <<script, registry, cons, answer>>

\* Its loop, highest version first; try_version decides the version.
TryVersion ==
    /\ pc = "loop"
    /\ \E v \in Top.left :
          /\ VersionOk(cons, Top.pkg, v)
          /\ \A u \in Top.left : u > v => ~VersionOk(cons, Top.pkg, u)
          /\ frames' = [frames EXCEPT ![Depth] =
                [pkg |-> Top.pkg, ver |-> v, left |-> {u \in Top.left : u < v}]]
          /\ decided' = [decided EXCEPT ![Top.pkg] = v]
    /\ i' = 1
    /\ pc' = "deps"
    /\ UNCHANGED <<script, registry, cons, answer>>

\* No version is left: the frame returns 0 to the try_version below it, or to
\* solve.
Exhausted ==
    /\ pc = "loop"
    /\ \A v \in Top.left : ~VersionOk(cons, Top.pkg, v)
    /\ frames' = SubSeq(frames, 1, Depth - 1)
    /\ IF Depth = 1
         THEN SearchFails
         ELSE pc' = "backtrack" /\ UNCHANGED <<script, answer>>
    /\ UNCHANGED <<registry, i, cons, decided>>

\* try_version: the constraints of the version's dependencies, in order, up to
\* the first conflict.
TopDeps == deps[Top.pkg][Top.ver]

DepConstraint ==
    /\ pc = "deps"
    /\ i <= Len(TopDeps)
    /\ AddConstraint(TopDeps[i], Depth)
    /\ i' = i + 1
    /\ pc' = IF Conflict(TopDeps[i], cons') THEN "backtrack" ELSE "deps"
    /\ UNCHANGED <<script, registry, decided, frames, answer>>

DepsDone ==
    /\ pc = "deps"
    /\ i > Len(TopDeps)
    /\ pc' = "step"
    /\ UNCHANGED <<script, registry, i, search, answer>>

\* Mutants: the constraints stay; the frame's loop starts over.
BacktrackNoDrop ==
    /\ pc = "backtrack"
    /\ decided' = [decided EXCEPT ![Top.pkg] = NoVer]
    /\ frames' = [frames EXCEPT ![Depth] =
          [pkg |-> Top.pkg, ver |-> NoVer, left |-> Top.left]]
    /\ pc' = "loop"
    /\ UNCHANGED <<script, registry, i, cons, answer>>

\* drop_constraints, undecide, and back into the frame's loop.
Backtrack ==
    /\ pc = "backtrack"
    /\ cons' = {c \in cons : c.src # Depth}
    /\ decided' = [decided EXCEPT ![Top.pkg] = NoVer]
    /\ frames' = [frames EXCEPT ![Depth] =
          [pkg |-> Top.pkg, ver |-> NoVer, left |-> Top.left]]
    /\ pc' = "loop"
    /\ UNCHANGED <<script, registry, i, answer>>

-----------------------------------------------------------------------------
Finished == pc = "idle" /\ script = <<>>

Next ==
    \/ RootDep \/ Add \/ AddDepName \/ AddVersion
    \/ Solve \/ RootConstraint \/ RootsDone
    \/ Solved \/ SearchStep \/ TryVersion \/ Exhausted
    \/ DepConstraint \/ DepsDone \/ Backtrack

Spec == Init /\ [][Next]_vars

\* One thread runs the search to its end.
FairSpec == Spec /\ WF_vars(Next)

-----------------------------------------------------------------------------
(* Properties *)

TypeOK ==
    /\ script \in Seq(Call)
    /\ order \in Seq(Pkg)
    /\ vers \in [Pkg -> SUBSET Ver]
    /\ deps \in [Pkg -> [Ver -> Seq(Dep)]]
    /\ roots \in Seq(Dep)
    /\ pc \in {"idle", "adding", "roots", "step", "loop", "deps", "backtrack"}
    /\ i \in Nat
    /\ cons \subseteq ConsEntry
    /\ decided \in [Pkg -> Ver \cup {NoVer}]
    /\ frames \in Seq(Frame)
    /\ result \in {"none", "error", "solved"}
    /\ chosen \in [Pkg -> Ver \cup {NoVer}]

Searching == pc \in {"step", "loop", "deps", "backtrack"}

\* The search implements what a solver promises: its answer is a solution
\* when it is given, and "no solution" is answered only when none exists.
Abs == INSTANCE VersionSolver
AnswersRight == Abs!Spec

Solution(s) == Abs!Solution(s)

\* "Clean backtracking state (no residue between attempts)" (pubgrub.c): what
\* is decided is what the frames decide, and every constraint comes from a
\* root or from a dependency of the version its frame is on.
Deciding == IF pc = "loop" THEN 1..(Depth - 1) ELSE 1..Depth
DepsOf(k) == deps[frames[k].pkg][frames[k].ver]
Justified(c) ==
    \/ \E k \in 1..Len(roots) : c = Entry(roots[k], 0)
    \/ \E k \in Deciding : \E j \in 1..Len(DepsOf(k)) : c = Entry(DepsOf(k)[j], k)
NoResidue ==
    Searching =>
      /\ \A p \in Pkg : decided[p] # NoVer <=>
            \E k \in Deciding : frames[k].pkg = p /\ frames[k].ver = decided[p]
      /\ \A c \in cons : Justified(c)

\* "Highest version first" (pubgrub.c): of the package the search decides
\* first, the answer has the highest version any solution has.
HighestFirst ==
    [][result' = "solved" /\ pc = "step" /\ Depth > 0 =>
         \A s \in Abs!Assignments : Solution(s) =>
            s[frames[1].pkg] <= chosen'[frames[1].pkg]]_vars

=============================================================================
