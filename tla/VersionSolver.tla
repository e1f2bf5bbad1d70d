---------------------------- MODULE VersionSolver ----------------------------
(***************************************************************************)
(* What a dependency solver promises (src/pubgrub.h): asked for versions   *)
(* of what the project requires, it "picks one version per required        *)
(* package satisfying every accumulated constraint, or reports that no     *)
(* such assignment exists".                                                *)
(***************************************************************************)
EXTENDS Integers, Sequences

CONSTANTS Pkg, Ver,
          NoVer       \* the choice of no version

VARIABLES vers,   \* vers[p]: the versions of p there are
          deps,   \* deps[p][v]: what version v of p requires
          roots,  \* what the project requires
          result, \* "none" before an answer, "solved", or "error"
          chosen  \* the answer when solved

Assignments == [Pkg -> Ver \cup {NoVer}]

Meets(s, d) == s[d.pkg] # NoVer /\ s[d.pkg] \in d.spec

\* Everything required, by the project or by a chosen version, is chosen and
\* matches; only versions that exist are chosen.
Solution(s) ==
    /\ s \in Assignments
    /\ \A k \in 1..Len(roots) : Meets(s, roots[k])
    /\ \A p \in Pkg : s[p] # NoVer =>
          /\ s[p] \in vers[p]
          /\ \A k \in 1..Len(deps[p][s[p]]) : Meets(s, deps[p][s[p]][k])

Init ==
    /\ vers = [p \in Pkg |-> {}]
    /\ deps = [p \in Pkg |-> [v \in Ver |-> <<>>]]
    /\ roots = <<>>
    /\ result = "none"
    /\ chosen \in Assignments

\* Packages and requirements are only ever added.
Learn ==
    /\ \A p \in Pkg : vers[p] \subseteq vers'[p]
    /\ \A p \in Pkg : \A v \in vers[p] : deps'[p][v] = deps[p][v]
    /\ \A k \in 1..Len(roots) : roots'[k] = roots[k]
    /\ UNCHANGED <<result, chosen>>

Ask == result' = "none" /\ UNCHANGED <<vers, deps, roots>>

Reply ==
    /\ \/ result' = "solved" /\ Solution(chosen')
       \/ result' = "error" /\ \A s \in Assignments : ~Solution(s)
    /\ UNCHANGED <<vers, deps, roots>>

Next == Learn \/ Ask \/ Reply

Spec == Init /\ [][Next]_<<vers, deps, roots, result, chosen>>
=============================================================================
