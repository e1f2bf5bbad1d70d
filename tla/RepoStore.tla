----------------------------- MODULE RepoStore -----------------------------
(***************************************************************************)
(* "ice repo" (src/cmd/repo): a reference clone of ESP-IDF, working        *)
(* checkouts that borrow its objects, and the lock under which the clone,  *)
(* pull and checkout commands run git.                                     *)
(*                                                                         *)
(* A commit is the n-th one of a branch, or a tag.  What a git command     *)
(* does when it succeeds is the operator After; whether it can is Able.    *)
(* Submodules are one: a commit needs objects of its own, `subs' says for  *)
(* which commits the reference has them.  `reach' says whom signals reach: *)
(* "group" is a Ctrl-C, which git gets too; "alone" is a kill of ice, which*)
(* leaves git at work.                                                     *)
(***************************************************************************)
EXTENDS Integers, Sequences, FiniteSets

CONSTANTS
    User,          \* processes that run "ice repo"
    Branch, Tag,   \* names in the upstream repository
    Master,        \* the branch the reference is kept on
    Dest,          \* destinations of checkouts
    MaxCommit,     \* commits of a branch
    MaxRuns,       \* bound on commands
    MaxRepoFaults  \* bound on failures and interruptions

ASSUME MasterAssumption == Master \in Branch
ASSUME NamesAssumption == Branch \cap Tag = {}
ASSUME RepoBounds == MaxCommit \in Nat \ {0} /\ MaxRuns \in Nat /\ MaxRepoFaults \in Nat

Name == Branch \cup Tag
Commit == Name \X (1..MaxCommit)
NoCommit == <<Master, 0>>
NoJob == [cmd |-> "none"]
Jobs == {[cmd |-> "clone"], [cmd |-> "pull"]}
          \cup [cmd : {"checkout"}, name : Name, dest : Dest]
Tips == [Name -> 0..MaxCommit]   \* 0: there is none

VARIABLES
    tip,      \* the upstream repository
    reach,    \* whom signals reach
    base,     \* the reference
    co,       \* the checkouts
    esp,      \* esp-idf.lock: who made it, "gone" once its maker was killed
    rpc,      \* where a command is
    job, step, \* the command, and the index of its git command
    warned,   \* whether it printed a warning
    orphan,   \* git commands whose ice is gone
    runs, repoFaults

repoVars == <<tip, reach, base, co, esp, rpc, job, step, warned, orphan, runs, repoFaults>>

NoOne == "no one"
ASSUME NoOneAssumption == NoOne \notin User
Nothing == [n \in Name |-> 0]
NoBase == [there |-> FALSE, head |-> NoCommit, local |-> Nothing,
           remote |-> Nothing, subs |-> {}]
NoCheckout == [there |-> FALSE, names |-> Nothing, head |-> NoCommit,
               mirrored |-> FALSE, filled |-> FALSE, said |-> "nothing"]

RepoInit ==
    /\ tip = [n \in Name |-> IF n = Master THEN 1 ELSE 0]
    /\ reach \in {"group", "alone"}
    /\ base = NoBase
    /\ co = [d \in Dest |-> NoCheckout]
    /\ esp = NoOne
    /\ rpc = [p \in User |-> "off"]
    /\ job = [p \in User |-> NoJob] /\ step = [p \in User |-> 1]
    /\ warned = [p \in User |-> FALSE]
    /\ orphan = {} /\ runs = 0 /\ repoFaults = 0

-----------------------------------------------------------------------------
(* What the commands have git do, in order *)

Plan(cmd) ==
    CASE cmd = "clone" -> <<"clone", "submodules">>
      [] cmd = "pull" -> <<"master", "pull", "submodules">>
      [] cmd = "checkout" -> <<"fetch", "switch", "submodules", "local",
                               "mirror", "out", "fill", "restore">>
      [] OTHER -> <<>>

\* What is only warned about.  The submodules of a fresh clone are not.
Tolerated(cmd) ==
    CASE cmd = "pull" -> {"submodules"}
      [] cmd = "checkout" -> {"submodules", "mirror", "fill", "restore"}
      [] OTHER -> {}

\* ref_exists
Known(n) == base.local[n] # 0

Able(j, s) ==
    CASE s = "clone" -> ~base.there
      [] s = "fetch" -> Known(j.name) \/ tip[j.name] # 0
      [] s = "switch" -> Known(j.name) \/ (j.name \in Branch /\ base.remote[j.name] # 0)
      [] s = "local" -> ~co[j.dest].there
      [] s = "out" -> co[j.dest].names[j.name] # 0
      [] s = "fill" -> co[j.dest].mirrored => co[j.dest].head \in base.subs
      [] OTHER -> TRUE

\* A branch is checked out as a local branch, which is made from origin's the
\* first time and stays where it is.
Switched(b, n) ==
    LET at == IF b.local[n] # 0 THEN b.local[n] ELSE b.remote[n]
    IN [b EXCEPT !.local[n] = at, !.head = <<n, at>>]

\* A plain fetch brings all branches, and the tags on them.
Fetched(b) ==
    [b EXCEPT !.remote = [n \in Name |-> IF n \in Branch THEN tip[n] ELSE 0],
              !.local = [n \in Name |-> IF n \in Tag \/ n = Master THEN tip[n] ELSE @[n]]]

BaseAfter(j, s) ==
    CASE s = "clone" -> [Fetched(NoBase) EXCEPT !.there = TRUE, !.head = <<Master, tip[Master]>>]
      [] s = "submodules" -> [base EXCEPT !.subs = @ \cup {base.head}]
      [] s \in {"master", "restore"} -> Switched(base, Master)
      [] s = "pull" -> [Fetched(base) EXCEPT !.head = <<Master, tip[Master]>>]
      [] s = "fetch" -> IF Known(j.name) \/ j.name \in Tag THEN base
                        ELSE [base EXCEPT !.remote[j.name] = tip[j.name]]
      [] s = "switch" -> Switched(base, j.name)
      [] OTHER -> base

CheckoutAfter(j, s) ==
    LET c == co[j.dest]
    IN CASE s = "local" -> [NoCheckout EXCEPT !.there = TRUE, !.names = base.local]
         [] s = "mirror" -> [c EXCEPT !.mirrored = base.subs # {}]
         [] s = "out" -> [c EXCEPT !.head = <<j.name, c.names[j.name]>>, !.filled = FALSE]
         [] s = "fill" -> [c EXCEPT !.filled = TRUE]
         [] OTHER -> c

\* Git does what it was told.
After(j, s) ==
    /\ base' = BaseAfter(j, s)
    /\ co' = IF j.cmd # "checkout" THEN co
             ELSE [co EXCEPT ![j.dest] = CheckoutAfter(j, s)]

-----------------------------------------------------------------------------
(* The commands *)

Step(p) == Plan(job[p].cmd)[step[p]]
RepoFault == repoFaults < MaxRepoFaults /\ repoFaults' = repoFaults + 1

\* repo_ensure_reference and the look at the destination come before the lock.
Begin(p, j) ==
    /\ rpc[p] = "off" /\ runs < MaxRuns
    /\ job' = [job EXCEPT ![p] = j]
    /\ step' = [step EXCEPT ![p] = 1]
    /\ warned' = [warned EXCEPT ![p] = FALSE]
    /\ LET refused == \/ j.cmd # "clone" /\ ~base.there
                      \/ j.cmd = "checkout" /\ co[j.dest].there
       IN rpc' = [rpc EXCEPT ![p] = IF refused THEN "off" ELSE "lock"]
    /\ runs' = runs + 1
    /\ UNCHANGED <<tip, reach, base, co, esp, orphan, repoFaults>>

Take(p) ==
    /\ rpc[p] = "lock" /\ esp = NoOne
    /\ esp' = p
    /\ rpc' = [rpc EXCEPT ![p] = "git"]
    /\ UNCHANGED <<tip, reach, base, co, job, step, warned, orphan, runs, repoFaults>>

\* Two seconds have passed.
GiveUp(p) ==
    /\ rpc[p] = "lock" /\ esp # NoOne
    /\ rpc' = [rpc EXCEPT ![p] = "off"]
    /\ UNCHANGED <<tip, reach, base, co, esp, job, step, warned, orphan, runs, repoFaults>>

Frees(p) == esp' = IF esp = p THEN NoOne ELSE esp

\* To the next git command, or to the end.
Advances(p) ==
    IF step[p] < Len(Plan(job[p].cmd))
      THEN step' = [step EXCEPT ![p] = @ + 1] /\ UNCHANGED <<esp, rpc>>
      ELSE /\ rpc' = [rpc EXCEPT ![p] = "off"]
           /\ Frees(p)
           /\ UNCHANGED step

\* A checkout that ends has told its user so.
Tells(p, w, c) ==
    IF job[p].cmd = "checkout" /\ step[p] = Len(Plan("checkout"))
      THEN [c EXCEPT ![job[p].dest].said = IF w THEN "warned" ELSE "done"]
      ELSE c

GitDone(p) ==
    /\ rpc[p] = "git" /\ Able(job[p], Step(p))
    /\ base' = BaseAfter(job[p], Step(p))
    /\ co' = Tells(p, warned[p],
               IF job[p].cmd # "checkout" THEN co
               ELSE [co EXCEPT ![job[p].dest] = CheckoutAfter(job[p], Step(p))])
    /\ Advances(p)
    /\ UNCHANGED <<tip, reach, job, warned, orphan, runs, repoFaults>>

Excused(p) == IF Able(job[p], Step(p)) THEN RepoFault ELSE UNCHANGED repoFaults

\* Mutant: what fails is not told.
GitWarnsNot(p) ==
    /\ rpc[p] = "git" /\ Step(p) \in Tolerated(job[p].cmd)
    /\ Excused(p)
    /\ co' = Tells(p, warned[p], co)
    /\ Advances(p)
    /\ UNCHANGED <<tip, reach, base, job, warned, orphan, runs>>

\* A failure that is warned about, and passed over.
GitWarns(p) ==
    /\ rpc[p] = "git" /\ Step(p) \in Tolerated(job[p].cmd)
    /\ Excused(p)
    /\ warned' = [warned EXCEPT ![p] = TRUE]
    /\ co' = Tells(p, TRUE, co)
    /\ Advances(p)
    /\ UNCHANGED <<tip, reach, base, job, orphan, runs>>

\* Mutant: a clone into a directory that is there goes on with what is there.
GitFailsButLocal(p) ==
    /\ rpc[p] = "git"
    /\ Excused(p)
    /\ IF Step(p) = "local"
         THEN Advances(p)
         ELSE /\ Step(p) \notin Tolerated(job[p].cmd)
              /\ rpc' = [rpc EXCEPT ![p] = "off"]
              /\ Frees(p) /\ UNCHANGED step
    /\ UNCHANGED <<tip, reach, base, co, job, warned, orphan, runs>>

\* A failure that ends it: die(), the clone refused because there is one, or
\* a signal that git gets too.
GitFails(p) ==
    /\ rpc[p] = "git"
    /\ Step(p) \notin Tolerated(job[p].cmd)
    /\ Excused(p)
    /\ rpc' = [rpc EXCEPT ![p] = "off"]
    /\ Frees(p)
    /\ UNCHANGED <<tip, reach, base, co, job, step, warned, orphan, runs>>

\* SIGINT or SIGTERM: the lock is given back, and git stops or goes on.
Signalled(p) ==
    /\ rpc[p] \in {"lock", "git"} /\ RepoFault
    /\ rpc' = [rpc EXCEPT ![p] = "off"]
    /\ Frees(p)
    /\ orphan' = IF reach = "alone" /\ rpc[p] = "git" /\ Able(job[p], Step(p))
                   THEN orphan \cup {[job |-> job[p], git |-> Step(p)]} ELSE orphan
    /\ UNCHANGED <<tip, reach, base, co, job, step, warned, runs>>

\* A crash, of git too, leaves the lock behind.
Killed(p) ==
    /\ rpc[p] = "git" /\ RepoFault
    /\ rpc' = [rpc EXCEPT ![p] = "off"]
    /\ esp' = "gone"
    /\ UNCHANGED <<tip, reach, base, co, job, step, warned, orphan, runs>>

RepoStep(p) == Take(p) \/ GiveUp(p) \/ GitDone(p) \/ GitWarns(p) \/ GitFails(p)

-----------------------------------------------------------------------------
(* Everyone else *)

OrphanEnds ==
    \E o \in orphan :
       /\ IF Able(o.job, o.git) THEN After(o.job, o.git) ELSE UNCHANGED <<base, co>>
       /\ orphan' = orphan \ {o}
       /\ UNCHANGED <<tip, reach, esp, rpc, job, step, warned, runs, repoFaults>>

\* A new commit on a branch, or a new tag.
Publishes ==
    \E n \in Name :
       /\ tip[n] < IF n \in Tag THEN 1 ELSE MaxCommit
       /\ tip' = [tip EXCEPT ![n] = @ + 1]
       /\ UNCHANGED <<reach, base, co, esp, rpc, job, step, warned, orphan, runs, repoFaults>>

\* A user removes a checkout no command is at, and a lock that was left.
AtWork(d) ==
    \/ \E p \in User : rpc[p] = "git" /\ job[p].cmd = "checkout" /\ job[p].dest = d
    \/ \E o \in orphan : o.job.cmd = "checkout" /\ o.job.dest = d
Remove(d) ==
    /\ co[d].there /\ ~AtWork(d)
    /\ co' = [co EXCEPT ![d] = NoCheckout]
    /\ UNCHANGED <<tip, reach, base, esp, rpc, job, step, warned, orphan, runs, repoFaults>>

RemoveLock ==
    /\ esp = "gone" /\ \A p \in User : rpc[p] = "off"
    /\ esp' = NoOne
    /\ UNCHANGED <<tip, reach, base, co, rpc, job, step, warned, orphan, runs, repoFaults>>

RepoNext ==
    \/ \E p \in User : \/ RepoStep(p) \/ Signalled(p) \/ Killed(p)
                       \/ \E j \in Jobs : Begin(p, j)
    \/ OrphanEnds \/ Publishes \/ RemoveLock
    \/ \E d \in Dest : Remove(d)

RepoSpec == RepoInit /\ [][RepoNext]_repoVars

-----------------------------------------------------------------------------
(* Properties *)

RepoTypeOK ==
    /\ tip \in Tips /\ reach \in {"group", "alone"}
    /\ base \in [there : BOOLEAN, head : Commit \cup {NoCommit}, local : Tips,
                 remote : Tips, subs : SUBSET Commit]
    /\ co \in [Dest -> [there : BOOLEAN, names : Tips, head : Commit \cup {NoCommit},
                        mirrored : BOOLEAN, filled : BOOLEAN,
                        said : {"nothing", "warned", "done"}]]
    /\ esp \in User \cup {NoOne, "gone"}
    /\ rpc \in [User -> {"off", "lock", "git"}]
    /\ job \in [User -> Jobs \cup {NoJob}]
    /\ step \in [User -> 1..8]
    /\ warned \in [User -> BOOLEAN]
    /\ runs \in 0..MaxRuns /\ repoFaults \in 0..MaxRepoFaults

\* A checkout that ended without a warning is whole, and stays so: it is on a
\* commit, its submodule was filled, and the objects it borrows are in the
\* reference (checkout.c, from prepare_reference to the end), although other
\* commands and orphaned gits moved the reference meanwhile.
SilentMeansWhole ==
    \A d \in Dest : co[d].said = "done" =>
       /\ co[d].head # NoCommit /\ co[d].filled
       /\ co[d].mirrored => co[d].head \in base.subs

\* A finished checkout is its user's: no command touches it again, although
\* the destination is looked at before the lock is waited for and the look is
\* old when git clones into it (checkout.c:469).
FinishedIsLeftAlone ==
    [][\A d \in Dest : co[d].said # "nothing" =>
          co'[d] = co[d] \/ co'[d] = NoCheckout]_repoVars
=============================================================================
