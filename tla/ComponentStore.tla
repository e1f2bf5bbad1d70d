--------------------------- MODULE ComponentStore ---------------------------
(***************************************************************************)
(* What "ice idf component prepare" does to a project's disk: it reads or  *)
(* makes dependencies.lock, brings every locked component into             *)
(* managed_components/, and tells cmake what is there                      *)
(* (src/cmd/idf/component/prepare/prepare.c, fetch.c).                     *)
(*                                                                         *)
(* A file of a component is the version it came with, negative when it is  *)
(* not the one that was published, 0 when it is absent.  The path "marker" *)
(* is .component_hash.  How versions are chosen is ComponentResolve's      *)
(* business.  One prepare runs at a time.                                  *)
(***************************************************************************)
EXTENDS Integers

CONSTANTS
    Comp,        \* components
    Kind,        \* Kind[c]: from a registry, "hashed" or "plain", or "git"
    MaxRelease,      \* versions are 1..MaxRelease, published one after another
    File,        \* paths inside a component
    Ships,       \* Ships[v]: the files of version v
    None,        \* no lock file, no list, or no requirement
    UserLocks,   \* lock files a user or a checkout may put in place
    EditPoints,  \* the steps during which they do
    MaxEdits,    \* bound on what users do to locks and manifests
    MaxFaults    \* bound on failures, crashes and wrong archives

Number == 1..MaxRelease
Absent == 0
Broken == MaxRelease + 1  \* an archive that ends too early
Content == (-MaxRelease)..MaxRelease
Path == File \cup {"marker"}
Locks == UNION {[D -> Number] : D \in SUBSET Comp}
Service == {c \in Comp : Kind[c] # "git"}

\* What manifests require: components of registries, or an ESP-IDF alone, {}.
Requirements == (SUBSET Service) \cup {None}

ASSUME KindAssumption == Kind \in [Comp -> {"hashed", "plain", "git"}]
ASSUME MaxReleaseAssumption == MaxRelease \in Nat \ {0}
ASSUME FileAssumption == "marker" \notin File
ASSUME ShipsAssumption == Ships \in [Number -> SUBSET File]
ASSUME UserLocksAssumption == UserLocks \subseteq Locks
ASSUME NoneAssumption == None \notin Locks
ASSUME BoundsAssumption == MaxEdits \in Nat /\ MaxFaults \in Nat

VARIABLES
    wants,      \* what the manifests require, None for nothing
    published,  \* the newest version there is
    lock,       \* dependencies.lock
    zip,        \* zip[c]: managed_components/.c.zip
    tree,       \* tree[c]: the files of managed_components/c
    list,       \* the list made for cmake
    paths,      \* ... and the list of paths beside it
    step,         \* the step of prepare, "off" when none runs
    lf,         \* the lock file in memory
    rest,       \* entries still to be fetched
    cur,        \* the entry being fetched
    left,       \* files still to be removed or extracted
    edits, faults,
    moved       \* whether lock was edited since prepare looked for it

disk == <<lock, zip, tree, list, paths>>
world == <<wants, published, edits, moved>>
memory == <<lf, rest, cur, left>>
storeVars == <<world, faults, disk, step, memory>>

StoreInit ==
    /\ wants \in Requirements
    /\ published = 1
    /\ lock = None
    /\ zip = [c \in Comp |-> Absent]
    /\ tree = [c \in Comp |-> [f \in Path |-> Absent]]
    /\ list = None /\ paths = None
    /\ step = "off"
    /\ lf = None /\ rest = {} /\ cur \in Comp /\ left = {}
    /\ edits = 0 /\ faults = 0 /\ moved = FALSE

At(from, to) == step = from /\ step' = to
Fault == faults < MaxFaults /\ faults' = faults + 1
Looked == moved' = FALSE /\ UNCHANGED <<wants, published, edits>>

-----------------------------------------------------------------------------
(* The lock file *)

Start ==
    /\ step \in {"off", "done"} /\ step' = "load"
    /\ lf' = None /\ rest' = {} /\ left' = {}
    /\ Looked
    /\ UNCHANGED <<faults, disk, cur>>

\* A lock file is taken as it is, whatever the manifests say.
LoadLock ==
    /\ At("load", "next")
    /\ lock # None
    /\ lf' = lock /\ rest' = DOMAIN lock
    /\ Looked
    /\ UNCHANGED <<faults, disk, cur, left>>

\* Mutant: the lock file is not looked for.
SolveAlways ==
    /\ At("load", "save")
    /\ wants # None
    /\ \E D \in SUBSET Service : wants \subseteq D /\ lf' \in [D -> 1..published]
    /\ Looked
    /\ UNCHANGED <<faults, disk, rest, cur, left>>

\* Without one, what the manifests require is resolved, with what it requires
\* in turn.  Only components of registries are.
SolveAndSave ==
    /\ At("load", "save")
    /\ lock = None /\ wants # None
    /\ \E D \in SUBSET Service : wants \subseteq D /\ lf' \in [D -> 1..published]
    /\ Looked
    /\ UNCHANGED <<faults, disk, rest, cur, left>>

NothingWanted ==
    /\ At("load", "next")
    /\ lock = None /\ wants = None
    /\ Looked
    /\ UNCHANGED <<faults, disk, memory>>

\* lockfile_save: the file is there as a whole or not at all.
SaveLock ==
    /\ At("save", "next")
    /\ lock' = lf /\ rest' = DOMAIN lf
    /\ Looked
    /\ UNCHANGED <<faults, zip, tree, list, paths, lf, cur, left>>

-----------------------------------------------------------------------------
(* Fetching one component *)

Present(c) == {f \in Path : tree[c][f] # Absent}

\* Mutant: a clone starts without making room.
NextUnwiped ==
    /\ step = "next"
    /\ \E c \in rest :
          /\ rest' = rest \ {c} /\ cur' = c
          /\ step' = IF Kind[c] = "git" THEN "clone" ELSE "download"
          /\ left' = {}
    /\ UNCHANGED <<world, faults, disk, lf>>

\* The next entry of the lock file (the order is of no importance).
NextEntry ==
    /\ step = "next"
    /\ \E c \in rest :
          /\ rest' = rest \ {c} /\ cur' = c
          /\ step' = IF Kind[c] = "git" THEN "wipe" ELSE "download"
          /\ left' = IF Kind[c] = "git" THEN Present(c) ELSE {}
    /\ UNCHANGED <<world, faults, disk, lf>>

\* The archive of the locked version; a wrong or truncated one is a fault.
Download ==
    /\ At("download", "wipe")
    /\ \/ zip' = [zip EXCEPT ![cur] = lf[cur]] /\ UNCHANGED faults
       \/ Fault /\ \E z \in {-lf[cur], Broken} : zip' = [zip EXCEPT ![cur] = z]
    /\ left' = Present(cur)
    /\ UNCHANGED <<world, lock, tree, list, paths, lf, rest, cur>>

\* rmtree: one file after another; what cannot be removed stays, with no more
\* than a warning.
Remove ==
    /\ step \in {"wipe", "refuse"}
    /\ \E f \in left :
          /\ left' = left \ {f}
          /\ \/ tree' = [tree EXCEPT ![cur][f] = Absent] /\ UNCHANGED faults
             \/ Fault /\ UNCHANGED tree
    /\ UNCHANGED <<world, lock, zip, list, paths, step, lf, rest, cur>>

Wiped ==
    /\ left = {}
    /\ \/ At("wipe", "clone") /\ Kind[cur] = "git" /\ UNCHANGED left
       \/ /\ At("wipe", "extract") /\ Kind[cur] # "git" /\ zip[cur] # Broken
          /\ left' = Ships[lf[cur]]
    /\ UNCHANGED <<world, faults, disk, lf, rest, cur>>

\* zip_extract_all writes over what is there.
Extract ==
    /\ step = "extract"
    /\ \E f \in left :
          /\ left' = left \ {f}
          /\ tree' = [tree EXCEPT ![cur][f] = zip[cur]]
    /\ UNCHANGED <<world, faults, lock, zip, list, paths, step, lf, rest, cur>>

\* fetch_compute_dirhash, which does not look at the marker.
Shipped(v) == [f \in File |-> IF f \in Ships[v] THEN v ELSE Absent]
Exact(c, v) == \A f \in File : tree[c][f] = Shipped(v)[f]

\* Mutant: nothing is compared.
VerifyNothing ==
    /\ step = "extract" /\ left = {}
    /\ step' = IF Kind[cur] = "plain" THEN "tidy" ELSE "mark"
    /\ UNCHANGED <<world, faults, disk, memory>>

Verify ==
    /\ step = "extract" /\ left = {}
    /\ step' = IF Kind[cur] = "plain" THEN "tidy"
             ELSE IF Exact(cur, lf[cur]) THEN "mark" ELSE "refuse"
    /\ left' = IF step' = "refuse" THEN Present(cur) ELSE {}
    /\ UNCHANGED <<world, faults, disk, lf, rest, cur>>

\* .component_hash; failing to write it is not an error.
Mark ==
    /\ At("mark", "tidy")
    /\ \/ tree' = [tree EXCEPT ![cur]["marker"] = lf[cur]] /\ UNCHANGED faults
       \/ Fault /\ UNCHANGED tree
    /\ UNCHANGED <<world, lock, zip, list, paths, memory>>

Tidy ==
    /\ At("tidy", "next")
    /\ zip' = [zip EXCEPT ![cur] = Absent]
    /\ UNCHANGED <<world, faults, lock, tree, list, paths, memory>>

Unmarked(t) == [f \in Path |-> IF f = "marker" THEN Absent ELSE t[f]]

\* git clone wants an empty directory, and leaves the newest version.
Clone ==
    /\ At("clone", "checkout")
    /\ Present(cur) = {}
    /\ tree' = [tree EXCEPT ![cur] = Unmarked(Shipped(published))]
    /\ UNCHANGED <<world, faults, lock, zip, list, paths, memory>>

Checkout ==
    /\ At("checkout", "next")
    /\ tree' = [tree EXCEPT ![cur] = Unmarked(Shipped(lf[cur]))]
    /\ UNCHANGED <<world, faults, lock, zip, list, paths, memory>>

-----------------------------------------------------------------------------
(* The end *)

Entries == IF lf = None THEN [c \in {} |-> 1] ELSE lf

\* The two lists are replaced one after the other.
EmitList ==
    /\ At("next", "emit") /\ rest = {}
    /\ list' = Entries
    /\ UNCHANGED <<world, faults, lock, zip, tree, paths, memory>>

EmitPaths ==
    /\ At("emit", "done")
    /\ paths' = Entries
    /\ UNCHANGED <<world, faults, lock, zip, tree, list, memory>>

\* A wrong archive, a truncated one, a directory git does not accept: die(),
\* and on the way out of fetch_service the archive goes.
Refused ==
    /\ \/ step = "refuse" /\ left = {}
       \/ step = "wipe" /\ left = {} /\ Kind[cur] # "git" /\ zip[cur] = Broken
       \/ step = "clone" /\ Present(cur) # {}
    /\ step' = "off"
    /\ zip' = [zip EXCEPT ![cur] = Absent]
    /\ UNCHANGED <<world, faults, lock, tree, list, paths, memory>>

\* Any other failure, or the end of the process, at any step; an archive in the
\* making is removed or, by a crash, left as it is.
Running == step \notin {"off", "done"}
Fails ==
    /\ Running /\ Fault
    /\ step' = "off"
    /\ \/ UNCHANGED zip
       \/ /\ step \in {"download", "wipe", "extract"} /\ Kind[cur] # "git"
          /\ zip' = [zip EXCEPT ![cur] = Absent]
       \/ step = "download" /\ zip' = [zip EXCEPT ![cur] = Broken]
    /\ UNCHANGED <<world, lock, tree, list, paths, memory>>

\* A clone or a checkout that fails leaves any part of what it was to make.
GitFails ==
    /\ \/ step = "clone" /\ Present(cur) = {}
       \/ step = "checkout"
    /\ Fault
    /\ step' = "off"
    /\ \E t \in [File -> {Absent, published, lf[cur]}] :
          tree' = [tree EXCEPT ![cur] = Unmarked(t)]
    /\ UNCHANGED <<world, lock, zip, list, paths, memory>>

-----------------------------------------------------------------------------
(* What happens around it *)

Publish ==
    /\ published < MaxRelease /\ published' = published + 1
    /\ UNCHANGED <<wants, edits, moved, faults, disk, step, memory>>

Edit == edits < MaxEdits /\ edits' = edits + 1

EditManifests ==
    /\ Edit
    /\ wants' \in Requirements
    /\ UNCHANGED <<published, moved, faults, disk, step, memory>>

\* A user removes the lock file, or a checkout brings another.
EditLock ==
    /\ Edit
    /\ step \in EditPoints
    /\ lock' \in {None} \cup {l \in UserLocks : \A c \in DOMAIN l : l[c] <= published}
    /\ moved' = TRUE
    /\ UNCHANGED <<wants, published, faults, zip, tree, list, paths, step, memory>>

Step ==
    \/ LoadLock \/ SolveAndSave \/ NothingWanted \/ SaveLock
    \/ NextEntry \/ Download \/ Remove \/ Wiped \/ Extract \/ Verify
    \/ Mark \/ Tidy \/ Clone \/ Checkout \/ EmitList \/ EmitPaths \/ Refused

StoreNext ==
    \/ Start \/ Step \/ Fails \/ GitFails
    \/ Publish \/ EditManifests \/ EditLock

StoreSpec == StoreInit /\ [][StoreNext]_storeVars

\* A prepare that has been started runs; nobody needs to start one.
FairStoreSpec == StoreSpec /\ WF_storeVars(Step)

-----------------------------------------------------------------------------
(* Properties *)

StoreTypeOK ==
    /\ wants \in Requirements /\ published \in Number
    /\ lock \in Locks \cup {None} /\ lf \in Locks \cup {None}
    /\ zip \in [Comp -> Content \cup {Broken}]
    /\ tree \in [Comp -> [Path -> Content]]
    /\ list \in Locks \cup {None} /\ paths \in Locks \cup {None}
    /\ step \in {"off", "load", "save", "next", "download", "wipe", "extract",
               "mark", "tidy", "refuse", "clone", "checkout", "emit", "done"}
    /\ rest \subseteq DOMAIN Entries
    /\ cur \in Comp /\ left \subseteq Path
    /\ edits \in 0..MaxEdits /\ faults \in 0..MaxFaults /\ moved \in BOOLEAN

\* When prepare returns 0, cmake is told of the locked components and no
\* others, and what is on disk for each is the published version, file by
\* file, if the lock file has its hash or it comes from git; without a hash
\* all its files are at least there.  Whatever an earlier run left, whatever
\* archive was served.
ListedIsThere ==
    step = "done" =>
      /\ list = Entries /\ paths = Entries
      /\ \A c \in DOMAIN Entries :
            IF Kind[c] = "plain"
              THEN \A f \in Ships[lf[c]] : tree[c][f] \in {lf[c], -lf[c]}
              ELSE Exact(c, lf[c])

\* An existing dependencies.lock pins the versions, whatever is published or
\* edited and whenever: what prepare works with is what the file says, unless
\* somebody edits it under its feet, and prepare changes no lock file that was
\* there when it looked.  The one it can replace has appeared since, between
\* the look and the save (prepare.c:721), with the network in between.
PinHolds ==
    [][ /\ lock # None /\ lock' # lock /\ edits' = edits => step = "save" /\ moved
        /\ step' \notin {"off", "load", "save"} /\ ~moved' => lf' = lock' ]_storeVars

\* No failure and no crash leaves anything that makes a later run fail: one
\* that meets no fault of its own succeeds.
Recovers == step = "load" /\ faults = MaxFaults ~> step = "done"
=============================================================================
