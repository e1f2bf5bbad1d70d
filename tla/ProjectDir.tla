----------------------------- MODULE ProjectDir -----------------------------
(***************************************************************************)
(* The life of a project's build directory under ice init, ice build, ice  *)
(* clean and the commands that need a built project (ice flash ...), run   *)
(* by several processes at once, each of which may fail or be interrupted  *)
(* at any step: cmd_init, project_build, cmd_clean, cmd___flash and        *)
(* setup_project.                                                          *)
(*                                                                         *)
(* One profile.  The lock files are LockFile's: here taking one is a step, *)
(* and a process that dies by die() or Ctrl-C gives its locks back.  cmake *)
(* and ninja are external: what they leave in the directory when they end, *)
(* well or not, and while they replace or remove binaries one by one, is   *)
(* all that is said of them.                                               *)
(***************************************************************************)
EXTENDS Naturals

CONSTANTS
    Proc,        \* ice processes
    Setting,     \* what ice init can be asked for: chip, IDF, ...
    MaxEdits,    \* bound on the edits of the sources and of sdkconfig
    KeepStarting, \* bound: whether users start more beside an ice init that
                 \* has run beside a command, or wait until all are over
    Commands,    \* the commands users run
    BuildAlways, \* the values core.build-always has
    MayFail,     \* the steps at which a process may fail or be interrupted
    None         \* nothing there

Yes == "yes"
ASSUME NoneAssumption == None \notin Proc /\ None \notin Setting /\ None # Yes
ASSUME NoneIsNoEdit == None \notin 0..MaxEdits
ASSUME BuildAlwaysAssumption == BuildAlways \subseteq BOOLEAN
ASSUME BoundsAssumption == MaxEdits \in Nat /\ KeepStarting \in BOOLEAN
ASSUME CommandsAssumption == Commands \subseteq {"init", "build", "clean", "flash"}

\* What the build directory may hold, each with None when it does not.
Item == {"cache",      \* CMakeCache.txt: the setting it was configured for
         "args",       \* flasher_args.json: setting and edit it was made from
         "image",      \* the linked binaries: likewise
         "configured", \* .ice/configured
         "built",      \* .ice/built
         "lock"}       \* .ice/lock: the process that made it

DotIce == {"configured", "built", "lock"}

VARIABLES
    config,     \* the profile in .ice/config: a setting or None
    configLock, \* .ice/config.lock: a process or None
    dir,        \* dir[x]: item x of the build directory
    dotIce,     \* whether <build>/.ice is there
    edits,      \* edits of the sources so far
    pc, cmd,    \* pc[p]: the step process p is at, of command cmd[p]
    mine,       \* mine[p]: the setting p's ice init is for
    left,       \* left[p]: items p's rmtree has still to remove
    seen,       \* seen[p]: what setup_project read of flasher_args.json
    linking,    \* linking[p]: what p's ninja is linking
    asked,      \* asked[p]: the edits p's build has to take in
    course,     \* how the directory came to be what it is: see Recorded
    upset       \* upset[p]: the commands that came between since p's began

disk == <<config, configLock, dir, dotIce>>
local == <<cmd, mine, left, seen, linking, asked>>
vars == <<disk, edits, pc, local, course, upset>>

Steps == {"idle", "wipe", "wipeFailed", "mkdir", "initLock", "cmake", "mark", "commit",
          "unbuilt", "setup", "buildLock", "ninja", "link", "touch", "release", "failed",
          "cleaning", "removing", "flashing"}

\* What sources make, and binaries of which some are there or up to date and
\* others not.
Version == [setting : Setting, edit : 0..MaxEdits]
Mix(s) == [setting |-> s, edit |-> None]
Image == Version \cup {Mix(s) : s \in Setting}
Current == [setting |-> dir["cache"], edit |-> edits]
ASSUME NoneIsNoImage == None \notin Image

Init ==
    /\ config = None /\ configLock = None
    /\ dir = [x \in Item |-> None] /\ dotIce = FALSE
    /\ edits = 0
    /\ pc = [p \in Proc |-> "idle"]
    /\ cmd = [p \in Proc |-> None]
    /\ mine = [p \in Proc |-> None]
    /\ left = [p \in Proc |-> {}]
    /\ seen = [p \in Proc |-> None]
    /\ linking = [p \in Proc |-> None]
    /\ asked = [p \in Proc |-> None]
    /\ course = "whole"
    /\ upset = [p \in Proc |-> {}]

Goto(p, s) == pc' = [pc EXCEPT ![p] = s]
Put(x, v) == dir' = [dir EXCEPT ![x] = v]

\* A user starts a command, and its process comes to an end.
Idle == \A p \in Proc : pc[p] = "idle"
Initialising(p) ==
    pc[p] \in {"wipe", "wipeFailed", "mkdir", "initLock", "cmake", "mark", "commit", "unbuilt"}
Start(p, c) ==
    /\ pc[p] = "idle"
    /\ c \in Commands
    /\ course = "crossed" => Idle \/ KeepStarting
    /\ cmd' = [cmd EXCEPT ![p] = c]
End(p) ==
    /\ Goto(p, "idle")
    /\ cmd' = [cmd EXCEPT ![p] = None] /\ mine' = [mine EXCEPT ![p] = None]
    /\ left' = [left EXCEPT ![p] = {}] /\ seen' = [seen EXCEPT ![p] = None]
    /\ linking' = [linking EXCEPT ![p] = None] /\ asked' = [asked EXCEPT ![p] = None]

\* What cmake leaves when it configures p's profile, and what ninja leaves of
\* the flash layout when it re-runs cmake.
Configured(p) == [dir EXCEPT !["cache"] = mine[p],
                             !["args"] = [setting |-> mine[p], edit |-> edits]]
Relaid == [dir EXCEPT !["args"] = Current]

\* What p's step leaves when it fails or is interrupted: cmake may have
\* written its cache and the layout, ninja the layout.
Leaving(p) ==
    {dir} \cup CASE pc[p] = "cmake" -> {[dir EXCEPT !["cache"] = mine[p]], Configured(p)}
                [] pc[p] \in {"ninja", "cleaning"} /\ dir["cache"] # None -> {Relaid}
                [] OTHER -> {}

\* die(): the locks p holds are released by the exit handler.  Each path is
\* unlinked whoever made the file there.
Holds(p) == CASE pc[p] \in {"cmake", "mark", "commit"} -> {"config"}
              [] pc[p] \in {"ninja", "link", "touch", "release", "failed"} -> {"build"}
              [] OTHER -> {}
DieLeaving(p, d) ==
    /\ End(p)
    /\ configLock' = IF "config" \in Holds(p) THEN None ELSE configLock
    /\ dir' = IF "build" \in Holds(p) THEN [d EXCEPT !["lock"] = None] ELSE d
    /\ UNCHANGED <<config, edits>>
Die(p) == DieLeaving(p, dir) /\ UNCHANGED dotIce

\* An I/O error of a step that dies of it, or Ctrl-C, which ends cmake and
\* ninja too.
Fails(p) ==
    /\ pc[p] # "idle" /\ pc[p] \in MayFail
    /\ \E d \in Leaving(p) : DieLeaving(p, d)
    /\ UNCHANGED dotIce

-----------------------------------------------------------------------------
(* ice init *)

\* wipe_build_dir begins: the directory's entries, in readdir's order.
InitStart(p) ==
    /\ Start(p, "init")
    /\ \E s \in Setting : mine' = [mine EXCEPT ![p] = s]
    /\ left' = [left EXCEPT ![p] = {x \in Item : dir[x] # None}]
    /\ Goto(p, "wipe")
    /\ UNCHANGED <<disk, edits, seen, linking, asked>>

\* rmtree goes on after an entry that it cannot unlink.
WipeItem(p) ==
    /\ pc[p] \in {"wipe", "wipeFailed"}
    /\ \E x \in left[p] :
          /\ left' = [left EXCEPT ![p] = @ \ {x}]
          /\ \/ Put(x, None) /\ UNCHANGED pc
             \/ "wipe" \in MayFail /\ Goto(p, "wipeFailed") /\ UNCHANGED dir
    /\ UNCHANGED <<config, configLock, dotIce, edits, cmd, mine, seen, linking, asked>>

\* Mutant: rmtree's result is ignored.
WipeFailIgnored(p) ==
    /\ pc[p] \in {"wipe", "wipeFailed"} /\ left[p] = {}
    /\ Goto(p, "mkdir")
    /\ dotIce' = \E x \in DotIce : dir[x] # None
    /\ UNCHANGED <<config, configLock, dir, edits, local>>

\* rmdir of .ice fails when something is left or was put there meanwhile.
\* Without everything removed init gives up.
WipeEnds(p) ==
    /\ pc[p] \in {"wipe", "wipeFailed"} /\ left[p] = {}
    /\ IF pc[p] = "wipeFailed" \/ \E x \in DotIce : dir[x] # None
         THEN End(p) /\ UNCHANGED dotIce
         ELSE Goto(p, "mkdir") /\ dotIce' = FALSE /\ UNCHANGED local
    /\ UNCHANGED <<config, configLock, dir, edits>>

\* mkdirp(<build>/.ice/logs)
MakeLogDir(p) ==
    /\ pc[p] = "mkdir"
    /\ dotIce' = TRUE
    /\ Goto(p, "initLock")
    /\ UNCHANGED <<config, configLock, dir, edits, local>>

TakeConfigLock(p) ==
    /\ pc[p] = "initLock"
    /\ IF configLock = None
         THEN configLock' = p /\ Goto(p, "cmake") /\ UNCHANGED <<config, dir, dotIce, edits, local>>
         ELSE Die(p)

\* cmake_configure succeeds ...
Configure(p) ==
    /\ pc[p] = "cmake"
    /\ dir' = Configured(p)
    /\ Goto(p, "mark")
    /\ UNCHANGED <<config, configLock, dotIce, edits, local>>

\* ... or fails: its cache is unlinked and the lock released.
ConfigureFails(p) ==
    /\ pc[p] = "cmake"
    /\ \E d \in Leaving(p) : dir' = [d EXCEPT !["cache"] = None]
    /\ configLock' = None
    /\ End(p)
    /\ UNCHANGED <<config, dotIce, edits>>

\* write_file_atomic of the marker needs the directory.
MarkConfigured(p) ==
    /\ pc[p] = "mark"
    /\ IF dotIce
         THEN Put("configured", Yes) /\ Goto(p, "commit")
              /\ UNCHANGED <<config, configLock, dotIce, edits, local>>
         ELSE Die(p)

\* The lock file is written, renamed over .ice/config and forgotten.
CommitConfig(p) ==
    /\ pc[p] = "commit"
    /\ config' = mine[p]
    /\ configLock' = None
    /\ Goto(p, "unbuilt")
    /\ UNCHANGED <<dir, dotIce, edits, local>>

Unbuilt(p) ==
    /\ pc[p] = "unbuilt"
    /\ Put("built", None)
    /\ End(p)
    /\ UNCHANGED <<config, configLock, dotIce, edits>>

-----------------------------------------------------------------------------
(* setup_project, project_build and its callers *)

\* setup_project: "not an ice project" without a config.
SetupStart(p, c) ==
    /\ c # "init"
    /\ Start(p, c)
    /\ config # None
    /\ Goto(p, "setup")
    /\ UNCHANGED <<disk, edits, mine, left, seen, linking, asked>>

\* It dies without the configured marker, and reads flasher_args.json; then
\* a command that needs a build builds, or dies without the built marker.
Setup(p) ==
    /\ pc[p] = "setup"
    /\ \E always \in BuildAlways :
         IF \/ dir["configured"] = None
            \/ cmd[p] = "flash" /\ ~always /\ dir["built"] = None
           THEN Die(p)
           ELSE LET next == CASE cmd[p] = "clean" -> "cleaning"
                              [] cmd[p] = "flash" /\ ~always -> "flashing"
                              [] OTHER -> "buildLock"
                IN  /\ seen' = [seen EXCEPT ![p] = IF cmd[p] = "flash" THEN dir["args"] ELSE None]
                    /\ asked' = [asked EXCEPT ![p] = IF next = "buildLock" THEN edits ELSE None]
                    /\ Goto(p, next)
                    /\ UNCHANGED <<disk, edits, cmd, mine, left, linking>>

\* project_build takes <build>/.ice/lock, whose directory lock_acquire makes,
\* or dies when the file stays.
TakeBuildLock(p) ==
    /\ pc[p] = "buildLock"
    /\ dotIce' = TRUE
    /\ IF dir["lock"] = None
         THEN Put("lock", p) /\ Goto(p, "ninja")
              /\ UNCHANGED <<config, configLock, edits, local>>
         ELSE DieLeaving(p, dir)

\* ninja re-runs cmake when sdkconfig changed, and begins to bring up to date
\* the binaries that are not.
Ninja(p) ==
    /\ pc[p] = "ninja"
    /\ dir["cache"] # None
    /\ IF dir["image"] = Current
         THEN dir' = Relaid /\ Goto(p, "touch") /\ UNCHANGED linking
         ELSE /\ dir' = [Relaid EXCEPT !["image"] = Mix(dir["cache"])]
              /\ linking' = [linking EXCEPT ![p] = Current]
              /\ Goto(p, "link")
    /\ UNCHANGED <<config, configLock, dotIce, edits, cmd, mine, left, seen, asked>>

\* The last of them is linked.  What another command removed or replaced
\* meanwhile is there or not.
LinkEnds(p) ==
    /\ pc[p] = "link"
    /\ \E i \in {linking[p]} \cup IF upset[p] = {} THEN {} ELSE {None, Mix(linking[p].setting)} : Put("image", i)
    /\ linking' = [linking EXCEPT ![p] = None]
    /\ Goto(p, "touch")
    /\ UNCHANGED <<config, configLock, dotIce, edits, cmd, mine, left, seen, asked>>

\* Mutant: ninja's exit code is ignored.
NinjaFailIgnored(p) ==
    /\ pc[p] \in {"ninja", "link"}
    /\ dir' \in Leaving(p)
    /\ Goto(p, "touch")
    /\ UNCHANGED <<config, configLock, dotIce, edits, local>>

\* ninja fails, before or after it replaced some of the binaries.
NinjaFails(p) ==
    /\ pc[p] \in {"ninja", "link"}
    /\ dir' \in Leaving(p)
    /\ linking' = [linking EXCEPT ![p] = None]
    /\ Goto(p, "failed")
    /\ UNCHANGED <<config, configLock, dotIce, edits, cmd, mine, left, seen, asked>>

\* The marker, with a warning when it cannot be written.
MarkBuilt(p) ==
    /\ pc[p] = "touch"
    /\ IF dotIce THEN Put("built", Yes) ELSE UNCHANGED dir
    /\ Goto(p, "release")
    /\ UNCHANGED <<config, configLock, dotIce, edits, local>>

ReleaseBuildLock(p) ==
    /\ pc[p] \in {"release", "failed"}
    /\ Put("lock", None)
    /\ IF cmd[p] = "flash" /\ pc[p] = "release" THEN Goto(p, "flashing") /\ UNCHANGED local ELSE End(p)
    /\ UNCHANGED <<config, configLock, dotIce, edits>>

\* cmd_clean, without a lock: ninja, which re-runs cmake here too, removes the
\* binaries one by one and keeps cmake's files ...
CleanBegins(p) ==
    /\ pc[p] = "cleaning"
    /\ dir["cache"] # None /\ dir["image"] # None
    /\ dir' = [Relaid EXCEPT !["image"] = Mix(dir["image"].setting)]
    /\ Goto(p, "removing")
    /\ UNCHANGED <<config, configLock, dotIce, edits, local>>

CleanEnds(p) ==
    /\ pc[p] = "removing"
    /\ \E i \in {None} \cup IF "build" \in upset[p] /\ dir["image"] # None
                              THEN {dir["image"], Mix(dir["image"].setting)} ELSE {} : Put("image", i)
    /\ End(p)
    /\ UNCHANGED <<config, configLock, dotIce, edits>>

\* ... or finds nothing to remove, or no cache, or fails before it does.
CleanStops(p) ==
    /\ pc[p] = "cleaning"
    /\ dir' \in Leaving(p)
    /\ End(p)
    /\ UNCHANGED <<config, configLock, dotIce, edits>>

\* cmd___flash writes the files setup_project listed, where it listed them.
Flash(p) ==
    /\ pc[p] = "flashing"
    /\ End(p)
    /\ UNCHANGED <<disk, edits>>

\* The user edits the sources or sdkconfig.
Edit ==
    /\ edits < MaxEdits
    /\ edits' = edits + 1
    /\ UNCHANGED <<disk, pc, local>>

-----------------------------------------------------------------------------
(* What is recorded of a behaviour for the properties. *)

\* course: "crossed" from when an init runs beside another command until an
\* init that is alone has emptied the directory; "torn" from when an init
\* begins to wipe until it has, and from its marker until its commit; "whole"
\* otherwise.
Empty == \A x \in Item : dir[x] = None
Crossing == \E p, q \in Proc : Initialising(p) /\ q # p /\ pc[q] # "idle"
At(S) == \E p \in Proc : pc[p] \in S

\* upset: what removes or replaces binaries while p is in the middle of linking,
\* removing or using them.
Working == {"link", "touch", "release", "removing", "flashing"}
Changing(q) == CASE pc[q] \in {"wipe", "wipeFailed"} -> {"init"}
                 [] pc[q] = "link" -> {"build"}
                 [] pc[q] = "removing" -> {"clean"}
                 [] OTHER -> {}
Others(p) == UNION {Changing(q) : q \in Proc \ {p}}

Recorded ==
    /\ course' = IF Crossing' THEN "crossed"
                 ELSE IF (At({"mkdir"}) /\ Empty)' THEN "whole"
                 ELSE IF course = "crossed" THEN "crossed"
                 ELSE IF At({"wipe", "wipeFailed", "commit"})' THEN "torn"
                 ELSE IF At({"unbuilt"})' THEN "whole" ELSE course
    /\ upset' = [p \in Proc |-> IF pc'[p] \in Working THEN upset[p] \cup Others(p)' ELSE {}]

-----------------------------------------------------------------------------
InitCommand(p) ==
    \/ InitStart(p) \/ WipeItem(p) \/ WipeEnds(p) \/ MakeLogDir(p)
    \/ TakeConfigLock(p) \/ Configure(p) \/ ConfigureFails(p)
    \/ MarkConfigured(p) \/ CommitConfig(p) \/ Unbuilt(p)

OtherCommand(p) ==
    \/ \E c \in Commands : SetupStart(p, c)
    \/ Setup(p) \/ TakeBuildLock(p) \/ Ninja(p) \/ LinkEnds(p) \/ NinjaFails(p)
    \/ MarkBuilt(p) \/ ReleaseBuildLock(p)
    \/ CleanBegins(p) \/ CleanEnds(p) \/ CleanStops(p) \/ Flash(p)

Next ==
    /\ \/ \E p \in Proc : InitCommand(p) \/ OtherCommand(p) \/ Fails(p)
       \/ Edit
    /\ Recorded

Spec == Init /\ [][Next]_vars

-----------------------------------------------------------------------------
(* Properties *)

TypeOK ==
    /\ config \in Setting \cup {None}
    /\ configLock \in Proc \cup {None}
    /\ DOMAIN dir = Item
    /\ dir["cache"] \in Setting \cup {None}
    /\ dir["args"] \in Version \cup {None}
    /\ dir["image"] \in Image \cup {None}
    /\ \A x \in {"configured", "built"} : dir[x] \in {Yes, None}
    /\ dir["lock"] \in Proc \cup {None}
    /\ dotIce \in BOOLEAN
    /\ edits \in 0..MaxEdits
    /\ pc \in [Proc -> Steps]
    /\ cmd \in [Proc -> Commands \cup {None}]
    /\ mine \in [Proc -> Setting \cup {None}]
    /\ left \in [Proc -> SUBSET Item]
    /\ seen \in [Proc -> Version \cup {None}]
    /\ linking \in [Proc -> Version \cup {None}]
    /\ asked \in [Proc -> (0..MaxEdits) \cup {None}]
    /\ course \in {"whole", "torn", "crossed"}
    /\ upset \in [Proc -> SUBSET {"init", "clean", "build"}]

\* What any command that does not run beside an ice init leaves, wherever it
\* fails or is interrupted: the cache, the layout and the binaries that are
\* there are of one setting.  And the windows in which a directory can be taken
\* for a configured one that is not are no more than two, the wipe and the
\* one between the marker and the commit: outside them the marker says that the
\* directory is configured, for the profile that .ice/config holds, and the
\* built marker is over such a directory (init.c:1052-1058).
DirectoryIsOne ==
    /\ course # "crossed" =>
          /\ dir["args"] # None /\ dir["cache"] # None => dir["args"].setting = dir["cache"]
          /\ dir["image"] # None /\ dir["cache"] # None => dir["image"].setting = dir["cache"]
          /\ dir["image"] # None /\ dir["args"] # None => dir["image"].setting = dir["args"].setting
    /\ course = "whole" =>
          /\ dir["configured"] # None =>
                 config # None /\ dir["cache"] = config /\ dir["args"] # None
          /\ dir["built"] # None => dir["configured"] # None

\* The binaries are all of one version, of the setting that the directory is
\* configured for and no older than what p's build was asked for.
WholeFor(p) ==
    /\ dir["image"] \in Version
    /\ dir["image"].setting = dir["cache"]
    /\ dir["image"].edit >= asked[p]

\* "Always run ninja, regardless of the built marker" (cmake.c:309-317): what a
\* process marks as built under its lock, and what it goes on to flash, is the
\* whole of what it was asked to build, whatever failed or was interrupted
\* before.  The build lock is enough against other builds and flashes; ice
\* clean takes none, and ice init removes it.
BuildIsWhole ==
    course # "crossed" =>
       \A p \in Proc :
          /\ pc[p] \in {"touch", "release"} /\ "clean" \notin upset[p] => WholeFor(p)
          /\ pc[p] = "flashing" /\ asked[p] # None /\ upset[p] = {} => WholeFor(p)

\* "A partial-init state the rest of ice would key off of never exists"
\* (init.c:1056-1058): what setup_project accepts as configured is configured
\* for the profile that .ice/config holds.
Accepted == config # None /\ dir["configured"] # None
NoPartialInit == Idle /\ Accepted => dir["cache"] = config

\* "On success the built marker advertises to other commands that the build tree
\* is in a self-consistent state" (build.c:133-135): the binaries of a directory
\* that is marked as built are there, all of one version.
BuiltIsBuilt ==
    Idle /\ course = "whole" /\ dir["built"] # None =>
       dir["image"] \in Version /\ dir["image"].setting = dir["cache"]

\* "ice flash will rebuild the project first if anything changed"
\* (getting-started.c): with nobody else around, the layout it writes to the
\* device is the one of the image it writes.
FlashedAsBuilt ==
    \A p \in Proc :
       pc[p] = "flashing" /\ (\A q \in Proc \ {p} : pc[q] = "idle")
          => seen[p] = dir["image"]
=============================================================================
