------------------------------ MODULE LockFile ------------------------------
(***************************************************************************)
(* The lock files of src/fs.c: lock_acquire, lock_release, lock_forget,    *)
(* and the exit and signal handlers that clean up after them.              *)
(*                                                                         *)
(* A lock is a file: holding it means having created it with O_EXCL.  Each *)
(* process also keeps a registry (held_locks) of the paths it holds, so    *)
(* that exit() and SIGINT/SIGTERM can unlink them.  The file and the       *)
(* registry change in separate steps, and a signal may land between any    *)
(* two of them; `pc' names the places where it can.                        *)
(*                                                                         *)
(* The registry is a set: a process never registers a path twice and every *)
(* loop of the code visits all of it, so its order tells nothing apart.    *)
(***************************************************************************)
EXTENDS Naturals, FiniteSets

CONSTANTS
    Proc,         \* ice processes
    Path,         \* lock file paths
    LOCK_MAX,     \* capacity of a process's registry
    MaxPolls,     \* MaxPolls[x]: retries timeout_ms allows on path x, 0 = try once
    SignalPoints, \* the places at which SIGINT or SIGTERM may be delivered
    MayBeKilled   \* whether SIGKILL (or a power cut of one process) happens

ASSUME LockMaxAssumption == LOCK_MAX \in Nat \ {0}
ASSUME PathsFinite == IsFiniteSet(Path)
ASSUME PollsAssumption == MaxPolls \in [Path -> Nat]

\* What a lock path names: nothing, or a file made by a process that is
\* alive (the process) or no longer alive (Stale).
Absent == "absent"
Stale  == "stale"
ASSUME NamesAssumption == Absent \notin Proc /\ Stale \notin Proc

\* Where a process can be.
Places ==
    {"run",         \* between two calls of this file
     "open",        \* in lock_acquire's loop
     "created",     \* file made, handlers and registry not yet
     "unlinked",    \* in lock_release, after unlink, before deregistering
     "renamed",     \* lock file renamed over its target, before lock_forget
     "exiting",     \* in lock_atexit_cleanup
     "exitUnlinked",\* ... after an unlink, before the entry is cleared
     "handler",     \* in lock_signal_cleanup
     "dead"}        \* not running

ASSUME SignalAssumption == SignalPoints \subseteq Places \ {"dead"}

VARIABLES
    file,      \* file[x]: who made the file at path x, see above
    pc,        \* pc[p]: where process p is
    arg,       \* arg[p]: the path of p's current call
    reg,       \* reg[p]: held_locks
    installed, \* installed[p]: lock_handlers_registered
    todo,      \* todo[p]: entries the signal handler has still to unlink
    polls      \* polls[p]: retries left before the deadline

lockVars == <<file, pc, arg, reg, installed, todo, polls>>

Init ==
    /\ file = [x \in Path |-> Absent]
    /\ pc = [p \in Proc |-> "dead"]
    /\ arg \in [Proc -> Path]
    /\ reg = [p \in Proc |-> {}]
    /\ installed = [p \in Proc |-> FALSE]
    /\ todo = [p \in Proc |-> {}]
    /\ polls = [p \in Proc |-> 0]

Goto(p, place) == pc' = [pc EXCEPT ![p] = place]

-----------------------------------------------------------------------------
(* lock_acquire *)

\* Mutant: the capacity check lets one too many in.
AcquireOneMore(p, x) ==
    /\ pc[p] = "run"
    /\ Cardinality(reg[p]) <= LOCK_MAX
    /\ Goto(p, "open")
    /\ arg' = [arg EXCEPT ![p] = x]
    /\ polls' = [polls EXCEPT ![p] = MaxPolls[x]]
    /\ UNCHANGED <<file, reg, installed, todo>>

\* Entry: a full registry is refused (EMFILE, nothing changes), otherwise
\* the deadline is set and the loop entered.
Acquire(p, x) ==
    /\ pc[p] = "run"
    /\ Cardinality(reg[p]) < LOCK_MAX
    /\ Goto(p, "open")
    /\ arg' = [arg EXCEPT ![p] = x]
    /\ polls' = [polls EXCEPT ![p] = MaxPolls[x]]
    /\ UNCHANGED <<file, reg, installed, todo>>

\* Mutant: open() without O_EXCL.
CreateOverExisting(p) ==
    /\ pc[p] = "open"
    /\ file' = [file EXCEPT ![arg[p]] = p]
    /\ Goto(p, "created")
    /\ UNCHANGED <<arg, reg, installed, todo, polls>>

\* open(O_CREAT|O_EXCL) makes the file.
Create(p) ==
    /\ pc[p] = "open"
    /\ file[arg[p]] = Absent
    /\ file' = [file EXCEPT ![arg[p]] = p]
    /\ Goto(p, "created")
    /\ UNCHANGED <<arg, reg, installed, todo, polls>>

\* Mutant: the deadline is not looked at.
PollPastDeadline(p) ==
    /\ pc[p] = "open"
    /\ file[arg[p]] # Absent
    /\ polls' = [polls EXCEPT ![p] = @ - 1]
    /\ UNCHANGED <<file, pc, arg, reg, installed, todo>>

\* EEXIST before the deadline: sleep LOCK_POLL_MS and try again.
Poll(p) ==
    /\ pc[p] = "open"
    /\ file[arg[p]] # Absent
    /\ polls[p] > 0
    /\ polls' = [polls EXCEPT ![p] = @ - 1]
    /\ UNCHANGED <<file, pc, arg, reg, installed, todo>>

\* Mutant: only an error other than EEXIST ends the loop.
FailsOnErrorOnly(p) ==
    /\ pc[p] = "open"
    /\ file[arg[p]] = Absent
    /\ Goto(p, "run")
    /\ UNCHANGED <<file, arg, reg, installed, todo, polls>>

\* EEXIST with no time left, or another error of open(): -1 to the caller.
AcquireFails(p) ==
    /\ pc[p] = "open"
    /\ \/ file[arg[p]] # Absent /\ polls[p] = 0
       \/ file[arg[p]] = Absent
    /\ Goto(p, "run")
    /\ UNCHANGED <<file, arg, reg, installed, todo, polls>>

\* The handlers are installed once, and the path registered.
Register(p) ==
    /\ pc[p] = "created"
    /\ reg' = [reg EXCEPT ![p] = @ \cup {arg[p]}]
    /\ installed' = [installed EXCEPT ![p] = TRUE]
    /\ Goto(p, "run")
    /\ UNCHANGED <<file, arg, todo, polls>>

-----------------------------------------------------------------------------
(* lock_release, and rename + lock_forget *)

\* Mutant: a path this process does not hold is unlinked as well.
ReleaseAny(p, x) ==
    /\ pc[p] = "run"
    /\ file' = [file EXCEPT ![x] = Absent]
    /\ arg' = [arg EXCEPT ![p] = x]
    /\ Goto(p, "unlinked")
    /\ UNCHANGED <<reg, installed, todo, polls>>

\* lock_release: unlink comes first.  A path not in the registry is ignored.
ReleaseUnlink(p, x) ==
    /\ pc[p] = "run"
    /\ x \in reg[p]
    /\ file' = [file EXCEPT ![x] = Absent]
    /\ arg' = [arg EXCEPT ![p] = x]
    /\ Goto(p, "unlinked")
    /\ UNCHANGED <<reg, installed, todo, polls>>

\* The callers of lock_forget (config_write_file, ice init) first rename the
\* lock file over its target; the lock path then names nothing.
RenameOver(p, x) ==
    /\ pc[p] = "run"
    /\ x \in reg[p]
    /\ file[x] # Absent
    /\ file' = [file EXCEPT ![x] = Absent]
    /\ arg' = [arg EXCEPT ![p] = x]
    /\ Goto(p, "renamed")
    /\ UNCHANGED <<reg, installed, todo, polls>>

\* The end of lock_release, and the whole of lock_forget: free the entry and
\* move the last one into its place.  A handler running between the two reads
\* a freed string: it unlinks this path or none, and both are among what the
\* states before and after this step allow.
Deregister(p) ==
    /\ pc[p] \in {"unlinked", "renamed"}
    /\ reg' = [reg EXCEPT ![p] = @ \ {arg[p]}]
    /\ Goto(p, "run")
    /\ UNCHANGED <<file, arg, installed, todo, polls>>

-----------------------------------------------------------------------------
(* Ends of a process *)

\* die() or return from main: exit() runs lock_atexit_cleanup, when installed.
Exit(p) ==
    /\ pc[p] = "run"
    /\ Goto(p, "exiting")
    /\ UNCHANGED <<file, arg, reg, installed, todo, polls>>

ExitUnlink(p) ==
    /\ pc[p] = "exiting"
    /\ \E x \in reg[p] :
          /\ file' = [file EXCEPT ![x] = Absent]
          /\ arg' = [arg EXCEPT ![p] = x]
    /\ Goto(p, "exitUnlinked")
    /\ UNCHANGED <<reg, installed, todo, polls>>

ExitClear(p) ==
    /\ pc[p] = "exitUnlinked"
    /\ reg' = [reg EXCEPT ![p] = @ \ {arg[p]}]
    /\ Goto(p, "exiting")
    /\ UNCHANGED <<file, arg, installed, todo, polls>>

\* What p leaves behind when it ends: files nobody alive will remove.
Abandon(p) == file' = [x \in Path |-> IF file[x] = p THEN Stale ELSE file[x]]

Dead(p) ==
    /\ Goto(p, "dead")
    /\ Abandon(p)
    /\ reg' = [reg EXCEPT ![p] = {}]
    /\ installed' = [installed EXCEPT ![p] = FALSE]
    /\ todo' = [todo EXCEPT ![p] = {}]
    /\ UNCHANGED <<arg, polls>>

\* Mutant: exit() without the atexit handler.
ExitEndsAtOnce(p) == pc[p] = "exiting" /\ Dead(p)

ExitEnds(p) == pc[p] = "exiting" /\ reg[p] = {} /\ Dead(p)

\* SIGINT or SIGTERM.  Before the handlers are installed the signal just ends
\* the process; after, the handler starts over the whole registry, and a
\* second signal starts it again on top of the first.
Signal(p) ==
    /\ pc[p] \in SignalPoints
    /\ \/ /\ ~installed[p]
          /\ Dead(p)
       \/ /\ installed[p]
          /\ Goto(p, "handler")
          /\ todo' = [todo EXCEPT ![p] = reg[p]]
          /\ UNCHANGED <<file, arg, reg, installed, polls>>

HandlerUnlink(p) ==
    /\ pc[p] = "handler"
    /\ \E x \in todo[p] :
          /\ file' = [file EXCEPT ![x] = Absent]
          /\ todo' = [todo EXCEPT ![p] = @ \ {x}]
    /\ UNCHANGED <<pc, arg, reg, installed, polls>>

\* _exit(128 + sig): no atexit handler runs.
HandlerEnds(p) == pc[p] = "handler" /\ todo[p] = {} /\ Dead(p)

Kill(p) == MayBeKilled /\ pc[p] # "dead" /\ Dead(p)

-----------------------------------------------------------------------------
(* Outside the code: the user starts ice, and removes a stale lock as the
   message of the lock's caller says, "if no ice is running". *)

Start(p) ==
    /\ pc[p] = "dead"
    /\ Goto(p, "run")
    /\ UNCHANGED <<file, arg, reg, installed, todo, polls>>

UserRemoves(x) ==
    /\ file[x] = Stale
    /\ \A p \in Proc : pc[p] = "dead"
    /\ file' = [file EXCEPT ![x] = Absent]
    /\ UNCHANGED <<pc, arg, reg, installed, todo, polls>>

-----------------------------------------------------------------------------
\* The steps a started process takes by itself, with nobody's help.
Step(p) ==
    \/ Create(p) \/ Poll(p) \/ AcquireFails(p) \/ Register(p) \/ Deregister(p)
    \/ ExitUnlink(p) \/ ExitClear(p) \/ ExitEnds(p)
    \/ HandlerUnlink(p) \/ HandlerEnds(p)

Call(p) == Exit(p) \/ \E x \in Path :
              Acquire(p, x) \/ ReleaseUnlink(p, x) \/ RenameOver(p, x)

Next ==
    \/ \E p \in Proc : Step(p) \/ Call(p) \/ Signal(p) \/ Kill(p) \/ Start(p)
    \/ \E x \in Path : UserRemoves(x)

Spec == Init /\ [][Next]_lockVars

\* The operating system runs every process, so a call in progress proceeds;
\* nothing obliges a process to make a call, or a user to do anything.
FairSpec == Spec /\ \A p \in Proc : WF_lockVars(Step(p))

-----------------------------------------------------------------------------
(* Properties *)

TypeOK ==
    /\ file \in [Path -> Proc \cup {Absent, Stale}]
    /\ pc \in [Proc -> Places]
    /\ arg \in [Proc -> Path]
    /\ reg \in [Proc -> SUBSET Path]
    /\ installed \in [Proc -> BOOLEAN]
    /\ todo \in [Proc -> SUBSET Path]
    /\ polls \in [Proc -> Nat]

\* The paths whose file p may rely on being its own: those it has registered,
\* less the one it has just given up, plus the one it has just made; in the
\* signal handler those still to be unlinked.
Owned(p) ==
    CASE pc[p] = "created" -> reg[p] \cup {arg[p]}
      [] pc[p] \in {"unlinked", "renamed", "exitUnlinked"} -> reg[p] \ {arg[p]}
      [] pc[p] = "handler" -> todo[p]
      [] OTHER -> reg[p]

\* What a process relies on is so: the file at every path it owns is the one
\* it made.  Whatever unlinks or renames that path therefore hits its own file.
OwnedFileIsMine == \A p \in Proc : \A x \in Owned(p) : file[x] = p

\* "An exclusive advisory lock" (fs.h): no two processes own one path.
MutualExclusion ==
    \A p, q \in Proc : p # q => Owned(p) \cap Owned(q) = {}

\* A signal during a hold can only be cleaned up after by the handler, so a
\* process with a registered lock has its handlers installed; and the
\* registry stays within its array.
RegistryCovered ==
    \A p \in Proc : /\ reg[p] # {} => installed[p]
                    /\ Cardinality(reg[p]) <= LOCK_MAX

\* Whoever ends by exit, die(), SIGINT or SIGTERM leaves no lock behind.
NothingStale == \A x \in Path : file[x] # Stale

\* lock_release, lock_forget and both handlers never remove a file another
\* live process made: a file of a process goes only by that process's step.
NoForeignUnlink ==
    [][\A p \in Proc : \A x \in Path :
         file[x] = p /\ file'[x] # p =>
            \/ pc'[p] # pc[p] \/ todo'[p] # todo[p]]_lockVars

\* A caller of lock_acquire gets an answer: the loop ends at its deadline
\* whatever the other processes do with the lock.
AcquireReturns == \A p \in Proc : pc[p] = "open" ~> pc[p] # "open"

=============================================================================
