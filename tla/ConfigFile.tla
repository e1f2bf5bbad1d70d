----------------------------- MODULE ConfigFile -----------------------------
(***************************************************************************)
(* config_write_file (src/config.c) and the config rewrite at the end of   *)
(* "ice init" (src/cmd/init/init.c): the document is written into the lock *)
(* file itself, which is then renamed over the config file.                *)
(*                                                                         *)
(* A path names an inode and an open file keeps its inode, whatever        *)
(* becomes of the path: that is what a lock lost to somebody else can      *)
(* corrupt.  A document is a number of blocks, written one at a time.      *)
(***************************************************************************)
EXTENDS LockFile

LOCAL INSTANCE TLC

CONSTANTS
    Inode,   \* inodes; one more than the paths and open files that use them
    Blocks,  \* blocks of a document
    Initial  \* the document there at the start

ASSUME BlocksAssumption == Blocks \in Nat \ {0}
ASSUME InitialAssumption == Initial \notin Proc

Hole == "hole"    \* a block nobody wrote
NoInode == 0
ASSUME InodeAssumption == Inode \subseteq Nat \ {NoInode}
\* A file can be made beside the config file; a full disk is a failing open().
ASSUME RoomAssumption == \E i, j \in Inode : i # j

VARIABLES
    stage,     \* stage[p]: where p is in config_write_file
    fd,        \* fd[p]: the inode p has open for writing
    done,      \* done[p]: blocks p has written
    data,      \* data[i]: the blocks of inode i
    lockIno,   \* what "<path>.lock" names
    targetIno  \* what <path> names

fileVars == <<stage, fd, done, data, lockIno, targetIno>>
vars == <<lockVars, fileVars>>

\* "<path>.lock".  The other paths are the locks of a build directory, a
\* checkout or an update, which the same processes take through the same
\* registry.
Lock == CHOOSE x \in Path : TRUE
ASSUME LockIsAPath == Path # {}

Whole(d) == [b \in 1..Blocks |-> d]

CInit ==
    /\ Init
    /\ stage = [p \in Proc |-> "none"]
    /\ fd = [p \in Proc |-> NoInode]
    /\ done = [p \in Proc |-> 0]
    /\ targetIno = CHOOSE i \in Inode : TRUE
    /\ lockIno = NoInode
    /\ data = [i \in Inode |-> Whole(Initial)]

\* An inode no path names and no process has open.
Fresh == CHOOSE i \in Inode :
            i # lockIno /\ i # targetIno /\ \A p \in Proc : fd[p] # i

Enter(p, s) == stage' = [stage EXCEPT ![p] = s]

\* What a step that may unlink the lock path does to the name.
LockNameFollows == lockIno' = IF file'[Lock] = Absent THEN NoInode ELSE lockIno

\* A call about another lock, made between two writes of the config: build,
\* repo pull, clone and checkout wait for theirs, update tries once.
OtherLock(p) ==
    /\ stage[p] = "none"
    /\ \/ \E x \in Path \ {Lock} :
             Acquire(p, x) \/ ReleaseUnlink(p, x)
       \/ Create(p) \/ Poll(p) \/ AcquireFails(p) \/ Register(p) \/ Deregister(p)
    /\ UNCHANGED fileVars

-----------------------------------------------------------------------------
\* config_write_file: the document is rendered already; take the lock.
Begin(p) ==
    /\ stage[p] = "none"
    /\ Acquire(p, Lock)
    /\ Enter(p, "lock")
    /\ UNCHANGED <<fd, done, data, lockIno, targetIno>>

LockMade(p) ==
    /\ stage[p] = "lock"
    /\ Create(p)
    /\ lockIno' = Fresh
    /\ data' = [data EXCEPT ![Fresh] = Whole(Hole)]
    /\ UNCHANGED <<stage, fd, done, targetIno>>

LockWaits(p) == stage[p] = "lock" /\ Poll(p) /\ UNCHANGED fileVars

\* Mutant: the return value of lock_acquire is ignored.
LockFailIgnored(p) ==
    /\ stage[p] = "lock"
    /\ AcquireFails(p)
    /\ Enter(p, "open")
    /\ UNCHANGED <<fd, done, data, lockIno, targetIno>>

LockFails(p) ==
    /\ stage[p] = "lock"
    /\ AcquireFails(p)
    /\ Enter(p, "none")
    /\ UNCHANGED <<fd, done, data, lockIno, targetIno>>

LockTaken(p) ==
    /\ stage[p] = "lock"
    /\ Register(p)
    /\ Enter(p, "open")
    /\ UNCHANGED <<fd, done, data, lockIno, targetIno>>

\* fopen(lockfile, "wb") truncates what the path names, or makes it anew.
Fopen(p) ==
    /\ stage[p] = "open" /\ pc[p] = "run"
    /\ LET i == IF file[Lock] = Absent THEN Fresh ELSE lockIno
       IN /\ fd' = [fd EXCEPT ![p] = i]
          /\ data' = [data EXCEPT ![i] = Whole(Hole)]
          /\ lockIno' = i
          /\ file' = IF file[Lock] = Absent
                       THEN [file EXCEPT ![Lock] = p] ELSE file
    /\ done' = [done EXCEPT ![p] = 0]
    /\ Enter(p, "write")
    /\ UNCHANGED <<pc, arg, reg, installed, todo, polls, targetIno>>

\* fwrite and fclose put one more block out, at the writer's own offset.
WriteBlock(p) ==
    /\ stage[p] = "write" /\ pc[p] = "run"
    /\ data' = [data EXCEPT ![fd[p]][done[p] + 1] = p]
    /\ done' = [done EXCEPT ![p] = @ + 1]
    /\ IF done'[p] = Blocks
         THEN Enter(p, "rename") /\ fd' = [fd EXCEPT ![p] = NoInode]
         ELSE UNCHANGED <<stage, fd>>
    /\ UNCHANGED <<lockVars, lockIno, targetIno>>

\* Mutant: the result of fwrite and fclose is not looked at.
WriteFailIgnored(p) ==
    /\ stage[p] \in {"open", "write", "rename"} /\ pc[p] = "run"
    /\ fd' = [fd EXCEPT ![p] = NoInode]
    /\ Enter(p, "rename")
    /\ UNCHANGED <<lockVars, done, data, lockIno, targetIno>>

\* fopen, fwrite, fclose or rename fails.
WriteFails(p) ==
    /\ stage[p] \in {"open", "write", "rename"} /\ pc[p] = "run"
    /\ fd' = [fd EXCEPT ![p] = NoInode]
    /\ Enter(p, "unlock")
    /\ UNCHANGED <<lockVars, done, data, lockIno, targetIno>>

\* rename(lockfile, path).  When the lock path is gone, rename fails instead.
Publish(p) ==
    /\ stage[p] = "rename"
    /\ RenameOver(p, Lock)
    /\ targetIno' = lockIno
    /\ lockIno' = NoInode
    /\ Enter(p, "forget")
    /\ UNCHANGED <<fd, done, data>>

\* The error path of config_write_file; ice init dies there instead.
Unlock(p) ==
    /\ stage[p] = "unlock"
    /\ ReleaseUnlink(p, Lock)
    /\ LockNameFollows
    /\ UNCHANGED <<stage, fd, done, data, targetIno>>

Forget(p) ==
    /\ stage[p] \in {"forget", "unlock"}
    /\ Deregister(p)
    /\ Enter(p, "none")
    /\ UNCHANGED <<fd, done, data, lockIno, targetIno>>

\* The process ends: by returning from main or, in init, by die_errno in the
\* middle of a failed write; by a signal; by a kill.
Die(p) ==
    /\ stage[p] \in {"none", "unlock"}
    /\ Exit(p)
    /\ UNCHANGED fileVars

Ending(p) ==
    /\ \/ ExitUnlink(p) \/ ExitClear(p) \/ ExitEnds(p)
       \/ Signal(p) \/ HandlerUnlink(p) \/ HandlerEnds(p) \/ Kill(p)
    /\ LockNameFollows
    /\ IF pc'[p] \in {"dead", "handler"}
         THEN Enter(p, "none") /\ fd' = [fd EXCEPT ![p] = NoInode]
         ELSE UNCHANGED <<stage, fd>>
    /\ UNCHANGED <<done, data, targetIno>>

Outside ==
    /\ (\E p \in Proc : Start(p)) \/ (\E x \in Path : UserRemoves(x))
    /\ LockNameFollows
    /\ UNCHANGED <<stage, fd, done, data, targetIno>>

CNext ==
    \/ \E p \in Proc :
          \/ Begin(p) \/ LockMade(p) \/ LockWaits(p) \/ LockFails(p)
          \/ LockTaken(p) \/ Fopen(p) \/ WriteBlock(p) \/ WriteFails(p)
          \/ Publish(p) \/ Unlock(p) \/ Forget(p) \/ OtherLock(p)
          \/ Die(p) \/ Ending(p)
    \/ Outside

CSpec == CInit /\ [][CNext]_vars

-----------------------------------------------------------------------------
(* Instances for TLC *)

\* Only the config lock is waited for; the others are tried once, like that of
\* "ice update".
Polls == [x \in Path |-> IF x = Lock THEN 1 ELSE 0]

\* The lock protocol with no config file.  Without kills nothing becomes stale, and
\* nobody has a lock to remove.
OrderlyNext ==
    /\ \E p \in Proc : Step(p) \/ Call(p) \/ Signal(p) \/ Start(p)
    /\ UNCHANGED fileVars

OrderlySpec ==
    /\ CInit /\ [][OrderlyNext]_vars
    /\ \A p \in Proc : WF_lockVars(Step(p))

ProcSymmetry == Permutations(Proc)

-----------------------------------------------------------------------------
(* Properties *)

Document == data[targetIno]

\* "Every reader either sees the old content or the new content, never a torn
\* file" (config.c): the config file is one writer's document, all of it.
NeverTorn == \E d \in Proc \cup {Initial} : Document = Whole(d)

\* "Only one actor writes at a time" (config.c).
Writers == {p \in Proc : stage[p] \in {"write", "rename"}}
\* The lock file protocol implements the promise of AtomicFile.
Atomic == INSTANCE AtomicFile WITH
    Writer  <- Proc,
    writers <- Writers,
    content <- IF NeverTorn THEN Document[1] ELSE Hole
AtomicReplace == Atomic!Spec
=============================================================================
