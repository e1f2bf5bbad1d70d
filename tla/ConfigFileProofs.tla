-------------------------- MODULE ConfigFileProofs --------------------------
(***************************************************************************)
(* Proofs about LockFile and ConfigFile: for every number of processes,    *)
(* lock paths and blocks, a lock has one owner and goes with its maker,    *)
(* and the config file is replaced whole, by one writer at a time.         *)
(***************************************************************************)
EXTENDS ConfigFile, FiniteSetTheorems, TLAPS

\* No signal lands between a change of a lock file and the change of the
\* registry that belongs to it, nor inside the signal handler.
WindowFree ==
    SignalPoints \cap {"unlinked", "renamed", "exitUnlinked", "handler"} = {}

USE NamesAssumption

-----------------------------------------------------------------------------
(* Types *)

LEMMA DeadTyped ==
    ASSUME TypeOK, NEW p \in Proc, Dead(p)
    PROVE  TypeOK'
BY DEF Dead, Abandon, Goto, TypeOK, Places

LEMMA NextTyped ==
    ASSUME TypeOK, [Next]_lockVars
    PROVE  TypeOK'
<1> USE DEF Goto, TypeOK, Places
<1>1. ASSUME NEW p \in Proc, Step(p)
      PROVE  TypeOK'
  <2>1. CASE Create(p)
        BY <2>1 DEF Create
  <2>5. CASE AcquireFails(p)
        BY <2>5 DEF AcquireFails
  <2>6. CASE Register(p)
    <3>1. reg[p] \cup {arg[p]} \in SUBSET Path
          OBVIOUS
    <3> QED BY <2>6, <3>1 DEF Register
  <2>7. CASE Deregister(p)
        BY <2>7 DEF Deregister
  <2>4. CASE Poll(p)
        BY <2>4 DEF Poll
  <2>2. CASE ExitUnlink(p) \/ ExitClear(p) \/ HandlerUnlink(p)
        BY <2>2 DEF ExitUnlink, ExitClear, HandlerUnlink
  <2>3. CASE ExitEnds(p) \/ HandlerEnds(p)
        BY <2>3, DeadTyped DEF ExitEnds, HandlerEnds
  <2> QED BY <1>1, <2>1, <2>2, <2>3, <2>4, <2>5, <2>6, <2>7 DEF Step
<1>2. ASSUME NEW p \in Proc, Call(p)
      PROVE  TypeOK'
      BY <1>2, PollsAssumption DEF Call, Exit, Acquire, ReleaseUnlink, RenameOver
<1>3. ASSUME NEW p \in Proc, Signal(p) \/ Kill(p)
      PROVE  TypeOK'
      BY <1>3, DeadTyped DEF Signal, Kill
<1>4. ASSUME NEW p \in Proc, Start(p)
      PROVE  TypeOK'
      BY <1>4 DEF Start
<1>5. ASSUME NEW x \in Path, UserRemoves(x)
      PROVE  TypeOK'
      BY <1>5 DEF UserRemoves
<1>6. CASE UNCHANGED lockVars
      BY <1>6 DEF lockVars
<1> QED BY <1>1, <1>2, <1>3, <1>4, <1>5, <1>6 DEF Next

\* Every variable of the lock protocol keeps its type.
THEOREM Typing == Spec => []TypeOK
<1>1. Init => TypeOK
      BY DEF Init, TypeOK, Places
<1> QED BY <1>1, NextTyped, PTL DEF Spec

-----------------------------------------------------------------------------
(* A process that relies on a lock file has it: outside the windows nobody
   unlinks or renames the file of another process. *)

LEMMA OwnedStep ==
    ASSUME WindowFree, TypeOK, OwnedFileIsMine, [Next]_lockVars
    PROVE  OwnedFileIsMine'
<1> SUFFICES ASSUME NEW q \in Proc, NEW y \in Path, y \in Owned(q)'
             PROVE  file'[y] = q
      BY NextTyped DEF OwnedFileIsMine, Owned, TypeOK
<1>0. Owned(q) \subseteq Path /\ \A z \in Owned(q) : file[z] = q
      BY DEF OwnedFileIsMine, Owned, TypeOK
<1> USE DEF Goto, TypeOK
<1>1. ASSUME NEW p \in Proc, Dead(p)
      PROVE  file'[y] = q
  <2>1. q # p
        BY <1>1 DEF Dead, Owned
  <2>2. y \in Owned(q)
        BY <1>1, <2>1 DEF Dead, Owned
  <2> QED BY <1>0, <1>1, <2>1, <2>2 DEF Dead, Abandon
<1>2. ASSUME NEW p \in Proc, Step(p)
      PROVE  file'[y] = q
  <2>1. CASE Create(p)
    <3>1. CASE q = p /\ y = arg[p]
          BY <2>1, <3>1 DEF Create
    <3>2. CASE ~(q = p /\ y = arg[p])
          BY <1>0, <2>1, <3>2 DEF Create, Owned
    <3> QED BY <3>1, <3>2
  <2>2. CASE Poll(p) \/ AcquireFails(p)
        BY <1>0, <2>2 DEF Poll, AcquireFails, Owned
  <2>3. CASE Register(p)
        BY <1>0, <2>3 DEF Register, Owned
  <2>4. CASE Deregister(p)
        BY <1>0, <2>4 DEF Deregister, Owned
  <2>5. CASE ExitUnlink(p)
    <3>1. PICK x \in reg[p] : /\ file' = [file EXCEPT ![x] = Absent]
                              /\ arg' = [arg EXCEPT ![p] = x]
          BY <2>5 DEF ExitUnlink
    <3>2. file[x] = p
          BY <2>5, <3>1 DEF ExitUnlink, OwnedFileIsMine, Owned
    <3>3. y \in Owned(q) /\ y # x
          BY <1>0, <2>5, <3>1, <3>2 DEF ExitUnlink, Owned
    <3> QED BY <1>0, <3>1, <3>3
  <2>6. CASE ExitClear(p)
        BY <1>0, <2>6 DEF ExitClear, Owned
  <2>7. CASE HandlerUnlink(p)
    <3>1. PICK x \in todo[p] : /\ file' = [file EXCEPT ![x] = Absent]
                               /\ todo' = [todo EXCEPT ![p] = @ \ {x}]
          BY <2>7 DEF HandlerUnlink
    <3>2. file[x] = p
          BY <2>7, <3>1 DEF HandlerUnlink, OwnedFileIsMine, Owned
    <3>3. y \in Owned(q) /\ y # x
          BY <1>0, <2>7, <3>1, <3>2 DEF HandlerUnlink, Owned
    <3> QED BY <1>0, <3>1, <3>3
  <2>8. CASE ExitEnds(p) \/ HandlerEnds(p)
        BY <1>1, <2>8 DEF ExitEnds, HandlerEnds
  <2> QED BY <1>2, <2>1, <2>2, <2>3, <2>4, <2>5, <2>6, <2>7, <2>8 DEF Step
<1>3. ASSUME NEW p \in Proc, Call(p)
      PROVE  file'[y] = q
  <2>1. CASE Exit(p)
        BY <1>0, <2>1 DEF Exit, Owned
  <2>2. ASSUME NEW x \in Path, Acquire(p, x)
        PROVE  file'[y] = q
        BY <1>0, <2>2 DEF Acquire, Owned
  <2>3. ASSUME NEW x \in Path, ReleaseUnlink(p, x) \/ RenameOver(p, x)
        PROVE  file'[y] = q
    <3>1. file[x] = p
          BY <2>3 DEF ReleaseUnlink, RenameOver, OwnedFileIsMine, Owned
    <3>2. y \in Owned(q) /\ y # x
          BY <1>0, <2>3, <3>1 DEF ReleaseUnlink, RenameOver, Owned
    <3> QED BY <1>0, <2>3, <3>2 DEF ReleaseUnlink, RenameOver
  <2> QED BY <1>3, <2>1, <2>2, <2>3 DEF Call
<1>4. ASSUME NEW p \in Proc, Signal(p)
      PROVE  file'[y] = q
  <2>1. CASE Dead(p)
        BY <1>1, <2>1
  <2>2. CASE ~Dead(p)
    <3>1. pc[p] \in {"run", "open", "created", "exiting"}
          BY <1>4, SignalAssumption DEF Signal, WindowFree, Places
    <3>2. /\ pc' = [pc EXCEPT ![p] = "handler"]
          /\ todo' = [todo EXCEPT ![p] = reg[p]]
          /\ UNCHANGED <<file, arg, reg, installed, polls>>
          BY <1>4, <2>2 DEF Signal
    <3>3. y \in Owned(q)
          BY <3>1, <3>2 DEF Owned
    <3> QED BY <1>0, <3>2, <3>3
  <2> QED BY <2>1, <2>2
<1>5. ASSUME NEW p \in Proc, Kill(p)
      PROVE  file'[y] = q
      BY <1>1, <1>5 DEF Kill
<1>6. ASSUME NEW p \in Proc, Start(p)
      PROVE  file'[y] = q
      BY <1>0, <1>6 DEF Start, Owned
<1>7. ASSUME NEW x \in Path, UserRemoves(x)
      PROVE  file'[y] = q
      BY <1>0, <1>7 DEF UserRemoves, Owned
<1>8. CASE UNCHANGED lockVars
      BY <1>0, <1>8 DEF lockVars, Owned
<1> QED BY <1>2, <1>3, <1>4, <1>5, <1>6, <1>7, <1>8 DEF Next

\* Outside the windows, a process that took a lock and has not given it up
\* finds its own file at the lock's path.
THEOREM Ownership == WindowFree /\ Spec => []OwnedFileIsMine
<1>1. Init => OwnedFileIsMine
      BY DEF Init, OwnedFileIsMine, Owned
<1>2. WindowFree /\ TypeOK /\ OwnedFileIsMine /\ [Next]_lockVars
         => OwnedFileIsMine'
      BY OwnedStep
<1>3. ASSUME WindowFree
      PROVE  Spec => []OwnedFileIsMine
      BY <1>1, <1>2, <1>3, Typing, PTL DEF Spec
<1> QED BY <1>3

\* lock_acquire's promise: outside the windows no two processes hold one lock.
THEOREM Exclusion == WindowFree /\ Spec => []MutualExclusion
<1>1. TypeOK /\ OwnedFileIsMine => MutualExclusion
  <2> SUFFICES ASSUME TypeOK, OwnedFileIsMine,
                      NEW p \in Proc, NEW q \in Proc, p # q,
                      NEW x \in Owned(p), x \in Owned(q)
               PROVE  FALSE
        BY DEF MutualExclusion
  <2> QED BY DEF OwnedFileIsMine
<1>2. ASSUME WindowFree
      PROVE  Spec => []MutualExclusion
      BY <1>1, <1>2, Ownership, Typing, PTL
<1> QED BY <1>2

\* A file of a process goes only by a step of that process: nobody's release,
\* rename or clean-up takes the lock file of another.
THEOREM OwnUnlinksOnly == WindowFree /\ Spec => NoForeignUnlink
<1>1. ASSUME TypeOK, OwnedFileIsMine, [Next]_lockVars,
             NEW q \in Proc, NEW y \in Path, file[y] = q, file'[y] # q
      PROVE  pc'[q] # pc[q] \/ todo'[q] # todo[q]
  <2> USE <1>1 DEF Goto, TypeOK
  <2>1. ASSUME NEW p \in Proc, Dead(p), pc[p] # "dead"
        PROVE  pc'[q] # pc[q]
        BY <2>1 DEF Dead, Abandon
  <2>2. ASSUME NEW p \in Proc, Step(p)
        PROVE  pc'[q] # pc[q] \/ todo'[q] # todo[q]
    <3>1. CASE ExitUnlink(p)
      <4>1. PICK x \in reg[p] : file' = [file EXCEPT ![x] = Absent]
            BY <3>1 DEF ExitUnlink
      <4>2. file[x] = p
            BY <3>1 DEF ExitUnlink, OwnedFileIsMine, Owned
      <4> QED BY <3>1, <4>1, <4>2 DEF ExitUnlink
    <3>2. CASE HandlerUnlink(p)
      <4>1. PICK x \in todo[p] : /\ file' = [file EXCEPT ![x] = Absent]
                                 /\ todo' = [todo EXCEPT ![p] = @ \ {x}]
            BY <3>2 DEF HandlerUnlink
      <4>2. file[x] = p
            BY <3>2 DEF HandlerUnlink, OwnedFileIsMine, Owned
      <4> QED BY <4>1, <4>2
    <3>3. CASE Create(p)
          BY <3>3 DEF Create
    <3>4. CASE Poll(p) \/ AcquireFails(p) \/ Register(p) \/ Deregister(p) \/ ExitClear(p)
          BY <3>4 DEF Poll, AcquireFails, Register, Deregister, ExitClear
    <3>5. CASE ExitEnds(p) \/ HandlerEnds(p)
          BY <2>1, <3>5 DEF ExitEnds, HandlerEnds
    <3> QED BY <2>2, <3>1, <3>2, <3>3, <3>4, <3>5 DEF Step
  <2>3. ASSUME NEW p \in Proc, Call(p)
        PROVE  pc'[q] # pc[q]
    <3>1. PICK x \in Path : ReleaseUnlink(p, x) \/ RenameOver(p, x)
          BY <2>3 DEF Call, Exit, Acquire
    <3>2. file[x] = p
          BY <3>1 DEF ReleaseUnlink, RenameOver, OwnedFileIsMine, Owned
    <3> QED BY <3>1, <3>2 DEF ReleaseUnlink, RenameOver
  <2>4. ASSUME NEW p \in Proc, Signal(p) \/ Kill(p)
        PROVE  pc'[q] # pc[q]
        BY <2>1, <2>4, SignalAssumption DEF Signal, Kill
  <2>5. ASSUME NEW p \in Proc, Start(p)
        PROVE  FALSE
        BY <2>5 DEF Start
  <2>6. ASSUME NEW x \in Path, UserRemoves(x)
        PROVE  FALSE
        BY <2>6 DEF UserRemoves
  <2>7. ~UNCHANGED lockVars
        BY DEF lockVars
  <2> QED BY <2>2, <2>3, <2>4, <2>5, <2>6, <2>7 DEF Next
<1>2. TypeOK /\ OwnedFileIsMine /\ [Next]_lockVars =>
        [\A p \in Proc : \A x \in Path :
           file[x] = p /\ file'[x] # p =>
              \/ pc'[p] # pc[p] \/ todo'[p] # todo[p]]_lockVars
      BY <1>1
<1>3. ASSUME WindowFree
      PROVE  Spec => NoForeignUnlink
      BY <1>2, <1>3, Typing, Ownership, PTL DEF Spec, NoForeignUnlink
<1> QED BY <1>3

-----------------------------------------------------------------------------
(* The registry: within its array, and covered by the handlers. *)

\* Inductive: a process on its way into the registry still has room in it.
RegistryFits(p) ==
    /\ reg[p] # {} => installed[p]
    /\ Cardinality(reg[p]) <= LOCK_MAX
    /\ pc[p] \in {"open", "created"} => Cardinality(reg[p]) < LOCK_MAX

RegistryInv == \A p \in Proc : RegistryFits(p)

LEMMA RegistryStep ==
    ASSUME TypeOK, RegistryInv, [Next]_lockVars
    PROVE  RegistryInv'
<1> USE LockMaxAssumption DEF Goto, TypeOK, RegistryFits
<1> SUFFICES ASSUME NEW q \in Proc
             PROVE  RegistryFits(q)'
      BY DEF RegistryInv
<1>0. RegistryFits(q)
      BY DEF RegistryInv
<1>1. IsFiniteSet(reg[q]) /\ Cardinality(reg[q]) \in Nat
      BY PathsFinite, FS_Subset, FS_CardinalityType
<1>2. ASSUME NEW p \in Proc, reg' = [reg EXCEPT ![p] = {}], Goto(p, "dead"),
             installed' = [installed EXCEPT ![p] = FALSE]
      PROVE  RegistryFits(q)'
      BY <1>0, <1>2, FS_EmptySet
<1>3. ASSUME NEW p \in Proc, Register(p)
      PROVE  RegistryFits(q)'
  <2>1. Cardinality(reg[q] \cup {arg[q]}) \in {Cardinality(reg[q]), Cardinality(reg[q]) + 1}
    <3>1. CASE arg[q] \in reg[q]
      <4>1. reg[q] \cup {arg[q]} = reg[q]
            BY <3>1
      <4> QED BY <4>1
    <3>2. CASE arg[q] \notin reg[q]
          BY <1>1, <3>2, FS_AddElement
    <3> QED BY <3>1, <3>2
  <2>2. Cardinality(reg[q] \cup {arg[q]}) \in Nat
        BY <1>1, <2>1
  <2>3. reg'[q] = IF q = p THEN reg[q] \cup {arg[q]} ELSE reg[q]
        BY <1>3 DEF Register
  <2>4. q = p => pc[q] = "created" /\ pc'[q] = "run" /\ installed'[q] = TRUE
        BY <1>3 DEF Register
  <2>5. q # p => pc'[q] = pc[q] /\ installed'[q] = installed[q]
        BY <1>3 DEF Register
  <2> QED BY <1>0, <1>1, <2>1, <2>2, <2>3, <2>4, <2>5
<1>4. ASSUME NEW p \in Proc, Deregister(p) \/ ExitClear(p)
      PROVE  RegistryFits(q)'
  <2>1. /\ Cardinality(reg[q] \ {arg[q]}) <= Cardinality(reg[q])
        /\ Cardinality(reg[q] \ {arg[q]}) \in Nat
    <3>1. reg[q] \ {arg[q]} \subseteq reg[q]
          OBVIOUS
    <3> QED BY <1>1, <3>1, FS_Subset, FS_CardinalityType
  <2>2. reg'[q] = IF q = p THEN reg[q] \ {arg[q]} ELSE reg[q]
        BY <1>4 DEF Deregister, ExitClear
  <2>3. installed' = installed /\ pc'[q] = IF q = p THEN pc'[p] ELSE pc[q]
        BY <1>4 DEF Deregister, ExitClear
  <2>4. pc'[p] \in {"run", "exiting"}
        BY <1>4 DEF Deregister, ExitClear
  <2> QED BY <1>0, <1>1, <2>1, <2>2, <2>3, <2>4
<1>5. ASSUME NEW p \in Proc, NEW x \in Path, Acquire(p, x)
      PROVE  RegistryFits(q)'
      BY <1>0, <1>5 DEF Acquire
<1>6. ASSUME reg' = reg, installed' = installed,
             pc'[q] \in {"open", "created"} => pc[q] \in {"open", "created"}
      PROVE  RegistryFits(q)'
      BY <1>0, <1>6
<1>7. ASSUME NEW p \in Proc, Step(p)
      PROVE  RegistryFits(q)'
  <2>1. CASE Create(p) \/ Poll(p) \/ AcquireFails(p)
        BY <1>6, <2>1 DEF Create, Poll, AcquireFails
  <2>2. CASE ExitUnlink(p) \/ HandlerUnlink(p)
        BY <1>6, <2>2 DEF ExitUnlink, HandlerUnlink
  <2>3. CASE ExitEnds(p) \/ HandlerEnds(p)
        BY <1>2, <2>3 DEF ExitEnds, HandlerEnds, Dead
  <2> QED BY <1>3, <1>4, <1>7, <2>1, <2>2, <2>3 DEF Step
<1>8. ASSUME NEW p \in Proc, Call(p)
      PROVE  RegistryFits(q)'
      BY <1>5, <1>6, <1>8 DEF Call, Exit, ReleaseUnlink, RenameOver
<1>9. ASSUME NEW p \in Proc, Signal(p) \/ Kill(p) \/ Start(p)
      PROVE  RegistryFits(q)'
      BY <1>2, <1>6, <1>9 DEF Signal, Kill, Start, Dead
<1>10. CASE (\E x \in Path : UserRemoves(x)) \/ UNCHANGED lockVars
      BY <1>6, <1>10 DEF UserRemoves, lockVars
<1> QED BY <1>7, <1>8, <1>9, <1>10 DEF Next

\* The registry never overflows, and whoever has an entry in it has the
\* handlers that clean it up.
THEOREM RegistrySafe == Spec => []RegistryCovered
<1>1. Init => RegistryInv
      BY FS_EmptySet, LockMaxAssumption DEF Init, RegistryInv, RegistryFits
<1>2. RegistryInv => RegistryCovered
      BY DEF RegistryInv, RegistryFits, RegistryCovered
<1> QED BY <1>1, <1>2, Typing, RegistryStep, PTL DEF Spec

-----------------------------------------------------------------------------
(* Nothing is left behind: the converse of ownership, wherever signals land,
   as long as none lands between making a lock file and registering it. *)

\* Inductive: whoever made a file that is still there answers for it.
Accounted ==
    /\ \A p \in Proc : \A x \in Path : file[x] = p => x \in Owned(p)
    /\ \A p \in Proc : \/ todo[p] = {}
                       \/ pc[p] = "handler" /\ todo[p] \subseteq reg[p]
    /\ NothingStale

LEMMA NamesDiffer == Absent # Stale
BY DEF Absent, Stale

LEMMA AccountedStep ==
    ASSUME ~MayBeKilled, "created" \notin SignalPoints,
           TypeOK, RegistryCovered, Accounted, [Next]_lockVars
    PROVE  Accounted'
<1> USE NamesDiffer DEF Goto, TypeOK, Owned, NothingStale, Accounted
<1>1. ASSUME NEW p \in Proc, Dead(p), Owned(p) = {}
      PROVE  Accounted'
      BY <1>1 DEF Dead, Abandon
<1>2. ASSUME NEW p \in Proc, Step(p)
      PROVE  Accounted'
  <2>1. CASE Create(p)
        BY <2>1 DEF Create
  <2>2. CASE Poll(p) \/ AcquireFails(p)
        BY <2>2 DEF Poll, AcquireFails
  <2>3. CASE Register(p)
        BY <2>3 DEF Register
  <2>4. CASE Deregister(p)
        BY <2>4 DEF Deregister
  <2>5. CASE ExitUnlink(p)
        BY <2>5 DEF ExitUnlink
  <2>6. CASE ExitClear(p)
        BY <2>6 DEF ExitClear
  <2>7. CASE HandlerUnlink(p)
        BY <2>7 DEF HandlerUnlink
  <2>8. CASE ExitEnds(p) \/ HandlerEnds(p)
        BY <1>1, <2>8 DEF ExitEnds, HandlerEnds
  <2> QED BY <1>2, <2>1, <2>2, <2>3, <2>4, <2>5, <2>6, <2>7, <2>8 DEF Step
<1>3. ASSUME NEW p \in Proc, Call(p)
      PROVE  Accounted'
  <2>1. CASE Exit(p)
        BY <2>1 DEF Exit
  <2>2. ASSUME NEW x \in Path, Acquire(p, x)
        PROVE  Accounted'
        BY <2>2 DEF Acquire
  <2>3. ASSUME NEW x \in Path, ReleaseUnlink(p, x) \/ RenameOver(p, x)
        PROVE  Accounted'
        BY <2>3 DEF ReleaseUnlink, RenameOver
  <2> QED BY <1>3, <2>1, <2>2, <2>3 DEF Call
<1>4. ASSUME NEW p \in Proc, Signal(p)
      PROVE  Accounted'
  <2>1. pc[p] # "created"
        BY <1>4 DEF Signal
  <2>2. CASE ~installed[p] /\ Dead(p)
    <3>1. reg[p] = {}
          BY <2>2 DEF RegistryCovered
    <3>2. Owned(p) = {}
          BY <2>1, <3>1
    <3> QED BY <1>1, <2>2, <3>2
  <2>3. CASE /\ pc' = [pc EXCEPT ![p] = "handler"]
             /\ todo' = [todo EXCEPT ![p] = reg[p]]
             /\ UNCHANGED <<file, arg, reg, installed, polls>>
        BY <2>1, <2>3
  <2> QED BY <1>4, <2>2, <2>3 DEF Signal
<1>5. ASSUME NEW p \in Proc, Start(p)
      PROVE  Accounted'
      BY <1>5 DEF Start
<1>6. ASSUME NEW x \in Path, UserRemoves(x)
      PROVE  Accounted'
      BY <1>6 DEF UserRemoves
<1>7. CASE UNCHANGED lockVars
      BY <1>7 DEF lockVars
<1> QED BY <1>2, <1>3, <1>4, <1>5, <1>6, <1>7 DEF Next, Kill

\* Ends by exit(), die(), SIGINT or SIGTERM leave no stale lock, except when
\* the signal lands after open() and before the path is registered.
THEOREM NoStaleLock ==
    ~MayBeKilled /\ "created" \notin SignalPoints /\ Spec => []NothingStale
<1>1. Init => Accounted
      BY NamesDiffer DEF Init, Accounted, NothingStale
<1>2. Accounted => NothingStale
      BY DEF Accounted
<1>3. ASSUME ~MayBeKilled, "created" \notin SignalPoints
      PROVE  Spec => []NothingStale
  <2>1. TypeOK /\ RegistryCovered /\ Accounted /\ [Next]_lockVars => Accounted'
        BY <1>3, AccountedStep
  <2> QED BY <1>1, <1>2, <2>1, Typing, RegistrySafe, PTL DEF Spec
<1> QED BY <1>3

-----------------------------------------------------------------------------
(* The inductive invariant *)

\* A document, finished or not.
Documents == [1..Blocks -> Proc \cup {Initial, Hole}]

FileTypeOK ==
    /\ stage \in [Proc -> {"none", "lock", "open", "write", "rename", "forget", "unlock"}]
    /\ fd \in [Proc -> Inode \cup {NoInode}]
    /\ done \in [Proc -> 0..Blocks]
    /\ data \in [Inode -> Documents]
    /\ lockIno \in Inode \cup {NoInode}
    /\ targetIno \in Inode

\* Where p is in config_write_file and where it is in the lock protocol.
StageAgrees(p) ==
    /\ stage[p] = "none" =>
          /\ pc[p] \notin {"exiting", "exitUnlinked", "handler"} => Lock \notin reg[p]
          /\ pc[p] \in {"open", "created", "unlinked", "renamed"} => arg[p] # Lock
    /\ stage[p] = "lock" =>
          pc[p] \in {"open", "created"} /\ arg[p] = Lock /\ Lock \notin reg[p]
    /\ stage[p] \in {"open", "write", "rename"} => pc[p] = "run" /\ Lock \in reg[p]
    /\ stage[p] = "forget" => pc[p] = "renamed" /\ arg[p] = Lock
    /\ stage[p] = "unlock" =>
          \/ pc[p] = "run" /\ Lock \in reg[p]
          \/ pc[p] = "unlinked" /\ arg[p] = Lock
          \/ pc[p] \in {"exiting", "exitUnlinked"}

\* A document of which n blocks are written.
Begun(d, n) == [b \in 1..Blocks |-> IF b <= n THEN d ELSE Hole]

\* Where p is in config_write_file and what the lock's inode holds.
WritesLockFile(p) ==
    /\ stage[p] # "write" => fd[p] = NoInode
    /\ stage[p] = "write" =>
          /\ fd[p] = lockIno /\ done[p] < Blocks
          /\ data[lockIno] = Begun(p, done[p])
    /\ stage[p] = "rename" => data[lockIno] = Whole(p)

\* The lock path names an inode exactly when there is a file, never the
\* config file's.
NamesApart ==
    /\ file[Lock] = Absent <=> lockIno = NoInode
    /\ lockIno # targetIno

CInv ==
    /\ FileTypeOK
    /\ \A p \in Proc : StageAgrees(p) /\ WritesLockFile(p)
    /\ NamesApart
    /\ NeverTorn

\* What the lock protocol and the config file keep between them.
IInv == TypeOK /\ OwnedFileIsMine /\ CInv

LEMMA LockInPath == Lock \in Path
BY LockIsAPath DEF Lock

-----------------------------------------------------------------------------
(* The lock protocol under the config file *)

\* Whoever is at the lock file or the config file has the lock file.
LEMMA HolderHasFile ==
    ASSUME TypeOK, OwnedFileIsMine, NEW p \in Proc, StageAgrees(p),
           \/ stage[p] \in {"open", "write", "rename"}
           \/ stage[p] = "unlock" /\ pc[p] = "run"
    PROVE  file[Lock] = p
BY LockInPath DEF StageAgrees, OwnedFileIsMine, Owned

\* Every step of config_write_file is one of the lock protocol or leaves it
\* alone: fopen finds the lock file there.
LEMMA LockProtocolFollowed ==
    ASSUME IInv, [CNext]_vars
    PROVE  [Next]_lockVars
<1> USE LockInPath
<1>1. ASSUME NEW p \in Proc, Fopen(p)
      PROVE  UNCHANGED lockVars
  <2>1. file[Lock] = p
        BY <1>1, HolderHasFile DEF Fopen, IInv, CInv
  <2> QED BY <1>1, <2>1 DEF Fopen, lockVars
<1>2. ASSUME NEW p \in Proc, Begin(p)
      PROVE  Call(p)
      BY <1>2 DEF Begin, Call
<1>3. ASSUME NEW p \in Proc,
             LockMade(p) \/ LockWaits(p) \/ LockFails(p) \/ LockTaken(p) \/ Forget(p)
      PROVE  Step(p)
      BY <1>3 DEF LockMade, LockWaits, LockFails, LockTaken, Forget, Step
<1>4. ASSUME NEW p \in Proc, WriteBlock(p) \/ WriteFails(p)
      PROVE  UNCHANGED lockVars
      BY <1>4 DEF WriteBlock, WriteFails
<1>5. ASSUME NEW p \in Proc, Publish(p) \/ Unlock(p) \/ Die(p)
      PROVE  Call(p)
      BY <1>5 DEF Publish, Unlock, Die, Call
<1>6. ASSUME NEW p \in Proc, OtherLock(p)
      PROVE  Step(p) \/ Call(p)
      BY <1>6 DEF OtherLock, Step, Call
<1>7. ASSUME NEW p \in Proc, Ending(p)
      PROVE  Step(p) \/ Signal(p) \/ Kill(p)
      BY <1>7 DEF Ending, Step
<1>8. CASE Outside
      BY <1>8 DEF Outside, Next
<1>9. CASE UNCHANGED vars
      BY <1>9 DEF vars
<1> QED BY <1>1, <1>2, <1>3, <1>4, <1>5, <1>6, <1>7, <1>8, <1>9 DEF CNext, Next

\* Making the lock file always finds an inode that is in nobody's use.
LEMMA FreshIsFree ==
    ASSUME IInv, file[Lock] = Absent
    PROVE  Fresh \in Inode /\ Fresh # targetIno
<1>1. lockIno = NoInode
      BY DEF IInv, CInv, NamesApart
<1>2. ASSUME NEW p \in Proc
      PROVE  fd[p] = NoInode
  <2>1. stage[p] # "write"
        BY HolderHasFile DEF IInv, CInv
  <2> QED BY <2>1 DEF IInv, CInv, WritesLockFile
<1>3. \E i \in Inode : i # targetIno
      BY RoomAssumption
<1>4. \E i \in Inode : i # lockIno /\ i # targetIno /\ \A p \in Proc : fd[p] # i
      BY <1>1, <1>2, <1>3, InodeAssumption
<1> QED BY <1>4 DEF Fresh

-----------------------------------------------------------------------------
(* Each step keeps the invariant *)

\* What the processes other than p see of a step of p.
ByOne(p) ==
    \A q \in Proc \ {p} :
        /\ stage'[q] = stage[q] /\ fd'[q] = fd[q] /\ done'[q] = done[q]
        /\ pc'[q] = pc[q] /\ arg'[q] = arg[q] /\ reg'[q] = reg[q]

LEMMA OthersKeep ==
    ASSUME CInv, NEW p \in Proc, NEW q \in Proc \ {p}, ByOne(p),
           q \in Writers => lockIno' = lockIno /\ data'[lockIno] = data[lockIno]
    PROVE  (StageAgrees(q) /\ WritesLockFile(q))'
<1>1. StageAgrees(q) /\ WritesLockFile(q)
      BY DEF CInv
<1>2. /\ stage'[q] = stage[q] /\ fd'[q] = fd[q] /\ done'[q] = done[q]
      /\ pc'[q] = pc[q] /\ arg'[q] = arg[q] /\ reg'[q] = reg[q]
      BY DEF ByOne
<1>3. StageAgrees(q)'
      BY <1>1, <1>2 DEF StageAgrees
<1>4. WritesLockFile(q)'
      BY <1>1, <1>2 DEF WritesLockFile, Writers, Whole
<1> QED BY <1>3, <1>4

\* A step that writes no block and leaves the config file's name alone.
LEMMA QuietStep ==
    ASSUME CInv, NEW p \in Proc, ByOne(p),
           UNCHANGED <<done, data, targetIno>>,
           stage' \in [Proc -> {"none", "lock", "open", "write", "rename", "forget", "unlock"}],
           fd' \in [Proc -> Inode \cup {NoInode}],
           lockIno' \in {lockIno, NoInode},
           file'[Lock] = Absent <=> lockIno' = NoInode,
           \A q \in Proc \ {p} : q \in Writers => lockIno' = lockIno,
           StageAgrees(p)', WritesLockFile(p)'
    PROVE  CInv'
<1>1. FileTypeOK'
      BY DEF CInv, FileTypeOK
<1>2. NamesApart'
      BY InodeAssumption DEF CInv, NamesApart, FileTypeOK
<1>3. NeverTorn'
      BY DEF CInv, NeverTorn, Document
<1>4. ASSUME NEW q \in Proc \ {p}
      PROVE  (StageAgrees(q) /\ WritesLockFile(q))'
      BY <1>4, OthersKeep
<1> QED BY <1>1, <1>2, <1>3, <1>4 DEF CInv

LEMMA LockStepsKeep ==
    ASSUME IInv, NEW p \in Proc,
           \/ Begin(p) \/ LockWaits(p) \/ LockFails(p) \/ LockTaken(p)
           \/ Forget(p) \/ Die(p)
    PROVE  CInv'
<1> USE LockInPath DEF IInv, TypeOK, Enter, Goto
<1> DEFINE Kept == /\ ByOne(p)
                   /\ UNCHANGED <<file, fd, done, data, lockIno, targetIno>>
                   /\ StageAgrees(p)' /\ WritesLockFile(p)'
                   /\ stage' \in [Proc -> {"none", "lock", "open", "write", "rename",
                                           "forget", "unlock"}]
<1>0. StageAgrees(p) /\ WritesLockFile(p) /\ FileTypeOK /\ NamesApart
      BY DEF CInv
<1>1. ASSUME Begin(p) PROVE Kept
      BY <1>0, <1>1 DEF Begin, Acquire, ByOne, StageAgrees, WritesLockFile, FileTypeOK
<1>2. ASSUME LockWaits(p) PROVE Kept
      BY <1>0, <1>2 DEF LockWaits, Poll, fileVars, ByOne, StageAgrees, WritesLockFile, FileTypeOK
<1>3. ASSUME LockFails(p) PROVE Kept
      BY <1>0, <1>3 DEF LockFails, AcquireFails, ByOne, StageAgrees, WritesLockFile, FileTypeOK
<1>4. ASSUME LockTaken(p) PROVE Kept
      BY <1>0, <1>4 DEF LockTaken, Register, ByOne, StageAgrees, WritesLockFile, FileTypeOK
<1>5. ASSUME Forget(p) PROVE Kept
      BY <1>0, <1>5 DEF Forget, Deregister, ByOne, StageAgrees, WritesLockFile, FileTypeOK
<1>6. ASSUME Die(p) PROVE Kept
      BY <1>0, <1>6 DEF Die, Exit, fileVars, ByOne, StageAgrees, WritesLockFile, FileTypeOK
<1>7. Kept
      BY <1>1, <1>2, <1>3, <1>4, <1>5, <1>6
<1>8. fd' \in [Proc -> Inode \cup {NoInode}] /\ (file'[Lock] = Absent <=> lockIno' = NoInode)
      BY <1>0, <1>7 DEF FileTypeOK, NamesApart
<1> QED BY <1>7, <1>8, QuietStep

LEMMA OtherLockKeeps ==
    ASSUME IInv, NEW p \in Proc, OtherLock(p)
    PROVE  CInv'
<1> USE LockInPath DEF IInv, TypeOK, Goto
<1>0. /\ StageAgrees(p) /\ WritesLockFile(p) /\ FileTypeOK /\ NamesApart
      /\ stage[p] = "none" /\ UNCHANGED fileVars
      BY DEF CInv, OtherLock
<1> DEFINE Kept == /\ ByOne(p) /\ StageAgrees(p)'
                   /\ (file'[Lock] = Absent <=> file[Lock] = Absent)
<1>1. ASSUME NEW x \in Path \ {Lock}, Acquire(p, x) \/ ReleaseUnlink(p, x)
      PROVE  Kept
      BY <1>0, <1>1 DEF Acquire, ReleaseUnlink, fileVars, ByOne, StageAgrees
<1>2. ASSUME Create(p)
      PROVE  Kept
      BY <1>0, <1>2 DEF Create, fileVars, ByOne, StageAgrees
<1>3. ASSUME Poll(p) \/ AcquireFails(p)
      PROVE  Kept
      BY <1>0, <1>3 DEF Poll, AcquireFails, fileVars, ByOne, StageAgrees
<1>4. ASSUME Register(p) \/ Deregister(p)
      PROVE  Kept
      BY <1>0, <1>4 DEF Register, Deregister, fileVars, ByOne, StageAgrees
<1>5. Kept
      BY <1>1, <1>2, <1>3, <1>4 DEF OtherLock
<1>6. WritesLockFile(p)'
      BY <1>0 DEF fileVars, WritesLockFile
<1> QED BY <1>0, <1>5, <1>6, QuietStep DEF FileTypeOK, NamesApart, fileVars

LEMMA UnlockKeeps ==
    ASSUME IInv, NEW p \in Proc, Unlock(p)
    PROVE  CInv'
<1> USE LockInPath DEF IInv, TypeOK, Goto
<1>0. StageAgrees(p) /\ WritesLockFile(p) /\ FileTypeOK /\ NamesApart
      BY DEF CInv
<1>1. file[Lock] = p /\ file'[Lock] = Absent /\ lockIno' = NoInode
      BY HolderHasFile, <1>0 DEF Unlock, ReleaseUnlink, LockNameFollows
<1>2. ASSUME NEW q \in Proc \ {p}
      PROVE  q \notin Writers
      BY <1>1, HolderHasFile DEF Writers, CInv
<1>3. ByOne(p)
      BY DEF Unlock, ReleaseUnlink, ByOne
<1>4. StageAgrees(p)' /\ WritesLockFile(p)'
      BY <1>0 DEF Unlock, ReleaseUnlink, StageAgrees, WritesLockFile
<1> QED BY <1>0, <1>1, <1>2, <1>3, <1>4, QuietStep DEF Unlock, FileTypeOK

LEMMA WriteFailsKeeps ==
    ASSUME IInv, NEW p \in Proc, WriteFails(p)
    PROVE  CInv'
<1> USE DEF IInv, TypeOK, Enter
<1>0. StageAgrees(p) /\ WritesLockFile(p) /\ FileTypeOK /\ NamesApart
      BY DEF CInv
<1>1. ByOne(p)
      BY <1>0 DEF WriteFails, ByOne, lockVars, FileTypeOK
<1>2. StageAgrees(p)' /\ WritesLockFile(p)'
      BY <1>0 DEF WriteFails, StageAgrees, WritesLockFile, lockVars, FileTypeOK
<1>3. /\ stage' \in [Proc -> {"none", "lock", "open", "write", "rename", "forget", "unlock"}]
      /\ fd' \in [Proc -> Inode \cup {NoInode}]
      BY <1>0 DEF WriteFails, FileTypeOK
<1> QED BY <1>0, <1>1, <1>2, <1>3, QuietStep DEF WriteFails, lockVars, NamesApart

\* A step of p that changes the lock file's inode or its contents.
LEMMA WriterStep ==
    ASSUME IInv, NEW p \in Proc, ByOne(p), FileTypeOK', NamesApart',
           StageAgrees(p)', WritesLockFile(p)', NeverTorn',
           \A q \in Proc \ {p} : q \notin Writers
    PROVE  CInv'
<1>1. ASSUME NEW q \in Proc \ {p}
      PROVE  (StageAgrees(q) /\ WritesLockFile(q))'
      BY <1>1, OthersKeep DEF IInv
<1> QED BY <1>1 DEF CInv

LEMMA LockMadeKeeps ==
    ASSUME IInv, NEW p \in Proc, LockMade(p)
    PROVE  CInv'
<1> USE LockInPath DEF IInv, TypeOK, Goto
<1>0. StageAgrees(p) /\ WritesLockFile(p) /\ FileTypeOK /\ NamesApart /\ NeverTorn
      BY DEF CInv
<1>1. arg[p] = Lock /\ file[Lock] = Absent /\ file'[Lock] = p
      BY <1>0 DEF LockMade, Create, StageAgrees
<1>2. Fresh \in Inode /\ Fresh # targetIno
      BY <1>1, FreshIsFree
<1>3. \A q \in Proc : q \notin Writers
      BY <1>1, HolderHasFile DEF Writers, CInv
<1>4. ByOne(p)
      BY DEF LockMade, Create, ByOne
<1>5. FileTypeOK'
  <2>1. Whole(Hole) \in Documents
        BY DEF Whole, Documents
  <2> QED BY <1>0, <1>2, <2>1 DEF LockMade, FileTypeOK
<1>6. NamesApart'
      BY <1>1, <1>2, InodeAssumption DEF LockMade, NamesApart
<1>7. StageAgrees(p)' /\ WritesLockFile(p)'
      BY <1>0, <1>1 DEF LockMade, Create, StageAgrees, WritesLockFile
<1>8. NeverTorn'
      BY <1>0, <1>2 DEF LockMade, NeverTorn, Document, FileTypeOK
<1> QED BY <1>3, <1>4, <1>5, <1>6, <1>7, <1>8, WriterStep

LEMMA FopenKeeps ==
    ASSUME IInv, NEW p \in Proc, Fopen(p)
    PROVE  CInv'
<1> USE LockInPath DEF IInv, TypeOK
<1>0. StageAgrees(p) /\ WritesLockFile(p) /\ FileTypeOK /\ NamesApart /\ NeverTorn
      BY DEF CInv
<1>1. file[Lock] = p /\ lockIno \in Inode /\ lockIno # targetIno
      BY <1>0, HolderHasFile DEF Fopen, NamesApart, FileTypeOK
<1>2. /\ fd' = [fd EXCEPT ![p] = lockIno]
      /\ data' = [data EXCEPT ![lockIno] = Whole(Hole)]
      /\ done' = [done EXCEPT ![p] = 0]
      /\ stage' = [stage EXCEPT ![p] = "write"]
      /\ UNCHANGED <<file, pc, arg, reg, lockIno, targetIno>>
      BY <1>1 DEF Fopen, Enter
<1>3. ASSUME NEW q \in Proc \ {p}
      PROVE  q \notin Writers
      BY <1>1, HolderHasFile DEF Writers, CInv
<1>4. ByOne(p)
      BY <1>0, <1>2 DEF ByOne, FileTypeOK
<1>5. FileTypeOK'
  <2>1. Whole(Hole) \in Documents /\ 0 \in 0..Blocks
        BY BlocksAssumption DEF Whole, Documents
  <2> QED BY <1>0, <1>1, <1>2, <2>1 DEF FileTypeOK
<1>6. NamesApart' /\ StageAgrees(p)'
      BY <1>0, <1>1, <1>2 DEF NamesApart, StageAgrees, Fopen, FileTypeOK
<1>7. WritesLockFile(p)'
  <2>1. Whole(Hole) = Begun(p, 0)
        BY BlocksAssumption DEF Whole, Begun
  <2> QED BY <1>0, <1>1, <1>2, <2>1, BlocksAssumption DEF WritesLockFile, FileTypeOK
<1>8. NeverTorn'
      BY <1>0, <1>1, <1>2 DEF NeverTorn, Document, FileTypeOK
<1> QED BY <1>3, <1>4, <1>5, <1>6, <1>7, <1>8, WriterStep

LEMMA OneMoreBlock ==
    ASSUME NEW p, NEW n \in Nat, n < Blocks
    PROVE  [Begun(p, n) EXCEPT ![n + 1] = p] = Begun(p, n + 1)
<1>1. ASSUME NEW b \in 1..Blocks
      PROVE  [Begun(p, n) EXCEPT ![n + 1] = p][b] = (IF b <= n + 1 THEN p ELSE Hole)
      BY BlocksAssumption DEF Begun
<1> QED BY <1>1 DEF Begun

LEMMA WriteBlockKeeps ==
    ASSUME IInv, NEW p \in Proc, WriteBlock(p)
    PROVE  CInv'
<1> USE DEF IInv, TypeOK, Enter
<1>0. StageAgrees(p) /\ WritesLockFile(p) /\ FileTypeOK /\ NamesApart /\ NeverTorn
      BY DEF CInv
<1>1. file[Lock] = p /\ lockIno \in Inode /\ lockIno # targetIno
      BY <1>0, HolderHasFile DEF WriteBlock, NamesApart, FileTypeOK
<1>2. /\ fd[p] = lockIno /\ done[p] \in Nat /\ done[p] < Blocks
      /\ data[lockIno] = Begun(p, done[p])
      BY <1>0 DEF WriteBlock, WritesLockFile, FileTypeOK
<1>3. ASSUME NEW q \in Proc \ {p}
      PROVE  q \notin Writers
      BY <1>1, HolderHasFile DEF Writers, CInv
<1>4. ByOne(p) /\ UNCHANGED <<file, pc, arg, reg, lockIno, targetIno>>
      BY <1>0 DEF WriteBlock, ByOne, lockVars, FileTypeOK
<1>5. /\ data' = [data EXCEPT ![lockIno] = Begun(p, done[p] + 1)]
      /\ done'[p] = done[p] + 1
  <2>1. [data[lockIno] EXCEPT ![done[p] + 1] = p] = Begun(p, done[p] + 1)
        BY <1>2, OneMoreBlock
  <2>2. data' = [data EXCEPT ![lockIno] = [data[lockIno] EXCEPT ![done[p] + 1] = p]]
        BY <1>0, <1>1, <1>2 DEF WriteBlock, FileTypeOK
  <2> QED BY <1>0, <2>1, <2>2 DEF WriteBlock, FileTypeOK
<1>6. FileTypeOK'
  <2>1. Begun(p, done[p] + 1) \in Documents
        BY DEF Documents, Begun
  <2>2. done' \in [Proc -> 0..Blocks]
        BY <1>0, <1>2, BlocksAssumption DEF WriteBlock, FileTypeOK
  <2>3. stage' \in [Proc -> {"none", "lock", "open", "write", "rename", "forget", "unlock"}]
        /\ fd' \in [Proc -> Inode \cup {NoInode}]
        BY <1>0 DEF WriteBlock, FileTypeOK
  <2> QED BY <1>0, <1>1, <1>4, <1>5, <2>1, <2>2, <2>3 DEF FileTypeOK
<1>7. NamesApart' /\ StageAgrees(p)'
      BY <1>0, <1>4 DEF NamesApart, StageAgrees, WriteBlock, FileTypeOK
<1>8. WritesLockFile(p)'
  <2>1. CASE done[p] + 1 = Blocks
    <3>1. Whole(p) = Begun(p, done[p] + 1)
          BY <2>1, BlocksAssumption DEF Whole, Begun
    <3>2. stage'[p] = "rename" /\ fd'[p] = NoInode
          BY <1>0, <1>5, <2>1 DEF WriteBlock, FileTypeOK
    <3>3. data'[lockIno'] = Whole(p)
          BY <1>0, <1>1, <1>4, <1>5, <3>1 DEF FileTypeOK
    <3> QED BY <3>2, <3>3 DEF WritesLockFile
  <2>2. CASE done[p] + 1 # Blocks
    <3>1. stage'[p] = "write" /\ fd'[p] = lockIno
          BY <1>2, <1>5, <2>2 DEF WriteBlock
    <3>2. done'[p] < Blocks
          BY <1>2, <1>5, <2>2, BlocksAssumption
    <3>3. data'[lockIno'] = Begun(p, done'[p])
          BY <1>0, <1>1, <1>4, <1>5 DEF FileTypeOK
    <3> QED BY <1>4, <3>1, <3>2, <3>3 DEF WritesLockFile
  <2> QED BY <2>1, <2>2
<1>9. NeverTorn'
      BY <1>0, <1>1, <1>4, <1>5 DEF NeverTorn, Document, FileTypeOK
<1> QED BY <1>3, <1>4, <1>6, <1>7, <1>8, <1>9, WriterStep

LEMMA PublishKeeps ==
    ASSUME IInv, NEW p \in Proc, Publish(p)
    PROVE  CInv'
<1> USE LockInPath DEF IInv, TypeOK, Enter, Goto
<1>0. StageAgrees(p) /\ WritesLockFile(p) /\ FileTypeOK /\ NamesApart
      BY DEF CInv
<1>1. file[Lock] = p /\ lockIno \in Inode /\ data[lockIno] = Whole(p)
      BY <1>0, HolderHasFile DEF Publish, NamesApart, WritesLockFile, FileTypeOK
<1>2. ASSUME NEW q \in Proc \ {p}
      PROVE  q \notin Writers
      BY <1>1, HolderHasFile DEF Writers, CInv
<1>3. ByOne(p)
      BY <1>0 DEF Publish, RenameOver, ByOne, FileTypeOK
<1>4. FileTypeOK'
      BY <1>0, <1>1 DEF Publish, FileTypeOK
<1>5. NamesApart'
      BY <1>1, InodeAssumption DEF Publish, RenameOver, NamesApart
<1>6. StageAgrees(p)' /\ WritesLockFile(p)'
      BY <1>0 DEF Publish, RenameOver, StageAgrees, WritesLockFile, FileTypeOK
<1>7. NeverTorn'
      BY <1>1 DEF Publish, NeverTorn, Document
<1> QED BY <1>2, <1>3, <1>4, <1>5, <1>6, <1>7, WriterStep

\* What the end of a process does in the lock protocol.
LEMMA EndingIsOwn ==
    ASSUME TypeOK, NEW p \in Proc, Ending(p)
    PROVE  /\ \A q \in Proc \ {p} : pc'[q] = pc[q] /\ arg'[q] = arg[q] /\ reg'[q] = reg[q]
           /\ file[Lock] = Absent => file'[Lock] = Absent
           /\ pc'[p] \in {"exiting", "exitUnlinked", "handler", "dead"}
           /\ pc'[p] \in {"exiting", "exitUnlinked"} => pc[p] \in {"exiting", "exitUnlinked"}
           /\ pc'[p] = "dead" => reg'[p] = {}
<1> USE LockInPath DEF TypeOK, Goto
<1>1. CASE Dead(p)
      BY <1>1 DEF Dead, Abandon
<1>2. CASE ExitUnlink(p)
      BY <1>2 DEF ExitUnlink
<1>3. CASE ExitClear(p)
      BY <1>3 DEF ExitClear
<1>4. CASE HandlerUnlink(p)
      BY <1>4 DEF HandlerUnlink
<1>5. CASE Signal(p)
      BY <1>1, <1>5 DEF Signal
<1> QED BY <1>1, <1>2, <1>3, <1>4, <1>5 DEF Ending, ExitEnds, HandlerEnds, Kill

\* Who writes after a step of somebody else had the lock file before it and
\* has it still, so the lock's name follows nothing.
LEMMA WritersKeepName ==
    ASSUME IInv, TypeOK', OwnedFileIsMine', NEW p \in Proc, Ending(p),
           NEW q \in Proc \ {p}, q \in Writers
    PROVE  lockIno' = lockIno
<1>1. StageAgrees(q) /\ stage[q] \in {"write", "rename"}
      BY DEF IInv, CInv, Writers
<1>2. pc'[q] = "run" /\ Lock \in reg'[q]
      BY <1>1, EndingIsOwn DEF IInv, StageAgrees
<1>3. file'[Lock] = q
      BY <1>2, LockInPath DEF OwnedFileIsMine, Owned
<1> QED BY <1>3 DEF Ending, LockNameFollows

LEMMA EndingKeeps ==
    ASSUME IInv, TypeOK', OwnedFileIsMine', NEW p \in Proc, Ending(p)
    PROVE  CInv'
<1> USE DEF Enter
<1>0. StageAgrees(p) /\ WritesLockFile(p) /\ FileTypeOK /\ NamesApart /\ TypeOK
      BY DEF IInv, CInv
<1>1. /\ pc'[p] \in {"exiting", "exitUnlinked", "handler", "dead"}
      /\ pc'[p] \in {"exiting", "exitUnlinked"} => pc[p] \in {"exiting", "exitUnlinked"}
      /\ pc'[p] = "dead" => reg'[p] = {}
      /\ file[Lock] = Absent => file'[Lock] = Absent
      BY <1>0, EndingIsOwn
<1>2. ByOne(p)
      BY <1>0, EndingIsOwn DEF Ending, ByOne, FileTypeOK
<1>3. /\ stage' \in [Proc -> {"none", "lock", "open", "write", "rename", "forget", "unlock"}]
      /\ fd' \in [Proc -> Inode \cup {NoInode}]
      BY <1>0 DEF Ending, FileTypeOK
<1>4. StageAgrees(p)' /\ WritesLockFile(p)'
  <2>1. CASE pc'[p] \in {"dead", "handler"}
    <3>1. stage'[p] = "none" /\ fd'[p] = NoInode
          BY <1>0, <2>1 DEF Ending, FileTypeOK
    <3> QED BY <1>1, <2>1, <3>1 DEF StageAgrees, WritesLockFile
  <2>2. CASE pc'[p] \notin {"dead", "handler"}
    <3>1. stage[p] \in {"none", "unlock"} /\ UNCHANGED <<stage, fd>>
          BY <1>0, <1>1, <2>2 DEF Ending, StageAgrees, FileTypeOK
    <3> QED BY <1>0, <1>1, <2>2, <3>1 DEF StageAgrees, WritesLockFile
  <2> QED BY <2>1, <2>2
<1>5. lockIno' \in {lockIno, NoInode} /\ (file'[Lock] = Absent <=> lockIno' = NoInode)
      BY <1>0, <1>1 DEF Ending, LockNameFollows, NamesApart
<1>6. \A q \in Proc \ {p} : q \in Writers => lockIno' = lockIno
      BY WritersKeepName
<1> QED BY <1>2, <1>3, <1>4, <1>5, <1>6, QuietStep DEF Ending, IInv

LEMMA OutsideKeeps ==
    ASSUME IInv, Outside
    PROVE  CInv'
<1> USE LockInPath DEF IInv, TypeOK, Goto
<1>0. FileTypeOK /\ NamesApart /\ NeverTorn /\ \A q \in Proc : StageAgrees(q) /\ WritesLockFile(q)
      BY DEF CInv
<1>1. /\ \A q \in Proc : pc'[q] = pc[q] \/ (pc[q] = "dead" /\ pc'[q] = "run")
      /\ UNCHANGED <<arg, reg, stage, fd, done, data, targetIno>>
      BY DEF Outside, Start, UserRemoves
<1>2. \A q \in Proc : q \in Writers => lockIno' = lockIno
  <2>1. CASE \E p \in Proc : Start(p)
        BY <1>0, <2>1 DEF Outside, Start, LockNameFollows, NamesApart
  <2>2. CASE \E x \in Path : UserRemoves(x)
        BY <1>0, <2>2 DEF UserRemoves, Writers, StageAgrees
  <2> QED BY <2>1, <2>2 DEF Outside
<1>3. \A q \in Proc : StageAgrees(q)'
      BY <1>0, <1>1 DEF StageAgrees
<1>4. \A q \in Proc : WritesLockFile(q)'
      BY <1>0, <1>1, <1>2 DEF WritesLockFile, Writers
<1>5. NamesApart' /\ lockIno' \in {lockIno, NoInode}
  <2>1. file[Lock] = Absent => file'[Lock] = Absent
        BY DEF Outside, Start, UserRemoves
  <2> QED BY <1>0, <1>1, <2>1, InodeAssumption DEF Outside, LockNameFollows, NamesApart, FileTypeOK
<1>6. FileTypeOK' /\ NeverTorn'
      BY <1>0, <1>1, <1>5 DEF FileTypeOK, NeverTorn, Document
<1> QED BY <1>3, <1>4, <1>5, <1>6 DEF CInv

LEMMA InvStep ==
    ASSUME WindowFree, IInv, [CNext]_vars
    PROVE  IInv'
<1>1. TypeOK' /\ OwnedFileIsMine'
      BY LockProtocolFollowed, NextTyped, OwnedStep DEF IInv
<1>2. CASE UNCHANGED vars
      BY <1>2 DEF IInv, CInv, FileTypeOK, StageAgrees, WritesLockFile, NamesApart,
                  NeverTorn, Document, vars, lockVars, fileVars, TypeOK,
                  OwnedFileIsMine, Owned
<1>3. CASE CNext
      BY <1>1, <1>3, LockStepsKeep, OtherLockKeeps, UnlockKeeps, WriteFailsKeeps,
         LockMadeKeeps, FopenKeeps, WriteBlockKeeps, PublishKeeps, EndingKeeps,
         OutsideKeeps DEF CNext, IInv
<1> QED BY <1>2, <1>3

LEMMA InvInit == CInit => IInv
<1> SUFFICES ASSUME CInit
             PROVE  IInv
      OBVIOUS
<1> USE LockInPath DEF CInit
<1>1. TypeOK /\ OwnedFileIsMine
      BY DEF Init, TypeOK, OwnedFileIsMine, Owned, Places
<1>2. targetIno \in Inode
      BY RoomAssumption
<1>3. Whole(Initial) \in Documents /\ 0 \in 0..Blocks
      BY BlocksAssumption DEF Whole, Documents
<1>4. FileTypeOK
      BY <1>2, <1>3 DEF FileTypeOK
<1>5. NamesApart
      BY <1>2, InodeAssumption DEF Init, NamesApart
<1>6. NeverTorn
      BY <1>2 DEF NeverTorn, Document
<1>7. \A p \in Proc : StageAgrees(p) /\ WritesLockFile(p)
      BY DEF Init, StageAgrees, WritesLockFile
<1> QED BY <1>1, <1>4, <1>5, <1>6, <1>7 DEF IInv, CInv

LEMMA Invariance == WindowFree /\ CSpec => []IInv
<1>1. WindowFree /\ IInv /\ [CNext]_vars => IInv'
      BY InvStep
<1>2. ASSUME WindowFree
      PROVE  CSpec => []IInv
      BY <1>1, <1>2, InvInit, PTL DEF CSpec
<1> QED BY <1>2

-----------------------------------------------------------------------------
(* What config.c promises *)

\* "Every reader either sees the old content or the new content, never a torn
\* file": whatever processes write, fail, are signalled outside the windows or
\* are killed, the config file holds one document, all of it.
THEOREM ConfigNeverTorn == WindowFree /\ CSpec => []NeverTorn
<1>1. IInv => NeverTorn
      BY DEF IInv, CInv
<1>2. ASSUME WindowFree
      PROVE  CSpec => []NeverTorn
      BY <1>1, <1>2, Invariance, PTL
<1> QED BY <1>2

\* The lock protocol is kept to by every writer of the config file.
THEOREM ConfigKeepsProtocol == WindowFree /\ CSpec => Spec
<1>1. CInit => Init
      BY DEF CInit
<1>2. IInv /\ [CNext]_vars => [Next]_lockVars
      BY LockProtocolFollowed
<1>3. ASSUME WindowFree
      PROVE  CSpec => Spec
      BY <1>1, <1>2, <1>3, Invariance, PTL DEF CSpec, Spec
<1> QED BY <1>3

\* So what is proved of the lock protocol holds of the config file's writers:
\* no two of them have one lock, and none takes the lock file of another.
THEOREM ConfigExclusion == WindowFree /\ CSpec => []MutualExclusion /\ NoForeignUnlink
<1>1. ASSUME WindowFree
      PROVE  CSpec => []MutualExclusion /\ NoForeignUnlink
      BY <1>1, ConfigKeepsProtocol, Exclusion, OwnUnlinksOnly, PTL
<1> QED BY <1>1

-----------------------------------------------------------------------------
(* The lock protocol implements AtomicFile *)

\* The document a reader sees, as AtomicFile has it.
Content == IF NeverTorn THEN Document[1] ELSE Hole

LEMMA WholeContent ==
    ASSUME NEW d \in Proc \cup {Initial}, Document = Whole(d)
    PROVE  Content = d
BY BlocksAssumption DEF Content, NeverTorn, Whole

LEMMA SameContent ==
    ASSUME Document' = Document
    PROVE  Content' = Content
BY DEF Content, NeverTorn

LEMMA OneWriter ==
    ASSUME IInv, NEW p \in Proc, file[Lock] = p
    PROVE  Writers \subseteq {p}
BY HolderHasFile DEF IInv, CInv, Writers

\* A step of p in which p neither starts nor stops writing.
LEMMA WritersStay ==
    ASSUME NEW p \in Proc, ByOne(p), p \in Writers <=> (p \in Writers)'
    PROVE  Writers' = Writers
BY DEF ByOne, Writers

\* A step of p that ends p's writing and leaves the config file alone.
LEMMA AbortStep ==
    ASSUME IInv, NEW p \in Proc, ByOne(p), ~(p \in Writers)',
           UNCHANGED <<data, targetIno>>
    PROVE  [Atomic!Next]_<<Writers, Content>>
<1>1. Content' = Content
      BY SameContent DEF Document
<1>2. CASE p \notin Writers
      BY <1>1, <1>2, WritersStay
<1>3. CASE p \in Writers
  <2>1. file[Lock] = p
        BY <1>3, HolderHasFile DEF IInv, CInv, Writers
  <2>2. Writers = {p}
        BY <1>3, <2>1, OneWriter
  <2>3. Writers' = {}
        BY <2>2 DEF ByOne, Writers
  <2> QED BY <1>1, <2>2, <2>3 DEF Atomic!Next, Atomic!Abort, Content
<1> QED BY <1>2, <1>3

LEMMA FopenBegins ==
    ASSUME IInv, NEW p \in Proc, Fopen(p)
    PROVE  [Atomic!Next]_<<Writers, Content>>
<1> USE DEF IInv, TypeOK
<1>0. StageAgrees(p) /\ FileTypeOK /\ NamesApart
      BY DEF CInv
<1>1. file[Lock] = p /\ lockIno \in Inode /\ lockIno # targetIno
      BY <1>0, HolderHasFile, LockInPath DEF Fopen, NamesApart, FileTypeOK
<1>2. Writers = {}
      BY <1>1, OneWriter DEF Fopen, Writers
<1>3. Writers' = {p}
      BY <1>0, <1>2 DEF Fopen, Enter, Writers, FileTypeOK
<1>4. Content' = Content
      BY <1>0, <1>1, SameContent DEF Fopen, Document, FileTypeOK
<1> QED BY <1>2, <1>3, <1>4 DEF Atomic!Next, Atomic!Begin, Content

LEMMA PublishCommits ==
    ASSUME IInv, NEW p \in Proc, Publish(p)
    PROVE  [Atomic!Next]_<<Writers, Content>>
<1> USE DEF IInv, TypeOK
<1>0. StageAgrees(p) /\ WritesLockFile(p) /\ FileTypeOK
      BY DEF CInv
<1>1. file[Lock] = p /\ data[lockIno] = Whole(p)
      BY <1>0, HolderHasFile, LockInPath DEF Publish, WritesLockFile
<1>2. Writers = {p}
      BY <1>1, OneWriter DEF Publish, Writers
<1>3. Writers' = {}
      BY <1>0, <1>2 DEF Publish, Enter, Writers, FileTypeOK
<1>4. Document' = Whole(p)
      BY <1>1 DEF Publish, Document
<1>5. Content' = p
      BY <1>4, BlocksAssumption DEF Content, NeverTorn, Whole
<1> QED BY <1>2, <1>3, <1>5 DEF Atomic!Next, Atomic!Commit, Content

\* A step that changes neither who writes nor the config file.
LEMMA Stutter ==
    ASSUME Writers' = Writers, Document' = Document
    PROVE  [Atomic!Next]_<<Writers, Content>>
BY SameContent

LEMMA RefinementStep ==
    ASSUME WindowFree, IInv, [CNext]_vars
    PROVE  [Atomic!Next]_<<Writers, Content>>
<1> USE DEF Enter
<1>0. FileTypeOK /\ TypeOK /\ NamesApart
      BY DEF IInv, CInv
<1>1. ASSUME NEW p \in Proc,
             \/ Begin(p) \/ LockWaits(p) \/ LockFails(p) \/ LockTaken(p)
             \/ LockMade(p) \/ Forget(p) \/ OtherLock(p) \/ Die(p) \/ Unlock(p)
      PROVE  [Atomic!Next]_<<Writers, Content>>
  <2>1. Writers' = Writers
        BY <1>0, <1>1 DEF Begin, LockWaits, LockFails, LockTaken, LockMade, Forget,
              OtherLock, Die, Unlock, fileVars, Writers, FileTypeOK
  <2>2. Document' = Document
    <3>1. CASE LockMade(p)
      <4>1. Fresh \in Inode /\ Fresh # targetIno
        <5>1. file[Lock] = Absent
              BY <3>1 DEF LockMade, Create, StageAgrees, IInv, CInv
        <5> QED BY <5>1, FreshIsFree
      <4> QED BY <1>0, <3>1, <4>1 DEF LockMade, Document, FileTypeOK
    <3>2. CASE ~LockMade(p)
          BY <1>1, <3>2 DEF Begin, LockWaits, LockFails, LockTaken, Forget,
              OtherLock, Die, Unlock, fileVars, Document
    <3> QED BY <3>1, <3>2
  <2> QED BY <2>1, <2>2, Stutter
<1>2. ASSUME NEW p \in Proc, WriteBlock(p)
      PROVE  [Atomic!Next]_<<Writers, Content>>
  <2>1. Writers' = Writers
        BY <1>0, <1>2 DEF WriteBlock, Writers, FileTypeOK
  <2>2. fd[p] # targetIno
        BY <1>0, <1>2 DEF WriteBlock, IInv, CInv, WritesLockFile, NamesApart
  <2>3. Document' = Document
        BY <1>0, <1>2, <2>2 DEF WriteBlock, Document, FileTypeOK
  <2> QED BY <2>1, <2>3, Stutter
<1>3. ASSUME NEW p \in Proc, WriteFails(p)
      PROVE  [Atomic!Next]_<<Writers, Content>>
  <2>1. ByOne(p) /\ ~(p \in Writers)'
        BY <1>0, <1>3 DEF WriteFails, ByOne, lockVars, Writers, FileTypeOK
  <2> QED BY <1>3, <2>1, AbortStep DEF WriteFails
<1>4. ASSUME NEW p \in Proc, Ending(p)
      PROVE  [Atomic!Next]_<<Writers, Content>>
  <2>1. ByOne(p)
        BY <1>0, <1>4, EndingIsOwn DEF Ending, ByOne, FileTypeOK
  <2>2. ~(p \in Writers)'
    <3>1. IInv'
          BY <1>4, InvStep DEF CNext
    <3>2. pc'[p] # "run"
          BY <1>0, <1>4, EndingIsOwn
    <3> QED BY <3>1, <3>2 DEF IInv, CInv, StageAgrees, Writers
  <2> QED BY <1>4, <2>1, <2>2, AbortStep DEF Ending
<1>5. CASE Outside
      BY <1>5, Stutter DEF Outside, Writers, Document
<1>6. CASE UNCHANGED vars
      BY <1>6, Stutter DEF vars, fileVars, Writers, Document
<1> QED BY <1>1, <1>2, <1>3, <1>4, <1>5, <1>6, FopenBegins, PublishCommits DEF CNext

\* config_write_file implements AtomicFile: one actor writes at a time, and
\* the file goes from one whole document to the next when its writer is done.
THEOREM ConfigRefines == WindowFree /\ CSpec => AtomicReplace
<1>1. CInit => Atomic!Init
  <2> SUFFICES ASSUME CInit
               PROVE  Atomic!Init
        OBVIOUS
  <2>1. targetIno \in Inode /\ Writers = {}
        BY RoomAssumption DEF CInit, Writers
  <2>2. Document = Whole(Initial)
        BY <2>1 DEF CInit, Document
  <2> QED BY <2>1, <2>2, WholeContent DEF Atomic!Init, Content
<1>2. WindowFree /\ IInv /\ [CNext]_vars => [Atomic!Next]_<<Writers, Content>>
      BY RefinementStep
<1>3. ASSUME WindowFree
      PROVE  CSpec => AtomicReplace
      BY <1>1, <1>2, <1>3, Invariance, PTL DEF CSpec, AtomicReplace, Atomic!Spec, Content
<1> QED BY <1>3
=============================================================================
