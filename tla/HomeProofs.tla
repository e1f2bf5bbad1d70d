----------------------------- MODULE HomeProofs -----------------------------
(***************************************************************************)
(* Proofs about a project's build directory and the stores of ~/.ice, for  *)
(* any number of processes, settings, tools, files and faults.             *)
(***************************************************************************)
EXTENDS ToolStore, RepoStore, SelfUpdate, ProjectDir, TLAPS

-----------------------------------------------------------------------------
(* ProjectDir: what the commands leave of a build directory *)

Building == {"ninja", "link", "touch", "release", "failed"}

OneSetting ==
    /\ dir["args"] # None /\ dir["cache"] # None => dir["args"].setting = dir["cache"]
    /\ dir["image"] # None /\ dir["cache"] # None => dir["image"].setting = dir["cache"]
    /\ dir["image"] # None /\ dir["args"] # None => dir["image"].setting = dir["args"].setting
MarkersAreTrue ==
    /\ dir["configured"] # None => config # None /\ dir["cache"] = config /\ dir["args"] # None
    /\ dir["built"] # None => dir["configured"] # None

\* How far p's ice init has got with the directory, while it is alone.
InitProgress(p) ==
    /\ pc[p] = "wipe" => \A x \in Item : dir[x] # None => x \in left[p]
    /\ pc[p] \in {"mkdir", "initLock", "cmake"} => Empty
    /\ pc[p] = "mark" => dir["configured"] = None
    /\ pc[p] \in {"mark", "commit"} =>
          dir["built"] = None /\ dir["cache"] = mine[p] /\ dir["args"] # None
    /\ pc[p] = "unbuilt" => course = "whole"

\* And p's build, beside other builds, flashes and cleans.
BuildProgress(p) ==
    /\ pc[p] \in Building => dir["lock"] = p
    /\ course = "whole" /\ pc[p] \in Building \cup {"buildLock"} => dir["configured"] # None
    /\ pc[p] = "link" =>
          linking[p].setting = dir["cache"] /\ linking[p].edit >= asked[p]
    /\ pc[p] \in {"link", "touch", "release"} => upset[p] \subseteq {"clean"}
    /\ pc[p] \in {"touch", "release"} /\ "clean" \notin upset[p] => WholeFor(p)
    /\ pc[p] = "flashing" /\ asked[p] # None /\ upset[p] = {} => WholeFor(p)

\* What holds of a process in any company.
InCompany(p) ==
    /\ Initialising(p) => mine[p] \in Setting
    /\ pc[p] \in Building \cup {"buildLock"} => asked[p] \in 0..edits
    /\ pc[p] = "link" => linking[p] \in Version
    /\ pc[p] \in {"wipe", "wipeFailed", "commit"} => course # "whole"
    /\ pc[p] \notin Working => upset[p] = {}
    /\ pc[p] \in Working => \A q \in Proc \ {p} : Changing(q) \subseteq upset[p]

DirInv ==
    /\ \A p \in Proc : InCompany(p)
    /\ course # "crossed" => /\ ~Crossing
                             /\ OneSetting
                             /\ \A p \in Proc : InitProgress(p) /\ BuildProgress(p)
    /\ course = "whole" => MarkersAreTrue

LEMMA PropertiesOfDirInv ==
    ASSUME DirInv
    PROVE  DirectoryIsOne /\ BuildIsWhole
BY DEF DirInv, DirectoryIsOne, BuildIsWhole, OneSetting, MarkersAreTrue, BuildProgress

DirTypeOK(d) ==
    /\ DOMAIN d = Item
    /\ d["cache"] \in Setting \cup {None}
    /\ d["args"] \in Version \cup {None}
    /\ d["image"] \in Image \cup {None}
    /\ \A x \in {"configured", "built"} : d[x] \in {Yes, None}
    /\ d["lock"] \in Proc \cup {None}

\* Every action but Recorded's part of it.
StepOf(p) == InitCommand(p) \/ OtherCommand(p) \/ Fails(p)

LEMMA ImageTyped ==
    /\ \A s \in Setting : Mix(s) \in Image
    /\ \A i \in Image : i.setting \in Setting
    /\ Version \subseteq Image
<1>1. \A s \in Setting : Mix(s) \in Image
      BY DEF Image
<1>2. ASSUME NEW i \in Image PROVE i.setting \in Setting
      BY DEF Image, Mix, Version
<1> QED BY <1>1, <1>2 DEF Image

LEMMA LeavingTyped ==
    ASSUME TypeOK, DirInv, NEW p \in Proc, NEW d \in Leaving(p)
    PROVE  DirTypeOK(d)
<1> USE BoundsAssumption DEF Item
<1>1. DirTypeOK(dir)
      BY DEF TypeOK, DirTypeOK
<1>2. CASE pc[p] = "cmake"
  <2>1. mine[p] \in Setting /\ edits \in 0..MaxEdits
        BY <1>2 DEF DirInv, InCompany, Initialising, TypeOK
  <2>2. [setting |-> mine[p], edit |-> edits] \in Version
        BY <2>1 DEF Version
  <2>3. d \in {dir, [dir EXCEPT !["cache"] = mine[p]], Configured(p)}
        BY <1>2 DEF Leaving
  <2> QED BY <1>1, <2>1, <2>2, <2>3 DEF DirTypeOK, Configured
<1>3. CASE pc[p] \in {"ninja", "cleaning"} /\ dir["cache"] # None
  <2>1. Current \in Version
        BY <1>3 DEF Current, Version, TypeOK
  <2>2. d \in {dir, Relaid}
        BY <1>3 DEF Leaving
  <2> QED BY <1>1, <2>1, <2>2 DEF DirTypeOK, Relaid
<1>4. CASE pc[p] # "cmake" /\ ~(pc[p] \in {"ninja", "cleaning"} /\ dir["cache"] # None)
      BY <1>1, <1>4 DEF Leaving
<1> QED BY <1>2, <1>3, <1>4

LocalTypeOK ==
    /\ pc \in [Proc -> Steps]
    /\ cmd \in [Proc -> Commands \cup {None}]
    /\ mine \in [Proc -> Setting \cup {None}]
    /\ left \in [Proc -> SUBSET Item]
    /\ seen \in [Proc -> Version \cup {None}]
    /\ linking \in [Proc -> Version \cup {None}]
    /\ asked \in [Proc -> (0..MaxEdits) \cup {None}]

LEMMA EndTyped ==
    ASSUME LocalTypeOK, NEW p \in Proc, End(p)
    PROVE  LocalTypeOK'
BY DEF LocalTypeOK, End, Goto, Steps

DiskTypeOK ==
    /\ config \in Setting \cup {None}
    /\ configLock \in Proc \cup {None}
    /\ DirTypeOK(dir)
    /\ dotIce \in BOOLEAN
    /\ edits \in 0..MaxEdits

LEMMA StepTyped ==
    ASSUME TypeOK, DirInv, NEW p \in Proc, StepOf(p)
    PROVE  DiskTypeOK' /\ LocalTypeOK'
<1> USE DEF Item, Put
<1>0. DiskTypeOK /\ LocalTypeOK
      BY DEF TypeOK, DiskTypeOK, LocalTypeOK, DirTypeOK
<1>1. ASSUME NEW d \in Leaving(p), DieLeaving(p, d), dotIce' \in BOOLEAN
      PROVE  DiskTypeOK' /\ LocalTypeOK'
  <2>1. DirTypeOK(d)
        BY LeavingTyped
  <2>2. DirTypeOK(dir')
        BY <1>1, <2>1 DEF DieLeaving, DirTypeOK
  <2>3. LocalTypeOK'
        BY <1>0, <1>1, EndTyped DEF DieLeaving
  <2> QED BY <1>0, <1>1, <2>2, <2>3 DEF DieLeaving, DiskTypeOK
<1>2. dir \in Leaving(p)
      BY DEF Leaving
<1>3. ASSUME Die(p) PROVE DiskTypeOK' /\ LocalTypeOK'
      BY <1>0, <1>1, <1>2, <1>3 DEF Die, DiskTypeOK
<1>4. Fails(p) => DiskTypeOK' /\ LocalTypeOK'
      BY <1>0, <1>1 DEF Fails, DiskTypeOK
<1>5. InitCommand(p) => DiskTypeOK' /\ LocalTypeOK'
  <2> SUFFICES ASSUME InitCommand(p) PROVE DiskTypeOK' /\ LocalTypeOK'
        OBVIOUS
  <2>1. CASE InitStart(p)
        BY <1>0, <2>1, CommandsAssumption DEF InitStart, Start, Goto, Steps, disk, DiskTypeOK, DirTypeOK, LocalTypeOK
  <2>2. CASE WipeItem(p)
    <3>1. PICK x \in left[p] : /\ left' = [left EXCEPT ![p] = @ \ {x}]
                               /\ \/ Put(x, None) /\ UNCHANGED pc
                                  \/ Goto(p, "wipeFailed") /\ UNCHANGED dir
          BY <2>2 DEF WipeItem
    <3>2. left[p] \ {x} \in SUBSET Item
          BY <1>0 DEF LocalTypeOK
    <3>3. left' \in [Proc -> SUBSET Item]
          BY <1>0, <3>1, <3>2 DEF LocalTypeOK
    <3>4. pc' \in [Proc -> Steps]
          BY <1>0, <3>1 DEF Goto, Steps, LocalTypeOK
    <3>5. DirTypeOK(dir')
          BY <1>0, <3>1 DEF DiskTypeOK, DirTypeOK
    <3> QED BY <1>0, <2>2, <3>3, <3>4, <3>5 DEF WipeItem, DiskTypeOK, LocalTypeOK
  <2>3. CASE WipeEnds(p)
        BY <1>0, <2>3, EndTyped DEF WipeEnds, Goto, Steps, local, DiskTypeOK, LocalTypeOK
  <2>4. CASE MakeLogDir(p)
        BY <1>0, <2>4 DEF MakeLogDir, Goto, Steps, local, DiskTypeOK, LocalTypeOK
  <2>5. CASE TakeConfigLock(p)
        BY <1>0, <1>3, <2>5 DEF TakeConfigLock, Goto, Steps, local, DiskTypeOK, LocalTypeOK
  <2>6. CASE Configure(p)
    <3>1. Configured(p) \in Leaving(p)
          BY <2>6 DEF Configure, Leaving
    <3>2. DirTypeOK(dir')
          BY <2>6, <3>1, LeavingTyped DEF Configure
    <3> QED BY <1>0, <2>6, <3>2 DEF Configure, Goto, Steps, local, DiskTypeOK, LocalTypeOK
  <2>7. CASE ConfigureFails(p)
    <3>1. PICK d \in Leaving(p) : dir' = [d EXCEPT !["cache"] = None]
          BY <2>7 DEF ConfigureFails
    <3>2. DirTypeOK(d)
          BY LeavingTyped
    <3>3. DirTypeOK(dir')
          BY <3>1, <3>2 DEF DirTypeOK
    <3> QED BY <1>0, <2>7, <3>3, EndTyped DEF ConfigureFails, DiskTypeOK
  <2>8. CASE MarkConfigured(p)
    <3>1. CASE dotIce
      <4>1. DirTypeOK(dir')
            BY <1>0, <2>8, <3>1 DEF MarkConfigured, DiskTypeOK, DirTypeOK
      <4> QED BY <1>0, <2>8, <3>1, <4>1 DEF MarkConfigured, Goto, Steps, local, DiskTypeOK, LocalTypeOK
    <3> QED BY <1>3, <2>8, <3>1 DEF MarkConfigured
  <2>9. CASE CommitConfig(p)
        BY <1>0, <2>9 DEF CommitConfig, Goto, Steps, local, DiskTypeOK, LocalTypeOK
  <2>10. CASE Unbuilt(p)
    <3>1. DirTypeOK(dir')
          BY <1>0, <2>10 DEF Unbuilt, DiskTypeOK, DirTypeOK
    <3> QED BY <1>0, <2>10, <3>1, EndTyped DEF Unbuilt, DiskTypeOK
  <2> QED BY <2>1, <2>2, <2>3, <2>4, <2>5, <2>6, <2>7, <2>8, <2>9, <2>10 DEF InitCommand
<1>6. OtherCommand(p) => DiskTypeOK' /\ LocalTypeOK'
  <2> SUFFICES ASSUME OtherCommand(p) PROVE DiskTypeOK' /\ LocalTypeOK'
        OBVIOUS
  <2>0. dir["cache"] # None => Current \in Version
        BY <1>0 DEF Current, Version, DiskTypeOK, DirTypeOK
  <2>1. ASSUME NEW c \in Commands, SetupStart(p, c)
        PROVE  DiskTypeOK' /\ LocalTypeOK'
        BY <1>0, <2>1 DEF SetupStart, Start, Goto, Steps, disk, DiskTypeOK, LocalTypeOK
  <2>2. CASE Setup(p)
    <3>1. CASE Die(p)
          BY <1>3, <3>1
    <3>2. CASE ~Die(p)
      <4>1. PICK s \in {"cleaning", "flashing", "buildLock"} :
               /\ Goto(p, s) /\ seen' = [seen EXCEPT ![p] = IF cmd[p] = "flash" THEN dir["args"] ELSE None]
               /\ asked' = [asked EXCEPT ![p] = IF s = "buildLock" THEN edits ELSE None]
               /\ UNCHANGED <<disk, edits, cmd, mine, left, linking>>
            BY <2>2, <3>2 DEF Setup
      <4> QED BY <1>0, <4>1 DEF Goto, Steps, disk, DiskTypeOK, DirTypeOK, LocalTypeOK
    <3> QED BY <3>1, <3>2
  <2>3. CASE TakeBuildLock(p)
    <3>1. CASE dir["lock"] = None
      <4>1. DirTypeOK(dir')
            BY <1>0, <2>3, <3>1 DEF TakeBuildLock, DiskTypeOK, DirTypeOK
      <4> QED BY <1>0, <2>3, <3>1, <4>1 DEF TakeBuildLock, Goto, Steps, local, DiskTypeOK, LocalTypeOK
    <3>2. CASE dir["lock"] # None
          BY <1>1, <1>2, <2>3, <3>2 DEF TakeBuildLock
    <3> QED BY <3>1, <3>2
  <2>4. CASE Ninja(p)
    <3>1. DirTypeOK(dir')
      <4>1. Mix(dir["cache"]) \in Image
            BY <1>0, <2>4, ImageTyped DEF Ninja, DiskTypeOK, DirTypeOK
      <4> QED BY <1>0, <2>0, <2>4, <4>1 DEF Ninja, Relaid, DiskTypeOK, DirTypeOK
    <3> QED BY <1>0, <2>0, <2>4, <3>1 DEF Ninja, Goto, Steps, DiskTypeOK, LocalTypeOK
  <2>5. CASE LinkEnds(p)
    <3>1. DirTypeOK(dir') /\ linking' \in [Proc -> Version \cup {None}]
      <4>1. linking[p] \in Version
            BY <2>5 DEF LinkEnds, DirInv, InCompany
      <4>2. linking[p].setting \in Setting
            BY <4>1 DEF Version
      <4>3. Mix(linking[p].setting) \in Image /\ linking[p] \in Image
            BY <4>1, <4>2, ImageTyped
      <4> QED BY <1>0, <2>5, <4>3 DEF LinkEnds, DiskTypeOK, DirTypeOK, LocalTypeOK
    <3> QED BY <1>0, <2>5, <3>1 DEF LinkEnds, Goto, Steps, DiskTypeOK, LocalTypeOK
  <2>6. CASE NinjaFails(p)
        BY <1>0, <2>6, LeavingTyped DEF NinjaFails, Goto, Steps, DiskTypeOK, LocalTypeOK
  <2>7. CASE MarkBuilt(p)
        BY <1>0, <2>7 DEF MarkBuilt, Goto, Steps, local, DiskTypeOK, DirTypeOK, LocalTypeOK
  <2>8. CASE ReleaseBuildLock(p)
    <3>1. DirTypeOK(dir')
          BY <1>0, <2>8 DEF ReleaseBuildLock, DiskTypeOK, DirTypeOK
    <3>2. LocalTypeOK'
          BY <1>0, <2>8, EndTyped DEF ReleaseBuildLock, Goto, Steps, local, LocalTypeOK
    <3> QED BY <1>0, <2>8, <3>1, <3>2 DEF ReleaseBuildLock, DiskTypeOK
  <2>9. CASE CleanBegins(p)
    <3>1. Mix(dir["image"].setting) \in Image
          BY <1>0, <2>9, ImageTyped DEF CleanBegins, DiskTypeOK, DirTypeOK
    <3>2. DirTypeOK(dir')
          BY <1>0, <2>0, <2>9, <3>1 DEF CleanBegins, Relaid, DiskTypeOK, DirTypeOK
    <3> QED BY <1>0, <2>9, <3>2 DEF CleanBegins, Goto, Steps, local, DiskTypeOK, LocalTypeOK
  <2>10. CASE CleanEnds(p)
    <3>1. dir["image"] # None => Mix(dir["image"].setting) \in Image
          BY <1>0, ImageTyped DEF DiskTypeOK, DirTypeOK
    <3>2. DirTypeOK(dir')
          BY <1>0, <2>10, <3>1 DEF CleanEnds, DiskTypeOK, DirTypeOK
    <3> QED BY <1>0, <2>10, <3>2, EndTyped DEF CleanEnds, DiskTypeOK
  <2>11. CASE CleanStops(p)
        BY <1>0, <2>11, LeavingTyped, EndTyped DEF CleanStops, DiskTypeOK
  <2>12. CASE Flash(p)
        BY <1>0, <2>12, EndTyped DEF Flash, disk, DiskTypeOK
  <2> QED BY <2>1, <2>2, <2>3, <2>4, <2>5, <2>6, <2>7, <2>8, <2>9, <2>10, <2>11, <2>12 DEF OtherCommand
<1> QED BY <1>4, <1>5, <1>6 DEF StepOf

-----------------------------------------------------------------------------
(* What Recorded says of course and upset. *)

LEMMA RecordedSays ==
    ASSUME Recorded
    PROVE  /\ course' \in {"whole", "torn", "crossed", course}
           /\ course' # "crossed" => ~Crossing'
           /\ course' # "crossed" /\ course = "crossed" => (At({"mkdir"}) /\ Empty)'
           /\ At({"wipe", "wipeFailed", "commit"})' => course' # "whole" \/ (At({"mkdir"}) /\ Empty)'
           /\ course' = "whole" =>
                 course = "whole" \/ (At({"mkdir"}) /\ Empty)' \/ At({"unbuilt"})'
           /\ At({"unbuilt"})' /\ ~At({"wipe", "wipeFailed", "commit"})' =>
                 course' \in {"whole", "crossed"}
BY DEF Recorded

LEMMA UpsetRecorded ==
    ASSUME Recorded, NEW p \in Proc
    PROVE  /\ pc'[p] \notin Working => upset'[p] = {}
           /\ pc'[p] \in Working => upset'[p] = upset[p] \cup Others(p)'
           /\ pc'[p] \in Working => \A q \in Proc \ {p} : Changing(q)' \subseteq upset'[p]
<1>1. upset'[p] = IF pc'[p] \in Working THEN upset[p] \cup Others(p)' ELSE {}
      BY DEF Recorded
<1>2. \A q \in Proc \ {p} : Changing(q)' \subseteq Others(p)'
      BY DEF Others
<1> QED BY <1>1, <1>2

LEMMA ChangingTyped ==
    /\ \A p \in Proc : Changing(p) \subseteq {"init", "clean", "build"}
    /\ \A p \in Proc : "init" \in Changing(p) => Initialising(p)
    /\ \A p \in Proc : "build" \in Changing(p) => pc[p] = "link"
BY DEF Changing, Initialising

LEMMA RecordedTyped ==
    ASSUME TypeOK, Recorded
    PROVE  /\ course' \in {"whole", "torn", "crossed"}
           /\ upset' \in [Proc -> SUBSET {"init", "clean", "build"}]
<1>1. course' \in {"whole", "torn", "crossed"}
      BY RecordedSays DEF TypeOK
<1>2. ASSUME NEW p \in Proc
      PROVE  upset[p] \cup Others(p)' \in SUBSET {"init", "clean", "build"}
  <2>1. ASSUME NEW q \in Proc PROVE Changing(q)' \subseteq {"init", "clean", "build"}
        BY DEF Changing
  <2> QED BY <2>1 DEF Others, TypeOK
<1> QED BY <1>1, <1>2 DEF Recorded

LEMMA DirTyped ==
    ASSUME TypeOK, DirInv, [Next]_vars
    PROVE  TypeOK'
<1>0. DiskTypeOK /\ LocalTypeOK
      BY DEF TypeOK, DiskTypeOK, LocalTypeOK, DirTypeOK
<1>1. CASE UNCHANGED vars
      BY <1>1 DEF vars, disk, local, TypeOK
<1>2. CASE Next
  <2>1. DiskTypeOK' /\ LocalTypeOK'
    <3>1. CASE Edit
          BY <1>0, <3>1, BoundsAssumption DEF Edit, disk, local, DiskTypeOK, DirTypeOK, LocalTypeOK
    <3> QED BY <1>2, <3>1, StepTyped DEF Next, StepOf
  <2> QED BY <1>2, <2>1, RecordedTyped DEF Next, TypeOK, DiskTypeOK, LocalTypeOK, DirTypeOK
<1> QED BY <1>1, <1>2

-----------------------------------------------------------------------------
(* The invariant's parts over a step *)

\* What a step of p leaves alone of the others.
OthersKept(p) ==
    \A q \in Proc \ {p} :
       pc'[q] = pc[q] /\ mine'[q] = mine[q] /\ linking'[q] = linking[q] /\ asked'[q] = asked[q]
       /\ left'[q] = left[q]

LEMMA StepKeepsOthers ==
    ASSUME LocalTypeOK, NEW p \in Proc, StepOf(p)
    PROVE  OthersKept(p) /\ (UNCHANGED edits)
<1> USE DEF OthersKept, LocalTypeOK, Goto, local
<1>1. ASSUME NEW d, DieLeaving(p, d)
      PROVE  OthersKept(p) /\ (UNCHANGED edits)
      BY <1>1 DEF DieLeaving, End
<1>2. Fails(p) => OthersKept(p) /\ (UNCHANGED edits)
      BY <1>1 DEF Fails
<1>3. InitCommand(p) => OthersKept(p) /\ (UNCHANGED edits)
      BY <1>1 DEF InitCommand, InitStart, Start, WipeItem, WipeEnds, MakeLogDir, TakeConfigLock,
         Configure, ConfigureFails, MarkConfigured, CommitConfig, Unbuilt, Die, End
<1>4. OtherCommand(p) => OthersKept(p) /\ (UNCHANGED edits)
  <2>1. ASSUME NEW c \in Commands, SetupStart(p, c) PROVE OthersKept(p) /\ (UNCHANGED edits)
        BY <2>1 DEF SetupStart, Start
  <2>2. Setup(p) => OthersKept(p) /\ (UNCHANGED edits)
        BY <1>1 DEF Setup, Die
  <2>3. TakeBuildLock(p) => OthersKept(p) /\ (UNCHANGED edits)
        BY <1>1 DEF TakeBuildLock
  <2>4. Ninja(p) \/ LinkEnds(p) \/ NinjaFails(p) \/ MarkBuilt(p) => OthersKept(p) /\ (UNCHANGED edits)
        BY DEF Ninja, LinkEnds, NinjaFails, MarkBuilt
  <2>5. ReleaseBuildLock(p) \/ CleanBegins(p) \/ CleanEnds(p) \/ CleanStops(p) \/ Flash(p)
          => OthersKept(p) /\ (UNCHANGED edits)
        BY DEF ReleaseBuildLock, CleanBegins, CleanEnds, CleanStops, Flash, End
  <2> QED BY <2>1, <2>2, <2>3, <2>4, <2>5 DEF OtherCommand
<1> QED BY <1>2, <1>3, <1>4 DEF StepOf

\* What a step makes InCompany of its own process.
OwnKnown(p) ==
    /\ Initialising(p)' => mine'[p] \in Setting
    /\ pc'[p] \in Building \cup {"buildLock"} => asked'[p] \in 0..edits
    /\ pc'[p] = "link" => linking'[p] \in Version

LEMMA StepKnows ==
    ASSUME TypeOK, NEW p \in Proc, InCompany(p), StepOf(p)
    PROVE  OwnKnown(p)
<1>0. LocalTypeOK
      BY DEF TypeOK, LocalTypeOK
<1> USE <1>0 DEF LocalTypeOK, OwnKnown, InCompany, Goto, local, Initialising, Building
<1>1. ASSUME NEW d, DieLeaving(p, d) PROVE OwnKnown(p)
      BY <1>1 DEF DieLeaving, End
<1>2. Fails(p) => OwnKnown(p)
      BY <1>1 DEF Fails
<1>3. InitCommand(p) => OwnKnown(p)
      BY <1>1 DEF InitCommand, InitStart, Start, WipeItem, WipeEnds, MakeLogDir, TakeConfigLock,
         Configure, ConfigureFails, MarkConfigured, CommitConfig, Unbuilt, Die, End
<1>4. OtherCommand(p) => OwnKnown(p)
  <2>1. ASSUME NEW c \in Commands, SetupStart(p, c) PROVE OwnKnown(p)
        BY <2>1 DEF SetupStart, Start
  <2>2. Setup(p) => OwnKnown(p)
    <3>1. edits \in 0..edits
          BY BoundsAssumption DEF TypeOK
    <3> QED BY <1>1, <3>1 DEF Setup, Die
  <2>3. TakeBuildLock(p) => OwnKnown(p)
        BY <1>1 DEF TakeBuildLock
  <2>4. Ninja(p) => OwnKnown(p)
    <3>1. dir["cache"] # None => Current \in Version
          BY DEF Current, Version, TypeOK
    <3> QED BY <3>1 DEF Ninja
  <2>5. LinkEnds(p) \/ NinjaFails(p) \/ MarkBuilt(p) => OwnKnown(p)
        BY DEF LinkEnds, NinjaFails, MarkBuilt
  <2>6. ReleaseBuildLock(p) \/ CleanBegins(p) \/ CleanEnds(p) \/ CleanStops(p) \/ Flash(p) => OwnKnown(p)
        BY DEF ReleaseBuildLock, CleanBegins, CleanEnds, CleanStops, Flash, End
  <2> QED BY <2>1, <2>2, <2>3, <2>4, <2>5, <2>6 DEF OtherCommand
<1> QED BY <1>2, <1>3, <1>4 DEF StepOf

LEMMA KnownKept ==
    ASSUME TypeOK, DirInv, [Next]_vars
    PROVE  \A p \in Proc : InCompany(p)'
<1>0. LocalTypeOK
      BY DEF TypeOK, LocalTypeOK
<1>1. CASE UNCHANGED vars
      BY <1>1 DEF vars, disk, local, DirInv, InCompany, Initialising, Changing
<1>2. CASE Next
  <2> SUFFICES ASSUME NEW q \in Proc PROVE InCompany(q)'
      OBVIOUS
  <2>1. Recorded
        BY <1>2 DEF Next
  <2>2. OwnKnown(q)
    <3>1. CASE Edit
      <4>1. 0..edits \subseteq 0..edits'
            BY <3>1, BoundsAssumption DEF Edit, TypeOK
      <4> QED BY <3>1, <4>1 DEF Edit, disk, local, DirInv, InCompany, OwnKnown, Initialising
    <3>2. ASSUME NEW p \in Proc, StepOf(p)
          PROVE  OwnKnown(q)
      <4>1. CASE q = p
            BY <3>2, <4>1, StepKnows DEF DirInv
      <4>2. CASE q # p
            BY <1>0, <3>2, <4>2, StepKeepsOthers DEF OthersKept, DirInv, InCompany, OwnKnown, Initialising
      <4> QED BY <4>1, <4>2
    <3> QED BY <1>2, <3>1, <3>2 DEF Next, StepOf
  <2>3. edits' = edits \/ edits' = edits + 1
        BY <1>0, <1>2, StepKeepsOthers DEF Next, Edit, StepOf
  <2>4. 0..edits \subseteq 0..edits'
        BY <2>3, BoundsAssumption DEF TypeOK
  <2>5. pc'[q] \in {"wipe", "wipeFailed", "commit"} => course' # "whole"
    <3> SUFFICES ASSUME pc'[q] \in {"wipe", "wipeFailed", "commit"}, course' = "whole" PROVE FALSE
        OBVIOUS
    <3>1. At({"wipe", "wipeFailed", "commit"})'
          BY DEF At
    <3>2. (At({"mkdir"}) /\ Empty)' /\ ~Crossing'
          BY <2>1, <3>1, RecordedSays
    <3>3. PICK r \in Proc : pc'[r] = "mkdir"
          BY <3>2 DEF At
    <3> QED BY <3>2, <3>3 DEF Crossing, Initialising
  <2> QED BY <2>1, <2>2, <2>4, <2>5, UpsetRecorded DEF OwnKnown, InCompany
<1> QED BY <1>1, <1>2

-----------------------------------------------------------------------------
(* A step of an init that is alone *)

\* What is left of the obligation: everybody else is idle.
Enough(p) ==
    /\ InitProgress(p)'
    /\ OneSetting'
    /\ course' = "whole" => MarkersAreTrue'

\* The invariant before such a step.
Before(p) ==
    /\ InCompany(p) /\ InitProgress(p) /\ OneSetting
    /\ course = "whole" => MarkersAreTrue
    /\ pc'[p] \in {"wipe", "wipeFailed", "commit"} => course' # "whole"
    /\ course' = "whole" => course = "whole" \/ pc'[p] \in {"mkdir", "unbuilt"}
    /\ pc'[p] = "unbuilt" => course' = "whole"

LEMMA InitKeeps ==
    ASSUME TypeOK, NEW p \in Proc, Before(p),
           InitCommand(p) \/ (Fails(p) /\ Initialising(p))
    PROVE  Enough(p)
<1> USE NoneAssumption DEF TypeOK, Item, Goto, Put, Before, Enough, InitProgress
<1>1. ASSUME NEW d \in Leaving(p), DieLeaving(p, d), Initialising(p)
      PROVE  Enough(p)
  <2>1. pc'[p] = "idle" /\ config' = config /\ dir' = d
        BY <1>1 DEF DieLeaving, End, Holds, Initialising
  <2>2. CASE pc[p] = "cmake"
    <3>1. d \in {dir, [dir EXCEPT !["cache"] = mine[p]], Configured(p)}
          BY <2>2 DEF Leaving
    <3> QED BY <2>1, <2>2, <3>1 DEF Empty, OneSetting, MarkersAreTrue, Configured
  <2>3. CASE pc[p] # "cmake"
    <3>1. d = dir
          BY <1>1, <2>3 DEF Leaving, Initialising
    <3>2. OneSetting'
          BY <2>1, <3>1 DEF OneSetting
    <3>3. course' = "whole" => MarkersAreTrue'
          BY <2>1, <3>1 DEF MarkersAreTrue
    <3> QED BY <2>1, <3>2, <3>3
  <2> QED BY <2>2, <2>3
<1>2. dir \in Leaving(p)
      BY DEF Leaving
<1>3. ASSUME Fails(p), Initialising(p) PROVE Enough(p)
      BY <1>1, <1>3 DEF Fails
<1>4. ASSUME InitStart(p) PROVE Enough(p)
      BY <1>4 DEF InitStart, Start, disk, OneSetting
<1>5. ASSUME WipeItem(p) PROVE Enough(p)
  <2>1. PICK x \in left[p] : /\ left' = [left EXCEPT ![p] = @ \ {x}]
                             /\ \/ Put(x, None) /\ UNCHANGED pc
                                \/ Goto(p, "wipeFailed") /\ UNCHANGED dir
        BY <1>5 DEF WipeItem
  <2>2. \A y \in Item : dir'[y] = dir[y] \/ dir'[y] = None
        BY <2>1
  <2>3. OneSetting'
        BY <2>2 DEF OneSetting
  <2>4. pc'[p] \in {"wipe", "wipeFailed"}
        BY <1>5, <2>1 DEF WipeItem
  <2>5. pc'[p] = "wipe" => \A y \in Item : dir'[y] # None => y \in left'[p]
        BY <1>5, <2>1 DEF WipeItem
  <2> QED BY <2>3, <2>4, <2>5
<1>6. ASSUME WipeEnds(p) PROVE Enough(p)
  <2>1. dir' = dir /\ config' = config /\ pc'[p] \in {"idle", "mkdir"}
        BY <1>6 DEF WipeEnds, End
  <2>2. pc'[p] = "mkdir" => Empty /\ Empty'
        BY <1>6, <2>1 DEF WipeEnds, End, Empty
  <2>3. course # "whole"
        BY <1>6 DEF WipeEnds, InCompany
  <2> QED BY <2>1, <2>2, <2>3 DEF OneSetting, MarkersAreTrue, Empty
<1>7. ASSUME MakeLogDir(p) PROVE Enough(p)
      BY <1>7 DEF MakeLogDir, Empty, OneSetting, MarkersAreTrue
<1>8. ASSUME TakeConfigLock(p) PROVE Enough(p)
  <2>1. CASE configLock = None
        BY <1>8, <2>1 DEF TakeConfigLock, Empty, OneSetting, MarkersAreTrue
  <2> QED BY <1>1, <1>2, <1>8, <2>1 DEF TakeConfigLock, Die, Initialising
<1>9. ASSUME Configure(p) PROVE Enough(p)
  <2>1. mine[p] \in Setting
        BY <1>9 DEF Configure, InCompany, Initialising
  <2>2. [setting |-> mine[p], edit |-> edits] \in Version
        BY <2>1 DEF Version
  <2>3. [setting |-> mine[p], edit |-> edits] # None
        BY <2>2, NoneIsNoImage DEF Image
  <2> DEFINE v == [setting |-> mine[p], edit |-> edits]
  <2>4. v.setting = mine[p]
        OBVIOUS
  <2> HIDE DEF v
  <2>5. dir' = [dir EXCEPT !["cache"] = mine[p], !["args"] = v] /\ v # None
        BY <1>9, <2>3 DEF Configure, Configured, v
  <2> QED BY <1>9, <2>4, <2>5 DEF Configure, local, Empty, OneSetting, MarkersAreTrue
<1>10. ASSUME ConfigureFails(p) PROVE Enough(p)
  <2>1. PICK d \in {dir, [dir EXCEPT !["cache"] = mine[p]], Configured(p)} :
           dir' = [d EXCEPT !["cache"] = None]
        BY <1>10 DEF ConfigureFails, Leaving
  <2> QED BY <1>10, <2>1 DEF ConfigureFails, End, Configured, Empty, OneSetting, MarkersAreTrue
<1>11. ASSUME MarkConfigured(p) PROVE Enough(p)
  <2>1. CASE dotIce
    <3>1. /\ dir' = [dir EXCEPT !["configured"] = Yes] /\ mine' = mine
          /\ pc[p] = "mark" /\ pc'[p] = "commit"
          BY <1>11, <2>1 DEF MarkConfigured, local
    <3>2. OneSetting'
          BY <3>1 DEF OneSetting
    <3> QED BY <3>1, <3>2
  <2> QED BY <1>1, <1>2, <1>11, <2>1 DEF MarkConfigured, Die, Initialising
<1>12. ASSUME CommitConfig(p) PROVE Enough(p)
  <2>1. mine[p] \in Setting
        BY <1>12 DEF CommitConfig, InCompany, Initialising
  <2> QED BY <1>12, <2>1 DEF CommitConfig, OneSetting, MarkersAreTrue
<1>13. ASSUME Unbuilt(p) PROVE Enough(p)
      BY <1>13 DEF Unbuilt, End, OneSetting, MarkersAreTrue
<1> HIDE DEF Enough
<1> QED BY <1>3, <1>4, <1>5, <1>6, <1>7, <1>8, <1>9, <1>10, <1>11, <1>12, <1>13 DEF InitCommand

-----------------------------------------------------------------------------
(* A step of another command *)

\* What it does with the directory.
Quiet(p) ==
    /\ ~Initialising(p)'
    /\ config' = config
    /\ dir'["cache"] = dir["cache"] /\ dir'["configured"] = dir["configured"]
    /\ dir'["built"] = dir["built"] \/ pc[p] = "touch"
    /\ \/ dir'["args"] = dir["args"]
       \/ dir["cache"] # None /\ dir'["args"] # None /\ dir'["args"].setting = dir["cache"]
    /\ \/ dir'["image"] \in {dir["image"], None}
       \/ dir["cache"] # None /\ dir'["image"].setting = dir["cache"]
       \/ dir["image"] # None /\ dir'["image"].setting = dir["image"].setting
    /\ dir'["image"] = dir["image"] \/ pc'[p] \in {"link", "removing"} \/ pc[p] \in {"link", "removing"}
    /\ dir'["lock"] = dir["lock"] \/ dir["lock"] = None \/ pc[p] \in Building
    /\ pc'[p] \in Building => dir'["lock"] = p
    /\ pc'[p] \in {"link", "touch", "release"} => pc[p] \in {"ninja", "link", "touch"}
    /\ pc[p] # "idle" \/ pc'[p] # "idle"

\* What it makes of its own build.
OwnBuild(p) ==
    /\ pc'[p] \in Building \cup {"buildLock"} =>
          dir["configured"] # None \/ pc[p] \in Building \cup {"buildLock"}
    /\ pc'[p] = "link" => linking'[p].setting = dir'["cache"] /\ linking'[p].edit >= asked'[p]
    /\ pc'[p] \in {"touch", "release"} /\ "clean" \notin upset[p] => WholeFor(p)'
    /\ pc'[p] = "flashing" /\ asked'[p] # None /\ upset[p] = {} => WholeFor(p)'

LEMMA OtherStep ==
    ASSUME TypeOK, NEW p \in Proc, InCompany(p), BuildProgress(p),
           OtherCommand(p) \/ (Fails(p) /\ ~Initialising(p))
    PROVE  Quiet(p) /\ OwnBuild(p)
<1> DEFINE Both == Quiet(p) /\ OwnBuild(p)
<1> USE NoneAssumption DEF TypeOK, Item, Goto, Put, Building, Initialising
<1>0. Current.setting = dir["cache"] /\ (dir["cache"] # None => Current # None)
  <2>1. dir["cache"] # None => Current \in Version
        BY DEF Current, Version
  <2>2. None \notin Version
        BY NoneIsNoImage DEF Image
  <2> QED BY <2>1, <2>2 DEF Current
<1>1. ASSUME NEW d \in Leaving(p), pc[p] # "cmake"
      PROVE  /\ d["args"] = dir["args"] \/ (dir["cache"] # None /\ d["args"] = Current)
             /\ \A x \in Item \ {"args"} : d[x] = dir[x]
             /\ DOMAIN d = Item
  <2>1. d \in {dir} \cup IF pc[p] \in {"ninja", "cleaning"} /\ dir["cache"] # None THEN {Relaid} ELSE {}
        BY <1>1 DEF Leaving
  <2> QED BY <2>1 DEF Relaid
<1>2. ASSUME NEW d \in Leaving(p), DieLeaving(p, d),
             pc[p] \notin {"idle", "wipe", "wipeFailed", "mkdir", "initLock", "cmake", "mark", "commit", "unbuilt"}
      PROVE  Both
  <2>1. pc'[p] = "idle" /\ config' = config
        BY <1>2 DEF DieLeaving, End
  <2>2. dir' = IF pc[p] \in Building THEN [d EXCEPT !["lock"] = None] ELSE d
        BY <1>2 DEF DieLeaving, Holds
  <2> QED BY <1>0, <1>1, <1>2, <2>1, <2>2 DEF Quiet, OwnBuild
<1>3. dir \in Leaving(p)
      BY DEF Leaving
<1>4. ASSUME Fails(p), ~Initialising(p) PROVE Both
      BY <1>2, <1>4 DEF Fails
<1>5. ASSUME NEW c \in Commands, SetupStart(p, c) PROVE Both
      BY <1>5 DEF SetupStart, Start, disk, Quiet, OwnBuild
<1>6. ASSUME Setup(p) PROVE Both
  <2>1. CASE Die(p)
        BY <1>2, <1>3, <1>6, <2>1 DEF Die, Setup
  <2>2. CASE ~Die(p)
    <3>1. PICK s \in {"cleaning", "flashing", "buildLock"} :
             /\ pc' = [pc EXCEPT ![p] = s] /\ UNCHANGED disk
             /\ asked' = [asked EXCEPT ![p] = IF s = "buildLock" THEN edits ELSE None]
          BY <1>6, <2>2 DEF Setup
    <3>2. dir["configured"] # None /\ pc[p] = "setup"
          BY <1>6, <2>2 DEF Setup
    <3> QED BY <3>1, <3>2 DEF disk, Quiet, OwnBuild
  <2> QED BY <2>1, <2>2
<1>7. ASSUME TakeBuildLock(p) PROVE Both
  <2>1. CASE dir["lock"] = None
        BY <1>7, <2>1 DEF TakeBuildLock, Quiet, OwnBuild
  <2> QED BY <1>2, <1>3, <1>7, <2>1 DEF TakeBuildLock
<1>8. ASSUME Ninja(p) PROVE Both
  <2>0. pc[p] = "ninja" /\ dir["cache"] # None /\ asked' = asked /\ config' = config /\ dir["lock"] = p
        BY <1>8 DEF Ninja, BuildProgress
  <2>1. Current \in Version /\ Current.edit >= asked[p]
    <3>1. asked[p] \in 0..edits /\ edits \in 0..MaxEdits
          BY <1>8 DEF Ninja, InCompany
    <3>2. edits >= asked[p]
          BY <3>1, BoundsAssumption
    <3> QED BY <2>0, <3>1, <3>2 DEF Current, Version
  <2>2. CASE dir["image"] = Current
    <3>1. dir' = [dir EXCEPT !["args"] = Current] /\ pc'[p] = "touch"
          BY <1>8, <2>2 DEF Ninja, Relaid
    <3>2. WholeFor(p)'
          BY <1>0, <2>0, <2>1, <2>2, <3>1 DEF WholeFor
    <3> QED BY <1>0, <2>0, <3>1, <3>2 DEF Quiet, OwnBuild
  <2>3. CASE dir["image"] # Current
    <3>1. /\ dir' = [dir EXCEPT !["args"] = Current, !["image"] = Mix(dir["cache"])]
          /\ pc'[p] = "link" /\ linking'[p] = Current
          BY <1>8, <2>3 DEF Ninja, Relaid
    <3>2. Mix(dir["cache"]).setting = dir["cache"]
          BY DEF Mix
    <3> QED BY <1>0, <2>0, <2>1, <3>1, <3>2 DEF Quiet, OwnBuild
  <2> QED BY <2>2, <2>3
<1>9. ASSUME LinkEnds(p) PROVE Both
  <2>1. /\ pc[p] = "link" /\ pc'[p] = "touch" /\ asked' = asked /\ config' = config
        /\ linking[p] \in Version /\ linking[p].setting = dir["cache"] /\ linking[p].edit >= asked[p]
        /\ dir["lock"] = p /\ upset[p] \subseteq {"clean"}
        BY <1>9 DEF LinkEnds, BuildProgress, InCompany
  <2>2. PICK i \in {linking[p]} \cup IF upset[p] = {} THEN {} ELSE {None, Mix(linking[p].setting)} :
           dir' = [dir EXCEPT !["image"] = i]
        BY <1>9 DEF LinkEnds
  <2>3. dir["cache"] # None
        BY <2>1 DEF Version
  <2>4. i = None \/ i.setting = dir["cache"]
        BY <2>1, <2>2 DEF Mix
  <2>5. "clean" \notin upset[p] => i = linking[p]
        BY <2>1, <2>2
  <2>6. "clean" \notin upset[p] => WholeFor(p)'
        BY <2>1, <2>2, <2>5 DEF WholeFor
  <2> QED BY <2>1, <2>2, <2>3, <2>4, <2>6 DEF Quiet, OwnBuild
<1>10. ASSUME NinjaFails(p) PROVE Both
  <2>1. /\ pc[p] \in {"ninja", "link"} /\ pc'[p] = "failed" /\ config' = config /\ dir["lock"] = p
        BY <1>10 DEF NinjaFails, BuildProgress
  <2> QED BY <1>0, <1>1, <1>10, <2>1 DEF NinjaFails, Quiet, OwnBuild
<1>11. ASSUME MarkBuilt(p) PROVE Both
  <2>1. /\ pc[p] = "touch" /\ pc'[p] = "release" /\ config' = config /\ asked' = asked
        /\ \A x \in Item \ {"built"} : dir'[x] = dir[x]
        BY <1>11 DEF MarkBuilt, local
  <2>2. "clean" \notin upset[p] => WholeFor(p)'
        BY <2>1 DEF BuildProgress, WholeFor
  <2>3. dir["lock"] = p
        BY <2>1 DEF BuildProgress
  <2> QED BY <2>1, <2>2, <2>3 DEF Quiet, OwnBuild
<1>12. ASSUME ReleaseBuildLock(p) PROVE Both
  <2>1. /\ pc[p] \in {"release", "failed"} /\ config' = config
        /\ \A x \in Item \ {"lock"} : dir'[x] = dir[x]
        BY <1>12 DEF ReleaseBuildLock
  <2>2. \/ pc'[p] = "idle"
        \/ pc'[p] = "flashing" /\ pc[p] = "release" /\ asked' = asked
        BY <1>12 DEF ReleaseBuildLock, local, End
  <2>3. pc[p] = "release" /\ asked' = asked /\ upset[p] = {} => WholeFor(p)'
        BY <2>1 DEF BuildProgress, WholeFor
  <2> QED BY <2>1, <2>2, <2>3 DEF Quiet, OwnBuild
<1>13. ASSUME CleanBegins(p) PROVE Both
  <2>1. /\ pc[p] = "cleaning" /\ pc'[p] = "removing" /\ config' = config
        /\ dir["cache"] # None /\ dir["image"] # None
        /\ dir' = [dir EXCEPT !["args"] = Current, !["image"] = Mix(dir["image"].setting)]
        BY <1>13 DEF CleanBegins, Relaid
  <2>2. Mix(dir["image"].setting).setting = dir["image"].setting
        BY DEF Mix
  <2> QED BY <1>0, <2>1, <2>2 DEF Quiet, OwnBuild
<1>14. ASSUME CleanEnds(p) PROVE Both
  <2>1. pc[p] = "removing" /\ pc'[p] = "idle" /\ config' = config
        BY <1>14 DEF CleanEnds, End
  <2>2. PICK i \in {None} \cup IF "build" \in upset[p] /\ dir["image"] # None
                              THEN {dir["image"], Mix(dir["image"].setting)} ELSE {} :
           dir' = [dir EXCEPT !["image"] = i]
        BY <1>14 DEF CleanEnds
  <2>3. i \in {dir["image"], None} \/ (dir["image"] # None /\ i.setting = dir["image"].setting)
        BY <2>2 DEF Mix
  <2> QED BY <2>1, <2>2, <2>3 DEF Quiet, OwnBuild
<1>15. ASSUME CleanStops(p) PROVE Both
  <2>1. pc[p] = "cleaning" /\ pc'[p] = "idle" /\ config' = config
        BY <1>15 DEF CleanStops, End
  <2> QED BY <1>0, <1>1, <1>15, <2>1 DEF CleanStops, Quiet, OwnBuild
<1>16. ASSUME Flash(p) PROVE Both
      BY <1>16 DEF Flash, End, disk, Quiet, OwnBuild
<1> HIDE DEF Both
<1>17. Both
      BY <1>4, <1>5, <1>6, <1>7, <1>8, <1>9, <1>10, <1>11, <1>12, <1>13, <1>14, <1>15, <1>16 DEF OtherCommand
<1> QED BY <1>17 DEF Both

-----------------------------------------------------------------------------
(* The invariant *)

\* Company of p: everybody else is idle while p initialises a directory that
\* is not crossed.
LEMMA InitIsAlone ==
    ASSUME TypeOK, DirInv, NEW p \in Proc, Recorded, course' # "crossed",
           OthersKept(p), Initialising(p) \/ Initialising(p)'
    PROVE  \/ (At({"mkdir"}) /\ Empty)'
           \/ course # "crossed" /\ \A q \in Proc \ {p} : pc'[q] = "idle" /\ pc[q] = "idle"
<1>1. ~Crossing'
      BY RecordedSays
<1>2. course = "crossed" => (At({"mkdir"}) /\ Empty)'
      BY RecordedSays
<1>3. CASE course # "crossed" /\ Initialising(p)
      BY <1>3 DEF DirInv, Crossing, OthersKept
<1>4. CASE Initialising(p)'
      BY <1>1, <1>2, <1>4 DEF Crossing, OthersKept
<1> QED BY <1>2, <1>3, <1>4

\* From a crossed directory to one that is not: an init is alone with nothing.
LEMMA FromNothing ==
    ASSUME \A p \in Proc : InCompany(p)', ~Crossing', (At({"mkdir"}) /\ Empty)'
    PROVE  DirInv'
<1>1. PICK p \in Proc : pc'[p] = "mkdir"
      BY DEF At
<1>2. \A q \in Proc : pc'[q] \in {"idle", "mkdir"}
      BY <1>1 DEF Crossing, Initialising
<1>3. OneSetting' /\ MarkersAreTrue'
      BY DEF Empty, Item, OneSetting, MarkersAreTrue
<1>4. \A q \in Proc : InitProgress(q)' /\ BuildProgress(q)'
      BY <1>2 DEF InitProgress, BuildProgress, Building
<1> QED BY <1>3, <1>4 DEF DirInv

LEMMA InitStepKeeps ==
    ASSUME TypeOK, DirInv, NEW p \in Proc, Recorded, OthersKept(p),
           \A q \in Proc : InCompany(q)',
           InitCommand(p) \/ (Fails(p) /\ Initialising(p))
    PROVE  DirInv'
<1> SUFFICES ASSUME course' # "crossed", ~(At({"mkdir"}) /\ Empty)'
             PROVE  DirInv'
    BY RecordedSays, FromNothing DEF DirInv
<1>1. Initialising(p) \/ Initialising(p)'
      BY DEF InitCommand, InitStart, WipeItem, WipeEnds, MakeLogDir, TakeConfigLock, Configure,
         ConfigureFails, MarkConfigured, CommitConfig, Unbuilt, Initialising, Goto, TypeOK
<1>2. course # "crossed" /\ \A q \in Proc \ {p} : pc'[q] = "idle" /\ pc[q] = "idle"
      BY <1>1, InitIsAlone
<1>3. pc'[p] \in {"idle", "wipe", "wipeFailed", "mkdir", "initLock", "cmake", "mark", "commit", "unbuilt"}
      BY DEF InitCommand, InitStart, WipeItem, WipeEnds, MakeLogDir, TakeConfigLock, Configure,
         ConfigureFails, MarkConfigured, CommitConfig, Unbuilt, Fails, Die, DieLeaving, End, Goto, TypeOK
<1>4. course' = "whole" => course = "whole" \/ pc'[p] \in {"mkdir", "unbuilt"}
      BY <1>2, RecordedSays DEF At
<1>5. pc'[p] = "unbuilt" => course' = "whole"
      BY <1>2, RecordedSays DEF At
<1>10. Before(p)
      BY <1>2, <1>4, <1>5 DEF Before, DirInv, InCompany
<1>6. Enough(p)
      BY <1>10, InitKeeps
<1>7. \A q \in Proc : BuildProgress(q)'
      BY <1>2, <1>3 DEF BuildProgress, Building
<1>8. \A q \in Proc \ {p} : InitProgress(q)'
      BY <1>2 DEF InitProgress
<1>9. ~Crossing'
      BY RecordedSays
<1> QED BY <1>6, <1>7, <1>8, <1>9 DEF DirInv, Enough

\* Another process's build over a step of p.
LEMMA BuildsKept ==
    ASSUME TypeOK, TypeOK', DirInv, NEW p \in Proc, Recorded, OthersKept(p),
           course # "crossed", course' # "crossed",
           course' = "whole" => course = "whole",
           Quiet(p), OwnBuild(p), NEW q \in Proc
    PROVE  BuildProgress(q)'
<1> USE NoneAssumption
<1>1. BuildProgress(q) /\ BuildProgress(p)
      BY DEF DirInv
<1>2. pc'[q] \in Building => dir'["lock"] = q
      BY <1>1 DEF Quiet, OthersKept, BuildProgress
<1>3. course' = "whole" /\ pc'[q] \in Building \cup {"buildLock"} => dir'["configured"] # None
  <2>1. CASE q = p
        BY <1>1, <2>1 DEF Quiet, OwnBuild, BuildProgress
  <2>2. CASE q # p
        BY <1>1, <2>2 DEF Quiet, OthersKept, BuildProgress
  <2> QED BY <2>1, <2>2
<1>4. pc'[q] = "link" => linking'[q].setting = dir'["cache"] /\ linking'[q].edit >= asked'[q]
  <2>1. CASE q = p
        BY <2>1 DEF OwnBuild
  <2>2. CASE q # p
        BY <1>1, <2>2 DEF Quiet, OthersKept, BuildProgress
  <2> QED BY <2>1, <2>2
<1>5. ASSUME pc'[q] \in {"link", "touch", "release"}
      PROVE  upset'[q] \subseteq {"clean"}
  <2>1. upset'[q] = upset[q] \cup Others(q)'
        BY <1>5, UpsetRecorded DEF Working
  <2>2. upset[q] \subseteq {"clean"}
    <3>1. CASE pc[q] \in {"link", "touch", "release"}
          BY <1>1, <3>1 DEF BuildProgress
    <3>2. CASE pc[q] \notin Working
          BY <3>2 DEF DirInv, InCompany
    <3>3. pc[q] \in {"ninja", "link", "touch", "release"}
          BY <1>5 DEF Quiet, OthersKept
    <3> QED BY <3>1, <3>2, <3>3 DEF Working
  <2>3. ASSUME NEW r \in Proc \ {q} PROVE Changing(r)' \subseteq {"clean"}
    <3>1. ~Crossing'
          BY RecordedSays
    <3>2. ~Initialising(r)'
          BY <1>5, <3>1 DEF Crossing
    <3>3. pc'[r] # "link"
      <4>1. pc'[r] = "link" => dir'["lock"] = r
        <5>1. BuildProgress(r)
              BY DEF DirInv
        <5> QED BY <1>1, <5>1 DEF Quiet, OthersKept, BuildProgress, Building
      <4>2. dir'["lock"] = q
            BY <1>2, <1>5 DEF Building
      <4> QED BY <4>1, <4>2
    <3> QED BY <3>2, <3>3 DEF Changing, Initialising
  <2> QED BY <2>1, <2>2, <2>3 DEF Others
<1>6. ASSUME q # p,
             \/ pc'[q] \in {"touch", "release"} /\ "clean" \notin upset'[q]
             \/ pc'[q] = "flashing" /\ asked'[q] # None /\ upset'[q] = {}
      PROVE  WholeFor(q)'
  <2>1. pc[q] = pc'[q] /\ asked[q] = asked'[q] /\ pc'[q] \in Working
        BY <1>6 DEF OthersKept, Working
  <2>2. upset[q] \subseteq upset'[q] /\ Changing(p)' \subseteq upset'[q]
        BY <1>6, <2>1, UpsetRecorded
  <2>3. WholeFor(q)
        BY <1>1, <1>6, <2>1, <2>2 DEF BuildProgress
  <2>4. Changing(p) \subseteq upset[q]
        BY <1>6, <2>1 DEF DirInv, InCompany
  <2>5. pc[p] # "removing" /\ pc'[p] # "removing"
        BY <1>6, <2>2, <2>4 DEF Changing
  <2>6. pc[p] # "link" /\ pc'[p] # "link"
    <3>1. CASE pc'[q] = "flashing"
          BY <1>6, <2>1, <2>2, <2>4, <3>1 DEF Changing
    <3>2. CASE pc'[q] \in {"touch", "release"}
          BY <1>1, <1>2, <1>6, <2>1, <3>2 DEF BuildProgress, Quiet, Building
    <3> QED BY <1>6, <3>1, <3>2
  <2>7. dir'["image"] = dir["image"] /\ dir'["cache"] = dir["cache"]
        BY <2>5, <2>6 DEF Quiet
  <2> QED BY <2>1, <2>3, <2>7 DEF WholeFor
<1>7. ASSUME q = p,
             \/ pc'[p] \in {"touch", "release"} /\ "clean" \notin upset'[p]
             \/ pc'[p] = "flashing" /\ asked'[p] # None /\ upset'[p] = {}
      PROVE  WholeFor(q)'
  <2>1. upset[p] \subseteq upset'[p]
        BY <1>7, UpsetRecorded DEF Working
  <2> QED BY <1>7, <2>1 DEF OwnBuild
<1> QED BY <1>2, <1>3, <1>4, <1>5, <1>6, <1>7 DEF BuildProgress

LEMMA OtherStepKeeps ==
    ASSUME TypeOK, TypeOK', DirInv, NEW p \in Proc, Recorded, OthersKept(p),
           \A q \in Proc : InCompany(q)',
           OtherCommand(p) \/ (Fails(p) /\ ~Initialising(p))
    PROVE  DirInv'
<1> SUFFICES ASSUME course' # "crossed", ~(At({"mkdir"}) /\ Empty)'
             PROVE  DirInv'
    BY RecordedSays, FromNothing DEF DirInv
<1>1. course # "crossed" /\ ~Crossing'
      BY RecordedSays
<1>2. ~Initialising(p)
      BY DEF OtherCommand, SetupStart, Start, Setup, TakeBuildLock, Ninja, LinkEnds, NinjaFails,
         MarkBuilt, ReleaseBuildLock, CleanBegins, CleanEnds, CleanStops, Flash, Initialising
<1>3. Quiet(p) /\ OwnBuild(p)
      BY <1>1, OtherStep DEF DirInv
<1>4. \A q \in Proc : ~Initialising(q)'
  <2> SUFFICES ASSUME NEW q \in Proc, Initialising(q)' PROVE FALSE
      OBVIOUS
  <2>1. q # p /\ Initialising(q)
        BY <1>3 DEF Quiet, OthersKept, Initialising
  <2>2. CASE pc[p] # "idle"
        BY <1>1, <2>1, <2>2 DEF DirInv, Crossing
  <2>3. CASE pc'[p] # "idle"
        BY <1>1, <2>1, <2>3 DEF Crossing
  <2> QED BY <1>3, <2>2, <2>3 DEF Quiet
<1>5. course' = "whole" => course = "whole"
  <2> SUFFICES ASSUME course' = "whole", course # "whole" PROVE FALSE
      OBVIOUS
  <2>1. PICK q \in Proc : pc'[q] = "unbuilt"
        BY RecordedSays DEF At
  <2> QED BY <1>4, <2>1 DEF Initialising
<1>6. \A q \in Proc : BuildProgress(q)'
      BY <1>1, <1>3, <1>5, BuildsKept
<1>7. \A q \in Proc : InitProgress(q)'
      BY <1>4 DEF InitProgress, Initialising
<1>8. OneSetting'
  <2>1. OneSetting
        BY <1>1 DEF DirInv
  <2> QED BY <1>3, <2>1 DEF Quiet, OneSetting
<1>9. course' = "whole" => MarkersAreTrue'
  <2>1. course' = "whole" => MarkersAreTrue /\ BuildProgress(p)
        BY <1>1, <1>5 DEF DirInv
  <2>2. course' = "whole" /\ pc[p] = "touch" => dir["configured"] # None
        BY <1>5, <2>1 DEF BuildProgress, Building
  <2> QED BY <1>3, <2>1, <2>2 DEF Quiet, MarkersAreTrue
<1> QED BY <1>1, <1>6, <1>7, <1>8, <1>9 DEF DirInv

LEMMA EditKeeps ==
    ASSUME TypeOK, DirInv, Recorded, \A p \in Proc : InCompany(p)', Edit
    PROVE  DirInv'
<1> SUFFICES ASSUME course' # "crossed", ~(At({"mkdir"}) /\ Empty)'
             PROVE  DirInv'
    BY RecordedSays, FromNothing DEF DirInv
<1>1. UNCHANGED <<config, dir, pc, mine, left, linking, asked>>
      BY DEF Edit, disk, local
<1>2. course # "crossed" /\ ~Crossing'
      BY RecordedSays
<1>3. \A p \in Proc : InitProgress(p) /\ BuildProgress(p)
      BY <1>2 DEF DirInv
<1>4. course' = "whole" => course = "whole"
  <2>1. At({"unbuilt"})' => course = "whole"
        BY <1>1, <1>3 DEF At, InitProgress
  <2> QED BY <2>1, RecordedSays
<1>5. ASSUME NEW p \in Proc
      PROVE  upset'[p] = upset[p]
  <2>1. \A q \in Proc : Changing(q)' = Changing(q)
        BY <1>1 DEF Changing
  <2>2. pc[p] \notin Working => upset[p] = {}
        BY DEF DirInv, InCompany
  <2>3. pc[p] \in Working => Others(p)' \subseteq upset[p]
        BY <2>1 DEF DirInv, InCompany, Others
  <2> QED BY <1>1, <2>2, <2>3, UpsetRecorded
<1>6. ASSUME NEW p \in Proc
      PROVE  InitProgress(p)' /\ BuildProgress(p)'
  <2>1. BuildProgress(p)'
        BY <1>1, <1>3, <1>4, <1>5 DEF BuildProgress, WholeFor
  <2>2. pc[p] = "unbuilt" => course' = "whole"
    <3> SUFFICES ASSUME pc[p] = "unbuilt" PROVE course' = "whole"
        OBVIOUS
    <3>1. ~At({"wipe", "wipeFailed", "commit"})' /\ At({"unbuilt"})'
          BY <1>1, <1>2 DEF At, Crossing, Initialising
    <3> QED BY <3>1, RecordedSays
  <2>3. InitProgress(p)'
        BY <1>1, <1>3, <2>2 DEF InitProgress, Empty
  <2> QED BY <2>1, <2>3
<1> QED BY <1>1, <1>2, <1>4, <1>6 DEF DirInv, OneSetting, MarkersAreTrue

LEMMA StutterKeeps ==
    ASSUME DirInv, UNCHANGED vars
    PROVE  DirInv'
<1>1. UNCHANGED <<config, dir, pc, mine, left, linking, asked, edits, course, upset>>
      BY DEF vars, disk, local
<1>2. \A p \in Proc : Changing(p)' = Changing(p)
      BY <1>1 DEF Changing
<1>3. \A p \in Proc : InCompany(p) => InCompany(p)'
      BY <1>1, <1>2 DEF InCompany, Initialising
<1>4. \A p \in Proc : InitProgress(p) => InitProgress(p)'
      BY <1>1 DEF InitProgress, Empty
<1>5. \A p \in Proc : BuildProgress(p) => BuildProgress(p)'
      BY <1>1 DEF BuildProgress, WholeFor
<1>6. (~Crossing => ~Crossing') /\ (OneSetting => OneSetting') /\ (MarkersAreTrue => MarkersAreTrue')
      BY <1>1 DEF Crossing, Initialising, OneSetting, MarkersAreTrue
<1> QED BY <1>1, <1>3, <1>4, <1>5, <1>6 DEF DirInv

LEMMA DirStep ==
    ASSUME TypeOK, DirInv, [Next]_vars
    PROVE  TypeOK' /\ DirInv'
<1>0. TypeOK'
      BY DirTyped
<1>1. \A p \in Proc : InCompany(p)'
      BY KnownKept
<1>2. CASE UNCHANGED vars
      BY <1>0, <1>2, StutterKeeps
<1>3. CASE Edit /\ Recorded
      BY <1>0, <1>1, <1>3, EditKeeps
<1>4. ASSUME NEW p \in Proc, StepOf(p), Recorded
      PROVE  DirInv'
  <2>1. OthersKept(p)
        BY <1>4, StepKeepsOthers DEF TypeOK, LocalTypeOK
  <2> QED BY <1>0, <1>1, <1>4, <2>1, InitStepKeeps, OtherStepKeeps DEF StepOf
<1> QED BY <1>0, <1>2, <1>3, <1>4 DEF Next, StepOf

LEMMA DirInvariance == Spec => [](TypeOK /\ DirInv)
<1>1. Init => TypeOK
  <2> SUFFICES ASSUME Init PROVE TypeOK
        OBVIOUS
  <2>1. DirTypeOK(dir)
        BY DEF Init, DirTypeOK, Item
  <2>2. left \in [Proc -> SUBSET Item] /\ upset \in [Proc -> SUBSET {"init", "clean", "build"}]
        BY DEF Init
  <2>3. config \in Setting \cup {None} /\ configLock \in Proc \cup {None} /\ dotIce \in BOOLEAN
        BY DEF Init
  <2>4. edits \in 0..MaxEdits
        BY BoundsAssumption DEF Init
  <2>5. pc \in [Proc -> Steps]
        BY DEF Init, Steps
  <2>6. /\ cmd \in [Proc -> Commands \cup {None}] /\ mine \in [Proc -> Setting \cup {None}]
        /\ seen \in [Proc -> Version \cup {None}] /\ linking \in [Proc -> Version \cup {None}]
        /\ asked \in [Proc -> (0..MaxEdits) \cup {None}]
        BY DEF Init
  <2>7. course \in {"whole", "torn", "crossed"}
        BY DEF Init
  <2> QED BY <2>1, <2>2, <2>3, <2>4, <2>5, <2>6, <2>7 DEF TypeOK, DirTypeOK
<1>2. Init => DirInv
  <2> SUFFICES ASSUME Init PROVE DirInv
        OBVIOUS
  <2>1. \A p \in Proc : pc[p] = "idle" /\ upset[p] = {}
        BY DEF Init
  <2>2. \A p \in Proc : InCompany(p) /\ InitProgress(p) /\ BuildProgress(p)
        BY <2>1 DEF InCompany, InitProgress, BuildProgress, Initialising, Building, Working
  <2>3. ~Crossing
        BY <2>1 DEF Crossing
  <2>4. OneSetting /\ MarkersAreTrue
        BY DEF Init, Item, OneSetting, MarkersAreTrue
  <2> QED BY <2>2, <2>3, <2>4 DEF DirInv
<1>3. TypeOK /\ DirInv /\ [Next]_vars => TypeOK' /\ DirInv'
      BY DirStep
<1> QED BY <1>1, <1>2, <1>3, PTL DEF Spec

\* Whatever is interrupted or fails, and however many commands run at once, a
\* build directory that no ice init has shared with another command is of one
\* setting, and its markers lie only in the two windows that DirectoryIsOne
\* names: the wipe, and the one between the marker and the commit.
THEOREM TheDirectoryIsOne == Spec => []DirectoryIsOne
<1>1. DirInv => DirectoryIsOne
      BY PropertiesOfDirInv
<1> QED BY <1>1, DirInvariance, PTL

\* What a process marks as built, and goes on to flash, is the whole of what
\* it was asked to build: for any number of builds and flashes at once,
\* whatever fails or is interrupted, ninja half-way too.
THEOREM WhatIsBuiltIsWhole == Spec => []BuildIsWhole
<1>1. DirInv => BuildIsWhole
      BY PropertiesOfDirInv
<1> QED BY <1>1, DirInvariance, PTL

-----------------------------------------------------------------------------
(* ToolStore: a forced installation *)

\* The files of the tool being extracted, as far as it has got.
ExtractedSoFar ==
    /\ ipc \in {"mkdir", "open", "write"} => dist[Tool] = Good
    /\ ipc \in {"open", "write"} =>
          Tool \in made /\ \A f \in Files : f < entry => dest[Tool][f] = Good
    /\ ipc = "write" => entry <= Entries

\* Without a failure, all the tools before the one being installed are whole;
\* a tool that is in the manifest twice is installed twice.
InstalledSoFar ==
    force /\ failed = 0 =>
       /\ ipc = "tool" => \A k \in 1..(which - 1) : WholeTool(Manifest[k])
       /\ ipc \in {"download", "verify", "mkdir", "open", "write"} =>
             \A k \in 1..(which - 1) : Manifest[k] # Tool => WholeTool(Manifest[k])
       /\ ipc = "next" => \A k \in 1..which : WholeTool(Manifest[k])

ToolInv ==
    /\ ipc \in {"tool", "download", "verify", "mkdir", "open", "write"} => failed < which
    /\ ExtractedSoFar /\ InstalledSoFar
    /\ ForcedIsWhole

LEMMA ContentsDiffer ==
    /\ Absent # Cut /\ Absent # Good /\ Absent # Wrong
    /\ Cut # Good /\ Cut # Wrong /\ Good # Wrong
BY DEF Absent, Cut, Good, Wrong

LEMMA ManifestLength == Len(Manifest) \in Nat \ {0}
BY ManifestAssumption

\* The tools of the manifest; the one being installed is among them.
LEMMA ToolIsOne == ToolTypeOK => Tool \in Tools
BY ManifestLength DEF ToolTypeOK, Tool, Tools

LEMMA ToolTyped ==
    ASSUME ToolTypeOK, ToolInv, [ToolNext]_toolVars
    PROVE  ToolTypeOK'
<1> USE EntriesAssumption, MaxToolFaultsAssumption, ContentsDiffer, ManifestLength, ToolIsOne DEF ToolTypeOK, ToolGoes, ToolFault, toolDisk
<1>1. CASE Install
      BY <1>1 DEF Install
<1>2. CASE SkipInstalled \/ Verify \/ Extracted
      BY <1>2 DEF SkipInstalled, Verify, Extracted
<1>3. CASE OpenArchive
      BY <1>3 DEF OpenArchive
<1>4. CASE Download
      BY <1>4 DEF Download
<1>5. CASE MakeDest
      BY <1>5 DEF MakeDest
<1>6. CASE OpenEntry
  <2>1. entry \in Files /\ dest[Tool] \in [Files -> {Absent, Cut, Good, Wrong}]
        BY <1>6 DEF OpenEntry, Files
  <2>2. dest' \in [Tools -> [Files -> {Absent, Cut, Good, Wrong}]]
        BY <1>6, <2>1 DEF OpenEntry
  <2> QED BY <1>6, <2>2 DEF OpenEntry
<1>7. CASE WriteEntry
  <2>1. entry \in Files /\ dest[Tool] \in [Files -> {Absent, Cut, Good, Wrong}]
        BY <1>7 DEF WriteEntry, ToolInv, ExtractedSoFar, Files
  <2>2. dist[Tool] \in {Absent, Cut, Good, Wrong}
        OBVIOUS
  <2>3. dest' \in [Tools -> [Files -> {Absent, Cut, Good, Wrong}]]
        BY <1>7, <2>1, <2>2 DEF WriteEntry
  <2>4. entry' \in 1..(Entries + 1)
        BY <1>7, <2>1 DEF WriteEntry, Files
  <2> QED BY <1>7, <2>3, <2>4 DEF WriteEntry
<1>8. CASE ToolFails
  <2>1. dist' \in [Tools -> {Absent, Cut, Good, Wrong}]
        BY <1>8 DEF ToolFails
  <2>2. failed' \in 0..which' /\ toolFaults' \in 0..MaxToolFaults
        BY <1>8 DEF ToolFails, ToolInv
  <2> QED BY <1>8, <2>1, <2>2 DEF ToolFails
<1>9. CASE NextTool
      BY <1>9 DEF NextTool
<1>10. CASE InstallInterrupted
      BY <1>10 DEF InstallInterrupted
<1>11. CASE UNCHANGED toolVars
      BY <1>11 DEF toolVars
<1> QED BY <1>1, <1>2, <1>3, <1>4, <1>5, <1>6, <1>7, <1>8, <1>9, <1>10, <1>11
        DEF ToolNext, InstallStep

\* A step that leaves the directories of the tools alone.
LEMMA WholeStays ==
    ASSUME UNCHANGED <<made, dest>>, NEW t
    PROVE  WholeTool(t)' <=> WholeTool(t)
BY DEF WholeTool

\* Extracting one tool leaves every other one alone.
LEMMA OthersStayWhole ==
    ASSUME ToolTypeOK, MakeDest \/ OpenEntry \/ WriteEntry,
           NEW t \in Tools, t # Tool
    PROVE  WholeTool(t)' <=> WholeTool(t)
BY DEF MakeDest, OpenEntry, WriteEntry, WholeTool, ToolTypeOK

LEMMA InTools ==
    ASSUME NEW k \in 1..Len(Manifest)
    PROVE  Manifest[k] \in Tools
BY DEF Tools

LEMMA ToolInvStep ==
    ASSUME ToolTypeOK, ToolInv, [ToolNext]_toolVars
    PROVE  ToolInv'
<1> USE EntriesAssumption, MaxToolFaultsAssumption, ContentsDiffer, ManifestLength, ToolIsOne DEF ToolTypeOK, ToolGoes, ToolFault, toolDisk
<1>0. /\ ipc \in {"tool", "download", "verify", "mkdir", "open", "write"} => failed < which
      /\ ExtractedSoFar /\ InstalledSoFar
      BY DEF ToolInv
<1>1. CASE Install
      BY <1>1 DEF Install, ToolInv, ExtractedSoFar, InstalledSoFar, ForcedIsWhole
<1>2. CASE SkipInstalled
      BY <1>0, <1>2 DEF SkipInstalled, ToolInv, ExtractedSoFar, InstalledSoFar, ForcedIsWhole
<1>3. CASE OpenArchive
      BY <1>0, <1>3 DEF OpenArchive, ToolInv, ExtractedSoFar, InstalledSoFar, ForcedIsWhole, Tool, WholeTool
<1>4. CASE Download
      BY <1>0, <1>4 DEF Download, ToolInv, ExtractedSoFar, InstalledSoFar, ForcedIsWhole, Tool, WholeTool
<1>5. CASE Verify
      BY <1>0, <1>5 DEF Verify, ToolInv, ExtractedSoFar, InstalledSoFar, ForcedIsWhole, Tool, WholeTool
<1>6. CASE MakeDest \/ OpenEntry \/ WriteEntry
  <2>1. ipc \in {"mkdir", "open", "write"} /\ ipc' \in {"open", "write"}
        /\ UNCHANGED <<dist, force, which, failed>> /\ Tool' = Tool
        BY <1>6 DEF MakeDest, OpenEntry, WriteEntry, Tool
  <2>2. InstalledSoFar'
        BY <1>0, <1>6, <2>1, InTools, OthersStayWhole DEF InstalledSoFar
  <2>3. ExtractedSoFar'
    <3>1. CASE MakeDest
          BY <1>0, <2>1, <3>1 DEF MakeDest, ExtractedSoFar, Files
    <3>2. CASE OpenEntry
      <4>1. \A f \in Files : f < entry => dest'[Tool][f] = dest[Tool][f]
            BY <3>2 DEF OpenEntry, Files
      <4> QED BY <1>0, <2>1, <3>2, <4>1 DEF OpenEntry, ExtractedSoFar
    <3>3. CASE WriteEntry
      <4>1. \A f \in Files : f < entry + 1 => dest'[Tool][f] = Good
            BY <1>0, <3>3 DEF WriteEntry, ExtractedSoFar, Files
      <4> QED BY <1>0, <2>1, <3>3, <4>1 DEF WriteEntry, ExtractedSoFar
    <3> QED BY <1>6, <3>1, <3>2, <3>3
  <2> QED BY <1>0, <2>1, <2>2, <2>3 DEF ToolInv, ForcedIsWhole
<1>7. CASE Extracted
  <2>1. WholeTool(Tool)
    <3>1. \A f \in Files : dest[Tool][f] = Good
          BY <1>0, <1>7 DEF Extracted, ExtractedSoFar, Files
    <3>2. dest[Tool] = [f \in Files |-> Good]
          BY <3>1
    <3> QED BY <1>0, <1>7, <3>2 DEF Extracted, ExtractedSoFar, WholeTool
  <2>2. force /\ failed = 0 => \A k \in 1..which : WholeTool(Manifest[k])
        BY <1>0, <1>7, <2>1 DEF Extracted, InstalledSoFar, Tool
  <2> QED BY <1>7, <2>2 DEF Extracted, ToolInv, ExtractedSoFar, InstalledSoFar, ForcedIsWhole, WholeTool
<1>8. CASE ToolFails
      BY <1>8 DEF ToolFails, ToolInv, ExtractedSoFar, InstalledSoFar, ForcedIsWhole
<1>9. CASE NextTool
  <2>1. force /\ failed = 0 => \A k \in 1..which : WholeTool(Manifest[k])
        BY <1>0, <1>9 DEF NextTool, InstalledSoFar
  <2>2. \A t : WholeTool(t)' <=> WholeTool(t)
        BY <1>9, WholeStays DEF NextTool
  <2>3. CASE which < Len(Manifest)
    <3>1. ipc' = "tool" /\ which' = which + 1 /\ failed' = failed /\ force' = force
          BY <1>9, <2>3 DEF NextTool
    <3>2. InstalledSoFar'
          BY <2>1, <2>2, <3>1 DEF InstalledSoFar
    <3> QED BY <3>1, <3>2 DEF ToolInv, ExtractedSoFar, ForcedIsWhole
  <2>4. CASE which = Len(Manifest)
    <3>1. ipc' \in {"ok", "failed"} /\ (ipc' = "ok" => failed = 0) /\ force' = force
          BY <1>9, <2>4 DEF NextTool
    <3>2. force /\ failed = 0 => \A t \in Tools : WholeTool(t)'
          BY <2>1, <2>2, <2>4 DEF Tools
    <3> QED BY <3>1, <3>2 DEF ToolInv, ExtractedSoFar, InstalledSoFar, ForcedIsWhole
  <2> QED BY <2>3, <2>4
<1>10. CASE InstallInterrupted
      BY <1>10 DEF InstallInterrupted, ToolInv, ExtractedSoFar, InstalledSoFar, ForcedIsWhole
<1>11. CASE UNCHANGED toolVars
      BY <1>11 DEF toolVars, ToolInv, ExtractedSoFar, InstalledSoFar, ForcedIsWhole, Tool, WholeTool
<1> QED BY <1>1, <1>2, <1>3, <1>4, <1>5, <1>6, <1>7, <1>8, <1>9, <1>10, <1>11
        DEF ToolNext, InstallStep

\* Whatever earlier runs left in dist/ and tools/, a run with --force that
\* reports success leaves every tool of the manifest whole.
THEOREM ForcedInstallIsWhole == ToolSpec => []ForcedIsWhole
<1> USE EntriesAssumption, MaxToolFaultsAssumption
<1>1. ASSUME ToolInit PROVE ToolTypeOK /\ ToolInv
  <2>1. dist \in [Tools -> {Absent, Cut, Good, Wrong}]
        BY <1>1 DEF ToolInit
  <2>2. NoFiles \in [Files -> {Absent, Cut, Good, Wrong}]
        BY DEF NoFiles
  <2>3. dest \in [Tools -> [Files -> {Absent, Cut, Good, Wrong}]] /\ made \subseteq Tools
        BY <1>1, <2>2 DEF ToolInit
  <2>4. ToolTypeOK
    <3>1. which \in 1..Len(Manifest) /\ entry \in 1..(Entries + 1)
          BY <1>1, ManifestLength DEF ToolInit
    <3>2. failed \in 0..which /\ toolFaults \in 0..MaxToolFaults
          BY <1>1 DEF ToolInit
    <3> QED BY <1>1, <2>1, <2>3, <3>1, <3>2 DEF ToolInit, ToolTypeOK
  <2>5. ToolInv
        BY <1>1 DEF ToolInit, ToolInv, ExtractedSoFar, InstalledSoFar, ForcedIsWhole
  <2> QED BY <2>4, <2>5
<1>2. ToolTypeOK /\ ToolInv /\ [ToolNext]_toolVars => ToolTypeOK' /\ ToolInv'
      BY ToolTyped, ToolInvStep
<1>3. ToolInv => ForcedIsWhole
      BY DEF ToolInv
<1> QED BY <1>1, <1>2, <1>3, PTL DEF ToolSpec

-----------------------------------------------------------------------------
(* SelfUpdate: updates of one executable *)

OneExe == \A p, q \in Updater : from[p] = from[q]

\* The parts of an update are those of the process that has the lock.
UpdateProgress(p) ==
    /\ upc[p] \notin {"off", "lock"} => ulock[from[p]] = p
    /\ upc[p] = "download" => tarball = [by |-> p, parts |-> got[p]]
    /\ upc[p] = "extract" => binary = [by |-> p, parts |-> got[p]]
    /\ upc[p] = "write" => got[p] = Parts

UpdateInv == OneExe => (\A p \in Updater : UpdateProgress(p)) /\ OneExeStaysWhole

\* What is at a path is nothing, or a file that somebody created.
Created == /\ tarball = NoFile \/ tarball.parts \in 0..Parts
           /\ binary = NoFile \/ binary.parts \in 0..Parts

LEMMA UpdateTyped ==
    ASSUME UpdateTypeOK, Created, [UpdateNext]_updateVars
    PROVE  UpdateTypeOK' /\ Created'
<1> USE PartsAssumption, MaxUpdateFaultsAssumption, NobodyAssumption DEF UpdateTypeOK, Created, Goes, Got, Mine, shared
<1>0. NoFile \in Path_
      BY DEF NoFile, Path_
<1>1. ASSUME NEW p \in Updater, StartUpdate(p) \/ LockExe(p)
      PROVE  UpdateTypeOK' /\ Created'
      BY <1>1 DEF StartUpdate, LockExe
<1>2. ASSUME NEW p \in Updater, Wipe(p) \/ CleanUp(p)
      PROVE  UpdateTypeOK' /\ Created'
      BY <1>0, <1>2 DEF Wipe, CleanUp
<1>3. ASSUME NEW p \in Updater, OpenRelease(p) \/ OpenBinary(p)
      PROVE  UpdateTypeOK' /\ Created'
  <2>1. [by |-> p, parts |-> 0] \in Path_
        BY DEF Path_
  <2>2. /\ tarball' \in {tarball, [by |-> p, parts |-> 0]}
        /\ binary' \in {binary, [by |-> p, parts |-> 0]}
        /\ upc' \in {[upc EXCEPT ![p] = "download"], [upc EXCEPT ![p] = "extract"]}
        /\ got' = [got EXCEPT ![p] = 0]
        /\ UNCHANGED <<from, exe, tmp, ulock, updateFaults>>
        BY <1>3 DEF OpenRelease, OpenBinary, Creates
  <2> QED BY <2>1, <2>2
<1>4. ASSUME NEW p \in Updater, FillRelease(p)
      PROVE  UpdateTypeOK' /\ Created'
  <2>1. got[p] + 1 \in 0..Parts
        BY <1>4 DEF FillRelease, Fills
  <2>2. tarball' \in Path_ /\ (tarball' = NoFile \/ tarball'.parts \in 0..Parts)
    <3>1. CASE tarball.by = p
      <4>1. tarball' = [tarball EXCEPT !.parts = got[p] + 1]
            BY <1>4, <3>1 DEF FillRelease, Fills
      <4> QED BY <2>1, <4>1 DEF Path_
    <3>2. CASE tarball.by # p
          BY <1>4, <3>2 DEF FillRelease, Fills
    <3> QED BY <3>1, <3>2
  <2> QED BY <1>4, <2>1, <2>2 DEF FillRelease, Fills
<1>5. ASSUME NEW p \in Updater, FillBinary(p)
      PROVE  UpdateTypeOK' /\ Created'
  <2>1. got[p] + 1 \in 0..Parts
        BY <1>5 DEF FillBinary, Fills
  <2>2. binary' \in Path_ /\ (binary' = NoFile \/ binary'.parts \in 0..Parts)
    <3>1. CASE binary.by = p
      <4>1. binary' = [binary EXCEPT !.parts = got[p] + 1]
            BY <1>5, <3>1 DEF FillBinary, Fills
      <4> QED BY <2>1, <4>1 DEF Path_
    <3>2. CASE binary.by # p
          BY <1>5, <3>2 DEF FillBinary, Fills
    <3> QED BY <3>1, <3>2
  <2> QED BY <1>5, <2>1, <2>2 DEF FillBinary, Fills
<1>6. ASSUME NEW p \in Updater, ReadBinary(p)
      PROVE  UpdateTypeOK' /\ Created'
      BY <1>6 DEF ReadBinary
<1>10. ASSUME NEW p \in Updater, WriteTmp(p)
      PROVE  UpdateTypeOK' /\ Created'
  <2>1. tmp[from[p]] + 1 \in 0..Parts
        BY <1>10 DEF WriteTmp
  <2> QED BY <1>10, <2>1 DEF WriteTmp
<1>7. ASSUME NEW p \in Updater, RenameTmp(p) \/ Chmod(p)
      PROVE  UpdateTypeOK' /\ Created'
  <2>1. exe' \in [Exe -> [new : BOOLEAN, parts : 0..Parts, runs : BOOLEAN]]
    <3>1. CASE RenameTmp(p)
          BY <3>1 DEF RenameTmp
    <3>2. CASE Chmod(p)
      <4>1. PICK x \in [new : BOOLEAN, parts : 0..Parts, runs : BOOLEAN] : x = exe[from[p]]
            OBVIOUS
      <4>2. [x EXCEPT !.runs = TRUE] \in [new : BOOLEAN, parts : 0..Parts, runs : BOOLEAN]
            OBVIOUS
      <4>3. exe' = [exe EXCEPT ![from[p]] = [x EXCEPT !.runs = TRUE]]
            BY <3>2, <4>1 DEF Chmod
      <4> QED BY <4>2, <4>3
    <3> QED BY <1>7, <3>1, <3>2
  <2> QED BY <1>7, <2>1 DEF RenameTmp, Chmod
<1>8. ASSUME NEW p \in Updater, UpdateDies(p)
      PROVE  UpdateTypeOK' /\ Created'
      BY <1>8 DEF UpdateDies, Failing, UpdateFault
<1>9. CASE UNCHANGED updateVars
      BY <1>9 DEF updateVars
<1> QED BY <1>1, <1>2, <1>3, <1>4, <1>5, <1>6, <1>7, <1>8, <1>9, <1>10 DEF UpdateNext

\* A step of p leaves every other process where it is.
UpdateByOne(p) ==
    from' = from /\ \A q \in Updater \ {p} : upc'[q] = upc[q] /\ got'[q] = got[q]

LEMMA UpdateInvStep ==
    ASSUME UpdateTypeOK, Created, UpdateInv, [UpdateNext]_updateVars
    PROVE  UpdateInv'
<1> USE PartsAssumption, MaxUpdateFaultsAssumption, NobodyAssumption DEF UpdateTypeOK, Goes, Got, Mine, shared
<1> SUFFICES ASSUME OneExe'
             PROVE  (\A p \in Updater : UpdateProgress(p))' /\ OneExeStaysWhole'
      BY DEF UpdateInv
<1>1. from' = from
      BY DEF UpdateNext, StartUpdate, LockExe, Wipe, OpenRelease, FillRelease, OpenBinary,
         FillBinary, ReadBinary, WriteTmp, RenameTmp, Chmod, CleanUp, UpdateDies, updateVars
<1>2. /\ \A p, q \in Updater : from[p] = from[q]
      /\ \A p \in Updater : UpdateProgress(p)
      /\ \A e \in Exe : exe[e].parts = Parts
      BY <1>1 DEF OneExe, UpdateInv, OneExeStaysWhole
<1>3. ASSUME NEW p \in Updater, UpdateByOne(p), UpdateProgress(p)',
             upc[p] \notin {"off", "lock"} \/
                (UNCHANGED shared /\ \A e \in Exe : ulock'[e] \in {ulock[e], p}
                                       /\ (ulock'[e] # ulock[e] => ulock[e] = Nobody)),
             \A e \in Exe : exe'[e].parts = Parts
      PROVE  (\A q \in Updater : UpdateProgress(q))' /\ OneExeStaysWhole'
  <2>1. ASSUME NEW q \in Updater \ {p}
        PROVE  UpdateProgress(q)'
    <3>1. CASE upc[q] \in {"off", "lock"}
          BY <1>3, <3>1 DEF UpdateProgress, UpdateByOne
    <3>2. CASE upc[q] \notin {"off", "lock"}
      <4>1. ulock[from[q]] = q /\ from[q] \in Exe /\ from[p] = from[q]
            BY <1>2, <3>2 DEF UpdateProgress
      <4>2. upc[p] \in {"off", "lock"}
            BY <1>2, <4>1 DEF UpdateProgress
      <4>3. ulock'[from[q]] = q /\ UNCHANGED shared
            BY <1>3, <4>1, <4>2
      <4> QED BY <1>1, <1>2, <1>3, <4>3 DEF UpdateProgress, UpdateByOne
    <3> QED BY <3>1, <3>2
  <2> QED BY <1>3, <2>1 DEF OneExeStaysWhole
<1>4. ASSUME NEW p \in Updater, StartUpdate(p) \/ LockExe(p)
      PROVE  (\A q \in Updater : UpdateProgress(q))' /\ OneExeStaysWhole'
  <2>1. UpdateByOne(p) /\ UNCHANGED <<exe, shared>>
        BY <1>4 DEF StartUpdate, LockExe, UpdateByOne
  <2>2. UpdateProgress(p)'
        BY <1>4 DEF StartUpdate, LockExe, UpdateProgress
  <2>3. \A e \in Exe : ulock'[e] \in {ulock[e], p} /\ (ulock'[e] # ulock[e] => ulock[e] = Nobody)
        BY <1>4 DEF StartUpdate, LockExe
  <2> QED BY <1>2, <1>3, <2>1, <2>2, <2>3
<1>5. ASSUME NEW p \in Updater, upc[p] \notin {"off", "lock"}, UpdateByOne(p),
             UpdateProgress(p)', UNCHANGED exe
      PROVE  (\A q \in Updater : UpdateProgress(q))' /\ OneExeStaysWhole'
      BY <1>2, <1>3, <1>5
<1>6. ASSUME NEW p \in Updater, Wipe(p)
      PROVE  (\A q \in Updater : UpdateProgress(q))' /\ OneExeStaysWhole'
      BY <1>2, <1>5, <1>6 DEF Wipe, UpdateByOne, UpdateProgress
<1>7. ASSUME NEW p \in Updater, OpenRelease(p) \/ OpenBinary(p)
      PROVE  (\A q \in Updater : UpdateProgress(q))' /\ OneExeStaysWhole'
  <2>1. UpdateByOne(p) /\ upc[p] \notin {"off", "lock"} /\ UNCHANGED <<exe, ulock>>
        BY <1>7 DEF OpenRelease, OpenBinary, Creates, UpdateByOne
  <2>2. /\ upc'[p] \in {"download", "extract"}
        /\ upc'[p] = "download" => tarball' = [by |-> p, parts |-> 0]
        /\ upc'[p] = "extract" => binary' = [by |-> p, parts |-> 0]
        /\ got'[p] = 0
        BY <1>7 DEF OpenRelease, OpenBinary, Creates
  <2> QED BY <1>1, <1>2, <1>5, <2>1, <2>2 DEF UpdateProgress
<1>8. ASSUME NEW p \in Updater, FillRelease(p) \/ FillBinary(p)
      PROVE  (\A q \in Updater : UpdateProgress(q))' /\ OneExeStaysWhole'
  <2>1. UpdateByOne(p) /\ upc[p] \in {"download", "extract"} /\ UNCHANGED <<exe, ulock>>
        /\ upc'[p] = upc[p] /\ got'[p] = got[p] + 1
        BY <1>8 DEF FillRelease, FillBinary, Fills, UpdateByOne
  <2>2. CASE upc[p] = "download"
    <3>1. tarball = [by |-> p, parts |-> got[p]]
          BY <1>2, <2>2 DEF UpdateProgress
    <3>2. tarball' = [tarball EXCEPT !.parts = got[p] + 1]
          BY <1>8, <2>2, <3>1 DEF FillRelease, FillBinary, Fills
    <3>3. tarball' = [by |-> p, parts |-> got'[p]]
          BY <2>1, <3>1, <3>2
    <3> QED BY <1>1, <1>2, <1>5, <2>1, <2>2, <3>3 DEF UpdateProgress
  <2>3. CASE upc[p] = "extract"
    <3>1. binary = [by |-> p, parts |-> got[p]]
          BY <1>2, <2>3 DEF UpdateProgress
    <3>2. binary' = [binary EXCEPT !.parts = got[p] + 1]
          BY <1>8, <2>3, <3>1 DEF FillRelease, FillBinary, Fills
    <3>3. binary' = [by |-> p, parts |-> got'[p]]
          BY <2>1, <3>1, <3>2
    <3> QED BY <1>1, <1>2, <1>5, <2>1, <2>3, <3>3 DEF UpdateProgress
  <2> QED BY <2>1, <2>2, <2>3
<1>9. ASSUME NEW p \in Updater, ReadBinary(p) \/ WriteTmp(p)
      PROVE  (\A q \in Updater : UpdateProgress(q))' /\ OneExeStaysWhole'
      BY <1>2, <1>5, <1>9 DEF ReadBinary, WriteTmp, UpdateByOne, UpdateProgress
<1>10. ASSUME NEW p \in Updater, RenameTmp(p) \/ Chmod(p)
       PROVE  (\A q \in Updater : UpdateProgress(q))' /\ OneExeStaysWhole'
  <2>1. UpdateByOne(p) /\ UpdateProgress(p)' /\ upc[p] \notin {"off", "lock"}
        BY <1>2, <1>10 DEF RenameTmp, Chmod, UpdateByOne, UpdateProgress
  <2>2. \A e \in Exe : exe'[e].parts = Parts
    <3>1. CASE RenameTmp(p)
      <4>1. got[p] = Parts
            BY <1>2, <3>1 DEF RenameTmp, UpdateProgress
      <4> QED BY <1>2, <3>1, <4>1 DEF RenameTmp
    <3>2. CASE Chmod(p)
      <4>1. \A e \in Exe : exe'[e] \in {exe[e], [exe[e] EXCEPT !.runs = TRUE]}
            BY <3>2 DEF Chmod
      <4> QED BY <1>2, <4>1
    <3> QED BY <1>10, <3>1, <3>2
  <2> QED BY <1>3, <2>1, <2>2
<1>11. ASSUME NEW p \in Updater, CleanUp(p) \/ UpdateDies(p)
       PROVE  (\A q \in Updater : UpdateProgress(q))' /\ OneExeStaysWhole'
       BY <1>2, <1>5, <1>11 DEF CleanUp, UpdateDies, Robbed, Failing, UpdateByOne, UpdateProgress
<1>12. CASE UNCHANGED updateVars
       BY <1>2, <1>12 DEF updateVars, UpdateProgress, OneExeStaysWhole
<1> QED BY <1>4, <1>6, <1>7, <1>8, <1>9, <1>10, <1>11, <1>12 DEF UpdateNext

\* While all updates are of one executable it is never truncated: not by an
\* update that is interrupted anywhere, nor by what it left in ~/.ice/update.
THEOREM OneExeIsWhole == UpdateSpec => []OneExeStaysWhole
<1> USE PartsAssumption, MaxUpdateFaultsAssumption, NobodyAssumption
<1>1. UpdateInit => UpdateTypeOK /\ Created /\ UpdateInv
  <2> SUFFICES ASSUME UpdateInit PROVE UpdateTypeOK /\ Created /\ UpdateInv
        OBVIOUS
  <2>1. NoFile \in Path_ /\ OldExe \in [new : BOOLEAN, parts : 0..Parts, runs : BOOLEAN]
        BY DEF NoFile, Path_, OldExe
  <2>2. UpdateTypeOK /\ Created
        BY <2>1 DEF UpdateInit, UpdateTypeOK, Created
  <2>3. UpdateInv
        BY DEF UpdateInit, UpdateInv, UpdateProgress, OneExeStaysWhole, OldExe
  <2> QED BY <2>2, <2>3
<1>2. UpdateTypeOK /\ Created /\ UpdateInv /\ [UpdateNext]_updateVars
         => UpdateTypeOK' /\ Created' /\ UpdateInv'
      BY UpdateTyped, UpdateInvStep
<1>3. UpdateInv => OneExeStaysWhole
      BY DEF UpdateInv, OneExe, OneExeStaysWhole
<1> QED BY <1>1, <1>2, <1>3, PTL DEF UpdateSpec

-----------------------------------------------------------------------------
(* RepoStore: a checkout is made by one command and then left alone *)

RepoShape ==
    /\ DOMAIN base = {"there", "head", "local", "remote", "subs"}
    /\ DOMAIN co = Dest
    /\ \A d \in Dest : DOMAIN co[d] = {"there", "names", "head", "mirrored", "filled", "said"}
    /\ rpc \in [User -> {"off", "lock", "git"}]
    /\ job \in [User -> Jobs \cup {NoJob}]
    /\ step \in [User -> 1..8] /\ warned \in [User -> BOOLEAN]

\* A command past its look at the reference has one, or is making it.
WellBegun(p) ==
    /\ job[p] \in Jobs /\ step[p] \in 1..Len(Plan(job[p].cmd))
    /\ job[p].cmd # "clone" \/ step[p] > 1 => base.there
    /\ rpc[p] = "lock" => step[p] = 1

ReferenceThere ==
    /\ base.subs # {} => base.there
    /\ \A p \in User : rpc[p] # "off" => WellBegun(p)
    /\ \A o \in orphan : o.git = "submodules" => base.there

\* p has made the checkout at d and is still at it; or a git it left behind.
MakesAt(p, d) ==
    rpc[p] = "git" /\ job[p].cmd = "checkout" /\ job[p].dest = d /\ step[p] > 4
OrphanAt(o, d) ==
    /\ o.job.cmd = "checkout" /\ o.job.dest = d
    /\ o.git \in {"mirror", "out", "fill", "restore"}

\* A checkout has one maker: a git that was left behind keeps its destination,
\* so that no other command can clone into it.
OneMaker ==
    /\ \A p \in User : rpc[p] = "git" => esp = p
    /\ \A d \in Dest, p \in User : MakesAt(p, d) =>
          /\ co[d].there /\ co[d].said = "nothing"
          /\ \A o \in orphan : ~OrphanAt(o, d)
    /\ \A d \in Dest : \A o \in orphan :
          OrphanAt(o, d) => co[d].there /\ co[d].said = "nothing"
    /\ \A d \in Dest : co[d].said # "nothing" => co[d].there

WholeAt(d) == co[d].filled /\ (co[d].mirrored => co[d].head \in base.subs)

MadeSoFar ==
    \A d \in Dest, p \in User : MakesAt(p, d) =>
       /\ step[p] > 6 => co[d].head # NoCommit
       /\ step[p] > 7 /\ ~warned[p] => WholeAt(d)

RepoInv == RepoShape /\ ReferenceThere /\ OneMaker /\ MadeSoFar /\ SilentMeansWhole

LEMMA Plans ==
    /\ Plan("clone") = <<"clone", "submodules">> /\ Len(Plan("clone")) = 2
    /\ Plan("pull") = <<"master", "pull", "submodules">> /\ Len(Plan("pull")) = 3
    /\ Plan("checkout") = <<"fetch", "switch", "submodules", "local",
                            "mirror", "out", "fill", "restore">>
    /\ Len(Plan("checkout")) = 8
<1>1. Plan("clone") = <<"clone", "submodules">>
      BY DEF Plan
<1>2. Plan("pull") = <<"master", "pull", "submodules">>
      BY DEF Plan
<1>3. Plan("checkout") = <<"fetch", "switch", "submodules", "local",
                           "mirror", "out", "fill", "restore">>
      BY DEF Plan
<1> QED BY <1>1, <1>2, <1>3

LEMMA PlanLengths ==
    Len(Plan("clone")) = 2 /\ Len(Plan("pull")) = 3 /\ Len(Plan("checkout")) = 8
BY Plans

LEMMA JobKinds ==
    ASSUME NEW j \in Jobs
    PROVE  /\ j.cmd \in {"clone", "pull", "checkout"}
           /\ j.cmd = "checkout" => j.dest \in Dest
BY DEF Jobs

\* What the n-th git command of a checkout is.
LEMMA CheckoutSteps ==
    ASSUME NEW n \in 1..8
    PROVE  /\ (n = 1) => Plan("checkout")[n] = "fetch"
           /\ (n = 2) => Plan("checkout")[n] = "switch"
           /\ (n = 3) => Plan("checkout")[n] = "submodules"
           /\ (n = 4) => Plan("checkout")[n] = "local"
           /\ (n = 5) => Plan("checkout")[n] = "mirror"
           /\ (n = 6) => Plan("checkout")[n] = "out"
           /\ (n = 7) => Plan("checkout")[n] = "fill"
           /\ (n = 8) => Plan("checkout")[n] = "restore"
<1> DEFINE c == <<"fetch", "switch", "submodules", "local",
                  "mirror", "out", "fill", "restore">>
<1>1. /\ c[1] = "fetch" /\ c[2] = "switch" /\ c[3] = "submodules" /\ c[4] = "local"
      /\ c[5] = "mirror" /\ c[6] = "out" /\ c[7] = "fill" /\ c[8] = "restore"
      OBVIOUS
<1> QED BY <1>1, Plans

LEMMA OtherSteps ==
    /\ \A n \in 1..2 : /\ Plan("clone")[n] \in {"clone", "submodules"}
                       /\ Plan("clone")[n] = "submodules" => n = 2
    /\ \A n \in 1..3 : Plan("pull")[n] \in {"master", "pull", "submodules"}
BY Plans

\* A command that runs git: which, at which step, and that it is the only one.
LEMMA AtGit ==
    ASSUME RepoInv, NEW p \in User, rpc[p] = "git"
    PROVE  /\ WellBegun(p) /\ job[p].cmd \in {"clone", "pull", "checkout"}
           /\ job[p].cmd = "clone" => /\ step[p] \in 1..2 /\ Len(Plan(job[p].cmd)) = 2
                                      /\ Step(p) \in {"clone", "submodules"}
                                      /\ Step(p) = "submodules" => step[p] = 2
           /\ job[p].cmd = "pull" => /\ step[p] \in 1..3 /\ Len(Plan(job[p].cmd)) = 3
                                     /\ Step(p) \in {"master", "pull", "submodules"}
           /\ job[p].cmd = "checkout" => /\ step[p] \in 1..8 /\ Len(Plan(job[p].cmd)) = 8
                                         /\ Step(p) = Plan("checkout")[step[p]]
                                         /\ job[p].dest \in Dest
           /\ esp = p /\ \A q \in User \ {p} : rpc[q] # "git"
           /\ Step(p) = "submodules" => base.there
<1>1. WellBegun(p) /\ esp = p /\ \A q \in User \ {p} : rpc[q] # "git"
      BY DEF RepoInv, ReferenceThere, OneMaker
<1>2. /\ job[p].cmd \in {"clone", "pull", "checkout"}
      /\ job[p].cmd = "checkout" => job[p].dest \in Dest
      BY <1>1, JobKinds DEF WellBegun
<1>3. step[p] \in 1..Len(Plan(job[p].cmd))
      BY <1>1 DEF WellBegun
<1>4. CASE job[p].cmd = "clone"
      BY <1>1, <1>3, <1>4, Plans, OtherSteps DEF Step, WellBegun
<1>5. CASE job[p].cmd = "pull"
      BY <1>1, <1>3, <1>5, Plans, OtherSteps DEF Step, WellBegun
<1>6. CASE job[p].cmd = "checkout"
      BY <1>1, <1>2, <1>3, <1>6, Plans DEF Step, WellBegun
<1> QED BY <1>1, <1>2, <1>4, <1>5, <1>6

\* What git does to the reference when it does what it was told: nothing that
\* was there goes away.
BaseGrows ==
    /\ DOMAIN base' = {"there", "head", "local", "remote", "subs"}
    /\ base.subs \subseteq base'.subs
    /\ base.there => base'.there
    /\ base'.subs # {} => base'.there

LEMMA ReferenceGrows ==
    ASSUME RepoInv, NEW j, NEW s, Able(j, s), s = "submodules" => base.there,
           base' = BaseAfter(j, s)
    PROVE  BaseGrows /\ (s = "clone" => base'.there)
<1> USE DEF RepoInv, RepoShape, ReferenceThere, BaseGrows
<1>1. CASE s = "clone"
      BY <1>1 DEF Able, BaseAfter, Fetched, NoBase
<1>2. CASE s = "submodules"
      BY <1>2 DEF BaseAfter
<1>3. CASE s \in {"master", "restore", "switch"}
      BY <1>3 DEF BaseAfter, Switched
<1>4. CASE s \in {"pull", "fetch"}
      BY <1>4 DEF BaseAfter, Fetched
<1>5. CASE s \notin {"clone", "submodules", "master", "restore", "switch", "pull", "fetch"}
      BY <1>5 DEF BaseAfter
<1> QED BY <1>1, <1>2, <1>3, <1>4, <1>5

\* Steps that leave the reference and the checkouts as they are: no command
\* gets further into a checkout, and a git is left behind only by its maker.
LEMMA QuietStep ==
    ASSUME RepoInv, UNCHANGED <<base, co>>, RepoShape',
           \A q \in User : rpc'[q] # "off" => WellBegun(q)',
           \A q \in User : rpc'[q] = "git" => esp' = q,
           \A q \in User : rpc'[q] = "git" /\ step'[q] > 4 =>
              rpc[q] = "git" /\ job'[q] = job[q] /\ step'[q] = step[q] /\ warned'[q] = warned[q],
           \A o \in orphan' \ orphan :
              /\ o.git = "submodules" => base.there
              /\ \A d \in Dest : OrphanAt(o, d) =>
                    /\ \E q \in User : MakesAt(q, d)
                    /\ \A q \in User : rpc'[q] # "git"
    PROVE  RepoInv'
<1>1. \A d \in Dest, q \in User :
         MakesAt(q, d)' => MakesAt(q, d) /\ step'[q] = step[q] /\ warned'[q] = warned[q]
      BY DEF MakesAt
<1>2. ReferenceThere'
      BY DEF RepoInv, ReferenceThere
<1>3. OneMaker'
  <2>1. ASSUME NEW d \in Dest, NEW q \in User, MakesAt(q, d)'
        PROVE  /\ co'[d].there /\ co'[d].said = "nothing"
               /\ \A o \in orphan' : ~OrphanAt(o, d)
    <3>1. MakesAt(q, d) /\ rpc'[q] = "git"
          BY <1>1, <2>1 DEF MakesAt
    <3>2. \A o \in orphan : ~OrphanAt(o, d)
          BY <3>1 DEF RepoInv, OneMaker
    <3> QED BY <3>1, <3>2 DEF RepoInv, OneMaker
  <2>2. ASSUME NEW d \in Dest, NEW o \in orphan', OrphanAt(o, d)
        PROVE  co'[d].there /\ co'[d].said = "nothing"
        BY <2>2 DEF RepoInv, OneMaker
  <2>3. \A d \in Dest, o \in orphan' : OrphanAt(o, d)' <=> OrphanAt(o, d)
        BY DEF OrphanAt
  <2> QED BY <2>1, <2>2, <2>3 DEF RepoInv, OneMaker
<1>4. MadeSoFar'
      BY <1>1 DEF RepoInv, MadeSoFar, WholeAt
<1>5. SilentMeansWhole'
      BY DEF RepoInv, SilentMeansWhole
<1> QED BY <1>2, <1>3, <1>4, <1>5 DEF RepoInv

LEMMA BeginKeeps ==
    ASSUME RepoInv, NEW p \in User, NEW j \in Jobs, Begin(p, j)
    PROVE  RepoInv'
<1> USE DEF RepoInv, RepoShape
<1>1. RepoShape'
      BY DEF Begin
<1>2. \A q \in User \ {p} : /\ rpc'[q] = rpc[q] /\ job'[q] = job[q] /\ step'[q] = step[q]
                            /\ warned'[q] = warned[q]
      BY DEF Begin
<1>3. /\ rpc'[p] \in {"off", "lock"} /\ job'[p] = j /\ step'[p] = 1
      /\ rpc'[p] = "lock" => j.cmd = "clone" \/ base.there
      /\ UNCHANGED <<base, co, esp, orphan>>
      BY DEF Begin
<1>4. 1 \in 1..Len(Plan(j.cmd))
  <2>1. j.cmd \in {"clone", "pull", "checkout"}
        BY JobKinds
  <2>2. \/ Plan(j.cmd) = Plan("clone") \/ Plan(j.cmd) = Plan("pull")
        \/ Plan(j.cmd) = Plan("checkout")
        BY <2>1
  <2>3. PICK n \in {2, 3, 8} : Len(Plan(j.cmd)) = n
        BY <2>2, PlanLengths
  <2>4. 1 \in 1..n
        OBVIOUS
  <2> QED BY <2>3, <2>4
<1>5. \A q \in User : rpc'[q] # "off" => WellBegun(q)'
      BY <1>2, <1>3, <1>4 DEF ReferenceThere, WellBegun
<1>6. \A q \in User : rpc'[q] = "git" => esp' = q
      BY <1>2, <1>3 DEF OneMaker
<1> QED BY <1>1, <1>2, <1>3, <1>5, <1>6, QuietStep

LEMMA TakeKeeps ==
    ASSUME RepoInv, NEW p \in User, Take(p)
    PROVE  RepoInv'
<1> USE DEF RepoInv, RepoShape
<1>1. RepoShape'
      BY DEF Take
<1>2. \A q \in User : rpc[q] # "git"
      BY NoOneAssumption DEF Take, OneMaker
<1>3. /\ \A q \in User \ {p} : rpc'[q] = rpc[q]
      /\ rpc[p] = "lock" /\ rpc'[p] = "git" /\ esp' = p
      /\ UNCHANGED <<base, co, orphan, job, step, warned>>
      BY DEF Take
<1>4. WellBegun(p) /\ step[p] = 1
      BY <1>3 DEF ReferenceThere, WellBegun
<1>5. \A q \in User : rpc'[q] # "off" => WellBegun(q)'
      BY <1>3, <1>4 DEF ReferenceThere, WellBegun
<1> QED BY <1>1, <1>2, <1>3, <1>4, <1>5, QuietStep

\* What ends a command, or changes none.
LEMMA EndingKeeps ==
    ASSUME RepoInv, NEW p \in User, GiveUp(p) \/ GitFails(p) \/ Signalled(p) \/ Killed(p)
    PROVE  RepoInv'
<1> USE DEF RepoInv, RepoShape
<1>1. /\ rpc' = [rpc EXCEPT ![p] = "off"]
      /\ UNCHANGED <<base, co, job, step, warned>>
      BY DEF GiveUp, GitFails, Signalled, Killed
<1>2. RepoShape'
      BY <1>1
<1>3. \A q \in User : rpc'[q] # "off" => q # p /\ rpc'[q] = rpc[q]
      BY <1>1
<1>4. \A q \in User : rpc'[q] # "off" => WellBegun(q)'
      BY <1>1, <1>3 DEF ReferenceThere, WellBegun
<1>5. esp' = esp \/ (rpc[p] = "git" /\ esp = p) \/ (esp = p /\ esp' = NoOne)
      BY DEF GiveUp, GitFails, Signalled, Killed, Frees, OneMaker
<1>6. \A q \in User : rpc'[q] = "git" => esp' = q
      BY <1>3, <1>5 DEF OneMaker
<1>7. ASSUME NEW o \in orphan' \ orphan
      PROVE  /\ o.git = "submodules" => base.there
             /\ \A d \in Dest : OrphanAt(o, d) =>
                   /\ \E q \in User : MakesAt(q, d)
                   /\ \A q \in User : rpc'[q] # "git"
  <2>1. rpc[p] = "git" /\ o = [job |-> job[p], git |-> Step(p)]
        BY <1>7 DEF GiveUp, GitFails, Signalled, Killed
  <2>2. o.job = job[p] /\ o.git = Step(p)
        BY <2>1
  <2>3. \A q \in User : rpc'[q] # "git"
        BY <1>3, <2>1, AtGit
  <2>4. o.git = "submodules" => base.there
        BY <2>1, <2>2, AtGit
  <2>5. ASSUME NEW d \in Dest, OrphanAt(o, d)
        PROVE  MakesAt(p, d)
    <3>1. job[p].cmd = "checkout" /\ job[p].dest = d
          /\ Step(p) \in {"mirror", "out", "fill", "restore"}
          BY <2>2, <2>5 DEF OrphanAt
    <3>2. step[p] \in 1..8 /\ Step(p) = Plan("checkout")[step[p]]
          BY <2>1, <3>1, AtGit
    <3>3. step[p] \notin 1..4
          BY <3>1, <3>2, CheckoutSteps
    <3> QED BY <2>1, <3>1, <3>2, <3>3 DEF MakesAt
  <2> QED BY <2>3, <2>4, <2>5
<1> QED BY <1>1, <1>2, <1>3, <1>4, <1>6, <1>7, QuietStep

LEMMA OutsideKeeps ==
    ASSUME RepoInv, Publishes \/ RemoveLock \/ UNCHANGED repoVars
    PROVE  RepoInv'
<1> USE DEF RepoInv, RepoShape
<1>1. UNCHANGED <<base, co, job, step, warned, orphan, rpc>>
      BY DEF Publishes, RemoveLock, repoVars
<1>2. RepoShape'
      BY <1>1
<1>3. \A q \in User : rpc'[q] # "off" => WellBegun(q)'
      BY <1>1 DEF ReferenceThere, WellBegun
<1>4. \A q \in User : rpc'[q] = "git" => esp' = q
      BY <1>1 DEF OneMaker, Publishes, RemoveLock, repoVars
<1> QED BY <1>1, <1>2, <1>3, <1>4, QuietStep

\* To the next git command, or to the end: others stay where they are.
LEMMA Advancing ==
    ASSUME RepoInv, NEW p \in User, rpc[p] = "git", Advances(p)
    PROVE  /\ rpc' \in [User -> {"off", "lock", "git"}] /\ step' \in [User -> 1..8]
           /\ \A q \in User \ {p} : rpc'[q] = rpc[q] /\ step'[q] = step[q]
           /\ \/ /\ rpc'[p] = "git" /\ step'[p] = step[p] + 1
                 /\ step'[p] \in 1..Len(Plan(job[p].cmd))
              \/ rpc'[p] = "off" /\ step'[p] = step[p]
           /\ step[p] = 8 => rpc'[p] = "off"
           /\ \A q \in User : rpc'[q] = "git" => esp' = q
<1> USE DEF RepoInv, RepoShape
<1>1. step[p] \in 1..8 /\ Len(Plan(job[p].cmd)) \in {2, 3, 8}
      BY AtGit
<1>2. step[p] \in 1..Len(Plan(job[p].cmd)) /\ esp = p /\ \A q \in User \ {p} : rpc[q] # "git"
      BY AtGit DEF WellBegun
<1>3. CASE step[p] < Len(Plan(job[p].cmd))
  <2>1. step' = [step EXCEPT ![p] = @ + 1] /\ UNCHANGED <<esp, rpc>>
        BY <1>3 DEF Advances
  <2>2. step[p] + 1 \in 1..8 /\ step[p] + 1 \in 1..Len(Plan(job[p].cmd)) /\ step[p] # 8
    <3>1. \A n \in {2, 3, 8}, k \in 1..8 :
             k < n => k + 1 \in 1..8 /\ k + 1 \in 1..n /\ k # 8
          OBVIOUS
    <3> QED BY <1>1, <1>3, <3>1
  <2> QED BY <1>2, <2>1, <2>2
<1>4. CASE ~(step[p] < Len(Plan(job[p].cmd)))
  <2>1. rpc' = [rpc EXCEPT ![p] = "off"] /\ UNCHANGED step
        BY <1>4 DEF Advances
  <2> QED BY <1>2, <2>1
<1> QED BY <1>3, <1>4

\* A git command that ends changes no checkout but its command's, and takes
\* nothing from the reference.
LEMMA GitFrame ==
    ASSUME RepoInv, NEW p \in User, GitDone(p) \/ GitWarns(p)
    PROVE  /\ rpc[p] = "git" /\ Advances(p)
           /\ UNCHANGED <<job, orphan>>
           /\ warned' \in [User -> BOOLEAN] /\ BaseGrows
           /\ Step(p) = "clone" => base'.there
           /\ DOMAIN co' = Dest
           /\ \A d \in Dest : co'[d] = co[d] \/ (job[p].cmd = "checkout" /\ d = job[p].dest)
<1> USE DEF RepoInv, RepoShape
<1>1. rpc[p] = "git" /\ Advances(p) /\ UNCHANGED <<job, orphan>>
      /\ warned' \in [User -> BOOLEAN]
      BY DEF GitDone, GitWarns
<1>2. BaseGrows /\ (Step(p) = "clone" => base'.there)
  <2>1. CASE GitDone(p)
    <3>1. Step(p) = "submodules" => base.there
          BY <1>1, AtGit
    <3> HIDE DEF RepoInv
    <3> QED BY <2>1, <3>1, ReferenceGrows DEF GitDone
  <2>2. CASE GitWarns(p)
    <3>1. UNCHANGED base /\ Step(p) # "clone"
          BY <2>2 DEF GitWarns, Tolerated
    <3> QED BY <3>1 DEF BaseGrows, ReferenceThere
  <2> QED BY <2>1, <2>2
<1>3. DOMAIN co' = Dest
      /\ \A d \in Dest : co'[d] = co[d] \/ (job[p].cmd = "checkout" /\ d = job[p].dest)
      BY DEF GitDone, GitWarns, Tells
<1> QED BY <1>1, <1>2, <1>3

\* The git commands of a checkout, one by one.
LEMMA CheckoutMoves ==
    ASSUME RepoInv, NEW p \in User, GitDone(p) \/ GitWarns(p), NEW d \in Dest,
           job[p].cmd = "checkout", d = job[p].dest
    PROVE  /\ DOMAIN co'[d] = {"there", "names", "head", "mirrored", "filled", "said"}
           /\ step[p] \in 1..3 => co'[d] = co[d]
           /\ step[p] = 4 => ~co[d].there /\ co'[d].there /\ co'[d].said = "nothing"
           /\ step[p] \in 5..7 => co'[d].there /\ co'[d].said = "nothing"
           /\ step[p] = 6 => co'[d].head # NoCommit
           /\ step[p] = 7 => /\ co'[d].head = co[d].head
                             /\ ~warned'[p] => /\ co'[d].filled
                                               /\ co'[d].mirrored => co'[d].head \in base.subs
           /\ step[p] = 8 => /\ co'[d].there /\ co'[d].head = co[d].head
                             /\ co'[d].mirrored = co[d].mirrored /\ co'[d].filled = co[d].filled
                             /\ co'[d].said = "done" => ~warned[p]
<1> USE DEF RepoInv, RepoShape
<1>1. rpc[p] = "git"
      BY DEF GitDone, GitWarns
<1>2. step[p] \in 1..8 /\ Step(p) = Plan("checkout")[step[p]]
      BY <1>1, AtGit
<1>3. step[p] > 4 => co[d].there /\ co[d].said = "nothing"
      BY <1>1 DEF OneMaker, MakesAt
<1>4. CASE step[p] \in 1..7
  <2>1. \A w, c : Tells(p, w, c) = c
    <3>1. step[p] # Len(Plan("checkout"))
      <4>1. step[p] # 8
            BY <1>4
      <4> QED BY <4>1, PlanLengths
    <3> QED BY <3>1 DEF Tells
  <2>2. CASE GitWarns(p)
    <3>1. co' = co
          BY <2>1, <2>2 DEF GitWarns
    <3>2. Step(p) \in {"submodules", "mirror", "fill", "restore"} /\ warned'[p]
          BY <2>2 DEF GitWarns, Tolerated
    <3>3. step[p] # 4 /\ step[p] # 6
          BY <1>2, <3>2, CheckoutSteps
    <3> QED BY <1>2, <1>3, <1>4, <3>1, <3>2, <3>3
  <2>3. CASE GitDone(p)
    <3>1. co'[d] = CheckoutAfter(job[p], Step(p)) /\ Able(job[p], Step(p))
      <4>1. co' = [co EXCEPT ![d] = CheckoutAfter(job[p], Step(p))] /\ Able(job[p], Step(p))
            BY <2>1, <2>3 DEF GitDone
      <4> QED BY <4>1
    <3>2. CASE step[p] \in 1..3
      <4>1. Step(p) \in {"fetch", "switch", "submodules"}
            BY <1>2, <3>2, CheckoutSteps
      <4>2. co'[d] = co[d]
            BY <3>1, <4>1 DEF CheckoutAfter
      <4> QED BY <3>2, <4>2
    <3>3. CASE step[p] = 4
      <4>1. Step(p) = "local"
            BY <1>2, <3>3, CheckoutSteps
      <4>2. co'[d] = [NoCheckout EXCEPT !.there = TRUE, !.names = base.local] /\ ~co[d].there
            BY <3>1, <4>1 DEF CheckoutAfter, Able
      <4> QED BY <3>3, <4>2 DEF NoCheckout
    <3>4. CASE step[p] = 5
      <4>1. Step(p) = "mirror"
            BY <1>2, <3>4, CheckoutSteps
      <4>2. co'[d] = [co[d] EXCEPT !.mirrored = base.subs # {}]
            BY <3>1, <4>1 DEF CheckoutAfter
      <4> QED BY <1>3, <3>4, <4>2
    <3>5. CASE step[p] = 6
      <4>1. Step(p) = "out"
            BY <1>2, <3>5, CheckoutSteps
      <4>2. /\ co'[d] = [co[d] EXCEPT !.head = <<job[p].name, co[d].names[job[p].name]>>,
                                      !.filled = FALSE]
            /\ co[d].names[job[p].name] # 0
            BY <3>1, <4>1 DEF CheckoutAfter, Able
      <4>3. <<job[p].name, co[d].names[job[p].name]>> # NoCommit
            BY <4>2 DEF NoCommit
      <4> QED BY <1>3, <3>5, <4>2, <4>3
    <3>6. CASE step[p] = 7
      <4>1. Step(p) = "fill"
            BY <1>2, <3>6, CheckoutSteps
      <4>2. co'[d] = [co[d] EXCEPT !.filled = TRUE]
            BY <3>1, <4>1 DEF CheckoutAfter
      <4>3. co[d].mirrored => co[d].head \in base.subs
            BY <3>1, <4>1 DEF Able
      <4> QED BY <1>3, <3>6, <4>2, <4>3
    <3> QED BY <1>4, <3>2, <3>3, <3>4, <3>5, <3>6
  <2> QED BY <2>2, <2>3
<1>5. CASE step[p] = 8
  <2>1. Step(p) = "restore"
        BY <1>2, <1>5, CheckoutSteps
  <2>2. PICK w \in BOOLEAN : /\ co'[d] = [co[d] EXCEPT !.said = IF w THEN "warned" ELSE "done"]
                             /\ ~w => ~warned[p]
    <3>1. \A v, c : Tells(p, v, c) = [c EXCEPT ![d].said = IF v THEN "warned" ELSE "done"]
      <4>1. step[p] = Len(Plan("checkout"))
            BY <1>5, PlanLengths
      <4> QED BY <4>1 DEF Tells
    <3>2. CASE GitWarns(p)
      <4>1. co' = Tells(p, TRUE, co)
            BY <3>2 DEF GitWarns
      <4>2. co' = [co EXCEPT ![d].said = "warned"]
            BY <3>1, <4>1
      <4> WITNESS TRUE \in BOOLEAN
      <4> QED BY <4>2
    <3>3. CASE GitDone(p)
      <4>1. CheckoutAfter(job[p], Step(p)) = co[d]
            BY <2>1 DEF CheckoutAfter
      <4>2. co' = Tells(p, warned[p], [co EXCEPT ![d] = co[d]])
            BY <3>3, <4>1 DEF GitDone
      <4>3. co' = [[co EXCEPT ![d] = co[d]]
                     EXCEPT ![d].said = IF warned[p] THEN "warned" ELSE "done"]
            BY <1>5, <4>2, PlanLengths DEF Tells
      <4>4. co'[d] = [co[d] EXCEPT !.said = IF warned[p] THEN "warned" ELSE "done"]
            BY <4>3
      <4> WITNESS warned[p] \in BOOLEAN
      <4> QED BY <4>4
    <3> QED BY <3>2, <3>3
  <2> QED BY <1>3, <1>5, <2>2
<1> QED BY <1>2, <1>4, <1>5

LEMMA GitKeeps ==
    ASSUME RepoInv, NEW p \in User, GitDone(p) \/ GitWarns(p)
    PROVE  RepoInv'
<1> DEFINE atDest(d) == job[p].cmd = "checkout" /\ d = job[p].dest
<1>1. /\ rpc[p] = "git" /\ Advances(p) /\ UNCHANGED <<job, orphan>>
      /\ warned' \in [User -> BOOLEAN] /\ BaseGrows
      /\ Step(p) = "clone" => base'.there
      /\ DOMAIN co' = Dest
      /\ \A d \in Dest : co'[d] = co[d] \/ atDest(d)
      BY GitFrame
<1>2. /\ WellBegun(p) /\ \A q \in User \ {p} : rpc[q] # "git"
      /\ job[p].cmd = "clone" => Step(p) \in {"clone", "submodules"}
      /\ job[p].cmd = "checkout" => step[p] \in 1..8
      /\ Step(p) = "submodules" => base.there
      BY <1>1, AtGit
<1>3. /\ rpc' \in [User -> {"off", "lock", "git"}] /\ step' \in [User -> 1..8]
      /\ \A q \in User \ {p} : rpc'[q] = rpc[q] /\ step'[q] = step[q]
      /\ \/ /\ rpc'[p] = "git" /\ step'[p] = step[p] + 1
            /\ step'[p] \in 1..Len(Plan(job[p].cmd))
         \/ rpc'[p] = "off" /\ step'[p] = step[p]
      /\ step[p] = 8 => rpc'[p] = "off"
      /\ \A q \in User : rpc'[q] = "git" => esp' = q
      BY <1>1, Advancing
<1>4. \A q \in User, d \in Dest :
         MakesAt(q, d)' => q = p /\ atDest(d) /\ rpc'[p] = "git" /\ step'[p] = step[p] + 1
                             /\ step[p] \in 4..7
      BY <1>1, <1>2, <1>3 DEF MakesAt
<1>5. RepoShape'
  <2>1. \A d \in Dest : DOMAIN co'[d] = {"there", "names", "head", "mirrored", "filled", "said"}
        BY <1>1, CheckoutMoves DEF RepoInv, RepoShape
  <2> QED BY <1>1, <1>3, <2>1 DEF RepoInv, RepoShape, BaseGrows
<1>6. ReferenceThere'
  <2>1. base.there => base'.there
        BY <1>1 DEF BaseGrows
  <2>2. ASSUME NEW q \in User, rpc'[q] # "off" PROVE WellBegun(q)'
    <3>1. CASE q = p
      <4>1. job[p].cmd = "clone" => base'.there
            BY <1>1, <1>2, <2>1
      <4> QED BY <1>1, <1>2, <1>3, <2>1, <2>2, <3>1, <4>1 DEF WellBegun
    <3>2. CASE q # p
      <4>1. WellBegun(q)
            BY <1>3, <2>2, <3>2 DEF RepoInv, ReferenceThere
      <4> QED BY <1>1, <1>3, <2>1, <3>2, <4>1 DEF WellBegun
    <3> QED BY <3>1, <3>2
  <2>3. \A o \in orphan' : o.git = "submodules" => base'.there
        BY <1>1, <2>1 DEF RepoInv, ReferenceThere
  <2> QED BY <1>1, <2>2, <2>3 DEF ReferenceThere, BaseGrows
<1>7. \A d \in Dest : atDest(d) =>
         /\ step[p] > 4 => MakesAt(p, d)
         /\ step[p] \in 1..8
         /\ step[p] = 4 => \A o \in orphan : ~OrphanAt(o, d)
         /\ step[p] > 4 => \A o \in orphan : ~OrphanAt(o, d)
  <2>1. SUFFICES ASSUME NEW d \in Dest, atDest(d)
                 PROVE  /\ step[p] > 4 => MakesAt(p, d)
                        /\ step[p] = 4 => \A o \in orphan : ~OrphanAt(o, d)
                        /\ step[p] > 4 => \A o \in orphan : ~OrphanAt(o, d)
        BY <1>2
  <2>2. step[p] > 4 => MakesAt(p, d)
        BY <1>1, <2>1 DEF MakesAt
  <2>3. step[p] = 4 => ~co[d].there
        BY <2>1, CheckoutMoves
  <2> QED BY <2>2, <2>3 DEF RepoInv, OneMaker
<1>8. OneMaker'
  <2>1. ASSUME NEW q \in User, NEW d \in Dest, MakesAt(q, d)'
        PROVE  /\ co'[d].there /\ co'[d].said = "nothing"
               /\ \A o \in orphan' : ~OrphanAt(o, d)'
    <3>1. atDest(d) /\ step[p] \in 4..7
          BY <1>4, <2>1
    <3>2. co'[d].there /\ co'[d].said = "nothing"
          BY <3>1, CheckoutMoves
    <3>3. \A o \in orphan' : ~OrphanAt(o, d)
          BY <1>1, <1>7, <3>1
    <3> QED BY <3>2, <3>3 DEF OrphanAt
  <2>2. ASSUME NEW d \in Dest, NEW o \in orphan', OrphanAt(o, d)'
        PROVE  co'[d].there /\ co'[d].said = "nothing"
    <3>1. o \in orphan /\ OrphanAt(o, d) /\ co[d].there /\ co[d].said = "nothing"
          BY <1>1, <2>2 DEF RepoInv, OneMaker, OrphanAt
    <3>2. CASE atDest(d)
      <4>1. step[p] \in 1..3
            BY <1>7, <3>1, <3>2
      <4> QED BY <3>1, <3>2, <4>1, CheckoutMoves
    <3>3. CASE ~atDest(d)
          BY <1>1, <3>1, <3>3
    <3> QED BY <3>2, <3>3
  <2>3. ASSUME NEW d \in Dest, co'[d].said # "nothing" PROVE co'[d].there
    <3>1. CASE atDest(d)
      <4>1. CASE step[p] \in 1..3
            BY <2>3, <3>1, <4>1, CheckoutMoves DEF RepoInv, OneMaker
      <4>2. CASE step[p] \in 4..8
            BY <3>1, <4>2, CheckoutMoves
      <4> QED BY <1>7, <3>1, <4>1, <4>2
    <3>2. CASE ~atDest(d)
          BY <1>1, <2>3, <3>2 DEF RepoInv, OneMaker
    <3> QED BY <3>1, <3>2
  <2> QED BY <1>3, <2>1, <2>2, <2>3 DEF OneMaker
<1>9. MadeSoFar'
  <2>1. SUFFICES ASSUME NEW d \in Dest, NEW q \in User, MakesAt(q, d)'
                 PROVE  /\ step'[q] > 6 => co'[d].head # NoCommit
                        /\ step'[q] > 7 /\ ~warned'[q] => WholeAt(d)'
        BY DEF MadeSoFar
  <2>2. q = p /\ atDest(d) /\ step'[p] = step[p] + 1 /\ step[p] \in 4..7
        BY <1>4, <2>1
  <2>3. step'[q] > 6 => co'[d].head # NoCommit
    <3>1. step[p] = 7 => co[d].head # NoCommit
          BY <1>7, <2>2 DEF RepoInv, MadeSoFar
    <3>2. CASE step[p] = 6
          BY <2>2, <3>2, CheckoutMoves
    <3>3. CASE step[p] = 7
          BY <2>2, <3>1, <3>3, CheckoutMoves
    <3> QED BY <2>2, <3>2, <3>3
  <2>4. ASSUME step'[q] > 7, ~warned'[q] PROVE WholeAt(d)'
    <3>1. step[p] = 7
          BY <2>2, <2>4
    <3>2. co'[d].filled /\ (co'[d].mirrored => co'[d].head \in base.subs)
          BY <2>2, <2>4, <3>1, CheckoutMoves
    <3> QED BY <1>1, <3>2 DEF WholeAt, BaseGrows
  <2> QED BY <2>3, <2>4
<1>10. SilentMeansWhole'
  <2>1. SUFFICES ASSUME NEW d \in Dest, co'[d].said = "done"
                 PROVE  co'[d].head # NoCommit /\ WholeAt(d)'
        BY DEF SilentMeansWhole, WholeAt
  <2>2. CASE co'[d] = co[d]
        BY <1>1, <2>1, <2>2 DEF RepoInv, SilentMeansWhole, WholeAt, BaseGrows
  <2>3. CASE co'[d] # co[d]
    <3>1. atDest(d)
          BY <1>1, <2>3
    <3>2. step[p] = 8
          BY <1>7, <2>1, <2>3, <3>1, CheckoutMoves
    <3>3. MakesAt(p, d) /\ ~warned[p]
          BY <1>7, <2>1, <3>1, <3>2, CheckoutMoves
    <3>4. co[d].head # NoCommit /\ WholeAt(d)
          BY <3>2, <3>3 DEF RepoInv, MadeSoFar
    <3>5. co'[d].head = co[d].head /\ co'[d].mirrored = co[d].mirrored
          /\ co'[d].filled = co[d].filled
          BY <3>1, <3>2, CheckoutMoves
    <3> QED BY <1>1, <3>4, <3>5 DEF WholeAt, BaseGrows
  <2> QED BY <2>2, <2>3
<1> QED BY <1>5, <1>6, <1>8, <1>9, <1>10 DEF RepoInv

\* A git that was left behind ends: it finishes nobody's checkout, and none
\* but the unfinished one it is at.
LEMMA OrphanMoves ==
    ASSUME RepoInv, OrphanEnds
    PROVE  /\ UNCHANGED <<rpc, esp, job, step, warned>>
           /\ orphan' \subseteq orphan
           /\ BaseGrows /\ RepoShape'
           /\ \A d \in Dest :
                 \/ co'[d] = co[d]
                 \/ ~co[d].there /\ co'[d].there /\ co'[d].said = "nothing"
                 \/ /\ co'[d].there /\ co[d].said = "nothing" /\ co'[d].said = "nothing"
                    /\ \E o \in orphan : OrphanAt(o, d)
<1> USE DEF RepoInv, RepoShape
<1>1. PICK o \in orphan :
         /\ IF Able(o.job, o.git) THEN After(o.job, o.git) ELSE UNCHANGED <<base, co>>
         /\ orphan' = orphan \ {o}
         /\ UNCHANGED <<rpc, esp, job, step, warned>>
      BY DEF OrphanEnds
<1>2. CASE UNCHANGED <<base, co>>
      BY <1>1, <1>2 DEF BaseGrows, ReferenceThere
<1>3. CASE Able(o.job, o.git) /\ After(o.job, o.git)
  <2>1. BaseGrows
    <3>1. base' = BaseAfter(o.job, o.git)
          BY <1>3 DEF After
    <3>2. o.git = "submodules" => base.there
          BY DEF ReferenceThere
    <3> HIDE DEF RepoInv
    <3> QED BY <1>3, <3>1, <3>2, ReferenceGrows
  <2>2. DOMAIN co' = Dest
        /\ \A d \in Dest : co'[d] = co[d] \/ (o.job.cmd = "checkout" /\ o.job.dest = d
                                              /\ co'[d] = CheckoutAfter(o.job, o.git))
        BY <1>3 DEF After
  <2>3. ASSUME NEW d \in Dest, co'[d] # co[d]
        PROVE  /\ DOMAIN co'[d] = {"there", "names", "head", "mirrored", "filled", "said"}
               /\ \/ ~co[d].there /\ co'[d].there /\ co'[d].said = "nothing"
                  \/ /\ co'[d].there /\ co[d].said = "nothing" /\ co'[d].said = "nothing"
                     /\ \E x \in orphan : OrphanAt(x, d)
    <3>1. o.job.cmd = "checkout" /\ o.job.dest = d /\ co'[d] = CheckoutAfter(o.job, o.git)
          BY <2>2, <2>3
    <3>2. CASE o.git = "local"
      <4>1. co'[d] = [NoCheckout EXCEPT !.there = TRUE, !.names = base.local] /\ ~co[d].there
            BY <1>3, <3>1, <3>2 DEF CheckoutAfter, Able
      <4> QED BY <4>1 DEF NoCheckout
    <3>3. CASE o.git \in {"mirror", "out", "fill"}
      <4>1. OrphanAt(o, d) /\ co[d].there /\ co[d].said = "nothing"
            BY <3>1, <3>3 DEF OrphanAt, OneMaker
      <4>2. \/ co'[d] = [co[d] EXCEPT !.mirrored = base.subs # {}]
            \/ co'[d] = [co[d] EXCEPT !.head = <<o.job.name, co[d].names[o.job.name]>>,
                                      !.filled = FALSE]
            \/ co'[d] = [co[d] EXCEPT !.filled = TRUE]
            BY <3>1, <3>3 DEF CheckoutAfter
      <4> QED BY <4>1, <4>2
    <3>4. CASE o.git \notin {"local", "mirror", "out", "fill"}
          BY <2>3, <3>1, <3>4 DEF CheckoutAfter
    <3> QED BY <3>2, <3>3, <3>4
  <2>4. RepoShape'
    <3>1. \A d \in Dest :
             DOMAIN co'[d] = {"there", "names", "head", "mirrored", "filled", "said"}
          BY <2>3
    <3> QED BY <1>1, <2>1, <2>2, <3>1 DEF BaseGrows
  <2> QED BY <1>1, <2>1, <2>3, <2>4
<1> QED BY <1>1, <1>2, <1>3

LEMMA OrphanKeeps ==
    ASSUME RepoInv, OrphanEnds
    PROVE  RepoInv'
<1>1. /\ UNCHANGED <<rpc, esp, job, step, warned>>
      /\ orphan' \subseteq orphan
      /\ BaseGrows /\ RepoShape'
      /\ \A d \in Dest :
            \/ co'[d] = co[d]
            \/ ~co[d].there /\ co'[d].there /\ co'[d].said = "nothing"
            \/ /\ co'[d].there /\ co[d].said = "nothing" /\ co'[d].said = "nothing"
               /\ \E o \in orphan : OrphanAt(o, d)
      BY OrphanMoves
<1>2. \A d \in Dest, q \in User : MakesAt(q, d)' => MakesAt(q, d) /\ co'[d] = co[d]
      BY <1>1 DEF MakesAt, RepoInv, OneMaker
<1>3. \A d \in Dest : co'[d].said # "nothing" => co'[d] = co[d]
      BY <1>1
<1>4. ReferenceThere'
      BY <1>1 DEF RepoInv, ReferenceThere, WellBegun, BaseGrows
<1>5. OneMaker'
  <2>1. \A d \in Dest : \A o : OrphanAt(o, d)' <=> OrphanAt(o, d)
        BY DEF OrphanAt
  <2>2. \A d \in Dest, q \in User : MakesAt(q, d)' =>
           /\ co'[d].there /\ co'[d].said = "nothing"
           /\ \A o \in orphan' : ~OrphanAt(o, d)
        BY <1>1, <1>2 DEF RepoInv, OneMaker
  <2>3. \A d \in Dest : \A o \in orphan' :
           OrphanAt(o, d) => co'[d].there /\ co'[d].said = "nothing"
        BY <1>1 DEF RepoInv, OneMaker
  <2>4. \A d \in Dest : co'[d].said # "nothing" => co'[d].there
        BY <1>1, <1>3 DEF RepoInv, OneMaker
  <2>5. \A q \in User : rpc'[q] = "git" => esp' = q
        BY <1>1 DEF RepoInv, OneMaker
  <2> QED BY <2>1, <2>2, <2>3, <2>4, <2>5 DEF OneMaker
<1>6. MadeSoFar'
      BY <1>1, <1>2 DEF RepoInv, MadeSoFar, WholeAt, BaseGrows
<1>7. SilentMeansWhole'
      BY <1>1, <1>3 DEF RepoInv, SilentMeansWhole, BaseGrows
<1> QED BY <1>1, <1>4, <1>5, <1>6, <1>7 DEF RepoInv

LEMMA RemoveKeeps ==
    ASSUME RepoInv, NEW e \in Dest, Remove(e)
    PROVE  RepoInv'
<1> USE DEF RepoInv, RepoShape
<1>1. /\ co' = [co EXCEPT ![e] = NoCheckout]
      /\ UNCHANGED <<base, esp, rpc, job, step, warned, orphan>>
      /\ \A q \in User : ~MakesAt(q, e)
      /\ \A o \in orphan : ~OrphanAt(o, e)
      BY DEF Remove, AtWork, MakesAt, OrphanAt
<1>2. co'[e].said = "nothing" /\ \A d \in Dest \ {e} : co'[d] = co[d]
      BY <1>1 DEF NoCheckout
<1>3. RepoShape'
  <2>1. DOMAIN NoCheckout = {"there", "names", "head", "mirrored", "filled", "said"}
        BY DEF NoCheckout
  <2> QED BY <1>1, <2>1
<1>4. ReferenceThere'
      BY <1>1 DEF ReferenceThere, WellBegun
<1>5. OneMaker'
      BY <1>1, <1>2 DEF OneMaker, MakesAt, OrphanAt
<1>6. MadeSoFar' /\ SilentMeansWhole'
      BY <1>1, <1>2 DEF MadeSoFar, MakesAt, SilentMeansWhole, WholeAt
<1> QED BY <1>3, <1>4, <1>5, <1>6

LEMMA RepoInvStep == RepoInv /\ [RepoNext]_repoVars => RepoInv'
<1> SUFFICES ASSUME RepoInv, [RepoNext]_repoVars PROVE RepoInv'
      OBVIOUS
<1>1. CASE \E p \in User : \E j \in Jobs : Begin(p, j)
      BY <1>1, BeginKeeps
<1>2. CASE \E p \in User : RepoStep(p) \/ Signalled(p) \/ Killed(p)
      BY <1>2, TakeKeeps, EndingKeeps, GitKeeps DEF RepoStep
<1>3. CASE OrphanEnds
      BY <1>3, OrphanKeeps
<1>4. CASE Publishes \/ RemoveLock \/ UNCHANGED repoVars
      BY <1>4, OutsideKeeps
<1>5. CASE \E d \in Dest : Remove(d)
      BY <1>5, RemoveKeeps
<1> QED BY <1>1, <1>2, <1>3, <1>4, <1>5 DEF RepoNext

LEMMA RepoInvariance == RepoSpec => []RepoInv
<1>1. RepoInit => RepoInv
  <2> SUFFICES ASSUME RepoInit PROVE RepoInv
        OBVIOUS
  <2> USE DEF RepoInit
  <2>1. RepoShape
        BY DEF RepoShape, NoBase, NoCheckout
  <2>2. ReferenceThere
        BY DEF ReferenceThere, NoBase
  <2>3. OneMaker /\ MadeSoFar /\ SilentMeansWhole
        BY DEF OneMaker, MadeSoFar, MakesAt, SilentMeansWhole, NoCheckout
  <2> QED BY <2>1, <2>2, <2>3 DEF RepoInv
<1> QED BY <1>1, RepoInvStep, PTL DEF RepoSpec

\* A checkout "ice repo" ended without a warning is whole, and stays so,
\* whatever other commands, gits left behind, kills and new commits do.
THEOREM CheckoutIsWhole == RepoSpec => []SilentMeansWhole
<1>1. RepoInv => SilentMeansWhole
      BY DEF RepoInv
<1> QED BY <1>1, RepoInvariance, PTL

\* No command and no git left behind touches a checkout that has ended.
THEOREM FinishedStays == RepoSpec => FinishedIsLeftAlone
<1>1. ASSUME RepoInv, [RepoNext]_repoVars, NEW d \in Dest, co[d].said # "nothing"
      PROVE  co'[d] = co[d] \/ co'[d] = NoCheckout
  <2>1. co[d].there /\ \A q \in User : ~MakesAt(q, d)
        BY <1>1 DEF RepoInv, OneMaker
  <2>2. CASE \E p \in User : GitDone(p) \/ GitWarns(p)
    <3>1. PICK p \in User : GitDone(p) \/ GitWarns(p)
          BY <2>2
    <3>2. CASE job[p].cmd = "checkout" /\ d = job[p].dest
      <4>1. step[p] \in 1..8 /\ rpc[p] = "git"
            BY <1>1, <3>1, <3>2, GitFrame, AtGit
      <4>2. step[p] \in 1..4
            BY <2>1, <3>2, <4>1 DEF MakesAt
      <4> QED BY <1>1, <2>1, <3>1, <3>2, <4>2, CheckoutMoves
    <3>3. CASE ~(job[p].cmd = "checkout" /\ d = job[p].dest)
          BY <1>1, <3>1, <3>3, GitFrame
    <3> QED BY <3>2, <3>3
  <2>3. CASE OrphanEnds
        BY <1>1, <2>1, <2>3, OrphanMoves
  <2>4. CASE \E e \in Dest : Remove(e)
        BY <1>1, <2>4 DEF Remove, RepoInv, RepoShape
  <2>5. CASE \/ \E p \in User : \/ Take(p) \/ GiveUp(p) \/ GitFails(p) \/ Signalled(p)
                                \/ Killed(p) \/ \E j \in Jobs : Begin(p, j)
             \/ Publishes \/ RemoveLock \/ UNCHANGED repoVars
        BY <2>5 DEF Take, GiveUp, GitFails, Signalled, Killed, Begin, Publishes,
                    RemoveLock, repoVars
  <2> QED BY <1>1, <2>2, <2>3, <2>4, <2>5 DEF RepoNext, RepoStep
<1>2. RepoInv /\ [RepoNext]_repoVars
        => [\A d \in Dest : co[d].said # "nothing" =>
               co'[d] = co[d] \/ co'[d] = NoCheckout]_repoVars
      BY <1>1
<1> QED BY <1>2, RepoInvariance, PTL DEF RepoSpec, FinishedIsLeftAlone
=============================================================================
