----------------------------- MODULE SelfUpdate -----------------------------
(***************************************************************************)
(* "ice update" (src/cmd/update/update.c): the running executable replaces *)
(* itself by that of a release, which is downloaded to and extracted in    *)
(* ~/.ice/update.  The lock is beside the executable; the directory is     *)
(* shared by all executables of one home.                                  *)
(*                                                                         *)
(* A file is Parts parts long.  A path names what was created under it     *)
(* last: who did, and how many parts are there.                            *)
(***************************************************************************)
EXTENDS Integers

CONSTANTS
    Updater,         \* processes that run "ice update"
    Exe,             \* installed executables
    Parts,
    MaxUpdateFaults  \* bound on failures and interruptions

ASSUME PartsAssumption == Parts \in Nat \ {0}
ASSUME MaxUpdateFaultsAssumption == MaxUpdateFaults \in Nat

Nobody == "nobody"
ASSUME NobodyAssumption == Nobody \notin Updater
OldExe == [new |-> FALSE, parts |-> Parts, runs |-> TRUE]
NoFile == [by |-> Nobody, parts |-> -1]
Path_ == [by : Updater \cup {Nobody}, parts : -1..Parts]

VARIABLES
    from,     \* from[p]: the executable p was started from
    exe,      \* exe[e]: the installed executable
    tmp,      \* tmp[e]: the parts of <exe>.tmp
    tarball,  \* the release in ~/.ice/update
    binary,   \* the executable extracted from it
    ulock,    \* ulock[e]: who holds <exe>.update.lock
    upc,      \* where cmd_update is
    got,      \* parts this process has downloaded, extracted or read
    updateFaults

shared == <<tarball, binary>>
updateVars == <<from, exe, tmp, shared, ulock, upc, got, updateFaults>>

UpdateInit ==
    /\ from \in [Updater -> Exe]
    /\ exe = [e \in Exe |-> OldExe]
    /\ tmp = [e \in Exe |-> 0]
    /\ tarball = NoFile /\ binary = NoFile
    /\ ulock = [e \in Exe |-> Nobody]
    /\ upc = [p \in Updater |-> "off"]
    /\ got = [p \in Updater |-> 0]
    /\ updateFaults = 0

Mine(p) == from[p]
Goes(p, here, there) == upc[p] = here /\ upc' = [upc EXCEPT ![p] = there]
Got(p, n) == got' = [got EXCEPT ![p] = n]
UpdateFault == updateFaults < MaxUpdateFaults /\ updateFaults' = updateFaults + 1

\* Only what can be run updates itself; a new executable is up to date.
StartUpdate(p) ==
    /\ Goes(p, "off", "lock")
    /\ exe[Mine(p)].runs /\ ~exe[Mine(p)].new
    /\ UNCHANGED <<from, exe, tmp, shared, ulock, got, updateFaults>>

\* The timeout is 0: "another 'ice update' is running".
LockExe(p) ==
    /\ IF ulock[Mine(p)] = Nobody
         THEN /\ Goes(p, "lock", "wipe")
              /\ ulock' = [ulock EXCEPT ![Mine(p)] = p]
         ELSE Goes(p, "lock", "off") /\ UNCHANGED ulock
    /\ UNCHANGED <<from, exe, tmp, shared, got, updateFaults>>

Wipe(p) ==
    /\ Goes(p, "wipe", "open")
    /\ tarball' = NoFile /\ binary' = NoFile
    /\ UNCHANGED <<from, exe, tmp, ulock, got, updateFaults>>

\* Both downloading and extracting open a file and write it part by part;
\* what is written to a file that was removed or replaced is not seen.
Creates(p, here, there, new) ==
    /\ Goes(p, here, there)
    /\ new = [by |-> p, parts |-> 0]
    /\ Got(p, 0)
Fills(p, here, path, new) ==
    /\ Goes(p, here, here) /\ got[p] < Parts
    /\ Got(p, got[p] + 1)
    /\ new = IF path.by = p THEN [path EXCEPT !.parts = got[p] + 1] ELSE path

OpenRelease(p) ==
    /\ Creates(p, "open", "download", tarball')
    /\ UNCHANGED <<from, exe, tmp, binary, ulock, updateFaults>>

FillRelease(p) ==
    /\ Fills(p, "download", tarball, tarball')
    /\ UNCHANGED <<from, exe, tmp, binary, ulock, updateFaults>>

\* tar_extract reads the tarball at its path; an incomplete one is an error.
OpenBinary(p) ==
    /\ got[p] = Parts /\ tarball.parts = Parts
    /\ Creates(p, "download", "extract", binary')
    /\ UNCHANGED <<from, exe, tmp, tarball, ulock, updateFaults>>

FillBinary(p) ==
    /\ Fills(p, "extract", binary, binary')
    /\ UNCHANGED <<from, exe, tmp, tarball, ulock, updateFaults>>

\* sbuf_read_file: whatever is at the path is the executable.
ReadBinary(p) ==
    /\ got[p] = Parts /\ binary # NoFile
    /\ Goes(p, "extract", "write")
    /\ Got(p, binary.parts)
    /\ tmp' = [tmp EXCEPT ![Mine(p)] = 0]
    /\ UNCHANGED <<from, exe, shared, ulock, updateFaults>>

WriteTmp(p) ==
    /\ Goes(p, "write", "write")
    /\ tmp[Mine(p)] < got[p]
    /\ tmp' = [tmp EXCEPT ![Mine(p)] = @ + 1]
    /\ UNCHANGED <<from, exe, shared, ulock, got, updateFaults>>

\* Mutant: the rename does not wait for the file to be written.
RenameEarly(p) ==
    /\ Goes(p, "write", "chmod")
    /\ exe' = [exe EXCEPT ![Mine(p)] =
                 [new |-> TRUE, parts |-> tmp[Mine(p)], runs |-> FALSE]]
    /\ UNCHANGED <<from, tmp, shared, ulock, got, updateFaults>>

\* The file has the mode of any new file.
RenameTmp(p) ==
    /\ Goes(p, "write", "chmod")
    /\ tmp[Mine(p)] = got[p]
    /\ exe' = [exe EXCEPT ![Mine(p)] =
                 [new |-> TRUE, parts |-> got[p], runs |-> FALSE]]
    /\ UNCHANGED <<from, tmp, shared, ulock, got, updateFaults>>

Chmod(p) ==
    /\ Goes(p, "chmod", "clean")
    /\ exe' = [exe EXCEPT ![Mine(p)].runs = TRUE]
    /\ UNCHANGED <<from, tmp, shared, ulock, got, updateFaults>>

CleanUp(p) ==
    /\ Goes(p, "clean", "off")
    /\ tarball' = NoFile /\ binary' = NoFile
    /\ ulock' = [ulock EXCEPT ![Mine(p)] = Nobody]
    /\ UNCHANGED <<from, exe, tmp, got, updateFaults>>

\* What a process needs has been taken away: die().
Robbed(p) ==
    /\ got[p] = Parts
    /\ \/ upc[p] = "download" /\ tarball.parts # Parts
       \/ upc[p] = "extract" /\ binary = NoFile
Failing(p) == upc[p] \notin {"off", "lock"} /\ UpdateFault

\* die(), or a signal, anywhere.
UpdateDies(p) ==
    /\ \/ Robbed(p) /\ UNCHANGED updateFaults
       \/ Failing(p)
    /\ upc' = [upc EXCEPT ![p] = "off"]
    /\ ulock' = [ulock EXCEPT ![Mine(p)] = Nobody]
    /\ UNCHANGED <<from, exe, tmp, shared, got>>

UpdateNext ==
    \E p \in Updater :
       \/ StartUpdate(p) \/ LockExe(p) \/ Wipe(p) \/ OpenRelease(p) \/ FillRelease(p)
       \/ OpenBinary(p) \/ FillBinary(p) \/ ReadBinary(p) \/ WriteTmp(p)
       \/ RenameTmp(p) \/ Chmod(p) \/ CleanUp(p) \/ UpdateDies(p)

UpdateSpec == UpdateInit /\ [][UpdateNext]_updateVars

-----------------------------------------------------------------------------
(* Properties *)

UpdateTypeOK ==
    /\ from \in [Updater -> Exe]
    /\ exe \in [Exe -> [new : BOOLEAN, parts : 0..Parts, runs : BOOLEAN]]
    /\ tmp \in [Exe -> 0..Parts]
    /\ tarball \in Path_ /\ binary \in Path_
    /\ ulock \in [Exe -> Updater \cup {Nobody}]
    /\ upc \in [Updater -> {"off", "lock", "wipe", "open", "download", "extract",
                            "write", "chmod", "clean"}]
    /\ got \in [Updater -> 0..Parts]
    /\ updateFaults \in 0..MaxUpdateFaults

\* While all updates are of one executable, it is never truncated: not by one
\* that is interrupted, nor by what it left behind, nor by a second update.
OneExeStaysWhole ==
    (\A p, q \in Updater : from[p] = from[q]) =>
       \A e \in Exe : exe[e].parts = Parts

\* update.c: "The replacement is atomic".  Every executable is a whole one.
ReplacementIsWhole == \A e \in Exe : exe[e].parts = Parts
=============================================================================
