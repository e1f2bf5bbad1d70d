----------------------------- MODULE ToolStore -----------------------------
(***************************************************************************)
(* "ice tools install" (src/cmd/tools/install/install.c) and the tools it  *)
(* keeps in ~/.ice: an archive is downloaded to dist/, verified against    *)
(* the digest of the manifest, and extracted file by file into             *)
(* tools/<name>/<version>/.  One run at a time.                            *)
(*                                                                         *)
(* A file is Absent, Cut (it has been opened and not been written to its   *)
(* end), or has the content of what came: the archive the manifest means,  *)
(* Good, or another, Wrong.                                                *)
(***************************************************************************)
EXTENDS Integers, Sequences

CONSTANTS
    Manifest,       \* the tools of tools.json that are to be installed, in order
    Entries,        \* how many files a tool has
    MaxToolFaults   \* bound on failures, interruptions and wrong downloads

ASSUME ManifestAssumption == Manifest \in Seq(STRING) /\ Manifest # <<>>
ASSUME EntriesAssumption == Entries \in Nat \ {0}
ASSUME MaxToolFaultsAssumption == MaxToolFaults \in Nat

Absent == "absent"
Cut == "cut"
Good == "good"
Wrong == "wrong"
Tools == {Manifest[k] : k \in 1..Len(Manifest)}

VARIABLES
    dist,        \* dist[t]: the archive in dist/
    made,        \* the tools whose directory is there
    dest,        \* dest[t]: the files in it
    ipc,         \* where install_from_manifest is
    force,       \* --force
    which,       \* the tool it is at
    entry,       \* the file it is at
    failed,      \* how many tools failed
    toolFaults

toolDisk == <<dist, made, dest>>
toolVars == <<toolDisk, ipc, force, which, entry, failed, toolFaults>>

Tool == Manifest[which]
Files == 1..Entries
NoFiles == [f \in Files |-> Absent]
WholeTool(t) == t \in made /\ dest[t] = [f \in Files |-> Good]

ToolInit ==
    /\ dist = [t \in Tools |-> Absent]
    /\ made = {} /\ dest = [t \in Tools |-> NoFiles]
    /\ ipc = "off" /\ force = FALSE
    /\ which = 1 /\ entry = 1 /\ failed = 0 /\ toolFaults = 0

ToolGoes(from, to) == ipc = from /\ ipc' = to
ToolFault == toolFaults < MaxToolFaults /\ toolFaults' = toolFaults + 1

Install ==
    /\ ipc \in {"off", "ok", "failed"} /\ ipc' = "tool"
    /\ force' \in BOOLEAN
    /\ which' = 1 /\ entry' = 1 /\ failed' = 0
    /\ UNCHANGED <<toolDisk, toolFaults>>

\* Mutant: --force is not looked at.
SkipAlways ==
    /\ ToolGoes("tool", "next")
    /\ Tool \in made
    /\ UNCHANGED <<toolDisk, force, which, entry, failed, toolFaults>>

\* "Already installed?": the directory is there.
SkipInstalled ==
    /\ ToolGoes("tool", "next")
    /\ ~force /\ Tool \in made
    /\ UNCHANGED <<toolDisk, force, which, entry, failed, toolFaults>>

\* http_download opens the file, which empties it, before it asks.
OpenArchive ==
    /\ ToolGoes("tool", "download")
    /\ force \/ Tool \notin made
    /\ dist' = [dist EXCEPT ![Tool] = Cut]
    /\ UNCHANGED <<made, dest, force, which, entry, failed, toolFaults>>

Download ==
    /\ ToolGoes("download", "verify")
    /\ \/ dist' = [dist EXCEPT ![Tool] = Good] /\ UNCHANGED toolFaults
       \/ dist' = [dist EXCEPT ![Tool] = Wrong] /\ ToolFault
    /\ UNCHANGED <<made, dest, force, which, entry, failed>>

Verify ==
    /\ ToolGoes("verify", "mkdir")
    /\ dist[Tool] = Good
    /\ UNCHANGED <<toolDisk, force, which, entry, failed, toolFaults>>

MakeDest ==
    /\ ToolGoes("mkdir", "open")
    /\ made' = made \cup {Tool}
    /\ entry' = 1
    /\ UNCHANGED <<dist, dest, force, which, failed, toolFaults>>

\* extract_regular empties the file, and then writes it.
OpenEntry ==
    /\ ToolGoes("open", "write")
    /\ entry <= Entries
    /\ dest' = [dest EXCEPT ![Tool][entry] = Cut]
    /\ UNCHANGED <<dist, made, force, which, entry, failed, toolFaults>>

WriteEntry ==
    /\ ToolGoes("write", "open")
    /\ dest' = [dest EXCEPT ![Tool][entry] = dist[Tool]]
    /\ entry' = entry + 1
    /\ UNCHANGED <<dist, made, force, which, failed, toolFaults>>

Extracted ==
    /\ ToolGoes("open", "next")
    /\ entry > Entries
    /\ UNCHANGED <<toolDisk, force, which, entry, failed, toolFaults>>

\* The archive goes when the tool cannot be verified or extracted, the
\* directory stays as it is; the next tool is installed all the same.
ToolFails ==
    /\ ipc \in {"download", "verify", "mkdir", "open", "write"} /\ ipc' = "next"
    /\ IF ipc = "verify" /\ dist[Tool] # Good THEN UNCHANGED toolFaults ELSE ToolFault
    /\ dist' = [dist EXCEPT ![Tool] = IF ipc = "download" THEN @ ELSE Absent]
    /\ failed' = failed + 1
    /\ UNCHANGED <<made, dest, force, which, entry>>

NextTool ==
    /\ ipc = "next"
    /\ IF which < Len(Manifest)
         THEN ipc' = "tool" /\ which' = which + 1
         ELSE ipc' = (IF failed = 0 THEN "ok" ELSE "failed") /\ UNCHANGED which
    /\ UNCHANGED <<toolDisk, force, entry, failed, toolFaults>>

\* A signal or a crash, anywhere.
InstallInterrupted ==
    /\ ipc \notin {"off", "ok", "failed"} /\ ipc' = "off"
    /\ ToolFault
    /\ UNCHANGED <<toolDisk, force, which, entry, failed>>

InstallStep ==
    \/ SkipInstalled \/ OpenArchive \/ Download \/ Verify \/ MakeDest
    \/ OpenEntry \/ WriteEntry \/ Extracted \/ ToolFails \/ NextTool

ToolNext == Install \/ InstallStep \/ InstallInterrupted

ToolSpec == ToolInit /\ [][ToolNext]_toolVars

-----------------------------------------------------------------------------
(* Properties *)

ToolTypeOK ==
    /\ dist \in [Tools -> {Absent, Cut, Good, Wrong}]
    /\ made \subseteq Tools /\ dest \in [Tools -> [Files -> {Absent, Cut, Good, Wrong}]]
    /\ ipc \in {"off", "tool", "download", "verify", "mkdir", "open", "write",
                "next", "ok", "failed"}
    /\ force \in BOOLEAN
    /\ which \in 1..Len(Manifest) /\ entry \in 1..(Entries + 1)
    /\ failed \in 0..which /\ toolFaults \in 0..MaxToolFaults

\* Whatever earlier runs left in dist/ and tools/, a run with --force that
\* reports success leaves every tool of the manifest whole (install_tool).
ForcedIsWhole == ipc = "ok" /\ force => \A t \in Tools : WholeTool(t)

=============================================================================
