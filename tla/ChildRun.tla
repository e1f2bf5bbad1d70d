------------------------------ MODULE ChildRun ------------------------------
(***************************************************************************)
(* A command that runs a child with a spinner (progress.c): the child      *)
(* writes to a pipe, ice copies what it reads to a log file and, while     *)
(* output is shown, to the terminal; Ctrl-v shows and hides it.  The child   *)
(* may leave a process behind that still holds the pipe, and Ctrl-C may    *)
(* end everything.  cmd/log finds the log files again.                     *)
(***************************************************************************)
EXTENDS Naturals, Sequences, SequencesExt, FiniteSets

CONSTANTS
    Ways,        \* how ice was started: terminal, verbose, pipe, wrapped
    Pids,        \* its process ids, as sequences of digits
    RingSize,    \* bytes kept for a user who asks for them (PROGRESS_PEEK_BYTES)
    PipeSize,    \* bytes the pipe holds
    ReadSize,    \* bytes read at once
    MaxBytes,    \* bytes the child writes
    MaxPresses,  \* times Ctrl-v is pressed
    MaxRunsLogged

ASSUME SizesAssumption == {RingSize, PipeSize, ReadSize} \subseteq Nat \ {0}
ASSUME PidsAssumption == Pids \subseteq Seq(Nat)

VARIABLES
    mode, pid, step,
    logs,      \* the log directory, oldest first
    written,   \* what was written to the pipe so far
    pipe,
    holders,   \* who holds its writing end: the child, one it left behind
    rc,        \* the child's exit status, or none
    peek,      \* the ring: buf, pos, len
    verbose, raw,
    ctrlV,   \* Ctrl-v pressed: in all, and not yet read
    showing,   \* bytes shown since output was last asked for
    unshown,   \* bytes read until then
    lastRow,   \* the terminal's last row: fresh, spinner or text
    dumped     \* the log was shown after a failure

runVars == <<mode, pid, step, logs, written, pipe, holders, rc, peek, verbose, raw, ctrlV,
             showing, unshown, lastRow, dumped>>
screenVars == <<verbose, raw, ctrlV, showing, unshown, lastRow, dumped>>

None == -1
NoPeek == [buf |-> [i \in 0..RingSize - 1 |-> 0], pos |-> 0, len |-> 0]

Interactive == mode \in {"terminal", "verbose"}
Nested == mode = "wrapped"
Log == Last(logs)
ToLog(field, v) == [logs EXCEPT ![Len(logs)][field] = v]

-----------------------------------------------------------------------------
(* The ring of the latest bytes.                                            *)

PeekAppend(r, bytes) ==
    LET n == Len(bytes)
    IN  IF n >= RingSize
        THEN [buf |-> [i \in 0..RingSize - 1 |-> bytes[n - RingSize + i + 1]], pos |-> 0, len |-> RingSize]
        ELSE [buf |-> [i \in 0..RingSize - 1 |->
                          LET k == (i + RingSize - r.pos) % RingSize
                          IN  IF k < n THEN bytes[k + 1] ELSE r.buf[i]],
              pos |-> (r.pos + n) % RingSize,
              len |-> IF r.len + n > RingSize THEN RingSize ELSE r.len + n]

\* Mutant: a ring that is full is dumped from its start.
PeekDumpFlat(r) == [i \in 1..r.len |-> r.buf[i - 1]]
PeekDump(r) ==
    LET from == IF r.len < RingSize THEN 0 ELSE r.pos
    IN  [i \in 1..r.len |-> r.buf[(from + i - 1) % RingSize]]

-----------------------------------------------------------------------------
RunInit ==
    /\ mode \in Ways /\ pid \in Pids /\ step = "start"
    /\ logs = <<>> /\ written = <<>> /\ pipe = <<>> /\ holders = {} /\ rc = None
    /\ peek = NoPeek /\ verbose = FALSE /\ raw = FALSE /\ ctrlV = [all |-> 0, unread |-> 0]
    /\ showing = <<>> /\ unshown = 0 /\ lastRow = "fresh" /\ dumped = FALSE

\* The log is opened and its header reserved, the child started.
Start ==
    /\ step = "start" /\ step' = "keys"
    /\ logs' = IF Nested THEN logs ELSE Append(logs, [pid |-> pid, header |-> None, body |-> <<>>])
    /\ written' = <<>> /\ pipe' = <<>> /\ holders' = {"child"} /\ rc' = None /\ peek' = NoPeek
    /\ verbose' = (mode # "terminal") /\ raw' = (mode = "terminal")
    /\ ctrlV' = [ctrlV EXCEPT !.unread = 0]
    /\ showing' = <<>> /\ unshown' = 0 /\ dumped' = FALSE
    /\ lastRow' = IF mode = "terminal" THEN "spinner" ELSE "fresh"
    /\ UNCHANGED <<mode, pid>>

\* The log file, the pipe or the process cannot be had.
StartFails ==
    /\ step = "start" /\ step' = "failed"
    /\ UNCHANGED <<mode, pid, logs, written, pipe, holders, rc, peek, screenVars>>

\* The user asks for the output: what was read last, and then all that follows.
Show ==
    /\ showing' = PeekDump(peek) /\ unshown' = Len(Log.body) - peek.len /\ lastRow' = "text"

Hide == showing' = <<>> /\ lastRow' = "spinner" /\ UNCHANGED unshown

\* Keys that are waiting are read before the pipe is, each one shows or hides: what
\* the last one does is seen.
ReadKeys ==
    /\ step = "keys" /\ step' = "read"
    /\ ctrlV' = [ctrlV EXCEPT !.unread = 0]
    /\ IF raw /\ ctrlV.unread > 0
       THEN /\ verbose' = (verbose # (ctrlV.unread % 2 = 1))
            /\ IF verbose' THEN Show ELSE Hide
       ELSE UNCHANGED <<verbose, showing, unshown, lastRow>>
    /\ UNCHANGED <<mode, pid, logs, written, pipe, holders, rc, peek, raw, dumped>>

\* What the pipe has, at most ReadSize bytes, goes to the log, the ring and, when
\* it is shown, to the terminal.
ReadPipe ==
    LET n == IF Len(pipe) < ReadSize THEN Len(pipe) ELSE ReadSize
        bytes == SubSeq(pipe, 1, n)
    IN  /\ step = "read" /\ pipe # <<>> /\ step' = "keys"
        /\ pipe' = SubSeq(pipe, n + 1, Len(pipe))
        /\ logs' = IF Nested THEN logs ELSE ToLog("body", Log.body \o bytes)
        /\ peek' = IF raw THEN PeekAppend(peek, bytes) ELSE peek
        /\ showing' = IF verbose THEN showing \o bytes ELSE showing
        /\ lastRow' = IF verbose THEN "text" ELSE lastRow
        /\ UNCHANGED <<mode, pid, written, holders, rc, verbose, raw, ctrlV, unshown, dumped>>

\* Nothing came within the poll interval: the spinner turns.
Tick ==
    /\ step = "read" /\ pipe = <<>> /\ holders # {} /\ step' = "keys"
    /\ lastRow' = IF ~verbose /\ Interactive THEN "spinner" ELSE lastRow
    /\ UNCHANGED <<mode, pid, logs, written, pipe, holders, rc, peek, verbose, raw, ctrlV,
                   showing, unshown, dumped>>

\* Mutant: reading ends with the child, whoever else still writes.
EndOfChild ==
    /\ step = "read" /\ pipe = <<>> /\ rc # None /\ step' = "wait"
    /\ raw' = FALSE
    /\ UNCHANGED <<mode, pid, logs, written, pipe, holders, rc, peek, verbose, ctrlV, showing,
                   unshown, lastRow, dumped>>

\* Reading ends when the last holder has closed the pipe.
EndOfPipe ==
    /\ step = "read" /\ pipe = <<>> /\ holders = {} /\ step' = "wait"
    /\ raw' = FALSE
    /\ UNCHANGED <<mode, pid, logs, written, pipe, holders, rc, peek, verbose, ctrlV, showing,
                   unshown, lastRow, dumped>>

\* The child is waited for, the header written, and a failure explained.
Finish ==
    /\ step = "wait" /\ rc # None /\ step' = "done"
    /\ logs' = IF Nested THEN logs ELSE ToLog("header", rc)
    /\ dumped' = (rc # 0 /\ ~Nested /\ ~verbose)
    /\ lastRow' = "fresh"
    /\ UNCHANGED <<mode, pid, written, pipe, holders, rc, peek, verbose, raw, ctrlV, showing, unshown>>

\* The command may run another child: in another second, so under another name.
Again ==
    /\ step = "done" /\ Len(logs) < MaxRunsLogged /\ ~Nested
    /\ step' = "start" /\ pid' \in Pids
    /\ UNCHANGED <<mode, logs, written, pipe, holders, rc, peek, screenVars>>

-----------------------------------------------------------------------------
(* The child, the process it leaves behind, and the user.                   *)

Write ==
    /\ holders # {} /\ Len(pipe) < PipeSize /\ Len(written) < MaxBytes
    /\ \E b \in {Len(written) + 1} : written' = Append(written, b) /\ pipe' = Append(pipe, b)
    /\ UNCHANGED <<mode, pid, step, logs, holders, rc, peek, screenVars>>

\* The child may leave another process with its output, and may close its own.
Leave ==
    /\ rc = None /\ holders = {"child"}
    /\ holders' \in {{}, {"left"}, {"child", "left"}}
    /\ UNCHANGED <<mode, pid, step, logs, written, pipe, rc, peek, screenVars>>

Exit ==
    /\ rc = None /\ step \in {"keys", "read", "wait"}
    /\ rc' \in {0, 1} /\ holders' = holders \ {"child"}
    /\ UNCHANGED <<mode, pid, step, logs, written, pipe, peek, screenVars>>

LeftExits ==
    /\ "left" \in holders /\ holders' = holders \ {"left"}
    /\ UNCHANGED <<mode, pid, step, logs, written, pipe, rc, peek, screenVars>>

PressCtrlV ==
    /\ raw /\ ctrlV.all < MaxPresses
    /\ ctrlV' = [all |-> ctrlV.all + 1, unread |-> ctrlV.unread + 1]
    /\ UNCHANGED <<mode, pid, step, logs, written, pipe, holders, rc, peek, verbose, raw, showing,
                   unshown, lastRow, dumped>>

\* Ctrl-C: ice and the child end where they are, with what was not yet flushed
\* to the log.
Interrupt ==
    /\ step \in {"keys", "read", "wait"} /\ step' = "killed"
    /\ IF Nested THEN logs' = logs
       ELSE \E n \in 0..Len(Log.body) : logs' = ToLog("body", SubSeq(Log.body, 1, n))
    /\ UNCHANGED <<mode, pid, written, pipe, holders, rc, peek, screenVars>>

Ice == ReadKeys \/ ReadPipe \/ Tick \/ EndOfPipe \/ Finish
Others == Write \/ Leave \/ Exit \/ LeftExits \/ PressCtrlV \/ Interrupt
RunNext == Start \/ StartFails \/ Again \/ Ice \/ Others

RunSpec == RunInit /\ [][RunNext]_runVars

-----------------------------------------------------------------------------
(* cmd/log: the latest log, the n-th, or the one with a name.               *)

Nth(n) == IF n \in 1..Len(logs) THEN <<logs[Len(logs) - n + 1]>> ELSE <<>>

\* The part of a file's name that a failure tells the user to ask for ends in the
\* process id: it is contained in every name whose id begins with it.
NamedAfter(p) == {k \in 1..Len(logs) : IsPrefix(p, logs[k].pid)}
ByName(p) ==
    IF \E k \in 1..Len(logs) : NamedAfter(p) = {k}
    THEN <<logs[CHOOSE k \in 1..Len(logs) : NamedAfter(p) = {k}]>> ELSE <<>>

-----------------------------------------------------------------------------
RunTypeOK ==
    /\ mode \in Ways /\ pid \in Pids
    /\ step \in {"start", "failed", "keys", "read", "wait", "done", "killed"}
    /\ Len(pipe) <= PipeSize /\ holders \subseteq {"child", "left"} /\ rc \in {None, 0, 1}
    /\ peek.pos \in 0..RingSize - 1 /\ peek.len \in 0..RingSize
    /\ lastRow \in {"fresh", "spinner", "text"} /\ raw \in BOOLEAN /\ verbose \in BOOLEAN

\* What was logged is what the child, and what it left, wrote: all of it once the
\* run is over, even what was written after the child's own end.  Only a run that
\* was not interrupted has a header, with the child's status, and the name a failed
\* run tells the user never shows him another run's log.
LogIsWhole ==
    /\ step \notin {"start", "failed"} /\ ~Nested =>
          /\ step # "killed" => Log.body \o pipe = written
          /\ IsPrefix(Log.body, written)
          /\ step = "done" => Log.body = written /\ Log.header = rc
          /\ step # "done" => Log.header = None
          /\ step = "done" /\ ByName(pid) # <<>> => ByName(pid) = Nth(1)
    /\ step = "done" /\ mode # "terminal" => showing = written

\* Output that is shown has no gap: from the byte shown first, at most RingSize
\* before the key was pressed, to the last one that was read.  The spinner is
\* drawn where no output is, and output is never hidden unless a spinner turns.
ShownWithoutGap ==
    step \in {"keys", "read", "wait"} /\ mode = "terminal" =>
        /\ verbose => showing = SubSeq(Log.body, unshown + 1, Len(Log.body))
        /\ verbose <=> lastRow # "spinner"
=============================================================================
