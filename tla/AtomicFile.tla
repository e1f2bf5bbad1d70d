----------------------------- MODULE AtomicFile -----------------------------
(***************************************************************************)
(* What the comment in config_write_file (src/config.c) promises of a      *)
(* config file: one actor writes at a time, and a reader sees the whole    *)
(* old document or the whole new one.                                      *)
(***************************************************************************)
CONSTANTS Writer, Initial

VARIABLES writers, \* the actors writing now
          content  \* whose document the file holds

Init == writers = {} /\ content = Initial

Begin(p) == writers = {} /\ writers' = {p} /\ UNCHANGED content

\* The document becomes visible all at once, when its writer is done.
Commit(p) == writers = {p} /\ writers' = {} /\ content' = p

\* A write that fails, or a writer that dies, leaves the file as it was.
Abort(p) == writers = {p} /\ writers' = {} /\ UNCHANGED content

Next == \E p \in Writer : Begin(p) \/ Commit(p) \/ Abort(p)

Spec == Init /\ [][Next]_<<writers, content>>
=============================================================================
