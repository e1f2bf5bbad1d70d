------------------------------ MODULE Console ------------------------------
(* The programs that show panes: "ice monitor" (monitor.c, one pane on a    *)
(* serial port), "ice qemu" (run_tui of qemu.c, one pane on the emulator)   *)
(* and "ice qemu --debug" (run_debug, gdb above the emulator; openocd.c has *)
(* the same loop).  Each reads its sources and the keyboard in turn, with   *)
(* "^T" as the prefix of its own commands.  Drawing is left out.            *)
EXTENDS LogPane

CONSTANTS
    Fronts,          \* of "screen" (a terminal fed directly), "monitor", "qemu", "debug"
    Chunks,          \* what one read may bring, for each front
    Keys,            \* keys the user may press
    Patterns,        \* what the user may type into the search prompt
    Sizes,           \* rows and columns a pane may be given
    Named,           \* of Keys, those that are no single byte
    MaxReads, MaxKeys, MaxResizes   \* bounds, for each front

Byte == 0..255

ASSUME ConsoleInputs ==
    \A f \in Fronts : Chunks[f] \subseteq Seq(Byte) /\ Sizes[f] \subseteq Int \X Int

VARIABLES
    front, pane, owner,
    focus, prefix, help, frozenForHelp,
    fed, typed, sent, ended, reads, presses, resizes

vars == <<front, pane, owner, focus, prefix, help, frozenForHelp,
          fed, typed, sent, ended, reads, presses, resizes>>
ui == <<owner, focus, prefix, help, frozenForHelp>>

Panes == {"gdb", "uart"}
Shown == IF front = "debug" THEN Panes ELSE {"uart"}
Modal == {"SEARCH", "HELP"}
Wheel == {"WHEEL_UP", "WHEEL_DOWN"}

\* What was written in plain text since the start, as long as that is all:
\* the terminal was not resized and no control sequence came.  "gone" are the
\* rows of it, counted from the first, that a program threw away.
Plain(chunk) == \A i \in DOMAIN chunk :
    chunk[i] \in 33..126 \/ (chunk[i] = 13 /\ i < Len(chunk) /\ chunk[i + 1] = 10)
                         \/ (chunk[i] = 10 /\ i > 1 /\ chunk[i - 1] = 13)
Written == [plain |-> TRUE, bytes |-> <<>>, gone |-> {}]
Untold == [Written EXCEPT !.plain = FALSE]

Init ==
    /\ front \in Fronts
    /\ \E size \in Sizes[front] :
            pane = [p \in Panes |-> NewPane(size[1], size[2])]
    /\ owner = "none" /\ focus = (IF front = "debug" THEN "gdb" ELSE "uart")
    /\ prefix = FALSE /\ help = FALSE /\ frozenForHelp = {}
    /\ fed = <<>> /\ typed = [p \in Panes |-> Written]
    /\ sent = "none" /\ ended = "no"
    /\ reads = 0 /\ presses = 0 /\ resizes = 0

\* The program is one thread: a yank under way keeps it from everything else.
Running == ended = "no" /\ \A p \in Panes : pane[p].yank = Idle

---------------------------------------------------------------------------
\* One read of a pane's source.  Reports go back at once.  Rows that scroll
\* off while the view is frozen are thrown away by the monitor, and stay
\* queued in the others.
Read(p, chunk) ==
    LET P == [pane[p] EXCEPT !.vt = DrainReply(Input(@, chunk))]
        drops == front = "monitor" /\ Frozen(P)
    IN /\ Running /\ p \in Shown /\ reads < MaxReads[front]
       /\ reads' = reads + 1 /\ fed' = chunk /\ sent' = "none"
       /\ pane' = [pane EXCEPT ![p] =
            CASE drops -> [P EXCEPT !.vt = DrainScrolled(@)]
              [] Frozen(P) /\ ~drops -> P
              [] ~Frozen(P) -> PullFromVt100(P)]
       /\ typed' = [typed EXCEPT ![p] =
            IF @.plain /\ Plain(chunk)
            THEN [plain |-> TRUE, bytes |-> @.bytes \o chunk,
                  gone |-> IF drops
                    THEN @.gone \cup {pane[p].total + Cardinality(@.gone) + i :
                                        i \in 1..Len(P.vt.scrolled)}
                    ELSE @.gone]
            ELSE Untold]
       /\ UNCHANGED <<front, ui, ended, presses, resizes>>

\* The terminal changed its size: the panes' grids start blank.
Resized(rows, cols) ==
    /\ Running /\ resizes < MaxResizes[front]
    /\ resizes' = resizes + 1 /\ fed' = <<>> /\ sent' = "none"
    /\ pane' = [p \in Panes |-> [pane[p] EXCEPT !.vt = Resize(@, rows, cols)]]
    /\ typed' = [p \in Panes |-> Untold]
    /\ UNCHANGED <<front, ui, ended, reads, presses>>

---------------------------------------------------------------------------
(* Keys.                                                                    *)

Pressed(key) ==
    /\ Running /\ front # "screen" /\ presses < MaxKeys[front] /\ key \in Keys
    /\ presses' = presses + 1 /\ fed' = <<>>
    /\ UNCHANGED <<front, typed, reads, resizes>>

Free(p) == owner \in {"none", p}

\* The pane after a key, and who holds the modal slot then.
Shows(p, P) ==
    /\ pane' = [pane EXCEPT ![p] = P]
    /\ owner' = CASE P.mode \in Modal -> p
                  [] P.mode \notin Modal -> IF owner = p THEN "none" ELSE owner

Plainly(key) == key # "^]" /\ ~prefix /\ ~help

\* A key in normal mode: to the pane, and what it does not use to the program.
WidgetKey(key, pat, p) ==
    LET r == OnEvent(pane[p], key, pat, Free(p))
    IN /\ Pressed(key) /\ Plainly(key) /\ key \notin {"^T", "CLICK"}
       /\ p \in Shown /\ (key \notin Wheel => p = focus)
       /\ Shows(p, r.pane)
       /\ sent' = IF r.used THEN "none" ELSE focus
       /\ UNCHANGED <<focus, prefix, help, frozenForHelp, ended>>

PrefixKey ==
    /\ Pressed("^T") /\ Plainly("^T")
    /\ prefix' = TRUE /\ sent' = "none"
    /\ UNCHANGED <<pane, owner, focus, help, frozenForHelp, ended>>

Reserved(key) == key \in {"x", "h", "^T"}
                    \/ (key \in {"r", "p"} /\ front = "monitor")
                    \/ (key \in {"TAB", "q", "r"} /\ front = "debug")
Command(key) == Pressed(key) /\ prefix /\ ~help /\ prefix' = FALSE

Quit(key) ==
    /\ \/ Command(key) /\ key = "x"
       \/ Command(key) /\ key = "q" /\ front = "debug"
       \/ Pressed(key) /\ key = "^]" /\ UNCHANGED prefix
    /\ ended' = "quit" /\ sent' = "none"
    /\ UNCHANGED <<pane, owner, focus, help, frozenForHelp>>

\* Reset and bootloader of the monitor toggle lines of the port only.
SendCommand(key) ==
    /\ Command(key)
    /\ \/ key = "^T" /\ sent' = focus
       \/ key \in {"r", "p"} /\ front = "monitor" /\ sent' = "none"
       \/ key = "r" /\ front = "debug" /\ sent' = "gdb"
    /\ UNCHANGED <<pane, owner, focus, help, frozenForHelp, ended>>

SwitchFocus ==
    /\ Command("TAB") /\ front = "debug"
    /\ focus' = CHOOSE p \in Panes : p # focus
    /\ sent' = "none"
    /\ UNCHANGED <<pane, owner, help, frozenForHelp, ended>>

Click(p) ==
    /\ Pressed("CLICK") /\ front = "debug" /\ ~help
    /\ focus' = p /\ sent' = "none"
    /\ UNCHANGED <<pane, owner, prefix, help, frozenForHelp, ended>>

\* The program's own help freezes what lies behind it: in the monitor always,
\* in the others the panes that are not in inspect.
OpenHostHelp ==
    LET freezes == IF front = "monitor" THEN Shown
                   ELSE {p \in Shown : ~pane[p].active}
    IN /\ Command("h") /\ help' = TRUE /\ sent' = "none"
       /\ pane' = [p \in Panes |-> IF p \in freezes THEN Freeze(pane[p]) ELSE pane[p]]
       /\ frozenForHelp' = freezes
       /\ UNCHANGED <<owner, focus, ended>>

HostHelpKey(key) ==
    /\ Pressed(key) /\ help /\ key # "^]" /\ sent' = "none"
    /\ IF key \in InfoCloses
       THEN /\ help' = FALSE /\ frozenForHelp' = {}
            /\ pane' = [p \in Panes |->
                    IF p \in frozenForHelp THEN Unfreeze(pane[p]) ELSE pane[p]]
       ELSE UNCHANGED <<help, frozenForHelp, pane>>
    /\ UNCHANGED <<owner, focus, prefix, ended>>

\* Any other key after the prefix goes to the pane, as "^T" and the key; the
\* monitor drops one that is no single byte.
ForwardPrefix(key, pat, p) ==
    LET first == OnEvent(pane[p], "^T", pat, Free(p)).pane
        second == OnEvent(first, key, pat, Free(p)).pane
    IN /\ Command(key) /\ ~Reserved(key) /\ key \notin {"CLICK", "^]"}
       /\ p \in Shown /\ (key \notin Wheel => p = focus)
       /\ Shows(p, IF front = "monitor" /\ key \in Named THEN pane[p] ELSE second)
       /\ sent' = "none"
       /\ UNCHANGED <<focus, help, frozenForHelp, ended>>

---------------------------------------------------------------------------
\* One turn of the loop that strips the line to be yanked.  What it writes
\* past the end of the line's copy is undefined: here the program dies of it.
YankStep(p) ==
    LET y == pane[p].yank
        next == StripStep(y)
    IN /\ ended = "no" /\ y # Idle
       /\ IF y.i >= Len(y.in)
          THEN /\ pane' = [pane EXCEPT ![p].yank = Idle] /\ UNCHANGED ended
          ELSE /\ pane' = [pane EXCEPT ![p].yank = next]
               /\ ended' = IF next.w > Len(next.in) THEN "crashed" ELSE "no"
       /\ sent' = "none" /\ fed' = <<>>
       /\ UNCHANGED <<front, ui, typed, reads, presses, resizes>>

\* The port goes, or the emulator or gdb exits.
SourceEnds ==
    /\ Running /\ front # "screen" /\ ended' = "source"
    /\ UNCHANGED <<front, pane, ui, fed, typed, sent, reads, presses, resizes>>

Press(key) ==
    \/ \E pat \in IF key = "ENTER" THEN Patterns ELSE {NoPattern}, p \in Panes :
            WidgetKey(key, pat, p) \/ ForwardPrefix(key, pat, p)
    \/ Quit(key) \/ SendCommand(key) \/ HostHelpKey(key)

Next ==
    \/ \E p \in Panes : \E chunk \in Chunks[front] : Read(p, chunk)
    \/ \E size \in Sizes[front] : Resized(size[1], size[2])
    \/ \E key \in Keys : Press(key)
    \/ PrefixKey \/ SwitchFocus \/ OpenHostHelp
    \/ \E p \in Panes : Click(p) \/ YankStep(p)
    \/ SourceEnds

Spec == Init /\ [][Next]_vars

---------------------------------------------------------------------------
(* Properties.                                                              *)

\* Each pane's terminal is in order, its marks lie within what there is to
\* mark, and the modal slot is held by the one pane that shows a modal.
PaneOK(P) ==
    /\ TerminalOK(P.vt)
    /\ Len(P.lines) <= Capacity /\ Len(P.lines) <= P.total
    /\ P.anchor >= -1 /\ P.ceiling \in {-1, P.total}
    /\ Frozen(P) => P.anchor < P.total + Len(P.snap)
    /\ P.mode \in {"LIVE", "NAV"} \cup Modal /\ ~P.prefix
    /\ P.mode = "LIVE" => ~P.active
    /\ P.mode \in {"NAV", "SEARCH"} => P.active
    /\ P.helpWasLive = (P.mode = "HELP" /\ ~P.active)

\* The counter "N/M" of inspect tells the truth: M matches in what can be seen,
\* and the cursor is on the N-th of them.
SearchCounts ==
    \A p \in Shown : LET P == pane[p] IN
        front \in {"qemu", "debug"} /\ P.active /\ Searching(P) =>
            /\ P.search.total = MatchesIn(P, LogTotal(P), P.search.pat)
            /\ P.search.index = ComputeIndex(P)
            /\ P.search.total > 0 => P.search.index \in 1..P.search.total

\* The marks and modes of the panes are in order, and so is the search counter.
ConsoleOK ==
    /\ \A p \in Panes : PaneOK(pane[p])
    /\ \A p \in Panes : (pane[p].mode \in Modal) = (owner = p)
    /\ focus \in Shown /\ (help => ~prefix) /\ (frozenForHelp # {} => help)
    /\ SearchCounts

\* What a typewriter of that width would have printed.
Paper(bytes, width) ==
    LET Sheet[i \in 0..Len(bytes)] ==
            IF i = 0 THEN << <<>> >>
            ELSE LET before == Sheet[i - 1]
                     row == before[Len(before)]
                 IN CASE bytes[i] = 10 -> Append(before, <<>>)
                      [] bytes[i] = 13 -> before
                      [] bytes[i] \notin {10, 13} /\ Len(row) = width ->
                            Append(before, <<bytes[i]>>)
                      [] OTHER -> [before EXCEPT ![Len(before)] = Append(row, bytes[i])]
    IN Sheet[Len(bytes)]

\* The log, the rows still queued for it and the screen: what the paper has,
\* without the rows thrown away.
AsTyped(p) ==
    LET P == pane[p]
        paper == Paper(typed[p].bytes, P.vt.cols)
        off == AtLeast(Len(paper) - P.vt.rows, 0)
        gone == typed[p].gone
        \* The n-th row that was not thrown away.
        Kept(n) == n + Cardinality({m \in gone : m - Cardinality(gone \cap 1..m-1) <= n})
        queued == P.vt.scrolled
    IN /\ P.total + Len(queued) + Cardinality(gone) = off
       /\ \A k \in DOMAIN P.lines : P.lines[k] = paper[Kept(Oldest(P) + k)]
       /\ \A k \in DOMAIN queued : SerializeRow(queued[k]) = paper[Kept(P.total + k)]
       /\ \A r \in 0..P.vt.rows-1 :
            SerializeRow(P.vt.grid[r]) =
                IF off + r + 1 \in DOMAIN paper THEN paper[off + r + 1] ELSE <<>>

\* A row drawn again: characters and colours come back cell by cell, blanks as
\* spaces, and no colour is left on.
DrawnAgain(row, cols) ==
    LET drawn == Input(New(1, cols), SerializeRow(row))
        shown == {c \in DOMAIN row : \E d \in DOMAIN row : d >= c /\ row[d].cp # 0}
    IN /\ drawn.sgr = SgrDefault /\ drawn.state = "GROUND" /\ drawn.need = 0
       /\ \A c \in DOMAIN row : drawn.grid[0][c] =
            CASE c \notin shown -> Blank(SgrDefault)
              [] c \in shown /\ row[c].cp = 0 -> [row[c] EXCEPT !.cp = 32]
              [] OTHER -> row[c]

\* Plain text (vt100.c, tui.c) is never doubled or moved, as far as the log goes
\* back, and the emulators lose none of it, though its rows wait while the view is
\* frozen.  The monitor loses exactly the rows that scroll off under a frozen view
\* (vt100_drain_scrolled in its loop), for all that its comments promise: "these
\* bytes accumulate in the ring", and after help "the user sees whatever streamed
\* in".  And a line of the log, whatever its colours, draws the row it was made of.
Transcript ==
    \A p \in Shown :
        /\ typed[p].plain => AsTyped(p)
        /\ \A r \in 0..pane[p].vt.rows-1 : DrawnAgain(pane[p].vt.grid[r], pane[p].vt.cols)

\* Text that flows inside the scroll region, however long, leaves the rows
\* outside it alone, and the cursor inside.
Flowing(chunk) == chunk # <<>> /\ \A i \in DOMAIN chunk : chunk[i] \in 8..13 \cup 32..126
MarginsHold ==
    [][\A p \in Shown :
        LET V == pane[p].vt
            W == pane'[p].vt
        IN Flowing(fed') /\ InRegion(V) /\ V.state = "GROUND" =>
            /\ InRegion(W)
            /\ \A r \in DOMAIN V.grid \ (V.top..V.bot) : W.grid[r] = V.grid[r]]_vars

\* Inspect is a frozen view: as long as a pane stays in it nothing the program
\* writes, no key, no help page and no new size changes what can be seen there.
\* (In the monitor its own help thaws it, against the comment in monitor.c that
\* says "the log is frozen whenever inspect is active".)
FrozenStill ==
    [][\A p \in Shown : front \in {"qemu", "debug"} /\ pane[p].active /\ pane'[p].active =>
        Frozen(pane'[p]) /\ Visible(pane'[p]) = Visible(pane[p])]_vars
=============================================================================
