----------------------------- MODULE MCConsole -----------------------------
(* Small instances of Console: a terminal of its own that is fed control     *)
(* sequences of every kind, the three programs with a few lines of text and   *)
(* a user at the keys, and a command that shows a spinner while its child     *)
(* runs.  The two share nothing: a behaviour is about one of them.            *)
EXTENDS Console, ChildRun

Seq1(final) == Csi \o <<final>>
Seq2(n, final) == Csi \o <<48 + n, final>>
Seq3(n, m, final) == Csi \o <<48 + n, 59, 48 + m, final>>

Sgr == {Csi \o <<52, 50, 59, 49, 109>>, Csi \o <<57, 49, 109>>, Seq1(109),
        Csi \o <<55, 59, 52, 59, 52, 59, 49, 59, 52, 59, 57, 51, 59, 59, 51, 49, 109>>}
Moves == {Seq2(2, 65), Seq1(66), Seq2(3, 67), Seq1(68), Seq2(2, 71), Seq3(3, 2, 72)}
Edits == {Seq1(74), Seq2(1, 74), Seq2(2, 74), Seq1(75), Seq2(1, 75), Seq2(2, 75),
          Seq1(83), Seq1(84), Seq1(76), Seq2(2, 77), Seq1(64), Seq1(80), Seq2(2, 88)}
Modes == {Seq3(1, 2, 114), Seq3(2, 3, 114), Seq1(114),
          Csi \o <<63, 55, 108>>, Csi \o <<63, 52, 55, 104>>,
          <<Esc, 55>>, <<Esc, 56>>, Seq2(6, 110), Seq2(5, 110)}
Text == {<<97>>, <<97, 98, 99, 100>>, <<97, 13, 10>>, <<10>>, <<8>>, <<9>>}
\* Characters of several bytes, whole and in pieces, and strings.
Pieces == {<<195, 169>>, <<226, 148, 130>>, <<226, 148>>, <<169>>, <<240, 159, 152, 128>>,
           <<255>>, <<Esc>>, <<24>>, <<Esc, 93, 48, 59, 120, 7>>,
           <<Esc, 80, 113, Esc, 92>>, <<Esc, 95, 120>>, <<Esc, 40, 66>>,
           <<Esc, 91, 49, 36>>, <<Esc, 91, 58>>, <<Esc, 80, 49, 36>>}

MCFronts == {"screen", "monitor", "qemu", "debug"}
Lines == {<<97>>, <<97, 98, 13, 10>>, <<97, 13, 10>>}
MCChunks == [f \in MCFronts |->
    IF f = "screen" THEN Sgr \cup Moves \cup Edits \cup Modes \cup Text \cup Pieces
    ELSE Lines]
MCSizes == [f \in MCFronts |->
    IF f = "screen" THEN {<<3, 3>>, <<2, 4>>} ELSE {<<2, 2>>}]
MCKeys == {"^T", "^]", "x", "h", "i", "?", "q", "/", "n", "N", "UP", "PGUP", "PGDN",
           "HOME", "WHEEL_UP", "y", "r", "a", "TAB", "CLICK", "ENTER", "ESC"}
MCNamed == {"UP", "PGUP", "PGDN", "HOME", "WHEEL_UP", "CLICK"}
MCPatterns == {NoPattern, EmptyMatch, BadPattern, 97}

MCMaxReads == [f \in MCFronts |-> IF f \in {"qemu", "debug"} THEN 2 ELSE 3]
MCMaxKeys == [f \in MCFronts |-> CASE f = "qemu" -> 5 [] f = "debug" -> 3 [] OTHER -> 4]
MCMaxResizes == [f \in MCFronts |-> 1]

MCWays == {"terminal", "verbose", "pipe", "wrapped"}
MCPids == {<<1>>, <<1, 2>>}

VARIABLE topic

consoleVars == <<topic, vars, runVars>>

\* What stays as it begins begins in one way.
ConsoleInit ==
    /\ Init /\ RunInit
    /\ \/ topic = "console" /\ mode = "pipe" /\ pid = <<1>>
       \/ topic = "child" /\ front = "qemu"

ConsoleNext ==
    /\ \/ topic = "console" /\ Next /\ UNCHANGED runVars
       \/ topic = "child" /\ RunNext /\ UNCHANGED vars
    /\ UNCHANGED topic

ConsoleSpec == ConsoleInit /\ [][ConsoleNext]_consoleVars
=============================================================================
