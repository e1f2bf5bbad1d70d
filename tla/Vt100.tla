------------------------------- MODULE Vt100 -------------------------------
(* The inner terminal of vt100.c, which "ice monitor" and "ice qemu" feed   *)
(* with what the chip writes: a parser of control sequences, a grid of      *)
(* cells with a cursor and a scroll region, and the queue of rows that have *)
(* scrolled off.  A terminal is a record and an operation a function of it, *)
(* so that the programs that own one keep it in a variable of theirs.       *)
(* Bytes and code points are numbers.  Left out: the counters that only the *)
(* unit tests read.                                                         *)
EXTENDS Integers, Sequences

CONSTANTS
    ReplyCap,      \* VT100_REPLY_CAP: bytes of reports kept for the chip
    MaxParams      \* VT100_MAX_PARAMS: numbers one sequence may carry

ASSUME TerminalLimits == ReplyCap \in Nat \ {0} /\ MaxParams \in Nat \ {0}

AtLeast(a, b) == IF a < b THEN b ELSE a
AtMost(a, b) == IF a > b THEN b ELSE a
Within(x, lo, hi) == AtLeast(lo, AtMost(x, hi))

---------------------------------------------------------------------------
(* Cells, the grid and the scroll region.                                   *)

DefaultColor == 255
SgrDefault == [fg |-> DefaultColor, bg |-> DefaultColor, attrs |-> {}]
Blank(sgr) == [cp |-> 0, sgr |-> sgr]
BlankRow(cols, sgr) == [c \in 0..cols-1 |-> Blank(sgr)]
BlankGrid(rows, cols) == [r \in 0..rows-1 |-> BlankRow(cols, SgrDefault)]

\* The cells from (r0, c0) to (r1, c1) in reading order become blank, in the
\* current colours.
Erase(V, r0, c0, r1, c1) ==
    LET last == AtMost(r1, V.rows - 1)
        right == AtMost(c1, V.cols - 1)
        Hit(r, c) == /\ r >= AtLeast(r0, 0) /\ r <= last
                     /\ r = AtLeast(r0, 0) => c >= c0
                     /\ r = last => c <= right
    IN [V EXCEPT !.grid = [r \in DOMAIN @ |-> [c \in DOMAIN @[r] |->
            IF Hit(r, c) THEN Blank(V.sgr) ELSE @[r][c]]]]

ShiftUp(V, top, bot, n) ==
    [V EXCEPT !.grid = [r \in DOMAIN @ |->
        IF r \notin top..bot THEN @[r]
        ELSE IF r + n <= bot THEN @[r + n] ELSE BlankRow(V.cols, V.sgr)]]

ShiftDown(V, top, bot, n) ==
    [V EXCEPT !.grid = [r \in DOMAIN @ |->
        IF r \notin top..bot THEN @[r]
        ELSE IF r - n >= top THEN @[r - n] ELSE BlankRow(V.cols, V.sgr)]]

FullScreen(V) == V.top = 0 /\ V.bot = V.rows - 1

\* Rows pushed out at the top are queued for the log unless part of the
\* screen only is scrolled, or the alternate screen is on.
ScrollUp(V, n) ==
    LET gone == AtMost(n, V.bot - V.top + 1)
        off == [i \in 1..gone |-> V.grid[V.top + i - 1]]
    IN [ShiftUp(V, V.top, V.bot, n) EXCEPT
            !.scrolled = IF FullScreen(V) /\ ~V.alt THEN @ \o off ELSE @]

ScrollDown(V, n) == ShiftDown(V, V.top, V.bot, n)

---------------------------------------------------------------------------
(* Making and resizing a terminal.  A resize blanks the grid.               *)

New(h, w) ==
    LET rows == AtLeast(h, 1)
        cols == AtLeast(w, 1)
    IN [rows |-> rows, cols |-> cols, grid |-> BlankGrid(rows, cols),
        row |-> 0, col |-> 0, sgr |-> SgrDefault, wrap |-> FALSE,
        autowrap |-> TRUE, visible |-> TRUE, alt |-> FALSE,
        top |-> 0, bot |-> rows - 1,
        saved |-> [row |-> 0, col |-> 0, sgr |-> SgrDefault, wrap |-> FALSE],
        state |-> "GROUND", origin |-> "GROUND",
        params |-> <<>>, digits |-> -1, priv |-> 0,
        reply |-> <<>>, scrolled |-> <<>>, utf8 |-> 0, need |-> 0]

\* Mutant: the margins stay where they were.
ResizeKeepsMargins(V, h, w) ==
    LET rows == AtLeast(h, 1)
        cols == AtLeast(w, 1)
    IN [V EXCEPT !.rows = rows, !.cols = cols, !.grid = BlankGrid(rows, cols),
                 !.row = AtMost(@, rows - 1), !.col = AtMost(@, cols - 1),
                 !.saved.row = AtMost(@, rows - 1),
                 !.saved.col = AtMost(@, cols - 1), !.wrap = FALSE]

Resize(V, h, w) ==
    LET rows == AtLeast(h, 1)
        cols == AtLeast(w, 1)
    IN IF rows = V.rows /\ cols = V.cols THEN V
       ELSE [V EXCEPT !.rows = rows, !.cols = cols,
                !.grid = BlankGrid(rows, cols),
                !.row = AtMost(@, rows - 1), !.col = AtMost(@, cols - 1),
                !.saved.row = AtMost(@, rows - 1),
                !.saved.col = AtMost(@, cols - 1),
                !.wrap = FALSE, !.top = 0, !.bot = rows - 1]

\* vt100_drain_scrolled, and the reset of the reply the caller has sent on.
DrainScrolled(V) == [V EXCEPT !.scrolled = <<>>]
DrainReply(V) == [V EXCEPT !.reply = <<>>]

---------------------------------------------------------------------------
(* The cursor and what is printed at it.                                    *)

CursorMove(V, row, col) ==
    [V EXCEPT !.row = Within(row, 0, V.rows - 1),
              !.col = Within(col, 0, V.cols - 1), !.wrap = FALSE]

\* Mutant: only the end of the screen scrolls.
AdvancePastMargin(V) ==
    IF V.row + 1 < V.rows THEN [V EXCEPT !.row = @ + 1] ELSE ScrollUp(V, 1)

CursorAdvanceRow(V) ==
    IF V.row = V.bot THEN ScrollUp(V, 1)
    ELSE IF V.row + 1 < V.rows THEN [V EXCEPT !.row = @ + 1] ELSE V

\* The wrap a character in the last column leaves pending happens when the
\* next one is printed.
Wrapped(V) ==
    IF ~V.wrap THEN V
    ELSE IF V.autowrap
    THEN [CursorAdvanceRow([V EXCEPT !.col = 0]) EXCEPT !.wrap = FALSE]
    ELSE [V EXCEPT !.wrap = FALSE]

\* Mutant: the cursor wraps as soon as the last column is written.
PutAndWrap(V, cp) ==
    LET W == [V EXCEPT !.grid[V.row][V.col] = [cp |-> cp, sgr |-> V.sgr]]
    IN IF V.col + 1 < V.cols THEN [W EXCEPT !.col = @ + 1]
       ELSE CursorAdvanceRow([W EXCEPT !.col = 0])

PutPrintable(V0, cp) ==
    LET V == Wrapped(V0)
        more == V.col + 1 < V.cols
    IN [V EXCEPT !.grid[V.row][V.col] = [cp |-> cp, sgr |-> V.sgr],
                 !.col = IF more THEN @ + 1 ELSE @, !.wrap = ~more]

Replacement == 65533

\* A sequence that is cut short shows as one replacement character.
FlushUtf8(V) ==
    IF V.need = 0 THEN V
    ELSE [PutPrintable(V, Replacement) EXCEPT !.need = 0, !.utf8 = 0]

PutUtf8Byte(V, c) ==
    CASE c < 128 -> PutPrintable(FlushUtf8(V), c)
      [] c \in 128..191 ->
            LET cp == V.utf8 * 64 + (c % 64)
            IN IF V.need = 0 THEN PutPrintable(V, Replacement)
               ELSE IF V.need = 1
               THEN PutPrintable([V EXCEPT !.need = 0, !.utf8 = 0], cp)
               ELSE [V EXCEPT !.need = @ - 1, !.utf8 = cp]
      [] c \in 192..223 -> [FlushUtf8(V) EXCEPT !.utf8 = c % 32, !.need = 1]
      [] c \in 224..239 -> [FlushUtf8(V) EXCEPT !.utf8 = c % 16, !.need = 2]
      [] c \in 240..247 -> [FlushUtf8(V) EXCEPT !.utf8 = c % 8, !.need = 3]
      [] OTHER -> PutPrintable(FlushUtf8(V), Replacement)

\* The next multiple of eight, or the last column.
NextTab(V) == AtMost((V.col \div 8 + 1) * 8, V.cols - 1)

C0Execute(V, c) ==
    CASE c \in {10, 11, 12} -> CursorAdvanceRow([V EXCEPT !.wrap = FALSE])
      [] c = 13 -> [V EXCEPT !.wrap = FALSE, !.col = 0]
      [] c = 8 -> [V EXCEPT !.wrap = FALSE, !.col = AtLeast(@ - 1, 0)]
      [] c = 9 -> [V EXCEPT !.wrap = FALSE, !.col = NextTab(V)]
      [] OTHER -> V

---------------------------------------------------------------------------
(* Control sequences: their numbers, colours, reports, and what each does.  *)

CsiClear(V) == [V EXCEPT !.params = <<>>, !.digits = -1, !.priv = 0]

\* A number stops growing here.
MaxNumber == 99999

CsiParamDigit(V, d) ==
    IF Len(V.params) >= MaxParams THEN V
    ELSE [V EXCEPT !.digits = AtMost(AtLeast(@, 0) * 10 + d, MaxNumber)]

CsiParamSeparator(V) ==
    IF Len(V.params) >= MaxParams THEN V
    ELSE [V EXCEPT !.params = Append(@, AtLeast(V.digits, 0)), !.digits = -1]

CsiParamFinalize(V) == IF V.digits < 0 THEN V ELSE CsiParamSeparator(V)

CsiParam(V, i) == IF i < Len(V.params) THEN V.params[i + 1] ELSE 0
CsiParamOr(V, i, dflt) ==
    IF CsiParam(V, i) # 0 THEN CsiParam(V, i) ELSE dflt

\* The oldest bytes give way to new ones.
ReplyAppend(V, s) ==
    LET all == V.reply \o s
        over == AtLeast(Len(all) - ReplyCap, 0)
    IN [V EXCEPT !.reply = SubSeq(all, over + 1, Len(all))]

SgrApply(sgr, p) ==
    CASE p = 0 -> SgrDefault
      [] p \in {1, 4, 7} -> [sgr EXCEPT !.attrs = @ \cup {p}]
      [] p \in {22, 24, 27} ->
            [sgr EXCEPT !.attrs = @ \ {IF p = 22 THEN 1 ELSE p - 20}]
      [] p \in 30..37 -> [sgr EXCEPT !.fg = p - 30]
      [] p = 39 -> [sgr EXCEPT !.fg = DefaultColor]
      [] p \in 40..47 -> [sgr EXCEPT !.bg = p - 40]
      [] p = 49 -> [sgr EXCEPT !.bg = DefaultColor]
      [] p \in 90..97 -> [sgr EXCEPT !.fg = p - 82]
      [] p \in 100..107 -> [sgr EXCEPT !.bg = p - 92]
      [] OTHER -> sgr

CsiSgr(V) ==
    LET ps == IF V.params = <<>> THEN <<0>> ELSE V.params
        After[i \in 0..Len(ps)] ==
            IF i = 0 THEN V.sgr ELSE SgrApply(After[i - 1], ps[i])
    IN [V EXCEPT !.sgr = After[Len(ps)]]

CsiEraseLine(V, p) ==
    CASE p = 0 -> Erase(V, V.row, V.col, V.row, V.cols - 1)
      [] p = 1 -> Erase(V, V.row, 0, V.row, V.col)
      [] p = 2 -> Erase(V, V.row, 0, V.row, V.cols - 1)
      [] OTHER -> V

CsiEraseDisplay(V, p) ==
    CASE p = 0 -> Erase(V, V.row, V.col, V.rows - 1, V.cols - 1)
      [] p = 1 -> Erase(V, 0, 0, V.row, V.col)
      [] p \in {2, 3} -> Erase(V, 0, 0, V.rows - 1, V.cols - 1)
      [] OTHER -> V

\* DECSET and DECRST: a mode named twice in one sequence is set twice.
CsiDecset(V, set) ==
    LET asked == {V.params[i] : i \in DOMAIN V.params}
    IN IF V.priv # 63 THEN V
       ELSE [V EXCEPT !.autowrap = IF 7 \in asked THEN set ELSE @,
                      !.visible = IF 25 \in asked THEN set ELSE @,
                      !.alt = IF asked \cap {47, 1047, 1049} # {}
                              THEN set ELSE @]

Digits[n \in Nat] ==
    IF n < 10 THEN <<48 + n>> ELSE Append(Digits[n \div 10], 48 + (n % 10))
Esc == 27
Csi == <<Esc, 91>>

\* The two reports a program may ask for: "in order", and where the cursor is.
DeviceStatus(V) ==
    CASE V.priv # 0 -> V
      [] V.priv = 0 /\ CsiParam(V, 0) = 5 -> ReplyAppend(V, Csi \o <<48, 110>>)
      [] V.priv = 0 /\ CsiParam(V, 0) = 6 ->
            ReplyAppend(V, Csi \o Digits[V.row + 1] \o <<59>>
                               \o Digits[V.col + 1] \o <<82>>)
      [] OTHER -> V

SetMargins(V) ==
    LET top == AtLeast(CsiParamOr(V, 0, 1) - 1, 0)
        bot == AtMost(CsiParamOr(V, 1, V.rows) - 1, V.rows - 1)
    IN IF top < bot
       THEN CursorMove([V EXCEPT !.top = top, !.bot = bot], 0, 0) ELSE V

InRegion(V) == V.row \in V.top..V.bot
LineStart(V) == [V EXCEPT !.col = 0, !.wrap = FALSE]

InsertLines(V, n) ==
    IF InRegion(V) THEN LineStart(ShiftDown(V, V.row, V.bot, n)) ELSE V
DeleteLines(V, n) ==
    IF InRegion(V) THEN LineStart(ShiftUp(V, V.row, V.bot, n)) ELSE V

InsertChars(V, n) ==
    [V EXCEPT !.wrap = FALSE, !.grid[V.row] = [c \in DOMAIN @ |->
        CASE c < V.col -> @[c]
          [] c >= V.col + n -> @[c - n]
          [] OTHER -> Blank(V.sgr)]]
DeleteChars(V, n) ==
    [V EXCEPT !.wrap = FALSE, !.grid[V.row] = [c \in DOMAIN @ |->
        CASE c < V.col -> @[c]
          [] c >= V.col /\ c + n < V.cols -> @[c + n]
          [] OTHER -> Blank(V.sgr)]]

\* What the final byte of a sequence asks for.
CsiDispatch(V0, final) ==
    LET V == CsiParamFinalize(V0)
        n == CsiParamOr(V, 0, 1)
    IN CASE final = 65 -> CursorMove(V, V.row - n, V.col)           \* A
         [] final = 66 -> CursorMove(V, V.row + n, V.col)           \* B
         [] final = 67 -> CursorMove(V, V.row, V.col + n)           \* C
         [] final = 68 -> CursorMove(V, V.row, V.col - n)           \* D
         [] final = 71 -> CursorMove(V, V.row, n - 1)               \* G
         [] final \in {72, 102} ->                                  \* H, f
                CursorMove(V, n - 1, CsiParamOr(V, 1, 1) - 1)
         [] final = 74 -> CsiEraseDisplay(V, CsiParam(V, 0))        \* J
         [] final = 75 -> CsiEraseLine(V, CsiParam(V, 0))           \* K
         [] final = 104 -> CsiDecset(V, TRUE)                       \* h
         [] final = 108 -> CsiDecset(V, FALSE)                      \* l
         [] final = 109 -> CsiSgr(V)                                \* m
         [] final = 110 -> DeviceStatus(V)                          \* n
         [] final = 114 -> SetMargins(V)                            \* r
         [] final = 83 -> ScrollUp(V, n)                            \* S
         [] final = 84 -> ScrollDown(V, n)                          \* T
         [] final = 76 -> InsertLines(V, n)                         \* L
         [] final = 77 -> DeleteLines(V, n)                         \* M
         [] final = 64 -> InsertChars(V, n)                         \* @
         [] final = 80 -> DeleteChars(V, n)                         \* P
         [] final = 88 -> Erase(V, V.row, V.col, V.row, V.col + n - 1) \* X
         [] OTHER -> V

SaveCursor(V) ==
    [V EXCEPT !.saved =
        [row |-> V.row, col |-> V.col, sgr |-> V.sgr, wrap |-> V.wrap]]
RestoreCursor(V) ==
    [V EXCEPT !.row = Within(V.saved.row, 0, V.rows - 1),
              !.col = Within(V.saved.col, 0, V.cols - 1),
              !.sgr = V.saved.sgr, !.wrap = V.saved.wrap]

EscDispatch(V, final) ==
    CASE final = 55 -> SaveCursor(V)
      [] final = 56 -> RestoreCursor(V)
      [] OTHER -> V

---------------------------------------------------------------------------
(* The parser: one byte at a time, in the state the last one left.          *)

StringStates == {"OSC", "DCS_PASSTHROUGH", "DCS_IGNORE", "SOS_PM_APC"}
\* States in which control characters are executed, or ignored.
Executing == {"ESCAPE", "ESCAPE_INTERMEDIATE", "CSI_ENTRY", "CSI_PARAM",
              "CSI_INTERMEDIATE", "CSI_IGNORE"}
DcsStates == {"DCS_ENTRY", "DCS_PARAM", "DCS_INTERMEDIATE"}
States == {"GROUND", "STRING_ESC"} \cup Executing \cup DcsStates
            \cup StringStates

Go(V, s) == [V EXCEPT !.state = s]
\* At rest.  What a sequence collected is not read again: it is dropped here,
\* where the code clears it when the next sequence starts.
Ground(V) == [CsiClear(V) EXCEPT !.state = "GROUND", !.origin = "GROUND"]

Intermediate == 32..47
Digit == 48..57
Private == 60..63
Final == 64..126

InGround(V, c) ==
    CASE c = 127 -> V
      [] c < 32 -> C0Execute(FlushUtf8(V), c)
      [] OTHER -> PutUtf8Byte(V, c)

InEscape(V, c) ==
    CASE c = 91 -> Go(CsiClear(V), "CSI_ENTRY")
      [] c = 93 -> Go(V, "OSC")
      [] c = 80 -> Go(CsiClear(V), "DCS_ENTRY")
      [] c \in {88, 94, 95} -> Go(V, "SOS_PM_APC")
      [] c \in Intermediate -> Go(V, "ESCAPE_INTERMEDIATE")
      [] c \in 48..126 \ {91, 93, 80, 88, 94, 95} -> Ground(EscDispatch(V, c))
      [] OTHER -> Ground(V)

InEscapeIntermediate(V, c) ==
    IF c \in 48..126 THEN Ground(EscDispatch(V, c)) ELSE V

\* A private marker counts as the first byte only.
InCsi(V, c) ==
    CASE c \in Intermediate -> Go(V, "CSI_INTERMEDIATE")
      [] c = 58 -> Go(V, "CSI_IGNORE")
      [] c \in Digit -> Go(CsiParamDigit(V, c - 48), "CSI_PARAM")
      [] c = 59 -> Go(CsiParamSeparator(V), "CSI_PARAM")
      [] c \in Private ->
            IF V.state = "CSI_ENTRY"
            THEN Go([V EXCEPT !.priv = c], "CSI_PARAM")
            ELSE Go(V, "CSI_IGNORE")
      [] c \in Final -> Ground(CsiDispatch(V, c))
      [] OTHER -> V

InCsiIntermediate(V, c) ==
    CASE c \in 48..63 -> Go(V, "CSI_IGNORE")
      [] c \in Final -> Ground(CsiDispatch(V, c))
      [] OTHER -> V

InCsiIgnore(V, c) == IF c \in Final THEN Ground(V) ELSE V

\* Device control strings: what they carry is skipped.
InDcs(V, c) ==
    CASE c \in Intermediate -> Go(V, "DCS_INTERMEDIATE")
      [] c \in Digit \cup {59} ->
            IF V.state = "DCS_INTERMEDIATE" THEN Go(V, "DCS_IGNORE")
            ELSE Go(V, "DCS_PARAM")
      [] c \in Private \cup {58} -> Go(V, "DCS_IGNORE")
      [] c \in Final -> Go(V, "DCS_PASSTHROUGH")
      [] OTHER -> V

InString(V, c) ==
    CASE c = Esc -> [V EXCEPT !.state = "STRING_ESC", !.origin = V.state]
      [] c \in {24, 26} -> Ground(V)
      [] c = 7 /\ V.state = "OSC" -> Ground(V)
      [] OTHER -> V

\* Cancel and ESC act in every state but inside a string.  An ESC in a string
\* that does not end it starts a sequence of its own.
Feed(V0, c) ==
    LET V == IF V0.state = "STRING_ESC" /\ c # 92
             THEN [Go(V0, "ESCAPE") EXCEPT !.origin = "GROUND"] ELSE V0
    IN IF V.state \in StringStates THEN InString(V, c)
       ELSE IF c \in {24, 26} THEN Ground(FlushUtf8(V))
       ELSE IF c = Esc THEN [Go(FlushUtf8(V), "ESCAPE") EXCEPT !.origin = "GROUND"]
       ELSE IF V.state = "GROUND" THEN InGround(V, c)
       ELSE IF V.state = "STRING_ESC" THEN Ground(V)
       ELSE IF c = 127 THEN V
       ELSE IF c < 32 THEN IF V.state \in Executing THEN C0Execute(V, c) ELSE V
       ELSE CASE V.state = "ESCAPE" -> InEscape(V, c)
              [] V.state = "ESCAPE_INTERMEDIATE" -> InEscapeIntermediate(V, c)
              [] V.state \in {"CSI_ENTRY", "CSI_PARAM"} -> InCsi(V, c)
              [] V.state = "CSI_INTERMEDIATE" -> InCsiIntermediate(V, c)
              [] V.state = "CSI_IGNORE" -> InCsiIgnore(V, c)
              [] V.state \in DcsStates -> InDcs(V, c)

Input(V, bytes) ==
    LET After[i \in 0..Len(bytes)] ==
            IF i = 0 THEN V ELSE Feed(After[i - 1], bytes[i])
    IN After[Len(bytes)]

---------------------------------------------------------------------------
(* A row of cells as the bytes that draw it, which is what the log keeps.   *)

SgrCodes(sgr) ==
    <<0>> \o (IF 1 \in sgr.attrs THEN <<1>> ELSE <<>>)
          \o (IF 4 \in sgr.attrs THEN <<4>> ELSE <<>>)
          \o (IF 7 \in sgr.attrs THEN <<7>> ELSE <<>>)
          \o (CASE sgr.fg < 8 -> <<sgr.fg + 30>>
                [] sgr.fg \in 8..15 -> <<sgr.fg + 82>>
                [] OTHER -> <<>>)
          \o (CASE sgr.bg < 8 -> <<sgr.bg + 40>>
                [] sgr.bg \in 8..15 -> <<sgr.bg + 92>>
                [] OTHER -> <<>>)

SgrEmit(sgr) ==
    LET codes == SgrCodes(sgr)
        Joined[i \in 1..Len(codes)] ==
            IF i = 1 THEN Digits[codes[1]]
            ELSE Joined[i - 1] \o <<59>> \o Digits[codes[i]]
    IN Csi \o Joined[Len(codes)] \o <<109>>

Encode(cp) ==
    IF cp < 128 THEN <<cp>>
    ELSE IF cp < 2048 THEN <<192 + cp \div 64, 128 + (cp % 64)>>
    ELSE IF cp < 65536
    THEN <<224 + cp \div 4096, 128 + ((cp \div 64) % 64), 128 + (cp % 64)>>
    ELSE IF cp < 1114112
    THEN <<240 + cp \div 262144, 128 + ((cp \div 4096) % 64),
           128 + ((cp \div 64) % 64), 128 + (cp % 64)>>
    ELSE <<63>>

\* Blank cells at the end are left out, the others become spaces.
SerializeRow(cells) ==
    LET used == {c \in DOMAIN cells : cells[c].cp # 0}
        end == IF used = {} THEN 0
               ELSE 1 + CHOOSE c \in used : \A d \in used : d <= c
        Sgr(c) == IF c < 0 THEN SgrDefault ELSE cells[c].sgr
        Drawn[c \in 0..end] ==
            IF c = 0 THEN <<>>
            ELSE Drawn[c - 1]
                 \o (IF Sgr(c - 2) = Sgr(c - 1) THEN <<>> ELSE SgrEmit(Sgr(c - 1)))
                 \o (IF cells[c - 1].cp = 0 THEN <<32>> ELSE Encode(cells[c - 1].cp))
    IN Drawn[end] \o (IF Sgr(end - 1) = SgrDefault THEN <<>> ELSE SgrEmit(SgrDefault))

---------------------------------------------------------------------------
(* A terminal as it can be.                                                 *)

Sgrs == [fg : 0..15 \cup {DefaultColor}, bg : 0..15 \cup {DefaultColor},
         attrs : SUBSET {1, 4, 7}]

\* Cursor and margins stay inside the screen whatever the program sends, the
\* report fits, and half a character is pending only between sequences: ESC
\* and the control characters flush it first.
TerminalOK(V) ==
    /\ V.row \in 0..V.rows-1 /\ V.col \in 0..V.cols-1
    /\ V.saved.row \in 0..V.rows-1 /\ V.saved.col \in 0..V.cols-1
    /\ V.top \in 0..V.bot /\ V.bot \in 0..V.rows-1
    /\ V.top < V.bot \/ FullScreen(V)
    /\ V.sgr \in Sgrs /\ V.saved.sgr \in Sgrs
    /\ V.state \in States /\ V.origin \in {"GROUND"} \cup StringStates
    /\ (V.state = "STRING_ESC") = (V.origin # "GROUND")
    /\ V.need \in 0..3 /\ (V.need > 0 => V.state = "GROUND")
    /\ Len(V.params) <= MaxParams /\ V.digits \in -1..MaxNumber
    /\ Len(V.reply) <= ReplyCap
    /\ V.grid \in [0..V.rows-1 -> [0..V.cols-1 -> [cp : Nat, sgr : Sgrs]]]
=============================================================================
