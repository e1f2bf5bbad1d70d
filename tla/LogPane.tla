------------------------------ MODULE LogPane ------------------------------
(* The log pane of tui.c: a ring of the rows that have scrolled off a       *)
(* terminal, shown above the terminal's own rows, with "inspect": a frozen  *)
(* view the user scrolls and searches while the program keeps writing.      *)
(* A pane is a record and an operation a function of it; the programs that  *)
(* show panes are in Console.  Lines are numbered by how many were ever     *)
(* pushed; rows of the screen follow the last of them.  Left out: drawing,  *)
(* colours, the editing of the search prompt (Enter brings any pattern),    *)
(* and panes without a terminal, which nothing in the program makes.        *)
EXTENDS Vt100, FiniteSets

CONSTANTS
    Capacity       \* max_lines of tui_log_init

ASSUME PaneLimits == Capacity \in Nat \ {0}

NoPattern == -1
EmptyMatch == -2   \* a pattern that matches everywhere, with no characters
BadPattern == -3   \* a pattern that does not compile

NoSearch == [pat |-> NoPattern, line |-> -1, start |-> 0, index |-> 0, total |-> 0]
Idle == [in |-> <<>>, i |-> 0, w |-> 0]

\* tui_log_init, with the terminal of tui_log_set_grid.
NewPane(rows, cols) ==
    [vt |-> New(rows, cols), lines |-> <<>>, total |-> 0,
     anchor |-> -1, ceiling |-> -1, snap |-> <<>>,
     mode |-> "LIVE", active |-> FALSE, helpWasLive |-> FALSE,
     prefix |-> FALSE, search |-> NoSearch, yank |-> Idle]

Frozen(P) == P.ceiling >= 0
Searching(P) == P.search.pat # NoPattern
Oldest(P) == P.total - Len(P.lines)

---------------------------------------------------------------------------
(* What the user can see: the lines under the ceiling, then the rows of the *)
(* snapshot, or of the live screen.                                         *)

EffectiveLines(P) ==
    IF ~Frozen(P) THEN Len(P.lines)
    ELSE Within(P.ceiling - Oldest(P), 0, Len(P.lines))

LogTotal(P) ==
    EffectiveLines(P) + (IF Frozen(P) THEN Len(P.snap) ELSE P.vt.rows)

GetLine(P, u) ==
    LET g == u - EffectiveLines(P)
    IN IF g < 0 THEN P.lines[u + 1]
       ELSE IF Frozen(P) THEN P.snap[g + 1] ELSE SerializeRow(P.vt.grid[g])

Visible(P) == [u \in 0..LogTotal(P)-1 |-> GetLine(P, u)]

GlobalToUser(P, g) == g - Oldest(P)
UserToGlobal(P, u) == Oldest(P) + u

BottomIdx(P) ==
    LET total == LogTotal(P)
    IN IF P.anchor < 0 THEN total - 1
       ELSE Within(GlobalToUser(P, P.anchor), 0, total - 1)

---------------------------------------------------------------------------
(* Matches of a pattern: a byte, or nothing at all.                         *)

Starts(line, pat) ==
    IF pat = EmptyMatch THEN 0..Len(line)
    ELSE {i \in 0..Len(line)-1 : line[i + 1] = pat}
CountMatches(line, pat) == Cardinality(Starts(line, pat))

MatchesIn(P, lines, pat) ==
    LET Sum[u \in 0..lines] ==
            IF u = 0 THEN 0 ELSE Sum[u - 1] + CountMatches(GetLine(P, u - 1), pat)
    IN Sum[lines]

Least(S) == CHOOSE x \in S : \A y \in S : x <= y
Greatest(S) == CHOOSE x \in S : \A y \in S : y <= x

\* line_match_after, line_match_before: the places, none for a line that is
\* not there.
After(P, u, from) ==
    IF u \notin 0..LogTotal(P)-1 THEN {}
    ELSE {m \in Starts(GetLine(P, u), P.search.pat) : m >= from}
Before(P, u, upto) ==
    IF u \notin 0..LogTotal(P)-1 THEN {}
    ELSE {m \in Starts(GetLine(P, u), P.search.pat) : m < upto}
NoBound == 100000

\* The current match's place in the order of all of them, from scratch.
ComputeIndex(P) ==
    LET u == GlobalToUser(P, P.search.line)
    IN IF P.search.line < 0 \/ u \notin 0..LogTotal(P)-1 THEN 0
       ELSE MatchesIn(P, u, P.search.pat)
            + Cardinality(Before(P, u, P.search.start + 1))

\* tui_log_search_clear.
SearchClear(P) == [P EXCEPT !.search = NoSearch]

\* tui_log_search_set with a pattern that compiles: count, and go to the last
\* match.
SearchSet(P0, pat) ==
    LET all == MatchesIn(P0, LogTotal(P0), pat)
        P == [P0 EXCEPT !.search = [NoSearch EXCEPT !.pat = pat, !.total = all],
                        !.anchor = IF Frozen(P0) THEN @ ELSE -1]
        hits == {u \in 0..LogTotal(P)-1 : After(P, u, 0) # {}}
        u == Greatest(hits)
        line == UserToGlobal(P, u)
    IN IF pat = NoPattern THEN SearchClear(P0)
       ELSE IF hits = {} THEN P
       ELSE [P EXCEPT !.search.line = line, !.search.start = Greatest(After(P, u, 0)),
                      !.search.index = all, !.anchor = line]

\* The match at user line u, offset m, becomes the current one.
MoveTo(P, u, m, step) ==
    LET Q == [P EXCEPT !.search.line = UserToGlobal(P, u), !.search.start = m,
                       !.anchor = UserToGlobal(P, u)]
        known == P.search.index > (IF step < 0 THEN 1 ELSE 0)
    IN [Q EXCEPT !.search.index = IF known THEN @ + step ELSE ComputeIndex(Q)]

SearchNext(P) ==
    LET total == LogTotal(P)
        u == GlobalToUser(P, P.search.line)
        here == P.search.line >= 0 /\ u \in 0..total-1
        from == CASE here -> u
                  [] P.search.line >= 0 /\ ~here -> 0
                  [] OTHER -> BottomIdx(P)
        places == IF here THEN After(P, from, P.search.start + 1) ELSE After(P, from, 0)
        later == {v \in from+1..total-1 : After(P, v, 0) # {}}
    IN IF ~Searching(P) THEN P
       ELSE IF places # {} THEN MoveTo(P, from, Least(places), 1)
       ELSE IF later # {}
       THEN MoveTo(P, Least(later), Least(After(P, Least(later), 0)), 1)
       ELSE P

SearchPrev(P) ==
    LET total == LogTotal(P)
        u == GlobalToUser(P, P.search.line)
        here == P.search.line >= 0 /\ u \in 0..total-1
        from == CASE here -> u
                  [] P.search.line >= 0 /\ ~here -> total - 1
                  [] OTHER -> BottomIdx(P)
        places == Before(P, from, IF here THEN P.search.start ELSE NoBound)
        earlier == {v \in 0..from-1 : After(P, v, 0) # {}}
    IN IF ~Searching(P) THEN P
       ELSE IF places # {} THEN MoveTo(P, from, Greatest(places), -1)
       ELSE IF earlier # {}
       THEN MoveTo(P, Greatest(earlier),
                   Greatest(After(P, Greatest(earlier), 0)), -1)
       ELSE P

---------------------------------------------------------------------------
(* Rows coming in.  The search counters follow what is pushed and evicted.  *)

Evict(P) ==
    LET gone == CountMatches(Head(P.lines), P.search.pat)
        s == P.search
    IN IF ~Searching(P) THEN P
       ELSE IF s.line >= 0 /\ s.line = Oldest(P)
       THEN [P EXCEPT !.search = [s EXCEPT !.total = @ - gone, !.line = -1, !.index = 0]]
       ELSE [P EXCEPT !.search =
                [s EXCEPT !.total = @ - gone, !.index = AtLeast(@ - gone, 0)]]

PushLine(P0, bytes) ==
    LET n == Len(bytes)
        line == IF n > 0 /\ bytes[n] = 13 THEN SubSeq(bytes, 1, n - 1) ELSE bytes
        full == Len(P0.lines) = Capacity
        P == IF full THEN Evict(P0) ELSE P0
        counts == Searching(P) /\ (~Frozen(P) \/ P.total < P.ceiling)
    IN [P EXCEPT !.lines = Append(IF full THEN Tail(@) ELSE @, line),
                 !.total = @ + 1,
                 !.search.total =
                    IF counts THEN @ + CountMatches(line, P.search.pat) ELSE @]

\* tui_log_pull_from_vt100.
PullFromVt100(P) ==
    LET rows == P.vt.scrolled
        Pushed[i \in 0..Len(rows)] ==
            IF i = 0 THEN P ELSE PushLine(Pushed[i - 1], SerializeRow(rows[i]))
    IN [Pushed[Len(rows)] EXCEPT !.vt = DrainScrolled(@)]

---------------------------------------------------------------------------
(* Freezing, and moving about.                                              *)

Freeze(P) ==
    [P EXCEPT !.ceiling = P.total,
              !.snap = [r \in 1..P.vt.rows |-> SerializeRow(P.vt.grid[r - 1])],
              !.anchor = P.total + P.vt.rows - 1]

Unfreeze(P) == [P EXCEPT !.ceiling = -1, !.anchor = -1, !.snap = <<>>]

\* One step of a scroll key.  Past the newest line is the live tail, -1.
NavStep(P, key) ==
    LET newest == IF Frozen(P) THEN P.ceiling + Len(P.snap) - 1
                  ELSE P.total + P.vt.rows - 1
        current == IF P.anchor < 0 THEN newest ELSE P.anchor
        page == AtLeast(P.vt.rows, 1)
        Up(n) == AtLeast(current - n, Oldest(P))
        Down(n) == IF current + n > newest THEN -1 ELSE current + n
    IN [P EXCEPT !.anchor =
            CASE key = "UP" -> Up(1)
              [] key = "DOWN" -> Down(1)
              [] key = "PGUP" -> Up(page)
              [] key = "PGDN" -> Down(page)
              [] key = "HOME" -> Oldest(P)
              [] key = "END" -> -1]

SetMode(P, m) == [P EXCEPT !.mode = m, !.active = m # "LIVE"]
LeaveInspect(P) == SetMode(Unfreeze(SearchClear(P)), "LIVE")
EnterInspect(P) == SetMode(Freeze(P), "NAV")

---------------------------------------------------------------------------
(* The modal slot is one for all panes: "free" says nobody else holds it.   *)

OpenSearch(P, free) == IF free THEN SetMode(P, "SEARCH") ELSE P

\* The mode becomes HELP, while "active" keeps saying what lies under it.
OpenHelp(P, free) ==
    IF ~free THEN P
    ELSE [(IF P.active THEN P ELSE Freeze(P)) EXCEPT
            !.mode = "HELP", !.helpWasLive = ~P.active]

\* Mutant: the help page thaws what it did not freeze.
CloseModalThaws(P) ==
    IF P.mode = "HELP"
    THEN SetMode(Unfreeze([P EXCEPT !.helpWasLive = FALSE]),
                 IF P.helpWasLive THEN "LIVE" ELSE "NAV")
    ELSE SetMode(P, "NAV")

CloseModal(P) ==
    IF P.mode = "HELP" /\ P.helpWasLive
    THEN SetMode(Unfreeze([P EXCEPT !.helpWasLive = FALSE]), "LIVE")
    ELSE SetMode([P EXCEPT !.helpWasLive = FALSE], "NAV")

---------------------------------------------------------------------------
(* Yank: the line at the cursor, without its control sequences, goes to the *)
(* clipboard.  Stripping is a loop of its own: see Console.                 *)

LineAtCursor(P) ==
    LET g == IF P.anchor < 0 THEN P.total - 1 ELSE P.anchor
    IN IF g >= Oldest(P) /\ g < P.total THEN P.lines[GlobalToUser(P, g) + 1]
       ELSE <<>>

Yank(P) == [P EXCEPT !.yank = [Idle EXCEPT !.in = LineAtCursor(P)]]

\* Where a control sequence that starts at offset i ends.
SequenceEnd(in, i) ==
    LET n == Len(in)
        Ends(k) == CASE in[i + 2] = 91 -> in[k] \in 64..126
                     [] in[i + 2] = 93 -> in[k] = 7 \/ (in[k] = 92 /\ in[k - 1] = Esc)
                     [] OTHER -> FALSE
        stops == {k \in i+3..n : Ends(k)}
    IN CASE i + 1 = n -> n
         [] i + 1 < n /\ in[i + 2] \in {91, 93} ->
                IF stops = {} THEN n ELSE Least(stops)
         [] OTHER -> i + 2

\* One turn of the loop of tui_inspect_strip_ansi.  A plain byte is copied;
\* nothing moves on to the next one.
StripStep(y) ==
    IF y.in[y.i + 1] = Esc THEN [y EXCEPT !.i = SequenceEnd(y.in, y.i)]
    ELSE [y EXCEPT !.w = @ + 1]

---------------------------------------------------------------------------
(* A key.  Each handler yields the pane, and whether the key was used; what *)
(* is not used goes to the program the pane shows.                          *)

Used(P) == [pane |-> P, used |-> TRUE]
Unused(P) == [pane |-> P, used |-> FALSE]

Normalised(key) ==
    CASE key = "k" -> "UP" [] key = "WHEEL_UP" -> "UP"
      [] key = "j" -> "DOWN" [] key = "WHEEL_DOWN" -> "DOWN"
      [] key = "g" -> "HOME" [] key = "G" -> "END"
      [] OTHER -> key
Scrolling == {"UP", "DOWN", "PGUP", "PGDN", "HOME", "END"}

HandleNav(P, key, free) ==
    LET k == Normalised(key)
    IN CASE k \in Scrolling -> NavStep(P, k)
         [] k = "/" -> OpenSearch(P, free)
         [] k = "n" -> SearchNext(P)
         [] k = "N" -> SearchPrev(P)
         [] k = "?" -> OpenHelp(P, free)
         [] k = "y" -> Yank(P)
         [] k \in {"ESC", "q"} -> LeaveInspect(P)
         [] OTHER -> P

\* Enter brings the pattern typed; one that does not compile keeps the prompt.
HandleSearch(P, key, pat) ==
    CASE key = "ENTER" /\ pat # BadPattern -> CloseModal(SearchSet(P, pat))
      [] key = "ESC" -> CloseModal(P)
      [] OTHER -> P

InfoCloses == {"ESC", "ENTER", "q"}
HandleHelp(P, key) == IF key \in InfoCloses THEN CloseModal(P) ELSE P

\* A scroll key or the wheel enters inspect by itself, unless it did not move.
TryAutoEnter(P, key) ==
    LET Q == NavStep(EnterInspect(P), Normalised(key))
    IN IF key \notin {"PGUP", "PGDN", "WHEEL_UP", "WHEEL_DOWN"} THEN Unused(P)
       ELSE IF Q.anchor < 0 THEN Used(SetMode(Unfreeze(Q), "LIVE"))
       ELSE Used(Q)

HandlePrefix(P0, key, free) ==
    LET P == [P0 EXCEPT !.prefix = FALSE]
    IN CASE P.mode \in {"SEARCH", "HELP"} -> P
         [] P.mode \in {"LIVE", "NAV"} /\ key = "i" ->
                IF P.mode = "LIVE" THEN EnterInspect(P) ELSE P
         [] P.mode \in {"LIVE", "NAV"} /\ key = "y" -> Yank(P)
         [] P.mode \in {"LIVE", "NAV"} /\ key \in {"ESC", "q"} ->
                IF P.active THEN LeaveInspect(P) ELSE P
         [] P.mode \in {"LIVE", "NAV"} /\ key \in {"?", "h"} -> OpenHelp(P, free)
         [] OTHER -> P

OnEvent(P, key, pat, free) ==
    IF P.prefix THEN Used(HandlePrefix(P, key, free))
    ELSE IF key = "^T" THEN Used([P EXCEPT !.prefix = TRUE])
    ELSE CASE P.mode = "LIVE" -> TryAutoEnter(P, key)
           [] P.mode = "NAV" -> Used(HandleNav(P, key, free))
           [] P.mode = "SEARCH" -> Used(HandleSearch(P, key, pat))
           [] P.mode = "HELP" -> Used(HandleHelp(P, key))
=============================================================================
