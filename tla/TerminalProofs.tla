--------------------------- MODULE TerminalProofs ----------------------------
(***************************************************************************)
(* Proofs about Vt100, for terminals of any size and bytes of any kind: the *)
(* terminal stays in order whatever it is fed, text that flows leaves the  *)
(* rows outside the scroll region alone, and the cursor in it, and a row is *)
(* always drawn as bytes.                                                  *)
(***************************************************************************)
EXTENDS Vt100, WellFoundedInduction, SequenceTheorems, TLAPS

-----------------------------------------------------------------------------
(* Induction and functions that are computed step by step *)

\* A relation that makes the order of the naturals well-founded.
LEMMA NatOrder ==
    \E R : /\ IsWellFoundedOn(R, Nat)
           /\ \A x, y \in Nat : x < y => <<x, y>> \in R
<1>1. \A x, y \in Nat : x < y => <<x, y>> \in OpToRel(<, Nat)
      BY DEF OpToRel
<1> QED BY <1>1, NatLessThanWellFounded

\* Induction up to n.
LEMMA UpTo ==
    ASSUME NEW n \in Nat, NEW T, 0 \in T,
           \A i \in 1..n : i - 1 \in T => i \in T
    PROVE  \A i \in 0..n : i \in T
<1> SUFFICES ASSUME NEW U, U = (0..n) \ T, U # {} PROVE FALSE
    OBVIOUS
<1>1. PICK R : /\ IsWellFoundedOn(R, Nat)
               /\ \A x, y \in Nat : x < y => <<x, y>> \in R
      BY NatOrder
<1>2. IsWellFoundedOn(R, Nat) /\ U \subseteq Nat
      BY <1>1
<1>3. PICK x \in U : \A y \in U : ~ (<<y, x>> \in R)
      BY <1>2, WFMin
<1>4. PICK y \in Nat : x = y + 1
  <2>1. x \in Nat /\ x # 0
        OBVIOUS
  <2> QED BY <2>1, x - 1 \in Nat
<1>5. x \in 1..n /\ y = x - 1 /\ y \in 0..n /\ y < x /\ x \in Nat
      BY <1>4
<1>6. <<y, x>> \in R
      BY <1>1, <1>5
<1>7. y \notin U
      BY <1>3, <1>6
<1> QED BY <1>5, <1>7

Follows(h, a, g, n) == h[0] = a /\ \A i \in 1..n : h[i] = g[<<h[i-1], i>>]

\* A function whose values are computed one from the other.
LEMMA StepByStep ==
    ASSUME NEW S, NEW n \in Nat, NEW a \in S, NEW g \in [S \X (1..n) -> S]
    PROVE  \E h \in [0..n -> S] : Follows(h, a, g, n)
<1> DEFINE Right(h, k) == h[0] = a /\ \A i \in 1..k : h[i] = g[<<h[i-1], i>>]
<1> DEFINE T == {k \in 0..n : \E h \in [0..k -> S] : Right(h, k)}
<1>1. 0 \in T
  <2> DEFINE f == [i \in 0..0 |-> a]
  <2>1. f \in [0..0 -> S] /\ f[0] = a /\ 1..0 = {} /\ 0 \in 0..n
        OBVIOUS
  <2> QED BY <2>1
<1>2. ASSUME NEW k \in 1..n, k - 1 \in T PROVE k \in T
  <2>1. PICK h \in [0..k-1 -> S] : Right(h, k - 1)
        BY <1>2
  <2> DEFINE b == g[<<h[k-1], k>>]
  <2> DEFINE f == [i \in 0..k |-> IF i = k THEN b ELSE h[i]]
  <2>2. b \in S
        OBVIOUS
  <2>3. f \in [0..k -> S] /\ f[0] = a /\ f[k] = b
        BY <2>1, <2>2
  <2>4. \A i \in 0..k-1 : f[i] = h[i]
        OBVIOUS
  <2> HIDE DEF f
  <2>5. \A i \in 1..k-1 : f[i] = g[<<f[i-1], i>>]
    <3> SUFFICES ASSUME NEW i \in 1..k-1 PROVE f[i] = g[<<f[i-1], i>>]
        OBVIOUS
    <3>1. i \in 0..k-1 /\ i - 1 \in 0..k-1
          OBVIOUS
    <3>2. f[i] = h[i] /\ f[i-1] = h[i-1]
          BY <2>4, <3>1
    <3> QED BY <2>1, <3>2
  <2>6. f[k] = g[<<f[k-1], k>>]
    <3>1. k - 1 \in 0..k-1
          OBVIOUS
    <3> QED BY <2>3, <2>4, <3>1
  <2>7. \A i \in 1..k : f[i] = g[<<f[i-1], i>>]
    <3>1. \A i \in 1..k : i \in 1..k-1 \/ i = k
          OBVIOUS
    <3> QED BY <2>5, <2>6, <3>1
  <2> QED BY <2>3, <2>7
<1> HIDE DEF T
<1>3. \A k \in 0..n : k \in T
      BY <1>1, <1>2, UpTo
<1> QED BY <1>3 DEF T, Follows

-----------------------------------------------------------------------------
(* A terminal in order *)

Fields == {"rows", "cols", "grid", "row", "col", "sgr", "wrap", "autowrap",
           "visible", "alt", "top", "bot", "saved", "state", "origin", "params",
           "digits", "priv", "reply", "scrolled", "utf8", "need"}
Shape(V) == V = [f \in Fields |-> V[f]]

Cell == [cp : Nat, sgr : Sgrs]
Row(n) == [0..n-1 -> Cell]
Rows == UNION {Row(n) : n \in Nat}

Screen(V) ==
    /\ V.rows \in Nat \ {0} /\ V.cols \in Nat \ {0}
    /\ V.grid \in [0..V.rows-1 -> Row(V.cols)]
    /\ V.row \in 0..V.rows-1 /\ V.col \in 0..V.cols-1
    /\ V.top \in 0..V.bot /\ V.bot \in 0..V.rows-1
    /\ V.top < V.bot \/ (V.top = 0 /\ V.bot = V.rows - 1)
    /\ V.sgr \in Sgrs
    /\ V.wrap \in BOOLEAN /\ V.autowrap \in BOOLEAN
    /\ V.visible \in BOOLEAN /\ V.alt \in BOOLEAN
    /\ V.scrolled \in Seq(Rows)

Saves(V) ==
    V.saved \in [row : 0..V.rows-1, col : 0..V.cols-1, sgr : Sgrs, wrap : BOOLEAN]

Parsing(V) ==
    /\ V.state \in States /\ V.origin \in {"GROUND"} \cup StringStates
    /\ ((V.state = "STRING_ESC") <=> (V.origin # "GROUND"))
    /\ V.need \in 0..3 /\ (V.need > 0 => V.state = "GROUND")
    /\ V.params \in Seq(Nat) /\ Len(V.params) <= MaxParams
    /\ V.digits \in Int /\ V.digits >= -1 /\ V.digits <= MaxNumber
    /\ V.priv \in Nat /\ V.utf8 \in Nat
Replies(V) == V.reply \in Seq(Nat) /\ Len(V.reply) <= ReplyCap

TermInv(V) == Shape(V) /\ Screen(V) /\ Saves(V) /\ Parsing(V) /\ Replies(V)

SameParser(V, W) ==
    /\ W.state = V.state /\ W.origin = V.origin /\ W.need = V.need
    /\ W.params = V.params /\ W.digits = V.digits /\ W.priv = V.priv
    /\ W.utf8 = V.utf8
SameScreen(V, W) ==
    /\ W.rows = V.rows /\ W.cols = V.cols /\ W.grid = V.grid
    /\ W.row = V.row /\ W.col = V.col /\ W.top = V.top /\ W.bot = V.bot
    /\ W.sgr = V.sgr /\ W.wrap = V.wrap /\ W.autowrap = V.autowrap
    /\ W.visible = V.visible /\ W.alt = V.alt /\ W.scrolled = V.scrolled

\* W is V after something was drawn, or the cursor moved.
Drew(V, W) ==
    /\ Shape(W) /\ Screen(W) /\ W.rows = V.rows /\ W.cols = V.cols
    /\ SameParser(V, W) /\ W.saved = V.saved /\ W.reply = V.reply

\* W is V after the parser took a byte that draws nothing.
Took(V, W) ==
    /\ Shape(W) /\ SameScreen(V, W) /\ W.saved = V.saved /\ W.reply = V.reply
    /\ Parsing(W)

\* Drawing keeps a terminal in order.
LEMMA DrewKeeps ==
    ASSUME NEW V, TermInv(V), NEW W, Drew(V, W)
    PROVE  TermInv(W)
<1>1. /\ Shape(W) /\ Screen(W) /\ W.rows = V.rows /\ W.cols = V.cols
      /\ SameParser(V, W) /\ W.saved = V.saved /\ W.reply = V.reply
      BY DEF Drew
<1>2. Saves(W)
      BY <1>1 DEF TermInv, Saves
<1>3. Parsing(W)
      BY <1>1 DEF TermInv, SameParser, Parsing
<1>4. Replies(W)
      BY <1>1 DEF TermInv, Replies
<1> QED BY <1>1, <1>2, <1>3, <1>4 DEF TermInv

LEMMA DrewOn ==
    ASSUME NEW V, NEW W, Drew(V, W), NEW X, Drew(W, X)
    PROVE  Drew(V, X)
BY DEF Drew, SameParser

\* So does a byte that draws nothing.
LEMMA TookKeeps ==
    ASSUME NEW V, TermInv(V), NEW W, Took(V, W)
    PROVE  TermInv(W)
BY DEF TermInv, Took, SameScreen, Saves, Screen, Replies

\* What the model asserts of a terminal follows from the invariant.
LEMMA TermIsOK ==
    ASSUME NEW V, TermInv(V)
    PROVE  TerminalOK(V)
<1>1. Screen(V) /\ Saves(V) /\ Parsing(V) /\ Replies(V)
      BY DEF TermInv
<1>2. /\ V.row \in 0..V.rows-1 /\ V.col \in 0..V.cols-1
      /\ V.top \in 0..V.bot /\ V.bot \in 0..V.rows-1
      /\ V.top < V.bot \/ (V.top = 0 /\ V.bot = V.rows - 1)
      /\ V.sgr \in Sgrs
      /\ V.grid \in [0..V.rows-1 -> Row(V.cols)]
      BY <1>1 DEF Screen
<1>3. /\ V.saved.row \in 0..V.rows-1 /\ V.saved.col \in 0..V.cols-1
      /\ V.saved.sgr \in Sgrs
      BY <1>1 DEF Saves
<1>4. /\ V.state \in States /\ V.origin \in {"GROUND"} \cup StringStates
      /\ (V.state = "STRING_ESC") <=> (V.origin # "GROUND")
      /\ V.need \in 0..3 /\ (V.need > 0 => V.state = "GROUND")
      /\ Len(V.params) <= MaxParams
      /\ V.digits \in Int /\ V.digits >= -1 /\ V.digits <= MaxNumber
      BY <1>1 DEF Parsing
<1>5. Len(V.reply) <= ReplyCap
      BY <1>1 DEF Replies
<1>6. V.grid \in [0..V.rows-1 -> [0..V.cols-1 -> [cp : Nat, sgr : Sgrs]]]
      BY <1>2 DEF Row, Cell
<1>7. V.top < V.bot \/ FullScreen(V)
      BY <1>2 DEF FullScreen
<1>8. (V.state = "STRING_ESC") = (V.origin # "GROUND")
      BY <1>4
<1>9. V.digits \in -1..MaxNumber
      BY <1>4
<1> QED BY <1>2, <1>3, <1>4, <1>5, <1>6, <1>7, <1>8, <1>9, Zenon DEF TerminalOK

LEMMA Regrid ==
    ASSUME NEW V, TermInv(V), NEW g \in [0..V.rows-1 -> Row(V.cols)]
    PROVE  Drew(V, [V EXCEPT !.grid = g])
<1> DEFINE W == [V EXCEPT !.grid = g]
<1>1. Shape(W)
      BY DEF TermInv, Shape
<1>2. /\ W.grid = g /\ W.rows = V.rows /\ W.cols = V.cols /\ W.row = V.row
      /\ W.col = V.col /\ W.top = V.top /\ W.bot = V.bot /\ W.sgr = V.sgr
      /\ W.wrap = V.wrap /\ W.autowrap = V.autowrap /\ W.visible = V.visible
      /\ W.alt = V.alt /\ W.scrolled = V.scrolled
      /\ SameParser(V, W) /\ W.saved = V.saved /\ W.reply = V.reply
      BY DEF TermInv, Shape, Fields, SameParser
<1> HIDE DEF W
<1>3. Screen(W)
      BY <1>2 DEF TermInv, Screen
<1>4. Drew(V, W)
      BY <1>1, <1>2, <1>3 DEF Drew
<1> QED BY <1>4 DEF W

PlacedAt(V, r, c, w) == [V EXCEPT !.row = r, !.col = c, !.wrap = w]

LEMMA Moved ==
    ASSUME NEW V, TermInv(V), NEW r \in 0..V.rows-1, NEW c \in 0..V.cols-1,
           NEW w \in BOOLEAN,
           NEW W, W = PlacedAt(V, r, c, w)
    PROVE  /\ Drew(V, W) /\ W.row = r /\ W.col = c /\ W.wrap = w
           /\ W.grid = V.grid /\ W.top = V.top /\ W.bot = V.bot
<1>1. Shape(W)
      BY DEF TermInv, Shape, PlacedAt
<1>2. /\ W.grid = V.grid /\ W.rows = V.rows /\ W.cols = V.cols /\ W.row = r
      /\ W.col = c /\ W.top = V.top /\ W.bot = V.bot /\ W.sgr = V.sgr
      /\ W.wrap = w /\ W.autowrap = V.autowrap /\ W.visible = V.visible
      /\ W.alt = V.alt /\ W.scrolled = V.scrolled
      /\ SameParser(V, W) /\ W.saved = V.saved /\ W.reply = V.reply
      BY DEF TermInv, Shape, Fields, SameParser, PlacedAt
<1>3. Screen(W)
      BY <1>2 DEF TermInv, Screen
<1> QED BY <1>1, <1>2, <1>3 DEF Drew

-----------------------------------------------------------------------------
(* Erasing and scrolling *)

LEMMA BlankTyped ==
    ASSUME NEW V, TermInv(V)
    PROVE  /\ Blank(V.sgr) \in Cell
           /\ BlankRow(V.cols, V.sgr) \in Row(V.cols)
<1>1. V.sgr \in Sgrs /\ V.cols \in Nat
      BY DEF TermInv, Screen
<1>2. Blank(V.sgr) \in Cell
      BY <1>1 DEF Blank, Cell
<1> QED BY <1>1, <1>2 DEF BlankRow, Row

LEMMA ErasesOnly ==
    ASSUME NEW V, TermInv(V), NEW r0, NEW c0, NEW r1, NEW c1
    PROVE  Drew(V, Erase(V, r0, c0, r1, c1))
<1> DEFINE last == AtMost(r1, V.rows - 1)
           right == AtMost(c1, V.cols - 1)
           Hit(r, c) == /\ r >= AtLeast(r0, 0) /\ r <= last
                        /\ r = AtLeast(r0, 0) => c >= c0
                        /\ r = last => c <= right
           g == [r \in DOMAIN V.grid |-> [c \in DOMAIN V.grid[r] |->
                    IF Hit(r, c) THEN Blank(V.sgr) ELSE V.grid[r][c]]]
<1>1. Erase(V, r0, c0, r1, c1) = [V EXCEPT !.grid = g]
      BY DEF Erase
<1>2. V.grid \in [0..V.rows-1 -> Row(V.cols)]
      BY DEF TermInv, Screen
<1>3. ASSUME NEW r \in 0..V.rows-1
      PROVE  [c \in DOMAIN V.grid[r] |->
                    IF Hit(r, c) THEN Blank(V.sgr) ELSE V.grid[r][c]] \in Row(V.cols)
  <2>1. V.grid[r] \in Row(V.cols)
        BY <1>2
  <2> HIDE DEF Hit
  <2> QED BY <2>1, BlankTyped DEF Row
<1>4. g \in [0..V.rows-1 -> Row(V.cols)]
      BY <1>2, <1>3
<1> HIDE DEF g
<1> QED BY <1>1, <1>4, Regrid

Outside(V, W, top, bot) ==
    \A r \in 0..V.rows-1 : r \notin top..bot => W.grid[r] = V.grid[r]

\* Scrolling leaves the rows outside the region alone.
LEMMA ShiftsUp ==
    ASSUME NEW V, TermInv(V), NEW top \in Nat, NEW bot \in 0..V.rows-1, NEW n \in Nat
    PROVE  /\ Drew(V, ShiftUp(V, top, bot, n))
           /\ Outside(V, ShiftUp(V, top, bot, n), top, bot)
<1> DEFINE g == [r \in DOMAIN V.grid |->
        IF r \notin top..bot THEN V.grid[r]
        ELSE IF r + n <= bot THEN V.grid[r + n] ELSE BlankRow(V.cols, V.sgr)]
    W == ShiftUp(V, top, bot, n)
<1>1. W = [V EXCEPT !.grid = g]
      BY DEF ShiftUp
<1>2. V.grid \in [0..V.rows-1 -> Row(V.cols)] /\ V.rows \in Nat
      BY DEF TermInv, Screen
<1>3. BlankRow(V.cols, V.sgr) \in Row(V.cols)
      BY BlankTyped
<1>4. \A r \in 0..V.rows-1 : r \in top..bot /\ r + n <= bot => r + n \in 0..V.rows-1
      BY <1>2
<1>5. g \in [0..V.rows-1 -> Row(V.cols)]
      BY <1>2, <1>3, <1>4
<1>6. \A r \in 0..V.rows-1 : r \notin top..bot => g[r] = V.grid[r]
      BY <1>2
<1> HIDE DEF g, W
<1>7. Drew(V, W)
      BY <1>1, <1>5, Regrid
<1>8. W.grid = g
      BY <1>1 DEF TermInv, Shape, Fields
<1>9. Outside(V, W, top, bot)
      BY <1>6, <1>8 DEF Outside
<1> QED BY <1>7, <1>9 DEF W

LEMMA ShiftsDown ==
    ASSUME NEW V, TermInv(V), NEW top \in Nat, NEW bot \in 0..V.rows-1, NEW n \in Nat
    PROVE  Drew(V, ShiftDown(V, top, bot, n))
<1> DEFINE g == [r \in DOMAIN V.grid |->
        IF r \notin top..bot THEN V.grid[r]
        ELSE IF r - n >= top THEN V.grid[r - n] ELSE BlankRow(V.cols, V.sgr)]
<1>1. ShiftDown(V, top, bot, n) = [V EXCEPT !.grid = g]
      BY DEF ShiftDown
<1>2. V.grid \in [0..V.rows-1 -> Row(V.cols)] /\ V.rows \in Nat
      BY DEF TermInv, Screen
<1>3. BlankRow(V.cols, V.sgr) \in Row(V.cols)
      BY BlankTyped
<1>4. \A r \in 0..V.rows-1 : r \in top..bot /\ r - n >= top => r - n \in 0..V.rows-1
      BY <1>2
<1>5. g \in [0..V.rows-1 -> Row(V.cols)]
      BY <1>2, <1>3, <1>4
<1> HIDE DEF g
<1> QED BY <1>1, <1>5, Regrid

\* Text that goes on: the rows outside the margins stay, the cursor inside.
Flows(V, W) ==
    /\ Drew(V, W) /\ W.top = V.top /\ W.bot = V.bot
    /\ InRegion(V) => InRegion(W) /\ Outside(V, W, V.top, V.bot)

\* A scroll, which also queues rows for the log.
LEMMA Scrolls ==
    ASSUME NEW V, TermInv(V), NEW n \in Nat
    PROVE  Flows(V, ScrollUp(V, n)) 
<1> DEFINE gone == AtMost(n, V.bot - V.top + 1)
    off == [i \in 1..gone |-> V.grid[V.top + i - 1]]
    q == IF FullScreen(V) /\ ~V.alt THEN V.scrolled \o off ELSE V.scrolled
    U == ShiftUp(V, V.top, V.bot, n)
    W == ScrollUp(V, n)
<1>1. /\ V.grid \in [0..V.rows-1 -> Row(V.cols)] /\ V.rows \in Nat /\ V.cols \in Nat
      /\ V.top \in 0..V.bot /\ V.bot \in 0..V.rows-1 /\ V.scrolled \in Seq(Rows)
      BY DEF TermInv, Screen
<1>2. Drew(V, U) /\ Outside(V, U, V.top, V.bot)
      BY <1>1, ShiftsUp
<1>3. U.scrolled = V.scrolled /\ U.top = V.top /\ U.bot = V.bot /\ U.row = V.row
      BY DEF ShiftUp, TermInv, Shape, Fields
<1>4. gone \in Nat /\ gone <= V.bot - V.top + 1
      BY <1>1 DEF AtMost
<1>5. off \in Seq(Rows)
  <2>1. ASSUME NEW i \in 1..gone PROVE V.grid[V.top + i - 1] \in Rows
    <3>1. V.top + i - 1 \in 0..V.rows-1
          BY <1>1, <1>4
    <3>2. V.grid[V.top + i - 1] \in Row(V.cols)
          BY <1>1, <3>1
    <3> QED BY <1>1, <3>2 DEF Rows
  <2> QED BY <1>4, <2>1
<1>6. q \in Seq(Rows)
      BY <1>1, <1>5
<1>7. W = [U EXCEPT !.scrolled = q]
      BY <1>3 DEF ScrollUp
<1> HIDE DEF U, W, q
<1>8. Shape(W)
      BY <1>2, <1>7 DEF Drew, Shape
<1>9. /\ W.grid = U.grid /\ W.scrolled = q
      /\ W.rows = U.rows /\ W.cols = U.cols /\ W.row = U.row /\ W.col = U.col
      /\ W.top = U.top /\ W.bot = U.bot /\ W.sgr = U.sgr
      /\ W.wrap = U.wrap /\ W.autowrap = U.autowrap
      /\ W.visible = U.visible /\ W.alt = U.alt
      /\ SameParser(U, W) /\ W.saved = U.saved /\ W.reply = U.reply
      BY <1>2, <1>7 DEF Drew, Shape, Fields, SameParser
<1>10. Screen(W)
      BY <1>2, <1>6, <1>9 DEF Drew, Screen
<1>11. Drew(U, W)
      BY <1>8, <1>9, <1>10 DEF Drew
<1>12. Drew(V, W)
      BY <1>2, <1>11, DrewOn
<1>13. Outside(V, W, V.top, V.bot)
      BY <1>2, <1>9 DEF Outside
<1> QED BY <1>3, <1>9, <1>12, <1>13 DEF Flows, InRegion, W

LEMMA SameTypes ==
    ASSUME NEW V, TermInv(V)
    PROVE  /\ Shape(V) /\ Screen(V) /\ V.rows \in Nat \ {0} /\ V.cols \in Nat \ {0}
           /\ V.row \in 0..V.rows-1 /\ V.col \in 0..V.cols-1
           /\ V.top \in 0..V.bot /\ V.bot \in 0..V.rows-1
           /\ V.wrap \in BOOLEAN
           /\ V.grid \in [0..V.rows-1 -> Row(V.cols)]
BY DEF TermInv, Screen

LEMMA DrewNothing ==
    ASSUME NEW V, TermInv(V)
    PROVE  Flows(V, V)
BY DEF TermInv, Flows, Drew, Outside, SameParser

LEMMA FlowsOn ==
    ASSUME NEW V, NEW W, Flows(V, W), NEW X, Flows(W, X)
    PROVE  Flows(V, X)
<1>1. Drew(V, W) /\ Drew(W, X)
      BY DEF Flows
<1>2. Drew(V, X)
      BY <1>1, DrewOn
<1>3. W.rows = V.rows
      BY <1>1 DEF Drew
<1> QED BY <1>2, <1>3 DEF Flows, Outside

LEMMA FlowsKeeps ==
    ASSUME NEW V, TermInv(V), NEW W, Flows(V, W)
    PROVE  TermInv(W)
BY DrewKeeps DEF Flows

LEMMA Moving ==
    ASSUME NEW V, TermInv(V), NEW r \in 0..V.rows-1, NEW c \in 0..V.cols-1,
           NEW w \in BOOLEAN,
           NEW W, W = PlacedAt(V, r, c, w),
           InRegion(V) => r \in V.top..V.bot
    PROVE  Flows(V, W)
<1>1. Drew(V, W) /\ W.row = r /\ W.grid = V.grid /\ W.top = V.top /\ W.bot = V.bot
      BY Moved
<1> QED BY <1>1 DEF Flows, InRegion, Outside

LEMMA WithinTyped ==
    ASSUME NEW x \in Int, NEW hi \in Nat
    PROVE  Within(x, 0, hi) \in 0..hi
BY DEF Within, AtLeast, AtMost

LEMMA CursorMoves ==
    ASSUME NEW V, TermInv(V), NEW row \in Int, NEW col \in Int
    PROVE  Drew(V, CursorMove(V, row, col))
<1>1. V.rows - 1 \in Nat /\ V.cols - 1 \in Nat
      BY SameTypes
<1>2. /\ Within(row, 0, V.rows - 1) \in 0..V.rows-1
      /\ Within(col, 0, V.cols - 1) \in 0..V.cols-1
      BY <1>1, WithinTyped
<1> DEFINE r == Within(row, 0, V.rows - 1)
           c == Within(col, 0, V.cols - 1)
<1>3. CursorMove(V, row, col) = PlacedAt(V, r, c, FALSE)
      BY DEF CursorMove, PlacedAt
<1>4. r \in 0..V.rows-1 /\ c \in 0..V.cols-1 /\ FALSE \in BOOLEAN
      BY <1>2
<1> HIDE DEF r, c
<1> QED BY <1>3, <1>4, Moved

LEMMA Unwraps ==
    ASSUME NEW V, TermInv(V), NEW c \in 0..V.cols-1, NEW w \in BOOLEAN
    PROVE  /\ Flows(V, [V EXCEPT !.wrap = w])
           /\ Flows(V, [V EXCEPT !.col = c])
           /\ Flows(V, [V EXCEPT !.wrap = w, !.col = c])
           /\ Flows(V, [V EXCEPT !.col = c, !.wrap = w])
<1>1. /\ V.row \in 0..V.rows-1 /\ V.col \in 0..V.cols-1 /\ V.wrap \in BOOLEAN
      /\ InRegion(V) => V.row \in V.top..V.bot
      BY SameTypes DEF InRegion
<1>2. [V EXCEPT !.wrap = w] = PlacedAt(V, V.row, V.col, w)
      BY DEF PlacedAt, TermInv, Shape, Fields
<1>3. [V EXCEPT !.col = c] = PlacedAt(V, V.row, c, V.wrap)
      BY DEF PlacedAt, TermInv, Shape, Fields
<1>4. [V EXCEPT !.wrap = w, !.col = c] = PlacedAt(V, V.row, c, w)
      BY DEF PlacedAt, TermInv, Shape, Fields
<1>5. [V EXCEPT !.col = c, !.wrap = w] = PlacedAt(V, V.row, c, w)
      BY DEF PlacedAt, TermInv, Shape, Fields
<1>6. Flows(V, [V EXCEPT !.wrap = w])
      BY <1>1, <1>2, Moving
<1>7. Flows(V, [V EXCEPT !.col = c])
      BY <1>1, <1>3, Moving
<1>8. Flows(V, [V EXCEPT !.wrap = w, !.col = c])
      BY <1>1, <1>4, Moving
<1>9. Flows(V, [V EXCEPT !.col = c, !.wrap = w])
      BY <1>1, <1>5, Moving
<1> QED BY <1>6, <1>7, <1>8, <1>9

LEMMA Advances ==
    ASSUME NEW V, TermInv(V)
    PROVE  Flows(V, CursorAdvanceRow(V))
<1>1. CASE V.row = V.bot
      BY <1>1, Scrolls DEF CursorAdvanceRow
<1>2. CASE V.row # V.bot /\ V.row + 1 < V.rows
  <2> DEFINE W == [V EXCEPT !.row = V.row + 1]
  <2>1. W = PlacedAt(V, V.row + 1, V.col, V.wrap)
        BY DEF PlacedAt, TermInv, Shape, Fields
  <2>2. /\ V.row + 1 \in 0..V.rows-1 /\ V.col \in 0..V.cols-1 /\ V.wrap \in BOOLEAN
        /\ InRegion(V) => V.row + 1 \in V.top..V.bot
        BY <1>2, SameTypes DEF InRegion
  <2>3. Flows(V, W)
        BY <2>1, <2>2, Moving
  <2> QED BY <1>2, <2>3 DEF CursorAdvanceRow
<1>3. CASE V.row # V.bot /\ ~ (V.row + 1 < V.rows)
      BY <1>3, DrewNothing DEF CursorAdvanceRow
<1> QED BY <1>1, <1>2, <1>3

LEMMA WrapFlows ==
    ASSUME NEW V, TermInv(V)
    PROVE  Flows(V, Wrapped(V))
<1>1. CASE ~V.wrap
      BY <1>1, DrewNothing DEF Wrapped
<1>2. CASE V.wrap /\ V.autowrap
  <2> DEFINE U == [V EXCEPT !.col = 0]
             X == CursorAdvanceRow(U)
  <2>1. 0 \in 0..V.cols-1
        BY SameTypes
  <2>2. Flows(V, U)
        BY <2>1, Unwraps
  <2>3. TermInv(U)
        BY <2>2, FlowsKeeps
  <2>4. Flows(U, X)
        BY <2>3, Advances
  <2>5. TermInv(X)
        BY <2>3, <2>4, FlowsKeeps
  <2>6. 0 \in 0..X.cols-1
        BY <2>5, SameTypes
  <2>7. Flows(X, [X EXCEPT !.wrap = FALSE])
        BY <2>5, <2>6, Unwraps
  <2>8. Wrapped(V) = [X EXCEPT !.wrap = FALSE]
        BY <1>2 DEF Wrapped
  <2> HIDE DEF U, X
  <2>9. Flows(V, X)
        BY <2>2, <2>4, FlowsOn
  <2> QED BY <2>7, <2>8, <2>9, FlowsOn
<1>3. CASE V.wrap /\ ~V.autowrap
  <2>1. 0 \in 0..V.cols-1
        BY SameTypes
  <2>2. Flows(V, [V EXCEPT !.wrap = FALSE])
        BY <2>1, Unwraps
  <2> QED BY <1>3, <2>2 DEF Wrapped
<1>4. V.wrap \in BOOLEAN /\ V.autowrap \in BOOLEAN
      BY DEF TermInv, Screen
<1> QED BY <1>1, <1>2, <1>3, <1>4

-----------------------------------------------------------------------------
(* Printing a character *)

\* A cell is written at the cursor, and the cursor goes on in its row.
Writes(V, g, c, w) == [V EXCEPT !.grid = g, !.col = c, !.wrap = w]

LEMMA Writing ==
    ASSUME NEW V, TermInv(V), NEW g \in [0..V.rows-1 -> Row(V.cols)],
           NEW c \in 0..V.cols-1, NEW w \in BOOLEAN,
           \A r \in 0..V.rows-1 : r # V.row => g[r] = V.grid[r]
    PROVE  Flows(V, Writes(V, g, c, w))
<1> DEFINE W == Writes(V, g, c, w)
<1>1. Shape(W)
      BY DEF TermInv, Shape, Writes
<1>2. /\ W.grid = g /\ W.scrolled = V.scrolled
      /\ W.rows = V.rows /\ W.cols = V.cols /\ W.row = V.row /\ W.col = c
      /\ W.top = V.top /\ W.bot = V.bot /\ W.sgr = V.sgr
      /\ W.wrap = w /\ W.autowrap = V.autowrap
      /\ W.visible = V.visible /\ W.alt = V.alt
      /\ SameParser(V, W) /\ W.saved = V.saved /\ W.reply = V.reply
      BY DEF TermInv, Shape, Fields, SameParser, Writes
<1> HIDE DEF W
<1>3. Screen(W)
      BY <1>2 DEF TermInv, Screen
<1>4. Drew(V, W)
      BY <1>1, <1>2, <1>3 DEF Drew
<1>5. Outside(V, W, V.top, V.bot) \/ ~InRegion(V)
      BY <1>2 DEF Outside, InRegion
<1>6. InRegion(V) => InRegion(W)
      BY <1>2 DEF InRegion
<1>7. Flows(V, W)
      BY <1>2, <1>4, <1>5, <1>6 DEF Flows
<1> QED BY <1>7 DEF W

\* A printed character, with the wrap that was pending (put_printable).
LEMMA Prints ==
    ASSUME NEW V0, TermInv(V0), NEW cp \in Nat
    PROVE  Flows(V0, PutPrintable(V0, cp))
<1> DEFINE V == Wrapped(V0)
           more == V.col + 1 < V.cols
           new == [cp |-> cp, sgr |-> V.sgr]
           g == [V.grid EXCEPT ![V.row] = [V.grid[V.row] EXCEPT ![V.col] = new]]
           c == IF more THEN V.col + 1 ELSE V.col
<1>1. Flows(V0, V)
      BY WrapFlows
<1>2. TermInv(V)
      BY <1>1, FlowsKeeps
<1>3. PutPrintable(V0, cp) = Writes(V, g, c, ~more)
      BY <1>2 DEF PutPrintable, Writes, TermInv, Shape, Fields
<1> HIDE DEF V
<1>4. new \in Cell
      BY <1>2 DEF Cell, TermInv, Screen
<1>5. /\ V.grid \in [0..V.rows-1 -> Row(V.cols)]
      /\ V.row \in 0..V.rows-1 /\ V.col \in 0..V.cols-1
      /\ V.rows \in Nat /\ V.cols \in Nat
      BY <1>2, SameTypes
<1>6. V.grid[V.row] \in [0..V.cols-1 -> Cell]
      BY <1>5 DEF Row
<1> HIDE DEF new
<1>7. [V.grid[V.row] EXCEPT ![V.col] = new] \in Row(V.cols)
      BY <1>4, <1>5, <1>6 DEF Row
<1>8. g \in [0..V.rows-1 -> Row(V.cols)]
      BY <1>5, <1>7
<1>9. \A r \in 0..V.rows-1 : r # V.row => g[r] = V.grid[r]
      BY <1>5
<1>10. c \in 0..V.cols-1 /\ (~more) \in BOOLEAN
      BY <1>5
<1> HIDE DEF g, c, more
<1>11. Flows(V, Writes(V, g, c, ~more))
      BY <1>2, <1>8, <1>9, <1>10, Writing
<1> QED BY <1>1, <1>3, <1>11, FlowsOn

Pending(V, n, u) == [V EXCEPT !.need = n, !.utf8 = u]

LEMMA PendingKept ==
    ASSUME NEW V, TermInv(V), NEW n \in 0..3, NEW u \in Nat, V.state = "GROUND"
    PROVE  LET W == Pending(V, n, u)
           IN TermInv(W) /\ SameScreen(V, W) /\ W.state = "GROUND" /\ W.need = n
<1> DEFINE W == Pending(V, n, u)
<1>1. Shape(W)
      BY DEF TermInv, Shape, Pending
<1>2. /\ SameScreen(V, W) /\ W.saved = V.saved /\ W.reply = V.reply
      /\ W.state = V.state /\ W.origin = V.origin /\ W.need = n /\ W.utf8 = u
      /\ W.params = V.params /\ W.digits = V.digits /\ W.priv = V.priv
      BY DEF TermInv, Shape, Fields, SameScreen, Pending
<1> HIDE DEF W
<1>3. Parsing(W)
      BY <1>2 DEF TermInv, Parsing
<1>4. Took(V, W)
      BY <1>1, <1>2, <1>3 DEF Took
<1>5. TermInv(W)
      BY <1>4, TookKeeps
<1> QED BY <1>2, <1>5 DEF W

\* The same of steps that may also drop, or keep, a part of a character.
Ran(V, W) ==
    /\ TermInv(W) /\ W.state = V.state /\ W.rows = V.rows /\ W.cols = V.cols
    /\ W.top = V.top /\ W.bot = V.bot
    /\ InRegion(V) => InRegion(W) /\ Outside(V, W, V.top, V.bot)

LEMMA RanOn ==
    ASSUME NEW V, NEW W, Ran(V, W), NEW X, Ran(W, X)
    PROVE  Ran(V, X)
BY DEF Ran, Outside

LEMMA FlowsRan ==
    ASSUME NEW V, TermInv(V), NEW W, Flows(V, W)
    PROVE  Ran(V, W) /\ W.need = V.need
BY FlowsKeeps DEF Ran, Flows, Drew, SameParser

LEMMA PendingRan ==
    ASSUME NEW V, TermInv(V), NEW n \in 0..3, NEW u \in Nat, V.state = "GROUND"
    PROVE  Ran(V, Pending(V, n, u)) /\ Pending(V, n, u).need = n
<1> DEFINE W == Pending(V, n, u)
<1>1. TermInv(W) /\ SameScreen(V, W) /\ W.state = "GROUND" /\ W.need = n
      BY PendingKept
<1> HIDE DEF W
<1>2. Ran(V, W)
      BY <1>1 DEF Ran, SameScreen, InRegion, Outside
<1> QED BY <1>1, <1>2 DEF W

LEMMA PrintRan ==
    ASSUME NEW V, TermInv(V), NEW cp \in Nat
    PROVE  Ran(V, PutPrintable(V, cp))
BY Prints, FlowsRan

LEMMA FlushRan ==
    ASSUME NEW V, TermInv(V)
    PROVE  Ran(V, FlushUtf8(V)) /\ FlushUtf8(V).need = 0
<1>1. CASE V.need = 0
  <2>1. Ran(V, V)
        BY DEF Ran, Outside
  <2> QED BY <1>1, <2>1 DEF FlushUtf8
<1>2. CASE V.need # 0
  <2> DEFINE W == PutPrintable(V, Replacement)
             X == Pending(W, 0, 0)
  <2>1. V.state = "GROUND"
        BY <1>2 DEF TermInv, Parsing
  <2>2. Ran(V, W)
        BY PrintRan DEF Replacement
  <2>3. TermInv(W) /\ W.state = "GROUND"
        BY <2>1, <2>2 DEF Ran
  <2> HIDE DEF W
  <2>4. Ran(W, X) /\ X.need = 0
        BY <2>3, PendingRan
  <2>6. FlushUtf8(V) = X
        BY <1>2 DEF FlushUtf8, W, Pending
  <2> HIDE DEF X
  <2> QED BY <2>2, <2>4, <2>6, RanOn
<1> QED BY <1>1, <1>2

LEMMA FlushPrintRan ==
    ASSUME NEW V, TermInv(V), NEW cp \in Nat
    PROVE  Ran(V, PutPrintable(FlushUtf8(V), cp))
<1>1. Ran(V, FlushUtf8(V))
      BY FlushRan
<1>2. TermInv(FlushUtf8(V))
      BY <1>1 DEF Ran
<1> QED BY <1>1, <1>2, PrintRan, RanOn

LEMMA LeadRan ==
    ASSUME NEW V, TermInv(V), V.state = "GROUND", NEW u \in Nat, NEW n \in 0..3
    PROVE  Ran(V, Pending(FlushUtf8(V), n, u))
<1> DEFINE W == FlushUtf8(V)
<1>1. Ran(V, W)
      BY FlushRan
<1> HIDE DEF W
<1>2. TermInv(W) /\ W.state = "GROUND"
      BY <1>1 DEF Ran
<1>3. Ran(W, Pending(W, n, u))
      BY <1>2, PendingRan
<1> QED BY <1>1, <1>3, RanOn DEF W

\* A byte of a character of several bytes (put_utf8_byte).
LEMMA Utf8Ran ==
    ASSUME NEW V, TermInv(V), V.state = "GROUND", NEW c \in Nat
    PROVE  Ran(V, PutUtf8Byte(V, c))
<1>0. TermInv(FlushUtf8(V))
      BY FlushRan DEF Ran
<1>1. CASE c < 128
  <2>1. PutUtf8Byte(V, c) = PutPrintable(FlushUtf8(V), c)
        BY <1>1 DEF PutUtf8Byte
  <2> QED BY <2>1, FlushPrintRan
<1>2. CASE c >= 128 /\ c <= 191
  <2> DEFINE cp == V.utf8 * 64 + (c % 64)
  <2>1. V.utf8 \in Nat /\ V.need \in 0..3
        BY DEF TermInv, Parsing
  <2>2. c % 64 \in Nat
        OBVIOUS
  <2>3. cp \in Nat
        BY <2>1, <2>2
  <2>4. PutUtf8Byte(V, c) =
          IF V.need = 0 THEN PutPrintable(V, Replacement)
          ELSE IF V.need = 1
          THEN PutPrintable(Pending(V, 0, 0), cp)
          ELSE Pending(V, V.need - 1, cp)
        BY <1>2 DEF PutUtf8Byte, Pending
  <2> HIDE DEF cp
  <2>5. CASE V.need = 0
        BY <2>4, <2>5, PrintRan DEF Replacement
  <2>6. CASE V.need = 1
    <3> DEFINE W == Pending(V, 0, 0)
    <3>1. Ran(V, W)
          BY PendingRan
    <3>2. TermInv(W)
          BY <3>1 DEF Ran
    <3>3. Ran(W, PutPrintable(W, cp))
          BY <2>3, <3>2, PrintRan
    <3> HIDE DEF W
    <3>4. Ran(V, PutPrintable(W, cp))
          BY <3>1, <3>3, RanOn
    <3> QED BY <2>4, <2>6, <3>4 DEF W
  <2>7. CASE V.need \notin {0, 1}
    <3>1. V.need - 1 \in 0..3
          BY <2>1, <2>7
    <3>2. Ran(V, Pending(V, V.need - 1, cp))
          BY <2>3, <3>1, PendingRan
    <3> QED BY <2>4, <2>7, <3>2
  <2> QED BY <2>5, <2>6, <2>7
<1>3. CASE c >= 192 /\ c <= 223
  <2>1. PutUtf8Byte(V, c) = Pending(FlushUtf8(V), 1, c % 32)
    <3>1. PutUtf8Byte(V, c) = [FlushUtf8(V) EXCEPT !.utf8 = c % 32, !.need = 1]
          BY <1>3 DEF PutUtf8Byte
    <3> QED BY <3>1, <1>0 DEF Pending, TermInv, Shape, Fields
  <2>2. c % 32 \in Nat /\ 1 \in 0..3
        OBVIOUS
  <2> QED BY <2>1, <2>2, LeadRan
<1>4. CASE c >= 224 /\ c <= 239
  <2>1. PutUtf8Byte(V, c) = Pending(FlushUtf8(V), 2, c % 16)
    <3>1. PutUtf8Byte(V, c) = [FlushUtf8(V) EXCEPT !.utf8 = c % 16, !.need = 2]
          BY <1>4 DEF PutUtf8Byte
    <3> QED BY <3>1, <1>0 DEF Pending, TermInv, Shape, Fields
  <2>2. c % 16 \in Nat /\ 2 \in 0..3
        OBVIOUS
  <2> QED BY <2>1, <2>2, LeadRan
<1>5. CASE c >= 240 /\ c <= 247
  <2>1. PutUtf8Byte(V, c) = Pending(FlushUtf8(V), 3, c % 8)
    <3>1. PutUtf8Byte(V, c) = [FlushUtf8(V) EXCEPT !.utf8 = c % 8, !.need = 3]
          BY <1>5 DEF PutUtf8Byte
    <3> QED BY <3>1, <1>0 DEF Pending, TermInv, Shape, Fields
  <2>2. c % 8 \in Nat /\ 3 \in 0..3
        OBVIOUS
  <2> QED BY <2>1, <2>2, LeadRan
<1>6. CASE c > 247
  <2>1. PutUtf8Byte(V, c) = PutPrintable(FlushUtf8(V), Replacement)
        BY <1>6 DEF PutUtf8Byte
  <2> QED BY <2>1, FlushPrintRan DEF Replacement
<1> QED BY <1>1, <1>2, <1>3, <1>4, <1>5, <1>6

\* A control character (c0_execute).
LEMMA ControlRan ==
    ASSUME NEW V, TermInv(V), NEW c \in Nat
    PROVE  Ran(V, C0Execute(V, c)) /\ C0Execute(V, c).need = V.need
<1>0. /\ V.col \in 0..V.cols-1 /\ V.cols \in Nat \ {0} /\ 0 \in 0..V.cols-1
      /\ FALSE \in BOOLEAN
      BY SameTypes
<1>1. CASE c \in {10, 11, 12}
  <2> DEFINE W == [V EXCEPT !.wrap = FALSE]
  <2>1. Flows(V, W)
        BY <1>0, Unwraps
  <2>2. TermInv(W)
        BY <2>1, FlowsKeeps
  <2>3. Flows(W, CursorAdvanceRow(W))
        BY <2>2, Advances
  <2> HIDE DEF W
  <2>4. Flows(V, CursorAdvanceRow(W))
        BY <2>1, <2>3, FlowsOn
  <2>5. C0Execute(V, c) = CursorAdvanceRow(W)
        BY <1>1 DEF C0Execute, W
  <2> QED BY <2>4, <2>5, FlowsRan
<1>2. ASSUME NEW d \in 0..V.cols-1, C0Execute(V, c) = [V EXCEPT !.wrap = FALSE, !.col = d]
      PROVE  Ran(V, C0Execute(V, c)) /\ C0Execute(V, c).need = V.need
  <2>1. Flows(V, [V EXCEPT !.wrap = FALSE, !.col = d])
        BY <1>0, Unwraps
  <2> QED BY <1>2, <2>1, FlowsRan
<1>3. CASE c = 13
  <2>1. C0Execute(V, c) = [V EXCEPT !.wrap = FALSE, !.col = 0]
        BY <1>3 DEF C0Execute
  <2> QED BY <1>0, <1>2, <2>1
<1>4. CASE c = 8
  <2>1. C0Execute(V, c) = [V EXCEPT !.wrap = FALSE, !.col = AtLeast(V.col - 1, 0)]
        BY <1>4 DEF C0Execute
  <2>2. AtLeast(V.col - 1, 0) \in 0..V.cols-1
        BY <1>0 DEF AtLeast
  <2> QED BY <1>2, <2>1, <2>2
<1>5. CASE c = 9
  <2>1. C0Execute(V, c) = [V EXCEPT !.wrap = FALSE, !.col = NextTab(V)]
        BY <1>5 DEF C0Execute
  <2>2. V.col \div 8 \in Nat
        BY <1>0
  <2>3. NextTab(V) \in 0..V.cols-1
        BY <1>0, <2>2 DEF NextTab, AtMost
  <2> QED BY <1>2, <2>1, <2>3
<1>6. CASE c \notin {8, 9, 10, 11, 12, 13}
  <2>1. C0Execute(V, c) = V
        BY <1>6 DEF C0Execute
  <2> QED BY <2>1, DrewNothing, FlowsRan
<1> QED BY <1>1, <1>3, <1>4, <1>5, <1>6

-----------------------------------------------------------------------------
(* The parser of control sequences *)

Collected(V, s, o, p, d, q) ==
    [V EXCEPT !.state = s, !.origin = o, !.params = p, !.digits = d, !.priv = q]

StateFits(V, s, o) ==
    /\ s \in States /\ o \in {"GROUND"} \cup StringStates
    /\ (s = "STRING_ESC" <=> o # "GROUND")
    /\ V.need > 0 => s = "GROUND"
ParamsFit(p, d, q) ==
    /\ p \in Seq(Nat) /\ Len(p) <= MaxParams
    /\ d \in Int /\ d >= -1 /\ d <= MaxNumber /\ q \in Nat

LEMMA Collecting ==
    ASSUME NEW V, TermInv(V), NEW s, NEW o, StateFits(V, s, o),
           NEW p, NEW d, NEW q, ParamsFit(p, d, q)
    PROVE  LET W == Collected(V, s, o, p, d, q)
           IN /\ TermInv(W) /\ SameScreen(V, W) /\ W.state = s /\ W.origin = o
              /\ W.need = V.need /\ W.params = p /\ W.digits = d /\ W.priv = q
<1> DEFINE W == Collected(V, s, o, p, d, q)
<1>1. Shape(W)
      BY DEF TermInv, Shape, Collected
<1>2. /\ SameScreen(V, W) /\ W.saved = V.saved /\ W.reply = V.reply
      /\ W.state = s /\ W.origin = o /\ W.need = V.need /\ W.utf8 = V.utf8
      /\ W.params = p /\ W.digits = d /\ W.priv = q
      BY DEF TermInv, Shape, Fields, SameScreen, Collected
<1> HIDE DEF W
<1>3. Parsing(W)
      BY <1>2 DEF TermInv, Parsing, StateFits, ParamsFit
<1>4. Took(V, W)
      BY <1>1, <1>2, <1>3 DEF Took
<1>5. TermInv(W)
      BY <1>4, TookKeeps
<1> QED BY <1>2, <1>5 DEF W

LEMMA ParserTypes ==
    ASSUME NEW V, TermInv(V)
    PROVE  /\ V.state \in States /\ V.origin \in {"GROUND"} \cup StringStates
           /\ V.state = "STRING_ESC" <=> V.origin # "GROUND"
           /\ V.need \in 0..3 /\ (V.need > 0 => V.state = "GROUND")
           /\ V.params \in Seq(Nat) /\ Len(V.params) <= MaxParams
           /\ V.digits \in Int /\ V.digits >= -1 /\ V.digits <= MaxNumber
           /\ V.priv \in Nat
           /\ StateFits(V, V.state, V.origin)
           /\ ParamsFit(V.params, V.digits, V.priv)
BY DEF TermInv, Parsing, StateFits, ParamsFit

LEMMA NoParams == ParamsFit(<<>>, -1, 0)
BY TerminalLimits DEF MaxNumber, ParamsFit

LEMMA StateNames ==
    /\ "GROUND" \in States /\ "STRING_ESC" \in States
    /\ StringStates \subseteq States /\ Executing \subseteq States
    /\ DcsStates \subseteq States
    /\ "GROUND" \notin StringStates /\ "STRING_ESC" \notin StringStates
    /\ "STRING_ESC" \notin Executing /\ "STRING_ESC" \notin DcsStates
BY DEF States, StringStates, Executing, DcsStates

\* Going on with a sequence, when no character is pending.
LEMMA Goes ==
    ASSUME NEW V, TermInv(V), V.need = 0, NEW s \in States, s # "STRING_ESC"
    PROVE  /\ V.origin = "GROUND" => TermInv(Go(V, s))
           /\ TermInv([Go(V, s) EXCEPT !.origin = "GROUND"])
           /\ V.origin = "GROUND" => TermInv(Go(CsiClear(V), s))
<1>1. /\ V.origin = "GROUND" => Go(V, s) = Collected(V, s, "GROUND", V.params, V.digits, V.priv)
      BY DEF TermInv, Shape, Fields, Go, Collected
<1>2. [Go(V, s) EXCEPT !.origin = "GROUND"]
         = Collected(V, s, "GROUND", V.params, V.digits, V.priv)
      BY DEF TermInv, Shape, Fields, Go, Collected
<1>3. V.origin = "GROUND" =>
        Go(CsiClear(V), s) = Collected(V, s, "GROUND", <<>>, -1, 0)
      BY DEF TermInv, Shape, Fields, Go, Collected, CsiClear
<1>4. StateFits(V, s, "GROUND") /\ ParamsFit(V.params, V.digits, V.priv)
      BY ParserTypes DEF StateFits
<1>5. TermInv(Collected(V, s, "GROUND", V.params, V.digits, V.priv))
      BY <1>4, Collecting
<1>6. TermInv(Collected(V, s, "GROUND", <<>>, -1, 0))
      BY <1>4, NoParams, Collecting
<1> QED BY <1>1, <1>2, <1>3, <1>5, <1>6

LEMMA Rests ==
    ASSUME NEW V, TermInv(V)
    PROVE  TermInv(Ground(V)) /\ SameScreen(V, Ground(V)) /\ Ground(V).state = "GROUND"
<1>1. Ground(V) = Collected(V, "GROUND", "GROUND", <<>>, -1, 0)
      BY DEF TermInv, Shape, Fields, Ground, Collected, CsiClear
<1>2. StateFits(V, "GROUND", "GROUND")
      BY StateNames DEF StateFits
<1> QED BY <1>1, <1>2, NoParams, Collecting

\* What is collected of a sequence.
LEMMA Collects ==
    ASSUME NEW V, TermInv(V), NEW p, NEW d, NEW q, ParamsFit(p, d, q)
    PROVE  LET W == Collected(V, V.state, V.origin, p, d, q)
           IN /\ TermInv(W) /\ SameScreen(V, W) /\ W.state = V.state
              /\ W.origin = V.origin /\ W.need = V.need
<1>1. StateFits(V, V.state, V.origin)
      BY ParserTypes
<1> QED BY <1>1, Collecting

LEMMA DigitTaken ==
    ASSUME NEW V, TermInv(V), NEW c \in 0..9
    PROVE  LET W == CsiParamDigit(V, c)
           IN TermInv(W) /\ W.need = V.need /\ W.origin = V.origin
<1>1. CASE Len(V.params) >= MaxParams
      BY <1>1 DEF CsiParamDigit
<1>2. CASE ~ (Len(V.params) >= MaxParams)
  <2> DEFINE d == AtMost(AtLeast(V.digits, 0) * 10 + c, MaxNumber)
  <2>1. CsiParamDigit(V, c) = Collected(V, V.state, V.origin, V.params, d, V.priv)
        BY <1>2 DEF TermInv, Shape, Fields, CsiParamDigit, Collected
  <2>2. MaxNumber \in Nat
        BY DEF MaxNumber
  <2>3. d \in Int /\ d >= -1 /\ d <= MaxNumber
        BY <2>2, ParserTypes DEF AtMost, AtLeast
  <2> HIDE DEF d
  <2>4. ParamsFit(V.params, d, V.priv)
        BY <2>3, ParserTypes DEF ParamsFit
  <2> QED BY <2>1, <2>4, Collects
<1> QED BY <1>1, <1>2

LEMMA SeparatorTaken ==
    ASSUME NEW V, TermInv(V)
    PROVE  LET W == CsiParamSeparator(V)
           IN TermInv(W) /\ SameScreen(V, W) /\ W.need = V.need /\ W.origin = V.origin
<1>1. CASE Len(V.params) >= MaxParams
      BY <1>1 DEF CsiParamSeparator, SameScreen
<1>2. CASE ~ (Len(V.params) >= MaxParams)
  <2> DEFINE p == Append(V.params, AtLeast(V.digits, 0))
  <2>1. CsiParamSeparator(V) = Collected(V, V.state, V.origin, p, -1, V.priv)
        BY <1>2 DEF TermInv, Shape, Fields, CsiParamSeparator, Collected
  <2>2. AtLeast(V.digits, 0) \in Nat
        BY ParserTypes DEF AtLeast
  <2>3. V.params \in Seq(Nat) /\ Len(V.params) < MaxParams /\ MaxParams \in Nat
        BY <1>2, ParserTypes, TerminalLimits
  <2>4. p \in Seq(Nat) /\ Len(p) <= MaxParams
        BY <2>2, <2>3
  <2> HIDE DEF p
  <2>5. ParamsFit(p, -1, V.priv)
        BY <2>4, NoParams, ParserTypes DEF ParamsFit
  <2> QED BY <2>1, <2>5, Collects
<1> QED BY <1>1, <1>2

LEMMA Finalized ==
    ASSUME NEW V, TermInv(V)
    PROVE  TermInv(CsiParamFinalize(V))
BY SeparatorTaken DEF CsiParamFinalize

LEMMA ParamIs ==
    ASSUME NEW V, TermInv(V), NEW i \in Nat, NEW dflt \in Nat
    PROVE  CsiParam(V, i) \in Nat /\ CsiParamOr(V, i, dflt) \in Nat
<1>1. V.params \in Seq(Nat)
      BY ParserTypes
<1>2. CsiParam(V, i) \in Nat
  <2>1. CASE i < Len(V.params)
    <3>1. i + 1 \in 1..Len(V.params)
          BY <1>1, <2>1
    <3>2. V.params[i + 1] \in Nat
          BY <1>1, <3>1
    <3> QED BY <2>1, <3>2 DEF CsiParam
  <2>2. CASE ~ (i < Len(V.params))
        BY <2>2 DEF CsiParam
  <2> QED BY <2>1, <2>2
<1> QED BY <1>2 DEF CsiParamOr

-----------------------------------------------------------------------------
(* What the sequences do *)

LEMMA Redrawn ==
    ASSUME NEW V, TermInv(V), NEW W, Shape(W), Screen(W), W.rows = V.rows,
           W.cols = V.cols, SameParser(V, W), W.saved = V.saved, W.reply = V.reply
    PROVE  TermInv(W)
<1>1. Drew(V, W)
      BY DEF Drew
<1> QED BY <1>1, DrewKeeps

LEMMA SgrApplied ==
    ASSUME NEW sgr \in Sgrs, NEW p \in Nat
    PROVE  SgrApply(sgr, p) \in Sgrs
<1> DEFINE Colors == 0..15 \cup {DefaultColor}
<1>1. /\ sgr.fg \in Colors /\ sgr.bg \in Colors /\ sgr.attrs \in SUBSET {1, 4, 7}
      /\ sgr = [fg |-> sgr.fg, bg |-> sgr.bg, attrs |-> sgr.attrs]
      BY DEF Sgrs
<1>2. \A f, b \in Colors : \A a \in SUBSET {1, 4, 7} :
         [fg |-> f, bg |-> b, attrs |-> a] \in Sgrs
      BY DEF Sgrs
<1>3. ASSUME NEW f \in Colors
      PROVE  [sgr EXCEPT !.fg = f] \in Sgrs /\ [sgr EXCEPT !.bg = f] \in Sgrs
      BY <1>1, <1>3 DEF Sgrs
<1>4. ASSUME NEW a \in SUBSET {1, 4, 7}
      PROVE  [sgr EXCEPT !.attrs = a] \in Sgrs
      BY <1>1, <1>4 DEF Sgrs
<1>5. CASE p = 0
  <2>1. SgrApply(sgr, p) = SgrDefault
        BY <1>5 DEF SgrApply
  <2>2. SgrDefault \in Sgrs
        BY <1>2 DEF SgrDefault
  <2> QED BY <2>1, <2>2
<1>6. CASE p \in {1, 4, 7}
  <2>1. SgrApply(sgr, p) = [sgr EXCEPT !.attrs = sgr.attrs \cup {p}]
        BY <1>6 DEF SgrApply
  <2> QED BY <1>1, <1>4, <1>6, <2>1
<1>7. CASE p \in {22, 24, 27}
  <2> DEFINE a == sgr.attrs \ {IF p = 22 THEN 1 ELSE p - 20}
  <2>1. SgrApply(sgr, p) = [sgr EXCEPT !.attrs = a]
        BY <1>7 DEF SgrApply
  <2>2. a \in SUBSET {1, 4, 7}
        BY <1>1
  <2> QED BY <1>4, <2>1, <2>2
<1>8. ASSUME NEW f \in Colors,
             \/ SgrApply(sgr, p) = [sgr EXCEPT !.fg = f]
             \/ SgrApply(sgr, p) = [sgr EXCEPT !.bg = f]
      PROVE  SgrApply(sgr, p) \in Sgrs
      BY <1>3, <1>8
<1>9. CASE p >= 30 /\ p <= 37
  <2>1. SgrApply(sgr, p) = [sgr EXCEPT !.fg = p - 30] /\ p - 30 \in Colors
        BY <1>9 DEF SgrApply
  <2> QED BY <1>8, <2>1
<1>10. CASE p >= 40 /\ p <= 47
  <2>1. SgrApply(sgr, p) = [sgr EXCEPT !.bg = p - 40] /\ p - 40 \in Colors
        BY <1>10 DEF SgrApply
  <2> QED BY <1>8, <2>1
<1>11. CASE p \in {39, 49}
  <2>1. CASE p = 39
    <3>1. SgrApply(sgr, p) = [sgr EXCEPT !.fg = DefaultColor]
          BY <2>1 DEF SgrApply
    <3> QED BY <1>8, <3>1
  <2>2. CASE p = 49
    <3>1. SgrApply(sgr, p) = [sgr EXCEPT !.bg = DefaultColor]
          BY <2>2 DEF SgrApply
    <3> QED BY <1>8, <3>1
  <2> QED BY <1>11, <2>1, <2>2
<1>12. CASE p >= 90 /\ p <= 97
  <2>1. SgrApply(sgr, p) = [sgr EXCEPT !.fg = p - 82] /\ p - 82 \in Colors
        BY <1>12 DEF SgrApply
  <2> QED BY <1>8, <2>1
<1>13. CASE p >= 100 /\ p <= 107
  <2>1. SgrApply(sgr, p) = [sgr EXCEPT !.bg = p - 92] /\ p - 92 \in Colors
        BY <1>13 DEF SgrApply
  <2> QED BY <1>8, <2>1
<1>14. CASE /\ p \notin {0, 1, 4, 7, 22, 24, 27, 39, 49}
            /\ ~ (p >= 30 /\ p <= 37) /\ ~ (p >= 40 /\ p <= 47)
            /\ ~ (p >= 90 /\ p <= 97) /\ ~ (p >= 100 /\ p <= 107)
  <2>1. SgrApply(sgr, p) = sgr
        BY <1>14 DEF SgrApply
  <2> QED BY <2>1
<1> QED BY <1>5, <1>6, <1>7, <1>9, <1>10, <1>11, <1>12, <1>13, <1>14

\* The attributes a sequence of codes leaves (csi_sgr).
LEMMA SgrFolded ==
    ASSUME NEW a \in Sgrs, NEW ps \in Seq(Nat)
    PROVE  LET After[i \in 0..Len(ps)] ==
                   IF i = 0 THEN a ELSE SgrApply(After[i - 1], ps[i])
           IN After[Len(ps)] \in Sgrs
<1> DEFINE After[i \in 0..Len(ps)] ==
               IF i = 0 THEN a ELSE SgrApply(After[i - 1], ps[i])
           n == Len(ps)
           g == [x \in Sgrs \X (1..n) |-> SgrApply(x[1], ps[x[2]])]
<1>1. n \in Nat /\ \A i \in 1..n : ps[i] \in Nat
      OBVIOUS
<1>2. g \in [Sgrs \X (1..n) -> Sgrs]
      BY <1>1, SgrApplied
<1>3. \A x \in Sgrs, i \in 1..n : g[<<x, i>>] = SgrApply(x, ps[i])
      OBVIOUS
<1>0. a \in Sgrs
      OBVIOUS
<1> HIDE DEF g, n
<1>4. PICK h \in [0..n -> Sgrs] : Follows(h, a, g, n)
      BY <1>0, <1>1, <1>2, StepByStep
<1>5. h = [i \in 0..n |-> IF i = 0 THEN a ELSE SgrApply(h[i-1], ps[i])]
  <2>1. \A i \in 1..n : i - 1 \in 0..n
        BY <1>1
  <2>2. \A i \in 1..n : h[i] = SgrApply(h[i-1], ps[i])
        BY <1>3, <1>4, <2>1 DEF Follows
  <2>3. h[0] = a
        BY <1>4 DEF Follows
  <2> QED BY <1>1, <1>4, <2>2, <2>3
<1>6. After = [i \in 0..n |-> IF i = 0 THEN a ELSE SgrApply(After[i-1], ps[i])]
  <2> DEFINE F(f) == [i \in 0..n |-> IF i = 0 THEN a ELSE SgrApply(f[i-1], ps[i])]
  <2>1. h = F(h)
        BY <1>5
  <2>2. After = CHOOSE f : f = F(f)
        BY DEF n
  <2> HIDE DEF After, F
  <2>3. After = F(After)
        BY <2>1, <2>2
  <2> QED BY <2>3 DEF F
<1> HIDE DEF After
<1> DEFINE T == {i \in 0..n : After[i] \in Sgrs}
<1>7. 0 \in T
      BY <1>1, <1>6
<1>8. \A i \in 1..n : i - 1 \in T => i \in T
  <2> SUFFICES ASSUME NEW i \in 1..n, i - 1 \in T PROVE After[i] \in Sgrs
      BY <1>1
  <2>1. After[i] = SgrApply(After[i-1], ps[i])
        BY <1>1, <1>6
  <2> QED BY <1>1, <2>1, SgrApplied
<1> HIDE DEF T
<1>9. \A i \in 0..n : i \in T
      BY <1>1, <1>7, <1>8, UpTo
<1>10. After[n] \in Sgrs
      BY <1>1, <1>9 DEF T
<1> QED BY <1>10 DEF After, n

LEMMA SgrSet ==
    ASSUME NEW V, TermInv(V)
    PROVE  TermInv(CsiSgr(V))
<1> DEFINE ps == IF V.params = <<>> THEN <<0>> ELSE V.params
           After[i \in 0..Len(ps)] ==
              IF i = 0 THEN V.sgr ELSE SgrApply(After[i - 1], ps[i])
           s == After[Len(ps)]
           W == [V EXCEPT !.sgr = s]
<1>1. V.params \in Seq(Nat) /\ V.sgr \in Sgrs
      BY DEF TermInv, Parsing, Screen
<1>2. ps \in Seq(Nat)
      BY <1>1
<1> HIDE DEF ps
<1>3. s \in Sgrs
      BY <1>1, <1>2, SgrFolded
<1>4. CsiSgr(V) = W
      BY DEF CsiSgr, ps
<1> HIDE DEF s
<1>5. Shape(W)
      BY DEF TermInv, Shape
<1>6. /\ W.sgr = s /\ W.grid = V.grid /\ W.scrolled = V.scrolled
      /\ W.rows = V.rows /\ W.cols = V.cols /\ W.row = V.row /\ W.col = V.col
      /\ W.top = V.top /\ W.bot = V.bot
      /\ W.wrap = V.wrap /\ W.autowrap = V.autowrap
      /\ W.visible = V.visible /\ W.alt = V.alt
      /\ SameParser(V, W) /\ W.saved = V.saved /\ W.reply = V.reply
      BY DEF TermInv, Shape, Fields, SameParser
<1> HIDE DEF W
<1>7. Screen(W)
      BY <1>3, <1>6 DEF TermInv, Screen
<1>8. TermInv(W)
      BY <1>5, <1>6, <1>7, Redrawn
<1> QED BY <1>4, <1>8

\* The private modes, with the two screens (csi_decset).
LEMMA ModesSet ==
    ASSUME NEW V, TermInv(V), NEW set \in BOOLEAN
    PROVE  TermInv(CsiDecset(V, set))
<1>1. CASE V.priv # 63
      BY <1>1 DEF CsiDecset
<1>2. CASE V.priv = 63
  <2> DEFINE asked == {V.params[i] : i \in DOMAIN V.params}
             a == IF 7 \in asked THEN set ELSE V.autowrap
             v == IF 25 \in asked THEN set ELSE V.visible
             t == IF asked \cap {47, 1047, 1049} # {} THEN set ELSE V.alt
             W == [V EXCEPT !.autowrap = a, !.visible = v, !.alt = t]
  <2>1. CsiDecset(V, set) = W
        BY <1>2 DEF CsiDecset, TermInv, Shape, Fields
  <2>2. a \in BOOLEAN /\ v \in BOOLEAN /\ t \in BOOLEAN
        BY DEF TermInv, Screen
  <2> HIDE DEF a, v, t
  <2>3. Shape(W)
        BY DEF TermInv, Shape
  <2>4. /\ W.sgr = V.sgr /\ W.grid = V.grid /\ W.scrolled = V.scrolled
        /\ W.rows = V.rows /\ W.cols = V.cols /\ W.row = V.row /\ W.col = V.col
        /\ W.top = V.top /\ W.bot = V.bot
        /\ W.wrap = V.wrap /\ W.autowrap = a
        /\ W.visible = v /\ W.alt = t
        /\ SameParser(V, W) /\ W.saved = V.saved /\ W.reply = V.reply
        BY DEF TermInv, Shape, Fields, SameParser
  <2> HIDE DEF W
  <2>5. Screen(W)
        BY <2>2, <2>4 DEF TermInv, Screen
  <2>6. TermInv(W)
        BY <2>3, <2>4, <2>5, Redrawn
  <2> QED BY <2>1, <2>6
<1> QED BY <1>1, <1>2

\* A new scroll region, or none when it is too small (csi_dispatch).
LEMMA MarginsSet ==
    ASSUME NEW V, TermInv(V)
    PROVE  TermInv(SetMargins(V))
<1> DEFINE top == AtLeast(CsiParamOr(V, 0, 1) - 1, 0)
           bot == AtMost(CsiParamOr(V, 1, V.rows) - 1, V.rows - 1)
           W == [V EXCEPT !.top = top, !.bot = bot]
<1>1. V.rows \in Nat \ {0}
      BY SameTypes
<1>2. CsiParamOr(V, 0, 1) \in Nat /\ CsiParamOr(V, 1, V.rows) \in Nat
      BY <1>1, ParamIs
<1>3. top \in Nat /\ bot \in Int /\ bot <= V.rows - 1
      BY <1>1, <1>2 DEF AtLeast, AtMost
<1>4. CASE ~ (top < bot)
  <2>1. SetMargins(V) = V
        BY <1>4 DEF SetMargins
  <2> QED BY <2>1
<1>5. CASE top < bot
  <2>1. SetMargins(V) = CursorMove(W, 0, 0)
        BY <1>5 DEF SetMargins
  <2> HIDE DEF top, bot
  <2>2. Shape(W)
        BY DEF TermInv, Shape
  <2>3. /\ W.sgr = V.sgr /\ W.grid = V.grid /\ W.scrolled = V.scrolled
        /\ W.rows = V.rows /\ W.cols = V.cols /\ W.row = V.row /\ W.col = V.col
        /\ W.top = top /\ W.bot = bot
        /\ W.wrap = V.wrap /\ W.autowrap = V.autowrap
        /\ W.visible = V.visible /\ W.alt = V.alt
        /\ SameParser(V, W) /\ W.saved = V.saved /\ W.reply = V.reply
        BY DEF TermInv, Shape, Fields, SameParser
  <2> HIDE DEF W
  <2>4. Screen(W)
        BY <1>3, <1>5, <2>3 DEF TermInv, Screen
  <2>5. TermInv(W)
        BY <2>2, <2>3, <2>4, Redrawn
  <2>6. TermInv(CursorMove(W, 0, 0))
        BY <2>5, CursorMoves, DrewKeeps
  <2> QED BY <2>1, <2>6
<1> QED BY <1>4, <1>5

LEMMA LinesMoved ==
    ASSUME NEW V, TermInv(V), NEW n \in Nat
    PROVE  TermInv(InsertLines(V, n)) /\ TermInv(DeleteLines(V, n))
<1>1. ASSUME NEW W, TermInv(W) PROVE TermInv(LineStart(W))
  <2>1. 0 \in 0..W.cols-1 /\ FALSE \in BOOLEAN
        BY <1>1, SameTypes
  <2>2. Flows(W, LineStart(W))
        BY <1>1, <2>1, Unwraps DEF LineStart
  <2> QED BY <1>1, <2>2, FlowsKeeps
<1>2. V.row \in Nat /\ V.bot \in 0..V.rows-1
      BY SameTypes
<1>3. TermInv(ShiftDown(V, V.row, V.bot, n)) /\ TermInv(ShiftUp(V, V.row, V.bot, n))
      BY <1>2, ShiftsDown, ShiftsUp, DrewKeeps
<1> QED BY <1>1, <1>3 DEF InsertLines, DeleteLines

LEMMA CharsMoved ==
    ASSUME NEW V, TermInv(V), NEW n \in Nat
    PROVE  TermInv(InsertChars(V, n)) /\ TermInv(DeleteChars(V, n))
<1> DEFINE line == V.grid[V.row]
           ins == [c \in DOMAIN line |->
                    CASE c < V.col -> line[c]
                      [] c >= V.col + n -> line[c - n]
                      [] OTHER -> Blank(V.sgr)]
           del == [c \in DOMAIN line |->
                    CASE c < V.col -> line[c]
                      [] c >= V.col /\ c + n < V.cols -> line[c + n]
                      [] OTHER -> Blank(V.sgr)]
<1>1. /\ V.row \in 0..V.rows-1 /\ V.col \in 0..V.cols-1 /\ V.cols \in Nat /\ V.rows \in Nat
      /\ V.grid \in [0..V.rows-1 -> Row(V.cols)]
      BY SameTypes
<1>2. line \in [0..V.cols-1 -> Cell] /\ Blank(V.sgr) \in Cell
      BY <1>1, BlankTyped DEF Row
<1> HIDE DEF line
<1>3. ASSUME NEW c \in 0..V.cols-1
      PROVE  /\ c < V.col => line[c] \in Cell
             /\ c >= V.col + n => line[c - n] \in Cell
             /\ c + n < V.cols => line[c + n] \in Cell
  <2>1. c >= V.col + n => c - n \in 0..V.cols-1
        BY <1>1
  <2>2. c + n < V.cols => c + n \in 0..V.cols-1
        BY <1>1
  <2> QED BY <1>2, <2>1, <2>2
<1>4. ins \in Row(V.cols)
  <2>1. DOMAIN line = 0..V.cols-1
        BY <1>2
  <2>2. ASSUME NEW c \in 0..V.cols-1 PROVE ins[c] \in Cell
    <3>1. CASE c < V.col
      <4>1. ins[c] = line[c]
            BY <1>1, <2>1, <3>1
      <4> QED BY <1>3, <3>1, <4>1
    <3>2. CASE c >= V.col + n
      <4>1. ins[c] = line[c - n]
            BY <1>1, <2>1, <3>2
      <4> QED BY <1>3, <3>2, <4>1
    <3>3. CASE ~ (c < V.col) /\ ~ (c >= V.col + n)
      <4>1. ins[c] = Blank(V.sgr)
            BY <1>1, <2>1, <3>3
      <4> QED BY <1>2, <4>1
    <3> QED BY <3>1, <3>2, <3>3
  <2> QED BY <2>1, <2>2 DEF Row
<1>5. del \in Row(V.cols)
  <2>1. DOMAIN line = 0..V.cols-1
        BY <1>2
  <2>2. ASSUME NEW c \in 0..V.cols-1 PROVE del[c] \in Cell
    <3>1. CASE c < V.col
      <4>1. del[c] = line[c]
            BY <1>1, <2>1, <3>1
      <4> QED BY <1>3, <3>1, <4>1
    <3>2. CASE c >= V.col /\ c + n < V.cols
      <4>1. del[c] = line[c + n]
            BY <1>1, <2>1, <3>2
      <4> QED BY <1>3, <3>2, <4>1
    <3>3. CASE c >= V.col /\ ~ (c + n < V.cols)
      <4>1. del[c] = Blank(V.sgr)
            BY <1>1, <2>1, <3>3
      <4> QED BY <1>2, <4>1
    <3> QED BY <1>1, <3>1, <3>2, <3>3
  <2> QED BY <2>1, <2>2 DEF Row
<1>6. ASSUME NEW l \in Row(V.cols)
      PROVE  TermInv(Writes(V, [V.grid EXCEPT ![V.row] = l], V.col, FALSE))
  <2> DEFINE g == [V.grid EXCEPT ![V.row] = l]
  <2>1. g \in [0..V.rows-1 -> Row(V.cols)]
        BY <1>1
  <2>2. \A r \in 0..V.rows-1 : r # V.row => g[r] = V.grid[r]
        BY <1>1
  <2>3. V.col \in 0..V.cols-1 /\ FALSE \in BOOLEAN
        BY <1>1
  <2> HIDE DEF g
  <2>4. Flows(V, Writes(V, g, V.col, FALSE))
        BY <2>1, <2>2, <2>3, Writing
  <2>5. TermInv(Writes(V, g, V.col, FALSE))
        BY <2>4, FlowsKeeps
  <2> QED BY <2>5 DEF g
<1>7. InsertChars(V, n) = Writes(V, [V.grid EXCEPT ![V.row] = ins], V.col, FALSE)
      BY DEF InsertChars, Writes, TermInv, Shape, Fields, line
<1>8. DeleteChars(V, n) = Writes(V, [V.grid EXCEPT ![V.row] = del], V.col, FALSE)
      BY DEF DeleteChars, Writes, TermInv, Shape, Fields, line
<1> HIDE DEF ins, del
<1> QED BY <1>4, <1>5, <1>6, <1>7, <1>8

-----------------------------------------------------------------------------
(* Reports, which spell numbers out *)

NextDigits(f, n) ==
    IF n < 10 THEN <<48 + n>> ELSE Append(f[n \div 10], 48 + (n % 10))
Spells(f, n) == \A m \in 0..n : f[m] = NextDigits(f, m)

LEMMA Shorter ==
    ASSUME NEW n \in Nat, n >= 10
    PROVE  n \div 10 \in 0..n-1 /\ n % 10 \in Nat
OBVIOUS

LEMMA NextTyped ==
    ASSUME NEW n \in Nat, NEW f, n >= 10 => f[n \div 10] \in Seq(Nat)
    PROVE  NextDigits(f, n) \in Seq(Nat)
<1>1. CASE n < 10
  <2>1. 48 + n \in Nat
        OBVIOUS
  <2> QED BY <1>1, <2>1 DEF NextDigits
<1>2. CASE n >= 10
  <2>1. 48 + (n % 10) \in Nat
        OBVIOUS
  <2>2. Append(f[n \div 10], 48 + (n % 10)) \in Seq(Nat)
        BY <1>2, <2>1
  <2> QED BY <1>2, <2>2 DEF NextDigits
<1> QED BY <1>1, <1>2

LEMMA SameDigits ==
    ASSUME NEW m \in Nat, NEW f, NEW h, m >= 10 => f[m \div 10] = h[m \div 10]
    PROVE  NextDigits(f, m) = NextDigits(h, m)
<1>1. CASE m < 10
      BY <1>1 DEF NextDigits
<1>2. CASE m >= 10
      BY <1>2 DEF NextDigits
<1> QED BY <1>1, <1>2

\* Spelling is one way only.
LEMMA SpellsSame ==
    ASSUME NEW n \in Nat, NEW f, NEW h, Spells(f, n), Spells(h, n)
    PROVE  \A m \in 0..n : f[m] = h[m]
<1> DEFINE T == {m \in 0..n : \A k \in 0..m : f[k] = h[k]}
<1>1. ASSUME NEW m \in 0..n, \A k \in 0..m-1 : f[k] = h[k]
      PROVE  f[m] = h[m]
  <2>1. f[m] = NextDigits(f, m) /\ h[m] = NextDigits(h, m)
        BY DEF Spells
  <2>2. m >= 10 => m \div 10 \in 0..m-1
        BY Shorter
  <2>3. NextDigits(f, m) = NextDigits(h, m)
        BY <1>1, <2>2, SameDigits
  <2> QED BY <2>1, <2>3
<1>2. 0 \in T
  <2>1. 0 \in 0..n /\ \A k \in 0..0 : k = 0
        OBVIOUS
  <2>2. f[0] = h[0]
        BY <1>1, <2>1
  <2> QED BY <2>1, <2>2
<1>3. ASSUME NEW m \in 1..n, m - 1 \in T PROVE m \in T
  <2>1. \A k \in 0..m-1 : f[k] = h[k]
        BY <1>3
  <2>2. f[m] = h[m] /\ m \in 0..n
        BY <1>1, <2>1
  <2>3. \A k \in 0..m : k \in 0..m-1 \/ k = m
        OBVIOUS
  <2> QED BY <2>1, <2>2, <2>3
<1>4. \A m \in T : f[m] = h[m]
      OBVIOUS
<1> HIDE DEF T
<1>5. \A m \in 0..n : m \in T
      BY <1>2, <1>3, UpTo
<1> QED BY <1>4, <1>5

LEMMA SpellsUpTo ==
    ASSUME NEW n \in Nat
    PROVE  \E f \in [0..n -> Seq(Nat)] : Spells(f, n)
<1> DEFINE T == {k \in 0..n : \E f \in [0..k -> Seq(Nat)] : Spells(f, k)}
<1>1. 0 \in T
  <2> DEFINE f == [i \in 0..0 |-> <<48>>]
  <2>1. f \in [0..0 -> Seq(Nat)] /\ f[0] = <<48>>
        OBVIOUS
  <2> HIDE DEF f
  <2>2. NextDigits(f, 0) = <<48>>
        BY DEF NextDigits
  <2>3. Spells(f, 0)
        BY <2>1, <2>2 DEF Spells
  <2> QED BY <2>1, <2>3
<1>2. ASSUME NEW k \in 1..n, k - 1 \in T PROVE k \in T
  <2>1. PICK h \in [0..k-1 -> Seq(Nat)] : Spells(h, k - 1)
        BY <1>2
  <2> DEFINE f == [i \in 0..k |-> IF i = k THEN NextDigits(h, k) ELSE h[i]]
  <2>2. k >= 10 => k \div 10 \in 0..k-1
        BY Shorter
  <2>3. NextDigits(h, k) \in Seq(Nat)
        BY <2>2, NextTyped
  <2>4. f \in [0..k -> Seq(Nat)] /\ f[k] = NextDigits(h, k)
        BY <2>3
  <2>5. \A i \in 0..k-1 : f[i] = h[i]
        OBVIOUS
  <2> HIDE DEF f
  <2>6. ASSUME NEW m \in 0..k PROVE NextDigits(f, m) = NextDigits(h, m)
    <3>1. m >= 10 => m \div 10 \in 0..m-1
          BY Shorter
    <3>2. m >= 10 => f[m \div 10] = h[m \div 10]
          BY <2>5, <3>1
    <3>3. m \in Nat
          OBVIOUS
    <3> QED BY <3>2, <3>3, SameDigits
  <2>7. ASSUME NEW m \in 0..k PROVE f[m] = NextDigits(f, m)
    <3>1. CASE m = k
          BY <2>4, <2>6, <3>1
    <3>2. CASE m \in 0..k-1
      <4>1. h[m] = NextDigits(h, m)
            BY <2>1, <3>2 DEF Spells
      <4> QED BY <2>5, <2>6, <3>2, <4>1
    <3> QED BY <3>1, <3>2
  <2>8. Spells(f, k)
        BY <2>7 DEF Spells
  <2> QED BY <2>4, <2>8
<1>3. \A k \in T : \E f \in [0..k -> Seq(Nat)] : Spells(f, k)
      OBVIOUS
<1> HIDE DEF T
<1>4. \A k \in 0..n : k \in T
      BY <1>1, <1>2, UpTo
<1>5. n \in T
      BY <1>4
<1> QED BY <1>3, <1>5

LEMMA DigitsExist ==
    \E f \in [Nat -> Seq(Nat)] : f = [n \in Nat |-> NextDigits(f, n)]
<1> DEFINE F(n) == CHOOSE f \in [0..n -> Seq(Nat)] : Spells(f, n)
<1>1. ASSUME NEW n \in Nat PROVE F(n) \in [0..n -> Seq(Nat)] /\ Spells(F(n), n)
      BY SpellsUpTo
<1> HIDE DEF F
<1> DEFINE D == [n \in Nat |-> F(n)[n]]
<1>2. D \in [Nat -> Seq(Nat)]
      BY <1>1
<1>3. ASSUME NEW n \in Nat PROVE D[n] = NextDigits(D, n)
  <2>1. F(n)[n] = NextDigits(F(n), n)
        BY <1>1 DEF Spells
  <2>2. ASSUME n >= 10 PROVE D[n \div 10] = F(n)[n \div 10]
    <3> DEFINE m == n \div 10
    <3>1. m \in 0..n-1 /\ m \in Nat
          BY <2>2, Shorter
    <3> HIDE DEF m
    <3>2. Spells(F(m), m) /\ Spells(F(n), m)
          BY <1>1, <3>1 DEF Spells
    <3>3. F(m)[m] = F(n)[m]
          BY <3>1, <3>2, SpellsSame
    <3>4. D[m] = F(n)[m]
          BY <3>1, <3>3
    <3> QED BY <3>4 DEF m
  <2>3. D[n] = F(n)[n]
        OBVIOUS
  <2> HIDE DEF D
  <2>4. NextDigits(D, n) = NextDigits(F(n), n)
        BY <2>2, SameDigits
  <2> QED BY <2>1, <2>3, <2>4
<1>4. D = [n \in Nat |-> NextDigits(D, n)]
      BY <1>3
<1> QED BY <1>2, <1>4

\* Every number has a decimal spelling.
LEMMA DigitsTyped == \A n \in Nat : Digits[n] \in Seq(Nat)
<1> DEFINE F(f) == [n \in Nat |-> NextDigits(f, n)]
<1>1. PICK h \in [Nat -> Seq(Nat)] : h = F(h)
      BY DigitsExist
<1>2. Digits = CHOOSE f : f = F(f)
      BY DEF Digits, NextDigits
<1> HIDE DEF F
<1>3. Digits = F(Digits)
      BY <1>1, <1>2
<1>4. \A n \in Nat : Digits[n] = NextDigits(Digits, n) /\ h[n] = NextDigits(h, n)
      BY <1>1, <1>3 DEF F
<1>5. ASSUME NEW n \in Nat PROVE Digits[n] = h[n]
  <2>1. Spells(Digits, n) /\ Spells(h, n)
        BY <1>4 DEF Spells
  <2> QED BY <2>1, SpellsSame
<1> QED BY <1>5

\* A report is dropped when the buffer is full (reply_append).
LEMMA Reported ==
    ASSUME NEW V, TermInv(V), NEW s \in Seq(Nat)
    PROVE  TermInv(ReplyAppend(V, s))
<1> DEFINE all == V.reply \o s
           over == AtLeast(Len(all) - ReplyCap, 0)
           r == SubSeq(all, over + 1, Len(all))
           W == ReplyAppend(V, s)
<1>1. V.reply \in Seq(Nat) /\ ReplyCap \in Nat
      BY TerminalLimits DEF TermInv, Replies
<1>2. all \in Seq(Nat) /\ Len(all) \in Nat
      BY <1>1
<1> HIDE DEF all
<1>3. over \in Nat /\ over <= Len(all) /\ Len(all) - over <= ReplyCap
      BY <1>1, <1>2 DEF AtLeast
<1> HIDE DEF over
<1>4. r \in Seq(Nat) /\ Len(r) <= ReplyCap
  <2>1. r \in Seq(Nat)
        BY <1>2, <1>3
  <2>2. CASE over + 1 <= Len(all)
    <3>1. Len(r) = Len(all) - (over + 1) + 1
          BY <1>2, <1>3, <2>2
    <3> QED BY <1>1, <1>2, <1>3, <2>1, <3>1
  <2>3. CASE ~ (over + 1 <= Len(all))
    <3>1. Len(r) = 0
          BY <1>2, <1>3, <2>3
    <3> QED BY <1>1, <2>1, <3>1
  <2> QED BY <2>2, <2>3
<1>5. W = [V EXCEPT !.reply = r]
      BY DEF ReplyAppend, all, over
<1> HIDE DEF r, W
<1>6. Shape(W)
      BY <1>5 DEF TermInv, Shape
<1>7. SameScreen(V, W) /\ SameParser(V, W) /\ W.saved = V.saved /\ W.reply = r
      BY <1>5 DEF TermInv, Shape, Fields, SameParser, SameScreen
<1>8. Screen(W) /\ Saves(W)
      BY <1>7 DEF TermInv, Screen, SameScreen, Saves
<1>9. Parsing(W)
      BY <1>7 DEF TermInv, Parsing, SameParser
<1>10. Replies(W)
      BY <1>4, <1>7 DEF Replies
<1>11. TermInv(W)
      BY <1>6, <1>8, <1>9, <1>10 DEF TermInv
<1> QED BY <1>11 DEF W

LEMMA StatusSent ==
    ASSUME NEW V, TermInv(V)
    PROVE  TermInv(DeviceStatus(V))
<1>1. Csi \in Seq(Nat)
      BY DEF Csi, Esc
<1>2. Csi \o <<48, 110>> \in Seq(Nat)
      BY <1>1
<1>3. Digits[V.row + 1] \in Seq(Nat) /\ Digits[V.col + 1] \in Seq(Nat)
  <2>1. V.row + 1 \in Nat /\ V.col + 1 \in Nat
        BY SameTypes
  <2> QED BY <2>1, DigitsTyped
<1>4. Csi \o Digits[V.row + 1] \o <<59>> \o Digits[V.col + 1] \o <<82>> \in Seq(Nat)
      BY <1>1, <1>3
<1>5. CASE V.priv # 0
      BY <1>5 DEF DeviceStatus
<1>6. CASE V.priv = 0 /\ CsiParam(V, 0) = 5
  <2>1. DeviceStatus(V) = ReplyAppend(V, Csi \o <<48, 110>>)
        BY <1>6 DEF DeviceStatus
  <2> QED BY <1>2, <2>1, Reported
<1>7. CASE V.priv = 0 /\ CsiParam(V, 0) = 6
  <2>1. DeviceStatus(V) = ReplyAppend(V, Csi \o Digits[V.row + 1] \o <<59>>
                                           \o Digits[V.col + 1] \o <<82>>)
        BY <1>7 DEF DeviceStatus
  <2> QED BY <1>4, <2>1, Reported
<1>8. CASE V.priv = 0 /\ CsiParam(V, 0) \notin {5, 6}
  <2>1. DeviceStatus(V) = V
        BY <1>8 DEF DeviceStatus
  <2> QED BY <2>1
<1> QED BY <1>5, <1>6, <1>7, <1>8

LEMMA CursorSaved ==
    ASSUME NEW V, TermInv(V)
    PROVE  TermInv(SaveCursor(V))
<1> DEFINE s == [row |-> V.row, col |-> V.col, sgr |-> V.sgr, wrap |-> V.wrap]
           W == SaveCursor(V)
<1>1. W = [V EXCEPT !.saved = s]
      BY DEF SaveCursor
<1>2. s \in [row : 0..V.rows-1, col : 0..V.cols-1, sgr : Sgrs, wrap : BOOLEAN]
      BY DEF TermInv, Screen
<1> HIDE DEF s, W
<1>3. Shape(W)
      BY <1>1 DEF TermInv, Shape
<1>4. SameScreen(V, W) /\ SameParser(V, W) /\ W.saved = s /\ W.reply = V.reply
      BY <1>1 DEF TermInv, Shape, Fields, SameParser, SameScreen
<1>5. Screen(W)
      BY <1>4 DEF TermInv, Screen, SameScreen
<1>6. Saves(W)
      BY <1>2, <1>4 DEF Saves, SameScreen
<1>7. Parsing(W) /\ Replies(W)
      BY <1>4 DEF TermInv, Parsing, SameParser, Replies
<1>8. TermInv(W)
      BY <1>3, <1>5, <1>6, <1>7 DEF TermInv
<1> QED BY <1>8 DEF W

LEMMA CursorRestored ==
    ASSUME NEW V, TermInv(V)
    PROVE  TermInv(RestoreCursor(V))
<1> DEFINE r == Within(V.saved.row, 0, V.rows - 1)
           c == Within(V.saved.col, 0, V.cols - 1)
           W == RestoreCursor(V)
<1>1. W = [V EXCEPT !.row = r, !.col = c, !.sgr = V.saved.sgr, !.wrap = V.saved.wrap]
      BY DEF RestoreCursor
<1>2. /\ V.saved.row \in 0..V.rows-1 /\ V.saved.col \in 0..V.cols-1
      /\ V.saved.sgr \in Sgrs /\ V.saved.wrap \in BOOLEAN
      BY DEF TermInv, Saves
<1>3. V.rows - 1 \in Nat /\ V.cols - 1 \in Nat
      BY SameTypes
<1>4. r \in 0..V.rows-1 /\ c \in 0..V.cols-1
  <2>1. V.saved.row \in Int /\ V.saved.col \in Int
        BY <1>2
  <2> QED BY <1>3, <2>1, WithinTyped
<1> HIDE DEF r, c, W
<1>5. Shape(W)
      BY <1>1 DEF TermInv, Shape
<1>6. /\ W.row = r /\ W.col = c /\ W.sgr = V.saved.sgr /\ W.wrap = V.saved.wrap
      /\ W.grid = V.grid /\ W.scrolled = V.scrolled
      /\ W.rows = V.rows /\ W.cols = V.cols
      /\ W.top = V.top /\ W.bot = V.bot
      /\ W.autowrap = V.autowrap /\ W.visible = V.visible /\ W.alt = V.alt
      /\ SameParser(V, W) /\ W.saved = V.saved /\ W.reply = V.reply
      BY <1>1 DEF TermInv, Shape, Fields, SameParser
<1>7. Screen(W)
      BY <1>2, <1>4, <1>6 DEF TermInv, Screen
<1>8. TermInv(W)
      BY <1>5, <1>6, <1>7, Redrawn
<1> QED BY <1>8 DEF W

LEMMA EscDone ==
    ASSUME NEW V, TermInv(V), NEW c \in Nat
    PROVE  TermInv(EscDispatch(V, c))
BY CursorSaved, CursorRestored DEF EscDispatch

LEMMA ErasesDone ==
    ASSUME NEW V, TermInv(V), NEW p \in Nat
    PROVE  TermInv(CsiEraseLine(V, p)) /\ TermInv(CsiEraseDisplay(V, p))
<1>1. ASSUME NEW r0, NEW c0, NEW r1, NEW c1
      PROVE  TermInv(Erase(V, r0, c0, r1, c1))
      BY ErasesOnly, DrewKeeps
<1>2. TermInv(CsiEraseLine(V, p))
      BY <1>1 DEF CsiEraseLine
<1>3. TermInv(CsiEraseDisplay(V, p))
      BY <1>1 DEF CsiEraseDisplay
<1> QED BY <1>2, <1>3

\* Every control sequence keeps a terminal in order (csi_dispatch).
LEMMA CsiDone ==
    ASSUME NEW V0, TermInv(V0), NEW c \in Nat
    PROVE  TermInv(CsiDispatch(V0, c))
<1> DEFINE V == CsiParamFinalize(V0)
           n == CsiParamOr(V, 0, 1)
           m == CsiParamOr(V, 1, 1)
           W == CsiDispatch(V0, c)
<1> SUFFICES TermInv(W)
    OBVIOUS
<1>1. TermInv(V)
      BY Finalized
<1> HIDE DEF V
<1>2. n \in Nat /\ m \in Nat /\ CsiParam(V, 0) \in Nat
      BY <1>1, ParamIs
<1> HIDE DEF n, m
<1>3. V.row \in Int /\ V.col \in Int
      BY <1>1, SameTypes
<1>4. ASSUME NEW row \in Int, NEW col \in Int PROVE TermInv(CursorMove(V, row, col))
      BY <1>1, CursorMoves, DrewKeeps
<1>5. /\ TermInv(CsiEraseDisplay(V, CsiParam(V, 0)))
      /\ TermInv(CsiEraseLine(V, CsiParam(V, 0)))
      /\ TermInv(Erase(V, V.row, V.col, V.row, V.col + n - 1))
      BY <1>1, <1>2, ErasesDone, ErasesOnly, DrewKeeps
<1>6. /\ TermInv(CsiDecset(V, TRUE)) /\ TermInv(CsiDecset(V, FALSE)) /\ TermInv(CsiSgr(V))
      /\ TermInv(DeviceStatus(V)) /\ TermInv(SetMargins(V))
      BY <1>1, ModesSet, SgrSet, StatusSent, MarginsSet
<1>7. TermInv(ScrollUp(V, n)) /\ TermInv(ScrollDown(V, n))
  <2>1. V.top \in Nat /\ V.bot \in 0..V.rows-1
        BY <1>1, SameTypes
  <2> QED BY <1>1, <1>2, <2>1, Scrolls, FlowsKeeps, ShiftsDown, DrewKeeps DEF ScrollDown
<1>8. /\ TermInv(InsertLines(V, n)) /\ TermInv(DeleteLines(V, n))
      /\ TermInv(InsertChars(V, n)) /\ TermInv(DeleteChars(V, n))
      BY <1>1, <1>2, LinesMoved, CharsMoved
<1>9. CASE c = 65
  <2>1. W = CursorMove(V, V.row - n, V.col)
        BY <1>9 DEF CsiDispatch, V, n, m
  <2> HIDE DEF W
  <2> QED BY <2>1, <1>2, <1>3, <1>4
<1>10. CASE c = 66
  <2>1. W = CursorMove(V, V.row + n, V.col)
        BY <1>10 DEF CsiDispatch, V, n, m
  <2> HIDE DEF W
  <2> QED BY <2>1, <1>2, <1>3, <1>4
<1>11. CASE c = 67
  <2>1. W = CursorMove(V, V.row, V.col + n)
        BY <1>11 DEF CsiDispatch, V, n, m
  <2> HIDE DEF W
  <2> QED BY <2>1, <1>2, <1>3, <1>4
<1>12. CASE c = 68
  <2>1. W = CursorMove(V, V.row, V.col - n)
        BY <1>12 DEF CsiDispatch, V, n, m
  <2> HIDE DEF W
  <2> QED BY <2>1, <1>2, <1>3, <1>4
<1>13. CASE c = 71
  <2>1. W = CursorMove(V, V.row, n - 1)
        BY <1>13 DEF CsiDispatch, V, n, m
  <2> HIDE DEF W
  <2> QED BY <2>1, <1>2, <1>3, <1>4
<1>14. CASE c = 72
  <2>1. W = CursorMove(V, n - 1, m - 1)
        BY <1>14 DEF CsiDispatch, V, n, m
  <2> HIDE DEF W
  <2> QED BY <2>1, <1>2, <1>3, <1>4
<1>15. CASE c = 102
  <2>1. W = CursorMove(V, n - 1, m - 1)
        BY <1>15 DEF CsiDispatch, V, n, m
  <2> HIDE DEF W
  <2> QED BY <2>1, <1>2, <1>3, <1>4
<1>16. CASE c = 74
  <2>1. W = CsiEraseDisplay(V, CsiParam(V, 0))
        BY <1>16 DEF CsiDispatch, V, n, m
  <2> HIDE DEF W
  <2> QED BY <2>1, <1>5
<1>17. CASE c = 75
  <2>1. W = CsiEraseLine(V, CsiParam(V, 0))
        BY <1>17 DEF CsiDispatch, V, n, m
  <2> HIDE DEF W
  <2> QED BY <2>1, <1>5
<1>18. CASE c = 104
  <2>1. W = CsiDecset(V, TRUE)
        BY <1>18 DEF CsiDispatch, V, n, m
  <2> HIDE DEF W
  <2> QED BY <2>1, <1>6
<1>19. CASE c = 108
  <2>1. W = CsiDecset(V, FALSE)
        BY <1>19 DEF CsiDispatch, V, n, m
  <2> HIDE DEF W
  <2> QED BY <2>1, <1>6
<1>20. CASE c = 109
  <2>1. W = CsiSgr(V)
        BY <1>20 DEF CsiDispatch, V, n, m
  <2> HIDE DEF W
  <2> QED BY <2>1, <1>6
<1>21. CASE c = 110
  <2>1. W = DeviceStatus(V)
        BY <1>21 DEF CsiDispatch, V, n, m
  <2> HIDE DEF W
  <2> QED BY <2>1, <1>6
<1>22. CASE c = 114
  <2>1. W = SetMargins(V)
        BY <1>22 DEF CsiDispatch, V, n, m
  <2> HIDE DEF W
  <2> QED BY <2>1, <1>6
<1>23. CASE c = 83
  <2>1. W = ScrollUp(V, n)
        BY <1>23 DEF CsiDispatch, V, n, m
  <2> HIDE DEF W
  <2> QED BY <2>1, <1>7
<1>24. CASE c = 84
  <2>1. W = ScrollDown(V, n)
        BY <1>24 DEF CsiDispatch, V, n, m
  <2> HIDE DEF W
  <2> QED BY <2>1, <1>7
<1>25. CASE c = 76
  <2>1. W = InsertLines(V, n)
        BY <1>25 DEF CsiDispatch, V, n, m
  <2> HIDE DEF W
  <2> QED BY <2>1, <1>8
<1>26. CASE c = 77
  <2>1. W = DeleteLines(V, n)
        BY <1>26 DEF CsiDispatch, V, n, m
  <2> HIDE DEF W
  <2> QED BY <2>1, <1>8
<1>27. CASE c = 64
  <2>1. W = InsertChars(V, n)
        BY <1>27 DEF CsiDispatch, V, n, m
  <2> HIDE DEF W
  <2> QED BY <2>1, <1>8
<1>28. CASE c = 80
  <2>1. W = DeleteChars(V, n)
        BY <1>28 DEF CsiDispatch, V, n, m
  <2> HIDE DEF W
  <2> QED BY <2>1, <1>8
<1>29. CASE c = 88
  <2>1. W = Erase(V, V.row, V.col, V.row, V.col + n - 1)
        BY <1>29 DEF CsiDispatch, V, n, m
  <2> HIDE DEF W
  <2> QED BY <2>1, <1>5
<1>30. CASE c \notin {65, 66, 67, 68, 71, 72, 102, 74, 75, 104, 108, 109, 110, 114,
                      83, 84, 76, 77, 64, 80, 88}
  <2>1. W = V
        BY <1>30 DEF CsiDispatch, V
  <2> HIDE DEF W
  <2> QED BY <1>1, <2>1
<1> QED BY <1>9, <1>10, <1>11, <1>12, <1>13, <1>14, <1>15, <1>16, <1>17, <1>18, <1>19,
           <1>20, <1>21, <1>22, <1>23, <1>24, <1>25, <1>26, <1>27, <1>28, <1>29, <1>30

-----------------------------------------------------------------------------
(* A byte, and a whole read *)

LEMMA EscapeTaken ==
    ASSUME NEW V, TermInv(V), V.need = 0, V.origin = "GROUND", NEW c \in Nat
    PROVE  TermInv(InEscape(V, c)) /\ TermInv(InEscapeIntermediate(V, c))
<1>1. /\ TermInv(Go(CsiClear(V), "CSI_ENTRY")) /\ TermInv(Go(CsiClear(V), "DCS_ENTRY"))
      /\ TermInv(Go(V, "OSC")) /\ TermInv(Go(V, "SOS_PM_APC"))
      /\ TermInv(Go(V, "ESCAPE_INTERMEDIATE"))
  <2>1. {"CSI_ENTRY", "DCS_ENTRY", "OSC", "SOS_PM_APC", "ESCAPE_INTERMEDIATE"} \subseteq States
        BY DEF States, StringStates, Executing, DcsStates
  <2> QED BY <2>1, Goes
<1>2. TermInv(Ground(V)) /\ TermInv(Ground(EscDispatch(V, c)))
      BY EscDone, Rests
<1>3. TermInv(InEscape(V, c))
  <2>1. \/ InEscape(V, c) = Go(CsiClear(V), "CSI_ENTRY")
        \/ InEscape(V, c) = Go(CsiClear(V), "DCS_ENTRY")
        \/ InEscape(V, c) = Go(V, "OSC")
        \/ InEscape(V, c) = Go(V, "SOS_PM_APC")
        \/ InEscape(V, c) = Go(V, "ESCAPE_INTERMEDIATE")
        \/ InEscape(V, c) = Ground(V)
        \/ InEscape(V, c) = Ground(EscDispatch(V, c))
        BY DEF InEscape
  <2> QED BY <1>1, <1>2, <2>1
<1>4. TermInv(InEscapeIntermediate(V, c))
      BY <1>2 DEF InEscapeIntermediate
<1> QED BY <1>3, <1>4

LEMMA CsiTaken ==
    ASSUME NEW V, TermInv(V), V.need = 0, V.origin = "GROUND", NEW c \in Nat
    PROVE  /\ TermInv(InCsi(V, c)) /\ TermInv(InCsiIntermediate(V, c))
           /\ TermInv(InCsiIgnore(V, c))
<1>1. {"CSI_INTERMEDIATE", "CSI_IGNORE", "CSI_PARAM"} \subseteq States
      BY DEF States, Executing
<1>2. TermInv(Go(V, "CSI_INTERMEDIATE")) /\ TermInv(Go(V, "CSI_IGNORE"))
      BY <1>1, Goes
<1>3. TermInv(Go(CsiParamSeparator(V), "CSI_PARAM"))
  <2>1. LET W == CsiParamSeparator(V)
        IN TermInv(W) /\ W.need = 0 /\ W.origin = "GROUND"
        BY SeparatorTaken
  <2> QED BY <1>1, <2>1, Goes
<1>4. TermInv(Ground(CsiDispatch(V, c))) /\ TermInv(Ground(V))
      BY CsiDone, Rests
<1>5. TermInv(Go([V EXCEPT !.priv = c], "CSI_PARAM"))
  <2>1. Go([V EXCEPT !.priv = c], "CSI_PARAM")
          = Collected(V, "CSI_PARAM", "GROUND", V.params, V.digits, c)
        BY DEF Go, Collected, TermInv, Shape, Fields
  <2>2. StateFits(V, "CSI_PARAM", "GROUND") /\ ParamsFit(V.params, V.digits, c)
        BY <1>1, ParserTypes DEF StateFits, ParamsFit
  <2> QED BY <2>1, <2>2, Collecting
<1>6. TermInv(InCsi(V, c))
  <2>1. CASE c \in Digit
    <3>1. c - 48 \in 0..9
          BY <2>1 DEF Digit
    <3>2. LET W == CsiParamDigit(V, c - 48)
          IN TermInv(W) /\ W.need = 0 /\ W.origin = "GROUND"
          BY <3>1, DigitTaken
    <3>3. TermInv(Go(CsiParamDigit(V, c - 48), "CSI_PARAM"))
          BY <1>1, <3>2, Goes
    <3>4. InCsi(V, c) = Go(CsiParamDigit(V, c - 48), "CSI_PARAM")
      <4>1. c \notin Intermediate /\ c # 58
            BY <2>1 DEF Intermediate, Digit
      <4>2. c # 59 /\ c \notin Private /\ c \notin Final
            BY <2>1 DEF Private, Final, Digit
      <4> QED BY <2>1, <4>1, <4>2 DEF InCsi
    <3> QED BY <3>3, <3>4
  <2>2. CASE c \notin Digit
    <3>1. \/ InCsi(V, c) = Go(V, "CSI_INTERMEDIATE")
          \/ InCsi(V, c) = Go(V, "CSI_IGNORE")
          \/ InCsi(V, c) = Go(CsiParamSeparator(V), "CSI_PARAM")
          \/ InCsi(V, c) = Go([V EXCEPT !.priv = c], "CSI_PARAM")
          \/ InCsi(V, c) = Ground(CsiDispatch(V, c))
          \/ InCsi(V, c) = V
          BY <2>2 DEF InCsi
    <3> QED BY <1>2, <1>3, <1>4, <1>5, <3>1
  <2> QED BY <2>1, <2>2
<1>7. TermInv(InCsiIntermediate(V, c))
  <2>1. \/ InCsiIntermediate(V, c) = Go(V, "CSI_IGNORE")
        \/ InCsiIntermediate(V, c) = Ground(CsiDispatch(V, c))
        \/ InCsiIntermediate(V, c) = V
        BY DEF InCsiIntermediate
  <2> QED BY <1>2, <1>4, <2>1
<1>8. TermInv(InCsiIgnore(V, c))
      BY <1>4 DEF InCsiIgnore
<1> QED BY <1>6, <1>7, <1>8

LEMMA StringTaken ==
    ASSUME NEW V, TermInv(V), V.need = 0, NEW c \in Nat
    PROVE  /\ V.origin = "GROUND" => TermInv(InDcs(V, c))
           /\ V.state \in StringStates => TermInv(InString(V, c))
<1>1. ASSUME V.origin = "GROUND" PROVE TermInv(InDcs(V, c))
  <2>1. {"DCS_INTERMEDIATE", "DCS_IGNORE", "DCS_PARAM", "DCS_PASSTHROUGH"} \subseteq States
        BY DEF States, StringStates, DcsStates
  <2>2. /\ TermInv(Go(V, "DCS_INTERMEDIATE")) /\ TermInv(Go(V, "DCS_IGNORE"))
        /\ TermInv(Go(V, "DCS_PARAM")) /\ TermInv(Go(V, "DCS_PASSTHROUGH"))
        BY <1>1, <2>1, Goes
  <2>3. \/ InDcs(V, c) = Go(V, "DCS_INTERMEDIATE") \/ InDcs(V, c) = Go(V, "DCS_IGNORE")
        \/ InDcs(V, c) = Go(V, "DCS_PARAM") \/ InDcs(V, c) = Go(V, "DCS_PASSTHROUGH")
        \/ InDcs(V, c) = V
        BY DEF InDcs
  <2> QED BY <2>2, <2>3
<1>2. ASSUME V.state \in StringStates PROVE TermInv(InString(V, c))
  <2>1. TermInv(Ground(V))
        BY Rests
  <2>2. TermInv([V EXCEPT !.state = "STRING_ESC", !.origin = V.state])
    <3>1. [V EXCEPT !.state = "STRING_ESC", !.origin = V.state]
            = Collected(V, "STRING_ESC", V.state, V.params, V.digits, V.priv)
          BY DEF Collected, TermInv, Shape, Fields
    <3>2. StateFits(V, "STRING_ESC", V.state) /\ ParamsFit(V.params, V.digits, V.priv)
          BY <1>2, ParserTypes, StateNames DEF StateFits
    <3> QED BY <3>1, <3>2, Collecting
  <2>3. \/ InString(V, c) = [V EXCEPT !.state = "STRING_ESC", !.origin = V.state]
        \/ InString(V, c) = Ground(V) \/ InString(V, c) = V
        BY DEF InString
  <2> QED BY <2>1, <2>2, <2>3
<1> QED BY <1>1, <1>2

LEMMA GroundTaken ==
    ASSUME NEW V, TermInv(V), V.state = "GROUND", NEW c \in Nat
    PROVE  Ran(V, InGround(V, c))
<1>1. CASE c = 127
  <2>1. Ran(V, V)
        BY DEF Ran, Outside
  <2> QED BY <1>1, <2>1 DEF InGround
<1>2. CASE c < 32
  <2> DEFINE W == FlushUtf8(V)
  <2>1. Ran(V, W)
        BY FlushRan
  <2>2. TermInv(W)
        BY <2>1 DEF Ran
  <2>3. Ran(W, C0Execute(W, c))
        BY <2>2, ControlRan
  <2>4. InGround(V, c) = C0Execute(W, c)
        BY <1>2 DEF InGround
  <2> HIDE DEF W
  <2> QED BY <2>1, <2>3, <2>4, RanOn
<1>3. CASE c # 127 /\ ~ (c < 32)
  <2>1. InGround(V, c) = PutUtf8Byte(V, c)
        BY <1>3 DEF InGround
  <2> QED BY <2>1, Utf8Ran
<1> QED BY <1>1, <1>2, <1>3

\* Every byte keeps a terminal in order (vt100_input).
LEMMA FeedKeeps ==
    ASSUME NEW V0, TermInv(V0), NEW c \in Nat
    PROVE  TermInv(Feed(V0, c))
<1> DEFINE V == IF V0.state = "STRING_ESC" /\ c # 92
                THEN [Go(V0, "ESCAPE") EXCEPT !.origin = "GROUND"] ELSE V0
           W == Feed(V0, c)
<1> SUFFICES TermInv(W)
    OBVIOUS
<1>1. TermInv(V) /\ (V.state = "STRING_ESC" => c = 92)
  <2>1. CASE V0.state = "STRING_ESC" /\ c # 92
    <3>1. V0.need = 0
          BY <2>1, ParserTypes
    <3>2. "ESCAPE" \in States
          BY DEF States, Executing
    <3>3. TermInv([Go(V0, "ESCAPE") EXCEPT !.origin = "GROUND"])
          BY <3>1, <3>2, Goes
    <3>4. [Go(V0, "ESCAPE") EXCEPT !.origin = "GROUND"].state = "ESCAPE"
          BY DEF Go, TermInv, Shape, Fields
    <3> QED BY <2>1, <3>3, <3>4
  <2>2. CASE ~ (V0.state = "STRING_ESC" /\ c # 92)
        BY <2>2
  <2> QED BY <2>1, <2>2
<1> HIDE DEF V
<1>2. /\ V.state # "GROUND" => V.need = 0
      /\ V.state # "STRING_ESC" => V.origin = "GROUND"
      /\ V.state \in States
      BY <1>1, ParserTypes
<1>3. CASE V.state \in StringStates
  <2>1. W = InString(V, c)
        BY <1>3 DEF Feed, V
  <2>2. V.need = 0
        BY <1>2, <1>3, StateNames
  <2> HIDE DEF W
  <2> QED BY <1>1, <1>3, <2>1, <2>2, StringTaken
<1>4. CASE V.state \notin StringStates /\ c \in {24, 26}
  <2>1. W = Ground(FlushUtf8(V))
        BY <1>4 DEF Feed, V
  <2>2. TermInv(FlushUtf8(V))
        BY <1>1, FlushRan DEF Ran
  <2> HIDE DEF W
  <2> QED BY <2>1, <2>2, Rests
<1>5. CASE V.state \notin StringStates /\ c = Esc
  <2>1. W = [Go(FlushUtf8(V), "ESCAPE") EXCEPT !.origin = "GROUND"]
        BY <1>5 DEF Feed, V, Esc
  <2>2. TermInv(FlushUtf8(V)) /\ FlushUtf8(V).need = 0
        BY <1>1, FlushRan DEF Ran
  <2>3. "ESCAPE" \in States
        BY DEF States, Executing
  <2> HIDE DEF W
  <2> QED BY <2>1, <2>2, <2>3, Goes
<1>6. CASE V.state = "GROUND" /\ c \notin {24, 26, Esc}
  <2>1. W = InGround(V, c)
        BY <1>6, StateNames DEF Feed, V
  <2> HIDE DEF W
  <2> QED BY <1>1, <1>6, <2>1, GroundTaken DEF Ran
<1>7. CASE V.state = "STRING_ESC" /\ c \notin {24, 26, Esc}
  <2>1. W = Ground(V)
        BY <1>7, StateNames DEF Feed, V
  <2> HIDE DEF W
  <2> QED BY <1>1, <2>1, Rests
<1>8. CASE /\ V.state \notin StringStates \cup {"GROUND", "STRING_ESC"}
           /\ c \notin {24, 26, Esc}
  <2>1. V.need = 0 /\ V.origin = "GROUND"
        BY <1>2, <1>8
  <2>2. CASE c < 32 \/ c = 127
    <3>1. W = V \/ W = C0Execute(V, c)
          BY <1>8, <2>2 DEF Feed, V
    <3>2. TermInv(C0Execute(V, c))
          BY <1>1, ControlRan DEF Ran
    <3> HIDE DEF W
    <3> QED BY <1>1, <3>1, <3>2
  <2>3. CASE ~ (c < 32 \/ c = 127)
    <3>1. CASE V.state = "ESCAPE"
      <4>1. W = InEscape(V, c)
            BY <1>8, <2>3, <3>1 DEF Feed, V, DcsStates
      <4> HIDE DEF W
      <4> QED BY <1>1, <2>1, <4>1, EscapeTaken
    <3>2. CASE V.state = "ESCAPE_INTERMEDIATE"
      <4>1. W = InEscapeIntermediate(V, c)
            BY <1>8, <2>3, <3>2 DEF Feed, V, DcsStates
      <4> HIDE DEF W
      <4> QED BY <1>1, <2>1, <4>1, EscapeTaken
    <3>3. CASE V.state \in {"CSI_ENTRY", "CSI_PARAM"}
      <4>1. W = InCsi(V, c)
            BY <1>8, <2>3, <3>3 DEF Feed, V, DcsStates
      <4> HIDE DEF W
      <4> QED BY <1>1, <2>1, <4>1, CsiTaken
    <3>4. CASE V.state = "CSI_INTERMEDIATE"
      <4>1. W = InCsiIntermediate(V, c)
            BY <1>8, <2>3, <3>4 DEF Feed, V, DcsStates
      <4> HIDE DEF W
      <4> QED BY <1>1, <2>1, <4>1, CsiTaken
    <3>5. CASE V.state = "CSI_IGNORE"
      <4>1. W = InCsiIgnore(V, c)
            BY <1>8, <2>3, <3>5 DEF Feed, V, DcsStates
      <4> HIDE DEF W
      <4> QED BY <1>1, <2>1, <4>1, CsiTaken
    <3>6. CASE V.state \in DcsStates
      <4>1. W = InDcs(V, c)
            BY <1>8, <2>3, <3>6 DEF Feed, V, DcsStates
      <4> HIDE DEF W
      <4> QED BY <1>1, <2>1, <4>1, StringTaken
    <3> HIDE DEF W
    <3>7. \/ V.state \in {"ESCAPE", "ESCAPE_INTERMEDIATE", "CSI_ENTRY", "CSI_PARAM",
                          "CSI_INTERMEDIATE", "CSI_IGNORE"}
          \/ V.state \in DcsStates
          BY <1>2, <1>8 DEF States, Executing
    <3> QED BY <3>1, <3>2, <3>3, <3>4, <3>5, <3>6, <3>7
  <2> QED BY <2>2, <2>3
<1> QED BY <1>3, <1>4, <1>5, <1>6, <1>7, <1>8

\* The terminals there are, as a set.
Grids == UNION {[0..n-1 -> Rows] : n \in Nat}
Cursors == [row : Nat, col : Nat, sgr : Sgrs, wrap : BOOLEAN]
Values == Grids \cup Cursors \cup Int \cup Sgrs \cup BOOLEAN \cup Seq(Rows)
            \cup Seq(Nat) \cup States \cup {"GROUND"} \cup StringStates

LEMMA TermIsFunction ==
    ASSUME NEW V, TermInv(V)
    PROVE  V \in [Fields -> Values]
<1>1. Shape(V) /\ Screen(V) /\ Saves(V) /\ Parsing(V) /\ Replies(V)
      BY DEF TermInv
<1>2. V.rows \in Nat /\ V.cols \in Nat
      BY <1>1 DEF Screen
<1>3. V.grid \in Grids
  <2>1. V.grid \in [0..V.rows-1 -> Row(V.cols)]
        BY <1>1 DEF Screen
  <2>2. Row(V.cols) \subseteq Rows
        BY <1>2 DEF Rows
  <2>3. V.grid \in [0..V.rows-1 -> Rows]
        BY <2>1, <2>2
  <2> QED BY <1>2, <2>3 DEF Grids
<1>4. V.saved \in Cursors
      BY <1>1, <1>2 DEF Saves, Cursors
<1>5. /\ V.rows \in Values /\ V.cols \in Values /\ V.row \in Values /\ V.col \in Values
      /\ V.top \in Values /\ V.bot \in Values /\ V.sgr \in Values /\ V.wrap \in Values
      /\ V.autowrap \in Values /\ V.visible \in Values /\ V.alt \in Values
      /\ V.scrolled \in Values
  <2>1. /\ V.row \in Int /\ V.col \in Int /\ V.top \in Int /\ V.bot \in Int
        /\ V.rows \in Int /\ V.cols \in Int
        BY <1>1 DEF Screen
  <2>2. V.wrap \in BOOLEAN /\ V.autowrap \in BOOLEAN /\ V.visible \in BOOLEAN /\ V.alt \in BOOLEAN
        BY <1>1 DEF Screen
  <2>3. V.sgr \in Sgrs /\ V.scrolled \in Seq(Rows)
        BY <1>1 DEF Screen
  <2> QED BY <2>1, <2>2, <2>3, Zenon DEF Values
<1>6. V.grid \in Values /\ V.saved \in Values
      BY <1>3, <1>4, Zenon DEF Values
<1>7. /\ V.state \in Values /\ V.origin \in Values /\ V.params \in Values
      /\ V.digits \in Values /\ V.priv \in Values /\ V.utf8 \in Values /\ V.need \in Values
      /\ V.reply \in Values
  <2>1. V.digits \in Int /\ V.priv \in Int /\ V.utf8 \in Int /\ V.need \in Int
        BY <1>1 DEF Parsing
  <2>2. V.params \in Seq(Nat) /\ V.reply \in Seq(Nat) /\ V.state \in States
        BY <1>1 DEF Parsing, Replies
  <2>3. V.origin \in {"GROUND"} \cup StringStates
        BY <1>1 DEF Parsing
  <2> QED BY <2>1, <2>2, <2>3, Zenon DEF Values
<1>8. \A f \in Fields : V[f] \in Values
      BY <1>5, <1>6, <1>7 DEF Fields
<1> QED BY <1>1, <1>8 DEF Shape

\* What every byte keeps a whole read keeps.
LEMMA InputStays ==
    ASSUME NEW S, NEW B, NEW V \in S, NEW bytes \in Seq(B),
           \A W \in S, c \in B : Feed(W, c) \in S
    PROVE  Input(V, bytes) \in S
<1> DEFINE n == Len(bytes)
           Fed[i \in 0..n] == IF i = 0 THEN V ELSE Feed(Fed[i - 1], bytes[i])
           g == [x \in S \X (1..n) |-> Feed(x[1], bytes[x[2]])]
<1>0. V \in S
      OBVIOUS
<1>1. n \in Nat /\ \A i \in 1..n : bytes[i] \in B
      OBVIOUS
<1>2. g \in [S \X (1..n) -> S]
      BY <1>1
<1>3. \A x \in S, i \in 1..n : g[<<x, i>>] = Feed(x, bytes[i])
      OBVIOUS
<1> HIDE DEF g, n
<1>4. PICK h \in [0..n -> S] : Follows(h, V, g, n)
      BY <1>0, <1>1, <1>2, StepByStep
<1>5. h = [i \in 0..n |-> IF i = 0 THEN V ELSE Feed(h[i-1], bytes[i])]
  <2>1. \A i \in 1..n : i - 1 \in 0..n
        BY <1>1
  <2>2. \A i \in 1..n : h[i] = Feed(h[i-1], bytes[i])
        BY <1>3, <1>4, <2>1 DEF Follows
  <2>3. h[0] = V
        BY <1>4 DEF Follows
  <2> QED BY <1>1, <1>4, <2>2, <2>3
<1>6. Fed = [i \in 0..n |-> IF i = 0 THEN V ELSE Feed(Fed[i-1], bytes[i])]
  <2> DEFINE F(f) == [i \in 0..n |-> IF i = 0 THEN V ELSE Feed(f[i-1], bytes[i])]
  <2>1. h = F(h)
        BY <1>5
  <2>2. Fed = CHOOSE f : f = F(f)
        OBVIOUS
  <2> HIDE DEF Fed, F
  <2>3. Fed = F(Fed)
        BY <2>1, <2>2
  <2> QED BY <2>3 DEF F
<1>7. Input(V, bytes) = Fed[n]
      BY DEF Input, n
<1> HIDE DEF Fed
<1> DEFINE T == {i \in 0..n : Fed[i] \in S}
<1>8. 0 \in T
      BY <1>1, <1>6
<1>9. \A i \in 1..n : i - 1 \in T => i \in T
  <2> SUFFICES ASSUME NEW i \in 1..n, i - 1 \in T PROVE Fed[i] \in S
      BY <1>1
  <2>1. Fed[i] = Feed(Fed[i-1], bytes[i])
        BY <1>1, <1>6
  <2> QED BY <1>1, <2>1
<1> HIDE DEF T
<1>10. \A i \in 0..n : i \in T
      BY <1>1, <1>8, <1>9, UpTo
<1>11. Fed[n] \in S
      BY <1>1, <1>10 DEF T
<1> QED BY <1>7, <1>11

\* So does a read of any bytes.
LEMMA InputKeeps ==
    ASSUME NEW V, TermInv(V), NEW bytes \in Seq(Nat)
    PROVE  TermInv(Input(V, bytes))
<1> DEFINE S == {W \in [Fields -> Values] : TermInv(W)}
<1>1. \A W : TermInv(W) <=> W \in S
      BY TermIsFunction
<1> HIDE DEF S
<1>2. V \in S /\ \A W \in S, c \in Nat : Feed(W, c) \in S
      BY <1>1, FeedKeeps
<1>3. Input(V, bytes) \in S
      BY <1>2, InputStays
<1> QED BY <1>1, <1>3

\* Bytes of text and the control characters that move the cursor on.
FlowingByte == {c \in Nat : c \in 8..13 \/ c \in 32..126}

LEMMA TextRan ==
    ASSUME NEW V, TermInv(V), V.state = "GROUND", NEW c \in FlowingByte
    PROVE  Ran(V, Feed(V, c))
<1>1. c \in Nat /\ c \notin {24, 26, Esc}
      BY DEF FlowingByte, Esc
<1>2. Feed(V, c) = InGround(V, c)
      BY <1>1, StateNames DEF Feed
<1> QED BY <1>1, <1>2, GroundTaken

\* A read of plain text and line feeds leaves what is outside the scroll
\* region alone.
LEMMA InputRan ==
    ASSUME NEW V, TermInv(V), V.state = "GROUND", NEW bytes \in Seq(FlowingByte)
    PROVE  Ran(V, Input(V, bytes))
<1> DEFINE S == {W \in [Fields -> Values] : Ran(V, W)}
<1>1. \A W : Ran(V, W) <=> W \in S
      BY TermIsFunction DEF Ran
<1> HIDE DEF S
<1>2. Ran(V, V)
      BY DEF Ran, Outside
<1>3. ASSUME NEW W \in S, NEW c \in FlowingByte PROVE Feed(W, c) \in S
  <2>1. Ran(V, W)
        BY <1>1
  <2>2. TermInv(W) /\ W.state = "GROUND"
        BY <2>1 DEF Ran
  <2>3. Ran(W, Feed(W, c))
        BY <2>2, TextRan
  <2> QED BY <1>1, <2>1, <2>3, RanOn
<1>4. V \in S
      BY <1>1, <1>2
<1>5. Input(V, bytes) \in S
      BY <1>3, <1>4, InputStays
<1> QED BY <1>1, <1>5

-----------------------------------------------------------------------------
(* A new terminal, one that is resized, one whose queues are emptied *)

\* A new terminal, which is never empty (vt100_new).
LEMMA NewTerm ==
    ASSUME NEW h \in Int, NEW w \in Int
    PROVE  TermInv(New(h, w))
<1> DEFINE rows == AtLeast(h, 1)
           cols == AtLeast(w, 1)
           W == New(h, w)
<1>1. rows \in Nat \ {0} /\ cols \in Nat \ {0}
      BY DEF AtLeast
<1> HIDE DEF rows, cols
<1>2. W = [rows |-> rows, cols |-> cols, grid |-> BlankGrid(rows, cols),
        row |-> 0, col |-> 0, sgr |-> SgrDefault, wrap |-> FALSE,
        autowrap |-> TRUE, visible |-> TRUE, alt |-> FALSE,
        top |-> 0, bot |-> rows - 1,
        saved |-> [row |-> 0, col |-> 0, sgr |-> SgrDefault, wrap |-> FALSE],
        state |-> "GROUND", origin |-> "GROUND",
        params |-> <<>>, digits |-> -1, priv |-> 0,
        reply |-> <<>>, scrolled |-> <<>>, utf8 |-> 0, need |-> 0]
      BY DEF New, rows, cols
<1> HIDE DEF W
<1>3. Shape(W)
      BY <1>2 DEF Shape, Fields
<1>4. SgrDefault \in Sgrs
      BY DEF SgrDefault, Sgrs
<1>5. BlankGrid(rows, cols) \in [0..rows-1 -> Row(cols)]
      BY <1>4 DEF BlankGrid, BlankRow, Blank, Row, Cell
<1>6. Screen(W)
      BY <1>1, <1>2, <1>4, <1>5 DEF Screen
<1>7. Saves(W)
  <2>1. W.rows = rows /\ W.cols = cols /\ 0 \in 0..rows-1 /\ 0 \in 0..cols-1
        BY <1>1, <1>2
  <2> QED BY <1>2, <1>4, <2>1 DEF Saves
<1>8. Parsing(W)
  <2>1. /\ W.state = "GROUND" /\ W.origin = "GROUND" /\ W.params = <<>>
        /\ W.digits = -1 /\ W.priv = 0 /\ W.utf8 = 0 /\ W.need = 0
        BY <1>2
  <2> QED BY <2>1, NoParams, StateNames DEF Parsing, ParamsFit
<1>9. Replies(W)
  <2>1. W.reply = <<>> /\ ReplyCap \in Nat
        BY <1>2, TerminalLimits
  <2> QED BY <2>1 DEF Replies
<1>10. TermInv(W)
      BY <1>3, <1>6, <1>7, <1>8, <1>9 DEF TermInv
<1> QED BY <1>10 DEF W

\* A terminal of another size (vt100_resize).
LEMMA ResizeKeeps ==
    ASSUME NEW V, TermInv(V), NEW h \in Int, NEW w \in Int
    PROVE  TermInv(Resize(V, h, w))
<1> DEFINE rows == AtLeast(h, 1)
           cols == AtLeast(w, 1)
           r == AtMost(V.row, rows - 1)
           c == AtMost(V.col, cols - 1)
           s == [V.saved EXCEPT !.row = AtMost(V.saved.row, rows - 1),
                                !.col = AtMost(V.saved.col, cols - 1)]
           g == BlankGrid(rows, cols)
           W == Resize(V, h, w)
<1>1. rows \in Nat \ {0} /\ cols \in Nat \ {0}
      BY DEF AtLeast
<1>2. CASE rows = V.rows /\ cols = V.cols
      BY <1>2 DEF Resize
<1>3. CASE ~ (rows = V.rows /\ cols = V.cols)
  <2>0. V.saved \in [row : 0..V.rows-1, col : 0..V.cols-1, sgr : Sgrs, wrap : BOOLEAN]
        BY DEF TermInv, Saves
  <2>1. W = [V EXCEPT !.rows = rows, !.cols = cols, !.grid = g, !.row = r, !.col = c,
                      !.saved = s, !.wrap = FALSE, !.top = 0, !.bot = rows - 1]
    <3>1. W = [V EXCEPT !.rows = rows, !.cols = cols, !.grid = g, !.row = r, !.col = c,
                        !.saved.row = AtMost(@, rows - 1), !.saved.col = AtMost(@, cols - 1),
                        !.wrap = FALSE, !.top = 0, !.bot = rows - 1]
          BY <1>3, Zenon DEF Resize
    <3>2. V = [f \in Fields |-> V[f]]
          BY DEF TermInv, Shape
    <3>3. "saved" \in Fields
          BY DEF Fields
    <3> HIDE DEF rows, cols, g, r, c, W
    <3> QED BY <2>0, <3>1, <3>2, <3>3
  <2>2. V.rows \in Nat \ {0} /\ V.cols \in Nat \ {0} /\ V.row \in 0..V.rows-1 /\ V.col \in 0..V.cols-1
        BY SameTypes
  <2>3. r \in 0..rows-1 /\ c \in 0..cols-1
        BY <1>1, <2>2 DEF AtMost
  <2>4. s \in [row : 0..rows-1, col : 0..cols-1, sgr : Sgrs, wrap : BOOLEAN]
    <3>1. /\ AtMost(V.saved.row, rows - 1) \in 0..rows-1
          /\ AtMost(V.saved.col, cols - 1) \in 0..cols-1
          BY <1>1, <2>0, <2>2 DEF AtMost
    <3> HIDE DEF rows, cols
    <3> QED BY <2>0, <3>1
  <2>5. SgrDefault \in Sgrs
        BY DEF SgrDefault, Sgrs
  <2> HIDE DEF rows, cols
  <2>6. g \in [0..rows-1 -> Row(cols)]
        BY <1>1, <2>5 DEF BlankGrid, BlankRow, Blank, Row, Cell
  <2> HIDE DEF r, c, s, g, W
  <2>7. Shape(W)
        BY <2>1 DEF TermInv, Shape
  <2>8. /\ W.rows = rows /\ W.cols = cols /\ W.grid = g /\ W.row = r /\ W.col = c
        /\ W.saved = s /\ W.wrap = FALSE /\ W.top = 0 /\ W.bot = rows - 1
        /\ W.sgr = V.sgr /\ W.autowrap = V.autowrap /\ W.visible = V.visible
        /\ W.alt = V.alt /\ W.scrolled = V.scrolled /\ W.reply = V.reply
        /\ SameParser(V, W)
        BY <2>1 DEF TermInv, Shape, Fields, SameParser
  <2>9. Screen(W)
    <3>1. /\ V.sgr \in Sgrs /\ V.autowrap \in BOOLEAN /\ V.visible \in BOOLEAN
          /\ V.alt \in BOOLEAN /\ V.scrolled \in Seq(Rows)
          BY DEF TermInv, Screen
    <3>2. rows - 1 \in Nat /\ 0 \in 0..rows-1 /\ rows - 1 \in 0..rows-1 /\ FALSE \in BOOLEAN
          BY <1>1
    <3> QED BY <1>1, <2>3, <2>6, <2>8, <3>1, <3>2 DEF Screen
  <2>10. Saves(W)
        BY <2>4, <2>8 DEF Saves
  <2>11. Parsing(W) /\ Replies(W)
        BY <2>8 DEF TermInv, Parsing, SameParser, Replies
  <2>12. TermInv(W)
        BY <2>7, <2>9, <2>10, <2>11 DEF TermInv
  <2> QED BY <2>12 DEF W
<1> QED BY <1>2, <1>3

LEMMA Drained ==
    ASSUME NEW V, TermInv(V)
    PROVE  /\ TermInv(DrainReply(V)) /\ TermInv(DrainScrolled(V))
           /\ Ran(V, DrainReply(V)) /\ Ran(V, DrainScrolled(V))
<1> DEFINE W == DrainReply(V)
           X == DrainScrolled(V)
<1>1. Shape(W) /\ Shape(X)
      BY DEF DrainReply, DrainScrolled, TermInv, Shape
<1>2. SameScreen(V, W) /\ SameParser(V, W) /\ W.saved = V.saved /\ W.reply = <<>>
      BY DEF DrainReply, TermInv, Shape, Fields, SameParser, SameScreen
<1>3. /\ SameParser(V, X) /\ X.saved = V.saved /\ X.reply = V.reply
      /\ X.scrolled = <<>> /\ X.rows = V.rows /\ X.cols = V.cols /\ X.grid = V.grid
      /\ X.row = V.row /\ X.col = V.col /\ X.top = V.top /\ X.bot = V.bot
      /\ X.sgr = V.sgr /\ X.wrap = V.wrap /\ X.autowrap = V.autowrap
      /\ X.visible = V.visible /\ X.alt = V.alt
      BY DEF DrainScrolled, TermInv, Shape, Fields, SameParser
<1> HIDE DEF W, X
<1>4. Screen(W) /\ Saves(W)
      BY <1>2 DEF TermInv, Screen, SameScreen, Saves
<1>5. Parsing(W)
      BY <1>2 DEF TermInv, Parsing, SameParser
<1>6. Replies(W)
      BY <1>2, TerminalLimits DEF Replies
<1>7. TermInv(W)
      BY <1>1, <1>4, <1>5, <1>6 DEF TermInv
<1>8. Screen(X)
      BY <1>3 DEF TermInv, Screen
<1>9. TermInv(X)
      BY <1>1, <1>3, <1>8, Redrawn
<1>10. Ran(V, W)
      BY <1>2, <1>7 DEF Ran, SameScreen, SameParser, InRegion, Outside
<1>11. Ran(V, X)
      BY <1>3, <1>9 DEF Ran, SameParser, InRegion, Outside
<1> QED BY <1>7, <1>9, <1>10, <1>11 DEF W, X

-----------------------------------------------------------------------------
(* Drawing a row for the log *)

LEMMA HasGreatest ==
    ASSUME NEW n \in Nat, NEW S \in SUBSET (0..n), S # {}
    PROVE  \E x \in S : \A y \in S : y <= x
<1> DEFINE U == {n - y : y \in S}
<1>1. PICK R : /\ IsWellFoundedOn(R, Nat)
               /\ \A x, y \in Nat : x < y => <<x, y>> \in R
      BY NatOrder
<1>2. U \subseteq Nat /\ U # {}
  <2>1. S \subseteq 0..n
        OBVIOUS
  <2>2. ASSUME NEW y \in 0..n PROVE n - y \in Nat
        OBVIOUS
  <2>3. U \subseteq Nat
        BY <2>1, <2>2
  <2> QED BY <2>3
<1>3. PICK u \in U : \A v \in U : ~ (<<v, u>> \in R)
  <2> HIDE DEF U
  <2>1. IsWellFoundedOn(R, Nat) /\ U \subseteq Nat /\ U # {}
        BY <1>1, <1>2
  <2> QED BY ONLY <2>1, WFMin
<1>4. PICK x \in S : u = n - x
      OBVIOUS
<1>5. ASSUME NEW y \in S PROVE y <= x
  <2>1. n - y \in U /\ n - y \in Nat /\ n - x \in Nat
        OBVIOUS
  <2>2. ~ (n - y < n - x)
        BY <1>1, <1>3, <1>4, <2>1
  <2> QED BY <2>2
<1> QED BY <1>5

LEMMA Encoded ==
    ASSUME NEW cp \in Nat
    PROVE  Encode(cp) \in Seq(Nat)
<1>1. /\ cp \div 64 \in Nat /\ cp \div 4096 \in Nat /\ cp \div 262144 \in Nat /\ cp % 64 \in Nat
      OBVIOUS
<1>2. (cp \div 64) % 64 \in Nat /\ (cp \div 4096) % 64 \in Nat
      BY <1>1
<1> DEFINE a == cp \div 64
           b == cp \div 4096
           d == cp \div 262144
<1> HIDE DEF a, b, d
<1>3. /\ <<cp>> \in Seq(Nat) /\ <<63>> \in Seq(Nat)
      /\ <<192 + a, 128 + (cp % 64)>> \in Seq(Nat)
      BY <1>1 DEF a
<1>4. /\ <<224 + b, 128 + (a % 64), 128 + (cp % 64)>> \in Seq(Nat)
      /\ <<240 + d, 128 + (b % 64), 128 + (a % 64), 128 + (cp % 64)>> \in Seq(Nat)
      BY <1>1, <1>2 DEF a, b, d
<1>5. Encode(cp) =
        IF cp < 128 THEN <<cp>>
        ELSE IF cp < 2048 THEN <<192 + a, 128 + (cp % 64)>>
        ELSE IF cp < 65536 THEN <<224 + b, 128 + (a % 64), 128 + (cp % 64)>>
        ELSE IF cp < 1114112
        THEN <<240 + d, 128 + (b % 64), 128 + (a % 64), 128 + (cp % 64)>>
        ELSE <<63>>
      BY DEF Encode, a, b, d
<1> QED BY <1>3, <1>4, <1>5

LEMMA Coded ==
    ASSUME NEW sgr \in Sgrs
    PROVE  SgrCodes(sgr) \in Seq(Nat) /\ SgrCodes(sgr) # <<>>
<1>1. sgr.fg \in Nat /\ sgr.bg \in Nat
      BY DEF Sgrs, DefaultColor
<1> DEFINE a == IF 1 \in sgr.attrs THEN <<1>> ELSE <<>>
           b == IF 4 \in sgr.attrs THEN <<4>> ELSE <<>>
           c == IF 7 \in sgr.attrs THEN <<7>> ELSE <<>>
           f == CASE sgr.fg < 8 -> <<sgr.fg + 30>>
                  [] sgr.fg \in 8..15 -> <<sgr.fg + 82>>
                  [] OTHER -> <<>>
           g == CASE sgr.bg < 8 -> <<sgr.bg + 40>>
                  [] sgr.bg \in 8..15 -> <<sgr.bg + 92>>
                  [] OTHER -> <<>>
<1>2. a \in Seq(Nat) /\ b \in Seq(Nat) /\ c \in Seq(Nat)
      OBVIOUS
<1>3. f \in Seq(Nat)
  <2>1. <<sgr.fg + 30>> \in Seq(Nat) /\ <<sgr.fg + 82>> \in Seq(Nat) /\ <<>> \in Seq(Nat)
        BY <1>1
  <2>2. sgr.fg < 8 => f = <<sgr.fg + 30>>
        BY <1>1
  <2>3. sgr.fg >= 8 /\ sgr.fg <= 15 => f = <<sgr.fg + 82>>
        BY <1>1
  <2>4. sgr.fg > 15 => f = <<>>
        BY <1>1
  <2> QED BY <1>1, <2>1, <2>2, <2>3, <2>4
<1>4. g \in Seq(Nat)
  <2>1. <<sgr.bg + 40>> \in Seq(Nat) /\ <<sgr.bg + 92>> \in Seq(Nat) /\ <<>> \in Seq(Nat)
        BY <1>1
  <2>2. sgr.bg < 8 => g = <<sgr.bg + 40>>
        BY <1>1
  <2>3. sgr.bg >= 8 /\ sgr.bg <= 15 => g = <<sgr.bg + 92>>
        BY <1>1
  <2>4. sgr.bg > 15 => g = <<>>
        BY <1>1
  <2> QED BY <1>1, <2>1, <2>2, <2>3, <2>4
<1>5. SgrCodes(sgr) = <<0>> \o a \o b \o c \o f \o g
      BY DEF SgrCodes
<1> HIDE DEF a, b, c, f, g
<1>6. <<0>> \in Seq(Nat) /\ Len(<<0>>) = 1
      OBVIOUS
<1>7. /\ <<0>> \o a \in Seq(Nat) /\ Len(<<0>> \o a) >= 1
      BY <1>2, <1>6
<1>8. /\ <<0>> \o a \o b \in Seq(Nat) /\ Len(<<0>> \o a \o b) >= 1
      BY <1>2, <1>7
<1>9. /\ <<0>> \o a \o b \o c \in Seq(Nat) /\ Len(<<0>> \o a \o b \o c) >= 1
      BY <1>2, <1>8
<1>10. /\ <<0>> \o a \o b \o c \o f \in Seq(Nat) /\ Len(<<0>> \o a \o b \o c \o f) >= 1
      BY <1>3, <1>9
<1>11. /\ <<0>> \o a \o b \o c \o f \o g \in Seq(Nat) /\ Len(<<0>> \o a \o b \o c \o f \o g) >= 1
      BY <1>4, <1>10
<1> QED BY <1>5, <1>11

\* Pieces put one after the other.
LEMMA Pasted ==
    ASSUME NEW n \in Nat, NEW a \in Seq(Nat), NEW q \in [1..n -> Seq(Nat)]
    PROVE  \E h \in [0..n -> Seq(Nat)] : h[0] = a /\ \A i \in 1..n : h[i] = h[i-1] \o q[i]
<1> DEFINE g == [x \in Seq(Nat) \X (1..n) |-> x[1] \o q[x[2]]]
<1>1. g \in [Seq(Nat) \X (1..n) -> Seq(Nat)]
      OBVIOUS
<1>2. \A x \in Seq(Nat), i \in 1..n : g[<<x, i>>] = x \o q[i]
      OBVIOUS
<1> HIDE DEF g
<1>3. PICK h \in [0..n -> Seq(Nat)] : Follows(h, a, g, n)
      BY <1>1, StepByStep
<1>4. \A i \in 1..n : i - 1 \in 0..n
      OBVIOUS
<1>5. \A i \in 1..n : h[i] = h[i-1] \o q[i]
      BY <1>2, <1>3, <1>4 DEF Follows
<1> QED BY <1>3, <1>5 DEF Follows

LEMMA Grouped ==
    ASSUME NEW s \in Seq(Nat), NEW t \in Seq(Nat), NEW u \in Seq(Nat)
    PROVE  (s \o t) \o u = s \o (t \o u)
BY ConcatAssociative

LEMMA Emitted ==
    ASSUME NEW sgr \in Sgrs
    PROVE  SgrEmit(sgr) \in Seq(Nat)
<1> DEFINE codes == SgrCodes(sgr)
           n == Len(codes)
           Joined[i \in 1..n] ==
              IF i = 1 THEN Digits[codes[1]]
              ELSE Joined[i - 1] \o <<59>> \o Digits[codes[i]]
           F(f) == [i \in 1..n |-> IF i = 1 THEN Digits[codes[1]]
                                   ELSE f[i - 1] \o <<59>> \o Digits[codes[i]]]
<1>1. SgrEmit(sgr) = Csi \o Joined[n] \o <<109>>
      BY DEF SgrEmit
<1>2. Joined = CHOOSE f : f = F(f)
      OBVIOUS
<1>3. codes \in Seq(Nat) /\ codes # <<>>
      BY Coded
<1> HIDE DEF codes, Joined
<1>4. n \in Nat \ {0} /\ \A i \in 1..n : codes[i] \in Nat
      BY <1>3
<1> DEFINE q == [i \in 1..n-1 |-> <<59>> \o Digits[codes[i + 1]]]
<1>5. \A i \in 1..n : Digits[codes[i]] \in Seq(Nat)
      BY <1>4, DigitsTyped
<1> HIDE DEF n
<1>6. q \in [1..n-1 -> Seq(Nat)]
  <2> SUFFICES ASSUME NEW i \in 1..n-1 PROVE <<59>> \o Digits[codes[i + 1]] \in Seq(Nat)
      OBVIOUS
  <2>1. i + 1 \in 1..n
        BY <1>4
  <2>2. <<59>> \in Seq(Nat)
        OBVIOUS
  <2> QED BY <1>5, <2>1, <2>2
<1>7. Digits[codes[1]] \in Seq(Nat) /\ n - 1 \in Nat
      BY <1>4, <1>5
<1>8. \A i \in 2..n : i - 1 \in 1..n-1 /\ q[i - 1] = <<59>> \o Digits[codes[i]]
      BY <1>4
<1> HIDE DEF q
<1>9. PICK h \in [0..n-1 -> Seq(Nat)] :
         h[0] = Digits[codes[1]] /\ \A i \in 1..n-1 : h[i] = h[i-1] \o q[i]
      BY <1>6, <1>7, Pasted
<1> DEFINE e == [i \in 1..n |-> h[i - 1]]
<1>10. e = F(e)
  <2> SUFFICES ASSUME NEW i \in 1..n PROVE e[i] = F(e)[i]
      OBVIOUS
  <2>1. CASE i = 1
        BY <1>4, <1>9, <2>1
  <2>2. CASE i # 1
    <3>1. i \in 2..n /\ i - 1 \in 1..n-1 /\ i - 1 \in 1..n /\ i - 2 \in 0..n-1
          BY <1>4, <2>2
    <3>2. h[i - 1] = h[i - 2] \o q[i - 1]
      <4>1. (i - 1) - 1 = i - 2
            OBVIOUS
      <4>2. h[i - 1] = h[(i - 1) - 1] \o q[i - 1]
            BY <1>9, <3>1
      <4> QED BY <4>1, <4>2
    <3>3. h[i - 2] \in Seq(Nat) /\ <<59>> \in Seq(Nat) /\ Digits[codes[i]] \in Seq(Nat)
          BY <1>5, <1>9, <3>1
    <3>4. h[i - 1] = (h[i - 2] \o <<59>>) \o Digits[codes[i]]
      <4>1. q[i - 1] = <<59>> \o Digits[codes[i]]
            BY <1>8, <3>1
      <4>2. (h[i - 2] \o <<59>>) \o Digits[codes[i]] = h[i - 2] \o (<<59>> \o Digits[codes[i]])
            BY <3>3, Grouped
      <4> QED BY <3>2, <4>1, <4>2
    <3>5. e[i] = h[i - 1] /\ e[i - 1] = h[i - 2]
          BY <3>1
    <3> QED BY <2>2, <3>4, <3>5
  <2> QED BY <2>1, <2>2
<1> HIDE DEF F, e
<1>11. Joined = F(Joined)
      BY <1>2, <1>10
<1> USE DEF F
<1>12. Joined[1] = Digits[codes[1]]
      BY <1>4, <1>11
<1> DEFINE T == {k \in 0..n-1 : Joined[k + 1] \in Seq(Nat)}
<1>13. 0 \in T
      BY <1>7, <1>12
<1>14. \A k \in 1..n-1 : k - 1 \in T => k \in T
  <2> SUFFICES ASSUME NEW k \in 1..n-1, k - 1 \in T PROVE Joined[k + 1] \in Seq(Nat)
      BY <1>4
  <2>1. k + 1 \in 1..n /\ k + 1 # 1 /\ (k + 1) - 1 = k /\ (k - 1) + 1 = k
        BY <1>4
  <2>2. Joined[k + 1] = Joined[k] \o <<59>> \o Digits[codes[k + 1]]
        BY <1>11, <2>1
  <2>3. Joined[k] \in Seq(Nat) /\ <<59>> \in Seq(Nat) /\ Digits[codes[k + 1]] \in Seq(Nat)
        BY <1>5, <2>1
  <2> QED BY <2>2, <2>3
<1> HIDE DEF T
<1>15. \A k \in 0..n-1 : k \in T
      BY <1>7, <1>13, <1>14, UpTo
<1>16. Joined[n] \in Seq(Nat)
  <2>1. n - 1 \in 0..n-1 /\ (n - 1) + 1 = n
        BY <1>4
  <2> QED BY <1>15, <2>1 DEF T
<1>17. Csi \in Seq(Nat) /\ <<109>> \in Seq(Nat)
      BY DEF Csi, Esc
<1> QED BY <1>1, <1>16, <1>17 DEF n

\* The bytes that draw a row.
LEMMA RowDrawn ==
    ASSUME NEW m \in Nat, NEW cells \in Row(m)
    PROVE  SerializeRow(cells) \in Seq(Nat)
<1> DEFINE used == {c \in DOMAIN cells : cells[c].cp # 0}
           end == IF used = {} THEN 0 ELSE 1 + CHOOSE c \in used : \A d \in used : d <= c
           Sgr(c) == IF c < 0 THEN SgrDefault ELSE cells[c].sgr
           Colour(c) == IF Sgr(c - 2) = Sgr(c - 1) THEN <<>> ELSE SgrEmit(Sgr(c - 1))
           Char(c) == IF cells[c - 1].cp = 0 THEN <<32>> ELSE Encode(cells[c - 1].cp)
           last == IF Sgr(end - 1) = SgrDefault THEN <<>> ELSE SgrEmit(SgrDefault)
           Drawn[c \in 0..end] ==
              IF c = 0 THEN <<>>
              ELSE Drawn[c - 1]
                   \o (IF Sgr(c - 2) = Sgr(c - 1) THEN <<>> ELSE SgrEmit(Sgr(c - 1)))
                   \o (IF cells[c - 1].cp = 0 THEN <<32>> ELSE Encode(cells[c - 1].cp))
           F(f) == [c \in 0..end |-> IF c = 0 THEN <<>>
                                     ELSE (f[c - 1] \o Colour(c)) \o Char(c)]
<1>1. SerializeRow(cells) = Drawn[end] \o last
      BY DEF SerializeRow
<1>2. Drawn = CHOOSE f : f = F(f)
      OBVIOUS
<1>3. \A c \in 0..m-1 : cells[c] \in Cell /\ cells[c].cp \in Nat /\ cells[c].sgr \in Sgrs
      BY DEF Row, Cell
<1>4. end \in 0..m
  <2>1. used \in SUBSET (0..m-1)
        BY DEF Row
  <2>2. CASE used = {}
        BY <2>2
  <2>3. CASE used # {}
    <3> DEFINE x == CHOOSE c \in used : \A d \in used : d <= c
    <3>1. m - 1 \in Nat
          BY <2>1, <2>3
    <3>2. \E c \in used : \A d \in used : d <= c
          BY <2>1, <2>3, <3>1, HasGreatest
    <3>3. x \in used
          BY <3>2
    <3>4. x \in 0..m-1
          BY <2>1, <3>3
    <3>5. end = 1 + x
          BY <2>3
    <3> HIDE DEF x, end
    <3> QED BY <3>4, <3>5
  <2> QED BY <2>2, <2>3
<1>5. SgrDefault \in Sgrs
      BY DEF SgrDefault, Sgrs
<1> HIDE DEF Drawn, used, end
<1>6. \A c \in 1..end : Sgr(c - 1) \in Sgrs /\ c - 1 \in 0..m-1
  <2> SUFFICES ASSUME NEW c \in 1..end PROVE Sgr(c - 1) \in Sgrs /\ c - 1 \in 0..m-1
      OBVIOUS
  <2>1. c - 1 \in 0..m-1 /\ ~(c - 1 < 0)
        BY <1>4
  <2> QED BY <1>3, <2>1
<1>7. \A c \in 1..end : Colour(c) \in Seq(Nat)
  <2> SUFFICES ASSUME NEW c \in 1..end PROVE Colour(c) \in Seq(Nat)
      OBVIOUS
  <2>1. SgrEmit(Sgr(c - 1)) \in Seq(Nat)
        BY <1>6, Emitted
  <2>2. <<>> \in Seq(Nat)
        OBVIOUS
  <2> HIDE DEF Sgr
  <2> QED BY <2>1, <2>2
<1>8. \A c \in 1..end : Char(c) \in Seq(Nat)
  <2> SUFFICES ASSUME NEW c \in 1..end PROVE Char(c) \in Seq(Nat)
      OBVIOUS
  <2>1. Encode(cells[c - 1].cp) \in Seq(Nat)
        BY <1>3, <1>6, Encoded
  <2>2. <<32>> \in Seq(Nat)
        OBVIOUS
  <2> QED BY <2>1, <2>2
<1>9. last \in Seq(Nat)
  <2>1. SgrEmit(SgrDefault) \in Seq(Nat)
        BY <1>5, Emitted
  <2>2. <<>> \in Seq(Nat)
        OBVIOUS
  <2> HIDE DEF Sgr
  <2> QED BY <2>1, <2>2
<1> HIDE DEF Colour, Char, last, Sgr
<1> DEFINE q == [c \in 1..end |-> Colour(c) \o Char(c)]
<1>10. q \in [1..end -> Seq(Nat)]
      BY <1>7, <1>8
<1>11. \A c \in 1..end : q[c] = Colour(c) \o Char(c)
      OBVIOUS
<1>12. <<>> \in Seq(Nat) /\ end \in Nat
      BY <1>4
<1> HIDE DEF q
<1>13. PICK h \in [0..end -> Seq(Nat)] :
         h[0] = <<>> /\ \A c \in 1..end : h[c] = h[c-1] \o q[c]
      BY <1>10, <1>12, Pasted
<1>14. h = F(h)
  <2>1. ASSUME NEW c \in 1..end PROVE h[c] = (h[c-1] \o Colour(c)) \o Char(c)
    <3>1. c - 1 \in 0..end
          BY <1>12
    <3>2. h[c-1] \in Seq(Nat) /\ Colour(c) \in Seq(Nat) /\ Char(c) \in Seq(Nat)
          BY <1>7, <1>8, <1>13, <3>1
    <3>3. (h[c-1] \o Colour(c)) \o Char(c) = h[c-1] \o (Colour(c) \o Char(c))
          BY <3>2, Grouped
    <3>4. h[c] = h[c-1] \o (Colour(c) \o Char(c))
          BY <1>11, <1>13
    <3> QED BY <3>3, <3>4
  <2>2. \A c \in 0..end : c = 0 \/ c \in 1..end
        BY <1>12
  <2> QED BY <1>13, <2>1, <2>2
<1>15. Drawn = CHOOSE f : f = F(f)
      BY <1>2 DEF Colour, Char
<1> HIDE DEF F
<1>16. Drawn = F(Drawn)
      BY <1>14, <1>15
<1>17. Drawn[0] = <<>>
      BY <1>12, <1>16 DEF F
<1> DEFINE T == {c \in 0..end : Drawn[c] \in Seq(Nat)}
<1>18. 0 \in T
  <2>1. 0 \in 0..end /\ Drawn[0] \in Seq(Nat)
        BY <1>12, <1>17
  <2> QED BY <2>1
<1>19. \A c \in 1..end : c - 1 \in T => c \in T
  <2> SUFFICES ASSUME NEW c \in 1..end, c - 1 \in T PROVE Drawn[c] \in Seq(Nat)
      BY <1>12
  <2>1. c \in 0..end /\ c # 0
        BY <1>12
  <2>2. Drawn[c] = (Drawn[c - 1] \o Colour(c)) \o Char(c)
        BY <1>16, <2>1 DEF F
  <2>3. Drawn[c - 1] \in Seq(Nat) /\ Colour(c) \in Seq(Nat) /\ Char(c) \in Seq(Nat)
        BY <1>7, <1>8
  <2> QED BY <2>2, <2>3
<1> HIDE DEF T
<1>20. \A c \in 0..end : c \in T
      BY <1>12, <1>18, <1>19, UpTo
<1>21. Drawn[end] \in Seq(Nat)
      BY <1>12, <1>20 DEF T
<1> QED BY <1>1, <1>9, <1>21

=============================================================================
