------------------------------ MODULE MenuList ------------------------------
(***************************************************************************)
(* Moving about in `ice idf menuconfig`: the scrolling list of src/tui.c   *)
(* and the menus of src/cmd/idf/menuconfig/menuconfig.c.  A row is a node  *)
(* of the tree; rows count from 1.  What a key does to the table of        *)
(* symbols is Kconfig's, resolved at once.                                 *)
(***************************************************************************)
EXTENDS Kconfig

CONSTANTS
    Heights,   \* the heights a terminal may have
    MaxKeys    \* bound on the keys of a user

ASSUME HeightsAssumption == Heights \subseteq Nat

VARIABLES
    cur,      \* the node whose rows are shown, 0 for the root
    rows,     \* view's items: the rows of cur when the list was last made
    cursor,   \* the row of the caret
    top,      \* the first row on the screen
    height,
    stack,    \* saved_pos: caret and top of the menus descended from
    modified, \* there are changes to save
    keys,     \* keys pressed
    trail     \* for the properties: the menus entered, and the rows left behind

listVars == <<rows, cursor, top, height>>
menuVars == <<cur, listVars, stack, modified, keys, trail>>

-----------------------------------------------------------------------------
(* Rows *)

\* What is hidden has no row.
HasRow(k, t, m) ==
    LET d == k.node[m]
    IN  CASE d.kind = "menu" -> Holds(t, k.ctx[m]) /\ Holds(t, d.visibleIf)
          [] d.kind = "comment" -> TRUE
          [] OTHER -> t[d.sym].visible /\ Some(t, k.of[d.sym].prompt)

\* flatten_node: ifs are transparent; what stands in a symbol's node has no row.
Rows(k, t, n) ==
    LET f[x \in {0} \cup Nodes(k)] ==
          FlattenSeq([i \in DOMAIN k.kids[x] |->
             LET m == k.kids[x][i]
             IN  IF k.node[m].kind = "if" THEN f[m] ELSE IF HasRow(k, t, m) THEN <<m>> ELSE <<>>])
    IN  f[n]

Selectable(rs, i) == tree.node[rs[i]].kind # "comment"

-----------------------------------------------------------------------------
(* tui_list *)

Body == IF height > 2 THEN height - 2 ELSE 0

\* The first row a caret may be on from start, else start.
FindSelectable(rs, start, dir) ==
    LET ahead == {i \in DOMAIN rs : Selectable(rs, i) /\ (i - start) * dir >= 0}
    IN  IF start \notin DOMAIN rs \/ ahead = {} THEN start
        ELSE CHOOSE i \in ahead : \A j \in ahead : (i - start) * dir <= (j - start) * dir

\* Of an empty list the row before the first is looked at, and stays the caret.
MoveCursor(rs, c, delta) ==
    LET dir == IF delta >= 0 THEN 1 ELSE -1
        low == IF c + delta < 1 THEN 1 ELSE c + delta
        target == IF low > Len(rs) THEN Len(rs) ELSE low
        found == FindSelectable(rs, target, dir)
    IN  IF found \in DOMAIN rs /\ Selectable(rs, found) THEN found
        ELSE FindSelectable(rs, target, -dir)

\* Mutant: the window ends a row late.
ClampScrollLate(rs, c, t, body) ==
    IF body = 0 \/ rs = <<>> THEN 1
    ELSE IF c < t THEN c ELSE IF c > t + body THEN c - body + 1 ELSE t

\* The caret's row is in the window, which is moved no more than that takes.
ClampScroll(rs, c, t, body) ==
    LET last == IF t > Len(rs) - body + 1 THEN Len(rs) - body + 1 ELSE t
        first == IF last < 1 THEN 1 ELSE last
    IN  IF body = 0 \/ rs = <<>> THEN 1
        ELSE IF c < first THEN c
        ELSE IF c >= first + body THEN c - body + 1 ELSE first

SetItems(rs) ==
    LET c == IF rs # <<>> /\ ~Selectable(rs, 1) THEN FindSelectable(rs, 1, 1) ELSE 1
    IN  [rows |-> rs, cursor |-> c, top |-> ClampScroll(rs, c, 1, Body)]

\* A caret put back to where it was: only that there is such a row is asked.
PutBack(rs, c, t) ==
    IF c <= Len(rs) THEN [SetItems(rs) EXCEPT !.cursor = c, !.top = ClampScroll(rs, c, t, Body)]
    ELSE SetItems(rs)

Show(l) == rows' = l.rows /\ cursor' = l.cursor /\ top' = l.top

-----------------------------------------------------------------------------
(* The keys *)

Pressed ==
    /\ keys < MaxKeys
    /\ keys' = keys + 1
    /\ UNCHANGED <<project, sdkconfig, tool, phase, iter, turns>>

Caret(c) ==
    /\ cursor' = c /\ top' = ClampScroll(rows, c, top, Body)
    /\ UNCHANGED <<syms, cur, rows, height, stack, modified, trail>>

Move ==
    /\ Pressed
    /\ \E delta \in {-1, 1, -Body, Body} : Caret(MoveCursor(rows, cursor, delta))

Jump ==
    /\ Pressed
    /\ Caret(FindSelectable(rows, 1, 1)) \/ Caret(FindSelectable(rows, Len(rows), -1))

Resize ==
    /\ Pressed
    /\ \E h \in Heights :
          /\ height' = h
          /\ top' = ClampScroll(rows, cursor, top, IF h > 2 THEN h - 2 ELSE 0)
    /\ UNCHANGED <<syms, cur, rows, cursor, stack, modified, trail>>

Here == tree.node[rows[cursor]]

\* Enter on a symbol: the table is resolved, the list made again.
EnterSym ==
    /\ Pressed
    /\ cursor \in DOMAIN rows /\ Here.kind = "sym"
    /\ LET s == Here.sym
           sibling(m) == m # s /\ tree.choice[m] # NoSym /\ tree.choice[m] = tree.choice[s]
           val == IF tree.choice[s] # NoSym THEN Y ELSE 1 - syms[s].cur
           t == [m \in Sym(tree) |->
                   IF m = s THEN SetUser(syms[m], val)
                   ELSE IF sibling(m) THEN [syms[m] EXCEPT !.userSet = FALSE, !.userSeeded = FALSE]
                   ELSE syms[m]]
       IN  /\ syms' = Outcome(tree, t)
           /\ Show(PutBack(Rows(tree, syms', cur), cursor, top))
    /\ modified' = TRUE
    /\ UNCHANGED <<cur, height, stack, trail>>

\* Enter on a menu or a choice.
Descend ==
    /\ Pressed
    /\ cursor \in DOMAIN rows /\ Here.kind \in {"menu", "choice"}
    /\ stack' = Append(stack, [cursor |-> cursor, top |-> top])
    /\ trail' = Append(trail, [node |-> rows[cursor], rows |-> rows])
    /\ cur' = rows[cursor]
    /\ Show(SetItems(Rows(tree, syms, cur')))
    /\ UNCHANGED <<syms, height, modified>>

\* Mutant: the caret is not put back.
AscendToFirst ==
    /\ Pressed
    /\ cur # 0
    /\ cur' = tree.node[cur].up
    /\ Show(SetItems(Rows(tree, syms, cur')))
    /\ stack' = IF stack = <<>> THEN <<>> ELSE Front(stack)
    /\ trail' = IF trail = <<>> THEN <<>> ELSE Front(trail)
    /\ UNCHANGED <<syms, height, modified>>

\* Esc or left: to the node around this one, whatever it is.
Ascend ==
    /\ Pressed
    /\ cur # 0
    /\ cur' = tree.node[cur].up
    /\ LET rs == Rows(tree, syms, cur')
       IN  IF stack = <<>> THEN Show(SetItems(rs)) /\ stack' = stack
           ELSE Show(PutBack(rs, Last(stack).cursor, Last(stack).top)) /\ stack' = Front(stack)
    /\ trail' = IF trail = <<>> THEN <<>> ELSE Front(trail)
    /\ UNCHANGED <<syms, height, modified>>

\* Mutant: what is hidden is found.
HitHidden(n) == tree.node[n].kind \in {"sym", "choice"} /\ Searched(tree)[tree.node[n].up]

Offered(d) ==
    d.kind \in {"sym", "choice"} /\ syms[d.sym].visible /\ Some(syms, tree.of[d.sym].prompt)
Hit(n) == Offered(tree.node[n]) /\ Searched(tree)[tree.node[n].up]

\* Enter in the search: to the menu or choice that lists the node.
FindContainer(n) ==
    LET f[m \in {0} \cup Nodes(tree)] ==
          IF m # 0 /\ tree.node[m].kind = "if" THEN f[tree.node[m].up] ELSE m
    IN  f[tree.node[n].up]

JumpTo(n) ==
    /\ Pressed
    /\ Hit(n)
    /\ stack' = <<>> /\ trail' = <<>>
    /\ cur' = FindContainer(n)
    /\ LET rs == Rows(tree, syms, cur')
           at == {i \in DOMAIN rs : rs[i] = n}
           c == IF at = {} THEN SetItems(rs).cursor ELSE CHOOSE i \in at : TRUE
       IN  Show([rows |-> rs, cursor |-> c, top |-> ClampScroll(rs, c, SetItems(rs).top, Body)])
    /\ UNCHANGED <<syms, height, modified>>

\* s: the list is made again for its title.
SaveMenu ==
    /\ Pressed
    /\ modified' = FALSE
    /\ Show(PutBack(rows, cursor, top))
    /\ UNCHANGED <<syms, cur, height, stack, trail>>

MInit ==
    /\ KInit
    /\ syms = Fresh(tree)
    /\ cur = 0 /\ stack = <<>> /\ trail = <<>>
    /\ rows = <<>> /\ cursor = 0 /\ top = 1 /\ height \in Heights
    /\ modified = FALSE /\ keys = 0

\* menuconfig reads and resolves, and shows the root's rows.
Open ==
    /\ cursor = 0 /\ keys = 0
    /\ Pressed
    /\ syms' = Outcome(tree, Load(tree, syms, sdkconfig))
    /\ Show(SetItems(Rows(tree, syms', 0)))
    /\ UNCHANGED <<cur, height, stack, modified, trail>>

MNext ==
    \/ Open
    \/ /\ keys > 0
       /\ \/ Move \/ Jump \/ Resize \/ EnterSym \/ Descend \/ Ascend \/ SaveMenu
          \/ \E n \in Nodes(tree) : JumpTo(n)

MenuSpec == MInit /\ [][MNext]_<<kconfVars, menuVars>>

-----------------------------------------------------------------------------
(* Properties *)

\* "ensure the cursor is within the visible band" (clamp_scroll): of a list
\* with rows the caret's is one, and on the screen.
CaretShown ==
    keys > 0 /\ Body > 0 /\ rows # <<>> =>
       /\ cursor \in DOMAIN rows
       /\ cursor \in top..(top + Body - 1) /\ top \in 1..Len(rows)

CaretOn(n) == cursor' \in DOMAIN rows' /\ rows'[cursor'] = n

\* "Remember where we were before descending so Esc lands the caret back on this
\* row" (activate), if the rows around this menu are those that were left.
LandsBack ==
    Ascend /\ trail # <<>> /\ Last(trail).rows = Rows(tree, syms', FindContainer(cur))
       => CaretOn(cur)

\* In an if there is no menu and no choice: from one that is, ascend goes to the
\* if, whose rows are some of those that were left.
IfsAreFlat(k) ==
    \A n \in Nodes(k) :
       k.node[n].kind \in {"menu", "choice"} /\ k.node[n].up # 0
          => k.node[k.node[n].up].kind # "if"

\* The search and Enter show what was found (jump_to).
LandsOnHit == \A n \in Nodes(tree) : JumpTo(n) => CaretOn(n)

\* The caret stays where the user expects it: on the screen; back on the row it
\* was on, where ifs are flat; and on what was found by searching, wherever it is.
CaretFollows ==
    /\ []CaretShown
    /\ [][IfsAreFlat(tree) => LandsBack]_<<kconfVars, menuVars>>
    /\ [][LandsOnHit]_<<kconfVars, menuVars>>

\* "Walk the menu tree collecting every visible symbol" (collect_hits_visit): the
\* search finds what could be set.
SearchFinds ==
    keys > 0 => \A n \in Nodes(tree) :
                   tree.node[n].kind = "sym" /\ Offered(tree.node[n]) => Hit(n)
=============================================================================
