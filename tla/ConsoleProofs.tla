---------------------------- MODULE ConsoleProofs ----------------------------
(***************************************************************************)
(* Proofs about Console and LogPane, for every log size, every line of text *)
(* and every order of reads, keys and resizes: a pane and its terminal stay *)
(* in order, text that flows stays in the scroll region, a view that is    *)
(* frozen stands still until it is left, and the counter of a search tells *)
(* the matches there are and which of them is current.                     *)
(***************************************************************************)
EXTENDS Console, TerminalProofs, FiniteSetTheorems

-----------------------------------------------------------------------------
(* A pane in order, and what freezing and moving do to it *)

PaneFields == {"vt", "lines", "total", "anchor", "ceiling", "snap", "mode", "active",
               "helpWasLive", "prefix", "search", "yank"}
PaneShape(P) == P = [f \in PaneFields |-> P[f]]

\* Q differs from P in these fields only.
Changes(P, Q, fields) == PaneShape(Q) /\ \A f \in PaneFields \ fields : Q[f] = P[f]

Line == Seq(Nat)
LogKept(P) ==
    /\ P.lines \in Seq(Line) /\ Len(P.lines) <= Capacity
    /\ P.total \in Nat /\ Len(P.lines) <= P.total
ViewKept(P) ==
    /\ P.snap \in Seq(Line) /\ P.ceiling \in {-1, P.total}
    /\ P.anchor \in Int /\ P.anchor >= -1
    /\ Frozen(P) => Len(P.snap) > 0 /\ P.anchor < P.total + Len(P.snap)
SearchFields == {"pat", "line", "start", "index", "total"}
SearchKept(P) ==
    P.search = [f \in SearchFields |-> P.search[f]] /\ P.search.line \in Int
ModesKept(P) ==
    /\ P.mode \in {"LIVE", "NAV"} \cup Modal /\ P.active \in BOOLEAN
    /\ P.mode = "LIVE" => ~P.active
    /\ P.mode \in {"NAV", "SEARCH"} => P.active
    /\ P.helpWasLive = (P.mode = "HELP" /\ ~P.active)

PaneCore(P) ==
    PaneShape(P) /\ TermInv(P.vt) /\ LogKept(P) /\ ViewKept(P) /\ SearchKept(P)

\* Changes add up.
LEMMA ChangesOn ==
    ASSUME NEW P, NEW Q, NEW F, Changes(P, Q, F), NEW R, NEW G, Changes(Q, R, G)
    PROVE  Changes(P, R, F \cup G)
BY DEF Changes

\* A change of fields the log does not depend on.
LEMMA Kept ==
    ASSUME NEW P, PaneCore(P), NEW Q, Changes(P, Q, {"mode", "active", "helpWasLive", "prefix", "yank"})
    PROVE  PaneCore(Q)
<1>1. /\ PaneShape(Q) /\ Q.vt = P.vt /\ Q.lines = P.lines /\ Q.total = P.total
      /\ Q.anchor = P.anchor /\ Q.ceiling = P.ceiling /\ Q.snap = P.snap /\ Q.search = P.search
      BY DEF Changes, PaneFields
<1> QED BY <1>1 DEF PaneCore, LogKept, ViewKept, SearchKept, Frozen

\* A new view of the same log.
LEMMA Viewed ==
    ASSUME NEW P, PaneCore(P), NEW Q, Changes(P, Q, {"anchor", "ceiling", "snap"}), ViewKept(Q)
    PROVE  PaneCore(Q)
<1>1. /\ PaneShape(Q) /\ Q.vt = P.vt /\ Q.lines = P.lines /\ Q.total = P.total
      /\ Q.search = P.search
      BY DEF Changes, PaneFields
<1> QED BY <1>1 DEF PaneCore, LogKept, SearchKept

\* Freezing copies what is seen (tui_log_freeze).
LEMMA Freezes ==
    ASSUME NEW P, PaneCore(P)
    PROVE  /\ PaneCore(Freeze(P)) /\ Frozen(Freeze(P))
           /\ Changes(P, Freeze(P), {"anchor", "ceiling", "snap"})
<1> DEFINE snap == [r \in 1..P.vt.rows |-> SerializeRow(P.vt.grid[r - 1])]
           Q == Freeze(P)
<1>1. P.vt.rows \in Nat \ {0} /\ P.vt.cols \in Nat
      /\ P.vt.grid \in [0..P.vt.rows-1 -> Row(P.vt.cols)]
      BY SameTypes DEF PaneCore
<1>2. snap \in Seq(Line) /\ Len(snap) = P.vt.rows
  <2>1. ASSUME NEW r \in 1..P.vt.rows PROVE SerializeRow(P.vt.grid[r - 1]) \in Line
    <3>1. P.vt.grid[r - 1] \in Row(P.vt.cols)
          BY <1>1
    <3> QED BY <1>1, <3>1, RowDrawn DEF Line
  <2> QED BY <1>1, <2>1
<1>3. Q = [P EXCEPT !.ceiling = P.total, !.snap = snap, !.anchor = P.total + P.vt.rows - 1]
      BY DEF Freeze
<1> HIDE DEF snap, Q
<1>4. Changes(P, Q, {"anchor", "ceiling", "snap"})
      BY <1>3 DEF Changes, PaneCore, PaneShape
<1>5. /\ Q.ceiling = P.total /\ Q.snap = snap /\ Q.anchor = P.total + P.vt.rows - 1
      /\ Q.total = P.total /\ P.total \in Nat
      BY <1>3 DEF PaneCore, PaneShape, PaneFields, LogKept
<1>6. ViewKept(Q) /\ Frozen(Q)
      BY <1>1, <1>2, <1>5 DEF ViewKept, Frozen
<1> QED BY <1>4, <1>6, Viewed DEF Q

\* A pane that thaws forgets what it showed (tui_log_unfreeze).
LEMMA Unfreezes ==
    ASSUME NEW P, PaneCore(P)
    PROVE  PaneCore(Unfreeze(P)) /\ Changes(P, Unfreeze(P), {"anchor", "ceiling", "snap"})
<1> DEFINE Q == Unfreeze(P)
<1>1. Q = [P EXCEPT !.ceiling = -1, !.anchor = -1, !.snap = <<>>]
      BY DEF Unfreeze
<1> HIDE DEF Q
<1>2. Changes(P, Q, {"anchor", "ceiling", "snap"})
      BY <1>1 DEF Changes, PaneCore, PaneShape
<1>3. Q.ceiling = -1 /\ Q.snap = <<>> /\ Q.anchor = -1
      BY <1>1 DEF PaneCore, PaneShape, PaneFields
<1>4. ViewKept(Q)
      BY <1>3 DEF ViewKept, Frozen
<1> QED BY <1>2, <1>4, Viewed DEF Q

\* Scrolling moves the anchor only, and to a line there is (tui_log_nav_step).
LEMMA Navigates ==
    ASSUME NEW P, PaneCore(P), NEW key \in Scrolling
    PROVE  PaneCore(NavStep(P, key)) /\ Changes(P, NavStep(P, key), {"anchor"})
<1> DEFINE newest == IF Frozen(P) THEN P.ceiling + Len(P.snap) - 1
                     ELSE P.total + P.vt.rows - 1
           current == IF P.anchor < 0 THEN newest ELSE P.anchor
           page == AtLeast(P.vt.rows, 1)
           Up(n) == AtLeast(current - n, Oldest(P))
           Down(n) == IF current + n > newest THEN -1 ELSE current + n
           a == CASE key = "UP" -> Up(1)
                  [] key = "DOWN" -> Down(1)
                  [] key = "PGUP" -> Up(page)
                  [] key = "PGDN" -> Down(page)
                  [] key = "HOME" -> Oldest(P)
                  [] key = "END" -> -1
           Q == NavStep(P, key)
<1>1. Q = [P EXCEPT !.anchor = a]
      BY DEF NavStep
<1>2. /\ P.total \in Nat /\ P.anchor \in Int /\ P.anchor >= -1 /\ Len(P.snap) \in Nat
      /\ P.ceiling \in {-1, P.total} /\ P.vt.rows \in Nat \ {0}
      /\ Len(P.lines) \in Nat /\ Len(P.lines) <= P.total
      /\ Frozen(P) => Len(P.snap) > 0 /\ P.anchor < P.total + Len(P.snap)
      BY SameTypes DEF PaneCore, LogKept, ViewKept
<1>3. Oldest(P) \in Nat /\ Oldest(P) <= P.total
      BY <1>2 DEF Oldest
<1>4. page \in Nat \ {0}
      BY <1>2 DEF AtLeast
<1>5. newest \in Nat /\ (Frozen(P) => newest = P.total + Len(P.snap) - 1)
  <2>1. CASE Frozen(P)
        BY <1>2, <2>1 DEF Frozen
  <2>2. CASE ~Frozen(P)
        BY <1>2, <2>2
  <2> QED BY <2>1, <2>2
<1>6. current \in Nat /\ (Frozen(P) => current <= newest)
      BY <1>2, <1>5
<1> HIDE DEF newest, current, page, Q
<1>7. ASSUME NEW n \in Nat \ {0}
      PROVE  /\ Up(n) \in Int /\ Up(n) >= 0 /\ (Frozen(P) => Up(n) < P.total + Len(P.snap))
             /\ Down(n) \in Int /\ Down(n) >= -1 /\ (Frozen(P) => Down(n) < P.total + Len(P.snap))
      BY <1>2, <1>3, <1>5, <1>6 DEF AtLeast
<1>8. 1 \in Nat \ {0}
      OBVIOUS
<1> HIDE DEF Up, Down
<1>9. a \in Int /\ a >= -1 /\ (Frozen(P) => a < P.total + Len(P.snap))
  <2>1. CASE key = "UP"
        BY <1>7, <1>8, <2>1
  <2>2. CASE key = "DOWN"
        BY <1>7, <1>8, <2>2
  <2>3. CASE key = "PGUP"
        BY <1>4, <1>7, <2>3
  <2>4. CASE key = "PGDN"
        BY <1>4, <1>7, <2>4
  <2>5. CASE key = "HOME"
        BY <1>2, <1>3, <2>5
  <2>6. CASE key = "END"
        BY <1>2, <2>6
  <2> QED BY <2>1, <2>2, <2>3, <2>4, <2>5, <2>6 DEF Scrolling
<1> HIDE DEF a
<1>10. Changes(P, Q, {"anchor"})
      BY <1>1 DEF Changes, PaneCore, PaneShape
<1>11. /\ Q.anchor = a /\ Q.total = P.total /\ Q.snap = P.snap /\ Q.ceiling = P.ceiling
      BY <1>1 DEF PaneCore, PaneShape, PaneFields
<1>12. ViewKept(Q)
      BY <1>9, <1>11 DEF PaneCore, ViewKept, Frozen
<1>13. Changes(P, Q, {"anchor", "ceiling", "snap"})
      BY <1>10 DEF Changes
<1> QED BY <1>10, <1>12, <1>13, Viewed DEF Q

-----------------------------------------------------------------------------
(* Searching moves the cursor to a line there is *)

Aim(P, s, a) == [P EXCEPT !.search = s, !.anchor = a]
SearchShape(s) == s = [f \in SearchFields |-> s[f]]
\* Where the cursor may be.
AnchorFits(P, a) == a \in Int /\ a >= -1 /\ (Frozen(P) => a < P.total + Len(P.snap))

\* A search and an anchor that are in order make a pane that is.
LEMMA Aims ==
    ASSUME NEW P, PaneCore(P), NEW s, SearchShape(s), s.line \in Int,
           NEW a, AnchorFits(P, a)
    PROVE  LET Q == Aim(P, s, a)
           IN /\ PaneCore(Q) /\ Changes(P, Q, {"search", "anchor"})
              /\ Q.search = s /\ Q.anchor = a
<1> DEFINE Q == Aim(P, s, a)
<1>1. Changes(P, Q, {"search", "anchor"})
      BY DEF Aim, Changes, PaneCore, PaneShape
<1>2. Q.search = s /\ Q.anchor = a
      BY DEF Aim, PaneCore, PaneShape, PaneFields
<1> HIDE DEF Q
<1>3. /\ PaneShape(Q) /\ Q.vt = P.vt /\ Q.lines = P.lines /\ Q.total = P.total
      /\ Q.ceiling = P.ceiling /\ Q.snap = P.snap
      BY <1>1 DEF Changes, PaneFields
<1>4. ViewKept(Q)
      BY <1>2, <1>3 DEF PaneCore, ViewKept, AnchorFits, Frozen
<1>5. LogKept(Q) /\ TermInv(Q.vt)
      BY <1>3 DEF PaneCore, LogKept
<1>6. SearchKept(Q)
      BY <1>2 DEF SearchKept, SearchShape
<1>7. PaneCore(Q)
      BY <1>3, <1>4, <1>5, <1>6 DEF PaneCore
<1> QED BY <1>1, <1>2, <1>7 DEF Q

\* Where naturals are added.
LEMMA Added ==
    ASSUME NEW a \in Nat, NEW b \in Nat
    PROVE  b > 0 => a + b \in Nat \ {0}
OBVIOUS

\* The same numbers, in another order.
LEMMA AddedUp ==
    ASSUME NEW a \in Nat, NEW b \in Nat, NEW c \in Nat
    PROVE  (c - a) + (a + b) = c + b
OBVIOUS

\* What is seen: all of the log, then a screen.
LEMMA Seen ==
    ASSUME NEW P, PaneCore(P)
    PROVE  /\ EffectiveLines(P) = Len(P.lines)
           /\ LogTotal(P) \in Nat \ {0} /\ Oldest(P) \in Nat
           /\ Frozen(P) => Oldest(P) + LogTotal(P) = P.total + Len(P.snap)
           /\ P.search.line \in Int /\ P.anchor \in Int /\ SearchShape(P.search)
           /\ AnchorFits(P, P.anchor) /\ P.total \in Nat
<1>1. /\ P.total \in Nat /\ P.anchor \in Int /\ P.anchor >= -1 /\ Len(P.snap) \in Nat
      /\ P.ceiling \in {-1, P.total} /\ P.vt.rows \in Nat \ {0}
      /\ Len(P.lines) \in Nat /\ Len(P.lines) <= P.total
      /\ Frozen(P) => Len(P.snap) > 0 /\ P.anchor < P.total + Len(P.snap)
      BY SameTypes DEF PaneCore, LogKept, ViewKept
<1>2. Oldest(P) \in Nat /\ P.total - Oldest(P) = Len(P.lines)
      BY <1>1 DEF Oldest
<1>3. EffectiveLines(P) = Len(P.lines)
  <2>1. CASE ~Frozen(P)
        BY <2>1 DEF EffectiveLines
  <2>2. CASE Frozen(P)
    <3>1. P.ceiling = P.total
          BY <1>1, <2>2 DEF Frozen
    <3> QED BY <1>1, <1>2, <2>2, <3>1 DEF EffectiveLines, Within, AtLeast, AtMost
  <2> QED BY <2>1, <2>2
<1>4. LogTotal(P) \in Nat \ {0} /\ (Frozen(P) => Oldest(P) + LogTotal(P) = P.total + Len(P.snap))
  <2>1. CASE ~Frozen(P)
        BY <1>1, <1>3, <2>1 DEF LogTotal
  <2>2. CASE Frozen(P)
    <3>1. LogTotal(P) = Len(P.lines) + Len(P.snap)
          BY <1>3, <2>2 DEF LogTotal
    <3>2. Len(P.snap) > 0
          BY <1>1, <2>2
    <3>3. Len(P.lines) \in Nat /\ Len(P.snap) \in Nat /\ P.total \in Nat
          BY <1>1
    <3>4. Len(P.lines) + Len(P.snap) \in Nat \ {0}
          BY <3>2, <3>3, Added, Zenon
    <3>5. Oldest(P) + (Len(P.lines) + Len(P.snap)) = P.total + Len(P.snap)
      <4>1. (P.total - Len(P.lines)) + (Len(P.lines) + Len(P.snap)) = P.total + Len(P.snap)
            BY <3>3, AddedUp
      <4> QED BY <4>1, Zenon DEF Oldest
    <3> QED BY <3>1, <3>4, <3>5, Zenon
  <2> QED BY <2>1, <2>2
<1> QED BY <1>1, <1>2, <1>3, <1>4 DEF PaneCore, SearchKept, SearchShape, AnchorFits

\* A place in what is seen.
LEMMA PlaceFits ==
    ASSUME NEW P, PaneCore(P), NEW u \in 0..LogTotal(P)-1
    PROVE  UserToGlobal(P, u) \in Nat /\ AnchorFits(P, UserToGlobal(P, u))
<1>1. /\ LogTotal(P) \in Nat \ {0} /\ Oldest(P) \in Nat
      /\ Frozen(P) => Oldest(P) + LogTotal(P) = P.total + Len(P.snap)
      BY Seen
<1> QED BY <1>1 DEF UserToGlobal, AnchorFits


\* The least natural of a set.
LEMMA IsLeast ==
    ASSUME NEW S \in SUBSET Nat, S # {}
    PROVE  Least(S) \in S /\ \A y \in S : Least(S) <= y
<1>1. PICK R : /\ IsWellFoundedOn(R, Nat)
               /\ \A x, y \in Nat : x < y => <<x, y>> \in R
      BY NatOrder
<1>2. PICK x \in S : \A y \in S : ~ (<<y, x>> \in R)
  <2>1. S \subseteq Nat /\ IsWellFoundedOn(R, Nat)
        BY <1>1
  <2> QED BY <2>1, WFMin
<1>3. \A y \in S : x <= y
  <2> SUFFICES ASSUME NEW y \in S PROVE x <= y
      OBVIOUS
  <2>1. ~ (y < x)
        BY <1>1, <1>2
  <2> QED BY <2>1
<1> QED BY <1>3 DEF Least

\* The greatest of a bounded set.
LEMMA IsGreatest ==
    ASSUME NEW n \in Nat, NEW S \in SUBSET (0..n), S # {}
    PROVE  Greatest(S) \in S /\ \A y \in S : y <= Greatest(S)
BY HasGreatest DEF Greatest

\* A search that is cleared leaves the view (tui_log_search_clear).
LEMMA Clears ==
    ASSUME NEW P, PaneCore(P)
    PROVE  PaneCore(SearchClear(P)) /\ Changes(P, SearchClear(P), {"search"})
<1> DEFINE Q == SearchClear(P)
<1>1. SearchShape(NoSearch) /\ NoSearch.line \in Int
      BY DEF SearchShape, NoSearch, SearchFields
<1>2. Q = Aim(P, NoSearch, P.anchor)
      BY DEF SearchClear, Aim, PaneCore, PaneShape, PaneFields
<1>3. AnchorFits(P, P.anchor)
      BY Seen
<1>4. PaneCore(Aim(P, NoSearch, P.anchor))
      BY <1>1, <1>3, Aims
<1>5. Changes(P, Q, {"search"})
      BY DEF SearchClear, Changes, PaneCore, PaneShape
<1> QED BY <1>2, <1>4, <1>5

\* A new search (tui_log_search_set).
LEMMA Sets ==
    ASSUME NEW P, PaneCore(P), NEW pat
    PROVE  PaneCore(SearchSet(P, pat)) /\ Changes(P, SearchSet(P, pat), {"search", "anchor"})
<1> DEFINE all == MatchesIn(P, LogTotal(P), pat)
           s == [NoSearch EXCEPT !.pat = pat, !.total = all]
           a == IF Frozen(P) THEN P.anchor ELSE -1
           O == Aim(P, s, a)
           hits == {u \in 0..LogTotal(O)-1 : After(O, u, 0) # {}}
           u == Greatest(hits)
           line == UserToGlobal(O, u)
           t == [s EXCEPT !.line = line, !.start = Greatest(After(O, u, 0)), !.index = all]
           Q == SearchSet(P, pat)
<1>1. O = [P EXCEPT !.search = [NoSearch EXCEPT !.pat = pat, !.total = all],
                    !.anchor = IF Frozen(P) THEN @ ELSE -1]
      BY DEF Aim, PaneCore, PaneShape, PaneFields, s, a
<1>2. SearchShape(NoSearch) /\ NoSearch.line \in Int
      BY DEF SearchShape, NoSearch, SearchFields
<1> HIDE DEF all
<1>3. SearchShape(s) /\ s.line \in Int
  <2>1. SearchShape(s)
        BY <1>2 DEF SearchShape
  <2>2. s.line = NoSearch.line
        BY <1>2 DEF SearchShape, SearchFields
  <2> QED BY <1>2, <2>1, <2>2
<1>4. AnchorFits(P, a)
      BY Seen DEF AnchorFits
<1> HIDE DEF s, a
<1>5. /\ PaneCore(O) /\ Changes(P, O, {"search", "anchor"}) /\ O.search = s
      BY <1>3, <1>4, Aims
<1>6. Q = IF pat = NoPattern THEN SearchClear(P)
          ELSE IF hits = {} THEN O
          ELSE [O EXCEPT !.search.line = line, !.search.start = Greatest(After(O, u, 0)),
                         !.search.index = all, !.anchor = line]
      BY <1>1 DEF SearchSet, all
<1> HIDE DEF O, Q
<1>7. CASE pat = NoPattern
  <2>1. Q = SearchClear(P)
        BY <1>6, <1>7
  <2>2. Changes(P, Q, {"search", "anchor"})
        BY <2>1, Clears DEF Changes
  <2> QED BY <2>1, <2>2, Clears DEF Q
<1>8. CASE pat # NoPattern /\ hits = {}
      BY <1>5, <1>6, <1>8 DEF Q
<1>9. CASE pat # NoPattern /\ hits # {}
  <2>1. LogTotal(O) \in Nat \ {0} /\ LogTotal(O) - 1 \in Nat
        BY <1>5, Seen
  <2>2. u \in hits
        BY <1>9, <2>1, IsGreatest
  <2>3. u \in 0..LogTotal(O)-1
        BY <2>2
  <2> HIDE DEF hits, u
  <2>4. line \in Nat /\ AnchorFits(O, line)
        BY <1>5, <2>3, PlaceFits
  <2> HIDE DEF line
  <2>5. SearchShape(t) /\ t.line \in Int
    <3> DEFINE m == Greatest(After(O, u, 0))
    <3> HIDE DEF m
    <3>1. SearchShape([s EXCEPT !.line = line, !.start = m, !.index = all])
          BY <1>3 DEF SearchShape
    <3>2. [s EXCEPT !.line = line, !.start = m, !.index = all].line = line
          BY <1>3 DEF SearchShape, SearchFields
    <3> QED BY <2>4, <3>1, <3>2 DEF m
  <2>6. [O EXCEPT !.search.line = line, !.search.start = Greatest(After(O, u, 0)),
                  !.search.index = all, !.anchor = line] = Aim(O, t, line)
        BY <1>5 DEF Aim, PaneCore, PaneShape, PaneFields
  <2> HIDE DEF t
  <2>7. PaneCore(Aim(O, t, line)) /\ Changes(O, Aim(O, t, line), {"search", "anchor"})
        BY <1>5, <2>4, <2>5, Aims
  <2>8. Changes(P, Aim(O, t, line), {"search", "anchor"} \cup {"search", "anchor"})
        BY <1>5, <2>7, ChangesOn
  <2>9. {"search", "anchor"} \cup {"search", "anchor"} = {"search", "anchor"}
        OBVIOUS
  <2>10. Q = Aim(O, t, line)
        BY <1>6, <1>9, <2>6
  <2> QED BY <2>7, <2>8, <2>9, <2>10 DEF Q
<1> QED BY <1>7, <1>8, <1>9

\* Going to a hit (tui_log_search_next, tui_log_search_prev).
LEMMA MovesTo ==
    ASSUME NEW P, PaneCore(P), NEW u \in 0..LogTotal(P)-1, NEW m, NEW step
    PROVE  /\ PaneCore(MoveTo(P, u, m, step))
           /\ Changes(P, MoveTo(P, u, m, step), {"search", "anchor"})
<1> DEFINE g == UserToGlobal(P, u)
           s == [P.search EXCEPT !.line = g, !.start = m]
           O == Aim(P, s, g)
           known == P.search.index > (IF step < 0 THEN 1 ELSE 0)
           t == [s EXCEPT !.index = IF known THEN @ + step ELSE ComputeIndex(O)]
           Q == MoveTo(P, u, m, step)
<1>1. SearchShape(P.search) /\ g \in Nat /\ AnchorFits(P, g)
      BY Seen, PlaceFits
<1> HIDE DEF g
<1>2. SearchShape(s) /\ s.line \in Int
  <2>1. SearchShape(s)
        BY <1>1 DEF SearchShape
  <2>2. s.line = g
        BY <1>1 DEF SearchShape, SearchFields
  <2> QED BY <1>1, <2>1, <2>2
<1>3. PaneCore(O) /\ Changes(P, O, {"search", "anchor"}) /\ O.search = s /\ O.anchor = g
  <2> HIDE DEF s
  <2> QED BY <1>1, <1>2, Aims
<1>4. O = [P EXCEPT !.search.line = g, !.search.start = m, !.anchor = g]
      BY DEF Aim, PaneCore, PaneShape, PaneFields
<1> HIDE DEF O
<1>5. Q = [O EXCEPT !.search.index = IF known THEN @ + step ELSE ComputeIndex(O)]
  <2> HIDE DEF known
  <2> QED BY <1>4 DEF MoveTo, g, known
<1> HIDE DEF s, known
<1>6. Q = Aim(O, t, g)
      BY <1>3, <1>5 DEF Aim, PaneCore, PaneShape, PaneFields
<1>7. SearchShape(t) /\ t.line \in Int
  <2>1. SearchShape(t)
        BY <1>2 DEF SearchShape
  <2>2. t.line = s.line
        BY <1>2 DEF SearchShape, SearchFields
  <2> QED BY <1>2, <2>1, <2>2
<1>8. AnchorFits(O, g)
  <2>1. O.total = P.total /\ O.snap = P.snap /\ O.ceiling = P.ceiling
        BY <1>3 DEF Changes, PaneFields
  <2> QED BY <1>1, <2>1 DEF AnchorFits, Frozen
<1> HIDE DEF t, Q
<1>9. PaneCore(Q) /\ Changes(O, Q, {"search", "anchor"})
      BY <1>3, <1>6, <1>7, <1>8, Aims
<1>10. Changes(P, Q, {"search", "anchor"})
      BY <1>3, <1>9 DEF Changes
<1> QED BY <1>9, <1>10 DEF Q

\* The bottom row shows a line there is.
LEMMA Bottom ==
    ASSUME NEW P, PaneCore(P)
    PROVE  BottomIdx(P) \in 0..LogTotal(P)-1
<1>1. /\ LogTotal(P) \in Nat \ {0} /\ Oldest(P) \in Nat /\ P.anchor \in Int
      BY Seen
<1>2. GlobalToUser(P, P.anchor) \in Int
      BY <1>1 DEF GlobalToUser
<1> QED BY <1>1, <1>2 DEF BottomIdx, Within, AtLeast, AtMost

\* What a search leaves alone, wherever it goes.
Sought(P, Q) == PaneCore(Q) /\ Changes(P, Q, {"search", "anchor"})

\* A pane that is left alone.
LEMMA NoChange ==
    ASSUME NEW P, PaneCore(P), NEW F
    PROVE  Changes(P, P, F)
BY DEF Changes, PaneCore

\* The next match, and where it leaves the pane (tui_log_search_next).
LEMMA FindsNext ==
    ASSUME NEW P, PaneCore(P)
    PROVE  Sought(P, SearchNext(P))
<1> DEFINE total == LogTotal(P)
           u == GlobalToUser(P, P.search.line)
           here == P.search.line >= 0 /\ u \in 0..total-1
           from == CASE here -> u
                     [] P.search.line >= 0 /\ ~here -> 0
                     [] OTHER -> BottomIdx(P)
           places == IF here THEN After(P, from, P.search.start + 1) ELSE After(P, from, 0)
           later == {v \in from+1..total-1 : After(P, v, 0) # {}}
<1>1. total \in Nat \ {0}
      BY Seen
<1>2. from \in 0..total-1
      BY <1>1, Bottom
<1>3. later # {} => Least(later) \in 0..total-1
  <2>1. later \in SUBSET Nat
        BY <1>1, <1>2
  <2> HIDE DEF from
  <2> SUFFICES ASSUME later # {} PROVE Least(later) \in 0..total-1
      OBVIOUS
  <2>2. Least(later) \in later
        BY <2>1, IsLeast
  <2>3. Least(later) \in from+1..total-1
        BY <2>2
  <2> QED BY <1>1, <1>2, <2>3
<1>4. SearchNext(P) =
        IF ~Searching(P) THEN P
        ELSE IF places # {} THEN MoveTo(P, from, Least(places), 1)
        ELSE IF later # {}
        THEN MoveTo(P, Least(later), Least(After(P, Least(later), 0)), 1)
        ELSE P
      BY DEF SearchNext
<1> HIDE DEF from, places, later
<1>5. Sought(P, P) /\ Sought(P, MoveTo(P, from, Least(places), 1))
      BY <1>2, NoChange, MovesTo DEF Sought
<1>6. later # {} => Sought(P, MoveTo(P, Least(later), Least(After(P, Least(later), 0)), 1))
      BY <1>3, MovesTo DEF Sought
<1> QED BY <1>4, <1>5, <1>6

\* The match before, and where it leaves the pane (tui_log_search_prev).
LEMMA FindsPrev ==
    ASSUME NEW P, PaneCore(P)
    PROVE  Sought(P, SearchPrev(P))
<1> DEFINE total == LogTotal(P)
           u == GlobalToUser(P, P.search.line)
           here == P.search.line >= 0 /\ u \in 0..total-1
           from == CASE here -> u
                     [] P.search.line >= 0 /\ ~here -> total - 1
                     [] OTHER -> BottomIdx(P)
           places == Before(P, from, IF here THEN P.search.start ELSE NoBound)
           earlier == {v \in 0..from-1 : After(P, v, 0) # {}}
<1>1. total \in Nat \ {0}
      BY Seen
<1>2. from \in 0..total-1
      BY <1>1, Bottom
<1>3. earlier # {} => Greatest(earlier) \in 0..total-1
  <2> HIDE DEF from
  <2> SUFFICES ASSUME earlier # {} PROVE Greatest(earlier) \in 0..total-1
      OBVIOUS
  <2>1. earlier \in SUBSET (0..total-1) /\ total - 1 \in Nat
        BY <1>1, <1>2
  <2> HIDE DEF earlier
  <2>2. Greatest(earlier) \in earlier
        BY <2>1, IsGreatest
  <2> QED BY <2>1, <2>2
<1>4. SearchPrev(P) =
        IF ~Searching(P) THEN P
        ELSE IF places # {} THEN MoveTo(P, from, Greatest(places), -1)
        ELSE IF earlier # {}
        THEN MoveTo(P, Greatest(earlier), Greatest(After(P, Greatest(earlier), 0)), -1)
        ELSE P
      BY DEF SearchPrev
<1> HIDE DEF from, places, earlier
<1>5. Sought(P, P) /\ Sought(P, MoveTo(P, from, Greatest(places), -1))
      BY <1>2, NoChange, MovesTo DEF Sought
<1>6. earlier # {} => Sought(P, MoveTo(P, Greatest(earlier), Greatest(After(P, Greatest(earlier), 0)), -1))
      BY <1>3, MovesTo DEF Sought
<1> QED BY <1>4, <1>5, <1>6

-----------------------------------------------------------------------------
(* The matches of a pattern, counted line by line *)

\* A line that can be seen in a frozen view.
LEMMA LineSeen ==
    ASSUME NEW P, PaneCore(P), Frozen(P), NEW u \in 0..LogTotal(P)-1
    PROVE  GetLine(P, u) \in Line
<1>1. EffectiveLines(P) = Len(P.lines) /\ LogTotal(P) = Len(P.lines) + Len(P.snap)
      BY Seen DEF LogTotal
<1>2. P.lines \in Seq(Line) /\ P.snap \in Seq(Line)
      BY DEF PaneCore, LogKept, ViewKept
<1> DEFINE l == P.lines
           s == P.snap
<1>4. l \in Seq(Line) /\ s \in Seq(Line) /\ LogTotal(P) = Len(l) + Len(s)
      BY <1>1, <1>2
<1>1a. EffectiveLines(P) = Len(l)
      BY <1>1
<1> HIDE DEF l, s
<1>3. PICK a \in Nat, b \in Nat : a = Len(l) /\ b = Len(s)
      BY <1>4
<1>5. u \in 0..(a + b - 1)
      BY <1>3, <1>4
<1>6. GetLine(P, u) = IF u - a < 0 THEN l[u + 1] ELSE s[u - a + 1]
      BY <1>1a, <1>3 DEF GetLine, l, s
<1>7. CASE u - a < 0
  <2>1. u + 1 \in 1..Len(l)
        BY <1>3, <1>5, <1>7
  <2> QED BY <1>4, <1>6, <1>7, <2>1
<1>8. CASE ~(u - a < 0)
  <2>1. u - a + 1 \in 1..Len(s)
        BY <1>3, <1>5, <1>8
  <2> QED BY <1>4, <1>6, <1>8, <2>1
<1> QED BY <1>7, <1>8

\* A line has finitely many matches.
LEMMA StartsFit ==
    ASSUME NEW line \in Line, NEW pat
    PROVE  /\ Starts(line, pat) \in SUBSET (0..Len(line)) /\ Len(line) \in Nat
           /\ IsFiniteSet(Starts(line, pat)) /\ CountMatches(line, pat) \in Nat
<1>1. Len(line) \in Nat
      BY DEF Line
<1>2. Starts(line, pat) \in SUBSET (0..Len(line))
      BY <1>1 DEF Starts
<1>3. IsFiniteSet(0..Len(line))
      BY <1>1, FS_Interval
<1>4. IsFiniteSet(Starts(line, pat))
      BY <1>2, <1>3, FS_Subset
<1> QED BY <1>1, <1>2, <1>4, FS_CardinalityType DEF CountMatches

Sums(P, pat, h, k) ==
    h[0] = 0 /\ \A u \in 1..k : h[u] = h[u - 1] + CountMatches(GetLine(P, u - 1), pat)

Countable(P, n, pat) == \A u \in 0..n-1 : CountMatches(GetLine(P, u), pat) \in Nat
SumIs(P, pat, h, k) ==
    h \in [0..k -> Nat] /\ Sums(P, pat, h, k) /\ MatchesIn(P, k, pat) = h[k]

\* The sum of the matches of the first lines, computed one line after the other.
LEMMA Summed ==
    ASSUME NEW P, NEW n \in Nat, NEW pat,
           Countable(P, n, pat),
           NEW k \in 0..n
    PROVE  /\ MatchesIn(P, k, pat) \in Nat
           /\ k = 0 => MatchesIn(P, k, pat) = 0
           /\ \E h : SumIs(P, pat, h, k)
<1> DEFINE c(u) == CountMatches(GetLine(P, u), pat)
           g == [x \in Nat \X (1..k) |-> x[1] + c(x[2] - 1)]
           Sum[u \in 0..k] ==
              IF u = 0 THEN 0 ELSE Sum[u - 1] + CountMatches(GetLine(P, u - 1), pat)
           F(f) == [u \in 0..k |-> IF u = 0 THEN 0 ELSE f[u - 1] + c(u - 1)]
<1>0. k \in Nat /\ 0 \in Nat /\ \A i \in 1..k : c(i - 1) \in Nat
      BY DEF Countable
<1>1. MatchesIn(P, k, pat) = Sum[k]
      BY DEF MatchesIn
<1>2. Sum = CHOOSE f : f = F(f)
      OBVIOUS
<1> HIDE DEF c, Sum
<1>3. g \in [Nat \X (1..k) -> Nat] /\ \A x \in Nat, i \in 1..k : g[<<x, i>>] = x + c(i - 1)
      BY <1>0
<1> HIDE DEF g
<1>4. PICK h \in [0..k -> Nat] : Follows(h, 0, g, k)
      BY <1>0, <1>3, StepByStep
<1>5. h = F(h)
  <2>1. ASSUME NEW i \in 1..k PROVE h[i] = h[i-1] + c(i - 1)
    <3>1. i - 1 \in 0..k /\ h[i-1] \in Nat
          BY <1>0
    <3> QED BY <1>3, <1>4, <3>1 DEF Follows
  <2>2. h[0] = 0
        BY <1>4 DEF Follows
  <2> QED BY <1>0, <1>4, <2>1, <2>2
<1> HIDE DEF F
<1>6. Sum = F(Sum)
      BY <1>2, <1>5
<1>7. Sum = [u \in 0..k |-> IF u = 0 THEN 0 ELSE Sum[u - 1] + c(u - 1)]
      BY <1>6 DEF F
<1> DEFINE T == {i \in 0..k : Sum[i] = h[i]}
<1>8. 0 \in T
      BY <1>0, <1>4, <1>7 DEF Follows
<1>9. ASSUME NEW i \in 1..k, i - 1 \in T PROVE i \in T
  <2>1. Sum[i] = Sum[i-1] + c(i - 1)
        BY <1>0, <1>7
  <2>2. h[i] = h[i-1] + c(i - 1)
    <3>1. i - 1 \in 0..k /\ h[i-1] \in Nat
          BY <1>0
    <3> QED BY <1>3, <1>4, <3>1 DEF Follows
  <2> QED BY <1>9, <2>1, <2>2
<1> HIDE DEF T
<1>10. \A i \in 0..k : i \in T
      BY <1>0, <1>8, <1>9, UpTo
<1>11. Sum[k] = h[k] /\ h[k] \in Nat
      BY <1>0, <1>10 DEF T
<1>12. k = 0 => Sum[k] = 0
      BY <1>4, <1>11 DEF Follows
<1>13. Sums(P, pat, h, k)
  <2>1. h[0] = 0 /\ \A u \in 1..k : h[u] = h[u - 1] + c(u - 1)
        BY <1>0, <1>5 DEF F
  <2> QED BY <2>1 DEF Sums, c
<1>14. SumIs(P, pat, h, k)
      BY <1>1, <1>4, <1>11, <1>13 DEF SumIs
<1> QED BY <1>1, <1>11, <1>12, <1>14

\* It grows by the matches of each line.
LEMMA MatchesStep ==
    ASSUME NEW P, NEW n \in Nat, NEW pat,
           Countable(P, n, pat),
           NEW k \in 1..n
    PROVE  MatchesIn(P, k, pat) = MatchesIn(P, k - 1, pat) + CountMatches(GetLine(P, k - 1), pat)
<1> DEFINE j == k - 1
<1>0. k \in 0..n /\ j \in 0..n /\ k \in Nat /\ j \in Nat /\ k = j + 1 /\ n \in Nat
      OBVIOUS
<1> HIDE DEF j
<1>1. PICK h : SumIs(P, pat, h, k)
      BY <1>0, Summed
<1>2. PICK i : SumIs(P, pat, i, j)
      BY <1>0, Summed
<1> DEFINE T == {x \in 0..j : h[x] = i[x]}
<1>3. 0 \in T
      BY <1>0, <1>1, <1>2 DEF Sums, SumIs
<1>4. ASSUME NEW x \in 1..j, x - 1 \in T PROVE x \in T
  <2>1. h[x] = h[x-1] + CountMatches(GetLine(P, x - 1), pat)
        BY <1>0, <1>1 DEF Sums, SumIs
  <2>2. i[x] = i[x-1] + CountMatches(GetLine(P, x - 1), pat)
        BY <1>0, <1>2 DEF Sums, SumIs
  <2> QED BY <1>4, <2>1, <2>2
<1> HIDE DEF T
<1>5. \A x \in 0..j : x \in T
      BY <1>0, <1>3, <1>4, UpTo
<1>6. h[j] = i[j]
      BY <1>0, <1>5 DEF T
<1>7. h[k] = h[k-1] + CountMatches(GetLine(P, k - 1), pat)
      BY <1>0, <1>1 DEF Sums, SumIs
<1>8. k - 1 = j
      BY <1>0
<1> QED BY <1>1, <1>2, <1>6, <1>7, <1>8 DEF SumIs

\* More lines have no fewer matches.
LEMMA StepsGrow ==
    ASSUME NEW n \in Nat, NEW M \in [0..n -> Nat], \A k \in 1..n : M[k-1] <= M[k],
           NEW j \in 0..n
    PROVE  \A k \in 0..n : j <= k => M[j] <= M[k]
<1> DEFINE T == {k \in 0..n : j <= k => M[j] <= M[k]}
<1>1. 0 \in T
      OBVIOUS
<1>2. ASSUME NEW k \in 1..n, k - 1 \in T PROVE k \in T
  <2>1. k \in 0..n /\ k - 1 \in 0..n /\ M[k-1] \in Nat /\ M[k] \in Nat /\ M[j] \in Nat /\ M[k-1] <= M[k]
        OBVIOUS
  <2>2. CASE j <= k - 1
        BY <1>2, <2>1, <2>2
  <2>3. CASE ~(j <= k - 1)
        BY <2>1, <2>3
  <2> QED BY <2>2, <2>3
<1> HIDE DEF T
<1>3. \A k \in 0..n : k \in T
      BY <1>1, <1>2, UpTo
<1> QED BY <1>3 DEF T

\* Lines without a match add none.
LEMMA StepsStay ==
    ASSUME NEW n \in Nat, NEW M \in [0..n -> Nat], NEW j \in 0..n, NEW k \in j..n,
           \A u \in j+1..k : M[u] = M[u-1]
    PROVE  M[k] = M[j]
<1> DEFINE T == {x \in 0..n : x \in j..k => M[x] = M[j]}
<1>1. 0 \in T
      OBVIOUS
<1>2. ASSUME NEW x \in 1..n, x - 1 \in T PROVE x \in T
  <2>1. x \in 0..n /\ x - 1 \in 0..n
        OBVIOUS
  <2>2. CASE x \in j+1..k
    <3>1. x - 1 \in j..k /\ M[x] = M[x-1]
          BY <2>2
    <3> QED BY <1>2, <2>1, <3>1
  <2>3. CASE x \notin j+1..k
    <3>1. x \in j..k => x = j
          BY <2>3
    <3> QED BY <2>1, <3>1
  <2> QED BY <2>2, <2>3
<1> HIDE DEF T
<1>3. \A x \in 0..n : x \in T
      BY <1>1, <1>2, UpTo
<1>4. k \in 0..n /\ k \in j..k
      OBVIOUS
<1> QED BY <1>3, <1>4 DEF T

\* The same lines have the same matches.
LEMMA SumsAgree ==
    ASSUME NEW P, NEW R, NEW n \in Nat, NEW pat,
           Countable(P, n, pat),
           \A u \in 0..n-1 : GetLine(R, u) = GetLine(P, u),
           NEW j \in 0..n
    PROVE  MatchesIn(P, j, pat) = MatchesIn(R, j, pat)
<1> DEFINE T == {x \in 0..n : MatchesIn(P, x, pat) = MatchesIn(R, x, pat)}
<1>1. Countable(R, n, pat)
      BY DEF Countable
<1>2. 0 \in 0..n
      OBVIOUS
<1>3. MatchesIn(P, 0, pat) = 0
      BY <1>2, Summed
<1>4. MatchesIn(R, 0, pat) = 0
      BY <1>1, <1>2, Summed
<1>5. 0 \in T
      BY <1>2, <1>3, <1>4
<1>6. ASSUME NEW x \in 1..n, x - 1 \in T PROVE x \in T
  <2>1. MatchesIn(P, x, pat) = MatchesIn(P, x - 1, pat) + CountMatches(GetLine(P, x - 1), pat)
        BY MatchesStep
  <2>2. MatchesIn(R, x, pat) = MatchesIn(R, x - 1, pat) + CountMatches(GetLine(R, x - 1), pat)
        BY <1>1, MatchesStep
  <2>3. x - 1 \in 0..n-1 /\ x \in 0..n
        OBVIOUS
  <2> QED BY <1>6, <2>1, <2>2, <2>3
<1> HIDE DEF T
<1>7. \A x \in 0..n : x \in T
      BY <1>5, <1>6, UpTo
<1> QED BY <1>7 DEF T

-----------------------------------------------------------------------------
(* The place of a match in the order of all *)

\* The places up to one, itself included.
Upto(S, m) == {x \in S : x < m + 1}

\* There are finitely many of them, and all of S past its greatest.
LEMMA UptoFits ==
    ASSUME NEW L \in Nat, NEW S \in SUBSET (0..L), NEW m \in 0..L
    PROVE  /\ IsFiniteSet(S) /\ IsFiniteSet(Upto(S, m))
           /\ Cardinality(S) \in Nat /\ Cardinality(Upto(S, m)) \in Nat
           /\ Cardinality(Upto(S, m)) <= Cardinality(S)
<1>1. IsFiniteSet(0..L)
      BY FS_Interval
<1>2. IsFiniteSet(S)
      BY <1>1, FS_Subset
<1>3. Upto(S, m) \subseteq S
      BY DEF Upto
<1>4. IsFiniteSet(Upto(S, m)) /\ Cardinality(Upto(S, m)) <= Cardinality(S)
      BY <1>2, <1>3, FS_Subset
<1> QED BY <1>2, <1>4, FS_CardinalityType

\* Of two places that follow each other, the second counts one more.
LEMMA OneMore ==
    ASSUME NEW L \in Nat, NEW S \in SUBSET (0..L), NEW a \in S, NEW b \in S, a < b,
           \A x \in S : ~(a < x /\ x < b)
    PROVE  Cardinality(Upto(S, b)) = Cardinality(Upto(S, a)) + 1
<1>1. a \in 0..L /\ b \in 0..L /\ S \subseteq Int
      OBVIOUS
<1>2. Upto(S, b) = Upto(S, a) \cup {b}
  <2>1. ASSUME NEW x \in S PROVE x < b + 1 <=> (x < a + 1 \/ x = b)
    <3>1. x \in Int /\ a \in Int /\ b \in Int /\ ~(a < x /\ x < b)
          BY <1>1
    <3> QED BY <3>1
  <2> QED BY <2>1 DEF Upto
<1>3. b \notin Upto(S, a)
      BY <1>1 DEF Upto
<1>4. IsFiniteSet(Upto(S, a))
      BY <1>1, UptoFits
<1> QED BY <1>2, <1>3, <1>4, FS_AddElement

\* The first place counts one.
LEMMA FirstCounts ==
    ASSUME NEW L \in Nat, NEW S \in SUBSET (0..L), NEW b \in S, \A x \in S : b <= x
    PROVE  Cardinality(Upto(S, b)) = 1
<1>1. b \in 0..L /\ S \subseteq Int
      OBVIOUS
<1>2. Upto(S, b) = {b}
  <2>1. ASSUME NEW x \in S PROVE x < b + 1 <=> x = b
    <3>1. x \in Int /\ b \in Int /\ b <= x
          BY <1>1
    <3> QED BY <3>1
  <2> QED BY <2>1 DEF Upto
<1> QED BY <1>2, FS_Singleton

\* The last counts all.
LEMMA LastCounts ==
    ASSUME NEW L \in Nat, NEW S \in SUBSET (0..L), NEW a \in S, \A x \in S : x <= a
    PROVE  Upto(S, a) = S
<1>1. ASSUME NEW x \in S PROVE x < a + 1
  <2>1. x \in Int /\ a \in Int /\ x <= a
        OBVIOUS
  <2> QED BY <2>1
<1> QED BY <1>1 DEF Upto

\* A place of S counts at least itself, and at most all of S.
LEMMA PlaceCounts ==
    ASSUME NEW L \in Nat, NEW S \in SUBSET (0..L), NEW a \in S
    PROVE  Cardinality(Upto(S, a)) >= 1
<1>1. a \in 0..L
      OBVIOUS
<1>2. {a} \subseteq Upto(S, a)
      BY <1>1 DEF Upto
<1>3. IsFiniteSet(Upto(S, a)) /\ Cardinality(Upto(S, a)) \in Nat
      BY <1>1, UptoFits
<1>4. Cardinality({a}) <= Cardinality(Upto(S, a))
      BY <1>2, <1>3, FS_Subset
<1>5. Cardinality({a}) = 1
      BY FS_Singleton
<1> QED BY <1>3, <1>4, <1>5

---------------------------------------------------------------------------
Hits(P, u) == Starts(GetLine(P, u), P.search.pat)
HitsUpTo(P, k) == MatchesIn(P, k, P.search.pat)
\* The place of a hit in the order of all.
Rank(P, u, m) == HitsUpTo(P, u) + Cardinality(Upto(Hits(P, u), m))

\* The hits of the lines that can be seen in a frozen view.
LEMMA HitsFit ==
    ASSUME NEW P, PaneCore(P), Frozen(P), NEW u \in 0..LogTotal(P)-1
    PROVE  \E L \in Nat : Hits(P, u) \in SUBSET (0..L)
<1>1. GetLine(P, u) \in Line
      BY LineSeen
<1> QED BY <1>1, StartsFit DEF Hits

\* The counts are naturals, and each line adds its own.
LEMMA HitsCounted ==
    ASSUME NEW P, PaneCore(P), Frozen(P)
    PROVE  /\ LogTotal(P) \in Nat \ {0}
           /\ HitsUpTo(P, 0) = 0
           /\ \A k \in 0..LogTotal(P) : HitsUpTo(P, k) \in Nat
           /\ \A u \in 0..LogTotal(P)-1 :
                 /\ Cardinality(Hits(P, u)) \in Nat
                 /\ HitsUpTo(P, u + 1) = HitsUpTo(P, u) + Cardinality(Hits(P, u))
<1> DEFINE n == LogTotal(P)
           pat == P.search.pat
<1>1. n \in Nat \ {0}
      BY Seen
<1>2. Countable(P, n, pat)
      BY LineSeen, StartsFit DEF Countable
<1> HIDE DEF n, pat
<1>3. MatchesIn(P, 0, pat) = 0
  <2>1. 0 \in 0..n
        BY <1>1
  <2> QED BY <1>1, <1>2, <2>1, Summed
<1>4. ASSUME NEW k \in 0..n PROVE MatchesIn(P, k, pat) \in Nat
      BY <1>1, <1>2, Summed
<1>5. ASSUME NEW u \in 0..n-1
      PROVE  MatchesIn(P, u + 1, pat) = MatchesIn(P, u, pat) + CountMatches(GetLine(P, u), pat)
  <2>1. u + 1 \in 1..n /\ (u + 1) - 1 = u
        BY <1>1
  <2> QED BY <1>1, <1>2, <2>1, MatchesStep
<1> QED BY <1>1, <1>2, <1>3, <1>4, <1>5 DEF HitsUpTo, Hits, CountMatches, Countable, n, pat

\* More lines have no fewer hits.
LEMMA HitsGrow ==
    ASSUME NEW P, PaneCore(P), Frozen(P), NEW j \in 0..LogTotal(P), NEW k \in j..LogTotal(P)
    PROVE  /\ HitsUpTo(P, j) <= HitsUpTo(P, k)
           /\ (\A u \in j..k-1 : Hits(P, u) = {}) => HitsUpTo(P, k) = HitsUpTo(P, j)
<1> DEFINE n == LogTotal(P)
           M == [x \in 0..n |-> HitsUpTo(P, x)]
<1>1. n \in Nat /\ j \in 0..n /\ k \in 0..n /\ j <= k /\ k \in j..n
      BY HitsCounted
<1>2. M \in [0..n -> Nat] /\ \A x \in 0..n : M[x] = HitsUpTo(P, x)
      BY HitsCounted
<1>3. ASSUME NEW x \in 1..n
      PROVE  /\ M[x-1] <= M[x]
             /\ Hits(P, x - 1) = {} => M[x] = M[x-1]
  <2>1. x - 1 \in 0..n-1 /\ x - 1 \in 0..n /\ x \in 0..n /\ (x - 1) + 1 = x
        BY <1>1
  <2>2. HitsUpTo(P, x) = HitsUpTo(P, x - 1) + Cardinality(Hits(P, x - 1))
        /\ Cardinality(Hits(P, x - 1)) \in Nat
        BY <2>1, HitsCounted
  <2>3. Hits(P, x - 1) = {} => Cardinality(Hits(P, x - 1)) = 0
        BY FS_EmptySet
  <2>4. M[x] = HitsUpTo(P, x) /\ M[x-1] = HitsUpTo(P, x - 1) /\ M[x-1] \in Nat
        BY <1>2, <2>1
  <2> QED BY <2>2, <2>3, <2>4
<1> HIDE DEF M
<1>4. M[j] <= M[k]
      BY <1>1, <1>2, <1>3, StepsGrow
<1>5. ASSUME \A u \in j..k-1 : Hits(P, u) = {} PROVE M[k] = M[j]
  <2>1. ASSUME NEW x \in j+1..k PROVE M[x] = M[x-1]
    <3>1. x \in 1..n /\ x - 1 \in j..k-1
          BY <1>1
    <3> QED BY <1>3, <1>5, <3>1
  <2> QED BY <1>1, <1>2, <2>1, StepsStay
<1> QED BY <1>1, <1>2, <1>4, <1>5

\* A line with a hit has one, and the counts tell.
LEMMA HitsThere ==
    ASSUME NEW P, PaneCore(P), Frozen(P), NEW u \in 0..LogTotal(P)-1, NEW m \in Hits(P, u)
    PROVE  Rank(P, u, m) \in 1..HitsUpTo(P, LogTotal(P))
<1> DEFINE n == LogTotal(P)
           c == Cardinality(Upto(Hits(P, u), m))
           d == Cardinality(Hits(P, u))
<1>1. PICK L \in Nat : Hits(P, u) \in SUBSET (0..L)
      BY HitsFit
<1>2. m \in 0..L
      BY <1>1
<1>3. c \in Nat /\ d \in Nat /\ c >= 1 /\ c <= d
      BY <1>1, <1>2, UptoFits, PlaceCounts
<1>4. n \in Nat /\ u \in 0..n /\ u + 1 \in 0..n /\ n \in u+1..n
      BY HitsCounted
<1>5. HitsUpTo(P, u + 1) = HitsUpTo(P, u) + d /\ HitsUpTo(P, u) \in Nat /\ HitsUpTo(P, n) \in Nat
      BY <1>4, HitsCounted
<1>6. HitsUpTo(P, u + 1) <= HitsUpTo(P, n)
      BY <1>4, HitsGrow
<1> HIDE DEF c, d, n
<1>7. HitsUpTo(P, u) + c \in 1..HitsUpTo(P, n)
      BY <1>3, <1>5, <1>6
<1> QED BY <1>7 DEF Rank, c, n

\* Hits that follow each other, in one line or in two.
Follow(P, u, a, v, b) ==
    \/ u = v /\ a < b /\ \A x \in Hits(P, u) : ~(a < x /\ x < b)
    \/ /\ u < v /\ (\A x \in Hits(P, u) : x <= a) /\ (\A x \in Hits(P, v) : b <= x)
       /\ \A w \in u+1..v-1 : Hits(P, w) = {}

\* The ranks of two hits that follow each other are one apart.
LEMMA NextRank ==
    ASSUME NEW P, PaneCore(P), Frozen(P),
           NEW u \in 0..LogTotal(P)-1, NEW a \in Hits(P, u),
           NEW v \in 0..LogTotal(P)-1, NEW b \in Hits(P, v), Follow(P, u, a, v, b)
    PROVE  Rank(P, v, b) = Rank(P, u, a) + 1
<1>0. LogTotal(P) \in Nat /\ HitsUpTo(P, u) \in Nat /\ HitsUpTo(P, v) \in Nat
      BY HitsCounted
<1>1. PICK L \in Nat : Hits(P, u) \in SUBSET (0..L)
      BY HitsFit
<1>2. PICK K \in Nat : Hits(P, v) \in SUBSET (0..K)
      BY HitsFit
<1>3. /\ Cardinality(Upto(Hits(P, u), a)) \in Nat
      /\ Cardinality(Upto(Hits(P, v), b)) \in Nat
  <2>1. a \in 0..L /\ b \in 0..K
        BY <1>1, <1>2
  <2> QED BY <1>1, <1>2, <2>1, UptoFits
<1>4. CASE u = v /\ a < b /\ \A x \in Hits(P, u) : ~(a < x /\ x < b)
  <2>1. Cardinality(Upto(Hits(P, u), b)) = Cardinality(Upto(Hits(P, u), a)) + 1
        BY <1>1, <1>4, OneMore
  <2> QED BY <1>0, <1>3, <1>4, <2>1 DEF Rank
<1>5. CASE /\ u < v /\ (\A x \in Hits(P, u) : x <= a) /\ (\A x \in Hits(P, v) : b <= x)
           /\ \A w \in u+1..v-1 : Hits(P, w) = {}
  <2>1. Upto(Hits(P, u), a) = Hits(P, u)
        BY <1>1, <1>5, LastCounts
  <2>2. Cardinality(Upto(Hits(P, v), b)) = 1
        BY <1>2, <1>5, FirstCounts
  <2>3. u + 1 \in 0..LogTotal(P) /\ v \in u+1..LogTotal(P)
        BY <1>0, <1>5
  <2>4. HitsUpTo(P, v) = HitsUpTo(P, u + 1)
        BY <1>5, <2>3, HitsGrow
  <2>5. HitsUpTo(P, u + 1) = HitsUpTo(P, u) + Cardinality(Hits(P, u))
        BY HitsCounted
  <2> QED BY <1>0, <1>3, <2>1, <2>2, <2>4, <2>5 DEF Rank
<1> QED BY <1>4, <1>5 DEF Follow

-----------------------------------------------------------------------------
(* The counter of a search is right *)

\* What can be seen is the same.
SameView(P, Q) ==
    Q.ceiling = P.ceiling /\ Q.snap = P.snap /\ Q.lines = P.lines /\ Q.total = P.total

\* The lines of a frozen view are the same.
LEMMA LinesSame ==
    ASSUME NEW P, NEW Q, Frozen(P), SameView(P, Q)
    PROVE  /\ Frozen(Q) /\ Oldest(Q) = Oldest(P) /\ LogTotal(Q) = LogTotal(P)
           /\ \A u : GetLine(Q, u) = GetLine(P, u)
<1>1. Frozen(Q)
      BY DEF SameView, Frozen
<1>2. Oldest(Q) = Oldest(P)
      BY DEF SameView, Oldest
<1>3. EffectiveLines(Q) = EffectiveLines(P)
      BY <1>1, <1>2 DEF SameView, EffectiveLines
<1>4. LogTotal(Q) = LogTotal(P)
      BY <1>1, <1>3 DEF SameView, LogTotal
<1>5. \A u : GetLine(Q, u) = GetLine(P, u)
      BY <1>1, <1>3 DEF SameView, GetLine
<1> QED BY <1>1, <1>2, <1>4, <1>5

\* And so are the matches counted in them.
LEMMA MatchesSame ==
    ASSUME NEW P, PaneCore(P), Frozen(P), NEW Q, SameView(P, Q), NEW pat,
           NEW k \in 0..LogTotal(P)
    PROVE  MatchesIn(Q, k, pat) = MatchesIn(P, k, pat)
<1> DEFINE n == LogTotal(P)
<1>1. n \in Nat \ {0}
      BY Seen
<1>2. Countable(P, n, pat)
      BY LineSeen, StartsFit DEF Countable
<1>3. \A u \in 0..n-1 : GetLine(Q, u) = GetLine(P, u)
      BY LinesSame
<1> HIDE DEF n
<1>4. k \in 0..n
      BY DEF n
<1> QED BY <1>1, <1>2, <1>3, <1>4, SumsAgree

\* The same view and pattern: the same hits, counts and places.
LEMMA HitsSame ==
    ASSUME NEW P, PaneCore(P), Frozen(P), NEW Q, SameView(P, Q), Q.search.pat = P.search.pat
    PROVE  /\ \A u : Hits(Q, u) = Hits(P, u)
           /\ \A k \in 0..LogTotal(P) : HitsUpTo(Q, k) = HitsUpTo(P, k)
           /\ \A u \in 0..LogTotal(P)-1 : \A m : Rank(Q, u, m) = Rank(P, u, m)
<1>1. \A u : Hits(Q, u) = Hits(P, u)
      BY LinesSame DEF Hits
<1>2. \A k \in 0..LogTotal(P) : HitsUpTo(Q, k) = HitsUpTo(P, k)
      BY MatchesSame DEF HitsUpTo
<1>3. ASSUME NEW u \in 0..LogTotal(P)-1, NEW m PROVE Rank(Q, u, m) = Rank(P, u, m)
  <2>1. u \in 0..LogTotal(P)
        BY Seen
  <2> QED BY <1>1, <1>2, <2>1 DEF Rank
<1> QED BY <1>1, <1>2, <1>3

\* The search stands at user line u.
Current(P, u) == u \in 0..LogTotal(P)-1 /\ P.search.line = UserToGlobal(P, u)

\* The counter "N/M" is right, and the current match is one.
Truthful(P) ==
    /\ P.search.total = HitsUpTo(P, LogTotal(P))
    /\ P.search.index = ComputeIndex(P)
    /\ P.search.total > 0 => P.search.index \in 1..P.search.total
    /\ \A u : Current(P, u) => P.search.start \in Hits(P, u)

\* The user line of the current match.
LEMMA CurrentIs ==
    ASSUME NEW P, PaneCore(P), NEW u, Current(P, u)
    PROVE  /\ u \in 0..LogTotal(P)-1 /\ GlobalToUser(P, P.search.line) = u
           /\ P.search.line >= 0
<1>1. Oldest(P) \in Nat /\ LogTotal(P) \in Nat \ {0} /\ u \in 0..LogTotal(P)-1
      BY Seen DEF Current
<1> DEFINE o == Oldest(P)
<1>2. P.search.line = o + u /\ o \in Nat /\ u \in Nat
      BY <1>1 DEF Current, UserToGlobal
<1>3. GlobalToUser(P, P.search.line) = P.search.line - o
      BY DEF GlobalToUser
<1> HIDE DEF o
<1> QED BY <1>1, <1>2, <1>3

\* The counter computed (search_compute_index) is the rank of the current match.
LEMMA IndexIs ==
    ASSUME NEW P, PaneCore(P), NEW u, Current(P, u)
    PROVE  ComputeIndex(P) = Rank(P, u, P.search.start)
<1>1. /\ u \in 0..LogTotal(P)-1 /\ GlobalToUser(P, P.search.line) = u
      /\ P.search.line >= 0 /\ P.search.line \in Int
      BY CurrentIs, Seen
<1>2. ComputeIndex(P) = MatchesIn(P, u, P.search.pat)
                        + Cardinality(Before(P, u, P.search.start + 1))
      BY <1>1 DEF ComputeIndex
<1>3. Before(P, u, P.search.start + 1) = Upto(Hits(P, u), P.search.start)
      BY <1>1 DEF Before, Upto, Hits
<1> QED BY <1>2, <1>3 DEF Rank, HitsUpTo

\* A counter that is not zero is that of a match that can be seen.
LEMMA IndexSeen ==
    ASSUME NEW P, PaneCore(P), ComputeIndex(P) # 0
    PROVE  \E u : Current(P, u)
<1> DEFINE u == GlobalToUser(P, P.search.line)
<1>1. P.search.line >= 0 /\ u \in 0..LogTotal(P)-1
      BY Seen DEF ComputeIndex
<1>2. P.search.line \in Int /\ Oldest(P) \in Nat
      BY Seen
<1>3. P.search.line = UserToGlobal(P, u)
  <2> DEFINE o == Oldest(P)
             l == P.search.line
  <2>1. o \in Nat /\ l \in Int
        BY <1>2
  <2> HIDE DEF o, l
  <2>2. l = o + (l - o)
        BY <2>1
  <2> QED BY <2>2 DEF GlobalToUser, UserToGlobal, o, l
<1> QED BY <1>1, <1>3 DEF Current

\* A search that stands at a match, with the right counts.
LEMMA TrueAt ==
    ASSUME NEW Q, PaneCore(Q), Frozen(Q), NEW u, Current(Q, u), Q.search.start \in Hits(Q, u),
           Q.search.total = HitsUpTo(Q, LogTotal(Q)),
           Q.search.index = Rank(Q, u, Q.search.start)
    PROVE  Truthful(Q)
<1>1. Q.search.index = ComputeIndex(Q)
      BY IndexIs
<1>2. Q.search.index \in 1..Q.search.total
      BY HitsThere DEF Current
<1>3. ASSUME NEW v, Current(Q, v) PROVE Q.search.start \in Hits(Q, v)
  <2>1. v = u
        BY <1>3, CurrentIs
  <2> QED BY <2>1
<1> QED BY <1>1, <1>2, <1>3 DEF Truthful

\* What a counter tells depends on the view and the search only.
LEMMA TruthfulSame ==
    ASSUME NEW P, PaneCore(P), Frozen(P), Truthful(P),
           NEW Q, PaneCore(Q), SameView(P, Q), Q.search = P.search
    PROVE  Truthful(Q)
<1>1. /\ Frozen(Q) /\ Oldest(Q) = Oldest(P) /\ LogTotal(Q) = LogTotal(P)
      BY LinesSame
<1>2. \A u : Current(Q, u) <=> Current(P, u)
      BY <1>1 DEF Current, UserToGlobal
<1>3. /\ \A u : Hits(Q, u) = Hits(P, u)
      /\ \A k \in 0..LogTotal(P) : HitsUpTo(Q, k) = HitsUpTo(P, k)
      /\ \A u \in 0..LogTotal(P)-1 : \A m : Rank(Q, u, m) = Rank(P, u, m)
      BY HitsSame
<1>4. LogTotal(P) \in 0..LogTotal(P)
      BY Seen
<1>5. ComputeIndex(Q) = ComputeIndex(P)
  <2>1. CASE \E u : Current(P, u)
    <3>1. PICK u : Current(P, u)
          BY <2>1
    <3>2. ComputeIndex(P) = Rank(P, u, P.search.start)
          BY <3>1, IndexIs
    <3>3. ComputeIndex(Q) = Rank(Q, u, Q.search.start)
          BY <1>2, <3>1, IndexIs
    <3> QED BY <1>3, <3>1, <3>2, <3>3 DEF Current
  <2>2. CASE ~ \E u : Current(P, u)
    <3>1. ComputeIndex(P) = 0
          BY <2>2, IndexSeen
    <3>2. ComputeIndex(Q) = 0
          BY <1>2, <2>2, IndexSeen
    <3> QED BY <3>1, <3>2
  <2> QED BY <2>1, <2>2
<1> QED BY <1>1, <1>2, <1>3, <1>4, <1>5 DEF Truthful

-----------------------------------------------------------------------------
(* It stays so as the search moves, or another one begins *)

\* Going to a match: the fields of the search, one by one.
Aimed(P, u, m) ==
    [P EXCEPT !.search.line = UserToGlobal(P, u), !.search.start = m,
              !.anchor = UserToGlobal(P, u)]

\* Every field of a pane that went to a match.
LEMMA AimedAt ==
    ASSUME NEW P, PaneCore(P), NEW u \in 0..LogTotal(P)-1, NEW m
    PROVE  LET O == Aimed(P, u, m)
           IN /\ PaneCore(O) /\ SameView(P, O) /\ Current(O, u)
              /\ O.search.pat = P.search.pat /\ O.search.start = m
              /\ O.search.total = P.search.total /\ O.search.index = P.search.index
<1> DEFINE g == UserToGlobal(P, u)
           s == [P.search EXCEPT !.line = g, !.start = m]
           O == Aimed(P, u, m)
<1>1. SearchShape(P.search) /\ g \in Nat /\ AnchorFits(P, g)
      BY Seen, PlaceFits
<1> HIDE DEF g
<1>2. /\ SearchShape(s) /\ s.line = g /\ s.start = m /\ s.pat = P.search.pat
      /\ s.total = P.search.total /\ s.index = P.search.index
      BY <1>1 DEF SearchShape, SearchFields
<1>3. O = Aim(P, s, g)
      BY DEF Aimed, Aim, PaneCore, PaneShape, PaneFields, g
<1> HIDE DEF s, O
<1>4. PaneCore(O) /\ Changes(P, O, {"search", "anchor"}) /\ O.search = s
      BY <1>1, <1>2, <1>3, Aims
<1>5. SameView(P, O) /\ O.vt = P.vt
      BY <1>4 DEF Changes, PaneFields, SameView
<1>6. Oldest(O) = Oldest(P) /\ LogTotal(O) = LogTotal(P)
      BY <1>5 DEF SameView, Oldest, LogTotal, EffectiveLines, Frozen
<1>7. Current(O, u)
      BY <1>2, <1>4, <1>6 DEF Current, UserToGlobal, g
<1> QED BY <1>2, <1>4, <1>5, <1>7 DEF O

Known(P, step) == P.search.index > (IF step < 0 THEN 1 ELSE 0)
\* Q has only another counter.
Recounted(P, Q, i) ==
    /\ PaneCore(Q) /\ SameView(P, Q) /\ Q.vt = P.vt
    /\ Q.search = [P.search EXCEPT !.index = i]

\* Setting the counter keeps the pane and what it shows.
LEMMA Recounts ==
    ASSUME NEW O, PaneCore(O), NEW i
    PROVE  Recounted(O, [O EXCEPT !.search.index = i], i)
<1> DEFINE s == [O.search EXCEPT !.index = i]
           Q == [O EXCEPT !.search.index = i]
<1>1. SearchShape(O.search) /\ O.search.line \in Int /\ AnchorFits(O, O.anchor)
      BY Seen
<1>2. SearchShape(s) /\ s.line = O.search.line
      BY <1>1 DEF SearchShape, SearchFields
<1>3. Q = Aim(O, s, O.anchor)
      BY DEF Aim, PaneCore, PaneShape, PaneFields
<1> HIDE DEF s, Q
<1>4. PaneCore(Q) /\ Changes(O, Q, {"search", "anchor"}) /\ Q.search = s
      BY <1>1, <1>2, <1>3, Aims
<1>5. SameView(O, Q) /\ Q.vt = O.vt
      BY <1>4 DEF Changes, PaneFields, SameView
<1> QED BY <1>4, <1>5 DEF Recounted, s, Q

\* A move goes to the match, then counts on from where it was or computes.
LEMMA MovedIs ==
    ASSUME NEW P, NEW u, NEW m, NEW step
    PROVE  LET O == Aimed(P, u, m)
           IN MoveTo(P, u, m, step) =
                [O EXCEPT !.search.index =
                    IF Known(P, step) THEN @ + step ELSE ComputeIndex(O)]
BY DEF MoveTo, Aimed, Known

\* Going to the match the counter says.
LEMMA MovesTruly ==
    ASSUME NEW P, PaneCore(P), Frozen(P), Truthful(P),
           NEW u \in 0..LogTotal(P)-1, NEW m \in Hits(P, u), NEW step,
           Known(P, step) => P.search.index + step = Rank(P, u, m)
    PROVE  Truthful(MoveTo(P, u, m, step))
<1> DEFINE O == Aimed(P, u, m)
           i == IF Known(P, step) THEN O.search.index + step ELSE ComputeIndex(O)
           Q == [O EXCEPT !.search.index = i]
<1>1. MoveTo(P, u, m, step) = Q
      BY MovedIs
<1>2. /\ PaneCore(O) /\ SameView(P, O) /\ Current(O, u)
      /\ O.search.pat = P.search.pat /\ O.search.start = m
      /\ O.search.total = P.search.total /\ O.search.index = P.search.index
      BY AimedAt
<1> HIDE DEF O
<1>3. ComputeIndex(O) = Rank(P, u, m)
  <2>1. ComputeIndex(O) = Rank(O, u, m)
        BY <1>2, IndexIs
  <2>2. Rank(O, u, m) = Rank(P, u, m)
        BY <1>2, HitsSame
  <2> QED BY <2>1, <2>2
<1>4. i = Rank(P, u, m)
      BY <1>2, <1>3
<1>5. Recounted(O, Q, i)
      BY <1>2, Recounts
<1> HIDE DEF i, Q
<1>6. /\ Q.search.index = i /\ Q.search.start = m /\ Q.search.pat = P.search.pat
      /\ Q.search.total = P.search.total /\ Q.search.line = O.search.line
  <2>1. SearchShape(O.search)
        BY <1>2, Seen
  <2> QED BY <1>2, <1>5, <2>1 DEF Recounted, SearchShape, SearchFields
<1>7. PaneCore(Q) /\ SameView(P, Q)
      BY <1>2, <1>5 DEF Recounted, SameView
<1>8. Frozen(Q) /\ LogTotal(Q) = LogTotal(P) /\ Oldest(Q) = Oldest(P)
      BY <1>7, LinesSame
<1>9. LogTotal(O) = LogTotal(P) /\ Oldest(O) = Oldest(P)
      BY <1>2, LinesSame
<1>10. Current(Q, u)
      BY <1>2, <1>6, <1>8, <1>9 DEF Current, UserToGlobal
<1>11. /\ Hits(Q, u) = Hits(P, u) /\ Rank(Q, u, m) = Rank(P, u, m)
       /\ HitsUpTo(Q, LogTotal(P)) = HitsUpTo(P, LogTotal(P))
  <2>1. LogTotal(P) \in 0..LogTotal(P)
        BY Seen
  <2> QED BY <1>6, <1>7, <2>1, HitsSame
<1>12. Truthful(Q)
  <2>1. Q.search.start \in Hits(Q, u)
        BY <1>6, <1>11
  <2>2. Q.search.total = HitsUpTo(Q, LogTotal(Q))
        BY <1>6, <1>8, <1>11 DEF Truthful
  <2>3. Q.search.index = Rank(Q, u, Q.search.start)
        BY <1>4, <1>6, <1>11
  <2> QED BY <1>7, <1>8, <1>10, <2>1, <2>2, <2>3, TrueAt
<1> QED BY <1>1, <1>12

---------------------------------------------------------------------------
\* The cursor is at a line there is, or the search has no match yet.
LEMMA PlacesAre ==
    ASSUME NEW P, PaneCore(P), Frozen(P), NEW u \in 0..LogTotal(P)-1
    PROVE  /\ After(P, u, 0) = Hits(P, u)
           /\ \A k : After(P, u, k) = {m \in Hits(P, u) : m >= k}
           /\ \A k : Before(P, u, k) = {m \in Hits(P, u) : m < k}
           /\ Hits(P, u) \subseteq Nat
<1>1. PICK L \in Nat : Hits(P, u) \in SUBSET (0..L)
      BY HitsFit
<1>2. /\ \A k : After(P, u, k) = {m \in Hits(P, u) : m >= k}
      /\ \A k : Before(P, u, k) = {m \in Hits(P, u) : m < k}
      BY DEF After, Before, Hits
<1>3. Hits(P, u) \subseteq Nat
      BY <1>1
<1>4. {m \in Hits(P, u) : m >= 0} = Hits(P, u)
      BY <1>3
<1> QED BY <1>2, <1>3, <1>4

\* The next match keeps the counter right (tui_log_search_next).
LEMMA NextTruthful ==
    ASSUME NEW P, PaneCore(P), Frozen(P), Truthful(P)
    PROVE  Truthful(SearchNext(P))
<1> DEFINE total == LogTotal(P)
           u == GlobalToUser(P, P.search.line)
           here == P.search.line >= 0 /\ u \in 0..total-1
           from == CASE here -> u
                     [] P.search.line >= 0 /\ ~here -> 0
                     [] OTHER -> BottomIdx(P)
           places == IF here THEN After(P, from, P.search.start + 1) ELSE After(P, from, 0)
           later == {v \in from+1..total-1 : After(P, v, 0) # {}}
           a == P.search.start
<1>1. total \in Nat \ {0}
      BY Seen
<1>2. from \in 0..total-1
      BY <1>1, Bottom
<1>3. SearchNext(P) =
        IF ~Searching(P) THEN P
        ELSE IF places # {} THEN MoveTo(P, from, Least(places), 1)
        ELSE IF later # {}
        THEN MoveTo(P, Least(later), Least(After(P, Least(later), 0)), 1)
        ELSE P
      BY DEF SearchNext
\* A counter that is known is that of the match the search stands at.
<1>4. ASSUME Known(P, 1)
      PROVE  /\ from \in 0..total-1 /\ a \in Hits(P, from) /\ a \in Nat
             /\ P.search.index = Rank(P, from, a)
             /\ places = {m \in Hits(P, from) : m >= a + 1}
  <2>1. ComputeIndex(P) # 0
        BY <1>4 DEF Known, Truthful
  <2>2. PICK v : Current(P, v)
        BY <2>1, IndexSeen
  <2>3. v \in 0..total-1 /\ u = v /\ P.search.line >= 0
        BY <2>2, CurrentIs
  <2>4. from = v /\ here
        BY <2>3
  <2>5. a \in Hits(P, v) /\ P.search.index = Rank(P, v, a)
        BY <2>2, IndexIs DEF Truthful
  <2>6. Hits(P, v) \subseteq Nat
        BY <2>3, PlacesAre
  <2>7. places = {m \in Hits(P, v) : m >= a + 1}
        BY <2>3, <2>4, PlacesAre
  <2> HIDE DEF from, places
  <2> QED BY <2>3, <2>4, <2>5, <2>6, <2>7
<1>5. places \subseteq Hits(P, from) /\ Hits(P, from) \subseteq Nat
      BY <1>2, PlacesAre
<1> HIDE DEF from, places
<1>6. CASE places # {}
  <2> DEFINE b == Least(places)
  <2>1. places \in SUBSET Nat
        BY <1>5
  <2>2. b \in places /\ \A y \in places : b <= y
        BY <1>6, <2>1, IsLeast
  <2> HIDE DEF b
  <2>3. b \in Hits(P, from)
        BY <1>5, <2>2
  <2>4. ASSUME Known(P, 1) PROVE P.search.index + 1 = Rank(P, from, b)
    <3>1. a < b /\ \A x \in Hits(P, from) : ~(a < x /\ x < b)
          BY <1>4, <1>5, <2>2, <2>4
    <3>2. Follow(P, from, a, from, b)
          BY <3>1 DEF Follow
    <3> QED BY <1>2, <1>4, <2>3, <2>4, <3>2, NextRank
  <2>5. Truthful(MoveTo(P, from, b, 1))
        BY <1>2, <2>3, <2>4, MovesTruly
  <2> QED BY <1>3, <1>6, <2>5 DEF b
<1>7. CASE places = {} /\ later # {}
  <2> DEFINE v == Least(later)
             b == Least(After(P, v, 0))
  <2>1. later \in SUBSET Nat
        BY <1>1, <1>2
  <2>2. v \in later /\ \A y \in later : v <= y
        BY <1>7, <2>1, IsLeast
  <2>3. v \in from+1..total-1 /\ After(P, v, 0) # {} /\ v \in 0..total-1 /\ from < v
        BY <1>1, <1>2, <2>2
  <2>4. \A w \in from+1..v-1 : After(P, w, 0) = {}
        BY <1>1, <1>2, <2>2, <2>3
  <2> HIDE DEF v, later
  <2>5. After(P, v, 0) = Hits(P, v) /\ Hits(P, v) \in SUBSET Nat
        BY <2>3, PlacesAre
  <2>6. b \in Hits(P, v) /\ \A y \in Hits(P, v) : b <= y
        BY <2>3, <2>5, IsLeast
  <2> HIDE DEF b
  <2>7. ASSUME Known(P, 1) PROVE P.search.index + 1 = Rank(P, v, b)
    <3>1. \A x \in Hits(P, from) : x <= a
          BY <1>4, <1>5, <1>7, <2>7
    <3>2. ASSUME NEW w \in from+1..v-1 PROVE Hits(P, w) = {}
      <4>1. w \in 0..total-1
            BY <1>1, <1>2, <2>3
      <4> QED BY <2>4, <4>1, PlacesAre
    <3>3. Follow(P, from, a, v, b)
          BY <2>3, <2>6, <3>1, <3>2 DEF Follow
    <3> QED BY <1>2, <1>4, <2>3, <2>6, <2>7, <3>3, NextRank
  <2>8. Truthful(MoveTo(P, v, b, 1))
        BY <2>3, <2>6, <2>7, MovesTruly
  <2> QED BY <1>3, <1>7, <2>8 DEF v, b
<1>8. CASE places = {} /\ later = {}
      BY <1>3, <1>8
<1> QED BY <1>3, <1>6, <1>7, <1>8

\* And so does the one before (tui_log_search_prev).
LEMMA PrevTruthful ==
    ASSUME NEW P, PaneCore(P), Frozen(P), Truthful(P)
    PROVE  Truthful(SearchPrev(P))
<1> DEFINE total == LogTotal(P)
           u == GlobalToUser(P, P.search.line)
           here == P.search.line >= 0 /\ u \in 0..total-1
           from == CASE here -> u
                     [] P.search.line >= 0 /\ ~here -> total - 1
                     [] OTHER -> BottomIdx(P)
           upto == IF here THEN P.search.start ELSE NoBound
           places == Before(P, from, upto)
           earlier == {v \in 0..from-1 : After(P, v, 0) # {}}
           a == P.search.start
<1>1. total \in Nat \ {0}
      BY Seen
<1>2. from \in 0..total-1
      BY <1>1, Bottom
<1>3. SearchPrev(P) =
        IF ~Searching(P) THEN P
        ELSE IF places # {} THEN MoveTo(P, from, Greatest(places), -1)
        ELSE IF earlier # {}
        THEN MoveTo(P, Greatest(earlier), Greatest(After(P, Greatest(earlier), 0)), -1)
        ELSE P
      BY DEF SearchPrev
<1>4. ASSUME Known(P, -1)
      PROVE  /\ a \in Hits(P, from) /\ a \in Nat
             /\ P.search.index = Rank(P, from, a) /\ P.search.index \in Int
             /\ places = {m \in Hits(P, from) : m < a}
  <2>1. ComputeIndex(P) # 0
        BY <1>4 DEF Known, Truthful
  <2>2. PICK v : Current(P, v)
        BY <2>1, IndexSeen
  <2>3. v \in 0..total-1 /\ u = v /\ P.search.line >= 0
        BY <2>2, CurrentIs
  <2>4. from = v /\ here
        BY <2>3
  <2>5. a \in Hits(P, v) /\ P.search.index = Rank(P, v, a)
        BY <2>2, IndexIs DEF Truthful
  <2>6. Hits(P, v) \subseteq Nat
        BY <2>3, PlacesAre
  <2>7. upto = a
        BY <2>4
  <2>8. places = {m \in Hits(P, v) : m < a}
        BY <2>3, <2>4, <2>7, PlacesAre
  <2>9. P.search.index \in Int
        BY <2>3, <2>5, HitsThere
  <2> HIDE DEF from, places
  <2> QED BY <2>4, <2>5, <2>6, <2>8, <2>9
<1> HIDE DEF upto
<1>5. PICK L \in Nat : Hits(P, from) \in SUBSET (0..L)
      BY <1>2, HitsFit
<1>6. places \in SUBSET (0..L) /\ places \subseteq Hits(P, from)
      BY <1>2, <1>5, PlacesAre
<1> HIDE DEF from, places
<1>7. CASE places # {}
  <2> DEFINE b == Greatest(places)
  <2>1. b \in places /\ \A y \in places : y <= b
        BY <1>5, <1>6, <1>7, IsGreatest
  <2> HIDE DEF b
  <2>2. b \in Hits(P, from)
        BY <1>6, <2>1
  <2>3. ASSUME Known(P, -1) PROVE P.search.index + (-1) = Rank(P, from, b)
    <3>1. b < a /\ \A x \in Hits(P, from) : ~(b < x /\ x < a)
          BY <1>4, <1>5, <1>6, <2>1, <2>3
    <3>2. Follow(P, from, b, from, a)
          BY <3>1 DEF Follow
    <3>3. Rank(P, from, a) = Rank(P, from, b) + 1
          BY <1>2, <1>4, <2>2, <2>3, <3>2, NextRank
    <3>4. Rank(P, from, b) \in Int
          BY <1>2, <2>2, HitsThere
    <3> QED BY <1>4, <2>3, <3>3, <3>4
  <2>4. Truthful(MoveTo(P, from, b, -1))
        BY <1>2, <2>2, <2>3, MovesTruly
  <2> QED BY <1>3, <1>7, <2>4 DEF b, Searching
<1>8. CASE places = {} /\ earlier # {}
  <2> DEFINE v == Greatest(earlier)
             b == Greatest(After(P, v, 0))
  <2>1. earlier \in SUBSET (0..total) /\ total \in Nat
        BY <1>1, <1>2
  <2>2. v \in earlier /\ \A y \in earlier : y <= v
        BY <1>8, <2>1, IsGreatest
  <2>3. v \in 0..from-1 /\ After(P, v, 0) # {} /\ v \in 0..total-1 /\ v < from
    <3>1. v \in 0..from-1 /\ After(P, v, 0) # {}
          BY <2>2
    <3> HIDE DEF v, earlier, total
    <3> QED BY <1>1, <1>2, <3>1
  <2>4. \A w \in v+1..from-1 : After(P, w, 0) = {}
        BY <1>1, <1>2, <2>2, <2>3
  <2> HIDE DEF v, earlier
  <2>5. PICK K \in Nat : Hits(P, v) \in SUBSET (0..K)
        BY <2>3, HitsFit
  <2>6. After(P, v, 0) = Hits(P, v)
        BY <2>3, PlacesAre
  <2>7. b \in Hits(P, v) /\ \A y \in Hits(P, v) : y <= b
        BY <2>3, <2>5, <2>6, IsGreatest
  <2> HIDE DEF b
  <2>8. ASSUME Known(P, -1) PROVE P.search.index + (-1) = Rank(P, v, b)
    <3>1. \A x \in Hits(P, from) : a <= x
          BY <1>4, <1>5, <1>8, <2>8
    <3>2. ASSUME NEW w \in v+1..from-1 PROVE Hits(P, w) = {}
      <4>1. w \in 0..total-1
            BY <1>1, <1>2, <2>3
      <4> QED BY <2>4, <4>1, PlacesAre
    <3>3. Follow(P, v, b, from, a)
          BY <2>3, <2>7, <3>1, <3>2 DEF Follow
    <3>4. Rank(P, from, a) = Rank(P, v, b) + 1
          BY <1>2, <1>4, <2>3, <2>7, <2>8, <3>3, NextRank
    <3>5. Rank(P, v, b) \in Int
          BY <2>3, <2>7, HitsThere
    <3> QED BY <1>4, <2>8, <3>4, <3>5
  <2>9. Truthful(MoveTo(P, v, b, -1))
        BY <2>3, <2>7, <2>8, MovesTruly
  <2> QED BY <1>3, <1>8, <2>9 DEF v, b, Searching
<1>9. CASE places = {} /\ earlier = {}
      BY <1>3, <1>9 DEF Searching
<1> QED BY <1>7, <1>8, <1>9

---------------------------------------------------------------------------
\* A new search, before it goes to a match.
Asked(P, pat) ==
    [P EXCEPT !.search = [NoSearch EXCEPT !.pat = pat, !.total = MatchesIn(P, LogTotal(P), pat)],
              !.anchor = IF Frozen(P) THEN @ ELSE -1]

\* Every field of a pane that asks for another pattern.
LEMMA AskedIs ==
    ASSUME NEW P, PaneCore(P), Frozen(P), NEW pat
    PROVE  LET O == Asked(P, pat)
           IN /\ PaneCore(O) /\ SameView(P, O) /\ Frozen(O) /\ O.search.pat = pat
              /\ O.search.line = -1 /\ O.search.index = 0
              /\ O.search.total = HitsUpTo(O, LogTotal(O)) /\ LogTotal(O) = LogTotal(P)
              /\ MatchesIn(P, LogTotal(P), pat) = HitsUpTo(O, LogTotal(O))
<1> DEFINE all == MatchesIn(P, LogTotal(P), pat)
           s == [NoSearch EXCEPT !.pat = pat, !.total = all]
           O == Asked(P, pat)
<1> HIDE DEF all
<1>1. /\ SearchShape(s) /\ s.line = -1 /\ s.pat = pat /\ s.total = all /\ s.index = 0
      BY DEF SearchShape, NoSearch, SearchFields
<1>2. O = Aim(P, s, P.anchor)
      BY DEF Asked, Aim, PaneCore, PaneShape, PaneFields, all
<1>3. AnchorFits(P, P.anchor)
      BY Seen
<1> HIDE DEF s, O
<1>4. PaneCore(O) /\ Changes(P, O, {"search", "anchor"}) /\ O.search = s
      BY <1>1, <1>2, <1>3, Aims
<1>5. SameView(P, O)
      BY <1>4 DEF Changes, PaneFields, SameView
<1>6. LogTotal(O) = LogTotal(P) /\ Frozen(O)
      BY <1>5, LinesSame
<1>7. HitsUpTo(O, LogTotal(O)) = all
  <2>1. LogTotal(P) \in 0..LogTotal(P)
        BY Seen
  <2>2. MatchesIn(O, LogTotal(P), pat) = all
        BY <1>5, <2>1, MatchesSame DEF all
  <2> QED BY <1>1, <1>4, <1>6, <2>2 DEF HitsUpTo
<1>8. O.search.total = all
      BY <1>1, <1>4
<1> QED BY <1>1, <1>4, <1>5, <1>6, <1>7, <1>8 DEF O, all

\* A new search counts right from its first match (tui_log_search_set).
LEMMA SetTruthful ==
    ASSUME NEW P, PaneCore(P), Frozen(P), NEW pat, pat # NoPattern
    PROVE  Truthful(SearchSet(P, pat))
<1> DEFINE O == Asked(P, pat)
           all == MatchesIn(P, LogTotal(P), pat)
           hits == {u \in 0..LogTotal(O)-1 : After(O, u, 0) # {}}
           u == Greatest(hits)
           m == Greatest(After(O, u, 0))
           Q == [Aimed(O, u, m) EXCEPT !.search.index = all]
<1>1. /\ PaneCore(O) /\ SameView(P, O) /\ Frozen(O) /\ O.search.pat = pat
      /\ O.search.line = -1 /\ O.search.index = 0
      /\ O.search.total = HitsUpTo(O, LogTotal(O)) /\ LogTotal(O) = LogTotal(P)
      /\ all = HitsUpTo(O, LogTotal(O))
      BY AskedIs
<1>2. SearchSet(P, pat) = IF hits = {} THEN O ELSE Q
      BY DEF SearchSet, Asked, Aimed
<1> HIDE DEF O, all
<1>3. LogTotal(O) \in Nat \ {0}
      BY <1>1, Seen
<1>4. \A v \in 0..LogTotal(O)-1 : After(O, v, 0) = Hits(O, v)
      BY <1>1, PlacesAre
<1>5. CASE hits = {}
  <2>1. \A v \in 0..LogTotal(O)-1 : Hits(O, v) = {}
        BY <1>4, <1>5
  <2>2. HitsUpTo(O, 0) = 0
        BY <1>1, HitsCounted
  <2>3. HitsUpTo(O, LogTotal(O)) = HitsUpTo(O, 0)
    <3>1. 0 \in 0..LogTotal(O) /\ LogTotal(O) \in 0..LogTotal(O)
          BY <1>3
    <3> QED BY <1>1, <2>1, <3>1, HitsGrow
  <2>4. \A v : ~Current(O, v)
    <3>1. ASSUME NEW v, Current(O, v) PROVE FALSE
          BY <1>1, <3>1, CurrentIs
    <3> QED BY <3>1
  <2>5. ComputeIndex(O) = 0
        BY <1>1, <2>4, IndexSeen
  <2>6. Truthful(O)
        BY <1>1, <2>2, <2>3, <2>4, <2>5 DEF Truthful
  <2> QED BY <1>2, <1>5, <2>6
<1>6. CASE hits # {}
  <2>1. hits \in SUBSET (0..LogTotal(O)) /\ LogTotal(O) \in Nat
        BY <1>3
  <2>2. u \in hits /\ \A y \in hits : y <= u
        BY <1>6, <2>1, IsGreatest
  <2>3. u \in 0..LogTotal(O)-1 /\ Hits(O, u) # {}
        BY <1>4, <2>2
  <2>4. \A w \in u+1..LogTotal(O)-1 : Hits(O, w) = {}
        BY <1>3, <1>4, <2>2, <2>3
  <2> HIDE DEF u, hits
  <2>5. PICK K \in Nat : Hits(O, u) \in SUBSET (0..K)
        BY <1>1, <2>3, HitsFit
  <2>6. m \in Hits(O, u) /\ \A y \in Hits(O, u) : y <= m
        BY <1>4, <2>3, <2>5, IsGreatest
  <2> HIDE DEF m
  <2>7. Rank(O, u, m) = all
    <3>1. Upto(Hits(O, u), m) = Hits(O, u)
          BY <2>5, <2>6, LastCounts
    <3>2. HitsUpTo(O, u + 1) = HitsUpTo(O, u) + Cardinality(Hits(O, u))
          BY <1>1, <2>3, HitsCounted
    <3>3. u + 1 \in 0..LogTotal(O) /\ LogTotal(O) \in u+1..LogTotal(O)
          BY <1>3, <2>3
    <3>4. HitsUpTo(O, LogTotal(O)) = HitsUpTo(O, u + 1)
          BY <1>1, <2>4, <3>3, HitsGrow
    <3> QED BY <1>1, <3>1, <3>2, <3>4 DEF Rank
  <2> DEFINE A == Aimed(O, u, m)
  <2>8. /\ PaneCore(A) /\ SameView(O, A) /\ Current(A, u)
        /\ A.search.pat = O.search.pat /\ A.search.start = m
        /\ A.search.total = O.search.total
        BY <1>1, <2>3, AimedAt
  <2>9. Q = [A EXCEPT !.search.index = all]
        OBVIOUS
  <2> HIDE DEF A, Q
  <2>10. Recounted(A, Q, all)
        BY <2>8, <2>9, Recounts
  <2>11. /\ Q.search.index = all /\ Q.search.start = m /\ Q.search.pat = O.search.pat
         /\ Q.search.total = O.search.total /\ Q.search.line = A.search.line
    <3>1. SearchShape(A.search)
          BY <2>8, Seen
    <3> QED BY <2>8, <2>10, <3>1 DEF Recounted, SearchShape, SearchFields
  <2>12. PaneCore(Q) /\ SameView(O, Q)
        BY <2>8, <2>10 DEF Recounted, SameView
  <2>13. Frozen(Q) /\ LogTotal(Q) = LogTotal(O) /\ Oldest(Q) = Oldest(O)
        BY <1>1, <2>12, LinesSame
  <2>14. LogTotal(A) = LogTotal(O) /\ Oldest(A) = Oldest(O)
        BY <1>1, <2>8, LinesSame
  <2>15. Current(Q, u)
        BY <2>8, <2>11, <2>13, <2>14 DEF Current, UserToGlobal
  <2>16. /\ Hits(Q, u) = Hits(O, u) /\ Rank(Q, u, m) = Rank(O, u, m)
         /\ HitsUpTo(Q, LogTotal(O)) = HitsUpTo(O, LogTotal(O))
    <3>1. LogTotal(O) \in 0..LogTotal(O)
          BY <1>3
    <3> QED BY <1>1, <2>3, <2>11, <2>12, <3>1, HitsSame
  <2>17. Truthful(Q)
    <3>1. Q.search.start \in Hits(Q, u)
          BY <2>6, <2>11, <2>16
    <3>2. Q.search.total = HitsUpTo(Q, LogTotal(Q))
          BY <1>1, <2>11, <2>13, <2>16
    <3>3. Q.search.index = Rank(Q, u, Q.search.start)
          BY <2>7, <2>11, <2>16
    <3> QED BY <2>12, <2>13, <2>15, <3>1, <3>2, <3>3, TrueAt
  <2> QED BY <1>2, <1>6, <2>17
<1> QED BY <1>5, <1>6

-----------------------------------------------------------------------------
(* In inspect and outside it *)

\* In inspect a pane is frozen and its counter right; outside it does not search.
Told(P) ==
    IF P.active THEN Frozen(P) /\ (Searching(P) => Truthful(P)) ELSE ~Searching(P)

\* It depends on the view, the mode and the search only.
LEMMA ToldSame ==
    ASSUME NEW P, PaneCore(P), NEW Q, PaneCore(Q), Q.active = P.active,
           Q.search = P.search, P.active => SameView(P, Q)
    PROVE  Told(P) => Told(Q)
<1> SUFFICES ASSUME Told(P) PROVE Told(Q)
    OBVIOUS
<1>1. Searching(Q) <=> Searching(P)
      BY DEF Searching
<1>2. CASE P.active
  <2>1. Frozen(P) /\ Frozen(Q)
        BY <1>2, LinesSame DEF Told
  <2>2. Searching(Q) => Truthful(Q)
        BY <1>1, <1>2, <2>1, TruthfulSame DEF Told
  <2> QED BY <1>2, <2>1, <2>2 DEF Told
<1>3. CASE ~P.active
      BY <1>1, <1>3 DEF Told
<1> QED BY <1>2, <1>3

\* What a search leaves of the view.
LEMMA ToldSought ==
    ASSUME NEW P, PaneCore(P), NEW Q, Sought(P, Q), P.active = TRUE,
           Frozen(P) /\ (Searching(P) => Truthful(P)) /\ Searching(Q) => Truthful(Q)
    PROVE  Told(P) => Told(Q)
<1>1. Q.active = P.active /\ Q.ceiling = P.ceiling
      BY DEF Sought, Changes, PaneFields
<1> QED BY <1>1 DEF Told, Frozen

\* Going to the next match, whether a search is on or not.
LEMMA NextTold ==
    ASSUME NEW P, PaneCore(P), P.active = TRUE
    PROVE  Told(P) => Told(SearchNext(P))
<1>1. CASE ~Searching(P)
      BY <1>1 DEF SearchNext
<1>2. CASE Searching(P)
      BY <1>2, FindsNext, NextTruthful, ToldSought
<1> QED BY <1>1, <1>2

\* Going to the match before.
LEMMA PrevTold ==
    ASSUME NEW P, PaneCore(P), P.active = TRUE
    PROVE  Told(P) => Told(SearchPrev(P))
<1>1. CASE ~Searching(P)
      BY <1>1 DEF SearchPrev
<1>2. CASE Searching(P)
      BY <1>2, FindsPrev, PrevTruthful, ToldSought
<1> QED BY <1>1, <1>2

\* A search that is cleared is over (tui_log_search_clear).
LEMMA ClearedPattern ==
    ASSUME NEW P, PaneCore(P)
    PROVE  ~Searching(SearchClear(P))
<1>1. SearchClear(P).search = NoSearch
      BY DEF SearchClear, PaneCore, PaneShape, PaneFields
<1> QED BY <1>1 DEF Searching, NoSearch

\* A new pattern, or none.
LEMMA SetTold ==
    ASSUME NEW P, PaneCore(P), P.active = TRUE, NEW pat
    PROVE  Told(P) => Told(SearchSet(P, pat))
<1>1. Sought(P, SearchSet(P, pat))
      BY Sets DEF Sought
<1>2. CASE pat = NoPattern
  <2>1. SearchSet(P, pat) = SearchClear(P)
        BY <1>2 DEF SearchSet
  <2> QED BY <1>1, <2>1, ClearedPattern, ToldSought
<1>3. CASE pat # NoPattern
      BY <1>1, <1>3, SetTruthful, ToldSought
<1> QED BY <1>2, <1>3

---------------------------------------------------------------------------
\* What a key may do to a pane.
Answered(P, Q, free) ==
    /\ PaneCore(Q) /\ ModesKept(Q)
    /\ Q.vt = P.vt /\ Q.lines = P.lines /\ Q.total = P.total
    /\ P.active /\ Q.active => Q.ceiling = P.ceiling /\ Q.snap = P.snap
    /\ Told(P) => Told(Q)
    /\ Q.mode \in Modal => P.mode \in Modal \/ free
Handled(P, Q, free) == Answered(P, Q, free) /\ Q.prefix = P.prefix

-----------------------------------------------------------------------------
(* What a key does to a pane: one lemma per mode *)

Live(P) == PaneCore(P) /\ ModesKept(P)

\* The fields a key's effect is told by.
SameWay(P, Q) ==
    /\ Q.vt = P.vt /\ Q.lines = P.lines /\ Q.total = P.total
    /\ Q.mode = P.mode /\ Q.active = P.active /\ Q.helpWasLive = P.helpWasLive
    /\ Q.prefix = P.prefix

\* What a key may do includes what keeps the mode, the log and the view.
LEMMA StaysHandled ==
    ASSUME NEW P, Live(P), NEW free,
           NEW Q, PaneCore(Q), SameWay(P, Q), Q.ceiling = P.ceiling, Q.snap = P.snap,
           Told(P) => Told(Q)
    PROVE  Handled(P, Q, free)
BY DEF Live, Handled, Answered, SameWay, ModesKept

\* A search changes the anchor and its own state only.
LEMMA SoughtSame ==
    ASSUME NEW P, NEW Q, Sought(P, Q)
    PROVE  PaneCore(Q) /\ SameWay(P, Q) /\ Q.ceiling = P.ceiling /\ Q.snap = P.snap
BY DEF Sought, Changes, PaneFields, SameWay

\* A key may search.
LEMMA SoughtHandled ==
    ASSUME NEW P, Live(P), NEW free, NEW Q, Sought(P, Q),
           Told(P) => Told(Q)
    PROVE  Handled(P, Q, free)
BY SoughtSame, StaysHandled

\* A key may do nothing.
LEMMA NothingHandled ==
    ASSUME NEW P, Live(P), NEW free
    PROVE  Handled(P, P, free)
BY StaysHandled DEF Live, SameWay

\* Q is P in another mode.
InMode(P, Q, m) ==
    /\ PaneCore(Q) /\ Q.mode = m /\ (m = "LIVE" => Q.active = FALSE) /\ (m # "LIVE" => Q.active = TRUE)
    /\ Q.vt = P.vt /\ Q.lines = P.lines /\ Q.total = P.total
    /\ Q.ceiling = P.ceiling /\ Q.snap = P.snap /\ Q.search = P.search
    /\ Q.helpWasLive = P.helpWasLive /\ Q.prefix = P.prefix /\ Q.anchor = P.anchor

\* A pane in another mode (tui_inspect_set_active).
LEMMA ModeSet ==
    ASSUME NEW P, PaneCore(P), NEW m
    PROVE  InMode(P, SetMode(P, m), m)
<1> DEFINE Q == SetMode(P, m)
<1>1. Changes(P, Q, {"mode", "active", "helpWasLive", "prefix", "yank"})
      BY DEF SetMode, Changes, PaneCore, PaneShape
<1>2. PaneCore(Q)
      BY <1>1, Kept
<1>3. Q.mode = m /\ (m = "LIVE" => Q.active = FALSE) /\ (m # "LIVE" => Q.active = TRUE)
      /\ Q.helpWasLive = P.helpWasLive /\ Q.prefix = P.prefix
      BY DEF SetMode, PaneCore, PaneShape, PaneFields
<1>4. /\ Q.vt = P.vt /\ Q.lines = P.lines /\ Q.total = P.total
      /\ Q.ceiling = P.ceiling /\ Q.snap = P.snap /\ Q.search = P.search
      /\ Q.anchor = P.anchor
      BY <1>1 DEF Changes, PaneFields
<1> HIDE DEF Q
<1>5. InMode(P, Q, m)
      BY <1>2, <1>3, <1>4 DEF InMode
<1> QED BY <1>5 DEF Q

\* Leaving inspect (tui_inspect_handle_nav).
LEMMA Leaves ==
    ASSUME NEW P, Live(P), P.mode # "HELP", NEW free
    PROVE  Handled(P, LeaveInspect(P), free)
<1> DEFINE A == SearchClear(P)
           B == Unfreeze(A)
           Q == SetMode(B, "LIVE")
<1>1. PaneCore(A) /\ Changes(P, A, {"search"}) /\ ~Searching(A)
      BY Clears, ClearedPattern DEF Live
<1> HIDE DEF A
<1>2. PaneCore(B) /\ Changes(A, B, {"anchor", "ceiling", "snap"})
      BY <1>1, Unfreezes
<1> HIDE DEF B
<1>3. InMode(B, Q, "LIVE")
      BY <1>2, ModeSet
<1> HIDE DEF Q
<1>4. /\ B.vt = P.vt /\ B.lines = P.lines /\ B.total = P.total
      /\ B.helpWasLive = P.helpWasLive /\ B.prefix = P.prefix /\ B.search = A.search
      BY <1>1, <1>2 DEF Changes, PaneFields
<1>5. P.helpWasLive = FALSE
      BY DEF Live, ModesKept
<1>5a. Told(Q)
      BY <1>1, <1>3, <1>4 DEF Told, InMode, Searching
<1>6. Handled(P, Q, free)
      BY <1>3, <1>4, <1>5, <1>5a DEF Handled, Answered, ModesKept, Modal, InMode
<1> QED BY <1>6 DEF LeaveInspect, A, B, Q

\* Entering inspect freezes the pane (tui_log_inspect_enter).
LEMMA Enters ==
    ASSUME NEW P, Live(P), P.mode = "LIVE", NEW free
    PROVE  Handled(P, EnterInspect(P), free) /\ Frozen(EnterInspect(P))
<1> DEFINE A == Freeze(P)
           Q == SetMode(A, "NAV")
<1>1. PaneCore(A) /\ Frozen(A) /\ Changes(P, A, {"anchor", "ceiling", "snap"})
      BY Freezes DEF Live
<1> HIDE DEF A
<1>2. InMode(A, Q, "NAV")
      BY <1>1, ModeSet
<1> HIDE DEF Q
<1>3. /\ A.vt = P.vt /\ A.lines = P.lines /\ A.total = P.total
      /\ A.helpWasLive = P.helpWasLive /\ A.prefix = P.prefix /\ A.search = P.search
      BY <1>1 DEF Changes, PaneFields
<1>4. P.helpWasLive = FALSE /\ P.active = FALSE
      BY DEF Live, ModesKept
<1>4a. Told(P) => Told(Q)
      BY <1>1, <1>2, <1>3, <1>4 DEF Told, InMode, Searching, Frozen
<1>5. Handled(P, Q, free) /\ Frozen(Q)
      BY <1>1, <1>2, <1>3, <1>4, <1>4a DEF Handled, Answered, ModesKept, Modal, InMode, Frozen
<1> QED BY <1>5 DEF EnterInspect, A, Q

\* The prompt of a search opens if the slot is free.
LEMMA Asks ==
    ASSUME NEW P, Live(P), P.mode = "NAV", NEW free \in BOOLEAN
    PROVE  Handled(P, OpenSearch(P, free), free)
<1>1. CASE ~free
      BY <1>1, NothingHandled DEF OpenSearch
<1>2. CASE free
  <2> DEFINE Q == SetMode(P, "SEARCH")
  <2>1. InMode(P, Q, "SEARCH")
        BY ModeSet DEF Live
  <2> HIDE DEF Q
  <2>2. P.helpWasLive = FALSE /\ P.active = TRUE
        BY DEF Live, ModesKept
  <2>2a. Told(P) => Told(Q)
    <3>1. PaneCore(P) /\ PaneCore(Q) /\ Q.search = P.search /\ SameView(P, Q) /\ Q.active = P.active
          BY <2>1, <2>2 DEF Live, InMode, SameView
    <3> QED BY <3>1, ToldSame
  <2>3. Handled(P, Q, free)
        BY <1>2, <2>1, <2>2, <2>2a DEF Handled, Answered, ModesKept, Modal, InMode
  <2> QED BY <1>2, <2>3 DEF OpenSearch, Q
<1> QED BY <1>1, <1>2

\* The help opens if the slot is free.
LEMMA Explains ==
    ASSUME NEW P, Live(P), P.mode \in {"LIVE", "NAV"}, NEW free \in BOOLEAN
    PROVE  Handled(P, OpenHelp(P, free), free)
<1>1. CASE ~free
      BY <1>1, NothingHandled DEF OpenHelp
<1>2. CASE free
  <2> DEFINE A == IF P.active THEN P ELSE Freeze(P)
             Q == [A EXCEPT !.mode = "HELP", !.helpWasLive = ~P.active]
  <2>1. /\ PaneCore(A) /\ Changes(P, A, {"anchor", "ceiling", "snap"})
        BY Freezes, NoChange DEF Live
  <2>2. P.active => A = P
        OBVIOUS
  <2>3. P.active \in BOOLEAN
        BY DEF Live, ModesKept
  <2> HIDE DEF A
  <2>4. Changes(A, Q, {"mode", "active", "helpWasLive", "prefix", "yank"})
        BY <2>1 DEF Changes, PaneCore, PaneShape
  <2>5. Q.mode = "HELP" /\ Q.helpWasLive = ~P.active /\ Q.active = A.active /\ Q.prefix = A.prefix
        BY <2>1 DEF PaneCore, PaneShape, PaneFields
  <2> HIDE DEF Q
  <2>6. PaneCore(Q)
        BY <2>1, <2>4, Kept
  <2>7. /\ Q.vt = A.vt /\ Q.lines = A.lines /\ Q.total = A.total /\ Q.ceiling = A.ceiling
        /\ Q.snap = A.snap /\ Q.search = A.search
        BY <2>4 DEF Changes, PaneFields
  <2>8. /\ A.vt = P.vt /\ A.lines = P.lines /\ A.total = P.total /\ A.active = P.active
        /\ A.prefix = P.prefix /\ A.search = P.search
        BY <2>1 DEF Changes, PaneFields
  <2>9. Q.active = P.active /\ Q.prefix = P.prefix /\ Q.vt = P.vt /\ Q.lines = P.lines
        /\ Q.total = P.total /\ (P.active => Q.ceiling = P.ceiling /\ Q.snap = P.snap)
        BY <2>2, <2>5, <2>7, <2>8
  <2>10. ModesKept(Q)
        BY <2>3, <2>5, <2>9 DEF ModesKept, Modal
  <2>10a. Told(P) => Told(Q)
    <3>1. PaneCore(P) /\ Q.search = P.search /\ (P.active => SameView(P, Q))
          BY <2>7, <2>8, <2>9 DEF Live, SameView
    <3> QED BY <2>6, <2>9, <3>1, ToldSame
  <2>11. Handled(P, Q, free)
        BY <1>2, <2>3, <2>6, <2>9, <2>10, <2>10a DEF Handled, Answered
  <2> QED BY <1>2, <2>11 DEF OpenHelp, A, Q
<1> QED BY <1>1, <1>2

\* Closing either goes back to where it was opened.
LEMMA Closes ==
    ASSUME NEW P, Live(P), P.mode \in Modal, NEW free
    PROVE  Handled(P, CloseModal(P), free)
<1> DEFINE A == [P EXCEPT !.helpWasLive = FALSE]
<1>1. Changes(P, A, {"mode", "active", "helpWasLive", "prefix", "yank"})
      BY DEF Live, Changes, PaneCore, PaneShape
<1>2. /\ PaneCore(A) /\ A.vt = P.vt /\ A.lines = P.lines /\ A.total = P.total
      /\ A.ceiling = P.ceiling /\ A.snap = P.snap /\ A.search = P.search
      BY <1>1, Kept DEF Live, Changes, PaneFields
<1>3. A.helpWasLive = FALSE /\ A.prefix = P.prefix
      BY DEF Live, PaneCore, PaneShape, PaneFields
<1> HIDE DEF A
<1>4. /\ P.mode \in {"SEARCH", "HELP"} /\ P.active \in BOOLEAN
      /\ P.mode = "SEARCH" => P.active
      /\ P.helpWasLive = (P.mode = "HELP" /\ ~P.active)
      BY DEF Live, ModesKept, Modal
<1>5. CASE P.mode = "HELP" /\ P.helpWasLive
  <2> DEFINE B == Unfreeze(A)
             Q == SetMode(B, "LIVE")
  <2>1. PaneCore(B) /\ Changes(A, B, {"anchor", "ceiling", "snap"})
        BY <1>2, Unfreezes
  <2>2. B.vt = A.vt /\ B.lines = A.lines /\ B.total = A.total
        /\ B.helpWasLive = A.helpWasLive /\ B.prefix = A.prefix /\ B.search = A.search
        BY <2>1 DEF Changes, PaneFields
  <2> HIDE DEF B
  <2>3. InMode(B, Q, "LIVE")
        BY <2>1, ModeSet
  <2> HIDE DEF Q
  <2>3a. P.active = FALSE
        BY <1>4, <1>5
  <2>3b. Told(P) => Told(Q)
        BY <1>2, <2>2, <2>3, <2>3a DEF Told, InMode, Searching
  <2>4. Handled(P, Q, free)
        BY <1>2, <1>3, <2>2, <2>3, <2>3a, <2>3b DEF Handled, Answered, ModesKept, Modal, InMode
  <2> QED BY <1>5, <2>4 DEF CloseModal, A, B, Q
<1>6. CASE ~ (P.mode = "HELP" /\ P.helpWasLive)
  <2> DEFINE Q == SetMode(A, "NAV")
  <2>1. InMode(A, Q, "NAV")
        BY <1>2, ModeSet
  <2> HIDE DEF Q
  <2>2. P.active = TRUE
        BY <1>4, <1>6
  <2>2a. Told(P) => Told(Q)
    <3>1. /\ PaneCore(P) /\ PaneCore(Q) /\ Q.search = P.search /\ SameView(P, Q)
          /\ Q.active = P.active
          BY <1>2, <2>1, <2>2 DEF Live, InMode, SameView
    <3> QED BY <3>1, ToldSame
  <2>3. Handled(P, Q, free)
        BY <1>2, <1>3, <2>1, <2>2, <2>2a DEF Handled, Answered, ModesKept, Modal, InMode
  <2> QED BY <1>6, <2>3 DEF CloseModal, A, Q
<1> QED BY <1>5, <1>6

\* Two changes, of which the first keeps the way.
LEMMA ThenHandled ==
    ASSUME NEW P, NEW R, SameWay(P, R), R.ceiling = P.ceiling, R.snap = P.snap,
           Told(P) => Told(R), NEW free, NEW Q, Handled(R, Q, free)
    PROVE  Handled(P, Q, free)
BY DEF SameWay, Handled, Answered

\* What touches neither the log, the mode nor the search.
LEMMA ToldStays ==
    ASSUME NEW P, PaneCore(P), NEW Q, PaneCore(Q), NEW F, Changes(P, Q, F),
           F \subseteq {"vt", "anchor", "yank", "prefix"}
    PROVE  Told(P) => Told(Q)
<1>1. Q.search = P.search /\ Q.active = P.active /\ SameView(P, Q)
      BY DEF Changes, PaneFields, SameView
<1> QED BY <1>1, ToldSame

\* A key that scrolls.
LEMMA NavHandled ==
    ASSUME NEW P, Live(P), NEW free, NEW key \in Scrolling
    PROVE  Handled(P, NavStep(P, key), free)
<1>1. PaneCore(NavStep(P, key)) /\ Changes(P, NavStep(P, key), {"anchor"})
      BY Navigates DEF Live
<1>2. Sought(P, NavStep(P, key))
      BY <1>1 DEF Sought, Changes
<1>3. Told(P) => Told(NavStep(P, key))
      BY <1>1, ToldStays DEF Live
<1> QED BY <1>2, <1>3, SoughtHandled

\* A key that copies.
LEMMA YankHandled ==
    ASSUME NEW P, Live(P), NEW free
    PROVE  Handled(P, Yank(P), free)
<1> DEFINE Q == Yank(P)
<1>1. Changes(P, Q, {"mode", "active", "helpWasLive", "prefix", "yank"})
      BY DEF Yank, Live, Changes, PaneCore, PaneShape
<1>2. Changes(P, Q, {"yank"})
      BY DEF Yank, Live, Changes, PaneCore, PaneShape
<1> HIDE DEF Q
<1>3. PaneCore(Q)
      BY <1>1, Kept DEF Live
<1>4. SameWay(P, Q) /\ Q.ceiling = P.ceiling /\ Q.snap = P.snap
      BY <1>2 DEF Changes, PaneFields, SameWay
<1>4a. Told(P) => Told(Q)
      BY <1>2, <1>3, ToldStays DEF Live
<1>5. Handled(P, Q, free)
      BY <1>3, <1>4, <1>4a, StaysHandled
<1> QED BY <1>5 DEF Q

\* Every key in the NAV mode (tui_inspect_handle_nav).
LEMMA HandlesNav ==
    ASSUME NEW P, Live(P), P.mode = "NAV", NEW free \in BOOLEAN, NEW key
    PROVE  Handled(P, HandleNav(P, key, free), free)
<1> DEFINE k == Normalised(key)
<1>0. P.active = TRUE
      BY DEF Live, ModesKept
<1>1. Handled(P, SearchNext(P), free) /\ Handled(P, SearchPrev(P), free)
      BY <1>0, FindsNext, FindsPrev, NextTold, PrevTold, SoughtHandled DEF Live
<1>2. Handled(P, OpenSearch(P, free), free)
      BY Asks
<1>3. Handled(P, OpenHelp(P, free), free)
      BY Explains
<1>4. Handled(P, Yank(P), free) /\ Handled(P, P, free)
      BY YankHandled, NothingHandled
<1>5. Handled(P, LeaveInspect(P), free)
      BY Leaves
<1>6. k \in Scrolling => Handled(P, NavStep(P, k), free)
      BY NavHandled
<1> HIDE DEF k
<1>7. HandleNav(P, key, free) =
         CASE k \in Scrolling -> NavStep(P, k)
           [] k = "/" -> OpenSearch(P, free)
           [] k = "n" -> SearchNext(P)
           [] k = "N" -> SearchPrev(P)
           [] k = "?" -> OpenHelp(P, free)
           [] k = "y" -> Yank(P)
           [] k \in {"ESC", "q"} -> LeaveInspect(P)
           [] OTHER -> P
      BY DEF HandleNav, k
<1>8. CASE k \in Scrolling
  <2>1. HandleNav(P, key, free) = NavStep(P, k)
        BY <1>7, <1>8 DEF Scrolling
  <2> QED BY <1>6, <1>8, <2>1
<1>9. CASE k \in {"/", "n", "N", "?", "y", "ESC", "q"}
  <2>1. k \notin Scrolling
        BY <1>9 DEF Scrolling
  <2> QED BY <1>1, <1>2, <1>3, <1>4, <1>5, <1>7, <1>9, <2>1
<1>10. CASE k \notin Scrolling \cup {"/", "n", "N", "?", "y", "ESC", "q"}
      BY <1>4, <1>7, <1>10
<1> QED BY <1>8, <1>9, <1>10

\* Every key in the prompt of a search (tui_inspect_handle_search).
LEMMA HandlesSearch ==
    ASSUME NEW P, Live(P), P.mode = "SEARCH", NEW free, NEW key, NEW pat
    PROVE  Handled(P, HandleSearch(P, key, pat), free)
<1> DEFINE R == SearchSet(P, pat)
<1>1. Sought(P, R)
      BY Sets DEF Live, Sought
<1>1a. Told(P) => Told(R)
  <2>1. P.active = TRUE
        BY DEF Live, ModesKept, Modal
  <2> QED BY <2>1, SetTold DEF Live
<1> HIDE DEF R
<1>2. PaneCore(R) /\ SameWay(P, R) /\ R.ceiling = P.ceiling /\ R.snap = P.snap
      BY <1>1, SoughtSame
<1>3. Live(R) /\ R.mode \in Modal
      BY <1>2 DEF Live, SameWay, ModesKept, Modal
<1>4. Handled(P, CloseModal(R), free)
      BY <1>1a, <1>2, <1>3, Closes, ThenHandled
<1>5. Handled(P, CloseModal(P), free)
      BY Closes DEF Modal
<1>6. Handled(P, P, free)
      BY NothingHandled
<1>7. HandleSearch(P, key, pat) \in {CloseModal(R), CloseModal(P), P}
      BY DEF HandleSearch, R
<1> QED BY <1>4, <1>5, <1>6, <1>7

\* Every key in the help (tui_inspect_handle_help).
LEMMA HandlesHelp ==
    ASSUME NEW P, Live(P), P.mode = "HELP", NEW free, NEW key
    PROVE  Handled(P, HandleHelp(P, key), free)
<1>1. Handled(P, CloseModal(P), free) /\ Handled(P, P, free)
      BY Closes, NothingHandled DEF Modal
<1> QED BY <1>1 DEF HandleHelp

\* A key that scrolls a live pane enters inspect, if there is anything above.
LEMMA AutoEnters ==
    ASSUME NEW P, Live(P), P.mode = "LIVE", NEW free, NEW key
    PROVE  Handled(P, TryAutoEnter(P, key).pane, free)
<1> DEFINE R == EnterInspect(P)
           Q == NavStep(R, Normalised(key))
           X == Unfreeze(Q)
           Y == SetMode(X, "LIVE")
<1>1. CASE key \notin {"PGUP", "PGDN", "WHEEL_UP", "WHEEL_DOWN"}
  <2>1. TryAutoEnter(P, key).pane = P
        BY <1>1 DEF TryAutoEnter, Unused
  <2> QED BY <2>1, NothingHandled
<1>2. CASE key \in {"PGUP", "PGDN", "WHEEL_UP", "WHEEL_DOWN"}
  <2>1. Normalised(key) \in Scrolling
        BY <1>2 DEF Normalised, Scrolling
  <2>2. TryAutoEnter(P, key).pane = IF Q.anchor < 0 THEN Y ELSE Q
        BY <1>2 DEF TryAutoEnter, Used
  <2>3. Handled(P, R, free)
        BY Enters
  <2>4. Live(R)
        BY <2>3 DEF Live, Handled, Answered
  <2> HIDE DEF R
  <2>5. PaneCore(Q) /\ Changes(R, Q, {"anchor"})
        BY <2>1, <2>4, Navigates DEF Live
  <2> HIDE DEF Q
  <2>6. SameWay(R, Q) /\ Q.ceiling = R.ceiling /\ Q.snap = R.snap
        BY <2>5 DEF Changes, PaneFields, SameWay
  <2>7. Handled(P, Q, free)
    <3>1. ModesKept(Q)
          BY <2>4, <2>6 DEF Live, SameWay, ModesKept
    <3>2. Told(R) => Told(Q)
          BY <2>4, <2>5, ToldStays DEF Live
    <3> QED BY <2>3, <2>5, <2>6, <3>1, <3>2 DEF Handled, Answered, SameWay
  <2>8. PaneCore(X) /\ Changes(Q, X, {"anchor", "ceiling", "snap"})
        BY <2>5, Unfreezes
  <2> HIDE DEF X
  <2>9. InMode(X, Y, "LIVE")
        BY <2>8, ModeSet
  <2> HIDE DEF Y
  <2>10. /\ X.vt = Q.vt /\ X.lines = Q.lines /\ X.total = Q.total
         /\ X.helpWasLive = Q.helpWasLive /\ X.prefix = Q.prefix /\ X.search = Q.search
        BY <2>8 DEF Changes, PaneFields
  <2>11. Q.helpWasLive = FALSE
    <3>1. P.helpWasLive = FALSE
          BY DEF Live, ModesKept
    <3>2. R.helpWasLive = P.helpWasLive
      <4>1. R = SetMode(Freeze(P), "NAV")
            BY DEF R, EnterInspect
      <4>2. Changes(P, Freeze(P), {"anchor", "ceiling", "snap"}) /\ PaneCore(Freeze(P))
            BY Freezes DEF Live
      <4>3. Freeze(P).helpWasLive = P.helpWasLive
            BY <4>2 DEF Changes, PaneFields
      <4>4. InMode(Freeze(P), R, "NAV")
            BY <4>1, <4>2, ModeSet
      <4> QED BY <4>3, <4>4 DEF InMode
    <3> QED BY <2>6, <3>1, <3>2 DEF SameWay
  <2>11a. Told(P) => Told(Y)
    <3>1. P.active = FALSE
          BY DEF Live, ModesKept
    <3>2. R.search = P.search
      <4>1. R = SetMode(Freeze(P), "NAV")
            BY DEF R, EnterInspect
      <4>2. Changes(P, Freeze(P), {"anchor", "ceiling", "snap"}) /\ PaneCore(Freeze(P))
            BY Freezes DEF Live
      <4>3. Freeze(P).search = P.search
            BY <4>2 DEF Changes, PaneFields
      <4>4. InMode(Freeze(P), R, "NAV")
            BY <4>1, <4>2, ModeSet
      <4> QED BY <4>3, <4>4 DEF InMode
    <3>3. Q.search = R.search
          BY <2>5 DEF Changes, PaneFields
    <3> QED BY <2>9, <2>10, <3>1, <3>2, <3>3 DEF Told, InMode, Searching
  <2>12. Handled(P, Y, free)
        BY <2>7, <2>9, <2>10, <2>11, <2>11a DEF Handled, Answered, InMode, ModesKept, Modal
  <2> QED BY <2>2, <2>7, <2>12
<1> QED BY <1>1, <1>2

\* Every key after the prefix (tui_inspect_handle_prefix).
LEMMA HandlesPrefix ==
    ASSUME NEW P0, Live(P0), NEW free \in BOOLEAN, NEW key
    PROVE  LET Q == HandlePrefix(P0, key, free)
           IN Answered(P0, Q, free) /\ Q.prefix = FALSE
<1> DEFINE P == [P0 EXCEPT !.prefix = FALSE]
           Q == HandlePrefix(P0, key, free)
<1>1. Changes(P0, P, {"mode", "active", "helpWasLive", "prefix", "yank"})
      BY DEF Live, Changes, PaneCore, PaneShape
<1>2. Changes(P0, P, {"prefix"})
      BY DEF Live, Changes, PaneCore, PaneShape
<1>3. P.prefix = FALSE
      BY DEF Live, PaneCore, PaneShape, PaneFields
<1>4. Q = CASE P.mode \in {"SEARCH", "HELP"} -> P
            [] P.mode \in {"LIVE", "NAV"} /\ key = "i" ->
                IF P.mode = "LIVE" THEN EnterInspect(P) ELSE P
            [] P.mode \in {"LIVE", "NAV"} /\ key = "y" -> Yank(P)
            [] P.mode \in {"LIVE", "NAV"} /\ key \in {"ESC", "q"} ->
                IF P.active THEN LeaveInspect(P) ELSE P
            [] P.mode \in {"LIVE", "NAV"} /\ key \in {"?", "h"} -> OpenHelp(P, free)
            [] OTHER -> P
      BY DEF HandlePrefix
<1> HIDE DEF P, Q
<1>5. PaneCore(P)
      BY <1>1, Kept DEF Live
<1>6. /\ P.vt = P0.vt /\ P.lines = P0.lines /\ P.total = P0.total
      /\ P.mode = P0.mode /\ P.active = P0.active /\ P.helpWasLive = P0.helpWasLive
      /\ P.ceiling = P0.ceiling /\ P.snap = P0.snap
      BY <1>2 DEF Changes, PaneFields
<1>7. Live(P)
      BY <1>5, <1>6 DEF Live, ModesKept
<1>7a. Told(P0) => Told(P)
      BY <1>2, <1>5, ToldStays DEF Live
<1>8. Handled(P, P, free) /\ Handled(P, Yank(P), free)
      BY <1>7, NothingHandled, YankHandled
<1>9. P.mode = "LIVE" => Handled(P, EnterInspect(P), free)
      BY <1>7, Enters
<1>10. P.mode \in {"LIVE", "NAV"} => Handled(P, OpenHelp(P, free), free)
      BY <1>7, Explains
<1>11. P.mode \in {"LIVE", "NAV"} => Handled(P, LeaveInspect(P), free)
      BY <1>7, Leaves
<1>12. P.mode \in {"LIVE", "NAV", "SEARCH", "HELP"}
      BY <1>7 DEF Live, ModesKept, Modal
<1>13. CASE P.mode \in {"SEARCH", "HELP"}
  <2>1. Q = P
        BY <1>4, <1>13
  <2> QED BY <1>3, <1>6, <1>7a, <1>8, <2>1 DEF Handled, Answered, Q
<1>14. CASE P.mode \in {"LIVE", "NAV"}
  <2>1. Q = CASE key = "i" -> IF P.mode = "LIVE" THEN EnterInspect(P) ELSE P
              [] key = "y" -> Yank(P)
              [] key \in {"ESC", "q"} -> IF P.active THEN LeaveInspect(P) ELSE P
              [] key \in {"?", "h"} -> OpenHelp(P, free)
              [] OTHER -> P
        BY <1>4, <1>14
  <2>2. Handled(P, Q, free)
        BY <1>8, <1>9, <1>10, <1>11, <1>14, <2>1
  <2> QED BY <1>3, <1>6, <1>7a, <2>2 DEF Handled, Answered, Q
<1> QED BY <1>12, <1>13, <1>14

\* Every key keeps a pane in order, whatever its mode (tui_log_on_event).
LEMMA EventAnswered ==
    ASSUME NEW P, Live(P), P.prefix \in BOOLEAN, NEW free \in BOOLEAN, NEW key, NEW pat
    PROVE  LET Q == OnEvent(P, key, pat, free).pane
           IN Answered(P, Q, free) /\ Q.prefix = (~P.prefix /\ key = "^T")
<1> DEFINE Q == OnEvent(P, key, pat, free).pane
<1>1. CASE P.prefix
  <2>1. Q = HandlePrefix(P, key, free)
        BY <1>1 DEF OnEvent, Used
  <2> HIDE DEF Q
  <2>2. Answered(P, Q, free) /\ Q.prefix = FALSE
        BY <2>1, HandlesPrefix
  <2> QED BY <1>1, <2>2 DEF Q
<1>2. CASE ~P.prefix /\ key = "^T"
  <2> DEFINE R == [P EXCEPT !.prefix = TRUE]
  <2>1. Q = R
        BY <1>2 DEF OnEvent, Used
  <2>2. Changes(P, R, {"mode", "active", "helpWasLive", "prefix", "yank"})
        BY DEF Live, Changes, PaneCore, PaneShape
  <2>3. Changes(P, R, {"prefix"})
        BY DEF Live, Changes, PaneCore, PaneShape
  <2>4. R.prefix = TRUE
        BY DEF Live, PaneCore, PaneShape, PaneFields
  <2> HIDE DEF Q, R
  <2>5. PaneCore(R)
        BY <2>2, Kept DEF Live
  <2>6. /\ R.vt = P.vt /\ R.lines = P.lines /\ R.total = P.total
        /\ R.mode = P.mode /\ R.active = P.active /\ R.helpWasLive = P.helpWasLive
        /\ R.ceiling = P.ceiling /\ R.snap = P.snap
        BY <2>3 DEF Changes, PaneFields
  <2>7. ModesKept(R)
        BY <2>6 DEF Live, ModesKept
  <2>7a. Told(P) => Told(R)
        BY <2>3, <2>5, ToldStays DEF Live
  <2>8. Answered(P, R, free)
        BY <2>5, <2>6, <2>7, <2>7a DEF Answered
  <2> QED BY <1>2, <2>1, <2>4, <2>8 DEF Q
<1>3. CASE ~P.prefix /\ key # "^T"
  <2>1. P.mode \in {"LIVE", "NAV", "SEARCH", "HELP"}
        BY DEF Live, ModesKept, Modal
  <2>2. Q = (CASE P.mode = "LIVE" -> TryAutoEnter(P, key)
               [] P.mode = "NAV" -> Used(HandleNav(P, key, free))
               [] P.mode = "SEARCH" -> Used(HandleSearch(P, key, pat))
               [] P.mode = "HELP" -> Used(HandleHelp(P, key))).pane
        BY <1>3 DEF OnEvent
  <2> HIDE DEF Q
  <2>3. Handled(P, Q, free)
    <3>1. CASE P.mode = "LIVE"
      <4>1. Q = TryAutoEnter(P, key).pane
            BY <2>2, <3>1
      <4> QED BY <3>1, <4>1, AutoEnters
    <3>2. CASE P.mode = "NAV"
      <4>1. Q = HandleNav(P, key, free)
            BY <2>2, <3>2 DEF Used
      <4> QED BY <3>2, <4>1, HandlesNav
    <3>3. CASE P.mode = "SEARCH"
      <4>1. Q = HandleSearch(P, key, pat)
            BY <2>2, <3>3 DEF Used
      <4> QED BY <3>3, <4>1, HandlesSearch
    <3>4. CASE P.mode = "HELP"
      <4>1. Q = HandleHelp(P, key)
            BY <2>2, <3>4 DEF Used
      <4> QED BY <3>4, <4>1, HandlesHelp
    <3> QED BY <2>1, <3>1, <3>2, <3>3, <3>4
  <2> QED BY <1>3, <2>3 DEF Handled, Q
<1> QED BY <1>1, <1>2, <1>3

-----------------------------------------------------------------------------
(* The log: pushing and evicting lines *)

\* The oldest line goes, with its matches (log_push_line).
LEMMA Evicts ==
    ASSUME NEW P, PaneCore(P)
    PROVE  /\ PaneCore(Evict(P)) /\ Changes(P, Evict(P), {"search"})
           /\ Searching(Evict(P)) <=> Searching(P)
<1> DEFINE gone == CountMatches(Head(P.lines), P.search.pat)
           s == P.search
           t1 == [s EXCEPT !.total = @ - gone, !.line = -1, !.index = 0]
           t2 == [s EXCEPT !.total = @ - gone, !.index = AtLeast(@ - gone, 0)]
<1> HIDE DEF gone
<1>1. SearchShape(s) /\ s.line \in Int /\ AnchorFits(P, P.anchor)
      BY Seen
<1>2. Evict(P) = IF ~Searching(P) THEN P
                 ELSE IF s.line >= 0 /\ s.line = Oldest(P)
                 THEN [P EXCEPT !.search = t1]
                 ELSE [P EXCEPT !.search = t2]
      BY DEF Evict, gone
<1>3. SearchShape(t1) /\ SearchShape(t2) /\ t1.pat = s.pat /\ t2.pat = s.pat
      BY <1>1 DEF SearchShape, SearchFields
<1>4. t1.line \in Int /\ t2.line \in Int
      BY <1>1 DEF SearchShape, SearchFields
<1> HIDE DEF t1, t2
<1>5. ASSUME NEW t, SearchShape(t), t.line \in Int, t.pat = s.pat
      PROVE  /\ PaneCore([P EXCEPT !.search = t]) /\ Changes(P, [P EXCEPT !.search = t], {"search"})
             /\ Searching([P EXCEPT !.search = t]) <=> Searching(P)
  <2>1. [P EXCEPT !.search = t] = Aim(P, t, P.anchor)
        BY DEF Aim, PaneCore, PaneShape, PaneFields
  <2>2. PaneCore(Aim(P, t, P.anchor))
        BY <1>1, <1>5, Aims
  <2>3. Changes(P, [P EXCEPT !.search = t], {"search"})
        BY DEF Changes, PaneCore, PaneShape
  <2>4. [P EXCEPT !.search = t].search = t
        BY DEF PaneCore, PaneShape, PaneFields
  <2>5. Searching([P EXCEPT !.search = t]) <=> Searching(P)
        BY <1>5, <2>4 DEF Searching
  <2> QED BY <2>1, <2>2, <2>3, <2>5
<1>6. PaneCore(P) /\ Changes(P, P, {"search"})
      BY NoChange
<1> QED BY <1>2, <1>3, <1>4, <1>5, <1>6

\* A carriage return at the end is cut off.
LEMMA LineCut ==
    ASSUME NEW bytes \in Line
    PROVE  LET n == Len(bytes)
           IN (IF n > 0 /\ bytes[n] = 13 THEN SubSeq(bytes, 1, n - 1) ELSE bytes) \in Line
BY DEF Line

\* A line is pushed, and the oldest evicted (log_push_line).
LEMMA Pushes ==
    ASSUME NEW P0, PaneCore(P0), ~Frozen(P0), NEW bytes \in Line
    PROVE  LET Q == PushLine(P0, bytes)
           IN /\ PaneCore(Q) /\ ~Frozen(Q) /\ Changes(P0, Q, {"lines", "total", "search"})
              /\ Searching(Q) <=> Searching(P0)
<1> DEFINE n == Len(bytes)
           line == IF n > 0 /\ bytes[n] = 13 THEN SubSeq(bytes, 1, n - 1) ELSE bytes
           full == Len(P0.lines) = Capacity
           P == IF full THEN Evict(P0) ELSE P0
           counts == Searching(P) /\ (~Frozen(P) \/ P.total < P.ceiling)
           ls == Append(IF full THEN Tail(P.lines) ELSE P.lines, line)
           t == [P.search EXCEPT !.total = IF counts THEN @ + CountMatches(line, P.search.pat) ELSE @]
           Q == PushLine(P0, bytes)
<1>1. line \in Line
      BY LineCut
<1>2. PaneCore(P) /\ Changes(P0, P, {"search"}) /\ (Searching(P) <=> Searching(P0))
      BY Evicts, NoChange
<1>3. P.ceiling = P0.ceiling /\ P.lines = P0.lines /\ P.total = P0.total
      BY <1>2 DEF Changes, PaneFields
<1>4. Q = [P EXCEPT !.lines = Append(IF full THEN Tail(@) ELSE @, line), !.total = @ + 1,
                    !.search.total = IF counts THEN @ + CountMatches(line, P.search.pat) ELSE @]
      BY DEF PushLine
<1> HIDE DEF P, counts, line, Q
<1>5. Q = [P EXCEPT !.lines = ls, !.total = P.total + 1, !.search = t]
      BY <1>2, <1>4 DEF PaneCore, PaneShape, PaneFields
<1>6. SearchShape(P.search) /\ P.search.line \in Int
      BY <1>2, Seen
<1>7. SearchShape(t) /\ t.line \in Int /\ t.pat = P.search.pat
  <2>1. SearchShape(t)
        BY <1>6 DEF SearchShape
  <2>2. t.line = P.search.line /\ t.pat = P.search.pat
        BY <1>6 DEF SearchShape, SearchFields
  <2> QED BY <1>6, <2>1, <2>2
<1>8. /\ ls \in Seq(Line) /\ Len(ls) <= Capacity /\ Len(ls) <= P.total + 1
      /\ P.total \in Nat
  <2> DEFINE old == P.lines
             c == P.total
  <2>1. /\ old \in Seq(Line) /\ Len(old) <= Capacity /\ c \in Nat /\ Len(old) <= c
        /\ Capacity \in Nat \ {0} /\ (full <=> Len(old) = Capacity)
        BY <1>2, <1>3, PaneLimits DEF PaneCore, LogKept
  <2>2. ls = Append(IF full THEN Tail(old) ELSE old, line)
        OBVIOUS
  <2> HIDE DEF old, c, full, ls
  <2>3. CASE full
    <3>1. old # <<>> /\ Len(old) \in Nat \ {0}
          BY <2>1, <2>3
    <3>2. Tail(old) \in Seq(Line) /\ Len(Tail(old)) = Len(old) - 1
          BY <2>1, <3>1
    <3>3. ls = Append(Tail(old), line)
          BY <2>2, <2>3
    <3>4. ls \in Seq(Line) /\ Len(ls) = Len(old)
          BY <1>1, <3>1, <3>2, <3>3
    <3> QED BY <2>1, <3>1, <3>4 DEF c
  <2>4. CASE ~full
    <3>1. ls = Append(old, line)
          BY <2>2, <2>4
    <3>2. ls \in Seq(Line) /\ Len(ls) = Len(old) + 1 /\ Len(old) \in Nat
          BY <1>1, <2>1, <3>1
    <3> QED BY <2>1, <2>4, <3>2 DEF c
  <2> QED BY <2>3, <2>4
<1> HIDE DEF ls, t
<1>9. Changes(P, Q, {"lines", "total", "search"})
      BY <1>2, <1>5 DEF Changes, PaneCore, PaneShape
<1>10. /\ PaneShape(Q) /\ Q.vt = P.vt /\ Q.anchor = P.anchor /\ Q.ceiling = P.ceiling
       /\ Q.snap = P.snap
      BY <1>9 DEF Changes, PaneFields
<1>11. Q.lines = ls /\ Q.total = P.total + 1 /\ Q.search = t
      BY <1>2, <1>5 DEF PaneCore, PaneShape, PaneFields
<1>12. ~Frozen(Q)
      BY <1>3, <1>10 DEF Frozen
<1>13. LogKept(Q)
      BY <1>8, <1>11 DEF LogKept
<1>14. ViewKept(Q)
  <2>1. P.ceiling = -1
        BY <1>2, <1>3, <1>8 DEF Frozen, PaneCore, ViewKept
  <2> QED BY <1>2, <1>10, <1>12, <2>1 DEF PaneCore, ViewKept
<1>15. SearchKept(Q)
      BY <1>7, <1>11 DEF SearchKept, SearchShape
<1>16. PaneCore(Q)
      BY <1>2, <1>10, <1>13, <1>14, <1>15 DEF PaneCore
<1>17. Changes(P0, Q, {"lines", "total", "search"})
      BY <1>2, <1>9 DEF Changes
<1>18. Searching(Q) <=> Searching(P0)
      BY <1>2, <1>7, <1>11 DEF Searching
<1> QED BY <1>12, <1>16, <1>17, <1>18 DEF Q

\* A pane whose terminal alone is new.
LEMMA Reset ==
    ASSUME NEW P, PaneCore(P), NEW v, TermInv(v)
    PROVE  LET Q == [P EXCEPT !.vt = v]
           IN PaneCore(Q) /\ Changes(P, Q, {"vt"}) /\ Q.vt = v
<1> DEFINE Q == [P EXCEPT !.vt = v]
<1>1. Changes(P, Q, {"vt"})
      BY DEF Changes, PaneCore, PaneShape
<1>2. Q.vt = v
      BY DEF PaneCore, PaneShape, PaneFields
<1> HIDE DEF Q
<1>3. /\ PaneShape(Q) /\ Q.lines = P.lines /\ Q.total = P.total
      /\ Q.anchor = P.anchor /\ Q.ceiling = P.ceiling /\ Q.snap = P.snap /\ Q.search = P.search
      BY <1>1 DEF Changes, PaneFields
<1>4. PaneCore(Q)
      BY <1>2, <1>3 DEF PaneCore, LogKept, ViewKept, SearchKept, Frozen
<1> QED BY <1>1, <1>2, <1>4 DEF Q

\* Rows scrolled off become lines of the log (tui_log_pull_from_vt100).
LEMMA Pulls ==
    ASSUME NEW P, PaneCore(P), ~Frozen(P)
    PROVE  LET Q == PullFromVt100(P)
           IN /\ PaneCore(Q) /\ Q.vt = DrainScrolled(P.vt)
              /\ Changes(P, Q, {"vt", "lines", "total", "search"})
              /\ Searching(Q) <=> Searching(P)
<1> DEFINE rows == P.vt.scrolled
           n == Len(rows)
           Pushed[i \in 0..n] ==
              IF i = 0 THEN P ELSE PushLine(Pushed[i - 1], SerializeRow(rows[i]))
           F(f) == [i \in 0..n |-> IF i = 0 THEN P ELSE PushLine(f[i-1], SerializeRow(rows[i]))]
           Q == PullFromVt100(P)
<1>1. Q = [Pushed[n] EXCEPT !.vt = DrainScrolled(@)]
      BY DEF PullFromVt100
<1>2. Pushed = CHOOSE f : f = F(f)
      OBVIOUS
<1>3. n \in Nat /\ \A i \in 1..n : SerializeRow(rows[i]) \in Line
  <2>1. rows \in Seq(Rows)
        BY DEF PaneCore, TermInv, Screen
  <2> HIDE DEF rows
  <2>2. ASSUME NEW i \in 1..n PROVE SerializeRow(rows[i]) \in Line
    <3>1. rows[i] \in Rows
          BY <2>1
    <3>2. PICK m \in Nat : rows[i] \in Row(m)
          BY <3>1 DEF Rows
    <3> QED BY <3>2, RowDrawn DEF Line
  <2> QED BY <2>1, <2>2
<1> HIDE DEF Pushed, Q, n
<1> DEFINE Right(h, k) == h = [i \in 0..k |-> IF i = 0 THEN P
                                             ELSE PushLine(h[i-1], SerializeRow(rows[i]))]
           T == {k \in 0..n : \E h : Right(h, k)}
<1>4. 0 \in T
  <2> DEFINE f == [i \in 0..0 |-> P]
  <2>1. f = [i \in 0..0 |-> IF i = 0 THEN P ELSE PushLine(f[i-1], SerializeRow(rows[i]))]
        OBVIOUS
  <2>2. Right(f, 0) /\ 0 \in 0..n
        BY <1>3, <2>1
  <2> QED BY <2>2
<1>5. ASSUME NEW k \in 1..n, k - 1 \in T PROVE k \in T
  <2>1. PICK h : Right(h, k - 1)
        BY <1>5
  <2> DEFINE b == PushLine(h[k-1], SerializeRow(rows[k]))
             f == [i \in 0..k |-> IF i = k THEN b ELSE h[i]]
  <2>2. k \in Nat /\ k # 0 /\ k \in 0..n
        BY <1>3
  <2>3. f[k] = b /\ \A i \in 0..k-1 : f[i] = h[i]
        BY <2>2
  <2>4. h[0] = P /\ \A i \in 1..k-1 : h[i] = PushLine(h[i-1], SerializeRow(rows[i]))
        BY <2>1, <2>2
  <2>5. f[0] = P
        BY <2>2, <2>3, <2>4
  <2>6. ASSUME NEW i \in 1..k PROVE f[i] = PushLine(f[i-1], SerializeRow(rows[i]))
    <3>1. i - 1 \in 0..k-1
          BY <2>2
    <3>2. CASE i = k
          BY <2>3, <3>1, <3>2
    <3>3. CASE i # k
      <4>1. i \in 1..k-1 /\ i \in 0..k-1
            BY <2>2, <3>3
      <4> QED BY <2>3, <2>4, <3>1, <4>1
    <3> QED BY <3>2, <3>3
  <2>7. \A i \in 0..k : i = 0 \/ i \in 1..k
        BY <2>2
  <2>8. f = [i \in 0..k |-> f[i]]
        OBVIOUS
  <2> HIDE DEF f, b
  <2>9. f = [i \in 0..k |-> IF i = 0 THEN P ELSE PushLine(f[i-1], SerializeRow(rows[i]))]
        BY <2>5, <2>6, <2>7, <2>8
  <2>10. Right(f, k)
        BY <2>9
  <2> QED BY <2>2, <2>10
<1> HIDE DEF T
<1>6. \A k \in 0..n : k \in T
      BY <1>3, <1>4, <1>5, UpTo
<1>7. PICK h : Right(h, n)
  <2>1. n \in T
        BY <1>3, <1>6
  <2> QED BY <2>1 DEF T
<1>8. h = F(h)
      BY <1>7
<1> HIDE DEF F, Right
<1>9. Pushed = F(Pushed)
      BY <1>2, <1>8
<1>10. /\ Pushed[0] = P
       /\ \A i \in 1..n : Pushed[i] = PushLine(Pushed[i-1], SerializeRow(rows[i]))
      BY <1>3, <1>9 DEF F
<1> DEFINE OK(R) == /\ PaneCore(R) /\ ~Frozen(R) /\ Changes(P, R, {"lines", "total", "search"})
                    /\ Searching(R) <=> Searching(P)
           U == {i \in 0..n : OK(Pushed[i])}
<1>11. 0 \in U
  <2>1. OK(P)
        BY NoChange
  <2> QED BY <1>3, <1>10, <2>1
<1>12. ASSUME NEW i \in 1..n, i - 1 \in U PROVE i \in U
  <2> DEFINE R == Pushed[i-1]
             X == Pushed[i]
  <2>1. OK(R)
        BY <1>12
  <2>2. X = PushLine(R, SerializeRow(rows[i])) /\ SerializeRow(rows[i]) \in Line
        BY <1>3, <1>10
  <2> HIDE DEF R, X
  <2>3. /\ PaneCore(X) /\ ~Frozen(X) /\ Changes(R, X, {"lines", "total", "search"})
        /\ Searching(X) <=> Searching(R)
        BY <2>1, <2>2, Pushes
  <2>4. OK(X)
        BY <2>1, <2>3 DEF Changes
  <2> QED BY <1>3, <2>4 DEF X
<1> HIDE DEF U, OK
<1>13. \A i \in 0..n : i \in U
      BY <1>3, <1>11, <1>12, UpTo
<1> DEFINE R == Pushed[n]
<1>14. OK(R)
  <2>1. n \in U
        BY <1>3, <1>13
  <2> QED BY <2>1 DEF U
<1> HIDE DEF R
<1>15. PaneCore(R) /\ Changes(P, R, {"lines", "total", "search"}) /\ (Searching(R) <=> Searching(P))
      BY <1>14 DEF OK
<1>16. R.vt = P.vt
      BY <1>15 DEF Changes, PaneFields
<1>17. TermInv(DrainScrolled(P.vt))
      BY Drained DEF PaneCore
<1>18. Q = [R EXCEPT !.vt = DrainScrolled(P.vt)]
      BY <1>1, <1>16 DEF R
<1>19. PaneCore(Q) /\ Changes(R, Q, {"vt"}) /\ Q.vt = DrainScrolled(P.vt)
      BY <1>15, <1>17, <1>18, Reset
<1>20. Changes(P, Q, {"vt", "lines", "total", "search"})
      BY <1>15, <1>19 DEF Changes
<1>21. Searching(Q) <=> Searching(P)
      BY <1>15, <1>19 DEF Changes, PaneFields, Searching
<1> QED BY <1>19, <1>20, <1>21 DEF Q

-----------------------------------------------------------------------------
(* A read *)

\* Nothing else decides what a frozen pane shows.
LEMMA VisibleSame ==
    ASSUME NEW P, NEW Q, Frozen(P), SameView(P, Q)
    PROVE  Frozen(Q) /\ Visible(Q) = Visible(P)
BY LinesSame DEF Visible

\* The pane a read leaves.
AfterRead(P0, chunk, drops) ==
    LET P == [P0 EXCEPT !.vt = DrainReply(Input(@, chunk))]
    IN CASE drops -> [P EXCEPT !.vt = DrainScrolled(@)]
         [] Frozen(P) /\ ~drops -> P
         [] ~Frozen(P) -> PullFromVt100(P)

\* A read keeps a pane in order, and a frozen one as it is seen.
LEMMA Received ==
    ASSUME NEW P0, Live(P0), NEW chunk \in Seq(Nat), NEW drops \in BOOLEAN,
           drops => Frozen(P0)
    PROVE  LET Q == AfterRead(P0, chunk, drops)
           IN /\ Live(Q) /\ Q.mode = P0.mode /\ Q.active = P0.active /\ Q.prefix = P0.prefix
              /\ (Frozen(P0) => SameView(P0, Q)) /\ (Told(P0) => Told(Q))
              /\ (P0.vt.state = "GROUND" /\ chunk \in Seq(FlowingByte) => Ran(P0.vt, Q.vt))
<1> DEFINE V == P0.vt
           A == Input(V, chunk)
           B == DrainReply(A)
           C == DrainScrolled(B)
           P == [P0 EXCEPT !.vt = B]
           Q == AfterRead(P0, chunk, drops)
<1>1. Q = CASE drops -> [P EXCEPT !.vt = DrainScrolled(@)]
            [] Frozen(P) /\ ~drops -> P
            [] ~Frozen(P) -> PullFromVt100(P)
      BY DEF AfterRead
<1>2. TermInv(V) /\ PaneCore(P0)
      BY DEF Live, PaneCore
<1>3. TermInv(A) /\ (V.state = "GROUND" /\ chunk \in Seq(FlowingByte) => Ran(V, A))
      BY <1>2, InputKeeps, InputRan
<1> HIDE DEF V, A
<1>4. TermInv(B) /\ Ran(A, B)
      BY <1>3, Drained
<1> HIDE DEF B
<1>5. TermInv(C) /\ Ran(B, C)
      BY <1>4, Drained
<1>6. PaneCore(P) /\ Changes(P0, P, {"vt"}) /\ P.vt = B
      BY <1>2, <1>4, Reset
<1> HIDE DEF P, Q
<1>7. (Frozen(P) <=> Frozen(P0)) /\ SameView(P0, P) /\ P.search = P0.search
      BY <1>6 DEF Changes, PaneFields, Frozen, SameView
<1>8. V.state = "GROUND" /\ chunk \in Seq(FlowingByte) => Ran(V, B) /\ Ran(V, C)
      BY <1>3, <1>4, <1>5, RanOn
<1>9. /\ PaneCore(Q) /\ Changes(P, Q, {"vt", "lines", "total", "search"})
      /\ (Frozen(P0) => SameView(P0, Q)) /\ Q.vt \in {B, C}
      /\ (Frozen(P0) => Q.search = P0.search) /\ (Searching(Q) <=> Searching(P0))
  <2>1. CASE drops
    <3>0. Frozen(P)
          BY <1>7, <2>1
    <3>1a. Q = [P EXCEPT !.vt = DrainScrolled(@)]
          BY <1>1, <2>1, <3>0
    <3>1. Q = [P EXCEPT !.vt = C]
          BY <1>6, <3>1a
    <3>2. PaneCore(Q) /\ Changes(P, Q, {"vt"}) /\ Q.vt = C
          BY <1>5, <1>6, <3>1, Reset
    <3>3. SameView(P, Q)
          BY <3>2 DEF Changes, PaneFields, SameView
    <3>4. SameView(P0, Q)
          BY <1>7, <3>3 DEF SameView
    <3>5. Q.search = P0.search
          BY <1>7, <3>2 DEF Changes, PaneFields
    <3> QED BY <3>2, <3>4, <3>5 DEF Changes, Searching
  <2>2. CASE Frozen(P) /\ ~drops
    <3>1. Q = P
          BY <1>1, <2>2
    <3> QED BY <1>6, <1>7, <3>1, NoChange DEF Searching
  <2>3. CASE ~Frozen(P)
    <3>1. ~drops
          BY <1>7, <2>3
    <3>2. Q = PullFromVt100(P)
          BY <1>1, <2>3, <3>1
    <3>3. /\ PaneCore(Q) /\ Q.vt = C /\ Changes(P, Q, {"vt", "lines", "total", "search"})
          /\ Searching(Q) <=> Searching(P)
          BY <1>6, <2>3, <3>2, Pulls
    <3> QED BY <1>7, <2>3, <3>3 DEF Searching
  <2> QED BY <2>1, <2>2, <2>3
<1>10. /\ Q.mode = P0.mode /\ Q.active = P0.active /\ Q.prefix = P0.prefix
       /\ Q.helpWasLive = P0.helpWasLive
       BY <1>6, <1>9 DEF Changes, PaneFields
<1>11. Live(Q)
       BY <1>9, <1>10 DEF Live, ModesKept
<1>12. V.state = "GROUND" /\ chunk \in Seq(FlowingByte) => Ran(V, Q.vt)
       BY <1>8, <1>9
<1>13. Told(P0) => Told(Q)
  <2>1. CASE P0.active
    <3>1. Told(P0) => Frozen(P0)
          BY <2>1 DEF Told
    <3> QED BY <1>2, <1>9, <1>10, <3>1, ToldSame
  <2>2. CASE ~P0.active
        BY <1>9, <1>10, <2>2 DEF Told
  <2> QED BY <2>1, <2>2
<1> QED BY <1>9, <1>10, <1>11, <1>12, <1>13 DEF Q, V

-----------------------------------------------------------------------------
(* The inductive invariant *)

Watched == front \in {"qemu", "debug"}
StaysSeen(P, Q) == P.active /\ Q.active => SameView(P, Q)

PanesInv ==
    /\ pane = [p \in Panes |-> pane[p]]
    /\ \A p \in Panes : Live(pane[p]) /\ pane[p].prefix = FALSE
SlotInv == \A p \in Panes : (pane[p].mode \in Modal) <=> (owner = p)
HostInv ==
    /\ front \in Fronts /\ focus \in Shown
    /\ (help => ~prefix) /\ (frozenForHelp # {} => help)
InspectInv ==
    Watched => \A p \in Panes :
        Told(pane[p]) /\ (p \in frozenForHelp => ~pane[p].active)
ConsoleInv == PanesInv /\ SlotInv /\ HostInv /\ InspectInv

\* What a step may do to the panes.
PaneStep(P, Q) == Live(Q) /\ Q.prefix = FALSE
WatchedStep(P, Q) ==
    Told(P) => Told(Q) /\ StaysSeen(P, Q)
StillStep == Watched => \A p \in Panes : StaysSeen(pane[p], pane'[p])

\* A pane that is left alone shows the same.
LEMMA SameStays ==
    ASSUME NEW P
    PROVE  StaysSeen(P, P)
BY DEF StaysSeen, SameView

\* A step that leaves the panes and the modal slot alone.
LEMMA PanesAlone ==
    ASSUME ConsoleInv, pane' = pane, owner' = owner, front' = front, HostInv',
           frozenForHelp' = frozenForHelp
    PROVE  ConsoleInv' /\ StillStep
<1>1. PanesInv'
      BY DEF ConsoleInv, PanesInv
<1>2. SlotInv'
      BY DEF ConsoleInv, SlotInv
<1>3. InspectInv'
      BY DEF ConsoleInv, InspectInv, Watched
<1>4. StillStep
      BY SameStays DEF StillStep
<1> QED BY <1>1, <1>2, <1>3, <1>4 DEF ConsoleInv

\* A step that changes panes, and shows no other modal.
LEMMA PanesGo ==
    ASSUME ConsoleInv, owner' = owner, front' = front, HostInv',
           pane' = [p \in Panes |-> pane'[p]],
           \A p \in Panes : PaneStep(pane[p], pane'[p]) /\ pane'[p].mode = pane[p].mode,
           Watched => \A p \in Panes : WatchedStep(pane[p], pane'[p]),
           Watched => \A p \in Panes : p \in frozenForHelp' => ~pane'[p].active
    PROVE  ConsoleInv' /\ StillStep
<1>1. PanesInv'
      BY DEF PanesInv, PaneStep
<1>2. SlotInv'
      BY DEF ConsoleInv, SlotInv
<1>3. InspectInv'
      BY DEF ConsoleInv, InspectInv, Watched, WatchedStep
<1>4. StillStep
      BY DEF ConsoleInv, InspectInv, StillStep, WatchedStep
<1> QED BY <1>1, <1>2, <1>3, <1>4 DEF ConsoleInv

\* A step that answers a key in one pane.
LEMMA PaneAnswers ==
    ASSUME ConsoleInv, NEW p \in Panes, NEW Q, Answered(pane[p], Q, Free(p)), Q.prefix = FALSE,
           Shows(p, Q), front' = front, HostInv', frozenForHelp' = {}
    PROVE  ConsoleInv' /\ StillStep
<1>1. /\ pane'[p] = Q /\ pane' = [q \in Panes |-> pane'[q]]
      /\ \A q \in Panes \ {p} : pane'[q] = pane[q]
      BY DEF ConsoleInv, PanesInv, Shows
<1>2. PanesInv'
  <2>1. Live(Q)
        BY DEF Answered, Live
  <2> QED BY <1>1, <2>1 DEF ConsoleInv, PanesInv
<1>3. SlotInv'
  <2>1. Q.mode \in Modal => pane[p].mode \in Modal \/ owner \in {"none", p}
        BY DEF Answered, Free
  <2>2. Q.mode \in Modal => owner \in {"none", p}
        BY <2>1 DEF ConsoleInv, SlotInv
  <2>3. CASE Q.mode \in Modal
    <3>1. owner' = p
          BY <2>3 DEF Shows
    <3>2. ASSUME NEW q \in Panes \ {p} PROVE pane'[q].mode \notin Modal
          BY <1>1, <2>2, <2>3 DEF ConsoleInv, SlotInv, Panes
    <3> QED BY <1>1, <2>3, <3>1, <3>2 DEF SlotInv
  <2>4. CASE Q.mode \notin Modal
    <3>1. owner' = IF owner = p THEN "none" ELSE owner
          BY <2>4 DEF Shows
    <3>2. owner' # p
          BY <3>1 DEF Panes
    <3>3. ASSUME NEW q \in Panes \ {p} PROVE (pane'[q].mode \in Modal) <=> (owner' = q)
          BY <1>1, <3>1 DEF ConsoleInv, SlotInv, Panes
    <3> QED BY <1>1, <2>4, <3>2, <3>3 DEF SlotInv
  <2> QED BY <2>3, <2>4
<1>4. ASSUME Watched, NEW q \in Panes
      PROVE  Told(pane'[q]) /\ StaysSeen(pane[q], pane'[q])
  <2>1. Told(pane[q])
        BY <1>4 DEF ConsoleInv, InspectInv
  <2>2. CASE q # p
        BY <1>1, <2>1, <2>2, SameStays
  <2>3. CASE q = p
    <3>1. /\ pane[p].active /\ Q.active => Q.ceiling = pane[p].ceiling /\ Q.snap = pane[p].snap
          /\ Told(pane[p]) => Told(Q)
          /\ Q.lines = pane[p].lines /\ Q.total = pane[p].total
          BY DEF Answered
    <3>2. Told(Q)
          BY <2>1, <2>3, <3>1
    <3>3. StaysSeen(pane[p], Q)
          BY <3>1 DEF StaysSeen, SameView
    <3> QED BY <1>1, <2>3, <3>2, <3>3
  <2> QED BY <2>2, <2>3
<1>5. InspectInv'
      BY <1>4 DEF InspectInv, Watched
<1>6. StillStep
      BY <1>4 DEF StillStep
<1> QED BY <1>2, <1>3, <1>5, <1>6 DEF ConsoleInv

-----------------------------------------------------------------------------
(* The steps of the programs, one by one *)

\* The bodies of the two action properties.
MarginsStep ==
    \A p \in Shown :
        LET V == pane[p].vt
            W == pane'[p].vt
        IN Flowing(fed') /\ InRegion(V) /\ V.state = "GROUND" =>
            /\ InRegion(W)
            /\ \A r \in DOMAIN V.grid \ (V.top..V.bot) : W.grid[r] = V.grid[r]
SeenStep ==
    \A p \in Shown : front \in {"qemu", "debug"} /\ pane[p].active /\ pane'[p].active =>
        Frozen(pane'[p]) /\ Visible(pane'[p]) = Visible(pane[p])

\* The panes shown are panes.
LEMMA ShownPanes == Shown \subseteq Panes
BY DEF Shown, Panes

\* The step property as the run states it.
LEMMA StillIsSeen ==
    ASSUME ConsoleInv, StillStep
    PROVE  SeenStep
<1>1. ASSUME NEW p \in Shown, Watched, pane[p].active, pane'[p].active
      PROVE  Frozen(pane'[p]) /\ Visible(pane'[p]) = Visible(pane[p])
  <2>1. p \in Panes
        BY ShownPanes
  <2>2. Frozen(pane[p])
        BY <1>1, <2>1 DEF ConsoleInv, InspectInv, Told
  <2>3. SameView(pane[p], pane'[p])
        BY <1>1, <2>1 DEF StillStep, StaysSeen
  <2> QED BY <2>2, <2>3, VisibleSame
<1> QED BY <1>1 DEF SeenStep, Watched

\* Nothing was written, or nothing came of it.
LEMMA QuietMargins ==
    ASSUME fed' = <<>>
    PROVE  MarginsStep
BY DEF MarginsStep, Flowing
LEMMA SameMargins ==
    ASSUME pane' = pane
    PROVE  MarginsStep
BY DEF MarginsStep, InRegion

\* Text that flows is made of bytes that flow.
LEMMA FlowingText ==
    ASSUME NEW chunk \in Seq(Nat), Flowing(chunk)
    PROVE  chunk \in Seq(FlowingByte)
<1>1. \A i \in 1..Len(chunk) : chunk[i] \in FlowingByte
      BY DEF Flowing, FlowingByte
<1> QED BY <1>1

\* A sequence of a larger set.
LEMMA SeqWithin ==
    ASSUME NEW S, NEW T, S \subseteq T, NEW s \in Seq(S)
    PROVE  s \in Seq(T)
<1>1. \A i \in 1..Len(s) : s[i] \in T
      OBVIOUS
<1> QED BY <1>1

\* What the sources write is bytes.
LEMMA Served ==
    ASSUME NEW f \in Fronts, NEW chunk \in Chunks[f]
    PROVE  chunk \in Seq(Nat)
<1>1. chunk \in Seq(Byte)
      BY ConsoleInputs
<1>2. Byte \subseteq Nat
      BY DEF Byte
<1> HIDE DEF Byte
<1> QED BY <1>1, <1>2, SeqWithin

\* A read.
LEMMA ReadKeeps ==
    ASSUME ConsoleInv, NEW p \in Panes, NEW chunk \in Chunks[front], Read(p, chunk)
    PROVE  ConsoleInv' /\ StillStep /\ MarginsStep
<1> DEFINE P == [pane[p] EXCEPT !.vt = DrainReply(Input(@, chunk))]
           drops == front = "monitor" /\ Frozen(P)
           Q == AfterRead(pane[p], chunk, drops)
<1>1. /\ pane = [q \in Panes |-> pane[q]] /\ Live(pane[p]) /\ pane[p].prefix = FALSE
      /\ front \in Fronts
      BY DEF ConsoleInv, PanesInv, HostInv
<1>2. chunk \in Seq(Nat)
      BY <1>1, Served
<1>2a. drops \in BOOLEAN /\ (drops => Frozen(pane[p]))
      BY <1>1 DEF Live, PaneCore, PaneShape, PaneFields, Frozen
<1>3. /\ Live(Q) /\ Q.mode = pane[p].mode /\ Q.active = pane[p].active /\ Q.prefix = pane[p].prefix
      /\ (Frozen(pane[p]) => SameView(pane[p], Q)) /\ (Told(pane[p]) => Told(Q))
      /\ (pane[p].vt.state = "GROUND" /\ chunk \in Seq(FlowingByte) => Ran(pane[p].vt, Q.vt))
      BY <1>1, <1>2, <1>2a, Received
<1>4. pane' = [pane EXCEPT ![p] = Q]
  <2> DEFINE R == CASE drops -> [P EXCEPT !.vt = DrainScrolled(@)]
                    [] Frozen(P) /\ ~drops -> P
                    [] ~Frozen(P) -> PullFromVt100(P)
  <2>1. pane' = [pane EXCEPT ![p] = R]
        BY DEF Read
  <2>2. R = Q
        BY ZenonT(30) DEF AfterRead
  <2> HIDE DEF R, Q
  <2> QED BY <2>1, <2>2
<1>5. /\ front' = front /\ owner' = owner /\ focus' = focus /\ prefix' = prefix
      /\ help' = help /\ frozenForHelp' = frozenForHelp /\ fed' = chunk
      BY DEF Read, ui
<1> HIDE DEF P, drops, Q
<1>6. /\ pane'[p] = Q /\ pane' = [q \in Panes |-> pane'[q]]
      /\ \A q \in Panes \ {p} : pane'[q] = pane[q]
      BY <1>1, <1>4
<1>7. \A q \in Panes : PaneStep(pane[q], pane'[q]) /\ pane'[q].mode = pane[q].mode
  <2>1. PaneStep(pane[p], Q)
        BY <1>1, <1>3 DEF PaneStep
  <2>2. ASSUME NEW q \in Panes \ {p} PROVE PaneStep(pane[q], pane[q])
        BY DEF ConsoleInv, PanesInv, PaneStep
  <2> QED BY <1>3, <1>6, <2>1, <2>2
<1>8. \A q \in Panes : WatchedStep(pane[q], pane'[q])
  <2>1. WatchedStep(pane[p], Q)
    <3>1. Told(pane[p]) /\ pane[p].active => Frozen(pane[p])
          BY DEF Told
    <3> QED BY <1>3, <3>1 DEF WatchedStep, StaysSeen
  <2>2. ASSUME NEW q \in Panes \ {p} PROVE WatchedStep(pane[q], pane[q])
        BY SameStays DEF WatchedStep
  <2> QED BY <1>6, <2>1, <2>2
<1>9. Watched => \A q \in Panes : q \in frozenForHelp' => ~pane'[q].active
  <2>1. \A q \in Panes : pane'[q].active = pane[q].active
        BY <1>3, <1>6
  <2> QED BY <1>5, <2>1 DEF ConsoleInv, InspectInv
<1>10. HostInv'
       BY <1>5 DEF ConsoleInv, HostInv, Shown
<1>11. ConsoleInv' /\ StillStep
       BY <1>5, <1>6, <1>7, <1>8, <1>9, <1>10, PanesGo
<1>12. MarginsStep
  <2>1. ASSUME NEW q \in Shown, Flowing(fed'), InRegion(pane[q].vt), pane[q].vt.state = "GROUND"
        PROVE  /\ InRegion(pane'[q].vt)
               /\ \A r \in DOMAIN pane[q].vt.grid \ (pane[q].vt.top..pane[q].vt.bot) :
                        pane'[q].vt.grid[r] = pane[q].vt.grid[r]
    <3>1. q \in Panes
          BY ShownPanes
    <3>2. CASE q # p
      <4>1. pane'[q] = pane[q]
            BY <1>6, <3>1, <3>2
      <4> QED BY <2>1, <4>1
    <3>3. CASE q = p
      <4>1. chunk \in Seq(FlowingByte)
            BY <1>2, <1>5, <2>1, FlowingText
      <4>2. Ran(pane[p].vt, Q.vt)
            BY <1>3, <2>1, <3>3, <4>1
      <4>3. InRegion(Q.vt) /\ Outside(pane[p].vt, Q.vt, pane[p].vt.top, pane[p].vt.bot)
            BY <2>1, <3>3, <4>2 DEF Ran
      <4>4. DOMAIN pane[p].vt.grid = 0..pane[p].vt.rows-1
            BY <1>1 DEF Live, PaneCore, TermInv, Screen
      <4> QED BY <1>6, <3>3, <4>3, <4>4 DEF Outside
    <3> QED BY <3>2, <3>3
  <2> QED BY <2>1 DEF MarginsStep
<1> QED BY <1>11, <1>12

\* A new size of the screen.
LEMMA ResizedKeeps ==
    ASSUME ConsoleInv, NEW size \in Sizes[front], Resized(size[1], size[2])
    PROVE  ConsoleInv' /\ StillStep /\ MarginsStep
<1>1. size[1] \in Int /\ size[2] \in Int
      BY ConsoleInputs DEF ConsoleInv, HostInv
<1> DEFINE rows == size[1]
           cols == size[2]
<1>2. /\ front' = front /\ owner' = owner /\ focus' = focus /\ prefix' = prefix
      /\ help' = help /\ frozenForHelp' = frozenForHelp /\ fed' = <<>>
      BY DEF Resized, ui
<1>3. pane' = [p \in Panes |-> [pane[p] EXCEPT !.vt = Resize(@, rows, cols)]]
      BY DEF Resized
<1>4. \A p \in Panes : pane'[p] = [pane[p] EXCEPT !.vt = Resize(pane[p].vt, rows, cols)]
      BY <1>3
<1> HIDE DEF rows, cols
<1>5. ASSUME NEW p \in Panes
      PROVE  /\ Live(pane'[p]) /\ pane'[p].prefix = FALSE /\ pane'[p].mode = pane[p].mode
             /\ pane'[p].active = pane[p].active
             /\ SameView(pane[p], pane'[p]) /\ (Told(pane[p]) => Told(pane'[p]))
  <2> DEFINE Q == [pane[p] EXCEPT !.vt = Resize(pane[p].vt, rows, cols)]
  <2>1. Live(pane[p]) /\ pane[p].prefix = FALSE
        BY DEF ConsoleInv, PanesInv
  <2>2. TermInv(Resize(pane[p].vt, rows, cols))
        BY <1>1, <2>1, ResizeKeeps DEF Live, PaneCore, rows, cols
  <2>3. PaneCore(Q) /\ Changes(pane[p], Q, {"vt"})
        BY <2>1, <2>2, Reset DEF Live
  <2>4. pane'[p] = Q
        BY <1>4
  <2> HIDE DEF Q
  <2>5. /\ Q.mode = pane[p].mode /\ Q.active = pane[p].active /\ Q.prefix = pane[p].prefix
        /\ Q.helpWasLive = pane[p].helpWasLive /\ SameView(pane[p], Q)
        BY <2>3 DEF Changes, PaneFields, SameView
  <2>6. ModesKept(Q)
        BY <2>1, <2>5 DEF Live, ModesKept
  <2>7. Told(pane[p]) => Told(Q)
        BY <2>1, <2>3, ToldStays DEF Live
  <2> QED BY <2>1, <2>3, <2>4, <2>5, <2>6, <2>7 DEF Live
<1>6. pane' = [p \in Panes |-> pane'[p]]
      BY <1>3
<1>7. HostInv'
      BY <1>2 DEF ConsoleInv, HostInv, Shown
<1>8. \A p \in Panes : WatchedStep(pane[p], pane'[p])
      BY <1>5 DEF WatchedStep, StaysSeen
<1>9. Watched => \A p \in Panes : p \in frozenForHelp' => ~pane'[p].active
      BY <1>2, <1>5 DEF ConsoleInv, InspectInv
<1>10. \A p \in Panes : PaneStep(pane[p], pane'[p]) /\ pane'[p].mode = pane[p].mode
       BY <1>5 DEF PaneStep
<1>11. ConsoleInv' /\ StillStep
       BY <1>2, <1>6, <1>7, <1>8, <1>9, <1>10, PanesGo
<1> QED BY <1>2, <1>11, QuietMargins

\* A key for a pane.
LEMMA WidgetKeyKeeps ==
    ASSUME ConsoleInv, NEW key, NEW pat, NEW p \in Panes, WidgetKey(key, pat, p)
    PROVE  ConsoleInv' /\ StillStep /\ MarginsStep
<1> DEFINE Q == OnEvent(pane[p], key, pat, Free(p)).pane
<1>1. /\ front' = front /\ fed' = <<>> /\ focus' = focus /\ prefix' = prefix
      /\ help' = help /\ frozenForHelp' = frozenForHelp
      BY DEF WidgetKey, Pressed
<1>2. ~help /\ ~prefix /\ key # "^T"
      BY DEF WidgetKey, Plainly
<1>3. frozenForHelp' = {}
      BY <1>1, <1>2 DEF ConsoleInv, HostInv
<1>4. Shows(p, Q)
      BY DEF WidgetKey
<1>5. Live(pane[p]) /\ pane[p].prefix = FALSE
      BY DEF ConsoleInv, PanesInv
<1>6. Free(p) \in BOOLEAN
      BY DEF Free
<1>7. Answered(pane[p], Q, Free(p)) /\ Q.prefix = FALSE
  <2>1. pane[p].prefix \in BOOLEAN
        BY <1>5
  <2>2. Answered(pane[p], Q, Free(p)) /\ Q.prefix = (~pane[p].prefix /\ key = "^T")
        BY <1>5, <1>6, <2>1, EventAnswered
  <2> HIDE DEF Q
  <2> QED BY <1>2, <2>2
<1> HIDE DEF Q
<1>8. HostInv'
      BY <1>1 DEF ConsoleInv, HostInv, Shown
<1>9. ConsoleInv' /\ StillStep
      BY <1>1, <1>3, <1>4, <1>7, <1>8, PaneAnswers
<1> QED BY <1>1, <1>9, QuietMargins

Prefixed(P, F) ==
    /\ Live(F) /\ F.prefix = TRUE /\ F.mode = P.mode /\ F.active = P.active
    /\ F.vt = P.vt /\ SameView(P, F) /\ (Told(P) => Told(F))
AnsweredPlainly(P, S, free) == Answered(P, S, free) /\ S.prefix = FALSE

\* The prefix key alone.
LEMMA PrefixTaken ==
    ASSUME NEW P, Live(P), P.prefix = FALSE, NEW k, k = "^T", NEW pat, NEW free \in BOOLEAN
    PROVE  Prefixed(P, OnEvent(P, k, pat, free).pane)
<1> DEFINE F == [P EXCEPT !.prefix = TRUE]
<1>1. OnEvent(P, k, pat, free).pane = F
      BY DEF OnEvent, Used
<1>2. Changes(P, F, {"prefix"}) /\ F.prefix = TRUE
      BY DEF Live, PaneCore, PaneShape, PaneFields, Changes
<1> HIDE DEF F
<1>3. /\ F.mode = P.mode /\ F.active = P.active /\ F.helpWasLive = P.helpWasLive
      /\ F.vt = P.vt /\ SameView(P, F)
      BY <1>2 DEF Changes, PaneFields, SameView
<1>4. PaneCore(F)
      BY <1>2, Kept DEF Live, Changes
<1>5. ModesKept(F)
      BY <1>3 DEF Live, ModesKept
<1>6. Told(P) => Told(F)
      BY <1>2, <1>4, ToldStays DEF Live
<1> QED BY <1>1, <1>2, <1>3, <1>4, <1>5, <1>6 DEF Live, Prefixed

\* The prefix and a key, one after the other.
LEMMA PrefixThenKey ==
    ASSUME NEW P, Live(P), P.prefix = FALSE, NEW free \in BOOLEAN, NEW key, NEW pat,
           NEW k, k = "^T"
    PROVE  LET F == OnEvent(P, k, pat, free).pane
               S == OnEvent(F, key, pat, free).pane
           IN AnsweredPlainly(P, S, free)
<1> DEFINE F == OnEvent(P, k, pat, free).pane
           S == OnEvent(F, key, pat, free).pane
<1>0. Prefixed(P, F)
      BY PrefixTaken
<1> HIDE DEF F
<1>1. /\ Live(F) /\ F.prefix = TRUE /\ F.mode = P.mode /\ F.active = P.active
      /\ F.vt = P.vt /\ SameView(P, F) /\ (Told(P) => Told(F))
      BY <1>0 DEF Prefixed
<1>1a. F.prefix \in BOOLEAN
      BY <1>1
<1>1b. Answered(F, S, free) /\ S.prefix = (~F.prefix /\ key = "^T")
      BY <1>1, <1>1a, EventAnswered
<1> HIDE DEF S
<1>2. Answered(F, S, free) /\ S.prefix = FALSE
      BY <1>1, <1>1b
<1>3. Answered(P, S, free)
      BY <1>1, <1>2 DEF Answered, SameView
<1> QED BY <1>2, <1>3 DEF F, S, AnsweredPlainly

\* A prefix that is passed on to the pane.
LEMMA ForwardPrefixKeeps ==
    ASSUME ConsoleInv, NEW key, NEW pat, NEW p \in Panes, ForwardPrefix(key, pat, p)
    PROVE  ConsoleInv' /\ StillStep /\ MarginsStep
<1> DEFINE F == OnEvent(pane[p], "^T", pat, Free(p)).pane
           S == OnEvent(F, key, pat, Free(p)).pane
           Q == IF front = "monitor" /\ key \in Named THEN pane[p] ELSE S
<1>1. /\ front' = front /\ fed' = <<>> /\ focus' = focus /\ prefix' = FALSE
      /\ help' = help /\ frozenForHelp' = frozenForHelp /\ ~help
      BY DEF ForwardPrefix, Command, Pressed
<1>3. frozenForHelp' = {}
      BY <1>1 DEF ConsoleInv, HostInv
<1>4. Shows(p, Q)
      BY DEF ForwardPrefix
<1>5. Live(pane[p]) /\ pane[p].prefix = FALSE
      BY DEF ConsoleInv, PanesInv
<1>6. Free(p) \in BOOLEAN
      BY DEF Free
<1>7. Answered(pane[p], Q, Free(p)) /\ Q.prefix = FALSE
  <2>1a. AnsweredPlainly(pane[p], S, Free(p))
        BY <1>5, <1>6, PrefixThenKey
  <2>1. Answered(pane[p], S, Free(p)) /\ S.prefix = FALSE
        BY <2>1a DEF AnsweredPlainly
  <2>2. Answered(pane[p], pane[p], Free(p))
        BY <1>5, NothingHandled DEF Handled
  <2> HIDE DEF S
  <2> QED BY <1>5, <2>1, <2>2
<1> HIDE DEF Q
<1>8. HostInv'
      BY <1>1 DEF ConsoleInv, HostInv, Shown
<1>9. ConsoleInv' /\ StillStep
      BY <1>1, <1>3, <1>4, <1>7, <1>8, PaneAnswers
<1> QED BY <1>1, <1>9, QuietMargins

\* The keys that are the program's own and touch no pane.
LEMMA HostKeysKeep ==
    ASSUME ConsoleInv,
           \/ PrefixKey \/ SwitchFocus
           \/ \E key \in Keys : Quit(key) \/ SendCommand(key)
           \/ \E p \in Panes : Click(p)
    PROVE  ConsoleInv' /\ StillStep /\ MarginsStep
<1>1. /\ front' = front /\ fed' = <<>> /\ owner' = owner /\ pane' = pane
      /\ help' = help /\ frozenForHelp' = frozenForHelp
      BY DEF PrefixKey, SwitchFocus, Quit, SendCommand, Click, Command, Pressed
<1>2. help' => ~prefix'
      BY DEF PrefixKey, SwitchFocus, Quit, SendCommand, Click, Command, Pressed, Plainly,
             ConsoleInv, HostInv
<1>3. focus' \in Shown
  <2>1. CASE SwitchFocus
    <3>1. \E p \in Panes : p # focus
          BY DEF Panes
    <3>2. (CHOOSE p \in Panes : p # focus) \in Panes
          BY <3>1
    <3> QED BY <2>1, <3>2 DEF SwitchFocus, Shown
  <2>2. CASE \E p \in Panes : Click(p)
        BY <2>2 DEF Click, Shown
  <2>3. CASE PrefixKey \/ \E key \in Keys : Quit(key) \/ SendCommand(key)
        BY <2>3 DEF PrefixKey, Quit, SendCommand, ConsoleInv, HostInv
  <2> QED BY <2>1, <2>2, <2>3
<1>4. HostInv'
      BY <1>1, <1>2, <1>3 DEF ConsoleInv, HostInv, Shown
<1>5. ConsoleInv' /\ StillStep
      BY <1>1, <1>4, PanesAlone
<1> QED BY <1>1, <1>5, QuietMargins

\* Freezing and thawing one pane, for the program's own help.
LEMMA HelpFreezes ==
    ASSUME NEW P, Live(P), P.prefix = FALSE
    PROVE  LET F == Freeze(P)
               U == Unfreeze(P)
           IN /\ PaneStep(P, F) /\ F.mode = P.mode /\ F.active = P.active
              /\ PaneStep(P, U) /\ U.mode = P.mode /\ U.active = P.active
              /\ F.search = P.search /\ U.search = P.search
<1> DEFINE F == Freeze(P)
           U == Unfreeze(P)
<1>1. PaneCore(F) /\ Changes(P, F, {"anchor", "ceiling", "snap"})
      BY Freezes DEF Live
<1>2. PaneCore(U) /\ Changes(P, U, {"anchor", "ceiling", "snap"})
      BY Unfreezes DEF Live
<1> HIDE DEF F, U
<1>3. /\ F.mode = P.mode /\ F.active = P.active /\ F.helpWasLive = P.helpWasLive
      /\ F.prefix = P.prefix
      /\ U.mode = P.mode /\ U.active = P.active /\ U.helpWasLive = P.helpWasLive
      /\ U.prefix = P.prefix /\ F.search = P.search /\ U.search = P.search
      BY <1>1, <1>2 DEF Changes, PaneFields
<1>4. ModesKept(F) /\ ModesKept(U)
      BY <1>3 DEF Live, ModesKept
<1>5. PaneStep(P, F) /\ PaneStep(P, U)
      BY <1>1, <1>2, <1>3, <1>4 DEF PaneStep, Live
<1> QED BY <1>3, <1>5 DEF F, U

\* A step that freezes or thaws some panes, none of which is in inspect when
\* the front end keeps inspect frozen.
LEMMA HelpGoes ==
    ASSUME ConsoleInv, NEW S, Watched => \A p \in Panes : p \in S => ~pane[p].active,
           \/ pane' = [p \in Panes |-> IF p \in S THEN Freeze(pane[p]) ELSE pane[p]]
           \/ pane' = [p \in Panes |-> IF p \in S THEN Unfreeze(pane[p]) ELSE pane[p]],
           owner' = owner, front' = front, HostInv', frozenForHelp' \in {S, {}}
    PROVE  ConsoleInv' /\ StillStep
<1>1. ASSUME NEW p \in Panes
      PROVE  /\ PaneStep(pane[p], pane'[p]) /\ pane'[p].mode = pane[p].mode
             /\ pane'[p].active = pane[p].active /\ pane'[p].search = pane[p].search
             /\ p \notin S => pane'[p] = pane[p]
  <2>1. Live(pane[p]) /\ pane[p].prefix = FALSE
        BY DEF ConsoleInv, PanesInv
  <2>2. pane'[p] \in {pane[p], Freeze(pane[p]), Unfreeze(pane[p])}
        /\ (p \notin S => pane'[p] = pane[p])
        OBVIOUS
  <2>3. PaneStep(pane[p], pane[p])
        BY <2>1 DEF PaneStep
  <2> QED BY <2>1, <2>2, <2>3, HelpFreezes
<1>2. pane' = [p \in Panes |-> pane'[p]]
      OBVIOUS
<1>3. Watched => \A p \in Panes : WatchedStep(pane[p], pane'[p])
  <2>1. ASSUME Watched, NEW p \in Panes PROVE WatchedStep(pane[p], pane'[p])
    <3>1. CASE p \in S
          BY <1>1, <2>1, <3>1 DEF WatchedStep, Told, Searching, StaysSeen
    <3>2. CASE p \notin S
          BY <1>1, <3>2, SameStays DEF WatchedStep
    <3> QED BY <3>1, <3>2
  <2> QED BY <2>1
<1>4. Watched => \A p \in Panes : p \in frozenForHelp' => ~pane'[p].active
      BY <1>1
<1> QED BY <1>1, <1>2, <1>3, <1>4, PanesGo

\* The program's own help opens, and freezes what it covers.
LEMMA OpenHostHelpKeeps ==
    ASSUME ConsoleInv, OpenHostHelp
    PROVE  ConsoleInv' /\ StillStep /\ MarginsStep
<1> DEFINE S == IF front = "monitor" THEN Shown ELSE {p \in Shown : ~pane[p].active}
<1>1. /\ front' = front /\ fed' = <<>> /\ owner' = owner /\ focus' = focus /\ prefix' = FALSE
      /\ help' = TRUE /\ frozenForHelp' = S
      /\ pane' = [p \in Panes |-> IF p \in S THEN Freeze(pane[p]) ELSE pane[p]]
      BY DEF OpenHostHelp, Command, Pressed
<1>2. Watched => \A p \in Panes : p \in S => ~pane[p].active
      BY DEF Watched
<1> HIDE DEF S
<1>3. HostInv'
      BY <1>1 DEF ConsoleInv, HostInv, Shown
<1>4. ConsoleInv' /\ StillStep
      BY <1>1, <1>2, <1>3, HelpGoes
<1> QED BY <1>1, <1>4, QuietMargins

\* It closes, and thaws that again.
LEMMA HostHelpKeyKeeps ==
    ASSUME ConsoleInv, NEW key, HostHelpKey(key)
    PROVE  ConsoleInv' /\ StillStep /\ MarginsStep
<1>1. /\ front' = front /\ fed' = <<>> /\ owner' = owner /\ focus' = focus /\ prefix' = prefix
      BY DEF HostHelpKey, Pressed
<1>2. CASE key \in InfoCloses
  <2>1. /\ help' = FALSE /\ frozenForHelp' = {}
        /\ pane' = [p \in Panes |-> IF p \in frozenForHelp THEN Unfreeze(pane[p]) ELSE pane[p]]
        BY <1>2 DEF HostHelpKey
  <2>2. HostInv'
        BY <1>1, <2>1 DEF ConsoleInv, HostInv, Shown
  <2>3. Watched => \A p \in Panes : p \in frozenForHelp => ~pane[p].active
        BY DEF ConsoleInv, InspectInv
  <2>4. ConsoleInv' /\ StillStep
        BY <1>1, <2>1, <2>2, <2>3, HelpGoes
  <2> QED BY <1>1, <2>4, QuietMargins
<1>3. CASE key \notin InfoCloses
  <2>1. help' = help /\ frozenForHelp' = frozenForHelp /\ pane' = pane
        BY <1>3 DEF HostHelpKey
  <2>2. HostInv'
        BY <1>1, <2>1 DEF ConsoleInv, HostInv, Shown
  <2>3. ConsoleInv' /\ StillStep
        BY <1>1, <2>1, <2>2, PanesAlone
  <2> QED BY <1>1, <2>3, QuietMargins
<1> QED BY <1>2, <1>3

\* The clipboard takes what was copied.
LEMMA YankStepKeeps ==
    ASSUME ConsoleInv, NEW p \in Panes, YankStep(p)
    PROVE  ConsoleInv' /\ StillStep /\ MarginsStep
<1>1. /\ front' = front /\ fed' = <<>> /\ owner' = owner /\ focus' = focus /\ prefix' = prefix
      /\ help' = help /\ frozenForHelp' = frozenForHelp
      BY DEF YankStep, ui
<1>2. PICK y : pane' = [pane EXCEPT ![p] = [pane[p] EXCEPT !.yank = y]]
      BY DEF YankStep
<1> DEFINE Q == [pane[p] EXCEPT !.yank = y]
<1>3. pane = [q \in Panes |-> pane[q]] /\ Live(pane[p]) /\ pane[p].prefix = FALSE
      BY DEF ConsoleInv, PanesInv
<1>4. Changes(pane[p], Q, {"yank"})
      BY <1>3 DEF Changes, Live, PaneCore, PaneShape
<1>5. pane' = [pane EXCEPT ![p] = Q]
      BY <1>2
<1> HIDE DEF Q
<1>6. PaneCore(Q)
      BY <1>3, <1>4, Kept DEF Live, Changes
<1>7. /\ Q.mode = pane[p].mode /\ Q.active = pane[p].active /\ Q.prefix = pane[p].prefix
      /\ Q.helpWasLive = pane[p].helpWasLive /\ SameView(pane[p], Q)
      BY <1>4 DEF Changes, PaneFields, SameView
<1>8. PaneStep(pane[p], Q)
      BY <1>3, <1>6, <1>7 DEF PaneStep, Live, ModesKept
<1>9. WatchedStep(pane[p], Q)
  <2>1. Told(pane[p]) => Told(Q)
        BY <1>3, <1>4, <1>6, ToldStays DEF Live
  <2> QED BY <1>7, <2>1 DEF WatchedStep, StaysSeen
<1>10. /\ pane'[p] = Q /\ pane' = [q \in Panes |-> pane'[q]]
       /\ \A q \in Panes \ {p} : pane'[q] = pane[q]
       BY <1>3, <1>5
<1>11. ASSUME NEW q \in Panes
       PROVE  /\ PaneStep(pane[q], pane'[q]) /\ pane'[q].mode = pane[q].mode
              /\ pane'[q].active = pane[q].active /\ WatchedStep(pane[q], pane'[q])
  <2>1. CASE q = p
        BY <1>7, <1>8, <1>9, <1>10, <2>1
  <2>2. CASE q # p
    <3>1. pane'[q] = pane[q]
          BY <1>10, <2>2
    <3>2. PaneStep(pane[q], pane[q])
          BY DEF ConsoleInv, PanesInv, PaneStep
    <3> QED BY <3>1, <3>2, SameStays DEF WatchedStep
  <2> QED BY <2>1, <2>2
<1>12. HostInv'
       BY <1>1 DEF ConsoleInv, HostInv, Shown
<1>13. Watched => \A q \in Panes : q \in frozenForHelp' => ~pane'[q].active
       BY <1>1, <1>11 DEF ConsoleInv, InspectInv
<1>14. ConsoleInv' /\ StillStep
       BY <1>1, <1>10, <1>11, <1>12, <1>13, PanesGo
<1> QED BY <1>1, <1>14, QuietMargins

-----------------------------------------------------------------------------
(* The theorems *)

\* A new pane.
LEMMA NewPaneLive ==
    ASSUME NEW h \in Int, NEW w \in Int
    PROVE  /\ Live(NewPane(h, w)) /\ NewPane(h, w).prefix = FALSE
           /\ NewPane(h, w).mode = "LIVE" /\ NewPane(h, w).active = FALSE
           /\ Told(NewPane(h, w))
<1> DEFINE t == New(h, w)
           P == [vt |-> t, lines |-> <<>>, total |-> 0,
                 anchor |-> -1, ceiling |-> -1, snap |-> <<>>,
                 mode |-> "LIVE", active |-> FALSE, helpWasLive |-> FALSE,
                 prefix |-> FALSE, search |-> NoSearch, yank |-> Idle]
<1>1. NewPane(h, w) = P
      BY DEF NewPane
<1>2. TermInv(t)
      BY NewTerm
<1> HIDE DEF t
<1>3. PaneShape(P)
      BY DEF PaneShape, PaneFields
<1>4. LogKept(P)
  <2>1. P.lines = <<>> /\ P.total = 0
        OBVIOUS
  <2> HIDE DEF P
  <2> QED BY <2>1, PaneLimits DEF LogKept
<1>5. ViewKept(P) /\ ~Frozen(P)
  <2>1. P.snap = <<>> /\ P.ceiling = -1 /\ P.anchor = -1
        OBVIOUS
  <2> HIDE DEF P
  <2> QED BY <2>1 DEF ViewKept, Frozen
<1>6. SearchKept(P)
      BY DEF SearchKept, NoSearch, SearchFields
<1>7. /\ P.vt = t /\ P.search = NoSearch /\ P.mode = "LIVE" /\ P.active = FALSE
      /\ P.helpWasLive = FALSE /\ P.prefix = FALSE
      OBVIOUS
<1> HIDE DEF P
<1>8. ModesKept(P)
      BY <1>7 DEF ModesKept
<1>9. Told(P)
      BY <1>7 DEF Told, Searching, NoSearch
<1> QED BY <1>1, <1>2, <1>3, <1>4, <1>5, <1>6, <1>7, <1>8, <1>9 DEF Live, PaneCore

\* The programs start in order.
LEMMA InitConsole == Init => ConsoleInv
<1> SUFFICES ASSUME Init PROVE ConsoleInv
      OBVIOUS
<1>1. PICK size \in Sizes[front] : pane = [p \in Panes |-> NewPane(size[1], size[2])]
      BY DEF Init
<1>2. size[1] \in Int /\ size[2] \in Int
      BY ConsoleInputs DEF Init
<1> DEFINE N == NewPane(size[1], size[2])
<1>3. Live(N) /\ N.prefix = FALSE /\ N.mode = "LIVE" /\ N.active = FALSE /\ Told(N)
      BY <1>2, NewPaneLive
<1>4. pane = [p \in Panes |-> N]
      BY <1>1
<1> HIDE DEF N
<1>5. \A p \in Panes : pane[p] = N
      BY <1>4
<1>6. PanesInv
      BY <1>3, <1>4, <1>5 DEF PanesInv
<1>7. SlotInv
      BY <1>3, <1>5 DEF Init, SlotInv, Modal, Panes
<1>8. HostInv
      BY DEF Init, HostInv, Shown, Panes
<1>9. InspectInv
      BY <1>3, <1>5 DEF InspectInv
<1> QED BY <1>6, <1>7, <1>8, <1>9 DEF ConsoleInv

\* Every step keeps the invariant, a frozen view and the margins.
LEMMA NextConsole ==
    ASSUME ConsoleInv, [Next]_vars
    PROVE  ConsoleInv' /\ StillStep /\ MarginsStep
<1>1. CASE UNCHANGED vars
  <2>1. /\ pane' = pane /\ owner' = owner /\ front' = front /\ focus' = focus
        /\ prefix' = prefix /\ help' = help /\ frozenForHelp' = frozenForHelp
        BY <1>1 DEF vars
  <2>2. HostInv'
        BY <2>1 DEF ConsoleInv, HostInv, Shown
  <2> QED BY <2>1, <2>2, PanesAlone, SameMargins
<1>2. CASE \E p \in Panes : \E chunk \in Chunks[front] : Read(p, chunk)
      BY <1>2, ReadKeeps
<1>3. CASE \E size \in Sizes[front] : Resized(size[1], size[2])
      BY <1>3, ResizedKeeps
<1>4. CASE \E key \in Keys : Press(key)
  <2>1. PICK key \in Keys : Press(key)
        BY <1>4
  <2>2. CASE \E pat \in IF key = "ENTER" THEN Patterns ELSE {NoPattern}, p \in Panes :
                WidgetKey(key, pat, p) \/ ForwardPrefix(key, pat, p)
        BY <2>2, WidgetKeyKeeps, ForwardPrefixKeeps
  <2>3. CASE Quit(key) \/ SendCommand(key)
        BY <2>3, HostKeysKeep
  <2>4. CASE HostHelpKey(key)
        BY <2>4, HostHelpKeyKeeps
  <2> QED BY <2>1, <2>2, <2>3, <2>4 DEF Press
<1>5. CASE PrefixKey \/ SwitchFocus
      BY <1>5, HostKeysKeep
<1>6. CASE OpenHostHelp
      BY <1>6, OpenHostHelpKeeps
<1>7. CASE \E p \in Panes : Click(p) \/ YankStep(p)
      BY <1>7, HostKeysKeep, YankStepKeeps
<1>8. CASE SourceEnds
  <2>1. /\ pane' = pane /\ owner' = owner /\ front' = front /\ focus' = focus
        /\ prefix' = prefix /\ help' = help /\ frozenForHelp' = frozenForHelp
        BY <1>8 DEF SourceEnds, ui
  <2>2. HostInv'
        BY <2>1 DEF ConsoleInv, HostInv, Shown
  <2> QED BY <2>1, <2>2, PanesAlone, SameMargins
<1> QED BY <1>1, <1>2, <1>3, <1>4, <1>5, <1>6, <1>7, <1>8 DEF Next

\* The inductive invariant of the consoles: panes in order, one modal at a
\* time and its owner, the program's own help, and inspect that is frozen in
\* the programs that keep it so, with a counter that is right.
THEOREM ConsoleSafe == Spec => []ConsoleInv
<1>1. ConsoleInv /\ [Next]_vars => ConsoleInv'
      BY NextConsole
<1> QED BY InitConsole, <1>1, PTL DEF Spec

\* What the runs check of each pane.
LEMMA PaneInOrder ==
    ASSUME ConsoleInv, NEW p \in Panes
    PROVE  PaneOK(pane[p])
<1>1. Live(pane[p]) /\ pane[p].prefix = FALSE
      BY DEF ConsoleInv, PanesInv
<1>2. TerminalOK(pane[p].vt)
      BY <1>1, TermIsOK DEF Live, PaneCore
<1>3. /\ LogKept(pane[p]) /\ ViewKept(pane[p]) /\ ModesKept(pane[p])
      BY <1>1 DEF Live, PaneCore
<1> QED BY <1>1, <1>2, <1>3 DEF PaneOK, LogKept, ViewKept, ModesKept

\* Every pane, and its terminal, is always in order (vt100.c, tui.c).
THEOREM PanesInOrder == Spec => [](\A p \in Panes : PaneOK(pane[p]))
<1>1. ConsoleInv => \A p \in Panes : PaneOK(pane[p])
      BY PaneInOrder
<1> QED BY ConsoleSafe, <1>1, PTL

\* The counter of a search, as the runs check it.
LEMMA CounterIsRight ==
    ASSUME ConsoleInv
    PROVE  SearchCounts
<1> SUFFICES ASSUME NEW p \in Shown, front \in {"qemu", "debug"}, pane[p].active, Searching(pane[p])
             PROVE  LET P == pane[p]
                    IN /\ P.search.total = MatchesIn(P, LogTotal(P), P.search.pat)
                       /\ P.search.index = ComputeIndex(P)
                       /\ P.search.total > 0 => P.search.index \in 1..P.search.total
    BY DEF SearchCounts
<1>1. Told(pane[p])
      BY ShownPanes DEF ConsoleInv, InspectInv, Watched
<1>2. Truthful(pane[p])
      BY <1>1 DEF Told
<1> QED BY <1>2 DEF Truthful, HitsUpTo

\* All that the runs check of the panes, the modal slot and the counter "N/M"
\* of a search in inspect (tui.c, search_compute_index and tui_log_search_next).
THEOREM ConsoleInOrder == Spec => []ConsoleOK
<1>1. ConsoleInv => ConsoleOK
  <2> SUFFICES ASSUME ConsoleInv PROVE ConsoleOK
      OBVIOUS
  <2>1. \A p \in Panes : PaneOK(pane[p])
        BY PaneInOrder
  <2>2. \A p \in Panes : (pane[p].mode \in Modal) = (owner = p)
    <3>1. ASSUME NEW p \in Panes PROVE (pane[p].mode \in Modal) = (owner = p)
      <4>1. (pane[p].mode \in Modal) <=> (owner = p)
            BY DEF ConsoleInv, SlotInv
      <4>2. /\ (pane[p].mode \in Modal) \in BOOLEAN
            /\ (owner = p) \in BOOLEAN
            OBVIOUS
      <4> QED BY <4>1, <4>2
    <3> QED BY <3>1
  <2>3. focus \in Shown /\ (help => ~prefix) /\ (frozenForHelp # {} => help)
        BY DEF ConsoleInv, HostInv
  <2> QED BY <2>1, <2>2, <2>3, CounterIsRight DEF ConsoleOK
<1> QED BY ConsoleSafe, <1>1, PTL

\* While plain text flows, nothing outside the scroll region changes and the
\* cursor does not leave it (vt100.c, cursor_advance_row and scroll_up).
THEOREM MarginsAreKept == Spec => MarginsHold
<1>1. ConsoleInv /\ [Next]_vars => [MarginsStep]_vars
      BY NextConsole
<1>2. ConsoleInv /\ [Next]_vars =>
        [\A p \in Shown :
        LET V == pane[p].vt
            W == pane'[p].vt
        IN Flowing(fed') /\ InRegion(V) /\ V.state = "GROUND" =>
            /\ InRegion(W)
            /\ \A r \in DOMAIN V.grid \ (V.top..V.bot) : W.grid[r] = V.grid[r]]_vars
      BY <1>1 DEF MarginsStep
<1> QED BY ConsoleSafe, <1>2, PTL DEF Spec, MarginsHold

\* In the emulator and the debugger a view in inspect stands still from the
\* key that froze it to the key that leaves it (tui.c, tui_log_freeze).
THEOREM InspectIsStill == Spec => FrozenStill
<1>1. ConsoleInv /\ [Next]_vars =>
        [\A p \in Shown : front \in {"qemu", "debug"} /\ pane[p].active /\ pane'[p].active =>
        Frozen(pane'[p]) /\ Visible(pane'[p]) = Visible(pane[p])]_vars
      BY NextConsole, StillIsSeen DEF SeenStep
<1> QED BY ConsoleSafe, <1>1, PTL DEF Spec, FrozenStill

=============================================================================
