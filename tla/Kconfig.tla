------------------------------ MODULE Kconfig ------------------------------
(***************************************************************************)
(* The configuration of a project: what kconfgen and menuconfig make of    *)
(* the Kconfig declarations, of sdkconfig.defaults and of sdkconfig        *)
(* (src/cmd/idf/kconfgen and src/cmd/idf/menuconfig).                      *)
(*                                                                         *)
(* The parser is left out: a tree is the declarations it has made.  A      *)
(* condition is a set of literals that must all hold, an expression a set  *)
(* of conditions one of which must; a value is a number, 0 and 1 standing  *)
(* for n and y.  A line is found by the symbol's name, so a file is a set  *)
(* of lines, of which the deprecated names stand after all the others.     *)
(* Nodes are numbered as they are read, after the node they are in; behind *)
(* a symbol's node stand, in it, those that depend on the symbol           *)
(* (finalize_node).                                                        *)
(***************************************************************************)
EXTENDS Integers, Sequences, FiniteSets, SequencesExt

CONSTANTS
    Trees,      \* the Kconfig trees a project may have
    Defaults(_),   \* Defaults(k): the sdkconfig.defaults of tree k
    Sdkconfigs(_), \* Sdkconfigs(k): the sdkconfigs it may start with
    Typed,      \* what a user may type for an int
    MaxIters,   \* MAX_FIXPOINT_ITERS
    Tools,      \* what is run: "kconfgen", "menuconfig"
    MaxTurns,   \* bound on the runs, keys and edits of a user
    Policies    \* the values of KCONFIG_DEFAULTS_POLICY: "sdkconfig", "kconfig"

\* 0 is the root.
ASSUME TreesAssumption ==
    \A k \in Trees :
       /\ Len(k.node) \in Nat /\ DOMAIN k.node = 1..Len(k.node)
       /\ \A n \in DOMAIN k.node : k.node[n].up \in 0..n-1

N == 0
Y == 1
Unset == -1
NoSym == "none"

VARIABLES
    tree,      \* the project's Kconfig
    policy,    \* ctx->defaults_policy
    defaults,  \* sdkconfig.defaults
    sdkconfig, \* sdkconfig
    tool,      \* the tool that runs
    phase,     \* where it is
    syms,      \* its symbol table
    iter,      \* iterations of the fixpoint
    turns      \* the user's doings so far

kconfVars == <<tree, policy, defaults, sdkconfig, tool, phase, syms, iter, turns>>
project == <<tree, policy, defaults>>

-----------------------------------------------------------------------------
(* Declarations *)

Sym(k) == DOMAIN k.of
Nodes(k) == DOMAIN k.node
Owners(k, s) == {n \in Nodes(k) : k.node[n].sym = s}
ChoiceSyms(k) == {s \in Sym(k) : \E n \in Owners(k, s) : k.node[n].kind = "choice"}

\* A node's own condition and those of everything around it (pass 1).
CtxDeps(k) ==
    LET c[n \in Nodes(k)] ==
          k.node[n].dep \cup (IF k.node[n].up = 0 THEN {} ELSE c[k.node[n].up])
    IN  c

\* The choice a node is a member of: ifs are transparent, menus are not.
Scopes(k) ==
    LET c[n \in Nodes(k)] ==
          LET up == k.node[n].up
          IN  IF up = 0 THEN NoSym
              ELSE CASE k.node[up].kind = "choice" -> k.node[up].sym
                     [] k.node[up].kind = "if" -> c[up]
                     [] OTHER -> NoSym
    IN  c
ScopeOf(k, s) ==
    LET at == {n \in Owners(k, s) : Scopes(k)[n] # NoSym}
    IN  IF at = {} THEN NoSym ELSE Scopes(k)[CHOOSE n \in at : TRUE]

\* A choice's members in the order they are declared.
MembersOf(k, c) ==
    LET first(s) == CHOOSE n \in Owners(k, s) : \A m \in Owners(k, s) : n <= m
    IN  SetToSortSeq({s \in Sym(k) : ScopeOf(k, s) = c}, LAMBDA a, b : first(a) < first(b))

\* The rules of a kind, in the order they are applied in.
SetRules(k, kind) ==
    FlattenSeq([i \in DOMAIN k.order |->
       LET ps == SelectSeq(k.of[k.order[i]].props, LAMBDA p : p.kind = kind)
       IN  [j \in DOMAIN ps |-> <<k.order[i], ps[j]>>]])

\* What kc_eval finds out about a tree before it resolves it: the conditions
\* of any of a symbol's places (pass 2), those without one left out, who
\* selects and implies it (pass 3), and the choices.
Linked(k) ==
    [order |-> k.order, node |-> k.node, of |-> k.of, renames |-> k.renames,
     kids |-> [n \in {0} \cup Nodes(k) |->
                 FlattenSeq([m \in Nodes(k) |-> IF k.node[m].up = n THEN <<m>> ELSE <<>>])],
     ctx |-> CtxDeps(k),
     deps |-> [s \in Sym(k) |-> {CtxDeps(k)[n] : n \in Owners(k, s)} \ {{}}],
     revs |-> [s \in Sym(k) |->
                 {r \in Sym(k) \X UNION {Range(k.of[x].props) : x \in Sym(k)} :
                     r[2] \in Range(k.of[r[1]].props) /\ r[2].target = s
                     /\ r[2].kind \in {"select", "imply"}}],
     sets |-> SetRules(k, "set") \o SetRules(k, "setDefault"),
     choice |-> [s \in Sym(k) |-> ScopeOf(k, s)],
     choices |-> SelectSeq(k.order, LAMBDA s : s \in ChoiceSyms(k)),
     members |-> [c \in ChoiceSyms(k) |-> MembersOf(k, c)]]

HasAnyPrompt(k, s) == k.of[s].prompt # {}

-----------------------------------------------------------------------------
(* Expressions, over a symbol table t *)

Holds(t, cond) == \A l \in cond : (t[l.sym].cur = Y) = l.is
Some(t, expr) == \E cond \in expr : Holds(t, cond)

DirectDep(k, t, s) ==
    (k.deps[s] = {} \/ Some(t, k.deps[s])) /\ Holds(t, k.of[s].dependsOn)

\* An active symbol selects or implies s, where it says so.
RevDep(k, t, s, kind) ==
    \E r \in k.revs[s] :
       /\ r[2].kind = kind
       /\ t[r[1]].cur = Y /\ Holds(t, r[2].cond) /\ Holds(t, k.ctx[r[2].node])

\* The properties of a kind whose condition holds: the first counts.
Active(k, t, s, kind) ==
    SelectSeq(k.of[s].props, LAMBDA p : p.kind = kind /\ Holds(t, p.cond))

DefaultValue(k, t, s, p) ==
    IF k.of[s].type = "bool" THEN IF Some(t, p.expr) THEN Y ELSE N ELSE p.val

TypeDefault == N

RangeClamp(k, t, s, v) ==
    LET r == Active(k, t, s, "range")
    IN  IF r = <<>> THEN v
        ELSE IF v < Head(r).lo THEN Head(r).lo
        ELSE IF v > Head(r).hi THEN Head(r).hi ELSE v

-----------------------------------------------------------------------------
(* Reading *)

\* option env: a variable that is there counts as a user's value, an absent
\* one as an empty default.
FreshSym(k, s) ==
    LET env == k.of[s].env
        v == CASE env = "none" -> Unset [] env = "y" -> Y [] OTHER -> N
    IN  [cur |-> v, user |-> v, userSet |-> env \in {"y", "n"},
         userSeeded |-> env = "absent", seeded |-> env = "absent",
         visible |-> FALSE, applied |-> FALSE, rank |-> 0]
Fresh(k) == [s \in Sym(k) |-> FreshSym(k, s)]

SetUser(r, v) ==
    [r EXCEPT !.cur = v, !.user = v, !.userSet = TRUE, !.seeded = FALSE, !.userSeeded = FALSE]
SetSeeded(r, v) == [r EXCEPT !.cur = v, !.user = v, !.seeded = TRUE, !.userSeeded = TRUE]

\* A bool is y or n: any other line of it is refused.
Fits(k, s, v) == k.of[s].type # "int" => v \in {N, Y}

\* Mutant: a line of a symbol without a prompt is believed.
ReadLineOfAny(k, r, s, line) ==
    IF ~Fits(k, s, line.val) THEN r
    ELSE IF line.pragma THEN SetSeeded(r, line.val)
    ELSE IF r.cur = Unset \/ (r.cur # line.val /\ ~r.userSet) THEN SetUser(r, line.val)
    ELSE r

\* One line of s.  A symbol without a prompt is nobody's to set.
ReadLine(k, r, s, line) ==
    IF ~HasAnyPrompt(k, s) \/ ~Fits(k, s, line.val) THEN r
    ELSE IF line.pragma THEN SetSeeded(r, line.val)
    ELSE IF r.cur = Unset \/ (r.cur # line.val /\ ~r.userSet) THEN SetUser(r, line.val)
    ELSE r

Renames(k, s) == {a \in k.renames : a.new = s}
Translate(a, v) == IF a.invert THEN 1 - v ELSE v

\* A file: the names of today, then the deprecated ones.
Load(k, t, file) ==
    LET lines(s) == {l \in file : l.name = s}
        olds(s) == {[x[2] EXCEPT !.val = Translate(x[1], @)] :
                       x \in {y \in Renames(k, s) \X file : y[1].old = y[2].name}}
        read(r, s, ls) == FoldSet(LAMBDA l, q : ReadLine(k, q, s, l), r, ls)
    IN  [s \in Sym(k) |-> read(read(t[s], s, lines(s)), s, olds(s))]

-----------------------------------------------------------------------------
(* kc_resolve: a state of it is a symbol table and whether it changed *)

\* Mutant: the marks of the last time stay.
ResetSome(t) == [s \in DOMAIN t |-> [t[s] EXCEPT !.applied = FALSE]]

Reset(t) == [s \in DOMAIN t |-> [t[s] EXCEPT !.rank = 0, !.applied = FALSE, !.seeded = t[s].userSeeded]]

Change(x, s, r) == [t |-> [x.t EXCEPT ![s] = r], changed |-> x.changed \/ r # x.t[s]]

\* What a visible, else a hidden symbol is before others force it.
Given(k, t, s, visible) ==
    LET stick == t[s].userSet \/ (t[s].seeded /\ policy = "sdkconfig")
        ds == Active(k, t, s, "default")
    IN  CASE visible /\ stick -> [val |-> t[s].user, hit |-> t[s].seeded]
          [] visible /\ ~stick /\ ds # <<>> ->
                [val |-> DefaultValue(k, t, s, Head(ds)), hit |-> TRUE]
          [] OTHER -> [val |-> TypeDefault, hit |-> FALSE]

\* A choice's members get their values from EnforceChoice alone.
StepMember(k, x, s, choice) ==
    Change(x, s, [x.t[s] EXCEPT !.visible = DirectDep(k, x.t, s) /\ x.t[choice].visible])

StepOther(k, x, s) ==
    LET t == x.t
        bool == k.of[s].type = "bool"
        dep == DirectDep(k, t, s)
        given == Given(k, t, s, dep)
        selected == bool /\ RevDep(k, t, s, "select")
        visible == dep \/ selected
        implied == bool /\ visible /\ RevDep(k, t, s, "imply")
        val == IF selected \/ implied THEN Y
               ELSE IF bool THEN given.val ELSE RangeClamp(k, t, s, given.val)
    IN  Change(x, s, [t[s] EXCEPT !.cur = val, !.visible = visible, !.applied = given.hit])

\* Mutant: a choice's members are stepped like any symbol.
StepMembersToo(k, x, s) == StepOther(k, x, s)

StepSym(k, x, s) ==
    IF k.choice[s] = NoSym THEN StepOther(k, x, s) ELSE StepMember(k, x, s, k.choice[s])

\* The last member the user set to y, else the first default that names a
\* member, else the first member.
Winner(k, t, c) ==
    LET ms == k.members[c]
        set == SelectSeq(ms, LAMBDA m : t[m].userSet /\ t[m].cur = Y)
        named == SelectSeq(Active(k, t, c, "default"), LAMBDA p : p.target \in Range(ms))
    IN  IF set # <<>> THEN Last(set)
        ELSE IF named # <<>> THEN Head(named).target
        ELSE Head(ms)

EnforceChoice(k, x, c) ==
    LET win == IF x.t[c].visible THEN Winner(k, x.t, c) ELSE NoSym
        val(m) == IF m = win THEN Y ELSE N
        ms == Range(k.members[c])
    IN  [t |-> [s \in Sym(k) |-> IF s \in ms THEN [x.t[s] EXCEPT !.cur = val(s)] ELSE x.t[s]],
         changed |-> x.changed \/ \E m \in ms : x.t[m].cur # val(m)]

\* One round of the fixpoint: every symbol, then every choice.
Round(k, t) ==
    LET step[i \in 0..Len(k.order)] ==
          IF i = 0 THEN [t |-> t, changed |-> FALSE] ELSE StepSym(k, step[i - 1], k.order[i])
        enforce[i \in 0..Len(k.choices)] ==
          IF i = 0 THEN step[Len(k.order)] ELSE EnforceChoice(k, enforce[i - 1], k.choices[i])
    IN  enforce[Len(k.choices)]

\* An active symbol's rule about another one.
ApplyRule(k, t, src, p) ==
    LET rank == IF p.kind = "set" THEN 2 ELSE 1
    IN  IF t[src].cur = Y /\ Holds(t, p.cond) /\ t[p.target].rank < rank
          THEN [t EXCEPT ![p.target] =
                  [@ EXCEPT !.cur = DefaultValue(k, t, p.target, p), !.seeded = TRUE,
                            !.visible = TRUE, !.rank = rank]]
          ELSE t

ApplySets(k, t) ==
    LET after[i \in 0..Len(k.sets)] ==
          IF i = 0 THEN t ELSE ApplyRule(k, after[i - 1], k.sets[i][1], k.sets[i][2])
    IN  after[Len(k.sets)]

\* What resolving a table ends with, sets included.
Outcome(k, t) ==
    LET r[i \in 0..MaxIters] ==
          IF i = 0 THEN [t |-> Reset(t), changed |-> TRUE]
          ELSE LET x == r[i - 1] IN IF x.changed THEN Round(k, x.t) ELSE x
    IN  ApplySets(k, r[MaxIters].t)

-----------------------------------------------------------------------------
(* Writing *)

\* The place a symbol is declared at: of several, the last.
Decl(k, s) == CHOOSE n \in Owners(k, s) : \A m \in Owners(k, s) : m <= n

\* No menu around a node is hidden by its visible if.
Shown(k, t) ==
    LET c[n \in Nodes(k)] ==
          Holds(t, k.node[n].visibleIf) /\ (k.node[n].up = 0 \/ c[k.node[n].up])
    IN  c

HasPrompt(k, t, s) == Shown(k, t)[Decl(k, s)] /\ Some(t, k.of[s].prompt)

ShouldEmit(k, t, s) ==
    /\ s \notin Range(k.choices)
    /\ IF HasPrompt(k, t, s) THEN t[s].visible
       ELSE IF k.of[s].type = "bool" THEN t[s].cur = Y
       ELSE t[s].visible /\ (t[s].applied \/ t[s].userSet)

\* sdkconfig: what a default made is told from what the user set, except
\* under a deprecated name.
ConfigLines(k, t) ==
    LET emitted == {s \in Sym(k) : ShouldEmit(k, t, s)}
    IN  {[name |-> s, val |-> t[s].cur, pragma |-> ~t[s].userSet] : s \in emitted}
          \cup {[name |-> a.old, val |-> Translate(a, t[a.new].cur), pragma |-> FALSE] :
                   a \in {b \in k.renames : b.new \in emitted}}

\* sdkconfig.h: a bool that is n is not defined, and an old name is one for
\* the new, where that is defined and the old did not mean its opposite.
HeaderLines(k, t) ==
    LET defined == {s \in Sym(k) : ShouldEmit(k, t, s) /\ (k.of[s].type = "bool" => t[s].cur = Y)}
    IN  {[name |-> s, val |-> t[s].cur] : s \in defined}
          \cup {[name |-> a.old, val |-> t[a.new].cur] :
                   a \in {b \in k.renames : b.new \in defined /\ ~b.invert}}

\* savedefconfig: what differs from the default its declaration gives.
MinLines(k, t) ==
    LET default(s) ==
          LET ds == Active(k, t, s, "default")
          IN  IF ds = <<>> THEN TypeDefault ELSE DefaultValue(k, t, s, Head(ds))
    IN  {[name |-> s, val |-> t[s].cur, pragma |-> FALSE] :
            s \in {x \in Sym(k) : ShouldEmit(k, t, x) /\ t[x].cur # default(x)}}

-----------------------------------------------------------------------------
(* The tools *)

KInit ==
    /\ tree \in {Linked(k) : k \in Trees}
    /\ policy \in Policies
    /\ defaults \in Defaults(tree)
    /\ sdkconfig \in Sdkconfigs(tree)
    /\ tool = "none" /\ phase = "off"
    /\ syms = Fresh(tree)
    /\ iter = 0 /\ turns = 0

\* A new process: nothing but the declarations and the environment.
Run ==
    /\ phase = "off" /\ turns < MaxTurns
    /\ tool' \in Tools
    /\ syms' = Fresh(tree)
    /\ phase' = "defaults" /\ turns' = turns + 1
    /\ UNCHANGED <<project, sdkconfig, iter>>

LoadDefaults ==
    /\ phase = "defaults"
    /\ syms' = Load(tree, syms, defaults)
    /\ phase' = "config"
    /\ UNCHANGED <<project, sdkconfig, tool, iter, turns>>

LoadConfig ==
    /\ phase = "config"
    /\ syms' = Reset(Load(tree, syms, sdkconfig))
    /\ phase' = "resolve" /\ iter' = 0
    /\ UNCHANGED <<project, sdkconfig, tool, turns>>

\* Rounds until nothing changes, and not too many: then it dies.
Resolve ==
    /\ phase = "resolve"
    /\ LET x == Round(tree, syms)
       IN  /\ syms' = x.t
           /\ iter' = IF x.changed THEN iter + 1 ELSE iter
           /\ phase' = IF ~x.changed THEN "sets"
                       ELSE IF iter + 1 >= MaxIters THEN "dead" ELSE "resolve"
    /\ UNCHANGED <<project, sdkconfig, tool, turns>>

Set ==
    /\ phase = "sets"
    /\ syms' = ApplySets(tree, syms)
    /\ phase' = IF tool = "kconfgen" THEN "write" ELSE "menu"
    /\ UNCHANGED <<project, sdkconfig, tool, iter, turns>>

\* kconfgen --output config:sdkconfig
WriteConfig ==
    /\ phase = "write"
    /\ sdkconfig' = ConfigLines(tree, syms)
    /\ phase' = "off" /\ tool' = "none"
    /\ UNCHANGED <<project, syms, iter, turns>>

\* The user changes a line of sdkconfig by hand, and the line above it, if
\* there is one, or not.
EditByHand ==
    /\ phase = "off" /\ turns < MaxTurns
    /\ \E l \in sdkconfig : \E v \in Typed, p \in BOOLEAN :
          /\ v # l.val /\ p => l.pragma
          /\ sdkconfig' = (sdkconfig \ {l}) \cup {[l EXCEPT !.val = v, !.pragma = p]}
    /\ turns' = turns + 1
    /\ UNCHANGED <<project, tool, phase, syms, iter>>

-----------------------------------------------------------------------------
(* menuconfig *)

\* What search and menus go into: not into a symbol.
Searched(k) ==
    LET s[n \in {0} \cup Nodes(k)] ==
          n # 0 => k.node[n].kind \in {"menu", "choice", "if"} /\ s[k.node[n].up]
    IN  s

\* What a user can put the cursor on: search finds it whatever menus hide it.
Listed(s) ==
    /\ phase = "menu" /\ turns < MaxTurns
    /\ syms[s].visible /\ Some(syms, tree.of[s].prompt)
    /\ \E n \in Owners(tree, s) : Searched(tree)[tree.node[n].up]

\* A key that changes s: the table is resolved again from what was set.
Changes(t, s, v) ==
    /\ syms' = Reset([t EXCEPT ![s] = SetUser(@, v)])
    /\ phase' = "resolve" /\ iter' = 0 /\ turns' = turns + 1
    /\ UNCHANGED <<project, sdkconfig, tool>>

Toggle(s) ==
    /\ Listed(s) /\ tree.of[s].type = "bool" /\ tree.choice[s] = NoSym
    /\ Changes(syms, s, 1 - syms[s].cur)

\* A choice's member is picked; the others are nobody's pick any more.
Pick(s) ==
    /\ Listed(s) /\ tree.choice[s] # NoSym
    /\ LET sibling(m) == m # s /\ tree.choice[m] = tree.choice[s]
       IN  Changes([m \in Sym(tree) |->
                      IF sibling(m) THEN [syms[m] EXCEPT !.userSet = FALSE, !.userSeeded = FALSE]
                      ELSE syms[m]], s, Y)

EditValue(s) ==
    /\ Listed(s) /\ tree.of[s].type = "int"
    /\ \E v \in Typed : Changes(syms, s, v)

Save ==
    /\ phase = "menu"
    /\ sdkconfig' = ConfigLines(tree, syms)
    /\ UNCHANGED <<project, tool, phase, syms, iter, turns>>

Quit ==
    /\ phase = "menu"
    /\ phase' = "off" /\ tool' = "none"
    /\ UNCHANGED <<project, sdkconfig, syms, iter, turns>>

KNext ==
    \/ Run \/ LoadDefaults \/ LoadConfig \/ Resolve \/ Set \/ WriteConfig \/ EditByHand
    \/ \E s \in Sym(tree) : Toggle(s) \/ Pick(s) \/ EditValue(s)
    \/ Save \/ Quit

KSpec == KInit /\ [][KNext]_kconfVars

-----------------------------------------------------------------------------
(* Properties *)

Resolved == phase \in {"write", "menu"}

Values(t) == [s \in DOMAIN t |-> <<t[s].cur, t[s].visible>>]
Inputs(t) == [s \in DOMAIN t |-> [t[s] EXCEPT !.cur = t[s].user, !.visible = FALSE]]

\* "fixpoint did not converge" is never said: the rounds needed are fewer
\* than the symbols there are.
Settles == phase # "dead" /\ iter <= Cardinality(Sym(tree)) + 1

\* However often the table was resolved before, and whatever was hidden or
\* forced meanwhile, the configuration is the one the user's inputs have.  A
\* user's n for a choice's member is left out: enforce_choice takes a member
\* that is y by default for picked when the user has set it, even to n.
NoLeftovers ==
    Resolved /\ (\A s \in Sym(tree) : tree.choice[s] # NoSym /\ syms[s].userSet => syms[s].user = Y)
      => Values(syms) = Values(Outcome(tree, Inputs(syms)))

\* Generating again from what is written (kc_io.c) changes nothing, and a minimal
\* configuration makes the whole one again.
Again(lines) == Outcome(tree, Load(tree, Fresh(tree), lines))
RoundTrip ==
    Resolved =>
       /\ ConfigLines(tree, Again(ConfigLines(tree, syms))) = ConfigLines(tree, syms)
       /\ LET again == Again(MinLines(tree, syms))
          IN  \A s \in Sym(tree) \ Range(tree.choices) :
                 ShouldEmit(tree, syms, s) => again[s].cur = syms[s].cur
=============================================================================
