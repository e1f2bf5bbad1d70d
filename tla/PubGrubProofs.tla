---------------------------- MODULE PubGrubProofs ----------------------------
(***************************************************************************)
(* Proofs about PubGrub, for every set of packages, every number of        *)
(* versions and every sequence of calls: the solver's answer is a          *)
(* solution, and it answers that there is none only when there is none.    *)
(***************************************************************************)
EXTENDS PubGrub, SequenceTheorems, TLAPS

GoodDep == [pkg : Pkg, spec : SUBSET Ver]

LEMMA VerFacts == Ver \subseteq Nat /\ NoVer \notin Ver /\ BadVersion \notin Ver
                  /\ BadSpec \notin SUBSET Ver
<1>1. -1 \notin Ver /\ 0 \notin Ver /\ Ver \subseteq Nat
      BY MaxVerAssumption DEF Ver
<1> QED BY <1>1 DEF NoVer, BadVersion, BadSpec

LEMMA GoodDeps == ASSUME NEW d \in Dep, d.spec # BadSpec
                  PROVE  d \in GoodDep
BY DEF Dep, GoodDep, Specs

\* The head of the script is a call, with the fields its name says.
LEMMA HeadCall ==
    ASSUME script \in Seq(Call), script # <<>>
    PROVE  /\ Tail(script) \in Seq(Call)
           /\ Head(script).op = "root" => Head(script).dep \in Dep
           /\ Head(script).op = "add" =>
                 /\ Head(script).pkg \in Pkg
                 /\ Head(script).ver \in Ver \cup {BadVersion}
                 /\ Head(script).deps \in Seq(Dep)
<1>1. Head(script) \in Call /\ Tail(script) \in Seq(Call)
      BY HeadTailProperties
<1> QED BY <1>1 DEF Call

\* While a call is served it stays at the head of the script; the dependencies
\* of a version being added have been read, and interned, up to index i.
CallServed ==
    /\ pc # "idle" => script # <<>>
    /\ pc = "adding" =>
         /\ Head(script).op = "add"
         /\ Head(script).ver \in Ver
         /\ Head(script).ver \notin vers[Head(script).pkg]
         /\ i \in 1..(Len(Head(script).deps) + 1)
         /\ \A k \in 1..(i - 1) : /\ Head(script).deps[k] \in GoodDep
                                  /\ Head(script).deps[k].pkg \in Interned
    /\ pc \in {"roots", "deps"} => i \in Nat \ {0}

\* Whatever is required has been interned, and has a specification that parsed.
RegistryInv ==
    /\ roots \in Seq(GoodDep)
    /\ \A k \in 1..Len(roots) : roots[k].pkg \in Interned
    /\ deps \in [Pkg -> [Ver -> Seq(GoodDep)]]
    /\ \A p \in Pkg : \A v \in Ver : \A k \in 1..Len(deps[p][v]) :
          deps[p][v][k].pkg \in Interned

Registered == TypeOK /\ CallServed /\ RegistryInv

LEMMA InternGrows ==
    ASSUME order \in Seq(Pkg), NEW p \in Pkg, order' = Intern(p)
    PROVE  /\ order' \in Seq(Pkg)
           /\ Interned \subseteq Interned'
           /\ p \in Interned'
<1>1. CASE p \in Interned
      BY <1>1 DEF Intern, Interned
<1>2. CASE p \notin Interned
  <2>1. order' = Append(order, p)
        BY <1>2 DEF Intern
  <2>2. /\ order' \in Seq(Pkg)
        /\ Len(order') = Len(order) + 1
        /\ \A k \in 1..Len(order) : order'[k] = order[k]
        /\ order'[Len(order) + 1] = p
        BY <2>1, AppendProperties
  <2>3. Len(order) \in Nat
        OBVIOUS
  <2> QED BY <2>2, <2>3 DEF Interned
<1> QED BY <1>1, <1>2

LEMMA InitRegistered == Init => Registered
<1> SUFFICES ASSUME Init PROVE Registered
    OBVIOUS
<1> USE ScriptsAssumption DEF Init
<1>1. TypeOK
  <2>1. \A S : <<>> \in Seq(S)
        OBVIOUS
  <2> QED BY <2>1 DEF TypeOK, Undecided, ConsEntry
<1>2. CallServed
      BY DEF CallServed
<1>3. RegistryInv
      BY DEF RegistryInv
<1> QED BY <1>1, <1>2, <1>3 DEF Registered

\* A call that returns without having changed anything.
LEMMA IdleStep ==
    ASSUME Registered, pc' = "idle", script' = Tail(script), Tail(script) \in Seq(Call),
           UNCHANGED <<order, vers, deps, roots, i, cons, decided, frames,
                       result, chosen>>
    PROVE  Registered'
<1> USE DEF Registered
<1>1. TypeOK'
      BY DEF TypeOK
<1>2. RegistryInv'
      BY DEF RegistryInv, Interned
<1>3. CallServed'
      BY DEF CallServed
<1> QED BY <1>1, <1>2, <1>3

LEMMA RegistrationStep ==
    ASSUME Registered, RootDep \/ Add \/ AddDepName \/ AddVersion
    PROVE  Registered'
<1> USE DEF Registered
<1>1. CASE RootDep
  <2>1. script # <<>> /\ Head(script).dep \in Dep /\ Tail(script) \in Seq(Call)
        BY <1>1, HeadCall DEF RootDep, Called, TypeOK
  <2>2. CASE Head(script).dep.spec = BadSpec
    <3>1. /\ pc' = "idle" /\ script' = Tail(script)
          /\ UNCHANGED <<order, vers, deps, roots, i, cons, decided, frames,
                         result, chosen>>
          BY <1>1, <2>2 DEF RootDep, Returned, registry, search, answer
    <3> QED BY <2>1, <3>1, IdleStep
  <2>3. CASE Head(script).dep.spec # BadSpec
    <3> DEFINE d == Head(script).dep
    <3>1. /\ order' = Intern(d.pkg) /\ roots' = Append(roots, d)
          /\ vers' = vers /\ deps' = deps /\ pc' = "idle" /\ i' = i
          /\ script' = Tail(script)
          /\ UNCHANGED <<cons, decided, frames, result, chosen>>
          BY <1>1, <2>3 DEF RootDep, Returned, search, answer
    <3>2. d \in GoodDep /\ d.pkg \in Pkg
          BY <2>1, <2>3, GoodDeps DEF Dep
    <3>3. order' \in Seq(Pkg) /\ Interned \subseteq Interned' /\ d.pkg \in Interned'
          BY <3>1, <3>2, InternGrows DEF TypeOK
    <3>4. /\ roots' \in Seq(GoodDep) /\ roots' \in Seq(Dep)
          /\ Len(roots') = Len(roots) + 1
          /\ \A k \in 1..Len(roots) : roots'[k] = roots[k]
          /\ roots'[Len(roots) + 1] = d
      <4>1. roots \in Seq(GoodDep) /\ roots \in Seq(Dep) /\ d \in Dep
            BY <2>1 DEF RegistryInv, TypeOK
      <4> QED BY <3>1, <3>2, <4>1, AppendProperties
    <3>5. TypeOK'
          BY <2>1, <3>1, <3>3, <3>4 DEF TypeOK
    <3>6. RegistryInv'
          BY <3>1, <3>3, <3>4 DEF RegistryInv, TypeOK
    <3>7. CallServed'
          BY <3>1 DEF CallServed
    <3> QED BY <3>5, <3>6, <3>7
  <2> QED BY <2>2, <2>3
<1>2. CASE Add
  <2>1. /\ script # <<>> /\ Tail(script) \in Seq(Call)
        /\ Head(script).op = "add"
        /\ Head(script).pkg \in Pkg
        /\ Head(script).ver \in Ver \cup {BadVersion}
        /\ Head(script).deps \in Seq(Dep)
        BY <1>2, HeadCall DEF Add, Called, TypeOK
  <2>2. CASE Head(script).ver = BadVersion
    <3>1. /\ pc' = "idle" /\ script' = Tail(script)
          /\ UNCHANGED <<order, vers, deps, roots, i, cons, decided, frames,
                         result, chosen>>
          BY <1>2, <2>2 DEF Add, Returned, registry, search, answer
    <3> QED BY <2>1, <3>1, IdleStep
  <2>3. CASE Head(script).ver # BadVersion
    <3>1. /\ order' = Intern(Head(script).pkg)
          /\ vers' = vers /\ deps' = deps /\ roots' = roots
          /\ UNCHANGED <<cons, decided, frames, result, chosen>>
          /\ \/ pc' = "idle" /\ script' = Tail(script) /\ i' = i
             \/ /\ pc' = "adding" /\ i' = 1 /\ script' = script
                /\ Head(script).ver \notin vers[Head(script).pkg]
          BY <1>2, <2>3 DEF Add, Returned, search, answer
    <3>2. order' \in Seq(Pkg) /\ Interned \subseteq Interned'
          BY <2>1, <3>1, InternGrows DEF TypeOK
    <3>3. TypeOK'
      <4>1. script' \in Seq(Call) /\ i' \in Nat /\ pc' \in {"idle", "adding"}
        <5>1. script \in Seq(Call) /\ i \in Nat
              BY DEF TypeOK
        <5>2. CASE pc' = "idle" /\ script' = Tail(script) /\ i' = i
              BY <2>1, <5>1, <5>2
        <5>3. CASE pc' = "adding" /\ i' = 1 /\ script' = script
              BY <5>1, <5>3
        <5> QED BY <3>1, <5>2, <5>3
      <4> QED BY <3>1, <3>2, <4>1 DEF TypeOK
    <3>4. RegistryInv'
          BY <3>1, <3>2 DEF RegistryInv, TypeOK
    <3>5. CallServed'
          BY <2>1, <2>3, <3>1 DEF CallServed
    <3> QED BY <3>3, <3>4, <3>5
  <2> QED BY <2>2, <2>3
<1>3. CASE AddDepName
  <2>1. /\ script # <<>> /\ Tail(script) \in Seq(Call)
        /\ Head(script).deps \in Seq(Dep) /\ i \in 1..Len(Head(script).deps)
        BY <1>3, HeadCall DEF AddDepName, TypeOK, CallServed
  <2>2. CASE Head(script).deps[i].spec = BadSpec
    <3>1. /\ pc' = "idle" /\ script' = Tail(script)
          /\ UNCHANGED <<order, vers, deps, roots, i, cons, decided, frames,
                         result, chosen>>
          BY <1>3, <2>1, <2>2 DEF AddDepName, Returned, search, answer
    <3> QED BY <2>1, <3>1, IdleStep
  <2>3. CASE Head(script).deps[i].spec # BadSpec
    <3> DEFINE d == Head(script).deps[i]
    <3>1. /\ order' = Intern(d.pkg) /\ i' = i + 1
          /\ vers' = vers /\ deps' = deps /\ roots' = roots
          /\ pc' = pc /\ script' = script
          /\ UNCHANGED <<cons, decided, frames, result, chosen>>
          BY <1>3, <2>3 DEF AddDepName, search, answer
    <3>2. d \in GoodDep /\ d.pkg \in Pkg
      <4>1. d \in Dep
            BY <2>1, ElementOfSeq
      <4> QED BY <4>1, <2>3, GoodDeps DEF Dep
    <3>3. order' \in Seq(Pkg) /\ Interned \subseteq Interned' /\ d.pkg \in Interned'
          BY <3>1, <3>2, InternGrows DEF TypeOK
    <3>4. TypeOK'
          BY <3>1, <3>3 DEF TypeOK
    <3>5. RegistryInv'
          BY <3>1, <3>3 DEF RegistryInv, TypeOK
    <3>6. CallServed'
      <4>1. pc = "adding"
            BY <1>3 DEF AddDepName
      <4>2. \A k \in 1..((i + 1) - 1) : k = i \/ k \in 1..(i - 1)
            BY <2>1
      <4>3. i + 1 \in 1..(Len(Head(script).deps) + 1)
            BY <2>1
      <4> QED BY <3>1, <3>2, <3>3, <4>1, <4>2, <4>3 DEF CallServed
    <3> QED BY <3>4, <3>5, <3>6
  <2> QED BY <2>2, <2>3
<1>4. CASE AddVersion
  <2> DEFINE c == Head(script)
  <2>1. /\ script # <<>> /\ Tail(script) \in Seq(Call)
        /\ c.pkg \in Pkg /\ c.ver \in Ver
        /\ c.deps \in Seq(Dep) /\ i \in 1..(Len(c.deps) + 1) /\ i > Len(c.deps)
        BY <1>4, HeadCall DEF AddVersion, TypeOK, CallServed
  <2>2. /\ vers' = [vers EXCEPT ![c.pkg] = @ \cup {c.ver}]
        /\ deps' = [deps EXCEPT ![c.pkg][c.ver] = c.deps]
        /\ pc' = "idle" /\ script' = Tail(script)
        /\ UNCHANGED <<order, roots, i, cons, decided, frames, result, chosen>>
        BY <1>4 DEF AddVersion, Returned, search, answer
  <2>3. \A k \in 1..Len(c.deps) : c.deps[k] \in GoodDep /\ c.deps[k].pkg \in Interned
        BY <1>4, <2>1 DEF CallServed, AddVersion
  <2>4. c.deps \in Seq(GoodDep)
        BY <2>1, <2>3, ElementOfSeq
  <2>5. TypeOK'
    <3>1. vers[c.pkg] \cup {c.ver} \subseteq Ver
          BY <2>1 DEF TypeOK
    <3>2. vers' \in [Pkg -> SUBSET Ver]
          BY <2>2, <3>1 DEF TypeOK
    <3>3. deps' \in [Pkg -> [Ver -> Seq(Dep)]]
          BY <2>1, <2>2 DEF TypeOK
    <3> QED BY <2>1, <2>2, <3>2, <3>3 DEF TypeOK
  <2>6. RegistryInv'
    <3>1. deps' \in [Pkg -> [Ver -> Seq(GoodDep)]]
          BY <2>1, <2>2, <2>4 DEF RegistryInv
    <3>2. \A p \in Pkg : \A v \in Ver :
             deps'[p][v] = IF p = c.pkg /\ v = c.ver THEN c.deps ELSE deps[p][v]
          BY <2>1, <2>2 DEF TypeOK
    <3>3. Interned' = Interned
          BY <2>2 DEF Interned
    <3> QED BY <2>2, <2>3, <3>1, <3>2, <3>3 DEF RegistryInv
  <2>7. CallServed'
        BY <2>2 DEF CallServed
  <2> QED BY <2>5, <2>6, <2>7
<1> QED BY <1>1, <1>2, <1>3, <1>4

-----------------------------------------------------------------------------
(* The search.  The invariant has four parts: what has been recorded while
   the roots are added, what the stack decides, what the constraints stem
   from, and which solutions the search has not passed by. *)

RootsInv ==
    pc = "roots" =>
      /\ frames = <<>> /\ decided = Undecided
      /\ \A k \in 1..Len(roots) : k < i => Entry(roots[k], 0) \in cons
      /\ \A c \in cons : \E k \in 1..Len(roots) : c = Entry(roots[k], 0)

StackInv ==
    Searching =>
      /\ pc # "step" => Depth > 0
      /\ \A k \in 1..Depth : frames[k].left \subseteq vers[frames[k].pkg]
      /\ \A k \in Deciding : /\ frames[k].ver \in vers[frames[k].pkg]
                             /\ decided[frames[k].pkg] = frames[k].ver
                             /\ \A u \in frames[k].left : u < frames[k].ver
      /\ \A k, l \in 1..Depth : k # l => frames[k].pkg # frames[l].pkg
      /\ \A p \in Pkg : decided[p] # NoVer =>
            \E k \in Deciding : frames[k].pkg = p

\* Dependency j of frame k has been turned into a constraint.
Recorded(k, j) == k < Depth \/ pc \in {"step", "loop"} \/ (pc = "deps" /\ j < i)

ConsInv ==
    Searching =>
      /\ \A c \in cons : Justified(c)
      /\ \A k \in 1..Len(roots) : Entry(roots[k], 0) \in cons
      /\ \A k \in Deciding : \A j \in 1..Len(DepsOf(k)) :
            Recorded(k, j) => Entry(DepsOf(k)[j], k) \in cons
      /\ \A c \in cons : decided[c.pkg] # NoVer =>
            \/ decided[c.pkg] \in c.spec
            \/ pc = "backtrack" /\ c.src = Depth

Agrees(s, n) == \A k \in 1..n : s[frames[k].pkg] = frames[k].ver

\* A solution still to be found: it differs from the stack first at a frame
\* that has yet to try the solution's version, or it extends the stack and the
\* search is about to look there.
Ahead(s) ==
    \/ \E k \in 1..Depth : Agrees(s, k - 1) /\ s[frames[k].pkg] \in frames[k].left
    \/ pc \in {"step", "deps"} /\ Agrees(s, Depth)

CoverInv == Searching => \A s : Solution(s) => Ahead(s)

SearchInv == RootsInv /\ StackInv /\ ConsInv /\ CoverInv

\* What the registry gives: types of the things the search reads.
LEMMA FrameTyped ==
    ASSUME Registered, NEW k \in 1..Depth
    PROVE  /\ frames[k].pkg \in Pkg
           /\ frames[k].ver \in Ver \cup {NoVer}
           /\ frames[k].left \in SUBSET Ver
<1>1. frames[k] \in Frame
      BY ElementOfSeq DEF Registered, TypeOK, Depth
<1> QED BY <1>1 DEF Frame

\* A solution that agrees with all deciding frames meets every constraint.
LEMMA SolutionMeetsCons ==
    ASSUME Registered, NEW s, Solution(s), NEW c \in cons, Justified(c),
           \A k \in Deciding : s[frames[k].pkg] = frames[k].ver,
           \A k \in Deciding : frames[k].ver \in Ver
    PROVE  s[c.pkg] # NoVer /\ s[c.pkg] \in c.spec /\ s[c.pkg] \in vers[c.pkg]
<1> USE DEF Solution, Abs!Solution, Abs!Meets
<1>0. c.pkg \in Pkg
      BY DEF Registered, TypeOK, ConsEntry
<1>1. s[c.pkg] # NoVer /\ s[c.pkg] \in c.spec
  <2>1. ASSUME NEW k \in 1..Len(roots), c = Entry(roots[k], 0)
        PROVE  s[c.pkg] # NoVer /\ s[c.pkg] \in c.spec
        BY <2>1 DEF Entry
  <2>2. ASSUME NEW k \in Deciding, NEW j \in 1..Len(DepsOf(k)),
               c = Entry(DepsOf(k)[j], k)
        PROVE  s[c.pkg] # NoVer /\ s[c.pkg] \in c.spec
    <3>1. k \in 1..Depth
          BY DEF Deciding, Depth, Registered, TypeOK
    <3>2. frames[k].pkg \in Pkg
          BY <3>1, FrameTyped
    <3>3. s[frames[k].pkg] = frames[k].ver /\ frames[k].ver # NoVer
          BY VerFacts
    <3>4. Abs!Meets(s, DepsOf(k)[j])
          BY <3>2, <3>3 DEF DepsOf
    <3> QED BY <2>2, <3>4 DEF Entry
  <2> QED BY <2>1, <2>2 DEF Justified
<1> QED BY <1>0, <1>1

\* In the loop nothing is in conflict, at a frame's top nothing is decided.
LEMMA StackTop ==
    ASSUME Registered, StackInv, Searching
    PROVE  /\ Depth \in Nat /\ Deciding \subseteq 1..Depth
           /\ pc # "step" => Depth \in 1..Depth
           /\ pc = "loop" => Deciding = 1..(Depth - 1) /\ decided[Top.pkg] = NoVer
           /\ pc # "loop" => Deciding = 1..Depth
           /\ \A k \in Deciding : frames[k].ver \in Ver
<1>1. Depth \in Nat
      BY DEF Depth, Registered, TypeOK
<1>2. Deciding \subseteq 1..Depth
      BY <1>1 DEF Deciding
<1>3. pc # "step" => Depth \in 1..Depth
      BY <1>1 DEF StackInv
<1>4. pc = "loop" => Deciding = 1..(Depth - 1) /\ decided[Top.pkg] = NoVer
      BY <1>1, <1>3, FrameTyped DEF StackInv, Deciding, Top
<1>5. pc # "loop" => Deciding = 1..Depth
      BY DEF Deciding
<1>6. \A k \in Deciding : frames[k].ver \in Ver
      BY <1>2, FrameTyped DEF StackInv, Registered, TypeOK
<1> QED BY <1>1, <1>2, <1>3, <1>4, <1>5, <1>6

\* The search leaves the registry alone.
LEMMA SearchRegistered ==
    ASSUME Registered, UNCHANGED registry,
           script' = script \/ (script' = Tail(script) /\ pc' = "idle"),
           script # <<>>,
           pc' \in {"idle", "roots", "step", "loop", "deps", "backtrack"},
           i' \in Nat, pc' \in {"roots", "deps"} => i' # 0,
           cons' \subseteq ConsEntry, decided' \in [Pkg -> Ver \cup {NoVer}],
           frames' \in Seq(Frame), result' \in {"none", "error", "solved"},
           chosen' \in [Pkg -> Ver \cup {NoVer}]
    PROVE  Registered'
<1> USE DEF Registered, registry
<1>1. script' \in Seq(Call)
      BY HeadCall DEF TypeOK
<1>2. TypeOK'
      BY <1>1 DEF TypeOK
<1>3. RegistryInv'
      BY DEF RegistryInv, Interned
<1>4. CallServed'
      BY DEF CallServed
<1> QED BY <1>2, <1>3, <1>4

LEMMA EntryTyped ==
    ASSUME NEW d \in GoodDep, NEW n \in Nat
    PROVE  Entry(d, n) \in ConsEntry
BY DEF GoodDep, Entry, ConsEntry

LEMMA SolveStep ==
    ASSUME Registered, Solve
    PROVE  Registered' /\ SearchInv'
<1>1. Registered'
  <2>1. script # <<>>
        BY DEF Solve, Called
  <2>2. Undecided \in [Pkg -> Ver \cup {NoVer}]
        BY DEF Undecided
  <2>3. <<>> \in Seq(Frame)
        OBVIOUS
  <2>4. cons' = {} /\ decided' = Undecided /\ frames' = <<>> /\ i' = 1
        /\ chosen' = Undecided /\ UNCHANGED registry
        /\ result' \in {"solved", "none"} /\ pc' \in {"idle", "roots"}
        /\ (script' = script \/ (script' = Tail(script) /\ pc' = "idle"))
        BY DEF Solve, Returned
  <2> QED BY <2>1, <2>2, <2>3, <2>4, SearchRegistered
<1>2. RootsInv'
  <2>1. roots \in Seq(GoodDep) /\ roots' = roots /\ i' = 1 /\ cons' = {}
        /\ frames' = <<>> /\ decided' = Undecided
        BY DEF Solve, registry, Registered, RegistryInv
  <2> QED BY <2>1 DEF RootsInv, Undecided
<1>3. ~Searching'
      BY DEF Solve, Searching, Returned
<1> QED BY <1>1, <1>2, <1>3 DEF SearchInv, StackInv, ConsInv, CoverInv

\* A conflict among the roots means that no solution exists.
LEMMA RootConstraintStep ==
    ASSUME Registered, SearchInv, RootConstraint
    PROVE  /\ Registered' /\ SearchInv'
           /\ pc' = "idle" => result' = "error" /\ \A s : ~Solution(s)
<1> DEFINE d == roots[i]
<1>1. /\ pc = "roots" /\ i \in 1..Len(roots) /\ i' = i + 1
      /\ cons' = cons \cup {Entry(d, 0)}
      /\ UNCHANGED registry /\ decided' = decided /\ frames' = frames
      /\ d \in GoodDep /\ script # <<>>
  <2>1. roots \in Seq(GoodDep) /\ i \in Nat \ {0} /\ script # <<>> /\ pc = "roots"
        BY DEF Registered, RegistryInv, CallServed, RootConstraint
  <2> QED BY <2>1, ElementOfSeq DEF RootConstraint, AddConstraint
<1>2. \/ Conflict(d, cons') /\ pc' = "idle" /\ script' = Tail(script)
         /\ result' = "error" /\ chosen' = Undecided
      \/ pc' = "roots" /\ UNCHANGED <<script, result, chosen>>
      BY <1>1 DEF RootConstraint, SearchFails, Returned, answer
<1>3. Registered'
  <2>1. cons' \subseteq ConsEntry
        BY <1>1, EntryTyped DEF Registered, TypeOK
  <2>2. Undecided \in [Pkg -> Ver \cup {NoVer}]
        BY DEF Undecided
  <2>3. i' \in Nat /\ i' # 0
        BY <1>1
  <2> QED BY <1>1, <1>2, <2>1, <2>2, <2>3, SearchRegistered DEF Registered, TypeOK
<1>4. \A c \in cons' : \E k \in 1..Len(roots) : c = Entry(roots[k], 0)
      BY <1>1 DEF SearchInv, RootsInv
<1>5. RootsInv'
  <2>1. \A k \in 1..Len(roots) : k < i + 1 => k < i \/ k = i
        BY <1>1 DEF Registered, TypeOK
  <2> QED BY <1>1, <1>4, <2>1 DEF SearchInv, RootsInv, registry
<1>6. ASSUME Conflict(d, cons'), NEW s, Solution(s)
      PROVE  FALSE
  <2> USE DEF Solution, Abs!Solution, Abs!Meets
  <2>1. d.pkg \in Pkg /\ decided[d.pkg] = NoVer
        BY <1>1 DEF SearchInv, RootsInv, Undecided, GoodDep
  <2>2. Viable(cons', d.pkg) = {}
        BY <1>6, <2>1 DEF Conflict
  <2>3. s[d.pkg] \in vers[d.pkg]
        BY <1>1, <1>6, <2>1
  <2>4. \A c \in cons' : c.pkg = d.pkg => s[d.pkg] \in c.spec
        BY <1>4, <1>6 DEF Entry
  <2> QED BY <2>2, <2>3, <2>4 DEF Viable, VersionOk
<1>7. ~Searching'
      BY <1>2 DEF Searching
<1> QED BY <1>2, <1>3, <1>5, <1>6, <1>7 DEF SearchInv, StackInv, ConsInv, CoverInv

LEMMA RootsDoneStep ==
    ASSUME Registered, SearchInv, RootsDone
    PROVE  Registered' /\ SearchInv'
<1>1. /\ pc = "roots" /\ pc' = "step" /\ frames = <<>> /\ decided = Undecided
      /\ UNCHANGED <<script, order, vers, deps, roots, i, cons, decided, frames,
                     result, chosen>>
      /\ i > Len(roots) /\ i \in Nat /\ script # <<>>
      /\ Len(roots) \in Nat
      BY DEF RootsDone, registry, search, answer, SearchInv, RootsInv, Registered,
             TypeOK, CallServed
<1>2. Registered'
      BY <1>1, SearchRegistered DEF Registered, TypeOK, registry
<1>3. Depth' = 0 /\ Deciding' = {}
      BY <1>1 DEF Depth, Deciding
<1>4. StackInv'
      BY <1>1, <1>3 DEF StackInv, Undecided
<1>5. ConsInv'
  <2>1. \A k \in 1..Len(roots) : Entry(roots[k], 0) \in cons
        BY <1>1 DEF SearchInv, RootsInv
  <2>2. \A c \in cons : Justified(c)'
        BY <1>1 DEF SearchInv, RootsInv, Justified
  <2>3. \A c \in cons : decided[c.pkg] = NoVer
        BY <1>1 DEF Undecided, Registered, TypeOK, ConsEntry
  <2> QED BY <1>1, <1>3, <2>1, <2>2, <2>3 DEF ConsInv
<1>6. CoverInv'
      BY <1>1, <1>3 DEF CoverInv, Ahead, Agrees
<1> QED BY <1>1, <1>2, <1>4, <1>5, <1>6 DEF SearchInv, RootsInv

\* What a solution that agrees with all deciding frames gets: every constraint.
LEMMA AgreementMeets ==
    ASSUME Registered, StackInv, ConsInv, Searching, NEW s, Solution(s),
           \A k \in Deciding : s[frames[k].pkg] = frames[k].ver
    PROVE  \A c \in cons : /\ s[c.pkg] # NoVer /\ s[c.pkg] \in c.spec
                           /\ s[c.pkg] \in vers[c.pkg]
BY SolutionMeetsCons, StackTop DEF ConsInv

LEMMA SearchStepStep ==
    ASSUME Registered, SearchInv, SearchStep
    PROVE  Registered' /\ SearchInv'
<1>0. pc = "step" /\ Searching /\ StackInv /\ ConsInv /\ CoverInv
      BY DEF SearchStep, Searching, SearchInv
<1>1. PICK p \in Open : frames' = Append(frames, [pkg |-> p, ver |-> NoVer, left |-> vers[p]])
      BY DEF SearchStep
<1> DEFINE f == [pkg |-> p, ver |-> NoVer, left |-> vers[p]]
<1>2. /\ pc' = "loop"
      /\ UNCHANGED <<script, order, vers, deps, roots, i, cons, decided, result, chosen>>
      BY DEF SearchStep, registry, answer
<1>3. p \in Pkg /\ decided[p] = NoVer /\ \E c \in cons : c.pkg = p
  <2>1. order \in Seq(Pkg)
        BY DEF Registered, TypeOK
  <2> QED BY <2>1, ElementOfSeq DEF Open, Interned
<1>4. f \in Frame
      BY <1>3 DEF Frame, Registered, TypeOK
<1>5. /\ frames' \in Seq(Frame) /\ Depth' = Depth + 1
      /\ \A k \in 1..Depth : frames'[k] = frames[k]
      /\ frames'[Depth + 1] = f
  <2>1. frames \in Seq(Frame)
        BY DEF Registered, TypeOK
  <2> QED BY <1>1, <1>4, <2>1, AppendProperties DEF Depth
<1>6. Depth \in Nat /\ Deciding = 1..Depth /\ Deciding' = 1..Depth /\ Searching'
      BY <1>0, <1>2, <1>5, StackTop DEF Deciding, Searching
<1>7. Registered'
  <2>1. script # <<>>
        BY <1>0 DEF Registered, CallServed
  <2> QED BY <1>2, <1>5, <2>1, SearchRegistered DEF Registered, TypeOK, registry
<1>8. StackInv'
  <2>1. \A k \in 1..(Depth + 1) : k \in 1..Depth \/ k = Depth + 1
        BY <1>6
  <2>2. \A k \in 1..Depth : frames[k].pkg # p
        BY <1>0, <1>3, <1>6, StackTop, VerFacts DEF StackInv
  <2>3. \A k \in 1..(Depth + 1) : (frames[k].left \subseteq vers[frames[k].pkg])'
        BY <1>0, <1>2, <1>5, <2>1 DEF StackInv
  <2>4. \A k, l \in 1..(Depth + 1) : k # l => (frames[k].pkg # frames[l].pkg)'
        BY <1>0, <1>5, <2>1, <2>2 DEF StackInv
  <2>5. \A k \in 1..Depth : /\ (frames[k].ver \in vers[frames[k].pkg])'
                            /\ (decided[frames[k].pkg] = frames[k].ver)'
                            /\ (\A u \in frames[k].left : u < frames[k].ver)'
        BY <1>0, <1>2, <1>5, <1>6 DEF StackInv
  <2>6. \A q \in Pkg : decided[q] # NoVer => \E k \in 1..Depth : (frames[k].pkg = q)'
        BY <1>0, <1>5, <1>6 DEF StackInv
  <2>7. Depth + 1 > 0
        BY <1>6
  <2> QED BY <1>2, <1>5, <1>6, <2>3, <2>4, <2>5, <2>6, <2>7 DEF StackInv
<1>9. ConsInv'
  <2>1. \A k \in 1..Depth : DepsOf(k)' = DepsOf(k)
        BY <1>2, <1>5 DEF DepsOf
  <2>2. \A c \in cons : Justified(c)'
        BY <1>0, <1>2, <1>6, <2>1 DEF ConsInv, Justified
  <2>3. \A k \in 1..Depth : \A j \in 1..Len(DepsOf(k)) : Entry(DepsOf(k)[j], k) \in cons
        BY <1>0, <1>6 DEF ConsInv, Recorded
  <2> QED BY <1>0, <1>2, <1>6, <2>1, <2>2, <2>3 DEF ConsInv
<1>10. CoverInv'
  <2> SUFFICES ASSUME NEW s, Solution(s)
               PROVE  Ahead(s)'
      BY <1>2 DEF CoverInv, Solution, Abs!Solution
  <2>1. \A n \in 0..Depth : Agrees(s, n) => Agrees(s, n)'
        BY <1>5, <1>6 DEF Agrees
  <2>2. CASE \E k \in 1..Depth : Agrees(s, k - 1) /\ s[frames[k].pkg] \in frames[k].left
    <3>1. PICK k \in 1..Depth : Agrees(s, k - 1) /\ s[frames[k].pkg] \in frames[k].left
          BY <2>2
    <3>2. k - 1 \in 0..Depth /\ k \in 1..(Depth + 1)
          BY <1>6
    <3> QED BY <1>5, <2>1, <3>1, <3>2 DEF Ahead
  <2>3. CASE Agrees(s, Depth)
    <3>1. \A c \in cons : s[c.pkg] \in vers[c.pkg]
          BY <1>0, <1>6, <2>3, AgreementMeets DEF Agrees
    <3>2. s[p] \in vers[p]
          BY <1>3, <3>1
    <3>3. PICK n \in Nat : n = Depth + 1
          BY <1>6
    <3>4. Agrees(s, n - 1)'
      <4>1. n - 1 \in 0..Depth /\ n - 1 = Depth
            BY <1>6, <3>3
      <4> QED BY <2>1, <2>3, <4>1
    <3>5. n \in 1..Depth' /\ frames'[n] = f
          BY <1>5, <1>6, <3>3
    <3> QED BY <3>2, <3>4, <3>5 DEF Ahead
  <2>4. Ahead(s)
        BY <1>0 DEF CoverInv
  <2> QED BY <2>2, <2>3, <2>4 DEF Ahead
<1> QED BY <1>2, <1>7, <1>8, <1>9, <1>10 DEF SearchInv, RootsInv

LEMMA TryVersionStep ==
    ASSUME Registered, SearchInv, TryVersion
    PROVE  Registered' /\ SearchInv'
<1>0. pc = "loop" /\ Searching /\ StackInv /\ ConsInv /\ CoverInv
      BY DEF TryVersion, Searching, SearchInv
<1>1. PICK v \in Top.left :
          /\ VersionOk(cons, Top.pkg, v)
          /\ \A u \in Top.left : u > v => ~VersionOk(cons, Top.pkg, u)
          /\ frames' = [frames EXCEPT ![Depth] =
                [pkg |-> Top.pkg, ver |-> v, left |-> {u \in Top.left : u < v}]]
          /\ decided' = [decided EXCEPT ![Top.pkg] = v]
      BY DEF TryVersion
<1>2. /\ pc' = "deps" /\ i' = 1
      /\ UNCHANGED <<script, order, vers, deps, roots, cons, result, chosen>>
      BY DEF TryVersion, registry, answer
<1>3. /\ Depth \in Nat /\ Depth \in 1..Depth /\ Deciding = 1..(Depth - 1)
      /\ decided[Top.pkg] = NoVer
      BY <1>0, StackTop
<1>4. Top.pkg \in Pkg /\ Top.left \in SUBSET Ver /\ v \in Ver /\ Top.left \subseteq vers[Top.pkg]
      BY <1>0, <1>1, <1>3, FrameTyped DEF Top, StackInv
<1> PICK n \in 1..Depth : n = Depth
    BY <1>3
<1> DEFINE f == [pkg |-> Top.pkg, ver |-> v, left |-> {u \in Top.left : u < v}]
<1>5. /\ f \in Frame /\ f.pkg = Top.pkg /\ f.ver = v
      /\ f.left = {u \in Top.left : u < v}
  BY <1>4 DEF Frame
<1>6. /\ frames' \in Seq(Frame) /\ Depth' = Depth
      /\ \A k \in 1..(Depth - 1) : frames'[k] = frames[k]
      /\ frames'[Depth] = f
  <2>1. frames \in Seq(Frame)
        BY DEF Registered, TypeOK
  <2>2. frames' = [frames EXCEPT ![Depth] = f]
        BY <1>1
  <2> QED BY <1>3, <1>5, <2>1, <2>2, ExceptSeq DEF Depth
<1>7. Deciding' = 1..Depth /\ Searching'
      BY <1>2, <1>6 DEF Deciding, Searching
<1>8. Registered'
  <2>1. script # <<>>
        BY <1>0 DEF Registered, CallServed
  <2>2. decided' \in [Pkg -> Ver \cup {NoVer}]
        BY <1>1, <1>4 DEF Registered, TypeOK
  <2> QED BY <1>2, <1>6, <2>1, <2>2, SearchRegistered DEF Registered, TypeOK, registry
<1>9. \A k \in 1..n : k \in 1..(n - 1) \/ k = n
      BY <1>3
<1>10. \A k \in 1..(n - 1) : k \in 1..n /\ k # n /\ frames[k].pkg # Top.pkg
       BY <1>0, <1>3 DEF StackInv, Top
<1>11. StackInv'
  <2>1. \A k \in 1..n : (frames[k].left \subseteq vers[frames[k].pkg])'
    <3>1. (frames[n].left \subseteq vers[frames[n].pkg])'
          BY <1>2, <1>4, <1>5, <1>6
    <3>2. ASSUME NEW k \in 1..(n - 1)
          PROVE  (frames[k].left \subseteq vers[frames[k].pkg])'
          BY <1>0, <1>2, <1>6, <1>10 DEF StackInv
    <3> QED BY <1>9, <3>1, <3>2
  <2>2. \A k, l \in 1..n : k # l => (frames[k].pkg # frames[l].pkg)'
        BY <1>0, <1>5, <1>6, <1>9, <1>10 DEF StackInv, Top
  <2>3. decided'[Top.pkg] = v /\ \A q \in Pkg \ {Top.pkg} : decided'[q] = decided[q]
        BY <1>1, <1>4 DEF Registered, TypeOK
  <2>4. \A k \in 1..n : /\ (frames[k].ver \in vers[frames[k].pkg])'
                        /\ (decided[frames[k].pkg] = frames[k].ver)'
                        /\ (\A u \in frames[k].left : u < frames[k].ver)'
    <3>1. ASSUME NEW k \in 1..(n - 1)
          PROVE  /\ (frames[k].ver \in vers[frames[k].pkg])'
                 /\ (decided[frames[k].pkg] = frames[k].ver)'
                 /\ (\A u \in frames[k].left : u < frames[k].ver)'
          BY <1>0, <1>2, <1>3, <1>6, <1>10, <2>3, FrameTyped DEF StackInv
    <3>2. /\ (frames[n].ver \in vers[frames[n].pkg])'
          /\ (decided[frames[n].pkg] = frames[n].ver)'
          /\ (\A u \in frames[n].left : u < frames[n].ver)'
      <4>1. /\ frames'[n].ver = v /\ frames'[n].pkg = Top.pkg
            /\ frames'[n].left = {u \in Top.left : u < v}
            BY <1>5, <1>6
      <4> QED BY <1>1, <1>2, <1>4, <2>3, <4>1
    <3> QED BY <1>6, <1>9, <3>1, <3>2
  <2>5. \A q \in Pkg : decided'[q] # NoVer => \E k \in 1..n : (frames[k].pkg = q)'
    <3> SUFFICES ASSUME NEW q \in Pkg, decided'[q] # NoVer
                 PROVE  \E k \in 1..n : frames'[k].pkg = q
        OBVIOUS
    <3>1. CASE q = Top.pkg
          BY <1>5, <1>6, <3>1
    <3>2. CASE q # Top.pkg
          BY <1>0, <1>3, <1>6, <1>10, <2>3, <3>2 DEF StackInv
    <3> QED BY <3>1, <3>2
  <2>6. Depth > 0
        BY <1>3
  <2> QED BY <1>6, <1>7, <2>1, <2>2, <2>4, <2>5, <2>6 DEF StackInv
<1>12. ConsInv'
  <2>1. \A k \in 1..(n - 1) : DepsOf(k)' = DepsOf(k)
        BY <1>2, <1>6 DEF DepsOf
  <2>2. \A c \in cons : Justified(c)'
        BY <1>0, <1>2, <1>3, <1>7, <1>10, <2>1 DEF ConsInv, Justified
  <2>3. \A k \in 1..(n - 1) : \A j \in 1..Len(DepsOf(k)) :
           Entry(DepsOf(k)[j], k) \in cons
        BY <1>0, <1>3 DEF ConsInv, Recorded
  <2>4. \A j \in 1..Len(DepsOf(n)') : ~Recorded(n, j)'
        BY <1>2, <1>3, <1>6 DEF Recorded
  <2>5. \A k \in 1..n : \A j \in 1..Len(DepsOf(k)') :
           Recorded(k, j)' => Entry(DepsOf(k)'[j], k) \in cons
        BY <1>9, <2>1, <2>3, <2>4
  <2>6. \A c \in cons : decided'[c.pkg] # NoVer => decided'[c.pkg] \in c.spec
    <3> SUFFICES ASSUME NEW c \in cons, decided'[c.pkg] # NoVer
                 PROVE  decided'[c.pkg] \in c.spec
        OBVIOUS
    <3>1. c.pkg \in Pkg
          BY DEF Registered, TypeOK, ConsEntry
    <3>2. CASE c.pkg = Top.pkg
          BY <1>1, <1>4, <3>1, <3>2 DEF VersionOk, Registered, TypeOK
    <3>3. CASE c.pkg # Top.pkg
          BY <1>0, <1>1, <3>1, <3>3 DEF ConsInv, Registered, TypeOK
    <3> QED BY <3>2, <3>3
  <2>7. \A k \in 1..Len(roots) : Entry(roots[k], 0) \in cons
        BY <1>0 DEF ConsInv
  <2> QED BY <1>2, <1>7, <2>2, <2>5, <2>6, <2>7 DEF ConsInv, Entry
<1>13. CoverInv'
  <2> SUFFICES ASSUME NEW s, Solution(s)
               PROVE  Ahead(s)'
      BY <1>2 DEF CoverInv, Solution, Abs!Solution
  <2>1. \A m \in 0..(n - 1) : Agrees(s, m) => Agrees(s, m)'
        BY <1>3, <1>6 DEF Agrees
  <2>2. PICK k \in 1..n : Agrees(s, k - 1) /\ s[frames[k].pkg] \in frames[k].left
        BY <1>0 DEF CoverInv, Ahead
  <2>3. Agrees(s, k - 1)'
        BY <1>3, <2>1, <2>2
  <2>4. CASE k # n
        BY <1>6, <1>9, <2>2, <2>3, <2>4 DEF Ahead
  <2>5. CASE k = n
    <3>1. \A c \in cons : s[c.pkg] \in c.spec
          BY <1>0, <1>3, <2>2, <2>5, AgreementMeets DEF Agrees
    <3>2. VersionOk(cons, Top.pkg, s[Top.pkg])
          BY <3>1 DEF VersionOk
    <3>3. s[Top.pkg] \in Top.left
          BY <2>2, <2>5 DEF Top
    <3>4. ~(s[Top.pkg] > v)
          BY <1>1, <3>2, <3>3
    <3>5. s[Top.pkg] \in Ver /\ Ver \subseteq Nat
          BY <1>4, <3>3, VerFacts
    <3>6. CASE s[Top.pkg] = v
      <4>1. Agrees(s, n)'
            BY <1>5, <1>6, <1>9, <2>3, <2>5, <3>6 DEF Agrees
      <4> QED BY <1>2, <1>6, <4>1 DEF Ahead
    <3>7. CASE s[Top.pkg] < v
      <4>1. s[frames'[n].pkg] \in frames'[n].left
            BY <1>5, <1>6, <3>3, <3>7
      <4>2. n \in 1..Depth' /\ Agrees(s, n - 1)'
            BY <1>6, <2>3, <2>5
      <4> QED BY <4>1, <4>2 DEF Ahead
    <3>8. s[Top.pkg] = v \/ s[Top.pkg] < v
      <4>1. v \in Nat /\ s[Top.pkg] \in Nat
            BY <1>4, <3>5
      <4>2. \A x, y \in Nat : ~(x > y) => x = y \/ x < y
            OBVIOUS
      <4> QED BY <3>4, <4>1, <4>2
    <3> QED BY <3>6, <3>7, <3>8
  <2> QED BY <2>4, <2>5
<1> QED BY <1>2, <1>8, <1>11, <1>12, <1>13 DEF SearchInv, RootsInv

\* A frame that has tried everything has passed by no solution; when it is the
\* last one, there is none.
LEMMA ExhaustedStep ==
    ASSUME Registered, SearchInv, Exhausted
    PROVE  /\ Registered' /\ SearchInv'
           /\ pc' = "idle" => result' = "error" /\ \A s : ~Solution(s)
<1>0. pc = "loop" /\ Searching /\ StackInv /\ ConsInv /\ CoverInv
      BY DEF Exhausted, Searching, SearchInv
<1>1. /\ Depth \in Nat /\ Depth \in 1..Depth /\ Deciding = 1..(Depth - 1)
      /\ decided[Top.pkg] = NoVer
      BY <1>0, StackTop
<1>2. /\ frames' = SubSeq(frames, 1, Depth - 1)
      /\ UNCHANGED <<order, vers, deps, roots, i, cons, decided>>
      /\ \/ Depth = 1 /\ pc' = "idle" /\ script' = Tail(script) /\ result' = "error"
            /\ chosen' = Undecided
         \/ Depth # 1 /\ pc' = "backtrack" /\ UNCHANGED <<script, result, chosen>>
      BY DEF Exhausted, SearchFails, Returned, registry, answer
<1> PICK n \in 1..Depth : n = Depth
    BY <1>1
<1>3. /\ frames' \in Seq(Frame) /\ Depth' = n - 1
      /\ \A k \in 1..(n - 1) : frames'[k] = frames[k]
  <2>1. frames \in Seq(Frame) /\ \A k \in 1..(n - 1) : frames[k] \in Frame
        BY <1>1, ElementOfSeq DEF Registered, TypeOK, Depth
  <2> QED BY <1>1, <1>2, <2>1, SubSeqProperties DEF Depth
<1>4. Registered'
  <2>1. script # <<>>
        BY <1>0 DEF Registered, CallServed
  <2>2. Undecided \in [Pkg -> Ver \cup {NoVer}]
        BY DEF Undecided
  <2> QED BY <1>2, <1>3, <2>1, <2>2, SearchRegistered DEF Registered, TypeOK, registry
<1>5. ASSUME NEW s, Solution(s)
      PROVE  \E k \in 1..(n - 1) : Agrees(s, k - 1) /\ s[frames[k].pkg] \in frames[k].left
  <2>1. PICK k \in 1..n : Agrees(s, k - 1) /\ s[frames[k].pkg] \in frames[k].left
        BY <1>0, <1>5 DEF CoverInv, Ahead
  <2>2. k # n
    <3> SUFFICES ASSUME k = n PROVE FALSE
        OBVIOUS
    <3>1. \A c \in cons : s[c.pkg] \in c.spec
          BY <1>0, <1>1, <1>5, <2>1, AgreementMeets DEF Agrees
    <3>2. VersionOk(cons, Top.pkg, s[Top.pkg])
          BY <3>1 DEF VersionOk
    <3>3. s[Top.pkg] \in Top.left
          BY <2>1 DEF Top
    <3> QED BY <3>2, <3>3 DEF Exhausted
  <2> QED BY <2>1, <2>2
<1>6. CASE Depth = 1
  <2>1. \A s : ~Solution(s)
        BY <1>5, <1>6
  <2>2. pc' = "idle" /\ result' = "error"
        BY <1>2, <1>6
  <2>3. ~Searching' /\ pc' # "roots"
        BY <2>2 DEF Searching
  <2> QED BY <1>4, <2>1, <2>2, <2>3
          DEF SearchInv, RootsInv, StackInv, ConsInv, CoverInv
<1>7. CASE Depth # 1
  <2>1. pc' = "backtrack" /\ Searching' /\ Deciding' = 1..(n - 1) /\ n - 1 > 0
        BY <1>1, <1>2, <1>3, <1>7 DEF Deciding, Searching
  <2>2. \A k \in 1..(n - 1) : k \in 1..Depth /\ k < Depth
        BY <1>1
  <2>3. StackInv'
    <3>1. \A k \in 1..(n - 1) : (frames[k].left \subseteq vers[frames[k].pkg])'
          BY <1>0, <1>2, <1>3, <2>2 DEF StackInv
    <3>2. \A k, l \in 1..(n - 1) : k # l => (frames[k].pkg # frames[l].pkg)'
          BY <1>0, <1>3, <2>2 DEF StackInv
    <3>3. \A k \in 1..(n - 1) : /\ (frames[k].ver \in vers[frames[k].pkg])'
                                /\ (decided[frames[k].pkg] = frames[k].ver)'
                                /\ (\A u \in frames[k].left : u < frames[k].ver)'
          BY <1>0, <1>1, <1>2, <1>3 DEF StackInv
    <3>4. \A q \in Pkg : decided'[q] # NoVer => \E k \in 1..(n - 1) : (frames[k].pkg = q)'
          BY <1>0, <1>1, <1>2, <1>3 DEF StackInv
    <3> QED BY <1>3, <2>1, <3>1, <3>2, <3>3, <3>4 DEF StackInv
  <2>4. ConsInv'
    <3>1. \A k \in 1..(n - 1) : DepsOf(k)' = DepsOf(k)
          BY <1>2, <1>3 DEF DepsOf
    <3>2. \A c \in cons : Justified(c)'
          BY <1>0, <1>1, <1>2, <2>1, <3>1 DEF ConsInv, Justified
    <3>3. \A k \in 1..(n - 1) : \A j \in 1..Len(DepsOf(k)') :
             Entry(DepsOf(k)'[j], k) \in cons
          BY <1>0, <1>1, <3>1 DEF ConsInv, Recorded
    <3>4. \A c \in cons : decided[c.pkg] # NoVer => decided[c.pkg] \in c.spec
          BY <1>0 DEF ConsInv
    <3>5. \A k \in 1..Len(roots) : Entry(roots[k], 0) \in cons
          BY <1>0 DEF ConsInv
    <3> QED BY <1>2, <2>1, <3>2, <3>3, <3>4, <3>5 DEF ConsInv, Entry
  <2>5. CoverInv'
    <3> SUFFICES ASSUME NEW s, Solution(s)
                 PROVE  Ahead(s)'
        BY <1>2 DEF CoverInv, Solution, Abs!Solution
    <3>1. PICK k \in 1..(n - 1) : Agrees(s, k - 1) /\ s[frames[k].pkg] \in frames[k].left
          BY <1>5
    <3>2. Agrees(s, k - 1)'
          BY <1>3, <3>1 DEF Agrees
    <3> QED BY <1>3, <3>1, <3>2 DEF Ahead
  <2> QED BY <1>4, <2>1, <2>3, <2>4, <2>5 DEF SearchInv, RootsInv
<1> QED BY <1>6, <1>7

LEMMA DepConstraintStep ==
    ASSUME Registered, SearchInv, DepConstraint
    PROVE  Registered' /\ SearchInv'
<1>0. pc = "deps" /\ Searching /\ StackInv /\ ConsInv /\ CoverInv
      BY DEF DepConstraint, Searching, SearchInv
<1>1. /\ Depth \in Nat /\ Depth \in 1..Depth /\ Deciding = 1..Depth
      /\ \A k \in Deciding : frames[k].ver \in Ver
      BY <1>0, StackTop
<1> DEFINE d == TopDeps[i]
<1>2. /\ i \in 1..Len(TopDeps) /\ i' = i + 1
      /\ cons' = cons \cup {Entry(d, Depth)}
      /\ UNCHANGED <<script, order, vers, deps, roots, decided, frames, result, chosen>>
      /\ pc' = IF Conflict(d, cons') THEN "backtrack" ELSE "deps"
      /\ TopDeps = DepsOf(Depth)
  <2>1. i \in Nat \ {0}
        BY <1>0 DEF Registered, CallServed
  <2> QED BY <2>1 DEF DepConstraint, AddConstraint, registry, answer, TopDeps, DepsOf, Top
<1>3. d \in GoodDep /\ d.pkg \in Pkg
  <2>1. TopDeps \in Seq(GoodDep)
        BY <1>1, FrameTyped DEF TopDeps, Top, Registered, RegistryInv
  <2>2. d \in GoodDep
        BY <1>2, <2>1, ElementOfSeq
  <2> QED BY <2>2 DEF GoodDep
<1>4. Depth' = Depth /\ Searching' /\ Deciding' = Deciding
      /\ \A k : DepsOf(k)' = DepsOf(k)
      BY <1>0, <1>2 DEF Depth, Searching, Deciding, DepsOf
<1>5. Registered'
  <2>1. script # <<>>
        BY <1>0 DEF Registered, CallServed
  <2>2. cons' \subseteq ConsEntry
        BY <1>1, <1>2, <1>3, EntryTyped DEF Registered, TypeOK
  <2>3. i' \in Nat /\ i' # 0
        BY <1>2
  <2> QED BY <1>2, <2>1, <2>2, <2>3, SearchRegistered DEF Registered, TypeOK, registry
<1>6. StackInv'
      BY <1>0, <1>1, <1>2, <1>4 DEF StackInv
<1>7. ConsInv'
  <2>1. \A c \in cons' : Justified(c)'
        BY <1>0, <1>1, <1>2, <1>4 DEF ConsInv, Justified
  <2>2. \A k \in Deciding : \A j \in 1..Len(DepsOf(k)) :
           Recorded(k, j)' => Entry(DepsOf(k)[j], k) \in cons'
    <3> SUFFICES ASSUME NEW k \in Deciding, NEW j \in 1..Len(DepsOf(k)), Recorded(k, j)'
                 PROVE  Entry(DepsOf(k)[j], k) \in cons'
        OBVIOUS
    <3>1. CASE k < Depth \/ j < i
          BY <1>0, <1>2, <3>1 DEF ConsInv, Recorded
    <3>2. CASE ~(k < Depth \/ j < i)
      <4>1. k = Depth /\ j = i
            BY <1>1, <1>2, <1>4, <3>2 DEF Recorded
      <4> QED BY <1>2, <4>1
    <3> QED BY <3>1, <3>2
  <2>3. \A c \in cons' : decided[c.pkg] # NoVer =>
           decided[c.pkg] \in c.spec \/ (pc' = "backtrack" /\ c.src = Depth)
    <3> SUFFICES ASSUME NEW c \in cons', decided[c.pkg] # NoVer
                 PROVE  decided[c.pkg] \in c.spec \/ (pc' = "backtrack" /\ c.src = Depth)
        OBVIOUS
    <3>1. CASE c \in cons
          BY <1>0, <3>1 DEF ConsInv
    <3>2. CASE c = Entry(d, Depth)
          BY <1>2, <3>2 DEF Entry, Conflict
    <3> QED BY <1>2, <3>1, <3>2
  <2>4. \A k \in 1..Len(roots) : Entry(roots[k], 0) \in cons'
        BY <1>0, <1>2 DEF ConsInv
  <2> QED BY <1>2, <1>4, <2>1, <2>2, <2>3, <2>4 DEF ConsInv, Entry
<1>8. CoverInv'
  <2> SUFFICES ASSUME NEW s, Solution(s)
               PROVE  Ahead(s)'
      BY <1>2 DEF CoverInv, Solution, Abs!Solution
  <2>1. Ahead(s)
        BY <1>0 DEF CoverInv
  <2>2. CASE \E k \in 1..Depth : Agrees(s, k - 1) /\ s[frames[k].pkg] \in frames[k].left
        BY <1>2, <1>4, <2>2 DEF Ahead, Agrees
  <2>3. CASE Agrees(s, Depth)
    <3>1. ~Conflict(d, cons')
      <4> SUFFICES ASSUME Conflict(d, cons') PROVE FALSE
          OBVIOUS
      <4>1. \A k \in Deciding : s[frames[k].pkg] = frames[k].ver
            BY <1>1, <2>3 DEF Agrees
      <4>2. \A c \in cons : s[c.pkg] \in c.spec
            BY <1>0, <4>1, AgreementMeets
      <4>3. Top.pkg \in Pkg /\ s[Top.pkg] = Top.ver /\ s[Top.pkg] # NoVer
            BY <1>1, <4>1, FrameTyped, VerFacts DEF Top
      <4>4. s[d.pkg] # NoVer /\ s[d.pkg] \in d.spec /\ s[d.pkg] \in vers[d.pkg]
            BY <1>2, <1>3, <4>3 DEF Solution, Abs!Solution, Abs!Meets, TopDeps
      <4>5. s[d.pkg] \in Viable(cons', d.pkg)
            BY <1>2, <4>2, <4>4 DEF Viable, VersionOk, Entry
      <4>6. decided[d.pkg] # NoVer => decided[d.pkg] = s[d.pkg]
            BY <1>0, <1>3, <4>1 DEF StackInv
      <4> QED BY <4>4, <4>5, <4>6 DEF Conflict
    <3> QED BY <1>2, <1>4, <2>3, <3>1 DEF Ahead, Agrees
  <2> QED BY <1>0, <2>1, <2>2, <2>3 DEF Ahead
<1> QED BY <1>2, <1>5, <1>6, <1>7, <1>8 DEF SearchInv, RootsInv

LEMMA DepsDoneStep ==
    ASSUME Registered, SearchInv, DepsDone
    PROVE  Registered' /\ SearchInv'
<1>0. pc = "deps" /\ Searching /\ StackInv /\ ConsInv /\ CoverInv
      BY DEF DepsDone, Searching, SearchInv
<1>1. /\ Depth \in Nat /\ Depth \in 1..Depth /\ Deciding = 1..Depth
      BY <1>0, StackTop
<1>2. /\ pc' = "step" /\ i > Len(DepsOf(Depth)) /\ i \in Nat
      /\ UNCHANGED <<script, order, vers, deps, roots, i, cons, decided, frames,
                     result, chosen>>
      BY DEF DepsDone, registry, search, answer, TopDeps, DepsOf, Top, Registered, TypeOK
<1>3. Depth' = Depth /\ Searching' /\ Deciding' = Deciding
      /\ \A k : DepsOf(k)' = DepsOf(k)
      BY <1>0, <1>2 DEF Depth, Searching, Deciding, DepsOf
<1>4. Registered'
  <2>1. script # <<>>
        BY <1>0 DEF Registered, CallServed
  <2> QED BY <1>2, <2>1, SearchRegistered DEF Registered, TypeOK, registry
<1>5. StackInv'
      BY <1>0, <1>1, <1>2, <1>3 DEF StackInv
<1>6. ConsInv'
  <2>1. \A c \in cons : Justified(c)'
        BY <1>0, <1>2, <1>3 DEF ConsInv, Justified
  <2>2. \A k \in Deciding : \A j \in 1..Len(DepsOf(k)) : Recorded(k, j)
    <3>1. DepsOf(Depth) \in Seq(GoodDep)
          BY <1>0, <1>1, FrameTyped DEF DepsOf, Registered, RegistryInv, StackInv, TypeOK
    <3>2. \A j \in 1..Len(DepsOf(Depth)) : j < i
          BY <1>2, <3>1
    <3> QED BY <1>0, <1>1, <3>2 DEF Recorded
  <2> QED BY <1>0, <1>2, <1>3, <2>1, <2>2 DEF ConsInv
<1>7. CoverInv'
      BY <1>0, <1>2, <1>3 DEF CoverInv, Ahead, Agrees, Solution, Abs!Solution
<1> QED BY <1>2, <1>4, <1>5, <1>6, <1>7 DEF SearchInv, RootsInv

\* Backtracking drops what the version brought, and only that.
LEMMA BacktrackStep ==
    ASSUME Registered, SearchInv, Backtrack
    PROVE  Registered' /\ SearchInv'
<1>0. pc = "backtrack" /\ Searching /\ StackInv /\ ConsInv /\ CoverInv
      BY DEF Backtrack, Searching, SearchInv
<1>1. /\ Depth \in Nat /\ Depth \in 1..Depth /\ Deciding = 1..Depth
      BY <1>0, StackTop
<1>2. /\ pc' = "loop" /\ cons' = {c \in cons : c.src # Depth}
      /\ decided' = [decided EXCEPT ![Top.pkg] = NoVer]
      /\ frames' = [frames EXCEPT ![Depth] =
            [pkg |-> Top.pkg, ver |-> NoVer, left |-> Top.left]]
      /\ UNCHANGED <<script, order, vers, deps, roots, i, result, chosen>>
      BY DEF Backtrack, registry, answer
<1>3. Top.pkg \in Pkg /\ Top.left \in SUBSET Ver
      BY <1>1, FrameTyped DEF Top
<1> PICK n \in 1..Depth : n = Depth
    BY <1>1
<1> DEFINE f == [pkg |-> Top.pkg, ver |-> NoVer, left |-> Top.left]
<1>4. f \in Frame /\ f.pkg = Top.pkg /\ f.left = Top.left
      BY <1>3 DEF Frame
<1>5. /\ frames' \in Seq(Frame) /\ Depth' = n
      /\ \A k \in 1..(n - 1) : frames'[k] = frames[k]
      /\ frames'[n] = f
  <2>1. frames \in Seq(Frame)
        BY DEF Registered, TypeOK
  <2> QED BY <1>1, <1>2, <1>4, <2>1, ExceptSeq DEF Depth
<1>6. Searching' /\ Deciding' = 1..(n - 1)
      BY <1>2, <1>5 DEF Searching, Deciding
<1>7. /\ decided' \in [Pkg -> Ver \cup {NoVer}] /\ decided'[Top.pkg] = NoVer
      /\ \A q \in Pkg \ {Top.pkg} : decided'[q] = decided[q]
      BY <1>2, <1>3 DEF Registered, TypeOK
<1>8. \A k \in 1..n : /\ k \in 1..Depth
                      /\ frames'[k].pkg = frames[k].pkg /\ frames'[k].left = frames[k].left
  <2>1. frames'[n].pkg = frames[n].pkg /\ frames'[n].left = frames[n].left
        BY <1>4, <1>5 DEF Top
  <2>2. \A k \in 1..n : k = n \/ k \in 1..(n - 1)
        BY <1>1
  <2> QED BY <1>1, <1>5, <2>1, <2>2
<1>9. Registered'
  <2>1. script # <<>>
        BY <1>0 DEF Registered, CallServed
  <2>2. cons' \subseteq ConsEntry
        BY <1>2 DEF Registered, TypeOK
  <2> QED BY <1>2, <1>5, <1>7, <2>1, <2>2, SearchRegistered
          DEF Registered, TypeOK, registry
<1>10. \A k \in 1..(n - 1) : k \in 1..n /\ k \in Deciding /\ k < Depth /\ k # n
      BY <1>1
<1>11. StackInv'
  <2>1. \A k \in 1..n : (frames[k].left \subseteq vers[frames[k].pkg])'
        BY <1>0, <1>2, <1>8 DEF StackInv
  <2>2. \A k, l \in 1..n : k # l => (frames[k].pkg # frames[l].pkg)'
        BY <1>0, <1>8 DEF StackInv
  <2>3. \A k \in 1..(n - 1) : frames[k].pkg \in Pkg \ {Top.pkg}
        BY <1>0, <1>8, <1>10, FrameTyped DEF StackInv, Top
  <2>4. \A k \in 1..(n - 1) : /\ (frames[k].ver \in vers[frames[k].pkg])'
                              /\ (decided[frames[k].pkg] = frames[k].ver)'
                              /\ (\A u \in frames[k].left : u < frames[k].ver)'
        BY <1>0, <1>2, <1>5, <1>7, <1>10, <2>3 DEF StackInv
  <2>5. \A q \in Pkg : decided'[q] # NoVer => \E k \in 1..(n - 1) : (frames[k].pkg = q)'
    <3> SUFFICES ASSUME NEW q \in Pkg, decided'[q] # NoVer
                 PROVE  \E k \in 1..(n - 1) : frames'[k].pkg = q
        OBVIOUS
    <3>1. q # Top.pkg /\ decided[q] # NoVer
          BY <1>7
    <3>2. PICK k \in 1..n : frames[k].pkg = q
          BY <1>0, <1>1, <3>1 DEF StackInv
    <3>3. k \in 1..(n - 1)
          BY <1>1, <3>1, <3>2 DEF Top
    <3> QED BY <1>5, <3>2, <3>3
  <2>6. Depth' > 0
        BY <1>1, <1>5
  <2> QED BY <1>5, <1>6, <2>1, <2>2, <2>4, <2>5, <2>6 DEF StackInv
<1>12. ConsInv'
  <2>1. \A k \in 1..(n - 1) : DepsOf(k)' = DepsOf(k)
        BY <1>2, <1>5 DEF DepsOf
  <2>2. \A c \in cons' : Justified(c)'
    <3> SUFFICES ASSUME NEW c \in cons' PROVE Justified(c)'
        OBVIOUS
    <3>1. c \in cons /\ c.src # n
          BY <1>2
    <3>2. CASE \E k \in 1..Len(roots) : c = Entry(roots[k], 0)
          BY <1>2, <3>2 DEF Justified
    <3>3. CASE \E k \in Deciding : \E j \in 1..Len(DepsOf(k)) : c = Entry(DepsOf(k)[j], k)
      <4>1. PICK k \in 1..n : \E j \in 1..Len(DepsOf(k)) : c = Entry(DepsOf(k)[j], k)
            BY <1>1, <3>3
      <4>2. k # n
            BY <3>1, <4>1 DEF Entry
      <4>3. k \in 1..(n - 1)
            BY <1>1, <4>2
      <4> QED BY <1>6, <2>1, <4>1, <4>3 DEF Justified
    <3> QED BY <1>0, <3>1, <3>2, <3>3 DEF ConsInv, Justified
  <2>3. \A k \in 1..(n - 1) : \A j \in 1..Len(DepsOf(k)') :
           Entry(DepsOf(k)'[j], k) \in cons'
    <3> SUFFICES ASSUME NEW k \in 1..(n - 1), NEW j \in 1..Len(DepsOf(k))
                 PROVE  Entry(DepsOf(k)[j], k) \in cons'
        BY <2>1
    <3>1. Entry(DepsOf(k)[j], k) \in cons
          BY <1>0, <1>10 DEF ConsInv, Recorded
    <3> QED BY <1>2, <1>10, <3>1 DEF Entry
  <2>4. \A c \in cons' : decided'[c.pkg] # NoVer => decided'[c.pkg] \in c.spec
    <3> SUFFICES ASSUME NEW c \in cons', decided'[c.pkg] # NoVer
                 PROVE  decided'[c.pkg] \in c.spec
        OBVIOUS
    <3>1. c \in cons /\ c.src # Depth /\ c.pkg \in Pkg
          BY <1>2 DEF Registered, TypeOK, ConsEntry
    <3>2. decided'[c.pkg] = decided[c.pkg]
          BY <1>7, <3>1
    <3> QED BY <1>0, <3>1, <3>2 DEF ConsInv
  <2>5. \A k \in 1..Len(roots) : Entry(roots[k], 0) \in cons'
    <3>1. \A k \in 1..Len(roots) : Entry(roots[k], 0).src # Depth
          BY <1>1 DEF Entry
    <3> QED BY <1>0, <1>2, <3>1 DEF ConsInv
  <2> QED BY <1>2, <1>6, <2>2, <2>3, <2>4, <2>5 DEF ConsInv, Entry
<1>13. CoverInv'
  <2> SUFFICES ASSUME NEW s, Solution(s)
               PROVE  Ahead(s)'
      BY <1>2 DEF CoverInv, Solution, Abs!Solution
  <2>1. PICK k \in 1..n : Agrees(s, k - 1) /\ s[frames[k].pkg] \in frames[k].left
        BY <1>0 DEF CoverInv, Ahead
  <2>2. Agrees(s, k - 1)'
        BY <1>1, <1>5, <2>1 DEF Agrees
  <2> QED BY <1>5, <1>8, <2>1, <2>2 DEF Ahead
<1> QED BY <1>2, <1>9, <1>11, <1>12, <1>13 DEF SearchInv, RootsInv

\* With nothing open, what is decided is a solution.
LEMMA SolvedStep ==
    ASSUME Registered, SearchInv, Solved
    PROVE  /\ Registered' /\ SearchInv'
           /\ result' = "solved" /\ chosen' = decided /\ Solution(decided)
<1>0. pc = "step" /\ Searching /\ StackInv /\ ConsInv
      BY DEF Solved, Searching, SearchInv
<1>1. /\ Depth \in Nat /\ Deciding = 1..Depth
      BY <1>0, StackTop
<1>2. /\ pc' = "idle" /\ script' = Tail(script) /\ result' = "solved"
      /\ chosen' = decided
      /\ UNCHANGED <<order, vers, deps, roots, i, cons, decided, frames>>
      BY DEF Solved, Returned, registry, search
<1>3. Registered'
  <2>1. script # <<>>
        BY <1>0 DEF Registered, CallServed
  <2> QED BY <1>2, <2>1, SearchRegistered DEF Registered, TypeOK, registry
<1>4. ASSUME NEW d \in GoodDep, d.pkg \in Interned, NEW k, Entry(d, k) \in cons
      PROVE  Abs!Meets(decided, d)
  <2>1. \E c \in cons : c.pkg = d.pkg /\ c.spec = d.spec
        BY <1>4 DEF Entry
  <2>2. decided[d.pkg] # NoVer
        BY <1>4, <2>1 DEF Solved, Open
  <2>3. decided[d.pkg] \in d.spec
        BY <1>0, <2>1, <2>2 DEF ConsInv
  <2> QED BY <2>2, <2>3 DEF Abs!Meets
<1>5. \A k \in 1..Len(roots) : Abs!Meets(decided, roots[k])
      BY <1>0, <1>4, ElementOfSeq DEF ConsInv, Registered, RegistryInv
<1>6. ASSUME NEW p \in Pkg, decided[p] # NoVer
      PROVE  /\ decided[p] \in vers[p]
             /\ \A j \in 1..Len(deps[p][decided[p]]) : Abs!Meets(decided, deps[p][decided[p]][j])
  <2>1. PICK k \in Deciding : frames[k].pkg = p
        BY <1>0, <1>6 DEF StackInv
  <2>2. decided[p] = frames[k].ver /\ decided[p] \in vers[p] /\ decided[p] \in Ver
        BY <1>0, <2>1 DEF StackInv, Registered, TypeOK
  <2>3. DepsOf(k) = deps[p][decided[p]] /\ DepsOf(k) \in Seq(GoodDep)
        BY <2>1, <2>2 DEF DepsOf, Registered, RegistryInv
  <2>4. \A j \in 1..Len(DepsOf(k)) : /\ Entry(DepsOf(k)[j], k) \in cons
                                     /\ DepsOf(k)[j] \in GoodDep
                                     /\ DepsOf(k)[j].pkg \in Interned
    <3>1. \A j \in 1..Len(DepsOf(k)) : Entry(DepsOf(k)[j], k) \in cons
          BY <1>0 DEF ConsInv, Recorded
    <3>2. \A j \in 1..Len(DepsOf(k)) : DepsOf(k)[j] \in GoodDep
          BY <2>3, ElementOfSeq
    <3>3. \A j \in 1..Len(DepsOf(k)) : DepsOf(k)[j].pkg \in Interned
          BY <2>2, <2>3 DEF Registered, RegistryInv
    <3> QED BY <3>1, <3>2, <3>3
  <2> QED BY <1>4, <2>2, <2>3, <2>4
<1>7. Solution(decided)
      BY <1>5, <1>6 DEF Solution, Abs!Solution, Abs!Assignments, Registered, TypeOK
<1>8. ~Searching' /\ pc' # "roots"
      BY <1>2 DEF Searching
<1> QED BY <1>2, <1>3, <1>7, <1>8
        DEF SearchInv, RootsInv, StackInv, ConsInv, CoverInv

-----------------------------------------------------------------------------
(* The inductive invariant, and what follows from it. *)

SolverInv == Registered /\ SearchInv

LEMMA InitInv == Init => SolverInv
<1>1. Init => pc = "idle"
      BY DEF Init
<1>2. pc = "idle" => SearchInv
      BY DEF SearchInv, RootsInv, StackInv, ConsInv, CoverInv, Searching
<1> QED BY <1>1, <1>2, InitRegistered DEF SolverInv

LEMMA NextInv == SolverInv /\ [Next]_vars => SolverInv'
<1> SUFFICES ASSUME SolverInv, [Next]_vars PROVE SolverInv'
    OBVIOUS
<1> USE DEF SolverInv
<1>1. CASE RootDep \/ Add \/ AddDepName \/ AddVersion
  <2>1. pc' \in {"idle", "adding"}
    <3>1. CASE RootDep
          BY <3>1 DEF RootDep, Returned
    <3>2. CASE Add
          BY <3>2 DEF Add, Returned
    <3>3. CASE AddDepName
          BY <3>3 DEF AddDepName, Returned
    <3>4. CASE AddVersion
          BY <3>4 DEF AddVersion, Returned
    <3> QED BY <1>1, <3>1, <3>2, <3>3, <3>4
  <2>2. SearchInv'
        BY <2>1 DEF SearchInv, RootsInv, StackInv, ConsInv, CoverInv, Searching
  <2> QED BY <1>1, <2>2, RegistrationStep
<1>2. CASE Solve
      BY <1>2, SolveStep
<1>3. CASE RootConstraint
      BY <1>3, RootConstraintStep
<1>4. CASE RootsDone
      BY <1>4, RootsDoneStep
<1>5. CASE Solved
      BY <1>5, SolvedStep
<1>6. CASE SearchStep
      BY <1>6, SearchStepStep
<1>7. CASE TryVersion
      BY <1>7, TryVersionStep
<1>8. CASE Exhausted
      BY <1>8, ExhaustedStep
<1>9. CASE DepConstraint
      BY <1>9, DepConstraintStep
<1>10. CASE DepsDone
       BY <1>10, DepsDoneStep
<1>11. CASE Backtrack
       BY <1>11, BacktrackStep
<1>12. CASE UNCHANGED vars
  <2>1. UNCHANGED <<script, order, vers, deps, roots, pc, i, cons, decided, frames,
                    result, chosen>>
        BY <1>12 DEF vars, registry, search, answer
  <2>2. TypeOK' /\ CallServed' /\ RegistryInv'
    <3>1. TypeOK'
          BY <2>1 DEF Registered, TypeOK
    <3>2. CallServed'
          BY <2>1 DEF Registered, CallServed, Interned
    <3>3. RegistryInv'
          BY <2>1 DEF Registered, RegistryInv, Interned
    <3> QED BY <3>1, <3>2, <3>3
  <2>3. RootsInv' /\ StackInv'
        BY <2>1 DEF SearchInv, RootsInv, StackInv, Searching, Depth, Deciding
  <2>4. ConsInv'
        BY <2>1 DEF SearchInv, ConsInv, Searching, Depth, Deciding, Justified, DepsOf,
                    Recorded
  <2>5. CoverInv'
        BY <2>1 DEF SearchInv, CoverInv, Searching, Depth, Ahead, Agrees,
                    Solution, Abs!Solution
  <2> QED BY <2>2, <2>3, <2>4, <2>5 DEF Registered, SearchInv
<1> QED BY <1>1, <1>2, <1>3, <1>4, <1>5, <1>6, <1>7, <1>8, <1>9, <1>10, <1>11, <1>12
        DEF Next

LEMMA Invariance == Spec => []SolverInv
<1> QED BY InitInv, NextInv, PTL DEF Spec

\* The solver's state keeps its types, whatever its clients register.
THEOREM Typing == Spec => []TypeOK
<1>1. SolverInv => TypeOK
      BY DEF SolverInv, Registered
<1> QED BY <1>1, Invariance, PTL

\* try_version and drop_constraints leave nothing behind: what is decided is
\* what the stack decides, and every constraint has its root or its frame.
THEOREM CleanBacktracking == Spec => []NoResidue
<1>1. SolverInv => NoResidue
  <2> SUFFICES ASSUME SolverInv, Searching PROVE NoResidue
      BY DEF NoResidue
  <2>1. Registered /\ StackInv /\ ConsInv
        BY DEF SolverInv, SearchInv
  <2>2. \A k \in Deciding : frames[k].ver \in Ver /\ decided[frames[k].pkg] = frames[k].ver
        BY <2>1, StackTop DEF StackInv
  <2>3. \A p \in Pkg : decided[p] # NoVer <=>
           \E k \in Deciding : frames[k].pkg = p /\ frames[k].ver = decided[p]
    <3> SUFFICES ASSUME NEW p \in Pkg
                 PROVE  decided[p] # NoVer <=>
                          \E k \in Deciding : frames[k].pkg = p /\ frames[k].ver = decided[p]
        OBVIOUS
    <3>1. ASSUME decided[p] # NoVer
          PROVE  \E k \in Deciding : frames[k].pkg = p /\ frames[k].ver = decided[p]
      <4>1. PICK k \in Deciding : frames[k].pkg = p
            BY <2>1, <3>1 DEF StackInv
      <4> QED BY <2>2, <4>1
    <3>2. ASSUME NEW k \in Deciding, frames[k].pkg = p, frames[k].ver = decided[p]
          PROVE  decided[p] # NoVer
          BY <2>2, <3>2, VerFacts
    <3> QED BY <3>1, <3>2
  <2>4. \A c \in cons : Justified(c)
        BY <2>1 DEF ConsInv
  <2> QED BY <2>3, <2>4 DEF NoResidue
<1> QED BY <1>1, Invariance, PTL

LEMMA InitAnswers == Init => Abs!Init
BY DEF Init, Abs!Init, Abs!Assignments, Undecided

LEMMA LearnStep ==
    ASSUME SolverInv, RootDep \/ AddVersion
    PROVE  Abs!Learn \/ UNCHANGED <<vers, deps, roots, result, chosen>>
<1> USE DEF SolverInv, Registered
<1>1. CASE RootDep
  <2>1. Head(script).dep.spec = BadSpec => UNCHANGED <<vers, deps, roots, result, chosen>>
        BY <1>1 DEF RootDep, registry, answer
  <2>2. CASE Head(script).dep.spec # BadSpec
    <3>1. /\ roots' = Append(roots, Head(script).dep)
          /\ UNCHANGED <<vers, deps, result, chosen>>
          BY <1>1, <2>2 DEF RootDep, answer
    <3>2. Head(script).dep \in Dep /\ roots \in Seq(Dep)
          BY <1>1, HeadCall DEF RootDep, Called, TypeOK
    <3>3. \A k \in 1..Len(roots) : roots'[k] = roots[k]
          BY <3>1, <3>2, AppendProperties
    <3> QED BY <3>1, <3>3 DEF Abs!Learn
  <2> QED BY <2>1, <2>2
<1>2. CASE AddVersion
  <2> DEFINE c == Head(script)
  <2>1. c.pkg \in Pkg /\ c.ver \in Ver /\ c.ver \notin vers[c.pkg]
        BY <1>2, HeadCall DEF AddVersion, TypeOK, CallServed
  <2>2. /\ vers' = [vers EXCEPT ![c.pkg] = @ \cup {c.ver}]
        /\ deps' = [deps EXCEPT ![c.pkg][c.ver] = c.deps]
        /\ UNCHANGED <<roots, result, chosen>>
        BY <1>2 DEF AddVersion, answer
  <2>3. \A p \in Pkg : vers[p] \subseteq vers'[p] /\ vers[p] \subseteq Ver
        BY <2>1, <2>2 DEF TypeOK
  <2>4. \A p \in Pkg : \A v \in vers[p] : deps'[p][v] = deps[p][v]
        BY <2>1, <2>2, <2>3 DEF TypeOK
  <2> QED BY <2>2, <2>3, <2>4 DEF Abs!Learn
<1> QED BY <1>1, <1>2

\* A solver that was told nothing has nothing to choose.
LEMMA NothingAsked ==
    ASSUME SolverInv, order = <<>>
    PROVE  Abs!Solution(Undecided)
<1> USE DEF SolverInv, Registered
<1>1. roots = <<>>
  <2>1. Interned = {}
        BY DEF Interned
  <2>2. Len(roots) \in Nat /\ \A k \in 1..Len(roots) : FALSE
        BY <2>1 DEF RegistryInv
  <2> QED BY <2>2, EmptySeq DEF RegistryInv
<1> QED BY <1>1 DEF Abs!Solution, Abs!Assignments, Undecided

LEMMA SolveAnswers ==
    ASSUME SolverInv, Solve
    PROVE  Abs!Next
<1>1. CASE order = <<>>
      BY <1>1, NothingAsked DEF Solve, Abs!Next, Abs!Reply, registry
<1>2. CASE order # <<>>
      BY <1>2 DEF Solve, Abs!Next, Abs!Ask, registry
<1> QED BY <1>1, <1>2

LEMMA NextAnswers ==
    ASSUME SolverInv, [Next]_vars
    PROVE  [Abs!Next]_<<vers, deps, roots, result, chosen>>
<1>0. Registered /\ SearchInv
      BY DEF SolverInv
<1>1. CASE RootDep \/ AddVersion
      BY <1>1, LearnStep DEF Abs!Next
<1>2. CASE Add \/ AddDepName
      BY <1>2 DEF Add, AddDepName, registry, answer
<1>3. CASE Solve
      BY <1>3, SolveAnswers
<1>4. CASE RootConstraint
  <2>1. UNCHANGED registry /\ (pc' = "idle" \/ UNCHANGED answer)
        BY <1>4 DEF RootConstraint, SearchFails, Returned
  <2>2. pc' = "idle" => result' = "error" /\ \A s : ~Solution(s)
        BY <1>0, <1>4, RootConstraintStep
  <2> QED BY <2>1, <2>2 DEF Abs!Next, Abs!Reply, Solution, registry, answer
<1>5. CASE Exhausted
  <2>1. UNCHANGED registry /\ (pc' = "idle" \/ UNCHANGED answer)
        BY <1>5 DEF Exhausted, SearchFails, Returned
  <2>2. pc' = "idle" => result' = "error" /\ \A s : ~Solution(s)
        BY <1>0, <1>5, ExhaustedStep
  <2> QED BY <2>1, <2>2 DEF Abs!Next, Abs!Reply, Solution, registry, answer
<1>6. CASE Solved
  <2>1. result' = "solved" /\ Abs!Solution(chosen')
        BY <1>0, <1>6, SolvedStep DEF Solution
  <2> QED BY <1>6, <2>1 DEF Solved, Abs!Next, Abs!Reply, registry
<1>7. CASE RootsDone \/ SearchStep \/ TryVersion \/ DepConstraint \/ DepsDone \/ Backtrack
      BY <1>7 DEF RootsDone, SearchStep, TryVersion, DepConstraint, DepsDone, Backtrack,
                  registry, answer
<1>8. CASE UNCHANGED vars
      BY <1>8 DEF vars, registry, answer
<1> QED BY <1>1, <1>2, <1>3, <1>4, <1>5, <1>6, <1>7, <1>8 DEF Next

\* pubgrub_solver_solve keeps the promise of pubgrub.h: it answers with an
\* assignment that meets every root and every dependency of what it chose, and
\* reports an error only when there is no such assignment.
THEOREM SoundAndComplete == Spec => AnswersRight
<1> DEFINE absvars == <<vers, deps, roots, result, chosen>>
<1>1. Init => Abs!Init
      BY InitAnswers
<1>2. SolverInv /\ [Next]_vars => [Abs!Next]_absvars
      BY NextAnswers
<1> QED BY <1>1, <1>2, Invariance, PTL DEF Spec, AnswersRight, Abs!Spec

\* While solve runs it has not answered.
Unanswered == Searching \/ pc = "roots" => result = "none"

LEMMA AnswerPending == Spec => []Unanswered
<1>1. Init => Unanswered
      BY DEF Init, Unanswered, Searching
<1>2. Unanswered /\ [Next]_vars => Unanswered'
  <2> SUFFICES ASSUME Unanswered, [Next]_vars PROVE Unanswered'
      OBVIOUS
  <2> USE DEF Unanswered, Searching
  <2>1. CASE RootDep \/ Add \/ AddDepName \/ AddVersion \/ Solved
        BY <2>1 DEF RootDep, Add, AddDepName, AddVersion, Solved, Returned
  <2>2. CASE Solve
        BY <2>2 DEF Solve, Returned
  <2>3. CASE RootConstraint \/ RootsDone
        BY <2>3 DEF RootConstraint, RootsDone, SearchFails, Returned, answer
  <2>4. CASE SearchStep \/ TryVersion \/ Exhausted
        BY <2>4 DEF SearchStep, TryVersion, Exhausted, SearchFails, Returned, answer
  <2>5. CASE DepConstraint \/ DepsDone \/ Backtrack
        BY <2>5 DEF DepConstraint, DepsDone, Backtrack, answer
  <2>6. CASE UNCHANGED vars
        BY <2>6 DEF vars, answer
  <2> QED BY <2>1, <2>2, <2>3, <2>4, <2>5, <2>6 DEF Next
<1> QED BY <1>1, <1>2, PTL DEF Spec

\* The package the search decides first gets the highest version that any
\* solution gives it.
THEOREM FirstIsHighest == Spec => HighestFirst
<1> DEFINE Highest == result' = "solved" /\ pc = "step" /\ Depth > 0 =>
                        \A s \in Abs!Assignments : Solution(s) =>
                           s[frames[1].pkg] <= chosen'[frames[1].pkg]
<1>1. SolverInv /\ Unanswered /\ [Next]_vars => [Highest]_vars
  <2> SUFFICES ASSUME SolverInv, Unanswered, Next, result' = "solved", pc = "step",
                      Depth > 0, NEW s \in Abs!Assignments, Solution(s)
               PROVE  s[frames[1].pkg] <= chosen'[frames[1].pkg]
      OBVIOUS
  <2>1. result = "none"
        BY DEF Unanswered, Searching
  <2>2. Solved
    <3>1. ~(RootDep \/ Add \/ AddDepName \/ AddVersion \/ Solve)
          BY DEF RootDep, Add, AddDepName, AddVersion, Solve, Called
    <3>2. ~(RootConstraint \/ RootsDone)
          BY DEF RootConstraint, RootsDone
    <3>3. ~(SearchStep \/ TryVersion \/ Exhausted)
          BY <2>1 DEF SearchStep, TryVersion, Exhausted, answer
    <3>4. ~(DepConstraint \/ DepsDone \/ Backtrack)
          BY DEF DepConstraint, DepsDone, Backtrack
    <3> QED BY <3>1, <3>2, <3>3, <3>4 DEF Next
  <2>3. Registered /\ StackInv /\ CoverInv /\ Searching
        BY DEF SolverInv, SearchInv, Searching
  <2>4. Depth \in Nat /\ Deciding = 1..Depth /\ \A k \in Deciding : frames[k].ver \in Ver
        BY <2>3, StackTop
  <2>5. 1 \in 1..Depth /\ frames[1].ver \in Nat /\ chosen'[frames[1].pkg] = frames[1].ver
    <3>1. 1 \in 1..Depth /\ 1 \in Deciding
          BY <2>4
    <3>2. chosen' = decided
          BY <2>2, SolvedStep DEF SolverInv
    <3>3. frames[1].ver \in Ver /\ decided[frames[1].pkg] = frames[1].ver
          BY <2>3, <2>4, <3>1 DEF StackInv
    <3> QED BY <3>1, <3>2, <3>3, VerFacts
  <2>6. Ahead(s)
        BY <2>3 DEF CoverInv
  <2>7. CASE Agrees(s, Depth)
        BY <2>4, <2>5, <2>7 DEF Agrees
  <2>8. CASE \E k \in 1..Depth : Agrees(s, k - 1) /\ s[frames[k].pkg] \in frames[k].left
    <3>1. PICK k \in 1..Depth : Agrees(s, k - 1) /\ s[frames[k].pkg] \in frames[k].left
          BY <2>8
    <3>2. CASE k = 1
      <4>1. s[frames[1].pkg] \in frames[1].left /\ frames[1].left \subseteq Nat
            BY <2>3, <2>5, <3>1, <3>2, FrameTyped, VerFacts
      <4>2. s[frames[1].pkg] < frames[1].ver
            BY <2>3, <2>4, <2>5, <4>1 DEF StackInv
      <4> QED BY <2>5, <4>1, <4>2
    <3>3. CASE k # 1
      <4>1. 1 \in 1..(k - 1)
            BY <2>4, <3>3
      <4> QED BY <2>5, <3>1, <4>1 DEF Agrees
    <3> QED BY <3>2, <3>3
  <2> QED BY <2>6, <2>7, <2>8 DEF Ahead
<1>2. SolverInv /\ Unanswered /\ [Next]_vars =>
        [result' = "solved" /\ pc = "step" /\ Depth > 0 =>
           \A s \in Abs!Assignments : Solution(s) =>
              s[frames[1].pkg] <= chosen'[frames[1].pkg]]_vars
      BY <1>1
<1> HIDE DEF Highest
<1> QED BY <1>2, AnswerPending, Invariance, PTL DEF Spec, HighestFirst
=============================================================================
