-------------------------- MODULE ComponentProofs ---------------------------
(***************************************************************************)
(* Proofs about ComponentStore and ComponentResolve, for every set of      *)
(* packages and registries, whatever they publish and whatever a project   *)
(* requires.  Of prepare: when it succeeds every component it lists is on  *)
(* disk as published, and it keeps a lock file that is there.  Of the      *)
(* resolver: what is resolved is a solution over everything published, a   *)
(* project is refused only when there is none, and a component the project *)
(* itself requires comes from the registry the project names.              *)
(***************************************************************************)
EXTENDS ComponentResolve, ComponentStore, PubGrubProofs

Asking == [name : Pkg, url : Url]
Component == [name : Pkg \ {Idf}, url : Url, releases : Seq(Release)]
Stages == {"collect", "push", "register", "require", "solve", "resolved", "failed", "died"}
Walking == stage \in {"collect", "push", "died"}

RShape ==
    /\ IsProject(project)
    /\ stage \in Stages
    /\ queue \in Seq(Asking)
    /\ seen \subseteq Pkg
    /\ fetched \in Seq(Component)
    /\ at \in (Nat \ {0}) \X (Nat \ {0})
    /\ resolved = {} \/ stage = "resolved"
    /\ stage = "push" => fetched # <<>>
    /\ Walking \/ queue = <<>>

-----------------------------------------------------------------------------
(* The walk misses nothing. *)

Names == {fetched[c].name : c \in 1..Len(fetched)}
Asked(p) == p \in seen \/ \E m \in 1..Len(queue) : queue[m].name = p

\* Dependency d of release j of component c has still to be requested.
ToPush(c, j, d) ==
    /\ stage = "push" /\ c = Len(fetched)
    /\ j > at[1] \/ (j = at[1] /\ d >= at[2])

FetchedOnce == \A b, c \in 1..Len(fetched) : fetched[b].name = fetched[c].name => b = c
FetchedWhole ==
    \A c \in 1..Len(fetched) :
       /\ fetched[c].name \in DOMAIN project.index[fetched[c].url]
       /\ fetched[c].releases = project.index[fetched[c].url][fetched[c].name]
SeenIsFetched == Names \subseteq seen /\ seen \subseteq Names \cup {Idf}
RootsAsked == \A r \in 1..Len(project.roots) : Asked(project.roots[r].pkg)
DepsAsked ==
    \A c \in 1..Len(fetched) : \A j \in 1..Len(fetched[c].releases) :
       \A d \in 1..Len(fetched[c].releases[j].deps) :
          ToPush(c, j, d) \/ Asked(fetched[c].releases[j].deps[d].pkg)

WalkInv == FetchedOnce /\ FetchedWhole /\ SeenIsFetched /\ RootsAsked /\ DepsAsked

\* The queue begins with the requests of the roots that were not looked at.
RootsAhead ==
    \E j \in 0..Len(project.roots) :
       /\ Len(queue) >= Len(project.roots) - j
       /\ \A k \in 1..(Len(project.roots) - j) :
             queue[k] = Request(project.roots[j + k], DefaultUrl)
       /\ \A r \in 1..j : project.roots[r].pkg \in seen

RootsInOrder == Walking => RootsAhead

-----------------------------------------------------------------------------
(* What the solver has been told, once the call in progress is over. *)

CallInv ==
    /\ script = <<>> \/ script = <<Head(script)>>
    /\ pc \notin {"idle", "adding"} => Head(script).op = "solve"
    /\ script # <<>> =>
         \/ stage = "register" /\ Head(script).op = "add"
         \/ stage = "require" /\ Head(script).op = "root" /\ Head(script).dep.spec # BadSpec
         \/ stage = "solve" /\ Head(script).op = "solve"

AllParse(ds) == \A k \in 1..Len(ds) : ds[k].spec # BadSpec
\* The version being added will be one of its package.
Adds ==
    /\ script # <<>> /\ Head(script).op = "add"
    /\ Head(script).ver # BadVersion /\ AllParse(Head(script).deps)
    /\ Head(script).ver \notin vers[Head(script).pkg]
ToldVers(p) == vers[p] \cup (IF Adds /\ Head(script).pkg = p THEN {Head(script).ver} ELSE {})
ToldDeps(p, v) ==
    IF Adds /\ Head(script).pkg = p /\ Head(script).ver = v THEN Head(script).deps ELSE deps[p][v]
ToldRoots ==
    IF script # <<>> /\ Head(script).op = "root" THEN Append(roots, Head(script).dep) ELSE roots

\* The releases of component c that were handed over.
Count(c) ==
    IF Walking THEN 0
    ELSE IF stage # "register" \/ c < at[1] THEN Len(fetched[c].releases)
    ELSE IF c = at[1] THEN at[2] - 1 ELSE 0
Handed(c, v) ==
    {m \in 1..Count(c) : Usable(fetched[c].releases[m]) /\ fetched[c].releases[m].ver = v}

\* Of several releases of one version the first usable one counts.
FirstCounts(c, p, v) ==
    IF v \in ToldVers(p)
    THEN \E m \in Handed(c, v) :
            /\ \A j \in Handed(c, v) : m <= j
            /\ ToldDeps(p, v) = Plainly(fetched[c].releases[m].deps)
    ELSE Handed(c, v) = {}

ComponentsTold ==
    ~Walking => \A c \in 1..Len(fetched) : \A p \in Pkg, v \in Ver :
                   p = fetched[c].name => FirstCounts(c, p, v)
IdfTold == ~Walking => ToldVers(Idf) = {IdfVersion} /\ ToldDeps(Idf, IdfVersion) = <<>>
OthersUntold ==
    \A p \in Pkg : Walking \/ p \notin Names \cup {Idf} => ToldVers(p) = {}
Progress ==
    stage = "register" =>
       /\ at[1] <= Len(fetched) + 1
       /\ at[1] <= Len(fetched) => at[2] <= Len(fetched[at[1]].releases) + 1
\* The roots up to n were told, and nothing else.
RootsUpTo(n) ==
    /\ Len(ToldRoots) = n
    /\ \A k \in 1..n : ToldRoots[k] = Plain(project.roots[k])
RootsTold ==
    /\ Walking \/ stage = "register" => RootsUpTo(0)
    /\ stage = "require" => at[1] <= Len(project.roots) + 1 /\ RootsUpTo(at[1] - 1)
    /\ stage = "solve" => RootsUpTo(Len(project.roots))

ToldInv == CallInv /\ ComponentsTold /\ IdfTold /\ OthersUntold /\ Progress /\ RootsTold

Answered ==
    stage = "solve" /\ script = <<>> =>
       \/ result = "solved" /\ Solution(chosen)
       \/ result = "error" /\ \A s : ~Solution(s)

-----------------------------------------------------------------------------
(* The walk. *)

LEMMA ProjectFacts ==
    ASSUME RShape
    PROVE  /\ project.roots \in Seq(Wanted) /\ project.idf \in Ver \cup {NoVer}
           /\ Len(project.roots) \in Nat
           /\ \A r \in 1..Len(project.roots) : project.roots[r] \in Wanted
           /\ \A u \in Url : \A p \in DOMAIN project.index[u] :
                 p \in Pkg \ {Idf} /\ project.index[u][p] \in Seq(Release)
BY DEF RShape, IsProject

LEMMA RequestTyped ==
    ASSUME NEW d \in Wanted, NEW u \in Url
    PROVE  Request(d, u) \in Asking /\ Request(d, u).name = d.pkg
BY DEF Wanted, Request, Asking

LEMMA QueueHead ==
    ASSUME RShape, queue # <<>>
    PROVE  /\ Head(queue) \in Asking /\ Head(queue) = queue[1]
           /\ Tail(queue) \in Seq(Asking)
           /\ Len(queue) \in Nat \ {0} /\ Len(Tail(queue)) = Len(queue) - 1
           /\ \A m \in 1..Len(Tail(queue)) : Tail(queue)[m] = queue[m + 1]
BY HeadTailProperties, EmptySeq DEF RShape

LEMMA ComponentFacts ==
    ASSUME RShape, NEW c \in 1..Len(fetched)
    PROVE  /\ fetched[c] \in Component
           /\ fetched[c].name \in Pkg \ {Idf} /\ fetched[c].url \in Url
           /\ fetched[c].releases \in Seq(Release) /\ Len(fetched[c].releases) \in Nat
           /\ \A j \in 1..Len(fetched[c].releases) :
                 /\ fetched[c].releases[j] \in Release
                 /\ fetched[c].releases[j].ver \in Ver \cup {BadVersion}
                 /\ fetched[c].releases[j].deps \in Seq(Wanted)
                 /\ Len(fetched[c].releases[j].deps) \in Nat
                 /\ \A d \in 1..Len(fetched[c].releases[j].deps) :
                       fetched[c].releases[j].deps[d] \in Wanted
<1>1. fetched[c] \in Component
      BY DEF RShape
<1>2. fetched[c].releases \in Seq(Release)
      BY <1>1 DEF Component
<1>3. ASSUME NEW j \in 1..Len(fetched[c].releases)
      PROVE  /\ fetched[c].releases[j] \in Release
             /\ fetched[c].releases[j].ver \in Ver \cup {BadVersion}
             /\ fetched[c].releases[j].deps \in Seq(Wanted)
  <2>1. fetched[c].releases[j] \in Release
        BY <1>2
  <2> QED BY <2>1 DEF Release
<1> QED BY <1>1, <1>2, <1>3 DEF Component

LEMMA LastFetched ==
    ASSUME RShape, stage = "push"
    PROVE  Len(fetched) \in Nat \ {0} /\ Len(fetched) \in 1..Len(fetched)
BY EmptySeq DEF RShape

\* What is being pushed is a dependency of the component found last.
LEMMA PushFacts ==
    ASSUME RShape, Push
    PROVE  /\ at[1] \in 1..Len(fetched[Len(fetched)].releases)
           /\ at[2] \in 1..Len(fetched[Len(fetched)].releases[at[1]].deps)
           /\ Deps[at[2]] \in Wanted
           /\ Found.url \in Url /\ Request(Deps[at[2]], Found.url) \in Asking
           /\ Request(Deps[at[2]], Found.url).name = Deps[at[2]].pkg
<1>1. Len(fetched) \in 1..Len(fetched)
      BY LastFetched DEF Push
<1>2. /\ at[1] \in 1..Len(fetched[Len(fetched)].releases)
      /\ at[2] \in Nat \ {0} /\ at[2] <= Len(Deps)
      BY <1>1, ComponentFacts DEF RShape, Push, Releases, Found
<1>3. at[2] \in 1..Len(fetched[Len(fetched)].releases[at[1]].deps)
      BY <1>1, <1>2, ComponentFacts DEF Deps, Found
<1>4. Deps[at[2]] \in Wanted /\ Found.url \in Url
      BY <1>1, <1>2, <1>3, ComponentFacts DEF Deps, Found
<1> QED BY <1>2, <1>3, <1>4, RequestTyped

\* What the walk does to the names asked for, requested and found.
LEMMA QueueGrows ==
    ASSUME RShape, NEW r \in Asking, queue' = Append(queue, r), seen' = seen
    PROVE  /\ queue' \in Seq(Asking)
           /\ Asked(r.name)' /\ \A p : Asked(p) => Asked(p)'
<1>1. /\ queue' \in Seq(Asking) /\ Len(queue) \in Nat
      /\ Len(queue') = Len(queue) + 1 /\ queue'[Len(queue) + 1] = r
      /\ \A m \in 1..Len(queue) : queue'[m] = queue[m]
      BY AppendProperties DEF RShape
<1> QED BY <1>1 DEF Asked

LEMMA QueueServed ==
    ASSUME RShape, queue # <<>>, queue' = Tail(queue),
           seen' = seen \cup {Head(queue).name}
    PROVE  \A p : Asked(p) => Asked(p)'
<1> SUFFICES ASSUME NEW p, Asked(p) PROVE Asked(p)'
    OBVIOUS
<1>1. CASE p \in seen
      BY <1>1 DEF Asked
<1>2. ASSUME NEW m \in 1..Len(queue), queue[m].name = p
      PROVE  Asked(p)'
  <2>1. CASE m = 1
        BY <1>2, <2>1, QueueHead DEF Asked
  <2>2. CASE m # 1
    <3>1. m - 1 \in 1..Len(Tail(queue)) /\ Tail(queue)[m - 1] = queue[m]
          BY <2>2, QueueHead
    <3> QED BY <1>2, <3>1 DEF Asked
  <2> QED BY <2>1, <2>2
<1> QED BY <1>1, <1>2 DEF Asked

-----------------------------------------------------------------------------
LEMMA InitShape == RInit => RShape /\ WalkInv /\ RootsInOrder /\ RootsChoose
<1> SUFFICES ASSUME RInit PROVE RShape /\ WalkInv /\ RootsInOrder /\ RootsChoose
    OBVIOUS
<1>1. /\ project.roots \in Seq(Wanted) /\ Len(project.roots) \in Nat
      /\ \A r \in 1..Len(project.roots) : project.roots[r] \in Wanted
      BY ProjectsAssumption DEF RInit, IsProject
<1>2. \A k \in 1..Len(project.roots) :
         /\ Request(project.roots[k], DefaultUrl) \in Asking
         /\ Request(project.roots[k], DefaultUrl).name = project.roots[k].pkg
      BY <1>1, RequestTyped, UrlAssumption
<1>3. /\ queue \in Seq(Asking) /\ Len(queue) = Len(project.roots)
      /\ \A k \in 1..Len(project.roots) : queue[k] = Request(project.roots[k], DefaultUrl)
  <2>1. queue = [k \in 1..Len(project.roots) |-> Request(project.roots[k], DefaultUrl)]
        BY DEF RInit
  <2> QED BY <1>1, <1>2, <2>1
<1>4. fetched = <<>> /\ Len(fetched) = 0 /\ seen = {} /\ Names = {} /\ stage = "collect"
      BY DEF RInit, Names
<1>5. RShape
  <2>1. fetched \in Seq(Component)
        BY <1>4
  <2> QED BY <1>3, <1>4, <2>1, ProjectsAssumption DEF RInit, RShape, Stages, Walking
<1>6. WalkInv
  <2>1. RootsAsked
        BY <1>2, <1>3 DEF RootsAsked, Asked
  <2> QED BY <1>4, <2>1 DEF WalkInv, FetchedOnce, FetchedWhole, SeenIsFetched, DepsAsked
<1>7. RootsInOrder
  <2>1. /\ 0 \in 0..Len(project.roots) /\ Len(queue) >= Len(project.roots) - 0
        /\ \A k \in 1..(Len(project.roots) - 0) :
              queue[k] = Request(project.roots[0 + k], DefaultUrl)
        /\ \A r \in 1..0 : project.roots[r].pkg \in seen
        BY <1>1, <1>3
  <2> QED BY <2>1 DEF RootsInOrder, RootsAhead
<1>8. RootsChoose
      BY <1>4 DEF RootsChoose
<1> QED BY <1>5, <1>6, <1>7, <1>8

\* One walk step at a time: what is fetched, the names seen, what is asked for.
LEMMA FetchStep ==
    ASSUME RShape, WalkInv, Fetch
    PROVE  /\ RShape' /\ FetchedOnce' /\ FetchedWhole' /\ SeenIsFetched'
           /\ Len(fetched) \in Nat /\ Len(fetched') = Len(fetched) + 1
           /\ \A c \in 1..Len(fetched) : fetched'[c] = fetched[c]
           /\ fetched'[Len(fetched) + 1].name = Head(queue).name
           /\ fetched'[Len(fetched) + 1].url = Head(queue).url
<1> DEFINE r == Head(queue)
           f == [name |-> r.name, url |-> r.url, releases |-> project.index[r.url][r.name]]
<1>1. /\ stage = "collect" /\ stage' = "push" /\ queue # <<>>
      /\ r.name \notin seen \cup {Idf} /\ r.name \in DOMAIN project.index[r.url]
      /\ seen' = seen \cup {r.name} /\ fetched' = Append(fetched, f)
      /\ queue' = Tail(queue) /\ at' = <<1, 1>>
      /\ project' = project /\ resolved' = resolved
      BY DEF Fetch
<1>2. r \in Asking /\ r.name \in Pkg /\ r.url \in Url /\ Tail(queue) \in Seq(Asking)
      BY <1>1, QueueHead DEF Asking
<1>3. f \in Component
      BY <1>1, <1>2, ProjectFacts DEF Component
<1>4. /\ fetched \in Seq(Component) /\ fetched' \in Seq(Component)
      /\ Len(fetched) \in Nat /\ Len(fetched') = Len(fetched) + 1
      /\ \A c \in 1..Len(fetched) : fetched'[c] = fetched[c]
      /\ fetched'[Len(fetched) + 1] = f
      BY <1>1, <1>3, AppendProperties DEF RShape
<1>5. fetched' # <<>>
      BY <1>4, EmptySeq
<1>6. RShape'
      BY <1>1, <1>2, <1>4, <1>5 DEF RShape, Stages, Walking
<1>7. Names' = Names \cup {r.name} /\ r.name \notin Names
      BY <1>1, <1>4 DEF Names, WalkInv, SeenIsFetched
<1>8. SeenIsFetched'
      BY <1>1, <1>7 DEF WalkInv, SeenIsFetched
<1>9. FetchedOnce'
  <2> SUFFICES ASSUME NEW b \in 1..Len(fetched'), NEW c \in 1..Len(fetched'),
                      fetched'[b].name = fetched'[c].name
               PROVE  b = c
      BY DEF FetchedOnce
  <2>1. \A e \in 1..Len(fetched') : e # Len(fetched) + 1 =>
           e \in 1..Len(fetched) /\ fetched'[e].name \in Names
        BY <1>4 DEF Names
  <2>2. CASE b = Len(fetched) + 1 \/ c = Len(fetched) + 1
        BY <1>4, <1>7, <2>1, <2>2
  <2>3. CASE b # Len(fetched) + 1 /\ c # Len(fetched) + 1
        BY <1>4, <2>1, <2>3 DEF WalkInv, FetchedOnce
  <2> QED BY <2>2, <2>3
<1>10. FetchedWhole'
  <2> SUFFICES ASSUME NEW c \in 1..Len(fetched')
               PROVE  /\ fetched'[c].name \in DOMAIN project'.index[fetched'[c].url]
                      /\ fetched'[c].releases = project'.index[fetched'[c].url][fetched'[c].name]
      BY DEF FetchedWhole
  <2>1. CASE c = Len(fetched) + 1
        BY <1>1, <1>4, <2>1
  <2>2. CASE c # Len(fetched) + 1
        BY <1>1, <1>4, <2>2 DEF WalkInv, FetchedWhole
  <2> QED BY <2>1, <2>2
<1> QED BY <1>4, <1>6, <1>8, <1>9, <1>10

LEMMA FetchAsks ==
    ASSUME RShape, WalkInv, Fetch
    PROVE  RootsAsked' /\ DepsAsked'
<1>1. /\ stage = "collect" /\ queue # <<>> /\ stage' = "push" /\ at' = <<1, 1>>
      /\ queue' = Tail(queue) /\ seen' = seen \cup {Head(queue).name} /\ project' = project
      BY DEF Fetch
<1>2. \A p : Asked(p) => Asked(p)'
      BY <1>1, QueueServed
<1>3. RootsAsked'
      BY <1>1, <1>2 DEF WalkInv, RootsAsked
<1>4. DepsAsked'
  <2> SUFFICES ASSUME NEW c \in 1..Len(fetched'), NEW j \in 1..Len(fetched'[c].releases),
                      NEW d \in 1..Len(fetched'[c].releases[j].deps)
               PROVE  ToPush(c, j, d)' \/ Asked(fetched[c].releases[j].deps[d].pkg)'
      BY DEF DepsAsked
  <2>1. CASE c = Len(fetched')
    <3>1. j \in Nat \ {0} /\ d \in Nat \ {0}
          BY FetchStep, ComponentFacts, <2>1
    <3> QED BY <1>1, <2>1, <3>1 DEF ToPush
  <2>2. CASE c # Len(fetched')
    <3>1. c \in 1..Len(fetched) /\ fetched'[c] = fetched[c]
          BY <2>2, FetchStep
    <3>2. ~ToPush(c, j, d)
          BY <1>1 DEF ToPush
    <3>3. Asked(fetched[c].releases[j].deps[d].pkg)
          BY <3>1, <3>2 DEF WalkInv, DepsAsked
    <3> QED BY <1>2, <3>1, <3>3 DEF Asked
  <2> QED BY <2>1, <2>2
<1> QED BY <1>3, <1>4

LEMMA PassStep ==
    ASSUME RShape, WalkInv, Pass
    PROVE  RShape' /\ WalkInv'
<1>1. /\ stage = "collect" /\ stage' = "collect" /\ queue # <<>> /\ queue' = Tail(queue)
      /\ Head(queue).name \in seen \cup {Idf} /\ seen' = seen \cup {Head(queue).name}
      /\ UNCHANGED <<project, fetched, at, resolved>>
      BY DEF Pass
<1>2. Head(queue) \in Asking /\ Tail(queue) \in Seq(Asking)
      BY <1>1, QueueHead
<1>3. RShape'
      BY <1>1, <1>2 DEF RShape, Walking, Asking
<1>4. \A q : Asked(q) => Asked(q)'
      BY <1>1, QueueServed
<1>5. RootsAsked'
      BY <1>1, <1>4 DEF WalkInv, RootsAsked
<1>6. DepsAsked'
  <2> SUFFICES ASSUME NEW c \in 1..Len(fetched), NEW j \in 1..Len(fetched[c].releases),
                      NEW d \in 1..Len(fetched[c].releases[j].deps)
               PROVE  Asked(fetched[c].releases[j].deps[d].pkg)'
      BY <1>1 DEF DepsAsked
  <2>1. Asked(fetched[c].releases[j].deps[d].pkg)
        BY <1>1 DEF WalkInv, DepsAsked, ToPush
  <2> QED BY <1>1, <1>4, <2>1 DEF Asked
<1>7. FetchedOnce' /\ FetchedWhole' /\ SeenIsFetched'
      BY <1>1 DEF WalkInv, FetchedOnce, FetchedWhole, SeenIsFetched, Names
<1> QED BY <1>3, <1>5, <1>6, <1>7 DEF WalkInv

LEMMA PushStep ==
    ASSUME RShape, WalkInv, Push
    PROVE  RShape' /\ WalkInv'
<1>0. PICK d0, r0 : d0 = Deps[at[2]] /\ r0 = Request(Deps[at[2]], Found.url)
      OBVIOUS
<1>1. /\ stage = "push" /\ stage' = "push" /\ seen' = seen
      /\ queue' = IF d0.pkg \in seen THEN queue ELSE Append(queue, r0)
      /\ at' = <<at[1], at[2] + 1>>
      /\ UNCHANGED <<project, fetched, resolved>>
      BY <1>0 DEF Push
<1>2. /\ at[1] \in 1..Len(fetched[Len(fetched)].releases)
      /\ at[2] \in 1..Len(fetched[Len(fetched)].releases[at[1]].deps)
      /\ r0 \in Asking /\ r0.name = d0.pkg
      BY <1>0, PushFacts
<1>3. queue' \in Seq(Asking) /\ Asked(d0.pkg)' /\ \A p : Asked(p) => Asked(p)'
  <2>1. CASE d0.pkg \in seen
        BY <1>1, <2>1 DEF Asked, RShape
  <2>2. CASE d0.pkg \notin seen
        BY <1>1, <1>2, <2>2, QueueGrows DEF Asked
  <2> QED BY <2>1, <2>2
<1>4. RShape'
  <2>1. at' \in (Nat \ {0}) \X (Nat \ {0})
        BY <1>1, <1>2 DEF RShape
  <2> QED BY <1>1, <1>3, <2>1 DEF RShape, Walking
<1>5. RootsAsked'
      BY <1>1, <1>3 DEF WalkInv, RootsAsked
<1>6. DepsAsked'
  <2> SUFFICES ASSUME NEW c \in 1..Len(fetched), NEW j \in 1..Len(fetched[c].releases),
                      NEW d \in 1..Len(fetched[c].releases[j].deps)
               PROVE  ToPush(c, j, d)' \/ Asked(fetched[c].releases[j].deps[d].pkg)'
      BY <1>1 DEF DepsAsked
  <2>1. CASE Asked(fetched[c].releases[j].deps[d].pkg)
        BY <1>1, <1>3, <2>1 DEF Asked
  <2>2. CASE ToPush(c, j, d) /\ j = at[1] /\ d = at[2]
    <3>1. fetched[c].releases[j].deps[d] = d0
          BY <1>0, <2>2 DEF ToPush, Deps, Found
    <3> QED BY <1>1, <1>3, <3>1 DEF Asked
  <2>3. CASE ToPush(c, j, d) /\ ~(j = at[1] /\ d = at[2])
    <3>1. j \in Nat /\ d \in Nat /\ at'[1] = at[1] /\ at'[2] = at[2] + 1
          BY <1>1, ComponentFacts
    <3> QED BY <1>1, <1>2, <2>3, <3>1 DEF ToPush
  <2> QED BY <2>1, <2>2, <2>3 DEF WalkInv, DepsAsked
<1>7. FetchedOnce' /\ FetchedWhole' /\ SeenIsFetched'
      BY <1>1 DEF WalkInv, FetchedOnce, FetchedWhole, SeenIsFetched, Names
<1> QED BY <1>4, <1>5, <1>6, <1>7 DEF WalkInv

\* What leaves the walk as it is and has no dependency left to push.
LEMMA WalkStands ==
    ASSUME WalkInv, UNCHANGED <<project, queue, seen, fetched>>,
           \A c \in 1..Len(fetched) : \A j \in 1..Len(fetched[c].releases) :
              \A d \in 1..Len(fetched[c].releases[j].deps) :
                 ToPush(c, j, d) => ToPush(c, j, d)'
    PROVE  WalkInv'
<1>1. RootsAsked' /\ FetchedOnce' /\ FetchedWhole' /\ SeenIsFetched'
      BY DEF WalkInv, RootsAsked, FetchedOnce, FetchedWhole, SeenIsFetched, Asked, Names
<1>2. DepsAsked'
  <2> SUFFICES ASSUME NEW c \in 1..Len(fetched), NEW j \in 1..Len(fetched[c].releases),
                      NEW d \in 1..Len(fetched[c].releases[j].deps)
               PROVE  ToPush(c, j, d)' \/ Asked(fetched[c].releases[j].deps[d].pkg)'
      BY DEF DepsAsked
  <2>1. ToPush(c, j, d) \/ Asked(fetched[c].releases[j].deps[d].pkg)
        BY DEF WalkInv, DepsAsked
  <2> QED BY <2>1 DEF Asked
<1> QED BY <1>1, <1>2 DEF WalkInv

LEMMA PushedStep ==
    ASSUME RShape, WalkInv, PushedRelease \/ PushedAll
    PROVE  RShape' /\ WalkInv'
<1>0. stage = "push" /\ UNCHANGED <<project, queue, seen, fetched, resolved>>
      BY DEF PushedRelease, PushedAll, walk
<1>1. at[1] \in Nat \ {0} /\ at[2] \in Nat \ {0} /\ at \in (Nat \ {0}) \X (Nat \ {0})
      BY DEF RShape
<1>2. CASE PushedRelease
  <2>1. stage' = "push" /\ at' = <<at[1] + 1, 1>> /\ at[1] <= Releases /\ at[2] > Len(Deps)
        BY <1>2 DEF PushedRelease
  <2>2. RShape'
        BY <1>0, <1>1, <2>1 DEF RShape, Walking
  <2>3. ASSUME NEW c \in 1..Len(fetched), NEW j \in 1..Len(fetched[c].releases),
               NEW d \in 1..Len(fetched[c].releases[j].deps), ToPush(c, j, d)
        PROVE  ToPush(c, j, d)'
    <3>1. j \in Nat \ {0} /\ d \in Nat \ {0} /\ Len(fetched[c].releases[j].deps) \in Nat
          BY ComponentFacts
    <3>2. ~(j = at[1] /\ d >= at[2])
          BY <1>1, <2>1, <2>3, <3>1 DEF ToPush, Deps, Found
    <3> QED BY <1>0, <1>1, <2>1, <2>3, <3>1, <3>2 DEF ToPush
  <2> QED BY <1>0, <2>2, <2>3, WalkStands
<1>3. CASE PushedAll
  <2>1. stage' = "collect" /\ at' = at /\ at[1] > Releases
        BY <1>3 DEF PushedAll
  <2>2. RShape'
        BY <1>0, <2>1 DEF RShape, Walking, Stages
  <2>3. ASSUME NEW c \in 1..Len(fetched), NEW j \in 1..Len(fetched[c].releases),
               NEW d \in 1..Len(fetched[c].releases[j].deps), ToPush(c, j, d)
        PROVE  FALSE
    <3>1. j \in Nat /\ Len(fetched[c].releases) \in Nat /\ j <= Len(fetched[c].releases)
          BY ComponentFacts
    <3> QED BY <1>1, <2>1, <2>3, <3>1 DEF ToPush, Releases, Found
  <2> QED BY <1>0, <2>2, <2>3, WalkStands
<1> QED BY <1>2, <1>3

\* The steps after the walk.
Feeding == RegisterIdf \/ Register \/ RegisteredAll \/ Require \/ RequiredAll \/ Assemble

LEMMA FeedingStep ==
    ASSUME RShape, WalkInv, Feeding \/ FetchFails
    PROVE  RShape' /\ WalkInv' /\ UNCHANGED <<project, queue, seen, fetched>>
<1>1. UNCHANGED <<project, queue, seen, fetched>> /\ stage # "push"
      BY DEF Feeding, RegisterIdf, Register, RegisteredAll, Require, RequiredAll, Assemble,
             FetchFails, walk
<1>2. WalkInv'
      BY <1>1, WalkStands DEF ToPush
<1>3. at' \in (Nat \ {0}) \X (Nat \ {0})
  <2>1. at \in (Nat \ {0}) \X (Nat \ {0}) /\ at[1] \in Nat \ {0} /\ at[2] \in Nat \ {0}
        BY DEF RShape
  <2>2. at' = at \/ at' = <<1, 1>> \/ at' = <<at[1] + 1, 1>> \/ at' = <<at[1], at[2] + 1>>
    <3>1. CASE RegisterIdf \/ RegisteredAll \/ RequiredAll \/ Assemble \/ FetchFails
          BY <3>1 DEF RegisterIdf, RegisteredAll, RequiredAll, Assemble, FetchFails
    <3>2. CASE Register
          BY <3>2 DEF Register
    <3>3. CASE Require
          BY <3>3 DEF Require
    <3> QED BY <3>1, <3>2, <3>3 DEF Feeding
  <2> QED BY <2>1, <2>2
<1>4. /\ stage' \in Stages /\ stage' # "push"
      /\ (stage' \in {"collect", "push", "died"} \/ queue' = <<>>)
      /\ (resolved' = {} \/ stage' = "resolved")
  <2>1. CASE RegisterIdf
        BY <2>1 DEF RegisterIdf, RShape, Stages, walk
  <2>2. CASE Register
        BY <2>2 DEF Register, RShape, Walking, Stages, walk
  <2>3. CASE RegisteredAll
        BY <2>3 DEF RegisteredAll, RShape, Walking, Stages, walk
  <2>4. CASE Require
        BY <2>4 DEF Require, RShape, Walking, Stages, walk
  <2>5. CASE RequiredAll
        BY <2>5 DEF RequiredAll, RShape, Walking, Stages, walk
  <2>6. CASE Assemble
        BY <2>6 DEF Assemble, RShape, Walking, Stages, walk
  <2>7. CASE FetchFails
        BY <2>7 DEF FetchFails, RShape, Stages, walk
  <2> QED BY <2>1, <2>2, <2>3, <2>4, <2>5, <2>6, <2>7 DEF Feeding
<1>5. RShape'
      BY <1>1, <1>3, <1>4 DEF RShape, Walking
<1> QED BY <1>1, <1>2, <1>5

\* The solver's steps, and those of nobody.
Elsewhere == Solver \/ UNCHANGED rvars

LEMMA ElsewhereStep ==
    ASSUME RShape, WalkInv, Elsewhere
    PROVE  /\ RShape' /\ WalkInv'
           /\ UNCHANGED <<project, stage, queue, seen, fetched, at, resolved>>
<1>1. UNCHANGED <<project, stage, queue, seen, fetched, at, resolved>>
      BY DEF Elsewhere, Solver, rvars, walk
<1>2. WalkInv'
      BY <1>1, WalkStands DEF ToPush
<1>3. RShape'
      BY <1>1 DEF RShape, Walking
<1> QED BY <1>1, <1>2, <1>3

LEMMA ShapeStep ==
    ASSUME RShape, WalkInv, [RNext]_rvars
    PROVE  RShape' /\ WalkInv'
<1>1. CASE Fetch
      BY <1>1, FetchStep, FetchAsks DEF WalkInv
<1>2. CASE Pass
      BY <1>2, PassStep
<1>3. CASE Push
      BY <1>3, PushStep
<1>4. CASE PushedRelease \/ PushedAll
      BY <1>4, PushedStep
<1>5. CASE Feeding \/ FetchFails
      BY <1>5, FeedingStep
<1>6. CASE Elsewhere
      BY <1>6, ElsewhereStep
<1> QED BY <1>1, <1>2, <1>3, <1>4, <1>5, <1>6 DEF RNext, Client, Feeding, Elsewhere

-----------------------------------------------------------------------------
(* The roots are looked at first. *)

\* A request served is that of the next root, as long as there is one.
LEMMA ServedInOrder ==
    ASSUME RShape, RootsAhead, queue # <<>>, queue' = Tail(queue),
           seen' = seen \cup {Head(queue).name}, project' = project
    PROVE  RootsAhead'
<1> DEFINE n == Len(project.roots)
<1>1. PICK j \in 0..n :
         /\ Len(queue) >= n - j
         /\ \A k \in 1..(n - j) : queue[k] = Request(project.roots[j + k], DefaultUrl)
         /\ \A r \in 1..j : project.roots[r].pkg \in seen
      BY DEF RootsAhead
<1>2. /\ n \in Nat /\ Len(queue) \in Nat \ {0} /\ Len(queue') = Len(queue) - 1
      /\ \A m \in 1..Len(queue') : queue'[m] = queue[m + 1]
      /\ Head(queue) = queue[1]
      BY ProjectFacts, QueueHead
<1>3. CASE j = n
  <2>1. \A r \in 1..n : project.roots[r].pkg \in seen'
        BY <1>1, <1>3
  <2>2. \A k \in 1..(n - n) : FALSE
        BY <1>2
  <2>3. Len(queue') >= n - n
        BY <1>2
  <2> QED BY <1>1, <1>3, <2>1, <2>2, <2>3 DEF RootsAhead
<1>4. CASE j # n
  <2>1. j + 1 \in 0..n /\ j + 1 \in 1..n /\ 1 \in 1..(n - j)
        BY <1>1, <1>2, <1>4
  <2>2. Head(queue).name = project.roots[j + 1].pkg
    <3>1. Head(queue) = Request(project.roots[j + 1], DefaultUrl)
          BY <1>1, <1>2, <2>1
    <3> QED BY <2>1, <3>1, ProjectFacts, RequestTyped, UrlAssumption
  <2>3. Len(queue') >= n - (j + 1)
        BY <1>1, <1>2, <2>1
  <2>4. ASSUME NEW k \in 1..(n - (j + 1))
        PROVE  queue'[k] = Request(project.roots[(j + 1) + k], DefaultUrl)
    <3>1. k \in 1..Len(queue') /\ k + 1 \in 1..(n - j) /\ j + (k + 1) = (j + 1) + k
          BY <1>1, <1>2, <2>1, <2>3
    <3> QED BY <1>1, <1>2, <3>1
  <2>5. ASSUME NEW r \in 1..(j + 1)
        PROVE  project.roots[r].pkg \in seen'
    <3>1. r = j + 1 \/ r \in 1..j
          BY <1>1, <2>1
    <3> QED BY <1>1, <2>2, <3>1
  <2> QED BY <2>1, <2>3, <2>4, <2>5 DEF RootsAhead
<1> QED BY <1>3, <1>4

LEMMA OrderStep ==
    ASSUME RShape, WalkInv, RootsInOrder, [RNext]_rvars
    PROVE  RootsInOrder'
<1>1. CASE Fetch \/ Pass
  <2>1. /\ Walking /\ queue # <<>> /\ queue' = Tail(queue)
        /\ seen' = seen \cup {Head(queue).name} /\ project' = project
        BY <1>1 DEF Fetch, Pass, Walking
  <2> QED BY <2>1, ServedInOrder DEF RootsInOrder
<1>2. CASE Push
  <2>1. PICK r0 : r0 = Request(Deps[at[2]], Found.url)
        OBVIOUS
  <2>2. /\ Walking /\ seen' = seen /\ project' = project
        /\ queue' = queue \/ queue' = Append(queue, r0)
        BY <1>2, <2>1 DEF Push, Walking
  <2>3. r0 \in Asking /\ Len(project.roots) \in Nat
        BY <1>2, <2>1, PushFacts, ProjectFacts
  <2>4. /\ Len(queue) \in Nat /\ Len(queue') \in Nat /\ Len(queue') >= Len(queue)
        /\ \A m \in 1..Len(queue) : queue'[m] = queue[m]
        BY <2>2, <2>3, AppendProperties DEF RShape
  <2>5. PICK j \in 0..Len(project.roots) :
           /\ Len(queue) >= Len(project.roots) - j
           /\ \A k \in 1..(Len(project.roots) - j) :
                 queue[k] = Request(project.roots[j + k], DefaultUrl)
           /\ \A r \in 1..j : project.roots[r].pkg \in seen
        BY <2>2 DEF RootsInOrder, RootsAhead
  <2>6. Len(queue') >= Len(project.roots) - j
        BY <2>3, <2>4, <2>5
  <2>7. ASSUME NEW k \in 1..(Len(project.roots) - j)
        PROVE  queue'[k] = Request(project.roots[j + k], DefaultUrl)
    <3>1. k \in 1..Len(queue)
          BY <2>3, <2>4, <2>5
    <3> QED BY <2>4, <2>5, <3>1
  <2> QED BY <2>2, <2>5, <2>6, <2>7 DEF RootsInOrder, RootsAhead
<1>3. CASE PushedRelease \/ PushedAll \/ Feeding \/ FetchFails \/ Elsewhere
  <2>1. UNCHANGED <<project, queue, seen>> /\ (Walking' => Walking)
    <3>1. CASE PushedRelease \/ PushedAll
          BY <3>1 DEF PushedRelease, PushedAll, walk, Walking
    <3>2. CASE FetchFails
          BY <3>2 DEF FetchFails, walk, Walking
    <3>3. CASE RegisterIdf \/ RegisteredAll \/ RequiredAll \/ Assemble
          BY <3>3 DEF RegisterIdf, RegisteredAll, RequiredAll, Assemble, walk, Walking
    <3>4. CASE Register \/ Require
          BY <3>4 DEF Register, Require, walk, Walking
    <3>5. CASE Elsewhere
          BY <3>5 DEF Elsewhere, Solver, rvars, walk, Walking
    <3> QED BY <1>3, <3>1, <3>2, <3>3, <3>4, <3>5 DEF Feeding
  <2> QED BY <2>1 DEF RootsInOrder, RootsAhead
<1> QED BY <1>1, <1>2, <1>3 DEF RNext, Client, Feeding, Elsewhere

LEMMA ChoiceStep ==
    ASSUME RShape, WalkInv, RootsInOrder, RootsChoose, [RNext]_rvars
    PROVE  RootsChoose'
<1>1. CASE Fetch
  <2>1. /\ Walking /\ queue # <<>> /\ project' = project
        /\ Head(queue).name \notin seen
        BY <1>1 DEF Fetch, Walking
  <2>2. /\ Len(fetched) \in Nat /\ Len(fetched') = Len(fetched) + 1
        /\ \A c \in 1..Len(fetched) : fetched'[c] = fetched[c]
        /\ fetched'[Len(fetched) + 1].name = Head(queue).name
        /\ fetched'[Len(fetched) + 1].url = Head(queue).url
        BY <1>1, FetchStep
  <2> SUFFICES ASSUME NEW k \in 1..Len(fetched'), NEW r \in 1..Len(project.roots),
                      project.roots[r].pkg = fetched'[k].name,
                      \A q \in 1..(r - 1) : project.roots[q].pkg # fetched'[k].name
               PROVE  fetched'[k].url = Request(project.roots[r], DefaultUrl).url
      BY <2>1 DEF RootsChoose
  <2>3. CASE k \in 1..Len(fetched)
        BY <2>2, <2>3 DEF RootsChoose
  <2>4. CASE k = Len(fetched) + 1
    <3>1. PICK j \in 0..Len(project.roots) :
             /\ Len(queue) >= Len(project.roots) - j
             /\ \A m \in 1..(Len(project.roots) - j) :
                   queue[m] = Request(project.roots[j + m], DefaultUrl)
             /\ \A q \in 1..j : project.roots[q].pkg \in seen
          BY <2>1 DEF RootsInOrder, RootsAhead
    <3>2. Len(project.roots) \in Nat /\ r \notin 1..j
          BY <2>1, <2>2, <2>4, <3>1, ProjectFacts
    <3>3. 1 \in 1..(Len(project.roots) - j) /\ j + 1 \in 1..Len(project.roots)
          BY <3>1, <3>2
    <3>4. Head(queue) = Request(project.roots[j + 1], DefaultUrl)
          BY <2>1, <3>1, <3>3, QueueHead
    <3>5. Head(queue).name = project.roots[j + 1].pkg
          BY <3>3, <3>4, ProjectFacts, RequestTyped, UrlAssumption
    <3>6. j + 1 \notin 1..(r - 1)
          BY <2>2, <2>4, <3>5
    <3>7. r = j + 1
          BY <3>1, <3>2, <3>3, <3>6
    <3> QED BY <2>2, <2>4, <3>4, <3>7
  <2> QED BY <2>2, <2>3, <2>4
<1>2. CASE ~Fetch
  <2>1. UNCHANGED <<project, fetched>>
    <3>1. CASE Pass \/ Push \/ PushedRelease \/ PushedAll
          BY <3>1 DEF Pass, Push, PushedRelease, PushedAll, walk
    <3>2. CASE Feeding \/ FetchFails
          BY <3>2, FeedingStep
    <3>3. CASE Elsewhere
          BY <3>3, ElsewhereStep
    <3> QED BY <1>2, <3>1, <3>2, <3>3 DEF RNext, Client, Feeding, Elsewhere
  <2> QED BY <2>1 DEF RootsChoose
<1> QED BY <1>1, <1>2

\* bfs_collect serves requests in order and begins with the roots: a component
\* the project requires comes from the registry the project names for it.
THEOREM RootsDecide == RSpec => []RootsChoose
<1> DEFINE Inv == RShape /\ WalkInv /\ RootsInOrder /\ RootsChoose
<1>1. RInit => Inv
      BY InitShape
<1>2. Inv /\ [RNext]_rvars => Inv'
      BY ShapeStep, OrderStep, ChoiceStep
<1> QED BY <1>1, <1>2, PTL DEF RSpec

-----------------------------------------------------------------------------
(* The solver, call by call. *)

LEMMA OneCall ==
    ASSUME CallInv, script # <<>>
    PROVE  Tail(script) = <<>>
<1>1. PICK c : script = <<c>>
      BY DEF CallInv
<1> QED BY <1>1

\* Between two calls the solver is at rest.
LEMMA AtRest ==
    ASSUME SolverInv, script = <<>>
    PROVE  pc = "idle" /\ ~Next
<1>1. pc = "idle"
      BY DEF SolverInv, Registered, CallServed
<1>2. ~Called("root") /\ ~Called("add") /\ ~Called("solve")
      BY DEF Called
<1>3. ~(RootDep \/ Add \/ AddDepName \/ AddVersion \/ Solve)
      BY <1>1, <1>2 DEF RootDep, Add, AddDepName, AddVersion, Solve
<1>4. ~(RootConstraint \/ RootsDone \/ Solved \/ SearchStep \/ TryVersion)
      BY <1>1 DEF RootConstraint, RootsDone, Solved, SearchStep, TryVersion
<1>5. ~(Exhausted \/ DepConstraint \/ DepsDone \/ Backtrack)
      BY <1>1 DEF Exhausted, DepConstraint, DepsDone, Backtrack
<1> QED BY <1>1, <1>3, <1>4, <1>5 DEF Next

\* The steps of a search, between the call of solve and its return.
Searches == RootConstraint \/ RootsDone \/ Solved \/ SearchStep \/ TryVersion \/ Exhausted
            \/ DepConstraint \/ DepsDone \/ Backtrack

LEMMA SearchesStep ==
    ASSUME Searches
    PROVE  /\ pc \notin {"idle", "adding"}
           /\ UNCHANGED <<order, vers, deps, roots>>
           /\ \/ script' = script /\ pc' \notin {"idle", "adding"}
              \/ script' = Tail(script) /\ pc' = "idle"
<1>1. CASE RootConstraint \/ RootsDone \/ Solved
      BY <1>1 DEF RootConstraint, RootsDone, Solved, SearchFails, Returned, registry
<1>2. CASE SearchStep \/ TryVersion \/ Exhausted
      BY <1>2 DEF SearchStep, TryVersion, Exhausted, SearchFails, Returned, registry
<1>3. CASE DepConstraint \/ DepsDone \/ Backtrack
      BY <1>3 DEF DepConstraint, DepsDone, Backtrack, registry
<1> QED BY <1>1, <1>2, <1>3 DEF Searches

\* A call in progress changes nothing in what the solver will have been told.
LEMMA ToldKept ==
    ASSUME SolverInv, CallInv, Next
    PROVE  /\ \A p \in Pkg : ToldVers(p)' = ToldVers(p)
           /\ \A p \in Pkg : \A v \in Ver : ToldDeps(p, v)' = ToldDeps(p, v)
           /\ ToldRoots' = ToldRoots
<1> USE DEF ToldVers, ToldDeps, ToldRoots
<1>0. script # <<>> /\ Tail(script) = <<>>
      BY AtRest, OneCall
<1>1. CASE RootDep
  <2>1. Head(script).op = "root" /\ script' = <<>> /\ UNCHANGED <<vers, deps>>
        BY <1>0, <1>1 DEF RootDep, Called, Returned, registry
  <2>2. Head(script).dep.spec # BadSpec
        BY <1>0, <2>1 DEF CallInv
  <2>3. roots' = Append(roots, Head(script).dep)
        BY <1>1, <2>2 DEF RootDep
  <2>4. ~Adds /\ ~Adds'
        BY <2>1 DEF Adds
  <2> QED BY <1>0, <2>1, <2>3, <2>4
<1>2. CASE Add
  <2>1. Head(script).op = "add" /\ UNCHANGED <<vers, deps, roots>>
        BY <1>2 DEF Add, Called, registry
  <2>2. CASE script' = script
        BY <2>1, <2>2 DEF Adds
  <2>3. CASE script' # script
    <3>1. Head(script).ver = BadVersion \/ Head(script).ver \in vers[Head(script).pkg]
          BY <1>2, <2>3 DEF Add
    <3>2. script' = <<>> /\ ~Adds /\ ~Adds'
          BY <1>0, <1>2, <2>3, <3>1 DEF Add, Returned, Adds
    <3> QED BY <2>1, <3>2
  <2> QED BY <2>2, <2>3
<1>3. CASE AddDepName
  <2>1. Head(script).op = "add" /\ UNCHANGED <<vers, deps, roots>>
        BY <1>3 DEF AddDepName, SolverInv, Registered, CallServed
  <2>2. CASE script' = script
        BY <2>1, <2>2 DEF Adds
  <2>3. CASE script' # script
    <3>1. /\ i <= Len(Head(script).deps) /\ Head(script).deps[i].spec = BadSpec
          /\ script' = <<>>
          BY <1>0, <1>3, <2>3 DEF AddDepName, Returned
    <3>2. i \in 1..Len(Head(script).deps)
          BY <1>3, <3>1, HeadCall DEF AddDepName, SolverInv, Registered, CallServed, TypeOK
    <3>3. ~Adds /\ ~Adds'
          BY <3>1, <3>2 DEF Adds, AllParse
    <3> QED BY <2>1, <3>1, <3>3
  <2> QED BY <2>2, <2>3
<1>4. CASE AddVersion
  <2> DEFINE c == Head(script)
  <2>1. /\ c.op = "add" /\ c.ver \in Ver /\ c.ver \notin vers[c.pkg] /\ c.pkg \in Pkg
        /\ c.deps \in Seq(Dep)
        /\ i > Len(c.deps) /\ \A k \in 1..(i - 1) : c.deps[k] \in GoodDep
        BY <1>0, <1>4, HeadCall DEF AddVersion, SolverInv, Registered, CallServed, TypeOK
  <2>2. AllParse(c.deps)
    <3> SUFFICES ASSUME NEW k \in 1..Len(c.deps) PROVE c.deps[k].spec # BadSpec
        BY DEF AllParse
    <3>1. k \in 1..(i - 1)
          BY <1>4, <2>1 DEF SolverInv, Registered, TypeOK
    <3> QED BY <2>1, <3>1, VerFacts DEF GoodDep
  <2>3. Adds /\ ~Adds' /\ script' = <<>>
        BY <1>0, <1>4, <2>1, <2>2, VerFacts DEF Adds, AddVersion, Returned
  <2>4. /\ vers' = [vers EXCEPT ![c.pkg] = @ \cup {c.ver}]
        /\ deps' = [deps EXCEPT ![c.pkg][c.ver] = c.deps] /\ roots' = roots
        BY <1>4 DEF AddVersion
  <2>5. vers \in [Pkg -> SUBSET Ver] /\ deps \in [Pkg -> [Ver -> Seq(Dep)]]
        BY DEF SolverInv, Registered, TypeOK
  <2>6. \A p \in Pkg : ToldVers(p)' = ToldVers(p)
        BY <2>1, <2>3, <2>4, <2>5
  <2>7. \A p \in Pkg : \A v \in Ver : ToldDeps(p, v)' = ToldDeps(p, v)
        BY <2>1, <2>3, <2>4, <2>5
  <2> QED BY <2>1, <2>3, <2>4, <2>6, <2>7
<1>5. CASE Solve \/ Searches
  <2>1. Head(script).op = "solve" /\ UNCHANGED <<vers, deps, roots>>
        BY <1>5, SearchesStep DEF Solve, Called, registry, CallInv
  <2>2. script' = script \/ script' = <<>>
        BY <1>0, <1>5, SearchesStep DEF Solve, Returned
  <2>3. ~Adds /\ ~Adds'
        BY <2>1, <2>2 DEF Adds
  <2> QED BY <2>1, <2>2, <2>3
<1> QED BY <1>1, <1>2, <1>3, <1>4, <1>5 DEF Next, Searches

LEMMA CallKept ==
    ASSUME SolverInv, CallInv, Next, stage' = stage
    PROVE  CallInv'
<1>0. script # <<>> /\ Tail(script) = <<>>
      BY AtRest, OneCall
<1>1. \/ script' = <<>> /\ pc' = "idle"
      \/ script' = script /\ (pc' \in {"idle", "adding"} \/ Head(script).op = "solve")
  <2>1. CASE RootDep \/ Add
        BY <1>0, <2>1 DEF RootDep, Add, Returned
  <2>2. CASE AddDepName \/ AddVersion
        BY <1>0, <2>2 DEF AddDepName, AddVersion, Returned
  <2>3. CASE Solve
        BY <1>0, <2>3 DEF Solve, Called, Returned
  <2>4. CASE Searches
        BY <1>0, <2>4, SearchesStep DEF CallInv
  <2> QED BY <2>1, <2>2, <2>3, <2>4 DEF Next, Searches
<1> QED BY <1>1 DEF CallInv

LEMMA AnswerKept ==
    ASSUME SolverInv, CallInv, Next, stage' = stage
    PROVE  Answered'
<1> SUFFICES ASSUME stage = "solve", script' = <<>>
             PROVE  \/ result' = "solved" /\ (Solution(chosen))'
                    \/ result' = "error" /\ \A s : Solution(s)' => FALSE
    BY DEF Answered
<1>0. script # <<>> /\ Head(script).op = "solve" /\ Registered /\ SearchInv
      BY AtRest DEF CallInv, SolverInv
<1>1. Solve \/ Searches
  <2>1. ~(RootDep \/ Add \/ AddDepName \/ AddVersion)
        BY <1>0 DEF RootDep, Add, AddDepName, AddVersion, Called, Registered, CallServed
  <2> QED BY <2>1 DEF Next, Searches
<1>2. UNCHANGED <<vers, deps, roots>> /\ pc' = "idle"
  <2>1. CASE Solve
        BY <1>0, <2>1 DEF Solve, Returned, registry
  <2>2. CASE Searches
        BY <1>0, <2>2, SearchesStep
  <2> QED BY <1>1, <2>1, <2>2
<1>3. \A s : Solution(s)' <=> Solution(s)
      BY <1>2 DEF Solution, Abs!Solution
<1>4. \/ result' = "solved" /\ Solution(chosen')
      \/ result' = "error" /\ \A s : ~Solution(s)
  <2>1. CASE Solve
    <3>1. order = <<>>
          BY <1>2, <2>1 DEF Solve
    <3> QED BY <2>1, <3>1, NothingAsked DEF Solve, Solution
  <2>2. CASE RootConstraint
        BY <1>0, <1>2, <2>2, RootConstraintStep
  <2>3. CASE Exhausted
        BY <1>0, <1>2, <2>3, ExhaustedStep
  <2>4. CASE Solved
        BY <1>0, <2>4, SolvedStep
  <2>5. CASE RootsDone \/ SearchStep \/ TryVersion \/ DepConstraint \/ DepsDone \/ Backtrack
        BY <1>2, <2>5 DEF RootsDone, SearchStep, TryVersion, DepConstraint, DepsDone, Backtrack
  <2> QED BY <1>1, <2>1, <2>2, <2>3, <2>4, <2>5 DEF Searches
<1>5. Solution(chosen') => (Solution(chosen))'
      BY <1>2 DEF Solution, Abs!Solution
<1> QED BY <1>3, <1>4, <1>5

LEMMA CallMade ==
    ASSUME SolverInv, SolverReturned, NEW c \in Call, Calls(c)
    PROVE  SolverInv'
<1>1. /\ pc = "idle" /\ pc' = "idle" /\ script' = <<c>> /\ script' \in Seq(Call)
      /\ UNCHANGED <<order, vers, deps, roots, i, cons, decided, frames, result, chosen>>
      BY DEF SolverReturned, Calls, registry, search, answer
<1>2. TypeOK'
      BY <1>1 DEF SolverInv, Registered, TypeOK
<1>3. CallServed'
      BY <1>1 DEF CallServed
<1>4. RegistryInv'
      BY <1>1 DEF SolverInv, Registered, RegistryInv, Interned
<1>5. SearchInv'
      BY <1>1 DEF SearchInv, RootsInv, StackInv, ConsInv, CoverInv, Searching
<1> QED BY <1>2, <1>3, <1>4, <1>5 DEF SolverInv, Registered

LEMMA SolverStands ==
    ASSUME SolverInv, UNCHANGED vars
    PROVE  SolverInv'
BY NextInv

LEMMA FirstKept ==
    ASSUME NEW c, NEW p, NEW v, fetched' = fetched, Count(c)' = Count(c),
           ToldVers(p)' = ToldVers(p), ToldDeps(p, v)' = ToldDeps(p, v), FirstCounts(c, p, v)
    PROVE  FirstCounts(c, p, v)'
BY DEF FirstCounts, Handed

\* With no call in progress the solver was told what it knows.
LEMMA ToldAtRest ==
    ASSUME script = <<>>
    PROVE  /\ \A p : ToldVers(p) = vers[p]
           /\ \A p, v : ToldDeps(p, v) = deps[p][v]
           /\ ToldRoots = roots
BY DEF ToldVers, ToldDeps, ToldRoots, Adds

LEMMA RegisterIdfStep ==
    ASSUME RShape, WalkInv, SolverInv, ToldInv, RegisterIdf
    PROVE  SolverInv' /\ ToldInv'
<1> DEFINE c0 == [op |-> "add", pkg |-> Idf, ver |-> IdfVersion, deps |-> <<>>]
<1>1. /\ stage = "collect" /\ stage' = "register" /\ at' = <<1, 1>>
      /\ Calls(c0) /\ UNCHANGED <<project, queue, seen, fetched, resolved>>
      BY DEF RegisterIdf, walk
<1>2. Walking /\ script = <<>> /\ pc = "idle" /\ SolverReturned
      BY <1>1, AtRest DEF Walking, ToldInv, CallInv, SolverReturned
<1>3. IdfVersion \in Ver /\ IdfVersion' = IdfVersion /\ Idf \in Pkg
      BY <1>1, ProjectFacts, LowestAssumption, IdfAssumption DEF IdfVersion
<1>4. c0 \in Call
      BY <1>3 DEF Call
<1>5. SolverInv'
      BY <1>1, <1>2, <1>4, CallMade
<1>6. /\ script' = <<c0>> /\ Head(script') = c0 /\ script' # <<>>
      /\ pc' = "idle" /\ UNCHANGED <<vers, deps, roots>>
      BY <1>1, <1>2 DEF Calls, registry
<1>7. \A p \in Pkg : vers[p] = {}
      BY <1>2, ToldAtRest DEF ToldInv, OthersUntold
<1>8. Adds'
      BY <1>3, <1>6, <1>7, VerFacts DEF Adds, AllParse
<1>9. /\ \A p \in Pkg : ToldVers(p)' = IF p = Idf THEN {IdfVersion} ELSE {}
      /\ ToldDeps(Idf, IdfVersion)' = <<>> /\ ToldRoots' = roots
      BY <1>3, <1>6, <1>7, <1>8 DEF ToldVers, ToldDeps, ToldRoots
<1>10. CallInv'
      BY <1>1, <1>6 DEF CallInv
<1>11. IdfTold' /\ OthersUntold'
  <2>1. ~Walking'
        BY <1>1 DEF Walking
  <2>2. ToldDeps(Idf, IdfVersion)' = <<>>
        BY <1>9
  <2> QED BY <1>1, <1>3, <1>9, <2>1 DEF IdfTold, OthersUntold, ToldDeps
<1>12. ComponentsTold'
  <2> SUFFICES ASSUME NEW c \in 1..Len(fetched), NEW p \in Pkg, NEW v \in Ver,
                      p = fetched[c].name
               PROVE  FirstCounts(c, p, v)'
      BY <1>1 DEF ComponentsTold
  <2>1. p # Idf
        BY ComponentFacts
  <2>2. Count(c)' = 0
        BY <1>1 DEF Count, Walking
  <2>3. Handed(c, v)' = {} /\ ToldVers(p)' = {}
        BY <1>9, <2>1, <2>2 DEF Handed
  <2> QED BY <2>3 DEF FirstCounts
<1>13. Progress'
  <2> SUFFICES ASSUME 1 <= Len(fetched) PROVE 1 <= Len(fetched[1].releases) + 1
      BY <1>1 DEF Progress, RShape
  <2> QED BY ComponentFacts DEF RShape
<1>14. RootsTold'
  <2>1. Len(roots) = 0
        BY <1>2, ToldAtRest DEF ToldInv, RootsTold, RootsUpTo
  <2> QED BY <1>1, <1>9, <2>1 DEF RootsTold, RootsUpTo, Walking
<1> QED BY <1>5, <1>10, <1>11, <1>12, <1>13, <1>14 DEF ToldInv

LEMMA PlainDeps ==
    ASSUME NEW ds \in Seq(Wanted)
    PROVE  /\ Plainly(ds) \in Seq(Dep) /\ Len(Plainly(ds)) = Len(ds) /\ Len(ds) \in Nat
           /\ \A k \in 1..Len(ds) : Plainly(ds)[k] = Plain(ds[k]) /\ Plain(ds[k]) \in Dep
<1>1. Len(ds) \in Nat /\ \A k \in 1..Len(ds) : ds[k] \in Wanted
      OBVIOUS
<1>2. \A k \in 1..Len(ds) : Plain(ds[k]) \in Dep
      BY <1>1 DEF Wanted, Plain, Dep
<1> QED BY <1>1, <1>2 DEF Plainly

\* A release is handed to the solver.
LEMMA HandOver ==
    ASSUME RShape, WalkInv, SolverInv, ToldInv, Register,
           at[1] <= Len(fetched), at[2] <= Len(fetched[at[1]].releases)
    PROVE  SolverInv' /\ ToldInv'
<1>1. PICK c1, m1, n1, r1, c0 :
         /\ c1 = at[1] /\ m1 = at[2] /\ n1 = fetched[c1].name /\ r1 = fetched[c1].releases[m1]
         /\ c0 = [op |-> "add", pkg |-> n1, ver |-> r1.ver, deps |-> Plainly(r1.deps)]
      OBVIOUS
<1>2. /\ stage = "register" /\ SolverReturned /\ stage' = "register"
      /\ Calls(c0) /\ at' = <<c1, m1 + 1>>
      /\ UNCHANGED <<project, queue, seen, fetched, resolved>>
      BY <1>1 DEF Register, walk
<1>3. /\ c1 \in 1..Len(fetched) /\ m1 \in 1..Len(fetched[c1].releases)
      /\ n1 \in Pkg \ {Idf} /\ r1.ver \in Ver \cup {BadVersion} /\ r1.deps \in Seq(Wanted)
  <2>1. at[1] \in Nat \ {0} /\ at[2] \in Nat \ {0}
        BY DEF RShape
  <2>2. c1 \in 1..Len(fetched)
        BY <1>1, <2>1 DEF RShape
  <2>3. m1 \in 1..Len(fetched[c1].releases)
        BY <1>1, <2>1, <2>2, ComponentFacts
  <2> QED BY <1>1, <2>2, <2>3, ComponentFacts
<1>4. /\ Plainly(r1.deps) \in Seq(Dep) /\ Len(Plainly(r1.deps)) = Len(r1.deps)
      /\ \A k \in 1..Len(r1.deps) : Plainly(r1.deps)[k].spec = r1.deps[k].spec
  <2>1. \A k \in 1..Len(r1.deps) : Plainly(r1.deps)[k] = Plain(r1.deps[k])
        BY <1>3, PlainDeps
  <2>2. ASSUME NEW k \in 1..Len(r1.deps)
        PROVE  Plainly(r1.deps)[k].spec = r1.deps[k].spec
    <3>1. Plain(r1.deps[k]).spec = r1.deps[k].spec
          BY DEF Plain
    <3> QED BY <2>1, <3>1
  <2> QED BY <1>3, <2>2, PlainDeps
<1>5. c0 \in Call
      BY <1>1, <1>3, <1>4 DEF Call
<1>6. SolverInv'
      BY <1>2, <1>5, CallMade
<1>7. /\ script = <<>> /\ pc = "idle" /\ pc' = "idle" /\ script' = <<c0>>
      /\ Head(script') = c0 /\ script' # <<>> /\ UNCHANGED <<vers, deps, roots>>
      BY <1>2 DEF SolverReturned, Calls, registry
<1>8. Adds' <=> (Usable(r1) /\ r1.ver \notin vers[n1])
  <2>1. c0.op = "add" /\ c0.pkg = n1 /\ c0.ver = r1.ver /\ c0.deps = Plainly(r1.deps)
        BY <1>1
  <2>2. AllParse(Plainly(r1.deps)) <=> \A k \in 1..Len(r1.deps) : r1.deps[k].spec # BadSpec
        BY <1>4 DEF AllParse
  <2>3. Adds' <=> (r1.ver # BadVersion /\ AllParse(Plainly(r1.deps)) /\ r1.ver \notin vers[n1])
        BY <1>7, <2>1 DEF Adds
  <2> QED BY <2>2, <2>3 DEF Usable
<1>9. /\ \A p \in Pkg : ToldVers(p) = vers[p]
      /\ \A p \in Pkg : ToldVers(p)' = vers[p] \cup (IF Adds' /\ n1 = p THEN {r1.ver} ELSE {})
      /\ \A p \in Pkg, v \in Ver :
            /\ ToldDeps(p, v) = deps[p][v]
            /\ ToldDeps(p, v)' = IF Adds' /\ n1 = p /\ r1.ver = v
                                 THEN Plainly(r1.deps) ELSE deps[p][v]
      /\ ToldRoots' = ToldRoots
  <2>1. c0.op = "add" /\ c0.pkg = n1 /\ c0.ver = r1.ver /\ c0.deps = Plainly(r1.deps)
        BY <1>1
  <2>2. \A p \in Pkg :
           ToldVers(p)' = vers[p] \cup (IF Adds' /\ n1 = p THEN {r1.ver} ELSE {})
        BY <1>7, <2>1 DEF ToldVers
  <2>3. \A p \in Pkg, v \in Ver :
           ToldDeps(p, v)' = IF Adds' /\ n1 = p /\ r1.ver = v
                             THEN Plainly(r1.deps) ELSE deps[p][v]
        BY <1>7, <2>1 DEF ToldDeps
  <2>4. ToldRoots' = ToldRoots
        BY <1>7, <2>1 DEF ToldRoots
  <2> QED BY <1>7, <2>2, <2>3, <2>4, ToldAtRest
<1>10. CallInv'
      BY <1>1, <1>2, <1>7 DEF CallInv
<1>11. ~Walking /\ ~Walking'
      BY <1>2 DEF Walking
<1>12. ASSUME NEW c \in 1..Len(fetched)
       PROVE  Count(c)' = IF c = c1 THEN m1 ELSE Count(c)
  <2>1. at[1] = c1 /\ at'[1] = c1 /\ at'[2] = m1 + 1
        BY <1>1, <1>2
  <2> QED BY <1>2, <1>3, <1>11, <2>1 DEF Count
<1>13. Count(c1) = m1 - 1
       BY <1>1, <1>2, <1>11, <1>3 DEF Count
<1>14. ComponentsTold'
  <2> SUFFICES ASSUME NEW c \in 1..Len(fetched), NEW p \in Pkg, NEW v \in Ver,
                      p = fetched[c].name
               PROVE  FirstCounts(c, p, v)'
      BY <1>2 DEF ComponentsTold
  <2>1. FirstCounts(c, p, v)
        BY <1>11 DEF ToldInv, ComponentsTold
  <2>2. CASE c # c1
    <3>1. p # n1
          BY <1>1, <1>3, <2>2 DEF WalkInv, FetchedOnce
    <3>2. ToldVers(p)' = ToldVers(p)
          BY ONLY <1>9, <3>1, p \in Pkg
    <3>4. ToldDeps(p, v)' = ToldDeps(p, v)
          BY ONLY <1>9, <3>1, p \in Pkg, v \in Ver
    <3>3. Count(c)' = Count(c)
          BY <1>12, <2>2
    <3> QED BY <1>2, <2>1, <3>2, <3>3, <3>4, FirstKept
  <2>3. CASE c = c1
    <3>1. p = n1
          BY <1>1, <2>3
    <3>2. Handed(c, v)' = Handed(c, v) \cup (IF Usable(r1) /\ r1.ver = v THEN {m1} ELSE {})
      <4>1. Count(c)' = m1 /\ Count(c) = m1 - 1 /\ m1 \in Nat \ {0}
            BY <1>3, <1>12, <1>13, <2>3
      <4>2. 1..m1 = (1..(m1 - 1)) \cup {m1}
            BY <4>1
      <4> QED BY <1>1, <1>2, <2>3, <4>1, <4>2 DEF Handed
    <3>3. \A m \in Handed(c, v) : m \in Nat /\ m <= m1
          BY <1>3, <1>13, <2>3 DEF Handed
    <3>4. CASE v \in ToldVers(p)
      <4>1. v \in ToldVers(p)' /\ ToldDeps(p, v)' = ToldDeps(p, v)
            BY <1>8, <1>9, <3>1, <3>4
      <4>2. PICK m \in Handed(c, v) :
               /\ \A j \in Handed(c, v) : m <= j
               /\ ToldDeps(p, v) = Plainly(fetched[c].releases[m].deps)
            BY <2>1, <3>4 DEF FirstCounts
      <4>3. m \in Handed(c, v)' /\ \A j \in Handed(c, v)' : m <= j
            BY <3>2, <3>3, <4>2
      <4>4. ToldDeps(p, v)' = Plainly(fetched'[c].releases[m].deps)
            BY <1>2, <4>1, <4>2
      <4> QED BY <4>1, <4>3, <4>4 DEF FirstCounts
    <3>5. CASE v \notin ToldVers(p) /\ Usable(r1) /\ r1.ver = v
      <4>1. Adds' /\ v \in ToldVers(p)' /\ ToldDeps(p, v)' = Plainly(r1.deps)
            BY <1>8, <1>9, <3>1, <3>5
      <4>2. Handed(c, v)' = {m1}
            BY <2>1, <3>2, <3>5 DEF FirstCounts
      <4>3. ToldDeps(p, v)' = Plainly(fetched'[c].releases[m1].deps) /\ m1 <= m1
            BY <1>1, <1>2, <1>3, <2>3, <4>1
      <4> QED BY <4>1, <4>2, <4>3 DEF FirstCounts
    <3>6. CASE v \notin ToldVers(p) /\ ~(Usable(r1) /\ r1.ver = v)
      <4>1. v \notin ToldVers(p)' /\ Handed(c, v)' = {}
            BY <1>8, <1>9, <2>1, <3>1, <3>2, <3>6 DEF FirstCounts
      <4> QED BY <4>1 DEF FirstCounts
    <3> QED BY <3>4, <3>5, <3>6
  <2> QED BY <2>2, <2>3
<1>15. IdfTold'
  <2>1. IdfVersion' = IdfVersion /\ IdfVersion \in Ver /\ Idf \in Pkg /\ Idf # n1
        BY <1>2, <1>3, ProjectFacts, LowestAssumption, IdfAssumption DEF IdfVersion
  <2>2. ToldVers(Idf) = {IdfVersion} /\ ToldDeps(Idf, IdfVersion) = <<>>
        BY <1>11 DEF ToldInv, IdfTold
  <2>3. PICK v0 \in Ver : v0 = IdfVersion
        BY <2>1
  <2>4. ToldVers(Idf)' = {v0} /\ ToldDeps(Idf, v0)' = <<>>
        BY <1>9, <2>1, <2>2, <2>3
  <2> QED BY <2>1, <2>3, <2>4 DEF IdfTold, ToldDeps
<1>16. OthersUntold'
  <2>1. n1 \in Names
        BY <1>1, <1>3 DEF Names
  <2>2. Names' = Names
        BY <1>2 DEF Names
  <2> QED BY <1>9, <1>11, <2>1, <2>2 DEF ToldInv, OthersUntold
<1>17. Progress'
       BY <1>1, <1>2, <1>3 DEF Progress
<1>18. RootsTold'
       BY <1>2, <1>9, <1>11 DEF ToldInv, RootsTold, RootsUpTo
<1> QED BY <1>6, <1>10, <1>14, <1>15, <1>16, <1>17, <1>18 DEF ToldInv

\* What is said stands as long as the solver is told nothing else and no
\* release is handed over.
LEMMA ToldStands ==
    ASSUME RShape, ToldInv, UNCHANGED <<project, fetched>>, Walking' <=> Walking,
           \A p \in Pkg : ToldVers(p)' = ToldVers(p),
           \A p \in Pkg : \A v \in Ver : ToldDeps(p, v)' = ToldDeps(p, v),
           \A c \in 1..Len(fetched) : Count(c)' = Count(c)
    PROVE  ComponentsTold' /\ IdfTold' /\ OthersUntold'
<1>1. ComponentsTold'
  <2> SUFFICES ASSUME ~Walking, NEW c \in 1..Len(fetched), NEW p \in Pkg, NEW v \in Ver,
                      p = fetched[c].name
               PROVE  FirstCounts(c, p, v)'
      BY DEF ComponentsTold
  <2>1. FirstCounts(c, p, v)
        BY DEF ToldInv, ComponentsTold
  <2> QED BY <2>1, FirstKept
<1>2. IdfTold'
  <2>1. PICK v0 \in Ver : v0 = IdfVersion
        BY ProjectFacts, LowestAssumption DEF IdfVersion
  <2>2. IdfVersion' = v0
        BY <2>1 DEF IdfVersion
  <2>3. ~Walking => ToldVers(Idf)' = {v0} /\ ToldDeps(Idf, v0)' = <<>>
        BY <2>1, IdfAssumption DEF ToldInv, IdfTold
  <2> QED BY <2>2, <2>3 DEF IdfTold, ToldDeps
<1>3. OthersUntold'
      BY DEF ToldInv, OthersUntold, Names
<1> QED BY <1>1, <1>2, <1>3

\* With the solver at rest, a step that leaves it alone tells it nothing.
LEMMA NothingTold ==
    ASSUME SolverInv, ToldInv, script = <<>>, UNCHANGED vars
    PROVE  /\ SolverInv' /\ CallInv' /\ script' = <<>>
           /\ \A p \in Pkg : ToldVers(p)' = ToldVers(p)
           /\ \A p \in Pkg : \A v \in Ver : ToldDeps(p, v)' = ToldDeps(p, v)
           /\ ToldRoots' = ToldRoots
<1>1. UNCHANGED <<script, pc, vers, deps, roots>>
      BY DEF vars, registry
<1>2. CallInv' /\ SolverInv'
      BY <1>1, AtRest, SolverStands DEF CallInv
<1> QED BY <1>1, <1>2 DEF ToldVers, ToldDeps, ToldRoots, Adds

\* Nor does a call that adds nothing tell it of a version.
LEMMA NoneAdded ==
    ASSUME SolverInv, ToldInv, SolverReturned, NEW c \in Call, Calls(c), c.op # "add"
    PROVE  /\ SolverInv' /\ script' = <<c>> /\ Head(script') = c /\ script' # <<>> /\ pc' = "idle"
           /\ \A p \in Pkg : ToldVers(p)' = ToldVers(p)
           /\ \A p \in Pkg : \A v \in Ver : ToldDeps(p, v)' = ToldDeps(p, v)
           /\ ToldRoots' = IF c.op = "root" THEN Append(ToldRoots, c.dep) ELSE ToldRoots
<1>1. /\ script = <<>> /\ script' = <<c>> /\ Head(script') = c /\ script' # <<>> /\ pc' = "idle"
      /\ UNCHANGED <<vers, deps, roots>>
      BY DEF SolverReturned, Calls, registry
<1>2. ~Adds /\ ~Adds'
      BY <1>1 DEF Adds
<1> QED BY <1>1, <1>2, CallMade DEF ToldVers, ToldDeps, ToldRoots

LEMMA RegisterStep ==
    ASSUME RShape, WalkInv, SolverInv, ToldInv, Register
    PROVE  SolverInv' /\ ToldInv'
<1>1. /\ stage = "register" /\ stage' = "register" /\ script = <<>> /\ at[1] <= Len(fetched)
      /\ UNCHANGED <<project, queue, seen, fetched, resolved>>
      BY DEF Register, SolverReturned, walk
<1>2. ~Walking /\ ~Walking'
      BY <1>1 DEF Walking
<1>3. CASE at[2] <= Len(fetched[at[1]].releases)
      BY <1>1, <1>3, HandOver
<1>4. CASE ~(at[2] <= Len(fetched[at[1]].releases))
  <2>1. UNCHANGED vars /\ at' = <<at[1] + 1, 1>>
        BY <1>4 DEF Register
  <2>2. /\ at[1] \in 1..Len(fetched) /\ at[2] \in Nat /\ Len(fetched) \in Nat
        /\ \A c \in 1..Len(fetched) : c \in Nat /\ Len(fetched[c].releases) \in Nat
        BY <1>1, ComponentFacts DEF RShape
  <2>3. at[2] = Len(fetched[at[1]].releases) + 1
        BY <1>1, <1>4, <2>2 DEF ToldInv, Progress
  <2>4. at'[1] = at[1] + 1 /\ at'[2] = 1
        BY <2>1
  <2>5. \A c \in 1..Len(fetched) : Count(c)' = Count(c)
        BY <1>1, <1>2, <2>2, <2>3, <2>4 DEF Count
  <2>6. Progress'
        BY <1>1, <2>2, <2>4 DEF Progress
  <2>7. RootsTold'
        BY <1>1, <1>2, <2>1, NothingTold DEF ToldInv, RootsTold, RootsUpTo
  <2> QED BY <1>1, <1>2, <2>1, <2>5, <2>6, <2>7, NothingTold, ToldStands DEF ToldInv
<1> QED BY <1>3, <1>4

LEMMA RegisteredAllStep ==
    ASSUME RShape, WalkInv, SolverInv, ToldInv, RegisteredAll
    PROVE  SolverInv' /\ ToldInv'
<1>1. /\ stage = "register" /\ stage' = "require" /\ script = <<>> /\ at[1] > Len(fetched)
      /\ at' = <<1, 1>> /\ UNCHANGED <<project, fetched>> /\ UNCHANGED vars
      BY DEF RegisteredAll, SolverReturned, walk
<1>2. ~Walking /\ ~Walking'
      BY <1>1 DEF Walking
<1>3. at[1] \in Nat /\ Len(fetched) \in Nat /\ Len(project.roots) \in Nat /\ at'[1] = 1
      BY <1>1, ProjectFacts DEF RShape
<1>4. \A c \in 1..Len(fetched) : Count(c)' = Count(c)
      BY <1>1, <1>2, <1>3 DEF Count
<1>5. RootsTold'
  <2>1. RootsUpTo(0) /\ ToldRoots' = ToldRoots
        BY <1>1, NothingTold DEF ToldInv, RootsTold
  <2>2. Len(ToldRoots') = 0
        BY <2>1 DEF RootsUpTo
  <2> QED BY <1>1, <1>2, <1>3, <2>2 DEF RootsTold, RootsUpTo
<1>6. Progress'
      BY <1>1 DEF Progress
<1> QED BY <1>1, <1>2, <1>4, <1>5, <1>6, NothingTold, ToldStands DEF ToldInv

\* A root is required of the solver, or refused by it.
LEMMA RequireStep ==
    ASSUME RShape, WalkInv, SolverInv, ToldInv, Require
    PROVE  SolverInv' /\ ToldInv'
<1>0. PICK d, n : d = Plain(project.roots[at[1]]) /\ n = at[1]
      OBVIOUS
<1>1. /\ stage = "require" /\ script = <<>> /\ SolverReturned /\ n <= Len(project.roots)
      /\ UNCHANGED <<project, fetched>>
      /\ IF d.spec = BadSpec
           THEN stage' = "failed" /\ UNCHANGED <<at, vars>>
           ELSE /\ Calls([op |-> "root", dep |-> d])
                /\ at' = <<n + 1, 1>> /\ stage' = stage
      BY <1>0 DEF Require, SolverReturned, walk
<1>2. ~Walking /\ ~Walking'
      BY <1>1 DEF Walking
<1>3. n \in 1..Len(project.roots) /\ Len(project.roots) \in Nat
      BY <1>0, <1>1, ProjectFacts DEF RShape
<1>4. \A c \in 1..Len(fetched) : Count(c)' = Count(c)
      BY <1>1, <1>2 DEF Count
<1>5. Progress'
      BY <1>1 DEF Progress
<1>6. CASE d.spec = BadSpec
  <2>1. RootsTold'
        BY <1>1, <1>2, <1>6 DEF RootsTold
  <2> QED BY <1>1, <1>2, <1>4, <1>5, <1>6, <2>1, NothingTold, ToldStands DEF ToldInv
<1>7. CASE d.spec # BadSpec
  <2> DEFINE c == [op |-> "root", dep |-> d]
  <2>1. d \in Dep
    <3>1. project.roots[n] \in Wanted
          BY <1>3, ProjectFacts
    <3> QED BY <1>0, <3>1 DEF Wanted, Plain, Dep
  <2>2. c \in Call /\ c.op # "add" /\ c.op = "root" /\ c.dep = d
        BY <2>1 DEF Call
  <2>3. /\ SolverInv' /\ script' = <<c>> /\ Head(script') = c /\ script' # <<>> /\ pc' = "idle"
        /\ \A p \in Pkg : ToldVers(p)' = ToldVers(p)
        /\ \A p \in Pkg : \A v \in Ver : ToldDeps(p, v)' = ToldDeps(p, v)
        /\ ToldRoots' = Append(ToldRoots, d)
        BY <1>1, <1>7, <2>2, NoneAdded
  <2>4. CallInv'
        BY <1>1, <1>7, <2>2, <2>3 DEF CallInv
  <2>5. RootsTold'
    <3>1. RootsUpTo(n - 1)
          BY <1>0, <1>1 DEF ToldInv, RootsTold
    <3>2. ToldRoots = roots /\ roots \in Seq(Dep)
          BY <1>1, ToldAtRest DEF SolverInv, Registered, TypeOK
    <3>3. /\ Len(ToldRoots') = n /\ ToldRoots'[n] = d
          /\ \A k \in 1..(n - 1) : ToldRoots'[k] = ToldRoots[k]
          BY <1>3, <2>1, <2>3, <3>1, <3>2, AppendProperties DEF RootsUpTo
    <3>4. \A k \in 1..n : ToldRoots'[k] = Plain(project.roots[k])
      <4> SUFFICES ASSUME NEW k \in 1..n PROVE ToldRoots'[k] = Plain(project.roots[k])
          OBVIOUS
      <4>1. CASE k = n
            BY <1>0, <3>3, <4>1
      <4>2. CASE k # n
        <5>1. k \in 1..(n - 1)
              BY <1>3, <4>2
        <5> QED BY <3>1, <3>3, <5>1 DEF RootsUpTo
      <4> QED BY <4>1, <4>2
    <3>5. stage' = "require" /\ at'[1] = n + 1
          BY <1>1, <1>7
    <3>6. at'[1] <= Len(project.roots) + 1 /\ at'[1] - 1 = n
          BY <1>3, <3>5
    <3> QED BY <1>1, <1>2, <3>3, <3>4, <3>5, <3>6 DEF RootsTold, RootsUpTo, Plain
  <2> QED BY <1>1, <1>2, <1>4, <1>5, <2>3, <2>4, <2>5, ToldStands DEF ToldInv
<1> QED BY <1>6, <1>7

LEMMA RequiredAllStep ==
    ASSUME RShape, WalkInv, SolverInv, ToldInv, RequiredAll
    PROVE  SolverInv' /\ ToldInv' /\ Answered'
<1> DEFINE c == [op |-> "solve"]
<1>1. /\ stage = "require" /\ script = <<>> /\ SolverReturned /\ at[1] > Len(project.roots)
      /\ UNCHANGED <<project, fetched>> /\ stage' = "solve" /\ Calls(c)
      BY DEF RequiredAll, SolverReturned, walk
<1>2. ~Walking /\ ~Walking'
      BY <1>1 DEF Walking
<1>3. at[1] \in Nat /\ Len(project.roots) \in Nat
      BY ProjectFacts DEF RShape
<1>4. \A c1 \in 1..Len(fetched) : Count(c1)' = Count(c1)
      BY <1>1, <1>2 DEF Count
<1>5. c \in Call /\ c.op # "add" /\ c.op = "solve"
      BY DEF Call
<1>6. /\ SolverInv' /\ script' = <<c>> /\ Head(script') = c /\ script' # <<>> /\ pc' = "idle"
      /\ \A p \in Pkg : ToldVers(p)' = ToldVers(p)
      /\ \A p \in Pkg : \A v \in Ver : ToldDeps(p, v)' = ToldDeps(p, v)
      /\ ToldRoots' = ToldRoots
      BY <1>1, <1>5, NoneAdded
<1>7. CallInv'
      BY <1>1, <1>5, <1>6 DEF CallInv
<1>8. RootsTold'
  <2>1. at[1] - 1 = Len(project.roots) /\ RootsUpTo(at[1] - 1)
        BY <1>1, <1>3 DEF ToldInv, RootsTold
  <2>2. RootsUpTo(Len(project.roots))
        BY <2>1
  <2> QED BY <1>1, <1>2, <1>6, <2>2 DEF RootsTold, RootsUpTo, Plain
<1>9. Progress' /\ Answered'
      BY <1>1, <1>6 DEF Progress, Answered
<1> QED BY <1>1, <1>2, <1>4, <1>6, <1>7, <1>8, <1>9, ToldStands DEF ToldInv

\* As long as the walk goes on the solver is told nothing.
LEMMA WalkTells ==
    ASSUME SolverInv, ToldInv, Walking, Walking', UNCHANGED vars
    PROVE  SolverInv' /\ ToldInv' /\ Answered'
<1>1. script = <<>>
      BY DEF ToldInv, CallInv, Walking
<1>2. /\ SolverInv' /\ CallInv'
      /\ \A p \in Pkg : ToldVers(p)' = {}
      /\ ToldRoots' = ToldRoots
      BY <1>1, NothingTold DEF ToldInv, OthersUntold
<1>3. Len(ToldRoots') = 0
      BY <1>2 DEF ToldInv, RootsTold, RootsUpTo
<1>4. RootsTold'
      BY <1>3 DEF RootsTold, RootsUpTo, Walking
<1> QED BY <1>2, <1>4
        DEF ToldInv, ComponentsTold, IdfTold, OthersUntold, Progress, Walking, Answered

LEMMA AssembleStep ==
    ASSUME RShape, SolverInv, ToldInv, Assemble
    PROVE  SolverInv' /\ ToldInv'
<1>1. /\ stage = "solve" /\ stage' \in {"resolved", "failed"} /\ script = <<>>
      /\ UNCHANGED <<project, fetched>> /\ UNCHANGED vars
      BY DEF Assemble, SolverReturned, walk
<1>2. ~Walking /\ ~Walking'
      BY <1>1 DEF Walking
<1>3. \A c \in 1..Len(fetched) : Count(c)' = Count(c)
      BY <1>1, <1>2 DEF Count
<1>4. RootsTold' /\ Progress'
      BY <1>1, <1>2 DEF RootsTold, Progress
<1> QED BY <1>1, <1>2, <1>3, <1>4, NothingTold, ToldStands DEF ToldInv

LEMMA SolverStep ==
    ASSUME RShape, SolverInv, ToldInv, Solver
    PROVE  SolverInv' /\ ToldInv' /\ Answered'
<1>1. Next /\ UNCHANGED <<project, stage, fetched, at>>
      BY DEF Solver, walk
<1>2. /\ \A p \in Pkg : ToldVers(p)' = ToldVers(p)
      /\ \A p \in Pkg : \A v \in Ver : ToldDeps(p, v)' = ToldDeps(p, v)
      /\ ToldRoots' = ToldRoots
      BY <1>1, ToldKept DEF ToldInv
<1>3. Walking' <=> Walking
      BY <1>1 DEF Walking
<1>4. \A c \in 1..Len(fetched) : Count(c)' = Count(c)
      BY <1>1, <1>3 DEF Count
<1>5. Progress'
      BY <1>1 DEF ToldInv, Progress
<1>6. RootsTold'
      BY <1>1, <1>2, <1>3 DEF ToldInv, RootsTold, RootsUpTo, Plain
<1>7. SolverInv' /\ CallInv' /\ Answered'
      BY <1>1, NextInv, CallKept, AnswerKept DEF ToldInv
<1> QED BY <1>1, <1>2, <1>3, <1>4, <1>5, <1>6, <1>7, ToldStands DEF ToldInv

LEMMA NoStep ==
    ASSUME SolverInv, ToldInv, Answered, UNCHANGED rvars
    PROVE  SolverInv' /\ ToldInv' /\ Answered'
<1>1. UNCHANGED <<project, stage, fetched, at, script, pc, vers, deps, roots, result, chosen>>
      BY DEF rvars, walk, vars, registry, answer
<1>2. UNCHANGED vars
      BY DEF rvars
<1>3. SolverInv'
      BY <1>2, SolverStands
<1>4. Answered'
      BY <1>1 DEF Answered, Solution, Abs!Solution
<1>5. CallInv' /\ Progress'
      BY <1>1 DEF ToldInv, CallInv, Progress
<1>6. ComponentsTold'
      BY <1>1 DEF ToldInv, ComponentsTold, Walking, FirstCounts, Handed, Count, ToldVers,
                  ToldDeps, Adds
<1>7. IdfTold' /\ OthersUntold'
      BY <1>1 DEF ToldInv, IdfTold, OthersUntold, Walking, Names, IdfVersion, ToldVers,
                  ToldDeps, Adds
<1>8. RootsTold'
      BY <1>1 DEF ToldInv, RootsTold, RootsUpTo, ToldRoots, Walking
<1> QED BY <1>3, <1>4, <1>5, <1>6, <1>7, <1>8 DEF ToldInv

LEMMA ToldStep ==
    ASSUME RShape, WalkInv, SolverInv, ToldInv, Answered, [RNext]_rvars
    PROVE  SolverInv' /\ ToldInv' /\ Answered'
<1>1. CASE Pass \/ Fetch \/ FetchFails \/ Push \/ PushedRelease \/ PushedAll
  <2>1. Walking /\ Walking' /\ UNCHANGED vars
    <3>1. CASE Pass \/ Fetch \/ FetchFails
          BY <3>1 DEF Pass, Fetch, FetchFails, Walking
    <3>2. CASE Push \/ PushedRelease \/ PushedAll
          BY <3>2 DEF Push, PushedRelease, PushedAll, Walking
    <3> QED BY <1>1, <3>1, <3>2
  <2> QED BY <2>1, WalkTells
<1>2. CASE RegisterIdf
  <2>1. Answered'
        BY <1>2 DEF RegisterIdf, Answered
  <2> QED BY <1>2, <2>1, RegisterIdfStep
<1>3. CASE Register
  <2>1. Answered'
        BY <1>3 DEF Register, Answered
  <2> QED BY <1>3, <2>1, RegisterStep
<1>4. CASE RegisteredAll
  <2>1. Answered'
        BY <1>4 DEF RegisteredAll, Answered
  <2> QED BY <1>4, <2>1, RegisteredAllStep
<1>5. CASE Require
  <2>1. Answered'
        BY <1>5 DEF Require, Answered
  <2> QED BY <1>5, <2>1, RequireStep
<1>6. CASE RequiredAll
      BY <1>6, RequiredAllStep
<1>7. CASE Assemble
  <2>1. Answered'
        BY <1>7 DEF Assemble, Answered
  <2> QED BY <1>7, <2>1, AssembleStep
<1>8. CASE Solver
      BY <1>8, SolverStep
<1>9. CASE UNCHANGED rvars
      BY <1>9, NoStep
<1> QED BY <1>1, <1>2, <1>3, <1>4, <1>5, <1>6, <1>7, <1>8, <1>9 DEF RNext, Client

LEMMA InitTold == RInit => SolverInv /\ ToldInv /\ Answered
<1> SUFFICES ASSUME RInit PROVE SolverInv /\ ToldInv /\ Answered
    OBVIOUS
<1>1. /\ Walking /\ stage = "collect" /\ script = <<>> /\ Init
      /\ vers = [p \in Pkg |-> {}] /\ roots = <<>> /\ pc = "idle"
      BY DEF RInit, Init, Walking
<1>2. SolverInv
      BY <1>1, InitInv
<1>3. ToldRoots = <<>> /\ \A p \in Pkg : ToldVers(p) = {}
      BY <1>1, ToldAtRest
<1>4. RootsTold
      BY <1>1, <1>3 DEF RootsTold, RootsUpTo
<1> QED BY <1>1, <1>2, <1>3, <1>4
        DEF ToldInv, CallInv, ComponentsTold, IdfTold, OthersUntold, Progress, Answered

-----------------------------------------------------------------------------
(* What the solver was told is all that matters of what is published. *)

Fits(s) ==
    /\ s \in Abs!Assignments
    /\ \A k \in 1..Len(WorldRoots) : Abs!Meets(s, WorldRoots[k])
    /\ \A p \in Pkg : s[p] # NoVer =>
          /\ s[p] \in WorldVers[p]
          /\ \A k \in 1..Len(WorldDeps[p][s[p]]) : Abs!Meets(s, WorldDeps[p][s[p]][k])

LEMMA WorldFits ==
    ASSUME NEW s
    PROVE  World!Solution(s) <=> Fits(s)
BY DEF World!Solution, World!Meets, World!Assignments, Fits, Abs!Meets, Abs!Assignments

\* What is published does not change, and what is fetched not after the walk.
LEMMA WorldStands ==
    ASSUME UNCHANGED <<project, fetched>>
    PROVE  UNCHANGED <<WorldVers, WorldDeps, WorldRoots>>
<1>1. ASSUME NEW p
      PROVE  Published(p)' = Published(p)
      BY DEF Published, Sources, IdfVersion
<1>2. ASSUME NEW p, NEW v
      PROVE  UsableOf(p, v)' = UsableOf(p, v)
      BY <1>1 DEF UsableOf, Usable
<1>3. WorldVers' = WorldVers
      BY <1>2 DEF WorldVers
<1>4. WorldDeps' = WorldDeps
      BY <1>1, <1>2 DEF WorldDeps, FirstUsable, Plainly, Plain
<1>5. WorldRoots' = WorldRoots
      BY DEF WorldRoots, Plainly, Plain
<1> QED BY <1>3, <1>4, <1>5

LEMMA FitsStands ==
    ASSUME UNCHANGED <<project, fetched>>, NEW s
    PROVE  (World!Solution(s))' <=> Fits(s)
BY WorldStands DEF World!Solution, World!Meets, World!Assignments, Fits, Abs!Meets,
       Abs!Assignments

LEMMA LockedStands ==
    ASSUME UNCHANGED <<project, fetched>>, NEW t, t = Locked', Fits(t)
    PROVE  (World!Solution(Locked))'
BY WorldStands DEF World!Solution, World!Meets, World!Assignments, Fits, Abs!Meets,
       Abs!Assignments

Known == Names \cup {Idf}

\* When the walk is over and everything was handed over, the solver knows of a
\* package that was found what is published.
LEMMA FoundIsPublished ==
    ASSUME RShape, WalkInv, NEW c \in 1..Len(fetched)
    PROVE  Published(fetched[c].name) = fetched[c].releases
<1>1. fetched[c].name # Idf
      BY ComponentFacts
<1>2. Sources(fetched[c].name) = {fetched[c].url}
      BY DEF WalkInv, FetchedOnce, Sources
<1>3. /\ fetched[c].name \in DOMAIN project.index[fetched[c].url]
      /\ fetched[c].releases = project.index[fetched[c].url][fetched[c].name]
      BY DEF WalkInv, FetchedWhole
<1> QED BY <1>1, <1>2, <1>3 DEF Published

LEMMA Least ==
    ASSUME NEW S, NEW m \in S, S \subseteq Nat, \A j \in S : m <= j
    PROVE  (CHOOSE k \in S : \A j \in S : k <= j) = m
<1>1. \A k \in S : (\A j \in S : k <= j) => k = m
  <2> SUFFICES ASSUME NEW k \in S, \A j \in S : k <= j PROVE k = m
      OBVIOUS
  <2>1. k <= m /\ m <= k /\ k \in Nat /\ m \in Nat
        OBVIOUS
  <2> QED BY <2>1
<1> QED BY <1>1

Complete == RShape /\ WalkInv /\ SolverInv /\ ToldInv /\ stage = "solve" /\ script = <<>>

LEMMA FoundIsTold ==
    ASSUME Complete, NEW c \in 1..Len(fetched), NEW v \in Ver
    PROVE  LET p == fetched[c].name
           IN /\ v \in vers[p] <=> v \in WorldVers[p]
              /\ v \in vers[p] =>
                    \E m \in 1..Len(fetched[c].releases) :
                       /\ deps[p][v] = Plainly(fetched[c].releases[m].deps)
                       /\ WorldDeps[p][v] = Plainly(fetched[c].releases[m].deps)
<1>1. PICK p : p = fetched[c].name
      OBVIOUS
<1>2. p \in Pkg /\ ~Walking /\ ToldVers(p) = vers[p] /\ ToldDeps(p, v) = deps[p][v]
      BY <1>1, ComponentFacts, ToldAtRest DEF Complete, Walking
<1>3. FirstCounts(c, p, v)
      BY <1>1, <1>2 DEF Complete, ToldInv, ComponentsTold
<1>4. UsableOf(p, v) = Handed(c, v)
  <2>1. Published(p) = fetched[c].releases
        BY <1>1, FoundIsPublished DEF Complete
  <2>2. Count(c) = Len(fetched[c].releases)
        BY <1>2 DEF Count, Complete
  <2> QED BY <2>1, <2>2 DEF UsableOf, Handed
<1>5. WorldVers[p] = {u \in Ver : UsableOf(p, u) # {}}
      BY <1>2 DEF WorldVers
<1>6. v \in vers[p] <=> v \in WorldVers[p]
      BY <1>2, <1>3, <1>4, <1>5 DEF FirstCounts
<1>7. ASSUME v \in vers[p]
      PROVE  \E m \in 1..Len(fetched[c].releases) :
                /\ deps[p][v] = Plainly(fetched[c].releases[m].deps)
                /\ WorldDeps[p][v] = Plainly(fetched[c].releases[m].deps)
  <2>1. PICK m \in Handed(c, v) :
           /\ \A j \in Handed(c, v) : m <= j
           /\ deps[p][v] = Plainly(fetched[c].releases[m].deps)
        BY <1>2, <1>3, <1>7 DEF FirstCounts
  <2>2. Handed(c, v) \subseteq Nat /\ m \in 1..Len(fetched[c].releases)
        BY <1>2 DEF Handed, Count, Complete
  <2>3. FirstUsable(p, v) = m
        BY <1>4, <2>1, <2>2, Least DEF FirstUsable
  <2>4. UsableOf(p, v) # {} /\ Published(p) = fetched[c].releases
        BY <1>1, <1>4, <2>1, FoundIsPublished DEF Complete
  <2>5. WorldDeps[p][v] = Plainly(fetched[c].releases[m].deps)
        BY <1>2, <2>3, <2>4 DEF WorldDeps
  <2> QED BY <2>1, <2>2, <2>5
<1> QED BY <1>1, <1>6, <1>7

LEMMA IdfIsTold ==
    ASSUME Complete
    PROVE  /\ IdfVersion \in Ver /\ vers[Idf] = {IdfVersion} /\ WorldVers[Idf] = {IdfVersion}
           /\ deps[Idf][IdfVersion] = <<>> /\ Len(WorldDeps[Idf][IdfVersion]) = 0
<1>1. IdfVersion \in Ver /\ Idf \in Pkg
      BY ProjectFacts, LowestAssumption, IdfAssumption DEF IdfVersion, Complete
<1>2. vers[Idf] = {IdfVersion} /\ deps[Idf][IdfVersion] = <<>>
      BY ToldAtRest DEF Complete, ToldInv, IdfTold, Walking
<1>3. /\ Published(Idf) = <<[ver |-> IdfVersion, deps |-> <<>>]>> /\ Len(Published(Idf)) = 1
      /\ Published(Idf)[1].ver = IdfVersion /\ Published(Idf)[1].deps = <<>>
      BY DEF Published
<1>4. Usable(Published(Idf)[1])
      BY <1>1, <1>3, VerFacts DEF Usable
<1>5. \A v \in Ver : UsableOf(Idf, v) = IF v = IdfVersion THEN {1} ELSE {}
  <2> SUFFICES ASSUME NEW v \in Ver
               PROVE  UsableOf(Idf, v) = IF v = IdfVersion THEN {1} ELSE {}
      OBVIOUS
  <2>1. 1..Len(Published(Idf)) = {1}
        BY <1>3
  <2> QED BY <1>3, <1>4, <2>1 DEF UsableOf
<1>6. WorldVers[Idf] = {IdfVersion}
      BY <1>1, <1>5 DEF WorldVers
<1>7. Len(WorldDeps[Idf][IdfVersion]) = 0
  <2>1. FirstUsable(Idf, IdfVersion) = 1
        BY <1>1, <1>5 DEF FirstUsable
  <2>2. WorldDeps[Idf][IdfVersion] = Plainly(<<>>)
        BY <1>1, <1>3, <1>5, <2>1 DEF WorldDeps
  <2>3. <<>> \in Seq(Wanted) /\ Len(<<>>) = 0
        OBVIOUS
  <2>4. Len(Plainly(<<>>)) = 0
        BY <2>3, PlainDeps
  <2> QED BY <2>2, <2>4
<1> QED BY <1>1, <1>2, <1>6, <1>7

\* Whatever a known package requires is known.
LEMMA KnownClosed ==
    ASSUME Complete
    PROVE  /\ Known \subseteq Pkg
           /\ \A r \in 1..Len(project.roots) : project.roots[r].pkg \in Known
           /\ \A c \in 1..Len(fetched) : \A m \in 1..Len(fetched[c].releases) :
                 \A d \in 1..Len(fetched[c].releases[m].deps) :
                    fetched[c].releases[m].deps[d].pkg \in Known
<1>1. queue = <<>>
      BY DEF Complete, RShape, Walking
<1>2. \A p : Asked(p) => p \in Known
  <2>1. \A m \in 1..Len(queue) : FALSE
        BY <1>1
  <2> QED BY <2>1 DEF Asked, Known, Complete, WalkInv, SeenIsFetched
<1>3. Known \subseteq Pkg
      BY ComponentFacts, IdfAssumption DEF Known, Names, Complete
<1>4. \A c, m, d : ~ToPush(c, m, d)
      BY DEF Complete, ToPush
<1> QED BY <1>2, <1>3, <1>4 DEF Complete, WalkInv, RootsAsked, DepsAsked

\* The solver was given the roots the project has.
LEMMA RootsAreTold ==
    ASSUME Complete
    PROVE  /\ Len(roots) = Len(project.roots) /\ Len(WorldRoots) = Len(project.roots)
           /\ \A k \in 1..Len(project.roots) :
                 roots[k] = WorldRoots[k] /\ WorldRoots[k].pkg = project.roots[k].pkg
<1>1. project.roots \in Seq(Wanted)
      BY ProjectFacts DEF Complete
<1>2. RootsUpTo(Len(project.roots)) /\ ToldRoots = roots
      BY ToldAtRest DEF Complete, ToldInv, RootsTold
<1>3. /\ Len(WorldRoots) = Len(project.roots)
      /\ \A k \in 1..Len(project.roots) : WorldRoots[k] = Plain(project.roots[k])
      BY <1>1, PlainDeps DEF WorldRoots
<1>4. \A k \in 1..Len(project.roots) : Plain(project.roots[k]).pkg = project.roots[k].pkg
      BY DEF Plain
<1> QED BY <1>2, <1>3, <1>4 DEF RootsUpTo

\* Of a package that is known the solver knows all there is, and it knows of
\* no other.
LEMMA KnownIsTold ==
    ASSUME Complete, NEW p \in Pkg, NEW v \in Ver
    PROVE  /\ v \in vers[p] => p \in Known
           /\ p \in Known =>
                 /\ v \in vers[p] <=> v \in WorldVers[p]
                 /\ v \in vers[p] =>
                       /\ Len(deps[p][v]) \in Nat /\ Len(deps[p][v]) = Len(WorldDeps[p][v])
                       /\ \A k \in 1..Len(deps[p][v]) :
                             deps[p][v][k] = WorldDeps[p][v][k] /\ deps[p][v][k].pkg \in Known
<1>1. v \in vers[p] => p \in Known
      BY ToldAtRest DEF Complete, ToldInv, OthersUntold, Known
<1>2. CASE p = Idf
  <2>1. v \in vers[p] => v = IdfVersion /\ Len(deps[p][v]) = 0 /\ Len(WorldDeps[p][v]) = 0
        BY <1>2, IdfIsTold
  <2> QED BY <1>1, <1>2, <2>1, IdfIsTold
<1>3. CASE p # Idf
  <2> SUFFICES ASSUME p \in Known
               PROVE  /\ v \in vers[p] <=> v \in WorldVers[p]
                      /\ v \in vers[p] =>
                         /\ Len(deps[p][v]) \in Nat /\ Len(deps[p][v]) = Len(WorldDeps[p][v])
                         /\ \A k \in 1..Len(deps[p][v]) :
                               deps[p][v][k] = WorldDeps[p][v][k]
                               /\ deps[p][v][k].pkg \in Known
      BY <1>1
  <2>1. PICK c \in 1..Len(fetched) : p = fetched[c].name
        BY <1>3 DEF Known, Names
  <2>2. v \in vers[p] <=> v \in WorldVers[p]
        BY <2>1, FoundIsTold
  <2>3. ASSUME v \in vers[p]
        PROVE  /\ Len(deps[p][v]) \in Nat /\ Len(deps[p][v]) = Len(WorldDeps[p][v])
               /\ \A k \in 1..Len(deps[p][v]) :
                     deps[p][v][k] = WorldDeps[p][v][k] /\ deps[p][v][k].pkg \in Known
    <3>1. PICK m \in 1..Len(fetched[c].releases) :
             /\ deps[p][v] = Plainly(fetched[c].releases[m].deps)
             /\ WorldDeps[p][v] = Plainly(fetched[c].releases[m].deps)
          BY <2>1, <2>3, FoundIsTold
    <3>2. PICK ds \in Seq(Wanted) : ds = fetched[c].releases[m].deps
          BY ComponentFacts DEF Complete
    <3>3. /\ Len(Plainly(ds)) = Len(ds) /\ Len(ds) \in Nat
          /\ \A k \in 1..Len(ds) : Plainly(ds)[k] = Plain(ds[k])
          BY PlainDeps
    <3>4. \A k \in 1..Len(ds) : Plain(ds[k]).pkg = ds[k].pkg /\ ds[k].pkg \in Known
          BY <3>2, KnownClosed DEF Plain
    <3> QED BY <3>1, <3>2, <3>3, <3>4
  <2> QED BY <2>2, <2>3
<1> QED BY <1>2, <1>3

\* A solution of what the solver was told is one of all that is published.
LEMMA SolutionFits ==
    ASSUME Complete, NEW s, Solution(s)
    PROVE  Fits(s)
<1>1. /\ s \in Abs!Assignments
      /\ \A k \in 1..Len(roots) : Abs!Meets(s, roots[k])
      /\ \A p \in Pkg : s[p] # NoVer =>
            /\ s[p] \in vers[p]
            /\ \A k \in 1..Len(deps[p][s[p]]) : Abs!Meets(s, deps[p][s[p]][k])
      BY DEF Solution, Abs!Solution
<1>2. \A k \in 1..Len(WorldRoots) : Abs!Meets(s, WorldRoots[k])
      BY <1>1, RootsAreTold
<1>3. ASSUME NEW p \in Pkg, s[p] # NoVer
      PROVE  /\ s[p] \in WorldVers[p]
             /\ \A k \in 1..Len(WorldDeps[p][s[p]]) : Abs!Meets(s, WorldDeps[p][s[p]][k])
  <2>1. PICK v \in Ver : v = s[p]
        BY <1>1, <1>3 DEF Abs!Assignments
  <2>2. v \in vers[p]
        BY <1>1, <1>3, <2>1
  <2>3. /\ v \in WorldVers[p] /\ Len(deps[p][v]) = Len(WorldDeps[p][v])
        /\ \A k \in 1..Len(deps[p][v]) : deps[p][v][k] = WorldDeps[p][v][k]
        BY <2>2, KnownIsTold
  <2>4. \A k \in 1..Len(deps[p][v]) : Abs!Meets(s, deps[p][v][k])
        BY <1>1, <1>3, <2>1
  <2>5. \A k \in 1..Len(WorldDeps[p][v]) : Abs!Meets(s, WorldDeps[p][v][k])
        BY <2>3, <2>4
  <2> QED BY <2>1, <2>3, <2>5
<1> QED BY <1>1, <1>2, <1>3 DEF Fits

\* A solution of all that is published is one of what the solver was told,
\* once what it does not know of is left out.
LEMMA FitsSolution ==
    ASSUME Complete, NEW s, Fits(s)
    PROVE  Solution([p \in Pkg |-> IF p \in Known THEN s[p] ELSE NoVer])
<1> DEFINE t == [p \in Pkg |-> IF p \in Known THEN s[p] ELSE NoVer]
<1>1. /\ s \in [Pkg -> Ver \cup {NoVer}]
      /\ \A k \in 1..Len(WorldRoots) : Abs!Meets(s, WorldRoots[k])
      /\ \A p \in Pkg : s[p] # NoVer =>
            /\ s[p] \in WorldVers[p]
            /\ \A k \in 1..Len(WorldDeps[p][s[p]]) : Abs!Meets(s, WorldDeps[p][s[p]][k])
      BY DEF Fits, Abs!Assignments
<1>2. t \in Abs!Assignments /\ \A p \in Known : p \in Pkg /\ t[p] = s[p]
      BY <1>1, KnownClosed DEF Abs!Assignments
<1>3. \A d : d.pkg \in Known /\ Abs!Meets(s, d) => Abs!Meets(t, d)
      BY <1>2 DEF Abs!Meets
<1>4. \A k \in 1..Len(roots) : Abs!Meets(t, roots[k])
  <2>1. \A k \in 1..Len(roots) : roots[k].pkg \in Known /\ Abs!Meets(s, roots[k])
        BY <1>1, RootsAreTold, KnownClosed
  <2> QED BY <1>3, <2>1
<1>5. ASSUME NEW p \in Pkg, t[p] # NoVer
      PROVE  /\ t[p] \in vers[p]
             /\ \A k \in 1..Len(deps[p][t[p]]) : Abs!Meets(t, deps[p][t[p]][k])
  <2>1. p \in Known /\ t[p] = s[p]
        BY <1>5
  <2>2. PICK v \in Ver : v = s[p]
        BY <1>1, <1>5, <2>1
  <2>3. /\ v \in WorldVers[p]
        /\ \A k \in 1..Len(WorldDeps[p][v]) : Abs!Meets(s, WorldDeps[p][v][k])
        BY <1>1, <1>5, <2>1, <2>2
  <2>4. /\ v \in vers[p] /\ Len(deps[p][v]) = Len(WorldDeps[p][v])
        /\ \A k \in 1..Len(deps[p][v]) :
              deps[p][v][k] = WorldDeps[p][v][k] /\ deps[p][v][k].pkg \in Known
        BY <2>1, <2>3, KnownIsTold
  <2>5. \A k \in 1..Len(deps[p][v]) : Abs!Meets(t, deps[p][v][k])
        BY <1>3, <2>3, <2>4
  <2> QED BY <2>1, <2>2, <2>4, <2>5
<1> HIDE DEF t
<1>6. Solution(t)
      BY <1>2, <1>4, <1>5 DEF Solution, Abs!Solution
<1> QED BY <1>6 DEF t

-----------------------------------------------------------------------------
(* The answer. *)

\* The entries written are the versions chosen.
LEMMA EntriesAreChosen ==
    ASSUME resolved' = {ResolvedEntry(p) : p \in {q \in Pkg : chosen[q] # NoVer}},
           chosen \in [Pkg -> Ver \cup {NoVer}]
    PROVE  Locked' = chosen
<1>1. ASSUME NEW p
      PROVE  ResolvedEntry(p).name = p /\ ResolvedEntry(p).ver = chosen[p]
      BY DEF ResolvedEntry
<1>2. ASSUME NEW p \in Pkg
      PROVE  (IF \E e \in resolved' : e.name = p
                THEN (CHOOSE e \in resolved' : e.name = p).ver ELSE NoVer) = chosen[p]
  <2>1. CASE chosen[p] = NoVer
    <3>1. ~\E e \in resolved' : e.name = p
          BY <1>1, <2>1
    <3> QED BY <2>1, <3>1
  <2>2. CASE chosen[p] # NoVer
    <3>1. ResolvedEntry(p) \in resolved' /\ ResolvedEntry(p).name = p
          BY <1>1, <2>2
    <3>2. PICK e0 : e0 = CHOOSE e \in resolved' : e.name = p
          OBVIOUS
    <3>3. e0 \in resolved' /\ e0.name = p
          BY <3>1, <3>2
    <3>4. e0.ver = chosen[p]
          BY <1>1, <3>3
    <3> QED BY <3>1, <3>2, <3>4
  <2> QED BY <2>1, <2>2
<1> QED BY <1>2 DEF Locked

\* A specification nobody can parse is met by no choice.
LEMMA BadSpecUnmet ==
    ASSUME RShape, NEW n \in 1..Len(project.roots), Plain(project.roots[n]).spec = BadSpec,
           NEW s, Fits(s)
    PROVE  FALSE
<1>1. project.roots \in Seq(Wanted) /\ project.roots[n] \in Wanted
      BY ProjectFacts
<1>2. /\ Len(WorldRoots) = Len(project.roots) /\ WorldRoots[n] = Plain(project.roots[n])
      /\ WorldRoots[n] \in Dep
      BY <1>1, PlainDeps DEF WorldRoots
<1>3. Abs!Meets(s, WorldRoots[n]) /\ s \in [Pkg -> Ver \cup {NoVer}]
      BY <1>2 DEF Fits, Abs!Assignments
<1>4. s[WorldRoots[n].pkg] \in Ver /\ s[WorldRoots[n].pkg] \in {-1}
      BY <1>2, <1>3 DEF Abs!Meets, Dep, BadSpec
<1> QED BY <1>4, VerFacts DEF BadVersion

LEMMA RightStep ==
    ASSUME RShape, WalkInv, SolverInv, ToldInv, Answered, ResolvedRight, [RNext]_rvars
    PROVE  ResolvedRight'
<1>1. CASE Assemble
  <2>1. /\ stage = "solve" /\ script = <<>> /\ UNCHANGED <<project, fetched>>
        /\ IF result = "solved"
             THEN /\ resolved' = {ResolvedEntry(p) : p \in {q \in Pkg : chosen[q] # NoVer}}
                  /\ stage' = "resolved"
             ELSE stage' = "failed"
        BY <1>1 DEF Assemble, SolverReturned, walk
  <2>2. Complete
        BY <2>1 DEF Complete
  <2>3. CASE result = "solved"
    <3>1. Solution(chosen) /\ chosen \in [Pkg -> Ver \cup {NoVer}]
          BY <2>1, <2>3 DEF Answered, SolverInv, Registered, TypeOK
    <3>2. PICK t : t = chosen
          OBVIOUS
    <3>3. Fits(t) /\ t = Locked'
          BY <2>1, <2>2, <2>3, <3>1, <3>2, SolutionFits, EntriesAreChosen
    <3>4. (World!Solution(Locked))'
          BY <2>1, <3>3, LockedStands
    <3> QED BY <2>1, <2>3, <3>4 DEF ResolvedRight
  <2>4. CASE result # "solved"
    <3>1. \A s : ~Solution(s)
          BY <2>1, <2>4 DEF Answered
    <3>2. \A s : ~Fits(s)
          BY <2>2, <3>1, FitsSolution
    <3>3. \A s : ~(World!Solution(s))'
          BY <2>1, <3>2, FitsStands
    <3> QED BY <2>1, <2>4, <3>3 DEF ResolvedRight
  <2> QED BY <2>3, <2>4
<1>2. CASE Require
  <2>1. PICK n : n = at[1] /\ n \in 1..Len(project.roots)
        BY <1>2, ProjectFacts DEF Require, RShape
  <2>2. /\ stage = "require" /\ UNCHANGED <<project, fetched>>
        /\ IF Plain(project.roots[n]).spec = BadSpec THEN stage' = "failed"
           ELSE stage' = "require"
        BY <1>2, <2>1 DEF Require, walk
  <2>3. Plain(project.roots[n]).spec = BadSpec => \A s : ~(World!Solution(s))'
        BY <2>1, <2>2, BadSpecUnmet, FitsStands
  <2> QED BY <2>2, <2>3 DEF ResolvedRight
<1>3. CASE Elsewhere
  <2>1. UNCHANGED <<project, stage, fetched, resolved>>
        BY <1>3, ElsewhereStep
  <2>2. PICK t : t = Locked
        OBVIOUS
  <2>3. t = Locked'
        BY <2>1, <2>2 DEF Locked
  <2>4. stage = "resolved" => (World!Solution(Locked))'
        BY <2>1, <2>2, <2>3, WorldFits, LockedStands DEF ResolvedRight
  <2>5. stage = "failed" => \A s \in Abs!Assignments : ~(World!Solution(s))'
        BY <2>1, WorldFits, FitsStands DEF ResolvedRight, World!Assignments, Abs!Assignments
  <2> QED BY <2>1, <2>4, <2>5 DEF ResolvedRight, World!Assignments, Abs!Assignments
<1>4. CASE Pass \/ Fetch \/ FetchFails \/ Push \/ PushedRelease \/ PushedAll
  <2>1. stage' \notin {"resolved", "failed"}
    <3>1. CASE Pass \/ Fetch \/ FetchFails
          BY <3>1 DEF Pass, Fetch, FetchFails
    <3>2. CASE Push \/ PushedRelease \/ PushedAll
          BY <3>2 DEF Push, PushedRelease, PushedAll
    <3> QED BY <1>4, <3>1, <3>2
  <2> QED BY <2>1 DEF ResolvedRight
<1>5. CASE RegisterIdf \/ Register \/ RegisteredAll \/ RequiredAll
  <2>1. stage' \notin {"resolved", "failed"}
    <3>1. CASE RegisterIdf \/ RegisteredAll \/ RequiredAll
          BY <3>1 DEF RegisterIdf, RegisteredAll, RequiredAll
    <3>2. CASE Register
          BY <3>2 DEF Register
    <3> QED BY <1>5, <3>1, <3>2
  <2> QED BY <2>1 DEF ResolvedRight
<1> QED BY <1>1, <1>2, <1>3, <1>4, <1>5 DEF RNext, Client, Elsewhere

\* What is written to the lock file is a solution of the project over
\* everything published, and a project is refused only when there is none.
THEOREM ResolutionIsRight == RSpec => []ResolvedRight
<1> DEFINE Inv == RShape /\ WalkInv /\ SolverInv /\ ToldInv /\ Answered /\ ResolvedRight
<1>1. RInit => Inv
      BY InitShape, InitTold DEF RInit, ResolvedRight
<1>2. Inv /\ [RNext]_rvars => Inv'
      BY ShapeStep, ToldStep, RightStep
<1> QED BY <1>1, <1>2, PTL DEF RSpec

-----------------------------------------------------------------------------
(* prepare: the list it writes and the directories *)

USE KindAssumption, MaxReleaseAssumption, FileAssumption, ShipsAssumption,
    UserLocksAssumption, NoneAssumption, BoundsAssumption

-----------------------------------------------------------------------------
(* The inductive invariant *)

FromRegistry == {"download", "extract", "mark", "tidy", "refuse"}
FromGit == {"clone", "checkout"}
Fetching == FromRegistry \cup FromGit \cup {"wipe"}

\* What prepare promises of one component.
There(c) ==
    IF Kind[c] = "plain"
      THEN \A f \in Ships[lf[c]] : tree[c][f] \in {lf[c], -lf[c]}
      ELSE Exact(c, lf[c])

\* Before a lock file is loaded or made there are no entries; while one is
\* fetched it is an entry, and no longer one to come.
Phases ==
    /\ step = "load" => lf = None /\ rest = {}
    /\ step = "save" => lf # None
    /\ step \in Fetching => lf # None /\ cur \in DOMAIN lf \ rest
    /\ step \in FromRegistry => Kind[cur] # "git"
    /\ step \in FromGit => Kind[cur] = "git"

\* All entries but those to come and the current one are there.
FetchedAreThere ==
    step \in Fetching \cup {"next", "emit", "done"} =>
      \A c \in DOMAIN Entries \ rest : There(c) \/ (step \in Fetching /\ c = cur)

\* The current one, as far as it is.
CurrentOne ==
    /\ step = "wipe" /\ Kind[cur] # "git" => zip[cur] \in {lf[cur], -lf[cur], Broken}
    /\ step = "extract" =>
         /\ zip[cur] \in {lf[cur], -lf[cur]}
         /\ left \subseteq File
         /\ \A f \in Ships[lf[cur]] \ left : tree[cur][f] \in {lf[cur], -lf[cur]}
    /\ step = "mark" => Kind[cur] = "hashed"
    /\ step \in {"mark", "tidy"} => There(cur)

Emitted ==
    /\ step \in {"emit", "done"} => rest = {} /\ list = Entries
    /\ step = "done" => paths = Entries

StoreInv == StoreTypeOK /\ Phases /\ FetchedAreThere /\ CurrentOne /\ Emitted

-----------------------------------------------------------------------------
(* Lemmas about lock files and files *)

\* A lock file gives a version to some of the components.
LEMMA LockEntries ==
    ASSUME NEW l \in Locks
    PROVE  l # None /\ DOMAIN l \subseteq Comp /\ \A c \in DOMAIN l : l[c] \in Number
BY DEF Locks

LEMMA EntriesTyped ==
    ASSUME lf \in Locks \cup {None}
    PROVE  /\ Entries \in Locks
           /\ lf = None => DOMAIN Entries = {}
           /\ lf # None => Entries = lf
<1>1. [c \in {} |-> 1] \in [{} -> Number]
  OBVIOUS
<1>2. [c \in {} |-> 1] \in Locks
  BY <1>1 DEF Locks
<1> QED BY <1>2 DEF Entries

\* What an action leaves alone stays there.
LEMMA StaysThere ==
    ASSUME NEW c \in Comp, lf' = lf, tree'[c] = tree[c], There(c)
    PROVE  There(c)'
BY DEF There, Exact, Shipped

\* Writing one file of the current component leaves the others alone.
LEMMA OtherTrees ==
    ASSUME StoreTypeOK, NEW f, NEW x, tree' = [tree EXCEPT ![cur][f] = x]
    PROVE  /\ \A c \in Comp \ {cur} : tree'[c] = tree[c]
           /\ \A g \in Path \ {f} : tree'[cur][g] = tree[cur][g]
           /\ f \in Path => tree'[cur][f] = x
           /\ f \in Path /\ x \in Content => tree' \in [Comp -> [Path -> Content]]
BY DEF StoreTypeOK

LEMMA PublishedTyped ==
    ASSUME NEW v \in Number
    PROVE  /\ Shipped(v) \in [File -> Content]
           /\ Unmarked(Shipped(v)) \in [Path -> Content]
           /\ \A f \in File : Unmarked(Shipped(v))[f] = Shipped(v)[f]
BY DEF Shipped, Unmarked, Number, Content, Absent, Path

\* An action that moves on without touching tree, lock file in memory or
\* entries to come keeps what has been fetched.
LEMMA FetchedStays ==
    ASSUME StoreInv, lf' = lf, rest' = rest, cur' = cur,
           \A c \in Comp \ {cur} : tree'[c] = tree[c],
           step \in Fetching, step' \in Fetching
    PROVE  FetchedAreThere'
<1> SUFFICES ASSUME NEW c \in DOMAIN Entries' \ rest', c # cur
             PROVE  There(c)'
  BY DEF FetchedAreThere, Fetching, FromRegistry, FromGit
<1>1. Entries' = Entries
  BY DEF Entries
<1>2. c \in Comp /\ There(c)
  BY <1>1, EntriesTyped, LockEntries DEF StoreInv, StoreTypeOK, FetchedAreThere, Fetching, FromRegistry, FromGit
<1> QED BY <1>2, StaysThere

-----------------------------------------------------------------------------
(* Every action preserves the invariant *)

LEMMA InitStoreInv == StoreInit => StoreInv
<1> SUFFICES ASSUME StoreInit PROVE StoreInv
  OBVIOUS
<1>1. StoreTypeOK
  <2>1. 1 \in Number /\ 0 \in Content
    BY DEF Number, Content
  <2>2. zip \in [Comp -> Content \cup {Broken}]
    BY <2>1 DEF StoreInit, Absent
  <2>3. tree \in [Comp -> [Path -> Content]]
    BY <2>1 DEF StoreInit, Absent
  <2>4. wants \in Requirements
    BY DEF StoreInit
  <2>5. edits \in 0..MaxEdits /\ faults \in 0..MaxFaults
    BY BoundsAssumption DEF StoreInit
  <2>6. moved \in BOOLEAN
    BY Zenon DEF StoreInit
  <2> QED BY <2>1, <2>2, <2>3, <2>4, <2>5, <2>6 DEF StoreInit, StoreTypeOK
<1> QED BY <1>1 DEF StoreInit, StoreInv, Phases, FetchedAreThere, CurrentOne, Emitted,
           Fetching, FromRegistry, FromGit
LEMMA StepTyped ==
    ASSUME StoreInv, Step
    PROVE  StoreTypeOK'
<1> USE DEF StoreInv, At
<1>0. StoreTypeOK /\ (lf # None => lf \in Locks)
  BY DEF StoreTypeOK
<1>1. CASE LoadLock \/ NothingWanted \/ SaveLock \/ EmitList \/ EmitPaths
  <2>1. lf' \in Locks \cup {None} /\ Entries' \in Locks
    BY <1>1, EntriesTyped
       DEF StoreTypeOK, LoadLock, NothingWanted, SaveLock, EmitList, EmitPaths, memory, Entries
  <2>2. rest' \subseteq DOMAIN Entries'
    BY <1>1 DEF StoreTypeOK, Phases, LoadLock, NothingWanted, SaveLock, EmitList, EmitPaths, memory, Entries
  <2> QED
    BY <1>1, <2>1, <2>2, EntriesTyped
       DEF StoreTypeOK, Phases, LoadLock, NothingWanted, SaveLock, EmitList, EmitPaths,
           world, disk, memory, Looked
<1>2. CASE SolveAndSave
  <2>1. PICK D \in SUBSET Service : lf' \in [D -> 1..published]
    BY <1>2 DEF SolveAndSave
  <2>2. 1..published \subseteq Number /\ D \subseteq Comp
    BY DEF StoreTypeOK, Number, Service
  <2>3. lf' \in [D -> Number]
    BY <2>1, <2>2
  <2>4. lf' \in Locks
    BY <2>2, <2>3 DEF Locks
  <2>5. rest' = {}
    BY <1>2 DEF SolveAndSave, Phases
  <2> QED BY <1>2, <2>4, <2>5 DEF SolveAndSave, StoreTypeOK, world, disk, Looked
<1>3. CASE NextEntry
  <2>1. DOMAIN Entries \subseteq Comp
    BY EntriesTyped, LockEntries DEF StoreTypeOK
  <2>2. \A c \in Comp : Present(c) \subseteq Path
    BY DEF Present
  <2> QED BY <1>3, <2>1, <2>2 DEF NextEntry, StoreTypeOK, world, disk, Entries
<1>4. CASE Download
  <2>1. lf[cur] \in Number
    BY <1>4, <1>0, LockEntries DEF Download, Phases, Fetching, FromRegistry
  <2>2. {lf[cur], -lf[cur], Broken} \subseteq Content \cup {Broken}
    BY <2>1 DEF Number, Content
  <2>3. zip' \in [Comp -> Content \cup {Broken}]
    BY <1>4, <2>2 DEF Download, StoreTypeOK
  <2>4. faults' \in 0..MaxFaults
    BY <1>4 DEF Download, Fault, StoreTypeOK
  <2> QED BY <1>4, <2>3, <2>4 DEF Download, StoreTypeOK, Present, world, Entries
<1>5. CASE Remove
  <2>1. PICK f \in left : \/ tree' = [tree EXCEPT ![cur][f] = Absent] /\ UNCHANGED faults
                          \/ Fault /\ UNCHANGED tree
    BY <1>5 DEF Remove
  <2>2. Absent \in Content /\ f \in Path
    BY DEF Absent, Content, StoreTypeOK
  <2>3. tree' \in [Comp -> [Path -> Content]]
    BY <2>1, <2>2, OtherTrees DEF StoreTypeOK
  <2>4. faults' \in 0..MaxFaults
    BY <2>1 DEF Fault, StoreTypeOK
  <2>5. left' \subseteq Path
    BY <1>5 DEF Remove, StoreTypeOK
  <2> QED BY <1>5, <2>3, <2>4, <2>5 DEF Remove, StoreTypeOK, world, Entries
<1>6. CASE Wiped
  <2>1. lf[cur] \in Number
    BY <1>6, <1>0, LockEntries DEF Wiped, Phases, Fetching, FromRegistry
  <2>2. Ships[lf[cur]] \subseteq Path
    BY <2>1 DEF Path
  <2> QED BY <1>6, <2>2 DEF Wiped, StoreTypeOK, world, disk, Entries
<1>7. CASE Extract
  <2>1. PICK f \in left : tree' = [tree EXCEPT ![cur][f] = zip[cur]]
    BY <1>7 DEF Extract
  <2>2. lf[cur] \in Number
    BY <1>7, <1>0, LockEntries DEF Extract, Phases, Fetching, FromRegistry
  <2>3. zip[cur] \in Content
    BY <1>7, <2>2 DEF Extract, CurrentOne, Content, Number
  <2>4. tree' \in [Comp -> [Path -> Content]]
    BY <2>1, <2>3, OtherTrees DEF StoreTypeOK
  <2> QED BY <1>7, <2>4 DEF Extract, StoreTypeOK, world, Entries
<1>8. CASE Verify
  BY <1>8 DEF Verify, StoreTypeOK, Present, world, disk, Entries
<1>9. CASE Mark
  <2>1. lf[cur] \in Content /\ "marker" \in Path
    BY <1>9, <1>0, LockEntries DEF Mark, Phases, Fetching, FromRegistry, Number, Content, Path
  <2>2. tree' \in [Comp -> [Path -> Content]]
    BY <1>9, <2>1, OtherTrees DEF Mark, StoreTypeOK
  <2>3. faults' \in 0..MaxFaults
    BY <1>9 DEF Mark, Fault, StoreTypeOK
  <2> QED BY <1>9, <2>2, <2>3 DEF Mark, StoreTypeOK, world, memory, Entries
<1>10. CASE Tidy \/ Refused
  <2>1. Absent \in Content
    BY DEF Absent, Content
  <2>2. zip' \in [Comp -> Content \cup {Broken}]
    BY <1>10, <2>1 DEF Tidy, Refused, StoreTypeOK
  <2> QED BY <1>10, <2>2 DEF Tidy, Refused, StoreTypeOK, world, memory, Entries
<1>11. CASE Clone \/ Checkout
  <2>1. published \in Number /\ lf[cur] \in Number
    BY <1>11, <1>0, LockEntries DEF Clone, Checkout, Phases, Fetching, FromGit, StoreTypeOK
  <2>2. tree' \in [Comp -> [Path -> Content]]
    BY <1>11, <2>1, PublishedTyped DEF Clone, Checkout, StoreTypeOK
  <2> QED BY <1>11, <2>2 DEF Clone, Checkout, StoreTypeOK, world, memory, Entries
<1> QED BY <1>1, <1>2, <1>3, <1>4, <1>5, <1>6, <1>7, <1>8, <1>9, <1>10, <1>11 DEF Step

LEMMA NextTyped ==
    ASSUME StoreInv, [StoreNext]_storeVars
    PROVE  StoreTypeOK'
<1> USE DEF StoreInv
<1>1. CASE Start
  BY <1>1 DEF Start, StoreTypeOK, world, disk, Looked
<1>2. CASE Fails
  <2>1. Absent \in Content
    BY DEF Absent, Content
  <2>2. zip' \in [Comp -> Content \cup {Broken}]
    BY <1>2, <2>1 DEF Fails, StoreTypeOK
  <2>3. faults' \in 0..MaxFaults
    BY <1>2 DEF Fails, Fault, StoreTypeOK
  <2> QED BY <1>2, <2>2, <2>3 DEF Fails, StoreTypeOK, world, memory, Entries
<1>3. CASE GitFails
  <2>1. PICK t \in [File -> {Absent, published, lf[cur]}] :
            tree' = [tree EXCEPT ![cur] = Unmarked(t)]
    BY <1>3 DEF GitFails
  <2>2. lf[cur] \in Number
    BY <1>3, LockEntries DEF GitFails, Phases, Fetching, FromGit, StoreTypeOK
  <2>6. published \in Content /\ lf[cur] \in Content /\ Absent \in Content
    BY <2>2 DEF StoreTypeOK, Number, Content, Absent
  <2>7. t \in [File -> Content]
    BY <2>1, <2>6
  <2>3. Unmarked(t) \in [Path -> Content]
    BY <2>6, <2>7 DEF Unmarked, Path
  <2>4. tree' \in [Comp -> [Path -> Content]]
    BY <2>1, <2>3 DEF StoreTypeOK
  <2>5. faults' \in 0..MaxFaults
    BY <1>3 DEF GitFails, Fault, StoreTypeOK
  <2> QED BY <1>3, <2>4, <2>5 DEF GitFails, StoreTypeOK, world, memory, Entries
<1>4. CASE Publish
  BY <1>4 DEF Publish, StoreTypeOK, disk, memory, Number, Entries
<1>5. CASE EditManifests
  BY <1>5 DEF EditManifests, Edit, StoreTypeOK, disk, memory, Entries
<1>6. CASE EditLock
  BY <1>6 DEF EditLock, Edit, StoreTypeOK, memory, Entries
<1>7. CASE UNCHANGED storeVars
  BY <1>7 DEF storeVars, world, disk, memory, StoreTypeOK, Entries
<1> QED BY <1>1, <1>2, <1>3, <1>4, <1>5, <1>6, <1>7, StepTyped DEF StoreNext
\* Loading or making the lock file: all entries are to come.
LEMMA LoadKeeps ==
    ASSUME StoreInv, LoadLock \/ SolveAndSave \/ NothingWanted \/ SaveLock
    PROVE  StoreInv'
<1>1. StoreTypeOK'
  BY StepTyped DEF Step
<1>2. Phases'
  <2>1. CASE SolveAndSave
    <3>1. lf' # None
      <4>1. PICK D \in SUBSET Service : lf' \in [D -> 1..published]
        BY <2>1 DEF SolveAndSave
      <4>2. lf' \in [D -> Number]
        BY <4>1 DEF StoreInv, StoreTypeOK, Number
      <4>3. lf' \in Locks
        BY <4>2 DEF Locks, Service
      <4> QED BY <4>3
    <3> QED BY <2>1, <3>1 DEF SolveAndSave, At, Phases, Fetching, FromRegistry, FromGit
  <2>2. CASE LoadLock \/ NothingWanted \/ SaveLock
    BY <2>2 DEF LoadLock, NothingWanted, SaveLock, At, Phases, Fetching, FromRegistry, FromGit
  <2> QED BY <2>1, <2>2
<1>3. FetchedAreThere'
  BY DEF StoreInv, Phases, FetchedAreThere, LoadLock, SolveAndSave, NothingWanted, SaveLock, At, memory,
         Entries, Fetching, FromRegistry, FromGit
<1>4. CurrentOne' /\ Emitted'
  BY DEF CurrentOne, Emitted, LoadLock, SolveAndSave, NothingWanted, SaveLock, At
<1> QED BY <1>1, <1>2, <1>3, <1>4 DEF StoreInv

\* Turning to the next entry.
LEMMA NextEntryKeeps ==
    ASSUME StoreInv, NextEntry
    PROVE  StoreInv'
<1>1. StoreTypeOK'
  BY StepTyped DEF Step
<1>2. PICK c \in rest : /\ rest' = rest \ {c} /\ cur' = c
                        /\ step' = IF Kind[c] = "git" THEN "wipe" ELSE "download"
  BY DEF NextEntry
<1>3. lf' = lf /\ Entries' = Entries /\ tree' = tree /\ lf # None /\ Entries = lf
  BY EntriesTyped DEF NextEntry, disk, Entries, StoreInv, StoreTypeOK
<1>4. Phases'
  BY <1>2, <1>3 DEF StoreInv, StoreTypeOK, Phases, Fetching, FromRegistry, FromGit
<1>5. FetchedAreThere'
  <2> SUFFICES ASSUME NEW d \in DOMAIN Entries \ rest, d # c
               PROVE  There(d)'
    BY <1>2, <1>3 DEF FetchedAreThere, Fetching, FromRegistry, FromGit
  <2>1. There(d)
    BY DEF StoreInv, FetchedAreThere, NextEntry, Fetching, FromRegistry, FromGit
  <2>2. d \in Comp
    BY EntriesTyped, LockEntries DEF StoreInv, StoreTypeOK
  <2> QED BY <2>1, <2>2, <1>3, StaysThere
<1>6. CurrentOne' /\ Emitted'
  BY <1>2, <1>3 DEF CurrentOne, Emitted
<1> QED BY <1>1, <1>4, <1>5, <1>6 DEF StoreInv

\* Making room, and bringing files in.
LEMMA FetchKeeps ==
    ASSUME StoreInv, Download \/ Remove \/ Wiped \/ Extract \/ Verify \/ Mark
    PROVE  StoreInv'
<1> USE DEF StoreInv, At
<1>1. StoreTypeOK'
  BY StepTyped DEF Step
<1>2. /\ step \in Fetching /\ step' \in Fetching
      /\ lf' = lf /\ rest' = rest /\ cur' = cur
  BY DEF Download, Remove, Wiped, Extract, Verify, Mark, memory, Fetching, FromRegistry, FromGit
<1>3. /\ lf \in Locks /\ cur \in DOMAIN lf \ rest /\ lf[cur] \in Number
      /\ cur \in Comp /\ Ships[lf[cur]] \subseteq File
  BY <1>2, LockEntries DEF Phases, StoreTypeOK
<1>4. \A c \in Comp \ {cur} : tree'[c] = tree[c]
  BY OtherTrees DEF Download, Remove, Wiped, Extract, Verify, Mark, disk
<1>5. FetchedAreThere'
  BY <1>2, <1>4, FetchedStays
<1>6. Phases'
  BY <1>2, <1>3 DEF Phases, Download, Remove, Wiped, Extract, Verify, Mark, Fetching, FromRegistry, FromGit
<1>7. Emitted'
  BY <1>2 DEF Emitted, Fetching, FromRegistry, FromGit
<1>8. CurrentOne'
  <2>1. CASE Download
    BY <2>1, <1>2, <1>3 DEF Download, CurrentOne, StoreTypeOK
  <2>2. CASE Remove
    BY <2>2, <1>2 DEF Remove, CurrentOne
  <2>3. CASE Wiped
    BY <2>3, <1>2, <1>3 DEF Wiped, CurrentOne, disk
  <2>4. CASE Extract
    <3>1. PICK f \in left : /\ left' = left \ {f}
                            /\ tree' = [tree EXCEPT ![cur][f] = zip[cur]]
      BY <2>4 DEF Extract
    <3>2. f \in Path /\ step = "extract" /\ step' = "extract" /\ zip' = zip
      BY <2>4 DEF Extract, StoreTypeOK
    <3>3. tree'[cur][f] = zip[cur] /\ \A g \in Path \ {f} : tree'[cur][g] = tree[cur][g]
      BY <3>1, <3>2, OtherTrees
    <3>4. \A g \in Ships[lf[cur]] \ left' : tree'[cur][g] \in {lf[cur], -lf[cur]}
      BY <3>1, <3>2, <3>3, <1>3 DEF CurrentOne, Path
    <3> QED BY <3>1, <3>2, <3>4, <1>2 DEF CurrentOne
  <2>5. CASE Verify
    <3>1. tree' = tree
      BY <2>5 DEF Verify, disk
    <3>2. step' \in {"mark", "tidy"} => There(cur)
      BY <2>5, <1>3 DEF Verify, CurrentOne, There
    <3>3. step' = "mark" => Kind[cur] = "hashed"
      BY <2>5, <1>3 DEF Verify, Phases, FromRegistry
    <3>4. step' \in {"mark", "tidy"} => There(cur)'
      BY <3>1, <3>2, <1>2, <1>3, StaysThere
    <3> QED BY <2>5, <1>2, <3>3, <3>4 DEF Verify, CurrentOne
  <2>6. CASE Mark
    <3>1. \A g \in File : tree'[cur][g] = tree[cur][g]
      BY <2>6, OtherTrees DEF Mark, Path
    <3>2. There(cur) /\ Kind[cur] = "hashed"
      BY <2>6 DEF Mark, CurrentOne
    <3>3. There(cur)'
      BY <3>1, <3>2, <1>2 DEF There, Exact, Shipped
    <3> QED BY <2>6, <3>3, <1>2 DEF Mark, CurrentOne
  <2> QED BY <2>1, <2>2, <2>3, <2>4, <2>5, <2>6
<1> QED BY <1>1, <1>5, <1>6, <1>7, <1>8

\* Clones, and the end of a fetch.
LEMMA FetchedKeeps ==
    ASSUME StoreInv, Tidy \/ Clone \/ Checkout
    PROVE  StoreInv'
<1> USE DEF StoreInv, At
<1>1. StoreTypeOK'
  BY StepTyped DEF Step
<1>2. lf' = lf /\ rest' = rest /\ cur' = cur /\ Entries' = Entries
  BY DEF Tidy, Clone, Checkout, memory, Entries
<1>3. /\ step \in Fetching /\ lf \in Locks /\ Entries = lf
      /\ cur \in DOMAIN lf \ rest /\ lf[cur] \in Number /\ cur \in Comp
  BY EntriesTyped, LockEntries
     DEF Tidy, Clone, Checkout, Phases, StoreTypeOK, Fetching, FromRegistry, FromGit
<1>4. \A c \in Comp \ {cur} : tree'[c] = tree[c]
  BY DEF Tidy, Clone, Checkout, StoreTypeOK
<1>5. step' = "next" => There(cur)'
  <2>1. CASE Tidy
    BY <2>1, <1>2, <1>3, StaysThere DEF Tidy, CurrentOne
  <2>2. CASE Checkout
    <3>1. tree'[cur] = Unmarked(Shipped(lf[cur])) /\ Kind[cur] = "git"
      BY <2>2, <1>3 DEF Checkout, StoreTypeOK, Phases, FromGit
    <3> QED BY <3>1, <1>2, <1>3, PublishedTyped DEF There, Exact, Shipped
  <2> QED BY <2>1, <2>2 DEF Tidy, Clone, Checkout
<1>6. FetchedAreThere'
  <2> SUFFICES ASSUME NEW d \in DOMAIN Entries \ rest, d # cur
               PROVE  There(d)'
    BY <1>2, <1>5 DEF Tidy, Clone, Checkout, FetchedAreThere, Fetching, FromRegistry, FromGit
  <2>1. There(d) /\ d \in Comp
    BY <1>3, LockEntries DEF FetchedAreThere
  <2> QED BY <2>1, <1>2, <1>4, StaysThere
<1>7. Phases'
  BY <1>2, <1>3 DEF Tidy, Clone, Checkout, Phases, Fetching, FromRegistry, FromGit
<1>8. CurrentOne' /\ Emitted'
  BY DEF Tidy, Clone, Checkout, CurrentOne, Emitted
<1> QED BY <1>1, <1>6, <1>7, <1>8

\* The lists are made when nothing is to come.
LEMMA EmitKeeps ==
    ASSUME StoreInv, EmitList \/ EmitPaths
    PROVE  StoreInv'
<1> USE DEF StoreInv, At
<1>1. StoreTypeOK'
  BY StepTyped DEF Step
<1>2. Phases' /\ CurrentOne'
  BY DEF EmitList, EmitPaths, Phases, CurrentOne, Fetching, FromRegistry, FromGit
<1>3. lf' = lf /\ rest' = rest /\ Entries' = Entries /\ tree' = tree
  BY DEF EmitList, EmitPaths, memory, Entries
<1>4. Emitted'
  BY <1>3 DEF EmitList, EmitPaths, Emitted
<1>5. FetchedAreThere'
  <2> SUFFICES ASSUME NEW d \in DOMAIN Entries \ rest
               PROVE  There(d)'
    BY <1>3 DEF FetchedAreThere
  <2>1. There(d) /\ d \in Comp
    BY EntriesTyped, LockEntries
       DEF EmitList, EmitPaths, FetchedAreThere, Fetching, FromRegistry, FromGit, StoreTypeOK
  <2> QED BY <2>1, <1>3, StaysThere
<1> QED BY <1>1, <1>2, <1>4, <1>5

\* A run that ends early promises nothing; a new one starts from nothing.
LEMMA EndKeeps ==
    ASSUME StoreInv, Start \/ Refused \/ Fails \/ GitFails
    PROVE  StoreInv'
<1>1. StoreTypeOK'
  BY NextTyped DEF StoreNext, Step
<1>2. Phases' /\ CurrentOne' /\ Emitted' /\ FetchedAreThere'
  BY DEF Start, Refused, Fails, GitFails, Phases, CurrentOne, Emitted, FetchedAreThere,
         Fetching, FromRegistry, FromGit
<1> QED BY <1>1, <1>2 DEF StoreInv

\* What happens around prepare changes nothing it relies on.
LEMMA OutsideKeeps ==
    ASSUME StoreInv, Publish \/ EditManifests \/ EditLock \/ UNCHANGED storeVars
    PROVE  StoreInv'
<1>1. StoreTypeOK'
  BY NextTyped DEF StoreNext
<1>2. /\ UNCHANGED <<step, memory, tree, list, paths, zip>>
      /\ Entries' = Entries
  BY DEF Publish, EditManifests, EditLock, storeVars, disk, memory, Entries
<1>3. \A c : There(c)' = There(c)
  BY <1>2 DEF There, Exact, Shipped, memory
<1>4. Phases' /\ CurrentOne' /\ Emitted'
  BY <1>2, <1>3 DEF StoreInv, Phases, CurrentOne, Emitted, memory
<1>5. FetchedAreThere'
  BY <1>2, <1>3 DEF StoreInv, FetchedAreThere, memory
<1> QED BY <1>1, <1>4, <1>5 DEF StoreInv

LEMMA NextKeeps == StoreInv /\ [StoreNext]_storeVars => StoreInv'
BY LoadKeeps, NextEntryKeeps, FetchKeeps, FetchedKeeps, EmitKeeps, EndKeeps, OutsideKeeps
   DEF StoreNext, Step

LEMMA StoreInvHolds == StoreSpec => []StoreInv
BY InitStoreInv, NextKeeps, PTL DEF StoreSpec

-----------------------------------------------------------------------------
(* Theorems *)

\* Every reachable state is well typed.
THEOREM StoreTyping == StoreSpec => []StoreTypeOK
<1>1. StoreInv => StoreTypeOK
  BY DEF StoreInv
<1> QED BY <1>1, StoreInvHolds, PTL

\* When prepare succeeds, what it lists is what is locked, and it is there, as
\* it was published: whatever earlier runs left behind, however many faults
\* there were, whichever archives were served.
THEOREM SuccessMeansThere == StoreSpec => []ListedIsThere
<1>1. StoreInv => ListedIsThere
  BY DEF StoreInv, FetchedAreThere, Emitted, ListedIsThere, There, Fetching, FromRegistry, FromGit
<1> QED BY <1>1, StoreInvHolds, PTL

\* What prepare holds is what the lock file says, or there was none, unless
\* somebody has edited it since prepare looked.
LockInStep ==
    ~moved => /\ step = "save" => lock = None
              /\ step \notin {"off", "load", "save"} => lf = lock

\* An existing dependencies.lock pins the versions: for any components,
\* versions, faults and edits at any step.
THEOREM LockPins == StoreSpec => PinHolds
<1> DEFINE Kept == /\ lock # None /\ lock' # lock /\ edits' = edits => step = "save" /\ moved
                   /\ step' \notin {"off", "load", "save"} /\ ~moved' => lf' = lock'
<1>1. StoreInit => LockInStep
  BY DEF StoreInit, LockInStep
<1>2. ASSUME StoreInv, LockInStep, [StoreNext]_storeVars
      PROVE  LockInStep' /\ (Kept \/ UNCHANGED storeVars)
  <2> USE DEF LockInStep, world, disk, memory, At, Looked
  <2>1. CASE UNCHANGED storeVars
    BY <1>2, <2>1 DEF storeVars
  <2>2. CASE Start \/ LoadLock \/ SolveAndSave \/ NothingWanted
    BY <1>2, <2>2 DEF Start, LoadLock, SolveAndSave, NothingWanted, StoreInv, Phases
  <2>3. CASE SaveLock
    BY <1>2, <2>3 DEF SaveLock
  <2>4. CASE \/ NextEntry \/ Download \/ Remove \/ Wiped \/ Extract \/ Verify \/ Mark \/ Tidy
             \/ Clone \/ Checkout \/ EmitList \/ EmitPaths \/ Refused \/ Fails \/ GitFails
    <3>1. /\ lock' = lock /\ lf' = lf /\ moved' = moved
          /\ step' \notin {"off", "load", "save"} => step \notin {"off", "load", "save"}
          /\ step' # "save"
      BY <2>4 DEF NextEntry, Download, Remove, Wiped, Extract, Verify, Mark, Tidy, Clone, Checkout,
             EmitList, EmitPaths, Refused, Fails, GitFails
    <3> QED BY <1>2, <3>1
  <2>5. CASE Publish \/ EditManifests
    BY <1>2, <2>5 DEF Publish, EditManifests
  <2>6. CASE EditLock
    <3>1. edits' # edits
      BY <2>6 DEF EditLock, Edit, StoreTypeOK, StoreInv
    <3> QED BY <2>6, <3>1 DEF EditLock
  <2> QED BY <1>2, <2>1, <2>2, <2>3, <2>4, <2>5, <2>6 DEF StoreNext, Step
<1>3. LockInStep /\ StoreInv /\ [StoreNext]_storeVars => LockInStep'
  BY <1>2
<1>4. LockInStep /\ StoreInv /\ [StoreNext]_storeVars => [Kept]_storeVars
  BY <1>2
<1> QED BY <1>1, <1>3, <1>4, StoreInvHolds, PTL DEF StoreSpec, PinHolds
=============================================================================
