-------------------------- MODULE BuildInputProofs --------------------------
(***************************************************************************)
(* Proofs about what a build is made of, for every input: the caret of     *)
(* menuconfig's lists (MenuList), for every tree, every terminal and any   *)
(* number of keys; partition tables (PartitionTable), for every table that *)
(* is accepted; the dependency files of the compiler wrapper (ConfigDep),  *)
(* for any paths however their lines are broken.                           *)
(***************************************************************************)
EXTENDS MenuList, MCPartitionTable, ConfigDep, WellFoundedInduction, SequenceTheorems, TLAPS

-----------------------------------------------------------------------------
(* Induction and recursion *)

\* A relation that makes the order of the naturals well-founded.
LEMMA NatOrder ==
    \E R : /\ IsWellFoundedOn(R, Nat)
           /\ \A x, y \in Nat : x < y => <<x, y>> \in R
<1>1. \A x, y \in Nat : x < y => <<x, y>> \in OpToRel(<, Nat)
      BY DEF OpToRel
<1> QED BY <1>1, NatLessThanWellFounded

\* Of numbers there is a least.
LEMMA HasLeast ==
    ASSUME NEW S \in SUBSET Nat, S # {}
    PROVE  \E x \in S : \A y \in S : x <= y
<1>1. PICK R : /\ IsWellFoundedOn(R, Nat)
               /\ \A x, y \in Nat : x < y => <<x, y>> \in R
      BY NatOrder
<1>0. IsWellFoundedOn(R, Nat) /\ S \subseteq Nat /\ S # {}
      BY <1>1
<1>2. PICK x \in S : \A y \in S : ~ (<<y, x>> \in R)
      BY ONLY <1>0, WFMin
<1>3. \A y \in S : ~ (y < x)
      BY <1>1, <1>2
<1> QED BY <1>2, <1>3

\* What follows for everything of a rank from what is so below, is so.
LEMMA Ranked ==
    ASSUME NEW D, NEW r \in [D -> Nat], NEW T,
           \A x \in D : (\A y \in D : r[y] < r[x] => y \in T) => x \in T
    PROVE  \A x \in D : x \in T
<1> DEFINE U == {r[x] : x \in D \ T}
<1> SUFFICES ASSUME NEW z \in D \ T PROVE FALSE
    OBVIOUS
<1>1. U \in SUBSET Nat /\ U # {}
      OBVIOUS
<1>2. PICK u \in U : \A v \in U : u <= v
      BY <1>1, HasLeast
<1>3. PICK x \in D \ T : u = r[x]
      OBVIOUS
<1>4. PICK y \in D : r[y] < r[x] /\ y \notin T
      BY <1>3
<1>5. r[y] \in U /\ r[x] \in Nat /\ r[y] \in Nat
      BY <1>4
<1>6. u <= r[y] /\ u = r[x]
      BY <1>2, <1>3, <1>5
<1> QED BY <1>4, <1>5, <1>6

\* G computes a function point by point, each from those of a lower rank.
Descends(G, D, S, r, n) ==
    /\ n \in Nat /\ r \in [D -> Nat] /\ \A x \in D : r[x] <= n
    /\ S # {} /\ G \in [[D -> S] -> [D -> S]]
    /\ \A f, h \in [D -> S] : \A x \in D :
          (\A y \in D : r[y] < r[x] => f[y] = h[y]) => G[f][x] = G[h][x]

\* A recursion that descends has a solution.
LEMMA Recursion ==
    ASSUME NEW G, NEW D, NEW S, NEW r, NEW n, Descends(G, D, S, r, n)
    PROVE  \E f \in [D -> S] : G[f] = f
<1> USE DEF Descends
<1> PICK a \in S : TRUE
    OBVIOUS
<1> DEFINE Solves(f, d) == \A x \in D : r[x] < d => G[f][x] = f[x]
<1> DEFINE T == {d \in Nat : \E f \in [D -> S] : Solves(f, d)}
<1>1. 0 \in T
  <2>1. [x \in D |-> a] \in [D -> S]
        OBVIOUS
  <2>2. \A x \in D : ~(r[x] < 0)
        OBVIOUS
  <2> QED BY <2>1, <2>2
<1>2. ASSUME NEW d \in Nat, d \in T PROVE d + 1 \in T
  <2>1. PICK f \in [D -> S] : Solves(f, d)
        BY <1>2
  <2>2. G[f] \in [D -> S]
        OBVIOUS
  <2>3. Solves(G[f], d + 1)
    <3> SUFFICES ASSUME NEW x \in D, r[x] < d + 1 PROVE G[G[f]][x] = G[f][x]
        OBVIOUS
    <3>1. ASSUME NEW y \in D, r[y] < r[x] PROVE G[f][y] = f[y]
      <4>1. r[y] \in Nat /\ r[x] \in Nat
            OBVIOUS
      <4>2. r[y] < d
            BY <3>1, <4>1
      <4> QED BY <2>1, <4>2
    <3> QED BY <2>2, <3>1
  <2> QED BY <2>2, <2>3
<1> HIDE DEF T
<1>3. \A d \in Nat : d \in T
  <2> DEFINE id == [m \in Nat |-> m]
  <2>1. ASSUME NEW d \in Nat, \A e \in Nat : id[e] < id[d] => e \in T
        PROVE  d \in T
    <3>1. CASE d = 0
          BY <1>1, <3>1
    <3>2. CASE d # 0
      <4>1. d - 1 \in Nat /\ d - 1 < d /\ (d - 1) + 1 = d
            BY <3>2
      <4> QED BY <1>2, <2>1, <4>1
    <3> QED BY <3>1, <3>2
  <2>2. id \in [Nat -> Nat]
        OBVIOUS
  <2> HIDE DEF id
  <2> QED BY <2>1, <2>2, Ranked
<1>4. PICK f \in [D -> S] : Solves(f, n + 1)
      BY <1>3 DEF T
<1>5. \A x \in D : G[f][x] = f[x]
      BY <1>4
<1>6. G[f] \in [D -> S]
      OBVIOUS
<1> QED BY <1>5, <1>6

\* h goes from a, step by step as g says.
Follows(h, a, g, n) == h[0] = a /\ \A i \in 1..n : h[i] = g[<<h[i-1], i>>]

\* A sequence of steps, each from the one before.
LEMMA Steps ==
    ASSUME NEW n \in Nat, NEW S, NEW a \in S, NEW g \in [S \X (1..n) -> S]
    PROVE  \E h \in [0..n -> S] : Follows(h, a, g, n)
<1> DEFINE D == 0..n
           Fun == [D -> S]
           F(f) == [i \in D |-> IF i = 0 THEN a ELSE g[<<f[i-1], i>>]]
           G == [f \in Fun |-> F(f)]
           r == [i \in D |-> i]
<1>1. \A i \in D : i # 0 => i - 1 \in D /\ i \in 1..n /\ i - 1 < i
      OBVIOUS
<1>2. ASSUME NEW f \in Fun PROVE F(f) \in Fun
  <2>1. ASSUME NEW i \in D PROVE (IF i = 0 THEN a ELSE g[<<f[i-1], i>>]) \in S
    <3>1. CASE i = 0
          BY <3>1
    <3>2. CASE i # 0
          BY <1>1, <3>2
    <3> QED BY <3>1, <3>2
  <2> QED BY <2>1
<1>3. G \in [Fun -> Fun]
      BY <1>2
<1>4. \A f \in Fun, i \in D : G[f][i] = IF i = 0 THEN a ELSE g[<<f[i-1], i>>]
      OBVIOUS
<1>5. r \in [D -> Nat] /\ S # {} /\ \A i \in D : r[i] = i /\ r[i] <= n
      OBVIOUS
<1> HIDE DEF G, r
<1>6. \A f, h \in Fun : \A i \in D :
         (\A j \in D : r[j] < r[i] => f[j] = h[j]) => G[f][i] = G[h][i]
  <2> SUFFICES ASSUME NEW f \in Fun, NEW h \in Fun, NEW i \in D,
                      \A j \in D : r[j] < r[i] => f[j] = h[j]
               PROVE  G[f][i] = G[h][i]
      OBVIOUS
  <2>1. i # 0 => f[i-1] = h[i-1]
        BY <1>1, <1>5
  <2> QED BY <1>4, <2>1
<1> HIDE DEF D
<1>7. Descends(G, D, S, r, n)
      BY <1>3, <1>5, <1>6 DEF Descends
<1>8. PICK h \in Fun : G[h] = h
      BY ONLY <1>7, Recursion
<1>9. h = F(h)
      BY <1>8 DEF G
<1>10. h \in [0..n -> S] /\ h[0] = a /\ \A i \in 1..n : h[i] = g[<<h[i-1], i>>]
      BY <1>8, <1>9 DEF D
<1> QED BY <1>10 DEF Follows

\* What is so at first and stays so from one to the next.
LEMMA UpToN ==
    ASSUME NEW n \in Nat, NEW T, 0 \in T,
           \A i \in 1..n : i - 1 \in T => i \in T
    PROVE  \A i \in 0..n : i \in T
<1> DEFINE D == 0..n
           r == [i \in D |-> i]
<1>1. r \in [D -> Nat] /\ \A i \in D : r[i] = i
      OBVIOUS
<1>2. ASSUME NEW i \in D, \A j \in D : r[j] < r[i] => j \in T PROVE i \in T
  <2>1. CASE i = 0
        BY <2>1
  <2>2. CASE i # 0
    <3>1. i \in 1..n /\ i - 1 \in D /\ i - 1 < i
          BY <2>2
    <3> QED BY <1>1, <1>2, <3>1
  <2> QED BY <2>1, <2>2
<1> HIDE DEF D, r
<1>3. \A i \in D : i \in T
      BY <1>1, <1>2, Ranked
<1> QED BY <1>3 DEF D

-----------------------------------------------------------------------------
(* Sequences *)

In(e, s) == \E i \in DOMAIN s : s[i] = e

LEMMA Joined ==
    ASSUME NEW S, NEW s \in Seq(S), NEW t \in Seq(S)
    PROVE  s \o t \in Seq(S) /\ \A e : In(e, s \o t) <=> In(e, s) \/ In(e, t)
<1>1. /\ s \o t \in Seq(S)
      /\ Len(s \o t) = Len(s) + Len(t)
      /\ Len(s) \in Nat /\ Len(t) \in Nat
      /\ DOMAIN s = 1..Len(s) /\ DOMAIN t = 1..Len(t) /\ DOMAIN (s \o t) = 1..(Len(s) + Len(t))
      OBVIOUS
<1>2. \A i \in 1..Len(s) : (s \o t)[i] = s[i]
      OBVIOUS
<1>3. \A i \in 1..Len(t) : (s \o t)[Len(s) + i] = t[i] /\ Len(s) + i \in 1..(Len(s) + Len(t))
      OBVIOUS
<1>4. \A i \in 1..(Len(s) + Len(t)) :
         i \in 1..Len(s) \/ (i - Len(s) \in 1..Len(t) /\ Len(s) + (i - Len(s)) = i)
      BY <1>1
<1>5. SUFFICES ASSUME NEW e PROVE In(e, s \o t) <=> In(e, s) \/ In(e, t)
      BY <1>1
<1>6. ASSUME In(e, s \o t) PROVE In(e, s) \/ In(e, t)
  <2>1. PICK i \in 1..(Len(s) + Len(t)) : (s \o t)[i] = e
        BY <1>1, <1>6 DEF In
  <2>2. CASE i \in 1..Len(s)
        BY <1>1, <1>2, <2>1, <2>2 DEF In
  <2>3. CASE i - Len(s) \in 1..Len(t) /\ Len(s) + (i - Len(s)) = i
    <3>1. t[i - Len(s)] = e
          BY <1>3, <2>1, <2>3
    <3> QED BY <1>1, <2>3, <3>1 DEF In
  <2> QED BY <1>4, <2>2, <2>3
<1>7. ASSUME In(e, s) PROVE In(e, s \o t)
  <2>1. PICK i \in 1..Len(s) : s[i] = e
        BY <1>1, <1>7 DEF In
  <2>2. i \in 1..(Len(s) + Len(t))
        BY <1>1
  <2> QED BY <1>1, <1>2, <2>1, <2>2 DEF In
<1>8. ASSUME In(e, t) PROVE In(e, s \o t)
  <2>1. PICK i \in 1..Len(t) : t[i] = e
        BY <1>1, <1>8 DEF In
  <2> QED BY <1>1, <1>3, <2>1 DEF In
<1> QED BY <1>6, <1>7, <1>8

\* The sequences FlattenSeq goes through.
LEMMA FlattenedFrom ==
    ASSUME NEW S, NEW ss \in Seq(Seq(S)), ss # <<>>
    PROVE  \E f \in [1..Len(ss) -> Seq(S)] :
              /\ FlattenSeq(ss) = f[Len(ss)]
              /\ \A i \in 1..Len(ss) : f[i] = IF i = 1 THEN ss[i] ELSE f[i-1] \o ss[i]
<1> DEFINE n == Len(ss)
<1>1. n \in Nat /\ n # 0 /\ DOMAIN ss = 1..n /\ \A i \in 1..n : ss[i] \in Seq(S)
      OBVIOUS
<1>2. FlattenSeq(ss) = LET flatten[i \in 1..n] == IF i = 1 THEN ss[i] ELSE flatten[i-1] \o ss[i]
                       IN  flatten[n]
      BY <1>1 DEF FlattenSeq
<1> HIDE DEF n
<1> DEFINE D == 1..n
           flatten[i \in D] == IF i = 1 THEN ss[i] ELSE flatten[i-1] \o ss[i]
<1>3. FlattenSeq(ss) = flatten[n]
      BY <1>2
<1>4. flatten = [i \in D |-> IF i = 1 THEN ss[i] ELSE flatten[i-1] \o ss[i]]
  <2> DEFINE F(f) == [i \in D |-> IF i = 1 THEN ss[i] ELSE f[i-1] \o ss[i]]
  <2> DEFINE Fun == [D -> Seq(S)]
  <2> DEFINE G == [f \in Fun |-> F(f)]
  <2> DEFINE r == [i \in D |-> i]
  <2>1. ASSUME NEW f \in Fun PROVE F(f) \in Fun
    <3>1. ASSUME NEW i \in D PROVE (IF i = 1 THEN ss[i] ELSE f[i-1] \o ss[i]) \in Seq(S)
      <4>1. CASE i = 1
            BY <1>1, <4>1
      <4>2. CASE i # 1
        <5>1. i - 1 \in D
              BY <1>1, <4>2
        <5>2. f[i-1] \in Seq(S) /\ ss[i] \in Seq(S)
              BY <1>1, <5>1
        <5>3. f[i-1] \o ss[i] \in Seq(S)
              BY <5>2, Joined
        <5> QED BY <4>2, <5>3
      <4> QED BY <4>1, <4>2
    <3> QED BY <3>1
  <2>2. G \in [Fun -> Fun]
        BY <2>1
  <2>3. \A f \in Fun, i \in D : G[f][i] = IF i = 1 THEN ss[i] ELSE f[i-1] \o ss[i]
        OBVIOUS
  <2>4. r \in [D -> Nat] /\ <<>> \in Seq(S) /\ \A x \in D : r[x] <= n
        BY <1>1
  <2> HIDE DEF G
  <2>5. \A f, h \in Fun : \A i \in D :
           (\A j \in D : r[j] < r[i] => f[j] = h[j]) => G[f][i] = G[h][i]
    <3> SUFFICES ASSUME NEW f \in Fun, NEW h \in Fun, NEW i \in D,
                        \A j \in D : r[j] < r[i] => f[j] = h[j]
                 PROVE  G[f][i] = G[h][i]
        OBVIOUS
    <3>1. i # 1 => i - 1 \in D /\ r[i-1] < r[i]
          BY <1>1
    <3>2. i # 1 => f[i-1] = h[i-1]
          BY <3>1
    <3>3. CASE i = 1
          BY <2>3, <3>3
    <3>4. CASE i # 1
      <4>1. G[f][i] = f[i-1] \o ss[i] /\ G[h][i] = h[i-1] \o ss[i]
            BY <2>3, <3>4
      <4> QED BY <3>2, <3>4, <4>1
    <3> QED BY <3>3, <3>4
  <2>6. Descends(G, D, Seq(S), r, n)
        BY <1>1, <2>2, <2>4, <2>5 DEF Descends
  <2>7. PICK h \in Fun : G[h] = h
        BY ONLY <2>6, Recursion
  <2>8. h = F(h)
        BY <2>7 DEF G
  <2>9. flatten = CHOOSE f : f = F(f)
        OBVIOUS
  <2> HIDE DEF flatten, F
  <2>10. flatten = F(flatten)
         BY <2>8, <2>9
  <2> QED BY <2>10 DEF F
<1> HIDE DEF flatten
<1>5. \A i \in D : flatten[i] = IF i = 1 THEN ss[i] ELSE flatten[i-1] \o ss[i]
      BY <1>4
<1> DEFINE r == [i \in D |-> i]
           T == {i \in D : flatten[i] \in Seq(S)}
<1>6. ASSUME NEW i \in D, \A j \in D : r[j] < r[i] => j \in T PROVE i \in T
  <2>1. CASE i = 1
        BY <1>1, <1>5, <2>1
  <2>2. CASE i # 1
    <3>1. i - 1 \in D /\ r[i-1] < r[i]
          BY <1>1, <2>2
    <3>2. flatten[i-1] \in Seq(S) /\ ss[i] \in Seq(S)
          BY <1>1, <1>6, <3>1
    <3>3. flatten[i-1] \o ss[i] \in Seq(S)
          BY <3>2, Joined
    <3> QED BY <1>5, <2>2, <3>3
  <2> QED BY <2>1, <2>2
<1>7. r \in [D -> Nat]
      BY <1>1
<1> HIDE DEF T, r, D
<1>8. \A i \in D : i \in T
      BY <1>6, <1>7, Ranked
<1>9. flatten \in [D -> Seq(S)]
  <2>1. \A i \in D : flatten[i] \in Seq(S)
        BY <1>8 DEF T
  <2> QED BY <1>4, <2>1
<1> QED BY <1>3, <1>5, <1>9 DEF n, D

\* Flattening keeps what is in the parts, and nothing else.
LEMMA Flattened ==
    ASSUME NEW S, NEW ss \in Seq(Seq(S))
    PROVE  /\ FlattenSeq(ss) \in Seq(S)
           /\ \A e : In(e, FlattenSeq(ss)) <=> \E i \in DOMAIN ss : In(e, ss[i])
<1> DEFINE n == Len(ss)
<1>1. n \in Nat /\ DOMAIN ss = 1..n /\ \A i \in 1..n : ss[i] \in Seq(S)
      OBVIOUS
<1>2. CASE n = 0
  <2>1. ss = <<>> /\ FlattenSeq(ss) = ss
        BY <1>2 DEF FlattenSeq
  <2>2. <<>> \in Seq(S) /\ DOMAIN <<>> = {}
        OBVIOUS
  <2> QED BY <2>1, <2>2 DEF In
<1>3. CASE n # 0
  <2>1. PICK flatten \in [1..n -> Seq(S)] :
           /\ FlattenSeq(ss) = flatten[n]
           /\ \A i \in 1..n : flatten[i] = IF i = 1 THEN ss[i] ELSE flatten[i-1] \o ss[i]
    <3>1. ss # <<>>
          BY <1>1, <1>3
    <3> QED BY <3>1, FlattenedFrom
  <2> HIDE DEF n
  <2> DEFINE D == 1..n
  <2> DEFINE Upto(i) == /\ flatten[i] \in Seq(S)
                        /\ \A e : In(e, flatten[i]) <=> \E j \in 1..i : In(e, ss[j])
  <2> DEFINE T == {i \in D : Upto(i)}
  <2> DEFINE r == [i \in D |-> i]
  <2>3. ASSUME NEW i \in D, \A j \in D : r[j] < r[i] => j \in T PROVE i \in T
    <3>1. CASE i = 1
      <4>1. flatten[i] = ss[i] /\ 1..i = {i}
            BY <1>1, <2>1, <3>1
      <4> QED BY <1>1, <4>1
    <3>2. CASE i # 1
      <4>1. i - 1 \in D /\ r[i-1] < r[i]
            BY <1>1, <3>2
      <4>2. Upto(i - 1)
            BY <2>3, <4>1
      <4>3. flatten[i] = flatten[i-1] \o ss[i] /\ ss[i] \in Seq(S)
            BY <1>1, <2>1, <3>2
      <4>4. /\ flatten[i] \in Seq(S)
            /\ \A e : In(e, flatten[i]) <=> In(e, flatten[i-1]) \/ In(e, ss[i])
            BY <4>2, <4>3, Joined
      <4>5. \A j : j \in 1..i <=> j \in 1..(i-1) \/ j = i
            BY <4>1
      <4>6. \A e : In(e, flatten[i]) <=> \E j \in 1..i : In(e, ss[j])
            BY <4>2, <4>4, <4>5
      <4> QED BY <4>4, <4>6
    <3> QED BY <3>1, <3>2
  <2>4. r \in [D -> Nat]
        BY <1>1
  <2> HIDE DEF T, r, D, Upto
  <2>5. \A i \in D : i \in T
        BY <2>3, <2>4, Ranked
  <2>6. Upto(n)
        BY <1>1, <1>3, <2>5 DEF T, D
  <2> QED BY <1>1, <2>1, <2>6 DEF Upto
<1> QED BY <1>2, <1>3

LEMMA Elements ==
    ASSUME NEW s
    PROVE  \A e : e \in ToSet(s) <=> In(e, s)
BY DEF ToSet, In

LEMMA FirstIsIn ==
    ASSUME NEW S, NEW s \in Seq(S), s # <<>>
    PROVE  Head(s) \in S /\ In(Head(s), s)
<1>1. Head(s) = s[1] /\ 1 \in DOMAIN s /\ s[1] \in S
      OBVIOUS
<1> QED BY <1>1 DEF In

\* One element more.
LEMMA Appended ==
    ASSUME NEW S, NEW s \in Seq(S), NEW e \in S
    PROVE  /\ Append(s, e) \in Seq(S) /\ Len(s) \in Nat
           /\ DOMAIN Append(s, e) = DOMAIN s \cup {Len(s) + 1}
           /\ \A k \in DOMAIN s : Append(s, e)[k] = s[k] /\ k \in Nat /\ k < Len(s) + 1
           /\ Append(s, e)[Len(s) + 1] = e
<1>1. /\ Append(s, e) \in Seq(S) /\ Len(Append(s, e)) = Len(s) + 1 /\ Len(s) \in Nat
      /\ DOMAIN s = 1..Len(s) /\ DOMAIN Append(s, e) = 1..(Len(s) + 1)
      OBVIOUS
<1>2. 1..(Len(s) + 1) = (1..Len(s)) \cup {Len(s) + 1}
      BY <1>1
<1>3. \A k \in 1..Len(s) : Append(s, e)[k] = s[k] /\ k \in Nat /\ k < Len(s) + 1
      BY <1>1
<1>4. Append(s, e)[Len(s) + 1] = e
      BY <1>1
<1> QED BY <1>1, <1>2, <1>3, <1>4

\* What is where in two sequences joined.
LEMMA JoinedAt ==
    ASSUME NEW S, NEW s \in Seq(S), NEW t \in Seq(S)
    PROVE  /\ s \o t \in Seq(S) /\ Len(s \o t) = Len(s) + Len(t)
           /\ \A k \in 1..Len(s) : (s \o t)[k] = s[k]
           /\ \A k \in 1..Len(t) : (s \o t)[Len(s) + k] = t[k]
OBVIOUS

\* A sequence with one element in place of another.
LEMMA Replaced ==
    ASSUME NEW S, NEW w \in Seq(S), NEW s \in S, NEW i
    PROVE  /\ [w EXCEPT ![i] = s] \in Seq(S) /\ Len([w EXCEPT ![i] = s]) = Len(w)
           /\ \A k \in 1..Len(w) : [w EXCEPT ![i] = s][k] = IF k = i THEN s ELSE w[k]
<1> DEFINE v == [w EXCEPT ![i] = s]
           n == Len(w)
<1>1. n \in Nat /\ DOMAIN w = 1..n /\ \A k \in 1..n : w[k] \in S
      OBVIOUS
<1>2. DOMAIN v = 1..n /\ \A k \in 1..n : v[k] = IF k = i THEN s ELSE w[k]
      BY <1>1
<1>3. v = [k \in 1..n |-> v[k]]
      BY <1>1
<1> HIDE DEF v, n
<1>4. v \in [1..n -> S]
      BY <1>1, <1>2, <1>3
<1>5. v \in Seq(S) /\ Len(v) = n
      BY <1>1, <1>4
<1> QED BY <1>2, <1>5 DEF v, n

\* Sequences are the same if their elements are.
LEMMA SameSeq ==
    ASSUME NEW S, NEW s \in Seq(S), NEW t \in Seq(S), Len(s) = Len(t),
           \A i \in 1..Len(s) : s[i] = t[i]
    PROVE  s = t
OBVIOUS

-----------------------------------------------------------------------------
(* Trees *)

Spots(k) == {0} \cup Nodes(k)

\* A tree: every node is below the one it is in, and among its kids.
IsTree(k) ==
    /\ Len(k.node) \in Nat /\ Nodes(k) = 1..Len(k.node)
    /\ \A m \in Nodes(k) : k.node[m].up \in 0..m-1
    /\ \A x \in Spots(k) : k.kids[x] \in Seq(Nodes(k))
    /\ \A x \in Spots(k) : \A m : In(m, k.kids[x]) <=> m \in Nodes(k) /\ k.node[m].up = x

LEMMA LinkedIsTree ==
    ASSUME NEW k \in Trees
    PROVE  IsTree(Linked(k))
<1> DEFINE t == Linked(k)
           D == Nodes(k)
           n == Len(k.node)
           Part(x) == [m \in D |-> IF k.node[m].up = x THEN <<m>> ELSE <<>>]
<1>1. n \in Nat /\ D = 1..n /\ \A m \in D : k.node[m].up \in 0..m-1
      BY TreesAssumption DEF Nodes
<1>2. t.node = k.node /\ t.kids = [x \in {0} \cup D |-> FlattenSeq(Part(x))]
      BY DEF Linked
<1>3. Nodes(t) = D /\ Spots(t) = {0} \cup D
      BY <1>2 DEF Nodes, Spots
<1> HIDE DEF t
<1>4. ASSUME NEW x \in {0} \cup D
      PROVE  /\ t.kids[x] \in Seq(D)
             /\ \A m : In(m, t.kids[x]) <=> m \in D /\ k.node[m].up = x
  <2> HIDE DEF n
  <2> DEFINE p == Part(x)
  <2>1. t.kids[x] = FlattenSeq(p)
        BY <1>2
  <2>2. \A m \in D : p[m] = IF k.node[m].up = x THEN <<m>> ELSE <<>>
        OBVIOUS
  <2>3. \A m \in D : p[m] \in Seq(D)
        OBVIOUS
  <2>4. p \in Seq(Seq(D)) /\ DOMAIN p = D
    <3>1. p \in [1..n -> Seq(D)]
          BY <1>1, <2>3
    <3> QED BY <1>1, <3>1
  <2>5. \A m : \A e \in D : In(m, p[e]) <=> k.node[e].up = x /\ m = e
    <3> SUFFICES ASSUME NEW m, NEW e \in D
                 PROVE  In(m, p[e]) <=> k.node[e].up = x /\ m = e
        OBVIOUS
    <3>1. CASE k.node[e].up = x
      <4>1. p[e] = <<e>> /\ DOMAIN <<e>> = {1} /\ <<e>>[1] = e
            BY <2>2, <3>1
      <4> QED BY <3>1, <4>1 DEF In
    <3>2. CASE k.node[e].up # x
      <4>1. p[e] = <<>> /\ DOMAIN <<>> = {}
            BY <2>2, <3>2
      <4> QED BY <3>2, <4>1 DEF In
    <3> QED BY <3>1, <3>2
  <2> HIDE DEF p
  <2>6. /\ FlattenSeq(p) \in Seq(D)
        /\ \A m : In(m, FlattenSeq(p)) <=> \E e \in DOMAIN p : In(m, p[e])
        BY <2>4, Flattened
  <2>7. \A m : In(m, FlattenSeq(p)) <=> m \in D /\ k.node[m].up = x
        BY <2>4, <2>5, <2>6
  <2> QED BY <2>1, <2>6, <2>7
<1> QED BY <1>1, <1>2, <1>3, <1>4 DEF IsTree, t

\* How deep a node stands, at most, and how many may be below it.
Depth(k) == [x \in Spots(k) |-> x]
Height(k) == [x \in Spots(k) |-> Len(k.node) - x]

LEMMA Ranks ==
    ASSUME NEW k, IsTree(k)
    PROVE  /\ Depth(k) \in [Spots(k) -> Nat] /\ Height(k) \in [Spots(k) -> Nat]
           /\ \A x \in Spots(k) : Depth(k)[x] <= Len(k.node) /\ Height(k)[x] <= Len(k.node)
           /\ \A m \in Nodes(k) : /\ k.node[m].up \in Spots(k) /\ m \in Spots(k)
                                  /\ Depth(k)[k.node[m].up] < Depth(k)[m]
                                  /\ Height(k)[m] < Height(k)[k.node[m].up]
<1>1. Spots(k) = 0..Len(k.node) /\ Nodes(k) = 1..Len(k.node) /\ Len(k.node) \in Nat
      BY DEF IsTree, Spots
<1>2. \A m \in Nodes(k) : k.node[m].up \in 0..m-1
      BY DEF IsTree
<1> DEFINE n == Len(k.node)
<1> HIDE DEF n
<1>3. \A m \in Nodes(k) : k.node[m].up \in Spots(k) /\ m \in Spots(k) /\ k.node[m].up < m
                         /\ n - m < n - k.node[m].up
      BY <1>1, <1>2 DEF n
<1>4. \A x \in 0..n : x \in Nat /\ n - x \in Nat /\ x <= n /\ n - x <= n
      BY <1>1 DEF n
<1> QED BY <1>1, <1>3, <1>4 DEF Depth, Height, n

-----------------------------------------------------------------------------
(* What the recursions of the model compute *)

LEMMA SearchedAt ==
    ASSUME NEW k, IsTree(k)
    PROVE  \A x \in Spots(k) :
              Searched(k)[x] <=> (x # 0 => /\ k.node[x].kind \in {"menu", "choice", "if"}
                                           /\ Searched(k)[k.node[x].up])
<1> DEFINE D == Spots(k)
           n == Len(k.node)
           Opens(x) == k.node[x].kind \in {"menu", "choice", "if"}
           F(f) == [x \in D |-> x # 0 => Opens(x) /\ f[k.node[x].up]]
           G == [f \in [D -> BOOLEAN] |-> F(f)]
           r == Depth(k)
<1> HIDE DEF Opens
<1>1. Searched(k) = CHOOSE f : f = F(f)
      BY DEF Searched, Spots, Opens
<1>2. /\ r \in [D -> Nat] /\ n \in Nat
      /\ \A x \in D : r[x] <= n
      /\ \A x \in D : x # 0 => k.node[x].up \in D /\ r[k.node[x].up] < r[x]
      BY Ranks DEF IsTree, Spots
<1> HIDE DEF D, r, n
<1>3. \A f \in [D -> BOOLEAN] : F(f) \in [D -> BOOLEAN]
      OBVIOUS
<1>4. G \in [[D -> BOOLEAN] -> [D -> BOOLEAN]]
      BY <1>3
<1>5. \A f \in [D -> BOOLEAN] : \A x \in D : G[f][x] = (x # 0 => Opens(x) /\ f[k.node[x].up])
      OBVIOUS
<1> HIDE DEF G
<1>6. ASSUME NEW f \in [D -> BOOLEAN], NEW h \in [D -> BOOLEAN], NEW x \in D,
             \A y \in D : r[y] < r[x] => f[y] = h[y]
      PROVE  G[f][x] = G[h][x]
  <2>1. x # 0 => f[k.node[x].up] = h[k.node[x].up]
        BY <1>2, <1>6
  <2> QED BY <1>5, <2>1
<1>7. Descends(G, D, BOOLEAN, r, n)
      BY <1>2, <1>4, <1>6 DEF Descends
<1>8. PICK h \in [D -> BOOLEAN] : G[h] = h
      BY ONLY <1>7, Recursion
<1>9. h = F(h)
      BY <1>8 DEF G
<1> HIDE DEF F
<1>10. Searched(k) = F(Searched(k))
      BY <1>1, <1>9
<1>11. \A x \in D : Searched(k)[x] = (x # 0 => Opens(x) /\ Searched(k)[k.node[x].up])
  <2> DEFINE s == Searched(k)
  <2> HIDE DEF s
  <2>1. \A x \in D : F(s)[x] = (x # 0 => Opens(x) /\ s[k.node[x].up])
        BY DEF F
  <2> QED BY <1>10, <2>1 DEF s
<1> QED BY <1>11 DEF D, Opens

\* The menu, choice or root a node of the tree has its rows in.
Around(k) ==
    CHOOSE f : f = [m \in {0} \cup Nodes(k) |->
                      IF m # 0 /\ k.node[m].kind = "if" THEN f[k.node[m].up] ELSE m]

LEMMA AroundAt ==
    ASSUME NEW k, IsTree(k)
    PROVE  /\ Around(k) \in [Spots(k) -> Spots(k)]
           /\ \A x \in Spots(k) :
                 Around(k)[x] = IF x # 0 /\ k.node[x].kind = "if"
                                THEN Around(k)[k.node[x].up] ELSE x
<1> DEFINE D == Spots(k)
           n == Len(k.node)
           If(x) == x # 0 /\ k.node[x].kind = "if"
           F(f) == [x \in D |-> IF If(x) THEN f[k.node[x].up] ELSE x]
           G == [f \in [D -> D] |-> F(f)]
           r == Depth(k)
<1>1. Around(k) = CHOOSE f : f = F(f)
      BY DEF Around, Spots
<1>2. /\ r \in [D -> Nat] /\ n \in Nat /\ D # {}
      /\ \A x \in D : r[x] <= n
      /\ \A x \in D : If(x) => k.node[x].up \in D /\ r[k.node[x].up] < r[x]
      BY Ranks DEF IsTree, Spots
<1> HIDE DEF D, r, n, If
<1>3. \A f \in [D -> D] : F(f) \in [D -> D]
      BY <1>2
<1>4. G \in [[D -> D] -> [D -> D]]
      BY <1>3
<1>5. \A f \in [D -> D] : \A x \in D : G[f][x] = IF If(x) THEN f[k.node[x].up] ELSE x
      OBVIOUS
<1> HIDE DEF G
<1>6. ASSUME NEW f \in [D -> D], NEW h \in [D -> D], NEW x \in D,
             \A y \in D : r[y] < r[x] => f[y] = h[y]
      PROVE  G[f][x] = G[h][x]
  <2>1. If(x) => f[k.node[x].up] = h[k.node[x].up]
        BY <1>2, <1>6
  <2> QED BY <1>5, <2>1
<1>7. Descends(G, D, D, r, n)
      BY <1>2, <1>4, <1>6 DEF Descends
<1>8. PICK h \in [D -> D] : G[h] = h
      BY ONLY <1>7, Recursion
<1>9. h = F(h)
      BY <1>8 DEF G
<1> HIDE DEF F
<1> DEFINE a == Around(k)
<1>10. a = F(a)
      BY <1>1, <1>9
<1> HIDE DEF a
<1>11. \A x \in D : a[x] = IF If(x) THEN a[k.node[x].up] ELSE x
      BY <1>10 DEF F
<1>12. \A x \in D : x \in {y \in D : a[y] \in D}
  <2> DEFINE T == {y \in D : a[y] \in D}
  <2>1. ASSUME NEW x \in D, \A y \in D : r[y] < r[x] => y \in T PROVE x \in T
    <3>1. If(x) => k.node[x].up \in T
          BY <1>2, <2>1
    <3> QED BY <1>11, <3>1
  <2>2. r \in [D -> Nat]
        BY <1>2
  <2> HIDE DEF T
  <2>3. \A x \in D : x \in T
        BY <2>1, <2>2, Ranked
  <2> QED BY <2>3 DEF T
<1>13. a \in [D -> D]
  <2>1. a = [x \in D |-> IF If(x) THEN a[k.node[x].up] ELSE x]
        BY <1>10 DEF F
  <2>2. \A x \in D : (IF If(x) THEN a[k.node[x].up] ELSE x) \in D
        BY <1>11, <1>12
  <2> QED BY <2>1, <2>2
<1> QED BY <1>11, <1>13 DEF a, D, If

\* The rows of every spot of the tree.
Part(k, t, f, m) ==
    IF k.node[m].kind = "if" THEN f[m] ELSE IF HasRow(k, t, m) THEN <<m>> ELSE <<>>
Parts(k, t, f, x) == [i \in DOMAIN k.kids[x] |-> Part(k, t, f, k.kids[x][i])]
AllRows(k, t) ==
    CHOOSE f : f = [x \in {0} \cup Nodes(k) |-> FlattenSeq(Parts(k, t, f, x))]

LEMMA RowsAre ==
    ASSUME NEW k, NEW t, NEW x
    PROVE  Rows(k, t, x) = AllRows(k, t)[x]
BY DEF Rows, AllRows, Parts, Part

\* The parts of a spot's rows, if those of the ifs in it are rows.
LEMMA PartsOf ==
    ASSUME NEW k, IsTree(k), NEW t, NEW f, NEW x \in Spots(k),
           \A m \in Nodes(k) : k.node[m].up = x => f[m] \in Seq(Nodes(k))
    PROVE  /\ FlattenSeq(Parts(k, t, f, x)) \in Seq(Nodes(k))
           /\ \A e : In(e, FlattenSeq(Parts(k, t, f, x))) <=>
                       \E m \in Nodes(k) : k.node[m].up = x /\ In(e, Part(k, t, f, m))
<1> DEFINE D == Nodes(k)
           ks == k.kids[x]
           p == Parts(k, t, f, x)
<1>1. ks \in Seq(D) /\ \A m : In(m, ks) <=> m \in D /\ k.node[m].up = x
      BY DEF IsTree
<1>2. p = [i \in DOMAIN ks |-> Part(k, t, f, ks[i])]
      BY DEF Parts
<1>3. \A m \in D : k.node[m].up = x => Part(k, t, f, m) \in Seq(D)
  <2> SUFFICES ASSUME NEW m \in D, k.node[m].up = x PROVE Part(k, t, f, m) \in Seq(D)
      OBVIOUS
  <2>1. f[m] \in Seq(D) /\ <<m>> \in Seq(D) /\ <<>> \in Seq(D)
        OBVIOUS
  <2> QED BY <2>1 DEF Part
<1> HIDE DEF ks, p
<1>4. \A i \in DOMAIN ks : ks[i] \in D /\ k.node[ks[i]].up = x
      BY <1>1 DEF In
<1>5. p \in Seq(Seq(D)) /\ DOMAIN p = DOMAIN ks /\ \A i \in DOMAIN ks : p[i] = Part(k, t, f, ks[i])
  <2>1. \A i \in DOMAIN ks : Part(k, t, f, ks[i]) \in Seq(D)
        BY <1>3, <1>4
  <2>2. DOMAIN ks = 1..Len(ks) /\ Len(ks) \in Nat
        BY <1>1
  <2>3. p \in [1..Len(ks) -> Seq(D)]
        BY <1>2, <2>1, <2>2
  <2> QED BY <1>2, <2>2, <2>3
<1>6. /\ FlattenSeq(p) \in Seq(D)
      /\ \A e : In(e, FlattenSeq(p)) <=> \E i \in DOMAIN p : In(e, p[i])
      BY <1>5, Flattened
<1>7. ASSUME NEW e
      PROVE  (\E i \in DOMAIN ks : In(e, Part(k, t, f, ks[i])))
             <=> \E m \in D : k.node[m].up = x /\ In(e, Part(k, t, f, m))
  <2>1. \A m \in D : k.node[m].up = x => \E i \in DOMAIN ks : ks[i] = m
        BY <1>1 DEF In
  <2> QED BY <1>4, <2>1
<1> QED BY <1>5, <1>6, <1>7 DEF p

LEMMA RowsAt ==
    ASSUME NEW k, IsTree(k), NEW t
    PROVE  /\ \A x \in Spots(k) : AllRows(k, t)[x] \in Seq(Nodes(k))
           /\ \A x \in Spots(k) : \A e :
                 In(e, AllRows(k, t)[x]) <=>
                    \E m \in Nodes(k) : k.node[m].up = x /\ In(e, Part(k, t, AllRows(k, t), m))
<1> DEFINE D == Spots(k)
           n == Len(k.node)
           S == Seq(Nodes(k))
           F(f) == [x \in D |-> FlattenSeq(Parts(k, t, f, x))]
           G == [f \in [D -> S] |-> F(f)]
           r == Height(k)
<1>1. AllRows(k, t) = CHOOSE f : f = F(f)
      BY DEF AllRows, Spots
<1>2. /\ r \in [D -> Nat] /\ n \in Nat /\ S # {}
      /\ \A x \in D : r[x] <= n
      /\ \A m \in Nodes(k) : m \in D /\ r[m] < r[k.node[m].up]
  <2>1. <<>> \in S
        OBVIOUS
  <2> QED BY <2>1, Ranks DEF IsTree
<1> HIDE DEF r, n
<1>3. ASSUME NEW f \in [D -> S] PROVE F(f) \in [D -> S]
  <2>1. \A m \in Nodes(k) : f[m] \in S
        BY <1>2
  <2>2. \A x \in D : FlattenSeq(Parts(k, t, f, x)) \in S
        BY <2>1, PartsOf
  <2> QED BY <2>2
<1>4. G \in [[D -> S] -> [D -> S]]
      BY <1>3
<1>5. \A f \in [D -> S] : \A x \in D : G[f][x] = FlattenSeq(Parts(k, t, f, x))
      OBVIOUS
<1> HIDE DEF G
<1>6. ASSUME NEW f \in [D -> S], NEW h \in [D -> S], NEW x \in D,
             \A y \in D : r[y] < r[x] => f[y] = h[y]
      PROVE  G[f][x] = G[h][x]
  <2>1. \A m \in Nodes(k) : k.node[m].up = x => Part(k, t, f, m) = Part(k, t, h, m)
        BY <1>2, <1>6 DEF Part
  <2>2. \A i \in DOMAIN k.kids[x] : k.kids[x][i] \in Nodes(k) /\ k.node[k.kids[x][i]].up = x
        BY DEF IsTree, In
  <2>3. Parts(k, t, f, x) = Parts(k, t, h, x)
        BY <2>1, <2>2 DEF Parts
  <2> QED BY <1>5, <2>3
<1>7. Descends(G, D, S, r, n)
      BY <1>2, <1>4, <1>6 DEF Descends
<1>8. PICK h \in [D -> S] : G[h] = h
      BY ONLY <1>7, Recursion
<1>9. h = F(h)
      BY <1>8 DEF G
<1> HIDE DEF F
<1> DEFINE a == AllRows(k, t)
<1>10. a = F(a)
      BY <1>1, <1>9
<1> HIDE DEF a
<1>11. \A x \in D : a[x] = FlattenSeq(Parts(k, t, a, x))
      BY <1>10 DEF F
<1>12. \A x \in D : a[x] \in S
  <2> DEFINE T == {y \in D : a[y] \in S}
  <2>1. ASSUME NEW x \in D, \A y \in D : r[y] < r[x] => y \in T PROVE x \in T
    <3>1. \A m \in Nodes(k) : k.node[m].up = x => a[m] \in S
          BY <1>2, <2>1
    <3>2. FlattenSeq(Parts(k, t, a, x)) \in S
          BY <3>1, PartsOf
    <3> QED BY <1>11, <3>2
  <2>2. r \in [D -> Nat]
        BY <1>2
  <2> HIDE DEF T, D
  <2>3. \A x \in D : x \in T
        BY <2>1, <2>2, Ranked
  <2> QED BY <2>3 DEF T, D
<1>13. ASSUME NEW x \in D, NEW e
       PROVE  In(e, a[x]) <=> \E m \in Nodes(k) : k.node[m].up = x /\ In(e, Part(k, t, a, m))
  <2>1. \A m \in Nodes(k) : k.node[m].up = x => a[m] \in S
        BY <1>2, <1>12
  <2>2. In(e, FlattenSeq(Parts(k, t, a, x))) <=>
           \E m \in Nodes(k) : k.node[m].up = x /\ In(e, Part(k, t, a, m))
        BY <2>1, PartsOf
  <2> QED BY <1>11, <2>2
<1> QED BY <1>12, <1>13 DEF a

\* What has a row is not an if, is around in the same place, and is found by the
\* search if what is there is.
LEMMA RowsBelong ==
    ASSUME NEW k, IsTree(k), NEW t, NEW x \in Spots(k), NEW e, In(e, AllRows(k, t)[x])
    PROVE  /\ e \in Nodes(k) /\ k.node[e].kind # "if"
           /\ Around(k)[k.node[e].up] = Around(k)[x]
           /\ Searched(k)[x] => Searched(k)[k.node[e].up]
<1> DEFINE D == Spots(k)
           a == AllRows(k, t)
           Belongs(y, z) == /\ z \in Nodes(k) /\ k.node[z].kind # "if"
                            /\ Around(k)[k.node[z].up] = Around(k)[y]
                            /\ Searched(k)[y] => Searched(k)[k.node[z].up]
           T == {y \in D : \A z : In(z, a[y]) => Belongs(y, z)}
           r == Height(k)
<1>1. ASSUME NEW y \in D, \A w \in D : r[w] < r[y] => w \in T,
             NEW z, In(z, a[y])
      PROVE  Belongs(y, z)
  <2>1. PICK m \in Nodes(k) : k.node[m].up = y /\ In(z, Part(k, t, a, m))
        BY <1>1, RowsAt
  <2>2. CASE k.node[m].kind = "if"
    <3>0. m # 0
          BY DEF IsTree
    <3>1. m \in D /\ r[m] < r[y] /\ m # 0
          BY <2>1, <3>0, Ranks
    <3>2. In(z, a[m])
          BY <2>1, <2>2 DEF Part
    <3>3. Belongs(m, z)
          BY <1>1, <3>1, <3>2
    <3>4. Around(k)[m] = Around(k)[y]
          BY <2>1, <2>2, <3>1, AroundAt
    <3>5. Searched(k)[y] => Searched(k)[m]
          BY <2>1, <2>2, <3>1, SearchedAt
    <3> QED BY <3>3, <3>4, <3>5
  <2>3. CASE k.node[m].kind # "if"
    <3>1. In(z, IF HasRow(k, t, m) THEN <<m>> ELSE <<>>)
          BY <2>1, <2>3 DEF Part
    <3>2. DOMAIN <<>> = {} /\ DOMAIN <<m>> = {1} /\ <<m>>[1] = m
          OBVIOUS
    <3>3. z = m
          BY <3>1, <3>2 DEF In
    <3> QED BY <2>1, <2>3, <3>3
  <2> QED BY <2>2, <2>3
<1>2. r \in [D -> Nat]
      BY Ranks
<1>3. \A y \in D : (\A w \in D : r[w] < r[y] => w \in T) => y \in T
      BY <1>1
<1> HIDE DEF T, D, r
<1>4. \A y \in D : y \in T
      BY <1>2, <1>3, Ranked
<1> QED BY <1>4 DEF T, D

\* Where a node that has a row has it.
LEMMA RowsComplete ==
    ASSUME NEW k, IsTree(k), NEW t, NEW n \in Nodes(k),
           k.node[n].kind # "if", HasRow(k, t, n)
    PROVE  In(n, AllRows(k, t)[Around(k)[k.node[n].up]])
<1> DEFINE D == Spots(k)
           a == AllRows(k, t)
           T == {y \in D : In(n, a[y]) => In(n, a[Around(k)[y]])}
           r == Depth(k)
<1>1. ASSUME NEW y \in D, \A w \in D : r[w] < r[y] => w \in T, In(n, a[y])
      PROVE  In(n, a[Around(k)[y]])
  <2>1. CASE y # 0 /\ k.node[y].kind = "if"
    <3>1. y \in Nodes(k) /\ k.node[y].up \in D /\ r[k.node[y].up] < r[y]
          BY <2>1, Ranks DEF Spots
    <3>2. In(n, Part(k, t, a, y))
          BY <1>1, <2>1 DEF Part
    <3>3. In(n, a[k.node[y].up])
          BY <3>1, <3>2, RowsAt
    <3>4. Around(k)[y] = Around(k)[k.node[y].up]
          BY <2>1, AroundAt
    <3> QED BY <1>1, <3>1, <3>3, <3>4
  <2>2. CASE ~ (y # 0 /\ k.node[y].kind = "if")
    <3>1. Around(k)[y] = y
          BY <2>2, AroundAt
    <3> QED BY <1>1, <3>1
  <2> QED BY <2>1, <2>2
<1>2. r \in [D -> Nat]
      BY Ranks
<1>3. \A y \in D : (\A w \in D : r[w] < r[y] => w \in T) => y \in T
      BY <1>1
<1>4. k.node[n].up \in D
      BY Ranks
<1>5. In(n, a[k.node[n].up])
  <2>1. Part(k, t, a, n) = <<n>> /\ 1 \in DOMAIN <<n>> /\ <<n>>[1] = n
        BY DEF Part
  <2>2. In(n, Part(k, t, a, n))
        BY <2>1 DEF In
  <2> QED BY <1>4, <2>2, RowsAt
<1> HIDE DEF T, D, r
<1>6. \A y \in D : y \in T
      BY <1>2, <1>3, Ranked
<1> QED BY <1>4, <1>5, <1>6 DEF T

LEMMA AroundSearched ==
    ASSUME NEW k, IsTree(k), NEW x \in Spots(k)
    PROVE  /\ Around(k)[x] \in Spots(k)
           /\ Around(k)[x] # 0 => k.node[Around(k)[x]].kind # "if"
           /\ Searched(k)[x] => Searched(k)[Around(k)[x]]
<1> DEFINE D == Spots(k)
           If(y) == y # 0 /\ k.node[y].kind = "if"
           Good(y) == ~If(Around(k)[y]) /\ (Searched(k)[y] => Searched(k)[Around(k)[y]])
           T == {y \in D : Good(y)}
           r == Depth(k)
<1>1. ASSUME NEW y \in D, \A w \in D : r[w] < r[y] => w \in T PROVE Good(y)
  <2>1. CASE If(y)
    <3>1. k.node[y].up \in D /\ r[k.node[y].up] < r[y]
          BY <2>1, Ranks DEF Spots
    <3>2. Good(k.node[y].up)
          BY <1>1, <3>1
    <3>3. Around(k)[y] = Around(k)[k.node[y].up]
          BY <2>1, AroundAt
    <3>4. Searched(k)[y] => Searched(k)[k.node[y].up]
          BY <2>1, SearchedAt
    <3> QED BY <3>2, <3>3, <3>4
  <2>2. CASE ~If(y)
    <3>1. Around(k)[y] = y
          BY <2>2, AroundAt
    <3> QED BY <2>2, <3>1
  <2> QED BY <2>1, <2>2
<1>2. r \in [D -> Nat]
      BY Ranks
<1>3. \A y \in D : (\A w \in D : r[w] < r[y] => w \in T) => y \in T
      BY <1>1
<1>4. Around(k)[x] \in D
      BY AroundAt
<1> HIDE DEF T, D, r
<1>5. \A y \in D : y \in T
      BY <1>2, <1>3, Ranked
<1> QED BY <1>4, <1>5 DEF T, D

-----------------------------------------------------------------------------
(* The list *)

LEMMA Found ==
    ASSUME NEW S, NEW rs \in Seq(S), NEW start \in DOMAIN rs, NEW dir \in {-1, 1}
    PROVE  FindSelectable(rs, start, dir) \in DOMAIN rs
<1> DEFINE n == Len(rs)
           ahead == {i \in DOMAIN rs : Selectable(rs, i) /\ (i - start) * dir >= 0}
           far == {(i - start) * dir : i \in ahead}
<1>1. n \in Nat /\ DOMAIN rs = 1..n
      OBVIOUS
<1>2. CASE ahead = {}
  <2>1. FindSelectable(rs, start, dir) = start
        BY <1>2 DEF FindSelectable
  <2> QED BY <2>1
<1>3. CASE ahead # {}
  <2>1. \A i \in ahead : (i - start) * dir \in Nat
    <3>1. CASE dir = 1
          BY <1>1, <3>1
    <3>2. CASE dir = -1
          BY <1>1, <3>2
    <3> QED BY <3>1, <3>2
  <2>2. far \in SUBSET Nat /\ far # {}
        BY <1>3, <2>1
  <2>3. PICK d \in far : \A e \in far : d <= e
        BY <2>2, HasLeast
  <2>4. PICK i \in ahead : d = (i - start) * dir
        OBVIOUS
  <2>5. \A j \in ahead : (i - start) * dir <= (j - start) * dir
        BY <2>3, <2>4
  <2>6. FindSelectable(rs, start, dir)
          = CHOOSE i_1 \in ahead : \A j \in ahead : (i_1 - start) * dir <= (j - start) * dir
        BY <1>3 DEF FindSelectable
  <2>7. ahead \subseteq DOMAIN rs
        OBVIOUS
  <2> HIDE DEF ahead
  <2> QED BY <2>5, <2>6, <2>7
<1> QED BY <1>2, <1>3

LEMMA Moved ==
    ASSUME NEW S, NEW rs \in Seq(S), NEW c \in DOMAIN rs, NEW delta \in Int
    PROVE  MoveCursor(rs, c, delta) \in DOMAIN rs
<1> DEFINE dir == IF delta >= 0 THEN 1 ELSE -1
           low == IF c + delta < 1 THEN 1 ELSE c + delta
           target == IF low > Len(rs) THEN Len(rs) ELSE low
           found == FindSelectable(rs, target, dir)
<1>1. Len(rs) \in Nat \ {0} /\ DOMAIN rs = 1..Len(rs)
      OBVIOUS
<1>2. dir \in {-1, 1} /\ -dir \in {-1, 1}
  <2>1. dir = 1 \/ dir = -1
        OBVIOUS
  <2> HIDE DEF dir
  <2> QED BY <2>1
<1>3. target \in DOMAIN rs
      BY <1>1
<1> HIDE DEF target, dir
<1>4. FindSelectable(rs, target, -dir) \in DOMAIN rs
      BY <1>2, <1>3, Found
<1>5. MoveCursor(rs, c, delta) = IF found \in DOMAIN rs /\ Selectable(rs, found) THEN found
                                ELSE FindSelectable(rs, target, -dir)
      BY DEF MoveCursor, target, dir
<1> QED BY <1>4, <1>5

\* A list with rows has its caret on one of them, in the window.
InOrder(rs, c, t, body) ==
    /\ t \in Int
    /\ rs # <<>> => /\ c \in DOMAIN rs
                    /\ body > 0 => c \in t..(t + body - 1) /\ t \in 1..Len(rs)

LEMMA Clamped ==
    ASSUME NEW S, NEW rs \in Seq(S), NEW c, rs # <<>> => c \in DOMAIN rs,
           NEW t \in Int, NEW body \in Nat
    PROVE  InOrder(rs, c, ClampScroll(rs, c, t, body), body)
<1>1. CASE rs = <<>>
      BY <1>1 DEF ClampScroll, InOrder
<1>2. CASE rs # <<>>
  <2>1. Len(rs) \in Nat \ {0} /\ DOMAIN rs = 1..Len(rs) /\ c \in 1..Len(rs)
        BY <1>2
  <2> DEFINE n == Len(rs)
  <2> HIDE DEF n
  <2>2. CASE body = 0
        BY <1>2, <2>1, <2>2 DEF ClampScroll, InOrder
  <2>3. CASE body > 0
    <3> DEFINE last == IF t > n - body + 1 THEN n - body + 1 ELSE t
               first == IF last < 1 THEN 1 ELSE last
               w == IF c < first THEN c ELSE IF c >= first + body THEN c - body + 1 ELSE first
    <3>1. ClampScroll(rs, c, t, body) = w
          BY <1>2, <2>3 DEF ClampScroll, n
    <3>2. first \in 1..n
          BY <2>1, <2>3 DEF n
    <3> HIDE DEF first
    <3>3. w \in 1..n /\ c \in w..(w + body - 1)
          BY <2>1, <2>3, <3>2 DEF n
    <3> HIDE DEF w
    <3> QED BY <2>1, <3>1, <3>3 DEF InOrder, n
  <2> QED BY <2>2, <2>3
<1> QED BY <1>1, <1>2

LEMMA BodyNat ==
    ASSUME height \in Nat PROVE Body \in Nat
BY DEF Body

LEMMA ItemsSet ==
    ASSUME NEW S, NEW rs \in Seq(S), height \in Nat
    PROVE  /\ SetItems(rs).rows = rs
           /\ InOrder(rs, SetItems(rs).cursor, SetItems(rs).top, Body)
<1> DEFINE c == IF rs # <<>> /\ ~Selectable(rs, 1) THEN FindSelectable(rs, 1, 1) ELSE 1
<1>1. SetItems(rs) = [rows |-> rs, cursor |-> c, top |-> ClampScroll(rs, c, 1, Body)]
      BY DEF SetItems
<1>2. rs # <<>> => c \in DOMAIN rs
  <2>1. rs # <<>> => 1 \in DOMAIN rs
        OBVIOUS
  <2>2. rs # <<>> => FindSelectable(rs, 1, 1) \in DOMAIN rs
        BY <2>1, Found
  <2> QED BY <2>1, <2>2
<1> HIDE DEF c
<1>3. InOrder(rs, c, ClampScroll(rs, c, 1, Body), Body)
      BY <1>2, BodyNat, Clamped
<1> QED BY <1>1, <1>3

LEMMA CaretPutBack ==
    ASSUME NEW S, NEW rs \in Seq(S), height \in Nat,
           NEW c, rs # <<>> => c \in Nat \ {0}, NEW t \in Int
    PROVE  /\ PutBack(rs, c, t).rows = rs
           /\ InOrder(rs, PutBack(rs, c, t).cursor, PutBack(rs, c, t).top, Body)
           /\ c \in DOMAIN rs => PutBack(rs, c, t).cursor = c
<1>0. Len(rs) \in Nat /\ DOMAIN rs = 1..Len(rs)
      OBVIOUS
<1>1. CASE c <= Len(rs)
  <2> DEFINE u == ClampScroll(rs, c, t, Body)
  <2>1. rs # <<>> => c \in DOMAIN rs
        BY <1>0, <1>1
  <2>2. InOrder(rs, c, u, Body)
        BY <2>1, BodyNat, Clamped
  <2> HIDE DEF u
  <2>3. PutBack(rs, c, t) = [rows |-> rs, cursor |-> c, top |-> u]
        BY <1>1 DEF PutBack, SetItems, u
  <2> QED BY <2>2, <2>3
<1>2. CASE ~(c <= Len(rs))
  <2>1. PutBack(rs, c, t) = SetItems(rs)
        BY <1>2 DEF PutBack
  <2>2. c \notin DOMAIN rs
        BY <1>0, <1>2
  <2> QED BY <2>1, <2>2, ItemsSet
<1> QED BY <1>1, <1>2

-----------------------------------------------------------------------------
(* The invariant *)

Depths == [cursor : Nat \ {0}, top : Int]
Marks == [node : Nodes(tree), rows : Seq(Nodes(tree))]

\* What is saved of a menu that was left is where its row was.
Saved ==
    /\ stack \in Seq(Depths) /\ trail \in Seq(Marks) /\ Len(stack) = Len(trail)
    /\ \A i \in 1..Len(trail) : /\ stack[i].cursor \in DOMAIN trail[i].rows
                                /\ trail[i].rows[stack[i].cursor] = trail[i].node

\* Where ifs are flat, the menus that were entered are the ones around this one.
Nested ==
    /\ cur # 0 => tree.node[cur].kind # "if"
    /\ trail # <<>> => trail[Len(trail)].node = cur
    /\ \A i \in 2..Len(trail) : tree.node[trail[i].node].up = trail[i-1].node

MenuInv ==
    /\ tree \in {Linked(k) : k \in Trees}
    /\ cur \in Spots(tree) /\ Searched(tree)[cur]
    /\ height \in Nat /\ top \in Int /\ keys \in Nat
    /\ keys = 0 => cur = 0
    /\ keys > 0 => rows = Rows(tree, syms, cur)
    /\ keys > 0 => InOrder(rows, cursor, top, Body)
    /\ Saved
    /\ IfsAreFlat(tree) => Nested

LEMMA TreeFacts ==
    ASSUME MenuInv
    PROVE  /\ IsTree(tree)
           /\ \A t : \A x \in Spots(tree) : Rows(tree, t, x) \in Seq(Nodes(tree))
<1>1. IsTree(tree)
      BY LinkedIsTree DEF MenuInv
<1> QED BY <1>1, RowsAt, RowsAre

LEMMA Keys ==
    ASSUME Pressed, MenuInv
    PROVE  tree' = tree /\ keys' \in Nat \ {0}
BY DEF Pressed, project, MenuInv

\* What a step must see to.
LEMMA Kept ==
    ASSUME MenuInv, tree' = tree, keys' \in Nat \ {0}, height' \in Nat,
           cur' \in Spots(tree), Searched(tree)[cur'],
           rows' = Rows(tree, syms', cur'), InOrder(rows', cursor', top', Body'),
           Saved', IfsAreFlat(tree) => Nested'
    PROVE  MenuInv'
BY DEF MenuInv, InOrder

LEMMA TrailKept ==
    ASSUME MenuInv, tree' = tree, UNCHANGED <<cur, stack, trail>>
    PROVE  Saved' /\ (IfsAreFlat(tree) => Nested')
<1>1. Saved'
      BY DEF MenuInv, Saved, Depths, Marks
<1>2. Nested => Nested'
      BY DEF Nested
<1> QED BY <1>1, <1>2 DEF MenuInv

LEMMA BodyKept ==
    ASSUME height' = height PROVE Body' = Body
BY DEF Body

LEMMA CaretKeeps ==
    ASSUME MenuInv, keys > 0, Pressed, NEW c, Caret(c), rows # <<>> => c \in DOMAIN rows
    PROVE  MenuInv'
<1>1. /\ tree' = tree /\ keys' \in Nat \ {0}
      /\ cursor' = c /\ top' = ClampScroll(rows, c, top, Body)
      /\ UNCHANGED <<syms, cur, rows, height, stack, trail>>
      BY Keys DEF Caret
<1>2. /\ rows = Rows(tree, syms, cur) /\ rows \in Seq(Nodes(tree))
      /\ cur \in Spots(tree) /\ Searched(tree)[cur] /\ top \in Int /\ height \in Nat
      BY TreeFacts DEF MenuInv
<1>3. InOrder(rows, c, ClampScroll(rows, c, top, Body), Body)
      BY <1>2, BodyNat, Clamped
<1>4. InOrder(rows', cursor', top', Body')
      BY <1>1, <1>3, BodyKept
<1>5. Saved' /\ (IfsAreFlat(tree) => Nested')
      BY <1>1, TrailKept
<1> QED BY <1>1, <1>2, <1>4, <1>5, Kept

LEMMA MoveKeeps ==
    ASSUME MenuInv, keys > 0, Move PROVE MenuInv'
<1>1. PICK delta \in {-1, 1, -Body, Body} : Caret(MoveCursor(rows, cursor, delta))
      BY DEF Move
<1>2. Pressed
      BY DEF Move
<1>3. /\ rows \in Seq(Nodes(tree)) /\ delta \in Int
      /\ rows # <<>> => cursor \in DOMAIN rows
  <2>1. Body \in Nat
        BY BodyNat DEF MenuInv
  <2> QED BY <2>1, TreeFacts DEF MenuInv, InOrder
<1>4. rows # <<>> => MoveCursor(rows, cursor, delta) \in DOMAIN rows
      BY <1>3, Moved
<1> QED BY <1>1, <1>2, <1>4, CaretKeeps

LEMMA JumpKeeps ==
    ASSUME MenuInv, keys > 0, Jump PROVE MenuInv'
<1>1. Pressed /\ rows \in Seq(Nodes(tree))
      BY TreeFacts DEF Jump, MenuInv
<1>2. rows # <<>> => 1 \in DOMAIN rows /\ Len(rows) \in DOMAIN rows
      BY <1>1
<1>3. rows # <<>> => /\ FindSelectable(rows, 1, 1) \in DOMAIN rows
                    /\ FindSelectable(rows, Len(rows), -1) \in DOMAIN rows
      BY <1>1, <1>2, Found
<1>4. Caret(FindSelectable(rows, 1, 1)) \/ Caret(FindSelectable(rows, Len(rows), -1))
      BY DEF Jump
<1> QED BY <1>1, <1>3, <1>4, CaretKeeps

LEMMA ResizeKeeps ==
    ASSUME MenuInv, keys > 0, Resize PROVE MenuInv'
<1>1. PICK h \in Heights : /\ height' = h
                           /\ top' = ClampScroll(rows, cursor, top, IF h > 2 THEN h - 2 ELSE 0)
      BY DEF Resize
<1>2. tree' = tree /\ keys' \in Nat \ {0} /\ UNCHANGED <<syms, cur, rows, cursor, stack, trail>>
      BY Keys DEF Resize
<1>3. height' \in Nat /\ Body' \in Nat /\ Body' = IF h > 2 THEN h - 2 ELSE 0
      BY <1>1, HeightsAssumption DEF Body
<1>4. /\ rows = Rows(tree, syms, cur) /\ rows \in Seq(Nodes(tree))
      /\ cur \in Spots(tree) /\ Searched(tree)[cur] /\ top \in Int
      /\ rows # <<>> => cursor \in DOMAIN rows
      BY TreeFacts DEF MenuInv, InOrder
<1>5. InOrder(rows, cursor, ClampScroll(rows, cursor, top, Body'), Body')
      BY <1>3, <1>4, Clamped
<1>6. InOrder(rows', cursor', top', Body')
      BY <1>1, <1>2, <1>3, <1>5
<1>7. Saved' /\ (IfsAreFlat(tree) => Nested')
      BY <1>2, TrailKept
<1> QED BY <1>2, <1>3, <1>4, <1>6, <1>7, Kept

\* A list made again, of the same menu.
LEMMA RemadeKeeps ==
    ASSUME MenuInv, keys > 0, tree' = tree, keys' \in Nat \ {0},
           UNCHANGED <<cur, height, stack, trail>>,
           NEW rs, rs = Rows(tree, syms', cur),
           Show(PutBack(rs, cursor, top)), rs # <<>> => cursor \in Nat \ {0}
    PROVE  MenuInv'
<1>1. /\ rs \in Seq(Nodes(tree)) /\ cur \in Spots(tree) /\ Searched(tree)[cur]
      /\ height \in Nat /\ top \in Int
      BY TreeFacts DEF MenuInv
<1>2. /\ PutBack(rs, cursor, top).rows = rs
      /\ InOrder(rs, PutBack(rs, cursor, top).cursor, PutBack(rs, cursor, top).top, Body)
      BY <1>1, CaretPutBack
<1>3. rows' = rs /\ InOrder(rows', cursor', top', Body')
      BY <1>2, BodyKept DEF Show
<1>4. Saved' /\ (IfsAreFlat(tree) => Nested')
      BY TrailKept
<1> QED BY <1>1, <1>3, <1>4, Kept

LEMMA EnterSymKeeps ==
    ASSUME MenuInv, keys > 0, EnterSym PROVE MenuInv'
<1>1. /\ tree' = tree /\ keys' \in Nat \ {0} /\ UNCHANGED <<cur, height, stack, trail>>
      /\ Show(PutBack(Rows(tree, syms', cur), cursor, top))
      /\ cursor \in DOMAIN rows
      BY Keys DEF EnterSym
<1>2. rows \in Seq(Nodes(tree))
      BY TreeFacts DEF MenuInv
<1>3. cursor \in Nat \ {0}
      BY <1>1, <1>2
<1> QED BY <1>1, <1>3, RemadeKeeps

LEMMA SaveMenuKeeps ==
    ASSUME MenuInv, keys > 0, SaveMenu PROVE MenuInv'
<1>1. /\ tree' = tree /\ keys' \in Nat \ {0} /\ UNCHANGED <<syms, cur, height, stack, trail>>
      /\ Show(PutBack(rows, cursor, top))
      BY Keys DEF SaveMenu
<1>2. /\ rows = Rows(tree, syms', cur) /\ rows \in Seq(Nodes(tree))
      /\ rows # <<>> => cursor \in DOMAIN rows
      BY <1>1, TreeFacts DEF MenuInv, InOrder
<1>3. rows # <<>> => cursor \in Nat \ {0}
      BY <1>2
<1> QED BY <1>1, <1>2, <1>3, RemadeKeeps

LEMMA OpenKeeps ==
    ASSUME MenuInv, keys = 0, Open PROVE MenuInv'
<1> DEFINE rs == Rows(tree, syms', 0)
<1>1. /\ tree' = tree /\ keys' \in Nat \ {0} /\ UNCHANGED <<cur, height, stack, trail>>
      /\ Show(SetItems(rs))
      BY Keys DEF Open
<1>2. /\ cur = 0 /\ cur \in Spots(tree) /\ Searched(tree)[cur] /\ height \in Nat
      /\ rs \in Seq(Nodes(tree))
      BY TreeFacts DEF MenuInv
<1>3. rs = Rows(tree, syms', cur')
      BY <1>1, <1>2
<1> HIDE DEF rs
<1>4. SetItems(rs).rows = rs /\ InOrder(rs, SetItems(rs).cursor, SetItems(rs).top, Body)
      BY <1>2, ItemsSet
<1>5. rows' = rs /\ InOrder(rows', cursor', top', Body')
      BY <1>1, <1>4, BodyKept DEF Show
<1>6. Saved' /\ (IfsAreFlat(tree) => Nested')
      BY <1>1, TrailKept
<1> QED BY <1>1, <1>2, <1>3, <1>5, <1>6, Kept

\* Of a row, of the menu shown: where it is.
LEMMA RowIs ==
    ASSUME MenuInv, keys > 0, cursor \in DOMAIN rows
    PROVE  /\ rows[cursor] \in Nodes(tree) /\ rows \in Seq(Nodes(tree))
           /\ tree.node[rows[cursor]].kind # "if"
           /\ Around(tree)[tree.node[rows[cursor]].up] = Around(tree)[cur]
           /\ Searched(tree)[tree.node[rows[cursor]].up]
<1>1. /\ IsTree(tree) /\ cur \in Spots(tree) /\ Searched(tree)[cur]
      /\ rows = AllRows(tree, syms)[cur] /\ rows \in Seq(Nodes(tree))
      BY TreeFacts, RowsAre DEF MenuInv
<1>2. In(rows[cursor], AllRows(tree, syms)[cur])
      BY <1>1 DEF In
<1> QED BY <1>1, <1>2, RowsBelong

LEMMA DescendKeeps ==
    ASSUME MenuInv, keys > 0, Descend PROVE MenuInv'
<1> DEFINE e == rows[cursor]
           rs == Rows(tree, syms, e)
           n == Len(trail)
<1>1. /\ tree' = tree /\ keys' \in Nat \ {0} /\ UNCHANGED <<syms, height>>
      /\ cursor \in DOMAIN rows /\ tree.node[e].kind \in {"menu", "choice"}
      /\ stack' = Append(stack, [cursor |-> cursor, top |-> top])
      /\ trail' = Append(trail, [node |-> e, rows |-> rows])
      /\ cur' = e /\ Show(SetItems(rs))
      BY Keys DEF Descend, Here
<1>2. /\ e \in Nodes(tree) /\ rows \in Seq(Nodes(tree))
      /\ Around(tree)[tree.node[e].up] = Around(tree)[cur]
      /\ Searched(tree)[tree.node[e].up]
      BY <1>1, RowIs
<1>3. IsTree(tree) /\ e \in Spots(tree) /\ rs \in Seq(Nodes(tree)) /\ height \in Nat
      BY <1>2, TreeFacts DEF MenuInv, Spots
<1>4. Searched(tree)[e]
      BY <1>1, <1>2, <1>3, SearchedAt
<1>5. rs = Rows(tree, syms', cur')
      BY <1>1
<1> HIDE DEF rs
<1>6. SetItems(rs).rows = rs /\ InOrder(rs, SetItems(rs).cursor, SetItems(rs).top, Body)
      BY <1>3, ItemsSet
<1>7. rows' = rs /\ InOrder(rows', cursor', top', Body')
      BY <1>1, <1>6, BodyKept DEF Show
<1>8. cursor \in Nat \ {0} /\ top \in Int
      BY <1>1, <1>2 DEF MenuInv
<1> HIDE DEF e
<1>9. /\ stack \in Seq(Depths) /\ trail \in Seq(Marks) /\ Len(stack) = n /\ n \in Nat
      /\ \A i \in 1..n : /\ stack[i].cursor \in DOMAIN trail[i].rows
                         /\ trail[i].rows[stack[i].cursor] = trail[i].node
      BY DEF MenuInv, Saved
<1>10. [cursor |-> cursor, top |-> top] \in Depths /\ [node |-> e, rows |-> rows] \in Marks
      BY <1>2, <1>8 DEF Depths, Marks
<1>11. /\ stack' \in Seq(Depths) /\ trail' \in Seq(Marks)
       /\ Len(stack') = n + 1 /\ Len(trail') = n + 1
       /\ \A i \in 1..n : stack'[i] = stack[i] /\ trail'[i] = trail[i]
       /\ stack'[n+1].cursor = cursor /\ trail'[n+1].node = e /\ trail'[n+1].rows = rows
  <2>1. /\ stack' \in Seq(Depths) /\ Len(stack') = n + 1
        /\ \A i \in 1..n : stack'[i] = stack[i]
        /\ stack'[n+1] = [cursor |-> cursor, top |-> top]
        BY <1>1, <1>9, <1>10
  <2>2. /\ trail' \in Seq(Marks) /\ Len(trail') = n + 1
        /\ \A i \in 1..n : trail'[i] = trail[i]
        /\ trail'[n+1] = [node |-> e, rows |-> rows]
        BY <1>1, <1>9, <1>10
  <2> QED BY <2>1, <2>2
<1>12. \A i \in 1..(n+1) : i \in 1..n \/ i = n + 1
      BY <1>9
<1>13. Saved'
  <2>1. \A i \in 1..(n+1) : /\ stack'[i].cursor \in DOMAIN trail'[i].rows
                            /\ trail'[i].rows[stack'[i].cursor] = trail'[i].node
        BY <1>1, <1>9, <1>11, <1>12 DEF e
  <2>2. Depths' = Depths /\ Marks' = Marks
        BY <1>1 DEF Depths, Marks
  <2> HIDE DEF n
  <2> QED BY <1>11, <2>1, <2>2 DEF Saved
<1>14. ASSUME IfsAreFlat(tree) PROVE Nested'
  <2>0. Nested
        BY <1>14 DEF MenuInv
  <2>1. tree.node[e].up = Around(tree)[tree.node[e].up]
    <3>1. tree.node[e].up \in Spots(tree)
          BY <1>2, <1>3, Ranks
    <3>2. tree.node[e].up # 0 => tree.node[tree.node[e].up].kind # "if"
          BY <1>1, <1>2, <1>14 DEF IfsAreFlat, e
    <3> QED BY <1>3, <3>1, <3>2, AroundAt
  <2>2. Around(tree)[cur] = cur
    <3>1. cur \in Spots(tree) /\ (cur # 0 => tree.node[cur].kind # "if")
          BY <2>0 DEF MenuInv, Nested
    <3> QED BY <1>3, <3>1, AroundAt
  <2>3. tree.node[e].up = cur
        BY <1>2, <2>1, <2>2 DEF e
  <2>4. tree.node[e].kind # "if"
        BY <1>1 DEF e
  <2>5. n > 0 => trail[n].node = cur
    <3>1. n > 0 => trail # <<>>
          BY <1>9
    <3> QED BY <2>0, <3>1 DEF Nested
  <2>6. \A i \in 2..(n+1) : tree.node[trail'[i].node].up = trail'[i-1].node
    <3> SUFFICES ASSUME NEW i \in 2..(n+1) PROVE tree.node[trail'[i].node].up = trail'[i-1].node
        OBVIOUS
    <3>1. i - 1 \in 1..n
          BY <1>9
    <3>2. CASE i = n + 1
      <4>1. n > 0 /\ i - 1 = n /\ n \in 1..n
            BY <1>9, <3>2
      <4> QED BY <1>11, <2>3, <2>5, <3>2, <4>1
    <3>3. CASE i # n + 1
      <4>1. i \in 2..n /\ i \in 1..n
            BY <1>9, <3>3
      <4> QED BY <1>11, <2>0, <3>1, <4>1 DEF Nested
    <3> QED BY <3>2, <3>3
  <2> HIDE DEF n
  <2> QED BY <1>1, <1>11, <2>4, <2>6 DEF Nested, e
<1>15. cur' \in Spots(tree) /\ Searched(tree)[cur'] /\ height' \in Nat
      BY <1>1, <1>3, <1>4 DEF e
<1> QED BY <1>1, <1>5, <1>7, <1>13, <1>14, <1>15, Kept

LEMMA FrontIs ==
    ASSUME NEW S, NEW s \in Seq(S), s # <<>>
    PROVE  /\ Front(s) \in Seq(S) /\ Len(Front(s)) = Len(s) - 1 /\ Len(s) \in Nat \ {0}
           /\ \A i \in 1..Len(s)-1 : Front(s)[i] = s[i]
           /\ Last(s) = s[Len(s)] /\ Last(s) \in S
<1> DEFINE n == Len(s)
<1>1. n \in Nat \ {0} /\ n - 1 \in Int /\ 1 \in Int /\ s[n] \in S
      OBVIOUS
<1>2. \A i \in 1..n-1 : s[i] \in S
      BY <1>1
<1>3. Front(s) = SubSeq(s, 1, n - 1) /\ Last(s) = s[n]
      BY DEF Front, Last
<1> HIDE DEF n
<1>4. /\ SubSeq(s, 1, n - 1) \in Seq(S)
      /\ Len(SubSeq(s, 1, n - 1)) = IF 1 <= n - 1 THEN (n - 1) - 1 + 1 ELSE 0
      /\ \A i \in 1..((n-1) - 1 + 1) : SubSeq(s, 1, n - 1)[i] = s[1 + i - 1]
      BY <1>1, <1>2, SubSeqProperties
<1>5. /\ (IF 1 <= n - 1 THEN (n - 1) - 1 + 1 ELSE 0) = n - 1
      /\ (n - 1) - 1 + 1 = n - 1
      /\ \A i \in 1..n-1 : 1 + i - 1 = i
      BY <1>1
<1>6. /\ Front(s) \in Seq(S) /\ Len(Front(s)) = n - 1
      /\ \A i \in 1..n-1 : Front(s)[i] = s[i]
      BY <1>3, <1>4, <1>5
<1> QED BY <1>1, <1>3, <1>6 DEF n

\* Leaving a menu: what is saved of those further out stays.
LEMMA LeavingKeeps ==
    ASSUME MenuInv, tree' = tree, cur # 0, cur' = tree.node[cur].up,
           stack' = IF stack = <<>> THEN <<>> ELSE Front(stack),
           trail' = IF trail = <<>> THEN <<>> ELSE Front(trail)
    PROVE  Saved' /\ (IfsAreFlat(tree) => Nested')
<1> DEFINE n == Len(trail)
<1>1. /\ stack \in Seq(Depths) /\ trail \in Seq(Marks) /\ Len(stack) = n /\ n \in Nat
      /\ \A i \in 1..n : /\ stack[i].cursor \in DOMAIN trail[i].rows
                         /\ trail[i].rows[stack[i].cursor] = trail[i].node
      BY DEF MenuInv, Saved
<1>2. Depths' = Depths /\ Marks' = Marks
      BY DEF Depths, Marks
<1>3. cur' # 0 /\ IfsAreFlat(tree) => tree.node[cur'].kind # "if"
  <2>1. cur \in Nodes(tree) /\ Searched(tree)[cur]
        BY DEF MenuInv, Spots
  <2>2. tree.node[cur].kind \in {"menu", "choice", "if"}
        BY <2>1, TreeFacts, SearchedAt DEF MenuInv
  <2>3. IfsAreFlat(tree) => tree.node[cur].kind \in {"menu", "choice"}
        BY <2>2 DEF MenuInv, Nested
  <2> QED BY <2>1, <2>3 DEF IfsAreFlat
<1>4. CASE trail = <<>>
  <2>1. stack = <<>>
        BY <1>1, <1>4
  <2>2. stack' = <<>> /\ trail' = <<>>
        BY <1>4, <2>1
  <2>3. /\ stack' \in Seq(Depths') /\ trail' \in Seq(Marks') /\ Len(stack') = Len(trail')
        /\ 1..Len(trail') = {}
    <3>1. <<>> \in Seq(Depths) /\ <<>> \in Seq(Marks) /\ Len(<<>>) = 0 /\ 1..0 = {}
          OBVIOUS
    <3> QED BY <1>2, <2>2, <3>1
  <2>4. Saved'
        BY <2>3 DEF Saved
  <2>5. Len(trail') = 0 /\ 2..0 = {}
        BY <2>2
  <2>6. IfsAreFlat(tree) => Nested'
        BY <1>3, <2>2, <2>5 DEF Nested
  <2> QED BY <2>4, <2>6
<1>5. CASE trail # <<>>
  <2>1. stack # <<>>
        BY <1>1, <1>5
  <2>2. /\ stack' \in Seq(Depths) /\ Len(stack') = n - 1 /\ n \in Nat \ {0}
        /\ \A i \in 1..n-1 : stack'[i] = stack[i]
        BY <1>1, <2>1, FrontIs
  <2>3. /\ trail' \in Seq(Marks) /\ Len(trail') = n - 1
        /\ \A i \in 1..n-1 : trail'[i] = trail[i]
        BY <1>1, <1>5, FrontIs
  <2>4. \A i \in 1..n-1 : i \in 1..n
        BY <2>2
  <2>5. Saved'
    <3>1. \A i \in 1..n-1 : /\ stack'[i].cursor \in DOMAIN trail'[i].rows
                            /\ trail'[i].rows[stack'[i].cursor] = trail'[i].node
          BY <1>1, <2>2, <2>3, <2>4
    <3> HIDE DEF n
    <3> QED BY <1>2, <2>2, <2>3, <3>1 DEF Saved
  <2>6. ASSUME IfsAreFlat(tree) PROVE Nested'
    <3>1. Nested
          BY <2>6 DEF MenuInv
    <3>2. n - 1 > 0 => trail'[n-1].node = cur'
      <4>1. n - 1 > 0 => n \in 2..n /\ n - 1 \in 1..n-1
            BY <2>2
      <4>2. trail[n].node = cur
            BY <1>5, <3>1 DEF Nested
      <4> QED BY <2>3, <3>1, <4>1, <4>2 DEF Nested
    <3>3. trail' # <<>> => n - 1 > 0
          BY <2>2, <2>3
    <3>4. ASSUME NEW i \in 2..n-1 PROVE tree.node[trail'[i].node].up = trail'[i-1].node
      <4>1. i \in 2..n /\ i \in 1..n-1 /\ i - 1 \in 1..n-1
            BY <2>2
      <4> QED BY <2>3, <3>1, <4>1 DEF Nested
    <3> HIDE DEF n
    <3> QED BY <1>3, <2>3, <2>6, <3>2, <3>3, <3>4 DEF Nested
  <2> QED BY <2>5, <2>6
<1> QED BY <1>4, <1>5

LEMMA AscendKeeps ==
    ASSUME MenuInv, Ascend PROVE MenuInv'
<1> DEFINE rs == Rows(tree, syms, cur')
<1>1. /\ tree' = tree /\ keys' \in Nat \ {0} /\ UNCHANGED <<syms, height>>
      /\ cur # 0 /\ cur' = tree.node[cur].up
      /\ \/ stack = <<>> /\ Show(SetItems(rs)) /\ stack' = stack
         \/ /\ stack # <<>> /\ stack' = Front(stack)
            /\ Show(PutBack(rs, Last(stack).cursor, Last(stack).top))
      /\ trail' = IF trail = <<>> THEN <<>> ELSE Front(trail)
      BY Keys DEF Ascend
<1>2. /\ IsTree(tree) /\ cur \in Nodes(tree) /\ cur \in Spots(tree) /\ Searched(tree)[cur]
      /\ height \in Nat
      BY <1>1, TreeFacts DEF MenuInv, Spots
<1>3. cur' \in Spots(tree) /\ Searched(tree)[cur']
      BY <1>1, <1>2, Ranks, SearchedAt
<1>4. rs \in Seq(Nodes(tree)) /\ rs = Rows(tree, syms', cur')
      BY <1>1, <1>3, TreeFacts
<1> HIDE DEF rs
<1>5. rows' = rs /\ InOrder(rows', cursor', top', Body')
  <2>1. CASE stack = <<>>
    <3>1. SetItems(rs).rows = rs /\ InOrder(rs, SetItems(rs).cursor, SetItems(rs).top, Body)
          BY <1>2, <1>4, ItemsSet
    <3> QED BY <1>1, <2>1, <3>1, BodyKept DEF Show
  <2>2. CASE stack # <<>>
    <3> DEFINE l == Last(stack)
    <3>1. l \in Depths
          BY <2>2, FrontIs DEF MenuInv, Saved
    <3>2. l.cursor \in Nat \ {0} /\ l.top \in Int
          BY <3>1 DEF Depths
    <3> HIDE DEF l
    <3>3. /\ PutBack(rs, l.cursor, l.top).rows = rs
          /\ InOrder(rs, PutBack(rs, l.cursor, l.top).cursor, PutBack(rs, l.cursor, l.top).top,
                     Body)
          BY <1>2, <1>4, <3>2, CaretPutBack
    <3> QED BY <1>1, <2>2, <3>3, BodyKept DEF Show, l
  <2> QED BY <2>1, <2>2
<1>6. Saved' /\ (IfsAreFlat(tree) => Nested')
  <2>1. stack' = IF stack = <<>> THEN <<>> ELSE Front(stack)
        BY <1>1
  <2> QED BY <1>1, <2>1, LeavingKeeps
<1>7. height' \in Nat
      BY <1>1, <1>2
<1> QED BY <1>1, <1>3, <1>4, <1>5, <1>6, <1>7, Kept

LEMMA ContainerIs ==
    ASSUME NEW n
    PROVE  FindContainer(n) = Around(tree)[tree.node[n].up]
BY DEF FindContainer, Around

\* The row of what was found: there is one, and the caret is on it.
LEMMA JumpLands ==
    ASSUME MenuInv, NEW n \in Nodes(tree), JumpTo(n)
    PROVE  /\ cur' \in Spots(tree) /\ Searched(tree)[cur']
           /\ cur' # 0 => tree.node[cur'].kind # "if"
           /\ rows' = Rows(tree, syms', cur') /\ InOrder(rows', cursor', top', Body')
           /\ cursor' \in DOMAIN rows' /\ rows'[cursor'] = n
<1> DEFINE rs == Rows(tree, syms, cur')
           at == {i \in DOMAIN rs : rs[i] = n}
           c == IF at = {} THEN SetItems(rs).cursor ELSE CHOOSE i \in at : TRUE
           u == ClampScroll(rs, c, SetItems(rs).top, Body)
<1>1. /\ tree' = tree /\ UNCHANGED <<syms, height>>
      /\ Hit(n) /\ cur' = FindContainer(n)
      /\ Show([rows |-> rs, cursor |-> c, top |-> u])
      BY Keys DEF JumpTo
<1>2. /\ tree.node[n].kind \in {"sym", "choice"} /\ Searched(tree)[tree.node[n].up]
      /\ HasRow(tree, syms, n)
      BY <1>1 DEF Hit, Offered, HasRow
<1>3. IsTree(tree) /\ tree.node[n].up \in Spots(tree) /\ height \in Nat
      BY TreeFacts, Ranks DEF MenuInv
<1>4. cur' = Around(tree)[tree.node[n].up]
      BY <1>1, ContainerIs
<1>5. /\ cur' \in Spots(tree) /\ Searched(tree)[cur']
      /\ cur' # 0 => tree.node[cur'].kind # "if"
      BY <1>2, <1>3, <1>4, AroundSearched
<1>6. In(n, rs) /\ rs \in Seq(Nodes(tree)) /\ rs = Rows(tree, syms', cur')
      BY <1>1, <1>2, <1>3, <1>4, <1>5, RowsComplete, RowsAre, TreeFacts
<1> HIDE DEF rs
<1>7. at # {} /\ c = CHOOSE i \in at : TRUE
      BY <1>6 DEF In
<1>8. c \in DOMAIN rs /\ rs[c] = n
      BY <1>7
<1> HIDE DEF c
<1>9. SetItems(rs).top \in Int
      BY <1>3, <1>6, ItemsSet DEF InOrder
<1>10. InOrder(rs, c, u, Body)
      BY <1>3, <1>6, <1>8, <1>9, BodyNat, Clamped
<1> HIDE DEF u
<1>11. rows' = rs /\ cursor' = c /\ top' = u
      BY <1>1 DEF Show
<1>12. InOrder(rows', cursor', top', Body')
      BY <1>1, <1>10, <1>11, BodyKept
<1> QED BY <1>5, <1>6, <1>8, <1>11, <1>12

LEMMA JumpToKeeps ==
    ASSUME MenuInv, NEW n \in Nodes(tree), JumpTo(n) PROVE MenuInv'
<1>1. /\ tree' = tree /\ keys' \in Nat \ {0} /\ height' \in Nat
      /\ stack' = <<>> /\ trail' = <<>>
      BY Keys DEF JumpTo, MenuInv
<1>2. Saved'
      BY <1>1 DEF Saved, Depths, Marks
<1>3. Len(trail') = 0 /\ 2..0 = {}
      BY <1>1
<1>4. Nested'
      BY <1>1, <1>3, JumpLands DEF Nested
<1> QED BY <1>1, <1>2, <1>4, JumpLands, Kept

LEMMA MenuInvInit ==
    ASSUME MInit PROVE MenuInv
<1>1. /\ tree \in {Linked(k) : k \in Trees} /\ height \in Nat
      /\ cur = 0 /\ stack = <<>> /\ trail = <<>> /\ top = 1 /\ keys = 0
      BY HeightsAssumption DEF MInit, KInit
<1>2. IsTree(tree) /\ cur \in Spots(tree)
      BY <1>1, LinkedIsTree DEF Spots
<1>3. Searched(tree)[cur]
      BY <1>1, <1>2, SearchedAt
<1>4. Saved
      BY <1>1 DEF Saved
<1>5. Len(trail) = 0 /\ 2..0 = {}
      BY <1>1
<1>6. Nested
      BY <1>1, <1>5 DEF Nested
<1> QED BY <1>1, <1>2, <1>3, <1>4, <1>6 DEF MenuInv

LEMMA MenuInvNext ==
    ASSUME MenuInv, [MNext]_<<kconfVars, menuVars>> PROVE MenuInv'
<1>1. CASE Open
  <2>1. keys = 0
        BY <1>1 DEF Open
  <2> QED BY <1>1, <2>1, OpenKeeps
<1>2. CASE keys > 0 /\ Move
      BY <1>2, MoveKeeps
<1>3. CASE keys > 0 /\ Jump
      BY <1>3, JumpKeeps
<1>4. CASE keys > 0 /\ Resize
      BY <1>4, ResizeKeeps
<1>5. CASE keys > 0 /\ EnterSym
      BY <1>5, EnterSymKeeps
<1>6. CASE keys > 0 /\ Descend
      BY <1>6, DescendKeeps
<1>7. CASE Ascend
      BY <1>7, AscendKeeps
<1>8. CASE keys > 0 /\ SaveMenu
      BY <1>8, SaveMenuKeeps
<1>9. CASE \E n \in Nodes(tree) : JumpTo(n)
      BY <1>9, JumpToKeeps
<1>10. CASE UNCHANGED <<kconfVars, menuVars>>
  <2>1. UNCHANGED <<tree, syms, cur, rows, cursor, top, height, stack, keys, trail>>
        BY <1>10 DEF kconfVars, menuVars, listVars
  <2>2. Body' = Body /\ Depths' = Depths /\ Marks' = Marks
        BY <2>1 DEF Body, Depths, Marks
  <2>3. Saved' /\ (IfsAreFlat(tree) => Nested')
        BY <2>1, TrailKept
  <2> QED BY <2>1, <2>2, <2>3 DEF MenuInv
<1> QED BY <1>1, <1>2, <1>3, <1>4, <1>5, <1>6, <1>7, <1>8, <1>9, <1>10 DEF MNext

LEMMA MenuAlways == MenuSpec => []MenuInv
<1>1. MInit => MenuInv
      BY MenuInvInit
<1>2. MenuInv /\ [MNext]_<<kconfVars, menuVars>> => MenuInv'
      BY MenuInvNext
<1> QED BY <1>1, <1>2, PTL DEF MenuSpec

-----------------------------------------------------------------------------
(* Theorems *)

LEMMA InvShows ==
    ASSUME MenuInv PROVE CaretShown
BY DEF MenuInv, InOrder, CaretShown

LEMMA InvLandsBack ==
    ASSUME MenuInv, IfsAreFlat(tree) PROVE LandsBack
<1> DEFINE rs == Rows(tree, syms, cur')
           n == Len(trail)
<1> SUFFICES ASSUME Ascend, trail # <<>>,
                    Last(trail).rows = Rows(tree, syms', FindContainer(cur))
             PROVE  CaretOn(cur)
    BY DEF LandsBack
<1>1. /\ tree' = tree /\ UNCHANGED <<syms, height>>
      /\ cur # 0 /\ cur' = tree.node[cur].up
      /\ \/ stack = <<>>
         \/ Show(PutBack(rs, Last(stack).cursor, Last(stack).top))
      BY Keys DEF Ascend
<1>2. /\ stack \in Seq(Depths) /\ trail \in Seq(Marks) /\ Len(stack) = n /\ n \in Nat \ {0}
      /\ stack[n].cursor \in DOMAIN trail[n].rows
      /\ trail[n].rows[stack[n].cursor] = trail[n].node
      /\ stack # <<>>
  <2>1. trail \in Seq(Marks) /\ stack \in Seq(Depths) /\ Len(stack) = n
        BY DEF MenuInv, Saved
  <2>2. n \in Nat \ {0} /\ n \in 1..n
        BY <2>1
  <2>3. stack # <<>>
        BY <2>1, <2>2
  <2> QED BY <2>1, <2>2, <2>3 DEF MenuInv, Saved
<1>3. trail[n].node = cur
      BY DEF MenuInv, Nested
<1>4. /\ IsTree(tree) /\ cur \in Nodes(tree) /\ height \in Nat /\ Searched(tree)[cur]
      /\ cur \in Spots(tree)
      BY <1>1, TreeFacts DEF MenuInv, Spots
<1>5. tree.node[cur].kind \in {"menu", "choice"}
      BY <1>1, <1>4, SearchedAt DEF MenuInv, Nested
<1>6. tree.node[cur].up \in Spots(tree)
      BY <1>4, Ranks
<1>7. FindContainer(cur) = cur'
  <2>1. tree.node[cur].up # 0 => tree.node[tree.node[cur].up].kind # "if"
        BY <1>4, <1>5 DEF IfsAreFlat
  <2> QED BY <1>1, <1>4, <1>6, <2>1, AroundAt, ContainerIs
<1>8. rs = trail[n].rows /\ rs \in Seq(Nodes(tree))
      BY <1>1, <1>4, <1>6, <1>7, TreeFacts DEF Last
<1> HIDE DEF rs
<1> DEFINE l == stack[n]
<1>9. l.cursor \in Nat \ {0} /\ l.top \in Int
  <2>1. l \in Depths
        BY <1>2
  <2> QED BY <2>1 DEF Depths
<1>10. l.cursor \in DOMAIN rs /\ rs[l.cursor] = cur
      BY <1>2, <1>3, <1>8
<1>11. Show(PutBack(rs, l.cursor, l.top))
      BY <1>1, <1>2 DEF Last
<1> HIDE DEF l
<1>12. PutBack(rs, l.cursor, l.top).rows = rs /\ PutBack(rs, l.cursor, l.top).cursor = l.cursor
      BY <1>4, <1>8, <1>9, <1>10, CaretPutBack
<1> QED BY <1>10, <1>11, <1>12 DEF Show, CaretOn

\* Whatever the user presses, however the terminal is resized, on every tree of
\* menus: the caret is on the screen; where ifs are flat, Esc goes back to the row
\* a menu was entered from, if the rows around it are still those; and what is
\* found by searching has a row, in the menu that is shown, with the caret on it.
THEOREM CaretIsFollowed == MenuSpec => CaretFollows
<1>1. MenuInv => CaretShown
      BY InvShows
<1>2. MenuInv => [IfsAreFlat(tree) => LandsBack]_<<kconfVars, menuVars>>
      BY InvLandsBack
<1>3. MenuInv => [LandsOnHit]_<<kconfVars, menuVars>>
      BY JumpLands DEF LandsOnHit, CaretOn
<1>4. MenuSpec => []MenuInv
      BY MenuAlways
<1> QED BY <1>1, <1>2, <1>3, <1>4, PTL DEF CaretFollows

-----------------------------------------------------------------------------
(* Partition tables *)

LEMMA Sized == Word = 8388608 /\ Sector = 8 /\ AppAlign = 128 /\ TableSize = 8
BY SMT DEF Word, Sector, AppAlign, TableSize, Unit

LEMMA WordIs == Word \in Nat \ {0} /\ AppAlign \in Nat /\ TableSize \in Nat
BY SMT, Sized

LEMMA Scaled == \A s \in DOMAIN Scale : Scale[s] \in Nat
<1> DEFINE K == 1024 \div Unit
           M == (1024 * 1024) \div Unit
<1>1. K \in Nat /\ M \in Nat
      BY SMT DEF Unit
<1>2. Scale = [s \in {"", "K", "M"} |-> CASE s = "" -> 1 [] s = "K" -> K [] s = "M" -> M]
      BY SMT DEF Scale
<1> HIDE DEF K, M
<1>3. DOMAIN Scale = {"", "K", "M"} /\ Scale[""] = 1 /\ Scale["K"] = K /\ Scale["M"] = M
      BY <1>2
<1>4. 1 \in Nat
      OBVIOUS
<1>5. Scale[""] \in Nat /\ Scale["K"] \in Nat /\ Scale["M"] \in Nat
      BY <1>1, <1>3, <1>4, Zenon
<1> QED BY <1>3, <1>5, Zenon

\* Rounding up goes to a multiple, and does not wrap below the last 64K.
LEMMA RoundsUp ==
    ASSUME NEW n \in Nat, NEW m \in {8, 128}, n % m # 0
    PROVE  /\ n + m - (n % m) \in Nat
           /\ n <= n + m - (n % m) /\ n + m - (n % m) < n + m
           /\ (n + m - (n % m)) % m = 0
<1>1. CASE m = 8
      BY <1>1, SMT
<1>2. CASE m = 128
      BY <1>2, SMT
<1> QED BY <1>1, <1>2

LEMMA AlignedUp ==
    ASSUME NEW n \in Nat, n <= Word - AppAlign, NEW align \in {Sector, AppAlign}
    PROVE  /\ AlignUp(n, align) \in Nat
           /\ n <= AlignUp(n, align) /\ AlignUp(n, align) <= Word
           /\ AlignUp(n, align) % align = 0
<1>1. align \in {8, 128} /\ Word = 8388608 /\ AppAlign = 128
      BY Sized, SMT
<1>2. CASE n % align = 0
  <2>1. AlignUp(n, align) = n
        BY <1>2, SMT DEF AlignUp
  <2> QED BY <1>1, <1>2, <2>1, SMT
<1>3. CASE n % align # 0
  <2> DEFINE m == n + align - (n % align)
  <2>1. AlignUp(n, align) = m % 8388608
        BY <1>1, <1>3, SMT DEF AlignUp
  <2>2. m \in Nat /\ n <= m /\ m < n + align /\ m % align = 0
        BY <1>1, <1>3, RoundsUp
  <2> HIDE DEF m
  <2>3. m < 8388608
        BY <1>1, <2>2, SMT
  <2>4. m % 8388608 = m
        BY <2>2, <2>3, SMT
  <2> QED BY <1>1, <2>1, <2>2, <2>3, <2>4, SMT
<1> QED BY <1>2, <1>3

Amounts == Nat \X DOMAIN Scale
Maybe == {<<>>} \cup {<<n>> : n \in Nat}

\* A table as it may be written, and where the command line puts it: not in the
\* last 64K of the address space.
RowsWritten ==
    [name : STRING, type : STRING, sub : STRING, off : {<<>>} \cup Amounts,
     size : {<<>>} \cup ({"", "-"} \X Amounts), flags : SUBSET STRING]
IsTable(t) ==
    /\ t.rows \in Seq(RowsWritten)
    /\ t.opts \in [table : 0..Word - AppAlign - TableSize, boot : Maybe, recovery : Maybe,
                   md5 : BOOLEAN, secure : STRING, flash : Nat]

\* The entries of a table of these names, types and subtypes.
Ents(Ns, Ts, Us) ==
    [name : Ns, type : Ts, subtype : Us, set : BOOLEAN, offset : Nat, end : BOOLEAN, size : Nat,
     flags : SUBSET {"encrypted", "readonly"}]

Types(t) == {TypeOf(t.rows[i]) : i \in DOMAIN t.rows}
Subs(t) == {SubtypeOf(t.rows[i]) : i \in DOMAIN t.rows}
AllEnts(t) == Ents(STRING, Types(t), Subs(t))

\* A bootloader is as long as there is room for it.
BootSized(t, e) ==
    e.type = Boot => /\ t.opts.boot # <<>> /\ ~e.end
                     /\ e.size = (t.opts.table - t.opts.boot[1]) % Word
EntsOf(t) == {e \in AllEnts(t) : BootSized(t, e)}

LEMMA AmountIs ==
    ASSUME NEW a \in Amounts
    PROVE  Amount(a) \in Nat
<1>1. a[1] \in Nat /\ Scale[a[2]] \in Nat
      BY Scaled DEF Amounts
<1>2. a[1] * Scale[a[2]] \in Nat
      BY <1>1
<1> QED BY <1>2, WordIs DEF Amount

LEMMA EntryIs ==
    ASSUME NEW t, IsTable(t), NEW i \in DOMAIN t.rows, Readable(t.rows[i], t.opts)
    PROVE  EntryOf(t.rows[i], t.opts) \in EntsOf(t)
<1> DEFINE row == t.rows[i]
           opts == t.opts
           e == EntryOf(row, opts)
           kind == [type |-> TypeOf(row), subtype |-> SubtypeOf(row)]
           placed == row.off # <<>> /\ ~Located(kind)
           sized == kind.type \notin {Boot, Ptable}
           offset == IF placed THEN Amount(row.off) ELSE 0
           end == sized /\ row.size[1] = "-"
           size == CASE sized -> Amount(row.size[2])
                     [] kind.type = Boot -> (opts.table - opts.boot[1]) % Word
                     [] OTHER -> TableSize
<1>1. e = [name |-> row.name, type |-> kind.type, subtype |-> kind.subtype,
           set |-> placed, offset |-> offset, end |-> end, size |-> size,
           flags |-> row.flags \cap {"encrypted", "readonly"}]
      BY DEF EntryOf
<1>2. /\ row.name \in STRING /\ row.off \in {<<>>} \cup Amounts
      /\ row.size \in {<<>>} \cup ({"", "-"} \X Amounts)
  <2>1. row \in RowsWritten
        BY DEF IsTable
  <2> QED BY <2>1 DEF RowsWritten
<1>3. opts.table \in Nat /\ opts.boot \in Maybe
  <2>1. opts.table \in 0..Word - AppAlign - TableSize
        BY DEF IsTable
  <2>2. opts.table \in Nat
        BY <2>1, WordIs
  <2>3. opts.boot \in Maybe
        BY DEF IsTable
  <2> QED BY <2>2, <2>3
<1>4. kind.type = TypeOf(row) /\ kind.type \in Types(t) /\ kind.subtype \in Subs(t)
      BY DEF Types, Subs
<1>5. /\ kind.type = Boot => opts.boot # <<>>
      /\ sized => row.size # <<>>
      BY <1>4 DEF Readable
<1> HIDE DEF row, opts, kind
<1>6. placed \in BOOLEAN /\ end \in BOOLEAN
      OBVIOUS
<1>7. offset \in Nat
      BY <1>2, AmountIs
<1>8. size \in Nat
  <2>1. CASE sized
    <3>1. row.size \in {"", "-"} \X Amounts
          BY <1>2, <1>5, <2>1
    <3>2. row.size[2] \in Amounts
          BY <3>1
    <3> QED BY <2>1, <3>2, AmountIs
  <2>2. CASE ~sized /\ kind.type = Boot
    <3>1. opts.boot[1] \in Nat
          BY <1>3, <1>5, <2>2 DEF Maybe
    <3> QED BY <1>3, <2>2, <3>1, WordIs
  <2>3. CASE ~sized /\ kind.type # Boot
        BY <2>3, WordIs
  <2> QED BY <2>1, <2>2, <2>3
<1>9. kind.type = Boot =>
         /\ opts.boot # <<>> /\ ~end
         /\ size = (opts.table - opts.boot[1]) % Word
      BY <1>5
<1> HIDE DEF placed, sized, offset, end, size
<1>10. e \in AllEnts(t) /\ e.type = kind.type /\ e.end = end /\ e.size = size
  <2>1. row.flags \cap {"encrypted", "readonly"} \in SUBSET {"encrypted", "readonly"}
        OBVIOUS
  <2> DEFINE flags == row.flags \cap {"encrypted", "readonly"}
             type == kind.type
             subtype == kind.subtype
             name == row.name
  <2> HIDE DEF flags, type, subtype, name
  <2>2. /\ type \in Types(t) /\ subtype \in Subs(t) /\ name \in STRING
        /\ flags \in SUBSET {"encrypted", "readonly"}
        BY <1>2, <1>4, <2>1 DEF type, subtype, name, flags
  <2>3. e = [name |-> name, type |-> type, subtype |-> subtype, set |-> placed,
             offset |-> offset, end |-> end, size |-> size, flags |-> flags]
        BY <1>1 DEF type, subtype, name, flags
  <2>4. e \in AllEnts(t) /\ e.type = type /\ e.end = end /\ e.size = size
        BY <1>6, <1>7, <1>8, <2>2, <2>3 DEF AllEnts, Ents
  <2> QED BY <2>4 DEF type
<1> QED BY <1>9, <1>10 DEF row, opts, EntsOf, BootSized

LEMMA Remains ==
    ASSUME NEW n \in Nat, NEW m \in Nat \ {0}, n < m
    PROVE  n % m = n
OBVIOUS

LEMMA AlignedTo == \A y : AlignOf(y) \in {Sector, AppAlign}
BY DEF AlignOf

LEMMA AlignedIs ==
    ASSUME NEW n \in Nat, NEW align \in {Sector, AppAlign}
    PROVE  AlignUp(n, align) \in Nat
<1>1. align \in {8, 128}
      BY Sized, SMT
<1>2. n % align # 0 => n + align - (n % align) \in Nat
      BY <1>1, RoundsUp
<1> DEFINE m == n + align - (n % align)
<1>3. AlignUp(n, align) = IF n % align = 0 THEN n ELSE m % Word
      BY DEF AlignUp
<1> HIDE DEF m
<1>4. m \in Nat => m % Word \in Nat
      BY WordIs
<1> QED BY <1>2, <1>3, <1>4 DEF m

Ends(e) == e.offset + e.size

\* No entry reaches the last 64K of the address space.
Calm(es) == \A k \in DOMAIN es : Ends(es[k]) <= Word - AppAlign

\* Entries whose place is not given on the command line, one behind the other.
InLine(es, last, base) ==
    /\ base <= last /\ last <= Word - AppAlign
    /\ \A k \in DOMAIN es : ~Located(es[k]) => base <= es[k].offset /\ Ends(es[k]) <= last
    /\ \A j, k \in DOMAIN es :
          j < k /\ ~Located(es[j]) /\ ~Located(es[k]) => Ends(es[j]) <= es[k].offset

Base(t) == t.opts.table + TableSize
St(t) == [ok : BOOLEAN, last : Nat, entries : Seq(EntsOf(t))]
Good(st, t) == Calm(st.entries) => InLine(st.entries, st.last, Base(t))

LEMMA LineGrows ==
    ASSUME NEW S, NEW es \in Seq(S), NEW e \in S, NEW last \in Nat, NEW next \in Nat,
           NEW base \in Nat,
           \A x \in S : x.offset \in Nat /\ x.size \in Nat,
           Calm(es) => InLine(es, last, base),
           \/ Located(e) /\ next = last
           \/ ~Located(e) /\ next = Ends(e) % Word /\ (Calm(es) => last <= e.offset),
           Calm(Append(es, e))
    PROVE  InLine(Append(es, e), next, base)
<1> DEFINE n == Len(es) + 1
           as == Append(es, e)
<1>1. /\ DOMAIN as = DOMAIN es \cup {n} /\ as[n] = e /\ n \in Nat
      /\ \A k \in DOMAIN es : as[k] = es[k] /\ k \in Nat /\ k < n
      BY Appended
<1>2. \A k \in DOMAIN as : k \in Nat /\ k <= n
  <2>1. DOMAIN as = 1..n /\ n \in Nat
        OBVIOUS
  <2> HIDE DEF n, as
  <2> QED BY <2>1
<1>3. \A x \in S : x.offset \in Nat /\ Ends(x) \in Nat /\ x.offset <= Ends(x)
      BY DEF Ends
<1>4. \A k \in DOMAIN es : es[k] \in S
      OBVIOUS
<1> HIDE DEF n, as
<1>5. Calm(es) /\ Ends(e) <= Word - AppAlign
      BY <1>1 DEF Calm, as
<1>6. InLine(es, last, base)
      BY <1>5
<1>7. CASE Located(e) /\ next = last
  <2>1. \A k \in DOMAIN as : ~Located(as[k]) => k \in DOMAIN es /\ as[k] = es[k]
        BY <1>1, <1>7
  <2> QED BY <1>6, <1>7, <2>1 DEF InLine, as
<1>8. CASE ~Located(e) /\ next = Ends(e) % Word /\ (Calm(es) => last <= e.offset)
  <2>1. next = Ends(e)
    <3>1. Ends(e) \in Nat /\ Ends(e) < Word /\ Word \in Nat \ {0}
      <4>1. Ends(e) \in Nat
            BY <1>3
      <4>2. Word - AppAlign < Word /\ Word - AppAlign \in Int
            BY Sized, SMT
      <4> QED BY <1>5, <4>1, <4>2, WordIs
    <3>2. Ends(e) % Word = Ends(e)
          BY <3>1, Remains
    <3> QED BY <1>8, <3>2
  <2>2. last <= e.offset /\ e.offset <= Ends(e) /\ e.offset \in Nat /\ Ends(e) \in Nat
        BY <1>3, <1>5, <1>8
  <2>3. base <= next /\ next <= Word - AppAlign
        BY <1>5, <1>6, <2>1, <2>2 DEF InLine
  <2>4. ASSUME NEW k \in DOMAIN as, ~Located(as[k])
        PROVE  base <= as[k].offset /\ Ends(as[k]) <= next
    <3>1. CASE k = n
          BY <1>1, <1>6, <2>1, <2>2, <3>1 DEF InLine
    <3>2. CASE k \in DOMAIN es
      <4>1. as[k] = es[k] /\ Ends(es[k]) \in Nat
            BY <1>1, <1>3, <1>4, <3>2
      <4>2. base <= es[k].offset /\ Ends(es[k]) <= last
            BY <1>6, <2>4, <3>2, <4>1 DEF InLine
      <4> QED BY <2>1, <2>2, <4>1, <4>2
    <3> QED BY <1>1, <3>1, <3>2
  <2>5. ASSUME NEW j \in DOMAIN as, NEW k \in DOMAIN as, j < k,
               ~Located(as[j]), ~Located(as[k])
        PROVE  Ends(as[j]) <= as[k].offset
    <3>1. j \in DOMAIN es /\ as[j] = es[j] /\ Ends(es[j]) \in Nat
      <4>1. j # n
        <5>1. k \in Nat /\ k <= n
              BY <1>2
        <5> QED BY <1>1, <2>5, <5>1
      <4> QED BY <1>1, <1>3, <1>4, <4>1
    <3>2. CASE k = n
      <4>1. Ends(es[j]) <= last
            BY <1>6, <2>5, <3>1 DEF InLine
      <4> QED BY <1>1, <2>2, <3>1, <3>2, <4>1
    <3>3. CASE k \in DOMAIN es
          BY <1>1, <1>6, <2>5, <3>1, <3>3 DEF InLine
    <3> QED BY <1>1, <3>2, <3>3
  <2> QED BY <2>3, <2>4, <2>5 DEF InLine, as
<1> QED BY <1>7, <1>8

\* What an entry is once it has its place.
LEMMA SettledIs ==
    ASSUME NEW t, NEW e \in EntsOf(t), NEW offset \in Nat, NEW size \in Nat,
           e.type = Boot => size = e.size
    PROVE  LET d == Settled(e, offset, size)
           IN  d \in EntsOf(t) /\ d.offset = offset /\ d.size = size /\ (Located(d) <=> Located(e))
<1> DEFINE d == Settled(e, offset, size)
<1>0. e \in AllEnts(t) /\ BootSized(t, e)
      BY DEF EntsOf
<1>1. /\ d \in AllEnts(t) /\ d.offset = offset /\ d.size = size /\ d.end = FALSE
      /\ d.type = e.type /\ d.subtype = e.subtype
      BY <1>0 DEF Settled, AllEnts, Ents
<1>2. BootSized(t, d)
      BY <1>0, <1>1 DEF BootSized
<1> QED BY <1>1, <1>2 DEF Located, EntsOf

LEMMA PlacesOne ==
    ASSUME NEW t, IsTable(t), NEW st \in St(t), NEW e \in EntsOf(t)
    PROVE  /\ PlaceEntry(st, e, t.opts) \in St(t)
           /\ Good(st, t) => Good(PlaceEntry(st, e, t.opts), t)
<1> DEFINE opts == t.opts
           new == PlaceEntry(st, e, opts)
<1>0. /\ opts.table \in Nat /\ Base(t) \in Nat
      /\ opts.boot \in Maybe /\ opts.recovery \in Maybe
  <2>1. opts.table \in 0..Word - AppAlign - TableSize
        BY DEF IsTable
  <2>2. opts.boot \in Maybe /\ opts.recovery \in Maybe
        BY DEF IsTable
  <2> QED BY <2>1, <2>2, WordIs DEF Base
<1>1. /\ st.ok \in BOOLEAN /\ st.last \in Nat /\ st.entries \in Seq(EntsOf(t))
      /\ st = [ok |-> st.ok, last |-> st.last, entries |-> st.entries]
      BY DEF St
<1>2. /\ e.offset \in Nat /\ e.size \in Nat /\ e.set \in BOOLEAN /\ e.end \in BOOLEAN
      /\ e.type = Boot => opts.boot # <<>> /\ ~e.end
      BY DEF EntsOf, AllEnts, Ents, BootSized
<1>3. \A x \in EntsOf(t) : x.offset \in Nat /\ x.size \in Nat
      BY DEF EntsOf, AllEnts, Ents
<1>4. ASSUME new = [st EXCEPT !.ok = FALSE]
      PROVE  new \in St(t) /\ (Good(st, t) => Good(new, t))
  <2>1. /\ new \in St(t) /\ new.entries = st.entries /\ new.last = st.last
        BY <1>1, <1>4 DEF St
  <2> QED BY <2>1 DEF Good
<1>5. ASSUME NEW d \in EntsOf(t), NEW last \in Nat,
             new = [ok |-> st.ok, last |-> last, entries |-> Append(st.entries, d)],
             \/ Located(d) /\ last = st.last
             \/ /\ ~Located(d) /\ last = Ends(d) % Word
                /\ Good(st, t) /\ Calm(st.entries) => st.last <= d.offset
      PROVE  new \in St(t) /\ (Good(st, t) => Good(new, t))
  <2>1. Append(st.entries, d) \in Seq(EntsOf(t))
        BY <1>1
  <2>2. new \in St(t) /\ new.entries = Append(st.entries, d) /\ new.last = last
        BY <1>1, <1>5, <2>1 DEF St
  <2>3. ASSUME Good(st, t), Calm(Append(st.entries, d))
        PROVE  InLine(Append(st.entries, d), last, Base(t))
    <3>1. Calm(st.entries) => InLine(st.entries, st.last, Base(t))
          BY <2>3 DEF Good
    <3>2. \/ Located(d) /\ last = st.last
          \/ ~Located(d) /\ last = Ends(d) % Word /\ (Calm(st.entries) => st.last <= d.offset)
          BY <1>5, <2>3
    <3> QED BY <1>0, <1>3, <1>1, <2>3, <3>1, <3>2, LineGrows
  <2> QED BY <2>2, <2>3 DEF Good
<1>6. CASE ~st.ok
  <2>1. new = st
        BY <1>6 DEF PlaceEntry
  <2> QED BY <2>1
<1>7. CASE st.ok /\ Located(e)
  <2> DEFINE at == IF e.type = Ptable THEN opts.table
                   ELSE IF e.subtype = 0 THEN opts.boot[1] ELSE opts.recovery[1]
             bad == e.type = Boot /\ e.subtype = 2 /\ opts.recovery = <<>>
             d == Settled(e, at, e.size)
  <2>1. new = IF bad THEN [st EXCEPT !.ok = FALSE]
              ELSE [st EXCEPT !.entries = Append(@, d)]
        BY <1>7 DEF PlaceEntry, PlaceLocated
  <2>2. CASE bad
        BY <1>4, <2>1, <2>2
  <2>3. CASE ~bad
    <3>1. at \in Nat
      <4>1. CASE e.type = Ptable
            BY <1>0, <4>1
      <4>2. CASE e.type # Ptable
        <5>1. e.type = Boot /\ e.subtype \in {0, 2}
              BY <1>7, <4>2 DEF Located
        <5>2. opts.boot[1] \in Nat
              BY <1>0, <1>2, <5>1 DEF Maybe
        <5>3. e.subtype # 0 => opts.recovery[1] \in Nat
              BY <1>0, <2>3, <5>1 DEF Maybe
        <5> QED BY <4>2, <5>2, <5>3
      <4> QED BY <4>1, <4>2
    <3> HIDE DEF at
    <3>2. d \in EntsOf(t) /\ Located(d)
          BY <1>7, <1>2, <3>1, SettledIs
    <3> HIDE DEF d
    <3>3. new = [ok |-> st.ok, last |-> st.last, entries |-> Append(st.entries, d)]
      <4>1. new = [st EXCEPT !.entries = Append(@, d)]
            BY <2>1, <2>3
      <4> QED BY <1>1, <4>1
    <3> QED BY <1>5, <1>1, <3>2, <3>3
  <2> QED BY <2>2, <2>3
<1>8. CASE st.ok /\ ~Located(e)
  <2> DEFINE offset == IF e.set THEN e.offset ELSE AlignUp(st.last, AlignOf(e.type))
             size == IF e.end THEN e.size - offset ELSE e.size
             bad == (e.set /\ offset < st.last) \/ (e.end /\ size <= 0)
             d == Settled(e, offset, size)
             last == (offset + size) % Word
  <2>1. new = IF bad THEN [st EXCEPT !.ok = FALSE]
              ELSE [st EXCEPT !.entries = Append(@, d), !.last = last]
        BY <1>8 DEF PlaceEntry, PlaceNext
  <2>2. CASE bad
        BY <1>4, <2>1, <2>2
  <2>3. CASE ~bad
    <3>1. offset \in Nat
          BY <1>2, <1>1, AlignedIs, AlignedTo
    <3>2. Good(st, t) /\ Calm(st.entries) => st.last <= offset
      <4>1. CASE e.set
            BY <1>1, <2>3, <3>1, <4>1
      <4>2. CASE ~e.set
        <5>1. offset = AlignUp(st.last, AlignOf(e.type))
              BY <4>2
        <5>2. Good(st, t) /\ Calm(st.entries) => st.last <= Word - AppAlign
              BY DEF Good, InLine
        <5> QED BY <1>1, <5>1, <5>2, AlignedTo, AlignedUp
      <4> QED BY <4>1, <4>2
    <3> HIDE DEF offset
    <3>3. size \in Nat
          BY <1>2, <2>3, <3>1
    <3>4. e.type = Boot => size = e.size
          BY <1>2
    <3> HIDE DEF size
    <3>5. last \in Nat
          BY <3>1, <3>3, WordIs
    <3>6. d \in EntsOf(t) /\ ~Located(d) /\ d.offset = offset /\ d.size = size
          BY <1>8, <3>1, <3>3, <3>4, SettledIs
    <3> HIDE DEF d
    <3>7. last = Ends(d) % Word
          BY <3>6 DEF Ends
    <3> HIDE DEF last
    <3>8. new = [ok |-> st.ok, last |-> last, entries |-> Append(st.entries, d)]
      <4>1. new = [st EXCEPT !.entries = Append(@, d), !.last = last]
            BY <2>1, <2>3
      <4> QED BY <1>1, <4>1
    <3> QED BY <1>5, <3>2, <3>5, <3>6, <3>7, <3>8
  <2> QED BY <2>2, <2>3
<1> QED BY <1>6, <1>7, <1>8

LEMMA PlacesAll ==
    ASSUME NEW t, IsTable(t), NEW es \in Seq(EntsOf(t))
    PROVE  Place(es, t.opts) \in St(t) /\ Good(Place(es, t.opts), t)
<1> DEFINE opts == t.opts
           n == Len(es)
           a == [ok |-> TRUE, last |-> opts.table + TableSize, entries |-> <<>>]
           g == [x \in St(t) \X (1..n) |-> PlaceEntry(x[1], es[x[2]], opts)]
           after[i \in 0..n] == IF i = 0 THEN a ELSE PlaceEntry(after[i - 1], es[i], opts)
<1>1. n \in Nat /\ DOMAIN es = 1..n /\ \A i \in 1..n : es[i] \in EntsOf(t)
      OBVIOUS
<1>2. Place(es, opts) = after[n]
      BY DEF Place
<1>3. a \in St(t) /\ Good(a, t)
  <2>1. opts.table \in 0..Word - AppAlign - TableSize
        BY DEF IsTable
  <2>2. /\ opts.table + TableSize \in Nat
        /\ opts.table + TableSize <= Word - AppAlign
        BY <2>1, WordIs
  <2>3. <<>> \in Seq(EntsOf(t)) /\ DOMAIN <<>> = {}
        OBVIOUS
  <2>4. a \in St(t)
        BY <2>2, <2>3 DEF St
  <2>5. InLine(<<>>, opts.table + TableSize, opts.table + TableSize)
        BY <2>2, <2>3 DEF InLine
  <2>6. a.entries = <<>> /\ a.last = opts.table + TableSize
        OBVIOUS
  <2> QED BY <2>4, <2>5, <2>6 DEF Good, Base
<1>4. ASSUME NEW st \in St(t), NEW i \in 1..n
      PROVE  /\ PlaceEntry(st, es[i], opts) \in St(t)
             /\ Good(st, t) => Good(PlaceEntry(st, es[i], opts), t)
      BY <1>1, PlacesOne
<1>5. g \in [St(t) \X (1..n) -> St(t)]
      BY <1>4
<1>6. \A x \in St(t), i \in 1..n : g[<<x, i>>] = PlaceEntry(x, es[i], opts)
      OBVIOUS
<1> HIDE DEF g, n, a
<1>7. PICK h \in [0..n -> St(t)] : Follows(h, a, g, n)
  <2>1. n \in Nat /\ a \in St(t)
        BY <1>1, <1>3
  <2> QED BY ONLY <2>1, <1>5, Steps
<1>8. \A i \in 1..n : i - 1 \in 0..n /\ h[i-1] \in St(t) /\ h[i] = PlaceEntry(h[i-1], es[i], opts)
  <2>1. \A i \in 1..n : i - 1 \in 0..n
        BY <1>1
  <2> QED BY <1>6, <1>7, <2>1 DEF Follows
<1>9. after = [i \in 0..n |-> IF i = 0 THEN a ELSE PlaceEntry(after[i-1], es[i], opts)]
  <2> DEFINE F(f) == [i \in 0..n |-> IF i = 0 THEN a ELSE PlaceEntry(f[i-1], es[i], opts)]
  <2>1. h = F(h)
    <3>1. \A i \in 0..n : h[i] = IF i = 0 THEN a ELSE PlaceEntry(h[i-1], es[i], opts)
      <4>1. \A i \in 0..n : i = 0 \/ i \in 1..n
            BY <1>1
      <4> QED BY <1>7, <1>8, <4>1 DEF Follows
    <3> QED BY <1>7, <3>1
  <2>2. after = CHOOSE f : f = F(f)
        OBVIOUS
  <2> HIDE DEF after, F
  <2>3. after = F(after)
        BY <2>1, <2>2
  <2> QED BY <2>3 DEF F
<1> HIDE DEF after
<1> DEFINE T == {i \in 0..n : after[i] \in St(t) /\ Good(after[i], t)}
<1>10. 0 \in T
       BY <1>1, <1>3, <1>9
<1>11. ASSUME NEW i \in 1..n, i - 1 \in T PROVE i \in T
  <2>1. i \in 0..n /\ i # 0
        BY <1>1
  <2>2. after[i] = PlaceEntry(after[i-1], es[i], opts)
        BY <1>9, <2>1
  <2> QED BY <1>4, <1>11, <2>1, <2>2
<1> HIDE DEF T
<1>12. \A i \in 0..n : i \in T
       BY <1>1, <1>10, <1>11, UpToN
<1>13. n \in T
       BY <1>1, <1>12
<1> QED BY <1>2, <1>13 DEF T

\* The entries of a table that is accepted.
LEMMA TablePlaced ==
    ASSUME NEW t, IsTable(t), Accepted(t)
    PROVE  /\ Entries(t) \in Seq(EntsOf(t))
           /\ \E last \in Nat : Calm(Entries(t)) => InLine(Entries(t), last, Base(t))
           /\ \A k \in DOMAIN Entries(t) : Valid(Entries(t)[k], t.opts)
<1> DEFINE lines == t.rows
           opts == t.opts
           es == [i \in DOMAIN lines |-> EntryOf(lines[i], opts)]
           st == Place(es, opts)
           refused == Len(lines) > MaxEntries \/ \E i \in DOMAIN lines : ~Readable(lines[i], opts)
<1>1. ParseCsv(lines, opts) =
         IF refused THEN [ok |-> FALSE, entries |-> <<>>]
         ELSE [ok |-> st.ok /\ \A e \in ToSet(st.entries) : Valid(e, opts), entries |-> st.entries]
      BY DEF ParseCsv, Checked
<1>2. ParseCsv(lines, opts).ok
      BY DEF Accepted
<1>3. ~refused
      BY <1>1, <1>2
<1>4. Entries(t) = st.entries /\ \A e \in ToSet(st.entries) : Valid(e, opts)
  <2> DEFINE ok == st.ok /\ \A e \in ToSet(st.entries) : Valid(e, opts)
  <2>1. ParseCsv(lines, opts) = [ok |-> ok, entries |-> st.entries]
        BY <1>1, <1>3
  <2> HIDE DEF st
  <2>2. ok
    <3> HIDE DEF ok
    <3> QED BY <1>2, <2>1
  <2>3. Entries(t) = st.entries
    <3> HIDE DEF ok
    <3> QED BY <2>1 DEF Entries
  <2> QED BY <2>2, <2>3
<1>5. \A i \in DOMAIN lines : EntryOf(lines[i], opts) \in EntsOf(t)
      BY <1>3, EntryIs
<1>6. es \in Seq(EntsOf(t))
  <2>1. lines \in Seq(RowsWritten)
        BY DEF IsTable
  <2>2. Len(lines) \in Nat /\ DOMAIN lines = 1..Len(lines)
        BY <2>1
  <2>3. es \in [DOMAIN lines -> EntsOf(t)]
    <3> HIDE DEF lines, opts
    <3> QED BY <1>5
  <2> HIDE DEF lines
  <2>4. es \in [1..Len(lines) -> EntsOf(t)]
        BY <2>2, <2>3
  <2> QED BY <2>2, <2>4
<1> HIDE DEF es
<1>7. st \in St(t) /\ Good(st, t)
      BY <1>6, PlacesAll
<1> HIDE DEF st
<1>8. st.last \in Nat /\ st.entries \in Seq(EntsOf(t))
      BY <1>7 DEF St
<1>9. Calm(st.entries) => InLine(st.entries, st.last, Base(t))
      BY <1>7 DEF Good
<1>10. \A k \in DOMAIN st.entries : st.entries[k] \in ToSet(st.entries)
       BY DEF ToSet
<1> QED BY <1>4, <1>8, <1>9, <1>10

-----------------------------------------------------------------------------
(* What the commands touch *)

LEMMA PickedAre ==
    ASSUME NEW S, NEW s \in Seq(S), NEW Q
    PROVE  /\ Picked(s, Q) \in Seq(S)
           /\ \A e : In(e, Picked(s, Q)) <=> In(e, s) /\ e \in Q
<1> DEFINE p == [i \in DOMAIN s |-> IF s[i] \in Q THEN <<s[i]>> ELSE <<>>]
           n == Len(s)
<1>1. n \in Nat /\ DOMAIN s = 1..n /\ \A i \in 1..n : s[i] \in S
      OBVIOUS
<1>2. Picked(s, Q) = FlattenSeq(p)
      BY DEF Picked
<1>3. \A i \in 1..n : p[i] = IF s[i] \in Q THEN <<s[i]>> ELSE <<>>
      BY <1>1
<1>4. DOMAIN p = 1..n
      BY <1>1
<1>5. \A i \in 1..n : p[i] \in Seq(S)
      BY <1>1, <1>3
<1>6. p \in Seq(Seq(S))
  <2>1. p = [i \in 1..n |-> p[i]]
        BY <1>1
  <2> HIDE DEF p, n
  <2>2. p \in [1..n -> Seq(S)]
        BY <1>5, <2>1
  <2> QED BY <1>1, <2>2
<1>7. ASSUME NEW e, NEW i \in 1..n PROVE In(e, p[i]) <=> s[i] = e /\ e \in Q
  <2>1. CASE s[i] \in Q
    <3>1. p[i] = <<s[i]>> /\ DOMAIN <<s[i]>> = {1} /\ <<s[i]>>[1] = s[i]
          BY <1>3, <2>1
    <3> QED BY <2>1, <3>1 DEF In
  <2>2. CASE s[i] \notin Q
    <3>1. p[i] = <<>> /\ DOMAIN <<>> = {}
          BY <1>3, <2>2
    <3> QED BY <2>2, <3>1 DEF In
  <2> QED BY <2>1, <2>2
<1> HIDE DEF p, n
<1>8. /\ FlattenSeq(p) \in Seq(S)
      /\ \A e : In(e, FlattenSeq(p)) <=> \E i \in 1..n : In(e, p[i])
      BY <1>4, <1>6, Flattened
<1>9. \A e : In(e, FlattenSeq(p)) <=> In(e, s) /\ e \in Q
      BY <1>1, <1>7, <1>8 DEF In
<1> QED BY <1>2, <1>8, <1>9

\* Of a sequence whose first m elements are in Q and no others, those are picked.
LEMMA PickedFirst ==
    ASSUME NEW S, NEW s \in Seq(S), NEW Q, NEW m \in 0..Len(s),
           \A i \in 1..Len(s) : s[i] \in Q <=> i <= m
    PROVE  Picked(s, Q) = SubSeq(s, 1, m)
<1> DEFINE n == Len(s)
           p == [i \in DOMAIN s |-> IF s[i] \in Q THEN <<s[i]>> ELSE <<>>]
<1>1. n \in Nat /\ m \in 0..n /\ DOMAIN s = 1..n /\ \A i \in 1..n : s[i] \in S
      OBVIOUS
<1>2. Picked(s, Q) = FlattenSeq(p)
      BY DEF Picked
<1>3. \A i \in 1..n : p[i] = IF i <= m THEN <<s[i]>> ELSE <<>>
      BY <1>1
<1>4. p \in Seq(Seq(S)) /\ Len(p) = n
  <2>1. \A i \in 1..n : p[i] \in Seq(S)
        BY <1>1
  <2>2. p = [i \in 1..n |-> p[i]]
        BY <1>1
  <2> HIDE DEF p, n
  <2>3. p \in [1..n -> Seq(S)]
        BY <2>1, <2>2
  <2> QED BY <1>1, <2>3
<1> DEFINE cut == [i \in 0..n |-> IF i <= m THEN i ELSE m]
           Pre(i) == SubSeq(s, 1, cut[i])
<1> HIDE DEF p
<1>5. /\ \A i \in 0..n : (i <= m => cut[i] = i) /\ (~(i <= m) => cut[i] = m)
      /\ \A i \in 1..n : i \in 0..n /\ i - 1 \in 0..n
      /\ \A i \in 1..n : (i <= m => cut[i-1] = i - 1) /\ (~(i <= m) => cut[i-1] = m)
      /\ cut[n] = m
  <2>1. \A i \in 0..n : cut[i] = IF i <= m THEN i ELSE m
        BY <1>1
  <2>2. \A i \in 1..n : i \in 0..n /\ i - 1 \in 0..n
        BY <1>1
  <2> HIDE DEF cut
  <2>3. ASSUME NEW i \in 1..n PROVE (i <= m => cut[i-1] = i - 1) /\ (~(i <= m) => cut[i-1] = m)
    <3>1. /\ i <= m => i - 1 <= m
          /\ ~(i <= m) /\ i - 1 <= m => i - 1 = m
          BY <1>1
    <3> QED BY <2>1, <2>2, <3>1
  <2>4. cut[n] = m
    <3> HIDE DEF n
    <3>1. n \in 0..n /\ (n <= m => n = m)
          BY <1>1
    <3> QED BY <2>1, <3>1
  <2> QED BY <2>1, <2>2, <2>3, <2>4
<1> HIDE DEF cut
<1>6. CASE n = 0
  <2>1. FlattenSeq(p) = <<>>
    <3>1. p = <<>>
          BY <1>4, <1>6
    <3> QED BY <1>4, <1>6, <3>1 DEF FlattenSeq
  <2>2. m = 0 /\ SubSeq(s, 1, 0) = <<>>
        BY <1>1, <1>6
  <2> QED BY <1>2, <2>1, <2>2
<1>7. CASE n # 0
  <2>1. p # <<>>
        BY <1>4, <1>7
  <2>2. PICK f \in [1..Len(p) -> Seq(S)] :
           /\ FlattenSeq(p) = f[Len(p)]
           /\ \A i \in 1..Len(p) : f[i] = IF i = 1 THEN p[i] ELSE f[i-1] \o p[i]
        BY ONLY <1>4, <2>1, FlattenedFrom
  <2>3. FlattenSeq(p) = f[n] /\ \A i \in 1..n : f[i] = IF i = 1 THEN p[i] ELSE f[i-1] \o p[i]
        BY <1>4, <2>2
  <2>4. \A i \in 1..n : <<s[i]>> = SubSeq(s, i, i)
        BY <1>1
  <2> DEFINE T == {i \in 0..n : i # 0 => f[i] = Pre(i)}
  <2>5. 0 \in T
        BY <1>1
  <2>6. ASSUME NEW i \in 1..n, i - 1 \in T PROVE i \in T
    <3>0. i \in 0..n /\ i # 0
          BY <1>1
    <3>1. CASE i = 1
      <4>1. f[i] = IF 1 <= m THEN <<s[1]>> ELSE <<>>
            BY <1>3, <2>3, <3>1
      <4>2. CASE 1 <= m
        <5>1. Pre(i) = SubSeq(s, 1, 1)
          <6>1. cut[i] = 1
                BY <1>5, <3>1, <4>2
          <6> QED BY <6>1
        <5>2. SubSeq(s, 1, 1) = <<s[1]>>
              BY <2>4, <3>1
        <5> QED BY <3>0, <4>1, <4>2, <5>1, <5>2
      <4>3. CASE ~(1 <= m)
        <5>1. m = 0
              BY <1>1, <4>3
        <5>2. Pre(i) = SubSeq(s, 1, 0) /\ SubSeq(s, 1, 0) = <<>>
          <6>1. cut[i] = 0
                BY <1>5, <3>1, <4>3, <5>1
          <6>2. SubSeq(s, 1, 0) = <<>>
                OBVIOUS
          <6> QED BY <6>1, <6>2
        <5> QED BY <3>0, <4>1, <4>3, <5>2
      <4> QED BY <4>2, <4>3
    <3>2. CASE i # 1
      <4>1. f[i] = f[i-1] \o p[i] /\ f[i-1] = Pre(i - 1)
        <5>1. i - 1 # 0
              BY <1>1, <3>2
        <5> HIDE DEF Pre
        <5> QED BY <2>3, <2>6, <3>2, <5>1
      <4>2. CASE i <= m
        <5>1. Pre(i-1) = SubSeq(s, 1, i - 1) /\ Pre(i) = SubSeq(s, 1, i) /\ p[i] = <<s[i]>>
          <6>1. cut[i-1] = i - 1 /\ cut[i] = i /\ p[i] = <<s[i]>>
                BY <1>5, <1>3, <4>2
          <6> QED BY <6>1
        <5>2. SubSeq(s, 1, i - 1) \o <<s[i]>> = SubSeq(s, 1, i)
          <6>1. i - 1 \in 1..n /\ i \in Nat
                BY <1>1, <3>2
          <6> HIDE DEF Pre
          <6> QED BY ONLY <1>1, <6>1
        <5> QED BY <3>0, <4>1, <5>1, <5>2
      <4>3. CASE ~(i <= m)
        <5>1. Pre(i-1) = SubSeq(s, 1, m) /\ Pre(i) = SubSeq(s, 1, m) /\ p[i] = <<>>
          <6>1. cut[i-1] = m /\ cut[i] = m /\ p[i] = <<>>
                BY <1>5, <1>3, <4>3
          <6> QED BY <6>1
        <5>2. SubSeq(s, 1, m) \in Seq(S)
              BY <1>1
        <5>3. SubSeq(s, 1, m) \o <<>> = SubSeq(s, 1, m)
              BY <5>2
        <5> QED BY <3>0, <4>1, <5>1, <5>3
      <4> QED BY <4>2, <4>3
    <3> QED BY <3>1, <3>2
  <2> HIDE DEF T
  <2>7. \A i \in 0..n : i \in T
        BY <1>1, <2>5, <2>6, UpToN
  <2>8. n \in 0..n
        BY <1>1
  <2>9. f[n] = Pre(n)
        BY <1>7, <2>7, <2>8 DEF T
  <2>10. Pre(n) = SubSeq(s, 1, m)
         BY <1>5
  <2> QED BY <1>2, <2>3, <2>9, <2>10
<1> QED BY <1>6, <1>7

LEMMA OfTypeAre ==
    ASSUME NEW S, NEW s \in Seq(S), NEW type, NEW sub
    PROVE  /\ OfType(s, type, sub) \in Seq(S)
           /\ \A e : In(e, OfType(s, type, sub)) <=>
                 In(e, s) /\ e.type = type /\ (sub # <<>> => e.subtype = sub[1])
<1> DEFINE Q == {e \in ToSet(s) : e.type = type /\ (sub # <<>> => e.subtype = sub[1])}
<1>1. OfType(s, type, sub) = Picked(s, Q)
      BY DEF OfType
<1>2. \A e : e \in Q <=> In(e, s) /\ e.type = type /\ (sub # <<>> => e.subtype = sub[1])
      BY Elements
<1> HIDE DEF Q
<1>3. Picked(s, Q) \in Seq(S) /\ \A e : In(e, Picked(s, Q)) <=> In(e, s) /\ e \in Q
      BY PickedAre
<1> QED BY <1>1, <1>2, <1>3

LEMMA SelectedAre ==
    ASSUME NEW S, NEW s \in Seq(S), NEW sel, sel.by \in {"name", "type", "boot"}
    PROVE  Select(s, sel) \in Seq(S) /\ \A e : In(e, Select(s, sel)) => In(e, s)
<1>1. CASE sel.by = "name"
  <2>1. Select(s, sel) = Picked(s, {e \in ToSet(s) : e.name = sel.name})
        BY <1>1 DEF Select
  <2> QED BY <2>1, PickedAre
<1>2. CASE sel.by = "type"
  <2>1. Select(s, sel) = OfType(s, sel.type, sel.sub)
        BY <1>2 DEF Select
  <2> QED BY <2>1, OfTypeAre
<1>3. CASE sel.by = "boot"
  <2> DEFINE a == OfType(s, App, <<0>>)
             Slots == [k \in 1..16 |-> OfType(s, App, <<15 + k>>)]
             D == 1..16
  <2>1. Select(s, sel) = a \o FlattenSeq(Slots)
        BY <1>3 DEF Select
  <2>2. a \in Seq(S) /\ \A e : In(e, a) => In(e, s)
        BY OfTypeAre
  <2>3. \A k \in D : Slots[k] \in Seq(S) /\ \A e : In(e, Slots[k]) => In(e, s)
    <3>1. \A k \in D : Slots[k] = OfType(s, App, <<15 + k>>)
          OBVIOUS
    <3> HIDE DEF Slots, D
    <3>2. \A x : OfType(s, App, x) \in Seq(S) /\ \A e : In(e, OfType(s, App, x)) => In(e, s)
          BY OfTypeAre
    <3> QED BY <3>1, <3>2
  <2>4. Slots \in Seq(Seq(S)) /\ DOMAIN Slots = D
    <3>1. Slots = [k \in D |-> Slots[k]]
          OBVIOUS
    <3>2. PICK n \in Nat : D = 1..n
          OBVIOUS
    <3> HIDE DEF Slots, D
    <3>3. Slots \in [D -> Seq(S)] /\ DOMAIN Slots = D
          BY <2>3, <3>1
    <3> QED BY <3>2, <3>3
  <2> HIDE DEF a, Slots, D
  <2>5. /\ FlattenSeq(Slots) \in Seq(S)
        /\ \A e : In(e, FlattenSeq(Slots)) <=> \E k \in D : In(e, Slots[k])
        BY <2>4, Flattened
  <2>6. a \o FlattenSeq(Slots) \in Seq(S)
        /\ \A e : In(e, a \o FlattenSeq(Slots)) <=> In(e, a) \/ In(e, FlattenSeq(Slots))
        BY <2>2, <2>5, Joined
  <2> QED BY <2>1, <2>2, <2>3, <2>5, <2>6
<1> QED BY <1>1, <1>2, <1>3

\* Rounded up to sectors, what starts on a sector and ends before the next start
\* still does.
LEMMA RoundsBelow ==
    ASSUME NEW a \in Nat, NEW b \in Nat, NEW x \in Nat, a % 8 = 0, b % 8 = 0,
           a + x <= b, x <= Word - AppAlign
    PROVE  a + AlignUp(x, Sector) <= b /\ AlignUp(x, Sector) \in Nat
<1>1. CASE x % 8 = 0
  <2>1. AlignUp(x, Sector) = x
        BY <1>1, Sized, SMT DEF AlignUp
  <2> QED BY <2>1
<1>2. CASE x % 8 # 0
  <2> DEFINE m == x + 8 - (x % 8)
  <2>1. m \in Nat /\ m < x + 8 /\ m % 8 = 0
        BY <1>2, SMT
  <2>2. AlignUp(x, Sector) = m % Word
        BY <1>2, Sized, SMT DEF AlignUp
  <2> HIDE DEF m
  <2>3. m < Word
        BY <2>1, Sized, SMT
  <2>4. m % Word = m
        BY <2>1, <2>3, WordIs, Remains
  <2>5. a + m <= b
        BY <2>1, SMT
  <2> QED BY <2>1, <2>2, <2>4, <2>5
<1> QED BY <1>1, <1>2

LEMMA BehindIsApart ==
    ASSUME NEW a \in Nat, NEW b \in Nat, NEW x \in Nat, NEW y \in Nat,
           a % 8 = 0, b % 8 = 0, a + x <= b, x <= Word - AppAlign
    PROVE  /\ ~Meet(Touched(a, x), Touched(b, y))
           /\ ~Meet(Touched(b, y), Touched(a, x))
<1>1. a + AlignUp(x, Sector) <= b /\ AlignUp(x, Sector) \in Nat
      BY RoundsBelow
<1>2. AlignUp(y, Sector) \in Nat
      BY AlignedIs
<1>3. /\ Touched(a, x).to = a + AlignUp(x, Sector)
      /\ Touched(b, y).from = b
  <2>1. b - (b % Sector) = b
        BY Sized, SMT
  <2> QED BY <2>1 DEF Touched
<1> HIDE DEF Touched
<1> QED BY <1>1, <1>3, SMT DEF Meet

\* Entries as an accepted table has them.
Laid(es, t) ==
    /\ es \in Seq(EntsOf(t)) /\ Calm(es)
    /\ \E last \in Nat : InLine(es, last, Base(t))
    /\ \A k \in DOMAIN es : Valid(es[k], t.opts)

LEMMA EntryLaid ==
    ASSUME NEW t, NEW es, Laid(es, t), NEW k \in DOMAIN es
    PROVE  /\ es[k].offset \in Nat /\ es[k].size \in Nat /\ Ends(es[k]) <= Word - AppAlign
           /\ es[k].size <= Word - AppAlign
           /\ es[k].offset % 8 = 0
<1>0. es[k] \in EntsOf(t)
  <2>1. es \in Seq(EntsOf(t))
        BY DEF Laid
  <2> QED BY <2>1
<1>1. es[k].offset \in Nat /\ es[k].size \in Nat
      BY <1>0 DEF EntsOf, AllEnts, Ents
<1>2. Ends(es[k]) <= Word - AppAlign
      BY DEF Laid, Calm
<1>3. es[k].size <= Word - AppAlign
      BY <1>1, <1>2, WordIs DEF Ends
<1>4. es[k].offset % AlignOf(es[k].type) = 0
      BY DEF Laid, Valid
<1>5. AlignOf(es[k].type) \in {8, 128}
      BY Sized, SMT DEF AlignOf
<1>6. \A x \in Nat : x % 128 = 0 => x % 8 = 0
      BY SMT
<1>7. es[k].offset % 8 = 0
      BY <1>1, <1>4, <1>5, <1>6
<1> QED BY <1>1, <1>2, <1>3, <1>7

\* What two entries hold is apart, however much of each is touched.
LEMMA OwnApart ==
    ASSUME NEW t, NEW es, Laid(es, t), NEW j \in DOMAIN es, NEW k \in DOMAIN es, j # k,
           ~Located(es[j]), ~Located(es[k]),
           NEW x \in Nat, x <= es[j].size, NEW y \in Nat, y <= es[k].size
    PROVE  ~Meet(Touched(es[j].offset, x), Touched(es[k].offset, y))
<1>1. j \in Nat /\ k \in Nat
  <2>1. es \in Seq(EntsOf(t))
        BY DEF Laid
  <2> QED BY <2>1
<1>2. \A m, n \in DOMAIN es :
         m < n /\ ~Located(es[m]) /\ ~Located(es[n]) => Ends(es[m]) <= es[n].offset
      BY DEF Laid, InLine
<1>3. /\ es[j].offset \in Nat /\ es[j].size \in Nat /\ es[j].offset % 8 = 0
      /\ es[j].size <= Word - AppAlign
      BY EntryLaid
<1>4. /\ es[k].offset \in Nat /\ es[k].size \in Nat /\ es[k].offset % 8 = 0
      /\ es[k].size <= Word - AppAlign
      BY EntryLaid
<1>5. CASE j < k
  <2>1. es[j].offset + es[j].size <= es[k].offset
        BY <1>2, <1>5 DEF Ends
  <2>2. es[j].offset + x <= es[k].offset /\ x <= Word - AppAlign
        BY <1>3, <1>4, <2>1, WordIs
  <2> QED BY <1>3, <1>4, <2>2, BehindIsApart
<1>6. CASE k < j
  <2>1. es[k].offset + es[k].size <= es[j].offset
        BY <1>2, <1>6 DEF Ends
  <2>2. es[k].offset + y <= es[j].offset /\ y <= Word - AppAlign
        BY <1>3, <1>4, <2>1, WordIs
  <2> QED BY <1>3, <1>4, <2>2, BehindIsApart
<1> QED BY <1>1, <1>5, <1>6

LEMMA LaidIsLaidOut ==
    ASSUME NEW t, Laid(Entries(t), t), IsTable(t)
    PROVE  LaidOut(t)
<1> DEFINE es == Entries(t)
           own == {i \in DOMAIN es : ~Located(es[i])}
<1>1. ASSUME NEW i \in own
      PROVE  /\ es[i].offset >= t.opts.table + TableSize
             /\ t.opts.flash # 0 => es[i].offset + es[i].size <= t.opts.flash
             /\ \A j \in own \ {i} : ~Meet(Touched(es[i].offset, es[i].size),
                                         Touched(es[j].offset, es[j].size))
  <2>1. i \in DOMAIN es /\ ~Located(es[i])
        OBVIOUS
  <2> HIDE DEF es
  <2>2. /\ es[i].offset \in Nat /\ es[i].size \in Nat /\ Ends(es[i]) <= Word - AppAlign
        BY <2>1, EntryLaid DEF es
  <2>3. Base(t) <= es[i].offset /\ Base(t) \in Nat
    <3>1. Base(t) <= es[i].offset
          BY <2>1 DEF Laid, InLine, es
    <3>2. t.opts.table \in 0..Word - AppAlign - TableSize
          BY DEF IsTable
    <3> QED BY <3>1, <3>2, WordIs DEF Base
  <2>4. t.opts.flash # 0 => es[i].offset + es[i].size <= t.opts.flash
    <3>1. Valid(es[i], t.opts)
          BY <2>1 DEF Laid, es
    <3>2. t.opts.flash # 0 => Ends(es[i]) % Word <= t.opts.flash
          BY <3>1 DEF Valid, Ends
    <3>3. Ends(es[i]) \in Nat
          BY <2>2 DEF Ends
    <3>4. Ends(es[i]) < Word
      <4>1. Word - AppAlign < Word /\ Word - AppAlign \in Int
            BY Sized, SMT
      <4> QED BY <2>2, <3>3, <4>1, WordIs
    <3>5. Ends(es[i]) % Word = Ends(es[i])
          BY <3>3, <3>4, WordIs, Remains
    <3> QED BY <3>2, <3>5 DEF Ends
  <2>5. ASSUME NEW j \in own \ {i}
        PROVE  ~Meet(Touched(es[i].offset, es[i].size), Touched(es[j].offset, es[j].size))
    <3>1. j \in DOMAIN es /\ ~Located(es[j]) /\ i # j
          OBVIOUS
    <3>2. es[j].size \in Nat
          BY <3>1, EntryLaid DEF es
    <3>3. es[i].size <= es[i].size /\ es[j].size <= es[j].size
          BY <2>2, <3>2
    <3> QED BY <2>1, <2>2, <3>1, <3>2, <3>3, OwnApart DEF es
  <2> QED BY <2>2, <2>3, <2>4, <2>5 DEF Base
<1> QED BY <1>1 DEF LaidOut

LEMMA LaidIsKept ==
    ASSUME NEW t, Laid(Entries(t), t), NEW sizes \in SUBSET Nat
    PROVE  WritesStayInside(t, sizes)
<1> DEFINE es == Entries(t)
           Apart(e, done) ==
              \A other \in ToSet(es) \ {e} :
                 Located(e) \/ Located(other)
                 \/ ~Meet(done.touched, Touched(other.offset, other.size))
<1>1. es \in Seq(EntsOf(t))
      BY DEF Laid
<1>2. ASSUME NEW e, In(e, es), NEW x \in Nat, x <= e.size,
             NEW done, done.touched = Touched(e.offset, x)
      PROVE  Apart(e, done)
  <2> SUFFICES ASSUME NEW other \in ToSet(es) \ {e}, ~Located(e), ~Located(other)
               PROVE  ~Meet(done.touched, Touched(other.offset, other.size))
      OBVIOUS
  <2>1. PICK j \in DOMAIN es : es[j] = e
        BY <1>2 DEF In
  <2>2. PICK k \in DOMAIN es : es[k] = other
        BY DEF ToSet
  <2>3. j # k
        BY <2>1, <2>2
  <2>4. es[k].size \in Nat
        BY EntryLaid
  <2>5. es[k].size <= es[k].size
        BY <2>4
  <2> HIDE DEF es
  <2>6. ~Meet(Touched(es[j].offset, x), Touched(es[k].offset, es[k].size))
        BY <1>2, <2>1, <2>2, <2>3, <2>4, <2>5, OwnApart DEF es
  <2> QED BY <1>2, <2>1, <2>2, <2>6
<1>3. ASSUME NEW e, NEW done, done.touched = Nothing, In(e, es)
      PROVE  Apart(e, done)
  <2> SUFFICES ASSUME NEW other \in ToSet(es) \ {e}
               PROVE  ~Meet(done.touched, Touched(other.offset, other.size))
      OBVIOUS
  <2>1. PICK k \in DOMAIN es : es[k] = other
        BY DEF ToSet
  <2>2. es[k].offset \in Nat /\ es[k].offset % 8 = 0
        BY EntryLaid
  <2>3. Touched(other.offset, other.size).from = other.offset
    <3>1. Touched(other.offset, other.size).from = other.offset - (other.offset % Sector)
          BY DEF Touched
    <3>2. other.offset \in Nat /\ other.offset % 8 = 0 /\ Sector = 8
          BY <2>1, <2>2, Sized, SMT
    <3> QED BY <3>1, <3>2
  <2>4. ~(other.offset < 0)
        BY <2>1, <2>2
  <2> QED BY <1>3, <2>3, <2>4 DEF Meet, Nothing
<1>4. ASSUME NEW sel \in Selectors(es), Info(es, sel, FALSE) # <<>>
      PROVE  LET e == Head(Select(es, sel))
             IN  /\ Info(es, sel, FALSE) = <<<<e.offset, e.size>>>>
                 /\ Apart(e, Erase(es, sel))
                 /\ \A size \in sizes : Apart(e, Write(es, sel, size, TRUE))
  <2> DEFINE found == Select(es, sel)
             e == Head(found)
  <2>1. sel.by \in {"name", "type", "boot"}
        BY DEF Selectors
  <2>2. found \in Seq(EntsOf(t)) /\ \A x : In(x, found) => In(x, es)
        BY <1>1, <2>1, SelectedAre
  <2> HIDE DEF found, es
  <2>3. found # <<>>
    <3>1. found = <<>> => Info(es, sel, FALSE) = <<>>
          BY DEF Info, found
    <3> QED BY <1>4, <3>1
  <2>4. In(e, es) /\ e \in EntsOf(t)
        BY <2>2, <2>3, FirstIsIn
  <2>5. e.size \in Nat /\ e.offset \in Nat
        BY <2>4 DEF EntsOf, AllEnts, Ents
  <2> HIDE DEF e
  <2>6. Info(es, sel, FALSE) = <<<<e.offset, e.size>>>>
    <3>1. Info(es, sel, FALSE) = [i \in DOMAIN <<e>> |-> <<<<e>>[i].offset, <<e>>[i].size>>]
          BY <2>3 DEF Info, found, e
    <3>2. DOMAIN <<e>> = {1} /\ <<e>>[1] = e
          OBVIOUS
    <3>3. Info(es, sel, FALSE) = [i \in {1} |-> <<e.offset, e.size>>]
          BY <3>1, <3>2
    <3>4. \A x : <<x>> = [i \in {1} |-> x]
          OBVIOUS
    <3> QED BY <3>3, <3>4
  <2>7. Apart(e, Erase(es, sel))
    <3>1. \/ Erase(es, sel).touched = Nothing
          \/ Erase(es, sel).touched = Touched(e.offset, e.size)
          BY DEF Erase, found, e
    <3>2. e.size <= e.size
          BY <2>5
    <3> HIDE DEF Apart
    <3> QED BY <1>2, <1>3, <2>4, <2>5, <3>1, <3>2
  <2>8. ASSUME NEW size \in sizes PROVE Apart(e, Write(es, sel, size, TRUE))
    <3>1. \/ Write(es, sel, size, TRUE).touched = Nothing
          \/ ~(size > e.size) /\ Write(es, sel, size, TRUE).touched = Touched(e.offset, size)
          BY DEF Write, found, e
    <3>2. size \in Nat /\ (~(size > e.size) => size <= e.size)
          BY <2>5
    <3> HIDE DEF Apart
    <3> QED BY <1>2, <1>3, <2>4, <2>5, <3>1, <3>2
  <2> QED BY <2>6, <2>7, <2>8 DEF found, e
<1> QED BY <1>4 DEF WritesStayInside

\* What a command that writes to one entry by its type finds.
LEMMA AllowedIf ==
    ASSUME NEW e, NEW sub, sub # <<>> => e.subtype = sub[1], NEW size \in Nat,
           e.size \in Nat, size <= e.size
    PROVE  Write(<<e>>, [by |-> "type", type |-> e.type, sub |-> sub], size, TRUE).ok
<1> DEFINE sel == [by |-> "type", type |-> e.type, sub |-> sub]
           found == Select(<<e>>, sel)
<1>1. <<e>> \in Seq({e}) /\ In(e, <<e>>)
  <2>1. <<e>> \in Seq({e}) /\ DOMAIN <<e>> = {1} /\ <<e>>[1] = e
        OBVIOUS
  <2> QED BY <2>1 DEF In
<1>2. found = OfType(<<e>>, e.type, sub)
      BY DEF Select
<1> HIDE DEF found, sel
<1>3. found \in Seq({e}) /\ In(e, found)
      BY <1>1, <1>2, OfTypeAre
<1>4. found # <<>> /\ Head(found) = e
  <2>1. DOMAIN <<>> = {}
        OBVIOUS
  <2>2. found # <<>>
        BY <1>3, <2>1 DEF In
  <2>3. Head(found) \in {e}
        BY <1>3, <2>2, FirstIsIn
  <2> QED BY <2>2, <2>3
<1>5. ~(size > e.size)
      OBVIOUS
<1>6. Write(<<e>>, sel, size, TRUE).ok
      BY <1>4, <1>5 DEF Write, found
<1> QED BY <1>6 DEF sel

\* The subtype of the bootloader CheckBootloader is asked about.
FirstStage == <<0>>

LEMMA LaidIsChecked ==
    ASSUME NEW t, Laid(Entries(t), t), IsTable(t), NEW sizes \in SUBSET Nat
    PROVE  CheckedFits(t, sizes)
<1> DEFINE es == Entries(t)
           allowed(type, sub, size) ==
              \A e \in ToSet(OfType(es, type, sub)) :
                 Write(<<e>>, [by |-> "type", type |-> type, sub |-> sub], size, TRUE).ok
<1>1. es \in Seq(EntsOf(t))
      BY DEF Laid
<1> HIDE DEF es
<1>2. ASSUME NEW type, NEW sub, NEW e \in ToSet(OfType(es, type, sub))
      PROVE  /\ In(e, OfType(es, type, sub)) /\ e \in EntsOf(t) /\ e.size \in Nat
             /\ e.type = type /\ (sub # <<>> => e.subtype = sub[1])
  <2>1. In(e, OfType(es, type, sub))
        BY Elements
  <2>2. In(e, es) /\ e.type = type /\ (sub # <<>> => e.subtype = sub[1])
        BY <1>1, <2>1, OfTypeAre
  <2>3. e \in EntsOf(t)
        BY <1>1, <2>2 DEF In
  <2>4. e.size \in Nat
        BY <2>3 DEF EntsOf, AllEnts, Ents
  <2> QED BY <2>1, <2>2, <2>3, <2>4
<1>3. ASSUME NEW size \in sizes, CheckPartition(es, App, <<>>, size) = "fits"
      PROVE  allowed(App, <<>>, size)
  <2> DEFINE matching == OfType(es, App, <<>>)
             Q == {e \in ToSet(matching) : e.size < size}
             small == Picked(matching, Q)
  <2>1. CheckPartition(es, App, <<>>, size) =
           CASE small = <<>> -> "fits" [] small = matching -> "error" [] OTHER -> "warning"
        BY DEF CheckPartition
  <2>2. matching \in Seq(EntsOf(t))
        BY <1>1, OfTypeAre
  <2>3. \A e : In(e, small) <=> In(e, matching) /\ e \in Q
    <3> HIDE DEF matching, Q
    <3> QED BY <2>2, PickedAre
  <2>4. small = <<>>
    <3> HIDE DEF small, matching
    <3> QED BY <1>3, <2>1
  <2>5. ASSUME NEW e \in ToSet(matching) PROVE size <= e.size
    <3>1. In(e, matching) /\ e.size \in Nat
          BY <1>2, <2>5
    <3>2. ~In(e, small)
      <4>1. DOMAIN <<>> = {}
            OBVIOUS
      <4> QED BY <2>4, <4>1 DEF In
    <3>3. ~(e.size < size)
          BY <2>3, <2>5, <3>1, <3>2
    <3> QED BY <3>1, <3>3
  <2>6. ASSUME NEW e \in ToSet(matching)
        PROVE  Write(<<e>>, [by |-> "type", type |-> App, sub |-> <<>>], size, TRUE).ok
    <3>1. e.type = App /\ e.size \in Nat
          BY <1>2, <2>6
    <3>2. size \in Nat /\ size <= e.size
          BY <2>5, <2>6
    <3>3. Write(<<e>>, [by |-> "type", type |-> e.type, sub |-> <<>>], size, TRUE).ok
          BY <3>1, <3>2, AllowedIf
    <3> QED BY <3>1, <3>3
  <2> QED BY <2>6
<1>4. ASSUME NEW size \in sizes, t.opts.boot # <<>>,
             CheckBootloader(t.opts.table, t.opts.boot[1], size)
      PROVE  allowed(Boot, FirstStage, size)
  <2>1. t.opts.boot[1] \in Nat /\ t.opts.table \in 0..Word - AppAlign - TableSize
        BY <1>4 DEF IsTable, Maybe
  <2> DEFINE room == t.opts.table - t.opts.boot[1]
  <2>2. room \in Nat /\ size <= room /\ room < Word
    <3>1. t.opts.table > t.opts.boot[1] /\ size <= room
          BY <1>4 DEF CheckBootloader
    <3>2. t.opts.table \in Nat /\ t.opts.table <= Word - AppAlign - TableSize
          BY <2>1, WordIs
    <3>3. Word - AppAlign - TableSize < Word
          BY Sized, SMT
    <3> HIDE DEF room
    <3>4. t.opts.table < Word
          BY <3>2, <3>3, WordIs
    <3> QED BY <2>1, <3>1, <3>2, <3>4, WordIs DEF room
  <2> HIDE DEF room
  <2>3. room % Word = room
        BY <2>2, WordIs, Remains
  <2>4. ASSUME NEW e \in ToSet(OfType(es, Boot, FirstStage))
        PROVE  Write(<<e>>, [by |-> "type", type |-> Boot, sub |-> FirstStage], size, TRUE).ok
    <3>1. /\ e.type = Boot /\ e.size \in Nat /\ e \in EntsOf(t)
          /\ FirstStage # <<>> => e.subtype = FirstStage[1]
          BY <1>2, <2>4
    <3>2. e.size = room
          BY <2>3, <3>1 DEF EntsOf, BootSized, FirstStage, room
    <3>3. size \in Nat /\ size <= e.size
          BY <2>2, <3>2
    <3>4. Write(<<e>>, [by |-> "type", type |-> e.type, sub |-> FirstStage], size, TRUE).ok
          BY <3>1, <3>3, AllowedIf
    <3> QED BY <3>1, <3>4
  <2> QED BY <2>4
<1> QED BY <1>3, <1>4 DEF CheckedFits, FirstStage, es

\* Whatever a user writes in a table (partition_table.c), if it is accepted its
\* partitions are apart from each other, behind the table and in the flash, no write
\* or erase a command allows touches another one, and an app or a bootloader that
\* fits where it was checked can be written there, whatever its size; but for tables
\* with something in the last 64K of the address space.
THEOREM TablesAreSafe ==
    ASSUME NEW t, IsTable(t), Accepted(t), NoneWraps(t)
    PROVE  SafeLayout(t, Nat)
<1>1. Laid(Entries(t), t)
      BY TablePlaced DEF Laid, NoneWraps, Calm, Ends
<1>2. LaidOut(t)
      BY <1>1, LaidIsLaidOut
<1>3. WritesStayInside(t, Nat) /\ CheckedFits(t, Nat)
      BY <1>1, LaidIsKept, LaidIsChecked
<1> QED BY <1>2, <1>3 DEF SafeLayout

-----------------------------------------------------------------------------
(* Images *)

\* The slots that are written of entries, and what is behind them.
SlotsOf(E) == {Slot(e) : e \in E}
Filled(E) == SlotsOf(E) \cup {Digest(ss) : ss \in Seq(SlotsOf(E))}
Blanks(b) == [i \in 1..b |-> Blank]

LEMMA SlotIs ==
    ASSUME NEW E
    PROVE  /\ \A s \in SlotsOf(E) : s.magic = "entry" /\ s # Blank /\ s \in Filled(E)
           /\ \A ss \in Seq(SlotsOf(E)) :
                 /\ Digest(ss).magic = "md5" /\ Digest(ss).of = ss /\ Digest(ss) # Blank
                 /\ Digest(ss) \in Filled(E)
           /\ \A s \in Filled(E) : s # Blank
<1>1. Blank.magic = "blank"
      BY DEF Blank
<1>2. \A e \in E : Slot(e).magic = "entry"
      BY DEF Slot
<1>3. \A ss : Digest(ss).magic = "md5" /\ Digest(ss).of = ss
      BY DEF Digest
<1>4. "entry" # "blank" /\ "md5" # "blank"
      OBVIOUS
<1> QED BY <1>1, <1>2, <1>3, <1>4 DEF SlotsOf, Filled

\* What is before the first blank slot.
LEMMA UsedIs ==
    ASSUME NEW S, Blank \notin S, NEW u \in Seq(S), NEW b \in Nat
    PROVE  SubSeq(u \o Blanks(b), 1,
                  SelectInSeq(Append(u \o Blanks(b), Blank), LAMBDA s : s = Blank) - 1) = u
<1> DEFINE n == Len(u)
           slots == u \o Blanks(b)
           all == Append(slots, Blank)
           I == {i \in 1..Len(all) : all[i] = Blank}
<1>1. n \in Nat /\ \A i \in 1..n : u[i] \in S
      OBVIOUS
<1>2. Blanks(b) \in Seq({Blank}) /\ Len(Blanks(b)) = b /\ \A i \in 1..b : Blanks(b)[i] = Blank
      BY DEF Blanks
<1>3. u \in Seq(S \cup {Blank}) /\ Blanks(b) \in Seq(S \cup {Blank})
      BY <1>2
<1>4. /\ slots \in Seq(S \cup {Blank}) /\ Len(slots) = n + b
      /\ \A i \in 1..n : slots[i] = u[i]
      /\ \A i \in 1..b : slots[n + i] = Blank
      BY <1>2, <1>3
<1> HIDE DEF slots
<1>5. /\ Len(all) = n + b + 1
      /\ \A i \in 1..(n + b) : all[i] = slots[i]
      /\ all[n + b + 1] = Blank
      BY <1>4
<1> HIDE DEF all, n
<1>6. \A i \in 1..n : all[i] # Blank
  <2>1. \A i \in 1..n : i \in 1..(n + b)
        BY <1>1
  <2> QED BY <1>1, <1>4, <1>5, <2>1
<1>7. n + 1 \in 1..Len(all) /\ all[n + 1] = Blank
  <2>1. CASE b = 0
    <3>1. n + b + 1 = n + 1
          BY <1>1, <2>1
    <3> QED BY <1>1, <1>5, <3>1
  <2>2. CASE b # 0
    <3>1. 1 \in 1..b /\ n + 1 \in 1..(n + b)
          BY <1>1, <2>2
    <3>2. n + 1 \in 1..(n + b + 1)
          BY <1>1
    <3> QED BY <1>4, <1>5, <3>1, <3>2
  <2> QED BY <2>1, <2>2
<1>8. n + 1 \in I /\ \A i \in I : n + 1 <= i
  <2>1. ASSUME NEW i \in I PROVE n + 1 <= i
    <3>1. i \in 1..(n + b + 1) /\ ~(i \in 1..n)
          BY <1>5, <1>6
    <3> QED BY <1>1, <3>1
  <2> QED BY <1>7, <2>1
<1>9. Min(I) = n + 1
  <2>0. I \subseteq Int
        BY <1>1, <1>5
  <2> HIDE DEF I
  <2>1. \A x \in I : (\A y \in I : x <= y) => x = n + 1
    <3> SUFFICES ASSUME NEW x \in I, \A y \in I : x <= y PROVE x = n + 1
        OBVIOUS
    <3>1. x <= n + 1 /\ n + 1 <= x /\ x \in Int
          BY <1>8, <2>0
    <3> QED BY <1>1, <3>1
  <2> QED BY <1>8, <2>1 DEF Min
<1>10. SelectInSeq(all, LAMBDA s : s = Blank) = n + 1
  <2>1. I # {}
        BY <1>8
  <2>2. SelectInSeq(all, LAMBDA s : s = Blank) = IF I # {} THEN Min(I) ELSE 0
        BY DEF SelectInSeq
  <2> HIDE DEF I
  <2> QED BY <1>9, <2>1, <2>2
<1>11. SubSeq(slots, 1, (n + 1) - 1) = u
  <2>1. (n + 1) - 1 = n
        BY <1>1
  <2>2. SubSeq(slots, 1, n) = u
        BY <1>1, <1>4 DEF n
  <2> QED BY <2>1, <2>2
<1> QED BY <1>10, <1>11 DEF all, slots

\* An image of slots ss, with the digest of slots x behind them if there is one, and
\* blanks: it holds the entries of ss, and is refused if the digest is not theirs.
Laying(ss, x, md5) == IF md5 THEN Append(ss, Digest(x)) ELSE ss

LEMMA ImageRead ==
    ASSUME NEW E, NEW ss \in Seq(SlotsOf(E)), NEW x \in Seq(SlotsOf(E)),
           NEW md5 \in BOOLEAN, NEW b \in Nat
    PROVE  LET file == FromBinary(Laying(ss, x, md5) \o Blanks(b), md5)
           IN  /\ file = [ok |-> file.ok, entries |-> [i \in 1..Len(ss) |-> ss[i].e]]
               /\ file.ok <=> (md5 => x = ss)
<1> DEFINE n == Len(ss)
           u == Laying(ss, x, md5)
           slots == u \o Blanks(b)
           Q == {s \in ToSet(u) : s.magic = "entry"}
           Entry(k) == Picked(SubSeq(u, 1, k), Q)
           all == Entry(Len(u))
           Fine(k) == \/ u[k].magic = "entry"
                      \/ u[k].magic = "md5" /\ (md5 => u[k].of = Entry(k - 1))
<1>1. n \in Nat /\ DOMAIN ss = 1..n /\ \A i \in 1..n : ss[i] \in SlotsOf(E)
      OBVIOUS
<1>2. /\ \A i \in 1..n : ss[i].magic = "entry" /\ ss[i] \in Filled(E)
      /\ Digest(x).magic = "md5" /\ Digest(x).of = x /\ Digest(x) \in Filled(E)
      BY <1>1, SlotIs
<1>3. Blank \notin Filled(E) /\ SlotsOf(E) \subseteq Filled(E)
      BY SlotIs
<1>4. /\ u \in Seq(Filled(E)) /\ Len(u) \in Nat /\ DOMAIN u = 1..Len(u)
      /\ Len(u) = (IF md5 THEN n + 1 ELSE n)
      /\ \A i \in 1..n : u[i] = ss[i]
      /\ md5 => u[n + 1] = Digest(x)
  <2>1. ss \in Seq(Filled(E))
        BY <1>3
  <2>2. CASE md5
    <3>1. u = Append(ss, Digest(x))
          BY <2>2 DEF Laying
    <3> HIDE DEF u
    <3>2. u \in Seq(Filled(E)) /\ Len(u) = n + 1 /\ \A i \in 1..n : u[i] = ss[i]
          BY <1>2, <2>1, <3>1
    <3>3. u[n + 1] = Digest(x)
          BY <2>1, <3>1
    <3> QED BY <2>2, <3>2, <3>3
  <2>3. CASE ~md5
    <3>1. u = ss
          BY <2>3 DEF Laying
    <3> QED BY <1>1, <2>1, <2>3, <3>1
  <2> QED BY <2>2, <2>3
<1>5. SubSeq(slots, 1, SelectInSeq(Append(slots, Blank), LAMBDA s : s = Blank) - 1) = u
  <2> HIDE DEF u
  <2> QED BY <1>3, <1>4, UsedIs
<1>6. FromBinary(slots, md5) =
         [ok |-> \A k \in DOMAIN u : Fine(k), entries |-> [i \in DOMAIN all |-> all[i].e]]
  <2> DEFINE used == SubSeq(slots, 1, SelectInSeq(Append(slots, Blank), LAMBDA s : s = Blank) - 1)
  <2>1. FromBinary(slots, md5) =
           LET entriesIn(k) == Picked(SubSeq(used, 1, k), {s \in ToSet(used) : s.magic = "entry"})
               those == entriesIn(Len(used))
           IN  [ok |-> \A k \in DOMAIN used :
                    \/ used[k].magic = "entry"
                    \/ /\ used[k].magic = "md5"
                       /\ (md5 => used[k].of = entriesIn(k - 1)),
                entries |-> [i \in DOMAIN those |-> those[i].e]]
    <3> HIDE DEF slots
    <3> QED BY DEF FromBinary
  <2>2. used = u
        BY <1>5
  <2> HIDE DEF used, slots, u
  <2> QED BY <2>1, <2>2
<1>7. \A i \in 1..Len(u) : u[i] \in Q <=> i <= n
  <2>1. \A i \in 1..Len(u) : u[i] \in ToSet(u)
        BY <1>4 DEF ToSet
  <2>2. ASSUME NEW i \in 1..Len(u) PROVE u[i].magic = "entry" <=> i <= n
    <3> HIDE DEF u
    <3>1. CASE i <= n
          BY <1>1, <1>2, <1>4, <3>1
    <3>2. CASE ~(i <= n)
      <4>1. md5 /\ i = n + 1
            BY <1>1, <1>4, <3>2
      <4> QED BY <1>2, <1>4, <3>2, <4>1
    <3> QED BY <3>1, <3>2
  <2> QED BY <2>1, <2>2
<1> HIDE DEF u, Q
<1>8. SubSeq(u, 1, Len(u)) = u /\ SubSeq(u, 1, n) = ss
  <2>1. SubSeq(u, 1, Len(u)) = u
        BY <1>4
  <2>2. /\ Len(SubSeq(u, 1, n)) = n
        /\ \A i \in 1..n : SubSeq(u, 1, n)[i] = u[i]
        BY <1>1, <1>4
  <2>3. SubSeq(u, 1, n) \in Seq(Filled(E)) /\ ss \in Seq(Filled(E))
        BY <1>1, <1>3, <1>4
  <2> QED BY <1>4, <2>1, <2>2, <2>3
<1>9. Picked(u, Q) = ss
  <2>1. n \in 0..Len(u)
        BY <1>1, <1>4
  <2>2. Picked(u, Q) = SubSeq(u, 1, n)
        BY <1>4, <1>7, <2>1, PickedFirst
  <2> QED BY <1>8, <2>2
<1>10. all = ss
       BY <1>8, <1>9
<1>11. Picked(ss, Q) = ss
  <2>1. n \in 0..Len(ss) /\ \A i \in 1..Len(ss) : ss[i] \in Q <=> i <= n
        BY <1>1, <1>4, <1>7
  <2>2. Picked(ss, Q) = SubSeq(ss, 1, n)
        BY <2>1, PickedFirst
  <2>3. SubSeq(ss, 1, n) = ss
        OBVIOUS
  <2> QED BY <2>2, <2>3
<1>12. (\A k \in DOMAIN u : Fine(k)) <=> (md5 => x = ss)
  <2>1. \A k \in 1..n : Fine(k)
        BY <1>2, <1>4
  <2>2. md5 => (Fine(n + 1) <=> x = ss)
    <3> SUFFICES ASSUME md5 PROVE Fine(n + 1) <=> x = ss
        OBVIOUS
    <3>1. (n + 1) - 1 = n /\ u[n + 1] = Digest(x)
          BY <1>1, <1>4
    <3>2. Entry((n + 1) - 1) = ss
          BY <1>8, <1>11, <3>1
    <3> HIDE DEF Entry
    <3> QED BY <1>2, <3>1, <3>2
  <2>3. CASE md5
    <3>1. \A k : k \in DOMAIN u <=> k \in 1..n \/ k = n + 1
          BY <1>1, <1>4, <2>3
    <3> HIDE DEF Fine
    <3> QED BY <2>1, <2>2, <2>3, <3>1
  <2>4. CASE ~md5
    <3>1. DOMAIN u = 1..n
          BY <1>4, <2>4
    <3> HIDE DEF Fine
    <3> QED BY <2>1, <2>4, <3>1
  <2> QED BY <2>3, <2>4
<1> HIDE DEF Fine, all
<1>13. [i \in DOMAIN all |-> all[i].e] = [i \in 1..n |-> ss[i].e]
       BY <1>1, <1>10
<1> DEFINE ok == \A k \in DOMAIN u : Fine(k)
<1> HIDE DEF ok, n
<1>14. FromBinary(slots, md5) = [ok |-> ok, entries |-> [i \in 1..n |-> ss[i].e]]
       BY <1>6, <1>13 DEF ok
<1> DEFINE file == FromBinary(slots, md5)
<1>15. file.ok = ok /\ file = [ok |-> file.ok, entries |-> [i \in 1..n |-> ss[i].e]]
  <2> HIDE DEF slots
  <2> QED BY <1>14
<1> QED BY <1>12, <1>15 DEF ok, n, u

\* Another slot in place of one of the entries.
Exchanged(ss, x, md5, b, i, s) ==
    [Laying(ss, x, md5) \o Blanks(b) EXCEPT ![i] = s] =
       Laying([ss EXCEPT ![i] = s], x, md5) \o Blanks(b)

LEMMA OneChanged ==
    ASSUME NEW E, NEW ss \in Seq(SlotsOf(E)), NEW x \in Seq(SlotsOf(E)), NEW md5 \in BOOLEAN,
           NEW b \in Nat, NEW i \in DOMAIN ss, NEW s \in SlotsOf(E)
    PROVE  Exchanged(ss, x, md5, b, i, s)
<1> DEFINE n == Len(ss)
           W == Filled(E) \cup {Blank}
           u == Laying(ss, x, md5)
           z == [ss EXCEPT ![i] = s]
           v == Laying(z, x, md5)
           m == IF md5 THEN n + 1 ELSE n
           B == Blanks(b)
<1>1. n \in Nat /\ DOMAIN ss = 1..n /\ i \in 1..n /\ SlotsOf(E) \subseteq W /\ m \in Nat
      BY SlotIs
<1>2. Digest(x) \in W
      BY SlotIs
<1>3. B \in Seq(W) /\ Len(B) = b
      BY DEF Blanks
<1>4. z \in Seq(SlotsOf(E)) /\ Len(z) = n /\ \A k \in 1..n : z[k] = IF k = i THEN s ELSE ss[k]
      OBVIOUS
<1>5. ASSUME NEW w \in Seq(SlotsOf(E)), Len(w) = n
      PROVE  /\ Laying(w, x, md5) \in Seq(W) /\ Len(Laying(w, x, md5)) = m
             /\ \A k \in 1..n : Laying(w, x, md5)[k] = w[k]
             /\ md5 => Laying(w, x, md5)[n + 1] = Digest(x)
  <2>1. w \in Seq(W)
        BY <1>1
  <2>2. CASE md5
    <3>1. Laying(w, x, md5) = Append(w, Digest(x))
          BY <2>2 DEF Laying
    <3> DEFINE x1 == Digest(x)
    <3>2. w \in Seq(W) /\ x1 \in W /\ Len(w) = n /\ n \in Nat
          BY <1>1, <1>2, <1>5, <2>1
    <3> HIDE DEF W, n, x1
    <3>3. /\ Append(w, x1) \in Seq(W) /\ Len(Append(w, x1)) = n + 1
          /\ \A k \in 1..n : Append(w, x1)[k] = w[k]
          /\ Append(w, x1)[n + 1] = x1
          BY ONLY <3>2
    <3> QED BY <2>2, <3>1, <3>3 DEF x1
  <2>3. CASE ~md5
    <3>1. Laying(w, x, md5) = w
          BY <2>3 DEF Laying
    <3> QED BY <1>1, <1>5, <2>1, <2>3, <3>1
  <2> QED BY <2>2, <2>3
<1>6. /\ u \in Seq(W) /\ Len(u) = m /\ \A k \in 1..n : u[k] = ss[k]
      /\ md5 => u[n + 1] = Digest(x)
      BY <1>5
<1> HIDE DEF z
<1>7. /\ v \in Seq(W) /\ Len(v) = m /\ \A k \in 1..n : v[k] = z[k]
      /\ md5 => v[n + 1] = Digest(x)
      BY <1>4, <1>5
<1> HIDE DEF u, v, n, W, B
<1>8. \A k \in 1..m : v[k] = IF k = i THEN s ELSE u[k]
  <2> SUFFICES ASSUME NEW k \in 1..m PROVE v[k] = IF k = i THEN s ELSE u[k]
      OBVIOUS
  <2>1. CASE k \in 1..n
        BY <1>4, <1>6, <1>7, <2>1
  <2>2. CASE k \notin 1..n
    <3>1. md5 /\ k = n + 1 /\ k # i
          BY <1>1, <2>2
    <3> QED BY <1>6, <1>7, <3>1
  <2> QED BY <2>1, <2>2
<1> DEFINE p == [u \o B EXCEPT ![i] = s]
           q == v \o B
<1>9. /\ u \o B \in Seq(W) /\ Len(u \o B) = m + b
      /\ \A k \in 1..m : (u \o B)[k] = u[k]
      /\ \A k \in 1..b : (u \o B)[m + k] = B[k]
  <2>1. u \in Seq(W) /\ B \in Seq(W)
        BY <1>3, <1>6
  <2>2. /\ u \o B \in Seq(W) /\ Len(u \o B) = Len(u) + Len(B)
        /\ \A k \in 1..Len(u) : (u \o B)[k] = u[k]
        /\ \A k \in 1..Len(B) : (u \o B)[Len(u) + k] = B[k]
        BY ONLY <2>1, JoinedAt
  <2>3. Len(u) = m /\ Len(B) = b
        BY <1>3, <1>6
  <2> HIDE DEF m
  <2> QED BY <2>2, <2>3
<1>10. /\ q \in Seq(W) /\ Len(q) = m + b
       /\ \A k \in 1..m : q[k] = v[k]
       /\ \A k \in 1..b : q[m + k] = B[k]
  <2>1. v \in Seq(W) /\ B \in Seq(W)
        BY <1>3, <1>7
  <2>2. /\ v \o B \in Seq(W) /\ Len(v \o B) = Len(v) + Len(B)
        /\ \A k \in 1..Len(v) : (v \o B)[k] = v[k]
        /\ \A k \in 1..Len(B) : (v \o B)[Len(v) + k] = B[k]
        BY ONLY <2>1, JoinedAt
  <2>3. Len(v) = m /\ Len(B) = b
        BY <1>3, <1>7
  <2> HIDE DEF m
  <2> QED BY <2>2, <2>3
<1>11. /\ p \in Seq(W) /\ Len(p) = m + b
       /\ \A k \in 1..(m + b) : p[k] = IF k = i THEN s ELSE (u \o B)[k]
  <2> DEFINE w == u \o B
  <2>1. w \in Seq(W) /\ Len(w) = m + b /\ s \in W
        BY <1>1, <1>9
  <2> HIDE DEF w
  <2>2. /\ [w EXCEPT ![i] = s] \in Seq(W) /\ Len([w EXCEPT ![i] = s]) = Len(w)
        /\ \A k \in 1..Len(w) : [w EXCEPT ![i] = s][k] = IF k = i THEN s ELSE w[k]
        BY ONLY <2>1, Replaced
  <2> QED BY <2>1, <2>2 DEF w
<1> HIDE DEF p, q, m
<1>12. \A k \in 1..(m + b) : p[k] = q[k]
  <2> SUFFICES ASSUME NEW k \in 1..(m + b) PROVE p[k] = q[k]
      OBVIOUS
  <2>1. CASE k \in 1..m
        BY <1>8, <1>9, <1>10, <1>11, <2>1
  <2>2. CASE k \notin 1..m
    <3> DEFINE j == k - m
    <3>1. j \in 1..b /\ k = m + j
          BY <1>1, <2>2
    <3>2. k # i
          BY <1>1, <2>2 DEF m
    <3> HIDE DEF j
    <3> QED BY <1>9, <1>10, <1>11, <3>1, <3>2
  <2> QED BY <2>1, <2>2
<1>13. p = q
       BY <1>10, <1>11, <1>12, SameSeq
<1> QED BY <1>13 DEF p, q, u, v, z, B, Exchanged

\* Read back, the image that is written of an accepted table that has an entry holds
\* just its entries, in their order; and one in which a size was changed is refused
\* if there is a digest in it.
THEOREM ImagesHoldTables ==
    ASSUME NEW t, IsTable(t), Accepted(t), Entries(t) # <<>>, MaxEntries \in Nat,
           Generate(t.rows, t.opts, TRUE).ok
    PROVE  LET slots == Generate(t.rows, t.opts, TRUE).slots
           IN  ReadsAs(slots, Entries(t), t.opts) /\ FindsDamage(slots, Entries(t), t.opts)
<1> DEFINE es == Entries(t)
           opts == t.opts
           E == AllEnts(t)
           n == Len(es)
           ss == [i \in DOMAIN es |-> Slot(es[i])]
           u == Laying(ss, ss, opts.md5)
           b == MaxEntries - Len(u)
           image == Generate(t.rows, opts, TRUE)
<1>1. n \in Nat /\ n # 0 /\ DOMAIN es = 1..n /\ \A i \in 1..n : es[i] \in E
  <2>1. es \in Seq(EntsOf(t)) /\ es # <<>>
        BY TablePlaced
  <2>2. \A e \in EntsOf(t) : e \in E
        BY DEF EntsOf
  <2> HIDE DEF es
  <2> QED BY <2>1, <2>2
<1>2. opts.md5 \in BOOLEAN
      BY DEF IsTable
<1>3. ss \in Seq(SlotsOf(E)) /\ Len(ss) = n /\ \A i \in 1..n : ss[i] = Slot(es[i])
  <2> HIDE DEF es, E, n
  <2>1. \A i \in 1..n : Slot(es[i]) \in SlotsOf(E)
        BY <1>1 DEF SlotsOf
  <2>2. ss \in [1..n -> SlotsOf(E)]
        BY <1>1, <2>1
  <2> QED BY <1>1, <2>2
<1>4. image = ToBinary(es, opts)
  <2>1. ParseCsv(t.rows, opts).ok /\ ParseCsv(t.rows, opts).entries = es
        BY DEF Accepted, Entries
  <2> QED BY <2>1 DEF Generate, Image
<1>5. u = IF opts.md5 THEN Append(ss, Digest(ss)) ELSE ss
      BY DEF Laying
<1>6. ToBinary(es, opts) =
         IF Len(u) > MaxEntries THEN [ok |-> FALSE, slots |-> <<>>]
         ELSE [ok |-> TRUE, slots |-> u \o Blanks(MaxEntries - Len(u))]
  <2> HIDE DEF es, opts, u
  <2> QED BY <1>5 DEF ToBinary, Blanks
<1> HIDE DEF es, E, n, ss, image
<1>7. Len(u) \in Nat /\ 1 <= Len(u) /\ DOMAIN u = 1..Len(u) /\ u[1] = ss[1] /\ u \in Seq(Filled(E))
  <2>1. \A s \in SlotsOf(E) : s \in Filled(E)
        BY SlotIs
  <2>2. Digest(ss) \in Filled(E) /\ ss \in Seq(Filled(E))
        BY <1>3, <2>1, SlotIs
  <2> HIDE DEF u
  <2>3. CASE opts.md5
        BY <1>1, <1>3, <1>5, <2>2, <2>3
  <2>4. CASE ~opts.md5
        BY <1>1, <1>3, <1>5, <2>2, <2>4
  <2> QED BY <1>2, <2>3, <2>4
<1> HIDE DEF u
<1>8. Len(u) <= MaxEntries /\ b \in Nat /\ image.slots = u \o Blanks(b)
  <2>1. image.ok
        BY DEF image
  <2>2. ~(Len(u) > MaxEntries)
        BY <1>4, <1>6, <2>1
  <2> QED BY <1>4, <1>6, <1>7, <2>2
<1> DEFINE slots == image.slots
<1> HIDE DEF b
<1>9. ASSUME NEW w, w[1] # Blank
      PROVE  PtLoad(Binary(w), opts) = FromBinary(w, opts.md5)
  <2>1. Binary(w).kind = "binary" /\ Binary(w).slots = w
        BY DEF Binary
  <2> QED BY <1>9, <2>1 DEF PtLoad
<1>10. slots[1] = ss[1] /\ ss[1] \in SlotsOf(E)
  <2>1. Blanks(b) \in Seq({Blank})
        BY <1>8 DEF Blanks
  <2>2. (u \o Blanks(b))[1] = u[1]
        BY <1>7, <1>8, <2>1
  <2>3. 1 \in 1..n
        BY <1>1
  <2> QED BY <1>3, <1>7, <1>8, <2>2, <2>3
<1>11. ReadsAs(slots, es, opts)
  <2>1. slots[1] # Blank
        BY <1>10, SlotIs
  <2> DEFINE file == FromBinary(slots, opts.md5)
  <2>2. /\ file = [ok |-> file.ok, entries |-> [i \in 1..Len(ss) |-> ss[i].e]]
        /\ file.ok <=> (opts.md5 => ss = ss)
    <3> DEFINE md5 == opts.md5
    <3>1. ss \in Seq(SlotsOf(E)) /\ md5 \in BOOLEAN /\ b \in Nat
          BY <1>2, <1>3, <1>8
    <3>2. file = FromBinary(Laying(ss, ss, md5) \o Blanks(b), md5)
          BY <1>8 DEF u
    <3> HIDE DEF file, md5, slots
    <3>3. LET f == FromBinary(Laying(ss, ss, md5) \o Blanks(b), md5)
          IN  /\ f = [ok |-> f.ok, entries |-> [i \in 1..Len(ss) |-> ss[i].e]]
              /\ f.ok <=> (md5 => ss = ss)
          BY ONLY <3>1, ImageRead
    <3> QED BY <3>2, <3>3 DEF md5
  <2>3. [i \in 1..Len(ss) |-> ss[i].e] = es
    <3>1. \A i \in 1..n : ss[i].e = es[i]
          BY <1>3 DEF Slot
    <3>2. es = [i \in 1..n |-> es[i]]
      <4>1. es \in Seq(EntsOf(t))
            BY TablePlaced DEF es
      <4> QED BY <1>1, <4>1
    <3> QED BY <1>3, <3>1, <3>2
  <2>4. file.ok \in BOOLEAN
    <3>1. \E ok \in BOOLEAN : \E x : FromBinary(slots, opts.md5) = [ok |-> ok, entries |-> x]
      <4> HIDE DEF slots
      <4> QED BY DEF FromBinary
    <3> QED BY <3>1
  <2>5. file.ok = TRUE
        BY <2>2, <2>4
  <2> HIDE DEF file
  <2>6. file = [ok |-> TRUE, entries |-> es]
        BY <2>2, <2>3, <2>5
  <2> QED BY <1>9, <2>1, <2>6 DEF ReadsAs, file
<1>12. FindsDamage(slots, es, opts)
  <2> SUFFICES ASSUME opts.md5, NEW i \in DOMAIN es
               PROVE  ~PtLoad(Binary([slots EXCEPT ![i] = Slot([es[i] EXCEPT !.size = @ + 1])]),
                             opts).ok
      BY DEF FindsDamage
  <2> DEFINE d == [es[i] EXCEPT !.size = @ + 1]
             z == [ss EXCEPT ![i] = Slot(d)]
             damaged == [slots EXCEPT ![i] = Slot(d)]
  <2>1. es[i] \in E /\ i \in DOMAIN ss /\ i \in 1..n
        BY <1>1, <1>3
  <2>2. d \in E /\ d.size # es[i].size
        BY <2>1 DEF E, AllEnts, Ents
  <2>3. Slot(d) \in SlotsOf(E) /\ Slot(d) # ss[i]
    <3>1. Slot(d) \in SlotsOf(E)
      <4> HIDE DEF d
      <4> QED BY <2>2 DEF SlotsOf
    <3>2. Slot(d).e = d /\ ss[i].e = es[i]
      <4> HIDE DEF d
      <4> QED BY <1>3, <2>1 DEF Slot
    <3> QED BY <2>2, <3>1, <3>2
  <2> HIDE DEF d
  <2>4. z \in Seq(SlotsOf(E)) /\ z[i] = Slot(d) /\ z[i] # ss[i]
        BY <1>3, <2>1, <2>3
  <2>5. damaged = Laying(z, ss, opts.md5) \o Blanks(b)
    <3> DEFINE md5 == opts.md5
               new == Slot(d)
    <3>1. /\ ss \in Seq(SlotsOf(E)) /\ md5 \in BOOLEAN /\ b \in Nat /\ i \in DOMAIN ss
          /\ new \in SlotsOf(E)
          BY <1>2, <1>3, <1>8, <2>1, <2>3
    <3> HIDE DEF md5, new
    <3>2. Exchanged(ss, ss, md5, b, i, new)
          BY ONLY <3>1, OneChanged
    <3> QED BY <1>8, <3>2 DEF u, md5, new, Exchanged
  <2> HIDE DEF z
  <2>6. ~FromBinary(damaged, opts.md5).ok
    <3>1. FromBinary(damaged, opts.md5).ok <=> (opts.md5 => ss = z)
      <4> DEFINE md5 == opts.md5
      <4>1. ss \in Seq(SlotsOf(E)) /\ z \in Seq(SlotsOf(E)) /\ md5 \in BOOLEAN /\ b \in Nat
            BY <1>2, <1>3, <1>8, <2>4
      <4>2. damaged = Laying(z, ss, md5) \o Blanks(b)
            BY <2>5
      <4> HIDE DEF damaged, md5
      <4>3. FromBinary(Laying(z, ss, md5) \o Blanks(b), md5).ok <=> (md5 => ss = z)
            BY ONLY <4>1, ImageRead
      <4> QED BY <4>2, <4>3 DEF md5
    <3> QED BY <2>4, <3>1
  <2>7. damaged[1] # Blank
    <3>1. damaged[1] \in SlotsOf(E)
      <4>1. CASE i = 1
        <5>1. slots \in Seq(Filled(E) \cup {Blank}) /\ 1 \in DOMAIN slots
          <6>1. Blanks(b) \in Seq(Filled(E) \cup {Blank}) /\ u \in Seq(Filled(E) \cup {Blank})
                BY <1>7, <1>8 DEF Blanks
          <6>2. Len(u \o Blanks(b)) >= 1
                BY <1>7, <1>8, <6>1
          <6> QED BY <1>8, <6>1, <6>2
        <5> QED BY <2>3, <4>1, <5>1
      <4>2. CASE i # 1
            BY <1>10, <4>2
      <4> QED BY <4>1, <4>2
    <3> QED BY <3>1, SlotIs
  <2> HIDE DEF damaged
  <2>8. PtLoad(Binary(damaged), opts) = FromBinary(damaged, opts.md5)
        BY <1>9, <2>7
  <2> QED BY <2>6, <2>8 DEF damaged, d
<1> QED BY <1>11, <1>12 DEF es, opts, image

-----------------------------------------------------------------------------
(* Dependency files *)

\* What a dependency file is made of: blanks, backslashes and these pieces.
Chars(P) == White \cup {"bs"} \cup P
Known(P) ==
    [deps : Seq(Seq(Chars(P))), sdkconfig : BOOLEAN, path : Seq(Chars(P)),
     last : Chars(P) \cup {"start"}]

LEMMA AddDepIs ==
    ASSUME NEW P, NEW d \in Known(P), NEW path \in Seq(Chars(P))
    PROVE  /\ AddDep(d, path) \in Known(P)
           /\ AddDep(d, path).path = d.path /\ AddDep(d, path).last = d.last
<1>1. CASE path = <<>>
      BY <1>1 DEF AddDep
<1>2. CASE path # <<>> /\ ~d.sdkconfig /\ Last(path) \in SdkPieces
  <2>1. AddDep(d, path) = [d EXCEPT !.sdkconfig = TRUE]
        BY <1>2 DEF AddDep
  <2> QED BY <2>1 DEF Known
<1>3. CASE path # <<>> /\ ~(~d.sdkconfig /\ Last(path) \in SdkPieces)
  <2>1. AddDep(d, path) = [d EXCEPT !.deps = Append(@, path)]
        BY <1>3 DEF AddDep
  <2>2. Append(d.deps, path) \in Seq(Seq(Chars(P)))
        BY DEF Known
  <2> QED BY <2>1, <2>2 DEF Known
<1> QED BY <1>1, <1>2, <1>3

LEMMA OnCharIs ==
    ASSUME NEW P, NEW d \in Known(P), NEW c \in Chars(P)
    PROVE  OnChar(d, c) \in Known(P)
<1>1. AddDep(d, d.path) \in Known(P)
  <2>1. d.path \in Seq(Chars(P))
        BY DEF Known
  <2> QED BY <2>1, AddDepIs
<1>2. <<>> \in Seq(Chars(P)) /\ d.path \in Seq(Chars(P)) /\ Append(d.path, c) \in Seq(Chars(P))
      BY DEF Known
<1>3. CASE c \in {"nl", "cr"} /\ d.last = "bs"
  <2>1. OnChar(d, c) = [[d EXCEPT !.path = <<>>] EXCEPT !.last = c]
        BY <1>3 DEF OnChar
  <2> QED BY <1>2, <2>1 DEF Known
<1>4. CASE c \in White /\ d.last # "bs"
  <2>1. OnChar(d, c) = [[AddDep(d, d.path) EXCEPT !.path = <<>>] EXCEPT !.last = c]
        BY <1>4 DEF OnChar
  <2> HIDE DEF AddDep
  <2> QED BY <1>1, <1>2, <2>1 DEF Known
<1>5. CASE ~(c \in {"nl", "cr"} /\ d.last = "bs") /\ ~(c \in White /\ d.last # "bs")
  <2>1. OnChar(d, c) = [[d EXCEPT !.path = Append(@, c)] EXCEPT !.last = c]
        BY <1>5 DEF OnChar
  <2> QED BY <1>2, <2>1 DEF Known
<1> QED BY <1>3, <1>4, <1>5

\* h goes through the characters one by one.
Goes(h, d, s) == h[0] = d /\ \A i \in 1..Len(s) : h[i] = OnChar(h[i-1], s[i])

LEMMA ReadGoes ==
    ASSUME NEW P, NEW d \in Known(P), NEW s \in Seq(Chars(P))
    PROVE  \E h \in [0..Len(s) -> Known(P)] : Goes(h, d, s) /\ Read(d, s) = h[Len(s)]
<1> DEFINE n == Len(s)
           g == [x \in Known(P) \X (1..n) |-> OnChar(x[1], s[x[2]])]
           after[i \in 0..n] == IF i = 0 THEN d
                                ELSE LET before == after[i - 1] IN OnChar(before, s[i])
           F(f) == [i \in 0..n |-> IF i = 0 THEN d
                                    ELSE LET before == f[i - 1] IN OnChar(before, s[i])]
<1>1. n \in Nat /\ \A i \in 1..n : s[i] \in Chars(P)
      OBVIOUS
<1>2. Read(d, s) = after[n]
      BY DEF Read
<1>3. after = CHOOSE f : f = F(f)
      OBVIOUS
<1>4. ASSUME NEW x \in Known(P) \X (1..n) PROVE OnChar(x[1], s[x[2]]) \in Known(P)
      BY <1>1, OnCharIs
<1>5. g \in [Known(P) \X (1..n) -> Known(P)]
      BY <1>4
<1>6. \A x \in Known(P), i \in 1..n : g[<<x, i>>] = OnChar(x, s[i])
      OBVIOUS
<1> HIDE DEF g, n, after
<1>7. PICK h \in [0..n -> Known(P)] : Follows(h, d, g, n)
      BY ONLY <1>1, <1>5, Steps
<1>8. \A i \in 1..n : i - 1 \in 0..n /\ h[i] = OnChar(h[i-1], s[i])
  <2>1. \A i \in 1..n : i - 1 \in 0..n
        BY <1>1
  <2> QED BY <1>6, <1>7, <2>1 DEF Follows
<1>9. h[0] = d
      BY <1>7 DEF Follows
<1>10. h = F(h)
  <2>1. \A i \in 0..n : h[i] = IF i = 0 THEN d ELSE OnChar(h[i-1], s[i])
    <3>1. \A i \in 0..n : i = 0 \/ i \in 1..n
          BY <1>1
    <3>2. \A i \in 1..n : i # 0
          BY <1>1
    <3> QED BY <1>8, <1>9, <3>1, <3>2
  <2> QED BY <1>7, <2>1
<1> HIDE DEF F
<1>11. after = F(after)
       BY <1>3, <1>10
<1>12. \A i \in 0..n : after[i] = IF i = 0 THEN d ELSE OnChar(after[i-1], s[i])
       BY <1>11 DEF F
<1> DEFINE T == {i \in 0..n : after[i] = h[i]}
<1>13. 0 \in T
       BY <1>1, <1>9, <1>12
<1>14. ASSUME NEW i \in 1..n, i - 1 \in T PROVE i \in T
  <2>1. i \in 0..n /\ i # 0
        BY <1>1
  <2> QED BY <1>8, <1>12, <1>14, <2>1
<1> HIDE DEF T
<1>15. \A i \in 0..n : i \in T
       BY <1>1, <1>13, <1>14, UpToN
<1>16. after[n] = h[n]
  <2>1. n \in T
        BY <1>1, <1>15
  <2> QED BY <2>1 DEF T
<1> QED BY <1>2, <1>8, <1>9, <1>16 DEF Goes, n

\* There is one way to go.
LEMMA OneWay ==
    ASSUME NEW P, NEW d \in Known(P), NEW s \in Seq(Chars(P)), NEW h, Goes(h, d, s)
    PROVE  Read(d, s) = h[Len(s)]
<1> DEFINE n == Len(s)
<1>1. PICK f \in [0..n -> Known(P)] : Goes(f, d, s) /\ Read(d, s) = f[n]
      BY ReadGoes
<1>2. n \in Nat
      OBVIOUS
<1> DEFINE T == {i \in 0..n : f[i] = h[i]}
<1>3. 0 \in T
      BY <1>1, <1>2 DEF Goes
<1>4. ASSUME NEW i \in 1..n, i - 1 \in T PROVE i \in T
  <2>1. i \in 0..n
        BY <1>2
  <2> QED BY <1>1, <1>4, <2>1 DEF Goes
<1> HIDE DEF n, T
<1>5. \A i \in 0..n : i \in T
      BY <1>2, <1>3, <1>4, UpToN
<1>6. n \in T
      BY <1>2, <1>5
<1> QED BY <1>1, <1>6 DEF T, n

LEMMA ReadOne ==
    ASSUME NEW P, NEW d \in Known(P), NEW c \in Chars(P)
    PROVE  Read(d, <<c>>) = OnChar(d, c)
<1> DEFINE h == [i \in {0, 1} |-> IF i = 0 THEN d ELSE OnChar(d, c)]
<1>1. <<c>> \in Seq(Chars(P)) /\ Len(<<c>>) = 1 /\ <<c>>[1] = c
      OBVIOUS
<1>2. \A i \in 1..1 : i = 1
      OBVIOUS
<1>3. h[0] = d /\ h[1] = OnChar(d, c) /\ 1 - 1 = 0
      OBVIOUS
<1> HIDE DEF h
<1>4. Goes(h, d, <<c>>)
      BY <1>1, <1>2, <1>3 DEF Goes
<1> QED BY <1>1, <1>3, <1>4, OneWay

\* One text after the other.
LEMMA ReadOn ==
    ASSUME NEW P, NEW d \in Known(P), NEW s \in Seq(Chars(P)), NEW t \in Seq(Chars(P))
    PROVE  Read(d, s) \in Known(P) /\ Read(d, s \o t) = Read(Read(d, s), t)
<1> DEFINE m == Len(s)
           n == Len(t)
<1>1. /\ s \o t \in Seq(Chars(P)) /\ m \in Nat /\ n \in Nat /\ Len(s \o t) = m + n
      /\ \A i \in 1..m : (s \o t)[i] = s[i]
      /\ \A i \in 1..n : (s \o t)[m + i] = t[i]
      OBVIOUS
<1>2. PICK f \in [0..m -> Known(P)] : Goes(f, d, s) /\ Read(d, s) = f[m]
      BY ReadGoes
<1>3. Read(d, s) \in Known(P)
      BY <1>1, <1>2
<1>4. PICK g \in [0..n -> Known(P)] : Goes(g, Read(d, s), t) /\ Read(Read(d, s), t) = g[n]
      BY <1>3, ReadGoes
<1> DEFINE h == [i \in 0..m + n |-> IF i <= m THEN f[i] ELSE g[i - m]]
<1> HIDE DEF m, n
<1>5. \A i \in 0..m : h[i] = f[i]
      BY <1>1
<1>6. \A i \in 0..n : h[m + i] = g[i]
  <2> SUFFICES ASSUME NEW i \in 0..n PROVE h[m + i] = g[i]
      OBVIOUS
  <2>1. m + i \in 0..m + n /\ (m + i) - m = i
        BY <1>1
  <2>2. CASE i = 0
    <3>1. m \in 0..m /\ m + i = m
          BY <1>1, <2>2
    <3>2. h[m + i] = f[m]
          BY <1>5, <3>1
    <3> QED BY <1>2, <1>4, <2>2, <3>2 DEF Goes
  <2>3. CASE i # 0
    <3>1. ~(m + i <= m)
          BY <1>1, <2>3
    <3> QED BY <2>1, <3>1
  <2> QED BY <2>2, <2>3
<1> HIDE DEF h
<1>7. h[0] = d
      BY <1>1, <1>2, <1>5 DEF Goes
<1>8. ASSUME NEW i \in 1..(m + n) PROVE h[i] = OnChar(h[i-1], (s \o t)[i])
  <2>1. CASE i <= m
    <3>1. i \in 1..m /\ i \in 0..m /\ i - 1 \in 0..m
          BY <1>1, <2>1
    <3>2. f[i] = OnChar(f[i-1], s[i])
          BY <1>2, <3>1 DEF Goes, m
    <3> QED BY <1>1, <1>5, <3>1, <3>2
  <2>2. CASE ~(i <= m)
    <3> DEFINE j == i - m
    <3>1. j \in 1..n /\ j \in 0..n /\ j - 1 \in 0..n /\ i = m + j /\ i - 1 = m + (j - 1)
          BY <1>1, <2>2
    <3> HIDE DEF j
    <3>2. g[j] = OnChar(g[j-1], t[j])
          BY <1>4, <3>1 DEF Goes, n
    <3>3. h[i] = g[j] /\ h[i-1] = g[j-1] /\ (s \o t)[i] = t[j]
          BY <1>1, <1>6, <3>1
    <3> QED BY <3>2, <3>3
  <2> QED BY <2>1, <2>2
<1>9. Goes(h, d, s \o t)
      BY <1>1, <1>7, <1>8 DEF Goes
<1>10. Read(d, s \o t) = h[m + n]
      BY <1>1, <1>9, OneWay
<1>11. n \in 0..n
       BY <1>1
<1> QED BY <1>3, <1>4, <1>6, <1>10, <1>11

\* What stands between two paths: it begins and ends with a blank, and a backslash
\* is there to continue the line.
IsGap(s) ==
    /\ s \in Seq(White \cup {"bs"}) /\ s # <<>>
    /\ s[1] \in White /\ s[Len(s)] \in White
    /\ \A i \in 1..(Len(s) - 1) : s[i] = "bs" => s[i+1] \in {"nl", "cr"}

\* A gap ends the path before it.
LEMMA GapEnds ==
    ASSUME NEW P, NEW d \in Known(P), d.last # "bs", NEW s \in Seq(Chars(P)), IsGap(s)
    PROVE  LET a == AddDep(d, d.path)
               e == Read(d, s)
           IN  /\ e \in Known(P) /\ e.path = <<>> /\ e.last # "bs"
               /\ e.deps = a.deps /\ e.sdkconfig = a.sdkconfig
<1> DEFINE n == Len(s)
           a == AddDep(d, d.path)
<1>1. /\ n \in Nat /\ n # 0 /\ \A i \in 1..n : s[i] \in White \cup {"bs"}
      /\ s[1] \in White /\ s[n] \in White
      /\ \A i \in 1..(n - 1) : s[i] = "bs" => s[i+1] \in {"nl", "cr"}
  <2>1. s \in Seq(White \cup {"bs"}) /\ s # <<>>
        BY DEF IsGap
  <2>2. n \in Nat /\ n # 0 /\ \A i \in 1..n : s[i] \in White \cup {"bs"}
        BY <2>1
  <2> QED BY <2>2 DEF IsGap
<1>2. PICK h \in [0..n -> Known(P)] : Goes(h, d, s) /\ Read(d, s) = h[n]
      BY ReadGoes
<1>3. d.path \in Seq(Chars(P)) /\ a \in Known(P)
  <2>1. d.path \in Seq(Chars(P))
        BY DEF Known
  <2> QED BY <2>1, AddDepIs
<1>4. "bs" \notin White
      BY DEF White
<1>5. h[0] = d /\ \A i \in 1..n : h[i] = OnChar(h[i-1], s[i])
      BY <1>2 DEF Goes
<1>6. Read(d, s) = h[n]
      BY <1>2
<1> HIDE DEF n, a
<1> DEFINE Since(i) == /\ h[i].deps = a.deps /\ h[i].sdkconfig = a.sdkconfig /\ h[i].last = s[i]
                       /\ h[i].path = IF s[i] = "bs" THEN <<"bs">> ELSE <<>>
           T == {i \in 0..n : i # 0 => Since(i)}
<1>7. 0 \in T
      BY <1>1
<1>8. ASSUME NEW i \in 1..n, i - 1 \in T PROVE i \in T
  <2>0. i \in 0..n /\ i # 0 /\ i - 1 \in 0..n
        BY <1>1
  <2>1. CASE i = 1
    <3>1. h[i] = OnChar(d, s[i]) /\ s[i] \in White /\ s[i] # "bs"
          BY <1>1, <1>4, <1>5, <2>1
    <3>2. h[i] = [[a EXCEPT !.path = <<>>] EXCEPT !.last = s[i]]
          BY <3>1 DEF OnChar, a
    <3>3. /\ h[i].deps = a.deps /\ h[i].sdkconfig = a.sdkconfig /\ h[i].last = s[i]
          /\ h[i].path = <<>>
          BY <1>3, <3>2 DEF Known
    <3> QED BY <2>0, <3>1, <3>3
  <2>2. CASE i # 1
    <3> DEFINE b == h[i-1]
    <3>1. i - 1 # 0 /\ i - 1 \in 1..(n - 1) /\ (i - 1) + 1 = i
          BY <1>1, <2>2
    <3>2. Since(i - 1)
          BY <1>8, <3>1
    <3>3. b \in Known(P) /\ b.last = s[i-1] /\ b.deps = a.deps /\ b.sdkconfig = a.sdkconfig
          BY <2>0, <3>2
    <3>4. h[i] = OnChar(b, s[i]) /\ s[i] \in White \cup {"bs"}
          BY <1>1, <1>5
    <3>5. b.path = IF s[i-1] = "bs" THEN <<"bs">> ELSE <<>>
          BY <3>2
    <3>6. s[i-1] = "bs" => s[i] \in {"nl", "cr"}
          BY <1>1, <3>1
    <3> HIDE DEF b
    <3>7. CASE s[i-1] = "bs"
      <4>1. s[i] \in {"nl", "cr"} /\ s[i] # "bs"
            BY <3>6, <3>7
      <4>2. h[i] = [[b EXCEPT !.path = <<>>] EXCEPT !.last = s[i]]
            BY <3>3, <3>4, <3>7, <4>1 DEF OnChar
      <4>3. Since(i)
            BY <3>3, <4>1, <4>2 DEF Known
      <4> QED BY <2>0, <4>3
    <3>8. CASE s[i-1] # "bs" /\ s[i] \in White
      <4>1. AddDep(b, b.path) = b /\ s[i] # "bs" /\ b.last # "bs"
            BY <1>4, <3>3, <3>5, <3>8 DEF AddDep
      <4>2. h[i] = [[b EXCEPT !.path = <<>>] EXCEPT !.last = s[i]]
            BY <3>4, <3>8, <4>1 DEF OnChar
      <4>3. Since(i)
            BY <3>3, <4>1, <4>2 DEF Known
      <4> QED BY <2>0, <4>3
    <3>9. CASE s[i-1] # "bs" /\ s[i] = "bs"
      <4>1. s[i] \notin White /\ s[i] \notin {"nl", "cr"} /\ b.path = <<>>
            BY <1>4, <3>5, <3>9
      <4>2. h[i] = [[b EXCEPT !.path = Append(<<>>, "bs")] EXCEPT !.last = s[i]]
            BY <3>4, <3>9, <4>1 DEF OnChar
      <4>3. Append(<<>>, "bs") = <<"bs">>
            OBVIOUS
      <4>4. Since(i)
            BY <3>3, <3>9, <4>2, <4>3 DEF Known
      <4> QED BY <2>0, <4>4
    <3> QED BY <3>4, <3>7, <3>8, <3>9
  <2> QED BY <2>1, <2>2
<1> HIDE DEF T
<1>9. \A i \in 0..n : i \in T
      BY <1>1, <1>7, <1>8, UpToN
<1>10. n \in 0..n /\ n \in T
       BY <1>1, <1>9
<1>11. Since(n) /\ h[n] \in Known(P) /\ s[n] # "bs"
       BY <1>1, <1>2, <1>4, <1>10 DEF T
<1> QED BY <1>6, <1>11 DEF a

\* What d stands for once these paths are read: those that are no sdkconfig.h, and
\* whether one was.
Shows(d, P, paths, i) ==
    /\ d \in Known(P) /\ d.last # "bs"
    /\ \A x : In(x, AddDep(d, d.path).deps) <=>
              \E j \in 1..i : x = <<paths[j]>> /\ paths[j] \notin SdkPieces
    /\ AddDep(d, d.path).sdkconfig <=> \E j \in 1..i : paths[j] \in SdkPieces

OneSdk(paths) ==
    \A i, j \in DOMAIN paths : paths[i] \in SdkPieces /\ paths[j] \in SdkPieces => i = j

LEMMA PathShows ==
    ASSUME NEW P, P \cap (White \cup {"bs"}) = {}, NEW paths \in Seq(P), OneSdk(paths),
           NEW i \in 1..Len(paths), NEW d, Shows(d, P, paths, i - 1),
           NEW s \in Seq(Chars(P)), IsGap(s)
    PROVE  Shows(Read(d, s \o <<paths[i]>>), P, paths, i)
<1> DEFINE p == paths[i]
           a == AddDep(d, d.path)
           b == Read(d, s)
           e == Read(d, s \o <<p>>)
<1>1. d \in Known(P) /\ d.last # "bs"
      BY DEF Shows
<1>2. /\ b \in Known(P) /\ b.path = <<>> /\ b.last # "bs"
      /\ b.deps = a.deps /\ b.sdkconfig = a.sdkconfig
      BY <1>1, GapEnds
<1>3. p \in P /\ p \in Chars(P) /\ p \notin White /\ p # "bs" /\ p \notin {"nl", "cr"}
      BY DEF Chars, White
<1>4. /\ i \in Nat /\ i - 1 \in Nat
      /\ DOMAIN paths = 1..Len(paths) /\ Len(paths) \in Nat /\ i <= Len(paths)
      OBVIOUS
<1>5. /\ \A x : In(x, a.deps) <=> \E j \in 1..(i-1) : x = <<paths[j]>> /\ paths[j] \notin SdkPieces
      /\ a.sdkconfig <=> \E j \in 1..(i-1) : paths[j] \in SdkPieces
      BY DEF Shows
<1>6. e = OnChar(b, p)
  <2>1. <<p>> \in Seq(Chars(P))
        BY <1>3
  <2> DEFINE t == <<p>>
  <2>2. d \in Known(P) /\ s \in Seq(Chars(P)) /\ t \in Seq(Chars(P))
        BY <1>1, <2>1
  <2> HIDE DEF t, p, b, e
  <2>3. Read(d, s \o t) = Read(Read(d, s), t)
        BY ONLY <2>2, ReadOn
  <2> QED BY <1>2, <1>3, <2>3, ReadOne DEF t, b, e
<1>7. \A j : j \in 1..i <=> j \in 1..(i-1) \/ j = i
      BY <1>4
<1> HIDE DEF p, a, b, e
<1>8. e = [[b EXCEPT !.path = Append(@, p)] EXCEPT !.last = p]
      BY <1>3, <1>6 DEF OnChar
<1>9. Append(<<>>, p) = <<p>>
      OBVIOUS
<1>10. e.path = <<p>> /\ e.last = p /\ e.deps = a.deps /\ e.sdkconfig = a.sdkconfig /\ e \in Known(P)
  <2>1. e \in Known(P)
        BY <1>2, <1>3, <1>6, OnCharIs
  <2> QED BY <1>2, <1>8, <1>9, <2>1 DEF Known
<1>11. <<p>> # <<>> /\ Last(<<p>>) = p
       BY DEF Last
<1> DEFINE f == AddDep(e, e.path)
<1>12. CASE p \in SdkPieces
  <2>1. ~ \E j \in 1..(i-1) : paths[j] \in SdkPieces
    <3> SUFFICES ASSUME NEW j \in 1..(i-1), paths[j] \in SdkPieces PROVE FALSE
        OBVIOUS
    <3>1. j \in DOMAIN paths /\ i \in DOMAIN paths /\ j # i
          BY <1>4
    <3> QED BY <1>12, <3>1 DEF OneSdk, p
  <2>2. ~ e.sdkconfig
        BY <1>10, <1>5, <2>1
  <2>3. f = [e EXCEPT !.sdkconfig = TRUE]
        BY <1>10, <1>11, <1>12, <2>2 DEF AddDep
  <2>4. f.deps = a.deps /\ f.sdkconfig = TRUE
        BY <1>10, <2>3 DEF Known
  <2> HIDE DEF f
  <2>5. \A x : In(x, f.deps) <=> \E j \in 1..i : x = <<paths[j]>> /\ paths[j] \notin SdkPieces
        BY <1>7, <1>5, <1>12, <2>4 DEF p
  <2>6. f.sdkconfig <=> \E j \in 1..i : paths[j] \in SdkPieces
        BY <1>7, <1>12, <2>4 DEF p
  <2> QED BY <1>3, <1>10, <2>5, <2>6 DEF Shows, f, e, p
<1>13. CASE p \notin SdkPieces
  <2>1. f = [e EXCEPT !.deps = Append(@, <<p>>)]
        BY <1>10, <1>11, <1>13 DEF AddDep
  <2>2. f.deps = Append(a.deps, <<p>>) /\ f.sdkconfig = a.sdkconfig
        BY <1>10, <2>1 DEF Known
  <2>3. a.deps \in Seq(Seq(Chars(P))) /\ <<p>> \in Seq(Chars(P))
        BY <1>3, <1>10 DEF Known
  <2> HIDE DEF f
  <2>4. \A x : In(x, f.deps) <=> In(x, a.deps) \/ x = <<p>>
    <3>1. DOMAIN f.deps = DOMAIN a.deps \cup {Len(a.deps) + 1} /\ f.deps[Len(a.deps) + 1] = <<p>>
          BY <2>2, <2>3, Appended
    <3>2. \A k \in DOMAIN a.deps : f.deps[k] = a.deps[k]
          BY <2>2, <2>3, Appended
    <3> QED BY <3>1, <3>2 DEF In
  <2>5. \A x : In(x, f.deps) <=> \E j \in 1..i : x = <<paths[j]>> /\ paths[j] \notin SdkPieces
        BY <1>7, <1>5, <1>13, <2>4 DEF p
  <2>6. f.sdkconfig <=> \E j \in 1..i : paths[j] \in SdkPieces
        BY <1>7, <1>5, <1>13, <2>2 DEF p
  <2> QED BY <1>3, <1>10, <2>5, <2>6 DEF Shows, f, e, p
<1> QED BY <1>12, <1>13

\* A compiler's text is read path by path.
LEMMA TextShows ==
    ASSUME NEW P, P \cap (White \cup {"bs"}) = {}, NEW paths \in Seq(P), OneSdk(paths),
           NEW d \in Known(P), Shows(d, P, paths, 0), NEW s \in Seq(Chars(P)), IsGap(s)
    PROVE  LET text == FlattenSeq([i \in DOMAIN paths |-> s \o <<paths[i]>>])
           IN  text \in Seq(Chars(P)) /\ Shows(Read(d, text), P, paths, Len(paths))
<1> DEFINE n == Len(paths)
           ss == [i \in DOMAIN paths |-> s \o <<paths[i]>>]
<1>1. n \in Nat /\ DOMAIN paths = 1..n /\ \A i \in 1..n : paths[i] \in Chars(P)
      BY DEF Chars
<1>2. \A i \in 1..n : s \o <<paths[i]>> \in Seq(Chars(P))
      BY <1>1
<1>3. /\ ss \in Seq(Seq(Chars(P))) /\ Len(ss) = n
      /\ \A i \in 1..n : ss[i] = s \o <<paths[i]>>
      BY <1>1, <1>2
<1>4. CASE n = 0
  <2>1. FlattenSeq(ss) = ss /\ ss = <<>>
        BY <1>3, <1>4 DEF FlattenSeq
  <2>2. <<>> \in Seq(Chars(P)) /\ Len(<<>>) = 0
        OBVIOUS
  <2>3. Read(d, <<>>) = d
    <3>1. PICK h : Goes(h, d, <<>>) /\ Read(d, <<>>) = h[0]
          BY <2>2, ReadGoes
    <3> QED BY <3>1 DEF Goes
  <2> QED BY <1>4, <2>1, <2>2, <2>3
<1>5. CASE n # 0
  <2>1. ss # <<>>
        BY <1>3, <1>5
  <2> HIDE DEF ss, n
  <2>2. ss \in Seq(Seq(Chars(P)))
        BY <1>3
  <2>3. PICK f \in [1..Len(ss) -> Seq(Chars(P))] :
           /\ FlattenSeq(ss) = f[Len(ss)]
           /\ \A i \in 1..Len(ss) : f[i] = IF i = 1 THEN ss[i] ELSE f[i-1] \o ss[i]
        BY ONLY <2>1, <2>2, FlattenedFrom
  <2>4. /\ FlattenSeq(ss) = f[n] /\ f \in [1..n -> Seq(Chars(P))]
        /\ \A i \in 1..n : f[i] = IF i = 1 THEN ss[i] ELSE f[i-1] \o ss[i]
        BY <1>3, <2>3
  <2> DEFINE T == {i \in 0..n : i # 0 => Shows(Read(d, f[i]), P, paths, i)}
  <2>5. 0 \in T
        BY <1>1
  <2>6. ASSUME NEW i \in 1..n, i - 1 \in T PROVE i \in T
    <3>0. i \in 0..n /\ i \in 1..Len(paths) /\ i # 0
          BY <1>1 DEF n
    <3>1. CASE i = 1
      <4>1. f[i] = s \o <<paths[i]>> /\ i - 1 = 0
            BY <1>3, <2>4, <3>1
      <4>2. Shows(Read(d, s \o <<paths[i]>>), P, paths, i)
            BY <3>0, <4>1, PathShows
      <4> QED BY <3>0, <4>1, <4>2
    <3>2. CASE i # 1
      <4> DEFINE b == Read(d, f[i-1])
      <4>1. i - 1 \in 1..n /\ i - 1 # 0
            BY <1>1, <3>2
      <4>2. Shows(b, P, paths, i - 1)
            BY <2>6, <4>1
      <4>3. f[i] = f[i-1] \o (s \o <<paths[i]>>) /\ f[i-1] \in Seq(Chars(P))
            BY <1>3, <2>4, <3>2, <4>1
      <4> DEFINE t == s \o <<paths[i]>>
                 u == f[i-1]
      <4>4. t \in Seq(Chars(P)) /\ u \in Seq(Chars(P)) /\ f[i] = u \o t /\ b = Read(d, u)
            BY <1>2, <4>3
      <4> HIDE DEF b, t, u
      <4>5. Read(d, u \o t) = Read(Read(d, u), t)
            BY <4>4, ReadOn
      <4>6. Read(d, f[i]) = Read(b, s \o <<paths[i]>>)
            BY <4>4, <4>5 DEF t
      <4>7. Shows(Read(b, s \o <<paths[i]>>), P, paths, i)
            BY <3>0, <4>2, PathShows
      <4> QED BY <3>0, <4>6, <4>7
    <3> QED BY <3>1, <3>2
  <2> HIDE DEF T
  <2>7. \A i \in 0..n : i \in T
        BY <1>1, <2>5, <2>6, UpToN
  <2>8. n \in 0..n /\ n \in 1..n
        BY <1>1, <1>5
  <2>9. Shows(Read(d, f[n]), P, paths, n)
        BY <1>5, <2>7, <2>8 DEF T
  <2> QED BY <2>4, <2>8, <2>9 DEF n, ss
<1> QED BY <1>4, <1>5

\* However a compiler breaks the lines of a dependency file, each path after a gap,
\* no path is lost or made up, sdkconfig.h is taken out, and every option that one of
\* the files names has its marker.
THEOREM DependenciesAreKept ==
    ASSUME NEW P, P \cap (White \cup {"bs"}) = {}, NEW paths \in Seq(P), OneSdk(paths),
           NEW sep, IsGap(sep), NEW end, end = <<>> \/ IsGap(end)
    PROVE  KeepsDependencies(paths, sep, end)
<1> DEFINE d == [deps |-> <<>>, sdkconfig |-> FALSE, path |-> <<>>, last |-> "start"]
           text == FlattenSeq([i \in DOMAIN paths |-> sep \o <<paths[i]>>])
           n == Len(paths)
           b == Read(d, text)
           c == Read(d, text \o end)
           a == AddDep(c, c.path)
           sources == ToSet(paths) \ SdkPieces
<1>1. sep \in Seq(Chars(P)) /\ end \in Seq(Chars(P))
  <2>1. \A s \in Seq(White \cup {"bs"}) : s \in Seq(Chars(P))
        BY DEF Chars
  <2>2. <<>> \in Seq(Chars(P))
        OBVIOUS
  <2> QED BY <2>1, <2>2 DEF IsGap
<1>2. d \in Known(P) /\ Shows(d, P, paths, 0)
  <2>1. d \in Known(P)
        BY DEF Known
  <2>2. AddDep(d, d.path) = d /\ d.deps = <<>> /\ DOMAIN <<>> = {} /\ d.sdkconfig = FALSE
        BY DEF AddDep
  <2>3. 1..0 = {} /\ d.last # "bs"
        OBVIOUS
  <2> QED BY <2>1, <2>2, <2>3 DEF Shows, In
<1> HIDE DEF d
<1>3. text \in Seq(Chars(P)) /\ Shows(b, P, paths, n)
      BY <1>1, <1>2, TextShows
<1> HIDE DEF text, b, n
<1>4. Shows(c, P, paths, n)
  <2>1. CASE end = <<>>
    <3>1. text \o end = text
          BY <1>3, <2>1
    <3> QED BY <1>3, <3>1 DEF b
  <2>2. CASE IsGap(end)
    <3>1. c = Read(b, end)
          BY <1>1, <1>2, <1>3, ReadOn DEF b
    <3>2. b \in Known(P) /\ b.last # "bs"
          BY <1>3 DEF Shows
    <3> HIDE DEF c
    <3>3. /\ c \in Known(P) /\ c.path = <<>> /\ c.last # "bs"
          /\ c.deps = AddDep(b, b.path).deps /\ c.sdkconfig = AddDep(b, b.path).sdkconfig
          BY <1>1, <2>2, <3>1, <3>2, GapEnds
    <3>4. AddDep(c, c.path) = c
          BY <3>3 DEF AddDep
    <3> QED BY <1>3, <3>3, <3>4 DEF Shows
  <2> QED BY <2>1, <2>2
<1>5. Parse(Text(paths, sep, end)) = a
      BY DEF Parse, Text, d, text
<1>6. DOMAIN paths = 1..n
      BY DEF n
<1>7. /\ \A x : In(x, a.deps) <=> \E j \in 1..n : x = <<paths[j]>> /\ paths[j] \notin SdkPieces
      /\ a.sdkconfig <=> \E j \in 1..n : paths[j] \in SdkPieces
      /\ a.sdkconfig \in BOOLEAN
  <2>1. c \in Known(P) /\ c.path \in Seq(Chars(P))
        BY <1>4 DEF Shows, Known
  <2>2. a \in Known(P)
        BY <2>1, AddDepIs
  <2> QED BY <1>4, <2>2 DEF Shows, Known
<1> HIDE DEF c, a
<1>8. ToSet(a.deps) = {<<p>> : p \in sources}
  <2>1. \A x : x \in ToSet(a.deps) <=> \E j \in 1..n : x = <<paths[j]>> /\ paths[j] \notin SdkPieces
        BY <1>7, Elements
  <2>2. \A p : p \in sources <=> \E j \in 1..n : p = paths[j] /\ paths[j] \notin SdkPieces
        BY <1>6 DEF ToSet
  <2> HIDE DEF sources
  <2> QED BY <2>1, <2>2
<1>9. a.sdkconfig = (ToSet(paths) \cap SdkPieces # {})
  <2>1. a.sdkconfig <=> (ToSet(paths) \cap SdkPieces # {})
        BY <1>7, <1>6 DEF ToSet
  <2> QED BY <1>7, <2>1
<1> HIDE DEF sources
<1>10. Options(a.deps) = UNION {ToSet(Names[p]) : p \in sources \cap DOMAIN Names}
  <2>1. \A p : Len(<<p>>) = 1 /\ Head(<<p>>) = p
        OBVIOUS
  <2>2. Options(a.deps) =
           UNION {IF Len(x) = 1 /\ Head(x) \in DOMAIN Names THEN ToSet(Names[Head(x)]) ELSE {} :
                     x \in {<<p>> : p \in sources}}
        BY <1>8 DEF Options
  <2>3. ASSUME NEW o
        PROVE  o \in Options(a.deps) <=>
                  \E p \in sources : p \in DOMAIN Names /\ o \in ToSet(Names[p])
        BY <2>1, <2>2
  <2> HIDE DEF sources
  <2> QED BY <2>3
<1>11. Rewritten(Text(paths, sep, end)) =
          [written |-> a.sdkconfig, deps |-> ToSet(a.deps),
           markers |-> {Marker(o) : o \in Options(a.deps)}]
       BY <1>5 DEF Rewritten
<1> QED BY <1>8, <1>9, <1>10, <1>11 DEF KeepsDependencies, sources
=============================================================================
