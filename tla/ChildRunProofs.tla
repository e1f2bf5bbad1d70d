---------------------------- MODULE ChildRunProofs ---------------------------
(***************************************************************************)
(* Proofs about ChildRun, for every size of the ring, the pipe and a read, *)
(* whatever the child writes: the log is what was written, and output that *)
(* is shown has no gap.                                                    *)
(***************************************************************************)
EXTENDS ChildRun, SequenceTheorems, TLAPS

Entry == [pid : Pids, header : {None, 0, 1}, body : Seq(Nat)]
Ring == [buf : [0..RingSize - 1 -> Nat], pos : 0..RingSize - 1, len : 0..RingSize]

RunShape ==
    /\ mode \in Ways /\ pid \in Pids
    /\ step \in {"start", "failed", "keys", "read", "wait", "done", "killed"}
    /\ logs \in Seq(Entry)
    /\ written \in Seq(Nat) /\ pipe \in Seq(Nat) /\ showing \in Seq(Nat)
    /\ holders \subseteq {"child", "left"} /\ rc \in {None, 0, 1}
    /\ peek \in Ring /\ unshown \in Nat
    /\ verbose \in BOOLEAN /\ raw \in BOOLEAN
    /\ ctrlV \in [all : Nat, unread : Nat]

Begun == step \notin {"start", "failed"}
Alive == step \in {"keys", "read", "wait", "done"}

LogInv ==
    Begun /\ ~Nested =>
       /\ logs # <<>> /\ Log.pid = pid
       /\ IsPrefix(Log.body, written)
       /\ Alive => Log.body \o pipe = written
       /\ Log.header = IF step = "done" THEN rc ELSE None

\* When reading has ended nobody is left who could write.
EndInv == step \in {"wait", "done"} => pipe = <<>> /\ holders = {}

\* Without keys everything that is read is shown.
PlainInv == Alive /\ mode # "terminal" => verbose /\ ~raw /\ showing \o pipe = written

LogsInv == RunShape /\ LogInv /\ EndInv /\ PlainInv

-----------------------------------------------------------------------------
(* The ring. *)

From(r) == IF r.len < RingSize THEN 0 ELSE r.pos
At(r, i) == r.buf[(From(r) + i - 1) % RingSize]

\* The ring holds the last bytes of what was read, as many as it can.
Keeps(r, body) ==
    /\ r.len <= Len(body)
    /\ r.len < RingSize => r.pos = r.len
    /\ \A i \in 1..r.len : At(r, i) = body[Len(body) - r.len + i]

RingInv == step \in {"keys", "read"} /\ mode = "terminal" => raw /\ Keeps(peek, Log.body)

ShownInv ==
    step \in {"keys", "read", "wait"} /\ mode = "terminal" =>
        /\ verbose => /\ unshown <= Len(Log.body)
                      /\ showing = SubSeq(Log.body, unshown + 1, Len(Log.body))
        /\ (verbose <=> lastRow # "spinner")

-----------------------------------------------------------------------------
(* Sequences, and the log in progress. *)

LEMMA PrefixMeans ==
    ASSUME NEW s \in Seq(Nat), NEW t \in Seq(Nat)
    PROVE  IsPrefix(s, t) <=> Len(s) <= Len(t) /\ \A k \in 1..Len(s) : s[k] = t[k]
<1>1. CASE Len(s) <= Len(t)
  <2>1. SubSeq(s, 1, Len(s)) = s
        BY SubSeqFull
  <2>2. /\ SubSeq(t, 1, Len(s)) \in Seq(Nat) /\ Len(SubSeq(t, 1, Len(s))) = Len(s)
        /\ \A k \in 1..Len(s) : SubSeq(t, 1, Len(s))[k] = t[k]
        BY <1>1, LenProperties
  <2>3. s = SubSeq(t, 1, Len(s)) <=> \A k \in 1..Len(s) : s[k] = SubSeq(t, 1, Len(s))[k]
        BY <2>2, SeqEqual
  <2> QED BY <1>1, <2>1, <2>2, <2>3 DEF IsPrefix
<1>2. CASE ~(Len(s) <= Len(t))
      BY <1>2 DEF IsPrefix
<1> QED BY <1>1, <1>2

LEMMA LogTyped ==
    ASSUME logs \in Seq(Entry), logs # <<>>
    PROVE  /\ Log \in Entry /\ Log.pid \in Pids /\ Log.header \in {None, 0, 1}
           /\ Log.body \in Seq(Nat) /\ Len(Log.body) \in Nat
<1>1. Len(logs) \in 1..Len(logs)
      BY EmptySeq
<1>2. Log \in Entry
      BY <1>1 DEF Log, Last
<1> QED BY <1>2 DEF Entry

LEMMA BodySet ==
    ASSUME logs \in Seq(Entry), logs # <<>>, NEW b \in Seq(Nat), logs' = ToLog("body", b)
    PROVE  /\ logs' \in Seq(Entry) /\ logs' # <<>>
           /\ Log'.body = b /\ Log'.pid = Log.pid /\ Log'.header = Log.header
<1>1. Len(logs) \in 1..Len(logs) /\ logs[Len(logs)] \in Entry
      BY EmptySeq
<1>2. PICK e \in Entry : e = [logs[Len(logs)] EXCEPT !.body = b]
      BY <1>1 DEF Entry
<1>3. logs' = [logs EXCEPT ![Len(logs)] = e]
      BY <1>2 DEF ToLog
<1>4. logs' \in Seq(Entry) /\ Len(logs') = Len(logs) /\ logs'[Len(logs)] = e
      BY <1>1, <1>3, ExceptSeq
<1>5. e.body = b /\ e.pid = logs[Len(logs)].pid /\ e.header = logs[Len(logs)].header
      BY <1>1, <1>2 DEF Entry
<1> QED BY <1>1, <1>4, <1>5, EmptySeq DEF Log, Last

LEMMA HeaderSet ==
    ASSUME logs \in Seq(Entry), logs # <<>>, NEW h \in {None, 0, 1}, logs' = ToLog("header", h)
    PROVE  /\ logs' \in Seq(Entry) /\ logs' # <<>>
           /\ Log'.body = Log.body /\ Log'.pid = Log.pid /\ Log'.header = h
<1>1. Len(logs) \in 1..Len(logs) /\ logs[Len(logs)] \in Entry
      BY EmptySeq
<1>2. PICK e \in Entry : e = [logs[Len(logs)] EXCEPT !.header = h]
      BY <1>1 DEF Entry
<1>3. logs' = [logs EXCEPT ![Len(logs)] = e]
      BY <1>2 DEF ToLog
<1>4. logs' \in Seq(Entry) /\ Len(logs') = Len(logs) /\ logs'[Len(logs)] = e
      BY <1>1, <1>3, ExceptSeq
<1>5. e.header = h /\ e.pid = logs[Len(logs)].pid /\ e.body = logs[Len(logs)].body
      BY <1>1, <1>2 DEF Entry
<1> QED BY <1>1, <1>4, <1>5, EmptySeq DEF Log, Last

\* What a read takes from the pipe.
Taken == SubSeq(pipe, 1, IF Len(pipe) < ReadSize THEN Len(pipe) ELSE ReadSize)
Rest == SubSeq(pipe, (IF Len(pipe) < ReadSize THEN Len(pipe) ELSE ReadSize) + 1, Len(pipe))

LEMMA Taking ==
    ASSUME pipe \in Seq(Nat), pipe # <<>>
    PROVE  /\ Taken \in Seq(Nat) /\ Rest \in Seq(Nat) /\ Taken \o Rest = pipe
           /\ Len(Taken) \in Nat
<1>1. PICK n : n = IF Len(pipe) < ReadSize THEN Len(pipe) ELSE ReadSize
      OBVIOUS
<1>2. n \in 1..Len(pipe) /\ Len(pipe) \in Nat \ {0}
      BY <1>1, EmptySeq, SizesAssumption
<1>3. Taken = SubSeq(pipe, 1, n) /\ Rest = SubSeq(pipe, n + 1, Len(pipe))
      BY <1>1 DEF Taken, Rest
<1>4. SubSeq(pipe, 1, n) \in Seq(Nat) /\ SubSeq(pipe, n + 1, Len(pipe)) \in Seq(Nat)
      BY <1>2
<1>5. SubSeq(pipe, 1, n) \o SubSeq(pipe, n + 1, Len(pipe)) = SubSeq(pipe, 1, Len(pipe))
      BY <1>2, ConcatAdjacentSubSeq
<1>6. SubSeq(pipe, 1, Len(pipe)) = pipe
      BY SubSeqFull
<1>7. Taken \in Seq(Nat) /\ Rest \in Seq(Nat)
      BY <1>3, <1>4
<1>8. Taken \o Rest = pipe
      BY <1>3, <1>5, <1>6
<1>9. Len(Taken) \in Nat
      BY <1>7, LenProperties
<1> QED BY <1>7, <1>8, <1>9

LEMMA ReadTakes ==
    ASSUME ReadPipe
    PROVE  /\ step = "read" /\ step' = "keys" /\ pipe # <<>> /\ pipe' = Rest
           /\ logs' = IF Nested THEN logs ELSE ToLog("body", Log.body \o Taken)
           /\ peek' = IF raw THEN PeekAppend(peek, Taken) ELSE peek
           /\ showing' = IF verbose THEN showing \o Taken ELSE showing
           /\ lastRow' = IF verbose THEN "text" ELSE lastRow
           /\ UNCHANGED <<mode, pid, written, holders, rc, verbose, raw, ctrlV, unshown, dumped>>
BY DEF ReadPipe, Taken, Rest

\* A sequence that is moved on by what is taken off the pipe.
LEMMA MovedOn ==
    ASSUME pipe \in Seq(Nat), pipe # <<>>, NEW s \in Seq(Nat)
    PROVE  s \o Taken \in Seq(Nat) /\ (s \o Taken) \o Rest = s \o pipe
<1>1. PICK t \in Seq(Nat), r \in Seq(Nat) : t = Taken /\ r = Rest /\ t \o r = pipe
      BY Taking
<1>2. s \o t \in Seq(Nat) /\ (s \o t) \o r = s \o (t \o r)
      BY ConcatAssociative, ConcatProperties
<1> QED BY <1>1, <1>2

LEMMA PrefixOfWhole ==
    ASSUME NEW s \in Seq(Nat), NEW t \in Seq(Nat)
    PROVE  IsPrefix(s, s \o t)
<1>1. /\ s \o t \in Seq(Nat) /\ Len(s) \in Nat /\ Len(t) \in Nat /\ Len(s \o t) = Len(s) + Len(t)
      /\ \A k \in 1..Len(s) : (s \o t)[k] = s[k]
      BY ConcatProperties, LenProperties
<1>2. PICK u \in Seq(Nat) : u = s \o t
      BY <1>1
<1>3. Len(s) <= Len(u) /\ \A k \in 1..Len(s) : s[k] = u[k]
      BY <1>1, <1>2
<1>4. IsPrefix(s, u)
      BY <1>3, PrefixMeans, Zenon
<1> QED BY <1>2, <1>4

\* Two sequences of which one byte goes to both the end of the pipe and the whole.
LEMMA WrittenOn ==
    ASSUME NEW s \in Seq(Nat), NEW t \in Seq(Nat), NEW b \in Nat
    PROVE  s \o Append(t, b) = Append(s \o t, b) /\ Append(t, b) \in Seq(Nat)
<1>1. <<b>> \in Seq(Nat) /\ Append(t, b) = t \o <<b>> /\ Append(t, b) \in Seq(Nat)
      BY AppendIsConcat, AppendProperties
<1>2. PICK w \in Seq(Nat) : w = s \o t
      BY ConcatProperties
<1>3. Append(w, b) = w \o <<b>>
      BY AppendIsConcat
<1>4. ASSUME NEW u \in Seq(Nat) PROVE (s \o t) \o u = s \o (t \o u)
      BY ConcatAssociative
<1>5. (s \o t) \o <<b>> = s \o (t \o <<b>>)
      BY <1>1, <1>4
<1> QED BY <1>1, <1>2, <1>3, <1>5

LEMMA PrefixOfMore ==
    ASSUME NEW s \in Seq(Nat), NEW t \in Seq(Nat), NEW b \in Nat, IsPrefix(s, t)
    PROVE  IsPrefix(s, Append(t, b))
<1>1. PICK u \in Seq(Nat) : u = Append(t, b)
      BY AppendProperties
<1>2. Len(u) = Len(t) + 1 /\ \A k \in 1..Len(t) : u[k] = t[k]
      BY <1>1, AppendProperties
<1>3. Len(s) <= Len(t) /\ (\A k \in 1..Len(s) : s[k] = t[k]) /\ Len(s) \in Nat /\ Len(t) \in Nat
      BY PrefixMeans, LenProperties
<1>4. Len(s) <= Len(u) /\ \A k \in 1..Len(s) : s[k] = u[k]
      BY <1>2, <1>3
<1>5. IsPrefix(s, u)
      BY <1>4, PrefixMeans, Zenon
<1> QED BY <1>1, <1>5

\* The first bytes of a prefix are a prefix.
LEMMA PrefixOfLess ==
    ASSUME NEW s \in Seq(Nat), NEW t \in Seq(Nat), IsPrefix(s, t), NEW n \in 0..Len(s)
    PROVE  SubSeq(s, 1, n) \in Seq(Nat) /\ IsPrefix(SubSeq(s, 1, n), t)
<1>1. Len(s) <= Len(t) /\ (\A k \in 1..Len(s) : s[k] = t[k]) /\ Len(s) \in Nat /\ Len(t) \in Nat
      BY PrefixMeans, LenProperties
<1>2. n \in Int /\ 1 \in Int /\ \A k \in 1..n : s[k] \in Nat
      BY <1>1, ElementOfSeq
<1>3. /\ SubSeq(s, 1, n) \in Seq(Nat) /\ Len(SubSeq(s, 1, n)) = n
      /\ \A k \in 1..n : SubSeq(s, 1, n)[k] = s[k]
      BY <1>1, <1>2, SubSeqProperties
<1>4. PICK u \in Seq(Nat) : u = SubSeq(s, 1, n)
      BY <1>3
<1>5. Len(u) <= Len(t) /\ \A k \in 1..Len(u) : u[k] = t[k]
      BY <1>1, <1>3, <1>4
<1>6. IsPrefix(u, t)
      BY <1>5, PrefixMeans, Zenon
<1> QED BY <1>4, <1>6

LEMMA Part ==
    ASSUME NEW s \in Seq(Nat), NEW n \in Nat, NEW k \in Nat, n + k <= Len(s)
    PROVE  /\ SubSeq(s, n + 1, n + k) \in Seq(Nat) /\ Len(SubSeq(s, n + 1, n + k)) = k
           /\ \A i \in 1..k : SubSeq(s, n + 1, n + k)[i] = s[n + i]
<1>1. n + 1 \in Int /\ n + k \in Int /\ Len(s) \in Nat
      BY LenProperties
<1>2. \A i \in n + 1..n + k : s[i] \in Nat
      BY <1>1, ElementOfSeq
<1>3. /\ SubSeq(s, n + 1, n + k) \in Seq(Nat)
      /\ Len(SubSeq(s, n + 1, n + k)) = IF n + 1 <= n + k THEN n + k - (n + 1) + 1 ELSE 0
      /\ \A i \in 1..n + k - (n + 1) + 1 : SubSeq(s, n + 1, n + k)[i] = s[n + 1 + i - 1]
      BY <1>1, <1>2, SubSeqProperties
<1> QED BY <1>3

LEMMA Joined ==
    ASSUME NEW s \in Seq(Nat), NEW t \in Seq(Nat), NEW l, l = Len(s), NEW m, m = Len(t),
           NEW w, w = s \o t
    PROVE  Len(w) = l + m /\ (\A i \in 1..l : w[i] = s[i]) /\ (\A i \in 1..m : w[l + i] = t[i])
<1>1. l \in Nat /\ m \in Nat
      BY LenProperties
<1>2. \A i \in 1..l + m : w[i] = IF i <= l THEN s[i] ELSE t[i - l]
      BY ConcatProperties
<1>3. Len(w) = l + m
      BY ConcatProperties
<1>4. ASSUME NEW i \in 1..l PROVE w[i] = s[i]
      BY <1>1, <1>2
<1>5. ASSUME NEW i \in 1..m PROVE w[l + i] = t[i]
  <2>1. l + i \in 1..l + m /\ ~(l + i <= l) /\ (l + i) - l = i
        BY <1>1
  <2> QED BY <1>2, <2>1
<1> QED BY <1>3, <1>4, <1>5

\* What follows the first n bytes grows as the whole does.
LEMMA TailGrows ==
    ASSUME NEW s \in Seq(Nat), NEW t \in Seq(Nat), NEW n \in Nat, n <= Len(s)
    PROVE  /\ n <= Len(s \o t)
           /\ SubSeq(s, n + 1, Len(s)) \o t = SubSeq(s \o t, n + 1, Len(s \o t))
<1>1. PICK k \in Nat, l \in Nat, m \in Nat : l = Len(s) /\ l = n + k /\ m = Len(t)
  <2>1. Len(s) \in Nat /\ Len(t) \in Nat
        BY LenProperties
  <2>2. Len(s) - n \in Nat /\ Len(s) = n + (Len(s) - n)
        BY <2>1
  <2> QED BY <2>1, <2>2
<1>2. PICK w \in Seq(Nat) : w = s \o t
      BY ConcatProperties
<1>3. Len(w) = l + m /\ (\A i \in 1..l : w[i] = s[i]) /\ (\A i \in 1..m : w[l + i] = t[i])
  <2>1. l = Len(s) /\ m = Len(t)
        BY <1>1
  <2> QED BY ONLY <1>2, <2>1, s \in Seq(Nat), t \in Seq(Nat), Joined
<1>4. /\ SubSeq(s, n + 1, n + k) \in Seq(Nat) /\ Len(SubSeq(s, n + 1, n + k)) = k
      /\ \A i \in 1..k : SubSeq(s, n + 1, n + k)[i] = s[n + i]
  <2>1. n + k <= Len(s)
        BY <1>1
  <2> QED BY <2>1, Part
<1>5. PICK u \in Seq(Nat) : u = SubSeq(s, n + 1, n + k) /\ Len(u) = k /\ \A i \in 1..k : u[i] = s[n + i]
      BY <1>4
<1>6. k + m \in Nat /\ n + (k + m) <= Len(w)
      BY <1>1, <1>3
<1>7. /\ SubSeq(w, n + 1, n + (k + m)) \in Seq(Nat) /\ Len(SubSeq(w, n + 1, n + (k + m))) = k + m
      /\ \A i \in 1..k + m : SubSeq(w, n + 1, n + (k + m))[i] = w[n + i]
      BY <1>6, Part
<1>8. PICK v \in Seq(Nat) : /\ v = SubSeq(w, n + 1, n + (k + m)) /\ Len(v) = k + m
                            /\ \A i \in 1..k + m : v[i] = w[n + i]
      BY <1>7
<1>9. PICK x \in Seq(Nat) : x = u \o t
      BY ConcatProperties
<1>10. Len(x) = k + m /\ (\A i \in 1..k : x[i] = u[i]) /\ (\A i \in 1..m : x[k + i] = t[i])
  <2>1. k = Len(u) /\ m = Len(t)
        BY <1>1, <1>5
  <2> QED BY ONLY <1>9, <2>1, u \in Seq(Nat), t \in Seq(Nat), Joined
<1>11. ASSUME NEW i \in 1..k + m PROVE x[i] = v[i]
  <2>1. v[i] = w[n + i]
        BY <1>8
  <2>2. CASE i <= k
    <3>1. i \in 1..k /\ n + i \in 1..l
          BY <1>1, <2>2
    <3>2. x[i] = s[n + i] /\ w[n + i] = s[n + i]
          BY <1>3, <1>5, <1>10, <3>1
    <3> QED BY <2>1, <3>2
  <2>3. CASE ~(i <= k)
    <3>1. PICK e \in 1..m : e = i - k
          BY <2>3
    <3>2. i = k + e /\ n + i = l + e
          BY <1>1, <3>1
    <3>3. x[k + e] = t[e] /\ w[l + e] = t[e]
          BY <1>3, <1>10
    <3> QED BY <2>1, <3>2, <3>3
  <2> QED BY <2>2, <2>3
<1>12. x = v
  <2>1. Len(x) = Len(v) /\ \A i \in 1..Len(x) : x[i] = v[i]
        BY <1>8, <1>10, <1>11
  <2> QED BY <2>1, SeqEqual
<1>13. n <= Len(w) /\ n + (k + m) = Len(w)
      BY <1>1, <1>3
<1> QED BY <1>1, <1>2, <1>5, <1>8, <1>9, <1>12, <1>13

-----------------------------------------------------------------------------
(* The ring keeps the last bytes, however the bytes come.                   *)

LEMMA Wraps ==
    RingSize \in Nat \ {0} /\ \A x \in 0..(2 * RingSize - 1) :
        x % RingSize = IF x < RingSize THEN x ELSE x - RingSize
<1>1. RingSize \in Nat \ {0}
      BY SizesAssumption
<1>2. ASSUME NEW x \in 0..(2 * RingSize - 1)
      PROVE  x % RingSize = IF x < RingSize THEN x ELSE x - RingSize
      BY <1>1
<1> QED BY <1>1, <1>2

\* So what wraps around is in the ring.
LEMMA InRing == \A x \in 0..(2 * RingSize - 1) : x % RingSize \in 0..RingSize - 1
<1>1. SUFFICES ASSUME NEW x \in 0..(2 * RingSize - 1) PROVE x % RingSize \in 0..RingSize - 1
      OBVIOUS
<1>2. RingSize \in Nat \ {0} /\ x % RingSize = IF x < RingSize THEN x ELSE x - RingSize
      BY Wraps
<1> QED BY <1>2

LEMMA PeekTyped ==
    ASSUME NEW r \in Ring, NEW bytes \in Seq(Nat)
    PROVE  PeekAppend(r, bytes) \in Ring
<1> DEFINE n == Len(bytes)
<1>1. /\ n \in Nat /\ RingSize \in Nat \ {0}
      /\ r.buf \in [0..RingSize - 1 -> Nat] /\ r.pos \in 0..RingSize - 1 /\ r.len \in 0..RingSize
      BY SizesAssumption, LenProperties DEF Ring
<1>2. CASE n >= RingSize
  <2>1. PeekAppend(r, bytes) =
            [buf |-> [i \in 0..RingSize - 1 |-> bytes[n - RingSize + i + 1]], pos |-> 0, len |-> RingSize]
        BY <1>2 DEF PeekAppend
  <2>2. [i \in 0..RingSize - 1 |-> bytes[n - RingSize + i + 1]] \in [0..RingSize - 1 -> Nat]
    <3>1. ASSUME NEW i \in 0..RingSize - 1 PROVE bytes[n - RingSize + i + 1] \in Nat
          BY <1>1, <1>2, ElementOfSeq
    <3> QED BY <3>1
  <2>3. 0 \in 0..RingSize - 1 /\ RingSize \in 0..RingSize
        BY <1>1
  <2> QED BY ONLY <2>1, <2>2, <2>3 DEF Ring
<1>3. CASE ~(n >= RingSize)
  <2> DEFINE slot(i) == (i + RingSize - r.pos) % RingSize
             buf == [i \in 0..RingSize - 1 |-> IF slot(i) < n THEN bytes[slot(i) + 1] ELSE r.buf[i]]
  <2>1. PeekAppend(r, bytes) = [buf |-> buf, pos |-> (r.pos + n) % RingSize,
                                len |-> IF r.len + n > RingSize THEN RingSize ELSE r.len + n]
        BY <1>3 DEF PeekAppend
  <2>2. ASSUME NEW i \in 0..RingSize - 1
        PROVE  (IF slot(i) < n THEN bytes[slot(i) + 1] ELSE r.buf[i]) \in Nat
    <3>1. i + RingSize - r.pos \in 0..(2 * RingSize - 1)
          BY <1>1
    <3>2. slot(i) \in 0..RingSize - 1
          BY <3>1, InRing
    <3> HIDE DEF slot
    <3>3. slot(i) < n => bytes[slot(i) + 1] \in Nat
          BY <1>1, <3>2, ElementOfSeq
    <3>4. r.buf[i] \in Nat
          BY <1>1
    <3> QED BY <3>3, <3>4
  <2>3. buf \in [0..RingSize - 1 -> Nat]
        BY <2>2
  <2>4. (r.pos + n) % RingSize \in 0..RingSize - 1
    <3>1. PICK x \in 0..(2 * RingSize - 1) : x = r.pos + n
          BY <1>1, <1>3
    <3>2. x % RingSize \in 0..RingSize - 1
          BY <1>1, Wraps
    <3> QED BY <3>1, <3>2
  <2>5. (IF r.len + n > RingSize THEN RingSize ELSE r.len + n) \in 0..RingSize
        BY <1>1
  <2> HIDE DEF buf
  <2> QED BY <2>1, <2>3, <2>4, <2>5 DEF Ring
<1> QED BY <1>2, <1>3

\* The slots of a ring, counted from its oldest byte.
LEMMA RingRead ==
    ASSUME NEW r \in Ring, NEW i \in 1..RingSize
    PROVE  At(r, i) = r.buf[IF r.len < RingSize THEN i - 1
                            ELSE IF r.pos + i - 1 < RingSize THEN r.pos + i - 1
                            ELSE r.pos + i - 1 - RingSize]
<1>1. RingSize \in Nat \ {0} /\ r.pos \in 0..RingSize - 1
      BY SizesAssumption DEF Ring
<1>2. PICK x \in 0..(2 * RingSize - 1) : x = From(r) + i - 1
      BY <1>1 DEF From
<1>3. x % RingSize = IF x < RingSize THEN x ELSE x - RingSize
      BY Wraps
<1>4. At(r, i) = r.buf[x % RingSize]
      BY <1>2 DEF At
<1>5. x = IF r.len < RingSize THEN i - 1 ELSE r.pos + i - 1
      BY <1>2 DEF From
<1> QED BY <1>1, <1>3, <1>4, <1>5

\* The slots after some bytes were added, fewer than the ring holds.
LEMMA SlotAfter ==
    ASSUME NEW r \in Ring, NEW bytes \in Seq(Nat), Len(bytes) < RingSize, NEW j \in 0..RingSize - 1
    PROVE  LET k == IF j >= r.pos THEN j - r.pos ELSE j + RingSize - r.pos
           IN  PeekAppend(r, bytes).buf[j] = IF k < Len(bytes) THEN bytes[k + 1] ELSE r.buf[j]
<1>1. RingSize \in Nat \ {0} /\ r.pos \in 0..RingSize - 1 /\ Len(bytes) \in Nat
      BY SizesAssumption, LenProperties DEF Ring
<1>2. PICK x \in 0..(2 * RingSize - 1) : x = j + RingSize - r.pos
      BY <1>1
<1>3. PICK q : q = x % RingSize
      OBVIOUS
<1>4. q = IF x < RingSize THEN x ELSE x - RingSize
      BY <1>3, Wraps
<1>5. q = IF j >= r.pos THEN j - r.pos ELSE j + RingSize - r.pos
      BY ONLY <1>1, <1>2, <1>4, j \in 0..RingSize - 1
<1>6. PeekAppend(r, bytes).buf[j] = IF q < Len(bytes) THEN bytes[q + 1] ELSE r.buf[j]
      BY <1>1, <1>2, <1>3 DEF PeekAppend
<1> QED BY <1>5, <1>6

LEMMA RingKept ==
    ASSUME NEW r \in Ring, NEW body \in Seq(Nat), NEW bytes \in Seq(Nat), Keeps(r, body)
    PROVE  Keeps(PeekAppend(r, bytes), body \o bytes)
<1>1. PICK p \in Ring : p = PeekAppend(r, bytes)
      BY PeekTyped
<1>2. PICK whole \in Seq(Nat) : whole = body \o bytes
      BY ConcatProperties
<1>3. PICK n \in Nat, m \in Nat : n = Len(bytes) /\ m = Len(body)
      BY LenProperties
<1>4. /\ Len(whole) = m + n
      /\ \A i \in 1..m + n : whole[i] = IF i <= m THEN body[i] ELSE bytes[i - m]
      BY <1>2, <1>3, ConcatProperties
<1>5. PICK R \in Nat \ {0} : R = RingSize
      BY SizesAssumption
<1>6. PICK P \in 0..R - 1, L \in 0..R : P = r.pos /\ L = r.len
      BY <1>5 DEF Ring
<1>7. /\ L <= m /\ (L < R => P = L)
      /\ \A i \in 1..L : At(r, i) = body[m - L + i]
      BY <1>3, <1>5, <1>6 DEF Keeps
<1>8. PICK l \in 0..R : l = p.len
      BY <1>5 DEF Ring
<1>9. ASSUME n >= R PROVE Keeps(p, whole)
  <2>1. p = [buf |-> [i \in 0..R - 1 |-> bytes[n - R + i + 1]], pos |-> 0, len |-> R]
        BY <1>1, <1>3, <1>5, <1>6, <1>9 DEF PeekAppend
  <2>2. /\ l = R /\ p.len = R /\ p.pos = 0
        /\ \A i \in 0..R - 1 : p.buf[i] = bytes[n - R + i + 1]
        BY <1>8, <2>1
  <2>3. ASSUME NEW i \in 1..R PROVE At(p, i) = whole[m + n - R + i]
    <3>1. At(p, i) = p.buf[i - 1]
          BY <1>5, <1>6, <2>2, RingRead
    <3>2. PICK w \in 1..n : w = n - R + i
          BY <1>9
    <3>3. p.buf[i - 1] = bytes[w]
      <4>1. i - 1 \in 0..R - 1 /\ n - R + (i - 1) + 1 = w
            BY <3>2
      <4> QED BY <2>2, <4>1
    <3>4. whole[m + w] = bytes[w]
      <4>1. m + w \in 1..m + n /\ ~(m + w <= m) /\ (m + w) - m = w
            OBVIOUS
      <4> QED BY <1>4, <4>1
    <3>5. m + w = m + n - R + i
          BY <3>2
    <3> QED BY <3>1, <3>3, <3>4, <3>5
  <2> QED BY <1>4, <1>5, <1>6, <1>9, <2>2, <2>3, SMTT(30) DEF Keeps
<1>10. ASSUME n < R PROVE Keeps(p, whole)
  <2>1. PICK q \in 0..R - 1 : q = (IF P + n < R THEN P + n ELSE P + n - R) /\ p.pos = q
    <3>1. PICK x \in 0..(2 * R - 1) : x = P + n
          BY <1>10
    <3>2. PICK y : y = x % R
          OBVIOUS
    <3>3. y = IF x < R THEN x ELSE x - R
          BY <1>5, <1>6, <3>2, Wraps
    <3>4. p.pos = y
          BY <1>1, <1>3, <1>5, <1>6, <1>10, <3>1, <3>2 DEF PeekAppend
    <3>5. y \in 0..R - 1 /\ y = (IF P + n < R THEN P + n ELSE P + n - R)
          BY <1>10, <3>1, <3>3
    <3> QED BY <3>4, <3>5
  <2>2. l = (IF L + n > R THEN R ELSE L + n)
        BY <1>1, <1>3, <1>5, <1>6, <1>8, <1>10 DEF PeekAppend
  <2>3. ASSUME NEW j \in 0..R - 1, NEW k \in Nat, k = IF j >= P THEN j - P ELSE j + R - P
        PROVE  p.buf[j] = IF k < n THEN bytes[k + 1] ELSE r.buf[j]
        BY <1>1, <1>3, <1>5, <1>6, <1>10, <2>3, SlotAfter
  <2>4. l <= m + n
        BY <1>7, <2>2
  <2>5. l < R => q = l
        BY <1>7, <1>10, <2>1, <2>2
  <2>6. ASSUME NEW i \in 1..l PROVE At(p, i) = whole[m + n - l + i]
    <3>1. (IF l < R THEN i - 1 ELSE IF q + i - 1 < R THEN q + i - 1 ELSE q + i - 1 - R) \in 0..R - 1
          BY ONLY R \in Nat \ {0}, q \in 0..R - 1, l \in 0..R, i \in 1..l
    <3>2. PICK j \in 0..R - 1 :
              j = (IF l < R THEN i - 1 ELSE IF q + i - 1 < R THEN q + i - 1 ELSE q + i - 1 - R)
          BY ONLY <3>1, Zenon
    <3>3. At(p, i) = p.buf[j]
      <4>1. i \in 1..R
            OBVIOUS
      <4> QED BY <1>5, <1>6, <1>8, <2>1, <3>2, <4>1, RingRead
    <3>4. (IF j >= P THEN j - P ELSE j + R - P) \in Nat
          BY ONLY R \in Nat \ {0}, P \in 0..R - 1, j \in 0..R - 1
    <3>5. PICK k \in Nat : k = (IF j >= P THEN j - P ELSE j + R - P)
          BY ONLY <3>4, Zenon
    <3>6. p.buf[j] = IF k < n THEN bytes[k + 1] ELSE r.buf[j]
          BY <2>3, <3>5
    <3>7. n \in 0..R - 1
          BY <1>10
    <3>8. /\ i > l - n => k = i - 1 - l + n
          /\ i <= l - n => /\ k >= n
                           /\ i - l + n + L \in 1..L
                           /\ j = IF L < R THEN i - l + n + L - 1
                                  ELSE IF P + i - l + n + L - 1 < R THEN P + i - l + n + L - 1
                                  ELSE P + i - l + n + L - 1 - R
          BY ONLY <1>7, <2>1, <2>2, <3>2, <3>5, <3>7, R \in Nat \ {0}, P \in 0..R - 1, L \in 0..R,
                  l \in 0..R, q \in 0..R - 1, i \in 1..l, j \in 0..R - 1, k \in Nat, SMTT(30)
    <3>9. PICK w \in 1..m + n : w = m + n - l + i
          BY <2>4
    <3>10. CASE i > l - n
      <4>1. k < n /\ ~(w <= m) /\ w - m = k + 1
            BY <3>8, <3>9, <3>10
      <4>2. whole[w] = bytes[k + 1]
            BY <1>4, <4>1
      <4> QED BY <3>3, <3>6, <3>9, <4>1, <4>2
    <3>11. CASE i <= l - n
      <4>1. PICK v \in 1..L : v = i - l + n + L
            BY <3>8, <3>11
      <4>2. ~(k < n) /\ w <= m /\ m - L + v = w
            BY <3>8, <3>9, <3>11, <4>1
      <4>3. whole[w] = body[w]
            BY <1>4, <4>2
      <4>4. At(r, v) = body[w]
            BY <1>7, <4>2
      <4>5. j = IF L < R THEN v - 1 ELSE IF P + v - 1 < R THEN P + v - 1 ELSE P + v - 1 - R
            BY <3>8, <3>11, <4>1
      <4>6. v \in 1..R
            OBVIOUS
      <4>7. At(r, v) = r.buf[j]
            BY <1>5, <1>6, <4>5, <4>6, RingRead
      <4> QED BY <3>3, <3>6, <3>9, <4>2, <4>3, <4>4, <4>7
    <3> QED BY <3>10, <3>11
  <2>7. p.len <= Len(whole) /\ (p.len < RingSize => p.pos = p.len)
        BY ONLY <1>4, <1>5, <1>8, <2>1, <2>4, <2>5
  <2>8. ASSUME NEW i \in 1..p.len PROVE At(p, i) = whole[Len(whole) - p.len + i]
    <3>1. i \in 1..l
          BY <1>8
    <3>2. m + n - l + i = Len(whole) - p.len + i
          BY <1>4, <1>8
    <3> QED BY <2>6, <3>1, <3>2
  <2> QED BY ONLY <2>7, <2>8 DEF Keeps
<1> QED BY <1>1, <1>2, <1>9, <1>10

\* What is shown first is the end of what was read.
LEMMA Dumped ==
    ASSUME NEW r \in Ring, NEW body \in Seq(Nat), Keeps(r, body)
    PROVE  /\ PeekDump(r) = SubSeq(body, Len(body) - r.len + 1, Len(body))
           /\ PeekDump(r) \in Seq(Nat) /\ Len(body) - r.len \in Nat
<1>1. PICK m \in Nat, l \in Nat : m = Len(body) /\ l = r.len /\ l <= m
      BY LenProperties DEF Keeps, Ring
<1>2. PeekDump(r) = [i \in 1..l |-> At(r, i)]
      BY <1>1 DEF PeekDump, At, From
<1>3. \A i \in 1..l : At(r, i) = body[m - l + i]
      BY <1>1 DEF Keeps
<1>4. SubSeq(body, m - l + 1, m) = [i \in 1..l |-> body[m - l + i]]
      BY <1>1
<1>5. \A i \in m - l + 1..m : body[i] \in Nat
      BY <1>1, ElementOfSeq
<1>6. SubSeq(body, m - l + 1, m) \in Seq(Nat)
      BY <1>1, <1>5, SubSeqProperties
<1>7. [i \in 1..l |-> At(r, i)] = [i \in 1..l |-> body[m - l + i]]
      BY <1>3
<1>8. PeekDump(r) = SubSeq(body, m - l + 1, m)
      BY <1>2, <1>4, <1>7
<1> QED BY <1>1, <1>6, <1>8

-----------------------------------------------------------------------------
(* Each action. *)

ChildInv == LogsInv /\ RingInv /\ ShownInv

USE DEF None

LEMMA InitKeeps ==
    ASSUME RunInit
    PROVE  ChildInv
<1>1. NoPeek \in Ring
      BY SizesAssumption DEF NoPeek, Ring
<1>2. RunShape
      BY <1>1, EmptySeq DEF RunInit, RunShape
<1> QED BY <1>2 DEF RunInit, ChildInv, LogsInv, LogInv, EndInv, PlainInv, RingInv, ShownInv, Begun, Alive

LEMMA StartKeeps ==
    ASSUME ChildInv, Start
    PROVE  ChildInv'
<1> USE DEF Start
<1>1. RunShape /\ pid \in Pids
      BY DEF ChildInv, LogsInv, RunShape
<1>2. NoPeek \in Ring /\ <<>> \in Seq(Nat)
      BY SizesAssumption, EmptySeq DEF NoPeek, Ring
<1>3. PICK e \in Entry : e = [pid |-> pid, header |-> None, body |-> <<>>]
      BY <1>1, <1>2 DEF Entry
<1>4. ASSUME ~Nested
      PROVE  /\ logs' \in Seq(Entry) /\ logs' # <<>> /\ Log' = e
             /\ Log'.body = <<>> /\ Log'.pid = pid /\ Log'.header = None
  <2>1. logs' = Append(logs, e) /\ logs \in Seq(Entry)
        BY <1>1, <1>3, <1>4 DEF RunShape
  <2>2. PICK L \in Seq(Entry) : L = logs' /\ L # <<>> /\ L[Len(L)] = e
        BY <2>1, AppendProperties
  <2> QED BY <1>3, <2>2 DEF Log, Last
<1>5. RunShape'
      BY <1>1, <1>2, <1>4 DEF RunShape
<1>6. IsPrefix(<<>>, <<>>) /\ <<>> \o <<>> = <<>>
      BY <1>2, PrefixOfWhole, ConcatEmptySeq
<1>7. LogInv'
      BY <1>4, <1>6 DEF LogInv, Begun, Alive, Nested
<1>8. EndInv' /\ PlainInv'
      BY <1>6 DEF EndInv, PlainInv, Alive
<1>9. Keeps(NoPeek, <<>>)
      BY SizesAssumption, EmptySeq DEF Keeps, NoPeek
<1>10. RingInv' /\ ShownInv'
      BY <1>4, <1>9 DEF RingInv, ShownInv, Nested
<1> QED BY <1>5, <1>7, <1>8, <1>10 DEF ChildInv, LogsInv

\* What holds while a child runs and its output is logged.
LEMMA Running ==
    ASSUME ChildInv, Begun, ~Nested
    PROVE  /\ logs \in Seq(Entry) /\ logs # <<>> /\ Log.pid = pid /\ Log.body \in Seq(Nat)
           /\ IsPrefix(Log.body, written) /\ (Alive => Log.body \o pipe = written)
           /\ Log.header = IF step = "done" THEN rc ELSE None
BY LogTyped DEF ChildInv, LogsInv, LogInv, RunShape

LEMMA ReadKeysKeeps ==
    ASSUME ChildInv, ReadKeys
    PROVE  ChildInv'
<1> USE DEF ReadKeys
<1>1. /\ RunShape /\ step = "keys" /\ step' = "read" /\ Begun /\ Begun' /\ Alive /\ Alive'
      /\ UNCHANGED <<mode, pid, logs, written, pipe, holders, rc, peek, raw>>
      BY DEF ChildInv, LogsInv, Begun, Alive
<1>2. Log' = Log /\ Nested' = Nested
      BY <1>1 DEF Log, Nested
<1>3. LogInv' /\ EndInv'
      BY <1>1, <1>2 DEF ChildInv, LogsInv, LogInv, EndInv
<1>4. CASE raw /\ ctrlV.unread > 0
  <2>1. mode = "terminal"
        BY <1>1, <1>4 DEF ChildInv, LogsInv, PlainInv
  <2>2. Keeps(peek, Log.body) /\ ~Nested
        BY <1>1, <2>1 DEF ChildInv, RingInv, Nested
  <2>3. Log.body \in Seq(Nat) /\ peek \in Ring /\ peek.len \in Nat /\ Len(Log.body) \in Nat
        BY <1>1, <2>2, Running, LenProperties DEF RunShape, Ring
  <2>4. /\ PeekDump(peek) = SubSeq(Log.body, Len(Log.body) - peek.len + 1, Len(Log.body))
        /\ PeekDump(peek) \in Seq(Nat) /\ Len(Log.body) - peek.len \in Nat
        BY <2>2, <2>3, Dumped
  <2>5. verbose' \in BOOLEAN /\ (verbose' => Show) /\ (~verbose' => Hide)
        BY <1>1, <1>4 DEF RunShape
  <2>6. showing' \in Seq(Nat) /\ unshown' \in Nat
        BY <1>1, <2>4, <2>5, EmptySeq DEF Show, Hide, RunShape
  <2>7. RunShape'
        BY <1>1, <2>5, <2>6 DEF RunShape
  <2>8. verbose' => /\ unshown' <= Len(Log'.body) /\ lastRow' = "text"
                    /\ showing' = SubSeq(Log'.body, unshown' + 1, Len(Log'.body))
    <3>1. ASSUME verbose' PROVE /\ unshown' = Len(Log.body) - peek.len /\ lastRow' = "text"
                                /\ showing' = PeekDump(peek)
          BY <2>5, <3>1 DEF Show
    <3>2. Len(Log.body) - peek.len <= Len(Log.body)
          BY <2>3
    <3> QED BY <1>2, <2>4, <3>1, <3>2
  <2>9. ~verbose' => lastRow' = "spinner"
        BY <2>5 DEF Hide
  <2>10. ShownInv'
        BY <2>5, <2>8, <2>9 DEF ShownInv
  <2>11. RingInv' /\ PlainInv'
        BY <1>1, <1>2, <2>1, <2>2 DEF ChildInv, RingInv, PlainInv
  <2> QED BY <1>3, <2>7, <2>10, <2>11 DEF ChildInv, LogsInv
<1>5. CASE ~(raw /\ ctrlV.unread > 0)
  <2>1. UNCHANGED <<verbose, showing, unshown, lastRow>>
        BY <1>5
  <2>2. RunShape'
        BY <1>1, <2>1 DEF RunShape
  <2>3. RingInv' /\ PlainInv' /\ ShownInv'
        BY <1>1, <1>2, <2>1 DEF ChildInv, LogsInv, RingInv, PlainInv, ShownInv
  <2> QED BY <1>3, <2>2, <2>3 DEF ChildInv, LogsInv
<1> QED BY <1>4, <1>5

LEMMA ReadPipeKeeps ==
    ASSUME ChildInv, ReadPipe
    PROVE  ChildInv'
<1>1. /\ step = "read" /\ step' = "keys" /\ pipe # <<>> /\ pipe' = Rest
      /\ logs' = IF Nested THEN logs ELSE ToLog("body", Log.body \o Taken)
      /\ peek' = IF raw THEN PeekAppend(peek, Taken) ELSE peek
      /\ showing' = IF verbose THEN showing \o Taken ELSE showing
      /\ lastRow' = IF verbose THEN "text" ELSE lastRow
      /\ UNCHANGED <<mode, pid, written, holders, rc, verbose, raw, ctrlV, unshown, dumped>>
      BY ReadTakes
<1>2. RunShape /\ Begun /\ Begun' /\ Alive /\ Alive' /\ Nested' = Nested
      BY <1>1 DEF ChildInv, LogsInv, Begun, Alive, Nested
<1>3. pipe \in Seq(Nat) /\ showing \in Seq(Nat) /\ peek \in Ring
      BY <1>2 DEF RunShape
<1>4. Taken \in Seq(Nat) /\ Rest \in Seq(Nat)
      BY <1>1, <1>3, Taking
<1>5. showing \o Taken \in Seq(Nat) /\ (showing \o Taken) \o Rest = showing \o pipe
      BY <1>1, <1>3, MovedOn
<1>6. ASSUME ~Nested
      PROVE  /\ Log.body \in Seq(Nat) /\ Log.body \o Taken \in Seq(Nat)
             /\ logs' \in Seq(Entry) /\ logs' # <<>>
             /\ Log'.body = Log.body \o Taken /\ Log'.pid = pid /\ Log'.header = None
             /\ (Log.body \o Taken) \o Rest = written
             /\ IsPrefix(Log.body \o Taken, written)
  <2>1. /\ logs \in Seq(Entry) /\ logs # <<>> /\ Log.pid = pid /\ Log.body \in Seq(Nat)
        /\ Log.body \o pipe = written /\ Log.header = None
        BY <1>1, <1>2, <1>6, Running
  <2>2. PICK b \in Seq(Nat) : b = Log.body \o Taken /\ b \o Rest = written
        BY <1>1, <1>3, <2>1, MovedOn
  <2>3. logs' = ToLog("body", b)
        BY <1>1, <1>6, <2>2
  <2>4. /\ logs' \in Seq(Entry) /\ logs' # <<>>
        /\ Log'.body = b /\ Log'.pid = Log.pid /\ Log'.header = Log.header
        BY <2>1, <2>3, BodySet
  <2>5. IsPrefix(b, written)
        BY <1>4, <2>2, PrefixOfWhole
  <2> QED BY <2>1, <2>2, <2>4, <2>5
<1>7. peek' \in Ring
      BY <1>1, <1>3, <1>4, PeekTyped
<1>8. RunShape'
      BY <1>1, <1>2, <1>4, <1>5, <1>6, <1>7 DEF RunShape
<1>9. LogInv'
      BY <1>1, <1>2, <1>6 DEF LogInv
<1>10. EndInv'
      BY <1>1 DEF EndInv
<1>11. PlainInv'
      BY <1>1, <1>2, <1>5 DEF ChildInv, LogsInv, PlainInv
<1>12. RingInv'
  <2>1. SUFFICES ASSUME mode = "terminal" PROVE raw /\ Keeps(peek', Log'.body)
        BY <1>1 DEF RingInv
  <2>2. ~Nested /\ raw /\ Keeps(peek, Log.body)
        BY <1>1, <2>1 DEF ChildInv, RingInv, Nested
  <2>3. Keeps(PeekAppend(peek, Taken), Log.body \o Taken)
        BY <1>3, <1>4, <1>6, <2>2, RingKept
  <2> QED BY <1>1, <1>6, <2>2, <2>3
<1>13. ShownInv'
  <2>1. SUFFICES ASSUME mode = "terminal"
                 PROVE  /\ verbose => /\ unshown <= Len(Log'.body)
                                      /\ showing' = SubSeq(Log'.body, unshown + 1, Len(Log'.body))
                        /\ (verbose <=> lastRow' # "spinner")
        BY <1>1 DEF ShownInv
  <2>2. ~Nested /\ (verbose <=> lastRow # "spinner")
        BY <1>1, <2>1 DEF ChildInv, ShownInv, Nested
  <2>3. (verbose <=> lastRow' # "spinner")
        BY <1>1, <2>2
  <2>4. ASSUME verbose
        PROVE  /\ unshown <= Len(Log'.body)
               /\ showing' = SubSeq(Log'.body, unshown + 1, Len(Log'.body))
    <3>1. /\ unshown <= Len(Log.body) /\ unshown \in Nat
          /\ showing = SubSeq(Log.body, unshown + 1, Len(Log.body))
          BY <1>1, <1>2, <2>1, <2>4 DEF ChildInv, ShownInv, RunShape
    <3>2. showing' = showing \o Taken /\ Log'.body = Log.body \o Taken
          BY <1>1, <1>6, <2>2, <2>4
    <3>3. /\ unshown <= Len(Log.body \o Taken)
          /\ SubSeq(Log.body, unshown + 1, Len(Log.body)) \o Taken
                 = SubSeq(Log.body \o Taken, unshown + 1, Len(Log.body \o Taken))
          BY <1>4, <1>6, <2>2, <3>1, TailGrows
    <3> QED BY <3>1, <3>2, <3>3
  <2> QED BY <2>3, <2>4
<1> QED BY <1>8, <1>9, <1>10, <1>11, <1>12, <1>13 DEF ChildInv, LogsInv

LEMMA TickKeeps ==
    ASSUME ChildInv, Tick
    PROVE  ChildInv'
<1> USE DEF Tick
<1>1. /\ step = "read" /\ step' = "keys" /\ Log' = Log /\ Nested' = Nested
      /\ UNCHANGED <<mode, pid, logs, written, pipe, holders, rc, peek, verbose, raw, ctrlV, showing, unshown>>
      BY DEF Log, Nested
<1>2. RunShape' /\ LogInv' /\ EndInv' /\ PlainInv' /\ RingInv'
      BY <1>1 DEF ChildInv, LogsInv, RunShape, LogInv, EndInv, PlainInv, RingInv, Begun, Alive
<1>3. ShownInv'
      BY <1>1 DEF ChildInv, ShownInv, Interactive
<1> QED BY <1>2, <1>3 DEF ChildInv, LogsInv

LEMMA EndOfPipeKeeps ==
    ASSUME ChildInv, EndOfPipe
    PROVE  ChildInv'
<1> USE DEF EndOfPipe
<1>1. /\ step = "read" /\ step' = "wait" /\ Log' = Log /\ Nested' = Nested
      /\ pipe = <<>> /\ holders = {} /\ raw' = FALSE
      /\ UNCHANGED <<mode, pid, logs, written, pipe, holders, rc, peek, verbose, ctrlV, showing, unshown, lastRow>>
      BY DEF Log, Nested
<1>2. RunShape'
      BY <1>1 DEF ChildInv, LogsInv, RunShape
<1>3. LogInv' /\ EndInv'
      BY <1>1 DEF ChildInv, LogsInv, LogInv, EndInv, Begun, Alive
<1>4. PlainInv' /\ RingInv' /\ ShownInv'
      BY <1>1 DEF ChildInv, LogsInv, PlainInv, RingInv, ShownInv, Alive
<1> QED BY <1>2, <1>3, <1>4 DEF ChildInv, LogsInv

LEMMA FinishKeeps ==
    ASSUME ChildInv, Finish
    PROVE  ChildInv'
<1> USE DEF Finish
<1>1. /\ step = "wait" /\ step' = "done" /\ Nested' = Nested
      /\ logs' = IF Nested THEN logs ELSE ToLog("header", rc)
      /\ UNCHANGED <<mode, pid, written, pipe, holders, rc, peek, verbose, raw, ctrlV, showing, unshown>>
      BY DEF Nested
<1>2. RunShape /\ Begun /\ Begun' /\ Alive /\ Alive' /\ rc \in {None, 0, 1}
      BY <1>1 DEF ChildInv, LogsInv, RunShape, Begun, Alive
<1>3. ASSUME ~Nested
      PROVE  /\ logs' \in Seq(Entry) /\ logs' # <<>>
             /\ Log'.body = Log.body /\ Log'.pid = pid /\ Log'.header = rc
             /\ Log.body \o pipe = written /\ IsPrefix(Log.body, written)
  <2>1. /\ logs \in Seq(Entry) /\ logs # <<>> /\ Log.pid = pid
        /\ Log.body \o pipe = written /\ IsPrefix(Log.body, written)
        BY <1>2, <1>3, Running
  <2>2. logs' = ToLog("header", rc)
        BY <1>1, <1>3
  <2> QED BY <1>2, <2>1, <2>2, HeaderSet
<1>4. RunShape'
      BY <1>1, <1>2, <1>3 DEF RunShape
<1>5. LogInv'
      BY <1>1, <1>2, <1>3 DEF LogInv
<1>6. EndInv' /\ PlainInv' /\ RingInv' /\ ShownInv'
      BY <1>1, <1>2 DEF ChildInv, LogsInv, EndInv, PlainInv, RingInv, ShownInv
<1> QED BY <1>4, <1>5, <1>6 DEF ChildInv, LogsInv

\* Before a child is started, and when it could not be, nothing is claimed.
LEMMA IdleKeeps ==
    ASSUME ChildInv, StartFails \/ Again
    PROVE  ChildInv'
<1>1. /\ step' \in {"start", "failed"} /\ pid' \in Pids
      /\ UNCHANGED <<mode, logs, written, pipe, holders, rc, peek, screenVars>>
      BY DEF StartFails, Again, ChildInv, LogsInv, RunShape
<1>2. RunShape'
      BY <1>1 DEF ChildInv, LogsInv, RunShape, screenVars
<1>3. LogInv' /\ EndInv' /\ PlainInv' /\ RingInv' /\ ShownInv'
      BY <1>1 DEF LogInv, EndInv, PlainInv, RingInv, ShownInv, Begun, Alive
<1> QED BY <1>2, <1>3 DEF ChildInv, LogsInv

LEMMA WriteKeeps ==
    ASSUME ChildInv, Write
    PROVE  ChildInv'
<1>1. PICK b : /\ b = Len(written) + 1 /\ written' = Append(written, b) /\ pipe' = Append(pipe, b)
               /\ holders # {} /\ UNCHANGED <<mode, pid, step, logs, holders, rc, peek, screenVars>>
      BY DEF Write
<1>2. RunShape /\ written \in Seq(Nat) /\ pipe \in Seq(Nat) /\ showing \in Seq(Nat) /\ b \in Nat
      BY <1>1, LenProperties DEF ChildInv, LogsInv, RunShape
<1>3. written' \in Seq(Nat) /\ pipe' \in Seq(Nat)
      BY <1>1, <1>2, WrittenOn
<1>4. /\ Log' = Log /\ Nested' = Nested /\ Begun' = Begun /\ Alive' = Alive
      /\ UNCHANGED <<verbose, raw, ctrlV, showing, unshown, lastRow>>
      BY <1>1 DEF Log, Nested, Begun, Alive, screenVars
<1>5. RunShape'
      BY <1>1, <1>2, <1>3, <1>4 DEF RunShape
<1>6. ASSUME ~Nested, Begun
      PROVE  /\ logs # <<>> /\ Log.pid = pid /\ IsPrefix(Log.body, written')
             /\ (Alive => Log.body \o pipe' = written')
             /\ Log.header = IF step = "done" THEN rc ELSE None
  <2>1. /\ logs # <<>> /\ Log.pid = pid /\ Log.body \in Seq(Nat) /\ IsPrefix(Log.body, written)
        /\ (Alive => Log.body \o pipe = written)
        /\ Log.header = IF step = "done" THEN rc ELSE None
        BY <1>6, Running
  <2>2. IsPrefix(Log.body, written')
        BY <1>1, <1>2, <2>1, PrefixOfMore
  <2>3. Log.body \o Append(pipe, b) = Append(Log.body \o pipe, b)
        BY <1>2, <2>1, WrittenOn
  <2>4. Alive => Log.body \o pipe' = written'
        BY <1>1, <2>1, <2>3
  <2> QED BY <2>1, <2>2, <2>4
<1>7. LogInv'
      BY <1>1, <1>4, <1>6 DEF LogInv
<1>8. EndInv'
      BY <1>1 DEF ChildInv, LogsInv, EndInv
<1>9. PlainInv'
  <2>1. SUFFICES ASSUME Alive, mode # "terminal" PROVE verbose /\ ~raw /\ showing \o pipe' = written'
        BY <1>1, <1>4 DEF PlainInv
  <2>2. verbose /\ ~raw /\ showing \o pipe = written
        BY <2>1 DEF ChildInv, LogsInv, PlainInv
  <2> QED BY <1>1, <1>2, <2>2, WrittenOn
<1>10. RingInv' /\ ShownInv'
      BY <1>1, <1>4 DEF ChildInv, RingInv, ShownInv
<1> QED BY <1>5, <1>7, <1>8, <1>9, <1>10 DEF ChildInv, LogsInv

LEMMA ChildKeeps ==
    ASSUME ChildInv, Leave \/ Exit \/ LeftExits
    PROVE  ChildInv'
<1>1. /\ UNCHANGED <<mode, pid, step, logs, written, pipe, peek, screenVars>>
      /\ holders' \subseteq {"child", "left"} /\ rc' \in {None, 0, 1}
      /\ holders = {} => holders' = {}
      /\ step = "done" => rc' = rc
      BY DEF Leave, Exit, LeftExits, ChildInv, LogsInv, RunShape
<1>2. Log' = Log /\ Nested' = Nested /\ Begun' = Begun /\ Alive' = Alive
      BY <1>1 DEF Log, Nested, Begun, Alive
<1>3. RunShape'
      BY <1>1 DEF ChildInv, LogsInv, RunShape, screenVars
<1>4. LogInv'
      BY <1>1, <1>2 DEF ChildInv, LogsInv, LogInv
<1>5. EndInv' /\ PlainInv' /\ RingInv' /\ ShownInv'
      BY <1>1, <1>2 DEF ChildInv, LogsInv, EndInv, PlainInv, RingInv, ShownInv, screenVars
<1> QED BY <1>3, <1>4, <1>5 DEF ChildInv, LogsInv

LEMMA PressKeeps ==
    ASSUME ChildInv, PressCtrlV
    PROVE  ChildInv'
<1> USE DEF PressCtrlV
<1>1. /\ UNCHANGED <<mode, pid, step, logs, written, pipe, holders, rc, peek, verbose, raw, showing,
                     unshown, lastRow, dumped>>
      /\ ctrlV' \in [all : Nat, unread : Nat]
      BY DEF ChildInv, LogsInv, RunShape
<1>2. Log' = Log /\ Nested' = Nested /\ Begun' = Begun /\ Alive' = Alive
      BY <1>1 DEF Log, Nested, Begun, Alive
<1>3. RunShape'
      BY <1>1 DEF ChildInv, LogsInv, RunShape
<1>4. LogInv' /\ EndInv' /\ PlainInv' /\ RingInv' /\ ShownInv'
      BY <1>1, <1>2 DEF ChildInv, LogsInv, LogInv, EndInv, PlainInv, RingInv, ShownInv
<1> QED BY <1>3, <1>4 DEF ChildInv, LogsInv

LEMMA InterruptKeeps ==
    ASSUME ChildInv, Interrupt
    PROVE  ChildInv'
<1>1. /\ step \in {"keys", "read", "wait"} /\ step' = "killed" /\ Nested' = Nested
      /\ UNCHANGED <<mode, pid, written, pipe, holders, rc, peek, screenVars>>
      BY DEF Interrupt, Nested
<1>2. RunShape /\ Begun /\ Begun' /\ ~Alive' /\ step # "done" /\ written \in Seq(Nat)
      BY <1>1 DEF ChildInv, LogsInv, RunShape, Begun, Alive
<1>3. ASSUME ~Nested
      PROVE  /\ logs' \in Seq(Entry) /\ logs' # <<>> /\ Log'.pid = pid /\ Log'.header = None
             /\ IsPrefix(Log'.body, written)
  <2>1. PICK n \in 0..Len(Log.body) : logs' = ToLog("body", SubSeq(Log.body, 1, n))
        BY <1>3 DEF Interrupt
  <2>2. /\ logs \in Seq(Entry) /\ logs # <<>> /\ Log.pid = pid /\ Log.body \in Seq(Nat)
        /\ IsPrefix(Log.body, written) /\ Log.header = None
        BY <1>2, <1>3, Running
  <2>3. PICK b \in Seq(Nat) : b = SubSeq(Log.body, 1, n) /\ IsPrefix(b, written)
        BY <1>2, <2>2, PrefixOfLess
  <2>4. logs' = ToLog("body", b)
        BY <2>1, <2>3
  <2>5. /\ logs' \in Seq(Entry) /\ logs' # <<>>
        /\ Log'.body = b /\ Log'.pid = Log.pid /\ Log'.header = Log.header
        BY <2>2, <2>4, BodySet
  <2> QED BY <2>2, <2>3, <2>5
<1>4. RunShape'
  <2>1. logs' \in Seq(Entry)
        BY <1>2, <1>3 DEF Interrupt, RunShape
  <2> QED BY <1>1, <1>2, <2>1 DEF RunShape, screenVars
<1>5. LogInv'
      BY <1>1, <1>2, <1>3 DEF LogInv
<1>6. EndInv' /\ PlainInv' /\ RingInv' /\ ShownInv'
      BY <1>1, <1>2 DEF EndInv, PlainInv, RingInv, ShownInv
<1> QED BY <1>4, <1>5, <1>6 DEF ChildInv, LogsInv

LEMMA NextKeeps ==
    ASSUME ChildInv, [RunNext]_runVars
    PROVE  ChildInv'
<1>1. CASE UNCHANGED runVars
  <2>1. /\ UNCHANGED <<mode, pid, step, logs, written, pipe, holders, rc, peek, verbose, raw, ctrlV,
                       showing, unshown, lastRow, dumped>>
        BY <1>1 DEF runVars
  <2>2. Log' = Log /\ Nested' = Nested /\ Begun' = Begun /\ Alive' = Alive
        BY <2>1 DEF Log, Nested, Begun, Alive
  <2>3. RunShape'
        BY <2>1 DEF ChildInv, LogsInv, RunShape
  <2>4. LogInv' /\ EndInv' /\ PlainInv' /\ RingInv' /\ ShownInv'
        BY <2>1, <2>2 DEF ChildInv, LogsInv, LogInv, EndInv, PlainInv, RingInv, ShownInv
  <2> QED BY <2>3, <2>4 DEF ChildInv, LogsInv
<1>2. CASE RunNext
      BY <1>2, StartKeeps, ReadKeysKeeps, ReadPipeKeeps, TickKeeps, EndOfPipeKeeps, FinishKeeps, IdleKeeps,
         WriteKeeps, ChildKeeps, PressKeeps, InterruptKeeps DEF RunNext, Ice, Others
<1> QED BY <1>1, <1>2

THEOREM ChildRunInv == RunSpec => []ChildInv
<1>1. RunInit => ChildInv
      BY InitKeeps
<1>2. ChildInv /\ [RunNext]_runVars => ChildInv'
      BY NextKeeps
<1> QED BY <1>1, <1>2, PTL DEF RunSpec

-----------------------------------------------------------------------------
(* The name of a log. *)

\* A log's own name leads to it, or to no log at all.
LEMMA OwnName ==
    ASSUME logs \in Seq(Entry), logs # <<>>, Log.pid = pid, pid \in Seq(Nat), ByName(pid) # <<>>
    PROVE  ByName(pid) = Nth(1)
<1>1. PICK k \in 1..Len(logs) : NamedAfter(pid) = {k}
      BY DEF ByName
<1>2. Len(logs) \in 1..Len(logs)
      BY EmptySeq
<1>3. IsPrefix(pid, pid)
      BY PrefixMeans
<1>4. Len(logs) \in NamedAfter(pid)
      BY <1>2, <1>3 DEF NamedAfter, Log, Last
<1>5. NamedAfter(pid) = {Len(logs)}
      BY <1>1, <1>4
<1>6. (CHOOSE j \in 1..Len(logs) : NamedAfter(pid) = {j}) = Len(logs)
  <2>1. \E j \in 1..Len(logs) : NamedAfter(pid) = {j}
        BY <1>2, <1>5
  <2> QED BY <1>5, <2>1
<1>7. ByName(pid) = <<logs[Len(logs)]>>
      BY <1>2, <1>5, <1>6 DEF ByName
<1>8. 1 \in 1..Len(logs) /\ Len(logs) - 1 + 1 = Len(logs)
      BY <1>2
<1> QED BY <1>7, <1>8 DEF Nth

\* The log of a run that was not interrupted is everything the child and what it left
\* behind wrote, its header the child's status; an interrupted one is a prefix without
\* a header; and the name a failed run is reported under never leads to another log.
THEOREM LogsAreWhole == RunSpec => []LogIsWhole
<1>1. ASSUME ChildInv PROVE LogIsWhole
  <2>1. RunShape /\ LogInv /\ EndInv /\ PlainInv
        BY <1>1 DEF ChildInv, LogsInv
  <2>2. ASSUME step \notin {"start", "failed"} /\ ~Nested
        PROVE  /\ step # "killed" => Log.body \o pipe = written
               /\ IsPrefix(Log.body, written)
               /\ step = "done" => Log.body = written /\ Log.header = rc
               /\ step # "done" => Log.header = None
               /\ step = "done" /\ ByName(pid) # <<>> => ByName(pid) = Nth(1)
    <3>1. /\ logs \in Seq(Entry) /\ logs # <<>> /\ Log.pid = pid /\ Log.body \in Seq(Nat)
          /\ IsPrefix(Log.body, written) /\ (Alive => Log.body \o pipe = written)
          /\ Log.header = IF step = "done" THEN rc ELSE None
          BY <1>1, <2>2, Running DEF Begun
    <3>2. step # "killed" => Alive
          BY <2>1, <2>2 DEF RunShape, Alive
    <3>3. step = "done" => Alive /\ pipe = <<>>
          BY <2>1 DEF EndInv, Alive
    <3>4. step = "done" => Log.body = written
          BY <3>1, <3>3, ConcatEmptySeq
    <3>5. pid \in Seq(Nat)
          BY <2>1, PidsAssumption DEF RunShape
    <3>6. ByName(pid) # <<>> => ByName(pid) = Nth(1)
          BY <3>1, <3>5, OwnName
    <3> QED BY <3>1, <3>2, <3>4, <3>6
  <2>3. step = "done" /\ mode # "terminal" => showing = written
    <3>1. step = "done" /\ mode # "terminal" => showing \o pipe = written /\ pipe = <<>>
          BY <2>1 DEF PlainInv, EndInv, Alive
    <3>2. showing \o <<>> = showing
          BY <2>1, ConcatEmptySeq DEF RunShape
    <3> QED BY <3>1, <3>2
  <2> QED BY <2>2, <2>3 DEF LogIsWhole
<1> QED BY <1>1, ChildRunInv, PTL

\* Output that is shown runs without a gap from the first byte shown, at most a ring
\* before the key, to the last that was read; the spinner is drawn only where none is.
THEOREM NoGapShown == RunSpec => []ShownWithoutGap
<1>1. ChildInv => ShownWithoutGap
      BY DEF ChildInv, ShownInv, ShownWithoutGap
<1> QED BY <1>1, ChildRunInv, PTL
=============================================================================
