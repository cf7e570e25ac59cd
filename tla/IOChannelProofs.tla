-------------------------- MODULE IOChannelProofs --------------------------
(***************************************************************************)
(* For any peers, frame sizes, number of frames and size of the socket:    *)
(* frames reach the other end whole, once and in the order they were sent. *)
(*                                                                         *)
(* The argument follows a byte to the byte after it.  A cursor is the last *)
(* byte somebody has dealt with, or Start.  What follows it on the wire is *)
(* the next byte of the same frame or, after the last one, the first of    *)
(* the next frame that was not discarded.                                  *)
(***************************************************************************)
EXTENDS IOChannel, FiniteSetTheorems, SequenceTheorems, NaturalsInduction, TLAPS

Start == <<0, 0>>

(* The bytes of the frames fr, and where one can be among them.            *)
Bytes(fr) == {b \in (1..Len(fr)) \X Nat : 1 <= b[2] /\ b[2] <= fr[b[1]].size}
Cursors(fr) == Bytes(fr) \cup {Start}

(* A frame ends here. *)
Complete(fr, a) == a = Start \/ a[2] = fr[a[1]].size

(* m is the first frame after n that is not in d.                          *)
NextKept(d, n, m) == n < m /\ m \notin d /\ \A x \in (n + 1)..(m - 1) : x \in d

Follows(fr, d, a, b) ==
    \/ ~Complete(fr, a) /\ b[1] = a[1] /\ b[2] = a[2] + 1
    \/ Complete(fr, a) /\ b[2] = 1 /\ NextKept(d, a[1], b[1])

(* Where one is after i bytes of w, having started at a.                   *)
at(a, w, i) == IF i = 0 THEN a ELSE w[i]
EndOf(a, w) == at(a, w, Len(w))

Stream(fr, d, a, w) == \A i \in 1..Len(w) : Follows(fr, d, at(a, w, i - 1), w[i])

(* Every frame after the one that ends here was discarded.                 *)
Ended(fr, d, a) == Complete(fr, a) /\ \A x \in (a[1] + 1)..Len(fr) : x \in d

(* Frames handed over one after the other, none left out but those in d.   *)
Chain(d, s) == \A i \in 1..Len(s) : NextKept(d, at(0, s, i - 1), s[i])

(* g is defined by recursion up to N: x, and then one step after another.  *)
Recursive(g, x, step, N, D) ==
    g \in [0..N -> D] /\ g[0] = x /\ \A i \in 1..N : g[i] = step[<<i, g[i - 1]>>]

(* What is left of s without d, after each of its elements.                *)
Leaves(left, s, d, S) ==
    /\ left \in [0..Len(s) -> Seq(S)] /\ left[0] = <<>>
    /\ \A i \in 1..Len(s) : left[i] = IF s[i] \in d THEN left[i - 1] ELSE Append(left[i - 1], s[i])

AnyFrame == [peer : PeerIds, size : FrameSizes]

-----------------------------------------------------------------------------
(* Numbers and sequences. *)

(* Induction: a set of numbers that is not empty has a least one.          *)
LEMMA Least ==
  ASSUME NEW T, T \subseteq Nat, T # {}
  PROVE  \E n \in T : \A m \in T : n <= m
  <1>1. PICK n \in T : \A m \in T : ~(<<m, n>> \in OpToRel(<, Nat))
    BY NatLessThanWellFounded, WFMin
  <1>2. \A m \in T : ~(m < n)
    BY <1>1 DEF OpToRel
  <1> QED BY <1>2

(* ... so that a set that goes on from each number to the next has all.    *)
LEMMA Climb ==
  ASSUME NEW N \in Nat, NEW Good, 0 \in Good, \A i \in 1..N : i - 1 \in Good => i \in Good
  PROVE  \A i \in 0..N : i \in Good
  <1> DEFINE Bad == {i \in 0..N : i \notin Good}
  <1> SUFFICES ASSUME Bad # {} PROVE FALSE
    OBVIOUS
  <1>1. PICK n \in Bad : \A m \in Bad : n <= m
    <2>1. Bad \subseteq Nat
      OBVIOUS
    <2> HIDE DEF Bad
    <2> QED BY <2>1, Least
  <1>2. n \in 0..N /\ n \notin Good /\ n # 0
    OBVIOUS
  <1>3. n \in 1..N /\ n - 1 \in 0..N
    BY <1>2
  <1>4. n - 1 \notin Good
    BY <1>2, <1>3
  <1>5. n - 1 \in Bad
    BY <1>3, <1>4
  <1> HIDE DEF Bad
  <1> QED BY <1>1, <1>2, <1>5

(* A function can be defined by recursion up to N.                         *)
LEMMA Recursion ==
  ASSUME NEW D, NEW x \in D, NEW N \in Nat, NEW step \in [(1..N) \X D -> D]
  PROVE  \E g : Recursive(g, x, step, N, D)
  <1> DEFINE Is(g, n) == /\ g \in [0..n -> D] /\ g[0] = x
                         /\ \A i \in 1..n : g[i] = step[<<i, g[i - 1]>>]
             Bad == {n \in 0..N : ~ \E g : Is(g, n)}
  <1>1. Bad = {}
    <2> SUFFICES ASSUME Bad # {} PROVE FALSE
      OBVIOUS
    <2>1. PICK n \in Bad : \A m \in Bad : n <= m
      <3>1. Bad \subseteq Nat
        OBVIOUS
      <3> HIDE DEF Bad
      <3> QED BY <3>1, Least
    <2>2. CASE n = 0
      <3>1. Is([i \in 0..0 |-> x], 0)
        OBVIOUS
      <3> QED BY <2>2, <3>1
    <2>3. CASE n # 0
      <3>1. n - 1 \in 0..N /\ n - 1 \notin Bad /\ n \in 1..N
        <4>1. n \in 0..N
          OBVIOUS
        <4> HIDE DEF Bad
        <4> QED BY <2>1, <2>3, <4>1
      <3>2. PICK g : Is(g, n - 1)
        BY <3>1
      <3>3. step[<<n, g[n - 1]>>] \in D
        BY <3>1, <3>2
      <3> DEFINE h == [i \in 0..n |-> IF i = n THEN step[<<n, g[n - 1]>>] ELSE g[i]]
      <3>4. \A i \in 0..(n - 1) : h[i] = g[i]
        BY <3>1
      <3>5. h \in [0..n -> D] /\ h[0] = x /\ h[n] = step[<<n, g[n - 1]>>]
        BY <3>1, <3>2, <3>3, <2>3
      <3>6. \A i \in 1..n : h[i] = step[<<i, h[i - 1]>>]
        <4> TAKE i \in 1..n
        <4>1. h[i - 1] = g[i - 1]
          BY <3>1, <3>4
        <4> HIDE DEF h
        <4>2. CASE i = n
          BY <3>5, <4>1, <4>2
        <4>3. CASE i # n
          BY <3>1, <3>2, <3>4, <4>1, <4>3
        <4> QED BY <4>2, <4>3
      <3> HIDE DEF h
      <3>7. Is(h, n)
        BY <3>5, <3>6
      <3> QED BY <3>7
    <2> QED BY <2>2, <2>3
  <1>2. \E g : Is(g, N)
    BY <1>1
  <1> QED BY <1>2 DEF Recursive

(* A set of numbers from 1 on without a gap is told by how many it has.    *)
LEMMA Initial ==
  ASSUME NEW N \in Nat, NEW W, W \subseteq 1..N,
         \A i \in 1..N : i + 1 \in W => i \in W
  PROVE  Cardinality(W) \in 0..N /\ W = 1..Cardinality(W)
  <1> DEFINE Out == {i \in 1..(N + 1) : i \notin W}
  <1>1. PICK n \in Out : \A m \in Out : n <= m
    <2>1. Out \subseteq Nat /\ N + 1 \in Out
      OBVIOUS
    <2> HIDE DEF Out
    <2> QED BY <2>1, Least
  <1>2. \A i \in 1..N : i < n => i \in W
    BY <1>1
  <1>3. ASSUME NEW i \in W, i >= n PROVE FALSE
    <2> DEFINE In == {j \in W : j >= n}
    <2>1. PICK k \in In : \A m \in In : k <= m
      <3>1. In \subseteq Nat
        <4>1. \A j \in W : j \in Nat
          OBVIOUS
        <4> QED BY <4>1, Zenon
      <3>2. i \in In
        BY <1>3
      <3> HIDE DEF In
      <3> QED BY <3>1, <3>2, Least
    <2>2. k # n /\ k \in W /\ k > n /\ k \in 1..N
      BY <1>1, <2>1
    <2>3. k - 1 \in 1..N /\ k - 1 + 1 \in W /\ k - 1 >= n
      BY <2>2
    <2>4. k - 1 \in W
      BY <2>3
    <2>5. k - 1 \in In
      BY <2>3, <2>4
    <2> QED BY <2>1, <2>2, <2>5
  <1>4. W = 1..(n - 1)
    <2>1. n \in 1..(N + 1)
      OBVIOUS
    <2>2. \A i \in W : i \in 1..(n - 1)
      BY <1>3, <2>1
    <2>3. \A i \in 1..(n - 1) : i \in W
      BY <1>2, <2>1
    <2> QED BY <2>2, <2>3
  <1>5. Cardinality(1..(n - 1)) = n - 1
    BY FS_Interval
  <1> QED BY <1>4, <1>5

(* A sequence is its first n elements and the others.                      *)
LEMMA Halves ==
  ASSUME NEW S, NEW s \in Seq(S), NEW n \in 0..Len(s)
  PROVE  /\ SubSeq(s, 1, n) \in Seq(S) /\ Len(SubSeq(s, 1, n)) = n
         /\ \A i \in 1..n : SubSeq(s, 1, n)[i] = s[i]
         /\ drop(s, n) \in Seq(S) /\ Len(drop(s, n)) = Len(s) - n
         /\ \A i \in 1..(Len(s) - n) : drop(s, n)[i] = s[n + i]
         /\ SubSeq(s, 1, n) \o drop(s, n) = s
  <1>1. Len(s) \in Nat /\ \A i \in 1..Len(s) : s[i] \in S
    BY ElementOfSeq, LenProperties
  <1>2. /\ SubSeq(s, 1, n) \in Seq(S) /\ Len(SubSeq(s, 1, n)) = n
        /\ \A i \in 1..n : SubSeq(s, 1, n)[i] = s[i]
    <2>1. \A i \in 1..n : s[i] \in S
      BY <1>1
    <2> QED BY <1>1, <2>1, SubSeqProperties
  <1>3. /\ drop(s, n) \in Seq(S) /\ Len(drop(s, n)) = Len(s) - n
        /\ \A i \in 1..(Len(s) - n) : drop(s, n)[i] = s[n + i]
    <2>1. \A i \in (n + 1)..Len(s) : s[i] \in S
      BY <1>1
    <2>2. /\ drop(s, n) \in Seq(S)
          /\ Len(drop(s, n)) = IF n + 1 <= Len(s) THEN Len(s) - (n + 1) + 1 ELSE 0
          /\ \A i \in 1..(Len(s) - (n + 1) + 1) : drop(s, n)[i] = s[n + 1 + i - 1]
      BY <1>1, <2>1, SubSeqProperties DEF drop
    <2> QED BY <1>1, <2>2
  <1>4. SubSeq(s, 1, n) \o drop(s, n) = SubSeq(s, 1, Len(s))
    <2>1. 1 \in 1..(Len(s) + 1) /\ n \in (1 - 1)..Len(s) /\ Len(s) \in n..Len(s)
      BY <1>1
    <2> QED BY <2>1, ConcatAdjacentSubSeq DEF drop
  <1>5. SubSeq(s, 1, Len(s)) = s
    BY SubSeqFull
  <1> QED BY <1>2, <1>3, <1>4, <1>5

-----------------------------------------------------------------------------
(* Streams. *)

(* Where one is after i bytes is the start or one of them.                 *)
LEMMA AtCursor ==
  ASSUME NEW fr, NEW a \in Cursors(fr), NEW w \in Seq(Bytes(fr)), NEW i \in 0..Len(w)
  PROVE  at(a, w, i) \in Cursors(fr)
  <1>1. CASE i = 0
    BY <1>1 DEF at
  <1>2. CASE i # 0
    <2>1. i \in 1..Len(w)
      BY <1>2
    <2>2. w[i] \in Bytes(fr)
      BY <2>1, ElementOfSeq
    <2> QED BY <1>2, <2>2 DEF at, Cursors
  <1> QED BY <1>1, <1>2

(* What a cursor is made of.                                               *)
LEMMA CursorParts ==
  ASSUME NEW fr \in Seq(AnyFrame), NEW a \in Cursors(fr)
  PROVE  /\ a[1] \in 0..Len(fr) /\ a[2] \in Nat
         /\ a = Start <=> a[1] = 0
         /\ a # Start => /\ a[1] \in 1..Len(fr) /\ 1 <= a[2] /\ a[2] <= fr[a[1]].size
                         /\ fr[a[1]].size \in Nat \ {0}
         /\ a = <<a[1], a[2]>>
  <1>1. Len(fr) \in Nat
    BY LenProperties
  <1>2. CASE a = Start
    BY <1>1, <1>2 DEF Start
  <1>3. CASE a # Start
    <2>1. a \in (1..Len(fr)) \X Nat /\ 1 <= a[2] /\ a[2] <= fr[a[1]].size
      BY <1>3 DEF Cursors, Bytes
    <2>2. a[1] \in 1..Len(fr) /\ a[2] \in Nat /\ a = <<a[1], a[2]>>
      BY <2>1
    <2>3. fr[a[1]] \in AnyFrame
      BY <2>2, ElementOfSeq
    <2>4. fr[a[1]].size \in Nat \ {0}
      BY <2>3, FramesAssumption DEF AnyFrame
    <2> QED BY <1>1, <1>3, <2>1, <2>2, <2>4
  <1> QED BY <1>2, <1>3

Joins(fr, d, a, u, v) ==
    /\ Stream(fr, d, a, u \o v) <=> Stream(fr, d, a, u) /\ Stream(fr, d, EndOf(a, u), v)
    /\ EndOf(a, u \o v) = EndOf(EndOf(a, u), v)
    /\ u \o v \in Seq(Bytes(fr))

(* Two streams, one from where the other ends, make one.                   *)
LEMMA StreamCat ==
  ASSUME NEW fr, NEW d, NEW a, NEW u \in Seq(Bytes(fr)), NEW v \in Seq(Bytes(fr))
  PROVE  /\ Stream(fr, d, a, u \o v) <=> Stream(fr, d, a, u) /\ Stream(fr, d, EndOf(a, u), v)
         /\ EndOf(a, u \o v) = EndOf(EndOf(a, u), v)
         /\ u \o v \in Seq(Bytes(fr))
         /\ Joins(fr, d, a, u, v)
  <1> DEFINE w == u \o v
             n == Len(u)
             m == Len(v)
             e == EndOf(a, u)
  <1>1. /\ w \in Seq(Bytes(fr)) /\ n \in Nat /\ m \in Nat /\ Len(w) = n + m
        /\ \A i \in 1..(n + m) : w[i] = IF i <= n THEN u[i] ELSE v[i - n]
    BY LenProperties, ConcatProperties
  <1>2. \A i \in 0..n : at(a, w, i) = at(a, u, i)
    BY <1>1 DEF at
  <1>3. \A i \in 0..m : at(a, w, n + i) = at(e, v, i)
    <2> TAKE i \in 0..m
    <2>1. CASE i = 0
      <3>1. at(a, w, n + i) = at(a, w, n) /\ at(e, v, i) = e
        BY <1>1, <2>1 DEF at
      <3> QED BY <1>1, <1>2, <3>1 DEF EndOf
    <2>2. CASE i # 0
      <3>1. n + i # 0 /\ n + i \in 1..(n + m) /\ ~(n + i <= n) /\ n + i - n = i
        BY <1>1, <2>2
      <3>2. w[n + i] = v[i]
        BY <1>1, <3>1
      <3> HIDE DEF w
      <3> QED BY <2>2, <3>1, <3>2 DEF at
    <2> QED BY <2>1, <2>2
  <1> HIDE DEF w, n, m, e
  <1>4. EndOf(a, w) = EndOf(e, v)
    BY <1>1, <1>3 DEF EndOf, m
  <1>5. ASSUME Stream(fr, d, a, w) PROVE Stream(fr, d, a, u) /\ Stream(fr, d, e, v)
    <2>1. \A i \in 1..n : Follows(fr, d, at(a, u, i - 1), u[i])
      <3> TAKE i \in 1..n
      <3>1. i \in 1..(n + m) /\ i - 1 \in 0..n /\ w[i] = u[i]
        BY <1>1
      <3>2. Follows(fr, d, at(a, w, i - 1), w[i])
        BY <1>1, <1>5, <3>1 DEF Stream
      <3> QED BY <1>2, <3>1, <3>2
    <2>2. \A i \in 1..m : Follows(fr, d, at(e, v, i - 1), v[i])
      <3> TAKE i \in 1..m
      <3>1. n + i \in 1..(n + m) /\ i - 1 \in 0..m /\ n + i - 1 = n + (i - 1) /\ w[n + i] = v[i]
        BY <1>1
      <3>2. Follows(fr, d, at(a, w, n + i - 1), w[n + i])
        BY <1>1, <1>5, <3>1 DEF Stream
      <3> QED BY <1>3, <3>1, <3>2
    <2> QED BY <2>1, <2>2 DEF Stream, n, m
  <1>6. ASSUME Stream(fr, d, a, u), Stream(fr, d, e, v) PROVE Stream(fr, d, a, w)
    <2>1. ASSUME NEW i \in 1..(n + m) PROVE Follows(fr, d, at(a, w, i - 1), w[i])
      <3>1. CASE i <= n
        <4>1. i \in 1..n /\ i - 1 \in 0..n /\ w[i] = u[i]
          BY <1>1, <3>1
        <4>2. Follows(fr, d, at(a, u, i - 1), u[i])
          BY <1>6, <4>1 DEF Stream, n
        <4> QED BY <1>2, <4>1, <4>2
      <3>2. CASE ~(i <= n)
        <4>0. n \in Nat /\ m \in Nat
          BY <1>1
        <4>1. i - n \in 1..m /\ i - n - 1 \in 0..m /\ i - 1 = n + (i - n - 1)
          BY <3>2, <4>0
        <4>2. Follows(fr, d, at(e, v, i - n - 1), v[i - n])
          BY <1>6, <4>1 DEF Stream, m
        <4>3. w[i] = v[i - n]
          BY <1>1, <3>2
        <4> QED BY <1>3, <4>1, <4>2, <4>3
      <3> QED BY <3>1, <3>2
    <2> QED BY <1>1, <2>1 DEF Stream
  <1> QED BY <1>1, <1>4, <1>5, <1>6 DEF w, e, Joins

(* A stream goes up, frame by frame.                                       *)
LEMMA StreamRises ==
  ASSUME NEW fr \in Seq(AnyFrame), NEW d, NEW a \in Cursors(fr), NEW w \in Seq(Bytes(fr)),
         Stream(fr, d, a, w)
  PROVE  /\ \A i \in 0..Len(w) : at(a, w, i)[1] \in Nat
         /\ \A j \in 0..Len(w) : \A i \in 0..j : at(a, w, i)[1] <= at(a, w, j)[1]
         /\ Complete(fr, a) => \A i \in 1..Len(w) : a[1] < w[i][1]
  <1>0. Len(w) \in Nat
    BY LenProperties
  <1>1. \A i \in 0..Len(w) : at(a, w, i)[1] \in Nat
    <2>1. \A c \in Cursors(fr) : c[1] \in Nat
      BY CursorParts
    <2> QED BY <2>1, AtCursor
  <1>2. \A i \in 1..Len(w) : /\ at(a, w, i) = w[i] /\ i - 1 \in 0..Len(w)
                             /\ at(a, w, i - 1)[1] <= w[i][1]
                             /\ Complete(fr, at(a, w, i - 1)) => at(a, w, i - 1)[1] < w[i][1]
    <2> TAKE i \in 1..Len(w)
    <2>1. at(a, w, i) = w[i] /\ i - 1 \in 0..Len(w) /\ i \in 0..Len(w)
      BY <1>0 DEF at
    <2>2. Follows(fr, d, at(a, w, i - 1), w[i])
      BY DEF Stream
    <2>3. at(a, w, i - 1) \in Cursors(fr) /\ w[i] \in Bytes(fr)
      BY <2>1, AtCursor, ElementOfSeq
    <2> DEFINE x == at(a, w, i - 1)
    <2>4. x[1] \in Nat /\ w[i][1] \in Nat
      BY <1>1, <2>1
    <2>5. ~Complete(fr, x) => x[2] >= 1 /\ x[2] \in Nat
      BY <2>3, CursorParts DEF Complete
    <2> HIDE DEF x
    <2>6. Follows(fr, d, x, w[i])
      BY <2>2 DEF x
    <2>7. x[1] <= w[i][1] /\ (Complete(fr, x) => x[1] < w[i][1])
      BY <2>4, <2>5, <2>6 DEF Follows, NextKept
    <2> QED BY <2>1, <2>7 DEF x
  <1>3. \A j \in 0..Len(w) : \A i \in 0..j : at(a, w, i)[1] <= at(a, w, j)[1]
    <2> DEFINE Bad == {j \in 0..Len(w) : \E i \in 0..j : ~(at(a, w, i)[1] <= at(a, w, j)[1])}
    <2> SUFFICES ASSUME Bad # {} PROVE FALSE
      OBVIOUS
    <2>1. PICK j \in Bad : \A m \in Bad : j <= m
      <3>1. Bad \subseteq Nat
        BY <1>0
      <3> HIDE DEF Bad
      <3> QED BY <3>1, Least
    <2>2. PICK i \in 0..j : ~(at(a, w, i)[1] <= at(a, w, j)[1])
      OBVIOUS
    <2>3. j \in 0..Len(w) /\ i \in 0..Len(w)
      BY <1>0
    <2>4. i # j
      BY <1>1, <2>2, <2>3
    <2>5. j \in 1..Len(w) /\ j - 1 \in 0..Len(w) /\ i \in 0..(j - 1)
      BY <1>0, <2>3, <2>4
    <2>6. j - 1 \notin Bad
      <3> HIDE DEF Bad
      <3> QED BY <2>1, <2>5
    <2>7. at(a, w, i)[1] <= at(a, w, j - 1)[1]
      BY <2>5, <2>6
    <2>8. at(a, w, j - 1)[1] <= at(a, w, j)[1]
      BY <1>2, <2>5
    <2> HIDE DEF Bad
    <2> QED BY <1>1, <2>2, <2>3, <2>5, <2>7, <2>8
  <1>4. ASSUME Complete(fr, a), NEW i \in 1..Len(w) PROVE a[1] < w[i][1]
    <2>1. 1 \in 1..Len(w) /\ i \in 0..Len(w) /\ 1 \in 0..i /\ 1 - 1 = 0 /\ 0 \in 0..Len(w)
      BY <1>0
    <2>2. a[1] < w[1][1]
      <3>1. at(a, w, 1 - 1) = a
        BY DEF at
      <3> QED BY <1>2, <1>4, <2>1, <3>1
    <2>3. w[1][1] <= w[i][1]
      BY <1>2, <1>3, <2>1
    <2>4. a[1] \in Nat /\ w[1][1] \in Nat /\ w[i][1] \in Nat
      <3>1. a = at(a, w, 0) /\ w[1] = at(a, w, 1) /\ w[i] = at(a, w, i) /\ 1 \in 0..Len(w)
        BY <1>0 DEF at
      <3> QED BY <1>1, <2>1, <3>1
    <2> QED BY <2>2, <2>3, <2>4
  <1> QED BY <1>1, <1>2, <1>3, <1>4

(* Discarding other frames, later ones, does not disturb a stream.         *)
LEMMA StreamDiscards ==
  ASSUME NEW fr, NEW d, NEW e, NEW a, NEW w, Stream(fr, d, a, w),
         \A i \in 1..Len(w) : w[i][1] \notin e
  PROVE  Stream(fr, d \cup e, a, w)
  <1> SUFFICES ASSUME NEW i \in 1..Len(w) PROVE Follows(fr, d \cup e, at(a, w, i - 1), w[i])
    BY DEF Stream
  <1>1. Follows(fr, d, at(a, w, i - 1), w[i]) /\ w[i][1] \notin e
    BY DEF Stream
  <1> QED BY <1>1 DEF Follows, NextKept

(* Nor does another frame.                                                 *)
LEMMA StreamAppends ==
  ASSUME NEW fr \in Seq(AnyFrame), NEW f \in AnyFrame, NEW d, NEW a \in Cursors(fr),
         NEW w \in Seq(Bytes(fr))
  PROVE  /\ Bytes(fr) \subseteq Bytes(Append(fr, f)) /\ Cursors(fr) \subseteq Cursors(Append(fr, f))
         /\ \A c \in Cursors(fr) : Complete(Append(fr, f), c) <=> Complete(fr, c)
         /\ Stream(fr, d, a, w) => Stream(Append(fr, f), d, a, w)
  <1> DEFINE g == Append(fr, f)
  <1>1. Len(fr) \in Nat /\ Len(g) = Len(fr) + 1 /\ \A n \in 1..Len(fr) : g[n] = fr[n]
    BY LenProperties, AppendProperties
  <1> HIDE DEF g
  <1>2. Bytes(fr) \subseteq Bytes(g)
    BY <1>1 DEF Bytes
  <1>3. Cursors(fr) \subseteq Cursors(g)
    BY <1>2 DEF Cursors
  <1>4. ASSUME NEW c \in Cursors(fr) PROVE Complete(g, c) <=> Complete(fr, c)
    <2>1. c # Start => c[1] \in 1..Len(fr)
      BY CursorParts
    <2> QED BY <1>1, <2>1 DEF Complete
  <1>5. ASSUME Stream(fr, d, a, w) PROVE Stream(g, d, a, w)
    <2> SUFFICES ASSUME NEW i \in 1..Len(w) PROVE Follows(g, d, at(a, w, i - 1), w[i])
      BY DEF Stream
    <2>1. Follows(fr, d, at(a, w, i - 1), w[i]) /\ i - 1 \in 0..Len(w)
      BY <1>5, LenProperties DEF Stream
    <2>2. at(a, w, i - 1) \in Cursors(fr)
      BY <2>1, AtCursor
    <2> QED BY <1>4, <2>1, <2>2 DEF Follows
  <1> QED BY <1>2, <1>3, <1>4, <1>5 DEF g

(* The bytes of a new frame continue a stream that has ended.              *)
LEMMA NewFrame ==
  ASSUME NEW fr \in Seq(AnyFrame), NEW f \in AnyFrame, NEW d, d \subseteq 1..Len(fr),
         NEW a \in Cursors(fr), Ended(fr, d, a)
  PROVE  LET g == Append(fr, f)
             w == frameBytes(Len(fr) + 1, f.size)
         IN  /\ w \in Seq(Bytes(g)) /\ Len(w) = f.size /\ w[1][2] = 1
             /\ Stream(g, d, a, w) /\ Ended(g, d, EndOf(a, w))
  <1> DEFINE g == Append(fr, f)
             n == Len(fr) + 1
             s == f.size
             w == frameBytes(n, s)
  <1>1. /\ Len(fr) \in Nat /\ Len(g) = n /\ g[n] = f
        /\ \A x \in 1..Len(fr) : g[x] = fr[x]
    BY LenProperties, AppendProperties
  <1>2. s \in Nat \ {0}
    BY FramesAssumption DEF AnyFrame
  <1>3. \A k \in 1..s : w[k] = <<n, k>>
    BY DEF frameBytes
  <1>4. \A k \in 1..s : <<n, k>> \in Bytes(g)
    BY <1>1, <1>2 DEF Bytes
  <1>5. w \in Seq(Bytes(g)) /\ Len(w) = s
    <2>1. w \in [1..s -> Bytes(g)]
      BY <1>4 DEF frameBytes
    <2> HIDE DEF w, g, s
    <2>2. w \in Seq(Bytes(g))
      BY <1>2, <2>1, SeqDef
    <2> QED BY <1>2, <2>1, <2>2, LenProperties
  <1>6. Complete(g, a) /\ \A x \in (a[1] + 1)..Len(fr) : x \in d
    BY StreamAppends, EmptySeq DEF Ended
  <1>7. a[1] \in 0..Len(fr)
    BY CursorParts
  <1> HIDE DEF w, g, s, n
  <1>8. NextKept(d, a[1], n)
    BY <1>1, <1>6, <1>7 DEF NextKept, n
  <1>9. ASSUME NEW k \in 1..s PROVE Follows(g, d, at(a, w, k - 1), w[k])
    <2>1. CASE k = 1
      <3>1. at(a, w, k - 1) = a /\ w[k][2] = 1 /\ w[k][1] = n
        BY <1>3, <2>1 DEF at
      <3> QED BY <1>6, <1>8, <3>1 DEF Follows
    <2>2. CASE k # 1
      <3>1. k - 1 \in 1..s /\ k - 1 # 0
        BY <1>2, <2>2
      <3>2. at(a, w, k - 1) = <<n, k - 1>> /\ w[k] = <<n, k>>
        BY <1>3, <3>1 DEF at
      <3>3. ~Complete(g, <<n, k - 1>>)
        <4>1. <<n, k - 1>>[1] = n /\ <<n, k - 1>>[2] = k - 1 /\ n # 0
          BY <1>1 DEF n
        <4>2. g[n].size = s
          BY <1>1 DEF s
        <4> QED BY <1>2, <4>1, <4>2 DEF Complete, Start
      <3>4. /\ w[k][1] = at(a, w, k - 1)[1] /\ w[k][2] = at(a, w, k - 1)[2] + 1
            /\ ~Complete(g, at(a, w, k - 1))
        BY <1>2, <3>2, <3>3
      <3> QED BY <3>4 DEF Follows
    <2> QED BY <2>1, <2>2
  <1>10. EndOf(a, w) = <<n, s>>
    BY <1>2, <1>3, <1>5 DEF EndOf, at
  <1>11. Ended(g, d, <<n, s>>)
    BY <1>1 DEF Ended, Complete, s, n
  <1>12. w[1][2] = 1
    BY <1>2, <1>3
  <1> QED BY <1>5, <1>9, <1>10, <1>11, <1>12 DEF Stream, w, g, s, n

(* Headers are what comes after the end of a frame, and only that.         *)
LEMMA HeaderAfterEnd ==
  ASSUME NEW fr \in Seq(AnyFrame), NEW d, NEW a \in Cursors(fr), NEW w \in Seq(Bytes(fr)),
         Stream(fr, d, a, w), NEW c \in 0..Len(w), c < Len(w)
  PROVE  /\ isHeader(w, c + 1) <=> Complete(fr, at(a, w, c))
         /\ isHeader(w, c + 1) => NextKept(d, at(a, w, c)[1], w[c + 1][1])
         /\ w[c + 1] \in Bytes(fr)
  <1>1. c + 1 \in 1..Len(w) /\ c + 1 - 1 = c
    BY LenProperties
  <1>2. Follows(fr, d, at(a, w, c), w[c + 1])
    BY <1>1 DEF Stream
  <1>3. at(a, w, c) \in Cursors(fr) /\ w[c + 1] \in Bytes(fr)
    BY <1>1, AtCursor, ElementOfSeq
  <1>4. ~Complete(fr, at(a, w, c)) => at(a, w, c)[2] \in Nat /\ at(a, w, c)[2] >= 1
    BY <1>3, CursorParts DEF Complete
  <1> QED BY <1>2, <1>3, <1>4 DEF Follows, isHeader

(* s bytes from the header after c on, a frame of s bytes ends.            *)
Runs(w, c, s) == w[c + s] = <<w[c + 1][1], s>>

(* A header is followed by the rest of its frame.                          *)
LEMMA FrameRuns ==
  ASSUME NEW fr \in Seq(AnyFrame), NEW d, NEW a \in Cursors(fr), NEW w \in Seq(Bytes(fr)),
         Stream(fr, d, a, w), NEW c \in 0..Len(w), c < Len(w), isHeader(w, c + 1),
         NEW s \in Nat, s = fr[w[c + 1][1]].size, c + s <= Len(w)
  PROVE  Runs(w, c, s)
  <1> DEFINE n == w[c + 1][1]
             Bad == {k \in 1..s : w[c + k] # <<n, k>>}
  <1>0. Len(w) \in Nat /\ c \in Nat
    BY LenProperties
  <1>1. w[c + 1] \in Bytes(fr)
    BY HeaderAfterEnd
  <1>2. w[c + 1] # Start /\ w[c + 1] = <<n, 1>> /\ n \in 1..Len(fr) /\ s \in Nat \ {0}
    <2>1. w[c + 1] \in Cursors(fr)
      BY <1>1 DEF Cursors
    <2>2. w[c + 1][2] = 1
      BY DEF isHeader
    <2>3. w[c + 1] # Start
      BY <2>2 DEF Start
    <2> QED BY <2>1, <2>2, <2>3, CursorParts
  <1>4. ASSUME Bad # {} PROVE FALSE
    <2>1. PICK k \in Bad : \A m \in Bad : k <= m
      <3>1. Bad \subseteq Nat
        BY <1>2
      <3> HIDE DEF Bad
      <3> QED BY <1>4, <3>1, Least
    <2>2. k \in 1..s /\ w[c + k] # <<n, k>>
      OBVIOUS
    <2>3. k # 1
      BY <1>2, <2>2
    <2>4. k - 1 \in 1..s /\ k - 1 \notin Bad
      <3>1. k - 1 \in 1..s /\ k - 1 < k
        BY <1>2, <2>2, <2>3
      <3> HIDE DEF Bad
      <3> QED BY <2>1, <3>1, <2>2, <1>2
    <2>5. w[c + (k - 1)] = <<n, k - 1>>
      BY <2>4
    <2> HIDE DEF Bad
    <2>6. /\ c + (k - 1) \in 0..Len(w) /\ c + (k - 1) # 0 /\ c + k \in 1..Len(w)
          /\ c + k - 1 = c + (k - 1)
      BY <1>0, <1>2, <2>2, <2>4
    <2>7. Follows(fr, d, at(a, w, c + k - 1), w[c + k])
      BY <1>0, <1>2, <2>2, <2>6 DEF Stream
    <2>8. at(a, w, c + k - 1) = <<n, k - 1>>
      BY <2>5, <2>6 DEF at
    <2>9. ~Complete(fr, <<n, k - 1>>)
      <3>1. <<n, k - 1>>[1] = n /\ <<n, k - 1>>[2] = k - 1 /\ n # 0 /\ k - 1 # s
        BY <1>2, <2>2
      <3> QED BY <3>1 DEF Complete, Start
    <2>10. w[c + k][1] = n /\ w[c + k][2] = k
      <3>1. Follows(fr, d, <<n, k - 1>>, w[c + k])
        BY <2>7, <2>8
      <3>2. w[c + k][1] = <<n, k - 1>>[1] /\ w[c + k][2] = <<n, k - 1>>[2] + 1
        BY <2>9, <3>1 DEF Follows
      <3> QED BY <1>2, <2>2, <3>2
    <2>11. w[c + k] \in Bytes(fr)
      BY <2>6, ElementOfSeq
    <2> QED BY <2>2, <2>10, <2>11 DEF Bytes
  <1>5. s \in 1..s
    BY <1>2
  <1> QED BY <1>4, <1>5 DEF Runs

-----------------------------------------------------------------------------
(* Leaving out, and what is kept. *)

(* without goes through its sequence from the first element on.            *)
LEMMA WithoutSteps ==
  ASSUME NEW S, NEW s \in Seq(S), NEW d
  PROVE  \E left : Leaves(left, s, d, S) /\ without(s, d) = left[Len(s)]
  <1> DEFINE N == Len(s)
             Def(f) == f = [i \in 0..N |-> IF i = 0 THEN <<>>
                             ELSE IF s[i] \in d THEN f[i - 1] ELSE Append(f[i - 1], s[i])]
             step == [y \in (1..N) \X Seq(S) |->
                        IF s[y[1]] \in d THEN y[2] ELSE Append(y[2], s[y[1]])]
             left == CHOOSE f : Def(f)
  <1>1. N \in Nat /\ \A i \in 1..N : s[i] \in S
    BY LenProperties, ElementOfSeq
  <1>2. <<>> \in Seq(S)
    BY EmptySeq
  <1>3. step \in [(1..N) \X Seq(S) -> Seq(S)]
    <2> SUFFICES ASSUME NEW y \in (1..N) \X Seq(S)
                 PROVE  (IF s[y[1]] \in d THEN y[2] ELSE Append(y[2], s[y[1]])) \in Seq(S)
      OBVIOUS
    <2>1. y[1] \in 1..N /\ y[2] \in Seq(S)
      OBVIOUS
    <2>2. Append(y[2], s[y[1]]) \in Seq(S)
      BY <1>1, <2>1, AppendProperties
    <2> QED BY <2>1, <2>2
  <1>4. PICK g \in [0..N -> Seq(S)] : g[0] = <<>> /\ \A i \in 1..N : g[i] = step[<<i, g[i - 1]>>]
    <2> HIDE DEF N, step, Def
    <2>1. \E g : Recursive(g, <<>>, step, N, Seq(S))
      BY <1>1, <1>2, <1>3, Recursion
    <2> QED BY <2>1 DEF Recursive
  <1>5. Def(g)
    <2>1. ASSUME NEW i \in 0..N
          PROVE  g[i] = IF i = 0 THEN <<>> ELSE IF s[i] \in d THEN g[i - 1] ELSE Append(g[i - 1], s[i])
      <3>1. CASE i = 0
        BY <1>1, <1>4, <3>1
      <3>2. CASE i # 0
        <4>1. i \in 1..N /\ i - 1 \in 0..N /\ g[i - 1] \in Seq(S)
          BY <1>1, <3>2
        <4>2. <<i, g[i - 1]>> \in (1..N) \X Seq(S)
          BY <4>1
        <4>3. step[<<i, g[i - 1]>>] = IF s[i] \in d THEN g[i - 1] ELSE Append(g[i - 1], s[i])
          BY <4>2
        <4> HIDE DEF step
        <4>4. g[i] = step[<<i, g[i - 1]>>]
          BY <1>4, <3>2
        <4> QED BY <3>2, <4>3, <4>4
      <3> QED BY <3>1, <3>2
    <2> QED BY <1>4, <2>1
  <1>6. Def(left)
    <2> HIDE DEF Def
    <2> QED BY <1>5
  <1>7. without(s, d) = left[N]
    BY DEF without
  <1> HIDE DEF left
  <1>8. left[0] = <<>> /\ \A i \in 1..N :
            left[i] = IF s[i] \in d THEN left[i - 1] ELSE Append(left[i - 1], s[i])
    <2>1. \A i \in 0..N : left[i] = IF i = 0 THEN <<>>
                             ELSE IF s[i] \in d THEN left[i - 1] ELSE Append(left[i - 1], s[i])
      BY <1>6
    <2> QED BY <1>1, <2>1
  <1>9. \A i \in 0..N : left[i] \in Seq(S)
    <2> DEFINE Good == {i \in 0..N : left[i] \in Seq(S)}
    <2>1. 0 \in Good
      <3>1. 0 \in 0..N /\ left[0] \in Seq(S)
        BY <1>1, <1>2, <1>8
      <3> QED BY <3>1
    <2>2. ASSUME NEW i \in 1..N, i - 1 \in Good PROVE i \in Good
      <3>1. left[i - 1] \in Seq(S) /\ i \in 0..N
        BY <1>1, <2>2
      <3>2. Append(left[i - 1], s[i]) \in Seq(S)
        BY <1>1, <3>1, AppendProperties
      <3> QED BY <1>8, <3>1, <3>2
    <2>3. \A i \in 0..N : i \in Good
      <3> HIDE DEF Good, N
      <3> QED BY <1>1, <2>1, <2>2, Climb
    <2> QED BY <2>3
  <1>10. left \in [0..N -> Seq(S)]
    <2>1. left = [i \in 0..N |-> left[i]]
      BY <1>6
    <2> HIDE DEF Def
    <2> QED BY <1>9, <2>1
  <1> HIDE DEF Def
  <1> QED BY <1>7, <1>8, <1>10 DEF Leaves

(* There is one next frame.                                                *)
LEMMA NextUnique ==
  ASSUME NEW d, NEW n \in Nat, NEW m \in Nat, NEW k \in Nat, NextKept(d, n, m), NextKept(d, n, k)
  PROVE  m = k
  <1>1. ASSUME m < k PROVE FALSE
    <2>1. m \in (n + 1)..(k - 1)
      BY <1>1 DEF NextKept
    <2> QED BY <2>1 DEF NextKept
  <1>2. ASSUME k < m PROVE FALSE
    <2>1. k \in (n + 1)..(m - 1)
      BY <1>2 DEF NextKept
    <2> QED BY <2>1 DEF NextKept
  <1> QED BY <1>1, <1>2

(* A chain grows by the next frame that is kept.                           *)
LEMMA ChainAppend ==
  ASSUME NEW N, NEW d, NEW s \in Seq(1..N), Chain(d, s), NEW m \in 1..N,
         NextKept(d, EndOf(0, s), m)
  PROVE  /\ Append(s, m) \in Seq(1..N) /\ Chain(d, Append(s, m)) /\ EndOf(0, Append(s, m)) = m
  <1> DEFINE t == Append(s, m)
  <1>1. /\ Len(s) \in Nat /\ t \in Seq(1..N) /\ Len(t) = Len(s) + 1 /\ t[Len(s) + 1] = m
        /\ \A i \in 1..Len(s) : t[i] = s[i]
    BY LenProperties, AppendProperties
  <1> HIDE DEF t
  <1>2. EndOf(0, t) = m
    BY <1>1 DEF EndOf, at
  <1>3. ASSUME NEW i \in 1..Len(t) PROVE NextKept(d, at(0, t, i - 1), t[i])
    <2>1. at(0, t, i - 1) = at(0, s, i - 1)
      BY <1>1 DEF at
    <2>2. CASE i = Len(s) + 1
      <3>1. i - 1 = Len(s) /\ t[i] = m
        BY <1>1, <2>2
      <3> QED BY <2>1, <3>1 DEF EndOf
    <2>3. CASE i # Len(s) + 1
      <3>1. i \in 1..Len(s)
        BY <1>1, <2>3
      <3> QED BY <1>1, <2>1, <3>1 DEF Chain
    <2> QED BY <2>2, <2>3
  <1> QED BY <1>1, <1>2, <1>3 DEF Chain, t

(* What is kept is a chain, with nothing to keep after it.                 *)
LEMMA KeptChain ==
  ASSUME NEW N \in Nat, NEW d, NEW K, K = without([n \in 1..N |-> n], d)
  PROVE  K \in Seq(1..N) /\ Chain(d, K) /\ \A x \in (EndOf(0, K) + 1)..N : x \in d
  <1> DEFINE s == [n \in 1..N |-> n]
  <1>1. s \in Seq(1..N) /\ Len(s) = N /\ \A i \in 1..N : s[i] = i
    <2>1. s \in [1..N -> 1..N] /\ \A i \in 1..N : s[i] = i
      OBVIOUS
    <2> HIDE DEF s
    <2>2. s \in Seq(1..N)
      BY <2>1, SeqDef
    <2> QED BY <2>1, <2>2, LenProperties
  <1> HIDE DEF s
  <1>2. PICK left \in [0..N -> Seq(1..N)] :
            /\ left[0] = <<>> /\ K = left[N]
            /\ \A i \in 1..N : left[i] = IF i \in d THEN left[i - 1] ELSE Append(left[i - 1], i)
    <2>1. K = without(s, d)
      BY DEF s
    <2>2. PICK left : Leaves(left, s, d, 1..N) /\ without(s, d) = left[Len(s)]
      BY <1>1, WithoutSteps
    <2>3. \A i \in 1..N : left[i] = IF i \in d THEN left[i - 1] ELSE Append(left[i - 1], i)
      BY <1>1, <2>2 DEF Leaves
    <2>4. left \in [0..N -> Seq(1..N)] /\ K = left[N] /\ left[0] = <<>>
      BY <1>1, <2>1, <2>2 DEF Leaves
    <2> QED BY <2>3, <2>4
  <1> DEFINE Good == {i \in 0..N : /\ Chain(d, left[i]) /\ EndOf(0, left[i]) \in 0..i
                                   /\ \A x \in (EndOf(0, left[i]) + 1)..i : x \in d}
  <1>3. 0 \in Good
    <2>1. Chain(d, <<>>) /\ EndOf(0, <<>>) = 0
      BY DEF Chain, EndOf, at
    <2> QED BY <1>2, <2>1
  <1>4. ASSUME NEW i \in 1..N, i - 1 \in Good PROVE i \in Good
    <2> DEFINE t == left[i - 1]
    <2>1. /\ t \in Seq(1..N) /\ Chain(d, t) /\ EndOf(0, t) \in 0..(i - 1) /\ i \in 0..N
          /\ \A x \in (EndOf(0, t) + 1)..(i - 1) : x \in d
      BY <1>2, <1>4
    <2> HIDE DEF t
    <2>2. CASE i \in d
      <3>1. left[i] = t
        BY <1>2, <2>2 DEF t
      <3>2. EndOf(0, t) \in 0..i /\ \A x \in (EndOf(0, t) + 1)..i : x \in d
        <4>1. EndOf(0, t) \in Nat /\ i \in Nat
          BY <2>1
        <4>2. EndOf(0, t) \in 0..i
          BY <2>1
        <4>3. ASSUME NEW x \in (EndOf(0, t) + 1)..i PROVE x \in d
          <5>1. x = i \/ x \in (EndOf(0, t) + 1)..(i - 1)
            BY <4>1
          <5> QED BY <2>1, <2>2, <5>1
        <4> QED BY <4>2, <4>3
      <3> QED BY <2>1, <3>1, <3>2
    <2>3. CASE i \notin d
      <3>1. left[i] = Append(t, i)
        BY <1>2, <2>3 DEF t
      <3>2. NextKept(d, EndOf(0, t), i)
        BY <2>1, <2>3 DEF NextKept
      <3>3. Chain(d, left[i]) /\ EndOf(0, left[i]) = i
        BY <2>1, <3>1, <3>2, ChainAppend
      <3> QED BY <2>1, <3>3
    <2> QED BY <2>2, <2>3
  <1>5. N \in Good
    <2>1. \A i \in 0..N : i \in Good
      <3> HIDE DEF Good
      <3> QED BY <1>3, <1>4, Climb
    <2> QED BY <2>1
  <1> QED BY <1>2, <1>5

Begins(s, K) == Len(s) <= Len(K) /\ s = SubSeq(K, 1, Len(s))

(* So every chain is the beginning of it.                                  *)
LEMMA ChainIsKept ==
  ASSUME NEW N \in Nat, NEW d, NEW s \in Seq(1..N), Chain(d, s),
         NEW K, K = without([n \in 1..N |-> n], d)
  PROVE  Begins(s, K)
  <1>1. K \in Seq(1..N) /\ Chain(d, K) /\ \A x \in (EndOf(0, K) + 1)..N : x \in d
    BY KeptChain
  <1>2. Len(s) \in Nat /\ Len(K) \in Nat
    BY <1>1, LenProperties
  <1> DEFINE Good == {i \in 0..Len(s) : i <= Len(K) /\ at(0, s, i) = at(0, K, i)}
  <1>3. 0 \in Good
    BY <1>2 DEF at
  <1>4. ASSUME NEW i \in 1..Len(s), i - 1 \in Good PROVE i \in Good
    <2>1. i - 1 <= Len(K) /\ at(0, s, i - 1) = at(0, K, i - 1)
      BY <1>4
    <2> DEFINE x == at(0, K, i - 1)
    <2>2. NextKept(d, x, s[i]) /\ s[i] \in 1..N
      BY <2>1, ElementOfSeq DEF Chain
    <2>3. x \in 0..N
      <3>1. CASE i - 1 = 0
        BY <3>1 DEF at
      <3>2. CASE i - 1 # 0
        <4>1. i - 1 \in 1..Len(K)
          BY <1>2, <2>1, <3>2
        <4>2. K[i - 1] \in 1..N
          BY <1>1, <4>1, ElementOfSeq
        <4> QED BY <3>2, <4>2 DEF at
      <3> QED BY <3>1, <3>2
    <2>4. i <= Len(K)
      <3> SUFFICES ASSUME ~(i <= Len(K)) PROVE FALSE
        OBVIOUS
      <3>1. i - 1 = Len(K)
        BY <1>2, <2>1
      <3>2. x = EndOf(0, K)
        BY <3>1 DEF EndOf
      <3> HIDE DEF x
      <3>3. s[i] \in (x + 1)..N
        BY <2>2, <2>3 DEF NextKept
      <3>4. s[i] \in d
        BY <1>1, <3>2, <3>3
      <3> QED BY <2>2, <3>4 DEF NextKept
    <2>5. NextKept(d, x, K[i]) /\ K[i] \in 1..N
      <3>1. i \in 1..Len(K)
        BY <1>2, <2>4
      <3> QED BY <1>1, <3>1, ElementOfSeq DEF Chain
    <2> HIDE DEF x
    <2>6. s[i] = K[i]
      BY <2>2, <2>3, <2>5, NextUnique
    <2> QED BY <1>2, <2>4, <2>6 DEF at
  <1>5. \A i \in 0..Len(s) : i \in Good
    <2> HIDE DEF Good
    <2> QED BY <1>2, <1>3, <1>4, Climb
  <1>6. Len(s) <= Len(K)
    <2>1. Len(s) \in Good
      BY <1>2, <1>5
    <2> QED BY <2>1
  <1>7. \A i \in 1..Len(s) : s[i] = K[i]
    <2> TAKE i \in 1..Len(s)
    <2>1. i \in Good /\ i # 0
      BY <1>2, <1>5
    <2> QED BY <2>1 DEF at
  <1> DEFINE p == SubSeq(K, 1, Len(s))
  <1>8. p \in Seq(1..N) /\ Len(p) = Len(s) /\ \A i \in 1..Len(s) : p[i] = K[i]
    <2>1. Len(s) \in 0..Len(K)
      BY <1>2, <1>6
    <2> QED BY <1>1, <2>1, Halves
  <1> HIDE DEF p
  <1>9. s = p
    BY <1>7, <1>8, SeqEqual
  <1> QED BY <1>6, <1>9 DEF p, Begins

-----------------------------------------------------------------------------
(* The sender's queue. *)

(* A stream grows by a byte that follows it.                               *)
LEMMA StreamAppend ==
  ASSUME NEW fr, NEW d, NEW a, NEW u \in Seq(Bytes(fr)), Stream(fr, d, a, u), NEW b \in Bytes(fr),
         Follows(fr, d, EndOf(a, u), b)
  PROVE  Stream(fr, d, a, Append(u, b)) /\ EndOf(a, Append(u, b)) = b
  <1> DEFINE t == Append(u, b)
  <1>1. /\ Len(u) \in Nat /\ Len(t) = Len(u) + 1 /\ t[Len(u) + 1] = b
        /\ \A i \in 1..Len(u) : t[i] = u[i]
    BY LenProperties, AppendProperties
  <1> HIDE DEF t
  <1>2. EndOf(a, t) = b
    BY <1>1 DEF EndOf, at
  <1>3. ASSUME NEW i \in 1..Len(t) PROVE Follows(fr, d, at(a, t, i - 1), t[i])
    <2>1. at(a, t, i - 1) = at(a, u, i - 1)
      BY <1>1 DEF at
    <2>2. CASE i = Len(u) + 1
      <3>1. i - 1 = Len(u) /\ t[i] = b
        BY <1>1, <2>2
      <3> QED BY <2>1, <3>1 DEF EndOf
    <2>3. CASE i # Len(u) + 1
      <3>1. i \in 1..Len(u)
        BY <1>1, <2>3
      <3> QED BY <1>1, <2>1, <3>1 DEF Stream
    <2> QED BY <2>2, <2>3
  <1> QED BY <1>2, <1>3 DEF Stream, t

(* Where a stream stands, x, that leaves out the frames of D when the one  *)
(* it is made from stands at y: there, or before the frame that y is in.   *)
Behind(fr, e, D, x, y) ==
    IF y[1] \in D
    THEN Complete(fr, x) /\ x[1] < y[1] /\ \A z \in (x[1] + 1)..(y[1] - 1) : z \in e
    ELSE x = y

(* One byte more: it is left out, or it follows.                           *)
LEMMA BehindGoesOn ==
  ASSUME NEW fr \in Seq(AnyFrame), NEW d, NEW D, NEW x \in Cursors(fr), NEW y \in Cursors(fr),
         NEW b \in Bytes(fr), Behind(fr, d \cup D, D, x, y), Follows(fr, d, y, b)
  PROVE  IF b[1] \in D THEN Behind(fr, d \cup D, D, x, b)
         ELSE Follows(fr, d \cup D, x, b) /\ Behind(fr, d \cup D, D, b, b)
  <1>1. x[1] \in Nat /\ y[1] \in Nat /\ b[1] \in Nat
    <2>1. b \in Cursors(fr)
      BY DEF Cursors
    <2> QED BY <2>1, CursorParts
  <1>2. CASE y[1] \in D
    <2>1. Complete(fr, x) /\ x[1] < y[1] /\ \A z \in (x[1] + 1)..(y[1] - 1) : z \in d \cup D
      BY <1>2 DEF Behind
    <2>2. CASE Complete(fr, y)
      <3>1. b[2] = 1 /\ y[1] < b[1] /\ b[1] \notin d /\ \A z \in (y[1] + 1)..(b[1] - 1) : z \in d
        BY <2>2 DEF Follows, NextKept
      <3>2. ASSUME NEW z \in (x[1] + 1)..(b[1] - 1) PROVE z \in d \cup D
        <4>1. z \in (x[1] + 1)..(y[1] - 1) \/ z = y[1] \/ z \in (y[1] + 1)..(b[1] - 1)
          BY <1>1
        <4> QED BY <1>2, <2>1, <3>1, <4>1
      <3>3. x[1] < b[1]
        BY <1>1, <2>1, <3>1
      <3> QED BY <2>1, <3>1, <3>2, <3>3 DEF Behind, Follows, NextKept
    <2>3. CASE ~Complete(fr, y)
      <3>1. b[1] = y[1]
        BY <2>3 DEF Follows
      <3> QED BY <1>2, <2>1, <3>1 DEF Behind
    <2> QED BY <2>2, <2>3
  <1>3. CASE y[1] \notin D
    <2>1. x = y
      BY <1>3 DEF Behind
    <2>2. CASE b[1] \in D
      <3>1. Complete(fr, y)
        BY <1>3, <2>2 DEF Follows
      <3>2. y[1] < b[1] /\ \A z \in (y[1] + 1)..(b[1] - 1) : z \in d
        BY <3>1 DEF Follows, NextKept
      <3> QED BY <2>1, <2>2, <3>1, <3>2 DEF Behind
    <2>3. CASE b[1] \notin D
      BY <2>1, <2>3 DEF Behind, Follows, NextKept
    <2> QED BY <2>2, <2>3
  <1> QED BY <1>2, <1>3

(* A stream without the bytes of some of its frames is one in which those  *)
(* frames are discarded.                                                   *)
LEMMA StreamWithout ==
  ASSUME NEW fr \in Seq(AnyFrame), NEW d, NEW a \in Cursors(fr), Complete(fr, a),
         NEW w \in Seq(Bytes(fr)), Stream(fr, d, a, w),
         NEW B, NEW D, \A i \in 1..Len(w) : w[i] \in B <=> w[i][1] \in D,
         a[1] \notin D, NEW v, v = without(w, B)
  PROVE  /\ v \in Seq(Bytes(fr)) /\ Stream(fr, d \cup D, a, v)
         /\ Ended(fr, d, EndOf(a, w)) => Ended(fr, d \cup D, EndOf(a, v))
  <1> DEFINE e == d \cup D
  <1>0. Len(w) \in Nat
    BY LenProperties
  <1>1. PICK left : Leaves(left, w, B, Bytes(fr)) /\ v = left[Len(w)]
    BY WithoutSteps
  <1> DEFINE Good == {i \in 0..Len(w) : /\ Stream(fr, e, a, left[i])
                                        /\ Behind(fr, e, D, EndOf(a, left[i]), at(a, w, i))}
  <1>2. \A i \in 0..Len(w) : left[i] \in Seq(Bytes(fr)) /\ EndOf(a, left[i]) \in Cursors(fr)
    <2> TAKE i \in 0..Len(w)
    <2>1. left[i] \in Seq(Bytes(fr))
      BY <1>1 DEF Leaves
    <2>2. Len(left[i]) \in 0..Len(left[i])
      BY <2>1, LenProperties
    <2> QED BY <2>1, <2>2, AtCursor DEF EndOf
  <1>3. 0 \in Good
    <2>1. left[0] = <<>> /\ 0 \in 0..Len(w)
      BY <1>0, <1>1 DEF Leaves
    <2>2. Stream(fr, e, a, <<>>) /\ EndOf(a, <<>>) = a /\ at(a, w, 0) = a
      BY DEF Stream, EndOf, at
    <2>3. Behind(fr, e, D, a, a)
      BY DEF Behind
    <2> HIDE DEF e
    <2> QED BY <2>1, <2>2, <2>3
  <1>4. ASSUME NEW i \in 1..Len(w), i - 1 \in Good PROVE i \in Good
    <2> DEFINE u == left[i - 1]
               x == EndOf(a, u)
               y == at(a, w, i - 1)
               b == w[i]
    <2>1. Stream(fr, e, a, u) /\ Behind(fr, e, D, x, y) /\ i \in 0..Len(w) /\ i - 1 \in 0..Len(w)
      BY <1>0, <1>4
    <2>2. left[i] = IF b \in B THEN u ELSE Append(u, b)
      BY <1>1 DEF Leaves
    <2>3. Follows(fr, d, y, b) /\ b \in Bytes(fr) /\ at(a, w, i) = b
      BY <1>0, ElementOfSeq DEF Stream, at
    <2>4. u \in Seq(Bytes(fr)) /\ x \in Cursors(fr) /\ y \in Cursors(fr)
      BY <1>2, <2>1, AtCursor
    <2>5. b \in B <=> b[1] \in D
      OBVIOUS
    <2> HIDE DEF u, x, y, b
    <2>6. IF b[1] \in D THEN Behind(fr, e, D, x, b)
          ELSE Follows(fr, e, x, b) /\ Behind(fr, e, D, b, b)
      BY <2>1, <2>3, <2>4, BehindGoesOn
    <2> HIDE DEF e
    <2>7. CASE b \in B
      <3>1. left[i] = u /\ EndOf(a, u) = x
        BY <2>2, <2>7 DEF x
      <3>2. Behind(fr, e, D, EndOf(a, left[i]), at(a, w, i))
        BY <2>3, <2>5, <2>6, <2>7, <3>1
      <3> QED BY <2>1, <3>1, <3>2
    <2>8. CASE b \notin B
      <3>1. left[i] = Append(u, b) /\ Follows(fr, e, EndOf(a, u), b) /\ Behind(fr, e, D, b, b)
        BY <2>2, <2>5, <2>6, <2>8 DEF x
      <3>2. Stream(fr, e, a, left[i]) /\ EndOf(a, left[i]) = b
        BY <2>1, <2>3, <2>4, <3>1, StreamAppend
      <3> QED BY <2>1, <2>3, <3>1, <3>2
    <2> QED BY <2>7, <2>8
  <1>5. Len(w) \in Good /\ Len(w) \in 0..Len(w)
    <2> HIDE DEF Good
    <2>1. \A i \in 0..Len(w) : i \in Good
      BY <1>0, <1>3, <1>4, Climb
    <2> QED BY <1>0, <2>1
  <1>6. v \in Seq(Bytes(fr)) /\ Stream(fr, e, a, v) /\ Behind(fr, e, D, EndOf(a, v), EndOf(a, w))
    BY <1>1, <1>2, <1>5 DEF EndOf
  <1>7. ASSUME Ended(fr, d, EndOf(a, w)) PROVE Ended(fr, e, EndOf(a, v))
    <2> DEFINE x == EndOf(a, v)
               y == EndOf(a, w)
    <2>1. x \in Cursors(fr) /\ y \in Cursors(fr)
      BY <1>1, <1>2, <1>5, AtCursor DEF EndOf
    <2> HIDE DEF x, y
    <2>2. x[1] \in Nat /\ y[1] \in Nat /\ Len(fr) \in Nat
      BY <2>1, CursorParts, LenProperties
    <2>3. Complete(fr, y) /\ \A z \in (y[1] + 1)..Len(fr) : z \in d
      BY <1>7 DEF Ended, y
    <2>4. Behind(fr, e, D, x, y)
      BY <1>6 DEF x, y
    <2>5. CASE y[1] \in D
      <3>1. Complete(fr, x) /\ \A z \in (x[1] + 1)..(y[1] - 1) : z \in e
        BY <2>4, <2>5 DEF Behind
      <3>2. ASSUME NEW z \in (x[1] + 1)..Len(fr) PROVE z \in e
        <4>1. z \in (x[1] + 1)..(y[1] - 1) \/ z = y[1] \/ z \in (y[1] + 1)..Len(fr)
          BY <2>2
        <4> QED BY <2>3, <2>5, <3>1, <4>1
      <3> QED BY <3>1, <3>2 DEF Ended, x
    <2>6. CASE y[1] \notin D
      <3>1. x = y
        BY <2>4, <2>6 DEF Behind
      <3>2. Complete(fr, x) /\ \A z \in (x[1] + 1)..Len(fr) : z \in e
        BY <2>3, <3>1
      <3> QED BY <3>2 DEF Ended, x
    <2> QED BY <2>5, <2>6
  <1> QED BY <1>6, <1>7

(* advanceUnstartedBoundary finds a header at or past what was written, or *)
(* the end.                                                                *)
LEMMA AdvancedFinds ==
  ASSUME NEW S, NEW b \in Seq(S), NEW offset \in 0..Len(b), NEW boundary \in 0..Len(b),
         boundary < Len(b) => isHeader(b, boundary + 1),
         NEW c, c = advanced(b, offset, boundary)
  PROVE  /\ c \in offset..Len(b) /\ c \in 0..Len(b)
         /\ c < Len(b) => isHeader(b, c + 1)
  <1>0. Len(b) \in Nat
    BY LenProperties
  <1>1. CASE boundary >= offset
    BY <1>0, <1>1 DEF advanced
  <1>2. CASE ~(boundary >= offset)
    <2> DEFINE T == {x \in offset..Len(b) : x = Len(b) \/ isHeader(b, x + 1)}
    <2>1. isHeader(b, boundary + 1)
      BY <1>0, <1>2
    <2>2. c = Min(T)
      BY <1>2, <2>1 DEF advanced
    <2>3. Len(b) \in T /\ T \subseteq Nat
      BY <1>0
    <2>4. Min(T) \in T
      <3> HIDE DEF T
      <3>1. \E x \in T : \A y \in T : x <= y
        BY <2>3, Least
      <3> QED BY <3>1 DEF Min
    <2>5. c \in offset..Len(b) /\ (c = Len(b) \/ isHeader(b, c + 1))
      BY <2>2, <2>4
    <2> QED BY <1>0, <2>5
  <1> QED BY <1>1, <1>2

-----------------------------------------------------------------------------
(* The receiver's walk. *)

(* A whole frame ends within the bytes.                                    *)
LEMMA WholeFits ==
  ASSUME frames \in Seq(AnyFrame), NEW w \in Seq(Bytes(frames)), NEW c \in 0..Len(w), isWhole(w, c)
  PROVE  /\ c < Len(w) /\ isHeader(w, c + 1) /\ frameAt(w, c) \in 1..Len(frames)
         /\ frames[frameAt(w, c)].size \in Nat \ {0}
         /\ c + frames[frameAt(w, c)].size \in 0..Len(w)
  <1>1. c < Len(w) /\ isHeader(w, c + 1) /\ c + frames[frameAt(w, c)].size <= Len(w) /\ Len(w) \in Nat
    BY LenProperties DEF isWhole
  <1>2. c + 1 \in 1..Len(w)
    BY <1>1
  <1>3. w[c + 1] \in Bytes(frames)
    BY <1>2, ElementOfSeq
  <1>4. frameAt(w, c) \in 1..Len(frames)
    BY <1>3 DEF Bytes, frameAt
  <1>5. frames[frameAt(w, c)] \in AnyFrame
    BY <1>4, ElementOfSeq
  <1>6. frames[frameAt(w, c)].size \in Nat \ {0}
    BY <1>5, FramesAssumption DEF AnyFrame
  <1> QED BY <1>1, <1>4, <1>6

(* The walk goes from cut to cut.                                          *)
LEMMA CutsStep ==
  ASSUME frames \in Seq(AnyFrame), NEW w \in Seq(Bytes(frames)), NEW c, c = cuts(w)
  PROVE  /\ c[0] = 0 /\ \A i \in 0..Len(w) : c[i] \in 0..Len(w)
         /\ \A i \in 1..Len(w) : c[i] = IF isWhole(w, c[i - 1])
                                        THEN c[i - 1] + frames[frameAt(w, c[i - 1])].size
                                        ELSE c[i - 1]
  <1> DEFINE N == Len(w)
             next(x) == IF isWhole(w, x) THEN x + frames[frameAt(w, x)].size ELSE x
             Def(f) == f = [i \in 0..N |-> IF i = 0 THEN 0
                                           ELSE IF isWhole(w, f[i - 1])
                                                THEN f[i - 1] + frames[frameAt(w, f[i - 1])].size
                                                ELSE f[i - 1]]
             step == [y \in (1..N) \X (0..N) |-> next(y[2])]
  <1>1. N \in Nat
    BY LenProperties
  <1>2. \A x \in 0..N : next(x) \in 0..N
    BY WholeFits
  <1>3. step \in [(1..N) \X (0..N) -> 0..N]
    <2> HIDE DEF next
    <2> QED BY <1>2
  <1>4. PICK g \in [0..N -> 0..N] : g[0] = 0 /\ \A i \in 1..N : g[i] = step[<<i, g[i - 1]>>]
    <2> HIDE DEF step, N
    <2>1. 0 \in 0..N
      BY <1>1
    <2>2. \E g : Recursive(g, 0, step, N, 0..N)
      BY <1>1, <1>3, <2>1, Recursion
    <2> QED BY <2>2 DEF Recursive
  <1>5. Def(g)
    <2>1. ASSUME NEW i \in 0..N PROVE g[i] = IF i = 0 THEN 0 ELSE next(g[i - 1])
      <3>1. CASE i = 0
        BY <1>4, <3>1
      <3>2. CASE i # 0
        <4>1. i \in 1..N /\ i - 1 \in 0..N /\ g[i - 1] \in 0..N
          BY <1>1, <3>2
        <4>2. <<i, g[i - 1]>> \in (1..N) \X (0..N)
          BY <4>1
        <4> HIDE DEF next
        <4>3. step[<<i, g[i - 1]>>] = next(g[i - 1])
          BY <4>2
        <4> HIDE DEF step
        <4> QED BY <1>4, <3>2, <4>1, <4>3
      <3> QED BY <3>1, <3>2
    <2>2. g = [i \in 0..N |-> g[i]]
      BY <1>4
    <2> QED BY <2>1, <2>2
  <1>6. Def(c)
    <2>1. c = CHOOSE f : Def(f)
      BY DEF cuts
    <2> HIDE DEF Def
    <2> QED BY <1>5, <2>1
  <1>7. c[0] = 0 /\ \A i \in 1..N : c[i] = next(c[i - 1])
    <2>1. \A i \in 0..N : c[i] = IF i = 0 THEN 0 ELSE next(c[i - 1])
      BY <1>6
    <2> HIDE DEF next, Def
    <2> QED BY <1>1, <2>1
  <1>8. \A i \in 0..N : c[i] \in 0..N
    <2> DEFINE Good == {i \in 0..N : c[i] \in 0..N}
    <2> HIDE DEF next, Def
    <2>1. 0 \in Good
      BY <1>1, <1>7
    <2>2. ASSUME NEW i \in 1..N, i - 1 \in Good PROVE i \in Good
      BY <1>1, <1>2, <1>7, <2>2
    <2>3. \A i \in 0..N : i \in Good
      <3> HIDE DEF Good, N
      <3> QED BY <1>1, <2>1, <2>2, Climb
    <2> QED BY <2>3
  <1> QED BY <1>7, <1>8

(* Once no whole frame follows, none does later.                           *)
LEMMA WholeFirst ==
  ASSUME frames \in Seq(AnyFrame), NEW w \in Seq(Bytes(frames))
  PROVE  /\ Cardinality(wholeFrames(w)) \in 0..Len(w)
         /\ wholeFrames(w) = 1..Cardinality(wholeFrames(w))
  <1> DEFINE c == cuts(w)
  <1>0. Len(w) \in Nat
    BY LenProperties
  <1>1. \A i \in 1..Len(w) : c[i] = IF isWhole(w, c[i - 1])
                                    THEN c[i - 1] + frames[frameAt(w, c[i - 1])].size
                                    ELSE c[i - 1]
    BY CutsStep
  <1>2. wholeFrames(w) = {i \in 1..Len(w) : isWhole(w, c[i - 1])}
    BY DEF wholeFrames
  <1> HIDE DEF c
  <1>3. ASSUME NEW i \in 1..Len(w), i + 1 \in wholeFrames(w) PROVE i \in wholeFrames(w)
    <2>1. isWhole(w, c[i + 1 - 1]) /\ i + 1 - 1 = i
      BY <1>0, <1>2, <1>3
    <2> QED BY <1>1, <1>2, <2>1
  <1>4. wholeFrames(w) \subseteq 1..Len(w)
    BY <1>2
  <1> QED BY <1>0, <1>3, <1>4, Initial

(* Every cut is at the end of a frame.                                     *)
LEMMA CutsAtEnds ==
  ASSUME frames \in Seq(AnyFrame), NEW w \in Seq(Bytes(frames)), NEW d, NEW a \in Cursors(frames),
         Complete(frames, a), Stream(frames, d, a, w), NEW c, c = cuts(w)
  PROVE  /\ \A i \in 0..Len(w) : Complete(frames, at(a, w, c[i]))
         /\ \A i \in 1..Len(w) : isWhole(w, c[i - 1]) =>
               /\ frameAt(w, c[i - 1]) \in 1..Len(frames)
               /\ NextKept(d, at(a, w, c[i - 1])[1], frameAt(w, c[i - 1]))
               /\ at(a, w, c[i])[1] = frameAt(w, c[i - 1])
  <1>0. Len(w) \in Nat
    BY LenProperties
  <1>1. /\ c[0] = 0 /\ \A i \in 0..Len(w) : c[i] \in 0..Len(w)
        /\ \A i \in 1..Len(w) : c[i] = IF isWhole(w, c[i - 1])
                                       THEN c[i - 1] + frames[frameAt(w, c[i - 1])].size
                                       ELSE c[i - 1]
    BY CutsStep
  <1>2. ASSUME NEW i \in 1..Len(w), isWhole(w, c[i - 1])
        PROVE  /\ frameAt(w, c[i - 1]) \in 1..Len(frames)
               /\ NextKept(d, at(a, w, c[i - 1])[1], frameAt(w, c[i - 1]))
               /\ at(a, w, c[i])[1] = frameAt(w, c[i - 1])
               /\ Complete(frames, at(a, w, c[i]))
    <2> DEFINE x == c[i - 1]
               n == frameAt(w, x)
               s == frames[n].size
    <2>1. i - 1 \in 0..Len(w) /\ x \in 0..Len(w) /\ c[i] = x + s
      BY <1>0, <1>1, <1>2
    <2> HIDE DEF x
    <2>2. isWhole(w, x)
      BY <1>2 DEF x
    <2>3. x < Len(w) /\ isHeader(w, x + 1) /\ n \in 1..Len(frames) /\ s \in Nat \ {0} /\ x + s <= Len(w)
      BY <1>0, <2>1, <2>2, WholeFits
    <2>4. n = w[x + 1][1]
      BY DEF frameAt
    <2> HIDE DEF n
    <2>5. w[x + s] = <<n, s>>
      <3>1. x \in 0..Len(w) /\ x < Len(w) /\ isHeader(w, x + 1) /\ s \in Nat /\ x + s <= Len(w)
        BY <2>1, <2>3
      <3>2. s = frames[n].size
        OBVIOUS
      <3>3. s = frames[w[x + 1][1]].size
        BY <2>4, <3>2
      <3> HIDE DEF s
      <3>4. Runs(w, x, s)
        BY <3>1, <3>3, FrameRuns
      <3> QED BY <2>4, <3>4 DEF Runs
    <2>6. NextKept(d, at(a, w, x)[1], n)
      BY <2>1, <2>3, <2>4, HeaderAfterEnd
    <2> HIDE DEF s
    <2>7. at(a, w, c[i]) = <<n, s>>
      <3>1. x + s # 0
        BY <2>1, <2>3
      <3> QED BY <2>1, <2>5, <3>1 DEF at
    <2>8. Complete(frames, <<n, s>>) /\ <<n, s>>[1] = n
      BY DEF Complete, s
    <2> QED BY <2>3, <2>6, <2>7, <2>8 DEF x, n
  <1>3. \A i \in 0..Len(w) : Complete(frames, at(a, w, c[i]))
    <2> DEFINE Good == {i \in 0..Len(w) : Complete(frames, at(a, w, c[i]))}
    <2>1. 0 \in Good
      BY <1>0, <1>1 DEF at
    <2>2. ASSUME NEW i \in 1..Len(w), i - 1 \in Good PROVE i \in Good
      <3>0. i \in 0..Len(w) /\ Complete(frames, at(a, w, c[i - 1]))
        BY <1>0, <2>2
      <3>1. CASE isWhole(w, c[i - 1])
        BY <1>2, <3>0, <3>1
      <3>2. CASE ~isWhole(w, c[i - 1])
        <4>1. c[i] = c[i - 1]
          BY <1>1, <3>2
        <4> QED BY <3>0, <4>1
      <3> QED BY <3>1, <3>2
    <2> HIDE DEF Good
    <2>3. \A i \in 0..Len(w) : i \in Good
      BY <1>0, <2>1, <2>2, Climb
    <2> QED BY <2>3 DEF Good
  <1> QED BY <1>2, <1>3

Lands(w, d, a, s, j, t) ==
    /\ t \in Seq(1..Len(frames)) /\ Chain(d, t)
    /\ cuts(w)[j] \in 0..Len(w)
    /\ at(a, w, cuts(w)[j]) \in Cursors(frames)
    /\ Complete(frames, at(a, w, cuts(w)[j]))
    /\ EndOf(0, t) = at(a, w, cuts(w)[j])[1]

(* The frames handed over go on from those before, and stop at a cut.      *)
LEMMA HandsOver ==
  ASSUME frames \in Seq(AnyFrame), NEW w \in Seq(Bytes(frames)), NEW d, NEW a \in Cursors(frames),
         Complete(frames, a), Stream(frames, d, a, w),
         NEW s \in Seq(1..Len(frames)), Chain(d, s), EndOf(0, s) = a[1],
         NEW j \in 0..Cardinality(wholeFrames(w)), NEW t, t = s \o handedOver(w, j)
  PROVE  Lands(w, d, a, s, j, t)
  <1> DEFINE F == 1..Len(frames)
             c == cuts(w)
             all == Cardinality(wholeFrames(w))
             h(k) == handedOver(w, k)
  <1>0. Len(w) \in Nat /\ all \in 0..Len(w) /\ wholeFrames(w) = 1..all
    BY WholeFirst, LenProperties
  <1>1. c[0] = 0 /\ \A i \in 0..Len(w) : c[i] \in 0..Len(w)
    BY CutsStep
  <1>2. \A i \in 1..all : isWhole(w, c[i - 1]) /\ i \in 1..Len(w)
    BY <1>0 DEF wholeFrames
  <1>3. \A i \in 1..all : /\ frameAt(w, c[i - 1]) \in F
                          /\ NextKept(d, at(a, w, c[i - 1])[1], frameAt(w, c[i - 1]))
                          /\ at(a, w, c[i])[1] = frameAt(w, c[i - 1])
    BY <1>2, CutsAtEnds
  <1>4. \A i \in 0..Len(w) : Complete(frames, at(a, w, c[i]))
    BY CutsAtEnds
  <1>5. \A k \in 0..all : /\ h(k) \in Seq(F) /\ Len(h(k)) = k
                          /\ \A i \in 1..k : h(k)[i] = frameAt(w, c[i - 1])
    <2> TAKE k \in 0..all
    <2>1. k \in Nat /\ h(k) \in [1..k -> F] /\ \A i \in 1..k : h(k)[i] = frameAt(w, c[i - 1])
      <3>1. k \in Nat /\ \A i \in 1..k : i \in 1..all
        BY <1>0
      <3>2. h(k) = [i \in 1..k |-> frameAt(w, c[i - 1])]
        BY DEF handedOver
      <3> HIDE DEF c, F, h, all
      <3>3. \A i \in 1..k : frameAt(w, c[i - 1]) \in F
        BY <1>3, <3>1
      <3> QED BY <3>1, <3>2, <3>3
    <2> HIDE DEF h, c, F
    <2>2. h(k) \in Seq(F)
      BY <2>1, SeqDef
    <2> QED BY <2>1, <2>2, LenProperties
  <1>6. ASSUME NEW k \in 1..all PROVE s \o h(k) = Append(s \o h(k - 1), frameAt(w, c[k - 1]))
    <2> DEFINE m == frameAt(w, c[k - 1])
    <2>1. /\ k \in 0..all /\ k - 1 \in 0..all /\ m \in F
      BY <1>0, <1>3
    <2>2. /\ h(k) \in Seq(F) /\ Len(h(k)) = k /\ h(k - 1) \in Seq(F) /\ Len(h(k - 1)) = k - 1
          /\ h(k)[k] = m /\ \A i \in 1..(k - 1) : h(k)[i] = h(k - 1)[i]
      <3> HIDE DEF h, c, F
      <3>1. /\ h(k) \in Seq(F) /\ Len(h(k)) = k
            /\ \A i \in 1..k : h(k)[i] = frameAt(w, c[i - 1])
        BY <1>5, <2>1
      <3>2. /\ h(k - 1) \in Seq(F) /\ Len(h(k - 1)) = k - 1
            /\ \A i \in 1..(k - 1) : h(k - 1)[i] = frameAt(w, c[i - 1])
        BY <1>5, <2>1
      <3>3. k \in 1..k /\ \A i \in 1..(k - 1) : i \in 1..k
        BY <1>0
      <3> QED BY <3>1, <3>2, <3>3
    <2> HIDE DEF h, m, c, F
    <2>3. h(k) = Append(h(k - 1), m)
      <3> DEFINE p == Append(h(k - 1), m)
      <3>1. p \in Seq(F) /\ Len(p) = k /\ p[k] = m /\ \A i \in 1..(k - 1) : p[i] = h(k - 1)[i]
        BY <2>1, <2>2, AppendProperties
      <3> HIDE DEF p
      <3>2. \A i \in 1..k : h(k)[i] = p[i]
        <4> TAKE i \in 1..k
        <4>1. i = k \/ i \in 1..(k - 1)
          BY <1>0
        <4> QED BY <2>2, <3>1, <4>1
      <3>3. h(k) = p
        BY <2>2, <3>1, <3>2, SeqEqual
      <3> QED BY <3>3 DEF p
    <2>4. s \o Append(h(k - 1), m) = Append(s \o h(k - 1), m)
      <3>1. Append(h(k - 1), m) = h(k - 1) \o <<m>> /\ <<m>> \in Seq(F)
        BY <2>1, <2>2, AppendIsConcat
      <3>2. s \o h(k - 1) \in Seq(F) /\ s \in Seq(F)
        BY <2>2, ConcatProperties DEF F
      <3>3. Append(s \o h(k - 1), m) = (s \o h(k - 1)) \o <<m>>
        BY <2>1, <3>2, AppendIsConcat
      <3> QED BY <2>2, <3>1, <3>2, <3>3, ConcatAssociative
    <2> QED BY <2>3, <2>4 DEF m
  <1> HIDE DEF c, all, h
  <1> DEFINE Good == {k \in 0..all : /\ s \o h(k) \in Seq(F) /\ Chain(d, s \o h(k))
                                     /\ EndOf(0, s \o h(k)) = at(a, w, c[k])[1]}
  <1>7. 0 \in Good
    <2>1. 0 \in 0..all
      BY <1>0
    <2>2. h(0) = <<>>
      <3>1. h(0) \in Seq(F) /\ Len(h(0)) = 0
        BY <1>5, <2>1
      <3> QED BY <3>1, EmptySeq
    <2>3. s \o h(0) = s
      BY <2>2, ConcatEmptySeq
    <2>4. at(a, w, c[0]) = a
      BY <1>1 DEF at
    <2> QED BY <2>1, <2>3, <2>4
  <1>8. ASSUME NEW k \in 1..all, k - 1 \in Good PROVE k \in Good
    <2> DEFINE p == s \o h(k - 1)
               m == frameAt(w, c[k - 1])
    <2>1. p \in Seq(F) /\ Chain(d, p) /\ EndOf(0, p) = at(a, w, c[k - 1])[1]
      BY <1>8
    <2>2. m \in F /\ NextKept(d, at(a, w, c[k - 1])[1], m) /\ at(a, w, c[k])[1] = m
      BY <1>3
    <2>3. s \o h(k) = Append(p, m)
      BY <1>6
    <2> HIDE DEF p, m
    <2>4. Append(p, m) \in Seq(F) /\ Chain(d, Append(p, m)) /\ EndOf(0, Append(p, m)) = m
      BY <2>1, <2>2, ChainAppend
    <2>5. k \in 0..all
      BY <1>0
    <2> QED BY <2>2, <2>3, <2>4, <2>5
  <1>9. j \in Good
    <2> HIDE DEF Good
    <2>1. \A k \in 0..all : k \in Good
      <3>1. all \in Nat
        BY <1>0
      <3> QED BY <1>7, <1>8, <3>1, Climb
    <2> QED BY <2>1 DEF all
  <1>10. j \in 0..Len(w)
    BY <1>0 DEF all
  <1>11. c[j] \in 0..Len(w) /\ at(a, w, c[j]) \in Cursors(frames) /\ Complete(frames, at(a, w, c[j]))
    BY <1>1, <1>4, <1>10, AtCursor
  <1> QED BY <1>9, <1>11 DEF c, h, Lands

-----------------------------------------------------------------------------
(* The invariant. *)

(* What is between the frames handed over and the sender's last byte.      *)
live == drop(outbound, outboundOffset)
wire == inbound \o (socket \o live)

(* The bytes w go on from the frames s, to the last frame unless cut.      *)
Onward(fr, d, s, w, cut) ==
    \E a \in Cursors(fr) :
        /\ Complete(fr, a) /\ a[1] = EndOf(0, s) /\ Stream(fr, d, a, w)
        /\ cut \/ Ended(fr, d, EndOf(a, w))

(* A queue is written up to o, and a frame starts at the boundary.         *)
Queued(b, o, boundary) ==
    /\ o \in 0..Len(b) /\ boundary \in 0..Len(b)
    /\ boundary < Len(b) => isHeader(b, boundary + 1)

FramesInv ==
    /\ frames \in Seq(AnyFrame) /\ Len(frames) <= MaxFrames
    /\ gone \subseteq PeerIds /\ discarded \subseteq 1..Len(frames)
QueueInv ==
    /\ outbound \in Seq(Bytes(frames)) /\ Queued(outbound, outboundOffset, unstartedBoundary)
    /\ isWriteArmed \in BOOLEAN
SocketInv ==
    /\ socket \in Seq(Bytes(frames)) /\ Len(socket) <= SocketRoom /\ senderGone \in BOOLEAN
ReceiverInv ==
    /\ inbound \in Seq(Bytes(frames)) /\ malformed = FALSE
    /\ {isReadSuspended, redispatch, isClosed, trapped} \subseteq BOOLEAN
DeliveredInv == delivered \in Seq(1..Len(frames)) /\ Chain(discarded, delivered)
WireInv == ~isClosed => Onward(frames, discarded, delivered, wire, senderGone)

IInv == FramesInv /\ QueueInv /\ SocketInv /\ ReceiverInv /\ DeliveredInv /\ WireInv

(* What is dropped comes from the first part.                              *)
LEMMA DropCat ==
  ASSUME NEW S, NEW u \in Seq(S), NEW v \in Seq(S), NEW n \in 0..Len(u)
  PROVE  drop(u \o v, n) = drop(u, n) \o v /\ drop(u, n) \in Seq(S)
  <1> DEFINE w == u \o v
             p == drop(w, n)
             t == drop(u, n)
             q == t \o v
  <1>1. /\ Len(u) \in Nat /\ Len(v) \in Nat /\ w \in Seq(S) /\ Len(w) = Len(u) + Len(v)
        /\ \A i \in 1..(Len(u) + Len(v)) : w[i] = IF i <= Len(u) THEN u[i] ELSE v[i - Len(u)]
    BY LenProperties, ConcatProperties
  <1>2. t \in Seq(S) /\ Len(t) = Len(u) - n /\ \A i \in 1..(Len(u) - n) : t[i] = u[n + i]
    BY Halves
  <1> HIDE DEF w, t
  <1>3. p \in Seq(S) /\ Len(p) = Len(w) - n /\ \A i \in 1..(Len(w) - n) : p[i] = w[n + i]
    <2>1. n \in 0..Len(w)
      BY <1>1
    <2> QED BY <1>1, <2>1, Halves
  <1>4. /\ q \in Seq(S) /\ Len(q) = Len(t) + Len(v)
        /\ \A i \in 1..(Len(t) + Len(v)) : q[i] = IF i <= Len(t) THEN t[i] ELSE v[i - Len(t)]
    BY <1>2, ConcatProperties
  <1> HIDE DEF p, q
  <1>5. Len(p) = Len(q)
    BY <1>1, <1>2, <1>3, <1>4
  <1>6. ASSUME NEW i \in 1..Len(p) PROVE p[i] = q[i]
    <2>1. /\ i \in 1..(Len(w) - n) /\ n + i \in 1..(Len(u) + Len(v)) /\ i \in 1..(Len(t) + Len(v))
          /\ i \in Nat /\ n \in Nat
      BY <1>1, <1>2, <1>3
    <2>2. p[i] = w[n + i]
      BY <1>3, <2>1
    <2>3. CASE i <= Len(t)
      <3>1. n + i <= Len(u) /\ i \in 1..(Len(u) - n)
        BY <1>1, <1>2, <2>1, <2>3
      <3> QED BY <1>1, <1>2, <1>4, <2>1, <2>2, <2>3, <3>1
    <2>4. CASE ~(i <= Len(t))
      <3>1. ~(n + i <= Len(u)) /\ n + i - Len(u) = i - Len(t)
        BY <1>1, <1>2, <2>1, <2>4
      <3>2. w[n + i] = v[n + i - Len(u)]
        BY <1>1, <2>1, <3>1
      <3>3. q[i] = v[i - Len(t)]
        BY <1>4, <2>1, <2>4
      <3> QED BY <2>2, <3>1, <3>2, <3>3
    <2> QED BY <2>3, <2>4
  <1>7. p = q
    BY <1>3, <1>4, <1>5, <1>6, SeqEqual
  <1> QED BY <1>2, <1>7 DEF p, q, w, t

(* Nothing is left of a sequence that is dropped, and all of it otherwise. *)
LEMMA DropEnds ==
  ASSUME NEW S, NEW s \in Seq(S)
  PROVE  drop(s, Len(s)) = <<>> /\ drop(s, 0) = s /\ drop(<<>>, 0) = <<>>
  <1>1. Len(s) \in Nat
    BY LenProperties
  <1>2. drop(s, Len(s)) = <<>>
    BY <1>1, SubSeqEmpty DEF drop
  <1>3. drop(s, 0) = s
    BY SubSeqFull DEF drop
  <1>4. drop(<<>>, 0) = <<>>
    BY SubSeqEmpty DEF drop
  <1> QED BY <1>2, <1>3, <1>4

(* Flushing moves bytes from the queue to the socket: the two together are *)
(* what they were, and a frame still starts at the boundary.               *)
LEMMA FlushKeeps ==
  ASSUME NEW S, NEW b \in Seq(S), socket \in Seq(S), Len(socket) <= SocketRoom,
         Queued(b, outboundOffset, unstartedBoundary), flushOutbound(b)
  PROVE  /\ socket' \in Seq(S) /\ Len(socket') <= SocketRoom /\ outbound' \in Seq(S)
         /\ Queued(outbound', outboundOffset', unstartedBoundary') /\ isWriteArmed' \in BOOLEAN
         /\ socket' \o drop(outbound', outboundOffset') = socket \o drop(b, outboundOffset)
  <1> DEFINE o == outboundOffset
             amount == Len(b) - o
             x == o + (IF amount <= room THEN amount ELSE room)
             piece == SubSeq(b, o + 1, x)
  <1>1. Len(b) \in Nat /\ Len(socket) \in Nat /\ o \in 0..Len(b) /\ SocketRoom \in Nat
    BY LenProperties, FramesAssumption DEF Queued
  <1>2. x \in o..Len(b) /\ x \in 0..Len(b) /\ x - o <= SocketRoom - Len(socket)
    BY <1>1 DEF room
  <1>3. /\ socket' = socket \o piece /\ isWriteArmed' = (x < Len(b))
        /\ \/ /\ x = Len(b)
              /\ outbound' = <<>> /\ outboundOffset' = 0 /\ unstartedBoundary' = 0
           \/ /\ x < Len(b) /\ outbound' = drop(b, x) /\ outboundOffset' = 0
              /\ unstartedBoundary' = advanced(b, x, unstartedBoundary) - x
           \/ /\ x < Len(b) /\ outbound' = b /\ outboundOffset' = x
              /\ unstartedBoundary' = unstartedBoundary
    BY DEF flushOutbound, armed, compactedBoundary
  <1> HIDE DEF x
  <1>4. piece \in Seq(S) /\ Len(piece) = x - o
    <2>1. \A i \in 1..Len(b) : b[i] \in S
      BY ElementOfSeq
    <2>2. \A i \in (o + 1)..x : b[i] \in S
      BY <1>1, <1>2, <2>1
    <2> QED BY <1>1, <1>2, <2>2, SubSeqProperties
  <1>5. piece \o drop(b, x) = drop(b, o)
    <2>1. ASSUME NEW m \in 1..(Len(b) + 1), m = o + 1
          PROVE  SubSeq(b, m, x) \o SubSeq(b, x + 1, Len(b)) = SubSeq(b, m, Len(b))
      <3>1. x \in (m - 1)..Len(b) /\ Len(b) \in x..Len(b)
        BY <1>1, <1>2, <2>1
      <3> QED BY <3>1, ConcatAdjacentSubSeq
    <2>2. o + 1 \in 1..(Len(b) + 1)
      BY <1>1
    <2> QED BY <2>1, <2>2 DEF drop
  <1> HIDE DEF piece
  <1>6. socket' \in Seq(S) /\ Len(socket') <= SocketRoom
    <2>1. socket' \in Seq(S) /\ Len(socket') = Len(socket) + Len(piece)
      BY <1>3, <1>4, ConcatProperties
    <2> QED BY <1>1, <1>2, <1>4, <2>1
  <1>7. drop(b, x) \in Seq(S) /\ Len(drop(b, x)) = Len(b) - x
        /\ \A i \in 1..(Len(b) - x) : drop(b, x)[i] = b[x + i]
    BY <1>2, Halves
  <1>8. socket \o (piece \o drop(b, x)) = socket' \o drop(b, x)
    <2>1. (socket \o piece) \o drop(b, x) = socket \o (piece \o drop(b, x))
      BY <1>4, <1>7, ConcatAssociative
    <2> QED BY <1>3, <2>1
  <1>9. /\ drop(outbound', outboundOffset') = drop(b, x) /\ outbound' \in Seq(S)
        /\ Queued(outbound', outboundOffset', unstartedBoundary')
    <2>1. CASE x = Len(b) /\ outbound' = <<>> /\ outboundOffset' = 0 /\ unstartedBoundary' = 0
      <3>1. drop(b, x) = <<>> /\ drop(<<>>, 0) = <<>>
        BY <2>1, DropEnds
      <3>2. Queued(<<>>, 0, 0) /\ <<>> \in Seq(S)
        BY EmptySeq DEF Queued
      <3> QED BY <2>1, <3>1, <3>2
    <2>2. CASE /\ x < Len(b) /\ outbound' = drop(b, x) /\ outboundOffset' = 0
               /\ unstartedBoundary' = advanced(b, x, unstartedBoundary) - x
      <3> DEFINE c == advanced(b, x, unstartedBoundary)
                 t == drop(b, x)
      <3>1. c \in x..Len(b) /\ (c < Len(b) => isHeader(b, c + 1))
        BY <1>2, AdvancedFinds DEF Queued
      <3> HIDE DEF c, t
      <3>2. drop(t, 0) = t
        BY <1>7, DropEnds DEF t
      <3>3. Len(t) = Len(b) - x /\ c - x \in 0..Len(t) /\ 0 \in 0..Len(t)
        BY <1>1, <1>2, <1>7, <3>1 DEF t
      <3>4. ASSUME c - x < Len(t) PROVE isHeader(t, c - x + 1)
        <4>1. c < Len(b) /\ c - x + 1 \in 1..(Len(b) - x) /\ x + (c - x + 1) = c + 1
          BY <1>1, <1>2, <3>1, <3>3, <3>4
        <4>2. t[c - x + 1] = b[c + 1]
          BY <1>7, <4>1 DEF t
        <4> QED BY <3>1, <4>1, <4>2 DEF isHeader
      <3>5. Queued(t, 0, c - x)
        BY <3>3, <3>4 DEF Queued
      <3>6. outbound' = t /\ outboundOffset' = 0 /\ unstartedBoundary' = c - x
        BY <2>2 DEF t, c
      <3> QED BY <1>7, <3>2, <3>5, <3>6 DEF t
    <2>3. CASE /\ x < Len(b) /\ outbound' = b /\ outboundOffset' = x
               /\ unstartedBoundary' = unstartedBoundary
      <3>1. Queued(b, x, unstartedBoundary)
        BY <1>2 DEF Queued
      <3> QED BY <2>3, <3>1
    <2> QED BY <1>3, <2>1, <2>2, <2>3
  <1>10. isWriteArmed' \in BOOLEAN
    BY <1>3
  <1> QED BY <1>5, <1>6, <1>8, <1>9, <1>10

Associates(u, v, w) == (u \o v) \o w = u \o (v \o w)

LEMMA Associativity ==
  ASSUME NEW S, NEW u \in Seq(S), NEW v \in Seq(S), NEW w \in Seq(S)
  PROVE  Associates(u, v, w)
  BY ConcatAssociative DEF Associates

Regroups(u, v, w, x) == u \o (v \o (w \o x)) = (u \o (v \o w)) \o x

(* A queue's last part joins what is before it.                            *)
LEMMA Regroup ==
  ASSUME NEW S, NEW u \in Seq(S), NEW v \in Seq(S), NEW w \in Seq(S), NEW x \in Seq(S)
  PROVE  Regroups(u, v, w, x) /\ u \o (v \o w) \in Seq(S)
  <1>1. v \o w \in Seq(S) /\ u \o (v \o w) \in Seq(S)
    BY ConcatProperties
  <1>2. v \o (w \o x) = (v \o w) \o x
    BY ConcatAssociative
  <1>3. u \o ((v \o w) \o x) = (u \o (v \o w)) \o x
    BY <1>1, ConcatAssociative
  <1> QED BY <1>1, <1>2, <1>3 DEF Regroups

(* The last frame of a chain is the highest.                               *)
LEMMA ChainRises ==
  ASSUME NEW N \in Nat, NEW d, NEW s \in Seq(1..N), Chain(d, s)
  PROVE  \A i \in 1..Len(s) : s[i] <= EndOf(0, s)
  <1>0. Len(s) \in Nat /\ \A i \in 1..Len(s) : s[i] \in Nat
    BY LenProperties, ElementOfSeq
  <1> DEFINE Good == {j \in 0..Len(s) : \A i \in 1..j : s[i] <= at(0, s, j)}
  <1>1. 0 \in Good
    BY <1>0
  <1>2. ASSUME NEW j \in 1..Len(s), j - 1 \in Good PROVE j \in Good
    <2>1. \A i \in 1..(j - 1) : s[i] <= at(0, s, j - 1)
      BY <1>2
    <2>2. at(0, s, j - 1) < s[j] /\ at(0, s, j) = s[j] /\ at(0, s, j - 1) \in Nat
      <3>1. at(0, s, j - 1) \in Nat
        BY <1>0 DEF at
      <3>2. at(0, s, j) = s[j]
        BY <1>0 DEF at
      <3> QED BY <3>1, <3>2 DEF Chain, NextKept
    <2>3. ASSUME NEW i \in 1..j PROVE s[i] <= s[j]
      <3>1. s[i] \in Nat /\ s[j] \in Nat
        BY <1>0
      <3>2. CASE i = j
        BY <3>1, <3>2
      <3>3. CASE i # j
        <4>1. i \in 1..(j - 1)
          BY <1>0, <3>3
        <4> QED BY <2>1, <2>2, <3>1, <4>1
      <3> QED BY <3>2, <3>3
    <2>4. j \in 0..Len(s)
      BY <1>0
    <2> QED BY <2>2, <2>3, <2>4
  <1>3. Len(s) \in Good
    <2> HIDE DEF Good
    <2>1. \A j \in 0..Len(s) : j \in Good
      BY <1>0, <1>1, <1>2, Climb
    <2> QED BY <1>0, <2>1
  <1> QED BY <1>3 DEF EndOf

(* Discarding later frames does not disturb a chain.                       *)
LEMMA ChainDiscards ==
  ASSUME NEW d, NEW D, NEW s, Chain(d, s), \A i \in 1..Len(s) : s[i] \notin D
  PROVE  Chain(d \cup D, s)
  <1> SUFFICES ASSUME NEW i \in 1..Len(s) PROVE NextKept(d \cup D, at(0, s, i - 1), s[i])
    BY DEF Chain
  <1>1. NextKept(d, at(0, s, i - 1), s[i]) /\ s[i] \notin D
    BY DEF Chain
  <1> QED BY <1>1 DEF NextKept

(* The parts of the wire are sequences of bytes.                           *)
LEMMA WireTyped ==
  ASSUME IInv
  PROVE  /\ live \in Seq(Bytes(frames)) /\ socket \o live \in Seq(Bytes(frames))
         /\ wire \in Seq(Bytes(frames))
  <1>1. /\ inbound \in Seq(Bytes(frames)) /\ socket \in Seq(Bytes(frames))
        /\ outbound \in Seq(Bytes(frames)) /\ outboundOffset \in 0..Len(outbound)
    BY DEF IInv, QueueInv, SocketInv, ReceiverInv, Queued
  <1>2. live \in Seq(Bytes(frames))
    BY <1>1, Halves DEF live
  <1> QED BY <1>1, <1>2, ConcatProperties DEF wire

-----------------------------------------------------------------------------
(* The steps of the sender. *)

(* A new frame goes on from where the wire ends.                           *)
LEMMA OnwardAppends ==
  ASSUME NEW fr \in Seq(AnyFrame), NEW f \in AnyFrame, NEW d, d \subseteq 1..Len(fr), NEW s,
         NEW w \in Seq(Bytes(fr)), NEW cut, ~cut, Onward(fr, d, s, w, cut)
  PROVE  Onward(Append(fr, f), d, s, w \o frameBytes(Len(fr) + 1, f.size), cut)
  <1> DEFINE g == Append(fr, f)
             v == frameBytes(Len(fr) + 1, f.size)
  <1>1. PICK a \in Cursors(fr) :
          /\ Complete(fr, a) /\ a[1] = EndOf(0, s) /\ Stream(fr, d, a, w)
          /\ Ended(fr, d, EndOf(a, w))
    BY DEF Onward
  <1>2. EndOf(a, w) \in Cursors(fr)
    <2>1. Len(w) \in 0..Len(w)
      BY LenProperties
    <2> QED BY <2>1, AtCursor DEF EndOf
  <1>3. /\ Bytes(fr) \subseteq Bytes(g) /\ a \in Cursors(g) /\ Complete(g, a) /\ Stream(g, d, a, w)
    BY <1>1, StreamAppends
  <1>4. /\ v \in Seq(Bytes(g)) /\ Stream(g, d, EndOf(a, w), v)
        /\ Ended(g, d, EndOf(EndOf(a, w), v))
    BY <1>1, <1>2, NewFrame
  <1>5. w \in Seq(Bytes(g))
    BY <1>3, SeqMonotonic
  <1> HIDE DEF g, v
  <1>6. Stream(g, d, a, w \o v) /\ EndOf(a, w \o v) = EndOf(EndOf(a, w), v)
    BY <1>3, <1>4, <1>5, StreamCat
  <1>7. Onward(g, d, s, w \o v, cut)
    BY <1>1, <1>3, <1>4, <1>6 DEF Onward
  <1> QED BY <1>7 DEF g, v

LEMMA SendKeeps ==
  ASSUME IInv, NEW p \in PeerIds, NEW size \in FrameSizes, Send(p, size)
  PROVE  IInv'
  <1> DEFINE f == [peer |-> p, size |-> size]
             g == Append(frames, f)
             S == Bytes(g)
             v == frameBytes(Len(frames) + 1, size)
             b == outbound \o v
  <1>1. /\ ~senderGone /\ ~isClosed /\ Len(frames) < MaxFrames /\ frames' = g /\ flushOutbound(b)
        /\ UNCHANGED <<gone, discarded, senderGone, receiverVars>>
    BY DEF Send
  <1>2. f \in AnyFrame /\ f.size = size
    BY DEF AnyFrame
  <1>3. frames \in Seq(AnyFrame) /\ discarded \subseteq 1..Len(frames) /\ Len(frames) \in Nat
    BY LenProperties DEF IInv, FramesInv
  <1>4. g \in Seq(AnyFrame) /\ Len(g) = Len(frames) + 1
    BY <1>2, <1>3, AppendProperties
  <1> HIDE DEF f
  <1>5. Onward(frames, discarded, delivered, wire, senderGone)
    BY <1>1 DEF IInv, WireInv
  <1>6. PICK a \in Cursors(frames) : Ended(frames, discarded, EndOf(a, wire))
    BY <1>1, <1>5 DEF Onward
  <1>7. EndOf(a, wire) \in Cursors(frames)
    <2>1. Len(wire) \in 0..Len(wire)
      BY WireTyped, LenProperties
    <2> QED BY <2>1, WireTyped, AtCursor DEF EndOf
  <1>8. v \in Seq(S) /\ Len(v) = size /\ v[1][2] = 1
    BY <1>2, <1>3, <1>6, <1>7, NewFrame
  <1>9. Bytes(frames) \subseteq S
    BY <1>2, <1>3, <1>6, EmptySeq, StreamAppends
  <1>10. outbound \in Seq(S) /\ socket \in Seq(S) /\ inbound \in Seq(S) /\ live \in Seq(S)
    BY <1>9, SeqMonotonic, WireTyped DEF IInv, QueueInv, SocketInv, ReceiverInv
  <1>11. Onward(g, discarded, delivered, wire \o v, senderGone)
    BY <1>1, <1>2, <1>3, <1>5, WireTyped, OnwardAppends
  <1> HIDE DEF g, S, v
  <1>12. b \in Seq(S) /\ Queued(b, outboundOffset, unstartedBoundary)
    <2>1. Queued(outbound, outboundOffset, unstartedBoundary)
      BY DEF IInv, QueueInv
    <2>2. /\ Len(outbound) \in Nat /\ Len(v) \in Nat \ {0} /\ b \in Seq(S)
          /\ Len(b) = Len(outbound) + Len(v)
          /\ \A i \in 1..(Len(outbound) + Len(v)) :
               b[i] = IF i <= Len(outbound) THEN outbound[i] ELSE v[i - Len(outbound)]
      BY <1>8, <1>10, LenProperties, ConcatProperties, FramesAssumption
    <2> HIDE DEF b
    <2>3. outboundOffset \in 0..Len(b) /\ unstartedBoundary \in 0..Len(b)
      BY <2>1, <2>2 DEF Queued
    <2>4. isHeader(b, unstartedBoundary + 1)
      <3>1. CASE unstartedBoundary < Len(outbound)
        <4>1. unstartedBoundary + 1 \in 1..(Len(outbound) + Len(v)) /\ unstartedBoundary + 1 <= Len(outbound)
          BY <2>1, <2>2, <3>1 DEF Queued
        <4>2. b[unstartedBoundary + 1] = outbound[unstartedBoundary + 1]
          BY <2>2, <4>1
        <4> QED BY <2>1, <3>1, <4>2 DEF Queued, isHeader
      <3>2. CASE ~(unstartedBoundary < Len(outbound))
        <4>1. /\ unstartedBoundary + 1 \in 1..(Len(outbound) + Len(v))
              /\ ~(unstartedBoundary + 1 <= Len(outbound)) /\ unstartedBoundary + 1 - Len(outbound) = 1
          BY <2>1, <2>2, <3>2 DEF Queued
        <4>2. PICK i \in 1..(Len(outbound) + Len(v)) : i = unstartedBoundary + 1
          BY <4>1
        <4>3. ~(i <= Len(outbound)) /\ i - Len(outbound) = 1
          BY <2>1, <2>2, <3>2, <4>2 DEF Queued
        <4>4. b[i] = v[i - Len(outbound)]
          BY <2>2, <4>3
        <4> QED BY <1>8, <4>2, <4>3, <4>4 DEF isHeader
      <3> QED BY <3>1, <3>2
    <2> QED BY <2>2, <2>3, <2>4 DEF Queued
  <1>13. drop(b, outboundOffset) = live \o v
    <2>1. outboundOffset \in 0..Len(outbound)
      BY DEF IInv, QueueInv, Queued
    <2> QED BY <1>8, <1>10, <2>1, DropCat DEF live
  <1> HIDE DEF b
  <1>14. /\ socket' \in Seq(S) /\ Len(socket') <= SocketRoom /\ outbound' \in Seq(S)
         /\ Queued(outbound', outboundOffset', unstartedBoundary') /\ isWriteArmed' \in BOOLEAN
         /\ socket' \o drop(outbound', outboundOffset') = socket \o drop(b, outboundOffset)
    <2>1. Len(socket) <= SocketRoom
      BY DEF IInv, SocketInv
    <2> QED BY <1>1, <1>10, <1>12, <2>1, FlushKeeps
  <1>15. wire' = wire \o v
    <2>1. wire' = inbound \o (socket \o (live \o v))
      BY <1>1, <1>13, <1>14 DEF wire, live, receiverVars
    <2>2. Regroups(inbound, socket, live, v)
      BY <1>8, <1>10, Regroup
    <2> QED BY <2>1, <2>2 DEF wire, Regroups
  <1>16. FramesInv'
    <2>1. Len(g) <= MaxFrames /\ discarded \subseteq 1..Len(g)
      <3>1. Len(frames) + 1 <= MaxFrames
        BY <1>1, <1>3, FramesAssumption
      <3>2. 1..Len(frames) \subseteq 1..(Len(frames) + 1)
        BY <1>3
      <3> QED BY <1>3, <1>4, <3>1, <3>2
    <2>2. gone \subseteq PeerIds
      BY DEF IInv, FramesInv
    <2> QED BY <1>1, <1>4, <2>1, <2>2 DEF FramesInv
  <1>17. QueueInv' /\ SocketInv'
    BY <1>1, <1>14 DEF QueueInv, SocketInv, S, IInv
  <1>18. ReceiverInv'
    BY <1>1, <1>10 DEF IInv, ReceiverInv, receiverVars, S
  <1>19. DeliveredInv'
    <2>1. 1..Len(frames) \subseteq 1..Len(g)
      BY <1>3, <1>4
    <2>2. delivered \in Seq(1..Len(g)) /\ Chain(discarded, delivered)
      BY <2>1, SeqMonotonic DEF IInv, DeliveredInv
    <2> QED BY <1>1, <2>2 DEF DeliveredInv, receiverVars
  <1>20. WireInv'
    BY <1>1, <1>11, <1>15 DEF WireInv, receiverVars
  <1> QED BY <1>16, <1>17, <1>18, <1>19, <1>20 DEF IInv

LEMMA WriteKeeps == ASSUME IInv, WriteSourceFires PROVE IInv'
  <1> DEFINE S == Bytes(frames)
  <1>1. /\ flushOutbound(outbound) /\ UNCHANGED <<frames, gone, discarded, senderGone, receiverVars>>
    BY DEF WriteSourceFires
  <1>2. /\ socket' \in Seq(S) /\ Len(socket') <= SocketRoom /\ outbound' \in Seq(S)
        /\ Queued(outbound', outboundOffset', unstartedBoundary') /\ isWriteArmed' \in BOOLEAN
        /\ socket' \o drop(outbound', outboundOffset') = socket \o drop(outbound, outboundOffset)
    <2>1. /\ outbound \in Seq(S) /\ socket \in Seq(S) /\ Len(socket) <= SocketRoom
          /\ Queued(outbound, outboundOffset, unstartedBoundary)
      BY DEF IInv, QueueInv, SocketInv
    <2> QED BY <1>1, <2>1, FlushKeeps
  <1>3. wire' = wire
    BY <1>1, <1>2 DEF wire, live, receiverVars
  <1>4. FramesInv' /\ ReceiverInv' /\ DeliveredInv'
    BY <1>1 DEF IInv, FramesInv, ReceiverInv, DeliveredInv, receiverVars
  <1>5. QueueInv' /\ SocketInv'
    BY <1>1, <1>2 DEF QueueInv, SocketInv, IInv
  <1>6. WireInv'
    BY <1>1, <1>3 DEF IInv, WireInv, receiverVars
  <1> QED BY <1>4, <1>5, <1>6 DEF IInv

(* Frames that have not begun to leave can be taken out: what is before    *)
(* them ends a frame, and what is left goes on from there.                 *)
LEMMA DiscardStream ==
  ASSUME NEW fr \in Seq(AnyFrame), NEW d, NEW s \in Seq(1..Len(fr)), Chain(d, s),
         NEW front \in Seq(Bytes(fr)), NEW rest \in Seq(Bytes(fr)),
         0 < Len(rest), isHeader(rest, 1),
         NEW cut, ~cut, Onward(fr, d, s, front \o rest, cut),
         NEW B, NEW D, \A i \in 1..Len(rest) : rest[i] \in B <=> rest[i][1] \in D,
         \A n \in D : \E i \in 1..Len(rest) : n = rest[i][1],
         NEW v, v = without(rest, B)
  PROVE  /\ v \in Seq(Bytes(fr)) /\ (0 < Len(v) => isHeader(v, 1))
         /\ D \subseteq 1..Len(fr) /\ Chain(d \cup D, s)
         /\ Onward(fr, d \cup D, s, front \o v, cut)
  <1>0. Len(fr) \in Nat /\ Len(rest) \in Nat /\ Len(front) \in Nat
    BY LenProperties
  <1>1. PICK a \in Cursors(fr) :
          /\ Complete(fr, a) /\ a[1] = EndOf(0, s) /\ Stream(fr, d, a, front \o rest)
          /\ Ended(fr, d, EndOf(a, front \o rest))
    BY DEF Onward
  <1> DEFINE e == EndOf(a, front)
  <1>2. /\ Stream(fr, d, a, front) /\ Stream(fr, d, e, rest)
        /\ EndOf(a, front \o rest) = EndOf(e, rest)
    BY <1>1, StreamCat
  <1>3. e \in Cursors(fr)
    <2>1. Len(front) \in 0..Len(front)
      BY <1>0
    <2> QED BY <2>1, AtCursor DEF EndOf
  <1>4. Complete(fr, e)
    <2>1. 0 \in 0..Len(rest) /\ 0 + 1 = 1 /\ at(e, rest, 0) = e
      BY <1>0 DEF at
    <2> HIDE DEF e
    <2> QED BY <1>2, <1>3, <2>1, HeaderAfterEnd
  <1>5. \A i \in 1..Len(rest) : e[1] < rest[i][1]
    <2> HIDE DEF e
    <2> QED BY <1>2, <1>3, <1>4, StreamRises
  <1>6. e[1] \in 0..Len(fr) /\ a[1] \in 0..Len(fr)
    <2> HIDE DEF e
    <2> QED BY <1>1, <1>3, CursorParts
  <1>7. D \subseteq 1..Len(fr) /\ \A n \in D : e[1] < n
    <2>1. \A i \in 1..Len(rest) : rest[i][1] \in 1..Len(fr)
      <3>1. \A i \in 1..Len(rest) : rest[i] \in Bytes(fr)
        BY ElementOfSeq
      <3> QED BY <3>1 DEF Bytes
    <2> HIDE DEF e
    <2> QED BY <1>5, <2>1
  <1>8. e[1] \notin D
    <2> HIDE DEF e
    <2> QED BY <1>6, <1>7
  <1>9. a[1] <= e[1] /\ \A i \in 1..Len(front) : front[i][1] \notin D
    <2>1. /\ \A i \in 0..Len(front) : at(a, front, i)[1] \in Nat
          /\ \A j \in 0..Len(front) : \A i \in 0..j : at(a, front, i)[1] <= at(a, front, j)[1]
      BY <1>1, <1>2, StreamRises
    <2>2. Len(front) \in 0..Len(front) /\ 0 \in 0..Len(front) /\ e = at(a, front, Len(front))
      BY <1>0 DEF EndOf
    <2>3. at(a, front, 0) = a
      BY DEF at
    <2>4. ASSUME NEW i \in 1..Len(front) PROVE front[i][1] \notin D
      <3>1. i \in 0..Len(front) /\ at(a, front, i) = front[i]
        BY <1>0 DEF at
      <3>2. front[i][1] \in Nat /\ front[i][1] <= e[1]
        BY <2>1, <2>2, <3>1
      <3> HIDE DEF e
      <3> QED BY <1>6, <1>7, <3>2
    <2> QED BY <2>1, <2>2, <2>3, <2>4
  <1>10. \A i \in 1..Len(s) : s[i] \notin D
    <2>1. \A i \in 1..Len(s) : s[i] \in 1..Len(fr) /\ s[i] <= EndOf(0, s)
      BY <1>0, ChainRises, ElementOfSeq
    <2> HIDE DEF e
    <2> QED BY <1>1, <1>6, <1>7, <1>9, <2>1
  <1> HIDE DEF e
  <1>11. /\ v \in Seq(Bytes(fr)) /\ Stream(fr, d \cup D, e, v)
         /\ Ended(fr, d, EndOf(e, rest)) => Ended(fr, d \cup D, EndOf(e, v))
    BY <1>2, <1>3, <1>4, <1>8, StreamWithout
  <1>12. Stream(fr, d \cup D, a, front)
    BY <1>2, <1>9, StreamDiscards
  <1>13. Stream(fr, d \cup D, a, front \o v) /\ EndOf(a, front \o v) = EndOf(e, v)
    BY <1>11, <1>12, StreamCat DEF e
  <1>14. Chain(d \cup D, s)
    BY <1>10, ChainDiscards
  <1>15. ASSUME 0 < Len(v) PROVE isHeader(v, 1)
    <2>1. 0 \in 0..Len(v) /\ 0 + 1 = 1 /\ at(e, v, 0) = e
      BY <1>11, LenProperties DEF at
    <2> QED BY <1>3, <1>4, <1>11, <1>15, <2>1, HeaderAfterEnd
  <1>16. Onward(fr, d \cup D, s, front \o v, cut)
    BY <1>1, <1>2, <1>11, <1>13 DEF Onward
  <1> QED BY <1>7, <1>11, <1>14, <1>15, <1>16

LEMMA DiscardKeeps ==
  ASSUME IInv, NEW p \in PeerIds, DiscardQueuedFrames(p)
  PROVE  IInv'
  <1> DEFINE S == Bytes(frames)
             o == outboundOffset
             boundary == advanced(outbound, o, unstartedBoundary)
             first == SubSeq(outbound, 1, boundary)
             rest == drop(outbound, boundary)
             dropped == {rest[i] : i \in {j \in 1..Len(rest) : frames[rest[j][1]].peer = p}}
             v == without(rest, dropped)
             left == first \o v
             D == {b[1] : b \in dropped}
  <1>1. /\ ~senderGone /\ ~isClosed /\ gone' = gone \cup {p}
        /\ UNCHANGED <<frames, socket, senderGone, receiverVars>>
    BY DEF DiscardQueuedFrames
  <1>2. /\ frames \in Seq(AnyFrame) /\ Len(frames) \in Nat /\ discarded \subseteq 1..Len(frames)
        /\ outbound \in Seq(S) /\ socket \in Seq(S) /\ inbound \in Seq(S) /\ Len(outbound) \in Nat
        /\ Queued(outbound, o, unstartedBoundary)
        /\ delivered \in Seq(1..Len(frames)) /\ Chain(discarded, delivered)
        /\ Onward(frames, discarded, delivered, wire, senderGone)
    BY <1>1, LenProperties DEF IInv, FramesInv, QueueInv, SocketInv, ReceiverInv, DeliveredInv, WireInv
  <1>3. o \in 0..Len(outbound) /\ unstartedBoundary \in 0..Len(outbound)
    BY <1>2 DEF Queued
  <1>4. /\ boundary \in o..Len(outbound) /\ boundary \in 0..Len(outbound)
        /\ boundary < Len(outbound) => isHeader(outbound, boundary + 1)
    BY <1>2, <1>3, AdvancedFinds DEF Queued
  <1>5. SocketInv' /\ ReceiverInv'
    BY <1>1 DEF IInv, SocketInv, ReceiverInv, receiverVars
  <1>6. gone' \subseteq PeerIds /\ frames' \in Seq(AnyFrame) /\ Len(frames') <= MaxFrames
    BY <1>1 DEF IInv, FramesInv
  <1>7. CASE o = Len(outbound) \/ boundary >= Len(outbound)
    <2>1. /\ unstartedBoundary' = IF o = Len(outbound) THEN unstartedBoundary ELSE boundary
          /\ UNCHANGED <<outbound, outboundOffset, isWriteArmed, discarded>>
      BY <1>7 DEF DiscardQueuedFrames
    <2> HIDE DEF boundary
    <2>2. Queued(outbound, o, unstartedBoundary')
      BY <1>2, <1>3, <1>4, <2>1 DEF Queued
    <2>3. QueueInv'
      BY <1>1, <2>1, <2>2 DEF IInv, QueueInv
    <2>4. FramesInv' /\ DeliveredInv'
      BY <1>1, <1>2, <1>6, <2>1 DEF FramesInv, DeliveredInv, receiverVars
    <2>5. wire' = wire
      BY <1>1, <2>1 DEF wire, live, receiverVars
    <2>6. WireInv'
      BY <1>1, <1>2, <2>1, <2>5 DEF WireInv, receiverVars
    <2> QED BY <1>5, <2>3, <2>4, <2>6 DEF IInv
  <1>8. CASE ~(o = Len(outbound) \/ boundary >= Len(outbound))
    <2>1. /\ discarded' = discarded \cup D
          /\ IF o = Len(left)
                THEN /\ outbound' = <<>> /\ outboundOffset' = 0
                     /\ unstartedBoundary' = 0 /\ isWriteArmed' = FALSE
                ELSE /\ outbound' = left /\ unstartedBoundary' = boundary
                     /\ UNCHANGED <<outboundOffset, isWriteArmed>>
      BY <1>8 DEF DiscardQueuedFrames
    <2>2. /\ \A i \in 1..Len(rest) : rest[i] \in dropped <=> rest[i][1] \in D
          /\ \A n \in D : \E i \in 1..Len(rest) : n = rest[i][1]
      OBVIOUS
    <2> HIDE DEF boundary
    <2>3. /\ first \in Seq(S) /\ Len(first) = boundary /\ rest \in Seq(S)
          /\ Len(rest) = Len(outbound) - boundary /\ first \o rest = outbound
          /\ \A i \in 1..(Len(outbound) - boundary) : rest[i] = outbound[boundary + i]
      BY <1>2, <1>4, Halves
    <2> DEFINE ready == drop(first, o)
               front == inbound \o (socket \o ready)
    <2> HIDE DEF first, rest, dropped, D
    <2>4. 0 < Len(rest) /\ isHeader(rest, 1)
      <3>1. 1 \in 1..(Len(outbound) - boundary) /\ boundary < Len(outbound)
        BY <1>2, <1>4, <1>8
      <3>2. rest[1] = outbound[boundary + 1]
        BY <2>3, <3>1
      <3> QED BY <1>2, <1>4, <2>3, <3>1, <3>2 DEF isHeader
    <2>5. o \in 0..Len(first)
      BY <1>2, <1>3, <1>4, <2>3
    <2>6. ready \in Seq(S) /\ live = ready \o rest
      BY <2>3, <2>5, DropCat DEF live
    <2> HIDE DEF ready
    <2>7. front \in Seq(S) /\ wire = front \o rest
      <3>1. Regroups(inbound, socket, ready, rest) /\ front \in Seq(S)
        BY <1>2, <2>3, <2>6, Regroup
      <3> QED BY <2>6, <3>1 DEF Regroups, wire
    <2>8. Onward(frames, discarded, delivered, front \o rest, senderGone)
      BY <1>2, <2>7
    <2> HIDE DEF front
    <2>9. /\ v \in Seq(S) /\ (0 < Len(v) => isHeader(v, 1))
          /\ D \subseteq 1..Len(frames) /\ Chain(discarded \cup D, delivered)
          /\ Onward(frames, discarded \cup D, delivered, front \o v, senderGone)
      BY <1>1, <1>2, <2>2, <2>3, <2>4, <2>7, <2>8, DiscardStream
    <2> HIDE DEF v
    <2>10. left \in Seq(S) /\ drop(left, o) = ready \o v
      BY <2>3, <2>5, <2>9, DropCat, ConcatProperties DEF ready
    <2>11. drop(outbound', outboundOffset') = ready \o v
      <3>1. CASE o = Len(left)
        <4>1. drop(left, o) = <<>> /\ drop(<<>>, 0) = <<>>
          BY <2>10, <3>1, DropEnds
        <4> QED BY <2>1, <2>10, <3>1, <4>1
      <3>2. CASE o # Len(left)
        BY <2>1, <2>10, <3>2
      <3> QED BY <3>1, <3>2
    <2>12. Queued(left, o, boundary)
      <3>1. /\ Len(v) \in Nat /\ Len(left) = boundary + Len(v)
            /\ \A i \in 1..(boundary + Len(v)) :
                 left[i] = IF i <= boundary THEN first[i] ELSE v[i - boundary]
        BY <2>3, <2>9, LenProperties, ConcatProperties
      <3> HIDE DEF left
      <3>2. o \in 0..Len(left) /\ boundary \in 0..Len(left)
        BY <1>2, <1>3, <1>4, <3>1
      <3>3. ASSUME boundary < Len(left) PROVE isHeader(left, boundary + 1)
        <4>1. PICK i \in 1..(boundary + Len(v)) : i = boundary + 1
          BY <1>2, <1>4, <3>1, <3>3
        <4>2. ~(i <= boundary) /\ i - boundary = 1 /\ 0 < Len(v)
          BY <1>2, <1>4, <3>1, <3>3, <4>1
        <4>3. left[i] = v[i - boundary]
          BY <3>1, <4>2
        <4> QED BY <2>9, <4>1, <4>2, <4>3 DEF isHeader
      <3> QED BY <3>2, <3>3 DEF Queued
    <2>13. QueueInv'
      <3>1. CASE o = Len(left)
        <4>1. <<>> \in Seq(S) /\ Queued(<<>>, 0, 0)
          BY EmptySeq DEF Queued
        <4> QED BY <1>1, <2>1, <3>1, <4>1 DEF QueueInv
      <3>2. CASE o # Len(left)
        <4>1. isWriteArmed \in BOOLEAN
          BY DEF IInv, QueueInv
        <4> QED BY <1>1, <2>1, <2>10, <2>12, <3>2, <4>1 DEF QueueInv
      <3> QED BY <3>1, <3>2
    <2>14. FramesInv' /\ DeliveredInv'
      BY <1>1, <1>2, <1>6, <2>1, <2>9 DEF FramesInv, DeliveredInv, receiverVars
    <2>15. wire' = front \o v
      <3>1. wire' = inbound \o (socket \o (ready \o v))
        BY <1>1, <2>11 DEF wire, live, receiverVars
      <3>2. Regroups(inbound, socket, ready, v)
        BY <1>2, <2>6, <2>9, Regroup
      <3> QED BY <3>1, <3>2 DEF Regroups, front
    <2>16. WireInv'
      BY <1>1, <2>1, <2>9, <2>15 DEF WireInv, receiverVars
    <2> QED BY <1>5, <2>13, <2>14, <2>16 DEF IInv
  <1> QED BY <1>7, <1>8

LEMMA SenderClosesKeeps == ASSUME IInv, SenderCloses PROVE IInv'
  <1>1. /\ senderGone' = TRUE /\ outbound' = <<>> /\ outboundOffset' = 0 /\ unstartedBoundary' = 0
        /\ isWriteArmed' = FALSE /\ UNCHANGED <<frames, gone, discarded, socket, receiverVars>>
    BY DEF SenderCloses
  <1>2. FramesInv' /\ ReceiverInv' /\ DeliveredInv' /\ SocketInv'
    BY <1>1 DEF IInv, FramesInv, ReceiverInv, DeliveredInv, SocketInv, receiverVars
  <1>3. QueueInv'
    <2>1. <<>> \in Seq(Bytes(frames)) /\ Queued(<<>>, 0, 0)
      BY EmptySeq DEF Queued
    <2> QED BY <1>1, <2>1 DEF QueueInv
  <1>4. ASSUME ~isClosed PROVE Onward(frames, discarded, delivered, wire', TRUE)
    <2>1. inbound \in Seq(Bytes(frames)) /\ socket \in Seq(Bytes(frames))
      BY DEF IInv, SocketInv, ReceiverInv
    <2>2. wire' = inbound \o socket
      <3>1. wire' = inbound \o (socket \o drop(<<>>, 0))
        BY <1>1 DEF wire, live, receiverVars
      <3>2. drop(<<>>, 0) = <<>> /\ socket \o <<>> = socket
        BY <2>1, DropEnds, ConcatEmptySeq
      <3> QED BY <3>1, <3>2
    <2>3. wire = (inbound \o socket) \o live /\ inbound \o socket \in Seq(Bytes(frames))
      BY <2>1, WireTyped, ConcatAssociative, ConcatProperties DEF wire
    <2>4. PICK a \in Cursors(frames) :
            /\ Complete(frames, a) /\ a[1] = EndOf(0, delivered)
            /\ Stream(frames, discarded, a, wire)
      BY <1>4 DEF IInv, WireInv, Onward
    <2>5. Stream(frames, discarded, a, inbound \o socket)
      BY <2>3, <2>4, WireTyped, StreamCat
    <2> QED BY <2>2, <2>4, <2>5 DEF Onward
  <1>5. WireInv'
    BY <1>1, <1>4 DEF WireInv, receiverVars
  <1> QED BY <1>2, <1>3, <1>5 DEF IInv

-----------------------------------------------------------------------------
(* The steps of the receiver. *)

(* What follows the j frames handed over goes on from the last of them.    *)
LEMMA OnwardAfter ==
  ASSUME frames \in Seq(AnyFrame), NEW w \in Seq(Bytes(frames)), NEW x \in Seq(Bytes(frames)),
         NEW d, NEW a \in Cursors(frames), NEW c \in 0..Len(w), NEW e, e = at(a, w, c),
         Stream(frames, d, a, w \o x)
  PROVE  /\ Stream(frames, d, e, drop(w, c) \o x) /\ drop(w, c) \in Seq(Bytes(frames))
         /\ EndOf(e, drop(w, c) \o x) = EndOf(a, w \o x)
  <1> DEFINE u == SubSeq(w, 1, c)
             v == drop(w, c)
             z == v \o x
  <1>1. /\ u \in Seq(Bytes(frames)) /\ Len(u) = c /\ v \in Seq(Bytes(frames)) /\ u \o v = w
        /\ \A i \in 1..c : u[i] = w[i]
    BY Halves
  <1> HIDE DEF u, v
  <1>2. z \in Seq(Bytes(frames)) /\ w \o x = u \o z
    <2>1. u \in Seq(Bytes(frames)) /\ v \in Seq(Bytes(frames))
      BY <1>1
    <2>2. (u \o v) \o x = u \o (v \o x)
      BY <2>1, ConcatAssociative
    <2>3. z \in Seq(Bytes(frames))
      BY <2>1, ConcatProperties
    <2> QED BY <1>1, <2>2, <2>3
  <1> HIDE DEF z
  <1>3. Stream(frames, d, EndOf(a, u), z) /\ EndOf(a, w \o x) = EndOf(EndOf(a, u), z)
    <2>1. u \in Seq(Bytes(frames)) /\ Stream(frames, d, a, u \o z)
      BY <1>1, <1>2
    <2>2. z \in Seq(Bytes(frames))
      BY <1>2
    <2>3. Joins(frames, d, a, u, z)
      BY <2>1, <2>2, StreamCat
    <2> QED BY <1>2, <2>1, <2>3 DEF Joins
  <1>4. EndOf(a, u) = e
    <2>1. Len(w) \in Nat
      BY LenProperties
    <2>2. c # 0 => c \in 1..c
      BY <2>1
    <2>3. at(a, u, c) = at(a, w, c)
      BY <1>1, <2>2 DEF at
    <2> QED BY <1>1, <2>3 DEF EndOf
  <1> QED BY <1>1, <1>3, <1>4 DEF z, v

(* Dispatching hands over frames that go on from those before, never meets *)
(* anything but a header where one must be, and leaves the rest in order.  *)
LEMMA DispatchKeeps ==
  ASSUME frames \in Seq(AnyFrame), delivered \in Seq(1..Len(frames)), Chain(discarded, delivered),
         isReadSuspended \in BOOLEAN,
         NEW w \in Seq(Bytes(frames)), NEW x \in Seq(Bytes(frames)), NEW cut,
         Onward(frames, discarded, delivered, w \o x, cut), dispatchCompleteFrames(w)
  PROVE  /\ delivered' \in Seq(1..Len(frames)) /\ Chain(discarded, delivered')
         /\ inbound' \in Seq(Bytes(frames)) /\ isReadSuspended' \in BOOLEAN
         /\ isClosed' = isClosed /\ trapped' = trapped /\ malformed' = malformed
         /\ Onward(frames, discarded, delivered', inbound' \o x, cut)
  <1> DEFINE all == Cardinality(wholeFrames(w))
             rest == cuts(w)[all]
  <1>1. PICK a \in Cursors(frames) :
          /\ Complete(frames, a) /\ a[1] = EndOf(0, delivered) /\ Stream(frames, discarded, a, w \o x)
          /\ cut \/ Ended(frames, discarded, EndOf(a, w \o x))
    BY DEF Onward
  <1>2. Stream(frames, discarded, a, w)
    BY <1>1, StreamCat
  <1>3. all \in 0..Len(w) /\ rest \in 0..Len(w)
    BY WholeFirst, CutsStep
  <1>4. rest < Len(w) => isHeader(w, rest + 1)
    <2>1. Complete(frames, at(a, w, rest))
      BY <1>1, <1>2, <1>3, CutsAtEnds
    <2> HIDE DEF rest
    <2> QED BY <1>2, <1>3, <2>1, HeaderAfterEnd
  <1>5. CASE /\ all = 0 /\ inbound' = w
             /\ UNCHANGED <<isReadSuspended, isClosed, trapped, malformed, delivered>>
    BY <1>5
  <1>6. CASE \E j \in 1..all, pauses \in BOOLEAN :
               /\ isReadSuspended' = pauses /\ delivered' = delivered \o handedOver(w, j)
               /\ inbound' = drop(w, consumed(w, j)) /\ UNCHANGED <<isClosed, trapped, malformed>>
    <2>1. PICK j \in 1..all :
            /\ isReadSuspended' \in BOOLEAN /\ delivered' = delivered \o handedOver(w, j)
            /\ inbound' = drop(w, consumed(w, j)) /\ UNCHANGED <<isClosed, trapped, malformed>>
      BY <1>6
    <2>2. j \in 0..all
      <3>1. Len(w) \in Nat
        BY LenProperties
      <3> HIDE DEF all
      <3> QED BY <1>3, <3>1
    <2> DEFINE c == cuts(w)[j]
               e == at(a, w, c)
    <2>3. /\ delivered' \in Seq(1..Len(frames)) /\ Chain(discarded, delivered')
          /\ c \in 0..Len(w) /\ e \in Cursors(frames) /\ Complete(frames, e)
          /\ EndOf(0, delivered') = e[1]
      <3>1. PICK t : t = delivered \o handedOver(w, j)
        OBVIOUS
      <3>2. EndOf(0, delivered) = a[1] /\ Complete(frames, a)
        BY <1>1
      <3>3. /\ t \in Seq(1..Len(frames)) /\ Chain(discarded, t)
            /\ c \in 0..Len(w) /\ e \in Cursors(frames) /\ Complete(frames, e)
            /\ EndOf(0, t) = e[1]
        <4>1. Lands(w, discarded, a, delivered, j, t)
          BY <1>2, <2>2, <3>1, <3>2, HandsOver
        <4> QED BY <4>1 DEF Lands
      <3> QED BY <2>1, <3>1, <3>3
    <2> HIDE DEF c
    <2>4. /\ Stream(frames, discarded, e, drop(w, c) \o x) /\ drop(w, c) \in Seq(Bytes(frames))
          /\ EndOf(e, drop(w, c) \o x) = EndOf(a, w \o x)
      BY <1>1, <2>3, OnwardAfter
    <2>5. inbound' = drop(w, c)
      BY <2>1 DEF c, consumed
    <2> HIDE DEF e
    <2>6. Onward(frames, discarded, delivered', inbound' \o x, cut)
      BY <1>1, <2>3, <2>4, <2>5 DEF Onward
    <2> QED BY <2>1, <2>3, <2>4, <2>5, <2>6
  <1> QED BY <1>4, <1>5, <1>6 DEF dispatchCompleteFrames

(* A dispatch of the bytes w, with x behind them, keeps the receiver's     *)
(* part of the invariant.                                                  *)
LEMMA Dispatched ==
  ASSUME IInv, ~isClosed, NEW w \in Seq(Bytes(frames)), NEW x \in Seq(Bytes(frames)),
         wire = w \o x, dispatchCompleteFrames(w), redispatch' \in BOOLEAN,
         UNCHANGED <<senderVars, senderGone>>, wire' = inbound' \o x
  PROVE  FramesInv' /\ QueueInv' /\ ReceiverInv' /\ DeliveredInv' /\ WireInv'
  <1>1. /\ frames \in Seq(AnyFrame) /\ delivered \in Seq(1..Len(frames))
        /\ Chain(discarded, delivered)
        /\ isReadSuspended \in BOOLEAN /\ isClosed \in BOOLEAN /\ trapped \in BOOLEAN
        /\ malformed = FALSE
    BY DEF IInv, FramesInv, ReceiverInv, DeliveredInv
  <1>2. Onward(frames, discarded, delivered, w \o x, senderGone)
    BY DEF IInv, WireInv
  <1>3. /\ delivered' \in Seq(1..Len(frames)) /\ Chain(discarded, delivered')
        /\ inbound' \in Seq(Bytes(frames)) /\ isReadSuspended' \in BOOLEAN
        /\ isClosed' = isClosed /\ trapped' = trapped /\ malformed' = malformed
        /\ Onward(frames, discarded, delivered', inbound' \o x, senderGone)
    BY <1>1, <1>2, DispatchKeeps
  <1>4. frames' = frames /\ discarded' = discarded /\ senderGone' = senderGone
    BY DEF senderVars
  <1>5. FramesInv' /\ QueueInv'
    BY DEF IInv, FramesInv, QueueInv, senderVars
  <1>6. ReceiverInv'
    BY <1>1, <1>3, <1>4 DEF ReceiverInv
  <1>7. DeliveredInv'
    BY <1>3, <1>4 DEF DeliveredInv
  <1>8. WireInv'
    BY <1>3, <1>4 DEF WireInv
  <1> QED BY <1>5, <1>6, <1>7, <1>8

(* What a read takes from the socket and what it leaves there.             *)
LEMMA ReadParts ==
  ASSUME IInv, NEW k \in 1..Len(socket),
         NEW w, w = inbound \o SubSeq(socket, 1, k), NEW x, x = drop(socket, k) \o live
  PROVE  /\ w \in Seq(Bytes(frames)) /\ x \in Seq(Bytes(frames)) /\ wire = w \o x
         /\ drop(socket, k) \in Seq(Bytes(frames)) /\ Len(drop(socket, k)) <= SocketRoom
  <1> DEFINE S == Bytes(frames)
             u == SubSeq(socket, 1, k)
             v == drop(socket, k)
  <1>1. /\ socket \in Seq(S) /\ Len(socket) <= SocketRoom /\ inbound \in Seq(S)
        /\ live \in Seq(S) /\ SocketRoom \in Nat /\ Len(socket) \in Nat
    BY WireTyped, LenProperties, FramesAssumption DEF IInv, SocketInv, ReceiverInv
  <1>2. k \in 0..Len(socket)
    BY <1>1
  <1>3. /\ u \in Seq(S) /\ v \in Seq(S) /\ u \o v = socket /\ Len(v) = Len(socket) - k
    BY <1>1, <1>2, Halves
  <1>4. Len(v) <= SocketRoom
    BY <1>1, <1>2, <1>3
  <1> HIDE DEF u, v, S
  <1>5. w \in Seq(S) /\ x \in Seq(S)
    BY <1>1, <1>3, ConcatProperties DEF u, v
  <1>6. Associates(u, v, live) /\ Associates(inbound, u, x)
    BY <1>1, <1>3, <1>5, Associativity
  <1>7. x = v \o live /\ w = inbound \o u
    BY DEF u, v
  <1>8. wire = w \o x
    BY <1>3, <1>6, <1>7 DEF wire, Associates
  <1> QED BY <1>3, <1>4, <1>5, <1>8 DEF S, v

LEMMA ReadKeeps == ASSUME IInv, ReadAvailable PROVE IInv'
  <1>1. PICK k \in 1..Len(socket) :
          dispatchCompleteFrames(inbound \o SubSeq(socket, 1, k)) /\ socket' = drop(socket, k)
    BY DEF ReadAvailable
  <1>2. ~isClosed /\ UNCHANGED <<senderVars, senderGone, redispatch>>
    BY DEF ReadAvailable
  <1>3. PICK w : w = inbound \o SubSeq(socket, 1, k)
    OBVIOUS
  <1>4. PICK x : x = drop(socket, k) \o live
    OBVIOUS
  <1>5. /\ w \in Seq(Bytes(frames)) /\ x \in Seq(Bytes(frames)) /\ wire = w \o x
        /\ socket' \in Seq(Bytes(frames)) /\ Len(socket') <= SocketRoom
    BY <1>1, <1>3, <1>4, ReadParts
  <1>6. dispatchCompleteFrames(w)
    BY <1>1, <1>3
  <1>7. redispatch' \in BOOLEAN
    BY <1>2 DEF IInv, ReceiverInv
  <1>8. wire' = inbound' \o x
    BY <1>1, <1>2, <1>4 DEF wire, live, senderVars
  <1>9. FramesInv' /\ QueueInv' /\ ReceiverInv' /\ DeliveredInv' /\ WireInv'
    BY <1>2, <1>5, <1>6, <1>7, <1>8, Dispatched
  <1>10. SocketInv'
    BY <1>2, <1>5 DEF IInv, SocketInv, senderVars
  <1> QED BY <1>9, <1>10 DEF IInv

LEMMA RedispatchKeeps == ASSUME IInv, Redispatch PROVE IInv'
  <1>1. redispatch' = FALSE /\ UNCHANGED <<senderVars, socket, senderGone>>
    BY DEF Redispatch
  <1>2. SocketInv'
    BY <1>1 DEF IInv, SocketInv, senderVars
  <1>3. CASE isClosed \/ isReadSuspended
    <2>1. UNCHANGED <<inbound, isReadSuspended, isClosed, trapped, malformed, delivered>>
      BY <1>3 DEF Redispatch
    <2>2. wire' = wire
      BY <1>1, <2>1 DEF wire, live, senderVars
    <2>3. FramesInv' /\ QueueInv'
      BY <1>1 DEF IInv, FramesInv, QueueInv, senderVars
    <2>4. ReceiverInv' /\ DeliveredInv'
      BY <1>1, <2>1 DEF IInv, ReceiverInv, DeliveredInv, senderVars
    <2>5. WireInv'
      BY <1>1, <2>1, <2>2 DEF IInv, WireInv, senderVars
    <2> QED BY <1>2, <2>3, <2>4, <2>5 DEF IInv
  <1>4. CASE ~(isClosed \/ isReadSuspended)
    <2>1. dispatchCompleteFrames(inbound)
      BY <1>4 DEF Redispatch
    <2>2. PICK x : x = socket \o live
      OBVIOUS
    <2>3. inbound \in Seq(Bytes(frames)) /\ x \in Seq(Bytes(frames)) /\ wire = inbound \o x
      BY <2>2, WireTyped DEF IInv, ReceiverInv, wire
    <2>4. wire' = inbound' \o x
      BY <1>1, <2>2 DEF wire, live, senderVars
    <2>5. FramesInv' /\ QueueInv' /\ ReceiverInv' /\ DeliveredInv' /\ WireInv'
      BY <1>1, <1>4, <2>1, <2>3, <2>4, Dispatched
    <2> QED BY <1>2, <2>5 DEF IInv
  <1> QED BY <1>3, <1>4

(* What was handed over before the link closed is in order as well.        *)
LEMMA HandlerKeeps == ASSUME IInv, HandlerSendsToGone PROVE IInv'
  <1>1. /\ ~isClosed /\ isClosed' = TRUE /\ inbound' = <<>>
        /\ UNCHANGED <<senderVars, senderGone, isReadSuspended, redispatch, malformed>>
    BY DEF HandlerSendsToGone
  <1>2. PICK k \in 1..Len(socket) :
          /\ \E j \in 1..Cardinality(wholeFrames(inbound \o SubSeq(socket, 1, k))) :
               /\ delivered' = delivered \o handedOver(inbound \o SubSeq(socket, 1, k), j)
               /\ trapped' \in BOOLEAN
          /\ socket' = drop(socket, k)
    BY DEF HandlerSendsToGone, removeFirstTraps
  <1>3. PICK w : w = inbound \o SubSeq(socket, 1, k)
    OBVIOUS
  <1>4. PICK j \in 1..Cardinality(wholeFrames(w)) :
          delivered' = delivered \o handedOver(w, j) /\ trapped' \in BOOLEAN
    BY <1>2, <1>3
  <1>5. PICK x : x = drop(socket, k) \o live
    OBVIOUS
  <1>6. /\ w \in Seq(Bytes(frames)) /\ x \in Seq(Bytes(frames)) /\ wire = w \o x
        /\ socket' \in Seq(Bytes(frames)) /\ Len(socket') <= SocketRoom
    BY <1>2, <1>3, <1>5, ReadParts
  <1>7. frames \in Seq(AnyFrame) /\ delivered \in Seq(1..Len(frames)) /\ Chain(discarded, delivered)
    BY DEF IInv, FramesInv, DeliveredInv
  <1>8. PICK a \in Cursors(frames) :
          /\ Complete(frames, a) /\ EndOf(0, delivered) = a[1] /\ Stream(frames, discarded, a, w \o x)
    BY <1>1, <1>6 DEF IInv, WireInv, Onward
  <1>9. Stream(frames, discarded, a, w)
    BY <1>6, <1>8, StreamCat
  <1>10. delivered' \in Seq(1..Len(frames)) /\ Chain(discarded, delivered')
    <2>1. Cardinality(wholeFrames(w)) \in 0..Len(w) /\ Len(w) \in Nat
      BY <1>6, <1>7, WholeFirst, LenProperties
    <2>2. j \in 0..Cardinality(wholeFrames(w))
      BY <2>1
    <2>3. PICK t : t = delivered \o handedOver(w, j)
      OBVIOUS
    <2>4. Lands(w, discarded, a, delivered, j, t)
      BY <1>6, <1>7, <1>8, <1>9, <2>2, <2>3, HandsOver
    <2> QED BY <1>4, <2>3, <2>4 DEF Lands
  <1>11. FramesInv' /\ QueueInv'
    BY <1>1 DEF IInv, FramesInv, QueueInv, senderVars
  <1>12. SocketInv' /\ DeliveredInv' /\ WireInv'
    BY <1>1, <1>6, <1>10 DEF IInv, SocketInv, DeliveredInv, WireInv, senderVars
  <1>13. ReceiverInv'
    BY <1>1, <1>4, EmptySeq DEF IInv, ReceiverInv, senderVars
  <1> QED BY <1>11, <1>12, <1>13 DEF IInv

LEMMA EOFKeeps == ASSUME IInv, ReadEOF PROVE IInv'
  <1>1. /\ isClosed' = TRUE /\ inbound' = <<>>
        /\ UNCHANGED <<senderVars, socket, senderGone, isReadSuspended, redispatch, trapped,
                       malformed, delivered>>
    BY DEF ReadEOF
  <1>2. FramesInv' /\ QueueInv' /\ SocketInv' /\ DeliveredInv' /\ WireInv'
    BY <1>1 DEF IInv, FramesInv, QueueInv, SocketInv, DeliveredInv, WireInv, senderVars
  <1>3. ReceiverInv'
    BY <1>1, EmptySeq DEF IInv, ReceiverInv, senderVars
  <1> QED BY <1>2, <1>3 DEF IInv

LEMMA ResumeKeeps == ASSUME IInv, ResumeReading PROVE IInv'
  <1>1. /\ isReadSuspended' = FALSE /\ redispatch' = TRUE
        /\ UNCHANGED <<senderVars, socket, senderGone, inbound, isClosed, trapped, malformed, delivered>>
    BY DEF ResumeReading
  <1>2. wire' = wire
    BY <1>1 DEF wire, live, senderVars
  <1>3. FramesInv' /\ QueueInv' /\ SocketInv' /\ DeliveredInv' /\ WireInv'
    BY <1>1, <1>2 DEF IInv, FramesInv, QueueInv, SocketInv, DeliveredInv, WireInv, senderVars
  <1>4. ReceiverInv'
    BY <1>1 DEF IInv, ReceiverInv, senderVars
  <1> QED BY <1>3, <1>4 DEF IInv

LEMMA StutterKeeps == ASSUME IInv, UNCHANGED vars PROVE IInv'
  <1>1. wire' = wire
    BY DEF wire, live, vars, senderVars, receiverVars
  <1>2. FramesInv' /\ QueueInv' /\ SocketInv' /\ DeliveredInv' /\ ReceiverInv'
    BY DEF IInv, FramesInv, QueueInv, SocketInv, DeliveredInv, ReceiverInv, vars, senderVars,
           receiverVars
  <1>3. WireInv'
    BY <1>1 DEF IInv, WireInv, vars, senderVars, receiverVars
  <1> QED BY <1>2, <1>3 DEF IInv

LEMMA InitHolds == ASSUME Init PROVE IInv
  <1>1. /\ frames = <<>> /\ outbound = <<>> /\ socket = <<>> /\ inbound = <<>> /\ delivered = <<>>
        /\ outboundOffset = 0 /\ unstartedBoundary = 0 /\ gone = {} /\ discarded = {}
    BY DEF Init
  <1>2. Len(<<>>) = 0 /\ \A T : <<>> \in Seq(T)
    BY EmptySeq
  <1>3. FramesInv
    BY <1>1, <1>2, FramesAssumption DEF FramesInv
  <1>4. QueueInv /\ SocketInv /\ ReceiverInv
    <2>1. Queued(outbound, outboundOffset, unstartedBoundary)
      BY <1>1, <1>2 DEF Queued
    <2>2. Len(socket) <= SocketRoom
      BY <1>1, <1>2, FramesAssumption
    <2>3. /\ outbound \in Seq(Bytes(frames)) /\ socket \in Seq(Bytes(frames))
          /\ inbound \in Seq(Bytes(frames))
      BY <1>1, <1>2
    <2> QED BY <2>1, <2>2, <2>3 DEF Init, QueueInv, SocketInv, ReceiverInv
  <1>5. DeliveredInv
    BY <1>1, <1>2 DEF DeliveredInv, Chain
  <1>6. wire = <<>>
    <2>1. live = <<>>
      BY <1>1, <1>2, DropEnds DEF live
    <2> QED BY <1>1, <2>1 DEF wire
  <1>7. Onward(frames, discarded, delivered, wire, senderGone)
    <2>1. Start \in Cursors(frames) /\ Complete(frames, Start) /\ Start[1] = 0
      BY DEF Cursors, Complete, Start
    <2>2. EndOf(0, delivered) = 0 /\ EndOf(Start, wire) = Start
      BY <1>1, <1>2, <1>6 DEF EndOf, at
    <2>3. Stream(frames, discarded, Start, wire)
      BY <1>2, <1>6 DEF Stream
    <2>4. Ended(frames, discarded, Start)
      BY <1>1, <1>2, <2>1 DEF Ended
    <2> QED BY <2>1, <2>2, <2>3, <2>4 DEF Onward
  <1> QED BY <1>3, <1>4, <1>5, <1>7 DEF IInv, WireInv

-----------------------------------------------------------------------------
(* The bytes between the frames handed over and the sender's last byte are *)
(* what was sent and not discarded: every step of either end keeps them    *)
(* so, up to the close of the link.                                        *)
THEOREM ChannelInvariant == Spec => []IInv
  <1>1. Init => IInv
    BY InitHolds
  <1>2. IInv /\ [Next]_vars => IInv'
    <2> SUFFICES ASSUME IInv, [Next]_vars PROVE IInv'
      OBVIOUS
    <2>1. ASSUME NEW p \in PeerIds, NEW size \in FrameSizes, Send(p, size) PROVE IInv'
      BY <2>1, SendKeeps
    <2>2. ASSUME NEW p \in PeerIds, DiscardQueuedFrames(p) PROVE IInv'
      BY <2>2, DiscardKeeps
    <2>3. CASE WriteSourceFires
      BY <2>3, WriteKeeps
    <2>4. CASE SenderCloses
      BY <2>4, SenderClosesKeeps
    <2>5. CASE ReadAvailable
      BY <2>5, ReadKeeps
    <2>6. CASE HandlerSendsToGone
      BY <2>6, HandlerKeeps
    <2>7. CASE ReadEOF
      BY <2>7, EOFKeeps
    <2>8. CASE ResumeReading
      BY <2>8, ResumeKeeps
    <2>9. CASE Redispatch
      BY <2>9, RedispatchKeeps
    <2>10. CASE UNCHANGED vars
      BY <2>10, StutterKeeps
    <2> QED BY <2>1, <2>2, <2>3, <2>4, <2>5, <2>6, <2>7, <2>8, <2>9, <2>10 DEF Next
  <1> QED BY <1>1, <1>2, PTL DEF Spec

(* Every variable of the channel stays in its type.                        *)
THEOREM TypeCorrect == Spec => []TypeOK
  <1>1. IInv => TypeOK
    <2> SUFFICES ASSUME IInv PROVE TypeOK
      OBVIOUS
    <2>1. Bytes(frames) \subseteq Byte
      <3>1. Len(frames) \in Nat /\ Len(frames) <= MaxFrames /\ MaxFrames \in Nat
        BY LenProperties, FramesAssumption DEF IInv, FramesInv
      <3>2. 1..Len(frames) \subseteq 1..MaxFrames
        BY <3>1
      <3> QED BY <3>2 DEF Bytes, Byte
    <2>2. outbound \in Seq(Byte) /\ socket \in Seq(Byte) /\ inbound \in Seq(Byte)
      BY <2>1, SeqMonotonic DEF IInv, QueueInv, SocketInv, ReceiverInv
    <2>3. discarded \subseteq 1..MaxFrames /\ delivered \in Seq(1..MaxFrames)
      <3>1. Len(frames) \in Nat /\ Len(frames) <= MaxFrames /\ MaxFrames \in Nat
        BY LenProperties, FramesAssumption DEF IInv, FramesInv
      <3>2. 1..Len(frames) \subseteq 1..MaxFrames
        BY <3>1
      <3> QED BY <3>2, SeqMonotonic DEF IInv, FramesInv, DeliveredInv
    <2>4. /\ frames \in Seq([peer : PeerIds, size : FrameSizes]) /\ gone \subseteq PeerIds
          /\ outboundOffset \in 0..Len(outbound) /\ unstartedBoundary \in 0..Len(outbound)
      BY DEF IInv, FramesInv, QueueInv, Queued, AnyFrame
    <2>5. {isWriteArmed, senderGone, isReadSuspended, redispatch, isClosed, trapped, malformed}
            \subseteq BOOLEAN
      BY DEF IInv, QueueInv, SocketInv, ReceiverInv
    <2> QED BY <2>2, <2>3, <2>4, <2>5 DEF TypeOK
  <1> QED BY <1>1, ChannelInvariant, PTL

(* What onFrame is handed is a beginning of what was sent and not dropped  *)
(* for a gone peer: no frame is lost, doubled, torn or overtaken, whatever *)
(* the partial writes, compactions, discards and pauses, for any sizes of  *)
(* the frames and of the socket; and dispatchCompleteFrames never closes   *)
(* the link on a header that is none.                                      *)
THEOREM FramesArriveInOrder == Spec => []FramesInOrder
  <1>1. IInv => FramesInOrder
    <2> SUFFICES ASSUME IInv PROVE FramesInOrder
      OBVIOUS
    <2>1. malformed = FALSE
      BY DEF IInv, ReceiverInv
    <2>2. /\ Len(frames) \in Nat /\ delivered \in Seq(1..Len(frames))
          /\ Chain(discarded, delivered)
      BY LenProperties DEF IInv, FramesInv, DeliveredInv
    <2>3. PICK K : K = without([n \in 1..Len(frames) |-> n], discarded)
      OBVIOUS
    <2>4. Begins(delivered, K)
      BY <2>2, <2>3, ChainIsKept
    <2>5. K = kept
      BY <2>3 DEF kept
    <2> QED BY <2>1, <2>4, <2>5 DEF FramesInOrder, Begins
  <1> QED BY <1>1, ChannelInvariant, PTL
=============================================================================
