--------------------------- MODULE PTYInputProofs ---------------------------
(***************************************************************************)
(* Proofs about PTYInput, for any writers, sizes, cap and kernel.  Besides *)
(* the order of the bytes the invariant says what write and                *)
(* flushPendingInput rely on of each other: the source is armed exactly    *)
(* while input waits, and the part of the buffer already taken is never    *)
(* the larger one.                                                         *)
(***************************************************************************)
EXTENDS PTYInput, SequenceTheorems, TLAPS

(* Input waits exactly while the write source is armed, and a source that  *)
(* is not armed is suspended once: resuming it again, or releasing it      *)
(* suspended, would end the process.                                       *)
HeldInputIsWatched ==
    /\ isWriteArmed <=> pendingInputByteCount > 0
    /\ isWriteArmed => hasWriteSource
    /\ suspensions = IF hasWriteSource /\ ~isWriteArmed THEN 1 ELSE 0

(* The cap is on what waits; compaction makes it a bound on the buffer.    *)
HeldInputIsBounded ==
    /\ pendingInputByteCount <= InputCap
    /\ pendingInputOffset <= pendingInputByteCount

IInv == TypeOK /\ AcceptedInputIsKept /\ HeldInputIsWatched /\ HeldInputIsBounded

(* At most one peer pastes.                                                *)
OnePaster == \A p, q \in Pasters : p = q

(* What was accepted or refused was sent, and the paste that is refused is *)
(* remembered for as long as more of it can come.                          *)
chunkOf(byte) == (byte[2] - 1) \div ChunkSize

PasteInv ==
    /\ \A i \in 1..Len(accepted) :
         accepted[i][1] \in Pasters => chunkOf(accepted[i]) < sent[accepted[i][1]]
    /\ \A r \in refused : r[2] < sent[r[1]]
    /\ \A r \in refused : r[2] \div Chunks = sent[r[1]] \div Chunks =>
         refusedPaste = pasteOf(r[1], r[2])

-----------------------------------------------------------------------------
(* Sequences and sizes. *)

(* The sizes are numbers.                                                  *)
LEMMA Sizes ==
  /\ Pastes \in Nat /\ Chunks \in Nat /\ Keys \in Nat
  /\ ChunkSize \in Nat \ {0} /\ InputCap \in Nat \ {0} /\ KernelRoom \in Nat \ {0}
  BY SizesAssumption

(* A sequence cut in two, and put together again.                          *)
LEMMA CutInTwo ==
  ASSUME NEW S, NEW s \in Seq(S), NEW n \in 0..Len(s)
  PROVE  /\ SubSeq(s, 1, n) \in Seq(S) /\ Len(SubSeq(s, 1, n)) = n
         /\ SubSeq(s, n + 1, Len(s)) \in Seq(S) /\ Len(SubSeq(s, n + 1, Len(s))) = Len(s) - n
         /\ SubSeq(s, 1, n) \o SubSeq(s, n + 1, Len(s)) = s
  <1>1. Len(s) \in Nat /\ \A i \in 1..Len(s) : s[i] \in S
    BY LenProperties, ElementOfSeq
  <1>2. SubSeq(s, 1, n) \in Seq(S) /\ Len(SubSeq(s, 1, n)) = n
    BY <1>1, SubSeqProperties
  <1>3. SubSeq(s, n + 1, Len(s)) \in Seq(S) /\ Len(SubSeq(s, n + 1, Len(s))) = Len(s) - n
    BY <1>1, SubSeqProperties
  <1>4. SubSeq(s, 1, n) \o SubSeq(s, n + 1, Len(s)) = SubSeq(s, 1, Len(s))
    <2>1. 1 \in 1..(Len(s) + 1) /\ n \in (1 - 1)..Len(s) /\ Len(s) \in n..Len(s)
      BY <1>1
    <2> QED BY <2>1, ConcatAdjacentSubSeq
  <1> QED BY <1>2, <1>3, <1>4, SubSeqFull

(* What is appended to a sequence is appended to its end.                  *)
LEMMA EndOfConcat ==
  ASSUME NEW S, NEW s \in Seq(S), NEW t \in Seq(S), NEW k \in 0..Len(s)
  PROVE  SubSeq(s \o t, k + 1, Len(s \o t)) = SubSeq(s, k + 1, Len(s)) \o t
  <1> DEFINE u == s \o t
             e == SubSeq(s, k + 1, Len(s))
             l == SubSeq(u, k + 1, Len(u))
  <1>1. Len(s) \in Nat /\ Len(t) \in Nat
    BY LenProperties
  <1>2. /\ u \in Seq(S) /\ Len(u) = Len(s) + Len(t)
        /\ \A i \in 1..Len(s) + Len(t) : u[i] = IF i <= Len(s) THEN s[i] ELSE t[i - Len(s)]
    BY ConcatProperties
  <1>3. /\ e \in Seq(S) /\ Len(e) = Len(s) - k /\ \A i \in 1..(Len(s) - k) : e[i] = s[k + i]
    <2>1. \A i \in (k + 1)..Len(s) : s[i] \in S
      BY <1>1, ElementOfSeq
    <2> QED BY <1>1, <2>1, SubSeqProperties
  <1> HIDE DEF u, e
  <1>4. k \in 0..Len(u)
    BY <1>1, <1>2
  <1>5. l \in Seq(S) /\ Len(l) = Len(u) - k /\ \A i \in 1..(Len(u) - k) : l[i] = u[k + i]
    <2>1. \A i \in (k + 1)..Len(u) : u[i] \in S
      BY <1>1, <1>2, ElementOfSeq
    <2> QED BY <1>1, <1>2, <1>4, <2>1, SubSeqProperties
  <1> HIDE DEF l
  <1>6. /\ e \o t \in Seq(S) /\ Len(e \o t) = Len(s) - k + Len(t)
        /\ \A i \in 1..(Len(s) - k + Len(t)) :
             (e \o t)[i] = IF i <= Len(s) - k THEN e[i] ELSE t[i - (Len(s) - k)]
    <2>1. /\ e \o t \in Seq(S) /\ Len(e \o t) = Len(e) + Len(t)
          /\ \A i \in 1..Len(e) + Len(t) : (e \o t)[i] = IF i <= Len(e) THEN e[i] ELSE t[i - Len(e)]
      BY <1>3, ConcatProperties
    <2> QED BY <1>3, <2>1
  <1>7. ASSUME NEW i \in 1..Len(l) PROVE l[i] = (e \o t)[i]
    <2>1. i \in Nat /\ i >= 1 /\ i <= Len(s) + Len(t) - k
      BY <1>1, <1>2, <1>5, <1>7
    <2>2. l[i] = u[k + i] /\ k + i \in 1..Len(s) + Len(t)
      BY <1>1, <1>2, <1>5, <2>1
    <2>3. CASE i <= Len(s) - k
      BY <1>1, <1>2, <1>3, <1>6, <2>1, <2>2, <2>3
    <2>4. CASE ~(i <= Len(s) - k)
      <3>1. u[k + i] = t[k + i - Len(s)]
        BY <1>1, <1>2, <2>1, <2>2, <2>4
      <3>2. (e \o t)[i] = t[i - (Len(s) - k)]
        BY <1>1, <1>6, <2>1, <2>4
      <3>3. k + i - Len(s) = i - (Len(s) - k)
        BY <1>1, <2>1
      <3> QED BY <2>2, <3>1, <3>2, <3>3
    <2> QED BY <2>3, <2>4
  <1>8. l = e \o t
    <2>1. Len(l) = Len(e \o t)
      BY <1>1, <1>2, <1>5, <1>6
    <2> QED BY <1>5, <1>6, <1>7, <2>1, SeqEqual
  <1> QED BY <1>8 DEF l, u, e

(* The end of the end of a sequence.                                       *)
LEMMA EndOfEnd ==
  ASSUME NEW S, NEW s \in Seq(S), NEW k \in 0..Len(s), NEW n \in 0..(Len(s) - k)
  PROVE  SubSeq(SubSeq(s, k + 1, Len(s)), n + 1, Len(s) - k) = SubSeq(s, k + n + 1, Len(s))
  <1> DEFINE e == SubSeq(s, k + 1, Len(s))
             l == SubSeq(e, n + 1, Len(s) - k)
             r == SubSeq(s, k + n + 1, Len(s))
  <1>1. Len(s) \in Nat /\ \A i \in 1..Len(s) : s[i] \in S
    BY LenProperties, ElementOfSeq
  <1>2. e \in Seq(S) /\ Len(e) = Len(s) - k /\ \A i \in 1..(Len(s) - k) : e[i] = s[k + i]
    BY <1>1, SubSeqProperties
  <1>3. r \in Seq(S) /\ Len(r) = Len(s) - k - n /\ \A i \in 1..(Len(s) - k - n) : r[i] = s[k + n + i]
    BY <1>1, SubSeqProperties
  <1> HIDE DEF e, r
  <1>4. l \in Seq(S) /\ Len(l) = Len(s) - k - n /\ \A i \in 1..(Len(s) - k - n) : l[i] = e[n + i]
    <2>1. \A i \in (n + 1)..(Len(s) - k) : e[i] \in S
      BY <1>1, <1>2
    <2> QED BY <1>1, <2>1, SubSeqProperties
  <1> HIDE DEF l
  <1>5. ASSUME NEW i \in 1..Len(l) PROVE l[i] = r[i]
    <2>1. l[i] = e[n + i] /\ r[i] = s[k + n + i]
      BY <1>3, <1>4, <1>5
    <2>2. e[n + i] = s[k + (n + i)]
      BY <1>1, <1>2, <1>4, <1>5
    <2>3. k + (n + i) = k + n + i
      BY <1>1, <1>4, <1>5
    <2> QED BY <2>1, <2>2, <2>3
  <1>6. l = r
    BY <1>3, <1>4, <1>5, SeqEqual
  <1> QED BY <1>6 DEF l, r, e

(* Bytes handed over in three parts.                                       *)
LEMMA Regroup ==
  ASSUME NEW s \in Seq(Bytes), NEW t \in Seq(Bytes), NEW u \in Seq(Bytes)
  PROVE  (s \o t) \o u = s \o (t \o u)
  BY ConcatAssociative

-----------------------------------------------------------------------------
(* The buffer. *)

(* What waits is the end of the buffer.                                    *)
LEMMA LiveTyped ==
  ASSUME TypeOK
  PROVE  /\ Len(pendingInput) \in Nat /\ pendingInputOffset \in 0..Len(pendingInput)
         /\ pendingInputByteCount \in Nat
         /\ live \in Seq(Bytes) /\ Len(live) = pendingInputByteCount
  <1>1. pendingInput \in Seq(Bytes) /\ pendingInputOffset \in 0..Len(pendingInput)
    BY DEF TypeOK
  <1>2. Len(pendingInput) \in Nat
    BY <1>1, LenProperties
  <1> QED BY <1>1, <1>2, CutInTwo DEF live, pendingInputByteCount

(* A message has at least a byte.                                          *)
LEMMA MessageTyped ==
  ASSUME TypeOK, NEW w \in Writers
  PROVE  /\ size(w) \in Nat \ {0} /\ message(w) \in Seq(Bytes) /\ Len(message(w)) = size(w)
         /\ \A i \in 1..size(w) : message(w)[i] = <<w, sent[w] * size(w) + i>>
  <1>1. size(w) \in Nat \ {0}
    BY Sizes DEF size
  <1>2. sent[w] \in Nat
    BY DEF TypeOK
  <1>3. ASSUME NEW i \in 1..size(w) PROVE <<w, sent[w] * size(w) + i>> \in Bytes
    <2>1. sent[w] * size(w) \in Nat
      BY <1>1, <1>2
    <2>2. sent[w] * size(w) + i \in Nat
      BY <2>1, <1>1
    <2> QED BY <2>2 DEF Bytes
  <1>4. message(w) = [i \in 1..size(w) |-> <<w, sent[w] * size(w) + i>>]
    BY DEF message
  <1>5. message(w) \in [1..size(w) -> Bytes]
    BY <1>3, <1>4
  <1>6. message(w) \in Seq(Bytes)
    BY <1>1, <1>5, SeqDef
  <1>7. Len(message(w)) = size(w)
    <2>1. DOMAIN message(w) = 1..size(w)
      BY <1>4
    <2>2. DOMAIN message(w) = 1..Len(message(w)) /\ Len(message(w)) \in Nat
      BY <1>6, LenProperties
    <2> QED BY <1>1, <2>1, <2>2
  <1> QED BY <1>1, <1>4, <1>6, <1>7

(* The kernel takes no more than there is, or than it has room for.        *)
LEMMA TakenTyped ==
  ASSUME TypeOK, NEW data \in Seq(Bytes)
  PROVE  taken(data) \in 0..Len(data) /\ inKernel + taken(data) \in 0..KernelRoom
  <1>1. Len(data) \in Nat /\ inKernel \in 0..KernelRoom
    BY LenProperties DEF TypeOK
  <1> QED BY <1>1, Sizes DEF taken

(* A write that is accepted goes behind what waits.                        *)
LEMMA WriteKeeps ==
  ASSUME IInv, NEW w \in Writers, Write(w)
  PROVE  IInv'
  <1> DEFINE data == message(w)
             n == IF pendingInputByteCount = 0 THEN taken(data) ELSE 0
             front == SubSeq(data, 1, n)
             rest == SubSeq(data, n + 1, Len(data))
             count == pendingInputByteCount
  <1>t. TypeOK /\ HeldInputIsWatched /\ HeldInputIsBounded
    BY DEF IInv
  <1>1. /\ isAlive /\ hasRoom(w) /\ inKernel' = inKernel + n /\ arrived' = arrived \o front
        /\ pendingInput' = pendingInput \o rest /\ accepted' = accepted \o data
        /\ sent' = [sent EXCEPT ![w] = @ + 1]
        /\ UNCHANGED <<isAlive, slaveOpen, pendingInputOffset, refusedPaste, refused>>
    BY DEF Write
  <1>2. IF n < Len(data) THEN armWriteSource ELSE UNCHANGED sourceVars
    BY DEF Write
  <1>3. /\ Len(pendingInput) \in Nat /\ pendingInputOffset \in 0..Len(pendingInput)
        /\ count \in Nat /\ live \in Seq(Bytes) /\ Len(live) = count
    BY <1>t, LiveTyped
  <1>4. size(w) \in Nat \ {0} /\ data \in Seq(Bytes) /\ Len(data) = size(w)
    BY <1>t, MessageTyped
  <1>5. n \in 0..Len(data) /\ inKernel + n \in 0..KernelRoom
    <2>1. taken(data) \in 0..Len(data) /\ inKernel + taken(data) \in 0..KernelRoom
      BY <1>4, <1>t, TakenTyped
    <2>2. inKernel + 0 \in 0..KernelRoom /\ 0 \in 0..Len(data)
      BY <1>4, <1>t, Sizes DEF TypeOK
    <2> QED BY <2>1, <2>2
  <1>6. /\ front \in Seq(Bytes) /\ Len(front) = n
        /\ rest \in Seq(Bytes) /\ Len(rest) = Len(data) - n /\ front \o rest = data
    <2> HIDE DEF data, n
    <2> QED BY <1>4, <1>5, CutInTwo
  <1>7. /\ pendingInput' \in Seq(Bytes) /\ Len(pendingInput') = Len(pendingInput) + Len(rest)
        /\ live' = live \o rest
    <2> HIDE DEF rest
    <2>1. pendingInput \in Seq(Bytes)
      BY <1>t DEF TypeOK
    <2>2. pendingInput' \in Seq(Bytes) /\ Len(pendingInput') = Len(pendingInput) + Len(rest)
      BY <1>1, <1>6, <2>1, ConcatProperties
    <2>3. live' = SubSeq(pendingInput \o rest, pendingInputOffset + 1, Len(pendingInput \o rest))
      BY <1>1 DEF live
    <2>4. live' = live \o rest
      BY <1>3, <1>6, <2>1, <2>3, EndOfConcat DEF live
    <2> QED BY <2>2, <2>4
  <1>8. pendingInputByteCount' = count + (size(w) - n)
    <2> HIDE DEF n, rest, data
    <2> QED BY <1>1, <1>3, <1>4, <1>5, <1>6, <1>7 DEF pendingInputByteCount
  <1>9. TypeOK'
    <2>1. accepted' \in Seq(Bytes) /\ arrived' \in Seq(Bytes)
      <3> HIDE DEF data, front
      <3> QED BY <1>1, <1>4, <1>6, <1>t, ConcatProperties DEF TypeOK
    <2>2. sent' \in [Writers -> Nat]
      <3>1. sent \in [Writers -> Nat] /\ sent' = [sent EXCEPT ![w] = @ + 1]
        BY <1>1, <1>t DEF TypeOK
      <3> QED BY <3>1
    <2>3. hasWriteSource' \in BOOLEAN /\ isWriteArmed' \in BOOLEAN
      BY <1>2, <1>t DEF TypeOK, armWriteSource, sourceVars
    <2>4. suspensions' \in Int
      BY <1>2, <1>t DEF TypeOK, armWriteSource, sourceVars
    <2>5. inKernel' \in 0..KernelRoom
      BY <1>1, <1>5
    <2>6. pendingInputOffset' \in 0..Len(pendingInput')
      <3> HIDE DEF n, rest, data
      <3> QED BY <1>1, <1>3, <1>4, <1>5, <1>6, <1>7
    <2>7. /\ isAlive' \in BOOLEAN /\ slaveOpen' \in BOOLEAN
          /\ refusedPaste' \in {NoPaste} \cup (Pasters \X Nat) /\ refused' \subseteq Pasters \X Nat
      BY <1>1, <1>t DEF TypeOK
    <2> QED BY <1>7, <2>1, <2>2, <2>3, <2>4, <2>5, <2>6, <2>7 DEF TypeOK
  <1>10. AcceptedInputIsKept'
    <2> SUFFICES ASSUME slaveOpen PROVE arrived' \o live' = accepted'
      BY <1>1 DEF AcceptedInputIsKept
    <2>1. arrived \o live = accepted /\ arrived \in Seq(Bytes)
      BY <1>1, <1>t DEF IInv, AcceptedInputIsKept, TypeOK
    <2>2. CASE count = 0
      <3>1. live = <<>>
        BY <1>3, <2>2, EmptySeq
      <3> HIDE DEF front, rest, data
      <3>2. accepted = arrived /\ live' = rest
        BY <1>6, <1>7, <2>1, <3>1, ConcatEmptySeq
      <3>3. (arrived \o front) \o rest = arrived \o (front \o rest)
        BY <1>6, <2>1, Regroup
      <3> QED BY <1>1, <1>6, <3>2, <3>3
    <2>3. CASE count # 0
      <3>1. n = 0
        BY <2>3
      <3> HIDE DEF n
      <3>2. front = <<>> /\ rest = data
        <4>1. front = <<>>
          BY <1>6, <3>1, EmptySeq
        <4> HIDE DEF front, rest, data
        <4> QED BY <1>6, <4>1, ConcatEmptySeq
      <3> HIDE DEF front, rest, data
      <3>3. arrived' = arrived
        BY <1>1, <2>1, <3>2, ConcatEmptySeq
      <3>4. (arrived \o live) \o data = arrived \o (live \o data)
        BY <1>3, <1>4, <2>1, Regroup
      <3> QED BY <1>1, <1>7, <2>1, <3>2, <3>3, <3>4
    <2> QED BY <2>2, <2>3
  <1>11. HeldInputIsWatched'
    <2> HIDE DEF data, n, front, rest
    <2>b. /\ hasWriteSource \in BOOLEAN /\ isWriteArmed \in BOOLEAN
          /\ isWriteArmed <=> count > 0
          /\ isWriteArmed => hasWriteSource
          /\ suspensions = IF hasWriteSource /\ ~isWriteArmed THEN 1 ELSE 0
      BY <1>t DEF TypeOK, HeldInputIsWatched
    <2>1. CASE n < Len(data)
      <3>1. hasWriteSource' = TRUE /\ isWriteArmed' = TRUE /\ suspensions' = 0
        BY <1>2, <2>1, <2>b DEF armWriteSource
      <3>2. pendingInputByteCount' > 0
        BY <1>3, <1>4, <1>5, <1>8, <2>1
      <3> QED BY <3>1, <3>2 DEF HeldInputIsWatched
    <2>2. CASE ~(n < Len(data))
      <3>1. n = size(w) /\ n # 0
        BY <1>4, <1>5, <2>2
      <3>2. count = 0
        BY <3>1 DEF n
      <3>3. pendingInputByteCount' = 0
        BY <1>4, <1>8, <3>1, <3>2
      <3>4. UNCHANGED sourceVars
        BY <1>2, <2>2
      <3>5. isWriteArmed = FALSE
        BY <2>b, <3>2
      <3> QED BY <2>b, <3>3, <3>4, <3>5 DEF HeldInputIsWatched, sourceVars
    <2> QED BY <2>1, <2>2
  <1>12. HeldInputIsBounded'
    <2> HIDE DEF n, data
    <2>1. count + size(w) <= InputCap /\ pendingInputOffset <= count
      BY <1>1, <1>t DEF hasRoom, HeldInputIsBounded
    <2>2. pendingInputOffset' = pendingInputOffset
      BY <1>1
    <2>3. pendingInputByteCount' <= InputCap /\ pendingInputOffset <= pendingInputByteCount'
      BY <1>3, <1>4, <1>5, <1>8, <2>1, Sizes
    <2> QED BY <2>2, <2>3 DEF HeldInputIsBounded
  <1> QED BY <1>9, <1>10, <1>11, <1>12 DEF IInv

(* A flush moves the front of what waits to the kernel, and only there.    *)
LEMMA FlushKeeps ==
  ASSUME IInv, FlushPendingInput
  PROVE  IInv'
  <1> DEFINE n == taken(live)
             offset == pendingInputOffset + n
             front == SubSeq(live, 1, n)
             rest == SubSeq(live, n + 1, Len(live))
             count == pendingInputByteCount
  <1>t. TypeOK /\ HeldInputIsWatched /\ HeldInputIsBounded
    BY DEF IInv
  <1>1. /\ isWriteArmed /\ inKernel' = inKernel + n /\ arrived' = arrived \o front
        /\ UNCHANGED <<isAlive, slaveOpen, refusedPaste, sent, accepted, refused>>
    BY DEF FlushPendingInput
  <1>2. \/ /\ offset = Len(pendingInput) /\ pendingInput' = <<>> /\ pendingInputOffset' = 0
           /\ disarmWriteSource
        \/ /\ offset < Len(pendingInput) /\ UNCHANGED sourceVars
           /\ IF compacted(offset)
                THEN /\ pendingInput' = SubSeq(pendingInput, offset + 1, Len(pendingInput))
                     /\ pendingInputOffset' = 0
                ELSE pendingInputOffset' = offset /\ UNCHANGED pendingInput
    BY DEF FlushPendingInput
  <1>3. /\ Len(pendingInput) \in Nat /\ pendingInputOffset \in 0..Len(pendingInput)
        /\ count \in Nat /\ live \in Seq(Bytes) /\ Len(live) = count
        /\ count = Len(pendingInput) - pendingInputOffset /\ pendingInput \in Seq(Bytes)
    BY <1>t, LiveTyped DEF pendingInputByteCount, TypeOK
  <1>4. n \in 0..count /\ inKernel' \in 0..KernelRoom
    BY <1>1, <1>3, <1>t, TakenTyped
  <1> HIDE DEF n
  <1>5. /\ front \in Seq(Bytes) /\ rest \in Seq(Bytes) /\ Len(rest) = count - n
        /\ front \o rest = live
    <2>1. live \in Seq(Bytes) /\ n \in 0..Len(live) /\ Len(live) = count
      BY <1>3, <1>4
    <2> HIDE DEF count
    <2> QED BY <2>1, CutInTwo
  <1>6. rest = SubSeq(pendingInput, offset + 1, Len(pendingInput))
    <2>1. pendingInputOffset + n + 1 = offset + 1
      OBVIOUS
    <2> QED BY <1>3, <1>4, <2>1, EndOfEnd DEF live
  <1>7. ASSUME pendingInput' = rest, pendingInputOffset' = 0
        PROVE  live' = rest
    <2>1. live' = SubSeq(rest, 1, Len(rest))
      BY <1>7 DEF live
    <2> HIDE DEF rest
    <2> QED BY <1>5, <2>1, SubSeqFull
  <1>8. ASSUME /\ pendingInput' \in Seq(Bytes) /\ pendingInputOffset' \in 0..Len(pendingInput')
               /\ hasWriteSource' \in BOOLEAN /\ isWriteArmed' \in BOOLEAN /\ suspensions' \in Int
               /\ live' = rest /\ HeldInputIsWatched' /\ HeldInputIsBounded'
        PROVE  IInv'
    <2> HIDE DEF front, rest
    <2>1. TypeOK'
      <3>1. arrived' \in Seq(Bytes)
        BY <1>1, <1>5, <1>t, ConcatProperties DEF TypeOK
      <3>2. /\ isAlive' \in BOOLEAN /\ slaveOpen' \in BOOLEAN /\ accepted' \in Seq(Bytes)
            /\ refusedPaste' \in {NoPaste} \cup (Pasters \X Nat) /\ refused' \subseteq Pasters \X Nat
            /\ sent' \in [Writers -> Nat]
        BY <1>1, <1>t DEF TypeOK
      <3> QED BY <1>4, <1>8, <3>1, <3>2 DEF TypeOK
    <2>2. AcceptedInputIsKept'
      <3> SUFFICES ASSUME isAlive, slaveOpen PROVE arrived' \o live' = accepted'
        BY <1>1 DEF AcceptedInputIsKept
      <3>1. arrived \o live = accepted /\ arrived \in Seq(Bytes)
        BY <1>t DEF IInv, AcceptedInputIsKept, TypeOK
      <3>2. (arrived \o front) \o rest = arrived \o (front \o rest)
        BY <1>5, <3>1, Regroup
      <3> QED BY <1>1, <1>5, <1>8, <3>1, <3>2
    <2> QED BY <1>8, <2>1, <2>2 DEF IInv
  <1>9. CASE offset = Len(pendingInput)
    <2>1. pendingInput' = <<>> /\ pendingInputOffset' = 0 /\ disarmWriteSource
      <3> HIDE DEF offset
      <3> QED BY <1>2, <1>3, <1>9
    <2>2. rest = <<>>
      <3>1. Len(rest) = 0
        BY <1>3, <1>4, <1>5, <1>9
      <3> HIDE DEF rest
      <3> QED BY <1>5, <3>1, EmptySeq
    <2>3. live' = rest
      <3> HIDE DEF rest
      <3> QED BY <1>7, <2>1, <2>2
    <2>4. pendingInputByteCount' = 0 /\ Len(pendingInput') = 0 /\ pendingInput' \in Seq(Bytes)
      BY <2>1, EmptySeq DEF pendingInputByteCount
    <2>5. /\ isWriteArmed' = FALSE /\ hasWriteSource' = hasWriteSource
          /\ suspensions' = suspensions + 1 /\ hasWriteSource /\ suspensions = 0
      BY <1>1, <1>t, <2>1 DEF disarmWriteSource, HeldInputIsWatched
    <2>6. HeldInputIsWatched'
      BY <2>4, <2>5 DEF HeldInputIsWatched
    <2>7. HeldInputIsBounded'
      BY <2>1, <2>4, Sizes DEF HeldInputIsBounded
    <2>8. hasWriteSource' \in BOOLEAN /\ isWriteArmed' \in BOOLEAN
      BY <1>t, <2>5 DEF TypeOK
    <2>9. suspensions' \in Int /\ pendingInputOffset' \in 0..Len(pendingInput')
      BY <2>1, <2>4, <2>5
    <2> QED BY <1>8, <2>3, <2>4, <2>6, <2>7, <2>8, <2>9
  <1>10. CASE offset < Len(pendingInput)
    <2>1. /\ UNCHANGED sourceVars
          /\ IF compacted(offset)
               THEN pendingInput' = rest /\ pendingInputOffset' = 0
               ELSE pendingInputOffset' = offset /\ UNCHANGED pendingInput
      BY <1>2, <1>3, <1>4, <1>6, <1>10
    <2>2. offset \in Nat /\ Len(rest) = Len(pendingInput) - offset /\ count - n > 0
      BY <1>3, <1>4, <1>5, <1>10
    <2>3. /\ pendingInput' \in Seq(Bytes) /\ pendingInputOffset' \in 0..Len(pendingInput')
          /\ live' = rest /\ pendingInputByteCount' = count - n
          /\ pendingInputOffset' <= count - n
      <3>1. CASE compacted(offset)
        <4>1. pendingInput' = rest /\ pendingInputOffset' = 0 /\ live' = rest
          BY <1>7, <2>1, <3>1
        <4>2. Len(rest) = count - n /\ rest \in Seq(Bytes)
          BY <1>5
        <4> HIDE DEF rest, offset, count
        <4>3. pendingInputByteCount' = Len(rest) - 0
          BY <4>1 DEF pendingInputByteCount
        <4> QED BY <1>3, <1>4, <2>2, <4>1, <4>2, <4>3
      <3>2. CASE ~compacted(offset)
        <4>1. pendingInput' = pendingInput /\ pendingInputOffset' = offset
          BY <2>1, <3>2
        <4>2. live' = rest
          BY <1>6, <4>1 DEF live
        <4>3. offset <= Len(pendingInput) - offset
          BY <1>3, <2>2, <3>2 DEF compacted
        <4>4. pendingInputByteCount' = count - n
          BY <1>3, <1>4, <4>1 DEF pendingInputByteCount
        <4> QED BY <1>3, <1>4, <1>10, <2>2, <4>1, <4>2, <4>3, <4>4
      <3> QED BY <3>1, <3>2
    <2>4. HeldInputIsWatched'
      <3>1. pendingInputByteCount' > 0 /\ count > 0
        BY <1>3, <1>4, <2>2, <2>3
      <3> QED BY <1>1, <1>t, <2>1, <3>1 DEF HeldInputIsWatched, sourceVars
    <2>5. HeldInputIsBounded'
      <3>1. count <= InputCap
        BY <1>t DEF HeldInputIsBounded
      <3> QED BY <1>3, <1>4, <2>3, <3>1, Sizes DEF HeldInputIsBounded
    <2>6. hasWriteSource' \in BOOLEAN /\ isWriteArmed' \in BOOLEAN /\ suspensions' \in Int
      BY <1>t, <2>1 DEF sourceVars, TypeOK
    <2> QED BY <1>8, <2>3, <2>4, <2>5, <2>6
  <1> QED BY <1>2, <1>9, <1>10

(* With an empty buffer and an unarmed source, suspended or gone.          *)
LEMMA EmptiedKeeps ==
  ASSUME IInv, pendingInput' = <<>>, pendingInputOffset' = 0,
         hasWriteSource' \in BOOLEAN, isWriteArmed' = FALSE,
         suspensions' = (IF hasWriteSource' THEN 1 ELSE 0),
         ~(isAlive' /\ slaveOpen'), isAlive' \in BOOLEAN,
         UNCHANGED <<slaveOpen, refusedPaste, inKernel, sent, historyVars>>
  PROVE  IInv'
  <1>1. pendingInputByteCount' = 0 /\ Len(pendingInput') = 0 /\ pendingInput' \in Seq(Bytes)
    BY EmptySeq DEF pendingInputByteCount
  <1>2. TypeOK'
    <2>1. suspensions' \in Int /\ pendingInputOffset' \in 0..Len(pendingInput')
      BY <1>1
    <2>3. isWriteArmed' \in BOOLEAN
      BY Zenon
    <2>2. /\ slaveOpen' \in BOOLEAN /\ accepted' \in Seq(Bytes) /\ arrived' \in Seq(Bytes)
          /\ refusedPaste' \in {NoPaste} \cup (Pasters \X Nat) /\ refused' \subseteq Pasters \X Nat
          /\ sent' \in [Writers -> Nat] /\ inKernel' \in 0..KernelRoom
      BY DEF IInv, TypeOK, historyVars
    <2> QED BY <1>1, <2>1, <2>2, <2>3 DEF TypeOK
  <1>3. HeldInputIsWatched' /\ HeldInputIsBounded'
    BY <1>1, Sizes DEF HeldInputIsWatched, HeldInputIsBounded
  <1> QED BY <1>2, <1>3 DEF IInv, AcceptedInputIsKept

(* A step that leaves the buffer, the source and what arrived alone.       *)
LEMMA BufferUntouched ==
  ASSUME IInv, UNCHANGED <<isAlive, bufferVars, sourceVars, arrived>>,
         slaveOpen' \in BOOLEAN, slaveOpen' => slaveOpen /\ accepted' = accepted,
         accepted' \in Seq(Bytes), inKernel' \in 0..KernelRoom, sent' \in [Writers -> Nat],
         refusedPaste' \in {NoPaste} \cup (Pasters \X Nat), refused' \subseteq Pasters \X Nat
  PROVE  IInv'
  <1>1. UNCHANGED <<pendingInput, pendingInputOffset, pendingInputByteCount, live>>
    BY DEF bufferVars, pendingInputByteCount, live
  <1>2. TypeOK'
    BY <1>1 DEF IInv, TypeOK, sourceVars
  <1>3. AcceptedInputIsKept'
    BY <1>1 DEF IInv, AcceptedInputIsKept
  <1>4. HeldInputIsWatched' /\ HeldInputIsBounded'
    BY <1>1 DEF IInv, HeldInputIsWatched, HeldInputIsBounded, sourceVars
  <1> QED BY <1>2, <1>3, <1>4 DEF IInv

(* The paste a chunk belongs to.                                           *)
LEMMA PasteTyped ==
  ASSUME TypeOK, NEW w \in Pasters, sent[w] < limit(w)
  PROVE  Chunks \in Nat \ {0} /\ sent[w] \in Nat /\ pasteOf(w, sent[w]) \in Pasters \X Nat
  <1>1. sent[w] \in Nat /\ sent[w] < Pastes * Chunks
    BY DEF TypeOK, limit, Writers
  <1>2. Chunks # 0
    BY <1>1, Sizes
  <1>3. sent[w] \div Chunks \in Nat
    BY <1>1, <1>2, Sizes
  <1> QED BY <1>1, <1>2, <1>3, Sizes DEF pasteOf

(* Every step keeps the order of the input, and what the two sides of the  *)
(* buffer rely on.                                                         *)
LEMMA StepKeeps == ASSUME IInv, [Next]_vars PROVE IInv'
  <1>t. TypeOK
    BY DEF IInv
  <1>1. ASSUME NEW w \in Writers, Write(w) PROVE IInv'
    BY <1>1, WriteKeeps
  <1>2. ASSUME NEW w \in Writers, WriteToClosedSlave(w) PROVE IInv'
    <2>1. /\ ~slaveOpen /\ accepted' = accepted \o message(w) /\ sent' = [sent EXCEPT ![w] = @ + 1]
          /\ UNCHANGED <<isAlive, slaveOpen, bufferVars, refusedPaste, sourceVars, inKernel, arrived,
                         refused>>
      BY <1>2 DEF WriteToClosedSlave
    <2>2. accepted' \in Seq(Bytes)
      BY <1>t, <2>1, MessageTyped, ConcatProperties DEF TypeOK
    <2>3. sent' \in [Writers -> Nat]
      BY <1>t, <2>1 DEF TypeOK
    <2> QED BY <1>t, <2>1, <2>2, <2>3, BufferUntouched DEF TypeOK
  <1>3. ASSUME NEW w \in Writers, WriteRefused(w) PROVE IInv'
    <2>1. /\ sent[w] < limit(w) /\ sent' = [sent EXCEPT ![w] = @ + 1]
          /\ refusedPaste' = IF ~stillRefused(w) /\ w \in Pasters THEN paste(w) ELSE refusedPaste
          /\ refused' = IF w \in Pasters THEN refused \cup {<<w, sent[w]>>} ELSE refused
          /\ UNCHANGED <<isAlive, slaveOpen, bufferVars, sourceVars, inKernel, accepted, arrived>>
      BY <1>3 DEF WriteRefused
    <2>2. sent' \in [Writers -> Nat]
      BY <1>t, <2>1 DEF TypeOK
    <2>3. /\ refusedPaste' \in {NoPaste} \cup (Pasters \X Nat)
          /\ refused' \subseteq Pasters \X Nat
      <3>1. CASE w \in Pasters
        <4>1. sent[w] \in Nat /\ paste(w) \in Pasters \X Nat
          BY <1>t, <2>1, <3>1, PasteTyped DEF paste
        <4> QED BY <1>t, <2>1, <3>1, <4>1 DEF TypeOK
      <3>2. CASE w \notin Pasters
        BY <1>t, <2>1, <3>2 DEF TypeOK
      <3> QED BY <3>1, <3>2
    <2> QED BY <1>t, <2>1, <2>2, <2>3, BufferUntouched DEF TypeOK
  <1>4. CASE ProgramReads \/ SlaveCloses
    <2>1. inKernel' \in 0..KernelRoom /\ slaveOpen' \in BOOLEAN /\ (slaveOpen' => slaveOpen)
      <3>1. inKernel \in 0..KernelRoom /\ slaveOpen \in BOOLEAN
        BY <1>t DEF TypeOK
      <3>2. CASE ProgramReads
        BY <3>1, <3>2, Sizes DEF ProgramReads
      <3>3. CASE SlaveCloses
        <4>1. slaveOpen' = FALSE /\ inKernel' = inKernel
          BY <3>3 DEF SlaveCloses
        <4> QED BY <3>1, <4>1, Zenon
      <3> QED BY <1>4, <3>2, <3>3
    <2>2. UNCHANGED <<isAlive, bufferVars, refusedPaste, sourceVars, sent, historyVars>>
      BY <1>4 DEF ProgramReads, SlaveCloses
    <2> QED BY <1>t, <2>1, <2>2, BufferUntouched DEF TypeOK, historyVars
  <1>5. CASE FlushPendingInput
    BY <1>5, FlushKeeps
  <1>6. CASE FlushFails
    <2>1. /\ isWriteArmed /\ ~slaveOpen /\ pendingInput' = <<>> /\ pendingInputOffset' = 0
          /\ disarmWriteSource
          /\ UNCHANGED <<isAlive, slaveOpen, refusedPaste, inKernel, sent, historyVars>>
      BY <1>6 DEF FlushFails
    <2>2. hasWriteSource \in BOOLEAN /\ hasWriteSource /\ suspensions = 0 /\ isAlive \in BOOLEAN
      BY <1>t, <2>1 DEF IInv, HeldInputIsWatched, TypeOK
    <2>3. hasWriteSource' = hasWriteSource /\ isWriteArmed' = FALSE /\ suspensions' = 1
      BY <2>1, <2>2 DEF disarmWriteSource
    <2> QED BY <2>1, <2>2, <2>3, EmptiedKeeps
  <1>7. CASE StopWriting
    <2>1. /\ isAlive' = FALSE /\ pendingInput' = <<>> /\ pendingInputOffset' = 0
          /\ hasWriteSource' = FALSE /\ isWriteArmed' = FALSE /\ suspensions' = resumedToStop
          /\ UNCHANGED <<slaveOpen, refusedPaste, inKernel, sent, historyVars>>
      BY <1>7 DEF StopWriting
    <2>2. resumedToStop = 0
      BY DEF IInv, HeldInputIsWatched, resumedToStop
    <2>3. hasWriteSource' \in BOOLEAN /\ isAlive' \in BOOLEAN
      BY <2>1, Zenon
    <2> QED BY <2>1, <2>2, <2>3, EmptiedKeeps
  <1>8. CASE UNCHANGED vars
    <2>1. UNCHANGED <<isAlive, slaveOpen, bufferVars, refusedPaste, sourceVars, inKernel, sent,
                      accepted, arrived, refused>>
      BY <1>8 DEF vars, historyVars
    <2> QED BY <1>t, <2>1, BufferUntouched DEF TypeOK
  <1> QED BY <1>1, <1>2, <1>3, <1>4, <1>5, <1>6, <1>7, <1>8 DEF Next

(* The input of a session keeps its order, its bound and its source in     *)
(* every step (PTYSession.write, flushPendingInput, stopWriting).          *)
THEOREM InputInvariant == Spec => []IInv
  <1>1. Init => IInv
    <2> SUFFICES ASSUME Init PROVE IInv
      OBVIOUS
    <2>1. /\ pendingInput = <<>> /\ Len(pendingInput) = 0 /\ pendingInputOffset = 0
          /\ pendingInputByteCount = 0 /\ live = <<>> /\ <<>> \in Seq(Bytes)
      BY EmptySeq, SubSeqEmpty DEF Init, pendingInputByteCount, live
    <2>2. TypeOK
      <3>1. isAlive \in BOOLEAN /\ slaveOpen \in BOOLEAN /\ hasWriteSource \in BOOLEAN /\ isWriteArmed \in BOOLEAN
        BY Zenon DEF Init
      <3>2. /\ suspensions \in Int /\ inKernel \in 0..KernelRoom /\ sent \in [Writers -> Nat]
            /\ pendingInputOffset \in 0..Len(pendingInput)
        BY <2>1, Sizes DEF Init
      <3>3. /\ refusedPaste \in {NoPaste} \cup (Pasters \X Nat) /\ refused \subseteq Pasters \X Nat
            /\ pendingInput \in Seq(Bytes) /\ accepted \in Seq(Bytes) /\ arrived \in Seq(Bytes)
        BY <2>1 DEF Init
      <3> QED BY <3>1, <3>2, <3>3 DEF TypeOK
    <2>3. AcceptedInputIsKept
      BY <2>1, ConcatEmptySeq DEF Init, AcceptedInputIsKept
    <2>4. HeldInputIsWatched /\ HeldInputIsBounded
      BY <2>1, Sizes DEF Init, HeldInputIsWatched, HeldInputIsBounded
    <2> QED BY <2>2, <2>3, <2>4 DEF IInv
  <1> QED BY <1>1, StepKeeps, PTL DEF Spec

(* The state keeps its types; the kernel never holds more than its room.   *)
THEOREM TypeCorrect == Spec => []TypeOK
  <1>1. IInv => TypeOK
    BY DEF IInv
  <1> QED BY <1>1, InputInvariant, PTL

(* What the kernel took and what waits is what was accepted, byte for byte *)
(* and in order, however writes and flushes interleave.                    *)
THEOREM InputKeptInOrder == Spec => []AcceptedInputIsKept
  <1>1. IInv => AcceptedInputIsKept
    BY DEF IInv
  <1> QED BY <1>1, InputInvariant, PTL

(* Input never waits without a source that will flush it, and no resume of *)
(* the source is one too many.                                             *)
THEOREM WaitingInputIsWatched == Spec => []HeldInputIsWatched
  <1>1. IInv => HeldInputIsWatched
    BY DEF IInv
  <1> QED BY <1>1, InputInvariant, PTL

(* A program that never reads costs the host twice the cap at most: the    *)
(* part of the buffer already taken is compacted away before it outgrows   *)
(* the part that waits.                                                    *)
THEOREM BufferIsBounded == Spec => [](Len(pendingInput) <= 2 * InputCap)
  <1>1. IInv => Len(pendingInput) <= 2 * InputCap
    BY LiveTyped, Sizes DEF IInv, HeldInputIsBounded, pendingInputByteCount
  <1> QED BY <1>1, InputInvariant, PTL

-----------------------------------------------------------------------------
(* Pastes. *)

(* The bytes of message q are those of its chunk.                          *)
LEMMA ByteOfChunk ==
  ASSUME NEW q \in Nat, NEW c \in Nat \ {0}, NEW i \in 1..c
  PROVE  ((q * c + i) - 1) \div c = q
  <1>1. q * c \in Int /\ i - 1 \in 0..(c - 1)
    OBVIOUS
  <1> QED BY <1>1

(* Between two chunks of one paste every chunk is of that paste.           *)
LEMMA ChunksAreTogether ==
  ASSUME NEW a \in Nat, NEW b \in Nat, NEW c \in Nat \ {0}, a <= b, a \div c = (b + 1) \div c
  PROVE  a \div c = b \div c
  OBVIOUS

(* A chunk that is accepted is of no paste a chunk of which was refused.   *)
LEMMA AcceptedPasteKept ==
  ASSUME TypeOK, PasteInv, PasteHasNoHole, NEW w \in Writers, sent[w] < limit(w), ~stillRefused(w),
         accepted' = accepted \o message(w), sent' = [sent EXCEPT ![w] = @ + 1],
         UNCHANGED <<refusedPaste, refused>>
  PROVE  PasteInv' /\ PasteHasNoHole'
  <1> DEFINE data == message(w)
  <1>1. /\ sent \in [Writers -> Nat] /\ Pasters \subseteq Writers /\ accepted \in Seq(Bytes)
        /\ refused \subseteq Pasters \X Nat
    BY DEF TypeOK, Writers
  <1>2. /\ size(w) \in Nat \ {0} /\ data \in Seq(Bytes) /\ Len(data) = size(w)
        /\ \A i \in 1..size(w) : data[i] = <<w, sent[w] * size(w) + i>>
    BY MessageTyped
  <1>3. /\ Len(accepted) \in Nat /\ Len(accepted') = Len(accepted) + size(w)
        /\ \A i \in 1..Len(accepted') :
             accepted'[i] = IF i <= Len(accepted) THEN accepted[i] ELSE data[i - Len(accepted)]
    <2> HIDE DEF data
    <2>1. accepted' = accepted \o data
      BY DEF data
    <2>2. /\ Len(accepted \o data) = Len(accepted) + Len(data)
          /\ \A i \in 1..Len(accepted) + Len(data) :
               (accepted \o data)[i] = IF i <= Len(accepted) THEN accepted[i] ELSE data[i - Len(accepted)]
      BY <1>1, <1>2, ConcatProperties
    <2>3. Len(accepted) \in Nat
      BY <1>1, LenProperties
    <2> QED BY <1>2, <2>1, <2>2, <2>3
  <1>4. \A p \in Writers : sent[p] \in Nat /\ sent'[p] = IF p = w THEN sent[w] + 1 ELSE sent[p]
    BY <1>1
  <1>5. ASSUME NEW i \in 1..Len(accepted'), i > Len(accepted)
        PROVE  accepted'[i][1] = w /\ (w \in Pasters => chunkOf(accepted'[i]) = sent[w])
    <2> DEFINE j == i - Len(accepted)
    <2>1. j \in 1..size(w)
      BY <1>2, <1>3, <1>5
    <2>2. accepted'[i] = data[j]
      BY <1>3, <1>5
    <2> HIDE DEF j, data
    <2>3. accepted'[i] = <<w, sent[w] * size(w) + j>>
      BY <1>2, <2>1, <2>2
    <2>4. ASSUME w \in Pasters PROVE chunkOf(accepted'[i]) = sent[w]
      <3>1. size(w) = ChunkSize
        BY <2>4 DEF size
      <3>2. chunkOf(accepted'[i]) = ((sent[w] * ChunkSize + j) - 1) \div ChunkSize
        <4>1. accepted'[i][2] = sent[w] * ChunkSize + j
          BY <2>3, <3>1
        <4>2. chunkOf(accepted'[i]) = (accepted'[i][2] - 1) \div ChunkSize
          BY DEF chunkOf
        <4> QED BY <4>1, <4>2, Zenon
      <3> QED BY <1>4, <2>1, <3>1, <3>2, Sizes, ByteOfChunk
    <2> QED BY <2>3, <2>4
  <1>6. ASSUME NEW i \in 1..Len(accepted'), ~(i > Len(accepted))
        PROVE  i \in 1..Len(accepted) /\ accepted'[i] = accepted[i]
    BY <1>3, <1>6
  <1>7. ASSUME NEW r \in refused
        PROVE  /\ r[1] \in Pasters /\ r[2] \in Nat /\ r[2] < sent[r[1]]
               /\ r[1] \in Writers
               /\ r[2] \div Chunks = sent[r[1]] \div Chunks => refusedPaste = pasteOf(r[1], r[2])
    BY <1>1, <1>7 DEF PasteInv
  <1>8. ASSUME NEW r \in refused, r[1] = w
        PROVE  r[2] \div Chunks # sent[w] \div Chunks
    <2>1. w \in Pasters /\ paste(w) # refusedPaste
      BY <1>7, <1>8 DEF stillRefused
    <2> QED BY <1>7, <1>8, <2>1 DEF paste, pasteOf
  <1>9. PasteInv'
    <2>1. ASSUME NEW i \in 1..Len(accepted'), accepted'[i][1] \in Pasters
          PROVE  chunkOf(accepted'[i]) < sent'[accepted'[i][1]]
      <3>1. CASE i > Len(accepted)
        BY <1>4, <1>5, <2>1, <3>1
      <3>2. CASE ~(i > Len(accepted))
        <4>1. accepted'[i] = accepted[i] /\ i \in 1..Len(accepted)
          BY <1>6, <3>2
        <4> DEFINE p == accepted[i][1]
        <4>2. p \in Pasters /\ p \in Writers /\ chunkOf(accepted[i]) < sent[p]
          BY <1>1, <2>1, <4>1 DEF PasteInv
        <4>3. chunkOf(accepted[i]) \in Int
          <5>1. accepted[i][2] \in Nat
            BY <1>1, <4>1, ElementOfSeq DEF Bytes
          <5> QED BY <5>1, Sizes DEF chunkOf
        <4> QED BY <1>4, <4>1, <4>2, <4>3
      <3> QED BY <3>1, <3>2
    <2>2. ASSUME NEW r \in refused
          PROVE  /\ r[2] < sent'[r[1]]
                 /\ r[2] \div Chunks = sent'[r[1]] \div Chunks => refusedPaste = pasteOf(r[1], r[2])
      <3>1. CASE r[1] = w
        <4>1. Chunks \in Nat \ {0}
          BY <1>7, <3>1, PasteTyped
        <4>2. r[2] \in Nat /\ r[2] < sent[w] /\ sent[w] \in Nat /\ sent'[w] = sent[w] + 1
          BY <1>4, <1>7, <3>1
        <4>3. r[2] \div Chunks # (sent[w] + 1) \div Chunks
          <5>1. r[2] \div Chunks # sent[w] \div Chunks
            BY <1>8, <3>1
          <5>2. r[2] <= sent[w]
            BY <4>2
          <5> QED BY <4>1, <4>2, <5>1, <5>2, ChunksAreTogether
        <4> QED BY <3>1, <4>2, <4>3
      <3>2. CASE r[1] # w
        BY <1>4, <1>7, <3>2
      <3> QED BY <3>1, <3>2
    <2> QED BY <2>1, <2>2 DEF PasteInv
  <1>10. PasteHasNoHole'
    <2> SUFFICES ASSUME NEW r \in refused, NEW i \in 1..Len(accepted'), accepted'[i][1] = r[1]
                 PROVE  ~(chunkOf(accepted'[i]) > r[2]
                            /\ pasteOf(r[1], chunkOf(accepted'[i])) = pasteOf(r[1], r[2]))
      BY DEF PasteHasNoHole, chunkOf
    <2>1. CASE i > Len(accepted)
      <3>1. r[1] = w /\ chunkOf(accepted'[i]) = sent[w]
        BY <1>5, <1>7, <2>1
      <3> QED BY <1>8, <3>1 DEF pasteOf
    <2>2. CASE ~(i > Len(accepted))
      BY <1>6, <2>2 DEF PasteHasNoHole, chunkOf
    <2> QED BY <2>1, <2>2
  <1> QED BY <1>9, <1>10

(* A chunk that is refused is younger than all that was accepted, and      *)
(* with one paster its paste is the one remembered.                        *)
LEMMA RefusedPasteKept ==
  ASSUME TypeOK, PasteInv, PasteHasNoHole, OnePaster, NEW w \in Writers, WriteRefused(w)
  PROVE  PasteInv' /\ PasteHasNoHole'
  <1>1. /\ sent \in [Writers -> Nat] /\ Pasters \subseteq Writers /\ accepted \in Seq(Bytes)
        /\ refused \subseteq Pasters \X Nat
    BY DEF TypeOK, Writers
  <1>2. /\ sent[w] < limit(w) /\ sent' = [sent EXCEPT ![w] = @ + 1] /\ accepted' = accepted
        /\ refusedPaste' = IF ~stillRefused(w) /\ w \in Pasters THEN paste(w) ELSE refusedPaste
        /\ refused' = IF w \in Pasters THEN refused \cup {<<w, sent[w]>>} ELSE refused
    BY DEF WriteRefused
  <1>3. \A p \in Writers : sent[p] \in Nat /\ sent'[p] = IF p = w THEN sent[w] + 1 ELSE sent[p]
    BY <1>1, <1>2
  <1>4. ASSUME NEW i \in 1..Len(accepted), accepted[i][1] \in Pasters
        PROVE  chunkOf(accepted[i]) \in Int /\ chunkOf(accepted[i]) < sent[accepted[i][1]]
    <2>1. accepted[i][2] \in Nat
      BY <1>1, <1>4, ElementOfSeq DEF Bytes
    <2> QED BY <1>4, <2>1, Sizes DEF chunkOf, PasteInv
  <1>5. ASSUME NEW r \in refused
        PROVE  /\ r[1] \in Pasters /\ r[1] \in Writers /\ r[2] \in Nat /\ r[2] < sent[r[1]]
               /\ r[2] \div Chunks = sent[r[1]] \div Chunks => refusedPaste = pasteOf(r[1], r[2])
    BY <1>1, <1>5 DEF PasteInv
  <1>6. \A i \in 1..Len(accepted') :
          accepted'[i][1] \in Pasters => chunkOf(accepted'[i]) < sent'[accepted'[i][1]]
    <2> SUFFICES ASSUME NEW i \in 1..Len(accepted), accepted[i][1] \in Pasters
                 PROVE  chunkOf(accepted[i]) < sent'[accepted[i][1]]
      BY <1>2
    <2> DEFINE p == accepted[i][1]
    <2>1. p \in Writers /\ chunkOf(accepted[i]) \in Int /\ chunkOf(accepted[i]) < sent[p]
      BY <1>1, <1>4
    <2> QED BY <1>3, <2>1
  <1>7. CASE w \in Pasters
    <2>1. Chunks \in Nat \ {0} /\ refusedPaste' = pasteOf(w, sent[w])
          /\ refused' = refused \cup {<<w, sent[w]>>}
      BY <1>2, <1>7, PasteTyped DEF stillRefused, paste
    <2>2. \A r \in refused : r[1] = w
      BY <1>5, <1>7 DEF OnePaster
    <2>3. ASSUME NEW r \in refused'
          PROVE  /\ r[2] < sent'[r[1]]
                 /\ r[2] \div Chunks = sent'[r[1]] \div Chunks => refusedPaste' = pasteOf(r[1], r[2])
      <3>1. CASE r \in refused
        <4>1. r[1] = w /\ r[2] \in Nat /\ r[2] < sent[w] /\ sent[w] \in Nat /\ sent'[w] = sent[w] + 1
          BY <1>3, <1>5, <2>2, <3>1
        <4>2. r[2] \div Chunks = (sent[w] + 1) \div Chunks => r[2] \div Chunks = sent[w] \div Chunks
          BY <2>1, <4>1, ChunksAreTogether
        <4> QED BY <2>1, <4>1, <4>2 DEF pasteOf
      <3>2. CASE r = <<w, sent[w]>>
        BY <1>3, <2>1, <3>2
      <3> QED BY <2>1, <2>3, <3>1, <3>2
    <2>4. PasteInv'
      BY <1>6, <2>3 DEF PasteInv
    <2>5. PasteHasNoHole'
      <3> SUFFICES ASSUME NEW r \in refused', NEW i \in 1..Len(accepted), accepted[i][1] = r[1]
                   PROVE  ~(chunkOf(accepted[i]) > r[2]
                              /\ pasteOf(r[1], chunkOf(accepted[i])) = pasteOf(r[1], r[2]))
        BY <1>2 DEF PasteHasNoHole, chunkOf
      <3>1. CASE r \in refused
        BY <3>1 DEF PasteHasNoHole, chunkOf
      <3>2. CASE r = <<w, sent[w]>>
        BY <1>3, <1>4, <1>7, <3>2
      <3> QED BY <2>1, <3>1, <3>2
    <2> QED BY <2>4, <2>5
  <1>8. CASE w \notin Pasters
    <2>1. refusedPaste' = refusedPaste /\ refused' = refused
      BY <1>2, <1>8
    <2>2. ASSUME NEW r \in refused PROVE sent'[r[1]] = sent[r[1]]
      BY <1>3, <1>5, <1>8, <2>2
    <2>3. PasteInv'
      BY <1>5, <1>6, <2>1, <2>2 DEF PasteInv
    <2>4. PasteHasNoHole'
      BY <1>2, <2>1 DEF PasteHasNoHole
    <2> QED BY <2>3, <2>4
  <1> QED BY <1>7, <1>8

(* The program gets a paste whole or the beginning of it, provided at most *)
(* one peer pastes: refusedPaste is one slot, which a refused chunk of a   *)
(* second paste would overwrite.                                           *)
THEOREM PasteGetsNoHole ==
  ASSUME OnePaster
  PROVE  Spec => []PasteHasNoHole
  <1> DEFINE Inv == PasteInv /\ PasteHasNoHole
  <1>1. Init => Inv
    BY DEF Init, PasteInv, PasteHasNoHole
  <1>2. TypeOK /\ Inv /\ [Next]_vars => Inv'
    <2> SUFFICES ASSUME TypeOK, PasteInv, PasteHasNoHole, [Next]_vars
                 PROVE  PasteInv' /\ PasteHasNoHole'
      OBVIOUS
    <2>1. ASSUME NEW w \in Writers, Write(w) \/ WriteToClosedSlave(w)
          PROVE  PasteInv' /\ PasteHasNoHole'
      BY <2>1, AcceptedPasteKept DEF Write, WriteToClosedSlave
    <2>2. ASSUME NEW w \in Writers, WriteRefused(w) PROVE PasteInv' /\ PasteHasNoHole'
      BY <2>2, RefusedPasteKept
    <2>3. ASSUME UNCHANGED <<refusedPaste, sent, accepted, refused>>
          PROVE  PasteInv' /\ PasteHasNoHole'
      BY <2>3 DEF PasteInv, PasteHasNoHole, chunkOf
    <2>4. CASE ProgramReads \/ SlaveCloses \/ FlushFails \/ StopWriting
      BY <2>3, <2>4 DEF ProgramReads, SlaveCloses, FlushFails, StopWriting, historyVars
    <2>5. CASE FlushPendingInput \/ UNCHANGED vars
      BY <2>3, <2>5 DEF FlushPendingInput, vars, historyVars
    <2> QED BY <2>1, <2>2, <2>4, <2>5 DEF Next
  <1>3. Inv => PasteHasNoHole
    OBVIOUS
  <1> QED BY <1>1, <1>2, <1>3, TypeCorrect, PTL DEF Spec
=============================================================================
