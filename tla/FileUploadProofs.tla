-------------------------- MODULE FileUploadProofs --------------------------
(***************************************************************************)
(* Proofs about FileUpload, for files of any length, any window and any    *)
(* number of links: what the host holds is a beginning of the file, a copy *)
(* that succeeded is the whole file as it was, and the client never        *)
(* mistakes an answer for one it does not wait for.                        *)
(*                                                                         *)
(* A file that is whole stays: nothing removes it once its upload is no    *)
(* longer open.  So an answer that says all of it came stays true however  *)
(* late it is read, and what the client concludes from it does too.        *)
(***************************************************************************)
EXTENDS FileUpload, Integers, SequenceTheorems, TLAPS

(* The versions of the file there may be copies of.                        *)
versions == IF edited THEN Version ELSE {"original"}

Request == {Begin, Question, Cancel}
             \cup [kind : {"part"}, offset : 0..(size - 1), version : versions]

Copy == [0..(size - 1) -> versions \cup {Hole}]

(* All of the file has come.                                               *)
Whole == file # <<>> /\ \A i \in 0..(size - 1) : file[1][i] # Hole

(* An answer that says so is true.                                         *)
TrueAnswer == {a \in [code : {"success", "misaligned", "refused"}, offset : 0..size] :
                 a.code = "success" /\ a.offset = size => Whole}

HostInv ==
    /\ upload \in {"none", "open", "finished"} /\ received \in 0..size
    /\ file = <<>> \/ \E f \in Copy : file = <<f>>
    /\ upload = "open" => /\ file # <<>> /\ received < size
                          /\ \A i \in 0..(size - 1) : i < received <=> file[1][i] # Hole
    /\ upload = "finished" => Whole

WireInv ==
    /\ sent \in Seq(Seq(Request)) /\ link \in 0..Len(sent)
    /\ back \in Seq(TrueAnswer)

ClientInv ==
    /\ size \in Nat /\ size \in Sizes /\ edited \in BOOLEAN
    /\ phase \in {"begin", "transfer", "done", "failed"}
    /\ held \in 0..size /\ next \in 0..size /\ inFlight \in Int /\ window \in 1..MaximumWindow
    /\ phase = "begin" => held = 0
    /\ pumping => phase = "transfer" /\ link # 0
    /\ phase = "transfer" /\ held = size => Whole
    /\ phase = "done" => ~edited /\ Whole

IInv == HostInv /\ WireInv /\ ClientInv

(* How many answers the client waits for; no more are under way.           *)
awaited == IF pumping THEN inFlight ELSE IF waiting THEN 1 ELSE 0

CountInv ==
    /\ inFlight \in 0..MaximumWindow
    /\ link = 0 => back = <<>> /\ ~pumping /\ ~waiting
    /\ link # 0 => Running /\ Len(back) + Len(sent[link]) <= awaited
    /\ pumping => inFlight > 0 /\ ~waiting /\ ~mustAsk
    /\ waiting => phase = "begin" \/ (mustAsk /\ held < size)

FlagInv ==
    /\ waiting \in BOOLEAN /\ mustAsk \in BOOLEAN /\ pumping \in BOOLEAN
    /\ expiry \in BOOLEAN /\ crashed \in BOOLEAN /\ excuse \in BOOLEAN

-----------------------------------------------------------------------------
(* Sequences. *)

(* The bounds are numbers.                                                 *)
LEMMA Constants == MaximumWindow \in Nat \ {0} /\ MaxLinks \in Nat \ {0} /\ Sizes \subseteq Nat
  BY SizesAssumption, WindowAssumption, LinksAssumption

(* One of a row of queues is replaced.                                     *)
LEMMA QueueReplaced ==
  ASSUME NEW S, NEW s \in Seq(Seq(S)), NEW l \in 1..Len(s), NEW q \in Seq(S),
         NEW t, t = [s EXCEPT ![l] = q]
  PROVE  /\ t \in Seq(Seq(S)) /\ Len(t) = Len(s) /\ t[l] = q
         /\ \A i \in 1..Len(s) : i # l => t[i] = s[i]
  <1>1. Len(s) \in Nat /\ s \in [1..Len(s) -> Seq(S)]
    BY LenProperties
  <1>2. t \in [1..Len(s) -> Seq(S)]
    BY <1>1
  <1>3. t \in Seq(Seq(S))
    BY <1>1, <1>2, SeqDef
  <1>4. Len(t) = Len(s)
    <2>1. DOMAIN t = 1..Len(s) /\ DOMAIN t = 1..Len(t) /\ Len(t) \in Nat
      BY <1>2, <1>3, LenProperties
    <2> QED BY <1>1, <2>1
  <1> QED BY <1>1, <1>3, <1>4

(* One element is taken out of a sequence (RemoveAt).                      *)
LEMMA Removed ==
  ASSUME NEW S, NEW s \in Seq(S), NEW i \in 1..Len(s)
  PROVE  RemoveAt(s, i) \in Seq(S) /\ Len(RemoveAt(s, i)) = Len(s) - 1
  <1>1. Len(s) \in Nat /\ \A j \in 1..Len(s) : s[j] \in S
    BY LenProperties, ElementOfSeq
  <1> DEFINE a == SubSeq(s, 1, i - 1)
             b == SubSeq(s, i + 1, Len(s))
  <1>2. a \in Seq(S) /\ Len(a) = i - 1
    <2>1. 1 \in Int /\ i - 1 \in Int /\ \A j \in 1..(i - 1) : s[j] \in S
      BY <1>1
    <2>2. a \in Seq(S) /\ Len(a) = IF 1 <= i - 1 THEN (i - 1) - 1 + 1 ELSE 0
      BY <2>1, SubSeqProperties
    <2> QED BY <1>1, <2>2
  <1>3. b \in Seq(S) /\ Len(b) = Len(s) - i
    <2>1. i + 1 \in Int /\ Len(s) \in Int /\ \A j \in (i + 1)..Len(s) : s[j] \in S
      BY <1>1
    <2>2. b \in Seq(S) /\ Len(b) = IF i + 1 <= Len(s) THEN Len(s) - (i + 1) + 1 ELSE 0
      BY <2>1, SubSeqProperties
    <2> QED BY <1>1, <2>2
  <1>4. RemoveAt(s, i) = a \o b
    BY DEF RemoveAt
  <1> HIDE DEF a, b
  <1>5. a \o b \in Seq(S) /\ Len(a \o b) = Len(a) + Len(b)
    BY <1>2, <1>3, ConcatProperties
  <1> QED BY <1>1, <1>2, <1>3, <1>4, <1>5

(* The first element is taken out.                                         *)
LEMMA FirstTaken ==
  ASSUME NEW S, NEW s \in Seq(S), s # <<>>
  PROVE  /\ Tail(s) \in Seq(S) /\ Len(s) \in Nat \ {0} /\ Len(Tail(s)) = Len(s) - 1
         /\ Head(s) \in S
  <1>1. Len(s) \in Nat /\ Len(s) # 0
    BY LenProperties, EmptySeq
  <1> QED BY <1>1, HeadTailProperties

-----------------------------------------------------------------------------
(* The host. *)

(* An open upload lacks something.                                         *)
LEMMA OpenIsNotWhole ==
  ASSUME IInv, upload = "open"
  PROVE  ~Whole
  <1>1. /\ size \in Nat /\ received \in 0..size /\ received < size
        /\ \A i \in 0..(size - 1) : i < received <=> file[1][i] # Hole
    BY DEF IInv, HostInv, ClientInv
  <1>2. received \in 0..(size - 1) /\ ~(received < received)
    BY <1>1
  <1> QED BY <1>1, <1>2 DEF Whole

(* Nothing the wires carry turns false while a whole file stays whole.     *)
LEMMA Grown ==
  ASSUME IInv, size' = size, edited' = edited \/ edited' = TRUE, Whole => Whole'
  PROVE  /\ Copy \subseteq Copy'
         /\ Seq(Seq(Request)) \subseteq Seq(Seq(Request'))
         /\ Seq(TrueAnswer) \subseteq Seq(TrueAnswer')
  <1>1. versions \subseteq versions'
    BY DEF versions, Version
  <1>2. Copy \subseteq Copy'
    BY <1>1 DEF Copy
  <1>3. Request \subseteq Request'
    BY <1>1 DEF Request
  <1>4. TrueAnswer \subseteq TrueAnswer'
    BY DEF TrueAnswer
  <1>5. Seq(Request) \subseteq Seq(Request')
    BY <1>3, SeqMonotonic
  <1>6. Seq(Seq(Request)) \subseteq Seq(Seq(Request')) /\ Seq(TrueAnswer) \subseteq Seq(TrueAnswer')
    BY <1>4, <1>5, SeqMonotonic
  <1> QED BY <1>2, <1>6

(* The file is left alone.                                                 *)
LEMMA HostUntouched ==
  ASSUME IInv, UNCHANGED <<size, upload, received, file>>, edited' = edited \/ edited' = TRUE
  PROVE  HostInv' /\ (Whole' <=> Whole)
  <1>1. Whole' <=> Whole
    BY DEF Whole
  <1>2. Copy \subseteq Copy'
    BY <1>1, Grown
  <1>3. HostInv
    BY DEF IInv
  <1>4. (file = <<>> \/ \E f \in Copy : file = <<f>>)'
    BY <1>2, <1>3 DEF HostInv
  <1>5. HostInv'
    BY <1>1, <1>3, <1>4 DEF HostInv
  <1> QED BY <1>1, <1>5

(* The host takes a request and answers it, or does not.                   *)
LEMMA RequestTaken ==
  ASSUME IInv, NEW l \in DOMAIN sent, NEW kind, take(l, kind),
         HostInv', Whole => Whole', back' = back \/ \E a \in TrueAnswer' : back' = Append(back, a)
  PROVE  IInv'
  <1>1. /\ sent[l] # <<>> /\ sent' = [sent EXCEPT ![l] = Tail(@)]
        /\ UNCHANGED <<size, edited, link, phase, held, next, inFlight, window, pumping>>
    BY DEF take, clientVars
  <1>2. sent \in Seq(Seq(Request)) /\ link \in 0..Len(sent) /\ back \in Seq(TrueAnswer)
    BY DEF IInv, WireInv
  <1>3. l \in 1..Len(sent)
    BY <1>2, LenProperties
  <1>4. sent[l] \in Seq(Request)
    BY <1>2, <1>3, ElementOfSeq
  <1>5. Tail(sent[l]) \in Seq(Request)
    BY <1>1, <1>4, FirstTaken
  <1>6. sent' \in Seq(Seq(Request)) /\ Len(sent') = Len(sent)
    BY <1>1, <1>2, <1>3, <1>5, QueueReplaced
  <1>7. Seq(Seq(Request)) \subseteq Seq(Seq(Request')) /\ Seq(TrueAnswer) \subseteq Seq(TrueAnswer')
    BY <1>1, Grown
  <1>8. back' \in Seq(TrueAnswer')
    <2>1. back \in Seq(TrueAnswer')
      BY <1>2, <1>7
    <2>2. ASSUME NEW a \in TrueAnswer' PROVE Append(back, a) \in Seq(TrueAnswer')
      BY <2>1, AppendProperties
    <2> QED BY <2>1, <2>2
  <1>9. WireInv'
    BY <1>1, <1>2, <1>6, <1>7, <1>8 DEF WireInv
  <1>10. ClientInv'
    BY <1>1 DEF IInv, ClientInv
  <1> QED BY <1>9, <1>10 DEF IInv

(* The answers of the host.                                                *)
LEMMA Answered ==
  ASSUME NEW l, NEW code \in {"success", "misaligned", "refused"}, NEW offset,
         offset \in 0..size', code = "success" /\ offset = size' => Whole', answer(l, code, offset)
  PROVE  back' = back \/ \E a \in TrueAnswer' : back' = Append(back, a)
  <1> DEFINE a == [code |-> code, offset |-> offset]
  <1>1. a \in TrueAnswer'
    <2>1. a \in [code : {"success", "misaligned", "refused"}, offset : 0..size']
      OBVIOUS
    <2>2. a.code = code /\ a.offset = offset
      OBVIOUS
    <2> HIDE DEF a
    <2>3. a.code = "success" /\ a.offset = size' => Whole'
      BY <2>2
    <2> QED BY <2>1, <2>3 DEF TrueAnswer
  <1>2. back' = back \/ back' = Append(back, a)
    BY DEF answer
  <1> QED BY <1>1, <1>2

(* The request at the head of a link.                                      *)
LEMMA HeadOfLink ==
  ASSUME IInv, NEW l \in DOMAIN sent, sent[l] # <<>>, Head(sent[l]).kind = "part"
  PROVE  Head(sent[l]).offset \in 0..(size - 1) /\ Head(sent[l]).version \in versions
  <1>1. sent \in Seq(Seq(Request))
    BY DEF IInv, WireInv
  <1>2. l \in 1..Len(sent)
    BY <1>1, LenProperties
  <1>3. sent[l] \in Seq(Request)
    BY <1>1, <1>2, ElementOfSeq
  <1>4. Head(sent[l]) \in Request
    BY <1>3, FirstTaken
  <1> QED BY <1>4 DEF Request, Begin, Question, Cancel

(* A begin makes a file where none is, and nowhere else.                   *)
LEMMA TakeBeginKept ==
  ASSUME IInv, NEW l \in DOMAIN sent, TakeBegin(l) \/ RefuseBegin(l)
  PROVE  IInv'
  <1>1. take(l, "begin") /\ size' = size /\ edited' = edited
    BY DEF TakeBegin, RefuseBegin, take
  <1>2. size \in Nat
    BY DEF IInv, ClientInv
  <1>3. CASE UNCHANGED hostVars
    <2>1. HostInv' /\ (Whole' <=> Whole)
      BY <1>1, <1>3, HostUntouched DEF hostVars
    <2>2. CASE answer(l, "refused", 0)
      <3>1. 0 \in 0..size' /\ "refused" # "success"
        BY <1>1, <1>2
      <3>2. back' = back \/ \E a \in TrueAnswer' : back' = Append(back, a)
        BY <2>2, <3>1, Answered
      <3> QED BY <1>1, <2>1, <3>2, RequestTaken
    <2>3. CASE answer(l, "success", 0) /\ alreadyBegun
      <3>1. 0 \in 0..size' /\ (0 = size' => Whole')
        BY <1>1, <1>2, <2>1, <2>3 DEF IInv, HostInv, alreadyBegun
      <3>2. back' = back \/ \E a \in TrueAnswer' : back' = Append(back, a)
        BY <2>3, <3>1, Answered
      <3> QED BY <1>1, <2>1, <3>2, RequestTaken
    <2>4. CASE ~taken /\ file' = <<blank>>
      BY <1>3, <2>4 DEF taken, hostVars
    <2> QED BY <2>2, <2>3, <2>4 DEF TakeBegin, RefuseBegin
  <1>4. CASE /\ ~taken /\ file' = <<blank>> /\ received' = 0
             /\ upload' = IF size = 0 THEN "finished" ELSE "open"
             /\ answer(l, "success", 0)
    <2>1. ~Whole
      BY <1>4 DEF taken, Whole
    <2>2. blank \in Copy' /\ \A i \in 0..(size - 1) : blank[i] = Hole
      BY <1>1 DEF blank, Copy
    <2>3. file'[1] = blank /\ file' # <<>>
      BY <1>4
    <2>4. size = 0 => Whole'
      BY <1>1, <2>3 DEF Whole
    <2>5. HostInv'
      <3>1. upload' \in {"none", "open", "finished"} /\ received' \in 0..size'
        BY <1>1, <1>2, <1>4
      <3>2. \E f \in Copy' : file' = <<f>>
        BY <1>4, <2>2
      <3>3. upload' = "open" => /\ file' # <<>> /\ received' < size'
                                /\ \A i \in 0..(size' - 1) : i < received' <=> file'[1][i] # Hole
        BY <1>1, <1>2, <1>4, <2>2, <2>3
      <3>4. upload' = "finished" => Whole'
        BY <1>4, <2>4
      <3> QED BY <3>1, <3>2, <3>3, <3>4 DEF HostInv
    <2>6. back' = back \/ \E a \in TrueAnswer' : back' = Append(back, a)
      <3>1. 0 \in 0..size' /\ (0 = size' => Whole')
        BY <1>1, <1>2, <2>4
      <3> QED BY <1>4, <3>1, Answered
    <2> QED BY <1>1, <2>1, <2>5, <2>6, RequestTaken
  <1> QED BY <1>3, <1>4 DEF TakeBegin, RefuseBegin

(* A question is answered with what is here.                               *)
LEMMA TakeAskKept ==
  ASSUME IInv, NEW l \in DOMAIN sent, TakeAsk(l)
  PROVE  IInv'
  <1>1. take(l, "ask") /\ size' = size /\ edited' = edited /\ UNCHANGED <<upload, received, file>>
    BY DEF TakeAsk, take, hostVars
  <1>2. HostInv' /\ (Whole' <=> Whole)
    BY <1>1, HostUntouched
  <1>3. size \in Nat /\ received \in 0..size
    BY DEF IInv, ClientInv, HostInv
  <1>4. back' = back \/ \E a \in TrueAnswer' : back' = Append(back, a)
    <2>1. CASE upload = "open" /\ answer(l, "success", received)
      <3>1. received < size
        BY <2>1 DEF IInv, HostInv
      <3>2. received \in 0..size' /\ received # size'
        BY <1>1, <1>3, <3>1
      <3> QED BY <2>1, <3>2, Answered
    <2>2. CASE upload = "finished" /\ answer(l, "success", size)
      <3>1. Whole' /\ size \in 0..size'
        BY <1>1, <1>2, <1>3, <2>2 DEF IInv, HostInv
      <3> QED BY <2>2, <3>1, Answered
    <2>3. CASE answer(l, "refused", 0)
      <3>1. 0 \in 0..size' /\ "refused" # "success"
        BY <1>1, <1>3
      <3> QED BY <2>3, <3>1, Answered
    <2> QED BY <2>1, <2>2, <2>3 DEF TakeAsk
  <1> QED BY <1>1, <1>2, <1>4, RequestTaken

(* A part is written where the file ends, or nowhere.                      *)
LEMMA TakePartKept ==
  ASSUME IInv, NEW l \in DOMAIN sent, TakePart(l)
  PROVE  IInv'
  <1> DEFINE offset == Head(sent[l]).offset
             version == Head(sent[l]).version
  <1>1. /\ take(l, "part") /\ size' = size /\ edited' = edited
        /\ sent[l] # <<>> /\ Head(sent[l]).kind = "part"
    BY DEF TakePart, take
  <1>2. offset \in 0..(size - 1) /\ version \in versions
    BY <1>1, HeadOfLink
  <1>3. size \in Nat /\ received \in 0..size /\ (upload = "open" => received < size)
    BY DEF IInv, ClientInv, HostInv
  <1>r. 0 \in 0..size' /\ received \in 0..size' /\ size \in 0..size' /\ offset + 1 \in 0..size'
    BY <1>1, <1>2, <1>3
  <1>v. versions' = versions /\ Copy' = Copy
    BY <1>1 DEF versions, Copy
  <1>t. \/ upload = "none" /\ answer(l, "refused", 0) /\ UNCHANGED hostVars
        \/ upload = "finished" /\ answer(l, "success", size) /\ UNCHANGED hostVars
        \/ upload = "open" /\ answer(l, "misaligned", received) /\ UNCHANGED hostVars
        \/ upload = "open" /\ answer(l, "success", received) /\ UNCHANGED hostVars
        \/ /\ upload = "open" /\ offset >= received /\ ~(offset > received)
           /\ file' = <<[file[1] EXCEPT ![offset] = version]>>
           /\ received' = offset + 1
           /\ upload' = IF offset + 1 = size THEN "finished" ELSE "open"
           /\ answer(l, "success", offset + 1)
        \/ upload = "open" /\ remove /\ answer(l, "refused", 0)
    BY DEF TakePart, leavesHole, finish
  <1> HIDE DEF offset, version
  <1>4. CASE UNCHANGED hostVars
    <2>1. HostInv' /\ (Whole' <=> Whole)
      BY <1>1, <1>4, HostUntouched DEF hostVars
    <2>2. back' = back \/ \E a \in TrueAnswer' : back' = Append(back, a)
      <3>1. CASE upload = "finished" /\ answer(l, "success", size)
        <4>1. Whole'
          BY <2>1, <3>1 DEF IInv, HostInv
        <4> QED BY <1>r, <3>1, <4>1, Answered
      <3>2. CASE upload = "open" /\ answer(l, "success", received)
        <4>1. received # size'
          BY <1>1, <1>3, <3>2
        <4> QED BY <1>r, <3>2, <4>1, Answered
      <3>3. CASE answer(l, "misaligned", received)
        BY <1>r, <3>3, Answered
      <3>4. CASE answer(l, "refused", 0)
        BY <1>r, <3>4, Answered
      <3>5. CASE upload = "open" /\ received' = offset + 1 /\ offset >= received
        BY <1>2, <1>3, <1>4, <3>5 DEF hostVars
      <3> QED BY <1>t, <3>1, <3>2, <3>3, <3>4, <3>5
    <2> QED BY <1>1, <2>1, <2>2, RequestTaken
  <1>5. CASE /\ upload = "open" /\ offset >= received /\ ~(offset > received)
             /\ file' = <<[file[1] EXCEPT ![offset] = version]>>
             /\ received' = offset + 1
             /\ upload' = IF offset + 1 = size THEN "finished" ELSE "open"
             /\ answer(l, "success", offset + 1)
    <2>1. offset = received
      BY <1>2, <1>3, <1>5
    <2>2. PICK f \in Copy : file = <<f>>
      BY <1>5 DEF IInv, HostInv
    <2>3. file[1] = f /\ \A i \in 0..(size - 1) : i < received <=> f[i] # Hole
      BY <1>5, <2>2 DEF IInv, HostInv
    <2> DEFINE g == [f EXCEPT ![offset] = version]
    <2>4. /\ g \in Copy /\ g[offset] = version /\ version # Hole
          /\ \A i \in 0..(size - 1) : i # offset => g[i] = f[i]
      BY <1>2, <2>2 DEF Copy, versions, Version, Hole
    <2>5. file' = <<g>> /\ file'[1] = g /\ file' # <<>>
      BY <1>5, <2>3
    <2> HIDE DEF g
    <2>6. \A i \in 0..(size - 1) : i < offset + 1 <=> g[i] # Hole
      <3> SUFFICES ASSUME NEW i \in 0..(size - 1) PROVE i < offset + 1 <=> g[i] # Hole
        OBVIOUS
      <3>1. CASE i = offset
        BY <1>2, <2>4, <3>1
      <3>2. CASE i # offset
        <4>1. i < offset + 1 <=> i < received
          BY <1>2, <1>3, <2>1, <3>2
        <4> QED BY <2>3, <2>4, <3>2, <4>1
      <3> QED BY <3>1, <3>2
    <2>7. offset + 1 = size => Whole'
      <3> SUFFICES ASSUME offset + 1 = size, NEW i \in 0..(size - 1) PROVE g[i] # Hole
        BY <1>1, <2>5 DEF Whole
      <3>1. i < offset + 1
        BY <1>2, <1>3
      <3> QED BY <2>6, <3>1
    <2>8. HostInv'
      <3>1. upload' \in {"none", "open", "finished"} /\ received' \in 0..size'
        BY <1>5, <1>r
      <3>2. \E h \in Copy' : file' = <<h>>
        BY <1>v, <2>4, <2>5
      <3>3. upload' = "open" => /\ file' # <<>> /\ received' < size'
                                /\ \A i \in 0..(size' - 1) : i < received' <=> file'[1][i] # Hole
        <4>1. upload' = "open" => offset + 1 < size
          BY <1>2, <1>3, <1>5
        <4> QED BY <1>1, <1>5, <2>5, <2>6, <4>1
      <3>4. upload' = "finished" => Whole'
        BY <1>5, <2>7
      <3> QED BY <3>1, <3>2, <3>3, <3>4 DEF HostInv
    <2>9. back' = back \/ \E a \in TrueAnswer' : back' = Append(back, a)
      <3>1. offset + 1 = size' => Whole'
        BY <1>1, <2>7
      <3> DEFINE n == offset + 1
      <3>2. n \in 0..size' /\ (n = size' => Whole') /\ answer(l, "success", n)
        BY <1>5, <1>r, <3>1
      <3> HIDE DEF n
      <3> QED BY <3>2, Answered
    <2>10. ~Whole
      BY <1>5, OpenIsNotWhole
    <2> QED BY <1>1, <2>8, <2>9, <2>10, RequestTaken
  <1>6. CASE upload = "open" /\ remove /\ answer(l, "refused", 0)
    <2>1. upload' = "none" /\ received' = 0 /\ file' = <<>> /\ ~Whole
      BY <1>6, OpenIsNotWhole DEF remove
    <2>2. HostInv'
      BY <1>r, <2>1 DEF HostInv
    <2>3. back' = back \/ \E a \in TrueAnswer' : back' = Append(back, a)
      BY <1>6, <1>r, Answered
    <2> QED BY <1>1, <2>1, <2>2, <2>3, RequestTaken
  <1> QED BY <1>4, <1>5, <1>6, <1>t

(* A cancel removes what is not whole, and only that.                      *)
LEMMA TakeCancelKept ==
  ASSUME IInv, NEW l \in DOMAIN sent, TakeCancel(l)
  PROVE  IInv'
  <1>1. take(l, "cancel") /\ size' = size /\ edited' = edited /\ back' = back
    BY DEF TakeCancel, take
  <1>2. CASE upload = "open"
    <2>1. upload' = "none" /\ received' = 0 /\ file' = <<>> /\ ~Whole
      BY <1>2, OpenIsNotWhole DEF TakeCancel, remove
    <2>2. size \in Nat
      BY DEF IInv, ClientInv
    <2>3. HostInv'
      BY <1>1, <2>1, <2>2 DEF HostInv
    <2> QED BY <1>1, <2>1, <2>3, RequestTaken
  <1>3. CASE upload # "open"
    <2>1. UNCHANGED <<upload, received, file>>
      BY <1>3 DEF TakeCancel, hostVars
    <2>2. HostInv' /\ (Whole' <=> Whole)
      BY <1>1, <2>1, HostUntouched
    <2> QED BY <1>1, <2>2, RequestTaken
  <1> QED BY <1>2, <1>3

(* The host forgets, expires or loses an upload: the client's side and     *)
(* the wires are as they were, or emptied.                                 *)
LEMMA ForgottenKept ==
  ASSUME IInv, ExpireIdle \/ OthersFinish \/ IODies
  PROVE  IInv'
  <1>1. /\ UNCHANGED <<size, edited, link, phase, held, next, inFlight, window, pumping>>
        /\ size \in Nat
    BY DEF ExpireIdle, OthersFinish, IODies, clientVars, IInv, ClientInv
  <1>2. HostInv' /\ (Whole => Whole')
    <2>1. CASE UNCHANGED <<upload, received, file>>
      BY <1>1, <2>1, HostUntouched
    <2>2. CASE upload = "open" /\ upload' = "none" /\ received' = 0 /\ file' = <<>>
      BY <1>1, <2>2, OpenIsNotWhole DEF HostInv
    <2>3. CASE upload' = "none" /\ received' = 0 /\ file' = file
      <3>1. Whole' <=> Whole
        BY <1>1, <2>3 DEF Whole
      <3>2. Copy' = Copy
        BY <1>1 DEF Copy, versions
      <3> QED BY <1>1, <2>3, <3>1, <3>2 DEF IInv, HostInv
    <2> QED BY <2>1, <2>2, <2>3 DEF ExpireIdle, OthersFinish, IODies
  <1>3. Seq(Seq(Request)) \subseteq Seq(Seq(Request')) /\ Seq(TrueAnswer) \subseteq Seq(TrueAnswer')
    BY <1>1, <1>2, Grown
  <1>4. sent \in Seq(Seq(Request)) /\ link \in 0..Len(sent) /\ back \in Seq(TrueAnswer)
    BY DEF IInv, WireInv
  <1>5. WireInv'
    <2>1. CASE UNCHANGED <<sent, back>>
      BY <1>1, <1>3, <1>4, <2>1 DEF WireInv
    <2>2. CASE sent' = [l \in DOMAIN sent |-> <<>>] /\ back' = <<>>
      <3>1. Len(sent) \in Nat /\ DOMAIN sent = 1..Len(sent)
        BY <1>4, LenProperties
      <3>2. <<>> \in Seq(Request)
        BY EmptySeq
      <3>3. sent' \in [1..Len(sent) -> Seq(Request)]
        BY <2>2, <3>1, <3>2
      <3>4. sent' \in Seq(Seq(Request))
        BY <3>1, <3>3, SeqDef
      <3>5. Len(sent') = Len(sent)
        <4>1. DOMAIN sent' = 1..Len(sent) /\ DOMAIN sent' = 1..Len(sent') /\ Len(sent') \in Nat
          BY <3>3, <3>4, LenProperties
        <4> QED BY <3>1, <4>1
      <3>6. back' \in Seq(TrueAnswer')
        BY <2>2, EmptySeq
      <3> QED BY <1>1, <1>3, <1>4, <3>4, <3>5, <3>6 DEF WireInv
    <2> QED BY <2>1, <2>2 DEF ExpireIdle, OthersFinish, IODies
  <1>6. ClientInv'
    BY <1>1, <1>2 DEF IInv, ClientInv
  <1> QED BY <1>2, <1>5, <1>6 DEF IInv

-----------------------------------------------------------------------------
(* The client. *)

(* A step of the client's: the host's side and the file stay.              *)
LEMMA FileUntouched ==
  ASSUME IInv, UNCHANGED <<size, edited, upload, received, file>>
  PROVE  HostInv' /\ (Whole' <=> Whole) /\ Request' = Request /\ TrueAnswer' = TrueAnswer
  <1>1. HostInv' /\ (Whole' <=> Whole)
    BY HostUntouched
  <1>2. versions' = versions
    BY DEF versions
  <1>3. Request' = Request
    BY <1>2 DEF Request
  <1>4. TrueAnswer' = TrueAnswer
    BY <1>1 DEF TrueAnswer
  <1> QED BY <1>1, <1>3, <1>4

(* What is known of the wires.                                             *)
LEMMA Wires ==
  ASSUME IInv
  PROVE  /\ sent \in Seq(Seq(Request)) /\ Len(sent) \in Nat /\ DOMAIN sent = 1..Len(sent)
         /\ link \in 0..Len(sent) /\ (link # 0 => link \in 1..Len(sent) /\ sent[link] \in Seq(Request))
         /\ back \in Seq(TrueAnswer) /\ Len(back) \in Nat /\ DOMAIN back = 1..Len(back)
         /\ \A i \in 1..Len(back) : back[i] \in TrueAnswer
         /\ size \in Nat
  <1>1. sent \in Seq(Seq(Request)) /\ link \in 0..Len(sent) /\ back \in Seq(TrueAnswer) /\ size \in Nat
    BY DEF IInv, WireInv, ClientInv
  <1>2. /\ Len(sent) \in Nat /\ DOMAIN sent = 1..Len(sent)
        /\ Len(back) \in Nat /\ DOMAIN back = 1..Len(back)
    BY <1>1, LenProperties
  <1>3. link # 0 => link \in 1..Len(sent)
    BY <1>1, <1>2
  <1>4. link # 0 => sent[link] \in Seq(Request)
    BY <1>1, <1>3, ElementOfSeq
  <1>5. \A i \in 1..Len(back) : back[i] \in TrueAnswer
    BY <1>1, ElementOfSeq
  <1> QED BY <1>1, <1>2, <1>3, <1>4, <1>5

(* A link more.                                                            *)
LEMMA LinkMore ==
  ASSUME NEW S, NEW s \in Seq(Seq(S)), NEW q \in Seq(S), NEW t, t = Append(s, q)
  PROVE  t \in Seq(Seq(S)) /\ Len(s) \in Nat /\ Len(t) = Len(s) + 1 /\ t[Len(s) + 1] = q
  <1>1. Len(s) \in Nat
    BY LenProperties
  <1> QED BY <1>1, AppendProperties

(* Parts fill the window: each of them is a part of the file.              *)
LEMMA Filled ==
  ASSUME IInv, link # 0, NEW n \in 0..size, NEW k \in Int, NEW w \in 1..MaximumWindow, fill(n, k, w)
  PROVE  /\ sent' \in Seq(Seq(Request)) /\ Len(sent') = Len(sent) /\ next' \in 0..size
         /\ \E count \in 0..(size - n) :
              /\ inFlight' = k + count /\ Len(sent'[link]) = Len(sent[link]) + count
              /\ pumping' = (k + count > 0)
              /\ k <= MaximumWindow => k + count <= MaximumWindow
              /\ n < size /\ k < w => count > 0
  <1> DEFINE room == IF w > k THEN w - k ELSE 0
             count == IF room < size - n THEN room ELSE size - n
             version == IF edited THEN "other" ELSE "original"
             parts == [j \in 1..count |-> Part(n + j - 1, version)]
  <1>1. size \in Nat /\ MaximumWindow \in Nat /\ room \in Nat
    BY Wires, Constants
  <1>2. /\ sent' = [sent EXCEPT ![link] = sent[link] \o parts] /\ next' = n + count
        /\ inFlight' = k + count /\ pumping' = (k + count > 0)
    BY DEF fill
  <1>3. count \in 0..(size - n) /\ (k <= MaximumWindow => k + count <= MaximumWindow)
        /\ (n < size /\ k < w => count > 0)
    BY <1>1
  <1>4. version \in versions
    BY DEF versions, Version
  <1> HIDE DEF count, version, room
  <1>5. count \in Nat /\ parts \in Seq(Request) /\ Len(parts) = count
    <2>1. count \in Nat
      BY <1>1, <1>3
    <2>2. ASSUME NEW j \in 1..count PROVE Part(n + j - 1, version) \in Request
      <3>1. n + j - 1 \in 0..(size - 1)
        BY <1>1, <1>3
      <3> QED BY <1>4, <3>1 DEF Request, Part
    <2>3. parts \in [1..count -> Request]
      BY <2>2
    <2>4. parts \in Seq(Request)
      BY <2>1, <2>3, SeqDef
    <2>5. Len(parts) = count
      <3>1. DOMAIN parts = 1..count /\ DOMAIN parts = 1..Len(parts) /\ Len(parts) \in Nat
        BY <2>4, LenProperties
      <3> QED BY <2>1, <3>1
    <2> QED BY <2>1, <2>4, <2>5
  <1> HIDE DEF parts
  <1>6. sent[link] \o parts \in Seq(Request) /\ Len(sent[link] \o parts) = Len(sent[link]) + count
    BY <1>5, Wires, ConcatProperties
  <1> DEFINE q == sent[link] \o parts
  <1>q. q \in Seq(Request) /\ Len(q) = Len(sent[link]) + count /\ sent' = [sent EXCEPT ![link] = q]
    BY <1>2, <1>6
  <1> HIDE DEF q
  <1>7. sent' \in Seq(Seq(Request)) /\ Len(sent') = Len(sent) /\ sent'[link] = q
    BY <1>q, Wires, QueueReplaced
  <1>8. next' \in 0..size
    BY <1>1, <1>2, <1>3
  <1> QED BY <1>2, <1>3, <1>7, <1>8, <1>q

(* A copy is given up.                                                     *)
LEMMA GivenUp ==
  ASSUME IInv, NEW abandons, giveUp(abandons), UNCHANGED <<size, edited, upload, received, file>>
  PROVE  IInv'
  <1>1. /\ phase' = "failed" /\ link' = 0 /\ back' = <<>> /\ ~pumping'
        /\ held' = 0 /\ next' = 0 /\ inFlight' = 0 /\ window' = 1
        /\ sent' = sent \/ sent' = Append(sent, <<Cancel>>)
    BY DEF giveUp
  <1>2. HostInv' /\ Request' = Request /\ TrueAnswer' = TrueAnswer
    BY FileUntouched
  <1>3. <<Cancel>> \in Seq(Request)
    <2>1. Cancel \in Request
      BY DEF Request
    <2> QED BY <2>1
  <1>4. sent' \in Seq(Seq(Request)) /\ Len(sent') \in Nat
    BY <1>1, <1>3, Wires, LinkMore, LenProperties
  <1>5. back' \in Seq(TrueAnswer)
    BY <1>1, EmptySeq
  <1>6. WireInv'
    BY <1>1, <1>2, <1>4, <1>5 DEF WireInv
  <1>7. ClientInv'
    BY <1>1, Constants DEF IInv, ClientInv
  <1> QED BY <1>2, <1>6, <1>7 DEF IInv

(* The link is dropped.                                                    *)
LEMMA LinkDropped ==
  ASSUME IInv, dropLink, UNCHANGED <<size, edited, upload, received, file>>, window' \in 1..MaximumWindow
  PROVE  IInv'
  <1>1. /\ link' = 0 /\ back' = <<>> /\ ~pumping' /\ next' = 0 /\ inFlight' = 0
        /\ UNCHANGED <<phase, sent, held>>
    BY DEF dropLink
  <1>2. HostInv' /\ (Whole' <=> Whole) /\ Request' = Request /\ TrueAnswer' = TrueAnswer
    BY FileUntouched
  <1>3. back' \in Seq(TrueAnswer)
    BY <1>1, EmptySeq
  <1>4. WireInv'
    BY <1>1, <1>2, <1>3, Wires DEF WireInv
  <1>5. ClientInv'
    BY <1>1, <1>2 DEF IInv, ClientInv
  <1> QED BY <1>2, <1>4, <1>5 DEF IInv

(* A link is made, refused, or left to its fate; a request leaves on it.   *)
LEMMA SentKept ==
  ASSUME IInv, \/ Connect \/ ConnectFails \/ SendBegin \/ SendAsk
               \/ \E l \in DOMAIN sent : StrayLost(l)
  PROVE  IInv'
  <1>1. UNCHANGED <<size, edited, upload, received, file, back, phase, pumping, held, next, inFlight, window>>
    BY DEF Connect, ConnectFails, SendBegin, SendAsk, StrayLost, clientVars, hostVars
  <1>2. HostInv' /\ (Whole' <=> Whole) /\ Request' = Request /\ TrueAnswer' = TrueAnswer
    BY <1>1, FileUntouched
  <1>3. sent' \in Seq(Seq(Request)) /\ link' \in 0..Len(sent') /\ (link' = link \/ link' # 0)
    <2>1. CASE Connect
      <3>1. <<>> \in Seq(Request)
        BY EmptySeq
      <3>2. sent' = Append(sent, <<>>) /\ link' = Len(sent) + 1
        BY <2>1 DEF Connect
      <3>3. sent' \in Seq(Seq(Request)) /\ Len(sent) \in Nat /\ Len(sent') = Len(sent) + 1
        BY <3>1, <3>2, Wires, LinkMore
      <3> QED BY <3>2, <3>3
    <2>2. CASE ConnectFails
      BY <2>2, Wires DEF ConnectFails
    <2>3. ASSUME NEW r \in {Begin, Question}, link # 0, link' = link,
                 sent' = [sent EXCEPT ![link] = Append(@, r)]
          PROVE  sent' \in Seq(Seq(Request)) /\ link' \in 0..Len(sent')
      <3> DEFINE q == Append(sent[link], r)
      <3>1. r \in Request
        BY <2>3 DEF Request
      <3>2. q \in Seq(Request)
        BY <2>3, <3>1, Wires, AppendProperties
      <3>3. sent' = [sent EXCEPT ![link] = q]
        BY <2>3
      <3> HIDE DEF q
      <3>4. sent' \in Seq(Seq(Request)) /\ Len(sent') = Len(sent)
        BY <2>3, <3>2, <3>3, Wires, QueueReplaced
      <3> QED BY <2>3, <3>4, Wires
    <2>4. CASE SendBegin \/ SendAsk
      BY <2>3, <2>4 DEF SendBegin, SendAsk
    <2>5. ASSUME NEW l \in DOMAIN sent, StrayLost(l)
          PROVE  sent' \in Seq(Seq(Request)) /\ link' \in 0..Len(sent') /\ link' = link
      <3>1. sent' = [sent EXCEPT ![l] = <<>>] /\ link' = link
        BY <2>5 DEF StrayLost
      <3>2. <<>> \in Seq(Request)
        BY EmptySeq
      <3>3. sent' \in Seq(Seq(Request)) /\ Len(sent') = Len(sent)
        BY <3>1, <3>2, Wires, QueueReplaced
      <3> QED BY <3>1, <3>3, Wires
    <2> QED BY <2>1, <2>2, <2>4, <2>5 DEF SendBegin, SendAsk
  <1>4. WireInv'
    BY <1>1, <1>2, <1>3, Wires DEF WireInv
  <1>5. ClientInv'
    BY <1>1, <1>2, <1>3 DEF IInv, ClientInv
  <1> QED BY <1>2, <1>4, <1>5 DEF IInv

(* Parts leave.                                                            *)
LEMMA PumpKept ==
  ASSUME IInv, Pump
  PROVE  IInv'
  <1>1. /\ phase = "transfer" /\ link # 0 /\ fill(held, 0, window)
        /\ UNCHANGED <<size, edited, upload, received, file, link, back, phase, held, window>>
    BY DEF Pump, hostVars
  <1>2. HostInv' /\ (Whole' <=> Whole) /\ Request' = Request /\ TrueAnswer' = TrueAnswer
    BY <1>1, FileUntouched
  <1>3. held \in 0..size /\ 0 \in Int /\ window \in 1..MaximumWindow
    BY DEF IInv, ClientInv
  <1>4. /\ sent' \in Seq(Seq(Request)) /\ Len(sent') = Len(sent) /\ next' \in 0..size
        /\ \E count \in 0..(size - held) : inFlight' = 0 + count
    BY <1>1, <1>3, Filled
  <1>5. inFlight' \in Int
    BY <1>3, <1>4, Wires
  <1>6. WireInv'
    BY <1>1, <1>2, <1>4, Wires DEF WireInv
  <1>7. ClientInv'
    BY <1>1, <1>2, <1>4, <1>5 DEF IInv, ClientInv
  <1> QED BY <1>2, <1>6, <1>7 DEF IInv

(* The host says the upload is begun, or how much of it is there.          *)
LEMMA AnswerReadKept ==
  ASSUME IInv, ReadBeginAnswer \/ ReadAskAnswer
  PROVE  IInv'
  <1>1. UNCHANGED <<size, edited, upload, received, file>> /\ back # <<>>
    BY DEF ReadBeginAnswer, ReadAskAnswer, hostVars
  <1>2. HostInv' /\ (Whole' <=> Whole) /\ Request' = Request /\ TrueAnswer' = TrueAnswer
    BY <1>1, FileUntouched
  <1>3. Tail(back) \in Seq(TrueAnswer) /\ Head(back) \in TrueAnswer
    BY <1>1, Wires, FirstTaken
  <1>4. Head(back).offset \in 0..size /\ (Head(back).code = "success" /\ Head(back).offset = size => Whole)
    BY <1>3 DEF TrueAnswer
  <1>5. CASE \E abandons \in BOOLEAN : giveUp(abandons)
    BY <1>1, <1>5, GivenUp
  <1>6. CASE /\ phase = "begin" /\ Head(back).code = "success" /\ phase' = "transfer" /\ back' = Tail(back)
             /\ UNCHANGED <<link, sent, pumping, held, next, inFlight, window>>
    <2>1. WireInv'
      BY <1>2, <1>3, <1>6, Wires DEF WireInv
    <2>2. held = size => Whole
      <3>1. held = 0
        BY <1>6 DEF IInv, ClientInv
      <3>2. size = 0 => Head(back).offset = size
        BY <1>4
      <3> QED BY <1>4, <1>6, <3>1, <3>2
    <2>3. ClientInv'
      BY <1>1, <1>2, <1>6, <2>2 DEF IInv, ClientInv
    <2> QED BY <1>2, <2>1, <2>3 DEF IInv
  <1>7. CASE /\ phase = "transfer" /\ Head(back).code = "success" /\ held' = Head(back).offset
             /\ back' = Tail(back) /\ UNCHANGED <<link, sent, phase, pumping, next, inFlight, window>>
    <2>1. WireInv'
      BY <1>2, <1>3, <1>7, Wires DEF WireInv
    <2>2. ClientInv'
      BY <1>1, <1>2, <1>4, <1>7 DEF IInv, ClientInv
    <2> QED BY <1>2, <2>1, <2>2 DEF IInv
  <1> QED BY <1>5, <1>6, <1>7 DEF ReadBeginAnswer, ReadAskAnswer

(* A part is answered, in whatever order.                                  *)
LEMMA PartAnswerKept ==
  ASSUME IInv, NEW i \in DOMAIN back, ReadPartAnswer(i)
  PROVE  IInv'
  <1>1. UNCHANGED <<size, edited, upload, received, file>> /\ pumping
    BY DEF ReadPartAnswer, hostVars
  <1>2. HostInv' /\ (Whole' <=> Whole) /\ Request' = Request /\ TrueAnswer' = TrueAnswer
    BY <1>1, FileUntouched
  <1>3. i \in 1..Len(back) /\ back[i] \in TrueAnswer
    BY Wires
  <1>4. /\ back[i].offset \in 0..size
        /\ back[i].code = "success" /\ back[i].offset = size => Whole
    BY <1>3 DEF TrueAnswer
  <1>5. CASE back[i].code = "refused" /\ giveUp(TRUE)
    BY <1>1, <1>5, GivenUp
  <1>6. CASE back[i].code = "misaligned" /\ dropLink /\ UNCHANGED window
    BY <1>1, <1>6, LinkDropped DEF IInv, ClientInv
  <1>7. CASE /\ back[i].code = "success"
             /\ held' = larger(held, back[i].offset)
             /\ window' \in {window, window + 1} /\ window' <= MaximumWindow
             /\ fill(larger(next, held'), inFlight - 1, window')
             /\ back' = RemoveAt(back, i)
             /\ UNCHANGED <<link, phase, waiting, mustAsk>>
    <2>1. /\ size \in Nat /\ held \in 0..size /\ next \in 0..size /\ inFlight \in Int
          /\ window \in 1..MaximumWindow /\ phase = "transfer" /\ link # 0
          /\ (held = size => Whole)
      BY <1>1 DEF IInv, ClientInv
    <2>2. held' \in 0..size /\ (held' = size => Whole)
      BY <1>4, <1>7, <2>1 DEF larger
    <2> DEFINE n == larger(next, held')
               k == inFlight - 1
               w == window'
    <2>3. n \in 0..size /\ k \in Int /\ w \in 1..MaximumWindow
      BY <1>7, <2>1, <2>2, Constants DEF larger
    <2>4. fill(n, k, w)
      BY <1>7
    <2> HIDE DEF n, k, w
    <2>5. /\ sent' \in Seq(Seq(Request)) /\ Len(sent') = Len(sent) /\ next' \in 0..size
          /\ \E count \in 0..(size - n) : inFlight' = k + count
      BY <2>1, <2>3, <2>4, Filled
    <2>6. inFlight' \in Int
      BY <2>1, <2>3, <2>5
    <2>7. back' \in Seq(TrueAnswer)
      BY <1>3, <1>7, Wires, Removed
    <2>8. WireInv'
      BY <1>2, <1>7, <2>5, <2>7, Wires DEF WireInv
    <2>9. ClientInv'
      <3>1. window' \in 1..MaximumWindow
        BY <2>3 DEF w
      <3> QED BY <1>1, <1>2, <1>7, <2>1, <2>2, <2>5, <2>6, <3>1 DEF IInv, ClientInv
    <2> QED BY <1>2, <2>8, <2>9 DEF IInv
  <1> QED BY <1>5, <1>6, <1>7 DEF ReadPartAnswer

(* The link fails, or the copy comes to an end.                            *)
LEMMA EndsKept ==
  ASSUME IInv, LinkFails \/ Finish \/ Stall \/ TaskCancelled \/ ReadFails
  PROVE  IInv'
  <1>1. UNCHANGED <<size, edited, upload, received, file>>
    BY DEF LinkFails, Finish, Stall, TaskCancelled, ReadFails, hostVars
  <1>2. HostInv' /\ (Whole' <=> Whole) /\ Request' = Request /\ TrueAnswer' = TrueAnswer
    BY <1>1, FileUntouched
  <1>3. CASE LinkFails
    <2>1. window \in 1..MaximumWindow
      BY DEF IInv, ClientInv
    <2>2. halved(window) \in 1..MaximumWindow
      BY <2>1, Constants DEF halved
    <2>3. window' \in 1..MaximumWindow
      BY <1>3, <2>1, <2>2 DEF LinkFails
    <2> QED BY <1>1, <1>3, <2>3, LinkDropped DEF LinkFails
  <1>4. CASE \E abandons \in BOOLEAN : giveUp(abandons)
    BY <1>1, <1>4, GivenUp
  <1>5. CASE /\ phase = "transfer" /\ held >= size /\ ~pumping /\ unchanged
             /\ phase' = "done" /\ link' = 0 /\ back' = <<>>
             /\ UNCHANGED <<sent, pumping, held, next, inFlight, window>>
    <2>1. back' \in Seq(TrueAnswer)
      BY <1>5, EmptySeq
    <2>2. WireInv'
      BY <1>2, <1>5, <2>1, Wires DEF WireInv
    <2>3. Whole /\ ~edited
      BY <1>5 DEF IInv, ClientInv, unchanged
    <2>4. ClientInv'
      BY <1>1, <1>2, <1>5, <2>3 DEF IInv, ClientInv
    <2> QED BY <1>2, <2>2, <2>4 DEF IInv
  <1> QED BY <1>3, <1>4, <1>5 DEF Finish, Stall, TaskCancelled, ReadFails

(* The file is written to while it is copied.                              *)
LEMMA FileEditedKept ==
  ASSUME IInv, FileEdited
  PROVE  IInv'
  <1>1. /\ UNCHANGED <<size, upload, received, file, link, sent, back, phase, pumping, held, next, inFlight, window>>
        /\ edited' = TRUE /\ Running
    BY DEF FileEdited, hostVars, clientVars
  <1>2. HostInv' /\ (Whole' <=> Whole)
    BY <1>1, HostUntouched
  <1>3. Seq(Seq(Request)) \subseteq Seq(Seq(Request')) /\ Seq(TrueAnswer) \subseteq Seq(TrueAnswer')
    BY <1>1, <1>2, Grown
  <1>4. WireInv'
    BY <1>1, <1>3, Wires DEF WireInv
  <1>5. edited' \in BOOLEAN
    BY <1>1, Zenon
  <1>6. ClientInv'
    BY <1>1, <1>2, <1>5 DEF IInv, ClientInv, Running
  <1> QED BY <1>2, <1>4, <1>6 DEF IInv

-----------------------------------------------------------------------------
(* The copy. *)

(* Every step of the copy, of the host and of the world.                   *)
LEMMA StepKept ==
  ASSUME IInv, [Next]_vars
  PROVE  IInv'
  <1>1. CASE UNCHANGED vars
    <2>1. UNCHANGED <<size, edited, upload, received, file, link, sent, back, phase, pumping, held, next,
                      inFlight, window>>
      BY <1>1 DEF vars, clientVars, hostVars
    <2>2. HostInv' /\ (Whole' <=> Whole) /\ Request' = Request /\ TrueAnswer' = TrueAnswer
      BY <2>1, FileUntouched
    <2>3. WireInv' /\ ClientInv'
      BY <2>1, <2>2 DEF IInv, WireInv, ClientInv
    <2> QED BY <2>2, <2>3 DEF IInv
  <1>2. ASSUME NEW l \in DOMAIN sent, HostTakes(l)
        PROVE  IInv'
    BY <1>2, TakeBeginKept, TakeAskKept, TakePartKept, TakeCancelKept DEF HostTakes
  <1> QED BY <1>1, <1>2, SentKept, PumpKept, AnswerReadKept, PartAnswerKept, EndsKept, FileEditedKept,
             ForgottenKept DEF Next

(* Answers stay true however late they are read, and whatever the host     *)
(* holds of an open upload is a beginning of the file                      *)
(* (FileUploadStore.write, DaemonFileUpload.pump).                         *)
THEOREM UploadInvariant == Spec => []IInv
  <1>1. Init => IInv
    <2> SUFFICES ASSUME Init PROVE IInv
      OBVIOUS
    <2>1. size \in Nat /\ size \in Sizes /\ edited \in BOOLEAN
      BY Constants DEF Init
    <2>2. HostInv
      BY <2>1 DEF Init, HostInv
    <2>3. WireInv
      <3>1. <<>> \in Seq(Seq(Request)) /\ <<>> \in Seq(TrueAnswer) /\ Len(<<>>) = 0
        BY EmptySeq
      <3> QED BY <3>1 DEF Init, WireInv
    <2>4. ClientInv
      BY <2>1, Constants DEF Init, ClientInv
    <2> QED BY <2>2, <2>3, <2>4 DEF IInv
  <1>2. IInv /\ [Next]_vars => IInv'
    BY StepKept
  <1> QED BY <1>1, <1>2, PTL DEF Spec

(* What the host holds of an open upload is a beginning of the file        *)
(* without a hole, whatever parts two links sent twice                     *)
(* (FileUploadStore.write).                                                *)
THEOREM PrefixIsHeld == Spec => []HostHoldsPrefix
  <1>1. IInv => HostHoldsPrefix
    <2> SUFFICES ASSUME IInv, upload = "open", NEW i \in 0..(size - 1)
                 PROVE  (i < received) = (file[1][i] # Hole)
      BY DEF HostHoldsPrefix
    <2>1. i < received <=> file[1][i] # Hole
      BY DEF IInv, HostInv
    <2>2. (i < received) \in BOOLEAN
      BY DEF IInv, HostInv, ClientInv
    <2> QED BY <2>1, <2>2
  <1> QED BY <1>1, UploadInvariant, PTL

(* A copy that succeeded left the whole file, as it was when the copy      *)
(* started, and no late request of a dead link takes it away again         *)
(* (DaemonFileUpload.run, FileUploadStore.finish and remove).              *)
THEOREM SuccessIsWhole == Spec => []WholeFileOnSuccess
  <1>1. IInv => WholeFileOnSuccess
    <2> SUFFICES ASSUME IInv, phase = "done"
                 PROVE  file = <<[i \in 0..(size - 1) |-> "original"]>>
      BY DEF WholeFileOnSuccess
    <2>1. ~edited /\ Whole
      BY DEF IInv, ClientInv
    <2>2. PICK f \in Copy : file = <<f>>
      BY <2>1 DEF IInv, HostInv, Whole
    <2>3. f \in [0..(size - 1) -> {"original", Hole}] /\ \A i \in 0..(size - 1) : f[i] # Hole
      BY <2>1, <2>2 DEF Copy, versions, Whole
    <2>4. f = [i \in 0..(size - 1) |-> "original"]
      BY <2>3
    <2> QED BY <2>2, <2>4
  <1> QED BY <1>1, UploadInvariant, PTL

-----------------------------------------------------------------------------
(* What the client waits for. *)

(* How much is awaited is a number.                                        *)
LEMMA AwaitedTyped ==
  ASSUME CountInv
  PROVE  awaited \in Nat /\ inFlight \in Nat /\ inFlight <= MaximumWindow
  BY Constants DEF CountInv, awaited

(* A link left alone, or emptied, and the client with it.                  *)
LEMMA NoMoreUnderWay ==
  ASSUME CountInv, UNCHANGED <<size, phase, held, waiting, mustAsk, pumping, inFlight, link>>,
         link = 0 => back' = <<>>,
         link # 0 => /\ Len(back) \in Nat /\ Len(sent[link]) \in Nat
                     /\ Len(back') \in Nat /\ Len(sent'[link]) \in Nat
                     /\ Len(back') + Len(sent'[link]) <= Len(back) + Len(sent[link])
  PROVE  CountInv'
  <1>1. awaited' = awaited
    BY DEF awaited
  <1>2. link # 0 => Len(back') + Len(sent'[link]) <= awaited
    BY AwaitedTyped DEF CountInv
  <1> QED BY <1>1, <1>2 DEF CountInv, Running

(* The host takes a request: one less on the way there, at most one more   *)
(* on the way back.                                                        *)
LEMMA TakenCounted ==
  ASSUME IInv, CountInv, NEW l \in DOMAIN sent, HostTakes(l)
  PROVE  CountInv'
  <1>1. \E kind \in {"begin", "ask", "part", "cancel"} : take(l, kind)
    BY DEF HostTakes, TakeBegin, RefuseBegin, TakeAsk, TakePart, TakeCancel
  <1>2. /\ sent[l] # <<>> /\ sent' = [sent EXCEPT ![l] = Tail(@)]
        /\ UNCHANGED <<size, phase, held, waiting, mustAsk, pumping, inFlight, link>>
    BY <1>1 DEF take, clientVars
  <1>3. back' = back \/ (l = link /\ \E a : back' = Append(back, a))
    BY DEF HostTakes, TakeBegin, RefuseBegin, TakeAsk, TakePart, TakeCancel, answer
  <1>4. back' \in Seq(TrueAnswer') /\ sent' \in Seq(Seq(Request'))
    BY <1>1, StepKept DEF IInv, WireInv, Next
  <1>5. Len(back') \in Nat
    BY <1>4, LenProperties
  <1>6. Len(back') = Len(back) \/ (l = link /\ Len(back') = Len(back) + 1)
    <2>1. ASSUME NEW a PROVE Len(Append(back, a)) = Len(back) + 1
      <3>1. back \in Seq(TrueAnswer \cup {a})
        BY Wires, SeqMonotonic
      <3> QED BY <3>1, AppendProperties
    <2> QED BY <1>3, <2>1
  <1>7. sent[l] \in Seq(Request) /\ l \in 1..Len(sent)
    BY Wires, ElementOfSeq
  <1>8. /\ Tail(sent[l]) \in Seq(Request) /\ Len(sent[l]) \in Nat \ {0} /\ Len(Tail(sent[l])) = Len(sent[l]) - 1
    BY <1>2, <1>7, FirstTaken
  <1>9. sent'[l] = Tail(sent[l]) /\ \A i \in 1..Len(sent) : i # l => sent'[i] = sent[i]
    BY <1>2, <1>7, <1>8, Wires, QueueReplaced
  <1>10. link = 0 => back' = <<>>
    BY <1>3, <1>7, Wires DEF CountInv
  <1>11. link # 0 => /\ Len(back) \in Nat /\ Len(sent[link]) \in Nat
                     /\ Len(back') \in Nat /\ Len(sent'[link]) \in Nat
                     /\ Len(back') + Len(sent'[link]) <= Len(back) + Len(sent[link])
    <2> SUFFICES ASSUME link # 0
                 PROVE  /\ Len(back) \in Nat /\ Len(sent[link]) \in Nat
                        /\ Len(back') \in Nat /\ Len(sent'[link]) \in Nat
                        /\ Len(back') + Len(sent'[link]) <= Len(back) + Len(sent[link])
      OBVIOUS
    <2>1. link \in 1..Len(sent) /\ Len(sent[link]) \in Nat /\ Len(back) \in Nat
      BY Wires, LenProperties
    <2>2. CASE l = link
      BY <1>5, <1>6, <1>8, <1>9, <2>1, <2>2
    <2>3. CASE l # link
      <3>1. sent'[link] = sent[link] /\ Len(back') = Len(back)
        BY <1>6, <1>9, <2>1, <2>3
      <3> QED BY <2>1, <3>1
    <2> QED BY <2>2, <2>3
  <1> QED BY <1>2, <1>10, <1>11, NoMoreUnderWay

(* A request leaves, when nothing is awaited.                              *)
LEMMA AskedCounted ==
  ASSUME IInv, CountInv, SendBegin \/ SendAsk
  PROVE  CountInv'
  <1>1. /\ link # 0 /\ ~waiting /\ ~pumping /\ waiting' /\ ~pumping'
        /\ UNCHANGED <<size, phase, held, mustAsk, pumping, inFlight, link, back>>
        /\ phase = "begin" \/ (phase = "transfer" /\ mustAsk /\ held < size)
        /\ \E r \in {Begin, Question} : sent' = [sent EXCEPT ![link] = Append(@, r)]
    BY DEF SendBegin, SendAsk, IInv, ClientInv
  <1>2. awaited = 0 /\ awaited' = 1
    BY <1>1 DEF awaited
  <1>3. link \in 1..Len(sent) /\ sent[link] \in Seq(Request) /\ Len(back) \in Nat
    BY <1>1, Wires
  <1>4. Len(sent[link]) \in Nat
    BY <1>3, LenProperties
  <1>5. Len(back) + Len(sent[link]) <= 0
    BY <1>1, <1>2 DEF CountInv
  <1>6. Len(sent'[link]) = Len(sent[link]) + 1
    <2>1. ASSUME NEW r \in {Begin, Question} PROVE Len(Append(sent[link], r)) = Len(sent[link]) + 1
      <3>1. r \in Request
        BY DEF Request
      <3> QED BY <1>3, <3>1, AppendProperties
    <2>2. \E r \in {Begin, Question} : sent'[link] = Append(sent[link], r)
      BY <1>1, <1>3, Wires
    <2> QED BY <2>1, <2>2
  <1>7. Len(back') + Len(sent'[link']) <= awaited'
    BY <1>1, <1>2, <1>3, <1>4, <1>5, <1>6
  <1> QED BY <1>1, <1>7 DEF CountInv, Running

(* Parts leave, when nothing is awaited.                                   *)
LEMMA PumpCounted ==
  ASSUME IInv, CountInv, Pump
  PROVE  CountInv'
  <1>1. /\ phase = "transfer" /\ link # 0 /\ ~mustAsk /\ ~pumping /\ held < size /\ fill(held, 0, window)
        /\ UNCHANGED <<link, back, phase, waiting, mustAsk>>
    BY DEF Pump
  <1>2. ~waiting
    BY <1>1 DEF CountInv
  <1>3. held \in 0..size /\ 0 \in Int /\ window \in 1..MaximumWindow /\ size \in Nat
    BY DEF IInv, ClientInv
  <1>4. PICK count \in 0..(size - held) :
              /\ inFlight' = 0 + count /\ Len(sent'[link]) = Len(sent[link]) + count
              /\ pumping' = (0 + count > 0)
              /\ 0 <= MaximumWindow => 0 + count <= MaximumWindow
              /\ held < size /\ 0 < window => count > 0
    BY <1>1, <1>3, Filled
  <1>5. count \in Nat /\ count > 0 /\ inFlight' = count /\ count <= MaximumWindow /\ pumping'
    <2>1. count \in Nat /\ MaximumWindow \in Nat /\ 0 < window
      BY <1>3, Constants
    <2>2. count > 0
      BY <1>1, <1>4, <2>1
    <2>3. inFlight' = count /\ count <= MaximumWindow
      BY <1>4, <2>1
    <2>4. 0 + count > 0
      BY <2>1, <2>2
    <2>5. pumping'
      BY <1>4, <2>4
    <2> QED BY <2>1, <2>2, <2>3, <2>5
  <1>6. Len(back) + Len(sent[link]) <= 0 /\ Len(back) \in Nat /\ Len(sent[link]) \in Nat
    BY <1>1, <1>2, Wires, LenProperties DEF CountInv, awaited
  <1>7. Len(back') + Len(sent'[link']) <= awaited'
    BY <1>1, <1>4, <1>5, <1>6 DEF awaited
  <1> QED BY <1>1, <1>2, <1>5, <1>7, Constants DEF CountInv, Running

(* The answer that was awaited is read.                                    *)
LEMMA AnswerCounted ==
  ASSUME IInv, CountInv, ReadBeginAnswer \/ ReadAskAnswer, ~(\E abandons \in BOOLEAN : giveUp(abandons))
  PROVE  CountInv'
  <1>1. /\ back # <<>> /\ back' = Tail(back) /\ waiting' = FALSE /\ phase' = "transfer"
        /\ UNCHANGED <<link, sent, pumping, inFlight>> /\ (mustAsk' = mustAsk \/ mustAsk' = FALSE)
        /\ phase = "begin" \/ waiting
    BY DEF ReadBeginAnswer, ReadAskAnswer
  <1>2. link # 0 /\ ~pumping
    BY <1>1 DEF IInv, ClientInv, CountInv
  <1>3. Len(back) \in Nat \ {0} /\ Len(Tail(back)) = Len(back) - 1 /\ Len(sent[link]) \in Nat
    BY <1>1, <1>2, Wires, FirstTaken, LenProperties
  <1>4. Len(back) + Len(sent[link]) <= 1
    BY <1>2, <1>3 DEF CountInv, awaited
  <1>5. awaited' = 0
    BY <1>1, <1>2 DEF awaited
  <1>6. Len(back') + Len(sent'[link']) <= awaited'
    BY <1>1, <1>3, <1>4, <1>5
  <1> QED BY <1>1, <1>2, <1>6 DEF CountInv, Running

(* ... the answer to a part: others leave in its place.                    *)
LEMMA PartCounted ==
  ASSUME IInv, CountInv, NEW i \in DOMAIN back, ReadPartAnswer(i), back[i].code = "success"
  PROVE  CountInv'
  <1>1. /\ pumping /\ back' = RemoveAt(back, i) /\ UNCHANGED <<link, phase, waiting, mustAsk>>
        /\ held' = larger(held, back[i].offset)
        /\ window' \in {window, window + 1} /\ window' <= MaximumWindow
        /\ fill(larger(next, held'), inFlight - 1, window')
    BY DEF ReadPartAnswer
  <1>2. /\ size \in Nat /\ held \in 0..size /\ next \in 0..size /\ window \in 1..MaximumWindow
        /\ phase = "transfer" /\ link # 0
    BY <1>1 DEF IInv, ClientInv
  <1>3. inFlight \in Nat /\ inFlight > 0 /\ inFlight <= MaximumWindow /\ ~waiting /\ ~mustAsk
    BY <1>1, AwaitedTyped DEF CountInv
  <1>4. back[i] \in TrueAnswer /\ i \in 1..Len(back)
    BY Wires
  <1>5. back[i].offset \in 0..size
    BY <1>4 DEF TrueAnswer
  <1> DEFINE n == larger(next, held')
             k == inFlight - 1
             w == window'
  <1>6. n \in 0..size /\ k \in Int /\ w \in 1..MaximumWindow /\ k \in Nat /\ k <= MaximumWindow
    BY <1>1, <1>2, <1>3, <1>5, Constants DEF larger
  <1>7. fill(n, k, w)
    BY <1>1
  <1>k. inFlight = k + 1
    BY <1>3
  <1> HIDE DEF n, k, w
  <1>8. PICK count \in 0..(size - n) :
              /\ inFlight' = k + count /\ Len(sent'[link]) = Len(sent[link]) + count
              /\ pumping' = (k + count > 0)
              /\ k <= MaximumWindow => k + count <= MaximumWindow
    BY <1>2, <1>6, <1>7, Filled
  <1>9. count \in Nat /\ inFlight' \in 0..MaximumWindow
    BY <1>2, <1>6, <1>8, Constants
  <1>10. Len(back') = Len(back) - 1 /\ Len(back) \in Nat \ {0} /\ Len(sent[link]) \in Nat
    <2>1. Len(back') = Len(back) - 1
      BY <1>1, <1>4, Wires, Removed
    <2>2. Len(back) \in Nat \ {0}
      BY <1>4, Wires
    <2>3. Len(sent[link]) \in Nat
      BY <1>2, Wires, LenProperties
    <2> QED BY <2>1, <2>2, <2>3
  <1>11. Len(back) + Len(sent[link]) <= inFlight
    BY <1>1, <1>2 DEF CountInv, awaited
  <1>12. Len(back') + Len(sent'[link]) <= k + count
    BY <1>6, <1>8, <1>9, <1>10, <1>11, <1>k
  <1>13. CASE k + count > 0
    <2>1. pumping' = TRUE /\ awaited' = k + count
      BY <1>8, <1>13 DEF awaited
    <2> QED BY <1>1, <1>2, <1>3, <1>8, <1>9, <1>12, <1>13, <2>1 DEF CountInv, Running
  <1>14. CASE ~(k + count > 0)
    <2>0. k + count = 0
      BY <1>6, <1>9, <1>14
    <2>1. ~pumping' /\ ~waiting'
      BY <1>1, <1>3, <1>8, <1>14
    <2>2. awaited' = 0
      BY <2>1 DEF awaited
    <2> QED BY <1>1, <1>2, <1>3, <1>9, <1>12, <2>0, <2>1, <2>2 DEF CountInv, Running
  <1> QED BY <1>13, <1>14

(* With no link nothing is awaited and nothing under way.                  *)
LEMMA LinklessCounted ==
  ASSUME link' = 0, back' = <<>>, ~pumping', ~waiting', inFlight' \in 0..MaximumWindow
  PROVE  CountInv'
  BY DEF CountInv

(* Every step.                                                             *)
LEMMA CountKept ==
  ASSUME IInv, CountInv, [Next]_vars
  PROVE  CountInv'
  <1>0. 0 \in 0..MaximumWindow /\ inFlight \in 0..MaximumWindow
    BY Constants DEF CountInv
  <1>w. /\ Len(back) \in Nat
        /\ link # 0 => link \in 1..Len(sent) /\ Len(sent[link]) \in Nat
    BY Wires, LenProperties
  <1>1. CASE UNCHANGED vars
    <2>1. UNCHANGED <<size, phase, held, waiting, mustAsk, pumping, inFlight, link, sent, back>>
      BY <1>1 DEF vars, clientVars
    <2> QED BY <1>w, <2>1, NoMoreUnderWay DEF CountInv
  <1>2. CASE Connect
    <2>1. /\ link = 0 /\ link' = Len(sent) + 1 /\ sent' = Append(sent, <<>>) /\ Running
          /\ UNCHANGED <<phase, waiting, mustAsk, pumping, inFlight, back>>
      BY <1>2 DEF Connect, clientVars
    <2>2. back = <<>> /\ ~pumping /\ ~waiting
      BY <2>1 DEF CountInv
    <2>3. <<>> \in Seq(Request)
      BY EmptySeq
    <2>4. sent'[Len(sent) + 1] = <<>> /\ Len(sent) \in Nat
      BY <2>1, <2>3, Wires, LinkMore
    <2>5. link' # 0 /\ Len(back') = 0 /\ Len(sent'[link']) = 0 /\ awaited' = 0
      BY <2>1, <2>2, <2>4 DEF awaited
    <2> QED BY <1>0, <2>1, <2>2, <2>5 DEF CountInv, Running
  <1>3. CASE ConnectFails
    <2>1. link = 0 /\ link' = 0 /\ UNCHANGED <<back, pumping, waiting, inFlight>>
      BY <1>3 DEF ConnectFails
    <2> QED BY <1>0, <2>1, LinklessCounted DEF CountInv
  <1>4. CASE \E abandons \in BOOLEAN : giveUp(abandons)
    BY <1>0, <1>4, LinklessCounted DEF giveUp
  <1>5. CASE dropLink
    BY <1>0, <1>5, LinklessCounted DEF dropLink
  <1>6. CASE Finish
    <2>1. CASE \E abandons \in BOOLEAN : giveUp(abandons)
      BY <1>4, <2>1
    <2>2. CASE /\ phase = "transfer" /\ held >= size /\ ~pumping /\ phase' = "done" /\ link' = 0 /\ back' = <<>>
               /\ UNCHANGED <<waiting, pumping, inFlight, mustAsk>>
      <3>1. ~(held < size)
        BY <2>2 DEF IInv, ClientInv
      <3>2. ~waiting
        BY <2>2, <3>1 DEF CountInv
      <3> QED BY <1>0, <2>2, <3>2, LinklessCounted
    <2> QED BY <1>6, <2>1, <2>2 DEF Finish
  <1>7. ASSUME NEW i \in DOMAIN back, ReadPartAnswer(i)
        PROVE  CountInv'
    <2>1. CASE back[i].code = "success"
      BY <1>7, <2>1, PartCounted
    <2>2. CASE back[i].code # "success"
      BY <1>4, <1>5, <1>7, <2>2 DEF ReadPartAnswer
    <2> QED BY <2>1, <2>2
  <1>8. CASE ReadBeginAnswer \/ ReadAskAnswer
    BY <1>4, <1>8, AnswerCounted
  <1>9. CASE LinkFails \/ Stall \/ TaskCancelled \/ ReadFails
    BY <1>4, <1>5, <1>9 DEF LinkFails, Stall, TaskCancelled, ReadFails
  <1>10. CASE FileEdited \/ ExpireIdle \/ OthersFinish
    <2>1. UNCHANGED <<size, phase, held, waiting, mustAsk, pumping, inFlight, link, sent, back>>
      BY <1>10 DEF FileEdited, ExpireIdle, OthersFinish, clientVars
    <2> QED BY <1>w, <2>1, NoMoreUnderWay DEF CountInv
  <1>11. CASE IODies
    <2>1. /\ UNCHANGED <<size, phase, held, waiting, mustAsk, pumping, inFlight, link>>
          /\ sent' = [l \in DOMAIN sent |-> <<>>] /\ back' = <<>>
      BY <1>11 DEF IODies, clientVars
    <2>2. link # 0 => Len(sent'[link]) = 0 /\ Len(back') = 0
      BY <1>w, <2>1, Wires
    <2> QED BY <1>w, <2>1, <2>2, NoMoreUnderWay
  <1>12. ASSUME NEW l \in DOMAIN sent, StrayLost(l)
         PROVE  CountInv'
    <2>1. /\ UNCHANGED <<size, phase, held, waiting, mustAsk, pumping, inFlight, link, back>>
          /\ l # link /\ sent' = [sent EXCEPT ![l] = <<>>]
      BY <1>12 DEF StrayLost, clientVars
    <2>2. link # 0 => sent'[link] = sent[link]
      BY <1>w, <2>1, Wires
    <2> QED BY <1>w, <2>1, <2>2, NoMoreUnderWay DEF CountInv
  <1> QED BY <1>1, <1>2, <1>3, <1>6, <1>7, <1>8, <1>9, <1>10, <1>11, <1>12,
             AskedCounted, PumpCounted, TakenCounted DEF Next

(* No answer is read that was not awaited, however the links before it     *)
(* ended: what is under way on the live link never exceeds what the client *)
(* waits for, and no more than the window is in flight                     *)
(* (DaemonFileUpload.pump).                                                *)
THEOREM AnswersAreAwaited == Spec => []CountInv
  <1>1. Init => CountInv
    BY Constants DEF Init, CountInv
  <1>2. IInv /\ CountInv /\ [Next]_vars => CountInv'
    BY CountKept
  <1> QED BY <1>1, <1>2, UploadInvariant, PTL DEF Spec

-----------------------------------------------------------------------------
(* Types. *)

(* What a window of parts says of the pump is true or false.               *)
LEMMA FillTyped ==
  ASSUME NEW n, NEW k, NEW w, fill(n, k, w)
  PROVE  pumping' \in BOOLEAN
  <1> DEFINE sum == inFlight'
  <1>1. pumping' = (sum > 0)
    BY DEF fill
  <1> QED BY <1>1

(* Every flag is set to what it was, or to a truth value.                  *)
LEMMA FlagsKept ==
  ASSUME FlagInv, [Next]_vars
  PROVE  FlagInv'
  <1>1. /\ waiting' = waiting \/ waiting' = TRUE \/ waiting' = FALSE
        /\ mustAsk' = mustAsk \/ mustAsk' = TRUE \/ mustAsk' = FALSE \/ mustAsk' = (mustAsk \/ pumping)
        /\ pumping' = pumping \/ pumping' = FALSE \/ \E n, k, w : fill(n, k, w)
        /\ expiry' = expiry \/ expiry' = TRUE \/ expiry' = FALSE
        /\ crashed' = crashed \/ crashed' = TRUE
        /\ excuse' = excuse \/ excuse' = TRUE
    BY DEF Next, vars, clientVars, hostVars, Connect, ConnectFails, SendBegin, SendAsk, Pump,
           ReadBeginAnswer, ReadAskAnswer, giveUp, LinkFails, dropLink, Finish, ReadPartAnswer, Stall,
           TaskCancelled, FileEdited, ReadFails, HostTakes, take, TakeBegin, RefuseBegin, armExpiry,
           TakeAsk, TakePart, TakeCancel, remove, StrayLost, ExpireIdle, OthersFinish, IODies
  <1>2. waiting' \in BOOLEAN /\ mustAsk' \in BOOLEAN
    BY <1>1, Zenon DEF FlagInv
  <1>3. pumping' \in BOOLEAN
    BY <1>1, FillTyped, Zenon DEF FlagInv
  <1>4. expiry' \in BOOLEAN /\ crashed' \in BOOLEAN /\ excuse' \in BOOLEAN
    BY <1>1, Zenon DEF FlagInv
  <1> QED BY <1>2, <1>3, <1>4, Zenon DEF FlagInv

(* Every variable has its type: no part beyond the file is sent, received  *)
(* or asked for, and the window is never overrun.                          *)
THEOREM TypeCorrect == Spec => []TypeOK
  <1>1. Init => FlagInv
    BY Zenon DEF Init, FlagInv
  <1>2. FlagInv /\ [Next]_vars => FlagInv'
    BY FlagsKept
  <1>3. IInv /\ CountInv /\ FlagInv => TypeOK
    <2> SUFFICES ASSUME IInv, CountInv, FlagInv PROVE TypeOK
      OBVIOUS
    <2>1. sent \in Seq(Seq({Begin, Question, Cancel} \cup Parts))
      <3>1. size \in Nat /\ versions \subseteq Version
        BY DEF IInv, ClientInv, versions, Version
      <3>2. Request \subseteq {Begin, Question, Cancel} \cup Parts
        BY <3>1 DEF Request, Parts
      <3> QED BY <3>2, Wires, SeqMonotonic
    <2>2. back \in Seq(Answer)
      <3>1. TrueAnswer \subseteq Answer
        BY Wires DEF TrueAnswer, Answer
      <3> QED BY <3>1, Wires, SeqMonotonic
    <2>3. file \in {<<>>} \cup {<<f>> : f \in [0..(size - 1) -> Version \cup {Hole}]}
      <3>1. Copy \subseteq [0..(size - 1) -> Version \cup {Hole}]
        BY DEF Copy, versions, Version
      <3> QED BY <3>1 DEF IInv, HostInv
    <2>4. /\ size \in Sizes /\ phase \in {"begin", "transfer", "done", "failed"}
          /\ link \in 0..Len(sent) /\ edited \in BOOLEAN
          /\ held \in 0..size /\ next \in 0..size /\ received \in 0..size
          /\ inFlight \in 0..MaximumWindow /\ window \in 1..MaximumWindow
          /\ upload \in {"none", "open", "finished"}
      BY DEF IInv, HostInv, WireInv, ClientInv, CountInv
    <2> QED BY <2>1, <2>2, <2>3, <2>4, Zenon DEF TypeOK, FlagInv
  <1> QED BY <1>1, <1>2, <1>3, UploadInvariant, AnswersAreAwaited, PTL DEF Spec
=============================================================================
