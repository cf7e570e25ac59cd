--------------------------- MODULE RemoteTabProofs ---------------------------
(***************************************************************************)
(* Proofs about RemoteTab, for any replay capacity and any number of       *)
(* bytes, links and takers: that it implements TerminalView, and that the  *)
(* status of the tab is true.                                              *)
(*                                                                         *)
(* The frames under way to the transport are, in this order, the replies   *)
(* still owed to it (a hello's, an attach's) and then output, each byte    *)
(* the one after the last.  The offset an attach carries, the log's answer *)
(* to it and the transport's own position are three copies of one number,  *)
(* held in three places while links die; the invariant says how they stay  *)
(* together.                                                               *)
(***************************************************************************)
EXTENDS RemoteTab, SequenceTheorems, TLAPS

(* The replies the transport still waits for.                              *)
owed == IF phase = "hello" THEN 2 ELSE IF phase = "attach" THEN 1 ELSE 0

Frame == [kind : {"helloOK", "taken", "exit", "busy", "unknown"}]
           \cup [kind : {"output"}, data : Seq(Nat)]
           \cup [kind : {"attached"}, resumed : BOOLEAN, offset : Nat, data : Seq(Nat)]

Hello == [kind |-> "hello"]
attachFrame(takingOver) == [kind |-> "attach", offset |-> position, takeover |-> takingOver]

(* The log, the screen, and the place the transport thinks it is at.       *)
PlaceInv ==
    /\ produced \in Nat /\ startOffset \in Nat
    /\ startOffset <= produced /\ (produced > 0 => startOffset < produced)
    /\ screen \in Seq(Nat)
    /\ position = None => screen = <<>>
    /\ position # None => position \in Nat /\ position <= produced /\ View!Newest = position

(* Who is connected to what.                                               *)
LinkInv ==
    /\ used \in 0..MaxLinks
    /\ link \in 0..used /\ hostOpen \subseteq 1..used
    /\ reader \in (1..used) \cup {None, Other}
    /\ phase \in {"none", "hello", "attach", "attached"}
    /\ phase = "none" <=> link = NoLink
    /\ phase = "attached" => position # None
    /\ req = [n \in Links |-> req[n]]
    /\ rep \in Seq(Frame)
    /\ link = NoLink => rep = <<>>

(* What the host was asked on the link of the moment and has not answered. *)
RequestInv ==
    link \in hostOpen =>
        \/ /\ phase = "hello" /\ rep = <<>> /\ reader # link
           /\ \E takingOver \in BOOLEAN : req[link] = <<Hello, attachFrame(takingOver)>>
        \/ /\ owed = Len(rep) + 1 /\ reader # link
           /\ \E takingOver \in BOOLEAN : req[link] = <<attachFrame(takingOver)>>
        \/ /\ owed <= Len(rep) /\ req[link] = <<>>

(* The answer to an attach goes on from where the screen ends, or replaces *)
(* it, and says how far it comes.                                          *)
Continues(m, place, end) ==
    /\ m.kind \in {"attached", "busy", "unknown"}
    /\ m.kind = "attached" =>
         /\ m.offset \in Nat /\ m.offset <= end
         /\ place # None => place <= m.offset
         /\ m.resumed => place # None /\ m.data = Stretch(place, m.offset)
         /\ ~m.resumed => \E from \in 0..m.offset :
                             (m.offset > 0 => from < m.offset) /\ m.data = Stretch(from, m.offset)

(* Where the output starts in frames that begin with n replies.            *)
start(frames, n, place) == IF n = 0 THEN place ELSE frames[n].offset

(* Frames that begin with n replies: the hello's, the attach's, and then   *)
(* output, if the attach was granted, byte after byte.                     *)
InOrder(frames, n, place, end) ==
    \A i \in 1..Len(frames) :
        /\ i < n => frames[i].kind = "helloOK"
        /\ i = n => Continues(frames[i], place, end)
        /\ i > n =>
             /\ frames[i].kind \in {"output", "taken", "exit"}
             /\ n > 0 => frames[n].kind = "attached"
             /\ frames[i].kind = "output" =>
                  /\ frames[i].data = <<start(frames, n, place) + (i - n)>>
                  /\ start(frames, n, place) + (i - n) <= end

(* ... which leave out nothing of what there is.                           *)
UpToDate(frames, n, place, end) ==
    /\ n <= Len(frames)
    /\ n > 0 => frames[n].kind = "attached"
    /\ start(frames, n, place) + (Len(frames) - n) = end

StreamInv ==
    /\ InOrder(rep, owed, position, produced)
    /\ link \in hostOpen /\ reader = link => UpToDate(rep, owed, position, produced)

IInv == PlaceInv /\ LinkInv /\ RequestInv /\ StreamInv

(* What the store ends on: the last event it has not run yet, or what it   *)
(* says when there is none.                                                *)
Event == {"connecting", "connected", "elsewhere", "interrupted", "disconnected", "exit"}

EndsConnected == IF main = <<>> THEN status = "connected" ELSE main[Len(main)] = "connected"

(* A running handler of the transport of the moment ends in an event that  *)
(* agrees with it; with none running, what the store ends on agrees, if it *)
(* is the word of that transport.  A tab that is gone hears nothing.       *)
StatusInv ==
    /\ main \in Seq(Event) /\ lastWord \in 0..used
    /\ \A x \in hop :
         /\ x.from \in 1..used /\ x.says \in Seq(Event) /\ x.says # <<>>
         /\ x.from = used => (x.says[Len(x.says)] = "connected" <=> phase = "attached")
    /\ status \in Gone => main = <<>> /\ hop = {}
    /\ status \notin Gone /\ ~Speaking /\ lastWord = used =>
         (EndsConnected <=> phase = "attached")

-----------------------------------------------------------------------------
(* Numbers, stretches and frames. *)

(* The capacity and the bounds are numbers; nobody is none of them.        *)
LEMMA Constants ==
  /\ capacity \in Nat \ {0} /\ MaxOutput \in Nat
  /\ MaxLinks \in Nat \ {0} /\ BusyLinks \in 1..MaxLinks
  /\ None \notin Nat /\ Other \notin Nat /\ None # Other
  BY RemoteTabAssumption

(* A stretch of the output.                                                *)
LEMMA StretchTyped ==
  ASSUME NEW a \in Nat, NEW b \in Nat, a <= b
  PROVE  /\ Stretch(a, b) \in Seq(Nat) /\ Len(Stretch(a, b)) = b - a
         /\ \A i \in 1..(b - a) : Stretch(a, b)[i] = a + i
  <1> DEFINE s == [i \in 1..(b - a) |-> a + i]
  <1>1. Stretch(a, b) = s
    BY DEF Stretch, View!Stretch
  <1>2. b - a \in Nat /\ s \in [1..(b - a) -> Nat]
    OBVIOUS
  <1>3. s \in Seq(Nat)
    BY <1>2, SeqDef
  <1>4. Len(s) = b - a
    <2>1. DOMAIN s = 1..(b - a) /\ DOMAIN s = 1..Len(s) /\ Len(s) \in Nat
      BY <1>3, LenProperties
    <2> QED BY <1>2, <2>1
  <1>5. \A i \in 1..(b - a) : s[i] = a + i
    OBVIOUS
  <1> QED BY <1>1, <1>3, <1>4, <1>5

(* A single byte is a stretch.                                             *)
LEMMA OneByte ==
  ASSUME NEW a \in Nat
  PROVE  Stretch(a, a + 1) = <<a + 1>>
  <1>1. /\ Stretch(a, a + 1) \in Seq(Nat) /\ Len(Stretch(a, a + 1)) = (a + 1) - a
        /\ \A i \in 1..((a + 1) - a) : Stretch(a, a + 1)[i] = a + i
    <2> DEFINE b == a + 1
    <2>1. b \in Nat /\ a <= b
      OBVIOUS
    <2> HIDE DEF b
    <2>2. /\ Stretch(a, b) \in Seq(Nat) /\ Len(Stretch(a, b)) = b - a
          /\ \A i \in 1..(b - a) : Stretch(a, b)[i] = a + i
      BY <2>1, StretchTyped
    <2> QED BY <2>2 DEF b
  <1>2. <<a + 1>> \in Seq(Nat) /\ Len(<<a + 1>>) = 1 /\ <<a + 1>>[1] = a + 1
    OBVIOUS
  <1>3. Len(Stretch(a, a + 1)) = 1 /\ \A i \in 1..1 : Stretch(a, a + 1)[i] = <<a + 1>>[i]
    BY <1>1, <1>2
  <1> QED BY <1>1, <1>2, <1>3, SeqEqual

(* The newest byte after the bytes that come next.                         *)
LEMMA NewestAfterExtending ==
  ASSUME screen \in Seq(Nat), NEW to \in Nat, View!Newest \in Nat, View!Newest <= to,
         screen' = screen \o Stretch(View!Newest, to)
  PROVE  screen' \in Seq(Nat) /\ View!Newest' = to
  <1> DEFINE a == View!Newest
             s == Stretch(a, to)
  <1>1. s \in Seq(Nat) /\ Len(s) = to - a /\ \A i \in 1..(to - a) : s[i] = a + i
    BY StretchTyped
  <1>n. a \in Nat /\ a <= to /\ screen' = screen \o s
    OBVIOUS
  <1>a. a = IF screen = <<>> THEN 0 ELSE screen[Len(screen)]
    BY DEF View!Newest
  <1> HIDE DEF s, a
  <1>2. /\ screen' \in Seq(Nat) /\ Len(screen') = Len(screen) + Len(s)
        /\ \A i \in 1..Len(screen) + Len(s) : screen'[i] = IF i <= Len(screen) THEN screen[i] ELSE s[i - Len(screen)]
    <2>1. /\ screen \o s \in Seq(Nat) /\ Len(screen \o s) = Len(screen) + Len(s)
          /\ \A i \in 1..Len(screen) + Len(s) :
               (screen \o s)[i] = IF i <= Len(screen) THEN screen[i] ELSE s[i - Len(screen)]
      BY <1>1, ConcatProperties
    <2> QED BY <1>n, <2>1
  <1>3. Len(screen) \in Nat
    BY LenProperties
  <1>4. View!Newest' = IF screen' = <<>> THEN 0 ELSE screen'[Len(screen')]
    BY DEF View!Newest
  <1>5. CASE to = a
    <2>1. s = <<>>
      BY <1>1, <1>5, <1>n, EmptySeq
    <2>2. screen' = screen
      BY <1>n, <2>1, ConcatEmptySeq
    <2> QED BY <1>2, <1>4, <1>5, <1>a, <2>2
  <1>6. CASE to # a
    <2>1. to - a \in Nat \ {0} /\ Len(s) = to - a
      BY <1>1, <1>6, <1>n
    <2>2. Len(screen') = Len(screen) + (to - a) /\ screen' # <<>>
      BY <1>2, <1>3, <2>1, EmptySeq
    <2>3. screen'[Len(screen')] = s[to - a]
      BY <1>2, <1>3, <2>1, <2>2
    <2>4. s[to - a] = a + (to - a)
      BY <1>1, <2>1
    <2> QED BY <1>2, <1>4, <1>n, <2>2, <2>3, <2>4
  <1> QED BY <1>5, <1>6

(* ... and of a screen that is one stretch.                                *)
LEMMA NewestAfterRebuilding ==
  ASSUME NEW to \in Nat, NEW from \in 0..to, to > 0 => from < to, screen' = Stretch(from, to)
  PROVE  screen' \in Seq(Nat) /\ View!Newest' = to
  <1>1. /\ screen' \in Seq(Nat) /\ Len(screen') = to - from
        /\ \A i \in 1..(to - from) : screen'[i] = from + i
    <2>1. from \in Nat /\ from <= to
      OBVIOUS
    <2>2. /\ Stretch(from, to) \in Seq(Nat) /\ Len(Stretch(from, to)) = to - from
          /\ \A i \in 1..(to - from) : Stretch(from, to)[i] = from + i
      BY <2>1, StretchTyped
    <2> QED BY <2>2
  <1>2. View!Newest' = IF screen' = <<>> THEN 0 ELSE screen'[Len(screen')]
    BY DEF View!Newest
  <1>3. CASE to = 0
    <2>1. Len(screen') = 0
      <3>1. from = 0
        BY <1>3
      <3> QED BY <1>1, <1>3, <3>1
    <2>2. screen' = <<>>
      BY <1>1, <2>1, EmptySeq
    <2> QED BY <1>1, <1>2, <1>3, <2>2
  <1>4. CASE to > 0
    <2>1. to - from \in 1..(to - from) /\ screen' # <<>>
      BY <1>1, <1>4, EmptySeq
    <2>2. screen'[to - from] = from + (to - from)
      BY <1>1, <2>1
    <2> QED BY <1>1, <1>2, <2>1, <2>2
  <1> QED BY <1>3, <1>4

-----------------------------------------------------------------------------
(* Frames under way. *)

(* A sequence and one more.                                                *)
LEMMA Appended ==
  ASSUME NEW s \in Seq(Frame), NEW m \in Frame, NEW t, t = Append(s, m)
  PROVE  /\ t \in Seq(Frame) /\ Len(s) \in Nat /\ Len(t) = Len(s) + 1
         /\ t[Len(t)] = m
         /\ \A i \in 1..Len(s) : t[i] = s[i]
  <1>1. Len(s) \in Nat
    BY LenProperties
  <1> QED BY <1>1, AppendProperties

(* A sequence without its first.                                           *)
LEMMA WithoutFirst ==
  ASSUME NEW s \in Seq(Frame), s # <<>>, NEW t, t = Tail(s)
  PROVE  /\ t \in Seq(Frame) /\ Len(s) \in Nat \ {0} /\ Len(t) = Len(s) - 1
         /\ Head(s) = s[1] /\ s[1] \in Frame
         /\ \A i \in 1..Len(t) : t[i] = s[i + 1]
  <1>1. Len(s) \in Nat /\ Len(s) # 0
    BY LenProperties, EmptySeq
  <1>2. 1 \in 1..Len(s)
    BY <1>1
  <1>3. s[1] \in Frame
    BY <1>2, ElementOfSeq
  <1> QED BY <1>1, <1>3, HeadTailProperties

(* Where the output starts is a number.                                    *)
LEMMA StartTyped ==
  ASSUME NEW s \in Seq(Frame), NEW n \in 0..2, NEW place, NEW end \in Nat,
         InOrder(s, n, place, end), n = 0 => place \in Nat,
         n > 0 => n <= Len(s) /\ s[n].kind = "attached"
  PROVE  start(s, n, place) \in Nat
  <1>1. CASE n = 0
    BY <1>1 DEF start
  <1>2. CASE n # 0
    <2>1. n \in 1..Len(s)
      BY <1>2, LenProperties
    <2>2. Continues(s[n], place, end)
      BY <2>1 DEF InOrder
    <2> QED BY <1>2, <2>2 DEF start, Continues
  <1> QED BY <1>1, <1>2

(* Frames in order stay so when the session prints.                        *)
LEMMA InOrderLater ==
  ASSUME NEW s \in Seq(Frame), NEW n \in 0..2, NEW place, NEW end \in Nat,
         InOrder(s, n, place, end), n = 0 => place \in Nat
  PROVE  InOrder(s, n, place, end + 1)
  <1>0. Len(s) \in Nat
    BY LenProperties
  <1> SUFFICES ASSUME NEW i \in 1..Len(s)
               PROVE  /\ i < n => s[i].kind = "helloOK"
                      /\ i = n => Continues(s[i], place, end + 1)
                      /\ i > n =>
                           /\ s[i].kind \in {"output", "taken", "exit"}
                           /\ n > 0 => s[n].kind = "attached"
                           /\ s[i].kind = "output" =>
                                /\ s[i].data = <<start(s, n, place) + (i - n)>>
                                /\ start(s, n, place) + (i - n) <= end + 1
    BY DEF InOrder
  <1>1. i = n => Continues(s[i], place, end + 1)
    <2>1. i = n => Continues(s[i], place, end)
      BY DEF InOrder
    <2> QED BY <2>1 DEF Continues
  <1>2. i > n /\ s[i].kind = "output" => start(s, n, place) + (i - n) <= end + 1
    <2> SUFFICES ASSUME i > n, s[i].kind = "output"
                 PROVE  start(s, n, place) + (i - n) <= end + 1
      OBVIOUS
    <2>1. start(s, n, place) + (i - n) <= end /\ (n > 0 => s[n].kind = "attached")
      BY DEF InOrder
    <2>2. n > 0 => n <= Len(s)
      BY <1>0
    <2>3. start(s, n, place) \in Nat
      BY <2>1, <2>2, StartTyped
    <2> QED BY <1>0, <2>1, <2>3
  <1> QED BY <1>1, <1>2 DEF InOrder

(* A byte the session prints goes behind all there is.                     *)
LEMMA OutputAppended ==
  ASSUME NEW s \in Seq(Frame), NEW n \in 0..2, NEW place, NEW end \in Nat,
         InOrder(s, n, place, end), UpToDate(s, n, place, end), n = 0 => place \in Nat,
         NEW m \in Frame, m.kind = "output", m.data = <<end + 1>>, NEW t, t = Append(s, m)
  PROVE  InOrder(t, n, place, end + 1) /\ UpToDate(t, n, place, end + 1)
  <1>1. /\ t \in Seq(Frame) /\ Len(s) \in Nat /\ Len(t) = Len(s) + 1
        /\ t[Len(t)] = m /\ \A i \in 1..Len(s) : t[i] = s[i]
    BY Appended
  <1>2. /\ n <= Len(s) /\ (n > 0 => s[n].kind = "attached")
        /\ start(s, n, place) + (Len(s) - n) = end
    BY DEF UpToDate
  <1>3. start(s, n, place) \in Nat
    BY <1>2, StartTyped
  <1>4. n > 0 => t[n] = s[n]
    BY <1>1, <1>2
  <1>5. start(t, n, place) = start(s, n, place)
    <2>1. n = 0 \/ n > 0
      OBVIOUS
    <2> QED BY <1>4, <2>1, Zenon DEF start
  <1>6. start(t, n, place) + (Len(t) - n) = end + 1
    BY <1>1, <1>2, <1>3, <1>5
  <1>7. UpToDate(t, n, place, end + 1)
    BY <1>1, <1>2, <1>4, <1>6 DEF UpToDate
  <1>8. InOrder(s, n, place, end + 1)
    BY InOrderLater
  <1>9. ASSUME NEW i \in 1..Len(t)
        PROVE  /\ i < n => t[i].kind = "helloOK"
               /\ i = n => Continues(t[i], place, end + 1)
               /\ i > n =>
                    /\ t[i].kind \in {"output", "taken", "exit"}
                    /\ n > 0 => t[n].kind = "attached"
                    /\ t[i].kind = "output" =>
                         /\ t[i].data = <<start(t, n, place) + (i - n)>>
                         /\ start(t, n, place) + (i - n) <= end + 1
    <2>1. CASE i \in 1..Len(s)
      <3>1. t[i] = s[i]
        BY <1>1, <2>1
      <3> QED BY <1>4, <1>5, <1>8, <2>1, <3>1 DEF InOrder
    <2>2. CASE i = Len(t)
      <3>1. i > n
        BY <1>1, <1>2, <2>2
      <3>2. t[i] = m
        BY <1>1, <2>2
      <3>3. t[i].data = <<start(t, n, place) + (i - n)>> /\ start(t, n, place) + (i - n) <= end + 1
        BY <1>6, <2>2, <3>2
      <3> QED BY <1>2, <1>4, <3>1, <3>2, <3>3
    <2> QED BY <1>1, <2>1, <2>2
  <1> QED BY <1>7, <1>9 DEF InOrder

(* Word that the session was lost may come behind the attach's reply.      *)
LEMMA WordAppended ==
  ASSUME NEW s \in Seq(Frame), NEW n \in 0..2, NEW place, NEW end \in Nat,
         InOrder(s, n, place, end), UpToDate(s, n, place, end),
         NEW m \in Frame, m.kind \in {"taken", "exit"}, NEW t, t = Append(s, m)
  PROVE  InOrder(t, n, place, end) /\ n <= Len(t)
  <1>1. /\ t \in Seq(Frame) /\ Len(s) \in Nat /\ Len(t) = Len(s) + 1
        /\ t[Len(t)] = m /\ \A i \in 1..Len(s) : t[i] = s[i]
    BY Appended
  <1>2. n <= Len(s) /\ (n > 0 => s[n].kind = "attached")
    BY DEF UpToDate
  <1>4. n > 0 => t[n] = s[n]
    BY <1>1, <1>2
  <1>5. start(t, n, place) = start(s, n, place)
    <2>1. n = 0 \/ n > 0
      OBVIOUS
    <2> QED BY <1>4, <2>1, Zenon DEF start
  <1>9. ASSUME NEW i \in 1..Len(t)
        PROVE  /\ i < n => t[i].kind = "helloOK"
               /\ i = n => Continues(t[i], place, end)
               /\ i > n =>
                    /\ t[i].kind \in {"output", "taken", "exit"}
                    /\ n > 0 => t[n].kind = "attached"
                    /\ t[i].kind = "output" =>
                         /\ t[i].data = <<start(t, n, place) + (i - n)>>
                         /\ start(t, n, place) + (i - n) <= end
    <2>1. CASE i \in 1..Len(s)
      <3>1. t[i] = s[i]
        BY <1>1, <2>1
      <3> QED BY <1>4, <1>5, <2>1, <3>1 DEF InOrder
    <2>2. CASE i = Len(t)
      <3>1. i > n
        BY <1>1, <1>2, <2>2
      <3>2. t[i] = m
        BY <1>1, <2>2
      <3> QED BY <1>2, <1>4, <3>1, <3>2
    <2> QED BY <1>1, <2>1, <2>2
  <1>10. n <= Len(t)
    BY <1>1, <1>2
  <1> QED BY <1>9, <1>10 DEF InOrder

(* The reply that is owed.                                                 *)
LEMMA ReplyAppended ==
  ASSUME NEW s \in Seq(Frame), NEW n \in 0..2, NEW place, NEW end \in Nat,
         InOrder(s, n, place, end), n = Len(s) + 1,
         NEW m \in Frame, Continues(m, place, end), NEW t, t = Append(s, m)
  PROVE  /\ InOrder(t, n, place, end) /\ n <= Len(t)
         /\ m.kind = "attached" /\ m.offset = end => UpToDate(t, n, place, end)
  <1>1. /\ t \in Seq(Frame) /\ Len(s) \in Nat /\ Len(t) = Len(s) + 1
        /\ t[Len(t)] = m /\ \A i \in 1..Len(s) : t[i] = s[i]
    BY Appended
  <1>2. n = Len(t) /\ t[n] = m /\ n # 0
    BY <1>1
  <1>3. ASSUME NEW i \in 1..Len(t)
        PROVE  /\ i < n => t[i].kind = "helloOK"
               /\ i = n => Continues(t[i], place, end)
               /\ ~(i > n)
    <2>1. CASE i \in 1..Len(s)
      <3>1. t[i] = s[i]
        BY <1>1, <2>1
      <3>2. i < n
        BY <1>1, <2>1
      <3> QED BY <2>1, <3>1, <3>2 DEF InOrder
    <2>2. CASE i = Len(t)
      BY <1>2, <2>2
    <2> QED BY <1>1, <2>1, <2>2
  <1>4. InOrder(t, n, place, end)
    BY <1>3 DEF InOrder
  <1>5. m.kind = "attached" /\ m.offset = end => UpToDate(t, n, place, end)
    <2>1. Len(t) - n = 0 /\ n <= Len(t)
      BY <1>1, <1>2
    <2>2. start(t, n, place) = m.offset
      BY <1>2 DEF start
    <2> QED BY <1>2, <2>1, <2>2 DEF UpToDate
  <1> QED BY <1>1, <1>2, <1>4, <1>5

(* The first frame is read: a reply less is owed, or a byte has come.      *)
LEMMA FirstRead ==
  ASSUME NEW s \in Seq(Frame), s # <<>>, NEW n \in 0..2, NEW place, NEW end \in Nat,
         InOrder(s, n, place, end), NEW t, t = Tail(s),
         NEW k, NEW there,
         \/ n = 2 /\ k = 1 /\ there = place
         \/ n = 1 /\ k = 0 /\ s[1].kind = "attached" /\ there = s[1].offset
         \/ n = 0 /\ k = 0 /\ place \in Nat /\ there = place + 1
  PROVE  InOrder(t, k, there, end) /\ (UpToDate(s, n, place, end) => UpToDate(t, k, there, end))
  <1>1. /\ t \in Seq(Frame) /\ Len(s) \in Nat \ {0} /\ Len(t) = Len(s) - 1
        /\ \A i \in 1..Len(t) : t[i] = s[i + 1]
    BY WithoutFirst
  <1>2. CASE n = 2 /\ k = 1 /\ there = place
    <2>1. Len(s) >= 2 => t[1] = s[2]
      BY <1>1
    <2>2. Len(s) >= 2 => start(t, k, there) = start(s, n, place)
      BY <1>2, <2>1 DEF start
    <2>3. ASSUME NEW i \in 1..Len(t)
          PROVE  /\ i < k => t[i].kind = "helloOK"
                 /\ i = k => Continues(t[i], there, end)
                 /\ i > k =>
                      /\ t[i].kind \in {"output", "taken", "exit"}
                      /\ k > 0 => t[k].kind = "attached"
                      /\ t[i].kind = "output" =>
                           /\ t[i].data = <<start(t, k, there) + (i - k)>>
                           /\ start(t, k, there) + (i - k) <= end
      <3>1. i + 1 \in 1..Len(s) /\ t[i] = s[i + 1] /\ Len(s) >= 2
        BY <1>1
      <3>2. ~(i < k) /\ (i = k <=> i + 1 = n) /\ (i > k <=> i + 1 > n) /\ i - k = (i + 1) - n
        BY <1>2
      <3>3. /\ i + 1 = n => Continues(s[i + 1], place, end)
            /\ i + 1 > n =>
                 /\ s[i + 1].kind \in {"output", "taken", "exit"}
                 /\ n > 0 => s[n].kind = "attached"
                 /\ s[i + 1].kind = "output" =>
                      /\ s[i + 1].data = <<start(s, n, place) + ((i + 1) - n)>>
                      /\ start(s, n, place) + ((i + 1) - n) <= end
        BY <3>1 DEF InOrder
      <3> QED BY <1>2, <2>1, <2>2, <3>1, <3>2, <3>3
    <2>4. UpToDate(s, n, place, end) => UpToDate(t, k, there, end)
      <3> SUFFICES ASSUME UpToDate(s, n, place, end) PROVE UpToDate(t, k, there, end)
        OBVIOUS
      <3>1. n <= Len(s) /\ s[n].kind = "attached" /\ start(s, n, place) + (Len(s) - n) = end
        BY <1>2 DEF UpToDate
      <3>2. k <= Len(t) /\ Len(t) - k = Len(s) - n /\ Len(s) >= 2
        BY <1>1, <1>2, <3>1
      <3> QED BY <1>2, <2>1, <2>2, <3>1, <3>2 DEF UpToDate
    <2> QED BY <2>3, <2>4 DEF InOrder
  <1>3. CASE n = 1 /\ k = 0 /\ s[1].kind = "attached" /\ there = s[1].offset
    <2>1. start(t, k, there) = start(s, n, place)
      BY <1>3 DEF start
    <2>2. ASSUME NEW i \in 1..Len(t)
          PROVE  /\ i > k
                 /\ t[i].kind \in {"output", "taken", "exit"}
                 /\ t[i].kind = "output" =>
                      /\ t[i].data = <<start(t, k, there) + (i - k)>>
                      /\ start(t, k, there) + (i - k) <= end
      <3>1. i + 1 \in 1..Len(s) /\ t[i] = s[i + 1] /\ i + 1 > n /\ i > k /\ i - k = (i + 1) - n
        BY <1>1, <1>3
      <3>2. /\ s[i + 1].kind \in {"output", "taken", "exit"}
            /\ s[i + 1].kind = "output" =>
                 /\ s[i + 1].data = <<start(s, n, place) + ((i + 1) - n)>>
                 /\ start(s, n, place) + ((i + 1) - n) <= end
        BY <3>1 DEF InOrder
      <3> QED BY <2>1, <3>1, <3>2
    <2>3. InOrder(t, k, there, end)
      BY <1>1, <1>3, <2>2 DEF InOrder
    <2>4. Len(t) - k = Len(s) - n /\ k <= Len(t)
      BY <1>1, <1>3
    <2> QED BY <1>3, <2>1, <2>3, <2>4 DEF UpToDate
  <1>4. CASE n = 0 /\ k = 0 /\ place \in Nat /\ there = place + 1
    <2>1. start(t, k, there) = place + 1 /\ start(s, n, place) = place
      BY <1>4 DEF start
    <2>2. ASSUME NEW i \in 1..Len(t)
          PROVE  /\ i > k
                 /\ t[i].kind \in {"output", "taken", "exit"}
                 /\ t[i].kind = "output" =>
                      /\ t[i].data = <<start(t, k, there) + (i - k)>>
                      /\ start(t, k, there) + (i - k) <= end
      <3>1. i + 1 \in 1..Len(s) /\ t[i] = s[i + 1] /\ i + 1 > n /\ i > k
        BY <1>1, <1>4
      <3>2. /\ s[i + 1].kind \in {"output", "taken", "exit"}
            /\ s[i + 1].kind = "output" =>
                 /\ s[i + 1].data = <<start(s, n, place) + ((i + 1) - n)>>
                 /\ start(s, n, place) + ((i + 1) - n) <= end
        BY <3>1 DEF InOrder
      <3>3. start(t, k, there) + (i - k) = start(s, n, place) + ((i + 1) - n)
        BY <1>1, <1>4, <2>1
      <3> QED BY <3>1, <3>2, <3>3
    <2>3. InOrder(t, k, there, end)
      BY <1>1, <1>4, <2>2 DEF InOrder
    <2>4. (place + 1) + (Len(t) - k) = place + (Len(s) - n) /\ k <= Len(t)
      BY <1>1, <1>4
    <2> QED BY <1>4, <2>1, <2>3, <2>4 DEF UpToDate
  <1> QED BY <1>2, <1>3, <1>4

-----------------------------------------------------------------------------
(* The host. *)

(* Of the types, and of the replies owed.                                  *)
LEMMA Known ==
  ASSUME IInv
  PROVE  /\ owed \in 0..2 /\ (owed = 0 <=> phase \notin Negotiating)
         /\ produced \in Nat /\ rep \in Seq(Frame) /\ Len(rep) \in Nat
         /\ link # NoLink /\ owed = 0 => phase = "attached" /\ position \in Nat
         /\ rep # <<>> => link # NoLink
         /\ link \in hostOpen => link \in Links /\ link # NoLink
  <1>1. owed \in 0..2 /\ (owed = 0 <=> phase \notin Negotiating)
    BY DEF owed, Negotiating
  <1>2. produced \in Nat /\ rep \in Seq(Frame) /\ (rep # <<>> => link # NoLink)
    BY DEF IInv, PlaceInv, LinkInv
  <1>3. Len(rep) \in Nat
    BY <1>2, LenProperties
  <1>4. link # NoLink /\ owed = 0 => phase = "attached"
    BY <1>1 DEF IInv, LinkInv, Negotiating
  <1>5. phase = "attached" => position \in Nat
    BY DEF IInv, LinkInv, PlaceInv
  <1>6. link \in hostOpen => link \in Links /\ link # NoLink
    BY Constants DEF IInv, LinkInv, Links, NoLink
  <1> QED BY <1>1, <1>2, <1>3, <1>4, <1>5, <1>6

(* A step that leaves the transport, the screen and the log alone; the     *)
(* session may change hands, but not to the link of the moment.            *)
LEMMA TransportUntouched ==
  ASSUME IInv, UNCHANGED <<rep, link, phase, position, screen, used, produced, startOffset>>,
         reader' = reader \/ (reader' # link /\ reader' \in (1..used) \cup {None, Other}),
         hostOpen' \subseteq hostOpen, req' = [n \in Links |-> req'[n]],
         link \in hostOpen' => req'[link] = req[link]
  PROVE  IInv'
  <1>1. PlaceInv'
    BY DEF IInv, PlaceInv, View!Newest
  <1>2. LinkInv'
    BY DEF IInv, LinkInv
  <1>3. owed' = owed
    BY DEF owed
  <1>4. RequestInv'
    BY <1>3 DEF IInv, RequestInv, attachFrame
  <1>5. StreamInv'
    BY <1>3 DEF IInv, StreamInv
  <1> QED BY <1>1, <1>2, <1>4, <1>5 DEF IInv

(* The reader is told that it lost the session: no output follows.         *)
LEMMA ReaderTold ==
  ASSUME IInv, NEW m, m \in {[kind |-> "taken"], [kind |-> "exit"]}, rep' = toReader(m),
         UNCHANGED <<link, phase, position, screen, used, produced, startOffset>>,
         reader' # link, reader' \in (1..used) \cup {None, Other},
         hostOpen' \subseteq hostOpen, req' = [n \in Links |-> req'[n]],
         link \in hostOpen' => req'[link] = req[link]
  PROVE  IInv'
  <1>1. CASE reader = link /\ link \in hostOpen
    <2>0. m \in Frame /\ m.kind \in {"taken", "exit"}
      BY DEF Frame
    <2>1. rep' = Append(rep, m)
      BY <1>1, Known DEF toReader, sent
    <2>2. rep' \in Seq(Frame)
      BY <2>0, <2>1, Known, AppendProperties
    <2>3. InOrder(rep, owed, position, produced) /\ UpToDate(rep, owed, position, produced)
      BY <1>1 DEF IInv, StreamInv
    <2>4. InOrder(rep', owed, position, produced) /\ owed <= Len(rep')
      BY <2>0, <2>1, <2>3, Known, WordAppended
    <2>5. owed' = owed
      BY DEF owed
    <2>6. PlaceInv'
      BY DEF IInv, PlaceInv, View!Newest
    <2>7. LinkInv'
      BY <1>1, <2>2, Known DEF IInv, LinkInv
    <2>8. RequestInv'
      <3>1. link \in hostOpen' => req[link] = <<>>
        BY <1>1 DEF IInv, RequestInv
      <3> QED BY <2>4, <2>5, <3>1 DEF RequestInv
    <2>9. StreamInv'
      BY <2>4, <2>5 DEF StreamInv
    <2> QED BY <2>6, <2>7, <2>8, <2>9 DEF IInv
  <1>2. CASE ~(reader = link /\ link \in hostOpen)
    <2>1. rep' = rep
      BY <1>2 DEF toReader, sent
    <2> QED BY <2>1, TransportUntouched
  <1> QED BY <1>1, <1>2

(* The session prints: whoever reads it gets the byte that comes next.     *)
LEMMA PrintsKept ==
  ASSUME IInv, Prints
  PROVE  IInv'
  <1> DEFINE m == [kind |-> "output", data |-> <<produced + 1>>]
  <1>1. /\ produced' = produced + 1 /\ startOffset' = trimmed(produced + 1) /\ rep' = toReader(m)
        /\ UNCHANGED <<reader, hostOpen, req, link, phase, position, screen, used>>
    BY DEF Prints, transportVars, viewVars, storeVars
  <1>2. PlaceInv'
    <2>1. produced \in Nat /\ startOffset \in Nat /\ startOffset <= produced
      BY DEF IInv, PlaceInv
    <2>2. startOffset' \in Nat /\ startOffset' < produced + 1
      BY <1>1, <2>1, Constants DEF trimmed
    <2>3. View!Newest' = View!Newest
      BY <1>1 DEF View!Newest
    <2> QED BY <1>1, <2>1, <2>2, <2>3 DEF IInv, PlaceInv
  <1>3. owed' = owed
    BY <1>1 DEF owed
  <1>4. CASE reader = link /\ link \in hostOpen
    <2>0. m \in Frame /\ m.kind = "output" /\ m.data = <<produced + 1>>
      <3>1. <<produced + 1>> \in Seq(Nat)
        BY Known
      <3> QED BY <3>1 DEF Frame
    <2>1. rep' = Append(rep, m)
      BY <1>1, <1>4, Known DEF toReader, sent
    <2> HIDE DEF m
    <2>2. rep' \in Seq(Frame)
      BY <2>0, <2>1, Known, AppendProperties
    <2>3. InOrder(rep, owed, position, produced) /\ UpToDate(rep, owed, position, produced)
      BY <1>4 DEF IInv, StreamInv
    <2>4. owed = 0 => position \in Nat
      BY <1>4, Known
    <2>5. InOrder(rep', owed, position, produced + 1) /\ UpToDate(rep', owed, position, produced + 1)
      BY <2>0, <2>1, <2>3, <2>4, Known, OutputAppended
    <2>6. LinkInv'
      BY <1>1, <1>4, <2>2, Known DEF IInv, LinkInv
    <2>7. RequestInv'
      <3>1. req[link] = <<>>
        BY <1>4 DEF IInv, RequestInv
      <3> QED BY <1>1, <1>3, <2>5, <3>1 DEF RequestInv, UpToDate
    <2>8. StreamInv'
      BY <1>1, <1>3, <2>5 DEF StreamInv
    <2> QED BY <1>2, <2>6, <2>7, <2>8 DEF IInv
  <1>5. CASE ~(reader = link /\ link \in hostOpen)
    <2>1. rep' = rep
      BY <1>1, <1>5 DEF toReader, sent
    <2>2. LinkInv' /\ RequestInv'
      BY <1>1, <1>3, <2>1 DEF IInv, LinkInv, RequestInv, attachFrame
    <2>3. InOrder(rep, owed, position, produced + 1)
      <3>1. CASE rep = <<>>
        <4>1. Len(rep) = 0
          BY <3>1
        <4> QED BY <4>1 DEF InOrder
      <3>2. CASE rep # <<>>
        <4>1. InOrder(rep, owed, position, produced) /\ (owed = 0 => position \in Nat)
          BY <3>2, Known DEF IInv, StreamInv
        <4> QED BY <4>1, Known, InOrderLater
      <3> QED BY <3>1, <3>2
    <2>4. StreamInv'
      BY <1>1, <1>3, <1>5, <2>1, <2>3 DEF StreamInv
    <2> QED BY <1>2, <2>2, <2>4 DEF IInv
  <1> QED BY <1>4, <1>5

(* The session ends, changes hands, or is let go of.                       *)
LEMMA SessionKept ==
  ASSUME IInv, SessionExits \/ OtherTakes \/ OtherLetsGo
  PROVE  IInv'
  <1>0. /\ UNCHANGED <<link, phase, position, screen, used, produced, startOffset, hostOpen, req>>
        /\ reader' \in {None, Other}
    BY DEF SessionExits, OtherTakes, OtherLetsGo, wireVars, transportVars, viewVars, storeVars
  <1>1. reader' # link /\ reader' \in (1..used) \cup {None, Other}
    BY <1>0, Constants DEF IInv, LinkInv
  <1>2. req' = [n \in Links |-> req'[n]] /\ hostOpen' \subseteq hostOpen /\ req'[link] = req[link]
    BY <1>0 DEF IInv, LinkInv
  <1>3. CASE OtherLetsGo
    <2>1. UNCHANGED rep
      BY <1>3 DEF OtherLetsGo, wireVars
    <2> QED BY <1>0, <1>1, <1>2, <2>1, TransportUntouched
  <1>4. CASE SessionExits
    <2>1. rep' = toReader([kind |-> "exit"])
      BY <1>4 DEF SessionExits
    <2> QED BY <1>0, <1>1, <1>2, <2>1, ReaderTold
  <1>5. CASE OtherTakes
    <2>1. rep' = toReader([kind |-> "taken"])
      BY <1>5 DEF OtherTakes
    <2> QED BY <1>0, <1>1, <1>2, <2>1, ReaderTold
  <1> QED BY <1>3, <1>4, <1>5

(* What the helper and the daemon find out, the events of the main actor,  *)
(* and an end that is put off: the link carries what it carried.           *)
LEMMA AsideKept ==
  ASSUME IInv, \/ HelperHears \/ LingerEnds \/ PeerGone \/ KillArrives \/ Cut \/ HandsOver \/ Apply \/ TabEnds
               \/ (CloseTab \/ DetachTab) /\ phase # "attached"
  PROVE  IInv'
  <1>1. /\ UNCHANGED <<rep, link, phase, position, screen, used, produced, startOffset, hostOpen, req>>
        /\ reader' = reader \/ reader' = None
    BY DEF HelperHears, LingerEnds, PeerGone, KillArrives, Cut, HandsOver, Apply, TabEnds, CloseTab, DetachTab,
           leaves, hostVars, wireVars, transportVars, viewVars, storeVars
  <1>2. None # link
    BY Constants DEF IInv, LinkInv
  <1> QED BY <1>1, <1>2, TransportUntouched DEF IInv, LinkInv

(* The host finds a link dead.                                             *)
LEMMA HostLosesLinkKept ==
  ASSUME IInv, NEW n \in Links, HostLosesLink(n)
  PROVE  IInv'
  <1>1. /\ UNCHANGED <<rep, link, phase, position, screen, used, produced, startOffset, reader>>
        /\ hostOpen' = hostOpen \ {n} /\ req' = [req EXCEPT ![n] = <<>>]
    BY DEF HostLosesLink, hostVars, transportVars, viewVars, storeVars
  <1>2. req' = [i \in Links |-> req'[i]]
    BY <1>1 DEF IInv, LinkInv
  <1>3. link \in hostOpen' => req'[link] = req[link]
    BY <1>1, Known DEF IInv, LinkInv
  <1> QED BY <1>1, <1>2, <1>3, TransportUntouched

(* SessionOutputLog's answer to the place an attach says the screen is at. *)
LEMMA DescribedContinues ==
  ASSUME IInv
  PROVE  /\ described(position) \in Frame
         /\ Continues(described(position), position, produced)
         /\ described(position).kind = "attached" /\ described(position).offset = produced
  <1>1. /\ produced \in Nat /\ startOffset \in Nat /\ startOffset <= produced
        /\ (produced > 0 => startOffset < produced)
        /\ (position # None => position \in Nat /\ position <= produced)
    BY DEF IInv, PlaceInv
  <1>2. CASE reaches(position)
    <2>1. position # None /\ position \in Nat /\ position <= produced /\ position >= startOffset
      BY <1>1, <1>2 DEF reaches
    <2>2. larger(startOffset, position) = position
      BY <1>1, <2>1 DEF larger
    <2> DEFINE d == Stretch(position, produced)
    <2>3. d \in Seq(Nat)
      BY <1>1, <2>1, StretchTyped
    <2>4. described(position) = [kind |-> "attached", resumed |-> TRUE, offset |-> produced, data |-> d]
      BY <1>2, <2>2 DEF described
    <2> HIDE DEF d
    <2>5. [kind |-> "attached", resumed |-> TRUE, offset |-> produced, data |-> d] \in Frame
      BY <1>1, <2>3 DEF Frame
    <2>6. /\ described(position).kind = "attached" /\ described(position).offset = produced
          /\ described(position).resumed = TRUE /\ described(position).data = d
      BY <2>4
    <2>7. Continues(described(position), position, produced)
      BY <1>1, <2>1, <2>6 DEF Continues, d
    <2> QED BY <2>4, <2>5, <2>6, <2>7
  <1>3. CASE ~reaches(position)
    <2> DEFINE from == larger(startOffset, produced - capacity)
               d == Stretch(from, produced)
    <2>1. from \in 0..produced /\ (produced > 0 => from < produced)
      BY <1>1, Constants DEF larger
    <2>4. described(position) = [kind |-> "attached", resumed |-> FALSE, offset |-> produced, data |-> d]
      BY <1>3 DEF described, rebuilt
    <2> HIDE DEF from
    <2>3. d \in Seq(Nat)
      <3>1. from \in Nat /\ from <= produced
        BY <1>1, <2>1
      <3> QED BY <1>1, <3>1, StretchTyped
    <2>d. d = Stretch(from, produced)
      OBVIOUS
    <2> HIDE DEF d
    <2>5. [kind |-> "attached", resumed |-> FALSE, offset |-> produced, data |-> d] \in Frame
      BY <1>1, <2>3 DEF Frame
    <2>6. /\ described(position).kind = "attached" /\ described(position).offset = produced
          /\ described(position).resumed = FALSE /\ described(position).data = d
      BY <2>4
    <2>7. Continues(described(position), position, produced)
      BY <1>1, <2>1, <2>6, <2>d DEF Continues
    <2> QED BY <2>4, <2>5, <2>6, <2>7
  <1> QED BY <1>2, <1>3

(* The reply to an attach.                                                 *)
LEMMA ReplyContinues ==
  ASSUME IInv, NEW n, NEW m, m.offset = position
  PROVE  /\ attachReply(n, m) \in Frame
         /\ Continues(attachReply(n, m), position, produced)
         /\ mayAttach(n, m) => attachReply(n, m).kind = "attached" /\ attachReply(n, m).offset = produced
  <1>1. CASE mayAttach(n, m)
    <2>1. attachReply(n, m) = described(position)
      BY <1>1 DEF attachReply, mayAttach
    <2> QED BY <2>1, DescribedContinues
  <1>2. CASE ~mayAttach(n, m)
    <2>1. attachReply(n, m) \in {[kind |-> "unknown"], [kind |-> "busy"]}
      BY <1>2 DEF attachReply, mayAttach
    <2>2. attachReply(n, m) \in Frame /\ attachReply(n, m).kind \in {"busy", "unknown"}
      BY <2>1 DEF Frame
    <2> QED BY <1>2, <2>2 DEF Continues
  <1> QED BY <1>1, <1>2

(* The host takes a frame of a link the tab has given up.                  *)
LEMMA OldLinkTaken ==
  ASSUME IInv, NEW n \in Links, n # link, HostTakes(n)
  PROVE  IInv'
  <1> DEFINE m == Head(req[n])
  <1>1. /\ UNCHANGED <<link, phase, position, screen, used, produced, startOffset>>
        /\ n \in hostOpen /\ hostOpen' \subseteq hostOpen /\ req' = [req EXCEPT ![n] = Tail(@)]
    BY DEF HostTakes, transportVars, viewVars, storeVars
  <1>2. req' = [i \in Links |-> req'[i]]
    BY <1>1 DEF IInv, LinkInv
  <1>3. link \in hostOpen' => req'[link] = req[link]
    BY <1>1, Known DEF IInv, LinkInv
  <1>4. n \in 1..used
    BY <1>1 DEF IInv, LinkInv
  <1>5. None # link
    BY Constants DEF IInv, LinkInv
  <1>6. CASE m.kind = "attach"
    <2>1. /\ rep' = displacing(n, m)
          /\ reader' = IF mayAttach(n, m) THEN n ELSE reader
      BY <1>6 DEF HostTakes
    <2>2. CASE mayAttach(n, m) /\ reader # n
      <3>1. rep' = toReader([kind |-> "taken"]) /\ reader' = n
        BY <2>1, <2>2 DEF displacing
      <3> QED BY <1>1, <1>2, <1>3, <1>4, <3>1, ReaderTold
    <2>3. CASE ~(mayAttach(n, m) /\ reader # n)
      <3>1. rep' = rep /\ reader' = reader
        BY <2>1, <2>3 DEF displacing
      <3> QED BY <1>1, <1>2, <1>3, <3>1, TransportUntouched
    <2> QED BY <2>2, <2>3
  <1>7. CASE m.kind # "attach"
    <2>1. rep' = rep /\ (reader' = reader \/ reader' = None)
      BY <1>7 DEF HostTakes, sent
    <2> QED BY <1>1, <1>2, <1>3, <1>5, <2>1, TransportUntouched
  <1> QED BY <1>6, <1>7

(* ... of the link of the moment.                                          *)
LEMMA LinkTaken ==
  ASSUME IInv, link \in Links, HostTakes(link)
  PROVE  IInv'
  <1> DEFINE m == Head(req[link])
  <1>1. /\ UNCHANGED <<link, phase, position, screen, used, produced, startOffset>>
        /\ link \in hostOpen /\ req[link] # <<>> /\ req' = [req EXCEPT ![link] = Tail(@)]
    BY DEF HostTakes, transportVars, viewVars, storeVars
  <1>2. req' = [i \in Links |-> req'[i]] /\ req'[link] = Tail(req[link])
    BY <1>1, Known DEF IInv, LinkInv
  <1>3. owed' = owed
    BY <1>1 DEF owed
  <1>4. PlaceInv'
    BY <1>1 DEF IInv, PlaceInv, View!Newest
  <1>5. ASSUME NEW takingOver \in BOOLEAN, phase = "hello", rep = <<>>, reader # link,
               req[link] = <<Hello, attachFrame(takingOver)>>
        PROVE  IInv'
    <2>1. m = Hello /\ m.kind = "hello" /\ Tail(req[link]) = <<attachFrame(takingOver)>>
      BY <1>5 DEF Hello
    <2>2. rep' = Append(rep, [kind |-> "helloOK"]) /\ UNCHANGED <<reader, hostOpen>>
      BY <1>1, <2>1 DEF HostTakes, sent
    <2>3. rep' = <<[kind |-> "helloOK"]>>
      BY <1>5, <2>2
    <2>4. rep' \in Seq(Frame) /\ Len(rep') = 1 /\ rep'[1].kind = "helloOK"
      <3>1. [kind |-> "helloOK"] \in Frame
        BY DEF Frame
      <3> QED BY <2>3, <3>1
    <2>5. owed = 2
      BY <1>5 DEF owed
    <2>6. LinkInv'
      BY <1>1, <1>2, <2>2, <2>4, Known DEF IInv, LinkInv
    <2>7. RequestInv'
      <3>1. attachFrame(takingOver)' = attachFrame(takingOver)
        BY <1>1 DEF attachFrame
      <3> QED BY <1>1, <1>2, <1>3, <1>5, <2>1, <2>2, <2>4, <2>5, <3>1 DEF RequestInv
    <2>8. StreamInv'
      <3>1. InOrder(rep', 2, position, produced)
        BY <2>4 DEF InOrder
      <3> QED BY <1>1, <1>3, <1>5, <2>2, <2>5, <3>1 DEF StreamInv
    <2> QED BY <1>4, <2>6, <2>7, <2>8 DEF IInv
  <1>6. ASSUME NEW takingOver \in BOOLEAN, owed = Len(rep) + 1, reader # link,
               req[link] = <<attachFrame(takingOver)>>
        PROVE  IInv'
    <2>1. m = attachFrame(takingOver) /\ m.kind = "attach" /\ m.offset = position
          /\ Tail(req[link]) = <<>>
      BY <1>6 DEF attachFrame
    <2> DEFINE a == attachReply(link, m)
    <2>2. /\ rep' = Append(rep, a) /\ UNCHANGED hostOpen
          /\ reader' = IF mayAttach(link, m) THEN link ELSE reader
      BY <1>1, <2>1 DEF HostTakes, sent
    <2>3. /\ a \in Frame /\ Continues(a, position, produced)
          /\ mayAttach(link, m) => a.kind = "attached" /\ a.offset = produced
      BY <2>1, ReplyContinues
    <2>r. reader' \in (1..used) \cup {None, Other} /\ (reader' = link => mayAttach(link, m))
      BY <1>1, <1>6, <2>2 DEF IInv, LinkInv
    <2> HIDE DEF a, m
    <2>4. InOrder(rep, owed, position, produced)
      BY DEF IInv, StreamInv
    <2>5. /\ InOrder(rep', owed, position, produced) /\ owed <= Len(rep')
          /\ a.kind = "attached" /\ a.offset = produced => UpToDate(rep', owed, position, produced)
      BY <1>6, <2>2, <2>3, <2>4, Known, ReplyAppended
    <2>6. rep' \in Seq(Frame)
      BY <2>2, <2>3, Known, AppendProperties
    <2>7. LinkInv'
      BY <1>1, <1>2, <2>2, <2>6, <2>r, Known DEF IInv, LinkInv
    <2>8. RequestInv'
      BY <1>1, <1>2, <1>3, <2>1, <2>5 DEF RequestInv
    <2>9. StreamInv'
      BY <1>1, <1>3, <2>3, <2>5, <2>r DEF StreamInv
    <2> QED BY <1>4, <2>7, <2>8, <2>9 DEF IInv
  <1> QED BY <1>1, <1>5, <1>6 DEF IInv, RequestInv

-----------------------------------------------------------------------------
(* The transport. *)

(* What the first frame under way says of the replies still owed.          *)
LEMMA FirstFrame ==
  ASSUME IInv, rep # <<>>
  PROVE  /\ Head(rep) = rep[1] /\ rep[1] \in Frame /\ link # NoLink
         /\ rep[1].kind = "helloOK" => phase = "hello" /\ owed = 2
         /\ rep[1].kind = "attached" => phase = "attach" /\ owed = 1 /\ Continues(rep[1], position, produced)
         /\ rep[1].kind = "output" => /\ phase = "attached" /\ owed = 0 /\ position \in Nat
                                      /\ position + 1 <= produced /\ rep[1].data = <<position + 1>>
  <1>1. rep \in Seq(Frame) /\ link # NoLink /\ InOrder(rep, owed, position, produced)
    BY Known DEF IInv, StreamInv
  <1>2. Head(rep) = rep[1] /\ rep[1] \in Frame /\ Len(rep) \in Nat \ {0}
    BY <1>1, WithoutFirst
  <1>3. 1 \in 1..Len(rep)
    BY <1>2
  <1>4. owed \in 0..2 /\ (owed = 2 => phase = "hello") /\ (owed = 1 => phase = "attach")
    BY DEF owed
  <1>5. /\ 1 < owed => rep[1].kind = "helloOK"
        /\ 1 = owed => Continues(rep[1], position, produced)
        /\ 1 > owed =>
             /\ rep[1].kind \in {"output", "taken", "exit"}
             /\ rep[1].kind = "output" =>
                  /\ rep[1].data = <<start(rep, owed, position) + (1 - owed)>>
                  /\ start(rep, owed, position) + (1 - owed) <= produced
    BY <1>1, <1>3 DEF InOrder
  <1>6. 1 = owed => rep[1].kind \in {"attached", "busy", "unknown"}
    BY <1>5 DEF Continues
  <1>7. CASE owed = 0
    <2>1. start(rep, owed, position) = position /\ 1 > owed /\ 1 - owed = 1
      BY <1>7 DEF start
    <2>2. phase = "attached" /\ position \in Nat
      BY <1>1, <1>7, Known
    <2> QED BY <1>1, <1>2, <1>5, <1>7, <2>1, <2>2
  <1>8. CASE owed = 1
    BY <1>1, <1>2, <1>4, <1>5, <1>6, <1>8
  <1>9. CASE owed = 2
    BY <1>1, <1>2, <1>4, <1>5, <1>9
  <1> QED BY <1>4, <1>7, <1>8, <1>9

(* The first frame is read, and the link goes on.                          *)
LEMMA FrameRead ==
  ASSUME IInv, rep # <<>>, rep' = Tail(rep), PlaceInv',
         UNCHANGED <<link, used, produced, reader, hostOpen, req>>,
         \/ owed = 2 /\ phase' = "attach" /\ position' = position
         \/ owed = 1 /\ rep[1].kind = "attached" /\ phase' = "attached" /\ position' = rep[1].offset
         \/ owed = 0 /\ UNCHANGED phase /\ position' = position + 1
  PROVE  IInv'
  <1>1. /\ rep' \in Seq(Frame) /\ Len(rep) \in Nat \ {0} /\ Len(rep') = Len(rep) - 1 /\ link # NoLink
    BY Known, WithoutFirst
  <1>2. owed = 0 => phase = "attached" /\ position \in Nat
    BY <1>1, Known
  <1>3. \/ owed = 2 /\ owed' = 1 /\ position' = position
        \/ owed = 1 /\ owed' = 0 /\ rep[1].kind = "attached" /\ position' = rep[1].offset
        \/ owed = 0 /\ owed' = 0 /\ position \in Nat /\ position' = position + 1
    BY <1>2 DEF owed
  <1>4. phase' # "none" /\ (phase' = "attached" => position' # None)
    <2>1. owed = 1 /\ rep[1].kind = "attached" => rep[1].offset \in Nat
      BY FirstFrame DEF Continues
    <2> QED BY <1>2, <2>1, Constants
  <1>5. LinkInv'
    BY <1>1, <1>2, <1>4 DEF IInv, LinkInv
  <1>6. InOrder(rep, owed, position, produced)
    BY DEF IInv, StreamInv
  <1>7. /\ InOrder(rep', owed', position', produced)
        /\ UpToDate(rep, owed, position, produced) => UpToDate(rep', owed', position', produced)
    BY <1>3, <1>6, Known, FirstRead
  <1>8. StreamInv'
    BY <1>7 DEF IInv, StreamInv
  <1>9. RequestInv'
    <2> SUFFICES ASSUME link \in hostOpen
                 PROVE  \/ /\ owed' = Len(rep') + 1 /\ reader # link
                           /\ \E takingOver \in BOOLEAN : req[link] = <<attachFrame(takingOver)'>>
                        \/ /\ owed' <= Len(rep') /\ req[link] = <<>>
      BY DEF RequestInv
    <2>1. CASE owed <= Len(rep) /\ req[link] = <<>>
      BY <1>1, <1>3, <2>1
    <2>2. ASSUME NEW takingOver \in BOOLEAN, owed = Len(rep) + 1, reader # link,
                 req[link] = <<attachFrame(takingOver)>>
          PROVE  \/ /\ owed' = Len(rep') + 1 /\ reader # link
                    /\ req[link] = <<attachFrame(takingOver)'>>
      <3>1. owed = 2 /\ owed' = 1 /\ Len(rep') = 0 /\ position' = position
        BY <1>1, <1>3, <2>2
      <3>2. attachFrame(takingOver)' = attachFrame(takingOver)
        BY <3>1 DEF attachFrame
      <3> QED BY <2>2, <3>1, <3>2
    <2> QED BY <2>1, <2>2 DEF IInv, RequestInv
  <1> QED BY <1>5, <1>8, <1>9 DEF IInv

(* The hello is answered.                                                  *)
LEMMA HelloAnsweredKept ==
  ASSUME IInv, HelloAnswered
  PROVE  IInv'
  <1>1. /\ rep # <<>> /\ Head(rep).kind = "helloOK" /\ rep' = Tail(rep) /\ phase' = "attach"
        /\ UNCHANGED <<link, used, produced, startOffset, reader, hostOpen, req, position, screen>>
    BY DEF HelloAnswered, arrived, hostVars, viewVars, storeVars
  <1>2. owed = 2
    BY <1>1, FirstFrame
  <1>3. PlaceInv'
    BY <1>1 DEF IInv, PlaceInv, View!Newest
  <1> QED BY <1>1, <1>2, <1>3, FrameRead

(* The newest byte shown is the one before the position.                   *)
LEMMA NewestShown ==
  ASSUME PlaceInv
  PROVE  View!Newest \in Nat /\ View!Newest <= produced
         /\ (position = None => View!Newest = 0) /\ (position # None => View!Newest = position)
  BY DEF PlaceInv, View!Newest

(* The attach is granted: the screen is brought up to the reply's offset.  *)
LEMMA AttachedKept ==
  ASSUME IInv, Attached
  PROVE  IInv' /\ (View!Extend \/ View!Rebuild)
  <1> DEFINE m == rep[1]
             to == m.offset
  <1>1. /\ rep # <<>> /\ Head(rep).kind = "attached" /\ rep' = Tail(rep) /\ phase' = "attached"
        /\ screen' = shownWith(Head(rep)) /\ position' = Head(rep).offset
        /\ UNCHANGED <<link, used, produced, startOffset, reader, hostOpen, req>>
    BY DEF Attached, arrived, hostVars
  <1>2. /\ Head(rep) = m /\ m \in Frame /\ m.kind = "attached" /\ owed = 1
        /\ Continues(m, position, produced)
    BY <1>1, FirstFrame
  <1>3. /\ to \in Nat /\ to <= produced /\ (position # None => position <= to)
        /\ m.resumed => position # None /\ m.data = Stretch(position, to)
        /\ ~m.resumed => \E from \in 0..to : (to > 0 => from < to) /\ m.data = Stretch(from, to)
    BY <1>2 DEF Continues
  <1>4. m.resumed \in BOOLEAN
    BY <1>2 DEF Frame
  <1>p. position' = to /\ screen' = shownWith(m)
    BY <1>1, <1>2
  <1>k. owed = 1 /\ rep[1].kind = "attached" /\ position' = rep[1].offset
    BY <1>2, <1>p
  <1>5. /\ View!Newest \in Nat /\ View!Newest <= to /\ produced \in Nat /\ screen \in Seq(Nat)
        /\ (position # None => View!Newest = position)
    BY <1>3, NewestShown DEF IInv, PlaceInv
  <1> HIDE DEF m, to
  <1>6. CASE m.resumed
    <2>1. screen' = screen \o Stretch(View!Newest, to)
      BY <1>3, <1>5, <1>6, <1>p DEF shownWith
    <2>2. screen' \in Seq(Nat) /\ View!Newest' = to
      BY <1>3, <1>5, <2>1, NewestAfterExtending
    <2>3. PlaceInv'
      BY <1>1, <1>3, <1>p, <2>2, Constants DEF IInv, PlaceInv
    <2>4. to \in View!Newest..produced
      BY <1>3, <1>5
    <2>5. View!Extend
      BY <1>1, <2>1, <2>4 DEF View!Extend, View!Stretch, Stretch
    <2> QED BY <1>1, <1>k, <2>3, <2>5, FrameRead
  <1>7. CASE ~m.resumed
    <2>1. PICK from \in 0..to : (to > 0 => from < to) /\ m.data = Stretch(from, to)
      BY <1>3, <1>7
    <2>2. screen' = Stretch(from, to)
      BY <1>7, <1>p, <2>1 DEF shownWith
    <2>3. screen' \in Seq(Nat) /\ View!Newest' = to
      BY <1>3, <2>1, <2>2, NewestAfterRebuilding
    <2>4. PlaceInv'
      BY <1>1, <1>3, <1>p, <2>3, Constants DEF IInv, PlaceInv
    <2>5. to \in View!Newest..produced
      BY <1>3, <1>5
    <2>6. View!Rebuild
      BY <1>1, <2>1, <2>2, <2>5 DEF View!Rebuild, View!Stretch, Stretch
    <2> QED BY <1>1, <1>k, <2>4, <2>6, FrameRead
  <1> QED BY <1>4, <1>6, <1>7

(* Output arrives: it is the byte that comes next.                         *)
LEMMA OutputKept ==
  ASSUME IInv, Output
  PROVE  IInv' /\ View!Extend
  <1>1. /\ rep # <<>> /\ Head(rep).kind = "output" /\ rep' = Tail(rep)
        /\ screen' = screen \o Head(rep).data /\ position' = position + Len(Head(rep).data)
        /\ UNCHANGED <<link, used, phase, produced, startOffset, reader, hostOpen, req>>
    BY DEF Output, arrived, advanced, hostVars, transportVars, storeVars
  <1>2. /\ owed = 0 /\ position \in Nat /\ position + 1 <= produced /\ Head(rep).data = <<position + 1>>
    BY <1>1, FirstFrame
  <1>3. position' = position + 1
    BY <1>1, <1>2
  <1>4. View!Newest = position /\ screen \in Seq(Nat) /\ produced \in Nat
    BY <1>2, Constants, NewestShown DEF IInv, PlaceInv
  <1> DEFINE to == position + 1
  <1>5. screen' = screen \o Stretch(View!Newest, to)
    BY <1>1, <1>2, <1>4, OneByte
  <1>6. to \in Nat /\ to <= produced /\ View!Newest \in Nat /\ View!Newest <= to
    BY <1>2, <1>4
  <1>t. position' = to
    BY <1>3
  <1> HIDE DEF to
  <1>7. screen' \in Seq(Nat) /\ View!Newest' = to
    BY <1>4, <1>5, <1>6, NewestAfterExtending
  <1>8. PlaceInv'
    BY <1>1, <1>6, <1>7, <1>t, Constants DEF IInv, PlaceInv
  <1>9. View!Extend
    <2>1. to \in View!Newest..produced
      BY <1>4, <1>6
    <2> QED BY <1>1, <1>5, <2>1 DEF View!Extend, View!Stretch, Stretch
  <1> QED BY <1>1, <1>2, <1>3, <1>8, <1>9, FrameRead

(* The transport lets go of its connection.                                *)
LEMMA Dropped ==
  ASSUME IInv, link' = NoLink, phase' = "none", rep' = <<>>,
         UNCHANGED <<position, screen, produced, startOffset, reader, hostOpen, used>>,
         req' = [n \in Links |-> req'[n]]
  PROVE  IInv'
  <1>1. PlaceInv'
    BY DEF IInv, PlaceInv, View!Newest
  <1>2. rep' \in Seq(Frame) /\ Len(rep') = 0
    OBVIOUS
  <1>3. NoLink \notin hostOpen /\ NoLink \in 0..used
    BY DEF IInv, LinkInv, NoLink
  <1>4. LinkInv'
    BY <1>2, <1>3 DEF IInv, LinkInv
  <1>5. RequestInv'
    BY <1>3 DEF RequestInv
  <1>6. InOrder(rep', owed', position', produced')
    BY <1>2 DEF InOrder
  <1>7. StreamInv'
    BY <1>3, <1>6 DEF StreamInv
  <1> QED BY <1>1, <1>4, <1>5, <1>7 DEF IInv

(* The link's last frames leave every queue a queue of some link.          *)
LEMMA HungUp ==
  ASSUME IInv, NEW kinds, hangUp(kinds)
  PROVE  link' = NoLink /\ phase' = "none" /\ rep' = <<>> /\ req' = [n \in Links |-> req'[n]]
  <1> DEFINE last == req[link] \o [i \in DOMAIN kinds |-> [kind |-> kinds[i]]] \o <<[kind |-> "fin"]>>
  <1>1. link' = NoLink /\ phase' = "none" /\ rep' = <<>>
    BY DEF hangUp, drop
  <1>2. req' = req \/ req' = [req EXCEPT ![link] = last]
    BY DEF hangUp
  <1> HIDE DEF last
  <1>3. req' = [n \in Links |-> req'[n]]
    BY <1>2 DEF IInv, LinkInv
  <1> QED BY <1>1, <1>3

(* Every way the transport ends a link, its tab closing or not.            *)
LEMMA EndsKept ==
  ASSUME IInv, \/ SettleDeferredEnd \/ HeldElsewhere \/ SessionEnded \/ LinkLost \/ HelloTimeout
               \/ (CloseTab \/ DetachTab) /\ phase = "attached"
  PROVE  IInv' /\ phase' = "none" /\ UNCHANGED screen
  <1>1. UNCHANGED <<position, screen, produced, startOffset, reader, hostOpen, used>>
    BY DEF SettleDeferredEnd, HeldElsewhere, SessionEnded, LinkLost, HelloTimeout, CloseTab, DetachTab,
           leaves, hostVars, viewVars
  <1>2. CASE LinkLost
    BY <1>1, <1>2, Dropped DEF LinkLost, drop, IInv, LinkInv
  <1>3. ASSUME NEW kinds, hangUp(kinds)
        PROVE  IInv' /\ phase' = "none"
    BY <1>1, <1>3, HungUp, Dropped
  <1>4. CASE SettleDeferredEnd
    BY <1>1, <1>3, <1>4 DEF SettleDeferredEnd
  <1>5. CASE HeldElsewhere \/ SessionEnded \/ HelloTimeout
    BY <1>1, <1>3, <1>5 DEF HeldElsewhere, SessionEnded, HelloTimeout
  <1>6. CASE CloseTab /\ phase = "attached"
    BY <1>1, <1>3, <1>6 DEF CloseTab, Negotiating
  <1>7. CASE DetachTab /\ phase = "attached"
    BY <1>1, <1>3, <1>7 DEF DetachTab, Negotiating
  <1> QED BY <1>1, <1>2, <1>4, <1>5, <1>6, <1>7

(* A link is made: the host has heard nothing on it, and owes two replies. *)
LEMMA ConnectKept ==
  ASSUME IInv, NEW takingOver \in BOOLEAN, connect(takingOver)
  PROVE  IInv'
  <1> DEFINE n == used + 1
             ended == IF link \in hostOpen THEN [req EXCEPT ![link] = Append(@, [kind |-> "fin"])]
                                           ELSE req
             asked == <<Hello, attachFrame(takingOver)>>
  <1>0. used < MaxLinks
    BY Constants DEF connect, linkLimit, IInv, LinkInv
  <1>1. /\ used < MaxLinks /\ used' = n /\ link' = n /\ hostOpen' = hostOpen \cup {n}
        /\ rep' = <<>> /\ phase' = "hello"
        /\ UNCHANGED <<position, screen, produced, startOffset, reader>>
    BY <1>0 DEF connect, hostVars, viewVars
  <1>2. req' = [ended EXCEPT ![n] = asked]
    BY DEF connect, heldOffset, Hello, attachFrame
  <1>3. used \in Nat /\ n \in Links /\ n # NoLink
    BY <1>1, Constants DEF IInv, LinkInv, Links, NoLink
  <1>4. ended = [i \in Links |-> ended[i]]
    BY DEF IInv, LinkInv
  <1> HIDE DEF ended
  <1>5. req' = [i \in Links |-> req'[i]] /\ req'[n] = asked
    BY <1>2, <1>3, <1>4
  <1>a. asked' = asked
    BY <1>1 DEF attachFrame, Hello
  <1> HIDE DEF asked
  <1>6. /\ rep' \in Seq(Frame) /\ Len(rep') = 0
    BY <1>1
  <1>7. reader # n /\ reader \in (1..n) \cup {None, Other} /\ hostOpen' \subseteq 1..n
        /\ n \in 0..n /\ n \in 0..MaxLinks
    BY <1>1, <1>3, Constants DEF IInv, LinkInv, Links
  <1>8. PlaceInv'
    BY <1>1 DEF IInv, PlaceInv, View!Newest
  <1>9. LinkInv'
    BY <1>1, <1>3, <1>5, <1>6, <1>7 DEF LinkInv
  <1>10. RequestInv'
    <2>1. req'[link'] = <<Hello, attachFrame(takingOver)'>>
      BY <1>1, <1>5, <1>a DEF asked, Hello
    <2> QED BY <1>1, <1>7, <2>1 DEF RequestInv, Hello
  <1>11. InOrder(rep', owed', position', produced')
    BY <1>6 DEF InOrder
  <1>12. StreamInv'
    BY <1>1, <1>7, <1>11 DEF StreamInv
  <1> QED BY <1>8, <1>9, <1>10, <1>12 DEF IInv

(* ... for whatever reason it is made.                                     *)
LEMMA ConnectsKept ==
  ASSUME IInv, FirstConnect \/ RetryFires \/ ReconnectNow \/ TakeOver
  PROVE  IInv' /\ UNCHANGED screen
  <1>1. \E takingOver \in BOOLEAN : connect(takingOver)
    BY DEF FirstConnect, RetryFires, ReconnectNow, TakeOver
  <1>2. UNCHANGED screen
    BY <1>1 DEF connect, viewVars
  <1> QED BY <1>1, <1>2, ConnectKept

-----------------------------------------------------------------------------
(* The tab. *)

(* The log starts, and nothing has been asked.                             *)
LEMMA InitKept == Init => IInv
  <1> SUFFICES ASSUME Init PROVE IInv
    OBVIOUS
  <1> USE DEF Init
  <1>1. PlaceInv
    BY DEF PlaceInv
  <1>2. LinkInv
    BY Constants DEF LinkInv, NoLink
  <1>3. RequestInv /\ InOrder(rep, owed, position, produced) /\ StreamInv
    BY DEF RequestInv, InOrder, StreamInv
  <1> QED BY <1>1, <1>2, <1>3 DEF IInv

(* A step of the tab or of anybody else.                                   *)
LEMMA StepKept ==
  ASSUME IInv, [Next]_vars
  PROVE  IInv' /\ [View!Next]_(View!vars)
  <1>1. CASE UNCHANGED vars
    <2>1. UNCHANGED <<rep, link, phase, position, screen, used, produced, startOffset, reader, hostOpen, req>>
      BY <1>1 DEF vars, hostVars, wireVars, transportVars, viewVars, storeVars
    <2>2. UNCHANGED View!vars
      BY <2>1 DEF View!vars
    <2> QED BY <2>1, <2>2, TransportUntouched DEF IInv, LinkInv
  <1>2. CASE Prints
    <2>1. View!Prints
      BY <1>2 DEF Prints, View!Prints, viewVars
    <2> QED BY <1>2, <2>1, PrintsKept DEF View!Next
  <1>3. CASE SessionExits \/ OtherTakes \/ OtherLetsGo
    <2>1. UNCHANGED View!vars
      BY <1>3 DEF SessionExits, OtherTakes, OtherLetsGo, View!vars, viewVars
    <2> QED BY <1>3, <2>1, SessionKept
  <1>4. ASSUME NEW n \in Links, HostTakes(n) \/ HostLosesLink(n)
        PROVE  IInv' /\ UNCHANGED View!vars
    <2>1. UNCHANGED View!vars
      BY <1>4 DEF HostTakes, HostLosesLink, hostVars, viewVars, View!vars
    <2> QED BY <1>4, <2>1, OldLinkTaken, LinkTaken, HostLosesLinkKept
  <1>5. CASE \/ HelperHears \/ LingerEnds \/ PeerGone \/ KillArrives \/ Cut \/ HandsOver \/ Apply \/ TabEnds
             \/ (CloseTab \/ DetachTab) /\ phase # "attached"
    <2>1. UNCHANGED View!vars
      BY <1>5 DEF HelperHears, LingerEnds, PeerGone, KillArrives, Cut, HandsOver, Apply, TabEnds,
                  CloseTab, DetachTab, hostVars, viewVars, View!vars
    <2> QED BY <1>5, <2>1, AsideKept
  <1>6. CASE HelloAnswered
    <2>1. UNCHANGED View!vars
      BY <1>6 DEF HelloAnswered, hostVars, viewVars, View!vars
    <2> QED BY <1>6, <2>1, HelloAnsweredKept
  <1>7. CASE Attached
    BY <1>7, AttachedKept DEF View!Next
  <1>8. CASE Output
    BY <1>8, OutputKept DEF View!Next
  <1>9. CASE \/ SettleDeferredEnd \/ HeldElsewhere \/ SessionEnded \/ LinkLost \/ HelloTimeout
             \/ (CloseTab \/ DetachTab) /\ phase = "attached"
    <2>1. UNCHANGED View!vars
      BY <1>9 DEF SettleDeferredEnd, HeldElsewhere, SessionEnded, LinkLost, HelloTimeout, CloseTab,
                  DetachTab, hostVars, viewVars, View!vars
    <2> QED BY <1>9, <2>1, EndsKept
  <1>10. CASE FirstConnect \/ RetryFires \/ ReconnectNow \/ TakeOver
    <2>1. UNCHANGED View!vars
      BY <1>10 DEF FirstConnect, RetryFires, ReconnectNow, TakeOver, connect, hostVars, viewVars, View!vars
    <2> QED BY <1>10, <2>1, ConnectsKept
  <1> QED BY <1>1, <1>2, <1>3, <1>4, <1>5, <1>6, <1>7, <1>8, <1>9, <1>10 DEF Next

(* The offset an attach carries, the answers under way, the transport's    *)
(* position and the screen agree in every state, whatever links died       *)
(* between them (XPCDaemonTransport, SessionOutputPosition).               *)
THEOREM PlacesAgree == Spec => []IInv
  <1>1. Init => IInv
    BY InitKept
  <1>2. IInv /\ [Next]_vars => IInv'
    BY StepKept
  <1> QED BY <1>1, <1>2, PTL DEF Spec

(* The tab implements TerminalView: for any replay capacity and any number *)
(* of links lost at any point, its terminal shows one unbroken stretch of  *)
(* what the session printed and never goes back                            *)
(* (SessionOutputLog.replay, XPCDaemonTransport's attach).                 *)
THEOREM OutputIsShown == Spec => ShowsTheOutput
  <1>1. Init => View!Init
    BY DEF Init, View!Init
  <1>2. IInv /\ [Next]_vars => [View!Next]_(View!vars)
    BY StepKept
  <1> QED BY <1>1, <1>2, PlacesAgree, PTL DEF Spec, ShowsTheOutput, View!Spec

-----------------------------------------------------------------------------
(* The store. *)

(* Nothing is said to the main actor, and the transport is as attached as  *)
(* it was.                                                                 *)
LEMMA NothingSaid ==
  ASSUME StatusInv, UNCHANGED <<main, hop, lastWord, used, status>>,
         phase' = "attached" <=> phase = "attached"
  PROVE  StatusInv'
  BY DEF StatusInv, EndsConnected, Speaking

(* A handler of the transport did its work: the event it ends in agrees    *)
(* with the transport.                                                     *)
LEMMA TrulyTold ==
  ASSUME StatusInv, used \in Nat \ {0}, ~Speaking,
         NEW events \in Seq(Event), events # <<>>,
         hop' = told(events), UNCHANGED <<main, lastWord, used, status>>,
         events[Len(events)] = "connected" <=> phase' = "attached"
  PROVE  StatusInv'
  <1>1. CASE status \in Gone
    BY <1>1 DEF StatusInv, told
  <1>2. CASE status \notin Gone
    <2> DEFINE new == [from |-> used, says |-> events]
    <2>1. hop' = hop \cup {new} /\ new.from = used /\ new.says = events
      BY <1>2 DEF told
    <2> HIDE DEF new
    <2>2. Speaking'
      BY <2>1 DEF Speaking
    <2>3. ASSUME NEW x \in hop'
          PROVE  /\ x.from \in 1..used /\ x.says \in Seq(Event) /\ x.says # <<>>
                 /\ x.from = used => (x.says[Len(x.says)] = "connected" <=> phase' = "attached")
      <3>1. CASE x = new
        BY <2>1, <3>1
      <3>2. CASE x \in hop
        BY <3>2 DEF StatusInv, Speaking
      <3> QED BY <2>1, <2>3, <3>1, <3>2
    <2> QED BY <1>2, <2>2, <2>3 DEF StatusInv
  <1> QED BY <1>1, <1>2

(* A sequence ends as the one it is extended by does.                      *)
LEMMA EndsAsExtended ==
  ASSUME NEW s \in Seq(Event), NEW t \in Seq(Event), t # <<>>
  PROVE  s \o t \in Seq(Event) /\ s \o t # <<>> /\ (s \o t)[Len(s \o t)] = t[Len(t)]
  <1>1. Len(s) \in Nat /\ Len(t) \in Nat /\ Len(t) # 0
    BY LenProperties, EmptySeq
  <1>2. /\ s \o t \in Seq(Event) /\ Len(s \o t) = Len(s) + Len(t)
        /\ \A i \in 1..Len(s) + Len(t) :
             (s \o t)[i] = IF i <= Len(s) THEN s[i] ELSE t[i - Len(s)]
    BY ConcatProperties
  <1>3. /\ Len(s) + Len(t) \in 1..Len(s) + Len(t)
        /\ ~(Len(s) + Len(t) <= Len(s))
        /\ (Len(s) + Len(t)) - Len(s) = Len(t)
    BY <1>1
  <1>4. (s \o t)[Len(s) + Len(t)] = t[Len(t)]
    BY <1>2, <1>3
  <1>5. Len(s \o t) # 0
    BY <1>1, <1>2
  <1> QED BY <1>2, <1>4, <1>5, EmptySeq

(* A handler hands its event over.  That of a replaced transport leaves    *)
(* the last word to nobody in particular.                                  *)
LEMMA HandedOver ==
  ASSUME StatusInv, used \in Nat, HandsOver
  PROVE  StatusInv'
  <1>1. PICK x \in hop : /\ hop' = hop \ {x} /\ main' = main \o x.says /\ lastWord' = x.from
                         /\ UNCHANGED <<phase, status, used>>
    BY DEF HandsOver, transportVars
  <1>2. /\ main \in Seq(Event) /\ status \notin Gone
        /\ x.from \in 1..used /\ x.says \in Seq(Event) /\ x.says # <<>>
        /\ x.from = used => (x.says[Len(x.says)] = "connected" <=> phase = "attached")
    BY <1>1 DEF StatusInv
  <1>3. main' \in Seq(Event) /\ main' # <<>> /\ main'[Len(main')] = x.says[Len(x.says)]
    BY <1>1, <1>2, EndsAsExtended
  <1>4. lastWord' \in 0..used'
    BY <1>1, <1>2
  <1>5. \A y \in hop' : /\ y.from \in 1..used' /\ y.says \in Seq(Event) /\ y.says # <<>>
                        /\ y.from = used' => (y.says[Len(y.says)] = "connected" <=> phase' = "attached")
    BY <1>1 DEF StatusInv
  <1>6. lastWord' = used' => (EndsConnected' <=> phase' = "attached")
    BY <1>1, <1>2, <1>3 DEF EndsConnected
  <1> QED BY <1>1, <1>2, <1>3, <1>4, <1>5, <1>6 DEF StatusInv

(* A transport takes the place of the last: it has the word, and none of   *)
(* the handlers still running is its own.                                  *)
LEMMA Replaced ==
  ASSUME StatusInv, used \in Nat, NEW takingOver \in BOOLEAN, connect(takingOver)
  PROVE  StatusInv'
  <1>1. /\ status \notin Gone /\ main' = Append(main, "connecting") /\ lastWord' = used + 1
        /\ used' = used + 1 /\ phase' = "hello" /\ UNCHANGED <<status, hop>>
    BY DEF connect
  <1>2. main' = main \o <<"connecting">> /\ main \in Seq(Event)
    BY <1>1 DEF StatusInv
  <1>3. <<"connecting">> \in Seq(Event) /\ <<"connecting">> # <<>>
        /\ <<"connecting">>[Len(<<"connecting">>)] = "connecting"
    BY DEF Event
  <1>4. main' \in Seq(Event) /\ main' # <<>> /\ main'[Len(main')] = "connecting"
    BY <1>2, <1>3, EndsAsExtended
  <1>5. \A x \in hop' : /\ x.from \in 1..used' /\ x.says \in Seq(Event) /\ x.says # <<>>
                        /\ x.from # used'
    BY <1>1 DEF StatusInv
  <1>6. ~EndsConnected' /\ lastWord' \in 0..used'
    BY <1>1, <1>4 DEF EndsConnected
  <1> QED BY <1>1, <1>4, <1>5, <1>6 DEF StatusInv

(* The tab is gone, and nobody waits for its events.                       *)
LEMMA TabGone ==
  ASSUME StatusInv, NEW how \in Gone, leaves(how)
  PROVE  StatusInv'
  <1>1. <<>> \in Seq(Event)
    OBVIOUS
  <1> QED BY <1>1 DEF leaves, StatusInv

(* An event is applied: the status becomes what it says, or the next event *)
(* has the word.                                                           *)
LEMMA EventApplied ==
  ASSUME StatusInv, Apply
  PROVE  StatusInv'
  <1>1. /\ main # <<>> /\ main' = Tail(main) /\ UNCHANGED <<phase, hop, lastWord, used>>
        /\ status' \notin Gone /\ (status' = "connected" <=> Head(main) = "connected")
    BY DEF Apply, scheduleReconnect, transportVars, Gone
  <1>2. main \in Seq(Event) /\ status \notin Gone
    BY <1>1 DEF StatusInv
  <1>3. /\ Len(main) \in Nat /\ Len(main) # 0 /\ Head(main) = main[1]
        /\ main' \in Seq(Event) /\ Len(main') = Len(main) - 1
        /\ \A i \in 1..Len(main') : main'[i] = main[i + 1]
    <2>1. Len(main) \in Nat /\ Len(main) # 0
      BY <1>1, <1>2, LenProperties, EmptySeq
    <2> QED BY <1>1, <1>2, <2>1, HeadTailProperties
  <1>4. EndsConnected <=> main[Len(main)] = "connected"
    BY <1>1 DEF EndsConnected
  <1>s. (EndsConnected' <=> EndsConnected) => StatusInv'
    BY <1>1, <1>2, <1>3 DEF StatusInv, Speaking
  <1>5. CASE main' = <<>>
    <2>1. Len(main) = 1
      BY <1>3, <1>5
    <2>2. EndsConnected' <=> status' = "connected"
      BY <1>5 DEF EndsConnected
    <2> QED BY <1>1, <1>3, <1>4, <1>s, <2>1, <2>2
  <1>6. CASE main' # <<>>
    <2>1. Len(main') \in Nat /\ Len(main') # 0
      BY <1>3, <1>6, LenProperties, EmptySeq
    <2>2. main'[Len(main')] = main[Len(main)]
      BY <1>3, <2>1
    <2>3. EndsConnected' <=> main'[Len(main')] = "connected"
      BY <1>6 DEF EndsConnected
    <2> QED BY <1>4, <1>s, <2>2, <2>3
  <1> QED BY <1>5, <1>6

(* Every step of the tab, and of anybody else.                             *)
LEMMA StatusKept ==
  ASSUME IInv, StatusInv, [Next]_vars
  PROVE  StatusInv'
  <1>u. used \in Nat /\ (phase # "none" \/ rep # <<>> => used # 0)
    BY Constants DEF IInv, LinkInv, NoLink
  <1>1. CASE UNCHANGED vars
    BY <1>1, NothingSaid DEF vars, storeVars, transportVars
  <1>2. CASE Prints \/ SessionExits \/ OtherTakes \/ OtherLetsGo
    BY <1>2, NothingSaid DEF Prints, SessionExits, OtherTakes, OtherLetsGo, storeVars, transportVars
  <1>3. ASSUME NEW n \in Links, HostTakes(n) \/ HostLosesLink(n)
        PROVE  StatusInv'
    <2>1. UNCHANGED <<main, hop, lastWord, used, status, phase>>
      BY <1>3 DEF HostTakes, HostLosesLink, storeVars, transportVars
    <2> QED BY <2>1, NothingSaid
  <1>4. CASE HelperHears \/ LingerEnds \/ PeerGone \/ KillArrives \/ Cut
    BY <1>4, NothingSaid DEF HelperHears, LingerEnds, PeerGone, KillArrives, Cut, storeVars, transportVars
  <1>5. CASE HelloAnswered
    <2>1. rep # <<>> /\ Head(rep).kind = "helloOK" /\ phase' = "attach"
          /\ UNCHANGED <<main, hop, lastWord, used, status>>
      BY <1>5 DEF HelloAnswered, arrived, storeVars
    <2>2. phase = "hello"
      BY <2>1, FirstFrame
    <2> QED BY <2>1, <2>2, NothingSaid
  <1>6. CASE Output
    BY <1>6, NothingSaid DEF Output, storeVars, transportVars
  <1>7. CASE Attached
    <2>1. /\ hop' = told(<<"connected">>) /\ phase' = "attached" /\ ~Speaking
          /\ UNCHANGED <<main, lastWord, used, status>>
      BY <1>7 DEF Attached, arrived
    <2>a. used \in Nat \ {0}
      BY <1>7, <1>u DEF Attached, arrived
    <2>2. <<"connected">> \in Seq(Event) /\ <<"connected">> # <<>>
          /\ <<"connected">>[Len(<<"connected">>)] = "connected"
      BY DEF Event
    <2> QED BY <2>1, <2>2, <2>a, TrulyTold
  <1>8. CASE SettleDeferredEnd \/ HeldElsewhere \/ SessionEnded \/ LinkLost \/ HelloTimeout
    <2>1. phase' = "none" /\ ~Speaking /\ UNCHANGED <<main, lastWord, used, status>>
      BY <1>8, EndsKept DEF SettleDeferredEnd, HeldElsewhere, SessionEnded, LinkLost, HelloTimeout, arrived
    <2>a. used \in Nat \ {0}
      BY <1>8, <1>u DEF SettleDeferredEnd, HeldElsewhere, SessionEnded, LinkLost, HelloTimeout, arrived,
                        Negotiating
    <2>2. \E events \in {<<"disconnected">>, <<"elsewhere">>, <<"exit", "disconnected">>, <<"interrupted">>} :
             hop' = told(events)
      BY <1>8 DEF SettleDeferredEnd, HeldElsewhere, SessionEnded, LinkLost, HelloTimeout
    <2>3. \A events \in {<<"disconnected">>, <<"elsewhere">>, <<"exit", "disconnected">>, <<"interrupted">>} :
             events \in Seq(Event) /\ events # <<>> /\ events[Len(events)] # "connected"
      BY DEF Event
    <2> QED BY <2>1, <2>2, <2>3, <2>a, TrulyTold
  <1>9. CASE FirstConnect \/ RetryFires \/ ReconnectNow \/ TakeOver
    <2>1. \E takingOver \in BOOLEAN : connect(takingOver)
      BY <1>9 DEF FirstConnect, RetryFires, ReconnectNow, TakeOver
    <2> QED BY <1>u, <2>1, Replaced
  <1>h. CASE HandsOver
    BY <1>h, <1>u, HandedOver
  <1>10. CASE Apply
    BY <1>10, EventApplied
  <1>11. CASE TabEnds \/ CloseTab \/ DetachTab
    BY <1>11, TabGone DEF TabEnds, CloseTab, DetachTab, Gone
  <1> QED BY <1>1, <1>2, <1>3, <1>4, <1>5, <1>6, <1>7, <1>8, <1>9, <1>h, <1>10, <1>11 DEF Next

(* What the store ends on, and what a running handler ends in, agree with  *)
(* the transport they are the word of (TerminalSessionStore.connect).      *)
LEMMA WordsAgree == Spec => []StatusInv
  <1>1. Init => StatusInv
    <2> SUFFICES ASSUME Init PROVE StatusInv
      OBVIOUS
    <2>1. /\ main = <<>> /\ status = "idle" /\ phase = "none" /\ status \notin Gone
          /\ hop = {} /\ lastWord = 0 /\ used = 0
      BY DEF Init, Gone
    <2> QED BY <2>1 DEF StatusInv, EndsConnected
  <1>2. IInv /\ StatusInv /\ [Next]_vars => StatusInv'
    BY StatusKept
  <1> QED BY <1>1, <1>2, PlacesAgree, PTL DEF Spec

(* The last word of every transport reaches the store and is not           *)
(* overridden but by a word of another: once the transport of the moment   *)
(* had the last, the tab says it is connected exactly while the transport  *)
(* is attached, for any number of transports replaced with a handler       *)
(* running (TerminalSessionStore.connect and apply, onEvent's hop).        *)
THEOREM StatusStaysTrue == Spec => []StatusIsTrue
  <1>1. StatusInv => StatusIsTrue
    <2> SUFFICES ASSUME StatusInv, main = <<>>, ~Speaking, lastWord = used, status \notin Gone
                 PROVE  (status = "connected") = (phase = "attached")
      BY DEF StatusIsTrue
    <2>1. status = "connected" <=> phase = "attached"
      BY DEF StatusInv, EndsConnected
    <2> QED BY <2>1
  <1> QED BY <1>1, WordsAgree, PTL

-----------------------------------------------------------------------------
(* Types. *)

(* What the invariant does not say of the variables.                       *)
RestInv ==
    /\ alive \in BOOLEAN /\ closing \in BOOLEAN
    /\ produced <= MaxOutput
    /\ holds \in Links \cup {None} /\ cut \subseteq Links
    /\ deferredEnd \in {None, "detach", "close"}
    /\ status \in {"idle", "connecting", "connected", "elsewhere", "failed"} \cup Gone

(* ... each of them set to what it was, or to a value of its own.          *)
LEMMA RestKept ==
  ASSUME IInv, RestInv, [Next]_vars
  PROVE  RestInv'
  <1>1. /\ alive' = alive \/ alive' = FALSE
        /\ closing' = closing \/ closing' = TRUE
        /\ produced' = produced \/ (produced' = produced + 1 /\ produced < MaxOutput)
        /\ holds' \in Links \cup {holds, None}
        /\ cut' = cut \/ (link \in Links /\ cut' = cut \cup {link})
        /\ deferredEnd' \in {deferredEnd, None, "detach", "close"}
        /\ status' \in {status, "connecting", "connected", "elsewhere", "failed", "closed", "detached", "ended"}
    BY DEF Next, vars, hostVars, wireVars, transportVars, viewVars, storeVars, endVars,
           Prints, SessionExits, OtherTakes, OtherLetsGo, HostTakes, letGo, HostLosesLink,
           HelperHears, LingerEnds, PeerGone, KillArrives, Cut, HelloAnswered, Attached, hangUp, drop,
           SettleDeferredEnd, HeldElsewhere, SessionEnded, Output, LinkLost, HelloTimeout, HandsOver,
           FirstConnect, RetryFires, ReconnectNow, TakeOver, connect, Apply, scheduleReconnect, TabEnds, leaves,
           CloseTab, deferred, DetachTab
  <1>2. alive' \in BOOLEAN
    BY <1>1, Zenon DEF RestInv
  <1>3. closing' \in BOOLEAN
    BY <1>1, Zenon DEF RestInv
  <1>4. produced' <= MaxOutput
    BY <1>1, Known, Constants DEF RestInv
  <1>5. /\ holds' \in Links \cup {None} /\ cut' \subseteq Links
        /\ deferredEnd' \in {None, "detach", "close"}
        /\ status' \in {"idle", "connecting", "connected", "elsewhere", "failed"} \cup Gone
    BY <1>1 DEF RestInv, Gone
  <1> QED BY <1>2, <1>3, <1>4, <1>5 DEF RestInv

(* Every variable has its type, and a transport has a phase exactly while  *)
(* it has a connection (XPCDaemonTransport).                               *)
THEOREM TypeCorrect == Spec => []TypeOK
  <1>1. Init => RestInv
    <2> SUFFICES ASSUME Init PROVE RestInv
      OBVIOUS
    <2>1. alive \in BOOLEAN /\ closing \in BOOLEAN
      BY Zenon DEF Init
    <2> QED BY <2>1, Constants DEF Init, RestInv
  <1>2. IInv /\ RestInv /\ [Next]_vars => RestInv'
    BY RestKept
  <1>3. IInv /\ StatusInv /\ RestInv => TypeOK
    <2> SUFFICES ASSUME IInv, StatusInv, RestInv PROVE TypeOK
      OBVIOUS
    <2>1. /\ produced \in 0..MaxOutput /\ startOffset \in 0..produced
          /\ position \in 0..MaxOutput \cup {None}
      BY Constants DEF IInv, PlaceInv, RestInv
    <2>2. /\ reader \in Links \cup {None, Other} /\ hostOpen \subseteq Links
          /\ link \in Links \cup {NoLink} /\ used \in 0..MaxLinks
      BY Constants DEF IInv, LinkInv, Links, NoLink
    <2>3. /\ phase \in {"none", "hello", "attach", "attached"}
          /\ (phase = "none") = (link = NoLink)
      BY Zenon DEF IInv, LinkInv
    <2>4. lastWord \in 0..used /\ \A x \in hop : x.from \in 1..used
      BY DEF StatusInv
    <2> QED BY <2>1, <2>2, <2>3, <2>4, Zenon DEF TypeOK, RestInv
  <1> QED BY <1>1, <1>2, <1>3, PlacesAgree, WordsAgree, PTL DEF Spec
=============================================================================
