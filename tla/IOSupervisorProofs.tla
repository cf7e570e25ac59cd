------------------------- MODULE IOSupervisorProofs -------------------------
(***************************************************************************)
(* Proofs about IOSupervisor, for any peers, thresholds, sizes, queues and *)
(* numbers of children.  The invariant has six parts that rest on few      *)
(* variables each, so that most actions leave most parts alone: the frames *)
(* on the wire, the suspended peers, the requests that wait, the link with *)
(* its child, the output in flight, and the counters of the bounds.        *)
(***************************************************************************)
EXTENDS IOSupervisor, FiniteSetTheorems, SequenceTheorems, TLAPS

(* The frames, and what the socket toward the child can hold.              *)
WireInv ==
    /\ nextTag \in 1..(MaxTags + 1) /\ pending \subseteq Request
    /\ outbound \in Seq(Request) /\ toIO \in Seq(Request) /\ fromIO \in Seq(Frame)
    /\ Len(toIO) <= SocketRoom

(* Who is suspended, and who is known.                                     *)
PauseInv ==
    /\ isInputPaused \in BOOLEAN
    /\ peers \subseteq accepted /\ accepted \subseteq PeerIds
    /\ SuspendedTogether

(* Requests that wait have tags of their own below `next`, unanswered, and *)
(* a peer among `ps`; the supervisor itself never says goodbye.            *)
Filed(entries, next, ps) ==
    /\ \A e \in entries :
         /\ e.tag \in 1..MaxTags /\ e.tag < next /\ answers[e.tag] = 0
         /\ e.peer \in ps \cup {Supervisor}
         /\ e.op = "goodbye" => e.peer # Supervisor
    /\ \A d, e \in entries : d.tag = e.tag => d = e

(* Tags are used in order, and answered once.                              *)
ReplyInv ==
    /\ answers \in [1..MaxTags -> Nat]
    /\ Filed(pending, nextTag, peers)
    /\ \A t \in 1..MaxTags : t >= nextTag => answers[t] = 0
    /\ \A t \in 1..MaxTags : answers[t] <= 1
    /\ leaving \subseteq PeerIds

(* The link and its child; a question whether to leave is younger than the *)
(* last arrival.                                                           *)
LinkInv ==
    /\ proxy \in {"serving", "left", "crashed"} /\ linkUp \in BOOLEAN
    /\ child \in {"running", "closing", "zombie"}
    /\ childStatus \in {0, 1} /\ exitStatus \in {None, 0, 1}
    /\ poll \in {None} \cup 1..PollAttempts
    /\ respawnScheduled \in BOOLEAN /\ shutdownRequested \in BOOLEAN
    /\ idleTimer \in BOOLEAN /\ arrived \in BOOLEAN
    /\ shutdownRequested => ~arrived
    /\ DeadLinkIsReplaced /\ ArrivalTakesExitBack

(* The output in flight, and the clock of every peer that holds some.      *)
FlowTyped ==
    /\ inFlight \in [PeerIds -> Nat] /\ totalInFlight \in Int
    /\ congestionTimers \in [PeerIds -> 0..NoTimer] /\ stuck \in [PeerIds -> 0..Grace]
    /\ barriers \in [PeerIds -> Seq(OutputSizes)]
    /\ isReadSuspended \in BOOLEAN

ClockRuns ==
    \A p \in PeerIds : congestionTimers[p] # NoTimer =>
        inFlight[p] > 0 /\ congestionTimers[p] + stuck[p] >= Grace

GonePeersHoldNothing ==
    \A p \in PeerIds \ peers : inFlight[p] = 0 /\ congestionTimers[p] = NoTimer

(* Without a link there is nothing in flight for anybody.                  *)
DeadLinkHoldsNothing ==
    ~linkUp => \A p \in PeerIds : inFlight[p] = 0 /\ congestionTimers[p] = NoTimer

ReadingIsBelow == ~isReadSuspended => totalInFlight <= PauseAbove

FlowInv ==
    /\ FlowTyped /\ ClockRuns /\ GonePeersHoldNothing /\ DeadLinkHoldsNothing
    /\ ReadingIsBelow /\ OutputBounded

(* What the model counts for its bounds.                                   *)
BoundInv == spawns \in Nat /\ spawnFailures \in Nat /\ output \in Nat

IInv == WireInv /\ PauseInv /\ ReplyInv /\ LinkInv /\ FlowInv /\ BoundInv

-----------------------------------------------------------------------------
(* The thresholds are numbers, and reading resumes no higher than it       *)
(* pauses.                                                                 *)
LEMMA Numbers ==
  /\ PauseAbove \in Nat /\ ResumeBelow \in Nat /\ ResumeBelow <= PauseAbove
  /\ PeerCongestion \in Nat \ {0} /\ Grace \in Nat \ {0} /\ SocketRoom \in Nat
  /\ OutputSizes \subseteq Nat \ {0} /\ MaxTags \in Nat /\ PollAttempts \in Nat
  /\ InputPauseAbove \in Nat /\ InputResumeBelow \in Nat
  BY FlowAssumption, BoundsAssumption

(* What is flushed are requests still, and the socket is not overfilled.   *)
LEMMA FlushWire ==
  ASSUME toIO \in Seq(Request), Len(toIO) <= SocketRoom,
         NEW frames \in Seq(Request), NEW ps, NEW held, flush(frames, ps, held)
  PROVE  /\ toIO' \in Seq(Request) /\ outbound' \in Seq(Request)
         /\ Len(toIO') <= SocketRoom /\ isInputPaused' \in BOOLEAN
  <1> DEFINE fits == SocketRoom - Len(toIO)
             n == IF Len(frames) <= fits THEN Len(frames) ELSE fits
  <1>1. Len(toIO) \in Nat /\ Len(frames) \in Nat
    BY LenProperties
  <1>2. n \in Int /\ 0 <= n /\ n <= Len(frames) /\ n <= fits
    BY <1>1, Numbers
  <1>3. /\ toIO' = toIO \o SubSeq(frames, 1, n)
        /\ outbound' = SubSeq(frames, n + 1, Len(frames))
        /\ isInputPaused' = pausedAfter(Len(frames) - n)
    BY DEF flush
  <1> HIDE DEF n
  <1>4. SubSeq(frames, 1, n) \in Seq(Request) /\ Len(SubSeq(frames, 1, n)) = n
    BY <1>1, <1>2, SubSeqProperties
  <1>5. SubSeq(frames, n + 1, Len(frames)) \in Seq(Request)
    BY <1>1, <1>2, SubSeqProperties
  <1>6. toIO' \in Seq(Request) /\ Len(toIO') = Len(toIO) + n
    BY <1>3, <1>4, ConcatProperties
  <1>7. isInputPaused' \in BOOLEAN
    <2> DEFINE b == Len(frames) - n
    <2>1. b \in Int
      BY <1>1, <1>2
    <2>2. isInputPaused' = pausedAfter(b)
      BY <1>3
    <2> HIDE DEF b
    <2>3. pausedAfter(b) \in BOOLEAN
      <3>1. (b >= InputResumeBelow) \in BOOLEAN /\ (b > InputPauseAbove) \in BOOLEAN
        BY <2>1, Numbers
      <3>2. CASE isInputPaused
        BY <3>1, <3>2, Zenon DEF pausedAfter
      <3>3. CASE ~isInputPaused
        BY <3>1, <3>3, Zenon DEF pausedAfter
      <3> QED BY <3>2, <3>3
    <2> QED BY <2>2, <2>3
  <1> QED BY <1>1, <1>2, <1>3, <1>5, <1>6, <1>7, Numbers

(* A pause that begins suspends all, one that ends resumes all.            *)
LEMMA FlushSuspends ==
  ASSUME toIO \in Seq(Request), Len(toIO) <= SocketRoom, isInputPaused \in BOOLEAN,
         NEW frames \in Seq(Request), NEW ps, NEW held, flush(frames, ps, held),
         held = IF isInputPaused THEN ps ELSE {}
  PROVE  isInputPaused' \in BOOLEAN /\ suspended' = IF isInputPaused' THEN ps ELSE {}
  <1> DEFINE fits == SocketRoom - Len(toIO)
             n == IF Len(frames) <= fits THEN Len(frames) ELSE fits
             paused == pausedAfter(Len(frames) - n)
  <1>1. isInputPaused' \in BOOLEAN
    BY FlushWire
  <1>2. /\ isInputPaused' = paused
        /\ suspended' = IF paused = isInputPaused THEN held ELSE IF paused THEN ps ELSE {}
    BY DEF flush
  <1> HIDE DEF paused
  <1> QED BY <1>1, <1>2

-----------------------------------------------------------------------------
(* The frames on the wire. *)

(* A request is made of a peer, a tag and an operation.                    *)
LEMMA RequestTyped ==
  ASSUME NEW p \in PeerIds \cup {Supervisor}, NEW op \in Op \cup {"peerGone"}, NEW tag \in Tag
  PROVE  request(p, op, tag) \in Request
  BY DEF request, Request

(* Appending keeps a sequence one of requests.                             *)
LEMMA AppendTyped ==
  ASSUME NEW S, NEW s \in Seq(S), NEW e \in S
  PROVE  Append(s, e) \in Seq(S)
  BY AppendProperties

(* With its tag or without, a forwarded request fits the wire.             *)
LEMMA ForwardTyped ==
  ASSUME IInv, NEW p \in PeerIds, NEW op \in ReplyOps \cup SilentOps, NEW wantsReply \in BOOLEAN,
         Forward(p, op, wantsReply)
  PROVE  /\ request(p, op, IF wantsReply THEN nextTag ELSE 0) \in Request
         /\ nextTag' = (IF wantsReply THEN nextTag + 1 ELSE nextTag)
         /\ nextTag' \in 1..(MaxTags + 1)
         /\ wantsReply => nextTag \in 1..MaxTags
  <1>1. wantsReply => nextTag \in 1..MaxTags
    BY Numbers DEF Forward, IInv, WireInv
  <1>2. (IF wantsReply THEN nextTag ELSE 0) \in Tag
    BY <1>1, Numbers DEF Tag
  <1>3. op \in Op \cup {"peerGone"}
    BY RequestsAssumption DEF Op
  <1>4. request(p, op, IF wantsReply THEN nextTag ELSE 0) \in Request
    BY <1>2, <1>3, RequestTyped
  <1>5. nextTag' = IF wantsReply THEN nextTag + 1 ELSE nextTag
    BY DEF Forward
  <1>6. nextTag' \in 1..(MaxTags + 1)
    BY <1>1, <1>5, Numbers DEF IInv, WireInv
  <1> QED BY <1>1, <1>4, <1>5, <1>6

(* So does the notice that a peer is gone.                                 *)
LEMMA NoticeTyped ==
  ASSUME IInv, NEW p \in PeerIds \cup {Supervisor}
  PROVE  Append(outbound, request(p, "peerGone", 0)) \in Seq(Request)
  <1> DEFINE r == request(p, "peerGone", 0)
  <1>1. r \in Request
    BY RequestTyped, Numbers DEF Tag
  <1> HIDE DEF r
  <1>2. Append(outbound, r) \in Seq(Request)
    BY <1>1, AppendTyped DEF IInv, WireInv
  <1> QED BY <1>2 DEF r

(* And the supervisor's own question.                                      *)
LEMMA QuestionTyped ==
  ASSUME IInv, nextTag + 1 <= MaxTags, NEW hello, hello = request(Supervisor, "hello", nextTag),
         NEW ask, ask = request(Supervisor, "shutdown", nextTag + 1)
  PROVE  hello \in Request /\ ask \in Request /\ outbound \o <<hello, ask>> \in Seq(Request)
  <1>1. nextTag \in Tag /\ nextTag + 1 \in Tag
    BY Numbers DEF IInv, WireInv, Tag
  <1>2. hello \in Request /\ ask \in Request
    BY <1>1, RequestTyped DEF Op
  <1> QED BY <1>2, ConcatProperties DEF IInv, WireInv

(* A link that closes leaves nothing on the wire.                          *)
LEMMA LinkClosedWire ==
  ASSUME NEW entries, NEW requested, handleLinkClosed(entries, requested),
         nextTag' \in 1..(MaxTags + 1)
  PROVE  WireInv'
  BY EmptySeq, Numbers DEF handleLinkClosed, WireInv

(* A cut peer's requests are dropped and the child is told.                *)
LEMMA PeerGoneWire ==
  ASSUME IInv, NEW p \in PeerIds, peerGone(p)
  PROVE  WireInv'
  <1>1. CASE linkUp /\ child = "running"
    <2> DEFINE frames == Append(outbound, request(p, "peerGone", 0))
    <2>1. /\ pending' \subseteq pending /\ nextTag' = nextTag /\ fromIO' = fromIO
          /\ flush(frames, peers \ {p}, suspended \ {p})
      BY <1>1 DEF peerGone
    <2>2. frames \in Seq(Request)
      BY NoticeTyped
    <2> HIDE DEF frames
    <2> QED BY <2>1, <2>2, FlushWire DEF IInv, WireInv
  <1>2. CASE linkUp /\ child # "running"
    <2>1. nextTag' = nextTag /\ handleLinkClosed({e \in pending : e.peer # p}, shutdownRequested)
      BY <1>2 DEF peerGone
    <2> QED BY <2>1, LinkClosedWire DEF IInv, WireInv
  <1>3. CASE ~linkUp
    BY <1>3 DEF peerGone, replyVars, wireVars, IInv, WireInv
  <1> QED BY <1>1, <1>2, <1>3

(* Every step keeps the frames well formed and the socket within its room. *)
LEMMA WireKept == ASSUME IInv, [Next]_vars PROVE WireInv'
  <1>1. ASSUME UNCHANGED <<nextTag, pending, outbound, toIO, fromIO>> PROVE WireInv'
    BY <1>1 DEF IInv, WireInv
  <1>2. ASSUME NEW p \in PeerIds,
               Accept(p) \/ GoodbyeWithoutChild(p) \/ DidSend(p)
        PROVE  WireInv'
    BY <1>1, <1>2 DEF Accept, GoodbyeWithoutChild, DidSend, replyVars, wireVars
  <1>3. CASE Tick \/ PollAgain \/ Respawn \/ RespawnFails \/ ChildDies \/ ChildReapable \/ UNCHANGED vars
    BY <1>1, <1>3 DEF Tick, PollAgain, Respawn, RespawnFails, ChildDies, ChildReapable, vars,
       replyVars, wireVars
  <1>4. ASSUME NEW p \in PeerIds, ClientGoes(p) \/ LeavesAfterGoodbye(p) \/ CongestionTimerFires(p)
        PROVE  WireInv'
    BY <1>4, PeerGoneWire DEF ClientGoes, LeavesAfterGoodbye, CongestionTimerFires
  <1>5. CASE ReadEOF \/ WriteFails \/ ExitSourceFires
    BY <1>5, LinkClosedWire DEF ReadEOF, WriteFails, ExitSourceFires, LinkCloses, IInv, WireInv
  <1>6. ASSUME NEW p \in PeerIds, NEW op \in ReplyOps \cup SilentOps, NEW wantsReply \in BOOLEAN,
               Forward(p, op, wantsReply)
        PROVE  WireInv'
    <2> DEFINE entry == request(p, op, IF wantsReply THEN nextTag ELSE 0)
    <2>1. entry \in Request /\ nextTag' \in 1..(MaxTags + 1)
      BY <1>6, ForwardTyped
    <2>2. CASE child = "running"
      <3>1. /\ pending' \subseteq pending \cup {entry} /\ fromIO' = fromIO
            /\ flush(Append(outbound, entry), peers, suspended)
        BY <1>6, <2>2 DEF Forward
      <3> HIDE DEF entry
      <3>2. Append(outbound, entry) \in Seq(Request)
        BY <2>1, AppendTyped DEF IInv, WireInv
      <3> QED BY <2>1, <3>1, <3>2, FlushWire DEF IInv, WireInv
    <2>3. CASE child # "running"
      <3>1. \E entries, requested : handleLinkClosed(entries, requested)
        BY <1>6, <2>3 DEF Forward
      <3> QED BY <2>1, <3>1, LinkClosedWire
    <2> QED BY <2>2, <2>3
  <1>7. CASE ReadOutput \/ ReadReply
    <2>1. /\ fromIO # <<>> /\ fromIO' = Tail(fromIO) /\ nextTag' = nextTag
          /\ pending' \subseteq pending
      BY <1>7 DEF ReadOutput, ReadReply, replyVars, pendingAfterReply
    <2>2. fromIO' \in Seq(Frame)
      BY <2>1, HeadTailProperties DEF IInv, WireInv
    <2>3. CASE UNCHANGED <<outbound, toIO>>
      BY <2>1, <2>2, <2>3 DEF IInv, WireInv
    <2>4. CASE flush(Append(outbound, request(Supervisor, "peerGone", 0)), peers, suspended)
      <3> DEFINE frames == Append(outbound, request(Supervisor, "peerGone", 0))
      <3>1. frames \in Seq(Request) /\ flush(frames, peers, suspended)
        BY <2>4, NoticeTyped
      <3> HIDE DEF frames
      <3> QED BY <2>1, <2>2, <3>1, FlushWire DEF IInv, WireInv
    <2> QED BY <1>7, <2>3, <2>4 DEF ReadOutput, ReadReply, answerToIdle
  <1>8. CASE WriteSourceFires
    BY <1>8, FlushWire DEF WriteSourceFires, replyVars, IInv, WireInv
  <1>9. CASE IdleTimerFires
    <2> DEFINE hello == request(Supervisor, "hello", nextTag)
               ask == request(Supervisor, "shutdown", nextTag + 1)
    <2>1. CASE linkUp /\ child = "running"
      <3>1. /\ nextTag + 1 <= MaxTags /\ nextTag' = nextTag + 2
            /\ pending' = pending \cup {hello, ask} /\ fromIO' = fromIO
            /\ flush(outbound \o <<hello, ask>>, peers, suspended)
        BY <1>9, <2>1 DEF IdleTimerFires
      <3>2. nextTag' \in 1..(MaxTags + 1)
        BY <3>1, Numbers DEF IInv, WireInv
      <3>3. hello \in Request /\ ask \in Request /\ outbound \o <<hello, ask>> \in Seq(Request)
        BY <3>1, QuestionTyped
      <3> HIDE DEF hello, ask
      <3> QED BY <3>1, <3>2, <3>3, FlushWire DEF IInv, WireInv
    <2>2. CASE linkUp /\ child # "running"
      <3>1. /\ nextTag <= MaxTags /\ nextTag' = nextTag + 1
            /\ handleLinkClosed(pending \cup {hello}, shutdownRequested)
        BY <1>9, <2>2 DEF IdleTimerFires
      <3>2. nextTag' \in 1..(MaxTags + 1)
        BY <3>1, Numbers DEF IInv, WireInv
      <3> QED BY <3>1, <3>2, LinkClosedWire
    <2>3. CASE ~linkUp
      BY <1>1, <1>9, <2>3 DEF IdleTimerFires, replyVars, wireVars
    <2> QED BY <2>1, <2>2, <2>3
  <1>10. CASE ChildHandles
    <2>1. toIO # <<>> /\ toIO' = Tail(toIO) /\ UNCHANGED <<nextTag, pending, outbound>>
      BY <1>10 DEF ChildHandles, replyVars
    <2>2. toIO' \in Seq(Request) /\ Len(toIO') = Len(toIO) - 1 /\ Len(toIO) \in Nat /\ Head(toIO) \in Request
      BY <2>1, HeadTailProperties, LenProperties DEF IInv, WireInv
    <2>3. PICK success \in BOOLEAN : fromIO' = reply(Head(toIO).tag, success)
      BY <1>10 DEF ChildHandles
    <2>4. fromIO' \in Seq(Frame)
      <3> DEFINE f == [kind |-> "reply", tag |-> Head(toIO).tag, success |-> success]
      <3>1. f \in Frame
        BY <2>2 DEF Request, Frame
      <3>2. fromIO' = fromIO \/ fromIO' = Append(fromIO, f)
        BY <2>3 DEF reply
      <3> HIDE DEF f
      <3> QED BY <3>1, <3>2, AppendTyped DEF IInv, WireInv
    <2> QED BY <2>1, <2>2, <2>4, Numbers DEF IInv, WireInv
  <1>11. ASSUME NEW p \in PeerIds, NEW n \in OutputSizes, ChildWritesOutput(p, n)
         PROVE  WireInv'
    <2> DEFINE f == [kind |-> "output", peer |-> p, size |-> n]
    <2>1. f \in Frame
      BY DEF Frame
    <2>2. fromIO' = Append(fromIO, f) /\ UNCHANGED <<nextTag, pending, outbound, toIO>>
      BY <1>11 DEF ChildWritesOutput, replyVars
    <2> HIDE DEF f
    <2> QED BY <2>1, <2>2, AppendTyped DEF IInv, WireInv
  <1> QED BY <1>2, <1>3, <1>4, <1>5, <1>6, <1>7, <1>8, <1>9, <1>10, <1>11 DEF Next

-----------------------------------------------------------------------------
(* Who is suspended. *)

(* A link that closes cuts everybody.                                      *)
LEMMA LinkClosedPause ==
  ASSUME IInv, NEW entries, NEW requested, handleLinkClosed(entries, requested)
  PROVE  PauseInv'
  BY DEF handleLinkClosed, IInv, PauseInv, SuspendedTogether

(* A flush over the peers that are left suspends those or nobody.          *)
LEMMA FlushPause ==
  ASSUME IInv, NEW frames \in Seq(Request), NEW ps \in SUBSET peers,
         flush(frames, ps, suspended \cap ps), peers' = ps, UNCHANGED accepted
  PROVE  PauseInv'
  <1>1. suspended \cap ps = IF isInputPaused THEN ps ELSE {}
    BY DEF IInv, PauseInv, SuspendedTogether
  <1>2. isInputPaused' \in BOOLEAN /\ suspended' = IF isInputPaused' THEN ps ELSE {}
    BY <1>1, FlushSuspends DEF IInv, WireInv, PauseInv
  <1> QED BY <1>2 DEF IInv, PauseInv, SuspendedTogether

(* A peer cut in the middle of a pause takes its suspension with it.       *)
LEMMA PeerGonePause ==
  ASSUME IInv, NEW p \in PeerIds, peerGone(p)
  PROVE  PauseInv'
  <1>1. CASE linkUp /\ child = "running"
    <2> DEFINE frames == Append(outbound, request(p, "peerGone", 0))
    <2>1. peers' = peers \ {p} /\ accepted' = accepted /\ flush(frames, peers \ {p}, suspended \ {p})
      BY <1>1 DEF peerGone
    <2>2. frames \in Seq(Request)
      BY NoticeTyped
    <2>3. suspended \ {p} = suspended \cap (peers \ {p})
      BY DEF IInv, PauseInv, SuspendedTogether
    <2> HIDE DEF frames
    <2> QED BY <2>1, <2>2, <2>3, FlushPause
  <1>2. CASE linkUp /\ child # "running"
    BY <1>2, LinkClosedPause DEF peerGone
  <1>3. CASE ~linkUp
    <2>1. peers' = peers \ {p} /\ suspended' = suspended \ {p}
      BY <1>3 DEF peerGone
    <2>2. accepted' = accepted /\ isInputPaused' = isInputPaused
      BY <1>3 DEF peerGone, wireVars
    <2>3. PauseInv
      BY DEF IInv
    <2> QED BY <2>1, <2>2, <2>3 DEF PauseInv, SuspendedTogether
  <1> QED BY <1>1, <1>2, <1>3

(* Every step keeps all or none suspended.                                 *)
LEMMA PauseKept == ASSUME IInv, [Next]_vars PROVE PauseInv'
  <1>1. ASSUME UNCHANGED <<isInputPaused, suspended, peers, accepted>> PROVE PauseInv'
    BY <1>1 DEF IInv, PauseInv, SuspendedTogether
  <1>s. suspended = suspended \cap peers
    BY DEF IInv, PauseInv, SuspendedTogether
  <1>2. ASSUME NEW frames \in Seq(Request), flush(frames, peers, suspended), UNCHANGED <<peers, accepted>>
        PROVE  PauseInv'
    BY <1>2, <1>s, FlushPause
  <1>3. ASSUME NEW p \in PeerIds, Accept(p) PROVE PauseInv'
    BY <1>3 DEF Accept, registeredSuspended, wireVars, IInv, PauseInv, SuspendedTogether
  <1>4. ASSUME NEW p \in PeerIds, GoodbyeWithoutChild(p) \/ DidSend(p)
        PROVE  PauseInv'
    BY <1>1, <1>4 DEF GoodbyeWithoutChild, DidSend, peerVars, wireVars
  <1>5. CASE Tick \/ PollAgain \/ Respawn \/ RespawnFails \/ ChildDies \/ ChildReapable \/ UNCHANGED vars
    BY <1>1, <1>5 DEF Tick, PollAgain, Respawn, RespawnFails, ChildDies, ChildReapable, vars,
       peerVars, wireVars
  <1>6. ASSUME NEW p \in PeerIds, ClientGoes(p) \/ LeavesAfterGoodbye(p) \/ CongestionTimerFires(p)
        PROVE  PauseInv'
    BY <1>6, PeerGonePause DEF ClientGoes, LeavesAfterGoodbye, CongestionTimerFires
  <1>7. CASE ReadEOF \/ WriteFails \/ ExitSourceFires
    BY <1>7, LinkClosedPause DEF ReadEOF, WriteFails, ExitSourceFires, LinkCloses
  <1>8. ASSUME NEW p \in PeerIds, NEW op \in ReplyOps \cup SilentOps, NEW wantsReply \in BOOLEAN,
               Forward(p, op, wantsReply)
        PROVE  PauseInv'
    <2> DEFINE entry == request(p, op, IF wantsReply THEN nextTag ELSE 0)
    <2>1. CASE child = "running"
      <3>1. flush(Append(outbound, entry), peers, suspended) /\ UNCHANGED <<peers, accepted>>
        BY <1>8, <2>1 DEF Forward
      <3>2. entry \in Request
        BY <1>8, ForwardTyped
      <3> HIDE DEF entry
      <3>3. Append(outbound, entry) \in Seq(Request)
        BY <3>2, AppendTyped DEF IInv, WireInv
      <3> QED BY <1>2, <3>1, <3>3
    <2>2. CASE child # "running"
      <3>1. \E entries, requested : handleLinkClosed(entries, requested)
        BY <1>8, <2>2 DEF Forward
      <3> QED BY <3>1, LinkClosedPause
    <2> QED BY <2>1, <2>2
  <1>9. CASE ReadReply
    <2>1. CASE UNCHANGED <<suspended, isInputPaused>>
      BY <1>1, <1>9, <2>1 DEF ReadReply
    <2>2. CASE flush(Append(outbound, request(Supervisor, "peerGone", 0)), peers, suspended)
      <3> DEFINE frames == Append(outbound, request(Supervisor, "peerGone", 0))
      <3>1. frames \in Seq(Request)
        BY NoticeTyped
      <3>2. flush(frames, peers, suspended) /\ UNCHANGED <<peers, accepted>>
        BY <1>9, <2>2 DEF ReadReply
      <3> HIDE DEF frames
      <3> QED BY <1>2, <3>1, <3>2
    <2> QED BY <1>9, <2>1, <2>2 DEF ReadReply, answerToIdle
  <1>10. CASE ReadOutput \/ ChildHandles \/ \E p \in PeerIds, n \in OutputSizes : ChildWritesOutput(p, n)
    BY <1>1, <1>10 DEF ReadOutput, ChildHandles, ChildWritesOutput, peerVars
  <1>11. CASE WriteSourceFires
    BY <1>2, <1>11 DEF WriteSourceFires, IInv, WireInv
  <1>12. CASE IdleTimerFires
    <2> DEFINE hello == request(Supervisor, "hello", nextTag)
               ask == request(Supervisor, "shutdown", nextTag + 1)
    <2>1. CASE linkUp /\ child = "running"
      <3>1. /\ nextTag + 1 <= MaxTags /\ UNCHANGED <<peers, accepted>>
            /\ flush(outbound \o <<hello, ask>>, peers, suspended)
        BY <1>12, <2>1 DEF IdleTimerFires
      <3>2. outbound \o <<hello, ask>> \in Seq(Request)
        BY <3>1, QuestionTyped
      <3> HIDE DEF hello, ask
      <3> QED BY <1>2, <3>1, <3>2
    <2>2. CASE linkUp /\ child # "running"
      BY <1>12, <2>2, LinkClosedPause DEF IdleTimerFires
    <2>3. CASE ~linkUp
      BY <1>1, <1>12, <2>3 DEF IdleTimerFires, peerVars, wireVars
    <2> QED BY <2>1, <2>2, <2>3
  <1> QED BY <1>3, <1>4, <1>5, <1>6, <1>7, <1>8, <1>9, <1>10, <1>11, <1>12 DEF Next

-----------------------------------------------------------------------------
(* The requests that wait. *)

(* The requests that wait under one tag are one or none.                   *)
LEMMA OneOrNone ==
  ASSUME NEW entries, \A d, e \in entries : d.tag = e.tag => d = e, NEW t
  PROVE  \/ Cardinality({e \in entries : e.tag = t}) = 1 /\ \E e \in entries : e.tag = t
         \/ Cardinality({e \in entries : e.tag = t}) = 0
  <1>1. CASE \E e \in entries : e.tag = t
    <2>1. PICK e \in entries : e.tag = t
      BY <1>1
    <2>2. {d \in entries : d.tag = t} = {e}
      BY <2>1
    <2> QED BY <2>1, <2>2, FS_Singleton
  <1>2. CASE ~\E e \in entries : e.tag = t
    <2>1. {e \in entries : e.tag = t} = {}
      BY <1>2
    <2> QED BY <2>1, FS_EmptySet
  <1> QED BY <1>1, <1>2

(* The end of the link answers each request that waits, once.              *)
LEMMA LinkClosedReply ==
  ASSUME IInv, NEW entries, NEW requested, NEW next \in Int, NEW ps, Filed(entries, next, ps),
         handleLinkClosed(entries, requested), nextTag' = next, next >= nextTag
  PROVE  ReplyInv'
  <1>1. /\ pending' = {} /\ leaving' = {}
        /\ answers' = [t \in 1..MaxTags |-> answers[t] + Cardinality({e \in entries : e.tag = t})]
    BY DEF handleLinkClosed, failedEntries
  <1>2. ASSUME NEW t \in 1..MaxTags
        PROVE  answers'[t] \in Nat /\ answers'[t] <= 1 /\ (t >= next => answers'[t] = 0)
    <2> DEFINE n == Cardinality({e \in entries : e.tag = t})
    <2>1. answers'[t] = answers[t] + n
      BY <1>1
    <2>2. (n = 1 /\ \E e \in entries : e.tag = t) \/ n = 0
      BY OneOrNone DEF Filed
    <2> HIDE DEF n
    <2>3. answers[t] \in Nat /\ answers[t] <= 1 /\ (t >= nextTag => answers[t] = 0)
      BY DEF IInv, ReplyInv
    <2>4. nextTag \in Int /\ t \in Int
      BY DEF IInv, WireInv
    <2>5. CASE n = 0
      BY <2>1, <2>3, <2>4, <2>5
    <2>6. CASE n = 1 /\ \E e \in entries : e.tag = t
      <3>1. answers[t] = 0 /\ t < next
        <4>1. \A e \in entries : answers[e.tag] = 0 /\ e.tag < next
          BY DEF Filed
        <4> QED BY <2>6, <4>1
      <3> QED BY <2>1, <2>4, <2>6, <3>1
    <2> QED BY <2>2, <2>5, <2>6
  <1>3. answers' \in [1..MaxTags -> Nat]
    BY <1>1, <1>2
  <1> QED BY <1>1, <1>2, <1>3 DEF ReplyInv, Filed

(* A step that answers nothing keeps the rest if what waits is well filed. *)
LEMMA FiledReply ==
  ASSUME IInv, UNCHANGED answers, nextTag' \in Int, nextTag' >= nextTag,
         Filed(pending', nextTag', peers'), leaving' \subseteq PeerIds
  PROVE  ReplyInv'
  <1>1. nextTag \in Int
    BY DEF IInv, WireInv
  <1>2. Filed(pending, nextTag, peers)'
    BY DEF Filed
  <1> QED BY <1>1, <1>2 DEF IInv, ReplyInv

(* A cut peer takes its requests with it; the others wait on.              *)
LEMMA PeerGoneReply ==
  ASSUME IInv, Serving, NEW p \in PeerIds, peerGone(p)
  PROVE  ReplyInv'
  <1> DEFINE entries == {e \in pending : e.peer # p}
  <1>1. Filed(entries, nextTag, peers \ {p}) /\ nextTag \in Int
    BY DEF IInv, WireInv, ReplyInv, Filed
  <1>2. leaving \ {p} \subseteq PeerIds
    BY DEF IInv, ReplyInv
  <1>3. CASE linkUp /\ child = "running"
    <2>1. pending' = entries /\ peers' = peers \ {p} /\ leaving' = leaving \ {p}
          /\ UNCHANGED <<nextTag, answers>>
      BY <1>3 DEF peerGone
    <2> QED BY <1>1, <1>2, <2>1, FiledReply
  <1>4. CASE linkUp /\ child # "running"
    <2>1. handleLinkClosed(entries, shutdownRequested) /\ nextTag' = nextTag
      BY <1>4 DEF peerGone
    <2> HIDE DEF entries
    <2> QED BY <1>1, <2>1, LinkClosedReply
  <1>5. CASE ~linkUp
    <2>1. pending' = pending /\ peers' = peers \ {p} /\ leaving' = leaving \ {p}
          /\ UNCHANGED <<nextTag, answers>>
      BY <1>5 DEF peerGone, replyVars
    <2>2. pending = {}
      BY <1>5 DEF IInv, LinkInv, DeadLinkIsReplaced, Serving
    <2> QED BY <1>1, <1>2, <2>1, <2>2, FiledReply DEF Filed
  <1> QED BY <1>3, <1>4, <1>5

(* A request of a registered peer is filed under the next tag.             *)
LEMMA ForwardFiles ==
  ASSUME IInv, NEW p \in PeerIds, NEW op \in ReplyOps \cup SilentOps, NEW wantsReply \in BOOLEAN,
         Forward(p, op, wantsReply), NEW entry,
         entry = request(p, op, IF wantsReply THEN nextTag ELSE 0)
  PROVE  Filed(IF wantsReply THEN pending \cup {entry} ELSE pending, nextTag', peers)
  <1>1. nextTag \in Int /\ p \in peers
    BY DEF IInv, WireInv, Forward
  <1>2. CASE wantsReply
    <2>1. nextTag' = nextTag + 1 /\ nextTag \in 1..MaxTags
      BY <1>2, ForwardTyped
    <2>2. entry.tag = nextTag /\ entry.peer = p
      BY <1>2 DEF request
    <2>3. answers[nextTag] = 0 /\ p # Supervisor
      BY <2>1, PeersAssumption DEF IInv, ReplyInv, Supervisor
    <2>4. \A e \in pending : e.tag < nextTag /\ e.tag \in Int
      BY DEF IInv, ReplyInv, Filed
    <2>5. \A e \in pending \cup {entry} :
            /\ e.tag \in 1..MaxTags /\ e.tag < nextTag' /\ answers[e.tag] = 0
            /\ e.peer \in peers \cup {Supervisor}
            /\ e.op = "goodbye" => e.peer # Supervisor
      BY <1>1, <2>1, <2>2, <2>3, <2>4 DEF IInv, ReplyInv, Filed
    <2>6. \A d, e \in pending \cup {entry} : d.tag = e.tag => d = e
      BY <1>1, <2>2, <2>4 DEF IInv, ReplyInv, Filed
    <2> QED BY <1>2, <2>5, <2>6 DEF Filed
  <1>3. CASE ~wantsReply
    <2>1. nextTag' = nextTag
      BY <1>3, ForwardTyped
    <2> QED BY <1>3, <2>1 DEF IInv, ReplyInv
  <1> QED BY <1>2, <1>3

(* So are the two requests of the supervisor itself.                       *)
LEMMA QuestionFiles ==
  ASSUME IInv, NEW hello, hello = request(Supervisor, "hello", nextTag)
  PROVE  /\ nextTag <= MaxTags => Filed(pending \cup {hello}, nextTag + 1, peers)
         /\ \A ask : ask = request(Supervisor, "shutdown", nextTag + 1) /\ nextTag + 1 <= MaxTags
               => Filed(pending \cup {hello, ask}, nextTag + 2, peers)
  <1>1. nextTag \in Int /\ nextTag >= 1 /\ MaxTags \in Nat
    BY Numbers DEF IInv, WireInv
  <1>2. hello.tag = nextTag /\ hello.peer = Supervisor /\ hello.op = "hello"
    BY DEF request
  <1>3. \A e \in pending : e.tag < nextTag /\ e.tag \in Int
    BY DEF IInv, ReplyInv, Filed
  <1>4. Filed(pending, nextTag, peers)
    BY DEF IInv, ReplyInv
  <1>5. ASSUME nextTag <= MaxTags PROVE Filed(pending \cup {hello}, nextTag + 1, peers)
    <2>1. nextTag \in 1..MaxTags /\ answers[nextTag] = 0
      BY <1>1, <1>5 DEF IInv, ReplyInv
    <2>2. \A e \in pending \cup {hello} :
            /\ e.tag \in 1..MaxTags /\ e.tag < nextTag + 1 /\ answers[e.tag] = 0
            /\ e.peer \in peers \cup {Supervisor}
            /\ e.op = "goodbye" => e.peer # Supervisor
      BY <1>1, <1>2, <1>3, <1>4, <2>1 DEF Filed
    <2>3. \A d, e \in pending \cup {hello} : d.tag = e.tag => d = e
      BY <1>1, <1>2, <1>3, <1>4 DEF Filed
    <2> QED BY <2>2, <2>3 DEF Filed
  <1>6. ASSUME NEW ask, ask = request(Supervisor, "shutdown", nextTag + 1), nextTag + 1 <= MaxTags
        PROVE  Filed(pending \cup {hello, ask}, nextTag + 2, peers)
    <2>1. /\ nextTag \in 1..MaxTags /\ answers[nextTag] = 0
          /\ nextTag + 1 \in 1..MaxTags /\ answers[nextTag + 1] = 0
      BY <1>1, <1>6 DEF IInv, ReplyInv
    <2>2. ask.tag = nextTag + 1 /\ ask.peer = Supervisor /\ ask.op = "shutdown"
      BY <1>6 DEF request
    <2>3. \A e \in pending \cup {hello, ask} :
            /\ e.tag \in 1..MaxTags /\ e.tag < nextTag + 2 /\ answers[e.tag] = 0
            /\ e.peer \in peers \cup {Supervisor}
            /\ e.op = "goodbye" => e.peer # Supervisor
      BY <1>1, <1>2, <1>3, <1>4, <2>1, <2>2 DEF Filed
    <2>4. \A d, e \in pending \cup {hello, ask} : d.tag = e.tag => d = e
      BY <1>1, <1>2, <1>3, <1>4, <2>2 DEF Filed
    <2> QED BY <2>3, <2>4 DEF Filed
  <1> QED BY <1>5, <1>6

(* Every step answers a request at most once, and only one that waits.     *)
LEMMA ReplyKept == ASSUME IInv, [Next]_vars PROVE ReplyInv'
  <1>n. nextTag \in Int /\ Filed(pending, nextTag, peers) /\ leaving \subseteq PeerIds
    BY DEF IInv, WireInv, ReplyInv
  <1>1. ASSUME UNCHANGED <<nextTag, pending, answers>>, peers \subseteq peers', leaving' \subseteq PeerIds
        PROVE  ReplyInv'
    <2>1. Filed(pending', nextTag', peers')
      BY <1>1, <1>n DEF Filed
    <2> QED BY <1>1, <1>n, <2>1, FiledReply
  <1>2. ASSUME NEW p \in PeerIds, Accept(p) \/ GoodbyeWithoutChild(p) \/ DidSend(p)
        PROVE  ReplyInv'
    BY <1>1, <1>2, <1>n DEF Accept, GoodbyeWithoutChild, DidSend, replyVars, peerVars
  <1>3. CASE \/ Tick \/ PollAgain \/ Respawn \/ RespawnFails \/ ChildDies \/ ChildReapable
             \/ ReadOutput \/ WriteSourceFires \/ ChildHandles \/ UNCHANGED vars
             \/ \E p \in PeerIds, n \in OutputSizes : ChildWritesOutput(p, n)
    BY <1>1, <1>3, <1>n DEF Tick, PollAgain, Respawn, RespawnFails, ChildDies, ChildReapable, vars,
       ReadOutput, WriteSourceFires, ChildHandles, ChildWritesOutput, replyVars, peerVars
  <1>4. ASSUME NEW p \in PeerIds, ClientGoes(p) \/ LeavesAfterGoodbye(p) \/ CongestionTimerFires(p)
        PROVE  ReplyInv'
    BY <1>4, PeerGoneReply DEF ClientGoes, LeavesAfterGoodbye, CongestionTimerFires
  <1>5. CASE ReadEOF \/ WriteFails \/ ExitSourceFires
    BY <1>5, <1>n, LinkClosedReply DEF ReadEOF, WriteFails, ExitSourceFires, LinkCloses
  <1>6. ASSUME NEW p \in PeerIds, NEW op \in ReplyOps \cup SilentOps, NEW wantsReply \in BOOLEAN,
               Forward(p, op, wantsReply)
        PROVE  ReplyInv'
    <2> DEFINE entry == request(p, op, IF wantsReply THEN nextTag ELSE 0)
               entries == IF wantsReply THEN pending \cup {entry} ELSE pending
               requested == shutdownRequested \/ op = "shutdown"
    <2>1. Filed(entries, nextTag', peers)
      BY <1>6, ForwardFiles
    <2>2. nextTag' \in Int /\ nextTag' >= nextTag
      BY <1>6, <1>n, ForwardTyped
    <2>3. CASE child = "running"
      <3>1. pending' = entries /\ leaving' \subseteq leaving \cup {p} /\ UNCHANGED <<answers, peers>>
        BY <1>6, <2>3 DEF Forward
      <3> QED BY <1>n, <2>1, <2>2, <3>1, FiledReply
    <2>4. CASE child # "running"
      <3>1. handleLinkClosed(entries, requested)
        BY <1>6, <2>4 DEF Forward
      <3> HIDE DEF entries, requested
      <3> QED BY <1>n, <2>1, <2>2, <3>1, LinkClosedReply
    <2> QED BY <2>3, <2>4
  <1>7. CASE ReadReply
    <2>1. UNCHANGED <<peers, nextTag>>
      BY <1>7 DEF ReadReply
    <2>2. CASE UNCHANGED <<leaving, pending, answers>>
      BY <1>1, <1>n, <2>1, <2>2
    <2>3. CASE \E e \in pending : /\ pending' = pending \ {e}
                                  /\ answers' = [answers EXCEPT ![e.tag] = @ + 1]
                                  /\ leaving' = IF e.op = "goodbye" THEN leaving \cup {e.peer} ELSE leaving
      <3>1. PICK e \in pending : /\ pending' = pending \ {e}
                                 /\ answers' = [answers EXCEPT ![e.tag] = @ + 1]
                                 /\ leaving' = IF e.op = "goodbye" THEN leaving \cup {e.peer} ELSE leaving
        BY <2>3
      <3>2. e.tag \in 1..MaxTags /\ e.tag < nextTag /\ answers[e.tag] = 0
        BY <1>n DEF Filed
      <3>3. leaving' \subseteq PeerIds
        BY <1>n, <3>1 DEF Filed, IInv, PauseInv
      <3>4. answers' \in [1..MaxTags -> Nat] /\ answers'[e.tag] = 1
            /\ \A t \in 1..MaxTags : t # e.tag => answers'[t] = answers[t]
        BY <3>1, <3>2 DEF IInv, ReplyInv
      <3>5. \A d \in pending' : d \in pending /\ d.tag # e.tag
        BY <1>n, <3>1 DEF Filed
      <3>6. Filed(pending, nextTag, peers)'
        BY <1>n, <2>1, <3>4, <3>5 DEF Filed
      <3>7. \A t \in 1..MaxTags : answers'[t] <= 1 /\ (t >= nextTag => answers'[t] = 0)
        BY <1>n, <3>2, <3>4 DEF IInv, ReplyInv
      <3> QED BY <2>1, <3>3, <3>4, <3>6, <3>7 DEF ReplyInv
    <2> QED BY <1>7, <2>2, <2>3 DEF ReadReply, pendingAfterReply
  <1>8. CASE IdleTimerFires
    <2> DEFINE hello == request(Supervisor, "hello", nextTag)
               ask == request(Supervisor, "shutdown", nextTag + 1)
    <2>1. CASE linkUp /\ child = "running"
      <3>1. /\ nextTag + 1 <= MaxTags /\ nextTag' = nextTag + 2
            /\ pending' = pending \cup {hello, ask} /\ UNCHANGED <<peers, leaving, answers>>
        BY <1>8, <2>1 DEF IdleTimerFires
      <3>2. Filed(pending', nextTag', peers')
        BY <3>1, QuestionFiles
      <3> QED BY <1>n, <3>1, <3>2, FiledReply
    <2>2. CASE linkUp /\ child # "running"
      <3>1. /\ nextTag <= MaxTags /\ nextTag' = nextTag + 1
            /\ handleLinkClosed(pending \cup {hello}, shutdownRequested)
        BY <1>8, <2>2 DEF IdleTimerFires
      <3>2. Filed(pending \cup {hello}, nextTag + 1, peers)
        BY <3>1, QuestionFiles
      <3> HIDE DEF hello
      <3> QED BY <1>n, <3>1, <3>2, LinkClosedReply
    <2>3. CASE ~linkUp
      BY <1>1, <1>8, <1>n, <2>3 DEF IdleTimerFires, replyVars, peerVars
    <2> QED BY <2>1, <2>2, <2>3
  <1> QED BY <1>2, <1>3, <1>4, <1>5, <1>6, <1>7, <1>8 DEF Next

-----------------------------------------------------------------------------
(* The link and its child. *)

(* What pollExitStatus decides: to leave when that was asked for, to look  *)
(* again, or to respawn, and only one of them.                             *)
LEMMA PollDecides ==
  ASSUME proxy = "serving", respawnScheduled = FALSE, NEW status \in {None, 0, 1},
         NEW requested \in BOOLEAN, NEW attempt \in 0..PollAttempts,
         pollExitStatus(status, requested, attempt)
  PROVE  /\ exitStatus' \in {None, 0, 1} /\ poll' \in {None} \cup 1..PollAttempts
         /\ proxy' \in {"serving", "left"} /\ respawnScheduled' \in BOOLEAN
         /\ proxy' = "serving" => (poll' # None) # respawnScheduled'
         /\ proxy' = "left" => requested
  <1> DEFINE leaves == requested /\ status = 0
             again == status = None /\ attempt < PollAttempts
  <1>1. /\ exitStatus' = status
        /\ poll' = IF again THEN attempt + 1 ELSE None
        /\ proxy' = IF leaves THEN "left" ELSE proxy
        /\ respawnScheduled' = (respawnScheduled \/ (~leaves /\ ~again))
    BY DEF pollExitStatus
  <1>2. None = -1 /\ PollAttempts \in Nat /\ attempt \in Nat
    BY Numbers DEF None
  <1>3. CASE again
    <2>1. poll' = attempt + 1 /\ attempt < PollAttempts /\ ~leaves
      BY <1>1, <1>2, <1>3
    <2>2. respawnScheduled' = FALSE /\ proxy' = "serving"
      BY <1>1, <1>3, <2>1
    <2>3. poll' \in 1..PollAttempts /\ poll' # None
      BY <1>2, <2>1
    <2> QED BY <1>1, <2>2, <2>3
  <1>4. CASE ~again /\ leaves
    <2>1. poll' = None /\ respawnScheduled' = FALSE /\ proxy' = "left"
      BY <1>1, <1>4
    <2> QED BY <1>1, <1>4, <2>1
  <1>5. CASE ~again /\ ~leaves
    <2>1. poll' = None /\ respawnScheduled' = TRUE /\ proxy' = "serving"
      BY <1>1, <1>5
    <2> QED BY <1>1, <2>1
  <1> QED BY <1>3, <1>4, <1>5

(* What the reaper may say.                                                *)
LEMMA ReapedStatus == ASSUME IInv PROVE reapIfExited \in {None, 0, 1}
  BY DEF IInv, LinkInv, reapIfExited

(* A link that was up and closes leaves one thing to wait for.             *)
LEMMA LinkClosedLink ==
  ASSUME IInv, Serving, linkUp, NEW entries, NEW requested \in BOOLEAN,
         handleLinkClosed(entries, requested), requested => ~arrived',
         shutdownRequested' \in BOOLEAN, shutdownRequested' => requested,
         idleTimer' \in BOOLEAN, arrived' \in BOOLEAN
  PROVE  LinkInv'
  <1> DEFINE asks == requestedAfter(entries, requested)
  <1>1. /\ linkUp' = FALSE /\ pending' = {} /\ outbound' = <<>> /\ UNCHANGED childVars
        /\ pollExitStatus(reapIfExited, asks, 0)
    BY DEF handleLinkClosed
  <1>2. asks \in BOOLEAN /\ (asks => requested)
    BY DEF requestedAfter, asksToLeave
  <1>3. proxy = "serving" /\ respawnScheduled = FALSE /\ 0 \in 0..PollAttempts
    BY Numbers DEF IInv, LinkInv, DeadLinkIsReplaced, Serving
  <1> HIDE DEF asks
  <1>4. /\ exitStatus' \in {None, 0, 1} /\ poll' \in {None} \cup 1..PollAttempts
        /\ proxy' \in {"serving", "left"} /\ respawnScheduled' \in BOOLEAN
        /\ proxy' = "serving" => (poll' # None) # respawnScheduled'
        /\ proxy' = "left" => asks
    BY <1>1, <1>2, <1>3, ReapedStatus, PollDecides
  <1>5. child' \in {"running", "closing", "zombie"} /\ childStatus' \in {0, 1}
    BY <1>1 DEF childVars, IInv, LinkInv
  <1>6. DeadLinkIsReplaced'
    BY <1>1, <1>4 DEF DeadLinkIsReplaced
  <1>7. ArrivalTakesExitBack'
    BY <1>2, <1>4 DEF ArrivalTakesExitBack
  <1> QED BY <1>1, <1>4, <1>5, <1>6, <1>7 DEF LinkInv

(* A step with the link up that leaves it up starts nothing.               *)
LEMMA LinkStaysUp ==
  ASSUME IInv, Serving, linkUp, UNCHANGED <<linkUp, exitVars>>, proxy' \in {"serving", "crashed"},
         child' \in {"running", "closing", "zombie"}, childStatus' \in {0, 1},
         shutdownRequested' \in BOOLEAN, idleTimer' \in BOOLEAN, arrived' \in BOOLEAN,
         shutdownRequested' => ~arrived'
  PROVE  LinkInv'
  <1>1. DeadLinkIsReplaced'
    BY DEF DeadLinkIsReplaced, IInv, LinkInv, Serving, exitVars
  <1> QED BY <1>1 DEF IInv, LinkInv, ArrivalTakesExitBack, exitVars

(* A step that leaves the link, what waits and the child's state alone.    *)
LEMMA LinkUntouched ==
  ASSUME IInv, Serving, UNCHANGED <<proxy, linkUp, exitVars, childStatus, pending, outbound>>,
         child' \in {"running", "closing", "zombie"},
         shutdownRequested' \in BOOLEAN, idleTimer' \in BOOLEAN, arrived' \in BOOLEAN,
         shutdownRequested' => ~arrived'
  PROVE  LinkInv'
  BY DEF IInv, LinkInv, DeadLinkIsReplaced, ArrivalTakesExitBack, Serving, exitVars

(* The request to leave, after some completions.                           *)
LEMMA RequestedAfterTyped ==
  ASSUME NEW entries, NEW requested \in BOOLEAN
  PROVE  requestedAfter(entries, requested) \in BOOLEAN /\ (requestedAfter(entries, requested) => requested)
  BY DEF requestedAfter, asksToLeave

(* A cut peer does not change what the link waits for.                     *)
LEMMA PeerGoneLink ==
  ASSUME IInv, Serving, NEW p \in PeerIds, peerGone(p)
  PROVE  LinkInv'
  <1>1. shutdownRequested \in BOOLEAN /\ idleTimer \in BOOLEAN /\ arrived \in BOOLEAN
        /\ (shutdownRequested => ~arrived) /\ childStatus \in {0, 1}
        /\ child \in {"running", "closing", "zombie"}
    BY DEF IInv, LinkInv
  <1>2. CASE linkUp /\ child = "running"
    <2>1. /\ idleTimer' = (idleTimer \/ peers \ {p} = {})
          /\ UNCHANGED <<proxy, linkUp, childVars, exitVars, shutdownRequested, arrived>>
      BY <1>2 DEF peerGone
    <2>2. idleTimer' \in BOOLEAN
      BY <1>1, <2>1
    <2> QED BY <1>1, <1>2, <2>1, <2>2, LinkStaysUp DEF childVars, Serving
  <1>3. CASE linkUp /\ child # "running"
    <2> DEFINE entries == {e \in pending : e.peer # p}
    <2>1. /\ handleLinkClosed(entries, shutdownRequested)
          /\ shutdownRequested' = requestedAfter(entries, shutdownRequested)
          /\ idleTimer' = TRUE /\ arrived' = arrived
      BY <1>3 DEF peerGone
    <2> HIDE DEF entries
    <2>2. shutdownRequested' \in BOOLEAN /\ (shutdownRequested' => shutdownRequested)
      BY <1>1, <2>1, RequestedAfterTyped
    <2> QED BY <1>1, <1>3, <2>1, <2>2, LinkClosedLink
  <1>4. CASE ~linkUp
    <2>1. /\ idleTimer' = (idleTimer \/ peers \ {p} = {})
          /\ UNCHANGED <<proxy, linkUp, childVars, exitVars, shutdownRequested, arrived, pending, outbound>>
      BY <1>4 DEF peerGone, replyVars, wireVars
    <2>2. idleTimer' \in BOOLEAN
      BY <1>1, <2>1
    <2> QED BY <1>1, <2>1, <2>2, LinkUntouched DEF childVars
  <1> QED BY <1>2, <1>3, <1>4

(* Every step leaves a dead link with one thing to wait for, and no exit   *)
(* that an arrival has not taken back.                                     *)
LEMMA LinkKept == ASSUME IInv, [Next]_vars PROVE LinkInv'
  <1>t. shutdownRequested \in BOOLEAN /\ idleTimer \in BOOLEAN /\ arrived \in BOOLEAN
        /\ (shutdownRequested => ~arrived) /\ childStatus \in {0, 1}
        /\ child \in {"running", "closing", "zombie"}
    BY DEF IInv, LinkInv
  <1>1. ASSUME NEW p \in PeerIds, Accept(p) PROVE LinkInv'
    BY <1>1, <1>t, LinkUntouched DEF Accept, requestedAfterArrival, childVars, replyVars, wireVars
  <1>2. ASSUME Serving, UNCHANGED <<proxy, linkUp, exitVars, childVars, pending, outbound, idleVars>>
        PROVE  LinkInv'
    BY <1>2, <1>t, LinkUntouched DEF childVars, idleVars
  <1>3. ASSUME NEW p \in PeerIds, GoodbyeWithoutChild(p) \/ DidSend(p) PROVE LinkInv'
    BY <1>2, <1>3 DEF GoodbyeWithoutChild, DidSend, replyVars, wireVars
  <1>4. CASE Tick \/ ReadOutput \/ \E p \in PeerIds, n \in OutputSizes : ChildWritesOutput(p, n)
    BY <1>2, <1>4 DEF Tick, ReadOutput, ChildWritesOutput, replyVars, wireVars
  <1>5. CASE UNCHANGED vars
    BY <1>5 DEF vars, exitVars, childVars, replyVars, wireVars, idleVars, IInv, LinkInv,
       DeadLinkIsReplaced, ArrivalTakesExitBack
  <1>6. ASSUME NEW p \in PeerIds, ClientGoes(p) \/ LeavesAfterGoodbye(p) \/ CongestionTimerFires(p)
        PROVE  LinkInv'
    BY <1>6, PeerGoneLink DEF ClientGoes, LeavesAfterGoodbye, CongestionTimerFires
  <1>7. CASE ReadEOF \/ WriteFails \/ ExitSourceFires
    <2>1. /\ Serving /\ linkUp /\ handleLinkClosed(pending, shutdownRequested)
          /\ shutdownRequested' = requestedAfter(pending, shutdownRequested)
          /\ idleTimer' = idleAfter(pending) /\ arrived' = arrived
      BY <1>7 DEF ReadEOF, WriteFails, ExitSourceFires, LinkCloses
    <2>2. shutdownRequested' \in BOOLEAN /\ (shutdownRequested' => shutdownRequested)
      BY <1>t, <2>1, RequestedAfterTyped
    <2>3. idleTimer' \in BOOLEAN
      BY <1>t, <2>1 DEF idleAfter, asksToLeave
    <2> QED BY <1>t, <2>1, <2>2, <2>3, LinkClosedLink
  <1>8. ASSUME NEW p \in PeerIds, NEW op \in ReplyOps \cup SilentOps, NEW wantsReply \in BOOLEAN,
               Forward(p, op, wantsReply)
        PROVE  LinkInv'
    <2> DEFINE entry == request(p, op, IF wantsReply THEN nextTag ELSE 0)
               entries == IF wantsReply THEN pending \cup {entry} ELSE pending
               requested == shutdownRequested \/ op = "shutdown"
    <2>1. Serving /\ linkUp /\ arrived' = (arrived /\ op # "shutdown")
      BY <1>8 DEF Forward
    <2>2. requested \in BOOLEAN /\ arrived' \in BOOLEAN /\ (requested => ~arrived')
      BY <1>t, <2>1
    <2>3. CASE child = "running"
      <3>1. shutdownRequested' = requested /\ UNCHANGED <<proxy, linkUp, childVars, exitVars, idleTimer>>
        BY <1>8, <2>3 DEF Forward
      <3> HIDE DEF requested
      <3> QED BY <1>t, <2>1, <2>2, <3>1, LinkStaysUp DEF childVars, Serving
    <2>4. CASE child # "running"
      <3>1. /\ handleLinkClosed(entries, requested)
            /\ shutdownRequested' = requestedAfter(entries, requested)
            /\ idleTimer' = idleAfter(entries)
        BY <1>8, <2>4 DEF Forward
      <3> HIDE DEF entries, requested
      <3>2. shutdownRequested' \in BOOLEAN /\ (shutdownRequested' => requested)
        BY <2>2, <3>1, RequestedAfterTyped
      <3>3. idleTimer' \in BOOLEAN
        BY <1>t, <3>1 DEF idleAfter, asksToLeave
      <3> QED BY <2>1, <2>2, <3>1, <3>2, <3>3, LinkClosedLink
    <2> QED BY <2>3, <2>4
  <1>9. CASE ReadReply
    <2>1. Serving /\ linkUp /\ UNCHANGED <<linkUp, exitVars, childVars, arrived>>
      BY <1>9 DEF ReadReply
    <2>2. /\ proxy' = proxy \/ proxy' = "crashed"
          /\ idleTimer' = idleTimer \/ idleTimer' = askedAgain
          /\ shutdownRequested' = shutdownRequested \/ shutdownRequested' = FALSE
      BY <1>9 DEF ReadReply, answerToIdle
    <2>3. idleTimer' \in BOOLEAN
      BY <1>t, <2>2 DEF askedAgain
    <2>4. proxy' \in {"serving", "crashed"}
      BY <2>1, <2>2 DEF Serving
    <2>6. shutdownRequested' \in BOOLEAN /\ (shutdownRequested' => ~arrived')
      <3>1. arrived' = arrived
        BY <2>1
      <3>2. CASE shutdownRequested' = shutdownRequested
        BY <1>t, <3>1, <3>2
      <3>3. CASE shutdownRequested' = FALSE
        BY <3>3
      <3> QED BY <2>2, <3>2, <3>3
    <2>5. childStatus' \in {0, 1} /\ child' \in {"running", "closing", "zombie"} /\ arrived' \in BOOLEAN
      BY <1>t, <2>1 DEF childVars
    <2> QED BY <2>1, <2>3, <2>4, <2>5, <2>6, LinkStaysUp
  <1>10. CASE WriteSourceFires \/ ChildHandles \/ ChildDies
    <2>1. Serving /\ linkUp /\ UNCHANGED <<proxy, linkUp, exitVars, idleVars>>
      BY <1>10 DEF WriteSourceFires, ChildHandles, ChildDies
    <2>2. child' \in {"running", "closing", "zombie"} /\ childStatus' \in {0, 1}
      BY <1>10, <1>t DEF WriteSourceFires, ChildHandles, ChildDies, childVars
    <2> QED BY <1>t, <2>1, <2>2, LinkStaysUp DEF Serving, idleVars
  <1>11. CASE ChildReapable
    BY <1>11, <1>t, LinkUntouched DEF ChildReapable, replyVars, wireVars, idleVars
  <1>12. CASE PollAgain
    <2>1. /\ proxy = "serving" /\ poll # None /\ pollExitStatus(reapIfExited, shutdownRequested, poll)
          /\ UNCHANGED <<linkUp, childVars, pending, outbound, idleVars>>
      BY <1>12 DEF PollAgain, Serving, replyVars, wireVars
    <2>2. poll \in 0..PollAttempts
      BY <2>1, Numbers DEF IInv, LinkInv
    <2>3. ~linkUp /\ respawnScheduled = FALSE /\ pending = {} /\ outbound = <<>>
      BY <2>1 DEF IInv, LinkInv, DeadLinkIsReplaced
    <2>4. /\ exitStatus' \in {None, 0, 1} /\ poll' \in {None} \cup 1..PollAttempts
          /\ proxy' \in {"serving", "left"} /\ respawnScheduled' \in BOOLEAN
          /\ proxy' = "serving" => (poll' # None) # respawnScheduled'
          /\ proxy' = "left" => shutdownRequested
      BY <1>t, <2>1, <2>2, <2>3, ReapedStatus, PollDecides
    <2>5. DeadLinkIsReplaced'
      BY <2>1, <2>3, <2>4 DEF DeadLinkIsReplaced
    <2>6. ArrivalTakesExitBack'
      BY <1>t, <2>1, <2>4 DEF ArrivalTakesExitBack, idleVars
    <2>7. linkUp' = FALSE
      BY <2>1, <2>3 DEF IInv, LinkInv
    <2> QED BY <1>t, <2>1, <2>4, <2>5, <2>6, <2>7 DEF LinkInv, childVars, idleVars
  <1>13. CASE Respawn \/ RespawnFails
    <2>1. /\ Serving /\ respawnScheduled /\ idleTimer' = (idleTimer \/ peers = {})
          /\ UNCHANGED <<proxy, pending, outbound, poll, shutdownRequested, arrived>>
      BY <1>13 DEF Respawn, RespawnFails, replyVars, wireVars
    <2>2. ~linkUp /\ poll = None /\ pending = {} /\ outbound = <<>> /\ proxy = "serving"
      BY <2>1 DEF IInv, LinkInv, DeadLinkIsReplaced, Serving
    <2>3. idleTimer' \in BOOLEAN
      BY <1>t, <2>1
    <2>4. CASE Respawn
      <3>1. /\ linkUp' = TRUE /\ respawnScheduled' = FALSE /\ exitStatus' = None
            /\ child' = "running" /\ childStatus' = 1
        BY <2>4 DEF Respawn
      <3>2. DeadLinkIsReplaced' /\ ArrivalTakesExitBack'
        BY <2>1, <2>2, <3>1 DEF DeadLinkIsReplaced, ArrivalTakesExitBack
      <3> QED BY <1>t, <2>1, <2>2, <2>3, <3>1, <3>2 DEF LinkInv
    <2>5. CASE RespawnFails
      <3>1. respawnScheduled' = TRUE /\ UNCHANGED <<linkUp, exitStatus, childVars>>
        BY <2>5 DEF RespawnFails, retriesSpawn
      <3>2. linkUp' = FALSE /\ exitStatus' \in {None, 0, 1}
        BY <2>2, <3>1 DEF IInv, LinkInv
      <3>3. DeadLinkIsReplaced' /\ ArrivalTakesExitBack'
        BY <2>1, <2>2, <3>1, <3>2 DEF DeadLinkIsReplaced, ArrivalTakesExitBack
      <3> QED BY <1>t, <2>1, <2>2, <2>3, <3>1, <3>2, <3>3 DEF LinkInv, childVars
    <2> QED BY <1>13, <2>4, <2>5
  <1>14. CASE IdleTimerFires
    <2> DEFINE hello == request(Supervisor, "hello", nextTag)
    <2>1. CASE linkUp /\ child = "running"
      <3>1. /\ Serving /\ idleTimer' = FALSE /\ shutdownRequested' = TRUE /\ arrived' = FALSE
            /\ UNCHANGED <<proxy, linkUp, childVars, exitVars>>
        BY <1>14, <2>1 DEF IdleTimerFires
      <3> QED BY <1>t, <2>1, <3>1, LinkStaysUp DEF childVars, Serving
    <2>2. CASE linkUp /\ child # "running"
      <3>1. /\ Serving /\ handleLinkClosed(pending \cup {hello}, shutdownRequested)
            /\ idleTimer' = TRUE /\ shutdownRequested' = FALSE /\ arrived' = arrived
        BY <1>14, <2>2 DEF IdleTimerFires
      <3> HIDE DEF hello
      <3> QED BY <1>t, <2>2, <3>1, LinkClosedLink
    <2>3. CASE ~linkUp
      <3>1. /\ Serving /\ shutdownRequested' = FALSE
            /\ UNCHANGED <<proxy, linkUp, childVars, exitVars, idleTimer, arrived, pending, outbound>>
        BY <1>14, <2>3 DEF IdleTimerFires, replyVars, wireVars
      <3> QED BY <1>t, <3>1, LinkUntouched DEF childVars
    <2> QED BY <2>1, <2>2, <2>3
  <1> QED BY <1>1, <1>3, <1>4, <1>5, <1>6, <1>7, <1>8, <1>9, <1>10, <1>11, <1>12, <1>13, <1>14
          DEF Next

-----------------------------------------------------------------------------
(* The output in flight. *)

(* Peers that arrive and a link that comes up disturb no output in flight. *)
LEMMA FlowUntouched ==
  ASSUME IInv, UNCHANGED <<flowVars, isReadSuspended>>, peers \subseteq peers', linkUp => linkUp'
  PROVE  FlowInv'
  <1>1. FlowTyped' /\ ClockRuns' /\ ReadingIsBelow' /\ OutputBounded'
    BY DEF IInv, FlowInv, flowVars, FlowTyped, ClockRuns, ReadingIsBelow, OutputBounded
  <1>2. GonePeersHoldNothing' /\ DeadLinkHoldsNothing'
    BY DEF IInv, FlowInv, flowVars, GonePeersHoldNothing, DeadLinkHoldsNothing
  <1> QED BY <1>1, <1>2 DEF FlowInv

(* A link that closes leaves nothing in flight.                            *)
LEMMA LinkClosedFlow ==
  ASSUME IInv, NEW entries, NEW requested, handleLinkClosed(entries, requested)
  PROVE  FlowInv'
  <1>1. /\ linkUp' = FALSE /\ isReadSuspended' = FALSE
        /\ congestionTimers' = [p \in PeerIds |-> NoTimer]
        /\ inFlight' = [p \in PeerIds |-> 0] /\ totalInFlight' = 0
        /\ UNCHANGED <<stuck, barriers>>
    BY DEF handleLinkClosed
  <1>2. FlowTyped'
    <2>1. NoTimer \in 0..NoTimer
      BY Numbers DEF NoTimer
    <2>2. stuck \in [PeerIds -> 0..Grace] /\ barriers \in [PeerIds -> Seq(OutputSizes)]
      BY DEF IInv, FlowInv, FlowTyped
    <2>3. congestionTimers' \in [PeerIds -> 0..NoTimer] /\ inFlight' \in [PeerIds -> Nat]
      BY <1>1, <2>1
    <2>4. stuck' = stuck /\ barriers' = barriers /\ totalInFlight' \in Int
      BY <1>1
    <2>5. isReadSuspended' \in BOOLEAN
      BY <1>1, Zenon
    <2> QED BY <2>2, <2>3, <2>4, <2>5, Zenon DEF FlowTyped
  <1>5. \A p \in PeerIds : inFlight'[p] = 0 /\ congestionTimers'[p] = NoTimer
    BY <1>1
  <1>3. ClockRuns' /\ GonePeersHoldNothing' /\ DeadLinkHoldsNothing'
    BY <1>5, Zenon DEF ClockRuns, GonePeersHoldNothing, DeadLinkHoldsNothing
  <1>4. ReadingIsBelow' /\ OutputBounded'
    BY <1>1, Numbers DEF ReadingIsBelow, OutputBounded
  <1> QED BY <1>2, <1>3, <1>4 DEF FlowInv

(* Less in flight is below every mark that more was below.                 *)
LEMMA LessIsBelow ==
  ASSUME IInv, NEW total \in Int, total <= totalInFlight \/ total = 0, totalInFlight' = total,
         isReadSuspended' = (isReadSuspended /\ total >= ResumeBelow)
  PROVE  ReadingIsBelow' /\ OutputBounded' /\ isReadSuspended' \in BOOLEAN
  <1>1. totalInFlight \in Int /\ isReadSuspended \in BOOLEAN
    BY DEF IInv, FlowInv, FlowTyped
  <1>2. ReadingIsBelow'
    <2>1. ASSUME ~isReadSuspended' PROVE total <= PauseAbove
      <3>1. CASE isReadSuspended
        <4>1. ~(total >= ResumeBelow)
          BY <1>1, <2>1, <3>1
        <4> QED BY <4>1, Numbers
      <3>2. CASE ~isReadSuspended
        <4>1. totalInFlight <= PauseAbove
          BY <3>2 DEF IInv, FlowInv, ReadingIsBelow
        <4> QED BY <1>1, <4>1, Numbers
      <3> QED BY <3>1, <3>2
    <2> QED BY <2>1 DEF ReadingIsBelow
  <1>3. OutputBounded'
    <2>1. ASSUME NEW n \in OutputSizes, \A m \in OutputSizes : m <= n
          PROVE  total <= PauseAbove + n
      <3>1. totalInFlight <= PauseAbove + n /\ n \in Nat
        BY <2>1, Numbers DEF IInv, FlowInv, OutputBounded
      <3> QED BY <1>1, <3>1, Numbers
    <2> QED BY <2>1 DEF OutputBounded
  <1>4. isReadSuspended' \in BOOLEAN
    <2>1. (total >= ResumeBelow) \in BOOLEAN
      BY Numbers
    <2> QED BY <1>1, <2>1
  <1> QED BY <1>2, <1>3, <1>4

(* A peer that goes gives back what it held.                               *)
LEMMA PeerGoneFlow ==
  ASSUME IInv, NEW p \in PeerIds, peerGone(p)
  PROVE  FlowInv'
  <1>t. FlowTyped /\ ClockRuns /\ GonePeersHoldNothing /\ DeadLinkHoldsNothing
    BY DEF IInv, FlowInv
  <1>1. CASE linkUp /\ child = "running"
    <2> DEFINE total == totalInFlight - inFlight[p]
    <2>1. /\ peers' = peers \ {p} /\ linkUp' = linkUp
          /\ inFlight' = [inFlight EXCEPT ![p] = 0] /\ totalInFlight' = total
          /\ congestionTimers' = [congestionTimers EXCEPT ![p] = NoTimer]
          /\ isReadSuspended' = (isReadSuspended /\ total >= ResumeBelow)
          /\ UNCHANGED <<stuck, barriers>>
      BY <1>1 DEF peerGone, budgetWithout
    <2>2. total \in Int /\ total <= totalInFlight
      BY <1>t DEF FlowTyped
    <2>3. ReadingIsBelow' /\ OutputBounded' /\ isReadSuspended' \in BOOLEAN
      <3> HIDE DEF total
      <3> QED BY <2>1, <2>2, LessIsBelow
    <2>4. FlowTyped'
      BY <1>t, <2>1, <2>2, <2>3, Numbers DEF FlowTyped, NoTimer
    <2>5. ClockRuns'
      BY <1>t, <2>1 DEF ClockRuns, FlowTyped
    <2>6. GonePeersHoldNothing'
      BY <1>t, <2>1 DEF GonePeersHoldNothing, FlowTyped
    <2>7. DeadLinkHoldsNothing'
      BY <1>1, <2>1 DEF DeadLinkHoldsNothing
    <2> QED BY <2>3, <2>4, <2>5, <2>6, <2>7 DEF FlowInv
  <1>2. CASE linkUp /\ child # "running"
    BY <1>2, LinkClosedFlow DEF peerGone
  <1>3. CASE ~linkUp
    <2>1. UNCHANGED <<flowVars, isReadSuspended, linkUp>>
      BY <1>3 DEF peerGone
    <2>2. FlowTyped' /\ ClockRuns' /\ ReadingIsBelow' /\ OutputBounded'
      BY <2>1 DEF IInv, FlowInv, flowVars, FlowTyped, ClockRuns, ReadingIsBelow, OutputBounded
    <2>3. GonePeersHoldNothing' /\ DeadLinkHoldsNothing'
      BY <1>3, <1>t, <2>1 DEF flowVars, GonePeersHoldNothing, DeadLinkHoldsNothing
    <2> QED BY <2>2, <2>3 DEF FlowInv
  <1> QED BY <1>1, <1>2, <1>3

(* An event handed to a peer: reading pauses above the mark, and whoever   *)
(* gets a clock holds output.                                              *)
LEMMA WillSendFlow ==
  ASSUME IInv, linkUp, ~isReadSuspended, NEW p \in peers, NEW n \in OutputSizes, willSend(p, n),
         UNCHANGED <<peers, linkUp>>
  PROVE  FlowInv'
  <1> DEFINE held == [inFlight EXCEPT ![p] = @ + n]
             total == totalInFlight + n
  <1>t. FlowTyped /\ ClockRuns /\ GonePeersHoldNothing /\ p \in PeerIds /\ n \in Nat \ {0}
    BY Numbers DEF IInv, FlowInv, PauseInv
  <1>1. /\ inFlight' = held /\ totalInFlight' = total
        /\ isReadSuspended' = (isReadSuspended \/ total > PauseAbove)
        /\ congestionTimers' =
             [q \in PeerIds |-> IF congestionTimers[q] = NoTimer /\ needsTimer(q, p, held, total)
                                THEN Grace ELSE congestionTimers[q]]
        /\ stuck' = [stuck EXCEPT ![p] = IF inFlight[p] = 0 THEN 0 ELSE @]
        /\ barriers' = [barriers EXCEPT ![p] = Append(@, n)]
    BY DEF willSend, pausesReading
  <1>2. held \in [PeerIds -> Nat] /\ total \in Int
    BY <1>t DEF FlowTyped
  <1>3. \A q \in PeerIds : held[q] >= inFlight[q]
    BY <1>t DEF FlowTyped
  <1>4. held[p] > 0
    BY <1>t DEF FlowTyped
  <1>5. FlowTyped'
    <2>1. congestionTimers' \in [PeerIds -> 0..NoTimer]
      <3> HIDE DEF held, total
      <3> QED BY <1>1, <1>t, Numbers DEF FlowTyped, NoTimer
    <2>2. stuck' \in [PeerIds -> 0..Grace]
      BY <1>1, <1>t, Numbers DEF FlowTyped
    <2>3. barriers' \in [PeerIds -> Seq(OutputSizes)]
      <3>1. Append(barriers[p], n) \in Seq(OutputSizes)
        BY <1>t, AppendTyped DEF FlowTyped
      <3> QED BY <1>1, <1>t, <3>1 DEF FlowTyped
    <2>4. isReadSuspended' \in BOOLEAN
      BY <1>1, <1>2, Numbers
    <2> QED BY <1>1, <1>2, <2>1, <2>2, <2>3, <2>4 DEF FlowTyped
  <1>6. ClockRuns'
    <2>1. ASSUME NEW q \in PeerIds, congestionTimers'[q] # NoTimer
          PROVE  inFlight'[q] > 0 /\ congestionTimers'[q] + stuck'[q] >= Grace
      <3>1. inFlight[q] \in Nat /\ held[q] \in Nat /\ held[q] >= inFlight[q] /\ inFlight'[q] = held[q]
        BY <1>1, <1>2, <1>3, <1>t DEF FlowTyped
      <3>2. stuck[q] \in 0..Grace /\ stuck'[q] \in 0..Grace /\ congestionTimers[q] \in 0..NoTimer
        BY <1>5, <1>t DEF FlowTyped
      <3>3. CASE congestionTimers[q] = NoTimer
        <4>1. needsTimer(q, p, held, total) /\ congestionTimers'[q] = Grace
          <5> HIDE DEF held, total
          <5> QED BY <1>1, <2>1, <3>3
        <4>2. held[q] > 0
          <5> HIDE DEF held, total
          <5> QED BY <1>4, <4>1 DEF needsTimer
        <4> QED BY <3>1, <3>2, <4>1, <4>2, Numbers
      <3>4. CASE congestionTimers[q] # NoTimer
        <4>1. congestionTimers'[q] = congestionTimers[q]
          BY <1>1, <3>4
        <4>2. inFlight[q] > 0 /\ congestionTimers[q] + stuck[q] >= Grace
          BY <1>t, <3>4 DEF ClockRuns
        <4>3. stuck'[q] = stuck[q]
          BY <1>1, <1>t, <3>1, <4>2 DEF FlowTyped
        <4> QED BY <3>1, <4>1, <4>2, <4>3
      <3> QED BY <3>3, <3>4
    <2> QED BY <2>1 DEF ClockRuns
  <1>7. GonePeersHoldNothing'
    <2>1. ASSUME NEW q \in PeerIds \ peers PROVE inFlight'[q] = 0 /\ congestionTimers'[q] = NoTimer
      <3>1. q # p /\ inFlight[q] = 0 /\ congestionTimers[q] = NoTimer
        BY <1>t, <2>1 DEF GonePeersHoldNothing
      <3>2. held[q] = 0
        BY <3>1, <1>t DEF FlowTyped
      <3>3. ~needsTimer(q, p, held, total)
        <4> HIDE DEF held, total
        <4> QED BY <3>1, <3>2 DEF needsTimer
      <3> HIDE DEF held, total
      <3> QED BY <1>1, <3>1, <3>2, <3>3
    <2> QED BY <2>1 DEF GonePeersHoldNothing
  <1>8. ReadingIsBelow'
    <2>1. ASSUME ~isReadSuspended' PROVE total <= PauseAbove
      <3>1. ~(total > PauseAbove)
        BY <1>1, <2>1
      <3> QED BY <1>2, <3>1, Numbers
    <2> QED BY <1>1, <2>1 DEF ReadingIsBelow
  <1>9. OutputBounded'
    <2>1. totalInFlight <= PauseAbove /\ totalInFlight \in Int
      BY DEF IInv, FlowInv, ReadingIsBelow, FlowTyped
    <2>2. ASSUME NEW m \in OutputSizes, \A k \in OutputSizes : k <= m
          PROVE  total <= PauseAbove + m
      <3>1. n <= m /\ m \in Nat
        BY <2>2, Numbers
      <3> QED BY <1>t, <2>1, <3>1, Numbers
    <2> QED BY <1>1, <2>2 DEF OutputBounded
  <1> QED BY <1>5, <1>6, <1>7, <1>8, <1>9 DEF FlowInv, DeadLinkHoldsNothing

(* Output taken: less is in flight, and a clock that goes on starts anew.  *)
LEMMA DidSendFlow ==
  ASSUME IInv, NEW p \in PeerIds, DidSend(p)
  PROVE  FlowInv'
  <1> DEFINE n == Head(barriers[p])
             remaining == IF inFlight[p] < n THEN 0 ELSE inFlight[p] - n
             total == IF totalInFlight < n THEN 0 ELSE totalInFlight - n
             paused == isReadSuspended /\ total >= ResumeBelow
             timer == IF remaining = 0 \/ (remaining < PeerCongestion /\ ~paused)
                      THEN NoTimer ELSE rescheduled(p)
  <1>t. FlowTyped /\ ClockRuns /\ GonePeersHoldNothing /\ DeadLinkHoldsNothing
    BY DEF IInv, FlowInv
  <1>1. /\ barriers[p] # <<>> /\ barriers' = [barriers EXCEPT ![p] = Tail(@)]
        /\ UNCHANGED <<peers, linkUp>>
    BY DEF DidSend, peerVars
  <1>2. barriers[p] \in Seq(OutputSizes)
    BY <1>t DEF FlowTyped
  <1>3. n \in Nat \ {0} /\ Tail(barriers[p]) \in Seq(OutputSizes)
    BY <1>1, <1>2, HeadTailProperties, Numbers
  <1>4. barriers' \in [PeerIds -> Seq(OutputSizes)]
    BY <1>1, <1>3, <1>t DEF FlowTyped
  <1>5. CASE p \in peers
    <2>1. /\ inFlight' = [inFlight EXCEPT ![p] = remaining] /\ totalInFlight' = total
          /\ isReadSuspended' = paused
          /\ congestionTimers' = [congestionTimers EXCEPT ![p] = timer]
          /\ stuck' = [stuck EXCEPT ![p] = 0]
      BY <1>5 DEF DidSend, counts
    <2>2. /\ remaining \in Nat /\ remaining <= inFlight[p] /\ total \in Int
          /\ total <= totalInFlight \/ total = 0
      BY <1>3, <1>t DEF FlowTyped
    <2> HIDE DEF n, remaining, total
    <2>3. ReadingIsBelow' /\ OutputBounded' /\ isReadSuspended' \in BOOLEAN
      BY <2>1, <2>2, LessIsBelow
    <2>4. timer \in {NoTimer, Grace} /\ (timer # NoTimer => remaining # 0 /\ congestionTimers[p] # NoTimer)
      BY DEF rescheduled
    <2> HIDE DEF timer
    <2>5. FlowTyped'
      <3>1. timer \in 0..NoTimer
        BY <2>4, Numbers DEF NoTimer
      <3> QED BY <1>4, <1>t, <2>1, <2>2, <2>3, <3>1, Numbers DEF FlowTyped
    <2>6. ClockRuns'
      <3>1. ASSUME NEW q \in PeerIds, congestionTimers'[q] # NoTimer
            PROVE  inFlight'[q] > 0 /\ congestionTimers'[q] + stuck'[q] >= Grace
        <4>1. CASE q = p
          <5>1. congestionTimers'[q] = timer /\ inFlight'[q] = remaining /\ stuck'[q] = 0
            BY <1>t, <2>1, <4>1 DEF FlowTyped
          <5> QED BY <2>2, <2>4, <3>1, <5>1, Numbers
        <4>2. CASE q # p
          <5>1. /\ congestionTimers'[q] = congestionTimers[q] /\ inFlight'[q] = inFlight[q]
                /\ stuck'[q] = stuck[q]
            BY <1>t, <2>1, <4>2 DEF FlowTyped
          <5> QED BY <1>t, <3>1, <5>1 DEF ClockRuns
        <4> QED BY <4>1, <4>2
      <3> QED BY <3>1 DEF ClockRuns
    <2>7. GonePeersHoldNothing'
      BY <1>1, <1>5, <1>t, <2>1 DEF GonePeersHoldNothing, FlowTyped
    <2>8. DeadLinkHoldsNothing'
      <3>1. ASSUME ~linkUp, NEW q \in PeerIds
            PROVE  inFlight'[q] = 0 /\ congestionTimers'[q] = NoTimer
        <4>1. /\ inFlight[q] = 0 /\ congestionTimers[q] = NoTimer
              /\ inFlight[p] = 0 /\ congestionTimers[p] = NoTimer
          BY <1>t, <3>1 DEF DeadLinkHoldsNothing
        <4>2. remaining = 0 /\ timer = NoTimer
          BY <2>2, <2>4, <4>1
        <4> QED BY <1>t, <2>1, <4>1, <4>2 DEF FlowTyped
      <3> QED BY <1>1, <3>1 DEF DeadLinkHoldsNothing
    <2> QED BY <2>3, <2>5, <2>6, <2>7, <2>8 DEF FlowInv
  <1>6. CASE p \notin peers
    <2>1. UNCHANGED <<inFlight, totalInFlight, isReadSuspended, congestionTimers, stuck>>
      BY <1>6 DEF DidSend, counts
    <2>2. FlowTyped' /\ ClockRuns' /\ ReadingIsBelow' /\ OutputBounded'
      BY <1>4, <2>1 DEF IInv, FlowInv, FlowTyped, ClockRuns, ReadingIsBelow, OutputBounded
    <2>3. GonePeersHoldNothing' /\ DeadLinkHoldsNothing'
      BY <1>1, <1>t, <2>1 DEF GonePeersHoldNothing, DeadLinkHoldsNothing
    <2> QED BY <2>2, <2>3 DEF FlowInv
  <1> QED BY <1>5, <1>6

(* A tick: what the clock loses the wait gains, up to the whole grace.     *)
LEMMA TickFlow ==
  ASSUME IInv, Tick
  PROVE  FlowInv'
  <1>t. FlowTyped /\ ClockRuns /\ GonePeersHoldNothing /\ DeadLinkHoldsNothing
    BY DEF IInv, FlowInv
  <1>1. /\ congestionTimers' = [p \in PeerIds |-> IF congestionTimers[p] \in 1..Grace
                                                  THEN congestionTimers[p] - 1
                                                  ELSE congestionTimers[p]]
        /\ stuck' = [p \in PeerIds |-> IF stuck[p] < Grace THEN stuck[p] + 1 ELSE Grace]
        /\ UNCHANGED <<peers, inFlight, totalInFlight, barriers, isReadSuspended, linkUp>>
    BY DEF Tick, peerVars
  <1>2. ASSUME NEW p \in PeerIds
        PROVE  /\ congestionTimers'[p] \in 0..NoTimer /\ stuck'[p] \in 0..Grace
               /\ (congestionTimers'[p] # NoTimer <=> congestionTimers[p] # NoTimer)
               /\ congestionTimers[p] + stuck[p] >= Grace => congestionTimers'[p] + stuck'[p] >= Grace
    <2>1. congestionTimers[p] \in 0..NoTimer /\ stuck[p] \in 0..Grace
      BY <1>t DEF FlowTyped
    <2>2. congestionTimers'[p] = IF congestionTimers[p] \in 1..Grace
                                 THEN congestionTimers[p] - 1 ELSE congestionTimers[p]
      BY <1>1
    <2>3. stuck'[p] = IF stuck[p] < Grace THEN stuck[p] + 1 ELSE Grace
      BY <1>1
    <2> QED BY <2>1, <2>2, <2>3, Numbers DEF NoTimer
  <1>3. FlowTyped'
    BY <1>1, <1>2, <1>t DEF FlowTyped
  <1>4. ClockRuns'
    BY <1>1, <1>2, <1>t DEF ClockRuns
  <1>5. GonePeersHoldNothing' /\ DeadLinkHoldsNothing'
    BY <1>1, <1>2, <1>t DEF GonePeersHoldNothing, DeadLinkHoldsNothing
  <1>6. ReadingIsBelow' /\ OutputBounded'
    BY <1>1 DEF IInv, FlowInv, ReadingIsBelow, OutputBounded
  <1> QED BY <1>3, <1>4, <1>5, <1>6 DEF FlowInv

(* Every step keeps the output in flight below its marks.                  *)
LEMMA FlowKept == ASSUME IInv, [Next]_vars PROVE FlowInv'
  <1>1. ASSUME NEW p \in PeerIds, Accept(p) \/ GoodbyeWithoutChild(p) PROVE FlowInv'
    BY <1>1, FlowUntouched DEF Accept, GoodbyeWithoutChild
  <1>2. ASSUME NEW p \in PeerIds, ClientGoes(p) \/ LeavesAfterGoodbye(p) \/ CongestionTimerFires(p)
        PROVE  FlowInv'
    BY <1>2, PeerGoneFlow DEF ClientGoes, LeavesAfterGoodbye, CongestionTimerFires
  <1>3. ASSUME NEW p \in PeerIds, NEW op, NEW wantsReply, Forward(p, op, wantsReply)
        PROVE  FlowInv'
    <2>1. CASE child = "running"
      BY <1>3, <2>1, FlowUntouched DEF Forward
    <2>2. CASE child # "running"
      BY <1>3, <2>2, LinkClosedFlow DEF Forward
    <2> QED BY <2>1, <2>2
  <1>4. ASSUME NEW p \in PeerIds, DidSend(p) PROVE FlowInv'
    BY <1>4, DidSendFlow
  <1>5. CASE Tick
    BY <1>5, TickFlow
  <1>6. CASE ReadOutput
    <2>1. /\ linkUp /\ ~isReadSuspended /\ UNCHANGED <<peers, linkUp>>
          /\ fromIO # <<>> /\ Head(fromIO).kind = "output"
      BY <1>6 DEF ReadOutput, peerVars
    <2>2. CASE Head(fromIO).peer \in peers
      <3>1. Head(fromIO) \in Frame
        BY <2>1, HeadTailProperties DEF IInv, WireInv
      <3>2. Head(fromIO).size \in OutputSizes
        BY <2>1, <3>1 DEF Frame
      <3>3. willSend(Head(fromIO).peer, Head(fromIO).size)
        BY <1>6, <2>2 DEF ReadOutput
      <3> QED BY <2>1, <2>2, <3>2, <3>3, WillSendFlow
    <2>3. CASE Head(fromIO).peer \notin peers
      BY <1>6, <2>1, <2>3, FlowUntouched DEF ReadOutput
    <2> QED BY <2>2, <2>3
  <1>7. CASE ReadReply \/ WriteSourceFires
    BY <1>7, FlowUntouched DEF ReadReply, WriteSourceFires
  <1>8. CASE ReadEOF \/ WriteFails \/ ExitSourceFires
    BY <1>8, LinkClosedFlow DEF ReadEOF, WriteFails, ExitSourceFires, LinkCloses
  <1>9. CASE PollAgain \/ Respawn \/ RespawnFails
    BY <1>9, FlowUntouched DEF PollAgain, Respawn, RespawnFails, peerVars
  <1>10. CASE IdleTimerFires
    <2>1. CASE linkUp /\ child = "running"
      BY <1>10, <2>1, FlowUntouched DEF IdleTimerFires
    <2>2. CASE linkUp /\ child # "running"
      BY <1>10, <2>2, LinkClosedFlow DEF IdleTimerFires
    <2>3. CASE ~linkUp
      BY <1>10, <2>3, FlowUntouched DEF IdleTimerFires, peerVars
    <2> QED BY <2>1, <2>2, <2>3
  <1>11. ASSUME NEW p \in PeerIds, NEW n \in OutputSizes, ChildWritesOutput(p, n) PROVE FlowInv'
    BY <1>11, FlowUntouched DEF ChildWritesOutput, peerVars
  <1>12. CASE ChildHandles \/ ChildDies \/ ChildReapable
    <2>1. UNCHANGED <<flowVars, isReadSuspended, peers, linkUp>>
      BY <1>12 DEF ChildHandles, ChildDies, ChildReapable, peerVars
    <2> QED BY <2>1, FlowUntouched
  <1>13. CASE UNCHANGED vars
    <2>1. flowVars' = flowVars /\ isReadSuspended' = isReadSuspended /\ peers' = peers /\ linkUp' = linkUp
      BY <1>13 DEF vars, peerVars
    <2> QED BY <2>1, FlowUntouched
  <1> QED BY <1>1, <1>2, <1>3, <1>4, <1>5, <1>6, <1>7, <1>8, <1>9, <1>10, <1>11, <1>12, <1>13
          DEF Next

-----------------------------------------------------------------------------
(* The whole invariant. *)

(* Each count is left alone or goes up by one.                             *)
LEMMA BoundKept == ASSUME IInv, [Next]_vars PROVE BoundInv'
  <1>1. ASSUME UNCHANGED boundVars PROVE BoundInv'
    BY <1>1 DEF IInv, BoundInv, boundVars
  <1>2. ASSUME NEW p \in PeerIds, peerGone(p) PROVE BoundInv'
    BY <1>1, <1>2 DEF peerGone, handleLinkClosed
  <1>3. ASSUME NEW p \in PeerIds, NEW op, NEW wantsReply, Forward(p, op, wantsReply)
        PROVE  BoundInv'
    BY <1>1, <1>3 DEF Forward, handleLinkClosed
  <1>4. ASSUME NEW p \in PeerIds,
               Accept(p) \/ GoodbyeWithoutChild(p) \/ ClientGoes(p) \/ LeavesAfterGoodbye(p)
                 \/ DidSend(p) \/ CongestionTimerFires(p)
        PROVE  BoundInv'
    BY <1>1, <1>2, <1>4 DEF Accept, GoodbyeWithoutChild, ClientGoes, LeavesAfterGoodbye, DidSend,
       CongestionTimerFires
  <1>5. CASE Tick \/ ReadOutput \/ ReadReply \/ WriteSourceFires \/ PollAgain
    BY <1>1, <1>5 DEF Tick, ReadOutput, ReadReply, WriteSourceFires, PollAgain
  <1>6. CASE ReadEOF \/ WriteFails \/ ExitSourceFires \/ IdleTimerFires
    BY <1>1, <1>6 DEF ReadEOF, WriteFails, ExitSourceFires, IdleTimerFires, LinkCloses, handleLinkClosed
  <1>7. CASE ChildHandles \/ ChildDies \/ ChildReapable
    BY <1>1, <1>7 DEF ChildHandles, ChildDies, ChildReapable
  <1>8. CASE Respawn \/ RespawnFails \/ \E p \in PeerIds, n \in OutputSizes : ChildWritesOutput(p, n)
    <2>1. spawns' \in {spawns, spawns + 1} /\ spawnFailures' \in {spawnFailures, spawnFailures + 1}
          /\ output' \in {output, output + 1}
      BY <1>8 DEF Respawn, RespawnFails, ChildWritesOutput
    <2> QED BY <2>1 DEF IInv, BoundInv
  <1>9. CASE UNCHANGED vars
    <2>1. boundVars' = boundVars
      BY <1>9 DEF vars
    <2> QED BY <1>1, <2>1
  <1> QED BY <1>3, <1>4, <1>5, <1>6, <1>7, <1>8, <1>9 DEF Next

(* A proxy that has just started its child satisfies every part.           *)
LEMMA InitKeeps == Init => IInv
  <1> SUFFICES ASSUME Init PROVE IInv
    OBVIOUS
  <1>1. WireInv
    BY Numbers DEF Init, WireInv
  <1>2. PauseInv
    BY DEF Init, PauseInv, SuspendedTogether
  <1>3. ReplyInv
    BY DEF Init, ReplyInv, Filed
  <1>4. LinkInv
    BY DEF Init, LinkInv, DeadLinkIsReplaced, ArrivalTakesExitBack, None
  <1>5. FlowInv
    <2>1. NoTimer \in 0..NoTimer /\ 0 \in 0..Grace
      BY Numbers DEF NoTimer
    <2>2. /\ totalInFlight = 0 /\ isReadSuspended = FALSE
          /\ \A p \in PeerIds : inFlight[p] = 0 /\ congestionTimers[p] = NoTimer
      BY DEF Init
    <2>3. inFlight \in [PeerIds -> Nat] /\ congestionTimers \in [PeerIds -> 0..NoTimer]
          /\ stuck \in [PeerIds -> 0..Grace] /\ barriers \in [PeerIds -> Seq(OutputSizes)]
      BY <2>1 DEF Init
    <2>4. FlowTyped
      <3>1. totalInFlight \in Int
        BY <2>2
      <3>2. isReadSuspended \in BOOLEAN
        BY <2>2, Zenon
      <3> QED BY <2>3, <3>1, <3>2, Zenon DEF FlowTyped
    <2>5. ClockRuns /\ GonePeersHoldNothing /\ DeadLinkHoldsNothing
      BY <2>2, Zenon DEF ClockRuns, GonePeersHoldNothing, DeadLinkHoldsNothing
    <2>6. ReadingIsBelow /\ OutputBounded
      BY <2>2, Numbers DEF ReadingIsBelow, OutputBounded
    <2> QED BY <2>4, <2>5, <2>6 DEF FlowInv
  <1>6. BoundInv
    BY DEF Init, BoundInv
  <1> QED BY <1>1, <1>2, <1>3, <1>4, <1>5, <1>6 DEF IInv

(* The proxy keeps its frames, pauses, requests, link and budget of output *)
(* consistent in every step (IOSupervisor, PeerRelay, DaemonServer).       *)
THEOREM SupervisorInvariant == Spec => []IInv
  <1>1. IInv /\ [Next]_vars => IInv'
    BY WireKept, PauseKept, ReplyKept, LinkKept, FlowKept, BoundKept DEF IInv
  <1> QED BY <1>1, InitKeeps, PTL DEF Spec

(* The state keeps its types: what is on the wire are requests and frames, *)
(* the polls for the exit status end, the clocks stay within the grace.    *)
THEOREM TypeCorrect == Spec => []TypeOK
  <1>1. IInv => TypeOK
    <2> SUFFICES ASSUME IInv PROVE TypeOK
      OBVIOUS
    <2>1. peers \subseteq PeerIds /\ accepted \subseteq PeerIds /\ suspended \subseteq PeerIds
      BY DEF IInv, PauseInv, SuspendedTogether
    <2>2. leaving \subseteq PeerIds /\ answers \in [1..MaxTags -> Nat]
      BY DEF IInv, ReplyInv
    <2> QED BY <2>1, <2>2 DEF TypeOK, IInv, WireInv, PauseInv, LinkInv, FlowInv, FlowTyped, BoundInv
  <1> QED BY <1>1, SupervisorInvariant, PTL

(* setPeersSuspended, register and peerGone agree: every connection is     *)
(* suspended during a pause of the input, none outside one.                *)
THEOREM PeersSuspendedTogether == Spec => []SuspendedTogether
  <1>1. IInv => SuspendedTogether
    BY DEF IInv, PauseInv
  <1> QED BY <1>1, SupervisorInvariant, PTL

(* No completion of `pending` is called twice, by a reply, by the end of   *)
(* the link or by both, and none waits for a peer that is gone.            *)
THEOREM RequestsAnsweredOnce == Spec => []AnsweredOnce
  <1>1. IInv => AnsweredOnce
    BY DEF IInv, ReplyInv, Filed, AnsweredOnce
  <1> QED BY <1>1, SupervisorInvariant, PTL

(* After handleLinkClosed either the exit status is polled for or spawn is *)
(* queued, never both: one child is replaced by one child.                 *)
THEOREM DeadLinkReplaced == Spec => []DeadLinkIsReplaced
  <1>1. IInv => DeadLinkIsReplaced
    BY DEF IInv, LinkInv
  <1> QED BY <1>1, SupervisorInvariant, PTL

(* exit(0) is never called over a peer that registered after the shutdown  *)
(* was asked for.                                                          *)
THEOREM ArrivalTakesTheExitBack == Spec => []ArrivalTakesExitBack
  <1>1. IInv => ArrivalTakesExitBack
    BY DEF IInv, LinkInv
  <1> QED BY <1>1, SupervisorInvariant, PTL

(* willSend and didSend keep what is in flight within one event of the     *)
(* mark at which reading pauses, for any number of peers.                  *)
THEOREM OutputStaysBounded == Spec => []OutputBounded
  <1>1. IInv => OutputBounded
    BY DEF IInv, FlowInv
  <1> QED BY <1>1, SupervisorInvariant, PTL

(* The congestion timer only ever cuts a peer that took nothing for the    *)
(* whole grace.                                                            *)
THEOREM OnlyTheStuckAreCut == Spec => OnlyStuckPeersAreCut
  <1>1. ASSUME IInv, NEW p \in PeerIds, CongestionTimerFires(p) PROVE stuck[p] = Grace
    <2>1. congestionTimers[p] = 0 /\ NoTimer # 0
      BY <1>1, Numbers DEF CongestionTimerFires, NoTimer
    <2>2. congestionTimers[p] + stuck[p] >= Grace
      BY <1>1, <2>1 DEF IInv, FlowInv, ClockRuns
    <2>3. stuck[p] \in 0..Grace
      BY <1>1 DEF IInv, FlowInv, FlowTyped
    <2> QED BY <2>1, <2>2, <2>3, Numbers
  <1>2. IInv => [\A p \in PeerIds : CongestionTimerFires(p) => stuck[p] = Grace]_vars
    BY <1>1
  <1> QED BY <1>2, SupervisorInvariant, PTL DEF OnlyStuckPeersAreCut

(* A peer that is gone, or whose link closed, holds nothing of the budget  *)
(* and no clock runs for it, whatever barriers of its connection are late. *)
THEOREM TheGoneHoldNothing == Spec => [](GonePeersHoldNothing /\ DeadLinkHoldsNothing)
  <1>1. IInv => GonePeersHoldNothing /\ DeadLinkHoldsNothing
    BY DEF IInv, FlowInv
  <1> QED BY <1>1, SupervisorInvariant, PTL

-----------------------------------------------------------------------------
(* Sums over finite sets. *)

(* The element the fold takes out of a set first.                          *)
pick(s) == CHOOSE x \in s : TRUE

(* g is the sum of f over each subset of T, by the equation of the fold.   *)
IsSum(g, f, T) ==
    g = [s \in SUBSET T |-> IF s = {} THEN 0 ELSE f[pick(s)] + g[s \ {pick(s)}]]

(* What BudgetAddsUp adds up.                                              *)
sumOf(f) == FoldFunction(+, 0, f)

(* The fold of Functions is the function that satisfies its equation.      *)
LEMMA SumIsRecursive ==
  ASSUME NEW f
  PROVE  sumOf(f) = (CHOOSE g : IsSum(g, f, DOMAIN f))[DOMAIN f]
  BY DEF sumOf, FoldFunction, FoldFunctionOnSet, MapThenFoldSet, IsSum, pick

(* What is taken out of a set is in it.                                    *)
LEMMA Picked == ASSUME NEW s, s # {} PROVE pick(s) \in s
  BY DEF pick

(* Induction over the subsets of a finite set: of those that fail, one has *)
(* no smaller one that fails.  The order on finite subsets is well founded. *)
LEMMA Smallest ==
  ASSUME NEW T, IsFiniteSet(T), NEW Bad, Bad \subseteq SUBSET T, Bad # {}
  PROVE  \E s \in Bad : IsFiniteSet(s) /\ \A r \in Bad : r \subseteq s => r = s
  <1>1. \A s \in SUBSET T : IsFiniteSet(s)
    BY FS_Subset
  <1>2. Bad \subseteq FiniteSubsetsOf(T)
    BY <1>1 DEF FiniteSubsetsOf
  <1>3. PICK s \in Bad : \A r \in Bad : ~ (<<r, s>> \in StrictSubsetOrdering(T))
    BY <1>2, FS_StrictSubsetOrderingWellFounded, WFMin
  <1>4. ASSUME NEW r \in Bad, r \subseteq s, r # s PROVE FALSE
    <2>1. <<r, s>> \in (SUBSET T) \X (SUBSET T) /\ <<r, s>>[1] = r /\ <<r, s>>[2] = s
      OBVIOUS
    <2>2. <<r, s>> \in StrictSubsetOrdering(T)
      BY <1>4, <2>1 DEF StrictSubsetOrdering
    <2> QED BY <1>3, <2>2
  <1> QED BY <1>1, <1>4

(* The equation at one subset.                                             *)
LEMMA SumAt ==
  ASSUME NEW g, NEW f, NEW T, IsSum(g, f, T), NEW s \in SUBSET T
  PROVE  /\ s = {} => g[s] = 0
         /\ s # {} => g[s] = f[pick(s)] + g[s \ {pick(s)}] /\ pick(s) \in s /\ pick(s) \in T
  BY Picked DEF IsSum

(* Two sums of one function agree on the subsets they share.               *)
LEMMA SumUnique ==
  ASSUME NEW f, NEW T, NEW U, IsFiniteSet(U), T \subseteq U,
         NEW g, IsSum(g, f, T), NEW h, IsSum(h, f, U)
  PROVE  \A s \in SUBSET T : g[s] = h[s]
  <1> SUFFICES ASSUME \E s \in SUBSET T : g[s] # h[s] PROVE FALSE
    OBVIOUS
  <1> DEFINE Bad == {s \in SUBSET T : g[s] # h[s]}
  <1>1. PICK s \in Bad : \A r \in Bad : r \subseteq s => r = s
    <2>1. Bad # {} /\ Bad \subseteq SUBSET U
      OBVIOUS
    <2> HIDE DEF Bad
    <2> QED BY <2>1, Smallest
  <1>2. s \in SUBSET T /\ s \in SUBSET U /\ g[s] # h[s]
    OBVIOUS
  <1>3. s # {} /\ g[s] = f[pick(s)] + g[s \ {pick(s)}] /\ h[s] = f[pick(s)] + h[s \ {pick(s)}] /\ pick(s) \in s
    BY <1>2, SumAt
  <1>4. s \ {pick(s)} \notin Bad
    BY <1>1, <1>3
  <1> QED BY <1>2, <1>3, <1>4

(* There is such a sum: a smallest set without one could be given the one  *)
(* its smaller subsets have.                                               *)
LEMMA SumExists ==
  ASSUME NEW f, NEW S, IsFiniteSet(S)
  PROVE  \E g : IsSum(g, f, S)
  <1> DEFINE Bad == {T \in SUBSET S : ~ \E g : IsSum(g, f, T)}
             sum(T) == CHOOSE g : IsSum(g, f, T)
  <1> SUFFICES ASSUME Bad # {} PROVE FALSE
    OBVIOUS
  <1>1. PICK T \in Bad : IsFiniteSet(T) /\ \A r \in Bad : r \subseteq T => r = T
    <2>1. Bad \subseteq SUBSET S
      OBVIOUS
    <2> HIDE DEF Bad
    <2> QED BY <2>1, Smallest
  <1>2. \A r \in SUBSET T : r # T => IsSum(sum(r), f, r)
    BY <1>1
  <1> DEFINE h == [s \in SUBSET T |->
                     IF s = {} THEN 0 ELSE f[pick(s)] + sum(s \ {pick(s)})[s \ {pick(s)}]]
  <1>3. ASSUME NEW s \in SUBSET T, s # T PROVE sum(s)[s] = h[s]
    <2>1. IsSum(sum(s), f, s)
      BY <1>2, <1>3
    <2>2. CASE s = {}
      BY <2>1, <2>2, SumAt
    <2>3. CASE s # {}
      <3> DEFINE r == s \ {pick(s)}
      <3>1. sum(s)[s] = f[pick(s)] + sum(s)[r] /\ pick(s) \in s
        BY <2>1, <2>3, SumAt
      <3>2. IsSum(sum(r), f, r) /\ r \subseteq s /\ r \in SUBSET r
        BY <1>2, <3>1
      <3>3. IsFiniteSet(s)
        BY <1>1, FS_Subset
      <3>4. sum(r)[r] = sum(s)[r]
        <4> HIDE DEF sum, r
        <4> QED BY <2>1, <3>2, <3>3, SumUnique
      <3> QED BY <2>3, <3>1, <3>4
    <2> QED BY <2>2, <2>3
  <1>4. ASSUME NEW s \in SUBSET T, s # {} PROVE h[s] = f[pick(s)] + h[s \ {pick(s)}]
    <2>1. pick(s) \in s /\ s \ {pick(s)} \in SUBSET T /\ s \ {pick(s)} # T
      BY <1>4, Picked
    <2>2. sum(s \ {pick(s)})[s \ {pick(s)}] = h[s \ {pick(s)}]
      BY <1>3, <2>1
    <2> QED BY <1>4, <2>2
  <1>5. IsSum(h, f, T)
    <2>1. ASSUME NEW s \in SUBSET T
          PROVE  h[s] = IF s = {} THEN 0 ELSE f[pick(s)] + h[s \ {pick(s)}]
      <3>1. {} \in SUBSET T /\ h[{}] = 0
        OBVIOUS
      <3> HIDE DEF h
      <3> QED BY <1>4, <3>1
    <2>2. h = [s \in SUBSET T |-> h[s]]
      OBVIOUS
    <2> HIDE DEF h
    <2> QED BY <2>1, <2>2 DEF IsSum
  <1> QED BY <1>1, <1>5

(* Another value at p changes the sum over the sets with p by as much.     *)
LEMMA SumChanges ==
  ASSUME NEW D, IsFiniteSet(D), NEW f \in [D -> Nat], NEW p \in D, NEW v \in Nat,
         NEW e, \A q \in D : e[q] = IF q = p THEN v ELSE f[q],
         NEW g, IsSum(g, f, D), NEW h, IsSum(h, e, D)
  PROVE  \A s \in SUBSET D : /\ g[s] \in Nat /\ h[s] \in Nat
                             /\ h[s] = IF p \in s THEN g[s] - f[p] + v ELSE g[s]
  <1> DEFINE Good(s) == /\ g[s] \in Nat /\ h[s] \in Nat
                        /\ h[s] = IF p \in s THEN g[s] - f[p] + v ELSE g[s]
             Bad == {s \in SUBSET D : ~Good(s)}
  <1> SUFFICES ASSUME Bad # {} PROVE FALSE
    OBVIOUS
  <1>1. PICK s \in Bad : \A r \in Bad : r \subseteq s => r = s
    <2>1. Bad \subseteq SUBSET D
      OBVIOUS
    <2> HIDE DEF Bad
    <2> QED BY <2>1, Smallest
  <1>2. s \in SUBSET D /\ ~Good(s)
    OBVIOUS
  <1>3. s # {}
    <2> SUFFICES ASSUME s = {} PROVE FALSE
      OBVIOUS
    <2>1. g[s] = 0 /\ h[s] = 0
      BY <1>2, SumAt
    <2> QED BY <1>2, <2>1
  <1> DEFINE x == pick(s)
             r == s \ {x}
  <1>4. /\ g[s] = f[x] + g[r] /\ x \in s /\ x \in D
        /\ h[s] = e[x] + h[r]
    <2> HIDE DEF Good, Bad
    <2>1. g[s] = f[x] + g[r] /\ x \in s /\ x \in D
      BY <1>2, <1>3, SumAt
    <2>2. h[s] = e[x] + h[r]
      <3>1. \A d \in SUBSET D : d # {} => h[d] = e[pick(d)] + h[d \ {pick(d)}]
        BY DEF IsSum
      <3> QED BY <1>2, <1>3, <3>1, Zenon
    <2> QED BY <2>1, <2>2
  <1> HIDE DEF x
  <1>5. Good(r)
    BY <1>1, <1>2, <1>4
  <1>6. f[x] \in Nat /\ e[x] = (IF x = p THEN v ELSE f[x]) /\ f[p] \in Nat
    BY <1>4
  <1>7. (p \in s <=> p = x \/ p \in r) /\ x \notin r
    BY <1>4
  <1> HIDE DEF r
  <1> QED BY <1>2, <1>4, <1>5, <1>6, <1>7

(* ... and so the whole.                                                   *)
LEMMA SumOfChanged ==
  ASSUME NEW D, IsFiniteSet(D), NEW f \in [D -> Nat], NEW p \in D, NEW v \in Nat
  PROVE  /\ sumOf(f) \in Nat
         /\ sumOf([f EXCEPT ![p] = v]) = sumOf(f) - f[p] + v
  <1> DEFINE e == [f EXCEPT ![p] = v]
             g == CHOOSE k : IsSum(k, f, D)
             h == CHOOSE k : IsSum(k, e, D)
  <1>1. IsSum(g, f, D) /\ IsSum(h, e, D)
    BY SumExists
  <1>2. DOMAIN f = D /\ DOMAIN e = D
    OBVIOUS
  <1>3. sumOf(f) = g[D] /\ sumOf(e) = h[D]
    BY <1>2, SumIsRecursive
  <1>4. D \in SUBSET D
    OBVIOUS
  <1>6. \A q \in D : e[q] = IF q = p THEN v ELSE f[q]
    OBVIOUS
  <1> HIDE DEF g, h
  <1>5. g[D] \in Nat /\ h[D] = g[D] - f[p] + v
    <2>1. \A s \in SUBSET D : /\ g[s] \in Nat /\ h[s] \in Nat
                              /\ h[s] = IF p \in s THEN g[s] - f[p] + v ELSE g[s]
      <3> HIDE DEF e
      <3> QED BY <1>1, <1>6, SumChanges
    <2> QED BY <1>4, <2>1
  <1> QED BY <1>3, <1>5

(* Nothing adds up to nothing.                                             *)
LEMMA SumOfNothing ==
  ASSUME NEW D, IsFiniteSet(D)
  PROVE  sumOf([p \in D |-> 0]) = 0
  <1> DEFINE f == [p \in D |-> 0]
             g == CHOOSE k : IsSum(k, f, D)
             Bad == {s \in SUBSET D : g[s] # 0}
  <1>1. IsSum(g, f, D)
    BY SumExists
  <1>2. DOMAIN f = D /\ \A p \in D : f[p] = 0
    OBVIOUS
  <1>3. sumOf(f) = g[D]
    BY <1>2, SumIsRecursive
  <1> HIDE DEF g, f
  <1>4. ASSUME Bad # {} PROVE FALSE
    <2>1. PICK s \in Bad : \A r \in Bad : r \subseteq s => r = s
      <3>1. Bad \subseteq SUBSET D
        OBVIOUS
      <3> HIDE DEF Bad
      <3> QED BY <3>1, <1>4, Smallest
    <2>2. s \in SUBSET D /\ g[s] # 0
      OBVIOUS
    <2>3. s # {} /\ g[s] = f[pick(s)] + g[s \ {pick(s)}] /\ pick(s) \in s /\ pick(s) \in D
      BY <1>1, <2>2, SumAt
    <2>4. g[s \ {pick(s)}] = 0
      BY <2>1, <2>3
    <2> QED BY <1>2, <2>2, <2>3, <2>4
  <1> QED BY <1>3, <1>4 DEF f

-----------------------------------------------------------------------------
(* The budget. *)

(* n is what the events of barriers b, not run yet, come to: taken away    *)
(* one by one they leave 0.                                                *)
Outstanding(b, n) ==
    \E left \in [1..(Len(b) + 1) -> Nat] :
        /\ left[1] = n /\ left[Len(b) + 1] = 0
        /\ \A i \in 1..Len(b) : left[i] = b[i] + left[i + 1]

(* The total is the sum over the peers, and a peer that is registered is   *)
(* charged what its barriers come to: no barrier takes more than there is. *)
BudgetInv ==
    /\ totalInFlight = sumOf(inFlight)
    /\ \A p \in peers : Outstanding(barriers[p], inFlight[p])
    /\ \A p \in PeerIds \ accepted : barriers[p] = <<>>

(* A connection that was sent nothing owes nothing.                        *)
LEMMA OutstandingNone == Outstanding(<<>>, 0)
  <1> DEFINE left == [i \in 1..1 |-> 0]
  <1>1. left \in [1..(Len(<<>>) + 1) -> Nat] /\ left[1] = 0 /\ left[Len(<<>>) + 1] = 0
    OBVIOUS
  <1>2. \A i \in 1..Len(<<>>) : left[i] = <<>>[i] + left[i + 1]
    OBVIOUS
  <1> HIDE DEF left
  <1> QED BY <1>1, <1>2 DEF Outstanding

(* One event more.                                                         *)
LEMMA OutstandingMore ==
  ASSUME NEW b \in Seq(OutputSizes), NEW n \in Nat, NEW m \in OutputSizes, Outstanding(b, n)
  PROVE  Outstanding(Append(b, m), n + m)
  <1>1. PICK left \in [1..(Len(b) + 1) -> Nat] :
          /\ left[1] = n /\ left[Len(b) + 1] = 0
          /\ \A i \in 1..Len(b) : left[i] = b[i] + left[i + 1]
    BY DEF Outstanding
  <1> DEFINE c == Append(b, m)
             more == [i \in 1..(Len(b) + 2) |-> IF i = Len(b) + 2 THEN 0 ELSE left[i] + m]
  <1>2. /\ Len(b) \in Nat /\ Len(c) = Len(b) + 1 /\ c[Len(b) + 1] = m
        /\ \A i \in 1..Len(b) : c[i] = b[i] /\ b[i] \in Nat
    <2>1. Len(b) \in Nat /\ \A i \in 1..Len(b) : b[i] \in OutputSizes
      BY ElementOfSeq, LenProperties
    <2>2. Len(c) = Len(b) + 1 /\ c[Len(b) + 1] = m /\ \A i \in 1..Len(b) : c[i] = b[i]
      BY AppendProperties
    <2> QED BY <2>1, <2>2, Numbers
  <1>3. m \in Nat
    BY Numbers
  <1> HIDE DEF c
  <1>4. \A i \in 1..(Len(b) + 1) : left[i] \in Nat
    OBVIOUS
  <1>5. more \in [1..(Len(c) + 1) -> Nat] /\ more[1] = n + m /\ more[Len(c) + 1] = 0
    BY <1>1, <1>2, <1>3, <1>4
  <1>6. ASSUME NEW i \in 1..Len(c) PROVE more[i] = c[i] + more[i + 1]
    <2>1. CASE i = Len(b) + 1
      <3>1. more[i] = m /\ more[i + 1] = 0 /\ c[i] = m
        <4>1. i \in 1..(Len(b) + 2) /\ i + 1 = Len(b) + 2 /\ i # Len(b) + 2
          BY <1>2, <2>1
        <4>2. more[i] = left[i] + m /\ more[i + 1] = 0
          BY <1>2, <4>1
        <4> QED BY <1>1, <1>2, <1>3, <2>1, <4>2
      <3> QED BY <1>3, <3>1
    <2>2. CASE i # Len(b) + 1
      <3>1. i \in 1..Len(b) /\ i + 1 \in 1..(Len(b) + 1)
        BY <1>2, <2>2
      <3>2. more[i] = left[i] + m /\ more[i + 1] = left[i + 1] + m
        BY <1>2, <3>1
      <3>3. left[i] = b[i] + left[i + 1] /\ c[i] = b[i] /\ b[i] \in Nat /\ left[i + 1] \in Nat
        BY <1>1, <1>2, <1>4, <3>1
      <3> QED BY <1>3, <3>2, <3>3
    <2> QED BY <2>1, <2>2
  <1> HIDE DEF more
  <1>7. Outstanding(c, n + m)
    BY <1>5, <1>6 DEF Outstanding
  <1> QED BY <1>7 DEF c

(* The first barrier takes no more than there is.                          *)
LEMMA OutstandingLess ==
  ASSUME NEW b \in Seq(OutputSizes), b # <<>>, NEW n \in Nat, Outstanding(b, n)
  PROVE  Head(b) \in Nat /\ Head(b) <= n /\ Outstanding(Tail(b), n - Head(b))
  <1>1. PICK left \in [1..(Len(b) + 1) -> Nat] :
          /\ left[1] = n /\ left[Len(b) + 1] = 0
          /\ \A i \in 1..Len(b) : left[i] = b[i] + left[i + 1]
    BY DEF Outstanding
  <1> DEFINE c == Tail(b)
             less == [i \in 1..Len(b) |-> left[i + 1]]
  <1>2. /\ Len(b) \in Nat \ {0} /\ Len(c) = Len(b) - 1 /\ Head(b) = b[1]
        /\ \A i \in 1..Len(b) : b[i] \in Nat
        /\ \A i \in 1..(Len(b) - 1) : c[i] = b[i + 1]
    <2>1. Len(b) \in Nat \ {0} /\ \A i \in 1..Len(b) : b[i] \in OutputSizes
      BY ElementOfSeq, LenProperties, EmptySeq
    <2>2. /\ Len(c) = Len(b) - 1 /\ Head(b) = b[1]
          /\ \A i \in 1..(Len(b) - 1) : c[i] = b[i + 1]
      BY <2>1
    <2> QED BY <2>1, <2>2, Numbers
  <1> HIDE DEF c
  <1>3. \A i \in 1..(Len(b) + 1) : left[i] \in Nat
    OBVIOUS
  <1>4. n = Head(b) + left[2] /\ left[2] \in Nat /\ Head(b) \in Nat
    BY <1>1, <1>2, <1>3
  <1>5. less \in [1..(Len(c) + 1) -> Nat] /\ less[1] = n - Head(b) /\ less[Len(c) + 1] = 0
    BY <1>1, <1>2, <1>3, <1>4
  <1>6. ASSUME NEW i \in 1..Len(c) PROVE less[i] = c[i] + less[i + 1]
    <2>1. i \in 1..(Len(b) - 1) /\ i \in 1..Len(b) /\ i + 1 \in 1..Len(b)
      BY <1>2
    <2>2. less[i] = left[i + 1] /\ less[i + 1] = left[i + 1 + 1] /\ c[i] = b[i + 1]
      BY <1>2, <2>1
    <2>3. left[i + 1] = b[i + 1] + left[i + 1 + 1]
      BY <1>1, <2>1
    <2> QED BY <2>2, <2>3
  <1> HIDE DEF less
  <1>7. Outstanding(c, n - Head(b))
    BY <1>5, <1>6 DEF Outstanding
  <1> QED BY <1>4, <1>7 DEF c

(* A step that leaves the output alone, with no peer added.                *)
LEMMA BudgetUntouched ==
  ASSUME BudgetInv, UNCHANGED <<inFlight, totalInFlight, barriers, accepted>>, peers' \subseteq peers
  PROVE  BudgetInv'
  BY DEF BudgetInv

(* A link that closes leaves nothing to add up and nobody to add it up for. *)
LEMMA LinkClosedBudget ==
  ASSUME BudgetInv, NEW entries, NEW requested, handleLinkClosed(entries, requested)
  PROVE  BudgetInv'
  <1>1. /\ inFlight' = [p \in PeerIds |-> 0] /\ totalInFlight' = 0 /\ peers' = {}
        /\ UNCHANGED <<accepted, barriers>>
    BY DEF handleLinkClosed
  <1>2. sumOf([p \in PeerIds |-> 0]) = 0
    BY PeersAssumption, SumOfNothing
  <1>3. sumOf(inFlight)' = 0
    BY <1>1, <1>2
  <1> QED BY <1>1, <1>3 DEF BudgetInv

(* Another amount for one peer: the total has to follow it.                *)
LEMMA BudgetFollows ==
  ASSUME IInv, BudgetInv, NEW p \in PeerIds, NEW v \in Nat, inFlight' = [inFlight EXCEPT ![p] = v],
         totalInFlight' = totalInFlight - inFlight[p] + v
  PROVE  totalInFlight' = sumOf(inFlight)'
  <1>1. inFlight \in [PeerIds -> Nat]
    BY DEF IInv, FlowInv, FlowTyped
  <1>2. sumOf([inFlight EXCEPT ![p] = v]) = sumOf(inFlight) - inFlight[p] + v
    <2>1. IsFiniteSet(PeerIds)
      BY PeersAssumption
    <2> QED BY ONLY <1>1, <2>1, SumOfChanged, p \in PeerIds, v \in Nat
  <1>3. sumOf(inFlight)' = sumOf([inFlight EXCEPT ![p] = v])
    OBVIOUS
  <1> QED BY <1>2, <1>3 DEF BudgetInv

(* No peer holds more than the total.                                      *)
LEMMA PartOfBudget ==
  ASSUME IInv, BudgetInv, NEW p \in PeerIds
  PROVE  inFlight[p] \in Nat /\ totalInFlight \in Nat /\ inFlight[p] <= totalInFlight
  <1>1. inFlight \in [PeerIds -> Nat]
    BY DEF IInv, FlowInv, FlowTyped
  <1> DEFINE others == [inFlight EXCEPT ![p] = 0]
  <1>2. sumOf(inFlight) \in Nat /\ sumOf(others) = sumOf(inFlight) - inFlight[p] + 0
    <2>1. IsFiniteSet(PeerIds)
      BY PeersAssumption
    <2> QED BY ONLY <1>1, <2>1, SumOfChanged, p \in PeerIds, 0 \in Nat
  <1>3. others \in [PeerIds -> Nat]
    BY <1>1
  <1>4. sumOf(others) \in Nat
    <2> HIDE DEF others
    <2> QED BY <1>3, PeersAssumption, SumOfChanged
  <1> HIDE DEF others
  <1> QED BY <1>1, <1>2, <1>4 DEF BudgetInv

(* A peer that goes gives back exactly what it was charged.                *)
LEMMA PeerGoneBudget ==
  ASSUME IInv, BudgetInv, NEW p \in PeerIds, peerGone(p)
  PROVE  BudgetInv'
  <1>1. CASE linkUp /\ child = "running"
    <2>1. /\ peers' = peers \ {p} /\ UNCHANGED <<accepted, barriers>>
          /\ inFlight' = [inFlight EXCEPT ![p] = 0] /\ totalInFlight' = totalInFlight - inFlight[p]
      BY <1>1 DEF peerGone, budgetWithout
    <2>2. totalInFlight - inFlight[p] = totalInFlight - inFlight[p] + 0
      BY PartOfBudget
    <2>3. totalInFlight' = sumOf(inFlight)'
      BY <2>1, <2>2, BudgetFollows
    <2>4. ASSUME NEW q \in peers' PROVE Outstanding(barriers'[q], inFlight'[q])
      <3>1. q \in peers /\ inFlight'[q] = inFlight[q] /\ q \in PeerIds
        BY <2>1, <2>4 DEF IInv, PauseInv, FlowInv, FlowTyped
      <3> QED BY <2>1, <3>1 DEF BudgetInv
    <2> QED BY <2>1, <2>3, <2>4 DEF BudgetInv
  <1>2. CASE linkUp /\ child # "running"
    BY <1>2, LinkClosedBudget DEF peerGone
  <1>3. CASE ~linkUp
    BY <1>3, BudgetUntouched DEF peerGone, flowVars
  <1> QED BY <1>1, <1>2, <1>3

(* An event is charged where its barrier is filed.                         *)
LEMMA WillSendBudget ==
  ASSUME IInv, BudgetInv, NEW p \in peers, NEW n \in OutputSizes, willSend(p, n),
         UNCHANGED <<peers, accepted>>
  PROVE  BudgetInv'
  <1>1. /\ inFlight' = [inFlight EXCEPT ![p] = @ + n] /\ totalInFlight' = totalInFlight + n
        /\ barriers' = [barriers EXCEPT ![p] = Append(@, n)]
    BY DEF willSend
  <1>2. p \in PeerIds /\ peers \subseteq accepted /\ accepted \subseteq PeerIds /\ n \in Nat
    BY Numbers DEF IInv, PauseInv
  <1>3. inFlight \in [PeerIds -> Nat] /\ barriers \in [PeerIds -> Seq(OutputSizes)] /\ totalInFlight \in Int
    BY DEF IInv, FlowInv, FlowTyped
  <1>4. inFlight[p] + n \in Nat /\ totalInFlight + n = totalInFlight - inFlight[p] + (inFlight[p] + n)
    BY <1>2, <1>3
  <1>5. totalInFlight' = sumOf(inFlight)'
    BY <1>1, <1>2, <1>4, BudgetFollows
  <1>6. ASSUME NEW q \in peers PROVE Outstanding(barriers'[q], inFlight'[q])
    <2>1. Outstanding(barriers[q], inFlight[q]) /\ q \in PeerIds
      BY <1>2 DEF BudgetInv
    <2>2. CASE q = p
      <3>1. barriers'[q] = Append(barriers[q], n) /\ inFlight'[q] = inFlight[q] + n
        BY <1>1, <1>2, <1>3, <2>2
      <3>2. barriers[q] \in Seq(OutputSizes) /\ inFlight[q] \in Nat
        BY <1>3, <2>1
      <3> QED BY <2>1, <3>1, <3>2, OutstandingMore
    <2>3. CASE q # p
      <3>1. barriers'[q] = barriers[q] /\ inFlight'[q] = inFlight[q]
        BY <1>1, <1>3, <2>1, <2>3
      <3> QED BY <2>1, <3>1
    <2> QED BY <2>2, <2>3
  <1>7. ASSUME NEW q \in PeerIds \ accepted PROVE barriers'[q] = <<>>
    BY <1>1, <1>2, <1>3 DEF BudgetInv
  <1> QED BY <1>5, <1>6, <1>7 DEF BudgetInv

(* A barrier gives back what its event was charged, so that neither bound  *)
(* of didSend at 0 is ever needed; one of a gone peer gives nothing back.  *)
LEMMA DidSendBudget ==
  ASSUME IInv, BudgetInv, NEW p \in PeerIds, DidSend(p)
  PROVE  BudgetInv'
  <1> DEFINE n == Head(barriers[p])
  <1>1. /\ barriers[p] # <<>> /\ barriers' = [barriers EXCEPT ![p] = Tail(@)]
        /\ UNCHANGED <<peers, accepted>>
    BY DEF DidSend, peerVars
  <1>2. /\ inFlight \in [PeerIds -> Nat] /\ barriers \in [PeerIds -> Seq(OutputSizes)]
        /\ peers \subseteq accepted /\ accepted \subseteq PeerIds
    BY DEF IInv, FlowInv, FlowTyped, PauseInv
  <1>3. p \in accepted
    BY <1>1 DEF BudgetInv
  <1>4. ASSUME NEW q \in PeerIds \ accepted PROVE barriers'[q] = <<>>
    BY <1>1, <1>2, <1>3 DEF BudgetInv
  <1>5. \A q \in PeerIds : q # p => barriers'[q] = barriers[q]
    BY <1>1, <1>2
  <1>6. CASE p \in peers
    <2>1. /\ inFlight' = [inFlight EXCEPT ![p] = IF inFlight[p] < n THEN 0 ELSE inFlight[p] - n]
          /\ totalInFlight' = IF totalInFlight < n THEN 0 ELSE totalInFlight - n
      BY <1>6 DEF DidSend, counts
    <2>2. Outstanding(barriers[p], inFlight[p]) /\ barriers[p] \in Seq(OutputSizes) /\ inFlight[p] \in Nat
      BY <1>2, <1>6 DEF BudgetInv
    <2>3. n \in Nat /\ n <= inFlight[p] /\ Outstanding(Tail(barriers[p]), inFlight[p] - n)
      BY <1>1, <2>2, OutstandingLess
    <2>4. totalInFlight \in Nat /\ inFlight[p] <= totalInFlight
      BY PartOfBudget
    <2> HIDE DEF n
    <2>5. /\ inFlight[p] - n \in Nat
          /\ (IF inFlight[p] < n THEN 0 ELSE inFlight[p] - n) = inFlight[p] - n
          /\ (IF totalInFlight < n THEN 0 ELSE totalInFlight - n)
                = totalInFlight - inFlight[p] + (inFlight[p] - n)
      BY <2>2, <2>3, <2>4
    <2>6. inFlight' = [inFlight EXCEPT ![p] = inFlight[p] - n]
      BY <2>1, <2>5
    <2>7. totalInFlight' = sumOf(inFlight)'
      BY <2>1, <2>5, <2>6, BudgetFollows
    <2>8. ASSUME NEW q \in peers PROVE Outstanding(barriers'[q], inFlight'[q])
      <3>1. CASE q = p
        <4>1. barriers'[q] = Tail(barriers[p]) /\ inFlight'[q] = inFlight[p] - n
          BY <1>1, <1>2, <2>6, <3>1
        <4> QED BY <2>3, <4>1
      <3>2. CASE q # p
        <4>1. inFlight'[q] = inFlight[q] /\ q \in PeerIds
          BY <1>2, <2>6, <3>2
        <4> QED BY <1>5, <3>2, <4>1 DEF BudgetInv
      <3> QED BY <3>1, <3>2
    <2> QED BY <1>1, <1>4, <2>7, <2>8 DEF BudgetInv
  <1>7. CASE p \notin peers
    <2>1. UNCHANGED <<inFlight, totalInFlight>>
      BY <1>7 DEF DidSend, counts
    <2>2. totalInFlight' = sumOf(inFlight)'
      BY <2>1 DEF BudgetInv
    <2>3. ASSUME NEW q \in peers PROVE Outstanding(barriers'[q], inFlight'[q])
      BY <1>2, <1>5, <1>7, <2>1 DEF BudgetInv
    <2> QED BY <1>1, <1>4, <2>2, <2>3 DEF BudgetInv
  <1> QED BY <1>6, <1>7

(* A peer that arrives was never sent anything.                            *)
LEMMA AcceptBudget ==
  ASSUME IInv, BudgetInv, NEW p \in PeerIds, Accept(p)
  PROVE  BudgetInv'
  <1>1. /\ p \notin accepted /\ accepted' = accepted \cup {p} /\ peers' = peers \cup {p}
        /\ UNCHANGED <<inFlight, totalInFlight, barriers>>
    BY DEF Accept, flowVars
  <1>2. barriers[p] = <<>> /\ inFlight[p] = 0
    BY <1>1 DEF IInv, PauseInv, FlowInv, GonePeersHoldNothing, BudgetInv
  <1>3. ASSUME NEW q \in peers' PROVE Outstanding(barriers'[q], inFlight'[q])
    BY <1>1, <1>2, OutstandingNone DEF BudgetInv
  <1>4. totalInFlight' = sumOf(inFlight)'
    BY <1>1 DEF BudgetInv
  <1> QED BY <1>1, <1>3, <1>4 DEF BudgetInv

(* Every step keeps the books.                                             *)
LEMMA BudgetKept == ASSUME IInv, BudgetInv, [Next]_vars PROVE BudgetInv'
  <1> USE DEF flowVars, peerVars
  <1>1. ASSUME NEW p \in PeerIds, Accept(p) \/ GoodbyeWithoutChild(p) PROVE BudgetInv'
    <2>1. CASE Accept(p)
      BY <2>1, AcceptBudget
    <2>2. CASE GoodbyeWithoutChild(p)
      BY <2>2, BudgetUntouched DEF GoodbyeWithoutChild
    <2> QED BY <1>1, <2>1, <2>2
  <1>2. ASSUME NEW p \in PeerIds, ClientGoes(p) \/ LeavesAfterGoodbye(p) \/ CongestionTimerFires(p)
        PROVE  BudgetInv'
    BY <1>2, PeerGoneBudget DEF ClientGoes, LeavesAfterGoodbye, CongestionTimerFires
  <1>3. ASSUME NEW p \in PeerIds, NEW op, NEW wantsReply, Forward(p, op, wantsReply)
        PROVE  BudgetInv'
    <2>1. CASE child = "running"
      BY <1>3, <2>1, BudgetUntouched DEF Forward
    <2>2. CASE child # "running"
      BY <1>3, <2>2, LinkClosedBudget DEF Forward
    <2> QED BY <2>1, <2>2
  <1>4. ASSUME NEW p \in PeerIds, DidSend(p) PROVE BudgetInv'
    BY <1>4, DidSendBudget
  <1>5. CASE Tick
    BY <1>5, BudgetUntouched DEF Tick
  <1>6. CASE ReadOutput
    <2>1. /\ UNCHANGED <<peers, accepted>> /\ fromIO # <<>> /\ Head(fromIO).kind = "output"
      BY <1>6 DEF ReadOutput
    <2>2. CASE Head(fromIO).peer \in peers
      <3>1. Head(fromIO) \in Frame
        BY <2>1, HeadTailProperties DEF IInv, WireInv
      <3>2. Head(fromIO).size \in OutputSizes
        BY <2>1, <3>1 DEF Frame
      <3>3. willSend(Head(fromIO).peer, Head(fromIO).size)
        BY <1>6, <2>2 DEF ReadOutput
      <3> QED BY <2>1, <2>2, <3>2, <3>3, WillSendBudget
    <2>3. CASE Head(fromIO).peer \notin peers
      BY <1>6, <2>1, <2>3, BudgetUntouched DEF ReadOutput
    <2> QED BY <2>2, <2>3
  <1>7. CASE ReadReply \/ WriteSourceFires
    BY <1>7, BudgetUntouched DEF ReadReply, WriteSourceFires
  <1>8. CASE ReadEOF \/ WriteFails \/ ExitSourceFires
    BY <1>8, LinkClosedBudget DEF ReadEOF, WriteFails, ExitSourceFires, LinkCloses
  <1>9. CASE PollAgain \/ Respawn \/ RespawnFails
    BY <1>9, BudgetUntouched DEF PollAgain, Respawn, RespawnFails
  <1>10. CASE IdleTimerFires
    <2>1. CASE linkUp /\ child = "running"
      BY <1>10, <2>1, BudgetUntouched DEF IdleTimerFires
    <2>2. CASE linkUp /\ child # "running"
      BY <1>10, <2>2, LinkClosedBudget DEF IdleTimerFires
    <2>3. CASE ~linkUp
      BY <1>10, <2>3, BudgetUntouched DEF IdleTimerFires
    <2> QED BY <2>1, <2>2, <2>3
  <1>11. ASSUME NEW p \in PeerIds, NEW n \in OutputSizes, ChildWritesOutput(p, n) PROVE BudgetInv'
    BY <1>11, BudgetUntouched DEF ChildWritesOutput
  <1>12. CASE ChildHandles \/ ChildDies \/ ChildReapable
    <2>1. UNCHANGED <<flowVars, peers, accepted>>
      BY <1>12 DEF ChildHandles, ChildDies, ChildReapable
    <2> QED BY <2>1, BudgetUntouched
  <1>13. CASE UNCHANGED vars
    <2>1. UNCHANGED <<flowVars, peers, accepted>>
      BY <1>13 DEF vars
    <2> QED BY <2>1, BudgetUntouched
  <1> QED BY <1>1, <1>2, <1>3, <1>4, <1>5, <1>6, <1>7, <1>8, <1>9, <1>10, <1>11, <1>12, <1>13
          DEF Next

(* The books are right from the start.                                     *)
THEOREM BudgetInvariant == Spec => []BudgetInv
  <1>1. Init => BudgetInv
    <2> SUFFICES ASSUME Init PROVE BudgetInv
      OBVIOUS
    <2>1. sumOf([p \in PeerIds |-> 0]) = 0
      BY PeersAssumption, SumOfNothing
    <2>2. totalInFlight = sumOf(inFlight)
      BY <2>1 DEF Init
    <2> QED BY <2>2 DEF Init, BudgetInv
  <1>2. IInv /\ BudgetInv /\ [Next]_vars => BudgetInv'
    BY BudgetKept
  <1> QED BY <1>1, <1>2, SupervisorInvariant, PTL DEF Spec

(* What the supervisor counts in flight is the sum of what it counts for   *)
(* its peers, and a peer that is gone counts for nothing: no late barrier, *)
(* cut peer or closed link leaves the budget wrong (willSend, didSend,     *)
(* peerGone, handleLinkClosed).                                            *)
THEOREM TheBudgetAddsUp == Spec => []BudgetAddsUp
  <1>1. IInv /\ BudgetInv => BudgetAddsUp
    <2> SUFFICES ASSUME IInv, BudgetInv PROVE BudgetAddsUp
      OBVIOUS
    <2>1. totalInFlight = FoldFunction(+, 0, inFlight)
      BY Zenon DEF BudgetInv, sumOf
    <2>2. \A p \in PeerIds \ peers : inFlight[p] = 0 /\ congestionTimers[p] = NoTimer
      BY DEF IInv, FlowInv, GonePeersHoldNothing
    <2> QED BY <2>1, <2>2, Zenon DEF BudgetAddsUp
  <1> QED BY <1>1, BudgetInvariant, SupervisorInvariant, PTL

(* A registered peer is charged exactly what libxpc has not confirmed for  *)
(* it, so that the bounds at 0 in didSend are never needed.                *)
THEOREM ChargedIsOutstanding ==
  Spec => [](\A p \in peers : Outstanding(barriers[p], inFlight[p]))
  <1>1. BudgetInv => \A p \in peers : Outstanding(barriers[p], inFlight[p])
    BY DEF BudgetInv
  <1> QED BY <1>1, BudgetInvariant, PTL
=============================================================================
