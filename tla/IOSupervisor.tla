---------------------------- MODULE IOSupervisor ----------------------------
(***************************************************************************)
(* The proxy `ighostvtd`: DaemonServer accepts clients, a PeerRelay per    *)
(* client forwards what it sends, and IOSupervisor owns the child          *)
(* `ighostvtd-io` and the socket to it.  Everything runs on one serial     *)
(* queue, so a handler is one action; what interleaves are the sources of  *)
(* events: clients, the socket, the child's exit, timers and libxpc's      *)
(* barriers.  The child is modelled by what the proxy sees of it (module   *)
(* SessionRegistry has its inside), the framing by whole frames (module    *)
(* IOChannel has the bytes).                                               *)
(***************************************************************************)
EXTENDS Integers, Sequences, FiniteSets, Functions

CONSTANTS
    PeerIds,            \* 1..n: the peers that ever connect
    Helpers,            \* those among them that are `ighostvtd-remote`
    ReplyOps, SilentOps,    \* requests clients send, with and without a reply context
    OutputSizes,        \* sizes of an output event
    PauseAbove, ResumeBelow, PeerCongestion, Grace,
    InputPauseAbove, InputResumeBelow,
    SocketRoom,         \* frames the socket toward the child holds
    PollAttempts,       \* polls for the exit status before giving up
    MaxTags, MaxQueue, MaxSpawns, MaxSpawnFailures, MaxOutput   \* bounds

ASSUME PeersAssumption ==
    /\ PeerIds \in SUBSET (Nat \ {0}) /\ IsFiniteSet(PeerIds) /\ Helpers \subseteq PeerIds
ASSUME RequestsAssumption == ReplyOps \cup SilentOps \subseteq {"other", "goodbye", "shutdown"}
ASSUME FlowAssumption ==
    /\ OutputSizes \subseteq Nat \ {0}
    /\ {PauseAbove, ResumeBelow, PeerCongestion, Grace} \subseteq Nat \ {0}
    /\ ResumeBelow <= PauseAbove
    /\ {InputPauseAbove, InputResumeBelow, SocketRoom} \subseteq Nat \ {0}
ASSUME BoundsAssumption ==
    {PollAttempts, MaxTags, MaxQueue, MaxSpawns, MaxSpawnFailures, MaxOutput} \subseteq Nat

Supervisor == 0     \* supervisorPeerID
NoTimer == Grace + 1
None == -1

VARIABLES
    proxy,              \* "serving", "left" (exit 0) or "crashed"
    peers, accepted,    \* registered, and every peer that ever connected
    suspended,          \* peers whose connection is suspended
    leaving,            \* peers with an invalidate() queued after a goodbye
    pending, nextTag,
    answers,            \* history: completions called for each tag
    inFlight, totalInFlight, congestionTimers,
    stuck,              \* history: ticks since the peer last took output
    barriers,           \* per connection: barriers libxpc has not run
    isInputPaused, isReadSuspended,
    linkUp,             \* channel # nil
    outbound,           \* frames the socket toward the child has not taken
    toIO, fromIO,       \* frames in the socket, each way
    child,              \* "running", "closing" (link closed, not reapable), "zombie"
    childStatus,        \* what it exits with
    exitStatus,         \* None until reaped
    poll,               \* attempt of the queued pollExitStatus, None if none
    respawnScheduled, shutdownRequested, idleTimer,
    arrived,            \* history: a peer arrived since a shutdown was last asked
    spawns, spawnFailures, output   \* counted for their bounds

peerVars == <<peers, accepted, suspended, leaving>>
replyVars == <<pending, nextTag, answers>>
flowVars == <<inFlight, totalInFlight, congestionTimers, stuck, barriers>>
exitVars == <<exitStatus, poll, respawnScheduled>>
childVars == <<child, childStatus>>
wireVars == <<outbound, toIO, fromIO, isInputPaused>>
idleVars == <<shutdownRequested, idleTimer, arrived>>
boundVars == <<spawns, spawnFailures, output>>
vars == <<proxy, peerVars, replyVars, flowVars, isReadSuspended, linkUp,
          wireVars, childVars, exitVars, idleVars, boundVars>>

Tag == 0..MaxTags
Op == {"hello", "other", "goodbye", "shutdown"}
Request == [peer : PeerIds \cup {Supervisor}, tag : Tag, op : Op \cup {"peerGone"}]
Frame == [kind : {"reply"}, tag : Tag, success : BOOLEAN]
           \cup [kind : {"output"}, peer : PeerIds, size : OutputSizes]

TypeOK ==
    /\ proxy \in {"serving", "left", "crashed"}
    /\ peers \subseteq PeerIds /\ accepted \subseteq PeerIds
    /\ suspended \subseteq PeerIds /\ leaving \subseteq PeerIds
    /\ pending \subseteq Request
    /\ nextTag \in 1..(MaxTags + 1)
    /\ answers \in [1..MaxTags -> Nat]
    /\ inFlight \in [PeerIds -> Nat] /\ totalInFlight \in Int
    /\ congestionTimers \in [PeerIds -> 0..NoTimer]
    /\ stuck \in [PeerIds -> 0..Grace]
    /\ barriers \in [PeerIds -> Seq(OutputSizes)]
    /\ outbound \in Seq(Request) /\ toIO \in Seq(Request) /\ fromIO \in Seq(Frame)
    /\ child \in {"running", "closing", "zombie"}
    /\ childStatus \in {0, 1} /\ exitStatus \in {None, 0, 1}
    /\ poll \in {None} \cup 1..PollAttempts
    /\ isInputPaused \in BOOLEAN /\ isReadSuspended \in BOOLEAN /\ linkUp \in BOOLEAN
    /\ respawnScheduled \in BOOLEAN /\ shutdownRequested \in BOOLEAN
    /\ idleTimer \in BOOLEAN /\ arrived \in BOOLEAN
    /\ spawns \in Nat /\ spawnFailures \in Nat /\ output \in Nat

(* start(): the first child is up, nobody has connected, the idle timer runs. *)
Init ==
    /\ proxy = "serving"
    /\ peers = {} /\ accepted = {} /\ suspended = {} /\ leaving = {}
    /\ pending = {} /\ nextTag = 1 /\ answers = [t \in 1..MaxTags |-> 0]
    /\ inFlight = [p \in PeerIds |-> 0] /\ totalInFlight = 0
    /\ congestionTimers = [p \in PeerIds |-> NoTimer]
    /\ stuck = [p \in PeerIds |-> 0] /\ barriers = [p \in PeerIds |-> <<>>]
    /\ isInputPaused = FALSE /\ isReadSuspended = FALSE
    /\ linkUp = TRUE /\ outbound = <<>> /\ toIO = <<>> /\ fromIO = <<>>
    /\ child = "running" /\ childStatus = 1
    /\ exitStatus = None /\ poll = None /\ respawnScheduled = FALSE
    /\ shutdownRequested = FALSE /\ idleTimer = TRUE /\ arrived = FALSE
    /\ spawns = 1 /\ spawnFailures = 0 /\ output = 0

Serving == proxy = "serving"

-----------------------------------------------------------------------------
(* The socket toward the child: send() and the write source both flush     *)
(* what fits; the backlog that stays decides updateInputPause.  `ps` are   *)
(* the registered peers, `held` those already suspended.                   *)
pausedAfter(backlog) ==
    IF isInputPaused THEN backlog >= InputResumeBelow ELSE backlog > InputPauseAbove

flush(frames, ps, held) ==
    LET fits == SocketRoom - Len(toIO)
        n == IF Len(frames) <= fits THEN Len(frames) ELSE fits
        paused == pausedAfter(Len(frames) - n) IN
    /\ toIO' = toIO \o SubSeq(frames, 1, n)
    /\ outbound' = SubSeq(frames, n + 1, Len(frames))
    /\ isInputPaused' = paused
    /\ suspended' = IF paused = isInputPaused THEN held ELSE IF paused THEN ps ELSE {}

(* pollExitStatus, given what waitpid said: leave after a shutdown that    *)
(* was asked for, respawn after any other exit, else look again.           *)
pollExitStatus(status, requested, attempt) ==
    LET leaves == requested /\ status = 0
        again == status = None /\ attempt < PollAttempts IN
    /\ exitStatus' = status
    /\ poll' = IF again THEN attempt + 1 ELSE None
    /\ proxy' = IF leaves THEN "left" ELSE proxy
    /\ respawnScheduled' = (respawnScheduled \/ (~leaves /\ ~again))

reapIfExited == IF child = "zombie" THEN childStatus ELSE None

(* handleLinkClosed with `entries` pending: each is failed, every peer is  *)
(* cut, and the exit status decides what comes next.  The completion of    *)
(* the idle question takes the request to leave back.                      *)
asksToLeave(entries) == \E e \in entries : e.peer = Supervisor /\ e.op = "shutdown"

\* Mutation: what waits on the child is forgotten with it.
failedEntriesNever(entries) == {}

failedEntries(entries) == entries

requestedAfter(entries, requested) == requested /\ ~asksToLeave(entries)
idleAfter(entries) == idleTimer \/ peers # {} \/ asksToLeave(entries)

handleLinkClosed(entries, requested) ==
    /\ linkUp' = FALSE
    /\ outbound' = <<>> /\ toIO' = <<>> /\ fromIO' = <<>>
    /\ isInputPaused' = FALSE /\ isReadSuspended' = FALSE
    /\ congestionTimers' = [p \in PeerIds |-> NoTimer]
    /\ inFlight' = [p \in PeerIds |-> 0] /\ totalInFlight' = 0
    /\ pending' = {}
    /\ answers' = [t \in 1..MaxTags |->
                     answers[t] + Cardinality({e \in failedEntries(entries) : e.tag = t})]
    /\ peers' = {} /\ suspended' = {} /\ leaving' = {}
    /\ pollExitStatus(reapIfExited, requestedAfter(entries, requested), 0)
    /\ UNCHANGED <<accepted, stuck, barriers, childVars, boundVars>>

LinkCloses ==
    /\ handleLinkClosed(pending, shutdownRequested)
    /\ shutdownRequested' = requestedAfter(pending, shutdownRequested)
    /\ idleTimer' = idleAfter(pending)
    /\ UNCHANGED <<nextTag, arrived>>

-----------------------------------------------------------------------------
(* Clients. *)

\* Mutation: a peer that arrives during an input pause is left running.
registeredSuspendedNever(p) == suspended

registeredSuspended(p) == IF isInputPaused THEN suspended \cup {p} ELSE suspended

\* Mutation: an arrival does not take the request to leave back.
requestedAfterArrivalKept == shutdownRequested

requestedAfterArrival == FALSE

(* accept, activate, register; ids count up. *)
Accept(p) ==
    /\ Serving
    /\ p \notin accepted /\ \A q \in PeerIds \ accepted : p <= q
    /\ accepted' = accepted \cup {p} /\ peers' = peers \cup {p}
    /\ suspended' = registeredSuspended(p)
    /\ idleTimer' = FALSE
    /\ shutdownRequested' = requestedAfterArrival
    /\ arrived' = TRUE
    /\ UNCHANGED <<proxy, leaving, replyVars, flowVars, isReadSuspended, linkUp, wireVars,
                   childVars, exitVars, boundVars>>

request(p, op, tag) == [peer |-> p, tag |-> tag, op |-> op]

(* PeerRelay.handle and forward with a child to forward to.  A suspended   *)
(* connection delivers nothing; the helper's shutdown is refused.          *)
Forward(p, op, wantsReply) ==
    LET tag == IF wantsReply THEN nextTag ELSE 0
        entry == request(p, op, tag)
        entries == IF wantsReply THEN pending \cup {entry} ELSE pending
        requested == shutdownRequested \/ op = "shutdown" IN
    /\ Serving /\ linkUp
    /\ p \in peers \ suspended
    /\ op = "shutdown" => p \notin Helpers
    /\ wantsReply => nextTag <= MaxTags
    /\ Len(outbound) + Len(toIO) < MaxQueue
    /\ nextTag' = IF wantsReply THEN nextTag + 1 ELSE nextTag
    /\ arrived' = (arrived /\ op # "shutdown")
    /\ \/ /\ child = "running"
          /\ pending' = entries
          /\ flush(Append(outbound, entry), peers, suspended)
          /\ leaving' = IF op = "goodbye" /\ ~wantsReply THEN leaving \cup {p} ELSE leaving
          /\ shutdownRequested' = requested
          /\ UNCHANGED <<proxy, peers, accepted, answers, flowVars, isReadSuspended, linkUp,
                         fromIO, childVars, exitVars, idleTimer, boundVars>>
       \/ /\ child # "running"   \* EPIPE
          /\ handleLinkClosed(entries, requested)
          /\ shutdownRequested' = requestedAfter(entries, requested)
          /\ idleTimer' = idleAfter(entries)

(* A goodbye between two children is answered at once (any other request   *)
(* too, which changes nothing) and still ends the connection.              *)
GoodbyeWithoutChild(p) ==
    /\ Serving /\ ~linkUp
    /\ p \in peers \ leaving
    /\ leaving' = leaving \cup {p}
    /\ UNCHANGED <<proxy, peers, accepted, suspended, replyVars, flowVars, isReadSuspended,
                   linkUp, wireVars, childVars, exitVars, idleVars, boundVars>>

(* PeerRelay.invalidate and peerGone: nothing more is routed to the peer,  *)
(* what it held of the output budget is given back, the child is told.     *)
budgetWithout(p) == totalInFlight - inFlight[p]

peerGone(p) ==
    LET entries == {e \in pending : e.peer # p}
        rest == peers \ {p} IN
    \/ /\ linkUp /\ child = "running"
       /\ peers' = rest /\ leaving' = leaving \ {p}
       /\ pending' = entries
       /\ inFlight' = [inFlight EXCEPT ![p] = 0] /\ totalInFlight' = budgetWithout(p)
       /\ congestionTimers' = [congestionTimers EXCEPT ![p] = NoTimer]
       /\ flush(Append(outbound, request(p, "peerGone", 0)), rest, suspended \ {p})
       /\ isReadSuspended' = (isReadSuspended /\ totalInFlight' >= ResumeBelow)
       /\ idleTimer' = (idleTimer \/ rest = {})
       /\ UNCHANGED <<proxy, accepted, nextTag, answers, stuck, barriers, linkUp, fromIO,
                      childVars, exitVars, shutdownRequested, arrived, boundVars>>
    \/ /\ linkUp /\ child # "running"   \* EPIPE
       /\ handleLinkClosed(entries, shutdownRequested)
       /\ shutdownRequested' = requestedAfter(entries, shutdownRequested)
       /\ idleTimer' = TRUE
       /\ UNCHANGED <<nextTag, arrived>>
    \/ /\ ~linkUp
       /\ peers' = rest /\ leaving' = leaving \ {p} /\ suspended' = suspended \ {p}
       /\ idleTimer' = (idleTimer \/ rest = {})
       /\ UNCHANGED <<proxy, accepted, replyVars, flowVars, isReadSuspended, linkUp, wireVars,
                      childVars, exitVars, shutdownRequested, arrived, boundVars>>

(* The client's end is gone; a suspended connection does not say so.       *)
ClientGoes(p) ==
    /\ Serving /\ p \in peers \ suspended
    /\ peerGone(p)

LeavesAfterGoodbye(p) ==
    /\ Serving /\ p \in leaving \cap peers
    /\ peerGone(p)

-----------------------------------------------------------------------------
(* Output toward the peers. *)

\* Mutation: a pause times only the peer that caused it.
needsTimerAlone(q, p, held, total) ==
    q = p /\ (total > PauseAbove \/ held[p] >= PeerCongestion)

needsTimer(q, p, held, total) ==
    \/ total > PauseAbove /\ held[q] > 0
    \/ q = p /\ held[p] >= PeerCongestion

\* Mutation: a peer's own output decides whether the socket is read.
pausesReadingAlone(p, held, total) == held[p] > PauseAbove

pausesReading(p, held, total) == total > PauseAbove

willSend(p, n) ==
    LET held == [inFlight EXCEPT ![p] = @ + n]
        total == totalInFlight + n IN
    /\ inFlight' = held /\ totalInFlight' = total
    /\ isReadSuspended' = (isReadSuspended \/ pausesReading(p, held, total))
    /\ congestionTimers' =
         [q \in PeerIds |-> IF congestionTimers[q] = NoTimer /\ needsTimer(q, p, held, total)
                            THEN Grace ELSE congestionTimers[q]]
    /\ stuck' = [stuck EXCEPT ![p] = IF inFlight[p] = 0 THEN 0 ELSE @]
    /\ barriers' = [barriers EXCEPT ![p] = Append(@, n)]

(* handleFrame of an event; one for a gone peer is dropped. *)
ReadOutput ==
    /\ Serving /\ linkUp /\ ~isReadSuspended
    /\ fromIO # <<>> /\ Head(fromIO).kind = "output"
    /\ fromIO' = Tail(fromIO)
    /\ IF Head(fromIO).peer \in peers
         THEN willSend(Head(fromIO).peer, Head(fromIO).size)
         ELSE UNCHANGED <<flowVars, isReadSuspended>>
    /\ UNCHANGED <<proxy, peerVars, replyVars, outbound, toIO, isInputPaused, linkUp,
                   childVars, exitVars, idleVars, boundVars>>

\* Mutation: a barrier of a gone peer counts like any other.
countsAlways(p) == TRUE

counts(p) == p \in peers

\* Mutation: output taken does not push the deadline back.
rescheduledNever(p) == congestionTimers[p]

rescheduled(p) == IF congestionTimers[p] = NoTimer THEN NoTimer ELSE Grace

(* didSend, from libxpc's barrier.  A suspended connection sends nothing.  *)
DidSend(p) ==
    LET n == Head(barriers[p])
        remaining == IF inFlight[p] < n THEN 0 ELSE inFlight[p] - n
        total == IF totalInFlight < n THEN 0 ELSE totalInFlight - n
        paused == isReadSuspended /\ total >= ResumeBelow IN
    /\ Serving /\ p \notin suspended /\ barriers[p] # <<>>
    /\ barriers' = [barriers EXCEPT ![p] = Tail(@)]
    /\ IF counts(p)
         THEN /\ inFlight' = [inFlight EXCEPT ![p] = remaining]
              /\ totalInFlight' = total
              /\ isReadSuspended' = paused
              /\ congestionTimers' =
                   [congestionTimers EXCEPT ![p] =
                      IF remaining = 0 \/ (remaining < PeerCongestion /\ ~paused)
                      THEN NoTimer ELSE rescheduled(p)]
              /\ stuck' = [stuck EXCEPT ![p] = 0]
         ELSE UNCHANGED <<inFlight, totalInFlight, isReadSuspended, congestionTimers, stuck>>
    /\ UNCHANGED <<proxy, peerVars, replyVars, wireVars, linkUp, childVars, exitVars, idleVars,
                   boundVars>>

(* Time, for the congestion timers. *)
Tick ==
    /\ Serving
    /\ \E p \in PeerIds : congestionTimers[p] \in 1..Grace
    /\ congestionTimers' = [p \in PeerIds |-> IF congestionTimers[p] \in 1..Grace
                                             THEN congestionTimers[p] - 1
                                             ELSE congestionTimers[p]]
    /\ stuck' = [p \in PeerIds |-> IF stuck[p] < Grace THEN stuck[p] + 1 ELSE Grace]
    /\ UNCHANGED <<proxy, peerVars, replyVars, inFlight, totalInFlight, barriers, wireVars,
                   isReadSuspended, linkUp, childVars, exitVars, idleVars, boundVars>>

CongestionTimerFires(p) ==
    /\ Serving /\ congestionTimers[p] = 0 /\ p \in peers
    /\ peerGone(p)

-----------------------------------------------------------------------------
(* Replies, and the end of the link. *)

\* Mutation: a reply leaves its entry to be failed with the link.
pendingAfterReplyKept(entry) == pending

pendingAfterReply(entry) == pending \ {entry}

askedAgain == idleTimer \/ peers = {}

(* The answer to the idle question: success is followed by the exit of the *)
(* child; a refusal says goodbye to it and asks again later.  If the child *)
(* has died by then, that goodbye closes the channel inside its own        *)
(* dispatch, which ends the process (IOChannel!HandlerSendsToGone).        *)
answerToIdle(success) ==
    \/ /\ success
       /\ UNCHANGED <<proxy, suspended, outbound, toIO, isInputPaused, idleTimer,
                      shutdownRequested>>
    \/ /\ ~success /\ child = "running"
       /\ shutdownRequested' = FALSE
       /\ flush(Append(outbound, request(Supervisor, "peerGone", 0)), peers, suspended)
       /\ idleTimer' = askedAgain
       /\ UNCHANGED proxy
    \/ /\ ~success /\ child # "running"
       /\ proxy' = "crashed"
       /\ UNCHANGED <<suspended, outbound, toIO, isInputPaused, idleTimer, shutdownRequested>>

ReadReply ==
    LET reply == Head(fromIO)
        found == {e \in pending : e.tag = reply.tag} IN
    /\ Serving /\ linkUp /\ ~isReadSuspended
    /\ fromIO # <<>> /\ reply.kind = "reply"
    /\ fromIO' = Tail(fromIO)
    /\ \/ /\ found = {}
          /\ UNCHANGED <<proxy, suspended, leaving, pending, answers, outbound, toIO,
                         isInputPaused, idleTimer, shutdownRequested>>
       \/ \E e \in found :
            /\ pending' = pendingAfterReply(e)
            /\ answers' = [answers EXCEPT ![e.tag] = @ + 1]
            /\ leaving' = IF e.op = "goodbye" THEN leaving \cup {e.peer} ELSE leaving
            /\ IF e.peer = Supervisor /\ e.op = "shutdown"
                 THEN answerToIdle(reply.success)
                 ELSE UNCHANGED <<proxy, suspended, outbound, toIO, isInputPaused, idleTimer,
                                  shutdownRequested>>
    /\ UNCHANGED <<peers, accepted, nextTag, flowVars, isReadSuspended, linkUp, childVars,
                   exitVars, arrived, boundVars>>

ReadEOF ==
    /\ Serving /\ linkUp /\ ~isReadSuspended
    /\ fromIO = <<>> /\ child # "running"
    /\ LinkCloses

(* The write source finds the socket broken. *)
WriteFails ==
    /\ Serving /\ linkUp
    /\ outbound # <<>> /\ child # "running"
    /\ LinkCloses

WriteSourceFires ==
    /\ Serving /\ linkUp /\ child = "running"
    /\ outbound # <<>> /\ Len(toIO) < SocketRoom
    /\ flush(outbound, peers, suspended)
    /\ UNCHANGED <<proxy, peers, accepted, leaving, replyVars, flowVars, isReadSuspended,
                   linkUp, fromIO, childVars, exitVars, idleVars, boundVars>>

ExitSourceFires ==
    /\ Serving /\ linkUp /\ child = "zombie"
    /\ LinkCloses

PollAgain ==
    /\ Serving /\ poll # None
    /\ pollExitStatus(reapIfExited, shutdownRequested, poll)
    /\ UNCHANGED <<peerVars, replyVars, flowVars, wireVars, isReadSuspended, linkUp,
                   childVars, idleVars, boundVars>>

(* The queued respawn: spawn() arms the idle timer whether or not it works. *)
Respawn ==
    /\ Serving /\ respawnScheduled
    /\ spawns < MaxSpawns /\ spawns' = spawns + 1
    /\ respawnScheduled' = FALSE
    /\ linkUp' = TRUE /\ exitStatus' = None
    /\ child' = "running" /\ childStatus' = 1
    /\ idleTimer' = (idleTimer \/ peers = {})
    /\ UNCHANGED <<proxy, peerVars, replyVars, flowVars, wireVars, isReadSuspended, poll,
                   shutdownRequested, arrived, spawnFailures, output>>

\* Mutation: a spawn that fails is the last one tried.
retriesSpawnNever == FALSE

retriesSpawn == TRUE

RespawnFails ==
    /\ Serving /\ respawnScheduled
    /\ spawnFailures < MaxSpawnFailures /\ spawnFailures' = spawnFailures + 1
    /\ respawnScheduled' = retriesSpawn
    /\ idleTimer' = (idleTimer \/ peers = {})
    /\ UNCHANGED <<proxy, peerVars, replyVars, flowVars, wireVars, isReadSuspended, linkUp,
                   childVars, exitStatus, poll, shutdownRequested, arrived, spawns, output>>

-----------------------------------------------------------------------------
(* requestIdleShutdown: a hello and a shutdown under the supervisor's id.  *)
IdleTimerFires ==
    LET hello == request(Supervisor, "hello", nextTag)
        ask == request(Supervisor, "shutdown", nextTag + 1) IN
    /\ Serving /\ idleTimer
    /\ peers = {}    \* register cancels the timer
    /\ \/ /\ linkUp /\ child = "running"
          /\ nextTag + 1 <= MaxTags
          /\ nextTag' = nextTag + 2
          /\ pending' = pending \cup {hello, ask}
          /\ flush(outbound \o <<hello, ask>>, peers, suspended)
          /\ idleTimer' = FALSE /\ shutdownRequested' = TRUE /\ arrived' = FALSE
          /\ UNCHANGED <<proxy, peers, accepted, leaving, answers, flowVars, isReadSuspended,
                         linkUp, fromIO, childVars, exitVars, boundVars>>
       \/ /\ linkUp /\ child # "running"   \* EPIPE on the hello
          /\ nextTag <= MaxTags /\ nextTag' = nextTag + 1
          /\ handleLinkClosed(pending \cup {hello}, shutdownRequested)
          /\ idleTimer' = TRUE /\ shutdownRequested' = FALSE
          /\ UNCHANGED arrived
       \/ /\ ~linkUp                       \* no child to ask: try again later
          /\ shutdownRequested' = FALSE
          /\ UNCHANGED <<proxy, peerVars, replyVars, flowVars, wireVars, isReadSuspended,
                         linkUp, childVars, exitVars, idleTimer, arrived, boundVars>>

-----------------------------------------------------------------------------
(* The child, as the proxy sees it. *)

reply(tag, success) ==
    IF tag = 0 THEN fromIO ELSE Append(fromIO, [kind |-> "reply", tag |-> tag, success |-> success])

ChildHandles ==
    LET r == Head(toIO) IN
    /\ Serving /\ linkUp /\ child = "running" /\ toIO # <<>>
    /\ toIO' = Tail(toIO)
    /\ \/ /\ r.op = "shutdown"      \* nothing held: answers, then exits 0
          /\ fromIO' = reply(r.tag, TRUE)
          /\ child' = "closing" /\ childStatus' = 0
       \/ /\ r.op = "shutdown"      \* a session is held
          /\ fromIO' = reply(r.tag, FALSE)
          /\ UNCHANGED childVars
       \/ /\ r.op # "shutdown"
          /\ fromIO' = reply(r.tag, TRUE)
          /\ UNCHANGED childVars
    /\ UNCHANGED <<proxy, peerVars, replyVars, flowVars, outbound, isInputPaused,
                   isReadSuspended, linkUp, exitVars, idleVars, boundVars>>

ChildWritesOutput(p, n) ==
    /\ Serving /\ linkUp /\ child = "running"
    /\ p \in peers
    /\ output < MaxOutput /\ output' = output + 1
    /\ Len(fromIO) < MaxQueue
    /\ fromIO' = Append(fromIO, [kind |-> "output", peer |-> p, size |-> n])
    /\ UNCHANGED <<proxy, peerVars, replyVars, flowVars, outbound, toIO, isInputPaused,
                   isReadSuspended, linkUp, childVars, exitVars, idleVars, spawns, spawnFailures>>

ChildDies ==
    /\ Serving /\ linkUp /\ child = "running"
    /\ child' = "closing" /\ childStatus' = 1
    /\ UNCHANGED <<proxy, peerVars, replyVars, flowVars, wireVars, isReadSuspended, linkUp,
                   exitVars, idleVars, boundVars>>

ChildReapable ==
    /\ Serving /\ child = "closing"
    /\ child' = "zombie"
    /\ UNCHANGED <<proxy, peerVars, replyVars, flowVars, wireVars, isReadSuspended, linkUp,
                   childStatus, exitVars, idleVars, boundVars>>

-----------------------------------------------------------------------------
Next ==
    \/ \E p \in PeerIds : Accept(p) \/ GoodbyeWithoutChild(p) \/ ClientGoes(p)
                            \/ LeavesAfterGoodbye(p)
    \/ \E p \in PeerIds, op \in ReplyOps : Forward(p, op, TRUE)
    \/ \E p \in PeerIds, op \in SilentOps : Forward(p, op, FALSE)
    \/ \E p \in PeerIds : DidSend(p) \/ CongestionTimerFires(p)
    \/ Tick
    \/ ReadOutput \/ ReadReply \/ ReadEOF \/ WriteFails \/ WriteSourceFires
    \/ ExitSourceFires \/ PollAgain \/ Respawn \/ RespawnFails \/ IdleTimerFires
    \/ \E p \in PeerIds, n \in OutputSizes : ChildWritesOutput(p, n)
    \/ ChildHandles \/ ChildDies \/ ChildReapable

Spec == Init /\ [][Next]_vars

(* The queue serves its sources and timers, time passes, the child reads   *)
(* what it is sent and is reaped once it closed its link.  Nothing makes a *)
(* client take its output, and no clock is fair to libxpc's barriers.      *)
Fairness ==
    /\ WF_vars(ReadOutput) /\ WF_vars(ReadReply) /\ WF_vars(ReadEOF)
    /\ WF_vars(WriteSourceFires) /\ WF_vars(ExitSourceFires)
    /\ WF_vars(PollAgain) /\ WF_vars(Respawn) /\ WF_vars(Tick)
    /\ \A p \in PeerIds : WF_vars(CongestionTimerFires(p)) /\ WF_vars(LeavesAfterGoodbye(p))
    /\ WF_vars(ChildHandles) /\ WF_vars(ChildReapable)

FairSpec == Spec /\ Fairness

-----------------------------------------------------------------------------
(* What the supervisor counts in flight is what it counts for its peers:   *)
(* no late barrier, cut peer or dead link leaves the budget wrong, which   *)
(* would read the socket too early or never again.                         *)
BudgetAddsUp ==
    /\ totalInFlight = FoldFunction(+, 0, inFlight)
    /\ \A p \in PeerIds \ peers : inFlight[p] = 0 /\ congestionTimers[p] = NoTimer

(* "An unbounded queue anywhere in this process is the jetsam all over     *)
(* again": output in flight passes the pause mark by one event at most.    *)
OutputBounded == \A n \in OutputSizes : (\A m \in OutputSizes : m <= n) => totalInFlight <= PauseAbove + n

(* "Slow is not stuck": a peer is cut for congestion only when it took     *)
(* nothing for the whole grace.                                            *)
OnlyStuckPeersAreCut ==
    [][\A p \in PeerIds : CongestionTimerFires(p) => stuck[p] = Grace]_vars

(* Every connection is suspended while input is paused and none otherwise, *)
(* arrivals and cuts in the middle of a pause included.                    *)
SuspendedTogether == suspended = IF isInputPaused THEN peers ELSE {}

(* A request is completed once: by its reply or by the end of the link.    *)
AnsweredOnce ==
    /\ \A t \in 1..MaxTags : answers[t] <= 1
    /\ \A e \in pending : answers[e.tag] = 0 /\ e.peer \in peers \cup {Supervisor}

(* A dead link is being replaced: the exit status is still awaited or a    *)
(* respawn is queued, never both, and nothing waits on the dead child.     *)
DeadLinkIsReplaced ==
    proxy = "serving" =>
        IF linkUp THEN poll = None /\ ~respawnScheduled
        ELSE /\ (poll # None) # respawnScheduled
             /\ pending = {} /\ outbound = <<>>

(* "A peer arriving while the answer is in flight takes the exit back":    *)
(* the proxy never leaves a peer that came after the last question.        *)
ArrivalTakesExitBack == proxy = "left" => ~arrived

(* The socket is read again, whatever the clients do. *)
ReadingResumes == isReadSuspended ~> (~isReadSuspended \/ ~Serving)

(* A request is answered, by a reply or a failure, unless its peer goes;   *)
(* the supervisor's own always is.                                         *)
RequestsAreAnswered ==
    \A t \in 1..MaxTags, p \in PeerIds \cup {Supervisor} :
        (\E e \in pending : e.tag = t /\ e.peer = p)
            ~> (answers[t] = 1 \/ p \in PeerIds \ peers \/ ~Serving)

(* "The child dying fails every pending reply, cuts every peer ..., and    *)
(* respawns it": the proxy outlives its child.                             *)
ProxyOutlivesChild == proxy # "crashed"
=============================================================================
