----------------------------- MODULE RemoteTab -----------------------------
(***************************************************************************)
(* A tab whose shell runs on another device: the tab's store on the main   *)
(* actor (TerminalSessionStore), its transport of the moment on a queue of *)
(* its own (XPCDaemonTransport), the link that carries the transport's     *)
(* frames and may die at any moment (RemoteDaemonLink), and the host, as   *)
(* far as the tab can tell: the session, the log its output is replayed    *)
(* from (SessionOutputLog), who it is attached to, and which link of the   *)
(* device the helper in between believes that to be (RemoteClient).        *)
(*                                                                         *)
(* The transport and the main actor run side by side.  A handler of the    *)
(* transport is two steps: its work, and the hop of its event to the main  *)
(* actor, where events are applied in the order they came (`main`).  The   *)
(* store may replace the transport in between, and nothing tells the event *)
(* of a replaced transport from one of its successor.                      *)
(*                                                                         *)
(* The tab was picked from the host's list: it always has a session to     *)
(* attach to and never opens one.                                          *)
(***************************************************************************)
EXTENDS Naturals, Sequences, FiniteSets

CONSTANTS
    capacity,    \* bytes of a replay: SessionOutputLog.capacity
    MaxOutput,   \* bound: bytes the session prints
    MaxTakes,    \* bound: times somebody else takes the session
    MaxLinks,    \* bound: links the tab makes to a quiet session,
    BusyLinks,   \* bound: and to one that prints or is taken
    None,        \* nobody, nothing
    Other        \* a window of the host, or another device

ASSUME RemoteTabAssumption ==
    /\ capacity \in Nat \ {0}
    /\ MaxOutput \in Nat
    /\ MaxLinks \in Nat \ {0} /\ BusyLinks \in 1 .. MaxLinks
    /\ MaxTakes \in Nat
    /\ None \notin Nat /\ Other \notin Nat /\ None # Other

Links == 1 .. MaxLinks
NoLink == 0          \* the transport has no connection

VARIABLES
    alive,       \* the session's process runs
    closing,     \* the session was told to end
    produced,    \* SessionOutputLog.endOffset
    startOffset, \* SessionOutputLog.startOffset
    reader,      \* registry.attachments of the session
    holds,       \* the link whose RemoteClient.heldSessions has the session
    hostOpen,    \* the links whose host end is open
    req,         \* frames under way to the host on each link
    rep,         \* frames under way to the transport on the link it has
    cut,         \* the links that died; each end finds out on its own
    link,        \* the transport's connection
    phase,       \* how far the transport has come with it
    resume,      \* the transport has a resumeSessionID
    box,         \* the tab's DaemonSessionBox has the session's id
    deferredEnd, \* an end asked for while negotiating
    position,    \* SessionOutputPosition's offset, or None
    screen,      \* the bytes in the terminal
    status,      \* the store's status, and how the tab ended once it has
    main,        \* transport events the main actor has not run yet
    hop,         \* handlers still running, with the events they end in
    lastWord,    \* the transport the last event of `main` came from
    retrying,    \* reconnectAttempt > 0
    timer,       \* a reconnect is scheduled with the current generation
    used,        \* links made so far
    kill,        \* a killSession is under way on a link of its own
    takes,       \* times somebody else took the session
    quiet,       \* bound: nobody takes the session, it prints nothing and stays
    unheard      \* why a close the user asked for was not carried out

hostVars == <<alive, closing, produced, startOffset, reader, holds, takes, quiet>>
wireVars == <<hostOpen, req, rep, cut>>
transportVars == <<link, phase, resume, deferredEnd>>
viewVars == <<position, screen>>
storeVars == <<status, main, hop, lastWord, retrying, timer, used, box>>
endVars == <<kill, unheard>>
vars == <<hostVars, wireVars, transportVars, viewVars, storeVars, endVars>>

(* What a terminal shows of its session's output.                          *)
View == INSTANCE TerminalView WITH produced <- produced, screen <- screen

Stretch(a, b) == View!Stretch(a, b)

Init ==
    /\ alive = TRUE /\ closing = FALSE
    /\ produced = 0 /\ startOffset = 0
    /\ reader = None /\ holds = None /\ takes = 0 /\ quiet \in BOOLEAN
    /\ hostOpen = {} /\ cut = {}
    /\ req = [n \in Links |-> <<>>] /\ rep = <<>>
    /\ link = NoLink /\ phase = "none"
    /\ resume = TRUE /\ deferredEnd = None
    /\ position = None /\ screen = <<>>
    /\ status = "idle" /\ main = <<>> /\ retrying = FALSE /\ timer = FALSE
    /\ hop = {} /\ lastWord = 0 /\ used = 0 /\ box = TRUE
    /\ kill = FALSE /\ unheard = {}

-----------------------------------------------------------------------------
(* The session and its log.                                                *)

(* What the host sends down a link is read only at the other end of it.    *)
sent(n, m) == IF n \in hostOpen /\ n = link THEN Append(rep, m) ELSE rep

toReader(m) == IF reader \in Links THEN sent(reader, m) ELSE rep

(* SessionOutputLog.append: cut back to `capacity` past twice of it.       *)
trimmed(end) == IF end - startOffset > 2 * capacity THEN end - capacity ELSE startOffset

(* The process prints a byte; a link nobody reads at the other end any     *)
(* more loses it.                                                          *)
Prints ==
    /\ alive
    /\ ~quiet /\ produced < MaxOutput
    /\ produced' = produced + 1
    /\ startOffset' = trimmed(produced + 1)
    /\ rep' = toReader([kind |-> "output", data |-> <<produced + 1>>])
    /\ UNCHANGED <<alive, closing, reader, holds, takes, quiet, hostOpen, req, cut,
                   transportVars, viewVars, storeVars, endVars>>

(* It exits, of its own or because it was told to.                         *)
SessionExits ==
    /\ alive
    /\ quiet => closing
    /\ alive' = FALSE
    /\ rep' = toReader([kind |-> "exit"])
    /\ reader' = None
    /\ UNCHANGED <<closing, produced, startOffset, holds, takes, quiet, hostOpen, req, cut,
                   transportVars, viewVars, storeVars, endVars>>

(* Somebody else takes the session, and lets go of it.                     *)
OtherTakes ==
    /\ alive /\ reader # Other
    /\ ~quiet /\ takes < MaxTakes
    /\ takes' = takes + 1
    /\ rep' = toReader([kind |-> "taken"])
    /\ reader' = Other
    /\ UNCHANGED <<alive, closing, produced, startOffset, holds, quiet, hostOpen, req, cut,
                   transportVars, viewVars, storeVars, endVars>>

OtherLetsGo ==
    /\ reader = Other
    /\ reader' = None
    /\ UNCHANGED <<alive, closing, produced, startOffset, holds, takes, quiet, wireVars,
                   transportVars, viewVars, storeVars, endVars>>

-----------------------------------------------------------------------------
(* The host's end of a link.                                               *)

\* Mutation: an offset the log no longer reaches back to is taken.
reachesAny(offset) == offset # None

(* SessionOutputLog.replay: the bytes after the offset are all still here, *)
(* and no more than a replay's worth.                                      *)
reaches(offset) ==
    /\ offset # None
    /\ offset >= startOffset /\ offset <= produced
    /\ produced - offset <= capacity

larger(a, b) == IF a > b THEN a ELSE b

(* SessionOutputLog.rebuilt: the screen, from the last `capacity` bytes.   *)
rebuilt == Stretch(larger(startOffset, produced - capacity), produced)

(* PeerSession.describe.  Stretch(offset, ..) starts where buffer does     *)
(* when the offset is older than the buffer, which `reaches` rules out.    *)
described(offset) ==
    IF reaches(offset)
    THEN [kind |-> "attached", resumed |-> TRUE, offset |-> produced,
          data |-> Stretch(larger(startOffset, offset), produced)]
    ELSE [kind |-> "attached", resumed |-> FALSE, offset |-> produced, data |-> rebuilt]

(* RemoteClient.stamped: a session the helper believes another link of the *)
(* device to hold is taken over, whatever the device asked for.            *)
stamped(n, m) == m.takeover \/ holds \in Links \ {n}

(* PeerSession.attachSession, SessionRegistry.attach.                      *)
mayAttach(n, m) == alive /\ (reader \in {None, n} \/ stamped(n, m))

attachReply(n, m) ==
    IF ~alive THEN [kind |-> "unknown"]
    ELSE IF mayAttach(n, m) THEN described(m.offset)
    ELSE [kind |-> "busy"]

(* SessionRegistry.attach tells whoever it is taken from, the device's own *)
(* other link included.  Only one of the links has a reader at its end.    *)
displacing(n, m) ==
    IF mayAttach(n, m) /\ reader # n THEN toReader([kind |-> "taken"]) ELSE rep

(* RemoteClient.forward: letting go is known the moment it is sent.        *)
letGo(n) == IF holds = n THEN None ELSE holds

(* The helper takes the oldest frame of an open link, and the daemon does  *)
(* what it asks.                                                           *)
HostTakes(n) ==
    /\ n \in hostOpen
    /\ req[n] # <<>>
    /\ req' = [req EXCEPT ![n] = Tail(@)]
    /\ LET m == Head(req[n]) IN
         \/ /\ m.kind = "hello"
            /\ rep' = sent(n, [kind |-> "helloOK"])
            /\ UNCHANGED <<reader, holds, closing, hostOpen>>
         \/ /\ m.kind = "attach"
            /\ rep' = IF n = link THEN sent(n, attachReply(n, m)) ELSE displacing(n, m)
            /\ reader' = IF mayAttach(n, m) THEN n ELSE reader
            /\ holds' = IF mayAttach(n, m) THEN n ELSE holds
            /\ UNCHANGED <<closing, hostOpen>>
         \/ /\ m.kind = "detach"
            /\ reader' = IF reader = n THEN None ELSE reader
            /\ holds' = letGo(n)
            /\ UNCHANGED <<rep, closing, hostOpen>>
         \/ /\ m.kind = "close"
            /\ closing' = TRUE
            /\ holds' = letGo(n)
            /\ UNCHANGED <<rep, reader, hostOpen>>
         \/ /\ m.kind = "fin"
            /\ hostOpen' = hostOpen \ {n}
            /\ UNCHANGED <<rep, reader, holds, closing>>
    /\ UNCHANGED <<alive, produced, startOffset, takes, quiet, cut,
                   transportVars, viewVars, storeVars, endVars>>

(* It finds the link dead: what had not come yet never does.               *)
HostLosesLink(n) ==
    /\ n \in cut \cap hostOpen
    /\ hostOpen' = hostOpen \ {n}
    /\ req' = [req EXCEPT ![n] = <<>>]
    /\ unheard' = IF \E i \in DOMAIN req[n] : req[n][i].kind = "close"
                  THEN unheard \cup {"lost"} ELSE unheard
    /\ UNCHANGED <<hostVars, rep, cut, transportVars, viewVars, storeVars, kill>>

(* RemoteClient.daemonEvent: the helper hears that the session was taken,  *)
(* or ended.                                                               *)
HelperHears ==
    /\ holds \in Links
    /\ reader # holds
    /\ holds' = None
    /\ UNCHANGED <<alive, closing, produced, startOffset, reader, takes, quiet, wireVars,
                   transportVars, viewVars, storeVars, endVars>>

(* RemoteClient.endLinger: the grace of a link that held the session and   *)
(* ended is over.                                                          *)
LingerEnds ==
    /\ holds \in Links \ hostOpen
    /\ holds' = None
    /\ UNCHANGED <<alive, closing, produced, startOffset, reader, takes, quiet, wireVars,
                   transportVars, viewVars, storeVars, endVars>>

(* The daemon hears that the peer of a link is gone, which neither the     *)
(* device nor the helper wants any more.                                   *)
PeerGone ==
    /\ reader \in Links \ hostOpen
    /\ holds # reader
    /\ reader' = None
    /\ UNCHANGED <<alive, closing, produced, startOffset, holds, takes, quiet, wireVars,
                   transportVars, viewVars, storeVars, endVars>>

(* A killSession over its own link: tried once, and lost if that fails.    *)
KillArrives ==
    /\ kill
    /\ kill' = FALSE
    /\ \/ closing' = TRUE /\ UNCHANGED unheard
       \/ unheard' = unheard \cup {"lost"} /\ UNCHANGED closing
    /\ UNCHANGED <<alive, produced, startOffset, reader, holds, takes, quiet, wireVars,
                   transportVars, viewVars, storeVars>>

(* The links the tab may make; the last of them does not die.              *)
linkLimit == IF quiet THEN MaxLinks ELSE BusyLinks

(* A link dies.                                                            *)
Cut ==
    /\ link \in Links \ cut
    /\ link < linkLimit
    /\ cut' = cut \cup {link}
    /\ UNCHANGED <<hostVars, hostOpen, req, rep, transportVars, viewVars, storeVars, endVars>>

-----------------------------------------------------------------------------
(* The transport.                                                          *)

Gone == {"closed", "detached", "ended"}
Negotiating == {"hello", "attach"}

(* The transport's queue is serial: nothing else runs on it before the     *)
(* handler that is running has handed its event over.                      *)
Speaking == \E x \in hop : x.from = used

\* Mutation: an event that finds another on its way is dropped.
toldOnePending(events) ==
    IF status \in Gone \/ main # <<>> THEN hop ELSE hop \cup {[from |-> used, says |-> events]}

(* The handler ends in an emit; a store that went with its tab is told     *)
(* nothing.                                                                *)
told(events) ==
    IF status \in Gone THEN hop ELSE hop \cup {[from |-> used, says |-> events]}

(* transport.onEvent's hop to the main actor, of the transport of the      *)
(* moment or of one replaced since: no event says which.                   *)
HandsOver ==
    \E x \in hop :
        /\ hop' = hop \ {x}
        /\ main' = main \o x.says
        /\ lastWord' = x.from
        /\ UNCHANGED <<hostVars, wireVars, transportVars, viewVars, endVars,
                       status, retrying, timer, used, box>>

(* dropConnection.                                                         *)
drop ==
    /\ link' = NoLink
    /\ phase' = "none"
    /\ deferredEnd' = None
    /\ rep' = <<>>

(* The last frames, and the end of the link behind them.                   *)
hangUp(kinds) ==
    /\ req' = IF link \in hostOpen
              THEN [req EXCEPT ![link] = @ \o [i \in DOMAIN kinds |-> [kind |-> kinds[i]]]
                                            \o <<[kind |-> "fin"]>>]
              ELSE req
    /\ drop

(* A close sent on a link whose other end has gone already.                *)
sentInVain(kinds) ==
    IF link \notin hostOpen /\ \E i \in DOMAIN kinds : kinds[i] = "close"
    THEN unheard \cup {"lost"} ELSE unheard

(* The oldest frame for the transport is one of these.  The helper knows   *)
(* of a taking or an exit before it passes the word on.                    *)
arrived(kinds) ==
    /\ ~Speaking
    /\ rep # <<>>
    /\ Head(rep).kind \in kinds
    /\ Head(rep).kind \in {"taken", "exit"} => holds # link

(* The hello is answered; the attach left behind it.                       *)
HelloAnswered ==
    /\ arrived({"helloOK"})
    /\ rep' = Tail(rep)
    /\ phase' = "attach"
    /\ UNCHANGED <<hostVars, hostOpen, req, cut, link, resume, deferredEnd,
                   viewVars, storeVars, endVars>>

(* A continuation is live output, late; anything else is a clean slate.    *)
shownWith(m) == IF m.resumed THEN screen \o m.data ELSE m.data

(* The attach is granted, and its reply is used.                           *)
Attached ==
    /\ arrived({"attached"})
    /\ rep' = Tail(rep)
    /\ deferredEnd = None
    /\ screen' = shownWith(Head(rep))
    /\ position' = Head(rep).offset
    /\ phase' = "attached"
    /\ hop' = told(<<"connected">>)
    /\ UNCHANGED <<hostVars, hostOpen, req, cut, link, resume, deferredEnd,
                   status, main, lastWord, retrying, timer, used, box, endVars>>

(* settleDeferredEnd: the end asked for meanwhile is carried out on the    *)
(* session the reply named, or on nothing when it named none.              *)
settlement(m) == IF m.kind = "attached" THEN <<deferredEnd>> ELSE <<>>

SettleDeferredEnd ==
    /\ arrived({"attached", "busy", "unknown"})
    /\ deferredEnd # None
    /\ LET m == Head(rep) IN
         /\ hangUp(settlement(m))
         /\ unheard' = IF m.kind = "busy" /\ deferredEnd = "close"
                       THEN unheard \cup {"busy"} ELSE sentInVain(settlement(m))
    /\ resume' = IF deferredEnd = "close" THEN FALSE ELSE resume
    /\ hop' = told(<<"disconnected">>)
    /\ UNCHANGED <<hostVars, hostOpen, cut, viewVars,
                   status, main, lastWord, retrying, timer, used, box, kill>>

(* noteHeldElsewhere: refused because another has it, or taken.            *)
HeldElsewhere ==
    /\ deferredEnd = None
    /\ arrived({"busy", "taken"})
    /\ hangUp(<<>>)
    /\ hop' = told(<<"elsewhere">>)
    /\ UNCHANGED <<hostVars, hostOpen, cut, resume, viewVars,
                   status, main, lastWord, retrying, timer, used, box, endVars>>

(* The session is gone, as the attach's reply or an event has it: the id   *)
(* is forgotten, and the tab closes.                                       *)
SessionEnded ==
    /\ deferredEnd = None
    /\ arrived({"unknown", "exit"})
    /\ hangUp(<<>>)
    /\ resume' = FALSE
    /\ box' = FALSE
    /\ hop' = told(<<"exit", "disconnected">>)
    /\ UNCHANGED <<hostVars, hostOpen, cut, viewVars,
                   status, main, lastWord, retrying, timer, used, endVars>>

(* SessionOutputPosition.advance.                                          *)
advanced(n) == position + n

Output ==
    /\ arrived({"output"})
    /\ rep' = Tail(rep)
    /\ screen' = screen \o Head(rep).data
    /\ position' = advanced(Len(Head(rep).data))
    /\ UNCHANGED <<hostVars, hostOpen, req, cut, transportVars, storeVars, endVars>>

\* Mutation: a close asked for meanwhile goes with the connection.
noKillOnOwnLink == kill

(* closeDeferredWithoutLink: a close deferred on a link that failed goes   *)
(* over a link of its own.                                                 *)
killOnOwnLink == kill \/ (deferredEnd = "close" /\ resume)

(* RemoteDaemonLink.finish: what is unanswered is answered empty, then the *)
(* loss is told.  An attach or hello it fails ends the attempt; a link     *)
(* that was up is an interruption.                                         *)
LinkLost ==
    /\ ~Speaking
    /\ link \in cut
    /\ drop
    /\ \/ /\ phase \in Negotiating
          /\ kill' = killOnOwnLink
          /\ resume' = (resume /\ deferredEnd # "close")
          /\ hop' = told(<<"disconnected">>)
       \/ /\ phase = "attached"
          /\ hop' = told(<<"interrupted">>)
          /\ UNCHANGED <<kill, resume>>
    /\ UNCHANGED <<hostVars, hostOpen, req, cut, viewVars,
                   status, main, lastWord, retrying, timer, used, box, unheard>>

(* No hello in 20 s.                                                       *)
HelloTimeout ==
    /\ ~Speaking
    /\ phase = "hello"
    /\ link < linkLimit
    /\ hangUp(<<>>)
    /\ kill' = killOnOwnLink
    /\ resume' = (resume /\ deferredEnd # "close")
    /\ hop' = told(<<"disconnected">>)
    /\ UNCHANGED <<hostVars, hostOpen, cut, viewVars,
                   status, main, lastWord, retrying, timer, used, box, unheard>>

-----------------------------------------------------------------------------
(* The store, on the main actor.                                           *)

(* Where an attach says the terminal stands.                               *)
heldOffset == position

(* connect: a new transport takes the place of the last, which cancels     *)
(* its link as it goes; a handler of it that is running still hands its    *)
(* event over, behind the new one's.  The hello leaves at once, the attach *)
(* behind it.                                                              *)
connect(takingOver) ==
    /\ status \notin Gone
    /\ box
    /\ used < linkLimit
    /\ LET n == used + 1
           ended == IF link \in hostOpen THEN [req EXCEPT ![link] = Append(@, [kind |-> "fin"])]
                                         ELSE req IN
         /\ used' = n /\ link' = n
         /\ hostOpen' = hostOpen \cup {n}
         /\ req' = [ended EXCEPT ![n] =
              <<[kind |-> "hello"],
                [kind |-> "attach", offset |-> heldOffset, takeover |-> takingOver]>>]
    /\ rep' = <<>>
    /\ phase' = "hello"
    /\ resume' = TRUE
    /\ deferredEnd' = None
    /\ timer' = FALSE
    /\ main' = Append(main, "connecting")
    /\ lastWord' = used + 1
    /\ UNCHANGED <<hostVars, cut, viewVars, status, hop, retrying, box, endVars>>

FirstConnect == used = 0 /\ connect(TRUE)

(* The back-off of scheduleReconnect is over.                              *)
RetryFires == timer /\ connect(FALSE)

(* The app came forward, or the network came back: the wait is cut short,  *)
(* whether the attempt it is for is waiting or already out.                *)
ReconnectNow ==
    /\ \/ status = "connecting" /\ retrying
       \/ status = "failed"
    /\ connect(FALSE)

(* Use Here.                                                               *)
TakeOver == status = "elsewhere" /\ connect(TRUE)

\* Mutation: the retry remembers the generation before it moves on.
scheduleReconnectStale ==
    \/ status' = "connecting" /\ retrying' = TRUE /\ timer' = FALSE
    \/ retrying /\ status' = "failed" /\ retrying' = FALSE /\ UNCHANGED timer

(* scheduleReconnect: another try, or the end of the patience.             *)
scheduleReconnect ==
    \/ status' = "connecting" /\ retrying' = TRUE /\ timer' = TRUE
    \/ retrying /\ status' = "failed" /\ retrying' = FALSE /\ UNCHANGED timer

(* apply: the oldest event the transports left for the main actor.         *)
Apply ==
    /\ main # <<>>
    /\ main' = Tail(main)
    /\ LET event == Head(main) IN
         \/ /\ event = "connecting"
            /\ status' = "connecting" /\ UNCHANGED <<retrying, timer>>
         \/ /\ event = "connected"
            /\ status' = "connected" /\ retrying' = FALSE /\ UNCHANGED timer
         \/ /\ event = "elsewhere"
            /\ status' = "elsewhere" /\ retrying' = FALSE /\ UNCHANGED timer
         \/ event = "interrupted" /\ scheduleReconnect
         \/ event = "disconnected" /\ retrying /\ scheduleReconnect
         \/ /\ event = "disconnected" /\ ~retrying
            /\ status' = "failed" /\ UNCHANGED <<retrying, timer>>
    /\ UNCHANGED <<hostVars, wireVars, transportVars, viewVars, hop, lastWord, used, box, endVars>>

(* The tab goes, and its store with it.                                    *)
leaves(how) ==
    /\ status' = how
    /\ main' = <<>> /\ hop' = {}
    /\ retrying' = FALSE /\ timer' = FALSE
    /\ UNCHANGED <<lastWord, used, box>>

(* The session ended: so does the tab.                                     *)
TabEnds ==
    /\ main # <<>>
    /\ Head(main) = "exit"
    /\ leaves("ended")
    /\ UNCHANGED <<hostVars, wireVars, transportVars, viewVars, endVars>>

\* Mutation: an end is only ever carried out on the link there is.
deferredNever(end) == deferredEnd

(* deferEnd: recorded for the reply that ends the negotiation.             *)
deferred(end) == end

(* TerminalTab.close: the close, then the disconnect, which a close        *)
(* deferred already outranks.                                              *)
CloseTab ==
    /\ status \notin Gone
    /\ leaves("closed")
    /\ \/ /\ phase \in Negotiating
          /\ deferredEnd' = deferred("close")
          /\ UNCHANGED <<link, phase, resume, req, rep, kill, unheard>>
       \/ /\ phase = "attached"
          /\ hangUp(<<"close", "detach">>)
          /\ unheard' = sentInVain(<<"close", "detach">>)
          /\ resume' = FALSE
          /\ UNCHANGED kill
       \/ /\ phase = "none"
          /\ kill' = (kill \/ resume)
          /\ resume' = FALSE
          /\ UNCHANGED <<link, phase, deferredEnd, req, rep, unheard>>
    /\ UNCHANGED <<hostVars, hostOpen, cut, viewVars>>

(* TerminalTab.detach.                                                     *)
DetachTab ==
    /\ status \notin Gone
    /\ leaves("detached")
    /\ \/ /\ phase \in Negotiating
          /\ deferredEnd' = deferred("detach")
          /\ UNCHANGED <<link, phase, req, rep>>
       \/ /\ phase = "attached"
          /\ hangUp(<<"detach">>)
       \/ /\ phase = "none"
          /\ UNCHANGED <<link, phase, deferredEnd, req, rep>>
    /\ UNCHANGED <<hostVars, hostOpen, cut, resume, viewVars, endVars>>

-----------------------------------------------------------------------------
Next ==
    \/ Prints \/ SessionExits \/ OtherTakes \/ OtherLetsGo
    \/ \E n \in Links : HostTakes(n) \/ HostLosesLink(n)
    \/ HelperHears \/ LingerEnds \/ PeerGone \/ KillArrives \/ Cut
    \/ HelloAnswered \/ Attached \/ SettleDeferredEnd \/ HeldElsewhere
    \/ SessionEnded \/ Output \/ LinkLost \/ HelloTimeout \/ HandsOver
    \/ FirstConnect \/ RetryFires \/ ReconnectNow \/ TakeOver
    \/ Apply \/ TabEnds \/ CloseTab \/ DetachTab

(* Queues are drained and timers fire; a session told to end does (it is   *)
(* killed after two seconds), a dead link is found out by silence, and a   *)
(* handler that runs comes to its end.                                     *)
Fairness ==
    /\ \A n \in Links : WF_vars(HostTakes(n)) /\ WF_vars(HostLosesLink(n))
    /\ WF_vars(HelperHears) /\ WF_vars(LingerEnds) /\ WF_vars(PeerGone) /\ WF_vars(KillArrives)
    /\ WF_vars(closing /\ SessionExits)
    /\ WF_vars(HelloAnswered) /\ WF_vars(Attached) /\ WF_vars(SettleDeferredEnd)
    /\ WF_vars(HeldElsewhere) /\ WF_vars(SessionEnded) /\ WF_vars(Output)
    /\ WF_vars(LinkLost) /\ WF_vars(HandsOver) /\ WF_vars(RetryFires)
    /\ WF_vars(Apply) /\ WF_vars(TabEnds)

Spec == Init /\ [][Next]_vars /\ Fairness

-----------------------------------------------------------------------------
(* Types.                                                                  *)
TypeOK ==
    /\ alive \in BOOLEAN /\ closing \in BOOLEAN
    /\ produced \in 0 .. MaxOutput /\ startOffset \in 0 .. produced
    /\ reader \in Links \cup {None, Other} /\ holds \in Links \cup {None}
    /\ hostOpen \subseteq Links /\ cut \subseteq Links
    /\ link \in Links \cup {NoLink}
    /\ phase \in {"none", "hello", "attach", "attached"}
    /\ (phase = "none") = (link = NoLink)
    /\ deferredEnd \in {None, "detach", "close"}
    /\ position \in 0 .. MaxOutput \cup {None}
    /\ status \in {"idle", "connecting", "connected", "elsewhere", "failed"} \cup Gone
    /\ used \in 0 .. MaxLinks /\ lastWord \in 0 .. used
    /\ \A x \in hop : x.from \in 1 .. used

(* The terminal shows one unbroken stretch of the session's output: across *)
(* any number of links lost at any point, every byte the tab adds is the   *)
(* next one, or the whole screen is rebuilt and no older than before       *)
(* (SessionOutputPosition, SessionOutputLog.replay, the attach's reply).   *)
ShowsTheOutput == View!Spec

(* Once the transport of the moment has had the last word, and the store   *)
(* has heard it, the tab says it is connected exactly while the transport  *)
(* is attached, whatever the transports before it said and however late.   *)
(* An event of a replaced transport that comes behind its successor's      *)
(* leaves the status wrong only until the successor says something again   *)
(* (TerminalSessionStore.connect and apply, onEvent's hop).                *)
StatusIsTrue ==
    main = <<>> /\ ~Speaking /\ lastWord = used /\ status \notin Gone
        => (status = "connected") = (phase = "attached")

(* A tab that is not at rest comes to show all there is: a lost link is    *)
(* replaced, however often, until the session is elsewhere, ended, given   *)
(* up on or let go of (scheduleReconnect, openOrAttachSession).  A tab     *)
(* that gave up may still say connected, on the late word of a transport   *)
(* it had replaced.                                                        *)
Misled == status = "connected" /\ phase = "none" /\ lastWord # used
AtRest == status \in Gone \cup {"idle", "elsewhere", "failed"} \/ ~alive
CatchesUp == []<>(AtRest \/ Misled \/ View!Newest = produced)

(* A session whose tab was closed ends, wherever the close caught the tab: *)
(* with the link up, with the attach out, with no link at all.  It does    *)
(* not when the close was on a link that died, or another has the session  *)
(* (closeSession, settleDeferredEnd, closeDeferredWithoutLink).            *)
ClosedTabEndsSession == status = "closed" ~> ~alive \/ unheard # {}

(* A tab that is gone lets go of its session, whatever its transport was   *)
(* in the middle of (disconnect, deferEnd, the end of a linger).           *)
GoneTabLetsGo == status \in Gone ~> [](reader \notin Links)

(* A tab says its session is in use elsewhere only when somebody else took *)
(* it: a device's own earlier connection is "taken over quietly; nobody    *)
(* else was using it" (RemoteClient.stamped).                              *)
ElsewhereMeansTaken == status = "elsewhere" => takes > 0
=============================================================================
