--------------------------- MODULE SessionRegistry ---------------------------
(***************************************************************************)
(* The io process's store of live sessions and the peers attached to them  *)
(* (SessionRegistry.swift, PeerSession.swift, and the peer table of        *)
(* IOHost.swift).  A session belongs to the registry; at most one peer is  *)
(* attached to it, possibly on behalf of a device (its holder); a peer     *)
(* keeps its own set of ids it may write to; watchers are told which       *)
(* sessions a device holds.                                                *)
(*                                                                         *)
(* Every handler runs to its end on one serial queue, so one request is    *)
(* one step.  What clients are sent is kept as what a client that applies  *)
(* it in order believes: `view` from the replies and events about its own  *)
(* sessions, `shown` from the watcher events.  The child process behind a  *)
(* session is module PTYLifecycle; here a session may exit at any time.    *)
(***************************************************************************)
EXTENDS Integers, FiniteSets

CONSTANTS
    Peers,               \* client connections; the proxy never reuses an id
    Ids,                 \* session ids (SessionIDReservation: never reused)
    Devices,             \* device names a request may carry as `holder`
    None,
    maximumSessions,
    maximumSessionsPerPeer

ASSUME NoneAssumption == None \notin Peers /\ None \notin Devices
ASSUME LimitsAssumption ==
    maximumSessions \in Nat \ {0} /\ maximumSessionsPerPeer \in Nat \ {0}

VARIABLES
    running,           \* the io process has not exited after a shutdown
    gone,              \* peers the proxy has reported gone
    peers,             \* IOHost.peers: those with a PeerSession
    didHandshake,      \* peers whose PeerSession saw `hello`
    attachedSessionIDs,\* PeerSession.attachedSessionIDs
    watchers,          \* SessionRegistry.watchers
    used,              \* ids taken so far
    sessions,          \* SessionRegistry.sessions
    attachments,       \* SessionRegistry.attachments
    holders,           \* SessionRegistry.holders
    closing,           \* ids with a close grace timer armed
    isOutputPaused,    \* SessionRegistry.isOutputPaused
    paused,            \* sessions whose PTY is not being read
    view,              \* what each client was told of each session
    shown              \* the device each watcher was told holds a session

registryVars == <<used, sessions, attachments, holders, closing>>
peerVars == <<gone, peers, didHandshake, attachedSessionIDs, watchers>>
pauseVars == <<isOutputPaused, paused>>
clientVars == <<view, shown>>
vars == <<running, peerVars, registryVars, pauseVars, clientVars>>

TypeOK ==
    /\ running \in BOOLEAN
    /\ gone \subseteq Peers
    /\ peers \subseteq Peers
    /\ didHandshake \subseteq peers
    /\ attachedSessionIDs \in [Peers -> SUBSET Ids]
    /\ watchers \subseteq didHandshake
    /\ used \subseteq Ids
    /\ sessions \subseteq used
    /\ attachments \in [Ids -> Peers \cup {None}]
    /\ holders \in [Ids -> Devices \cup {None}]
    /\ closing \subseteq Ids
    /\ isOutputPaused \in BOOLEAN
    /\ paused \subseteq Ids
    /\ view \in [Peers -> [Ids -> {"none", "mine", "taken", "ended"}]]
    /\ shown \in [Peers -> [Ids -> Devices \cup {None}]]

Init ==
    /\ running = TRUE
    /\ gone = {}
    /\ peers = {}
    /\ didHandshake = {}
    /\ attachedSessionIDs = [p \in Peers |-> {}]
    /\ watchers = {}
    /\ used = {}
    /\ sessions = {}
    /\ attachments = [id \in Ids |-> None]
    /\ holders = [id \in Ids |-> None]
    /\ closing = {}
    /\ isOutputPaused = FALSE
    /\ paused = {}
    /\ view = [p \in Peers |-> [id \in Ids |-> "none"]]
    /\ shown = [p \in Peers |-> [id \in Ids |-> None]]

-----------------------------------------------------------------------------
(* deliverSessionEvent to every watcher in `to`: for the ids in S, the     *)
(* device shown becomes h (`sessionOpened`) or None (`sessionReleased`).   *)
deliverSessionEvent(to, S, h) ==
    [w \in Peers |-> IF w \in to THEN [id \in Ids |-> IF id \in S THEN h ELSE shown[w][id]]
                                 ELSE shown[w]]

\* Mutation: a device taking a session from another is not announced.
toldOfFirstHolder(p, id, h) ==
    IF h # None /\ holders[id] = None THEN watchers ELSE {}

(* `sessionOpened` goes out whenever a device becomes the holder.          *)
toldOfHolder(p, id, h) == IF h # None THEN watchers ELSE {}

(* The requests a peer's connection may still carry, and those a           *)
(* handshake has let through to an operation.                              *)
MayRequest(p) == running /\ p \notin gone
Admitted(p) == MayRequest(p) /\ p \in didHandshake

-----------------------------------------------------------------------------
(* IOHost.handle makes the peer on first sight; `hello` opens the gate.    *)
Hello(p, watch) ==
    /\ MayRequest(p)
    /\ peers' = peers \cup {p}
    /\ didHandshake' = didHandshake \cup {p}
    /\ watchers' = IF watch THEN watchers \cup {p} ELSE watchers
    /\ UNCHANGED <<running, gone, attachedSessionIDs, registryVars, pauseVars, clientVars>>

(* Anything else before `hello` is `handshakeRequired`, but the peer object *)
(* exists from then on.                                                     *)
RequestBeforeHello(p) ==
    /\ MayRequest(p)
    /\ p \notin didHandshake
    /\ peers' = peers \cup {p}
    /\ UNCHANGED <<running, gone, didHandshake, attachedSessionIDs, watchers,
                   registryVars, pauseVars, clientVars>>

(* openSession: both limits, then an id is taken, then the spawn.           *)
MayOpen(p) ==
    /\ Admitted(p)
    /\ Cardinality(attachedSessionIDs[p]) < maximumSessionsPerPeer
    /\ Cardinality(sessions) < maximumSessions

\* Mutation: a session opened while the link is congested reads its PTY.
startsReading == FALSE

(* A session opened while the link is congested starts paused.             *)
startsPaused == isOutputPaused

OpenSession(p, id, h) ==
    /\ MayOpen(p)
    /\ id \notin used
    /\ used' = used \cup {id}
    /\ sessions' = sessions \cup {id}
    /\ paused' = IF startsPaused THEN paused \cup {id} ELSE paused
    /\ attachments' = [attachments EXCEPT ![id] = p]
    /\ holders' = [holders EXCEPT ![id] = h]
    /\ shown' = deliverSessionEvent(toldOfHolder(p, id, h), {id}, h)
    /\ attachedSessionIDs' = [attachedSessionIDs EXCEPT ![p] = @ \cup {id}]
    /\ view' = [view EXCEPT ![p][id] = "mine"]
    /\ UNCHANGED <<running, gone, peers, didHandshake, watchers, closing, isOutputPaused>>

(* The spawn fails after the id was taken: the id is spent, nothing else.  *)
OpenSessionFails(p, id) ==
    /\ MayOpen(p)
    /\ id \notin used
    /\ used' = used \cup {id}
    /\ UNCHANGED <<running, peerVars, sessions, attachments, holders, closing,
                   pauseVars, clientVars>>

-----------------------------------------------------------------------------
(* attach: `sessionBusy` for a session another peer holds unless takeover, *)
(* which detaches that peer and tells it (deliverTaken).  A refused attach *)
(* changes nothing.                                                        *)

\* Mutation: the peer the session is taken from keeps its right to write.
displacesNobody(p, id) == {}

\* Mutation: the peer it is taken from is detached without being told.
toldTakenNobody(p, id) == {}

(* deliverTaken: the peer that loses the session to p.                     *)
displacedBy(p, id) == {attachments[id]} \ {None, p}

(* ... and is sent `sessionTaken`.                                         *)
toldTaken(p, id) == displacedBy(p, id)

AttachSession(p, id, h, takeover) ==
    /\ Admitted(p)
    /\ id \in sessions
    /\ attachments[id] \in {None, p} \/ takeover
    /\ attachedSessionIDs' = [q \in Peers |->
         IF q = p THEN attachedSessionIDs[q] \cup {id}
         ELSE IF q \in displacedBy(p, id) THEN attachedSessionIDs[q] \ {id}
         ELSE attachedSessionIDs[q]]
    /\ view' = [q \in Peers |->
         IF q = p THEN [view[q] EXCEPT ![id] = "mine"]
         ELSE IF q \in toldTaken(p, id) THEN [view[q] EXCEPT ![id] = "taken"]
         ELSE view[q]]
    /\ attachments' = [attachments EXCEPT ![id] = p]
    /\ holders' = [holders EXCEPT ![id] = h]
    /\ shown' = deliverSessionEvent(toldOfHolder(p, id, h), {id}, h)
    /\ UNCHANGED <<running, gone, peers, didHandshake, watchers, used, sessions, closing, pauseVars>>

-----------------------------------------------------------------------------
(* release: the attachment of each id in S ended with the session alive.   *)
(* The watchers in `to` hear of those that were held for a device.         *)
\* Mutation: the holder is forgotten before the watchers are looked at.
releasedFromNobody(S, to) == shown

toldOfRelease(S, to) == deliverSessionEvent(to, {id \in S : holders[id] # None}, None)

release(S) ==
    /\ attachments' = [id \in Ids |-> IF id \in S THEN None ELSE attachments[id]]
    /\ holders' = [id \in Ids |-> IF id \in S THEN None ELSE holders[id]]

DetachSession(p, id) ==
    /\ Admitted(p)
    /\ LET let_go == {id} \cap {i \in Ids : attachments[i] = p} IN
         release(let_go) /\ shown' = toldOfRelease(let_go, watchers)
    /\ attachedSessionIDs' = [attachedSessionIDs EXCEPT ![p] = @ \ {id}]
    /\ view' = [view EXCEPT ![p][id] = "none"]
    /\ UNCHANGED <<running, gone, peers, didHandshake, watchers, used, sessions, closing, pauseVars>>

(* IOHost.removePeer: PeerSession.invalidate, when there is such a peer.   *)
(* detachAll goes by the registry's attachments, so a session p closed but *)
(* is still attached to is let go of too.                                  *)
heldBy(p) == {id \in Ids : p \in peers /\ attachments[id] = p}

watchersWithout(p) == watchers \ {p}

removePeer(p) ==
    /\ peers' = peers \ {p}
    /\ didHandshake' = didHandshake \ {p}
    /\ watchers' = watchersWithout(p)
    /\ release(heldBy(p))
    /\ shown' = [toldOfRelease(heldBy(p), watchersWithout(p))
                   EXCEPT ![p] = [id \in Ids |-> None]]
    /\ attachedSessionIDs' = [attachedSessionIDs EXCEPT ![p] = {}]
    /\ view' = [view EXCEPT ![p] = [id \in Ids |-> "none"]]
    /\ UNCHANGED <<used, sessions, closing>>

Goodbye(p) ==
    /\ Admitted(p)
    /\ removePeer(p)
    /\ UNCHANGED <<running, gone, pauseVars>>

(* The proxy's `peerGone` frame, the last it sends for a peer.             *)
PeerGone(p) ==
    /\ MayRequest(p)
    /\ gone' = gone \cup {p}
    /\ removePeer(p)
    /\ UNCHANGED <<running, pauseVars>>

-----------------------------------------------------------------------------
(* close: not gated on attachment.  SIGHUP, and a timer to take the        *)
(* session if the shell declines.                                          *)

CloseSession(p, id) ==
    /\ Admitted(p)
    /\ id \in sessions
    /\ holders' = [holders EXCEPT ![id] = None]
    /\ closing' = closing \cup {id}
    /\ attachedSessionIDs' = [attachedSessionIDs EXCEPT ![p] = @ \ {id}]
    /\ view' = [view EXCEPT ![p][id] = "none"]
    /\ UNCHANGED <<running, gone, peers, didHandshake, watchers, used, sessions,
                   attachments, pauseVars, shown>>

(* handleExit: the attached peer and every watcher is told, then discard.  *)
\* Mutation: only the attached peer is told.
toldOfExitAttached(id) == {attachments[id]} \ {None}

toldOfExit(id) == watchers \cup ({attachments[id]} \ {None})

handleExit(id) ==
    /\ LET told == toldOfExit(id) IN
         /\ attachedSessionIDs' = [q \in Peers |->
              IF q \in told THEN attachedSessionIDs[q] \ {id} ELSE attachedSessionIDs[q]]
         /\ view' = [q \in Peers |->
              IF q \in told THEN [view[q] EXCEPT ![id] = "ended"] ELSE view[q]]
         /\ shown' = deliverSessionEvent(told, {id}, None)
    /\ attachments' = [attachments EXCEPT ![id] = None]
    /\ holders' = [holders EXCEPT ![id] = None]
    /\ sessions' = sessions \ {id}
    /\ paused' = paused \ {id}
    /\ UNCHANGED <<running, gone, peers, didHandshake, watchers, used, isOutputPaused>>

(* The child was reaped: PTYSession's onExit.                              *)
SessionExits(id) ==
    /\ running
    /\ id \in sessions
    /\ handleExit(id)
    /\ UNCHANGED closing

(* The grace timer; a session that went meanwhile leaves it nothing to do. *)
GraceExpires(id) ==
    /\ running
    /\ id \in closing
    /\ closing' = closing \ {id}
    /\ IF id \in sessions
         THEN handleExit(id)
         ELSE UNCHANGED <<running, peerVars, used, sessions, attachments, holders,
                          pauseVars, clientVars>>

-----------------------------------------------------------------------------
(* Flow control from the proxy link.                                       *)
SetOutputPaused(flag) ==
    /\ running
    /\ flag # isOutputPaused
    /\ isOutputPaused' = flag
    /\ paused' = IF flag THEN sessions ELSE {}
    /\ UNCHANGED <<running, peerVars, registryVars, clientVars>>

(* shutdown: only with nothing held.  (Uploads and an update under way     *)
(* refuse it as well; that only takes the step away.)                      *)
Shutdown(p) ==
    /\ Admitted(p)
    /\ sessions = {}
    /\ running' = FALSE
    /\ UNCHANGED <<peerVars, registryVars, pauseVars, clientVars>>

-----------------------------------------------------------------------------
PeerRequest(p) ==
    \/ \E watch \in BOOLEAN : Hello(p, watch)
    \/ RequestBeforeHello(p)
    \/ Goodbye(p)
    \/ PeerGone(p)
    \/ Shutdown(p)

SessionRequest(p, id) ==
    \/ \E h \in Devices \cup {None} : OpenSession(p, id, h)
    \/ OpenSessionFails(p, id)
    \/ \E h \in Devices \cup {None}, takeover \in BOOLEAN : AttachSession(p, id, h, takeover)
    \/ DetachSession(p, id)
    \/ CloseSession(p, id)

Next ==
    \/ \E p \in Peers : PeerRequest(p) \/ \E id \in Ids : SessionRequest(p, id)
    \/ \E id \in Ids : SessionExits(id) \/ GraceExpires(id)
    \/ \E flag \in BOOLEAN : SetOutputPaused(flag)

Spec == Init /\ [][Next]_vars

-----------------------------------------------------------------------------
(* PeerSession.write and resize accept a request from p for id.            *)
CanWrite(p, id) == p \in didHandshake /\ id \in attachedSessionIDs[p] /\ id \in sessions

(* Whose writes a session takes, and whom its output goes to.              *)
writersOf == [id \in Ids |-> {p \in Peers : CanWrite(p, id)}]
readersOf == [id \in Ids |-> {attachments[id]} \ {None}]

Service == INSTANCE SessionService WITH writers <- writersOf, readers <- readersOf

(* The registry's table and the peers' own lists, moved by separate code   *)
(* on every path (attach, takeover, detach, close, lost link, exit), serve *)
(* each session to one client at a time: it gets writing and output in one *)
(* step, and loses them only by its own doing, to a client that asked, or  *)
(* with the session.                                                       *)
ServesOneClient == Service!Spec

(* A peer's own list and the registry agree: whoever may write is the one  *)
(* peer the registry delivers output to, and the session exists.  Across   *)
(* takeovers, closes by other peers, exits and lost links there is never a *)
(* second writer, nor a writer that cannot see what its input does.        *)
WriterIsAttached ==
    \A p \in Peers : \A id \in attachedSessionIDs[p] :
        CanWrite(p, id) /\ attachments[id] = p

(* A device is on record as holder only while some live peer is attached:  *)
(* no tab is left saying "open on X" after X let go.                       *)
HolderIsAttached ==
    \A id \in Ids : holders[id] # None =>
        id \in sessions /\ attachments[id] \in didHandshake

(* What a client was told decides right: a client that was last told it    *)
(* has a session may write to it, and one whose session was taken or ended *)
(* or that let go of it may not.                                           *)
ClientsKnowWhatTheyHold ==
    \A p \in peers, id \in Ids : view[p][id] = "mine" <=> id \in attachedSessionIDs[p]

(* "Otherwise the app keeps a tab pointing at a session the daemon no      *)
(* longer has": nobody still believes in a session that is gone, neither a *)
(* client as its own nor a watcher as held by a device.                    *)
NobodyKeepsAGoneSession ==
    \A id \in Ids \ sessions :
        /\ \A p \in peers : view[p][id] # "mine"
        /\ \A w \in watchers : shown[w][id] = None

(* A watcher never names one device while the session is held by another.  *)
WatchersNameTheHolder ==
    \A w \in watchers, id \in Ids :
        shown[w][id] # None /\ holders[id] # None => shown[w][id] = holders[id]

(* When the attachment of a device ends with the session alive, by detach  *)
(* or by a lost link, every watcher knows in the same step that the        *)
(* session is free: a tab that lost its terminal gets it back.             *)
ReleaseReachesWatchers ==
    [][\A id \in sessions \cap sessions' :
          holders[id] # None /\ attachments'[id] = None =>
              \A w \in watchers' : shown'[w][id] = None]_vars

(* A congested link stops every PTY, the ones opened since included, and a *)
(* drained one leaves none stopped.                                        *)
PausedTogether == paused = IF isOutputPaused THEN sessions ELSE {}

(* The ceiling that actually holds, however peers come and go.             *)
SessionsBounded == Cardinality(sessions) <= maximumSessions
=============================================================================
