----------------------- MODULE SessionRegistryProofs -----------------------
(***************************************************************************)
(* Proofs about SessionRegistry, for any peers, ids, devices and limits.   *)
(* The registry's table, each PeerSession's own list, what clients were    *)
(* told and what watchers show are four copies of one fact; the inductive  *)
(* invariant says how they are linked.  The last section is about the      *)
(* counter the ids come from (SessionIDReservation).                       *)
(***************************************************************************)
EXTENDS SessionRegistry, SessionIDReservation, FiniteSetTheorems, TLAPS

(* An attached session exists and its peer has shaken hands.               *)
AttachedIsServed ==
    \A id \in Ids : attachments[id] # None => id \in sessions /\ attachments[id] \in didHandshake

(* A peer lists a session only if the registry has it attached there.      *)
ListsAgree == \A p \in Peers : \A id \in attachedSessionIDs[p] : attachments[id] = p

(* A holder is on record only beside an attachment.                        *)
HoldersAttached == \A id \in Ids : holders[id] # None => attachments[id] # None

(* What a client was told is what its PeerSession lists, gone peers too.   *)
ViewsAgree ==
    \A p \in Peers, id \in Ids : view[p][id] = "mine" <=> id \in attachedSessionIDs[p]

(* A device is shown only by a watcher, for a session that exists.         *)
ShownExists ==
    \A p \in Peers, id \in Ids : shown[p][id] # None => p \in watchers /\ id \in sessions

Linked == AttachedIsServed /\ ListsAgree /\ HoldersAttached /\ ViewsAgree /\ ShownExists

IInv == TypeOK /\ Linked

USE NoneAssumption
-----------------------------------------------------------------------------
(* The initial state is linked: nothing is held and nobody was told.       *)
LEMMA InitLinked == Init => IInv
  <1> SUFFICES ASSUME Init PROVE IInv
    OBVIOUS
  <1>1. TypeOK
    BY DEF Init, TypeOK
  <1>2. AttachedIsServed /\ ListsAgree /\ HoldersAttached /\ ShownExists
    BY DEF Init, AttachedIsServed, ListsAgree, HoldersAttached, ShownExists
  <1>3. ViewsAgree
    BY DEF Init, ViewsAgree
  <1> QED BY <1>1, <1>2, <1>3 DEF IInv, Linked

(* A hello adds a peer and links nothing.                                 *)
LEMMA HelloLinked ==
  ASSUME IInv, NEW p \in Peers, NEW watch \in BOOLEAN, Hello(p, watch)
  PROVE  IInv'
  <1> USE DEF IInv, Linked, Hello, MayRequest
  <1>1. TypeOK'
    BY DEF TypeOK, registryVars, peerVars, pauseVars, clientVars
  <1>2. AttachedIsServed'
    BY DEF TypeOK, AttachedIsServed, registryVars, peerVars, pauseVars, clientVars
  <1>3. ListsAgree'
    BY DEF TypeOK, ListsAgree, AttachedIsServed, registryVars, peerVars, pauseVars, clientVars
  <1>4. HoldersAttached'
    BY DEF TypeOK, HoldersAttached, ListsAgree, registryVars, peerVars, pauseVars, clientVars
  <1>5. ViewsAgree'
    BY DEF TypeOK, ViewsAgree, ListsAgree, registryVars, peerVars, pauseVars, clientVars
  <1>6. ShownExists'
    BY DEF TypeOK, ShownExists, HoldersAttached, AttachedIsServed, registryVars, peerVars, pauseVars, clientVars
  <1> QED BY <1>1, <1>2, <1>3, <1>4, <1>5, <1>6

(* A new session is linked to its opener alone.                           *)
LEMMA OpenLinked ==
  ASSUME IInv, NEW p \in Peers, NEW id \in Ids, NEW h \in Devices \cup {None},
         OpenSession(p, id, h)
  PROVE  IInv'
  <1> USE DEF IInv, Linked, OpenSession, MayOpen, Admitted, MayRequest, startsPaused, toldOfHolder, deliverSessionEvent
  <1>1. TypeOK'
    BY DEF TypeOK, registryVars, peerVars, pauseVars, clientVars
  <1>2. AttachedIsServed'
    BY DEF TypeOK, AttachedIsServed, registryVars, peerVars, pauseVars, clientVars
  <1>3. ListsAgree'
    BY DEF TypeOK, ListsAgree, AttachedIsServed, registryVars, peerVars, pauseVars, clientVars
  <1>4. HoldersAttached'
    BY DEF TypeOK, HoldersAttached, ListsAgree, registryVars, peerVars, pauseVars, clientVars
  <1>5. ViewsAgree'
    BY DEF TypeOK, ViewsAgree, ListsAgree, registryVars, peerVars, pauseVars, clientVars
  <1>6. ShownExists'
    BY DEF TypeOK, ShownExists, HoldersAttached, AttachedIsServed, registryVars, peerVars, pauseVars, clientVars
  <1> QED BY <1>1, <1>2, <1>3, <1>4, <1>5, <1>6

(* An attach moves every link from the displaced peer to the new one.     *)
LEMMA AttachLinked ==
  ASSUME IInv, NEW p \in Peers, NEW id \in Ids, NEW h \in Devices \cup {None},
         NEW takeover \in BOOLEAN, AttachSession(p, id, h, takeover)
  PROVE  IInv'
  <1> USE DEF IInv, Linked, AttachSession, Admitted, MayRequest, displacedBy, toldTaken, toldOfHolder, deliverSessionEvent
  <1>1. TypeOK'
    BY DEF TypeOK, registryVars, peerVars, pauseVars, clientVars
  <1>2. AttachedIsServed'
    BY DEF TypeOK, AttachedIsServed, registryVars, peerVars, pauseVars, clientVars
  <1>3. ListsAgree'
    BY DEF TypeOK, ListsAgree, AttachedIsServed, registryVars, peerVars, pauseVars, clientVars
  <1>4. HoldersAttached'
    BY DEF TypeOK, HoldersAttached, ListsAgree, registryVars, peerVars, pauseVars, clientVars
  <1>5. ViewsAgree'
    BY DEF TypeOK, ViewsAgree, ListsAgree, registryVars, peerVars, pauseVars, clientVars
  <1>6. ShownExists'
    BY DEF TypeOK, ShownExists, HoldersAttached, AttachedIsServed, registryVars, peerVars, pauseVars, clientVars
  <1> QED BY <1>1, <1>2, <1>3, <1>4, <1>5, <1>6

(* A detach drops the links of one session of one peer.                   *)
LEMMA DetachLinked ==
  ASSUME IInv, NEW p \in Peers, NEW id \in Ids, DetachSession(p, id)
  PROVE  IInv'
  <1> USE DEF IInv, Linked, DetachSession, Admitted, MayRequest, release, toldOfRelease, deliverSessionEvent
  <1>1. TypeOK'
    BY DEF TypeOK, registryVars, peerVars, pauseVars, clientVars
  <1>2. AttachedIsServed'
    BY DEF TypeOK, AttachedIsServed, registryVars, peerVars, pauseVars, clientVars
  <1>3. ListsAgree'
    BY DEF TypeOK, ListsAgree, AttachedIsServed, registryVars, peerVars, pauseVars, clientVars
  <1>4. HoldersAttached'
    BY DEF TypeOK, HoldersAttached, ListsAgree, registryVars, peerVars, pauseVars, clientVars
  <1>5. ViewsAgree'
    BY DEF TypeOK, ViewsAgree, ListsAgree, registryVars, peerVars, pauseVars, clientVars
  <1>6. ShownExists'
    BY DEF TypeOK, ShownExists, HoldersAttached, AttachedIsServed, registryVars, peerVars, pauseVars, clientVars
  <1> QED BY <1>1, <1>2, <1>3, <1>4, <1>5, <1>6

(* A removed peer takes all its links with it.                            *)
LEMMA RemovePeerLinked ==
  ASSUME IInv, NEW p \in Peers, removePeer(p), UNCHANGED <<running, pauseVars>>, gone' \subseteq Peers
  PROVE  IInv'
  <1> USE DEF IInv, Linked, removePeer, heldBy, watchersWithout, release, toldOfRelease, deliverSessionEvent
  <1>1. TypeOK'
    BY DEF TypeOK, registryVars, peerVars, pauseVars, clientVars
  <1>2. AttachedIsServed'
    BY DEF TypeOK, AttachedIsServed, registryVars, peerVars, pauseVars, clientVars
  <1>3. ListsAgree'
    BY DEF TypeOK, ListsAgree, AttachedIsServed, registryVars, peerVars, pauseVars, clientVars
  <1>4. HoldersAttached'
    BY DEF TypeOK, HoldersAttached, ListsAgree, registryVars, peerVars, pauseVars, clientVars
  <1>5. ViewsAgree'
    BY DEF TypeOK, ViewsAgree, ListsAgree, registryVars, peerVars, pauseVars, clientVars
  <1>6. ShownExists'
    BY DEF TypeOK, ShownExists, HoldersAttached, AttachedIsServed, registryVars, peerVars, pauseVars, clientVars
  <1> QED BY <1>1, <1>2, <1>3, <1>4, <1>5, <1>6

(* A close forgets the holder and the closer's links.                     *)
LEMMA CloseLinked ==
  ASSUME IInv, NEW p \in Peers, NEW id \in Ids, CloseSession(p, id)
  PROVE  IInv'
  <1> USE DEF IInv, Linked, CloseSession, Admitted, MayRequest
  <1>1. TypeOK'
    BY DEF TypeOK, registryVars, peerVars, pauseVars, clientVars
  <1>2. AttachedIsServed'
    BY DEF TypeOK, AttachedIsServed, registryVars, peerVars, pauseVars, clientVars
  <1>3. ListsAgree'
    BY DEF TypeOK, ListsAgree, AttachedIsServed, registryVars, peerVars, pauseVars, clientVars
  <1>4. HoldersAttached'
    BY DEF TypeOK, HoldersAttached, ListsAgree, registryVars, peerVars, pauseVars, clientVars
  <1>5. ViewsAgree'
    BY DEF TypeOK, ViewsAgree, ListsAgree, registryVars, peerVars, pauseVars, clientVars
  <1>6. ShownExists'
    BY DEF TypeOK, ShownExists, HoldersAttached, AttachedIsServed, registryVars, peerVars, pauseVars, clientVars
  <1> QED BY <1>1, <1>2, <1>3, <1>4, <1>5, <1>6

(* An exit drops every link of the session.                               *)
LEMMA ExitLinked ==
  ASSUME IInv, NEW id \in Ids, handleExit(id), closing' \subseteq Ids
  PROVE  IInv'
  <1> USE DEF IInv, Linked, handleExit, toldOfExit, deliverSessionEvent
  <1>1. TypeOK'
    BY DEF TypeOK, registryVars, peerVars, pauseVars, clientVars
  <1>2. AttachedIsServed'
    BY DEF TypeOK, AttachedIsServed, registryVars, peerVars, pauseVars, clientVars
  <1>3. ListsAgree'
    BY DEF TypeOK, ListsAgree, AttachedIsServed, registryVars, peerVars, pauseVars, clientVars
  <1>4. HoldersAttached'
    BY DEF TypeOK, HoldersAttached, ListsAgree, registryVars, peerVars, pauseVars, clientVars
  <1>5. ViewsAgree'
    BY DEF TypeOK, ViewsAgree, ListsAgree, registryVars, peerVars, pauseVars, clientVars
  <1>6. ShownExists'
    BY DEF TypeOK, ShownExists, HoldersAttached, AttachedIsServed, registryVars, peerVars, pauseVars, clientVars
  <1> QED BY <1>1, <1>2, <1>3, <1>4, <1>5, <1>6

-----------------------------------------------------------------------------
(* No step breaks the links. *)
LEMMA NextLinked == IInv /\ [Next]_vars => IInv'
  <1> SUFFICES ASSUME IInv, [Next]_vars PROVE IInv'
    OBVIOUS
  <1>1. ASSUME NEW p \in Peers, PeerRequest(p) PROVE IInv'
    <2>1. ASSUME NEW watch \in BOOLEAN, Hello(p, watch) PROVE IInv'
      BY <2>1, HelloLinked
    <2>2. CASE RequestBeforeHello(p)
      BY <2>2 DEF RequestBeforeHello, IInv, Linked, TypeOK, AttachedIsServed, ListsAgree,
                  HoldersAttached, ViewsAgree, ShownExists, registryVars, pauseVars, clientVars
    <2>3. CASE Goodbye(p)
      BY <2>3, RemovePeerLinked DEF Goodbye, IInv, TypeOK
    <2>4. CASE PeerGone(p)
      BY <2>4, RemovePeerLinked DEF PeerGone, IInv, TypeOK
    <2>5. CASE Shutdown(p)
      BY <2>5 DEF Shutdown, IInv, Linked, TypeOK, AttachedIsServed, ListsAgree, HoldersAttached,
                  ViewsAgree, ShownExists, peerVars, registryVars, pauseVars, clientVars
    <2> QED BY <1>1, <2>1, <2>2, <2>3, <2>4, <2>5 DEF PeerRequest
  <1>2. ASSUME NEW p \in Peers, NEW id \in Ids, SessionRequest(p, id) PROVE IInv'
    <2>1. ASSUME NEW h \in Devices \cup {None}, OpenSession(p, id, h) PROVE IInv'
      BY <2>1, OpenLinked
    <2>2. CASE OpenSessionFails(p, id)
      BY <2>2 DEF OpenSessionFails, IInv, Linked, TypeOK, AttachedIsServed, ListsAgree,
                  HoldersAttached, ViewsAgree, ShownExists, peerVars, pauseVars, clientVars
    <2>3. ASSUME NEW h \in Devices \cup {None}, NEW takeover \in BOOLEAN,
                 AttachSession(p, id, h, takeover)
          PROVE  IInv'
      BY <2>3, AttachLinked
    <2>4. CASE DetachSession(p, id)
      BY <2>4, DetachLinked
    <2>5. CASE CloseSession(p, id)
      BY <2>5, CloseLinked
    <2> QED BY <1>2, <2>1, <2>2, <2>3, <2>4, <2>5 DEF SessionRequest
  <1>3. ASSUME NEW id \in Ids, SessionExits(id) PROVE IInv'
    BY <1>3, ExitLinked DEF SessionExits, IInv, TypeOK
  <1>4. ASSUME NEW id \in Ids, GraceExpires(id) PROVE IInv'
    <2>1. CASE id \in sessions
      BY <1>4, <2>1, ExitLinked DEF GraceExpires, IInv, TypeOK
    <2>2. CASE id \notin sessions
      BY <1>4, <2>2 DEF GraceExpires, IInv, Linked, TypeOK, AttachedIsServed, ListsAgree,
                        HoldersAttached, ViewsAgree, ShownExists, peerVars, pauseVars, clientVars
    <2> QED BY <2>1, <2>2
  <1>5. ASSUME NEW flag \in BOOLEAN, SetOutputPaused(flag) PROVE IInv'
    BY <1>5 DEF SetOutputPaused, IInv, Linked, TypeOK, AttachedIsServed, ListsAgree,
                HoldersAttached, ViewsAgree, ShownExists, peerVars, registryVars, clientVars
  <1>6. CASE UNCHANGED vars
    BY <1>6 DEF vars, IInv, Linked, TypeOK, AttachedIsServed, ListsAgree, HoldersAttached,
                ViewsAgree, ShownExists, peerVars, registryVars, pauseVars, clientVars
  <1> QED BY <1>1, <1>2, <1>3, <1>4, <1>5, <1>6 DEF Next

(* The four copies stay linked in every reachable state. *)
THEOREM RegistryLinked == Spec => []IInv
  BY InitLinked, NextLinked, PTL DEF Spec

(* Every variable keeps its type, so the handshake and watcher lists never *)
(* name a peer that is gone.                                               *)
THEOREM TypeCorrect == Spec => []TypeOK
  <1>1. IInv => TypeOK
    BY DEF IInv
  <1> QED BY <1>1, RegistryLinked, PTL

(* Whoever may write to a session is the one peer its output goes to, for  *)
(* any number of peers and sessions: PeerSession's list and the registry's *)
(* table never disagree.                                                   *)
THEOREM OneWriter == Spec => []WriterIsAttached
  <1>1. IInv => WriterIsAttached
    BY DEF IInv, Linked, TypeOK, AttachedIsServed, ListsAgree, WriterIsAttached, CanWrite
  <1> QED BY <1>1, RegistryLinked, PTL

(* A holder is on record only while a live peer is attached. *)
THEOREM HolderAttached == Spec => []HolderIsAttached
  <1>1. IInv => HolderIsAttached
    BY DEF IInv, Linked, AttachedIsServed, HoldersAttached, HolderIsAttached
  <1> QED BY <1>1, RegistryLinked, PTL

(* A client that was told a session is its own may write to it, and only   *)
(* such a client.                                                          *)
THEOREM ClientsKnow == Spec => []ClientsKnowWhatTheyHold
  <1>1. IInv => ClientsKnowWhatTheyHold
    BY DEF IInv, Linked, TypeOK, ViewsAgree, ClientsKnowWhatTheyHold
  <1> QED BY <1>1, RegistryLinked, PTL

(* Nobody believes in a session that is gone: no tab points at a session   *)
(* the daemon no longer has.                                               *)
THEOREM GoneSessionsAreForgotten == Spec => []NobodyKeepsAGoneSession
  <1>1. IInv => NobodyKeepsAGoneSession
    BY DEF IInv, Linked, TypeOK, AttachedIsServed, ListsAgree, ViewsAgree, ShownExists,
           NobodyKeepsAGoneSession
  <1> QED BY <1>1, RegistryLinked, PTL

-----------------------------------------------------------------------------
(* Sessions added one at a time under the ceiling, or removed.             *)
Bounded == IsFiniteSet(sessions) /\ Cardinality(sessions) <= maximumSessions

(* However peers come and go, the registry never holds more sessions than  *)
(* its ceiling: openSession counts every session, not the peer's own.      *)
THEOREM SessionsStayBounded == Spec => []SessionsBounded
  <1>1. Init => Bounded
    BY FS_EmptySet, LimitsAssumption DEF Init, Bounded
  <1>2. Bounded /\ [Next]_vars => Bounded'
    <2> SUFFICES ASSUME Bounded, [Next]_vars PROVE Bounded'
      OBVIOUS
    <2>1. ASSUME NEW p \in Peers, NEW id \in Ids, NEW h \in Devices \cup {None},
                 OpenSession(p, id, h)
          PROVE  Bounded'
      <3>1. Cardinality(sessions) < maximumSessions /\ sessions' = sessions \cup {id}
        BY <2>1 DEF OpenSession, MayOpen
      <3>2. /\ IsFiniteSet(sessions \cup {id})
            /\ Cardinality(sessions \cup {id}) =
                 IF id \in sessions THEN Cardinality(sessions) ELSE Cardinality(sessions) + 1
        BY FS_AddElement, Zenon DEF Bounded
      <3>3. Cardinality(sessions) \in Nat
        BY FS_CardinalityType, Zenon DEF Bounded
      <3> QED BY <3>1, <3>2, <3>3, LimitsAssumption DEF Bounded
    <2>2. ASSUME NEW id \in Ids, sessions' = sessions \ {id} PROVE Bounded'
      <3>1. /\ IsFiniteSet(sessions \ {id})
            /\ Cardinality(sessions \ {id}) =
                 IF id \in sessions THEN Cardinality(sessions) - 1 ELSE Cardinality(sessions)
        BY FS_RemoveElement, Zenon DEF Bounded
      <3>2. Cardinality(sessions) \in Nat
        BY FS_CardinalityType, Zenon DEF Bounded
      <3> QED BY <2>2, <3>1, <3>2, LimitsAssumption DEF Bounded
    <2>3. CASE UNCHANGED sessions
      BY <2>3 DEF Bounded
    <2>4. ASSUME NEW p \in Peers, PeerRequest(p) PROVE Bounded'
      BY <2>3, <2>4 DEF PeerRequest, Hello, RequestBeforeHello, Goodbye, PeerGone, removePeer,
                        Shutdown, registryVars
    <2>5. ASSUME NEW p \in Peers, NEW id \in Ids, SessionRequest(p, id) PROVE Bounded'
      BY <2>1, <2>3, <2>5 DEF SessionRequest, OpenSessionFails, AttachSession, DetachSession,
                              CloseSession
    <2>6. ASSUME NEW id \in Ids, SessionExits(id) \/ GraceExpires(id) PROVE Bounded'
      BY <2>2, <2>3, <2>6 DEF SessionExits, GraceExpires, handleExit
    <2>7. ASSUME NEW flag \in BOOLEAN, SetOutputPaused(flag) PROVE Bounded'
      BY <2>3, <2>7 DEF SetOutputPaused, registryVars
    <2>8. CASE UNCHANGED vars
      BY <2>3, <2>8 DEF vars, registryVars
    <2> QED BY <2>4, <2>5, <2>6, <2>7, <2>8 DEF Next
  <1>3. Bounded => SessionsBounded
    BY DEF Bounded, SessionsBounded
  <1> QED BY <1>1, <1>2, <1>3, PTL DEF Spec

(* When a device's attachment ends with the session alive, every watcher   *)
(* that stays is told in the same step: release looks at the holder before *)
(* it forgets it, and a holder implies an attachment to lose.              *)
THEOREM ReleaseIsAnnounced == Spec => ReleaseReachesWatchers
  <1> DEFINE Announced(id) ==
        holders[id] # None /\ attachments'[id] = None =>
            \A w \in watchers' : shown'[w][id] = None
  <1>1. IInv /\ [Next]_vars => [\A id \in sessions \cap sessions' : Announced(id)]_vars
    <2> SUFFICES ASSUME IInv, Next, NEW id \in sessions \cap sessions',
                        holders[id] # None, attachments'[id] = None
                 PROVE  \A w \in watchers' : shown'[w][id] = None
      OBVIOUS
    <2>1. id \in Ids /\ attachments[id] # None
      BY DEF IInv, Linked, TypeOK, HoldersAttached
    <2>2. ASSUME NEW p \in Peers, removePeer(p) PROVE \A w \in watchers' : shown'[w][id] = None
      <3>1. id \in heldBy(p)
        BY <2>1, <2>2 DEF removePeer, release, IInv, TypeOK
      <3> QED BY <2>1, <2>2, <3>1 DEF removePeer, toldOfRelease, deliverSessionEvent,
                                      watchersWithout, IInv, TypeOK
    <2>3. ASSUME NEW p \in Peers, NEW i \in Ids, DetachSession(p, i)
          PROVE  \A w \in watchers' : shown'[w][id] = None
      <3>1. i = id /\ attachments[i] = p
        BY <2>1, <2>3 DEF DetachSession, release, IInv, TypeOK
      <3> QED BY <2>1, <2>3, <3>1 DEF DetachSession, toldOfRelease, deliverSessionEvent,
                                      IInv, TypeOK
    <2>4. ASSUME NEW p \in Peers, PeerRequest(p) PROVE \A w \in watchers' : shown'[w][id] = None
      BY <2>1, <2>2, <2>4 DEF PeerRequest, Hello, RequestBeforeHello, Goodbye, PeerGone, Shutdown,
                              registryVars
    <2>5. ASSUME NEW p \in Peers, NEW i \in Ids, SessionRequest(p, i)
          PROVE  \A w \in watchers' : shown'[w][id] = None
      BY <2>1, <2>3, <2>5 DEF SessionRequest, OpenSession, OpenSessionFails, AttachSession,
                              CloseSession, IInv, TypeOK
    <2>6. ASSUME NEW i \in Ids, SessionExits(i) \/ GraceExpires(i)
          PROVE  \A w \in watchers' : shown'[w][id] = None
      BY <2>1, <2>6 DEF SessionExits, GraceExpires, handleExit, IInv, TypeOK
    <2>7. ASSUME NEW flag \in BOOLEAN, SetOutputPaused(flag)
          PROVE  \A w \in watchers' : shown'[w][id] = None
      BY <2>1, <2>7 DEF SetOutputPaused, registryVars
    <2> QED BY <2>4, <2>5, <2>6, <2>7 DEF Next
  <1> QED BY <1>1, RegistryLinked, PTL DEF Spec, ReleaseReachesWatchers

-----------------------------------------------------------------------------
(* A congested link stops every session's PTY, the ones opened while it is *)
(* congested included, and a drained link leaves none stopped: each        *)
(* handler that changes `sessions` keeps the set of paused ones in step.   *)
THEOREM CongestionStopsAll == Spec => []PausedTogether
  <1>1. Init => PausedTogether
    BY DEF Init, PausedTogether
  <1>2. IInv /\ PausedTogether /\ [Next]_vars => PausedTogether'
    <2> SUFFICES ASSUME IInv, PausedTogether, [Next]_vars PROVE PausedTogether'
      OBVIOUS
    <2>1. ASSUME NEW p \in Peers, NEW id \in Ids, NEW h \in Devices \cup {None},
                 OpenSession(p, id, h)
          PROVE  PausedTogether'
      BY <2>1 DEF OpenSession, startsPaused, PausedTogether, IInv, TypeOK
    <2>2. ASSUME NEW id \in Ids, handleExit(id) PROVE PausedTogether'
      BY <2>2 DEF handleExit, PausedTogether, IInv, TypeOK
    <2>3. CASE UNCHANGED <<sessions, pauseVars>>
      BY <2>3 DEF pauseVars, PausedTogether
    <2>4. ASSUME NEW p \in Peers, PeerRequest(p) PROVE PausedTogether'
      BY <2>3, <2>4 DEF PeerRequest, Hello, RequestBeforeHello, Goodbye, PeerGone, removePeer,
                        Shutdown, registryVars
    <2>5. ASSUME NEW p \in Peers, NEW id \in Ids, SessionRequest(p, id) PROVE PausedTogether'
      BY <2>1, <2>3, <2>5 DEF SessionRequest, OpenSessionFails, AttachSession, DetachSession,
                              CloseSession
    <2>6. ASSUME NEW id \in Ids, SessionExits(id) \/ GraceExpires(id) PROVE PausedTogether'
      BY <2>2, <2>3, <2>6 DEF SessionExits, GraceExpires
    <2>7. ASSUME NEW flag \in BOOLEAN, SetOutputPaused(flag) PROVE PausedTogether'
      BY <2>7 DEF SetOutputPaused, PausedTogether, registryVars, IInv, TypeOK
    <2>8. CASE UNCHANGED vars
      BY <2>3, <2>8 DEF vars, registryVars
    <2> QED BY <2>4, <2>5, <2>6, <2>7, <2>8 DEF Next
  <1> QED BY <1>1, <1>2, RegistryLinked, PTL DEF Spec

(* A peer that is no watcher was shown nothing it could keep, so it may    *)
(* become one at any time without a stale device.                          *)
OnlyWatchersAreShown == \A w \in Peers \ watchers, id \in Ids : shown[w][id] = None

WInv == OnlyWatchersAreShown /\ WatchersNameTheHolder

(* No watcher names one device while another holds the session: every      *)
(* change of holder to a device is announced in the step that makes it.    *)
THEOREM WatchersAreRight == Spec => []WatchersNameTheHolder
  <1>1. Init => WInv
    BY DEF Init, WInv, OnlyWatchersAreShown, WatchersNameTheHolder
  <1>2. IInv /\ WInv /\ [Next]_vars => WInv'
    <2> SUFFICES ASSUME IInv, WInv, [Next]_vars PROVE WInv'
      OBVIOUS
    <2>1. ASSUME NEW p \in Peers, NEW id \in Ids, NEW h \in Devices \cup {None},
                 watchers' = watchers,
                 holders' = [holders EXCEPT ![id] = h],
                 shown' = deliverSessionEvent(toldOfHolder(p, id, h), {id}, h)
          PROVE  WInv'
      BY <2>1 DEF toldOfHolder, deliverSessionEvent, IInv, TypeOK, WInv, OnlyWatchersAreShown,
                  WatchersNameTheHolder
    <2>2. ASSUME NEW p \in Peers, removePeer(p) PROVE WInv'
      BY <2>2 DEF removePeer, release, toldOfRelease, deliverSessionEvent, watchersWithout, heldBy,
                  IInv, TypeOK, WInv, OnlyWatchersAreShown, WatchersNameTheHolder
    <2>3. ASSUME NEW p \in Peers, NEW id \in Ids, DetachSession(p, id) PROVE WInv'
      BY <2>3 DEF DetachSession, release, toldOfRelease, deliverSessionEvent,
                  IInv, TypeOK, WInv, OnlyWatchersAreShown, WatchersNameTheHolder
    <2>4. ASSUME NEW id \in Ids, handleExit(id) PROVE WInv'
      BY <2>4 DEF handleExit, toldOfExit, deliverSessionEvent,
                  IInv, TypeOK, WInv, OnlyWatchersAreShown, WatchersNameTheHolder
    <2>5. CASE UNCHANGED <<watchers, holders, shown>>
      BY <2>5 DEF WInv, OnlyWatchersAreShown, WatchersNameTheHolder
    <2>6. ASSUME NEW p \in Peers, PeerRequest(p) PROVE WInv'
      <3>1. ASSUME NEW watch \in BOOLEAN, Hello(p, watch) PROVE WInv'
        BY <3>1 DEF Hello, registryVars, clientVars, IInv, TypeOK, WInv, OnlyWatchersAreShown,
                    WatchersNameTheHolder
      <3> QED BY <2>2, <2>5, <2>6, <3>1 DEF PeerRequest, RequestBeforeHello, Goodbye, PeerGone,
                                            Shutdown, peerVars, registryVars, clientVars
    <2>7. ASSUME NEW p \in Peers, NEW id \in Ids, SessionRequest(p, id) PROVE WInv'
      <3>1. CASE CloseSession(p, id)
        BY <3>1 DEF CloseSession, IInv, TypeOK, WInv, OnlyWatchersAreShown, WatchersNameTheHolder
      <3>2. ASSUME NEW h \in Devices \cup {None}, OpenSession(p, id, h) PROVE WInv'
        BY <2>1, <3>2 DEF OpenSession
      <3>3. ASSUME NEW h \in Devices \cup {None}, NEW takeover \in BOOLEAN,
                   AttachSession(p, id, h, takeover)
            PROVE  WInv'
        BY <2>1, <3>3 DEF AttachSession
      <3>4. CASE OpenSessionFails(p, id)
        BY <2>5, <3>4 DEF OpenSessionFails, peerVars, clientVars
      <3> QED BY <2>3, <2>7, <3>1, <3>2, <3>3, <3>4 DEF SessionRequest
    <2>8. ASSUME NEW id \in Ids, SessionExits(id) \/ GraceExpires(id) PROVE WInv'
      BY <2>4, <2>5, <2>8 DEF SessionExits, GraceExpires, peerVars, clientVars
    <2>9. ASSUME NEW flag \in BOOLEAN, SetOutputPaused(flag) PROVE WInv'
      BY <2>5, <2>9 DEF SetOutputPaused, peerVars, registryVars, clientVars
    <2>10. CASE UNCHANGED vars
      BY <2>5, <2>10 DEF vars, peerVars, registryVars, clientVars
    <2> QED BY <2>6, <2>7, <2>8, <2>9, <2>10 DEF Next
  <1>3. WInv => WatchersNameTheHolder
    BY DEF WInv
  <1> QED BY <1>1, <1>2, <1>3, RegistryLinked, PTL DEF Spec

-----------------------------------------------------------------------------
(* The service. *)

(* Being on a peer's list is enough to write.                              *)
listed == [id \in Ids |-> {p \in Peers : id \in attachedSessionIDs[p]}]

LEMMA ListedMayWrite == IInv => writersOf = listed
  <1> SUFFICES ASSUME IInv PROVE writersOf = listed
    OBVIOUS
  <1>1. \A id \in Ids, p \in Peers : CanWrite(p, id) <=> id \in attachedSessionIDs[p]
    BY DEF IInv, Linked, TypeOK, AttachedIsServed, ListsAgree, CanWrite
  <1> QED BY <1>1 DEF writersOf, listed

(* What a session changes hands by: its writers and readers, session by    *)
(* session.                                                                *)
LEMMA OpenServed ==
  ASSUME IInv, NEW p \in Peers, NEW id \in Ids, NEW h, OpenSession(p, id, h)
  PROVE  /\ listed' = [listed EXCEPT ![id] = {p}] /\ readersOf' = [readersOf EXCEPT ![id] = {p}]
         /\ id \notin used /\ used' = used \cup {id} /\ sessions' = sessions \cup {id}
  <1>1. /\ id \notin used /\ used' = used \cup {id} /\ sessions' = sessions \cup {id}
        /\ attachments' = [attachments EXCEPT ![id] = p]
        /\ attachedSessionIDs' = [attachedSessionIDs EXCEPT ![p] = @ \cup {id}]
    BY DEF OpenSession
  <1>2. attachments \in [Ids -> Peers \cup {None}] /\ attachedSessionIDs \in [Peers -> SUBSET Ids]
    BY DEF IInv, TypeOK
  <1>3. \A q \in Peers : id \notin attachedSessionIDs[q]
    BY <1>1 DEF IInv, Linked, TypeOK, AttachedIsServed, ListsAgree
  <1>4. \A i \in Ids : listed'[i] = IF i = id THEN {p} ELSE listed[i]
    BY <1>1, <1>2, <1>3 DEF listed
  <1>5. \A i \in Ids : readersOf'[i] = IF i = id THEN {p} ELSE readersOf[i]
    BY <1>1, <1>2 DEF readersOf
  <1>6. listed' = [listed EXCEPT ![id] = {p}]
    BY <1>4 DEF listed
  <1>7. readersOf' = [readersOf EXCEPT ![id] = {p}]
    BY <1>5 DEF readersOf
  <1> QED BY <1>1, <1>6, <1>7

LEMMA AttachServed ==
  ASSUME IInv, NEW p \in Peers, NEW id \in Ids, NEW h, NEW takeover, AttachSession(p, id, h, takeover)
  PROVE  /\ listed' = [listed EXCEPT ![id] = {p}] /\ readersOf' = [readersOf EXCEPT ![id] = {p}]
         /\ id \in sessions /\ UNCHANGED <<used, sessions>>
  <1>1. /\ id \in sessions /\ UNCHANGED <<used, sessions>>
        /\ attachments' = [attachments EXCEPT ![id] = p]
        /\ attachedSessionIDs' = [q \in Peers |->
             IF q = p THEN attachedSessionIDs[q] \cup {id}
             ELSE IF q \in displacedBy(p, id) THEN attachedSessionIDs[q] \ {id}
             ELSE attachedSessionIDs[q]]
    BY DEF AttachSession
  <1>2. attachments \in [Ids -> Peers \cup {None}] /\ attachedSessionIDs \in [Peers -> SUBSET Ids]
    BY DEF IInv, TypeOK
  <1>3. \A q \in Peers : q # p /\ id \in attachedSessionIDs[q] => q \in displacedBy(p, id)
    BY DEF IInv, Linked, ListsAgree, displacedBy
  <1>4. \A i \in Ids : listed'[i] = IF i = id THEN {p} ELSE listed[i]
    BY <1>1, <1>2, <1>3 DEF listed
  <1>5. \A i \in Ids : readersOf'[i] = IF i = id THEN {p} ELSE readersOf[i]
    BY <1>1, <1>2 DEF readersOf
  <1>6. listed' = [listed EXCEPT ![id] = {p}]
    BY <1>4 DEF listed
  <1>7. readersOf' = [readersOf EXCEPT ![id] = {p}]
    BY <1>5 DEF readersOf
  <1> QED BY <1>1, <1>6, <1>7

(* p is off the lists of the sessions S and off the table for those it was *)
(* attached to.                                                            *)
Leaves(p, S) ==
    /\ listed' = [id \in Ids |-> IF id \in S THEN listed[id] \ {p} ELSE listed[id]]
    /\ readersOf' = [id \in Ids |-> IF id \in S THEN readersOf[id] \ {p} ELSE readersOf[id]]

LEMMA LetGoServed ==
  ASSUME IInv, NEW p \in Peers, NEW S \in SUBSET Ids, NEW R,
         attachedSessionIDs' = [attachedSessionIDs EXCEPT ![p] = @ \ S],
         R = {id \in S : attachments[id] = p}, release(R)
  PROVE  Leaves(p, S)
  <1>1. attachments \in [Ids -> Peers \cup {None}] /\ attachedSessionIDs \in [Peers -> SUBSET Ids]
    BY DEF IInv, TypeOK
  <1>2. \A i \in Ids : listed'[i] = IF i \in S THEN listed[i] \ {p} ELSE listed[i]
    BY <1>1 DEF listed
  <1>3. \A i \in Ids : readersOf'[i] = IF i \in S THEN readersOf[i] \ {p} ELSE readersOf[i]
    BY <1>1 DEF readersOf, release
  <1>4. listed' = [id \in Ids |-> IF id \in S THEN listed[id] \ {p} ELSE listed[id]]
    BY <1>2 DEF listed
  <1>5. readersOf' = [id \in Ids |-> IF id \in S THEN readersOf[id] \ {p} ELSE readersOf[id]]
    BY <1>3 DEF readersOf
  <1> QED BY <1>4, <1>5 DEF Leaves

LEMMA DetachServed ==
  ASSUME IInv, NEW p \in Peers, NEW id \in Ids, DetachSession(p, id)
  PROVE  Leaves(p, {id}) /\ UNCHANGED <<used, sessions>>
  <1> DEFINE R == {id} \cap {i \in Ids : attachments[i] = p}
  <1>1. attachedSessionIDs' = [attachedSessionIDs EXCEPT ![p] = @ \ {id}]
    BY DEF DetachSession
  <1>2. release(R)
    BY DEF DetachSession
  <1>3. UNCHANGED <<used, sessions>>
    BY DEF DetachSession
  <1>4. R = {i \in {id} : attachments[i] = p}
    OBVIOUS
  <1>5. {id} \in SUBSET Ids
    OBVIOUS
  <1> HIDE DEF R
  <1>6. Leaves(p, {id})
    BY <1>1, <1>2, <1>4, <1>5, LetGoServed
  <1> QED BY <1>3, <1>6

LEMMA RemoveServed ==
  ASSUME IInv, NEW p \in Peers, removePeer(p)
  PROVE  Leaves(p, Ids) /\ UNCHANGED <<used, sessions>>
  <1>1. /\ attachedSessionIDs' = [attachedSessionIDs EXCEPT ![p] = {}]
        /\ release(heldBy(p)) /\ UNCHANGED <<used, sessions>>
    BY DEF removePeer
  <1>2. attachedSessionIDs \in [Peers -> SUBSET Ids] /\ didHandshake \subseteq peers
    BY DEF IInv, TypeOK
  <1>3. attachedSessionIDs' = [attachedSessionIDs EXCEPT ![p] = @ \ Ids]
    <2>1. attachedSessionIDs[p] \ Ids = {}
      BY <1>2
    <2> QED BY <1>1, <1>2, <2>1
  <1>4. heldBy(p) = {id \in Ids : attachments[id] = p}
    BY <1>2 DEF heldBy, IInv, Linked, AttachedIsServed
  <1>5. Ids \in SUBSET Ids
    OBVIOUS
  <1>6. release(heldBy(p))
    BY <1>1
  <1>7. Leaves(p, Ids)
    BY <1>3, <1>4, <1>5, <1>6, LetGoServed
  <1> QED BY <1>1, <1>7

LEMMA CloseServed ==
  ASSUME IInv, NEW p \in Peers, NEW id \in Ids, CloseSession(p, id)
  PROVE  /\ listed' = [listed EXCEPT ![id] = @ \ {p}] /\ readersOf' = readersOf
         /\ id \in sessions /\ UNCHANGED <<used, sessions>>
  <1>1. /\ id \in sessions /\ UNCHANGED <<used, sessions, attachments>>
        /\ attachedSessionIDs' = [attachedSessionIDs EXCEPT ![p] = @ \ {id}]
    BY DEF CloseSession
  <1>2. attachedSessionIDs \in [Peers -> SUBSET Ids]
    BY DEF IInv, TypeOK
  <1>3. \A i \in Ids : listed'[i] = IF i = id THEN listed[i] \ {p} ELSE listed[i]
    BY <1>1, <1>2 DEF listed
  <1>4. listed' = [listed EXCEPT ![id] = @ \ {p}]
    BY <1>3 DEF listed
  <1> QED BY <1>1, <1>4 DEF readersOf

LEMMA ExitServed ==
  ASSUME IInv, NEW id \in Ids, id \in sessions, handleExit(id)
  PROVE  /\ listed' = [listed EXCEPT ![id] = {}] /\ readersOf' = [readersOf EXCEPT ![id] = {}]
         /\ sessions' = sessions \ {id} /\ UNCHANGED used
  <1>1. /\ sessions' = sessions \ {id} /\ UNCHANGED used
        /\ attachments' = [attachments EXCEPT ![id] = None]
        /\ attachedSessionIDs' = [q \in Peers |->
             IF q \in toldOfExit(id) THEN attachedSessionIDs[q] \ {id} ELSE attachedSessionIDs[q]]
    BY DEF handleExit
  <1>2. attachments \in [Ids -> Peers \cup {None}] /\ attachedSessionIDs \in [Peers -> SUBSET Ids]
    BY DEF IInv, TypeOK
  <1>3. \A q \in Peers : id \in attachedSessionIDs[q] => q \in toldOfExit(id)
    BY DEF IInv, Linked, ListsAgree, toldOfExit
  <1>4. \A i \in Ids : listed'[i] = IF i = id THEN {} ELSE listed[i]
    BY <1>1, <1>2, <1>3 DEF listed
  <1>5. \A i \in Ids : readersOf'[i] = IF i = id THEN {} ELSE readersOf[i]
    BY <1>1, <1>2 DEF readersOf
  <1>6. listed' = [listed EXCEPT ![id] = {}]
    BY <1>4 DEF listed
  <1>7. readersOf' = [readersOf EXCEPT ![id] = {}]
    BY <1>5 DEF readersOf
  <1> QED BY <1>1, <1>6, <1>7

(* Every step of the registry is one of the service or none.               *)
LEMMA StepServed == IInv /\ IInv' /\ [Next]_vars => [Service!Next]_(Service!vars)
  <1> SUFFICES ASSUME IInv, IInv', [Next]_vars PROVE [Service!Next]_(Service!vars)
    OBVIOUS
  <1>0. writersOf = listed /\ writersOf' = listed'
    <2>1. (writersOf = listed) /\ (writersOf = listed)'
      BY ListedMayWrite, PTL
    <2> QED BY <2>1
  <1>1. ASSUME UNCHANGED <<used, sessions, attachedSessionIDs, attachments>>
        PROVE  UNCHANGED Service!vars
    BY <1>0, <1>1 DEF Service!vars, listed, readersOf
  <1>2. ASSUME NEW p \in Peers, removePeer(p) PROVE Service!LetGo(p, Ids)
    BY <1>0, <1>2, RemoveServed DEF Leaves, Service!LetGo
  <1>3. ASSUME NEW id \in Ids, id \in sessions, handleExit(id) PROVE Service!End(id)
    BY <1>0, <1>3, ExitServed DEF Service!End
  <1>4. ASSUME NEW p \in Peers, PeerRequest(p) PROVE [Service!Next]_(Service!vars)
    <2>1. CASE removePeer(p)
      BY <1>2, <2>1 DEF Service!Next, Service!Left
    <2>2. CASE UNCHANGED <<used, sessions, attachedSessionIDs, attachments>>
      BY <1>1, <2>2
    <2> QED BY <1>4, <2>1, <2>2 DEF PeerRequest, Hello, RequestBeforeHello, Goodbye, PeerGone,
                                    Shutdown, registryVars, peerVars
  <1>5. ASSUME NEW p \in Peers, NEW id \in Ids, SessionRequest(p, id)
        PROVE  [Service!Next]_(Service!vars)
    <2>1. ASSUME NEW h, OpenSession(p, id, h) PROVE Service!Open(p, id)
      BY <1>0, <2>1, OpenServed DEF Service!Open, Service!Give
    <2>2. CASE OpenSessionFails(p, id)
      <3>1. /\ id \notin used /\ used' = used \cup {id}
            /\ UNCHANGED <<sessions, attachedSessionIDs, attachments>>
        BY <2>2 DEF OpenSessionFails, peerVars
      <3>2. writersOf' = writersOf /\ readersOf' = readersOf
        BY <1>0, <3>1 DEF listed, readersOf
      <3>3. Service!OpenFails(id)
        BY <3>1, <3>2 DEF Service!OpenFails
      <3> QED BY <3>3 DEF Service!Next
    <2>3. ASSUME NEW h, NEW takeover, AttachSession(p, id, h, takeover) PROVE Service!Take(p, id)
      BY <1>0, <2>3, AttachServed DEF Service!Take, Service!Give
    <2>4. CASE DetachSession(p, id)
      <3>1. Leaves(p, {id}) /\ UNCHANGED <<used, sessions>>
        BY <2>4, DetachServed
      <3>2. Service!LetGo(p, {id})
        BY <1>0, <3>1 DEF Leaves, Service!LetGo
      <3>3. {id} \in Service!Left
        BY DEF Service!Left
      <3> QED BY <3>2, <3>3 DEF Service!Next
    <2>5. CASE CloseSession(p, id)
      <3>1. Service!Close(p, id)
        BY <1>0, <2>5, CloseServed DEF Service!Close
      <3> QED BY <3>1 DEF Service!Next
    <2> QED BY <1>5, <2>1, <2>2, <2>3, <2>4, <2>5 DEF SessionRequest, Service!Next
  <1>6. ASSUME NEW id \in Ids, SessionExits(id) PROVE [Service!Next]_(Service!vars)
    BY <1>3, <1>6 DEF SessionExits, Service!Next
  <1>7. ASSUME NEW id \in Ids, GraceExpires(id) PROVE [Service!Next]_(Service!vars)
    <2>1. CASE id \in sessions
      BY <1>3, <1>7, <2>1 DEF GraceExpires, Service!Next
    <2>2. CASE id \notin sessions
      BY <1>1, <1>7, <2>2 DEF GraceExpires, peerVars
    <2> QED BY <2>1, <2>2
  <1>8. ASSUME NEW flag \in BOOLEAN, SetOutputPaused(flag) PROVE [Service!Next]_(Service!vars)
    BY <1>1, <1>8 DEF SetOutputPaused, peerVars, registryVars
  <1>9. CASE UNCHANGED vars
    BY <1>1, <1>9 DEF vars, peerVars, registryVars
  <1> QED BY <1>4, <1>5, <1>6, <1>7, <1>8, <1>9 DEF Next

(* The registry implements SessionService: for any peers, sessions and     *)
(* limits, a session has one client at a time, with its input and output   *)
(* together, and only that client's own leaving, another's attach or the   *)
(* end of the session takes them from it (PeerSession's requests,          *)
(* SessionRegistry's attach, detach, detachAll, close and handleExit).     *)
THEOREM RegistryServes == Spec => ServesOneClient
  <1>1. Init => Service!Init
    <2> SUFFICES ASSUME Init PROVE Service!Init
      OBVIOUS
    <2>1. writersOf = [id \in Ids |-> {}]
      BY DEF Init, writersOf, CanWrite
    <2>2. readersOf = [id \in Ids |-> {}]
      BY DEF Init, readersOf
    <2> QED BY <2>1, <2>2 DEF Init, Service!Init
  <1>2. IInv /\ IInv' /\ [Next]_vars => [Service!Next]_(Service!vars)
    BY StepServed
  <1> QED BY <1>1, <1>2, RegistryLinked, PTL DEF Spec, ServesOneClient, Service!Spec

-----------------------------------------------------------------------------
(***************************************************************************)
(* The ids the registry hands out (SessionIDReservation), for any number   *)
(* of io processes, any block size and any bound: ids never repeat within  *)
(* one io, the file covers every id handed out, and ids are never reused   *)
(* across io processes that follow one another.                            *)
(***************************************************************************)

(* What an io has handed out lies below its counter, and an io that has    *)
(* not started has handed out nothing.                                     *)
BelowCounter ==
    \A p \in IOs :
        /\ \A id \in handed[p] : id < next[p]
        /\ life[p] = "unborn" => handed[p] = {}

(* An unspent block lies below the number in the file. *)
BlocksReserved ==
    FileWorked =>
        \A p \in IOs : next[p] < reservedEnd[p] => reservedEnd[p] <= file

(* One io runs at a time and counts above everything any other handed out. *)
LatestCountsOn ==
    trouble = {} => \A p, q \in IOs :
        life[p] = "running" /\ q # p =>
            /\ life[q] # "running"
            /\ \A id \in handed[q] : id < next[p]

InductiveInv ==
    IdsTypeOK /\ BelowCounter /\ BlocksReserved /\ FileCoversHandedIds

-----------------------------------------------------------------------------
LEMMA ResultType ==
    ASSUME IdsTypeOK, NEW v \in Nat, NEW o \in Outcomes
    PROVE  /\ updateStored(v, o) \in Nat \cup {Unreadable}
           /\ updateStored(v, o) >= file
           /\ updateResult(v, o) \in Nat \cup {Unreadable}
BY DEF IdsTypeOK, Outcomes, updateStored, updateResult, larger, Unreadable

LEMMA TroubleStays ==
    ASSUME IdsTypeOK, [IdsNext]_idVars
    PROVE  trouble \subseteq trouble' /\ trouble' \subseteq {"file", "overlap"}
BY DEF IdsTypeOK, IdsNext, Start, TakeReserving, TakeReserved, Die, noted, idVars

LEMMA TypeStep == IdsTypeOK /\ [IdsNext]_idVars => IdsTypeOK'
<1> SUFFICES ASSUME IdsTypeOK, [IdsNext]_idVars PROVE IdsTypeOK'
  OBVIOUS
<1>0. trouble' \subseteq {"file", "overlap"}
  BY TroubleStays
<1> USE <1>0 DEF IdsTypeOK
<1>1. ASSUME NEW p \in IOs, NEW o \in Outcomes, Start(p, o) PROVE IdsTypeOK'
  <2> DEFINE start == larger(updateResult(0, o), 1)
  <2>1. start \in Nat
    BY ResultType DEF larger, Unreadable
  <2>2. updateStored(0, o) \in Nat \cup {Unreadable}
    BY ResultType
  <2>3. /\ next' = [next EXCEPT ![p] = start]
        /\ reservedEnd' = [reservedEnd EXCEPT ![p] = start]
        /\ file' = updateStored(0, o)
        /\ life' = [life EXCEPT ![p] = "running"]
        /\ handed' = handed
    BY <1>1 DEF Start
  <2> QED
    BY <2>1, <2>2, <2>3
<1>2. ASSUME NEW p \in IOs, NEW o \in Outcomes, TakeReserving(p, o) PROVE IdsTypeOK'
  <2> DEFINE wanted == next[p] + BlockSize
             end == larger(updateResult(wanted, o), wanted)
  <2>1. wanted \in Nat
    BY BlockSizeAssumption
  <2>2. end \in Nat /\ updateStored(wanted, o) \in Nat \cup {Unreadable}
    BY <2>1, ResultType DEF larger, Unreadable
  <2>3. /\ reservedEnd' = [reservedEnd EXCEPT ![p] = end]
        /\ file' = updateStored(wanted, o)
        /\ handed' = [handed EXCEPT ![p] = @ \cup {next[p]}]
        /\ next' = [next EXCEPT ![p] = @ + 1]
        /\ life' = life
    BY <1>2 DEF TakeReserving
  <2> HIDE DEF end, wanted
  <2> QED
    BY <2>2, <2>3
<1>3. ASSUME NEW p \in IOs, TakeReserved(p) PROVE IdsTypeOK'
  BY <1>3 DEF TakeReserved
<1>4. ASSUME NEW p \in IOs, Die(p) PROVE IdsTypeOK'
  BY <1>4 DEF Die
<1>5. CASE UNCHANGED idVars
  BY <1>5 DEF idVars
<1> QED
  BY <1>1, <1>2, <1>3, <1>4, <1>5 DEF IdsNext

(* Every variable keeps its type: the counters of every io stay numbers    *)
(* whatever the outcome of each update of the file.                        *)
THEOREM IdsTypeCorrect == IdsSpec => []IdsTypeOK
<1>1. IdsInit => IdsTypeOK
  BY DEF IdsInit, IdsTypeOK
<1>2. IdsTypeOK /\ [IdsNext]_idVars => IdsTypeOK'
  BY TypeStep
<1> QED
  BY <1>1, <1>2, PTL DEF IdsSpec

-----------------------------------------------------------------------------
LEMMA BelowCounterInit == IdsInit => BelowCounter
BY DEF IdsInit, BelowCounter

LEMMA BelowCounterStep ==
    IdsTypeOK /\ BelowCounter /\ [IdsNext]_idVars => BelowCounter'
<1> SUFFICES ASSUME IdsTypeOK, BelowCounter, [IdsNext]_idVars PROVE BelowCounter'
  OBVIOUS
<1> USE DEF IdsTypeOK, BelowCounter
<1>1. ASSUME NEW p \in IOs, NEW o \in Outcomes, Start(p, o) PROVE BelowCounter'
  <2>1. handed[p] = {} /\ handed' = handed
    BY <1>1 DEF Start
  <2>2. life' = [life EXCEPT ![p] = "running"]
    BY <1>1 DEF Start
  <2>3. \A q \in IOs : q # p => next'[q] = next[q]
    BY <1>1 DEF Start
  <2> QED
    BY <2>1, <2>2, <2>3
<1>2. ASSUME NEW p \in IOs, NEW o \in Outcomes, TakeReserving(p, o) PROVE BelowCounter'
  BY <1>2 DEF TakeReserving
<1>3. ASSUME NEW p \in IOs, TakeReserved(p) PROVE BelowCounter'
  BY <1>3 DEF TakeReserved
<1>4. ASSUME NEW p \in IOs, Die(p) PROVE BelowCounter'
  BY <1>4 DEF Die
<1>5. CASE UNCHANGED idVars
  BY <1>5 DEF idVars
<1> QED
  BY <1>1, <1>2, <1>3, <1>4, <1>5 DEF IdsNext

(* Whatever happens to the file, the id a `take` returns was never         *)
(* returned before by the same io.                                         *)
THEOREM IdsNeverRepeatWithinOneIO == IdsSpec => NeverRepeatsWithinOneIO
<1>1. BelowCounter /\ IdsTypeOK =>
        \A p \in IOs : life[p] = "running" /\ next'[p] # next[p] => next[p] \notin handed[p]
  BY DEF BelowCounter, IdsTypeOK
<1> QED
  BY <1>1, BelowCounterInit, BelowCounterStep, IdsTypeCorrect, PTL
     DEF IdsSpec, NeverRepeatsWithinOneIO

-----------------------------------------------------------------------------
LEMMA FileGrows ==
    IdsTypeOK /\ [IdsNext]_idVars => file' >= file
<1> SUFFICES ASSUME IdsTypeOK, [IdsNext]_idVars PROVE file' >= file
  OBVIOUS
<1>1. ASSUME NEW p \in IOs, NEW o \in Outcomes, Start(p, o) PROVE file' >= file
  BY <1>1, ResultType DEF Start
<1>2. ASSUME NEW p \in IOs, NEW o \in Outcomes, TakeReserving(p, o) PROVE file' >= file
  <2>1. next[p] + BlockSize \in Nat
    BY BlockSizeAssumption DEF IdsTypeOK
  <2> QED
    BY <1>2, <2>1, ResultType DEF TakeReserving
<1>3. ASSUME file' = file PROVE file' >= file
  BY <1>3 DEF IdsTypeOK, Unreadable
<1> QED
  BY <1>1, <1>2, <1>3 DEF IdsNext, TakeReserved, Die, idVars

(* The number in the file never goes down, whichever io writes it and      *)
(* whatever the outcome.                                                   *)
THEOREM FileNeverShrinks == IdsSpec => FileOnlyGrows
<1>1. IdsTypeOK /\ [IdsNext]_idVars => [file' >= file]_idVars
  BY FileGrows
<1> QED
  BY <1>1, IdsTypeCorrect, PTL DEF IdsSpec, FileOnlyGrows

-----------------------------------------------------------------------------
LEMMA InductiveInvStep ==
    ASSUME InductiveInv, [IdsNext]_idVars
    PROVE  InductiveInv'
<1>1. IdsTypeOK' /\ BelowCounter' /\ file' >= file
  <2>1. IdsTypeOK /\ BelowCounter
    BY DEF InductiveInv
  <2>2. BelowCounter'
    BY <2>1, BelowCounterStep
  <2>3. file' >= file
    BY <2>1, FileGrows
  <2>4. IdsTypeOK'
    BY <2>1, TypeStep
  <2> QED
    BY <2>2, <2>3, <2>4
<1>2. SUFFICES ASSUME FileWorked' PROVE BlocksReserved' /\ FileCoversHandedIds'
  BY <1>1 DEF InductiveInv, BlocksReserved, FileCoversHandedIds
<1>3. FileWorked
  BY <1>2, TroubleStays DEF FileWorked, InductiveInv
<1> USE <1>3 DEF IdsTypeOK, BlocksReserved, FileCoversHandedIds, InductiveInv, Unreadable
<1>4. ASSUME NEW p \in IOs, NEW o \in Outcomes, Start(p, o)
      PROVE  BlocksReserved' /\ FileCoversHandedIds'
  <2>1. handed' = handed /\ next'[p] = reservedEnd'[p]
    BY <1>4 DEF Start
  <2>2. \A q \in IOs : q # p => next'[q] = next[q] /\ reservedEnd'[q] = reservedEnd[q]
    BY <1>4 DEF Start
  <2> QED
    BY <1>1, <2>1, <2>2
<1>5. ASSUME NEW p \in IOs, NEW o \in Outcomes, TakeReserving(p, o)
      PROVE  BlocksReserved' /\ FileCoversHandedIds'
  <2> DEFINE wanted == next[p] + BlockSize
  <2>1. wanted \in Nat /\ wanted > next[p]
    BY BlockSizeAssumption
  <2>2. o = "ok"
    BY <1>2, <1>5 DEF TakeReserving, noted, FileWorked
  <2>3. file' = larger(file, wanted) /\ reservedEnd'[p] = larger(larger(file, wanted), wanted)
    BY <1>5, <2>2 DEF TakeReserving, updateStored, updateResult
  <2>4. reservedEnd'[p] = file' /\ next[p] < file'
    BY <2>1, <2>3 DEF larger
  <2>5. \A q \in IOs : q # p => /\ next'[q] = next[q]
                                /\ reservedEnd'[q] = reservedEnd[q]
                                /\ handed'[q] = handed[q]
    BY <1>5 DEF TakeReserving
  <2>6. handed'[p] = handed[p] \cup {next[p]}
    BY <1>5 DEF TakeReserving
  <2> QED
    BY <1>1, <2>4, <2>5, <2>6
<1>6. ASSUME NEW p \in IOs, TakeReserved(p)
      PROVE  BlocksReserved' /\ FileCoversHandedIds'
  BY <1>1, <1>6 DEF TakeReserved
<1>7. ASSUME NEW p \in IOs, Die(p) PROVE BlocksReserved' /\ FileCoversHandedIds'
  BY <1>7 DEF Die
<1>8. CASE UNCHANGED idVars
  BY <1>8 DEF idVars, BelowCounter
<1> QED
  BY <1>1, <1>4, <1>5, <1>6, <1>7, <1>8 DEF IdsNext

LEMMA InductiveInvInit == IdsInit => InductiveInv
BY DEF IdsInit, InductiveInv, IdsTypeOK, BelowCounter, BlocksReserved, FileCoversHandedIds

(* While the file works, the number in it stays above every id any io has  *)
(* handed out, overlapping io processes included: a replacement reading it *)
(* starts above all of them.                                               *)
THEOREM FileCoversIds == IdsSpec => []FileCoversHandedIds
<1>1. IdsInit => InductiveInv
  BY InductiveInvInit
<1>2. InductiveInv /\ [IdsNext]_idVars => InductiveInv'
  BY InductiveInvStep
<1>3. InductiveInv => FileCoversHandedIds
  BY DEF InductiveInv
<1> QED
  BY <1>1, <1>2, <1>3, PTL DEF IdsSpec

(* While the file works and one io is reaped before the next is spawned,   *)
(* no id is ever handed out by two of them: an id a client kept from a     *)
(* dead io names nothing in its successors.                                *)
THEOREM IdsNeverReused == IdsSpec => []NoIdReused
<1> DEFINE Inv == InductiveInv /\ LatestCountsOn /\ NoIdReused
<1>1. IdsInit => Inv
  BY InductiveInvInit DEF IdsInit, LatestCountsOn, NoIdReused, HandedTwice
<1>2. Inv /\ [IdsNext]_idVars => Inv'
  <2> SUFFICES ASSUME Inv, [IdsNext]_idVars PROVE LatestCountsOn' /\ NoIdReused'
    BY InductiveInvStep
  <2>1. InductiveInv'
    BY InductiveInvStep
  <2>2. SUFFICES ASSUME trouble' = {} PROVE LatestCountsOn' /\ NoIdReused'
    BY DEF LatestCountsOn, NoIdReused
  <2>3. trouble = {}
    BY <2>2, TroubleStays DEF InductiveInv
  <2> USE <2>3 DEF LatestCountsOn, NoIdReused, HandedTwice, InductiveInv, IdsTypeOK, Unreadable
  <2>4. ASSUME NEW p \in IOs, NEW o \in Outcomes, Start(p, o)
        PROVE  LatestCountsOn' /\ NoIdReused'
    <3>1. o = "ok" /\ \A q \in IOs : life[q] # "running"
      BY <2>2, <2>4 DEF Start, noted
    <3>2. next'[p] >= file
      BY <2>4, <3>1 DEF Start, updateResult, updateStored, larger
    <3>3. handed' = handed /\ life' = [life EXCEPT ![p] = "running"]
      BY <2>4 DEF Start
    <3>4. next'[p] \in Nat
      BY <2>1
    <3> QED
      BY <3>1, <3>2, <3>3, <3>4 DEF FileCoversHandedIds, FileWorked
  <2>5. ASSUME NEW p \in IOs, life[p] = "running", life' = life,
               handed' = [handed EXCEPT ![p] = @ \cup {next[p]}],
               next' = [next EXCEPT ![p] = @ + 1]
        PROVE  LatestCountsOn' /\ NoIdReused'
    <3>1. \A q \in IOs \ {p} : life[q] # "running" /\ next[p] \notin handed[q]
      BY <2>5
    <3> QED
      BY <2>5, <3>1
  <2>6. ASSUME NEW p \in IOs, Die(p) PROVE LatestCountsOn' /\ NoIdReused'
    BY <2>6 DEF Die
  <2>7. CASE UNCHANGED idVars
    BY <2>7 DEF idVars
  <2> QED
    BY <2>4, <2>5, <2>6, <2>7 DEF IdsNext, TakeReserving, TakeReserved
<1> QED
  BY <1>1, <1>2, PTL DEF IdsSpec
=============================================================================
