----------------------------- MODULE IOChannel -----------------------------
(***************************************************************************)
(* One direction of the socket between `ighostvtd` and `ighostvtd-io`      *)
(* (IOChannel.swift): a sender that queues frames and writes what the      *)
(* socket takes, and a receiver that cuts the bytes back into frames and   *)
(* may be paused by the handler of any of them.                            *)
(*                                                                         *)
(* A byte is <<n, k>>: the k-th of frame n.  A frame starts with a header, *)
(* here one byte, that says its length and its peer.                       *)
(***************************************************************************)
EXTENDS Integers, Sequences, FiniteSetsExt

CONSTANTS
    PeerIds,        \* peers frames are stamped with
    FrameSizes,     \* lengths of a frame, header included
    MaxFrames,      \* bound: frames sent
    SocketRoom      \* bytes the socket holds

ASSUME FramesAssumption ==
    /\ FrameSizes \subseteq Nat \ {0}
    /\ MaxFrames \in Nat
    /\ SocketRoom \in Nat \ {0}

VARIABLES
    frames,            \* frames[n]: peer and length of the n-th frame sent
    gone,              \* peers the proxy has reported gone
    outbound, outboundOffset, unstartedBoundary, isWriteArmed,
    discarded,         \* history: frames discardQueuedFrames dropped
    socket,            \* bytes in flight
    senderGone,        \* the sending process is gone: EOF follows the bytes
    inbound,           \* bytes read and not dispatched yet
    isReadSuspended,
    redispatch,        \* resumeReading put a dispatch on the queue
    isClosed,          \* the receiving end is closed
    trapped,           \* the receiving process crashed in dispatch
    malformed,         \* a header was expected and something else was there
    delivered          \* history: frames handed to onFrame, in order

senderVars == <<frames, gone, outbound, outboundOffset, unstartedBoundary, isWriteArmed, discarded>>
receiverVars == <<inbound, isReadSuspended, redispatch, isClosed, trapped, malformed, delivered>>
vars == <<senderVars, socket, senderGone, receiverVars>>

Byte == (1..MaxFrames) \X (Nat \ {0})

TypeOK ==
    /\ frames \in Seq([peer : PeerIds, size : FrameSizes])
    /\ gone \subseteq PeerIds
    /\ outbound \in Seq(Byte) /\ socket \in Seq(Byte) /\ inbound \in Seq(Byte)
    /\ outboundOffset \in 0..Len(outbound)
    /\ unstartedBoundary \in 0..Len(outbound)
    /\ discarded \subseteq 1..MaxFrames
    /\ delivered \in Seq(1..MaxFrames)
    /\ {isWriteArmed, senderGone, isReadSuspended, redispatch, isClosed, trapped, malformed}
         \subseteq BOOLEAN

Init ==
    /\ frames = <<>> /\ gone = {}
    /\ outbound = <<>> /\ outboundOffset = 0 /\ unstartedBoundary = 0 /\ isWriteArmed = FALSE
    /\ discarded = {}
    /\ socket = <<>> /\ senderGone = FALSE
    /\ inbound = <<>> /\ isReadSuspended = FALSE /\ redispatch = FALSE
    /\ isClosed = FALSE /\ trapped = FALSE /\ malformed = FALSE
    /\ delivered = <<>>

-----------------------------------------------------------------------------
frameBytes(n, size) == [k \in 1..size |-> <<n, k>>]
isHeader(bytes, i) == bytes[i][2] = 1
drop(s, n) == SubSeq(s, n + 1, Len(s))
room == SocketRoom - Len(socket)

(* What is left of s without the elements of set d, in order.              *)
without(s, d) ==
    LET left[i \in 0..Len(s)] ==
            IF i = 0 THEN <<>>
            ELSE IF s[i] \in d THEN left[i - 1] ELSE Append(left[i - 1], s[i])
    IN  left[Len(s)]

(* advanceUnstartedBoundary: header by header from the last known boundary *)
(* to the first one at or past what has been written.                      *)
advanced(bytes, offset, boundary) ==
    IF boundary >= offset \/ ~isHeader(bytes, boundary + 1) THEN boundary
    ELSE Min({c \in offset..Len(bytes) : c = Len(bytes) \/ isHeader(bytes, c + 1)})

(* flushOutbound on the given bytes: as many as the socket takes, then     *)
(* either the accumulator is reset or what is left is compacted and the    *)
(* write source armed.                                                     *)
compactedBoundary(bytes, offset) == advanced(bytes, offset, unstartedBoundary) - offset

armed(bytes, offset) == offset < Len(bytes)

flushOutbound(bytes) ==
    LET live == Len(bytes) - outboundOffset
        offset == outboundOffset + (IF live <= room THEN live ELSE room) IN
    /\ socket' = socket \o SubSeq(bytes, outboundOffset + 1, offset)
    /\ isWriteArmed' = armed(bytes, offset)
    /\ \/ /\ offset = Len(bytes)
          /\ outbound' = <<>> /\ outboundOffset' = 0 /\ unstartedBoundary' = 0
       \/ /\ offset < Len(bytes) /\ offset > Len(bytes) - offset
          /\ outbound' = drop(bytes, offset) /\ outboundOffset' = 0
          /\ unstartedBoundary' = compactedBoundary(bytes, offset)
       \/ /\ offset < Len(bytes) /\ offset <= Len(bytes) - offset
          /\ outbound' = bytes /\ outboundOffset' = offset
          /\ UNCHANGED unstartedBoundary

-----------------------------------------------------------------------------
(* The sender. *)

Send(p, size) ==
    /\ ~senderGone /\ ~isClosed
    /\ Len(frames) < MaxFrames /\ p \notin gone
    /\ frames' = Append(frames, [peer |-> p, size |-> size])
    /\ flushOutbound(outbound \o frameBytes(Len(frames) + 1, size))
    /\ UNCHANGED <<gone, discarded, senderGone, receiverVars>>

WriteSourceFires ==
    /\ ~senderGone /\ ~isClosed
    /\ isWriteArmed /\ room > 0
    /\ flushOutbound(outbound)
    /\ UNCHANGED <<frames, gone, discarded, senderGone, receiverVars>>

(* discardQueuedFrames: what is queued for a gone peer and has not begun   *)
(* to leave.                                                               *)
DiscardQueuedFrames(p) ==
    /\ ~senderGone /\ ~isClosed
    /\ p \notin gone
    /\ gone' = gone \cup {p}
    /\ LET boundary == advanced(outbound, outboundOffset, unstartedBoundary)
           rest == drop(outbound, boundary)
           dropped == {rest[i] : i \in {j \in 1..Len(rest) : frames[rest[j][1]].peer = p}}
           left == SubSeq(outbound, 1, boundary) \o without(rest, dropped) IN
         IF outboundOffset = Len(outbound) \/ boundary >= Len(outbound)
         THEN /\ unstartedBoundary' = IF outboundOffset = Len(outbound) THEN unstartedBoundary
                                      ELSE boundary
              /\ UNCHANGED <<outbound, outboundOffset, isWriteArmed, discarded>>
         ELSE /\ discarded' = discarded \cup {b[1] : b \in dropped}
              /\ IF outboundOffset = Len(left)
                   THEN /\ outbound' = <<>> /\ outboundOffset' = 0
                        /\ unstartedBoundary' = 0 /\ isWriteArmed' = FALSE
                   ELSE /\ outbound' = left /\ unstartedBoundary' = boundary
                        /\ UNCHANGED <<outboundOffset, isWriteArmed>>
    /\ UNCHANGED <<frames, socket, senderGone, receiverVars>>

(* close() at the sending end, or the end of its process: what the kernel  *)
(* has is still delivered.  A send after the receiver closed is this step  *)
(* (EPIPE), so the sends above are to an open receiver.                    *)
SenderCloses ==
    /\ ~senderGone
    /\ senderGone' = TRUE
    /\ outbound' = <<>> /\ outboundOffset' = 0 /\ unstartedBoundary' = 0 /\ isWriteArmed' = FALSE
    /\ UNCHANGED <<frames, gone, discarded, socket, receiverVars>>

-----------------------------------------------------------------------------
(* The receiver. *)

(* The walk of dispatchCompleteFrames: cuts(bytes)[i] is `consumed` after  *)
(* i whole frames, and stays where no whole frame follows.                 *)
frameAt(bytes, c) == bytes[c + 1][1]
isWhole(bytes, c) ==
    c < Len(bytes) /\ isHeader(bytes, c + 1) /\ c + frames[frameAt(bytes, c)].size <= Len(bytes)

cuts(bytes) ==
    LET cut[i \in 0..Len(bytes)] ==
            IF i = 0 THEN 0
            ELSE IF isWhole(bytes, cut[i - 1])
                 THEN cut[i - 1] + frames[frameAt(bytes, cut[i - 1])].size
                 ELSE cut[i - 1]
    IN  cut

handedOver(bytes, j) == [i \in 1..j |-> frameAt(bytes, cuts(bytes)[i - 1])]
wholeFrames(bytes) == {i \in 1..Len(bytes) : isWhole(bytes, cuts(bytes)[i - 1])}

(* dispatchCompleteFrames on the given bytes: j frames are handed over;    *)
(* fewer than there are only when the handler of the j-th paused reading.  *)
(* Something else where a header must be closes the link.                  *)
\* Mutation: a pause leaves the frame that caused it in the accumulator.
consumedWithout(bytes, j) == cuts(bytes)[j - 1]

consumed(bytes, j) == cuts(bytes)[j]

dispatchCompleteFrames(bytes) ==
    LET all == Cardinality(wholeFrames(bytes))
        rest == cuts(bytes)[all] IN
    \/ /\ rest < Len(bytes) /\ ~isHeader(bytes, rest + 1)
       /\ delivered' = delivered \o handedOver(bytes, all)
       /\ malformed' = TRUE /\ isClosed' = TRUE /\ inbound' = <<>>
       /\ UNCHANGED <<isReadSuspended, trapped>>
    \/ /\ all = 0 /\ (rest < Len(bytes) => isHeader(bytes, rest + 1))
       /\ inbound' = bytes
       /\ UNCHANGED <<isReadSuspended, isClosed, trapped, malformed, delivered>>
    \/ \E j \in 1..all, pauses \in BOOLEAN :
         /\ j = all /\ rest < Len(bytes) => pauses \/ isHeader(bytes, rest + 1)
         /\ j < all => pauses
         /\ isReadSuspended' = pauses
         /\ delivered' = delivered \o handedOver(bytes, j)
         /\ inbound' = drop(bytes, consumed(bytes, j))
         /\ UNCHANGED <<isClosed, trapped, malformed>>

(* readAvailable: one read per event, up to its buffer. *)
ReadAvailable ==
    /\ ~isClosed /\ ~isReadSuspended /\ socket # <<>>
    /\ \E k \in 1..Len(socket) :
         /\ dispatchCompleteFrames(inbound \o SubSeq(socket, 1, k))
         /\ socket' = drop(socket, k)
    /\ UNCHANGED <<senderVars, senderGone, redispatch>>

(* The end of dispatchCompleteFrames: removeFirst of more than there is    *)
(* ends the process.                                                       *)
removeFirstTraps(bytes, n) == n > 0 /\ n # Len(bytes) /\ n > Len(bytes)

(* A handler that sends while the other end is gone: EPIPE closes the      *)
(* channel under dispatchCompleteFrames, which then removes what it        *)
(* consumed from an accumulator that close() has emptied.  An io process   *)
(* exits in onClosed, before that; the proxy does not (IOSupervisor shows  *)
(* the run that gets it there).                                            *)
HandlerSendsToGone ==
    /\ ~isClosed /\ ~isReadSuspended /\ senderGone
    /\ \E k \in 1..Len(socket) :
         LET bytes == inbound \o SubSeq(socket, 1, k) IN
         /\ \E j \in 1..Cardinality(wholeFrames(bytes)) :
              /\ delivered' = delivered \o handedOver(bytes, j)
              /\ trapped' = removeFirstTraps(<<>>, consumed(bytes, j))
         /\ socket' = drop(socket, k)
    /\ isClosed' = TRUE /\ inbound' = <<>>
    /\ UNCHANGED <<senderVars, senderGone, isReadSuspended, redispatch, malformed>>

ReadEOF ==
    /\ ~isClosed /\ ~isReadSuspended /\ socket = <<>> /\ senderGone
    /\ isClosed' = TRUE /\ inbound' = <<>>
    /\ UNCHANGED <<senderVars, socket, senderGone, isReadSuspended, redispatch, trapped,
                   malformed, delivered>>

\* Mutation: only the socket is resumed, not what was read with the pause.
ResumeSocketOnly ==
    /\ ~isClosed /\ isReadSuspended
    /\ isReadSuspended' = FALSE
    /\ UNCHANGED <<senderVars, socket, senderGone, inbound, redispatch, isClosed, trapped,
                   malformed, delivered>>

ResumeReading ==
    /\ ~isClosed /\ isReadSuspended
    /\ isReadSuspended' = FALSE
    /\ redispatch' = TRUE
    /\ UNCHANGED <<senderVars, socket, senderGone, inbound, isClosed, trapped, malformed,
                   delivered>>

Redispatch ==
    /\ redispatch
    /\ redispatch' = FALSE
    /\ IF isClosed \/ isReadSuspended
         THEN UNCHANGED <<inbound, isReadSuspended, isClosed, trapped, malformed, delivered>>
         ELSE dispatchCompleteFrames(inbound)
    /\ UNCHANGED <<senderVars, socket, senderGone>>

-----------------------------------------------------------------------------
Next ==
    \/ \E p \in PeerIds, size \in FrameSizes : Send(p, size)
    \/ \E p \in PeerIds : DiscardQueuedFrames(p)
    \/ WriteSourceFires \/ SenderCloses
    \/ ReadAvailable \/ HandlerSendsToGone \/ ReadEOF \/ ResumeReading \/ Redispatch

Spec == Init /\ [][Next]_vars

(* Dispatch serves its sources and the queue; whoever paused the reading   *)
(* resumes it (module IOSupervisor shows that it does).                    *)
FairSpec ==
    /\ Spec
    /\ WF_vars(WriteSourceFires) /\ WF_vars(ReadAvailable)
    /\ WF_vars(ResumeReading) /\ WF_vars(Redispatch)

-----------------------------------------------------------------------------
(* The frames that were not dropped for a gone peer. *)
kept == without([n \in 1..Len(frames) |-> n], discarded)

(* Frames reach the other end whole, once and in the order they were sent, *)
(* whatever the partial writes, pauses, compactions and discards; only     *)
(* frames dropped for a gone peer are missing.                             *)
FramesInOrder ==
    /\ ~malformed
    /\ Len(delivered) <= Len(kept) /\ delivered = SubSeq(kept, 1, Len(delivered))

(* A frame for a live peer arrives, unless an end goes away first: no pause *)
(* strands what had been read along with the frame that caused it.          *)
FramesArrive ==
    \A n \in 1..MaxFrames :
        Len(frames) >= n ~>
            \/ n \in discarded \/ senderGone \/ isClosed
            \/ \E i \in 1..Len(delivered) : delivered[i] = n
=============================================================================
