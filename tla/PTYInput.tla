------------------------------ MODULE PTYInput ------------------------------
(***************************************************************************)
(* Input on its way into one terminal (PTYSession.write, flushPendingInput *)
(* and the write source of PTYSession.swift).  The kernel takes about a    *)
(* kilobyte ahead of the program; the rest waits in pendingInput, up to a  *)
(* cap past which a request is refused whole.  A paste is several chunks   *)
(* with one id, sent without waiting for the replies.                      *)
(*                                                                         *)
(* A byte is its place in a stream: <<writer, n>>.  A writer sends its     *)
(* pastes one after another, every chunk of ChunkSize bytes; the others    *)
(* type single bytes that carry no paste id.                               *)
(***************************************************************************)
EXTENDS Integers, Sequences

CONSTANTS
    Pasters,      \* peers that send chunked pastes
    Typists,      \* peers that send input of one byte, no paste id
    Pastes,       \* bound: pastes each paster sends
    Chunks,       \* chunks of a paste
    ChunkSize,    \* bytes of a chunk
    Keys,         \* bound: bytes each typist sends
    InputCap,     \* sessionPendingInputByteCount
    KernelRoom    \* bytes the kernel holds ahead of the program

ASSUME SizesAssumption ==
    /\ {Pastes, Chunks, Keys} \subseteq Nat
    /\ {ChunkSize, InputCap, KernelRoom} \subseteq Nat \ {0}
ASSUME DistinctAssumption == Pasters \cap Typists = {}

Writers == Pasters \cup Typists

VARIABLES
    isAlive,            \* PTYSession.isAlive
    slaveOpen,          \* some process has the terminal open: no EIO
    pendingInput,       \* bytes not compacted away yet, oldest first
    pendingInputOffset, \* how many of them the kernel has already taken
    refusedPaste,       \* the paste a chunk of which was last refused
    hasWriteSource,     \* writeSource is not nil
    isWriteArmed,
    suspensions,        \* suspend count of the write source
    inKernel,           \* bytes the kernel holds and the program has not read
    sent,               \* sent[w] = messages writer w has sent
    accepted,           \* history: bytes of accepted writes, in order
    arrived,            \* history: bytes the kernel has taken, in order
    refused             \* history: chunks refused, <<writer, message>>

bufferVars == <<pendingInput, pendingInputOffset>>
sourceVars == <<hasWriteSource, isWriteArmed, suspensions>>
historyVars == <<accepted, arrived, refused>>
vars == <<isAlive, slaveOpen, bufferVars, refusedPaste, sourceVars, inKernel, sent, historyVars>>

NoPaste == <<>>
Bytes == Writers \X Nat

TypeOK ==
    /\ isAlive \in BOOLEAN /\ slaveOpen \in BOOLEAN /\ hasWriteSource \in BOOLEAN /\ isWriteArmed \in BOOLEAN
    /\ pendingInput \in Seq(Bytes)
    /\ pendingInputOffset \in 0..Len(pendingInput)
    /\ refusedPaste \in {NoPaste} \cup (Pasters \X Nat)
    /\ suspensions \in Int
    /\ inKernel \in 0..KernelRoom
    /\ sent \in [Writers -> Nat]
    /\ accepted \in Seq(Bytes) /\ arrived \in Seq(Bytes)
    /\ refused \subseteq Pasters \X Nat

Init ==
    /\ isAlive = TRUE /\ slaveOpen = TRUE
    /\ pendingInput = <<>> /\ pendingInputOffset = 0
    /\ refusedPaste = NoPaste
    /\ hasWriteSource = FALSE /\ isWriteArmed = FALSE /\ suspensions = 0
    /\ inKernel = 0
    /\ sent = [w \in Writers |-> 0]
    /\ accepted = <<>> /\ arrived = <<>> /\ refused = {}

-----------------------------------------------------------------------------
(* pendingInputByteCount. *)
pendingInputByteCount == Len(pendingInput) - pendingInputOffset
live == SubSeq(pendingInput, pendingInputOffset + 1, Len(pendingInput))

(* The next message of w: its bytes, and the paste it is a chunk of.       *)
size(w) == IF w \in Pasters THEN ChunkSize ELSE 1
message(w) == [i \in 1..size(w) |-> <<w, sent[w] * size(w) + i>>]
pasteOf(w, n) == <<w, n \div Chunks>>
paste(w) == IF w \in Pasters THEN pasteOf(w, sent[w]) ELSE NoPaste
limit(w) == IF w \in Pasters THEN Pastes * Chunks ELSE Keys

(* writeAvailable: the kernel takes as much as it has room for.            *)
taken(data) == IF Len(data) <= KernelRoom - inKernel THEN Len(data) ELSE KernelRoom - inKernel

(* The three guards of write. *)
\* Mutation: a refused paste is not remembered.
stillRefusedNever(w) == FALSE

stillRefused(w) == w \in Pasters /\ paste(w) = refusedPaste

hasRoom(w) == pendingInputByteCount + size(w) <= InputCap

armWriteSource ==
    /\ hasWriteSource' = TRUE
    /\ isWriteArmed' = TRUE
    /\ suspensions' = IF hasWriteSource /\ ~isWriteArmed THEN suspensions - 1 ELSE suspensions

disarmWriteSource ==
    /\ isWriteArmed' = FALSE
    /\ suspensions' = IF isWriteArmed THEN suspensions + 1 ELSE suspensions
    /\ UNCHANGED hasWriteSource

-----------------------------------------------------------------------------
(* write(_:paste:) accepted: straight to the kernel when nothing waits.    *)
\* Mutation: a write tries the kernel first although older input waits.
WriteOvertaking(w) ==
    /\ isAlive /\ sent[w] < limit(w)
    /\ slaveOpen \/ pendingInputByteCount > 0
    /\ ~stillRefused(w) /\ hasRoom(w)
    /\ LET data == message(w)
           n == taken(data) IN
         /\ inKernel' = inKernel + n
         /\ arrived' = arrived \o SubSeq(data, 1, n)
         /\ pendingInput' = pendingInput \o SubSeq(data, n + 1, Len(data))
         /\ accepted' = accepted \o data
         /\ IF n < Len(data) THEN armWriteSource ELSE UNCHANGED sourceVars
    /\ sent' = [sent EXCEPT ![w] = @ + 1]
    /\ UNCHANGED <<isAlive, slaveOpen, pendingInputOffset, refusedPaste, refused>>

Write(w) ==
    /\ isAlive /\ sent[w] < limit(w)
    /\ slaveOpen \/ pendingInputByteCount > 0
    /\ ~stillRefused(w) /\ hasRoom(w)
    /\ LET data == message(w)
           n == IF pendingInputByteCount = 0 THEN taken(data) ELSE 0 IN
         /\ inKernel' = inKernel + n
         /\ arrived' = arrived \o SubSeq(data, 1, n)
         /\ pendingInput' = pendingInput \o SubSeq(data, n + 1, Len(data))
         /\ accepted' = accepted \o data
         /\ IF n < Len(data) THEN armWriteSource ELSE UNCHANGED sourceVars
    /\ sent' = [sent EXCEPT ![w] = @ + 1]
    /\ UNCHANGED <<isAlive, slaveOpen, pendingInputOffset, refusedPaste, refused>>

(* ... and with the slave closed: EIO, the child is on its way out, and    *)
(* there is nothing to hold the input for.                                 *)
WriteToClosedSlave(w) ==
    /\ isAlive /\ sent[w] < limit(w)
    /\ ~slaveOpen /\ pendingInputByteCount = 0
    /\ ~stillRefused(w) /\ hasRoom(w)
    /\ accepted' = accepted \o message(w)
    /\ sent' = [sent EXCEPT ![w] = @ + 1]
    /\ UNCHANGED <<isAlive, slaveOpen, bufferVars, refusedPaste, sourceVars, inKernel, arrived,
                   refused>>

(* Refused whole, `inputBacklog`; of a paste, its id is remembered.        *)
WriteRefused(w) ==
    /\ isAlive /\ sent[w] < limit(w)
    /\ stillRefused(w) \/ ~hasRoom(w)
    /\ refusedPaste' = IF ~stillRefused(w) /\ w \in Pasters THEN paste(w) ELSE refusedPaste
    /\ refused' = IF w \in Pasters THEN refused \cup {<<w, sent[w]>>} ELSE refused
    /\ sent' = [sent EXCEPT ![w] = @ + 1]
    /\ UNCHANGED <<isAlive, slaveOpen, bufferVars, sourceVars, inKernel, accepted, arrived>>

(* The program reads its terminal. *)
ProgramReads ==
    /\ isAlive /\ slaveOpen /\ inKernel > 0
    /\ inKernel' = inKernel - 1
    /\ UNCHANGED <<isAlive, slaveOpen, bufferVars, refusedPaste, sourceVars, sent, historyVars>>

(* flushPendingInput from the write source: as much as goes, then either   *)
(* everything went, or what is left is compacted.                          *)
compacted(offset) == offset > Len(pendingInput) - offset

FlushPendingInput ==
    /\ isWriteArmed /\ slaveOpen /\ inKernel < KernelRoom
    /\ LET n == taken(live)
           offset == pendingInputOffset + n IN
         /\ inKernel' = inKernel + n
         /\ arrived' = arrived \o SubSeq(live, 1, n)
         /\ \/ /\ offset = Len(pendingInput)
               /\ pendingInput' = <<>> /\ pendingInputOffset' = 0
               /\ disarmWriteSource
            \/ /\ offset < Len(pendingInput)
               /\ IF compacted(offset)
                    THEN /\ pendingInput' = SubSeq(pendingInput, offset + 1, Len(pendingInput))
                         /\ pendingInputOffset' = 0
                    ELSE /\ pendingInputOffset' = offset
                         /\ UNCHANGED pendingInput
               /\ UNCHANGED sourceVars
    /\ UNCHANGED <<isAlive, slaveOpen, refusedPaste, sent, accepted, refused>>

(* The last process closes the terminal, and the next flush finds out.     *)
SlaveCloses ==
    /\ slaveOpen
    /\ slaveOpen' = FALSE
    /\ UNCHANGED <<isAlive, bufferVars, refusedPaste, sourceVars, inKernel, sent, historyVars>>

\* Mutation: an error of the write is taken for a full terminal.
FlushFailsKeeps ==
    /\ isWriteArmed /\ ~slaveOpen
    /\ UNCHANGED vars

FlushFails ==
    /\ isWriteArmed /\ ~slaveOpen
    /\ pendingInput' = <<>> /\ pendingInputOffset' = 0
    /\ disarmWriteSource
    /\ UNCHANGED <<isAlive, slaveOpen, refusedPaste, inKernel, sent, historyVars>>

(* The session ends: stopWriting drops the buffer, and resumes the source  *)
(* before cancelling it.                                                   *)
resumedToStop == IF hasWriteSource /\ ~isWriteArmed THEN suspensions - 1 ELSE suspensions

StopWriting ==
    /\ isAlive
    /\ isAlive' = FALSE
    /\ pendingInput' = <<>> /\ pendingInputOffset' = 0
    /\ hasWriteSource' = FALSE /\ isWriteArmed' = FALSE
    /\ suspensions' = resumedToStop
    /\ UNCHANGED <<slaveOpen, refusedPaste, inKernel, sent, historyVars>>

Next ==
    \/ \E w \in Writers : Write(w) \/ WriteToClosedSlave(w) \/ WriteRefused(w)
    \/ ProgramReads \/ SlaveCloses
    \/ FlushPendingInput \/ FlushFails
    \/ StopWriting

Spec == Init /\ [][Next]_vars

(* The write source fires while it is armed and the master has room, and   *)
(* the program goes on reading.                                            *)
FairSpec ==
    /\ Spec
    /\ WF_vars(FlushPendingInput) /\ WF_vars(FlushFails)
    /\ WF_vars(ProgramReads)

-----------------------------------------------------------------------------
(* "All of them, in the order they were handed over": what the kernel has  *)
(* taken and what waits is exactly what was accepted, in order.            *)
AcceptedInputIsKept == isAlive /\ slaveOpen => arrived \o live = accepted

(* A paste arrives whole or as a prefix: no chunk is accepted after one of *)
(* the same paste was refused.                                             *)
PasteHasNoHole ==
    \A r \in refused : \A i \in 1..Len(accepted) :
        accepted[i][1] = r[1] =>
            LET n == (accepted[i][2] - 1) \div ChunkSize IN
              ~(n > r[2] /\ pasteOf(r[1], n) = pasteOf(r[1], r[2]))

(* Input a session holds does not wait for good: while its program reads,  *)
(* or once it is gone, the buffer empties.                                 *)
HeldInputGoes == pendingInputByteCount > 0 ~> pendingInputByteCount = 0
=============================================================================
