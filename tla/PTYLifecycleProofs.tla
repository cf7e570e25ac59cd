------------------------- MODULE PTYLifecycleProofs -------------------------
(***************************************************************************)
(* Proofs about PTYLifecycle, for any number of poll attempts and any      *)
(* amount of output.  Six handlers may notice that the child is gone; the  *)
(* invariant says that whichever comes first takes every handle away, so   *)
(* that none of the others finds anything left to do.                      *)
(***************************************************************************)
EXTENDS PTYLifecycle, TLAPS

(* The registry, the isAlive flag and the open master go together.         *)
HandlesTogether == held = isAlive /\ masterOpen = held

(* A discarded session has no source left.                                 *)
NoSourceLeft == ~held => ~noteExit /\ ~hasReadSource

(* Only a discarded session's child is waited for by the detached reaper.  *)
ReaperIsLast == reaper # Idle => ~isAlive

Linked == HandlesTogether /\ NoSourceLeft /\ ReaperIsLast

IInv == TypeOK /\ ExitToldOnce /\ SourceBalanced /\ SignalsOwnChild /\ Linked

-----------------------------------------------------------------------------
(* The read source after stopReading is released with no suspend pending,  *)
(* whatever state the session was in.                                      *)
LEMMA StoppedIsBalanced ==
  ASSUME TypeOK, SourceBalanced, stopReading
  PROVE  /\ SourceBalanced'
         /\ suspensions' \in Int /\ hasReadSource' = FALSE /\ isOutputPaused' \in BOOLEAN
  BY DEF TypeOK, SourceBalanced, stopReading, stoppedSuspensions, stoppedPaused

(* What a poll leaves due is again an attempt within the limit.            *)
LEMMA PolledAgainType ==
  ASSUME NEW n \in Attempts, n # Idle
  PROVE  polledAgain(n) \in Attempts
  BY AttemptsAssumption DEF Attempts, Idle, polledAgain

(* Attempt 0 is one a chain may be due to make.                            *)
LEMMA ZeroIsAttempt == 0 \in Attempts /\ 0 # Idle /\ Idle \in Attempts
  BY AttemptsAssumption DEF Attempts, Idle

(* A session is born with all its handles.                                 *)
LEMMA InitLinked == Init => IInv
  <1> SUFFICES ASSUME Init PROVE IInv
    OBVIOUS
  <1>1. TypeOK
    <2>1. unread \in 0..MaxOutput
      BY OutputAssumption DEF Init
    <2>2. sigchld \in BOOLEAN
      BY DEF Init
    <2>3. polls \in [Chains -> Attempts] /\ reaper \in Attempts
      BY ZeroIsAttempt DEF Init
    <2>4. suspensions \in Int /\ reports \in Nat
      BY DEF Init
    <2> QED BY <2>1, <2>2, <2>3, <2>4 DEF Init, TypeOK
  <1>2. ExitToldOnce /\ SourceBalanced /\ SignalsOwnChild
    BY DEF Init, ExitToldOnce, SourceBalanced, SignalsOwnChild
  <1>3. Linked
    BY DEF Init, Linked, HandlesTogether, NoSourceLeft, ReaperIsLast
  <1> QED BY <1>1, <1>2, <1>3 DEF IInv

(* reap, from whichever handler, takes every handle away at once.          *)
LEMMA ReapKeeps ==
  ASSUME IInv, isAlive, child = "zombie", reap, sigchld' \in BOOLEAN, startPoll' \in BOOLEAN,
         polls' \in [Chains -> Attempts]
  PROVE  IInv'
  <1> USE DEF IInv, Linked
  <1>1. SourceBalanced' /\ suspensions' \in Int /\ hasReadSource' = FALSE /\ isOutputPaused' \in BOOLEAN
    BY StoppedIsBalanced DEF reap, discard
  <1>2. held /\ reports = 0
    BY DEF SignalsOwnChild, ExitToldOnce
  <1>3. /\ held' = FALSE /\ isAlive' = FALSE /\ masterOpen' = FALSE /\ noteExit' = FALSE
        /\ reports' = 1 /\ child' = "reaped" /\ unread' = 0 /\ eof' = eof /\ reaper' = reaper
        /\ graceTimer' = graceTimer
    BY <1>2 DEF reap, discard, aliveAfterReap, drainedAtReap
  <1>4. TypeOK'
    <2>1. unread' \in 0..MaxOutput /\ reports' \in Nat /\ child' \in {"running", "exiting", "zombie", "reaped"}
      BY <1>3, OutputAssumption
    <2>2. eof' \in BOOLEAN /\ graceTimer' \in BOOLEAN /\ reaper' \in Attempts
      BY <1>3 DEF TypeOK
    <2>3. held' \in BOOLEAN /\ isAlive' \in BOOLEAN /\ masterOpen' \in BOOLEAN /\ noteExit' \in BOOLEAN /\ hasReadSource' \in BOOLEAN
      BY <1>1, <1>3
    <2> QED BY <2>1, <2>2, <2>3, <1>1 DEF TypeOK
  <1>5. ExitToldOnce' /\ SignalsOwnChild' /\ Linked'
    BY <1>1, <1>3 DEF ExitToldOnce, SignalsOwnChild, HandlesTogether, NoSourceLeft, ReaperIsLast
  <1> QED BY <1>1, <1>4, <1>5

(* A handler that finds nothing to reap leaves the session as it was.      *)
LEMMA NotReapedKeeps ==
  ASSUME IInv, notReaped, sigchld' \in BOOLEAN, startPoll' \in BOOLEAN,
         polls' \in [Chains -> Attempts]
  PROVE  IInv'
  BY DEF IInv, Linked, notReaped, TypeOK, ExitToldOnce, SourceBalanced, SignalsOwnChild,
         HandlesTogether, NoSourceLeft, ReaperIsLast, sourceVars

(* reapIfExited keeps the invariant, whoever called it.                    *)
LEMMA ReapIfExitedKeeps ==
  ASSUME IInv, reapIfExited, sigchld' \in BOOLEAN, startPoll' \in BOOLEAN,
         polls' \in [Chains -> Attempts]
  PROVE  IInv'
  <1>1. CASE isAlive /\ child = "zombie"
    BY <1>1, ReapKeeps DEF reapIfExited
  <1>2. CASE ~(isAlive /\ child = "zombie")
    BY <1>2, NotReapedKeeps DEF reapIfExited
  <1> QED BY <1>1, <1>2

-----------------------------------------------------------------------------
(* The kernel moves the child along; it never touches a handle, and it     *)
(* posts an exit event only to a source that still exists.                 *)
LEMMA KernelKeeps == ASSUME IInv, Kernel PROVE IInv'
  <1> USE DEF IInv, Linked, pollVars, sourceVars
  <1>1. CASE ChildWrites
    <2>1. unread' \in 0..MaxOutput
      BY <1>1, OutputAssumption DEF ChildWrites, TypeOK
    <2> QED BY <1>1, <2>1 DEF ChildWrites, TypeOK, ExitToldOnce, SourceBalanced,
               SignalsOwnChild, HandlesTogether, NoSourceLeft, ReaperIsLast
  <1>2. CASE ChildExits
    <2>1. noteExit' = held /\ child' = "exiting"
      BY <1>2 DEF ChildExits
    <2>2. TypeOK'
      BY <1>2, <2>1 DEF ChildExits, TypeOK
    <2> QED BY <1>2, <2>1, <2>2 DEF ChildExits, ExitToldOnce, SourceBalanced,
               SignalsOwnChild, HandlesTogether, NoSourceLeft, ReaperIsLast
  <1>3. CASE KernelMakesWaitable
    <2>1. TypeOK'
      BY <1>3 DEF KernelMakesWaitable, TypeOK
    <2> QED BY <1>3, <2>1 DEF KernelMakesWaitable, ExitToldOnce, SourceBalanced,
               SignalsOwnChild, HandlesTogether, NoSourceLeft, ReaperIsLast
  <1>4. CASE TerminalCloses
    <2>1. TypeOK'
      BY <1>4 DEF TerminalCloses, TypeOK
    <2> QED BY <1>4, <2>1 DEF TerminalCloses, ExitToldOnce, SourceBalanced,
               SignalsOwnChild, HandlesTogether, NoSourceLeft, ReaperIsLast
  <1> QED BY <1>1, <1>2, <1>3, <1>4 DEF Kernel

(* The first poll, the chains and the sweep all go through reapIfExited.   *)
LEMMA PollsKeep ==
  ASSUME IInv, StartPoll \/ SigchldSweep \/ \E k \in Chains : PollTick(k)
  PROVE  IInv'
  <1>1. CASE StartPoll
    <2>1. sigchld' \in BOOLEAN /\ startPoll' \in BOOLEAN /\ polls' \in [Chains -> Attempts]
      BY <1>1 DEF StartPoll, IInv, TypeOK
    <2> QED BY <1>1, <2>1, ReapIfExitedKeeps DEF StartPoll
  <1>2. CASE SigchldSweep
    <2>1. sigchld' \in BOOLEAN /\ startPoll' \in BOOLEAN /\ polls' \in [Chains -> Attempts]
      BY <1>2 DEF SigchldSweep, IInv, TypeOK
    <2>2. reapIfExited \/ notReaped
      BY <1>2 DEF SigchldSweep
    <2> QED BY <2>1, <2>2, ReapIfExitedKeeps, NotReapedKeeps
  <1>3. ASSUME NEW k \in Chains, PollTick(k) PROVE IInv'
    <2>1. polls \in [Chains -> Attempts] /\ polls[k] # Idle
      BY <1>3 DEF PollTick, IInv, TypeOK
    <2>2. polledAgain(polls[k]) \in Attempts
      BY <2>1, PolledAgainType
    <2>3. sigchld' \in BOOLEAN /\ startPoll' \in BOOLEAN /\ polls' \in [Chains -> Attempts]
      BY <1>3, <2>1, <2>2 DEF PollTick, IInv, TypeOK
    <2> QED BY <1>3, <2>3, ReapIfExitedKeeps DEF PollTick
  <1> QED BY <1>1, <1>2, <1>3

(* The exit source fires before the child is waitable as often as after.   *)
LEMMA ExitSourceKeeps == ASSUME IInv, ExitSourceFires PROVE IInv'
  <1>1. polledAgain(0) \in Attempts
    BY ZeroIsAttempt, PolledAgainType
  <1>2. sigchld' \in BOOLEAN /\ startPoll' \in BOOLEAN /\ polls' \in [Chains -> Attempts]
    BY <1>1 DEF ExitSourceFires, IInv, TypeOK, Chains
  <1>3. CASE isAlive /\ child = "zombie"
    BY <1>2, <1>3, ReapKeeps DEF ExitSourceFires
  <1>4. CASE ~(isAlive /\ child = "zombie")
    <2> USE DEF IInv, Linked
    <2>1. /\ noteExit' = FALSE
          /\ UNCHANGED <<child, isAlive, unread, reports, held, sourceVars, masterOpen, eof,
                         reaper, graceTimer>>
      BY <1>4 DEF ExitSourceFires
    <2>2. TypeOK'
      BY <1>2, <2>1 DEF TypeOK, sourceVars
    <2> QED BY <2>1, <2>2 DEF sourceVars, ExitToldOnce, SourceBalanced, SignalsOwnChild,
               HandlesTogether, NoSourceLeft, ReaperIsLast
  <1> QED BY <1>3, <1>4

(* A read that ends in EOF gives up the source and reaps, or gives up the  *)
(* source alone; one that does not leaves both.                            *)
LEMMA DrainKeeps == ASSUME IInv, DrainAvailableOutput PROVE IInv'
  <1>1. polledAgain(0) \in Attempts
    BY ZeroIsAttempt, PolledAgainType
  <1>2. polls' \in [Chains -> Attempts]
    BY <1>1, ZeroIsAttempt DEF DrainAvailableOutput, IInv, TypeOK, Chains
  <1>3. sigchld' \in BOOLEAN /\ startPoll' \in BOOLEAN
    BY DEF DrainAvailableOutput, IInv, TypeOK
  <1>4. 0 \in 0..MaxOutput
    BY OutputAssumption
  <1>5. CASE ~eof
    <2> USE DEF IInv, Linked
    <2>1. unread' = 0 /\ UNCHANGED <<child, noteExit, isAlive, reports, held, sourceVars,
                                     masterOpen, polls, sigchld, eof, startPoll, reaper, graceTimer>>
      BY <1>5 DEF DrainAvailableOutput
    <2>2. TypeOK'
      BY <1>4, <2>1 DEF TypeOK, sourceVars
    <2> QED BY <2>1, <2>2 DEF sourceVars, ExitToldOnce, SourceBalanced, SignalsOwnChild,
               HandlesTogether, NoSourceLeft, ReaperIsLast
  <1>6. CASE eof /\ isAlive /\ child = "zombie"
    <2>1. reap
      BY <1>6 DEF DrainAvailableOutput, reap, aliveAfterReap, drainedAtReap
    <2> QED BY <1>2, <1>3, <1>6, <2>1, ReapKeeps
  <1>7. CASE eof /\ ~(isAlive /\ child = "zombie")
    <2> USE DEF IInv, Linked
    <2>1. unread' = 0 /\ stopReading
          /\ UNCHANGED <<child, noteExit, isAlive, reports, held, masterOpen, sigchld, eof,
                         startPoll, reaper, graceTimer>>
      BY <1>7 DEF DrainAvailableOutput
    <2>2. SourceBalanced' /\ suspensions' \in Int /\ hasReadSource' = FALSE /\ isOutputPaused' \in BOOLEAN
      BY <2>1, StoppedIsBalanced
    <2>3. TypeOK'
      BY <1>2, <1>3, <1>4, <2>1, <2>2 DEF TypeOK
    <2> QED BY <2>1, <2>2, <2>3 DEF ExitToldOnce, SignalsOwnChild, HandlesTogether,
               NoSourceLeft, ReaperIsLast
  <1> QED BY <1>5, <1>6, <1>7

(* Pausing suspends the source exactly when there is one.                  *)
LEMMA PauseKeeps ==
  ASSUME IInv, NEW flag \in BOOLEAN, SetOutputPaused(flag)
  PROVE  IInv'
  <1> USE DEF IInv, Linked
  <1>1. /\ isOutputPaused' = flag /\ flag # isOutputPaused
        /\ suspensions' = IF ~hasReadSource THEN suspensions
                          ELSE IF flag THEN suspensions + 1 ELSE suspensions - 1
        /\ UNCHANGED <<child, noteExit, sigchld, eof, unread, isAlive, startPoll, polls, reaper,
                       hasReadSource, held, masterOpen, graceTimer, reports>>
    BY DEF SetOutputPaused, kernelVars, pollVars
  <1>2. SourceBalanced' /\ suspensions' \in Int
    BY <1>1 DEF TypeOK, SourceBalanced
  <1>3. TypeOK'
    BY <1>1, <1>2 DEF TypeOK
  <1> QED BY <1>1, <1>2, <1>3 DEF ExitToldOnce, SignalsOwnChild, HandlesTogether, NoSourceLeft,
             ReaperIsLast

(* A close only arms the timer.                                            *)
LEMMA CloseKeeps == ASSUME IInv, Close PROVE IInv'
  <1> USE DEF IInv, Linked, Close, kernelVars, pollVars, sourceVars
  <1>1. TypeOK'
    BY DEF TypeOK
  <1> QED BY <1>1 DEF ExitToldOnce, SourceBalanced, SignalsOwnChild, HandlesTogether,
             NoSourceLeft, ReaperIsLast

(* The grace timer discards only a session that is still in the registry,  *)
(* and leaves an unreaped child to the detached reaper.                    *)
LEMMA GraceKeeps == ASSUME IInv, GraceExpires PROVE IInv'
  <1> USE DEF IInv, Linked
  <1>1. graceTimer' = FALSE /\ UNCHANGED <<sigchld, eof, unread, startPoll, polls>>
    BY DEF GraceExpires
  <1>2. CASE held
    <2>1. /\ discard /\ isAlive' = FALSE
          /\ child' = IF isAlive /\ child = "zombie" THEN "reaped" ELSE child
          /\ reaper' = IF isAlive /\ child # "zombie" THEN 0 ELSE reaper
      BY <1>2 DEF GraceExpires
    <2>2. SourceBalanced' /\ suspensions' \in Int /\ hasReadSource' = FALSE /\ isOutputPaused' \in BOOLEAN
      BY <2>1, StoppedIsBalanced DEF discard
    <2>3. held' = FALSE /\ masterOpen' = FALSE /\ noteExit' = FALSE /\ reports' = 1
      BY <1>2, <2>1 DEF discard, ExitToldOnce
    <2>4. child' \in {"running", "exiting", "zombie", "reaped"} /\ reaper' \in Attempts
      BY <2>1, ZeroIsAttempt DEF TypeOK
    <2>5. held' \in BOOLEAN /\ isAlive' \in BOOLEAN /\ masterOpen' \in BOOLEAN
          /\ noteExit' \in BOOLEAN /\ hasReadSource' \in BOOLEAN /\ graceTimer' \in BOOLEAN
      BY <1>1, <2>1, <2>2, <2>3
    <2>6. TypeOK'
      BY <1>1, <2>2, <2>3, <2>4, <2>5 DEF TypeOK
    <2> QED BY <2>1, <2>2, <2>3, <2>6 DEF ExitToldOnce, SignalsOwnChild, HandlesTogether,
               NoSourceLeft, ReaperIsLast
  <1>3. CASE ~held
    <2>1. UNCHANGED <<child, noteExit, isAlive, reaper, sourceVars, held, masterOpen, reports>>
      BY <1>3 DEF GraceExpires
    <2>2. TypeOK'
      BY <1>1, <2>1 DEF TypeOK, sourceVars
    <2> QED BY <2>1, <2>2 DEF sourceVars, ExitToldOnce, SourceBalanced, SignalsOwnChild,
               HandlesTogether, NoSourceLeft, ReaperIsLast
  <1> QED BY <1>2, <1>3

(* The detached reaper waits only for a child nobody signals any more.     *)
LEMMA ReaperKeeps == ASSUME IInv, ReaperTick PROVE IInv'
  <1> USE DEF IInv, Linked, sourceVars
  <1>1. ~isAlive /\ ~held
    BY DEF ReaperTick, ReaperIsLast, HandlesTogether
  <1>2. /\ child' = IF child = "zombie" THEN "reaped" ELSE child
        /\ reaper' = IF child # "zombie" /\ reaper < MaxAttempts THEN reaper + 1 ELSE Idle
        /\ UNCHANGED <<noteExit, sigchld, eof, unread, isAlive, startPoll, polls, isOutputPaused,
                       hasReadSource, suspensions, held, masterOpen, graceTimer, reports>>
    BY DEF ReaperTick
  <1>3. child' \in {"running", "exiting", "zombie", "reaped"}
    BY <1>2 DEF TypeOK
  <1>4. reaper' \in Attempts
    BY <1>2, AttemptsAssumption DEF TypeOK, Attempts, Idle, ReaperTick
  <1>5. TypeOK'
    BY <1>2, <1>3, <1>4 DEF TypeOK
  <1> QED BY <1>1, <1>2, <1>5 DEF ExitToldOnce, SourceBalanced, SignalsOwnChild,
             HandlesTogether, NoSourceLeft, ReaperIsLast

-----------------------------------------------------------------------------
(* The inductive invariant of the session's lifecycle holds for ever.      *)
THEOREM LifecycleInvariant == Spec => []IInv
  <1>1. Init => IInv
    BY InitLinked
  <1>2. ASSUME IInv, [Next]_vars PROVE IInv'
    <2>1. CASE Kernel
      BY <1>2, <2>1, KernelKeeps
    <2>2. CASE Queue
      BY <1>2, <2>2, PollsKeep, ExitSourceKeeps, DrainKeeps, GraceKeeps, ReaperKeeps DEF Queue
    <2>3. CASE Requests
      BY <1>2, <2>3, CloseKeeps, PauseKeeps DEF Requests
    <2>4. CASE UNCHANGED vars
      BY <1>2, <2>4 DEF vars, kernelVars, pollVars, sourceVars, IInv, Linked, TypeOK, ExitToldOnce,
         SourceBalanced, SignalsOwnChild, HandlesTogether, NoSourceLeft, ReaperIsLast
    <2> QED BY <1>2, <2>1, <2>2, <2>3, <2>4 DEF Next
  <1> QED BY <1>1, <1>2, PTL DEF Spec

(* Every variable of a session keeps its type, the attempt counts within   *)
(* their limit included.                                                   *)
THEOREM TypeCorrect == Spec => []TypeOK
  BY LifecycleInvariant, PTL DEF IInv

(* Source, poll, EOF, sweep and grace timer may notice an exit in any      *)
(* order and several of them: the peers hear of it exactly once.           *)
THEOREM ExitIsToldOnce == Spec => []ExitToldOnce
  BY LifecycleInvariant, PTL DEF IInv

(* However pauses, EOF and discards interleave, the read source is never   *)
(* resumed without a suspend nor released suspended.                       *)
THEOREM SourceStaysBalanced == Spec => []SourceBalanced
  BY LifecycleInvariant, PTL DEF IInv

(* A session that may still signal its pid has not waited for it, so the   *)
(* signal never reaches a process that inherited the number.               *)
THEOREM OwnChildSignalled == Spec => []SignalsOwnChild
  BY LifecycleInvariant, PTL DEF IInv
=============================================================================
