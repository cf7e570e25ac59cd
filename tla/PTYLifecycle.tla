---------------------------- MODULE PTYLifecycle ----------------------------
(***************************************************************************)
(* One PTYSession from spawn to discard: the child process, the dispatch   *)
(* sources that watch it, and the ways the registry lets go of it          *)
(* (PTYSession.swift; the SIGCHLD sweep, close and handleExit of           *)
(* SessionRegistry.swift).                                                 *)
(*                                                                         *)
(* The kernel posts NOTE_EXIT before the child becomes waitable and sends  *)
(* SIGCHLD after; a process source made after the child died never fires;  *)
(* SIGCHLD coalesces.  EOF on the PTY comes when the last process on the   *)
(* terminal closes it, which may be before the child exits or never.       *)
(***************************************************************************)
EXTENDS Integers

CONSTANTS
    MaxAttempts,  \* polls before pollUntilReaped / reapWithoutBlocking give up (25)
    MaxOutput     \* bound: output the child has written and nobody has read

ASSUME AttemptsAssumption == MaxAttempts \in Nat
ASSUME OutputAssumption == MaxOutput \in Nat \ {0}

VARIABLES
    child,          \* "running", "exiting" (NOTE_EXIT posted), "zombie", "reaped"
    noteExit,       \* the exit source has an event to handle
    sigchld,        \* a SIGCHLD has not been swept yet
    eof,            \* every process has closed the terminal
    unread,         \* output written to the terminal, not read off the master
    isAlive,        \* PTYSession.isAlive
    startPoll,      \* the one poll `start` put on the queue
    polls,          \* pollUntilReaped chains: the attempt each is due to make
    isOutputPaused, \* PTYSession.isOutputPaused
    hasReadSource,  \* PTYSession.readSource is not nil
    suspensions,    \* suspend count of the read source
    held,           \* the registry still has the session
    masterOpen,     \* the PTY master is open
    graceTimer,     \* a close is waiting out its grace period
    reaper,         \* reapWithoutBlocking: the attempt it is due to make
    reports         \* exits told to the peers

kernelVars == <<child, noteExit, sigchld, eof, unread>>
pollVars == <<startPoll, polls, reaper>>
sourceVars == <<isOutputPaused, hasReadSource, suspensions>>
vars == <<kernelVars, isAlive, pollVars, sourceVars, held, masterOpen, graceTimer, reports>>

Idle == -1
Chains == {"exitSource", "eof"}
Attempts == {Idle} \cup 0..MaxAttempts

TypeOK ==
    /\ child \in {"running", "exiting", "zombie", "reaped"}
    /\ unread \in 0..MaxOutput
    /\ polls \in [Chains -> Attempts]
    /\ reaper \in Attempts
    /\ suspensions \in Int
    /\ reports \in Nat
    /\ noteExit \in BOOLEAN /\ sigchld \in BOOLEAN /\ eof \in BOOLEAN
    /\ isAlive \in BOOLEAN /\ startPoll \in BOOLEAN /\ graceTimer \in BOOLEAN
    /\ isOutputPaused \in BOOLEAN /\ hasReadSource \in BOOLEAN
    /\ held \in BOOLEAN /\ masterOpen \in BOOLEAN

(* init and start: the child has been running since the fork, so it may    *)
(* already be past the point where the exit source could have seen it go.  *)
Init ==
    /\ child \in {"running", "exiting", "zombie"}
    /\ noteExit = FALSE
    /\ sigchld = (child = "zombie")
    /\ eof = FALSE
    /\ unread \in 0..1
    /\ isAlive = TRUE
    /\ startPoll = TRUE
    /\ polls = [k \in Chains |-> Idle]
    /\ isOutputPaused \in BOOLEAN
    /\ hasReadSource = TRUE
    /\ suspensions = IF isOutputPaused THEN 1 ELSE 0
    /\ held = TRUE
    /\ masterOpen = TRUE
    /\ graceTimer = FALSE
    /\ reaper = Idle
    /\ reports = 0

-----------------------------------------------------------------------------
(* The child and the kernel. *)

ChildWrites ==
    /\ child = "running" /\ ~eof /\ unread < MaxOutput
    /\ unread' = unread + 1
    /\ UNCHANGED <<child, noteExit, sigchld, eof, isAlive, pollVars, sourceVars, held,
                   masterOpen, graceTimer, reports>>

(* The exit source lives until invalidate cancels it.                      *)
ChildExits ==
    /\ child = "running"
    /\ child' = "exiting"
    /\ noteExit' = held
    /\ UNCHANGED <<sigchld, eof, unread, isAlive, pollVars, sourceVars, held, masterOpen,
                   graceTimer, reports>>

KernelMakesWaitable ==
    /\ child = "exiting"
    /\ child' = "zombie"
    /\ sigchld' = TRUE
    /\ UNCHANGED <<noteExit, eof, unread, isAlive, pollVars, sourceVars, held, masterOpen,
                   graceTimer, reports>>

TerminalCloses ==
    /\ ~eof
    /\ eof' = TRUE
    /\ UNCHANGED <<child, noteExit, sigchld, unread, isAlive, pollVars, sourceVars, held,
                   masterOpen, graceTimer, reports>>

-----------------------------------------------------------------------------
(* stopReading: resumed before it is cancelled.  The suspend count, whether *)
(* there is a source and the flag, after it.                                *)

\* Mutation: cancelled as it is.
stoppedSuspensionsAsIs == suspensions

stoppedSuspensions ==
    IF hasReadSource /\ isOutputPaused THEN suspensions - 1 ELSE suspensions
stoppedPaused == isOutputPaused /\ ~hasReadSource

stopReading ==
    /\ hasReadSource' = FALSE
    /\ suspensions' = stoppedSuspensions
    /\ isOutputPaused' = stoppedPaused

(* handleExit and the discard it ends in: the exit is told, and invalidate *)
(* cancels the sources and closes the master.                              *)
discard ==
    /\ reports' = reports + 1
    /\ held' = FALSE
    /\ noteExit' = FALSE
    /\ stopReading
    /\ masterOpen' = FALSE

(* drainAvailableOutput as reapIfExited calls it: everything is read.      *)
drainedAtReap == 0

\* Mutation: the reaped child still counts as running.
aliveAfterReapStill == TRUE

aliveAfterReap == FALSE

(* reapIfExited with the child waitable: what was printed last goes out,   *)
(* then onExit.                                                            *)
reap ==
    /\ child' = "reaped"
    /\ isAlive' = aliveAfterReap
    /\ unread' = drainedAtReap
    /\ discard
    /\ UNCHANGED <<eof, reaper, graceTimer>>

notReaped ==
    UNCHANGED <<child, isAlive, unread, reports, held, noteExit, sourceVars,
                masterOpen, eof, reaper, graceTimer>>

reapIfExited == IF isAlive /\ child = "zombie" THEN reap ELSE notReaped

(* What chain k has left to do after a pollUntilReaped(attempt).           *)
polledAgain(attempt) ==
    IF isAlive /\ child # "zombie" /\ attempt < MaxAttempts THEN attempt + 1 ELSE Idle

-----------------------------------------------------------------------------
(* What the control queue runs. *)

StartPoll ==
    /\ startPoll
    /\ startPoll' = FALSE
    /\ reapIfExited
    /\ UNCHANGED <<sigchld, polls>>

ExitSourceFires ==
    /\ noteExit
    /\ IF isAlive /\ child = "zombie"
         THEN reap
         ELSE /\ noteExit' = FALSE
              /\ UNCHANGED <<child, isAlive, unread, reports, held, sourceVars,
                             masterOpen, eof, reaper, graceTimer>>
    /\ polls' = [polls EXCEPT !["exitSource"] = polledAgain(0)]
    /\ UNCHANGED <<sigchld, startPoll>>

PollTick(k) ==
    /\ polls[k] # Idle
    /\ polls' = [polls EXCEPT ![k] = polledAgain(polls[k])]
    /\ reapIfExited
    /\ UNCHANGED <<sigchld, startPoll>>

(* The registry's sweep asks every session it has.                         *)
\* Mutation: no sweep, the session's own exit source is trusted.
SigchldSweepMissing ==
    /\ sigchld
    /\ sigchld' = FALSE
    /\ UNCHANGED <<child, noteExit, eof, unread, isAlive, pollVars, sourceVars, held,
                   masterOpen, graceTimer, reports>>

SigchldSweep ==
    /\ sigchld
    /\ sigchld' = FALSE
    /\ IF held THEN reapIfExited ELSE notReaped
    /\ UNCHANGED <<startPoll, polls>>

(* drainAvailableOutput from the read source.  On EOF the source is        *)
(* cancelled and the child polled.                                         *)
DrainAvailableOutput ==
    /\ hasReadSource /\ suspensions = 0
    /\ unread > 0 \/ eof
    /\ \/ /\ ~eof
          /\ unread' = 0
          /\ UNCHANGED <<child, noteExit, isAlive, reports, held, sourceVars,
                         masterOpen, polls>>
       \/ /\ eof /\ isAlive /\ child = "zombie"
          /\ child' = "reaped"
          /\ isAlive' = FALSE
          /\ unread' = 0
          /\ discard
          /\ polls' = [polls EXCEPT !["eof"] = Idle]
       \/ /\ eof /\ ~(isAlive /\ child = "zombie")
          /\ unread' = 0
          /\ stopReading
          /\ polls' = [polls EXCEPT !["eof"] = polledAgain(0)]
          /\ UNCHANGED <<child, noteExit, isAlive, reports, held, masterOpen>>
    /\ UNCHANGED <<sigchld, eof, startPoll, reaper, graceTimer>>

(* The registry only pauses sessions it has.                               *)
SetOutputPaused(flag) ==
    /\ held
    /\ flag # isOutputPaused
    /\ isOutputPaused' = flag
    /\ suspensions' = IF ~hasReadSource THEN suspensions
                      ELSE IF flag THEN suspensions + 1 ELSE suspensions - 1
    /\ UNCHANGED <<kernelVars, isAlive, pollVars, hasReadSource, held, masterOpen,
                   graceTimer, reports>>

(* SessionRegistry.close: SIGHUP, which the child may ignore, and a timer. *)
Close ==
    /\ held
    /\ graceTimer' = TRUE
    /\ UNCHANGED <<kernelVars, isAlive, pollVars, sourceVars, held, masterOpen, reports>>

(* invalidate with the child alive: SIGKILL, and a reaper of its own.      *)
\* Mutation: the timer does not look whether the session is still there.
GraceExpiresBlindly ==
    /\ graceTimer
    /\ graceTimer' = FALSE
    /\ discard
    /\ isAlive' = FALSE
    /\ UNCHANGED <<child, reaper, sigchld, eof, unread, startPoll, polls>>

\* Mutation: SIGHUP alone, the timer leaves the session to its shell.
GraceExpiresPolitely ==
    /\ graceTimer
    /\ graceTimer' = FALSE
    /\ UNCHANGED <<kernelVars, isAlive, pollVars, sourceVars, held, masterOpen, reports>>

GraceExpires ==
    /\ graceTimer
    /\ graceTimer' = FALSE
    /\ IF held
         THEN /\ discard
              /\ isAlive' = FALSE
              /\ child' = IF isAlive /\ child = "zombie" THEN "reaped" ELSE child
              /\ reaper' = IF isAlive /\ child # "zombie" THEN 0 ELSE reaper
         ELSE UNCHANGED <<child, noteExit, isAlive, reaper, sourceVars, held, masterOpen, reports>>
    /\ UNCHANGED <<sigchld, eof, unread, startPoll, polls>>

(* reapWithoutBlocking polls on until it reaps or gives up.                *)
ReaperTick ==
    /\ reaper # Idle
    /\ child' = IF child = "zombie" THEN "reaped" ELSE child
    /\ reaper' = IF child # "zombie" /\ reaper < MaxAttempts THEN reaper + 1 ELSE Idle
    /\ UNCHANGED <<noteExit, sigchld, eof, unread, isAlive, startPoll, polls, sourceVars, held,
                   masterOpen, graceTimer, reports>>

-----------------------------------------------------------------------------
Kernel == ChildWrites \/ ChildExits \/ KernelMakesWaitable \/ TerminalCloses

Queue ==
    \/ StartPoll \/ ExitSourceFires \/ SigchldSweep \/ DrainAvailableOutput
    \/ GraceExpires \/ ReaperTick
    \/ \E k \in Chains : PollTick(k)

Requests == Close \/ \E flag \in BOOLEAN : SetOutputPaused(flag)

Next == Kernel \/ Queue \/ Requests

Spec == Init /\ [][Next]_vars

(* The queue serves what is on it, and the kernel finishes tearing a       *)
(* process down.  Nothing is assumed of the shell or of the clients.       *)
Fairness ==
    /\ WF_vars(KernelMakesWaitable)
    /\ WF_vars(SigchldSweep)
    /\ WF_vars(StartPoll)
    /\ WF_vars(ExitSourceFires)
    /\ \A k \in Chains : WF_vars(PollTick(k))
    /\ WF_vars(GraceExpires)

FairSpec == Spec /\ Fairness

-----------------------------------------------------------------------------
(* However the exit is noticed (source, poll, EOF, sweep, grace timer, and *)
(* several of them at once), the peers are told exactly once, and no       *)
(* earlier than the session leaves the registry.                           *)
ExitToldOnce == reports = IF held THEN 0 ELSE 1

(* A resume without a suspend, or a release while suspended, is a crash in *)
(* libdispatch: the count is balanced and zero once the source is let go.  *)
SourceBalanced ==
    suspensions = IF hasReadSource /\ isOutputPaused THEN 1 ELSE 0

(* A session that still signals its child has not waited for it: the pid   *)
(* is its own, never one the kernel has handed to another process.         *)
SignalsOwnChild == isAlive => child # "reaped" /\ held /\ masterOpen

(* An exited child never leaves a session that looks alive: with the       *)
(* terminal held by a background process and every poll given up, the      *)
(* SIGCHLD sweep still finds it.                                           *)
ExitIsNoticed == child \in {"exiting", "zombie"} ~> ~held

(* A closed session is gone even when its shell ignores SIGHUP.            *)
CloseIsFinal == graceTimer ~> ~held
=============================================================================
