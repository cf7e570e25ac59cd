-------------------------- MODULE RemoteSupervisor --------------------------
(***************************************************************************)
(* RemoteSupervisor of the proxy: the switch for remote access (a file),   *)
(* the helper `ighostvtd-remote` that runs while it is on, the dormant one *)
(* started to answer questions while it is off, and the requests that are  *)
(* forwarded to either.  Everything here runs on the proxy's serial queue, *)
(* so a handler is one action.  What interleaves with it: the helper's     *)
(* own start and exit, its socket, the exit note, the polls for its        *)
(* status, the delayed respawn and the clients' requests.                  *)
(***************************************************************************)
EXTENDS Naturals, FiniteSets

CONSTANTS
    SwitchFile,         \* {TRUE}: it can be made and trusted; FALSE: it cannot
    MaxRequests, MaxCrashes, MaxSpawnFailures, MaxSlowExits   \* bounds

ASSUME SwitchFileAssumption == SwitchFile \subseteq BOOLEAN
ASSUME RemoteBoundsAssumption ==
    {MaxRequests, MaxCrashes, MaxSpawnFailures, MaxSlowExits} \subseteq Nat

VARIABLES
    works,              \* the switch's directory is private and can be written
    flag,               \* the switch's file is there
    channel,            \* channel # nil; the exit source lives as long
    child,              \* "none" when childPID = 0
    childIsDormant,
    term,               \* SIGTERM was taken by its signal source
    lost,               \* history: a SIGTERM fell into the start of a helper
    orphans,            \* history: helpers nobody waits for any more
    respawn,            \* "none", or respawnScheduled with its delay
    recent,             \* the last spawn is less than respawnDelay ago
    pollers,            \* blocks queued by reap
    pending, written,   \* tags forwarded, and those the helper has answered
    nextTag,
    asked,              \* what each request was
    said,               \* history: answers given to each request
    held,               \* history: values of the switch since it was asked
    crashes, spawnFailures, slowExits

wireVars == <<pending, written, said>>
boundVars == <<crashes, spawnFailures, slowExits>>
vars == <<works, flag, channel, child, childIsDormant, term, lost, orphans, respawn, recent,
          pollers, nextTag, asked, held, wireVars, boundVars>>

Tag == 1..MaxRequests
Op == {"on", "off", "ask"}
Alive == {"starting", "deaf", "serving"}

TypeOK ==
    /\ works \in BOOLEAN /\ flag \in BOOLEAN /\ channel \in BOOLEAN
    /\ childIsDormant \in BOOLEAN /\ term \in BOOLEAN /\ lost \in BOOLEAN
    /\ recent \in BOOLEAN
    /\ child \in Alive \cup {"none", "closing", "zombie"}
    /\ respawn \in {"none", "now", "later"}
    /\ orphans \in Nat /\ pollers \in Nat
    /\ crashes \in Nat /\ spawnFailures \in Nat /\ slowExits \in Nat
    /\ written \subseteq pending /\ pending \subseteq Tag
    /\ nextTag \in 1..(MaxRequests + 1)
    /\ asked \in [Tag -> Op \cup {"nothing"}]
    /\ said \in [Tag -> [BOOLEAN -> Nat]]
    /\ held \in [Tag -> SUBSET BOOLEAN]

isEnabled == works /\ flag

(* startIfEnabled, seen from just before it: the respawn it amounts to is  *)
(* due at once.                                                            *)
Init ==
    /\ works \in SwitchFile /\ flag \in BOOLEAN
    /\ channel = FALSE /\ child = "none" /\ childIsDormant = FALSE
    /\ term = FALSE /\ lost = FALSE /\ orphans = 0
    /\ respawn = IF isEnabled THEN "now" ELSE "none"
    /\ recent = FALSE /\ pollers = 0
    /\ pending = {} /\ written = {} /\ nextTag = 1
    /\ asked = [t \in Tag |-> "nothing"]
    /\ said = [t \in Tag |-> [b \in BOOLEAN |-> 0]]
    /\ held = [t \in Tag |-> {}]
    /\ crashes = 0 /\ spawnFailures = 0 /\ slowExits = 0

-----------------------------------------------------------------------------
(* The pieces the handlers are made of. *)

(* Answers to `tags`, which say the switch is `on`. *)
answered(tags, on) ==
    [t \in Tag |-> IF t \in tags THEN [said[t] EXCEPT ![on] = @ + 1] ELSE said[t]]

scheduleRespawn(wanted, soon) ==
    respawn' = IF wanted /\ respawn = "none" THEN IF soon THEN "now" ELSE "later"
               ELSE respawn

(* spawn: over a child that still runs it would leave an orphan.           *)
spawn(dormant) ==
    /\ orphans' = IF child = "none" THEN orphans ELSE orphans + 1
    /\ child' = "starting" /\ childIsDormant' = dormant
    /\ channel' = TRUE /\ term' = FALSE
    /\ recent' = TRUE
    /\ UNCHANGED spawnFailures

spawnFails ==
    /\ spawnFailures < MaxSpawnFailures
    /\ spawnFailures' = spawnFailures + 1
    /\ recent' = TRUE
    /\ UNCHANGED <<orphans, child, childIsDormant, channel, term>>

(* handleLinkClosed with `tags` pending and `queued` polls waiting: the    *)
(* requests are answered from here, the child is reaped or left to one     *)
(* more poll, and a helper that is wanted is asked for.                    *)
handleLinkClosed(tags, queued, on) ==
    /\ channel' = FALSE
    /\ pending' = {} /\ written' = {}
    /\ said' = answered(tags, on)
    /\ child' = IF child = "zombie" THEN "none" ELSE child
    /\ pollers' = IF child = "zombie" THEN queued ELSE queued + 1
    /\ scheduleRespawn(on, ~recent)

\* Mutation: only the close of the link asks for a respawn, not the reaping.
reapRespawnsNever == FALSE

reapRespawns == isEnabled

(* reap, with `queued` other polls waiting.  Closing the channel runs      *)
(* handleLinkClosed inside it, which reaps or polls on its own account.    *)
reap(queued) ==
    LET again == IF child = "zombie" THEN queued ELSE queued + 1 IN
    \/ channel /\ handleLinkClosed(pending, again, isEnabled)
    \/ /\ ~channel
       /\ child' = IF child = "zombie" THEN "none" ELSE child
       /\ pollers' = again
       /\ scheduleRespawn(child = "zombie" /\ reapRespawns, ~recent)
       /\ UNCHANGED <<channel, wireVars>>

-----------------------------------------------------------------------------
(* Requests from local peers. *)

Ask(t, op) ==
    /\ t = nextTag
    /\ nextTag' = nextTag + 1
    /\ asked' = [asked EXCEPT ![t] = op]
    /\ held' = [u \in Tag |->
                  IF op # "ask" /\ (u = t \/ asked[u] # "nothing")
                  THEN held[u] \cup {op = "on"} ELSE held[u]]

(* A request goes over a link that is up; the other end may be closed      *)
(* already, which the write finds out (EPIPE).                             *)
forward(t, on) ==
    /\ channel
    /\ \/ /\ child \in Alive
          /\ pending' = pending \cup {t}
          /\ UNCHANGED <<written, said, channel, child, pollers, respawn>>
       \/ /\ child \notin Alive
          /\ handleLinkClosed(pending \cup {t}, pollers, on)
    /\ UNCHANGED <<childIsDormant, term, orphans, recent, spawnFailures>>

(* offlineStatus: nobody to ask. *)
offlineStatus(t, on) ==
    /\ said' = answered({t}, on)
    /\ UNCHANGED <<pending, written>>

(* With the switch off, a dormant helper is started for the asking.        *)
askDormant(t) ==
    \/ /\ spawn(TRUE)
       /\ pending' = pending \cup {t}
       /\ UNCHANGED <<written, said>>
    \/ spawnFails /\ offlineStatus(t, FALSE)

(* remoteStatus and the other requests that are handed on whole. *)
Manage(t) ==
    /\ Ask(t, "ask")
    /\ \/ forward(t, isEnabled)
       \/ /\ ~channel /\ child = "none" /\ ~isEnabled
          /\ askDormant(t)
          /\ UNCHANGED <<pollers, respawn>>
       \/ /\ ~channel /\ (child # "none" \/ isEnabled)
          /\ offlineStatus(t, isEnabled)
          /\ UNCHANGED <<channel, child, childIsDormant, term, orphans, respawn, recent,
                         pollers, spawnFailures>>
    /\ UNCHANGED <<works, flag, lost, crashes, slowExits>>

(* stop(): SIGTERM, to a helper that has a link.  Before it sets the       *)
(* signal aside it dies of it; with its signal source up it exits; in      *)
(* between the signal is ignored, and gone.                                *)
stop ==
    /\ child' = IF channel /\ child = "starting" THEN "closing" ELSE child
    /\ term' = (term \/ (channel /\ child = "serving"))
    /\ lost' = (lost \/ (channel /\ child = "deaf"))

(* setEnabled(true) with no helper: one is spawned and asked.  When that   *)
(* fails the switch answers, unless it still reads off.                    *)
TurnOn(t) ==
    /\ Ask(t, "on")
    /\ ~channel /\ child = "none"
    /\ flag' = (works \/ flag)
    /\ \/ /\ spawn(FALSE)
          /\ pending' = pending \cup {t}
          /\ UNCHANGED <<written, said, respawn>>
       \/ /\ works
          /\ spawnFails /\ scheduleRespawn(TRUE, FALSE)
          /\ offlineStatus(t, TRUE)
       \/ /\ ~works
          /\ spawnFailures < MaxSpawnFailures /\ scheduleRespawn(TRUE, FALSE)
          /\ askDormant(t)
    /\ UNCHANGED <<works, lost, pollers, crashes, slowExits>>

\* Mutation: a dormant helper is asked for the status like a full one.
wasDormantNever == FALSE

wasDormant == channel /\ childIsDormant

(* setEnabled(true) over a helper: a dormant one is stopped and answered   *)
(* for, a full one is asked; one without a link is past asking.            *)
TurnOnOver(t) ==
    /\ Ask(t, "on")
    /\ child # "none"
    /\ flag' = (works \/ flag)
    /\ \/ /\ wasDormant
          /\ stop /\ offlineStatus(t, TRUE)
          /\ UNCHANGED <<channel, pollers, respawn, childIsDormant, orphans, recent, spawnFailures>>
       \/ ~wasDormant /\ forward(t, works) /\ UNCHANGED lost
       \/ /\ ~channel
          /\ offlineStatus(t, works)
          /\ UNCHANGED <<channel, child, lost, term, pollers, respawn, childIsDormant, orphans,
                         recent, spawnFailures>>
    /\ UNCHANGED <<works, crashes, slowExits>>

TurnOff(t) ==
    /\ Ask(t, "off")
    /\ flag' = (flag /\ ~works)
    /\ stop /\ offlineStatus(t, FALSE)
    /\ UNCHANGED <<works, channel, childIsDormant, orphans, respawn, recent, pollers, boundVars>>

-----------------------------------------------------------------------------
(* The link, the exit note, the polls and the respawn. *)

procVars == <<works, flag, childIsDormant, term, lost, orphans, recent, nextTag, asked, held,
              boundVars>>

\* Mutation: an answered request stays pending.
pendingAfterReplyKept(t) == pending

pendingAfterReply(t) == pending \ {t}

ReadReply(t) ==
    /\ channel /\ t \in written
    /\ pending' = pendingAfterReply(t) /\ written' = written \ {t}
    /\ said' = answered({t}, ~childIsDormant)
    /\ UNCHANGED <<channel, child, pollers, respawn, procVars>>

ReadEOF ==
    /\ channel /\ child \in {"closing", "zombie"} /\ written = {}
    /\ handleLinkClosed(pending, pollers, isEnabled)
    /\ UNCHANGED procVars

ExitSourceFires ==
    /\ channel /\ child \in {"closing", "zombie"}
    /\ reap(pollers)
    /\ UNCHANGED procVars

PollFires ==
    /\ pollers > 0
    /\ \/ child # "none" /\ reap(pollers - 1)
       \/ /\ child = "none"
          /\ pollers' = pollers - 1
          /\ UNCHANGED <<channel, child, respawn, wireVars>>
    /\ UNCHANGED procVars

\* Mutation: the respawn does not wait until the old helper is reaped.
respawnWaitsNever == isEnabled /\ ~channel

\* Mutation: a respawn that was scheduled goes ahead whatever the switch says.
respawnUnasked == ~channel /\ child = "none"

respawnMay == isEnabled /\ ~channel /\ child = "none"

(* The paced respawn comes after the polls that were waiting when it was   *)
(* asked for: they are due every second at the latest.                     *)
Respawn ==
    /\ respawn = "now" \/ (respawn = "later" /\ ~recent /\ (pollers = 0 \/ child # "none"))
    /\ \/ /\ respawnMay
          /\ \/ spawn(FALSE) /\ respawn' = "none"
             \/ spawnFails /\ respawn' = "later"
       \/ /\ ~respawnMay
          /\ respawn' = "none"
          /\ UNCHANGED <<channel, child, childIsDormant, term, orphans, recent, spawnFailures>>
    /\ UNCHANGED <<works, flag, lost, pollers, nextTag, asked, held, wireVars, crashes, slowExits>>

(* respawnDelay passes since the last spawn.  The polls of then have run,  *)
(* unless a child takes longer than that to exit.                          *)
DelayPasses ==
    /\ recent
    /\ \/ pollers = 0 /\ UNCHANGED slowExits
       \/ /\ pollers > 0 /\ child # "none" /\ slowExits < MaxSlowExits
          /\ slowExits' = slowExits + 1
    /\ recent' = FALSE
    /\ UNCHANGED <<works, flag, channel, child, childIsDormant, term, lost, orphans, respawn,
                   pollers, nextTag, asked, held, wireVars, crashes, spawnFailures>>

-----------------------------------------------------------------------------
(* The helper and the kernel. *)

helperKeeps == <<works, flag, channel, childIsDormant, term, lost, orphans, respawn, recent,
                 pollers, nextTag, asked, held, spawnFailures, slowExits>>

(* SIGTERM is set to be ignored, then its source is activated and the      *)
(* management socket served.                                               *)
HelperIgnoresSIGTERM ==
    /\ child = "starting" /\ child' = "deaf"
    /\ UNCHANGED <<helperKeeps, wireVars, crashes>>

HelperServes ==
    /\ child = "deaf" /\ child' = "serving"
    /\ UNCHANGED <<helperKeeps, wireVars, crashes>>

HelperAnswers(t) ==
    /\ channel /\ child = "serving" /\ t \in pending \ written
    /\ written' = written \cup {t}
    /\ UNCHANGED <<helperKeeps, child, pending, said, crashes>>

(* The signal source, or the management socket's close. *)
HelperExits ==
    /\ child = "serving" /\ (term \/ ~channel)
    /\ child' = "closing"
    /\ UNCHANGED <<helperKeeps, wireVars, crashes>>

DormantHelperIdles ==
    /\ child = "serving" /\ childIsDormant /\ pending = {}
    /\ child' = "closing"
    /\ UNCHANGED <<helperKeeps, wireVars, crashes>>

HelperCrashes ==
    /\ child \in Alive /\ crashes < MaxCrashes
    /\ child' = "closing" /\ crashes' = crashes + 1
    /\ UNCHANGED <<helperKeeps, wireVars>>

ExitIsWaitable ==
    /\ child = "closing" /\ child' = "zombie"
    /\ UNCHANGED <<helperKeeps, wireVars, crashes>>

Next ==
    \/ \E t \in Tag : Manage(t) \/ TurnOn(t) \/ TurnOnOver(t) \/ TurnOff(t)
    \/ \E t \in Tag : ReadReply(t) \/ HelperAnswers(t)
    \/ ReadEOF \/ ExitSourceFires \/ PollFires \/ Respawn \/ DelayPasses
    \/ HelperIgnoresSIGTERM \/ HelperServes \/ HelperExits \/ DormantHelperIdles
    \/ HelperCrashes \/ ExitIsWaitable

(* Timers, sources and the kernel run; a helper starts, answers and exits  *)
(* when told.  Nobody has to ask anything, and nothing has to crash.       *)
Fairness ==
    /\ WF_vars(ReadEOF) /\ WF_vars(ExitSourceFires) /\ WF_vars(PollFires)
    /\ WF_vars(Respawn) /\ WF_vars(DelayPasses)
    /\ WF_vars(HelperIgnoresSIGTERM) /\ WF_vars(HelperServes)
    /\ WF_vars(HelperExits) /\ WF_vars(ExitIsWaitable)
    /\ \A t \in Tag : WF_vars(HelperAnswers(t)) /\ WF_vars(ReadReply(t))

Spec == Init /\ [][Next]_vars /\ Fairness

-----------------------------------------------------------------------------
(* No helper is spawned while another has not been reaped: two would      *)
(* fight over the port, and the pid the daemon admits would be the wrong   *)
(* one.                                                                    *)
OneHelper == orphans = 0

(* A request is completed once, by the helper or from here, whatever dies  *)
(* meanwhile.                                                              *)
CompletedOnce == \A t \in Tag : said[t][TRUE] + said[t][FALSE] + Cardinality(pending \cap {t})
                                  = IF asked[t] = "nothing" THEN 0 ELSE 1

(* setRemoteAccess is answered with what the switch was set to, by it or   *)
(* by a later request: never with what a helper of before says.            *)
SetIsAnsweredTruly ==
    works => \A t \in Tag : asked[t] \in {"on", "off"} =>
               \A b \in BOOLEAN : said[t][b] > 0 => b \in held[t]

FullHelperServes == channel /\ ~childIsDormant /\ child = "serving" /\ ~term

(* With the switch on a full helper comes up, from any moment of any       *)
(* helper's life, dormant ones included; unless a SIGTERM was lost.        *)
OnIsFollowed == isEnabled ~> (~isEnabled \/ FullHelperServes \/ lost)

NoFullHelper == childIsDormant \/ child \notin Alive

(* With the switch off no full helper stays; unless a SIGTERM was lost.    *)
OffIsFollowed == (works /\ ~flag) ~> (flag \/ NoFullHelper \/ lost)

=============================================================================
