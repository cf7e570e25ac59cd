# iGhostVT in TLA+

iGhostVT keeps shells alive behind an app that may be suspended, killed or
updated at any time. Its promise is that a shell survives its client, that at
most one client at a time drives it, and that neither a slow client, a dead
helper process nor a flood of output takes the other sessions down. That promise
is kept by a handful of state machines that run on serial queues in several
processes, and this directory specifies them in TLA+, checks them with TLC and
proves with TLAPS the safety properties it checks.

`PROJECT.json` is the index: for each definition the lines of `src/` it models,
for each run what it checks, the mutants that show each property can fail, the
hazards the properties were chosen for, and the theorems.

## 1. The system

```
 app, widgets, ighostvt-cli, ighostvtd-remote         (clients)
        |  XPC, one connection per client
 ighostvtd                                            (proxy)
   DaemonServer      accepts and authenticates connections
   PeerRelay         one per connection: forwards requests, delivers events
   IOSupervisor      owns the child ighostvtd-io, the socket to it, the budgets
   RemoteSupervisor  owns the child ighostvtd-remote
        |  socketpair, frames: request / reply / event / peerGone, peer id, tag
 ighostvtd-io                                         (holds the shells)
   IOHost, PeerSession   one PeerSession per peer id
   SessionRegistry       sessions, attachments, holders, watchers
   PTYSession            one per shell: child process, terminal, buffers
   SessionIDReservation  the counter in a file that outlives the process
   FileUploadStore, SessionOutputLog, MacUpdater

 app on another device                                (tab, store, transport)
        |  TLS frames, one link per tab, direct or through the relay
 ighostvtd-remote                                     (a client of the proxy)
   RemoteClient      one per link: stamps, forwards, lingers after a loss
```

Each process does its work on one serial dispatch queue. A handler therefore
runs to its end before the next one starts, and is one action here. What
interleaves is the *sources of events*: client messages, socket readiness, child
exits (kqueue exit source, SIGCHLD, EOF, polling), timers, libxpc barriers, and
the processes themselves, any of which may die between two handlers.

### Inventory

| Part | State | Operations | What is hard | What makes it correct |
|---|---|---|---|---|
| `SessionIDReservation` | `next`, `reservedEnd`; the number in the file | init, take, update under a file lock | io dies inside a block; the file fails half way; a dying io overlaps its replacement | an id is never handed out again, so a tab that reconnects never meets somebody else's shell |
| `SessionRegistry`, `PeerSession`, `IOHost` | sessions, attachments, holders, watchers; each peer's own id set; peers | hello, open, attach/takeover, detach, close, goodbye, peer loss, exit, pause, shutdown | the same fact lives in four places (table, peer list, client, watchers) and every handler has to move all of them | one writer per session, who is also the reader; nobody believes in a session that is gone; limits hold |
| `PTYSession`, end of life | child, exit source, polls, read source's suspend count, grace timer | exit, reap, drain, close, invalidate | four paths notice one exit; NOTE_EXIT comes before the child is waitable; a terminal held open by a background process | the exit is told once; never a signal to a recycled pid; balanced dispatch sources |
| `PTYSession`, input | pending bytes and offset, refused paste, write source | write, flush, give up | partial writes; refused chunks of a paste; a program that never reads | order kept, buffer bounded, a paste never gets a hole, nothing stranded |
| `IOChannel` | outbound bytes, offset, frame boundary; inbound bytes; suspended | send, flush, discard a peer's frames, read, dispatch, pause/resume, close | half-written frames; a handler that pauses or closes the channel it is called from | frames arrive whole, once, in order, and all of them |
| `IOSupervisor`, `PeerRelay`, `DaemonServer` | peers, pending replies, bytes in flight per peer and in total, congestion timers, input pause, idle timer, child state | accept, forward, reply, peer loss, output accounting, idle shutdown, respawn | barriers late or for a gone peer; child death seen four ways, in any order with replies; an arrival during the idle exit | budget right and bounded; only stuck peers cut; every request completed once; a dead child replaced |
| `RemoteSupervisor` | switch, dormant helper, child, pollers, pending requests | enable, disable, forward, spawn, reap, respawn | two pollers for one exit; a switch flipped while a helper starts or stops; SIGTERM during a start | one helper, matching the switch; every request answered once, and truly |
| `SessionOutputLog`, `SessionOutputPosition` | buffer, start offset; the tab's offset | append with trimming, replay, resume | a position into a log that was trimmed, or too far behind | a tab resumes without gap or repeat, or is rebuilt |
| `TerminalSessionStore`, `XPCDaemonTransport`, `RemoteDaemonLink` (remote tab) | status, retry timer, transport of the moment, hello and attach out, deferred end | connect, retry, take over, attach reply, output, loss, close, detach | two threads; events of a replaced transport; a close with the attach out; links that die unnoticed | the status is true in the end, the tab catches up, a closed tab leaves no shell |
| `FileUploadStore`, `DaemonFileUpload` | uploads, finished list, idle expiry; the client's window and links | begin, question, part, finish, cancel, expire | a repeated begin or part after a lost answer; two links' parts interleaved | what the host holds is the file's beginning; success means all of it; nothing partial stays |
| `RemoteService`, `RemoteClient`, `RelayLink` | devices, links, what each holds, linger timers | hello, stamp, forward, linger, relay reconnect | a device's old link beside its new one | a reconnect takes back only what the device held |
| relay server (Go) | hosts, devices, drops, quotas | match, splice, drop | a program of its own | later stage |
| app, CLI, ZMODEM, updates, pairing, encoding, UI | | | I/O, cryptography, formats, presentation | not modelled; reasons in `PROJECT.json` |

## 2. The modules

| Module | Code | Kind |
|---|---|---|
| `SessionIDReservation` | `iGhostVTIO/Session/SessionIDReservation.swift` | specification |
| `SessionRegistry` | `iGhostVTIO/Session/SessionRegistry.swift`, `Link/PeerSession.swift`, `Link/IOHost.swift` | specification; implements `SessionService` |
| `SessionService` | what `SessionRegistry.swift` promises of its sessions | abstract specification |
| `MCSessionRegistry` | | symmetry for TLC |
| `SessionRegistryProofs` | | theorems, of `SessionRegistry` and `SessionIDReservation` |
| `PTYLifecycle` | `iGhostVTIO/Session/PTYSession.swift` (exit half), `SessionRegistry.close`, sweep | specification |
| `PTYLifecycleProofs` | | theorems |
| `PTYInput` | `iGhostVTIO/Session/PTYSession.swift` (input half) | specification |
| `PTYInputProofs` | | theorems |
| `IOChannel` | `iGhostVTDaemonShared/Link/IOChannel.swift`, frame layout of `Shared/Wire/IOWire.swift` | specification |
| `IOChannelProofs` | | theorems |
| `IOSupervisor` | `iGhostVTDaemon/Server/IOSupervisor.swift`, `PeerRelay.swift`, `DaemonServer.swift` | specification, composes clients, proxy, socket and child |
| `IOSupervisorProofs` | | theorems |
| `RemoteSupervisor` | `iGhostVTDaemon/Server/RemoteSupervisor.swift`, start of `iGhostVTRemote/main.swift` | specification |
| `RemoteSupervisorProofs` | | theorems |
| `FileUpload` | `iGhostVTIO/Session/FileUploadStore.swift`, `PeerSession.uploadFile`, `iGhostVT/Backend/Transport/DaemonFileUpload.swift` | specification, composes both ends |
| `FileUploadProofs` | | theorems |
| `TerminalView` | what `SessionOutputPosition.swift` promises | abstract specification |
| `RemoteTab` | `TerminalSessionStore.swift`, `TerminalTab.swift`, `XPCDaemonTransport.swift`, `DaemonLink.swift` (remote), `SessionOutputPosition.swift`; `SessionOutputLog.swift`, `PeerSession.attachSession`, linger and takeover of `RemoteClient.swift` | specification, composes tab, transport, links and host; implements `TerminalView` |
| `RemoteTabProofs` | | theorems |

How they fit: `IOSupervisor` has the socket as whole frames, which is what
`IOChannel` establishes (`FramesInOrder`, `FramesArrive`); `IOChannel`'s
assumption that whoever pauses reading resumes it is what `IOSupervisor`
establishes (`ReadingResumes`). `SessionRegistry` treats a session's exit as an
event that may come at any time, once, and that takes the session away; that is
what `PTYLifecycle` establishes (`ExitToldOnce`, `ExitIsNoticed`,
`CloseIsFinal`). It takes ids as never reused, which `SessionIDReservation`
establishes, and peers as never coming back under the same id, which is how
`DaemonServer` numbers connections. `RemoteTab` takes the registry's attach,
takeover and exit as single steps of the host, which is how `SessionRegistry`
has them. These links are arguments between modules, not machine-checked
compositions; the refinements, of `TerminalView` by `RemoteTab` and of
`SessionService` by `SessionRegistry`, are checked and proved.

Definitions called *Mutation* are the wrong versions that the mutants listed in
`PROJECT.json` substitute; nothing else refers to them.

### SessionIDReservation

`Start(p, outcome)` is `init(path:)`, `TakeReserved` and `TakeReserving` are the
two paths of `take()`, and `updateStored` / `updateResult` are `update`, which
holds the file lock throughout and is therefore one step. An update may find the
file unreachable or have its write refused; an io may die between two calls; a
new io may start while an old one runs. The history variable `trouble` remembers
whether the file ever failed and whether two ios ever overlapped, so that each
property can say under which of them it holds.

### SessionRegistry

One action per request, for the whole handler. Variables keep the source's names.
What a client is sent is represented by what a client that applies it in order
believes: `view[p][id]` from replies, `sessionTaken` and `sessionEnded`;
`shown[w][id]` from `sessionOpened`, `sessionReleased` and `sessionEnded`. A
refused request changes nothing and has no action of its own, except that a
request before `hello` makes the peer known and a failed spawn spends an id.
`removePeer` detaches by the registry's table, not by the peer's own list, as
the code does: the two differ after a peer closes a session it is attached to.

`SessionService` says what this amounts to for a client, with none of the
bookkeeping: who may write to each session and who is sent its output. A client
gets both in one step by opening or attaching, which takes them from whoever had
them, and loses them by its own detach, close or departure, by another's
attach, or with the session. A client that closes a session may not write any
more but goes on being sent its output until the end, which is the only time
the two differ. The mapping is `writersOf`, from the peers' own
lists (which `write` and `resize` go by), and `readersOf`, from the registry's
table (which output goes by): two pieces of state that different code moves.
`injectInput` and `snapshotSession`, for the command line, ask for one write or
one look without having the session and change neither.

### PTYLifecycle and PTYInput

`PTYLifecycle` has the kernel's side (exit posted, then waitable, then SIGCHLD,
EOF independent of all three) and the queue's side: exit source, the poll that
`start` queues, up to two `pollUntilReaped` chains, the read source, the SIGCHLD
sweep, the close grace timer and the reaper that `invalidate` leaves behind.
`suspensions` is libdispatch's suspend count, because resuming or releasing a
source at the wrong count is a crash.

`PTYInput` has bytes as positions in their writer's stream, so that order and
holes can be stated. The pending buffer is kept with its consumed prefix and
offset as in the code, since compaction is where they can go apart.

### IOChannel

One direction of the socket with both ends. A byte is its frame and its place in
it, which makes a header recognisable and a cut frame detectable; the walk over
headers in `advanceUnstartedBoundary` and `dispatchCompleteFrames` is done on
those bytes. `without` is the loop of `discardQueuedFrames` that keeps what is
not the gone peer's, in order. Handlers may pause reading after any frame. A handler that sends
when the other end is gone closes the channel under the loop that called it
(`HandlerSendsToGone`); what follows from that is the finding `proxy_trap`.

### IOSupervisor

Clients accept, send, leave and take output at will. `flush` is `send` plus
`updateInputPause`; `handleLinkClosed` fails every pending reply, cuts every
peer, resets the budgets and polls the exit status; each path on which a broken
socket is found (read, write source, forwarding, telling the child of a gone
peer, the idle question) is its own disjunct. Pending completions, bytes in
flight, timers and the idle question are as in the code. `answers`, `stuck` and
`arrived` are histories used only by properties.

### RemoteSupervisor

The switch is a file whose directory may be unusable (`works`). A helper is
`starting` (SIGTERM kills it), `deaf` (between `signal(SIGTERM, SIG_IGN)` and the
activation of the signal source, where one is lost), `serving`, `closing`
(socket shut, not waitable yet) or a `zombie`. Link closing, exit note, each
queued poll and the delayed respawn are actions of their own, because the code
lets any of them come first. Two polls may be queued for one exit; the second may
meet the next helper. Requests are forwarded with tags and answered by the
helper, by its death or by the switch itself; `held` collects every value the
switch had since a request was made, so that an answer can be called true.

### FileUpload

One file, both ends. The client's loop (begin; ask what is held; pump parts under
a window; halve the window on a timeout; drop the link and start over)
runs over links that die: answers die with the link, requests on it may still
arrive, beside those of the next. The host side is `FileUploadStore.begin`,
`write`, `cancel`, `finish` and the idle expiry, with the bounded list of
finished uploads, refusals, failing writes and the replacement of the io process.
Contents are the version of the file each part was read from, or a hole.

### RemoteTab and TerminalView

`TerminalView` is the promise in two variables: how much the session has printed
and which bytes the screen shows. A step extends the screen by exactly the next
bytes, or replaces it by a stretch that ends no earlier.

`RemoteTab` is everything between: the host's log with its start offset and the
choice between continuation and rebuild; the links, each a FIFO to the host that
outlives the transport that made it, so that a link given up on still delivers
what it had sent; the transport (`phase` is how far hello and attach have come,
`deferredEnd` an end asked for meanwhile); the handlers that have done their work
and not yet handed their event over (`hop`) and the events the main actor has not
run yet (`main`), both of which survive the transport they come from; and the store
with its status, retry timer and user. `HandsOver` is a step of its own: the store
may replace the transport while one of its handlers runs, the successor's
"connecting" is then in front of the old event, and nothing in an event says whose
it is (`onEvent` has no identity check). `lastWord` remembers which transport the
last event came from; it is history, read by properties only. The mapping is the identity on `produced` and
`screen`: everything else is hidden. The other windows of the host and other
devices are `Other`. The helper keeps its own idea of what the device holds
(`holds`): a request it forwards and the answer are one step with the daemon, but
that a session was taken or ended reaches it late (`HelperHears`), and that a
peer is gone reaches the daemon late (`PeerGone`). The work of a handler and a function of the store are
one step each; replies on a link that is not the transport's any more are read
by nobody.

## 3. What is checked

Every property in a passing run has a mutant of the mapped code that breaks it.

| Run | Shows | Bounds | States |
|---|---|---|---|
| `ids` | no id twice while the file works and ios follow one another | 3 ios, blocks of 2, ids below 7 | 167 k |
| `registry` | implements `SessionService`; table, peer lists, clients and watchers never disagree; release is announced in the step it happens; pause covers everyone | 2 peers, 2 ids, 2 devices, at most 2 sessions, 1 per peer | 21 k (symmetric) |
| `pty_life` | exit told once; sources balanced; own child signalled; exits noticed, closes final | 2 poll attempts, 2 units of output | 1.7 k |
| `input` | order, no hole, held input goes | 1 paster (2 pastes of 3 chunks of 2), 1 typist, cap 5, kernel 2 | 57 k |
| `channel` | whole, once, in order; every frame for a live peer arrives | 3 frames of 1 or 3 bytes, 2 peers, socket of 2 | 39 k |
| `proxy_flow` | budget right and bounded; only stuck peers cut; all suspended or none; reading resumes | 2 clients, 3 outputs of 1 or 4, pause above 4 | 267 k |
| `proxy_child` | each request completed, once; dead link replaced; an arrival takes the exit back | 2 clients, one the remote helper, 3 tags, 2 spawns, 1 failed spawn | 162 k |
| `remote` | never two helpers; each request answered once, and a set truly; the helper follows the switch, on and off | 3 requests, 1 crash, 1 failed spawn, 1 slow exit; switch file usable or not | 223 k |
| `uploads` | the host holds a beginning of the file; success means all of it; dying links alone never fail a copy; partial files go | files of 0 and 3 parts, window 2, 3 links | 112 k |
| `tab` | implements `TerminalView`; status true; catches up; a closed tab ends its session, a gone one lets go | replay of 1 byte; 2 links with 3 bytes and 1 taker, or 3 links to a quiet session | 261 k |
| `proxy_trap` | finding: the proxy falls with its child | 1 client | violation |
| `tab_itself` | finding: a tab loses its session to its own old link | 2 links, nobody else | violation |

The type invariants (`TypeOK`) hold in the same instances; they are not part of
the runs, and are proved for every component.

Why the bounds are enough for the cases that matter:

* `ids`: three ios are a dying one, its replacement and the one after; seven ids
  in blocks of two cross several block ends, where all decisions are made.
* `registry`: two peers are what a takeover needs, with both also able to
  watch; two ids are two sessions at once, or one opened after another has gone,
  and an attach brings a peer above its own limit of 1. Peers, ids and
  devices are interchangeable in every formula, so they are a symmetry set; the
  run checks no liveness. The proofs cover every other size; three ids (267 k
  states), and the refinement with three peers and no devices (34 k), were checked once.
* `pty_life`: two attempts distinguish the first, a later and the last poll; the
  25 of the code differ only in number.
* `input`: the cap of 5 does not divide into chunks of 2, so a chunk is refused
  with room left and single keys still fit; kernel room of 2 gives partial
  writes.
* `channel`: a frame longer than the socket is always split, one of a single
  byte lets several be read at once.
* `proxy_flow`: with outputs of 1 and 4 and thresholds 1, 2 and 4 a peer can
  cause a pause alone, two can together, and one can be congested without it.
* `proxy_child`: three tags are one question by the supervisor (two tags) and a
  client's request; two spawns let the child die once and the second one live.
  When the bounds on tags or spawns are spent, a behaviour stops; the liveness
  properties here are of things that need no further tag, and a dead link after
  the last spawn has no pending request (`DeadLinkIsReplaced`).

* `remote`: three requests are off, on and a question about them; one exit that
  is not waitable at once is what queues the second poll. With the bounds on
  crashes and failures spent the last helper lives, which `OnIsFollowed` is about.
* `uploads`: three parts and a window of two leave a part unsent while two are
  under way; three links are two that die and one that has to succeed, with
  requests of both dead ones still arriving. Four links were checked once
  (849 k states).
* `tab`: a replay of one byte makes every case of `SessionOutputLog.replay`
  reachable within three bytes (in reach, trimmed, too far behind). Two links are
  one that dies or is given up on and its successor; the last link stays, so
  that `CatchesUp` is not vacuous. A transport is replaced with a handler running
  only from the third link on (the first must fail before the store makes a
  second unasked, and the second is the one replaced), so each behaviour is chosen
  at the start to be a busy one with two links (`BusyLinks`) or a quiet one,
  without output, takers or an exit of its own, with three (`MaxLinks`); the
  proofs, where `BusyLinks` may be `MaxLinks`, need no such choice. All of it with
  exits in quiet sessions (461 k states) was checked once too. `StatusIsTrue` was checked once with
  three links, a byte and a taker (3.2 M states).

Deadlock is not checked: each model legitimately stops when its bounded inputs
are spent (all ids handed out, all frames sent, the process gone). That nobody
waits on anybody is stated by the liveness properties instead.

### Fairness

Only what the platform gives: a serial queue serves each enabled source, timer
and queued block (weak fairness of the action that serves it); time passes; the
kernel finishes tearing down a process that has begun to exit; the child reads
its socket while it lives; for `HeldInputGoes`, the program reads its terminal
while it has it open; for `FramesArrive`, whoever paused reading resumes it.
Nothing is assumed of clients: they need not take output, reply or leave, and
libxpc's barriers may never run. A shell need not exit nor heed SIGHUP. In
`RemoteSupervisor` a helper gets through its start and answers what it was asked;
it may crash, but no more than the bound. In `FileUpload` the host reads the link
the client has now, not the dead ones, and an idle upload's timer fires. In
`RemoteTab` both ends find out that a link is dead (they ping a silent one), the
host reads what a link delivers, a running handler comes to its end, queued events and retries are served, the
linger ends, and a session told to close ends, by its own or by the grace timer; nothing
is assumed of the user, of other takers, or of a hello timeout. `SessionIDReservation` and `SessionRegistry` have no
liveness properties and no fairness.

## 4. What is proved

TLAPS checks these for every value of the constants; the assumptions are the
`ASSUME`s of the component modules, which TLC also evaluates.

**`SessionRegistryProofs`**, for any peers, ids and devices and any positive limits.

| Theorem | Property |
|---|---|
| `RegistryLinked` | the inductive invariant `IInv` |
| `TypeCorrect` | `TypeOK` |
| `RegistryServes` | `ServesOneClient`: `SessionRegistry` implements `SessionService` |
| `OneWriter` | `WriterIsAttached` |
| `HolderAttached` | `HolderIsAttached` |
| `ClientsKnow` | `ClientsKnowWhatTheyHold` |
| `GoneSessionsAreForgotten` | `NobodyKeepsAGoneSession` |
| `SessionsStayBounded` | `SessionsBounded` |
| `ReleaseIsAnnounced` | `ReleaseReachesWatchers` |
| `CongestionStopsAll` | `PausedTogether` |
| `WatchersAreRight` | `WatchersNameTheHolder` |

`IInv` is `TypeOK` and `Linked`: an attachment is to a session that exists and to
a peer past its handshake (`AttachedIsServed`); a peer's own list is part of the
table (`ListsAgree`, one direction only, since a peer that closed a session
stays in the table until the shell is gone); a holder implies an attachment (`HoldersAttached`);
clients agree with their lists (`ViewsAgree`); watchers are shown only sessions that exist
(`ShownExists`). One lemma per handler shows that it preserves `IInv`;
`removePeer` and `handleExit` are shared by several actions and proved once.
`ReleaseIsAnnounced` is an action property from the same invariant. `WatchersAreRight` needs one more
fact: a peer that does not watch has been shown nothing, so that becoming a
watcher brings no stale device. `SessionsStayBounded` needs the cardinality
theorems of the library and the finiteness of `sessions`.

`RegistryServes` is a step simulation. From `IInv`, being on a peer's list is
enough to write (`ListedMayWrite`: the peer has said hello and the session
exists), so that the mapping reduces to the lists and the table. Then one lemma
per kind of handler says what becomes of both for each session. Those for attach
and exit are where the invariant is needed: the only other peer that can have
the session on its list is the one the table names, so that telling that one is
telling all.

The same module has the theorems of `SessionIDReservation`, for any set of ios,
any positive block size and any id bound.

| Theorem | Property |
|---|---|
| `IdsTypeCorrect` | `IdsTypeOK` |
| `IdsNeverRepeatWithinOneIO` | `NeverRepeatsWithinOneIO` |
| `FileNeverShrinks` | `FileOnlyGrows` |
| `FileCoversIds` | `FileCoversHandedIds` |
| `IdsNeverReused` | `NoIdReused` |

`NoIdReused` says nothing of `next`, `reservedEnd` or the file and is not
inductive. The strengthening has three parts: what an io has handed out lies below
its own counter (`BelowCounter`); while the file works, what a running io has
reserved is covered by the file (`BlocksReserved`); and while nothing overlapped,
a running io counts on from above everything the others handed out
(`LatestCountsOn`). A `Start` inherits the third from the second, a `TakeReserving`
keeps it because nobody else runs.

**`PTYLifecycleProofs`**, for any number of poll attempts and any amount of output.

| Theorem | Property |
|---|---|
| `LifecycleInvariant` | the inductive invariant `IInv` |
| `TypeCorrect` | `TypeOK` |
| `ExitIsToldOnce` | `ExitToldOnce` |
| `SourceStaysBalanced` | `SourceBalanced` |
| `OwnChildSignalled` | `SignalsOwnChild` |

Each of the three properties depends on the others, so they are proved as one
invariant, with three links between the handles: the registry's entry, `isAlive`
and the open terminal come and go together (`HandlesTogether`); a discarded
session has no exit or read source (`NoSourceLeft`); the detached reaper works
only for a session that is no longer alive (`ReaperIsLast`). Whichever handler
notices the exit first therefore leaves the others nothing to find.

**`PTYInputProofs`**, for any writers, chunk sizes, cap and kernel room.

| Theorem | Property |
|---|---|
| `InputInvariant` | the inductive invariant `IInv` |
| `TypeCorrect` | `TypeOK` |
| `InputKeptInOrder` | `AcceptedInputIsKept` |
| `WaitingInputIsWatched` | `HeldInputIsWatched`: the source is armed exactly while input waits, and balanced |
| `BufferIsBounded` | the buffer with its consumed prefix is at most twice the cap |
| `PasteGetsNoHole` | `PasteHasNoHole`, if at most one peer pastes (`OnePaster`) |

`write` trusts that nothing waits when the source is not armed, and
`flushPendingInput` that something does when it fires; `HeldInputIsWatched` is
that agreement. The bound is not the cap alone, because the consumed prefix
stays until it outgrows what waits: the invariant has the offset no larger than
the rest. `PasteGetsNoHole` needs that a refused paste is remembered for as long
as more of it may come (`PasteInv`); without `OnePaster` it is false, since
`refusedPaste` is one slot (section 5).

**`IOSupervisorProofs`**, for any finite set of peers, any positive thresholds
with `ResumeBelow <= PauseAbove`, and any sizes, tags and numbers of children.

| Theorem | Property |
|---|---|
| `SupervisorInvariant` | the inductive invariant `IInv` |
| `TypeCorrect` | `TypeOK` |
| `PeersSuspendedTogether` | `SuspendedTogether` |
| `RequestsAnsweredOnce` | `AnsweredOnce` |
| `DeadLinkReplaced` | `DeadLinkIsReplaced` |
| `ArrivalTakesTheExitBack` | `ArrivalTakesExitBack` |
| `OutputStaysBounded` | `OutputBounded` |
| `OnlyTheStuckAreCut` | `OnlyStuckPeersAreCut` (an action property) |
| `TheGoneHoldNothing` | a gone peer, and everybody once the link is lost, is charged nothing and has no timer |
| `BudgetInvariant` | `BudgetInv`, inductive together with `IInv` |
| `TheBudgetAddsUp` | `BudgetAddsUp` |
| `ChargedIsOutstanding` | a registered peer is charged exactly what its outstanding barriers come to |

The invariant is cut by variables rather than by property, so that most actions
leave most parts alone: frames (`WireInv`), suspended peers (`PauseInv`), waiting
requests (`ReplyInv`), link and child (`LinkInv`), output in flight (`FlowInv`),
counters (`BoundInv`). What is not in the properties and needed: waiting requests
have distinct tags below the next one, unanswered; a question whether to leave is
younger than the last arrival; a peer whose timer runs holds output, and its
timer and the time it has been stuck add up to the grace; while the socket is read
the total is at most the pause mark. The compound steps (`flush`, peer loss,
`handleLinkClosed`) are proved once for each part and cited by every action they
occur in.

`BudgetAddsUp` is a sum over the peers, a fold, and needs three more things. That the fold is a
sum, and that changing one entry changes it by the difference, is shown from the
equation of the fold by well-founded induction over the finite subsets
of the peers, since the fold takes its elements in an order of its own. That a
barrier never takes away more than there is: `didSend` subtracts from the peer
and from the total and stops each at 0, and had one of the two ever stopped where the other did not the sum would be wrong; so what
a peer is charged has to be exactly what its outstanding barriers come to
(`Outstanding`). And that a peer is not sent anything before it is accepted, so
that it starts with nothing outstanding.

**`IOChannelProofs`**, for any peers, any positive frame sizes, any number of
frames and any positive room in the socket.

| Theorem | Property |
|---|---|
| `ChannelInvariant` | the inductive invariant `IInv` |
| `TypeCorrect` | `TypeOK` |
| `FramesArriveInOrder` | `FramesInOrder` |

A cursor is the last byte somebody has dealt with, and `Follows` says which byte
may come after it: the next of the same frame or, after the last, the first of
the next frame that was not discarded. The heart of `IInv` is `WireInv`: what the
receiver has not cut up yet, what the socket holds and what the sender has not
written are, one after the other, a stream in which every byte follows the one
before, from the end of the last frame delivered to the end of the last frame
sent (unless the sender is gone, when it may stop anywhere). A partial write, a
read, a compaction and a pause move bytes between the three and leave the stream
as it is. A discard takes whole frames out of it: that needs that the boundary
from which it starts is the beginning of a frame and not before what
was written (`QueueInv`), and that joining the two sides of a removed frame gives
bytes that follow one another again, now that the frame is discarded. The walks over headers
(`advanced`, `cuts`, `without`) are recursive functions; their results are
characterised by a climb over the indices (`Climb`, the least index at which the
claim would fail), so that no induction theorem with an operator parameter is
used. `DeliveredInv`, that consecutive deliveries are consecutive kept frames,
then gives that `delivered` is a beginning of `kept`.

**`RemoteSupervisorProofs`**, for any numbers of requests, crashes, failed spawns and
slow exits, and a switch file that works or does not.

| Theorem | Property |
|---|---|
| `SupervisionInvariant` | the inductive invariant `IInv` |
| `TypeCorrect` | `TypeOK` |
| `OneHelperOnly` | `OneHelper` |
| `RequestsCompletedOnce` | `CompletedOnce` |
| `SetAnsweredTruly` | `SetIsAnsweredTruly` |

`CompletedOnce` needs that tags are used in order (`TagsAreFresh`) and that nothing
waits on a link that is down (`ClosedIsEmpty`). `SetIsAnsweredTruly` needs to know
whom a waiting request may have gone to: with a switch that works, one that sets
it waits only for a full helper and only to turn it on (`FullHelperIsAsked`), so
that the helper's "on" is a value the switch had (`OnIsHeld`, `FlagIsHeld`).

**`FileUploadProofs`**, for files of any length, any window and any number of links.

| Theorem | Property |
|---|---|
| `UploadInvariant` | the inductive invariant `IInv` |
| `PrefixIsHeld` | `HostHoldsPrefix` |
| `SuccessIsWhole` | `WholeFileOnSuccess` |
| `AnswersAreAwaited` | `CountInv`: no more is under way on the live link than the client waits for |
| `TypeCorrect` | `TypeOK` |

A whole file is never an open upload's, and only an open upload's file is removed.
So an answer that says all of the file came is true when it is written
(`TrueAnswer`) and stays true however late it is read, and what the client
concludes from it (`ClientInv`) does too, whatever the dead links' begins, parts
and cancels still do on the host. That the copy is of the file as it was needs
that an edit is noticed: while it was not edited, every part under way and every
part written is of the original.

**`RemoteTabProofs`**, for any replay capacity and any number of bytes, links and takers.

| Theorem | Property |
|---|---|
| `PlacesAgree` | the inductive invariant `IInv` |
| `OutputIsShown` | `ShowsTheOutput`: `RemoteTab` implements `TerminalView` |
| `StatusStaysTrue` | `StatusIsTrue` |
| `TypeCorrect` | `TypeOK` |

The refinement mapping is the identity on `produced` and `screen`; the work is in
showing that what a transport reads continues what it has shown. The offset an
attach carries, the log's answer to it and the transport's position are three
copies of one number. `StreamInv` says that the frames under way are the replies
still owed and then output, byte after byte, from where the attach's reply ends
(`InOrder`), and that they leave out nothing while the link is the session's reader
(`UpToDate`); `RequestInv` that an attach still under way carries the position of
now. `StatusStaysTrue` needs (`StatusInv`) that a running handler of the transport
of the moment ends in an event that agrees with it, and, with none running, that
what the store ends on (the last event it has not run, or its status) agrees, if
that is the word of this transport; events of replaced transports may stand
anywhere in between.

Proved and in no run: the invariant and type theorems,
`IdsNeverRepeatWithinOneIO`, `FileCoversIds`, `FileNeverShrinks`, `OneWriter`, `HolderAttached`,
`SessionsStayBounded`, `WaitingInputIsWatched`, `BufferIsBounded`, `TheGoneHoldNothing`,
`ChargedIsOutstanding` and `AnswersAreAwaited`. The inductive invariants were checked with TLC on the
runs' instances before they were proved, or, where they quantify over all
numbers, with the numbers cut to those that occur there.

Only model-checked is liveness, which is outside what the prover does:
`ExitIsNoticed`, `CloseIsFinal`, `HeldInputGoes`, `FramesArrive`, `ReadingResumes`,
`RequestsAreAnswered`, `OnIsFollowed`, `OffIsFollowed`, `PartialIsRemoved`,
`CopySucceeds`, `CatchesUp`, `ClosedTabEndsSession`, `GoneTabLetsGo`. Every safety
property of a passing run has a theorem.

## 5. Findings

* **`proxy_trap`** (code). When the child refuses the idle question and dies
  before the refusal is read, the completion's `peerGone` closes the channel
  from inside its own dispatch; `dispatchCompleteFrames` then removes consumed
  bytes from an accumulator that `close` has emptied, and the process traps. The
  io process is not exposed, because its `onClosed` exits first.
* **`tab_itself`** (comment). `RemoteClient.stamped` makes every attach a takeover
  when another link of the same device holds the session, "taken over quietly;
  nobody else was using it". It does not know which of the two links is newer.
  When a hello goes unanswered or `reconnectNow` replaces an attempt that is out,
  the abandoned link still flushes its attach; read after the new one's, it
  takes the session away from it, the tab is told `sessionTaken` and says the
  terminal is in use elsewhere. The same is said when the grace of a lost link
  has just ended and the next link's attach, not stamped any more, reaches the
  daemon before it hears that the old peer is gone. Use Here brings it back.

Met while modelling, each seen in a counterexample or by reading, and not kept
as a run:

* *ids.* `init` reads the file without reserving (`SessionIDReservation.swift:44`),
  so two ios that overlap before their first `take` start from the same number.
  The proxy reaps the old child first; only a proxy that restarted itself can
  have two. `NoIdReused` excuses the overlap.
* *input.* `refusedPaste` is one slot per session (`PTYSession.swift:454`): a
  refused chunk of a second paste overwrites it, and the rest of the first is
  accepted again. It takes two peers pasting into one session at once, which the
  clients in this tree do not do; the run has one paster.
* *proxy.* If the exit source is served before the child's last reply is read, a
  child that left with 0 on request is respawned although nobody arrived
  (`IOSupervisor.swift:195`). The system comes to rest at the next idle question.
  The idle timer firing while the link is down clears `shutdownRequested`.
* *registry.* A takeover by a peer that names no device changes the holder without
  telling watchers; `HostSessionWatcher` reconciles by listing.
* *remote.* A SIGTERM between `signal(SIGTERM, SIG_IGN)` and the signal source
  (`iGhostVTRemote/main.swift:22`) is lost, and a helper told to stop goes on;
  `OffIsFollowed` excuses it. Turning access on with an unusable switch file spawns
  a full helper although the switch reads off (`RemoteSupervisor.swift:156`). A stale second poll may
  close a healthy new helper's link; the next respawn heals it.
* *uploads.* A stall during begin gives up without a cancel
  (`DaemonFileUpload.swift:93`), a cancel of a finished upload removes nothing,
  and a partial file of a replaced io stays until the day-old sweep.
* *tab.* The takeover is stamped from what the helper believes: a session that a
  window of the host has just taken, with the event still under way to the
  helper, is taken back by a reconnect that did not ask for it, which
  `RemoteClient.swift:363` says cannot happen. A retry scheduled from a stale event may replace a healthy link; it
  converges. A stale `connected` resets the attempt count, so that the next
  failure is final. A handler still running in a transport that
  `reconnectNow` replaced hands its event over behind the successor's
  (`TerminalSessionStore.swift:523`): the tab says connected while the new link is
  in its hello, or elsewhere or failed while it is attached, until the new
  transport speaks again, which an attached one need not. When the successor has
  failed for good before the old `connected` comes, the tab goes on saying
  connected with no link at all, and nothing retries (`Misled`, excused in
  `CatchesUp`; it takes four links and a byte, 20 steps). A close sent on a link
  that is dead and not known to be, a kill whose one attempt fails
  (`XPCDaemonTransport.swift:564`), and a close deferred on an attach that finds
  the session busy, are lost; `ClosedTabEndsSession` excuses those three (`unheard`).

## 6. Not modelled

Data: contents of output and of messages, encoding, terminal parsing, window
sizes, titles, paths, environment. Authentication of peers is taken as decided
at accept. Uploads and updates appear in `IOSupervisor` only as further reasons to
refuse a shutdown. `flushBlocking` is the child's last reply there. Allocation failure and the
failure of `socketpair` or `fcntl` are not distinguished from a failed spawn.

In `RemoteTab`: opening a session (the tab attaches to one it was given), local
links with their busy retries, input, the tracker that makes a rebuild start
between escape sequences, and the several routes a link may try. A request is
forwarded, carried out and answered by the host in one step. The work of a
handler is one step, although the terminal gets the bytes just before the position
counts them; and a replaced transport takes no further frame. In the code it lives
as long as blocks queued on it (a resize, input) hold it, and replies and output
queued before those are still handled: such bytes may be printed twice, by it and
by its successor, which asked for them from the position before.

Left out as a whole, with reasons in `PROJECT.json`: the relay link and the relay
server, pairing and TLS, updates, ZMODEM, the command line client, the interface.

The program is written in Swift (and Go for the relay server). Almost all of the C in the tree is
the vendored zstd amalgamation under `Shared/Zstd`, third-party code that is
outside this project; the rest are header shims and a stress-test tool. Every definition
here therefore maps to Swift.

## 7. Plan

The order follows what loses a user's shell, then what loses their data.

1. *Done:* ids, registry, session end and input, channel, supervisor; theorems
   for ids and registry.
2. *Done:* `RemoteSupervisor`; `FileUpload`; the output log, positions and the
   remote tab, with `TerminalView` and its refinement.
3. *Done:* proofs of the safety properties of `PTYLifecycle`, `PTYInput`,
   `IOSupervisor`, `RemoteSupervisor`, `FileUpload` and `RemoteTab`, with the
   refinement of `TerminalView`.
4. *Done:* the sum in `BudgetAddsUp`; `FramesInOrder` of `IOChannel`;
   `SessionService` and its refinement by `SessionRegistry`.
5. Not begun: the relay link of the remote service, opening a session from a tab,
   and the relay server as far as its matching of hosts and devices.
