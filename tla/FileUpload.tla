----------------------------- MODULE FileUpload -----------------------------
(***************************************************************************)
(* One file copied onto a host: DaemonFileUpload on the client, with its   *)
(* links that die and are replaced, and FileUploadStore behind uploadFile  *)
(* on the host, where the upload belongs to no link.  A link is a FIFO of  *)
(* requests and one of answers; when the client drops it the answers are   *)
(* gone, while what it sent may still reach the host, beside what the next *)
(* link sends.  The file is a row of parts; each is sent as the version    *)
(* the file had when it was read.                                          *)
(***************************************************************************)
EXTENDS Naturals, Sequences, SequencesExt

CONSTANTS
    Sizes,              \* parts of the file
    MaximumWindow,
    MaxLinks            \* links the client makes: a bound

ASSUME SizesAssumption == Sizes \subseteq Nat
ASSUME WindowAssumption == MaximumWindow \in Nat \ {0}
ASSUME LinksAssumption == MaxLinks \in Nat \ {0}

VARIABLES
    size,
    edited,             \* the file was written to since its identity was read
    phase,              \* "begin", "transfer", "done" or "failed"
    link,               \* index in sent of the live link, 0 if none
    sent,               \* per link made: requests that have not reached the host
    back,               \* answers on their way over the live link
    waiting,            \* a begin or a question is unanswered
    mustAsk, pumping, held, next, inFlight, window,
    upload,             \* uploads[id]: "none", "open"; or "finished"
    received,
    file,               \* its directory on the host: <<>> if none, else what each part holds
    expiry,             \* the timer is there
    crashed,            \* history: the io process was replaced
    excuse              \* history: something happened a copy may fail for

clientVars == <<phase, waiting, mustAsk, pumping, held, next, inFlight, window>>
hostVars == <<upload, received, file, expiry>>
vars == <<size, edited, link, sent, back, clientVars, hostVars, crashed, excuse>>

Hole == "hole"
Version == {"original", "other"}
Begin == [kind |-> "begin"]
Question == [kind |-> "ask"]
Cancel == [kind |-> "cancel"]
Part(i, v) == [kind |-> "part", offset |-> i, version |-> v]
Parts == [kind : {"part"}, offset : Nat, version : Version]
Answer == [code : {"success", "misaligned", "refused"}, offset : Nat]

TypeOK ==
    /\ size \in Sizes
    /\ phase \in {"begin", "transfer", "done", "failed"}
    /\ link \in 0..Len(sent)
    /\ sent \in Seq(Seq({Begin, Question, Cancel} \cup Parts))
    /\ back \in Seq(Answer)
    /\ waiting \in BOOLEAN /\ mustAsk \in BOOLEAN /\ pumping \in BOOLEAN
    /\ expiry \in BOOLEAN /\ edited \in BOOLEAN /\ crashed \in BOOLEAN /\ excuse \in BOOLEAN
    /\ held \in 0..size /\ next \in 0..size /\ received \in 0..size
    /\ inFlight \in 0..MaximumWindow /\ window \in 1..MaximumWindow
    /\ upload \in {"none", "open", "finished"}
    /\ file \in {<<>>} \cup {<<f>> : f \in [0..(size - 1) -> Version \cup {Hole}]}

Init ==
    /\ size \in Sizes /\ edited = FALSE
    /\ phase = "begin" /\ link = 0 /\ sent = <<>> /\ back = <<>>
    /\ waiting = FALSE /\ mustAsk = FALSE /\ pumping = FALSE
    /\ held = 0 /\ next = 0 /\ inFlight = 0 /\ window = MaximumWindow
    /\ upload = "none" /\ received = 0 /\ file = <<>> /\ expiry = FALSE
    /\ crashed = FALSE /\ excuse = FALSE

Running == phase \in {"begin", "transfer"}

-----------------------------------------------------------------------------
(* The client. *)

(* liveLink: a fresh link whose hello was answered. *)
Connect ==
    /\ Running /\ link = 0 /\ Len(sent) < MaxLinks
    /\ held < size \/ phase = "begin"
    /\ sent' = Append(sent, <<>>) /\ link' = Len(sent) + 1
    /\ UNCHANGED <<size, edited, back, clientVars, hostVars, crashed, excuse>>

(* No link to be had: a transfer asks first once there is one again.       *)
ConnectFails ==
    /\ phase = "transfer" /\ link = 0 /\ ~mustAsk /\ held < size
    /\ mustAsk' = TRUE
    /\ UNCHANGED <<size, edited, link, sent, back, phase, waiting, pumping, held, next,
                   inFlight, window, hostVars, crashed, excuse>>

SendBegin ==
    /\ phase = "begin" /\ link # 0 /\ ~waiting
    /\ sent' = [sent EXCEPT ![link] = Append(@, Begin)]
    /\ waiting' = TRUE
    /\ UNCHANGED <<size, edited, link, back, phase, mustAsk, pumping, held, next, inFlight,
                   window, hostVars, crashed, excuse>>

SendAsk ==
    /\ phase = "transfer" /\ link # 0 /\ mustAsk /\ ~waiting /\ ~pumping /\ held < size
    /\ sent' = [sent EXCEPT ![link] = Append(@, Question)]
    /\ waiting' = TRUE
    /\ UNCHANGED <<size, edited, link, back, phase, mustAsk, pumping, held, next, inFlight,
                   window, hostVars, crashed, excuse>>

(* sendNext until the window is full or the file is through, from part `n` *)
(* with `k` unanswered.                                                    *)
fill(n, k, w) ==
    LET room == IF w > k THEN w - k ELSE 0
        count == IF room < size - n THEN room ELSE size - n
        version == IF edited THEN "other" ELSE "original" IN
    /\ sent' = [sent EXCEPT ![link] = @ \o [j \in 1..count |-> Part(n + j - 1, version)]]
    /\ next' = n + count
    /\ inFlight' = k + count
    /\ pumping' = (k + count > 0)

Pump ==
    /\ phase = "transfer" /\ link # 0 /\ ~mustAsk /\ ~pumping /\ held < size
    /\ fill(held, 0, window)
    /\ UNCHANGED <<size, edited, link, back, phase, waiting, mustAsk, held, window, hostVars,
                   crashed, excuse>>

(* run() throws: the link is dropped and, once something was begun, the    *)
(* host is told over a link of its own.                                    *)
giveUp(abandons) ==
    /\ phase' = "failed"
    /\ link' = 0 /\ back' = <<>>
    /\ sent' = IF abandons THEN Append(sent, <<Cancel>>) ELSE sent
    /\ waiting' = FALSE /\ mustAsk' = FALSE /\ pumping' = FALSE
    /\ held' = 0 /\ next' = 0 /\ inFlight' = 0 /\ window' = 1

ReadBeginAnswer ==
    /\ phase = "begin" /\ back # <<>>
    /\ \/ /\ Head(back).code = "success"
          /\ phase' = "transfer" /\ waiting' = FALSE
          /\ back' = Tail(back)
          /\ UNCHANGED <<link, sent, mustAsk, pumping, held, next, inFlight, window>>
       \/ Head(back).code # "success" /\ giveUp(FALSE)
    /\ UNCHANGED <<size, edited, hostVars, crashed, excuse>>

ReadAskAnswer ==
    /\ phase = "transfer" /\ waiting /\ back # <<>>
    /\ \/ /\ Head(back).code = "success"
          /\ held' = Head(back).offset
          /\ mustAsk' = FALSE /\ waiting' = FALSE
          /\ back' = Tail(back)
          /\ UNCHANGED <<link, sent, phase, pumping, next, inFlight, window>>
       \/ Head(back).code # "success" /\ giveUp(TRUE)
    /\ UNCHANGED <<size, edited, hostVars, crashed, excuse>>

(* The link is dropped; after parts were sent, the next round asks what    *)
(* the host holds.                                                         *)
dropLink ==
    /\ link' = 0 /\ back' = <<>>
    /\ waiting' = FALSE /\ pumping' = FALSE
    /\ mustAsk' = (mustAsk \/ pumping)
    /\ next' = 0 /\ inFlight' = 0
    /\ UNCHANGED <<phase, sent, held>>

larger(a, b) == IF a < b THEN b ELSE a

(* pump's loop: an answer moves `held`, and `next` with it when parts of   *)
(* an earlier link landed after all; the window, which a row of answers    *)
(* lets grow, fills up again.  Each answer is waited for by a task of its  *)
(* own, so they come in any order.                                         *)
ReadPartAnswer(i) ==
    /\ pumping
    /\ \/ /\ back[i].code = "success"
          /\ held' = larger(held, back[i].offset)
          /\ window' \in {window, window + 1} /\ window' <= MaximumWindow
          /\ fill(larger(next, held'), inFlight - 1, window')
          /\ back' = RemoveAt(back, i)
          /\ UNCHANGED <<link, phase, waiting, mustAsk>>
       \/ back[i].code = "misaligned" /\ dropLink /\ UNCHANGED window
       \/ back[i].code = "refused" /\ giveUp(TRUE)
    /\ UNCHANGED <<size, edited, hostVars, crashed, excuse>>

halved(w) == IF w > 1 THEN w \div 2 ELSE 1

(* The link is lost, or answers nothing for replyTimeout, which halves the *)
(* window.                                                                 *)
LinkFails ==
    /\ Running /\ link # 0 /\ Len(sent) < MaxLinks
    /\ dropLink
    /\ window' \in IF pumping THEN {window, halved(window)} ELSE {window}
    /\ UNCHANGED <<size, edited, hostVars, crashed, excuse>>

unchanged == ~edited

Finish ==
    /\ phase = "transfer" /\ held >= size /\ ~pumping
    /\ \/ /\ unchanged
          /\ phase' = "done" /\ link' = 0 /\ back' = <<>>
          /\ UNCHANGED <<sent, waiting, mustAsk, pumping, held, next, inFlight, window>>
       \/ ~unchanged /\ giveUp(TRUE)
    /\ UNCHANGED <<size, edited, hostVars, crashed, excuse>>

(* backOff past stallLimit: only a copy that was begun is abandoned.       *)
Stall ==
    /\ Running /\ link = 0
    /\ giveUp(phase = "transfer")
    /\ excuse' = TRUE
    /\ UNCHANGED <<size, edited, hostVars, crashed>>

TaskCancelled ==
    /\ Running
    /\ giveUp(TRUE)
    /\ excuse' = TRUE
    /\ UNCHANGED <<size, edited, hostVars, crashed>>

FileEdited ==
    /\ Running /\ ~edited
    /\ edited' = TRUE /\ excuse' = TRUE
    /\ UNCHANGED <<size, link, sent, back, clientVars, hostVars, crashed>>

(* A part that can no longer be read ends the copy. *)
ReadFails ==
    /\ pumping /\ edited
    /\ giveUp(TRUE)
    /\ UNCHANGED <<size, edited, hostVars, crashed, excuse>>

-----------------------------------------------------------------------------
(* The host. *)

(* The request at the head of link l is taken; only the live link's        *)
(* answer reaches anyone.                                                  *)
take(l, kind) ==
    /\ sent[l] # <<>> /\ Head(sent[l]).kind = kind
    /\ sent' = [sent EXCEPT ![l] = Tail(@)]
    /\ UNCHANGED <<size, edited, link, clientVars, crashed>>

answer(l, code, offset) ==
    back' = IF l = link THEN Append(back, [code |-> code, offset |-> offset]) ELSE back

blank == [i \in 0..(size - 1) |-> Hole]

alreadyBegun == upload # "none"

\* Mutation: a directory that is there already is used.
takenNever == FALSE

taken == file # <<>>

\* Mutation: the timer is armed once, by the first upload.
armExpiryOnce == expiry

armExpiry == TRUE

TakeBegin(l) ==
    /\ take(l, "begin")
    /\ \/ /\ alreadyBegun
          /\ answer(l, "success", 0)
          /\ UNCHANGED <<hostVars, excuse>>
       \/ /\ ~alreadyBegun /\ taken   \* mkdirat: EEXIST
          /\ answer(l, "refused", 0)
          /\ UNCHANGED <<hostVars, excuse>>
       \/ /\ ~alreadyBegun /\ ~taken
          /\ file' = <<blank>> /\ received' = 0
          /\ upload' = IF size = 0 THEN "finished" ELSE "open"
          /\ expiry' = armExpiry
          /\ answer(l, "success", 0)
          /\ UNCHANGED excuse

(* Too many uploads, no room on the volume, no safe directory. *)
RefuseBegin(l) ==
    /\ upload = "none"
    /\ take(l, "begin")
    /\ answer(l, "refused", 0)
    /\ excuse' = TRUE
    /\ UNCHANGED hostVars

TakeAsk(l) ==
    /\ take(l, "ask")
    /\ \/ upload = "open" /\ answer(l, "success", received)
       \/ upload = "finished" /\ answer(l, "success", size)
       \/ upload = "none" /\ answer(l, "refused", 0)
    /\ UNCHANGED <<hostVars, excuse>>

remove ==
    /\ upload' = "none" /\ received' = 0 /\ file' = <<>>
    /\ UNCHANGED expiry

\* Mutation: a part past the end of what is here is written where it says.
leavesHoleNever(offset) == FALSE

leavesHole(offset) == offset > received

\* Mutation: a finished upload is not remembered.
finishForgets == "none"

finish == "finished"

(* write: what is here already is skipped, a part past it is refused. *)
TakePart(l) ==
    LET offset == Head(sent[l]).offset IN
    /\ take(l, "part")
    /\ \/ /\ upload = "none"
          /\ answer(l, "refused", 0)
          /\ UNCHANGED <<hostVars, excuse>>
       \/ /\ upload = "finished"
          /\ answer(l, "success", size)
          /\ UNCHANGED <<hostVars, excuse>>
       \/ /\ upload = "open" /\ leavesHole(offset)
          /\ answer(l, "misaligned", received)
          /\ UNCHANGED <<hostVars, excuse>>
       \/ /\ upload = "open" /\ offset < received
          /\ answer(l, "success", received)
          /\ UNCHANGED <<hostVars, excuse>>
       \/ /\ upload = "open" /\ offset >= received /\ ~leavesHole(offset)
          /\ \/ /\ file' = <<[file[1] EXCEPT ![offset] = Head(sent[l]).version]>>
                /\ received' = offset + 1
                /\ upload' = IF offset + 1 = size THEN finish ELSE "open"
                /\ answer(l, "success", offset + 1)
                /\ UNCHANGED <<expiry, excuse>>
             \/ /\ remove   \* pwrite failed
                /\ answer(l, "refused", 0)
                /\ excuse' = TRUE

TakeCancel(l) ==
    /\ take(l, "cancel")
    /\ IF upload = "open" THEN remove ELSE UNCHANGED hostVars
    /\ UNCHANGED <<back, excuse>>

(* expireIdle: a suspended app may be away for longer than idleLifetime at *)
(* any moment.  With nothing left the timer goes.                          *)
ExpireIdle ==
    /\ expiry
    /\ \/ /\ upload = "open"
          /\ upload' = "none" /\ received' = 0 /\ file' = <<>> /\ expiry' = FALSE
          /\ excuse' = TRUE
       \/ /\ upload # "open"
          /\ expiry' = FALSE
          /\ UNCHANGED <<upload, received, file, excuse>>
    /\ UNCHANGED <<size, edited, link, sent, back, clientVars, crashed>>

(* Sixty-four other uploads finish: this one is no longer remembered. *)
OthersFinish ==
    /\ upload = "finished"
    /\ upload' = "none" /\ received' = 0
    /\ excuse' = TRUE
    /\ UNCHANGED <<size, edited, link, sent, back, clientVars, file, expiry, crashed>>

(* The io process is replaced: every link is cut, the files stay. *)
IODies ==
    /\ ~crashed
    /\ crashed' = TRUE /\ excuse' = TRUE
    /\ upload' = "none" /\ received' = 0 /\ expiry' = FALSE
    /\ sent' = [l \in DOMAIN sent |-> <<>>] /\ back' = <<>>
    /\ UNCHANGED <<size, edited, link, clientVars, file>>

(* A link the client has left takes the rest of its requests with it.      *)
StrayLost(l) ==
    /\ l # link /\ sent[l] # <<>>
    /\ sent' = [sent EXCEPT ![l] = <<>>]
    /\ UNCHANGED <<size, edited, link, back, clientVars, hostVars, crashed, excuse>>

HostTakes(l) ==
    TakeBegin(l) \/ RefuseBegin(l) \/ TakeAsk(l) \/ TakePart(l) \/ TakeCancel(l)

Next ==
    \/ Connect \/ ConnectFails \/ SendBegin \/ SendAsk \/ Pump
    \/ ReadBeginAnswer \/ ReadAskAnswer \/ LinkFails \/ Finish
    \/ \E i \in DOMAIN back : ReadPartAnswer(i)
    \/ Stall \/ TaskCancelled \/ FileEdited \/ ReadFails
    \/ \E l \in DOMAIN sent : HostTakes(l) \/ StrayLost(l)
    \/ ExpireIdle \/ OthersFinish \/ IODies

(* The client runs, a link that stays up carries what is sent, and the     *)
(* host's timer fires.                                                     *)
Fairness ==
    /\ WF_vars(Connect) /\ WF_vars(SendBegin) /\ WF_vars(SendAsk) /\ WF_vars(Pump)
    /\ WF_vars(ReadBeginAnswer) /\ WF_vars(ReadAskAnswer)
    /\ WF_vars(\E i \in DOMAIN back : ReadPartAnswer(i))
    /\ WF_vars(Finish)
    /\ WF_vars(\E l \in DOMAIN sent : l = link /\ HostTakes(l))
    /\ WF_vars(ExpireIdle)

Spec == Init /\ [][Next]_vars /\ Fairness

-----------------------------------------------------------------------------
(* What the host holds of an open upload is a beginning of the file with   *)
(* no hole, whatever two links' parts overlap.                             *)
HostHoldsPrefix ==
    upload = "open" => \A i \in 0..(size - 1) : (i < received) = (file[1][i] # Hole)

(* A path the client gives the shell names the whole file, as it was when  *)
(* the copy started; late requests of dead links never take it away.       *)
WholeFileOnSuccess ==
    phase = "done" => file = <<[i \in 0..(size - 1) |-> "original"]>>

Partial == file # <<>> /\ \E i \in 0..(size - 1) : file[1][i] = Hole

(* A copy that was given up leaves no partial file, whether or not the     *)
(* host hears of it, and even when a late begin makes it again; only a     *)
(* replaced io forgets one.                                                *)
PartialIsRemoved == (phase = "failed" /\ Partial) ~> (~Partial \/ crashed)

(* Links that die, however often and at whatever point, do not fail a      *)
(* copy: begins, questions and last parts whose answers were lost are      *)
(* answered again.                                                         *)
CopySucceeds == <>(phase = "done" \/ excuse)

=============================================================================
