--------------------------- MODULE SessionService ---------------------------
(***************************************************************************)
(* What `ighostvtd-io` promises of the sessions it keeps, whoever comes    *)
(* and goes: one client at a time has a session, to write to and to be     *)
(* sent its output.  It gets it by asking, both at once, and keeps it      *)
(* until it lets go itself, somebody else asks, or the session ends.  An   *)
(* ended session has nobody and does not come back.                        *)
(*                                                                         *)
(* The promise is SessionRegistry's: "Sessions belong to the registry, not *)
(* to whichever connection created them, so closing the app detaches       *)
(* rather than kills".  SessionRegistry implements it.  The command line's *)
(* `send` and `capture` are for clients that have no session: they ask for *)
(* one write or one look and nothing here changes.                         *)
(***************************************************************************)
CONSTANTS Peers, Ids

VARIABLES
    used,       \* ids given to a session, or to one that could not be started
    sessions,   \* ids of the sessions there are
    writers,    \* writers[id]: the clients whose `write` and `resize` it takes
    readers     \* readers[id]: the clients that are sent its output

vars == <<used, sessions, writers, readers>>

Init ==
    /\ used = {} /\ sessions = {}
    /\ writers = [id \in Ids |-> {}] /\ readers = [id \in Ids |-> {}]

(* id has p and nobody else. *)
Give(p, id) ==
    /\ writers' = [writers EXCEPT ![id] = {p}]
    /\ readers' = [readers EXCEPT ![id] = {p}]

Open(p, id) ==
    /\ id \notin used
    /\ used' = used \cup {id} /\ sessions' = sessions \cup {id}
    /\ Give(p, id)

OpenFails(id) ==
    /\ id \notin used
    /\ used' = used \cup {id}
    /\ UNCHANGED <<sessions, writers, readers>>

(* Whoever had the session loses it in the same step. *)
Take(p, id) ==
    /\ id \in sessions
    /\ Give(p, id)
    /\ UNCHANGED <<used, sessions>>

(* p leaves the sessions S.  Nobody else loses anything. *)
LetGo(p, S) ==
    /\ UNCHANGED <<used, sessions>>
    /\ writers' = [id \in Ids |-> IF id \in S THEN writers[id] \ {p} ELSE writers[id]]
    /\ readers' = [id \in Ids |-> IF id \in S THEN readers[id] \ {p} ELSE readers[id]]

(* p asks for the end of a session, and may watch it come. *)
Close(p, id) ==
    /\ id \in sessions
    /\ writers' = [writers EXCEPT ![id] = @ \ {p}]
    /\ UNCHANGED <<used, sessions, readers>>

End(id) ==
    /\ id \in sessions
    /\ sessions' = sessions \ {id}
    /\ writers' = [writers EXCEPT ![id] = {}]
    /\ readers' = [readers EXCEPT ![id] = {}]
    /\ UNCHANGED used

(* One session, or all of them when the client goes. *)
Left == {{id} : id \in Ids} \cup {Ids}

Next ==
    \/ \E p \in Peers, id \in Ids : Open(p, id) \/ Take(p, id) \/ Close(p, id)
    \/ \E id \in Ids : OpenFails(id) \/ End(id)
    \/ \E p \in Peers, S \in Left : LetGo(p, S)

Spec == Init /\ [][Next]_vars
=============================================================================
