------------------------ MODULE SessionIDReservation ------------------------
(***************************************************************************)
(* The session-id counter of `ighostvtd-io` (SessionIDReservation.swift).  *)
(* Every io process hands out ids from blocks it reserved in one file that *)
(* outlives it, so that an id a client kept across an io crash never names *)
(* somebody else's session.                                                *)
(*                                                                         *)
(* The file is locked for the whole of an `update`, so one update is one   *)
(* step.  What can still go wrong in it is its outcome: the file cannot be *)
(* opened or locked ("unreachable"), or the write back is refused          *)
(* ("writeFails").  A dying io may still run when its replacement starts.  *)
(* The history `trouble` remembers whether either ever happened.           *)
(***************************************************************************)
EXTENDS Integers

CONSTANTS
    IOs,        \* the io processes, one after another or overlapping
    BlockSize,  \* SessionIDReservation.blockSize
    MaxId       \* bound: ids handed out stay below it

ASSUME BlockSizeAssumption == BlockSize \in Nat \ {0}
ASSUME MaxIdAssumption == MaxId \in Nat

VARIABLES
    file,         \* the number in the file; Unreadable before it has digits
    life,         \* life[p]: whether io p has not started, runs or is gone
    next,         \* the struct's `next`
    reservedEnd,  \* the struct's `reservedEnd`
    handed,       \* history: handed[p] = every id io p has handed out
    trouble       \* history: what of "file" and "overlap" has happened

idVars == <<file, life, next, reservedEnd, handed, trouble>>

Outcomes == {"ok", "unreachable", "writeFails"}

Unreadable == -1

larger(a, b) == IF a >= b THEN a ELSE b

IdsTypeOK ==
    /\ file \in Nat \cup {Unreadable}
    /\ life \in [IOs -> {"unborn", "running", "gone"}]
    /\ next \in [IOs -> Nat]
    /\ reservedEnd \in [IOs -> Nat]
    /\ handed \in [IOs -> SUBSET Nat]
    /\ trouble \subseteq {"file", "overlap"}

-----------------------------------------------------------------------------
(* update(path:atLeast:): what is stored afterwards, and what the caller   *)
(* is told (Unreadable stands for nil).  A missing number counts as 0.     *)

updateStored(value, outcome) ==
    IF outcome = "ok" THEN larger(file, value) ELSE file

updateResult(value, outcome) ==
    IF outcome = "unreachable" THEN Unreadable ELSE updateStored(value, outcome)

noted(outcome) == IF outcome = "ok" THEN trouble ELSE trouble \cup {"file"}

-----------------------------------------------------------------------------
IdsInit ==
    /\ file = Unreadable
    /\ life = [p \in IOs |-> "unborn"]
    /\ next = [p \in IOs |-> 0]
    /\ reservedEnd = [p \in IOs |-> 0]
    /\ handed = [p \in IOs |-> {}]
    /\ trouble = {}

\* Mutation: a replacement io counts from 1 again.
StartAtOne(p, outcome) ==
    /\ life[p] = "unborn"
    /\ next' = [next EXCEPT ![p] = 1]
    /\ reservedEnd' = [reservedEnd EXCEPT ![p] = 1]
    /\ file' = updateStored(0, outcome)
    /\ life' = [life EXCEPT ![p] = "running"]
    /\ trouble' = noted(outcome) \cup
         (IF \E q \in IOs : life[q] = "running" THEN {"overlap"} ELSE {})
    /\ UNCHANGED handed

(* init(path:) of a new io.  The proxy spawns a replacement once the old   *)
(* child is reaped; only a proxy that itself restarted can have the two    *)
(* overlap.                                                                *)
Start(p, outcome) ==
    /\ life[p] = "unborn"
    /\ LET start == larger(updateResult(0, outcome), 1) IN
         /\ next' = [next EXCEPT ![p] = start]
         /\ reservedEnd' = [reservedEnd EXCEPT ![p] = start]
    /\ file' = updateStored(0, outcome)
    /\ life' = [life EXCEPT ![p] = "running"]
    /\ trouble' = noted(outcome) \cup
         (IF \E q \in IOs : life[q] = "running" THEN {"overlap"} ELSE {})
    /\ UNCHANGED handed

(* take() while the reserved block still has ids. *)
TakeReserved(p) ==
    /\ life[p] = "running"
    /\ next[p] < reservedEnd[p]
    /\ next[p] < MaxId
    /\ handed' = [handed EXCEPT ![p] = @ \cup {next[p]}]
    /\ next' = [next EXCEPT ![p] = @ + 1]
    /\ UNCHANGED <<file, life, reservedEnd, trouble>>

(* take() with the block spent: another one is reserved first. *)
TakeReserving(p, outcome) ==
    /\ life[p] = "running"
    /\ next[p] >= reservedEnd[p]
    /\ next[p] < MaxId
    /\ LET wanted == next[p] + BlockSize IN
         /\ reservedEnd' =
              [reservedEnd EXCEPT ![p] = larger(updateResult(wanted, outcome), wanted)]
         /\ file' = updateStored(wanted, outcome)
    /\ handed' = [handed EXCEPT ![p] = @ \cup {next[p]}]
    /\ next' = [next EXCEPT ![p] = @ + 1]
    /\ trouble' = noted(outcome)
    /\ UNCHANGED life

(* The process dies, at any point between two calls. *)
Die(p) ==
    /\ life[p] = "running"
    /\ life' = [life EXCEPT ![p] = "gone"]
    /\ UNCHANGED <<file, next, reservedEnd, handed, trouble>>

IdsNext ==
    \E p \in IOs :
        \/ \E outcome \in Outcomes : Start(p, outcome) \/ TakeReserving(p, outcome)
        \/ TakeReserved(p)
        \/ Die(p)

IdsSpec == IdsInit /\ [][IdsNext]_idVars

-----------------------------------------------------------------------------
HandedTwice == \E p, q \in IOs : p # q /\ handed[p] \cap handed[q] # {}

FileWorked == "file" \notin trouble

(* No id is handed out by two io processes that follow one another while   *)
(* the file works: an id a client kept from an io that died names nothing  *)
(* in any later one.                                                       *)
NoIdReused == trouble = {} => ~HandedTwice

(* While the file works, io processes sharing it never pull it below an id *)
(* any of them has handed out, even while they overlap: the next io to     *)
(* start does so above all of them.                                        *)
FileCoversHandedIds ==
    FileWorked => \A p \in IOs : \A id \in handed[p] : id < file

(* Whatever happens to the file, one io never hands out an id twice.       *)
NeverRepeatsWithinOneIO ==
    [][\A p \in IOs :
          life[p] = "running" /\ next'[p] # next[p] => next[p] \notin handed[p]]_idVars

(* The number in the file only ever grows, whichever io updates it.        *)
FileOnlyGrows == [][file' >= file]_idVars

=============================================================================
