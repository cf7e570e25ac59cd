---------------------------- MODULE TerminalView ----------------------------
(***************************************************************************)
(* What a terminal tab promises of the output it shows, whatever happens   *)
(* to the links under it: one unbroken stretch of what the session         *)
(* printed.  A step adds the bytes that come next, or puts a later stretch *)
(* in place of the whole screen.  No byte is missing from the middle, none *)
(* is shown twice, and the screen never goes back to an earlier point.     *)
(*                                                                         *)
(* The promise is SessionOutputPosition's: "exactly, with no gap and       *)
(* nothing printed twice".  RemoteTab implements it.                       *)
(***************************************************************************)
EXTENDS Naturals, Sequences

VARIABLES
    produced,   \* how many bytes the session has printed
    screen      \* the bytes on the screen, each by its number in the output

vars == <<produced, screen>>

(* The bytes after number a, up to number b.                               *)
Stretch(a, b) == [i \in 1 .. (b - a) |-> a + i]

(* The newest byte on the screen.                                          *)
Newest == IF screen = <<>> THEN 0 ELSE screen[Len(screen)]

Init == produced = 0 /\ screen = <<>>

Prints == produced' = produced + 1 /\ UNCHANGED screen

(* The missing bytes, in order, after the newest one shown.                *)
Extend ==
    /\ \E to \in Newest .. produced : screen' = screen \o Stretch(Newest, to)
    /\ UNCHANGED produced

(* The screen rebuilt from a clean slate, never ending before it did.      *)
Rebuild ==
    /\ \E to \in Newest .. produced : \E from \in 0 .. to : screen' = Stretch(from, to)
    /\ UNCHANGED produced

Next == Prints \/ Extend \/ Rebuild

Spec == Init /\ [][Next]_vars
=============================================================================
