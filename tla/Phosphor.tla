------------------------------ MODULE Phosphor ------------------------------
(***************************************************************************)
(* What the screen of the CRT promises: the ray leaves lines, in the order  *)
(* it was moved, each from where the ray was to where it went; they age     *)
(* together, and the oldest one goes when, and only when, it has faded.     *)
(* The device of vm/dev/crt.c keeps them in a linked list inside an array   *)
(* with a pool of free places; module Crt shows that this is a queue.       *)
(***************************************************************************)
EXTENDS Integers, Sequences

CONSTANTS
    Points,     \* positions of the ray
    Origin,     \* where it is at first
    FADE        \* the age a line is kept to

VARIABLES
    lines,      \* sequence of the lines on the screen, oldest first
    pen         \* where the ray is

vars == <<lines, pen>>

Line(from, to, lit) == [from |-> from, to |-> to, lit |-> lit, age |-> 0]

Init == lines = <<>> /\ pen = Origin

\* The ray moves, lit or not; a dark move is a line too, so that the next
\* one starts where it ended.
Draw(to, lit) ==
    /\ lines' = Append(lines, Line(pen, to, lit))
    /\ pen' = to

Age ==
    /\ lines' = [i \in DOMAIN lines |->
                    [lines[i] EXCEPT !.age = IF @ > FADE THEN @ ELSE @ + 1]]
    /\ UNCHANGED pen

Forget ==
    /\ lines # <<>>
    /\ Head(lines).age > FADE
    /\ lines' = Tail(lines)
    /\ UNCHANGED pen

Next ==
    \/ \E to \in Points, lit \in BOOLEAN : Draw(to, lit)
    \/ Age
    \/ Forget

Spec == Init /\ [][Next]_vars
=============================================================================
