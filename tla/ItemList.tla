------------------------------ MODULE ItemList ------------------------------
(***************************************************************************)
(* What a dynamic array promises (common/array.h): a list of items that is  *)
(* pushed to, popped from, read at its end and cut short.  The program dies *)
(* of a call that makes no sense, and may die of a push for want of memory. *)
(***************************************************************************)
EXTENDS Integers, Sequences

CONSTANTS Items, MaxLength

VARIABLES
    items,
    event,          \* the last call, with what it was given or gave
    host            \* "runs", "died" with a report, "crashed" without one

vars == <<items, event, host>>

Init == items = << >> /\ event = <<"new">> /\ host = "runs"

End(how) == host' = how /\ UNCHANGED <<items, event>>

Push(item) ==
    /\ host = "runs" /\ Len(items) < MaxLength
    /\ \/ items' = Append(items, item) /\ event' = <<"push", item>> /\ UNCHANGED host
       \/ End("crashed")

Pop ==
    /\ host = "runs"
    /\ IF items = << >> THEN End("died")
       ELSE /\ items' = SubSeq(items, 1, Len(items) - 1)
            /\ event' = <<"pop">> /\ UNCHANGED host

Top ==
    /\ host = "runs"
    /\ IF items = << >> THEN End("died")
       ELSE event' = <<"top", items[Len(items)]>> /\ UNCHANGED <<items, host>>

Resize(size) ==
    /\ host = "runs"
    /\ IF size > Len(items) THEN End("died")
       ELSE /\ items' = SubSeq(items, 1, size)
            /\ event' = <<"resize", size>> /\ UNCHANGED host

Next ==
    \/ \E item \in Items : Push(item)
    \/ Pop \/ Top
    \/ \E size \in 0..MaxLength : Resize(size)

Spec == Init /\ [][Next]_vars

=============================================================================
