-------------------------- MODULE PriorityInterrupts -------------------------
(***************************************************************************)
(* What the processor promises about interrupts, without its arrays and    *)
(* loops: requests wait in the order they were accepted; the one delivered *)
(* is always the oldest that outranks what is being handled; handlers nest *)
(* and end in the reverse order; nothing waiting is lost or duplicated     *)
(* while the machine lives.                                                *)
(***************************************************************************)
EXTENDS Integers, Sequences, SequencesExt

CONSTANTS
    Requests,       \* what may be asked for: records with a field type
    Priority(_)     \* of a type

VARIABLES
    pending,        \* requests accepted and not yet delivered, oldest first
    active,         \* types being handled, innermost last
    dead            \* the machine has decided to stop

vars == <<pending, active, dead>>

Due(e) == active # << >> => Priority(Last(active)) < Priority(e.type)

Init == pending = << >> /\ active = << >> /\ dead = FALSE

\* One instruction, or one device, adds requests at the end; an instruction may
\* ask for the modem's interrupt and for an exception.
Ask ==
    /\ pending' \in Seq(Requests)
    /\ IsStrictPrefix(pending, pending')
    /\ Len(pending') <= Len(pending) + 2
    /\ UNCHANGED active
    /\ dead' \in {dead, TRUE}

\* The oldest due request leaves the queue; it becomes active if somebody
\* handles its type.
Deliver ==
    \E k \in DOMAIN pending :
        /\ Due(pending[k])
        /\ \A j \in 1 .. k - 1 : ~Due(pending[j])
        /\ pending' = RemoveAt(pending, k)
        /\ active' \in {active, Append(active, pending[k].type)}
        /\ UNCHANGED dead

\* The innermost handler ends.
Return ==
    /\ active # << >>
    /\ active' = Front(active)
    /\ UNCHANGED <<pending, dead>>

\* The machine decides to stop; what waits no longer matters.
Die ==
    /\ dead' = TRUE
    /\ UNCHANGED active
    /\ \E n \in 0 .. Len(pending) : pending' = SubSeq(pending, 1, n)

Next == Ask \/ Deliver \/ Return \/ Die

Spec == Init /\ [][Next]_vars

=============================================================================
