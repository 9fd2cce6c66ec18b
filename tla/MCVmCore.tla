------------------------------ MODULE MCVmCore ------------------------------
(***************************************************************************)
(* TLC instances of VmCore.  One handler address is enough: the properties *)
(* tell a handler from no handler, and every handler is any program.       *)
(***************************************************************************)
EXTENDS VmCore

MCHandlers == {1}

\* Every type that has a priority of its own; the modem's, of priority 0, is in
\* the second set.
KeyboardTypes == {VM_INTR_TIMER1, VM_INTR_KEY, VM_INTR_EXCEPTION}
ModemTypes == {VM_INTR_TIMER1, VM_INTR_MODEM, VM_INTR_EXCEPTION}
BareTypes == {VM_INTR_TIMER1, VM_INTR_EXCEPTION}

MCExceptions == {VM_EXC_FINI_NOT_IN_INTERRUPT, VM_EXC_SEGFAULT, VM_EXC_UNKNOWN_OPCODE}

=============================================================================
