------------------------------ MODULE Receiver ------------------------------
(***************************************************************************)
(* Processor and modem together, under a program: the example               *)
(* examples/v2/modem.s, which connects, sends a request and receives what    *)
(* comes in its interrupt handler.  VmCore runs the program and Modem        *)
(* answers its accesses; what each takes from the other as nondeterministic *)
(* is here the step of the other.                                           *)
(*                                                                          *)
(* Of the program, every instruction is kept that touches the modem, the     *)
(* interrupts or the control between these; seen is the flag on the stack   *)
(* that a branch decides on.                                                *)
(***************************************************************************)
EXTENDS Integers, FiniteSets, Sequences, SequencesExt

CONSTANTS
    OPS_PER_UPDATE,
    MaxAsked,                       \* bound: of VmCore
    SYSMEM_END, RAM_END, ROM_LIMIT, \* the memory map of Modem
    POINTERS, RAM_AT, ROM_AT,       \* and its place in the host
    Descriptors,
    MaxStream,                      \* bound: of Modem
    BUF_BEGIN, BUF_SIZE,            \* the program's buffer
    HOST, PORT, DATA, DATA_LEN      \* where it connects to and what it sends

ASSUME ReceiverAssumption ==
    /\ OPS_PER_UPDATE \in Nat \ {0} /\ MaxAsked \in Nat \ {0}
    /\ {SYSMEM_END, RAM_END, ROM_LIMIT, POINTERS, RAM_AT, ROM_AT,
        BUF_BEGIN, BUF_SIZE, HOST, PORT, DATA, DATA_LEN} \subseteq Nat
    /\ SYSMEM_END < RAM_END /\ RAM_END <= ROM_LIMIT
    /\ RAM_AT + (RAM_END - SYSMEM_END) < POINTERS
    /\ ROM_AT + (ROM_LIMIT - RAM_END) < POINTERS
    /\ SYSMEM_END <= BUF_BEGIN /\ BUF_BEGIN + BUF_SIZE < RAM_END
    /\ BUF_SIZE + PORT + DATA_LEN < POINTERS
    /\ Descriptors \subseteq Nat /\ MaxStream \in Nat

VARIABLES
    \* of VmCore
    pc, is_halted, should_die, interrupts_disabled, interrupt_vector,
    interrupt_type, interrupt_return_addr, asked_interrupts, is_waiting,
    phase, n_ops, scan, num_postponed,
    \* of Modem
    fd, status, error, arg_a, arg_b, written, open_fds, peer, unread, sent, destroyed,
    \* of the program: the last status byte it read had FAIL
    seen,
    \* history: the modem has reported CONNRESET
    noticed

cpuVars == <<pc, is_halted, should_die, interrupts_disabled, interrupt_vector,
             interrupt_type, interrupt_return_addr, asked_interrupts, is_waiting,
             phase, n_ops, scan, num_postponed>>
modemVars == <<fd, status, error, arg_a, arg_b, written, open_fds, peer, unread, sent,
               destroyed>>
programVars == <<seen, noticed>>
vars == <<cpuVars, modemVars, programVars>>

\* Places in the program.  PRINTER is what lies behind the hlt of quit.
MAIN == 1   CONNECT == 2   SEND == 7   LOOP == 12   FAILED == 15   RESET == 16
QUIT == 17   PRINTER == 19   INT_MODEM == 20   RECV == 22   FINI == 24

INTR_TIMER1 == 0   INTR_MODEM == 8   INTR_EXCEPTION == 14

\* No instruction of the program faults, and it is run without a display.
Cpu == INSTANCE VmCore WITH
    MaxPc <- FINI, Handlers <- {INT_MODEM},
    IntrTypes <- {INTR_TIMER1, INTR_MODEM, INTR_EXCEPTION}, Exceptions <- 1..8,
    KeyEvents <- {}, HaveVideo <- FALSE, HaveModem <- TRUE, PUSH_LEN <- 1,
    kb_regs <- "no key", exception_type <- 0, exception_pc <- 0

\* A request of the modem waits.
ModemAsked == \E k \in DOMAIN Cpu!Pending : Cpu!Pending[k].type = INTR_MODEM

Dev == INSTANCE Modem WITH
    Addresses <- {0, BUF_BEGIN, HOST, DATA},
    Sizes <- 0 .. BUF_SIZE + PORT + DATA_LEN,
    asked <- ModemAsked

\* The modem at the beginning of a step: the field asked says from here on
\* whether the step asks.
Silent == [Dev!Now EXCEPT !.asked = FALSE]

Init ==
    /\ Cpu!Init /\ pc = MAIN
    /\ Dev!Init
    /\ seen = FALSE
    /\ noticed = FALSE

-----------------------------------------------------------------------------
(* The modem answers.                                                       *)

\* The request of the modem is dropped (mutant of Queued).
QueuedNever(m) == asked_interrupts
Queued(m) ==
    IF m.asked THEN Append(asked_interrupts, Cpu!Interrupt(INTR_MODEM, Cpu!NoSetup))
    ELSE asked_interrupts

\* The modem becomes m; what it asks for is in the processor's queue.
Takes(m) ==
    /\ fd' = m.fd /\ status' = m.status /\ error' = m.error /\ arg_b' = m.arg_b
    /\ open_fds' = m.open_fds
    /\ peer' = m.peer /\ unread' = m.unread /\ sent' = m.sent
    /\ asked_interrupts' = Queued(m)
    /\ noticed' = (noticed \/ m.error = "CONNRESET")
    /\ UNCHANGED <<arg_a, destroyed>>

ModemRests == UNCHANGED <<modemVars, noticed>>

-----------------------------------------------------------------------------
(* The program.                                                             *)

\* An instruction that asks for nothing, and goes on at next.
Quietly(next) ==
    /\ UNCHANGED asked_interrupts
    /\ Cpu!ExecOrdinary
    /\ pc' = next

\* put64 int_modem, 0x08 + INTR_MODEM * 0x08
SetHandler ==
    /\ pc = MAIN
    /\ Cpu!ExecSetVector(INTR_MODEM, INT_MODEM)
    /\ UNCHANGED seen /\ ModemRests

\* The stores of the arguments of the modem's three commands.
ArgumentA == [k \in {CONNECT, SEND + 1, INT_MODEM + 1} |->
                CASE k = CONNECT       -> HOST
                  [] k = SEND + 1      -> DATA
                  [] k = INT_MODEM + 1 -> BUF_BEGIN]
ArgumentB == [k \in {CONNECT + 1, SEND, INT_MODEM} |->
                CASE k = CONNECT + 1   -> PORT
                  [] k = SEND          -> DATA_LEN
                  [] k = INT_MODEM     -> BUF_SIZE]

PutArgument ==
    /\ \/ pc \in DOMAIN ArgumentA /\ arg_a' = ArgumentA[pc] /\ UNCHANGED arg_b
       \/ pc \in DOMAIN ArgumentB /\ arg_b' = ArgumentB[pc] /\ UNCHANGED arg_a
    /\ Quietly(pc + 1)
    /\ UNCHANGED <<fd, status, error, written, open_fds, peer, unread, sent, destroyed>>
    /\ UNCHANGED programVars

\* An access of the modem with the outcomes of the command or of the read.
Access(outcomes) ==
    /\ Cpu!ExecOrdinary
    /\ pc' = pc + 1
    /\ \E m \in outcomes : Takes(m)

PutCommand ==
    /\ \/ pc = CONNECT + 2 /\ Access(Dev!ConnectOutcomes(Silent))
       \/ pc = SEND + 2 /\ Access(Dev!SendOutcomes(Silent))
    /\ written' = {}
    /\ UNCHANGED seen

PutRecv ==
    /\ pc = RECV
    /\ Access(Dev!ReceiveOutcomes(Silent))
    /\ written' = arg_a .. arg_a + arg_b' - 1
    /\ UNCHANGED seen

\* get8 MDM_STAT, and MDM_S_FAIL
GetStatus ==
    /\ pc \in {CONNECT + 3, SEND + 3, LOOP + 1}
    /\ Access(Dev!Updated(Silent))
    /\ seen' = ("FAIL" \in status')
    /\ UNCHANGED written

\* rjnz, with the jumps behind it
Branch ==
    /\ \/ pc = CONNECT + 4 /\ Quietly(IF seen THEN QUIT ELSE SEND)
       \/ pc = SEND + 4 /\ Quietly(IF seen THEN QUIT ELSE LOOP)
       \/ pc = LOOP + 2 /\ Quietly(IF seen THEN FAILED ELSE LOOP)
    /\ UNCHANGED seen /\ ModemRests

\* get8 MDM_ERR, eq, and rjmp _reset, which jumps whatever eq has found; the
\* message there; get64 MDM_B of the handler.
Straight ==
    /\ pc \in {FAILED, RESET, RECV + 1}
    /\ Quietly(pc + 1)
    /\ UNCHANGED seen /\ ModemRests

\* hlt of the loop; cli, hlt of quit; fini of the handler
Control ==
    /\ \/ pc \in {LOOP, QUIT + 1} /\ Cpu!ExecHlt
       \/ pc = QUIT /\ Cpu!ExecMask(TRUE)
       \/ pc = FINI /\ Cpu!ExecFini
    /\ UNCHANGED seen /\ ModemRests

Program ==
    \/ SetHandler \/ PutArgument \/ PutCommand \/ PutRecv
    \/ GetStatus \/ Branch \/ Straight \/ Control

-----------------------------------------------------------------------------
(* The rest of the machine, its end, and the network.                       *)

TimerFires == Cpu!TimerFires /\ UNCHANGED seen /\ ModemRests

MainLoop ==
    /\ \/ Cpu!ExecSkip
       \/ Cpu!Dispatch
       \/ Cpu!EndBatch
       \/ Cpu!CrtDone
       \/ Cpu!TimerIdle
    /\ UNCHANGED seen /\ ModemRests

\* vm_modem_update(&modem)
ModemUpdate ==
    /\ Cpu!ModemUpdate
    /\ \E m \in Dev!Updated(Silent) : Takes(m)
    /\ UNCHANGED <<written, seen>>

\* vm_modem_destroy(&modem)
Exit ==
    /\ phase = "stopped"
    /\ UNCHANGED <<cpuVars, programVars>>
    /\ Dev!Destroy

Exited == destroyed /\ UNCHANGED vars

Network == UNCHANGED <<cpuVars, programVars>> /\ Dev!Network

Machine == Program \/ MainLoop \/ ModemUpdate \/ TimerFires \/ Exit

Next == Machine \/ Exited \/ Network

Spec == Init /\ [][Next]_vars

\* One thread, and the interval of the timer passes again and again.
FairSpec == Spec /\ WF_vars(Machine) /\ SF_vars(TimerFires)

-----------------------------------------------------------------------------
(* Properties.                                                              *)

Handling == INT_MODEM .. FINI
Main == MAIN .. PRINTER

\* The handler has still to receive.
Receiving == pc \in INT_MODEM .. RECV

\* The handler runs, or is in a frame, exactly while the program is at one of
\* its instructions, and it returns to the main program: the two never use
\* each other's stack (mainloop.c:121-143).
TypeOK ==
    /\ pc \in Main \cup Handling
    /\ interrupt_type = IF pc \in Handling THEN <<INTR_MODEM>> ELSE <<>>
    /\ interrupt_return_addr \in Seq(Main)
    /\ seen \in BOOLEAN /\ noticed \in BOOLEAN

\* The modem of the program is that of Modem, though its request is an entry
\* of the processor's queue, among others, that the pass over the queue moves
\* and cuts off (modem.c:77-87, state.c:97-108, mainloop.c:121-161).
IsModem == Dev!Spec

\* An announcement is not lost between the modem and the program: while INCM is
\* set, and no new interrupt can come because of that, the request waits or the
\* handler is still to receive (modem.c:77-87, 207, mainloop.c:121-161).
AnnouncementKept ==
    "INCM" \in status /\ ~interrupts_disabled =>
        ModemAsked \/ Receiving

\* The queue of the processor has no limit, and needs none here: a device has
\* one request in it at most, and the modem has none while the handler is still
\* to receive what the last one announced (state.c:97-108, modem.c:77-87).
OneRequestEach ==
    /\ \A j, k \in DOMAIN Cpu!Pending :
          Cpu!Pending[j].type = Cpu!Pending[k].type => j = k
    /\ ~(ModemAsked /\ Receiving)

\* The handler never runs for nothing while the connection lives: then there
\* are bytes for it to receive (modem.c:77-87, 188-216).
NeverInVain == Receiving /\ peer \in {"open", "shut"} => unread > 0

\* What the peer sends is read, however the interrupts fall, even when the
\* processor enters the handler halted: the timer wakes it (main.c:58-75).
AllIsRead == unread > 0 ~> (unread = 0 \/ should_die)

-----------------------------------------------------------------------------
(* What the repository says and the code does not do                        *)

\* modem.s:139-140: "Send buffer to server", "Args: [buffer] [size]": what
\* modem_send sends is what it was called with.
SendsItsArguments ==
    pc = SEND + 2 /\ phase = "exec" /\ ~should_die => arg_a = DATA /\ arg_b = DATA_LEN

\* docs/hardware.md:83: "0x04 -- MDM_E_CONNRESET, connection was closed by other
\* end": a program that looks at the error register once that has happened
\* finds it there.
ClosingIsReported ==
    pc = FAILED /\ phase = "exec" /\ noticed => error = "CONNRESET"

\* modem.s:83-84, 223: at _reset the program says "Connection closed by foreign
\* host", which is what the error CONNRESET means.
ResetIsReset == pc = RESET => error = "CONNRESET"

=============================================================================
