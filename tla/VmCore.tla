------------------------------- MODULE VmCore -------------------------------
(***************************************************************************)
(* The processor of ivm: the main loop of src/vm/main.c, one instruction   *)
(* at a time (vm_exec, src/vm/mainloop.c), the interrupt machinery of      *)
(* src/vm/state.c and the instructions that touch it (src/vm/ops.c), with  *)
(* the three devices that ask for interrupts between two batches of        *)
(* instructions: CRT/keyboard, modem, timer.                               *)
(*                                                                         *)
(* The program is arbitrary: each step executes any instruction, so the    *)
(* model covers every ROM, self-modifying ones included.  An address is a  *)
(* number of 1..MaxPc; operands, RAM and the data stack are abstracted.    *)
(* The pass over asked_interrupts that ends vm_exec is modelled one loop   *)
(* iteration per step, with the loop's own variables.                      *)
(***************************************************************************)
EXTENDS Integers, Sequences, SequencesExt

CONSTANTS
    MaxPc,          \* bound: code addresses are 1..MaxPc
    Handlers,       \* the addresses a program stores in the interrupt table
    IntrTypes,      \* the interrupt numbers in use, all below NUM_INTERRUPTS
    Exceptions,     \* the exception types in use
    KeyEvents,      \* (scancode, action, mods) triples of the keyboard
    HaveVideo,      \* ivm -c
    HaveModem,      \* ivm -m
    OPS_PER_UPDATE, \* instructions per turn of the main loop (1000)
    PUSH_LEN,       \* length of push (9); every other instruction has length 1
    MaxAsked        \* bound: length of asked_interrupts a trigger may extend

NUM_INTERRUPTS == 31

VM_INTR_TIMER1    == 0
VM_INTR_KEY       == 7
VM_INTR_MODEM     == 8
VM_INTR_EXCEPTION == 14

VM_EXC_NONE                  == 0
VM_EXC_FINI_NOT_IN_INTERRUPT == 6
VM_EXC_SEGFAULT              == 7
VM_EXC_UNKNOWN_OPCODE        == 8

NoSetup    == "NULL"            \* .setup_state = NULL
TimerReset == "l_timer1_reset"  \* the timer's .setup_state
NoKey      == "no key"          \* keyboard registers of a fresh machine
Setups     == {NoSetup, TimerReset} \cup KeyEvents

ASSUME SizesAssumption ==
    /\ MaxPc \in Nat \ {0}
    /\ OPS_PER_UPDATE \in Nat \ {0}
    /\ PUSH_LEN \in Nat \ {0}
    /\ MaxAsked \in Nat \ {0}
ASSUME HandlersAssumption == Handlers \subseteq 1 .. MaxPc
ASSUME IntrTypesAssumption ==
    /\ IntrTypes \subseteq 0 .. NUM_INTERRUPTS - 1
    /\ {VM_INTR_TIMER1, VM_INTR_EXCEPTION} \subseteq IntrTypes
    /\ HaveVideo => VM_INTR_KEY \in IntrTypes
    /\ HaveModem => VM_INTR_MODEM \in IntrTypes
ASSUME ExceptionsAssumption ==
    /\ Exceptions \subseteq 1 .. 8
    /\ {VM_EXC_FINI_NOT_IN_INTERRUPT, VM_EXC_SEGFAULT, VM_EXC_UNKNOWN_OPCODE} \subseteq Exceptions
ASSUME KeyEventsAssumption == {NoSetup, TimerReset, NoKey} \cap KeyEvents = {}
ASSUME DevicesAssumption == HaveVideo \in BOOLEAN /\ HaveModem \in BOOLEAN

VARIABLES
    \* vm_state
    pc, is_halted, should_die, interrupts_disabled,
    interrupt_vector,       \* 0: no handler
    interrupt_type, interrupt_return_addr,
    asked_interrupts,
    exception_type, exception_pc,
    \* devices
    kb_regs,                \* kb_scancode, kb_action, kb_mods of vm_crt
    is_waiting,             \* static of vm_timer1_loop
    \* control: where the main loop is, and the locals of its loops
    phase, n_ops, scan, num_postponed

frames  == <<interrupt_type, interrupt_return_addr>>
excRegs == <<exception_type, exception_pc>>
locals  == <<scan, num_postponed>>
devices == <<kb_regs, is_waiting>>
vars == <<pc, is_halted, should_die, interrupts_disabled, interrupt_vector, frames,
          asked_interrupts, excRegs, devices, phase, n_ops, locals>>

Code == 1 .. MaxPc

\* vm_interrupt_priority: zero unless the table says otherwise.
PriorityFlat(t) == IF t = VM_INTR_TIMER1 THEN 1 ELSE IF t = VM_INTR_KEY THEN 2 ELSE 0
Priority(t) ==
    CASE t = VM_INTR_TIMER1    -> 1
      [] t = VM_INTR_KEY       -> 2
      [] t = VM_INTR_EXCEPTION -> 32
      [] OTHER                 -> 0

Interrupt(t, s) == [type |-> t, setup |-> s]
\* Each device has a setup function of its own.
Interrupts == {e \in [type : IntrTypes, setup : Setups] :
                  /\ e.setup = TimerReset => e.type = VM_INTR_TIMER1
                  /\ e.setup \in KeyEvents => e.type = VM_INTR_KEY}

InExceptionHandler ==
    interrupt_type # << >> /\ Last(interrupt_type) = VM_INTR_EXCEPTION

Init ==
    /\ pc \in Code
    /\ is_halted = FALSE
    /\ should_die = FALSE
    /\ interrupts_disabled = FALSE
    /\ interrupt_vector = [t \in IntrTypes |-> 0]
    /\ interrupt_type = << >>
    /\ interrupt_return_addr = << >>
    /\ asked_interrupts = << >>
    /\ exception_type = VM_EXC_NONE
    /\ exception_pc = 0
    /\ kb_regs = NoKey
    /\ is_waiting = FALSE
    /\ phase = "exec"
    /\ n_ops = 0
    /\ scan = 1
    /\ num_postponed = 0

-----------------------------------------------------------------------------
(* vm_state_trigger_interrupt *)

Accepts(t) == ~interrupts_disabled \/ t = VM_INTR_EXCEPTION

Asked(q, e) == IF Accepts(e.type) THEN Append(q, e) ELSE q

Room == Len(asked_interrupts) < MaxAsked

WakesNever(t) == is_halted
HaltedAfter(t) == is_halted /\ ~Accepts(t)

Trigger(e) ==
    /\ Room
    /\ asked_interrupts' = Asked(asked_interrupts, e)
    /\ is_halted' = HaltedAfter(e.type)

(* vm_state_raise_exception, on the queue q *)

DiesNever == FALSE
DiesOnFault == InExceptionHandler

RaiseException(type, q) ==
    /\ exception_type' = type
    /\ exception_pc' = pc
    /\ asked_interrupts' = Append(q, Interrupt(VM_INTR_EXCEPTION, NoSetup))

-----------------------------------------------------------------------------
(* vm_exec, first half: one instruction. *)

Executing == phase = "exec" /\ n_ops < OPS_PER_UPDATE /\ ~should_die /\ ~is_halted

BeginPass ==
    /\ phase' = "dispatch"
    /\ scan' = 1
    /\ num_postponed' = 0
    /\ UNCHANGED <<n_ops, devices>>

\* Bound: past the last address of the model comes the first.
After(a, n) == IF a + n \in Code THEN a + n ELSE 1

Advance(n) == pc' = After(pc, n)

\* What a memory access of the instruction may have asked for on the way: a
\* read of the modem's status byte and its RECV command run vm_modem_update.
QueuesAfterAccess ==
    {asked_interrupts} \cup
    IF HaveModem /\ Room THEN {Asked(asked_interrupts, Interrupt(VM_INTR_MODEM, NoSetup))} ELSE {}

\* The early return of vm_exec.
SkipWaiting == UNCHANGED n_ops
SkipCounts == n_ops' = n_ops + 1

ExecSkip ==
    /\ phase = "exec" /\ n_ops < OPS_PER_UPDATE
    /\ should_die \/ is_halted
    /\ SkipCounts
    /\ UNCHANGED <<pc, is_halted, should_die, interrupts_disabled, interrupt_vector, frames,
                   asked_interrupts, excRegs, devices, phase, locals>>

\* Any instruction that neither faults nor touches the interrupt state: jumps
\* and calls included, so control may go to any address.
ExecOrdinary ==
    /\ Executing
    /\ pc' \in Code
    /\ asked_interrupts' \in QueuesAfterAccess
    /\ BeginPass
    /\ UNCHANGED <<is_halted, should_die, interrupts_disabled, interrupt_vector, frames, excRegs>>

\* A put that stores h in the interrupt table.
ExecSetVector(t, h) ==
    /\ Executing
    /\ Advance(1)
    /\ interrupt_vector' = [interrupt_vector EXCEPT ![t] = h]
    /\ BeginPass
    /\ UNCHANGED <<is_halted, should_die, interrupts_disabled, frames, asked_interrupts, excRegs>>

\* An instruction that raises an exception.  The handler function returns
\* false, so pc still moves past the instruction, except for an opcode that
\* has no function.  vm_op_sfbegin ends without a return statement: whether pc
\* moves after its write faulted depends on the build.
ResumeOffsets(type) ==
    CASE type = VM_EXC_UNKNOWN_OPCODE -> {0}
      [] type = VM_EXC_SEGFAULT       -> {0, 1, PUSH_LEN}
      [] OTHER                        -> {1}

QueuesBeforeFault(type) ==
    IF type = VM_EXC_SEGFAULT THEN QueuesAfterAccess ELSE {asked_interrupts}

ExecFault(type) ==
    /\ Executing
    /\ \E n \in ResumeOffsets(type) : Advance(n)
    /\ \E q \in QueuesBeforeFault(type) : RaiseException(type, q)
    /\ should_die' = DiesOnFault
    /\ BeginPass
    /\ UNCHANGED <<is_halted, interrupts_disabled, interrupt_vector, frames>>

\* vm_state_halt
DiesOnHalt == interrupts_disabled

ExecHlt ==
    /\ Executing
    /\ Advance(1)
    /\ is_halted' = TRUE
    /\ should_die' = DiesOnHalt
    /\ BeginPass
    /\ UNCHANGED <<interrupts_disabled, interrupt_vector, frames, asked_interrupts, excRegs>>

\* The fetch itself faults: vm_mem_read leaves 0 in opcode, which is hlt.
ExecFetchFault ==
    /\ Executing
    /\ Advance(1)
    /\ RaiseException(VM_EXC_SEGFAULT, asked_interrupts)
    /\ is_halted' = TRUE
    /\ should_die' = (DiesOnFault \/ DiesOnHalt)
    /\ BeginPass
    /\ UNCHANGED <<interrupts_disabled, interrupt_vector, frames>>

\* vm_op_int with a number in range
ExecInt(t) ==
    /\ Executing
    /\ Advance(1)
    /\ Trigger(Interrupt(t, NoSetup))
    /\ BeginPass
    /\ UNCHANGED <<should_die, interrupts_disabled, interrupt_vector, frames, excRegs>>

\* vm_op_sti, vm_op_cli
ExecMask(disable) ==
    /\ Executing
    /\ Advance(1)
    /\ interrupts_disabled' = disable
    /\ BeginPass
    /\ UNCHANGED <<is_halted, should_die, interrupt_vector, frames, asked_interrupts, excRegs>>

\* vm_op_fini
KeepsExcType(what) == exception_type
ExcTypeAfterFini(what) == IF what = VM_INTR_EXCEPTION THEN VM_EXC_NONE ELSE exception_type

ExecFini ==
    /\ Executing
    /\ interrupt_type # << >>
    /\ pc' = Last(interrupt_return_addr)
    /\ interrupt_type' = Front(interrupt_type)
    /\ interrupt_return_addr' = Front(interrupt_return_addr)
    /\ exception_type' = ExcTypeAfterFini(Last(interrupt_type))
    /\ exception_pc' = IF Last(interrupt_type) = VM_INTR_EXCEPTION THEN 0 ELSE exception_pc
    /\ BeginPass
    /\ UNCHANGED <<is_halted, should_die, interrupts_disabled, interrupt_vector, asked_interrupts>>

ExecFiniOutside ==
    /\ interrupt_type = << >>
    /\ ExecFault(VM_EXC_FINI_NOT_IN_INTERRUPT)

-----------------------------------------------------------------------------
(* vm_exec, second half: the pass over asked_interrupts. *)

Dispatching == phase = "dispatch" /\ scan <= Len(asked_interrupts)

Current == asked_interrupts[scan]

OutranksOrEqual(e) ==
    interrupt_type # << >> => Priority(Last(interrupt_type)) <= Priority(e.type)
Outranks(e) ==
    interrupt_type # << >> => Priority(Last(interrupt_type)) < Priority(e.type)

\* setup_state(state, data), run whether or not there is a handler
RunSetupUnchecked(s) ==
    /\ is_waiting' = (is_waiting /\ s # TimerReset)
    /\ kb_regs' = s
RunSetup(s) ==
    /\ is_waiting' = (is_waiting /\ s # TimerReset)
    /\ kb_regs' = IF s \in KeyEvents THEN s ELSE kb_regs

DispatchEnter ==
    /\ Dispatching
    /\ Outranks(Current)
    /\ interrupt_vector[Current.type] # 0
    /\ interrupt_type' = Append(interrupt_type, Current.type)
    /\ interrupt_return_addr' = Append(interrupt_return_addr, pc)
    /\ RunSetup(Current.setup)
    /\ pc' = interrupt_vector[Current.type]
    /\ scan' = scan + 1
    /\ UNCHANGED <<is_halted, should_die, interrupts_disabled, interrupt_vector,
                   asked_interrupts, excRegs, phase, n_ops, num_postponed>>

\* No handler: the interrupt is consumed, its setup_state still runs.
DispatchIgnore ==
    /\ Dispatching
    /\ Outranks(Current)
    /\ interrupt_vector[Current.type] = 0
    /\ Current.type # VM_INTR_EXCEPTION
    /\ RunSetup(Current.setup)
    /\ scan' = scan + 1
    /\ UNCHANGED <<pc, is_halted, should_die, interrupts_disabled, interrupt_vector, frames,
                   asked_interrupts, excRegs, phase, n_ops, num_postponed>>

\* Postponed entries are moved to the front of the array, in place.
NoCompaction == asked_interrupts
Compacted == [asked_interrupts EXCEPT ![num_postponed + 1] = Current]

DispatchPostpone ==
    /\ Dispatching
    /\ ~Outranks(Current)
    /\ asked_interrupts' = Compacted
    /\ num_postponed' = num_postponed + 1
    /\ scan' = scan + 1
    /\ UNCHANGED <<pc, is_halted, should_die, interrupts_disabled, interrupt_vector, frames,
                   excRegs, devices, phase, n_ops>>

\* ia_resize$ and the end of vm_exec
EndPass ==
    /\ asked_interrupts' = SubSeq(asked_interrupts, 1, num_postponed)
    /\ phase' = "exec"
    /\ n_ops' = n_ops + 1
    /\ scan' = 1
    /\ num_postponed' = 0
    /\ UNCHANGED <<pc, is_halted, interrupts_disabled, interrupt_vector, frames, excRegs, devices>>

\* An exception without a handler: should_die, and the loop breaks.
DispatchCrash ==
    /\ Dispatching
    /\ Outranks(Current)
    /\ interrupt_vector[Current.type] = 0
    /\ Current.type = VM_INTR_EXCEPTION
    /\ should_die' = TRUE
    /\ EndPass

DispatchEnd ==
    /\ phase = "dispatch"
    /\ scan > Len(asked_interrupts)
    /\ EndPass
    /\ UNCHANGED should_die

-----------------------------------------------------------------------------
(* The rest of a turn of the main loop. *)

Untouched == UNCHANGED <<pc, interrupts_disabled, interrupt_vector, frames, excRegs, locals>>

EndBatch ==
    /\ phase = "exec" /\ n_ops = OPS_PER_UPDATE
    /\ phase' = "crt"
    /\ n_ops' = 0
    /\ UNCHANGED <<is_halted, should_die, asked_interrupts, devices>> /\ Untouched

\* vm_crt_loop: a key went down or up.  Its data waits in the interrupt until
\* setup_state copies it to the registers.
KeyToRegs(k) == Trigger(Interrupt(VM_INTR_KEY, k)) /\ kb_regs' = k
KeyToIntr(k) == Trigger(Interrupt(VM_INTR_KEY, k)) /\ UNCHANGED kb_regs

CrtKey(k) ==
    /\ phase = "crt" /\ HaveVideo
    /\ KeyToIntr(k)
    /\ UNCHANGED <<should_die, is_waiting, phase, n_ops>> /\ Untouched

\* The window was closed.
CrtClose ==
    /\ phase = "crt" /\ HaveVideo
    /\ should_die' = TRUE
    /\ phase' = "modem"
    /\ UNCHANGED <<is_halted, asked_interrupts, devices, n_ops>> /\ Untouched

CrtDone ==
    /\ phase = "crt"
    /\ phase' = "modem"
    /\ UNCHANGED <<is_halted, should_die, asked_interrupts, devices, n_ops>> /\ Untouched

\* vm_modem_update, for what it asks of the processor
ModemUpdate ==
    /\ phase = "modem"
    /\ \/ HaveModem /\ Trigger(Interrupt(VM_INTR_MODEM, NoSetup))
       \/ UNCHANGED <<asked_interrupts, is_halted>>
    /\ phase' = "timer"
    /\ UNCHANGED <<should_die, devices, n_ops>> /\ Untouched

\* while (!vm.should_die)
NextTurnAlways == phase' = "exec"
NextTurn == phase' = IF should_die THEN "stopped" ELSE "exec"

TimerAlwaysReady == TRUE
TimerReady == ~is_waiting

\* vm_timer1_loop: the interval has passed ...
TimerFires ==
    /\ phase = "timer"
    /\ TimerReady
    /\ Trigger(Interrupt(VM_INTR_TIMER1, TimerReset))
    /\ is_waiting' = TRUE
    /\ NextTurn
    /\ UNCHANGED <<should_die, kb_regs, n_ops>> /\ Untouched

\* ... or it returns early.
TimerIdle ==
    /\ phase = "timer"
    /\ NextTurn
    /\ UNCHANGED <<is_halted, should_die, asked_interrupts, devices, n_ops>> /\ Untouched

Exec ==
    \/ ExecSkip
    \/ ExecOrdinary
    \/ \E t \in IntrTypes, h \in Handlers \cup {0} : ExecSetVector(t, h)
    \/ \E e \in Exceptions \ {VM_EXC_FINI_NOT_IN_INTERRUPT} : ExecFault(e)
    \/ ExecHlt
    \/ ExecFetchFault
    \/ \E t \in IntrTypes : ExecInt(t)
    \/ \E disable \in BOOLEAN : ExecMask(disable)
    \/ ExecFini
    \/ ExecFiniOutside

Dispatch ==
    \/ DispatchEnter
    \/ DispatchIgnore
    \/ DispatchPostpone
    \/ DispatchCrash
    \/ DispatchEnd

Devices ==
    \/ EndBatch
    \/ \E k \in KeyEvents : CrtKey(k)
    \/ CrtClose
    \/ CrtDone
    \/ ModemUpdate
    \/ TimerFires
    \/ TimerIdle

\* The process has left main.
Stopped == phase = "stopped" /\ UNCHANGED vars

Next == Exec \/ Dispatch \/ Devices \/ Stopped

Spec == Init /\ [][Next]_vars

\* One thread, which the host always schedules again.
FairSpec == Spec /\ WF_vars(Next)

-----------------------------------------------------------------------------
(* Properties *)

TypeOK ==
    /\ pc \in Code
    /\ is_halted \in BOOLEAN /\ should_die \in BOOLEAN /\ interrupts_disabled \in BOOLEAN
    /\ interrupt_vector \in [IntrTypes -> Handlers \cup {0}]
    /\ interrupt_type \in Seq(IntrTypes)
    /\ interrupt_return_addr \in Seq(Code)
    /\ asked_interrupts \in Seq(Interrupts)
    /\ exception_type \in Exceptions \cup {VM_EXC_NONE}
    /\ exception_pc \in Code \cup {0}
    /\ kb_regs \in KeyEvents \cup {NoKey}
    /\ is_waiting \in BOOLEAN
    /\ phase \in {"exec", "dispatch", "crt", "modem", "timer", "stopped"}
    /\ n_ops \in 0 .. OPS_PER_UPDATE
    /\ scan \in 1 .. Len(asked_interrupts) + 1
    /\ num_postponed \in 0 .. scan - 1

\* Between two instructions, or in the device part of a turn.
Settled == phase # "dispatch" /\ ~should_die

Level == IF interrupt_type = << >> THEN -1 ELSE Priority(Last(interrupt_type))

NothingDue ==
    \A k \in DOMAIN asked_interrupts : Priority(asked_interrupts[k].type) <= Level

\* Handlers nest strictly by priority, so no handler is entered again while it
\* runs and the stack never holds more frames than there are priorities
\* (mainloop.c:124-143); each frame has the address its fini returns to.
NestingStrict ==
    /\ Len(interrupt_return_addr) = Len(interrupt_type)
    /\ \A a, b \in DOMAIN interrupt_type :
          a < b => Priority(interrupt_type[a]) < Priority(interrupt_type[b])

\* The pass that ends an instruction leaves nothing in the queue that could
\* interrupt what runs next, and whoever asks a halted machine wakes it: it
\* never sleeps on, nor executes the rest of a batch over, a request that is
\* due (state.c:97-108, mainloop.c:121-161).
NeverSleepsOnDue ==
    Settled /\ (is_halted \/ (phase = "exec" /\ n_ops > 0)) => NothingDue

\* A machine that is halted and lives can be woken: its interrupts are enabled
\* (state.c:124-134).
HaltedIsWakeable == Settled /\ is_halted => ~interrupts_disabled

\* A fault is never left waiting: at the next instruction either its handler
\* is the innermost one or the machine dies (state.c:163-166).
FaultsAreDelivered ==
    Settled /\ (\E k \in DOMAIN asked_interrupts :
                    asked_interrupts[k].type = VM_INTR_EXCEPTION)
        => InExceptionHandler

\* The exception registers describe the fault whose handler runs and nothing
\* else: they are set only under an EXCEPTION frame, and the place to resume
\* the faulting program is in one of the frames.  A fault of the handler itself
\* overwrites them, so the machine has to die of it (ops.c:292-297, state.c:151-168).
ExceptionRegsMatchFrame ==
    Settled /\ exception_type # VM_EXC_NONE =>
        /\ InExceptionHandler
        /\ \E k \in DOMAIN interrupt_return_addr :
              \E n \in ResumeOffsets(exception_type) :
                  interrupt_return_addr[k] = After(exception_pc, n)

\* The flag of the timer and the queue agree: one timer request of the device
\* is in flight at most, and only while the device waits for it (main.c:65-74).
OneTimerInFlight ==
    phase # "dispatch" =>
        \A k, l \in {j \in DOMAIN asked_interrupts : asked_interrupts[j].setup = TimerReset} :
            k = l /\ is_waiting

\* The keyboard registers do not change under a key handler, whatever keys are
\* pressed meanwhile: they still describe the key it was entered for
\* (crt.c:105-111, mainloop.c:146-151).
KeyRegsStable ==
    [][{VM_INTR_KEY} \subseteq ToSet(interrupt_type) \cap ToSet(interrupt_type')
        => kb_regs' = kb_regs]_vars

\* The processor implements PriorityInterrupts: in the middle of a pass, what
\* waits is the compacted prefix of the array followed by the part not yet
\* scanned.
Pending ==
    SubSeq(asked_interrupts, 1, num_postponed)
        \o SubSeq(asked_interrupts, scan, Len(asked_interrupts))

Abstract == INSTANCE PriorityInterrupts WITH
    Requests <- Interrupts, pending <- Pending, active <- interrupt_type, dead <- should_die

ImplementsPriorityInterrupts == Abstract!Spec

\* Whatever the program does, a batch ends and the devices get their turn,
\* again and again, until the machine stops (main.c:151-159).
DevicesKeepTheirTurn == []<>(phase \in {"timer", "stopped"})

\* A machine that has decided to die leaves the main loop.
DeathStops == should_die ~> (phase = "stopped")

-----------------------------------------------------------------------------
(* What the repository says and the code does not do *)

\* docs/interrupts.md:10: the timer "triggers at interval at 1/30th of a
\* second".  A program that keeps running outside every handler with interrupts
\* enabled would keep seeing it, so the device would keep ceasing to wait.
TimerKeepsTriggering ==
    []<>(phase = "exec" /\ interrupt_type = << >> /\ ~interrupts_disabled /\ ~is_halted)
        => []<>(~is_waiting)

\* state.h:144-145: is_halted is "if the processor was halted (interrupts will
\* un-halt it)": a processor that enters the handler of a device, with no fault
\* to handle, runs it.
InterruptsUnhalt ==
    [][ (/\ Len(interrupt_type') > Len(interrupt_type)
         /\ ~should_die /\ exception_type = VM_EXC_NONE) => ~is_halted' ]_vars

\* state.c:98: "Exception is non-maskable": with a handler set and no exception
\* being handled, a fault runs the handler whether or not interrupts are
\* disabled, so it does not kill the machine.
ExceptionsAreNonMaskable ==
    [][/\ phase = "exec" /\ phase' = "dispatch"
       /\ exception_type' # VM_EXC_NONE /\ ~InExceptionHandler
       /\ interrupt_vector[VM_INTR_EXCEPTION] # 0
       => ~should_die']_vars

=============================================================================
