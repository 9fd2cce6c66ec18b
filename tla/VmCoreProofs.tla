---------------------------- MODULE VmCoreProofs ----------------------------
(***************************************************************************)
(* Proofs about VmCore, for every size of memory, set of interrupts and    *)
(* keys, batch length and queue bound.  The invariants are proved in       *)
(* layers: types, the stack of handlers, the queue.                        *)
(***************************************************************************)
EXTENDS VmCore, SequenceTheorems, TLAPS

-----------------------------------------------------------------------------
(* Sequences and priorities *)

\* The first n elements of a sequence are those of the sequence (ia_resize$).
LEMMA Prefix ==
    ASSUME NEW S, NEW s \in Seq(S), NEW n \in 0 .. Len(s)
    PROVE  /\ SubSeq(s, 1, n) \in Seq(S)
           /\ Len(SubSeq(s, 1, n)) = n
           /\ \A k \in 1 .. n : SubSeq(s, 1, n)[k] = s[k]
<1>1. \A k \in 1 .. n : s[k] \in S
  OBVIOUS
<1> QED
  BY <1>1, SubSeqProperties

\* Removing the last element of a sequence keeps the others (ia_pop$).
LEMMA FrontLast ==
    ASSUME NEW S, NEW s \in Seq(S), s # << >>
    PROVE  /\ Front(s) \in Seq(S)
           /\ Len(Front(s)) = Len(s) - 1
           /\ Len(s) \in Nat \ {0}
           /\ \A k \in 1 .. Len(s) - 1 : Front(s)[k] = s[k]
           /\ Last(s) = s[Len(s)]
           /\ Last(s) \in S
<1>1. Len(s) \in Nat \ {0}
  BY EmptySeq
<1>2. Len(s) - 1 \in 0 .. Len(s)
  BY <1>1
<1>3. /\ Front(s) \in Seq(S)
      /\ Len(Front(s)) = Len(s) - 1
      /\ \A k \in 1 .. Len(s) - 1 : Front(s)[k] = s[k]
  BY <1>2, Prefix DEF Front
<1>4. Last(s) = s[Len(s)] /\ Last(s) \in S
  BY <1>1 DEF Last
<1> QED
  BY <1>1, <1>3, <1>4

\* Priorities lie between 0 and the one of exceptions, which nothing shares
\* (state.h:50-61).
LEMMA Priorities ==
    /\ \A t \in IntrTypes : Priority(t) \in 0 .. 32
    /\ \A t \in IntrTypes : Priority(t) = 32 <=> t = VM_INTR_EXCEPTION
    /\ Priority(VM_INTR_EXCEPTION) = 32
  BY DEF Priority, VM_INTR_TIMER1, VM_INTR_KEY, VM_INTR_EXCEPTION

LEMMA PriorityInt == \A t \in IntrTypes : Priority(t) \in Int /\ Priority(t) >= 0
  BY DEF Priority, VM_INTR_TIMER1, VM_INTR_KEY, VM_INTR_EXCEPTION

-----------------------------------------------------------------------------
(* Layer 1: types.  fini needs its two stacks to be of one height, and the  *)
(* end of a pass needs the batch not to be over.                            *)

TypeInv ==
    /\ TypeOK
    /\ Len(interrupt_return_addr) = Len(interrupt_type)
    /\ phase = "dispatch" => n_ops < OPS_PER_UPDATE

LEMMA AfterType == \A a \in Code, n \in Nat : After(a, n) \in Code
  BY SizesAssumption DEF After, Code

LEMMA AskedType ==
    ASSUME NEW q \in Seq(Interrupts), NEW e \in Interrupts
    PROVE  Asked(q, e) \in Seq(Interrupts)
  BY AppendProperties DEF Asked

LEMMA EntryType ==
    /\ \A t \in IntrTypes : Interrupt(t, NoSetup) \in Interrupts
    /\ Interrupt(VM_INTR_TIMER1, TimerReset) \in Interrupts
    /\ VM_INTR_EXCEPTION \in IntrTypes
    /\ HaveVideo => \A k \in KeyEvents : Interrupt(VM_INTR_KEY, k) \in Interrupts
    /\ HaveModem => Interrupt(VM_INTR_MODEM, NoSetup) \in Interrupts
<1>1. /\ NoSetup \in Setups /\ TimerReset \in Setups /\ KeyEvents \subseteq Setups
      /\ NoSetup \notin KeyEvents /\ TimerReset \notin KeyEvents /\ NoSetup # TimerReset
  BY KeyEventsAssumption DEF Setups, NoSetup, TimerReset
<1>2. /\ {VM_INTR_TIMER1, VM_INTR_EXCEPTION} \subseteq IntrTypes
      /\ HaveVideo => VM_INTR_KEY \in IntrTypes
      /\ HaveModem => VM_INTR_MODEM \in IntrTypes
  BY IntrTypesAssumption
<1> QED
  BY <1>1, <1>2 DEF Interrupt, Interrupts

LEMMA InitType == Init => TypeInv
<1> SUFFICES ASSUME Init PROVE TypeInv
  OBVIOUS
<1>1. << >> \in Seq(IntrTypes) /\ << >> \in Seq(Code) /\ << >> \in Seq(Interrupts)
  OBVIOUS
<1>2. Len(asked_interrupts) = 0 /\ Len(interrupt_type) = 0 /\ Len(interrupt_return_addr) = 0
  BY EmptySeq DEF Init
<1>3. scan \in 1 .. Len(asked_interrupts) + 1 /\ num_postponed \in 0 .. scan - 1
  BY <1>2 DEF Init
<1>4. interrupt_vector \in [IntrTypes -> Handlers \cup {0}]
  BY DEF Init
<1>5. n_ops \in 0 .. OPS_PER_UPDATE
  BY SizesAssumption DEF Init
<1>6. /\ interrupt_type \in Seq(IntrTypes)
      /\ interrupt_return_addr \in Seq(Code)
      /\ asked_interrupts \in Seq(Interrupts)
  BY <1>1 DEF Init
<1> QED
  BY <1>2, <1>3, <1>4, <1>5, <1>6 DEF Init, TypeInv, TypeOK

LEMMA ExecType == TypeInv /\ Exec => TypeInv'
<1> SUFFICES ASSUME TypeInv, Exec PROVE TypeInv'
  OBVIOUS
<1> USE SizesAssumption, IntrTypesAssumption, ExceptionsAssumption DEF TypeInv, TypeOK
<1>e. Interrupt(VM_INTR_EXCEPTION, NoSetup) \in Interrupts
  BY EntryType
<1>q. \A q \in QueuesAfterAccess : q \in Seq(Interrupts)
  BY EntryType, AskedType DEF QueuesAfterAccess
<1>l. \A q \in Seq(Interrupts) : Len(q) \in Nat
  OBVIOUS
<1>p. \A n \in Nat : Advance(n) => pc' \in Code
  BY AfterType DEF Advance
<1>r. \A q \in Seq(Interrupts), e \in Exceptions :
        RaiseException(e, q) => /\ asked_interrupts' \in Seq(Interrupts)
                                /\ exception_type' \in Exceptions
                                /\ exception_pc' \in Code
  BY <1>e, AppendProperties DEF RaiseException
<1>1. CASE ExecSkip
  BY <1>1 DEF ExecSkip, SkipCounts, frames, excRegs, devices, locals
<1>2. CASE ExecOrdinary
  BY <1>2, <1>q, <1>l DEF ExecOrdinary, Executing, BeginPass, frames, excRegs, devices
<1>3. ASSUME NEW t \in IntrTypes, NEW h \in Handlers \cup {0}, ExecSetVector(t, h) PROVE TypeInv'
  BY <1>3, <1>p, <1>l DEF ExecSetVector, Executing, BeginPass, frames, excRegs, devices
<1>4. ASSUME NEW e \in Exceptions, ExecFault(e) PROVE TypeInv'
  <2>1. ResumeOffsets(e) \subseteq Nat
    BY DEF ResumeOffsets
  <2>2. QueuesBeforeFault(e) \subseteq Seq(Interrupts)
    BY <1>q DEF QueuesBeforeFault
  <2>3. PICK q \in QueuesBeforeFault(e) : RaiseException(e, q)
    BY <1>4 DEF ExecFault
  <2> QED
    BY <1>4, <1>p, <1>r, <1>l, <2>1, <2>2, <2>3
    DEF ExecFault, Executing, BeginPass, frames, devices, DiesOnFault, InExceptionHandler
<1>5. CASE ExecHlt
  BY <1>5, <1>p, <1>l DEF ExecHlt, Executing, BeginPass, DiesOnHalt, frames, excRegs, devices
<1>6. CASE ExecFetchFault
  <2>1. should_die' \in BOOLEAN
    BY <1>6 DEF ExecFetchFault
  <2>2. VM_EXC_SEGFAULT \in Exceptions
    OBVIOUS
  <2> QED
    BY <1>6, <1>p, <1>r, <1>l, <2>1, <2>2 DEF ExecFetchFault, Executing, BeginPass, frames, devices
<1>7. ASSUME NEW t \in IntrTypes, ExecInt(t) PROVE TypeInv'
  <2>1. is_halted' \in BOOLEAN
    BY <1>7 DEF ExecInt, Trigger, HaltedAfter
  <2>2. asked_interrupts' \in Seq(Interrupts)
    BY <1>7, EntryType, AskedType DEF ExecInt, Trigger
  <2> QED
    BY <1>7, <1>p, <1>l, <2>1, <2>2
    DEF ExecInt, Executing, BeginPass, frames, excRegs, devices
<1>8. ASSUME NEW d \in BOOLEAN, ExecMask(d) PROVE TypeInv'
  BY <1>8, <1>p, <1>l DEF ExecMask, Executing, BeginPass, frames, excRegs, devices
<1>9. CASE ExecFini
  <2>1. interrupt_type # << >> /\ interrupt_return_addr # << >>
    BY <1>9, EmptySeq DEF ExecFini
  <2>2. interrupt_type' \in Seq(IntrTypes) /\ Len(interrupt_type') = Len(interrupt_type) - 1
    BY <1>9, <2>1, FrontLast DEF ExecFini
  <2>3. /\ interrupt_return_addr' \in Seq(Code)
        /\ Len(interrupt_return_addr') = Len(interrupt_return_addr) - 1
        /\ pc' \in Code
    BY <1>9, <2>1, FrontLast DEF ExecFini
  <2>4. exception_type' \in Exceptions \cup {VM_EXC_NONE} /\ exception_pc' \in Code \cup {0}
    BY <1>9 DEF ExecFini, ExcTypeAfterFini
  <2> QED
    BY <1>9, <1>l, <2>2, <2>3, <2>4 DEF ExecFini, Executing, BeginPass, devices
<1>10. CASE ExecFiniOutside
  BY <1>10, <1>4 DEF ExecFiniOutside
<1> QED
  BY <1>1, <1>2, <1>3, <1>4, <1>5, <1>6, <1>7, <1>8, <1>9, <1>10 DEF Exec

LEMMA CurrentFacts ==
    ASSUME TypeInv, Dispatching
    PROVE  /\ scan \in 1 .. Len(asked_interrupts)
           /\ Current \in Interrupts
           /\ Current.type \in IntrTypes
           /\ Current.setup \in Setups
<1>1. scan \in 1 .. Len(asked_interrupts)
  BY DEF TypeInv, TypeOK, Dispatching
<1>2. Current \in Interrupts
  BY <1>1 DEF TypeInv, TypeOK, Current
<1> QED
  BY <1>1, <1>2 DEF Interrupts

LEMMA EndPassType == TypeInv /\ phase = "dispatch" /\ EndPass /\ should_die' \in BOOLEAN => TypeInv'
<1> SUFFICES ASSUME TypeInv, phase = "dispatch", EndPass, should_die' \in BOOLEAN PROVE TypeInv'
  OBVIOUS
<1> USE SizesAssumption DEF TypeInv, TypeOK
<1>1. num_postponed \in 0 .. Len(asked_interrupts)
  OBVIOUS
<1>2. asked_interrupts' \in Seq(Interrupts)
  BY <1>1, Prefix DEF EndPass
<1> QED
  BY <1>2 DEF EndPass, frames, excRegs, devices

LEMMA DispatchType == TypeInv /\ Dispatch => TypeInv'
<1> SUFFICES ASSUME TypeInv, Dispatch PROVE TypeInv'
  OBVIOUS
<1> USE HandlersAssumption DEF TypeInv, TypeOK
<1>r. ASSUME Dispatching, RunSetup(Current.setup)
      PROVE  kb_regs' \in KeyEvents \cup {NoKey} /\ is_waiting' \in BOOLEAN
  BY <1>r DEF RunSetup
<1>1. CASE DispatchEnter
  <2>1. Dispatching /\ RunSetup(Current.setup)
    BY <1>1 DEF DispatchEnter
  <2>2. interrupt_vector[Current.type] \in Code
    BY <1>1, <2>1, CurrentFacts DEF DispatchEnter, Code
  <2>3. /\ interrupt_type' \in Seq(IntrTypes)
        /\ Len(interrupt_type') = Len(interrupt_type) + 1
    BY <1>1, <2>1, CurrentFacts, AppendProperties DEF DispatchEnter
  <2>4. /\ interrupt_return_addr' \in Seq(Code)
        /\ Len(interrupt_return_addr') = Len(interrupt_return_addr) + 1
    BY <1>1, AppendProperties DEF DispatchEnter
  <2> QED
    BY <1>1, <1>r, <2>1, <2>2, <2>3, <2>4, CurrentFacts DEF DispatchEnter, excRegs, Dispatching
<1>2. CASE DispatchIgnore
  BY <1>2, <1>r, CurrentFacts DEF DispatchIgnore, frames, excRegs, Dispatching
<1>3. CASE DispatchPostpone
  <2>1. Dispatching
    BY <1>3 DEF DispatchPostpone
  <2>2. scan \in 1 .. Len(asked_interrupts) /\ Current \in Interrupts
    BY <2>1, CurrentFacts
  <2>3. num_postponed + 1 \in 1 .. Len(asked_interrupts)
    BY <2>2
  <2>4. asked_interrupts' \in Seq(Interrupts) /\ Len(asked_interrupts') = Len(asked_interrupts)
    BY <1>3, <2>2, <2>3, ExceptSeq DEF DispatchPostpone, Compacted
  <2> QED
    BY <1>3, <2>2, <2>4 DEF DispatchPostpone, frames, excRegs, devices, Dispatching
<1>4. CASE DispatchCrash
  BY <1>4, EndPassType DEF DispatchCrash, Dispatching
<1>5. CASE DispatchEnd
  BY <1>5, EndPassType DEF DispatchEnd
<1> QED
  BY <1>1, <1>2, <1>3, <1>4, <1>5 DEF Dispatch

LEMMA TriggerType ==
    ASSUME TypeInv, NEW e \in Interrupts, Trigger(e)
    PROVE  /\ asked_interrupts' \in Seq(Interrupts)
           /\ Len(asked_interrupts') >= Len(asked_interrupts)
           /\ is_halted' \in BOOLEAN
<1>1. asked_interrupts \in Seq(Interrupts) /\ asked_interrupts' = Asked(asked_interrupts, e)
  BY DEF TypeInv, TypeOK, Trigger
<1>2. /\ asked_interrupts' \in Seq(Interrupts)
      /\ Len(asked_interrupts') >= Len(asked_interrupts)
  BY <1>1, AppendProperties DEF Asked
<1> QED
  BY <1>2 DEF Trigger, HaltedAfter

LEMMA DevicesType == TypeInv /\ Devices => TypeInv'
<1> SUFFICES ASSUME TypeInv, Devices PROVE TypeInv'
  OBVIOUS
<1> USE SizesAssumption, IntrTypesAssumption DEF TypeInv, TypeOK, Untouched, frames, excRegs, locals, devices
<1>1. CASE EndBatch
  BY <1>1 DEF EndBatch
<1>2. ASSUME NEW k \in KeyEvents, CrtKey(k) PROVE TypeInv'
  <2>1. Trigger(Interrupt(VM_INTR_KEY, k)) /\ HaveVideo
    BY <1>2 DEF CrtKey, KeyToIntr
  <2>2. /\ asked_interrupts' \in Seq(Interrupts)
        /\ Len(asked_interrupts') >= Len(asked_interrupts)
        /\ is_halted' \in BOOLEAN
    BY <2>1, EntryType, TriggerType
  <2> QED
    BY <1>2, <2>2 DEF CrtKey, KeyToIntr
<1>3. CASE CrtClose
  BY <1>3 DEF CrtClose
<1>4. CASE CrtDone
  BY <1>4 DEF CrtDone
<1>5. CASE ModemUpdate
  <2>1. CASE HaveModem /\ Trigger(Interrupt(VM_INTR_MODEM, NoSetup))
    <3>1. /\ asked_interrupts' \in Seq(Interrupts)
          /\ Len(asked_interrupts') >= Len(asked_interrupts)
          /\ is_halted' \in BOOLEAN
      BY <2>1, EntryType, TriggerType
    <3> QED
      BY <1>5, <3>1 DEF ModemUpdate
  <2>2. CASE UNCHANGED <<asked_interrupts, is_halted>>
    BY <1>5, <2>2 DEF ModemUpdate
  <2> QED
    BY <1>5, <2>1, <2>2 DEF ModemUpdate
<1>6. CASE TimerFires
  <2>1. Trigger(Interrupt(VM_INTR_TIMER1, TimerReset))
    BY <1>6 DEF TimerFires
  <2>2. /\ asked_interrupts' \in Seq(Interrupts)
        /\ Len(asked_interrupts') >= Len(asked_interrupts)
        /\ is_halted' \in BOOLEAN
    BY <2>1, EntryType, TriggerType
  <2> QED
    BY <1>6, <2>2 DEF TimerFires, NextTurn
<1>7. CASE TimerIdle
  BY <1>7 DEF TimerIdle, NextTurn
<1> QED
  BY <1>1, <1>2, <1>3, <1>4, <1>5, <1>6, <1>7 DEF Devices

LEMMA UnchangedType == TypeInv /\ UNCHANGED vars => TypeInv'
  BY DEF TypeInv, TypeOK, vars, frames, excRegs, devices, locals

LEMMA TypeCorrectStep == TypeInv /\ [Next]_vars => TypeInv'
  BY ExecType, DispatchType, DevicesType, UnchangedType DEF Next, Stopped

\* Only fini and the entry of a handler move the two stacks.
LEMMA FramesMove ==
    [Next]_vars => ExecFini \/ DispatchEnter \/ UNCHANGED frames
<1> SUFFICES ASSUME [Next]_vars, ~ExecFini, ~DispatchEnter PROVE UNCHANGED frames
  OBVIOUS
<1>1. CASE Exec
  BY <1>1 DEF Exec, ExecSkip, ExecOrdinary, ExecSetVector, ExecFault, ExecHlt, ExecFetchFault,
     ExecInt, ExecMask, ExecFiniOutside
<1>2. CASE Dispatch
  BY <1>2 DEF Dispatch, DispatchIgnore, DispatchPostpone, DispatchCrash, DispatchEnd, EndPass
<1>3. CASE Devices
  BY <1>3 DEF Devices, EndBatch, CrtKey, CrtClose, CrtDone, ModemUpdate, TimerFires, TimerIdle,
     Untouched
<1> QED
  BY <1>1, <1>2, <1>3 DEF Next, Stopped, vars

\* Every variable keeps the type of its C declaration; in particular fini never
\* pops an empty stack and a pass never writes past the array it compacts.
THEOREM TypeCorrect == Spec => []TypeInv
  BY InitType, TypeCorrectStep, PTL DEF Spec

\* The type invariant the runs check, a part of the inductive one.
THEOREM TypeOKHolds == Spec => []TypeOK
  BY TypeCorrect, PTL DEF TypeInv

-----------------------------------------------------------------------------
(* Layer 2: the stack of handlers. *)

LEMMA NestingStep == TypeInv /\ NestingStrict /\ [Next]_vars => NestingStrict'
<1> SUFFICES ASSUME TypeInv, NestingStrict, [Next]_vars PROVE NestingStrict'
  OBVIOUS
<1>t. interrupt_type \in Seq(IntrTypes) /\ Len(interrupt_return_addr) = Len(interrupt_type)
  BY DEF TypeInv, TypeOK
<1>n. Len(interrupt_return_addr') = Len(interrupt_type')
  BY TypeCorrectStep DEF TypeInv
<1>1. CASE ExecFini
  <2>1. /\ interrupt_type' = Front(interrupt_type)
        /\ interrupt_type # << >>
    BY <1>1 DEF ExecFini
  <2>2. /\ interrupt_type' \in Seq(IntrTypes)
        /\ Len(interrupt_type') = Len(interrupt_type) - 1
        /\ \A k \in 1 .. Len(interrupt_type) - 1 : interrupt_type'[k] = interrupt_type[k]
    BY <1>t, <2>1, FrontLast
  <2> QED
    BY <1>t, <1>n, <2>2 DEF NestingStrict
<1>2. CASE DispatchEnter
  <2>1. /\ Current.type \in IntrTypes
        /\ interrupt_type' = Append(interrupt_type, Current.type)
        /\ Outranks(Current)
    BY <1>2, CurrentFacts DEF DispatchEnter
  <2> DEFINE n == Len(interrupt_type)
  <2>2. /\ interrupt_type' \in Seq(IntrTypes)
        /\ Len(interrupt_type') = n + 1
        /\ \A k \in 1 .. n : interrupt_type'[k] = interrupt_type[k]
        /\ interrupt_type'[n + 1] = Current.type
    BY <1>t, <2>1, AppendProperties
  <2>3. \A k \in 1 .. n : Priority(interrupt_type[k]) < Priority(Current.type)
    <3> SUFFICES ASSUME NEW k \in 1 .. n
                 PROVE  Priority(interrupt_type[k]) < Priority(Current.type)
      OBVIOUS
    <3>0. n \in Nat /\ n >= 1
      BY <1>t
    <3>1. interrupt_type # << >> /\ n \in Nat /\ n \in DOMAIN interrupt_type
      BY <1>t, <3>0, EmptySeq, LenProperties
    <3>2. Priority(interrupt_type[n]) < Priority(Current.type)
      BY <2>1, <3>1 DEF Outranks, Last
    <3>3. k = n \/ Priority(interrupt_type[k]) < Priority(interrupt_type[n])
      BY <1>t, <3>1 DEF NestingStrict
    <3>4. /\ Priority(interrupt_type[k]) \in Int
          /\ Priority(interrupt_type[n]) \in Int
          /\ Priority(Current.type) \in Int
      BY <1>t, <2>1, <3>1, PriorityInt
    <3> QED
      BY <3>2, <3>3, <3>4
  <2> QED
    BY <1>t, <1>n, <2>2, <2>3 DEF NestingStrict
<1>3. CASE UNCHANGED frames
  BY <1>3 DEF NestingStrict, frames
<1> QED
  BY <1>1, <1>2, <1>3, FramesMove

\* Handlers nest strictly by priority, for every set of interrupt numbers, of
\* which several may share a priority: no handler is entered again while it
\* runs, and nothing enters above EXCEPTION.
THEOREM HandlersNest == Spec => []NestingStrict
<1>1. Init => NestingStrict
  BY EmptySeq DEF Init, NestingStrict
<1> QED
  BY <1>1, NestingStep, TypeCorrect, PTL DEF Spec

-----------------------------------------------------------------------------
(* Layer 3: the queue and the halted processor. *)

\* What the pass has left behind cannot interrupt; the device part of a turn
\* starts a new batch; nothing of type EXCEPTION waits unless one is handled.
QueueInv ==
    /\ phase = "dispatch" =>
          \A k \in 1 .. num_postponed : Priority(asked_interrupts[k].type) <= Level
    /\ phase \in {"crt", "modem", "timer"} => n_ops = 0
    /\ NeverSleepsOnDue
    /\ Settled => \A k \in DOMAIN asked_interrupts :
          asked_interrupts[k].type = VM_INTR_EXCEPTION => Priority(VM_INTR_EXCEPTION) <= Level

LEMMA QueueInit == Init => QueueInv
<1> SUFFICES ASSUME Init PROVE QueueInv
  OBVIOUS
<1>1. asked_interrupts = << >> /\ ~is_halted /\ n_ops = 0 /\ phase = "exec"
  BY DEF Init
<1>2. DOMAIN asked_interrupts = {}
  BY <1>1, EmptySeq
<1> QED
  BY <1>1, <1>2 DEF QueueInv, NeverSleepsOnDue

\* An instruction leads to its pass; a skipped one changes nothing.
LEMMA QueueExec == TypeInv /\ QueueInv /\ Exec => QueueInv'
<1> SUFFICES ASSUME TypeInv, QueueInv, Exec PROVE QueueInv'
  OBVIOUS
<1>1. CASE phase' = "dispatch" /\ num_postponed' = 0
  BY <1>1 DEF QueueInv, NeverSleepsOnDue, Settled
<1>2. CASE ExecSkip
  <2>1. /\ UNCHANGED <<frames, asked_interrupts, should_die, is_halted, phase>>
        /\ phase = "exec" /\ (should_die \/ is_halted)
    BY <1>2 DEF ExecSkip
  <2>2. Level' = Level
    BY <2>1 DEF Level, frames
  <2> QED
    BY <2>1, <2>2 DEF QueueInv, NeverSleepsOnDue, NothingDue, Settled
<1> QED
  BY <1>1, <1>2 DEF Exec, ExecOrdinary, ExecSetVector, ExecFault, ExecHlt, ExecFetchFault,
     ExecInt, ExecMask, ExecFini, ExecFiniOutside, BeginPass

LEMMA LevelFacts ==
    ASSUME TypeInv
    PROVE  /\ Level \in Int
           /\ interrupt_type = << >> => Level = -1
           /\ interrupt_type # << >> => /\ Last(interrupt_type) \in IntrTypes
                                       /\ Level = Priority(Last(interrupt_type))
<1>1. interrupt_type # << >> => Last(interrupt_type) \in IntrTypes
  BY FrontLast DEF TypeInv, TypeOK
<1> QED
  BY <1>1, PriorityInt DEF Level

\* The end of a pass keeps exactly what the pass could not deliver.
LEMMA QueueEndPass ==
    ASSUME TypeInv, QueueInv, phase = "dispatch", EndPass
    PROVE  QueueInv'
<1>1. /\ asked_interrupts' \in Seq(Interrupts)
      /\ Len(asked_interrupts') = num_postponed
      /\ \A k \in 1 .. num_postponed : asked_interrupts'[k] = asked_interrupts[k]
  BY Prefix DEF TypeInv, TypeOK, EndPass
<1>2. Level' = Level
  BY DEF EndPass, Level, frames
<1>3. \A k \in DOMAIN asked_interrupts' : Priority(asked_interrupts'[k].type) <= Level'
  BY <1>1, <1>2 DEF QueueInv
<1>4. phase' = "exec"
  BY DEF EndPass
<1> QED
  BY <1>3, <1>4 DEF QueueInv, NeverSleepsOnDue, NothingDue, Settled

LEMMA QueueDispatch == TypeInv /\ QueueInv /\ Dispatch => QueueInv'
<1> SUFFICES ASSUME TypeInv, QueueInv, Dispatch PROVE QueueInv'
  OBVIOUS
<1>q. /\ asked_interrupts \in Seq(Interrupts)
      /\ num_postponed \in 0 .. scan - 1
      /\ scan \in 1 .. Len(asked_interrupts) + 1
  BY DEF TypeInv, TypeOK
<1>1. CASE DispatchEnter
  <2>1. /\ phase' = "dispatch" /\ num_postponed' = num_postponed
        /\ asked_interrupts' = asked_interrupts
        /\ interrupt_type' = Append(interrupt_type, Current.type)
        /\ phase = "dispatch"
    BY <1>1 DEF DispatchEnter, Dispatching
  <2>2. Current.type \in IntrTypes /\ Outranks(Current)
    BY <1>1, CurrentFacts DEF DispatchEnter
  <2>3. interrupt_type \in Seq(IntrTypes)
    BY DEF TypeInv, TypeOK
  <2>4. Level' = Priority(Current.type)
    BY <2>1, <2>2, <2>3, AppendProperties DEF Level, Last
  <2>5. Level < Priority(Current.type)
    BY <2>2, PriorityInt, LevelFacts DEF Outranks
  <2>6. \A k \in 1 .. num_postponed : Priority(asked_interrupts[k].type) \in Int
    <3> SUFFICES ASSUME NEW k \in 1 .. num_postponed
                 PROVE  Priority(asked_interrupts[k].type) \in Int
      OBVIOUS
    <3>1. k \in 1 .. Len(asked_interrupts)
      BY <1>q
    <3>2. asked_interrupts[k] \in Interrupts
      BY <1>q, <3>1
    <3>3. asked_interrupts[k].type \in IntrTypes
      BY <3>2 DEF Interrupts
    <3> QED
      BY <3>3, PriorityInt
  <2>7. \A k \in 1 .. num_postponed' : Priority(asked_interrupts'[k].type) <= Level'
    <3>1. Level \in Int /\ Priority(Current.type) \in Int
      BY <2>2, LevelFacts, PriorityInt
    <3> QED
      BY <2>1, <2>4, <2>5, <2>6, <3>1 DEF QueueInv
  <2> QED
    BY <2>1, <2>7 DEF QueueInv, NeverSleepsOnDue, Settled
<1>2. CASE DispatchIgnore
  <2>1. /\ UNCHANGED <<phase, num_postponed, asked_interrupts, interrupt_type>>
        /\ phase = "dispatch"
    BY <1>2 DEF DispatchIgnore, Dispatching, frames
  <2> QED
    BY <2>1 DEF QueueInv, NeverSleepsOnDue, Settled, Level
<1>3. CASE DispatchPostpone
  <2>1. /\ phase = "dispatch" /\ phase' = "dispatch"
        /\ num_postponed' = num_postponed + 1
        /\ asked_interrupts' = Compacted
        /\ interrupt_type' = interrupt_type
        /\ ~Outranks(Current)
        /\ Dispatching
    BY <1>3 DEF DispatchPostpone, Dispatching, frames
  <2>2. Current \in Interrupts /\ Current.type \in IntrTypes
    BY <2>1, CurrentFacts
  <2>3. num_postponed + 1 \in 1 .. Len(asked_interrupts)
    BY <1>q, <2>1 DEF Dispatching
  <2>4. \A k \in 1 .. Len(asked_interrupts) :
          asked_interrupts'[k] = IF k = num_postponed + 1 THEN Current ELSE asked_interrupts[k]
    BY <1>q, <2>1, <2>2, <2>3, ExceptSeq DEF Compacted
  <2>5. interrupt_type # << >> /\ Level = Priority(Last(interrupt_type))
    BY <2>1 DEF Outranks, Level
  <2>6. Priority(Current.type) <= Level
    BY <2>1, <2>2, <2>5, LevelFacts, PriorityInt DEF Outranks
  <2>7. Level' = Level
    BY <2>1 DEF Level
  <2>8. \A k \in 1 .. num_postponed' : Priority(asked_interrupts'[k].type) <= Level'
    <3> SUFFICES ASSUME NEW k \in 1 .. num_postponed + 1
                 PROVE  Priority(asked_interrupts'[k].type) <= Level
      BY <2>1, <2>7
    <3>1. CASE k = num_postponed + 1
      BY <2>3, <2>4, <2>6, <3>1
    <3>2. CASE k # num_postponed + 1
      BY <1>q, <2>1, <2>3, <2>4, <3>2 DEF QueueInv
    <3> QED
      BY <3>1, <3>2
  <2> QED
    BY <2>1, <2>8 DEF QueueInv, NeverSleepsOnDue, Settled
<1>4. CASE DispatchCrash
  BY <1>4, QueueEndPass DEF DispatchCrash, Dispatching
<1>5. CASE DispatchEnd
  BY <1>5, QueueEndPass DEF DispatchEnd
<1> QED
  BY <1>1, <1>2, <1>3, <1>4, <1>5 DEF Dispatch

\* A device that is not accepted leaves the queue alone; one that is wakes the
\* processor; none asks for EXCEPTION.
LEMMA DeviceAsks ==
    ASSUME TypeInv, NEW e \in Interrupts, Trigger(e), e.type # VM_INTR_EXCEPTION
    PROVE  /\ is_halted' => is_halted /\ asked_interrupts' = asked_interrupts
           /\ \A k \in DOMAIN asked_interrupts' :
                asked_interrupts'[k].type = VM_INTR_EXCEPTION =>
                    k \in DOMAIN asked_interrupts /\ asked_interrupts'[k] = asked_interrupts[k]
<1>1. /\ asked_interrupts' = Asked(asked_interrupts, e)
      /\ is_halted' = (is_halted /\ ~Accepts(e.type))
  BY DEF Trigger, HaltedAfter
<1>2. asked_interrupts \in Seq(Interrupts)
  BY DEF TypeInv, TypeOK
<1>3. CASE Accepts(e.type)
  <2>1. asked_interrupts' = Append(asked_interrupts, e) /\ ~is_halted'
    BY <1>1, <1>3 DEF Asked
  <2> DEFINE n == Len(asked_interrupts)
  <2>2. /\ DOMAIN asked_interrupts = 1 .. n /\ n \in Nat
        /\ DOMAIN asked_interrupts' = 1 .. n + 1
        /\ \A k \in 1 .. n : asked_interrupts'[k] = asked_interrupts[k]
        /\ asked_interrupts'[n + 1] = e
    BY <1>2, <2>1, AppendProperties, LenProperties
  <2>3. \A k \in 1 .. n + 1 : k \in 1 .. n \/ k = n + 1
    BY <2>2
  <2> QED
    BY <1>1, <2>1, <2>2, <2>3
<1>4. CASE ~Accepts(e.type)
  BY <1>1, <1>4 DEF Asked
<1> QED
  BY <1>3, <1>4

\* What the device part of a turn must show of the queue: it starts no batch in
\* the middle, wakes the processor when it asks, and asks for no EXCEPTION.
LEMMA QueueQuiet ==
    ASSUME QueueInv, UNCHANGED interrupt_type, should_die => should_die',
           phase \in {"crt", "modem", "timer"}, phase' # "dispatch", n_ops' = n_ops,
           is_halted' => is_halted /\ asked_interrupts' = asked_interrupts,
           \A k \in DOMAIN asked_interrupts' :
               asked_interrupts'[k].type = VM_INTR_EXCEPTION =>
                   k \in DOMAIN asked_interrupts /\ asked_interrupts'[k] = asked_interrupts[k]
    PROVE  QueueInv'
<1>1. Level' = Level /\ n_ops = 0 /\ ~(n_ops' > 0) /\ phase # "dispatch"
  BY DEF Level, QueueInv
<1>2. NeverSleepsOnDue'
  BY <1>1 DEF QueueInv, NeverSleepsOnDue, NothingDue, Settled
<1>3. (Settled => \A k \in DOMAIN asked_interrupts :
          asked_interrupts[k].type = VM_INTR_EXCEPTION => Priority(VM_INTR_EXCEPTION) <= Level)'
  BY <1>1 DEF QueueInv, Settled
<1> QED
  BY <1>1, <1>2, <1>3 DEF QueueInv

LEMMA QueueDevices == TypeInv /\ QueueInv /\ Devices => QueueInv'
<1> SUFFICES ASSUME TypeInv, QueueInv, Devices PROVE QueueInv'
  OBVIOUS
<1> USE DEF Untouched, frames
<1>a. /\ \A t, x : Interrupt(t, x).type = t
      /\ VM_INTR_EXCEPTION \notin {VM_INTR_TIMER1, VM_INTR_KEY, VM_INTR_MODEM}
  BY DEF Interrupt, VM_INTR_TIMER1, VM_INTR_KEY, VM_INTR_MODEM, VM_INTR_EXCEPTION
<1>1. CASE EndBatch
  <2>1. /\ phase = "exec" /\ n_ops = OPS_PER_UPDATE
        /\ phase' = "crt" /\ n_ops' = 0
        /\ UNCHANGED <<is_halted, should_die, asked_interrupts, interrupt_type>>
    BY <1>1 DEF EndBatch
  <2>2. n_ops > 0
    BY <2>1, SizesAssumption
  <2>3. Level' = Level
    BY <2>1 DEF Level
  <2> QED
    BY <2>1, <2>2, <2>3 DEF QueueInv, NeverSleepsOnDue, NothingDue, Settled
<1>2. ASSUME NEW k \in KeyEvents, CrtKey(k) PROVE QueueInv'
  <2>1. /\ Trigger(Interrupt(VM_INTR_KEY, k)) /\ HaveVideo
        /\ phase = "crt"
        /\ UNCHANGED <<phase, n_ops, should_die, interrupt_type>>
    BY <1>2 DEF CrtKey, KeyToIntr
  <2> QED
    BY <1>a, <2>1, EntryType, DeviceAsks, QueueQuiet
<1>3. CASE CrtClose \/ CrtDone
  BY <1>3, QueueQuiet DEF CrtClose, CrtDone
<1>4. CASE ModemUpdate
  <2>1. /\ phase = "modem" /\ phase' = "timer"
        /\ UNCHANGED <<n_ops, should_die, interrupt_type>>
    BY <1>4 DEF ModemUpdate
  <2>2. CASE HaveModem /\ Trigger(Interrupt(VM_INTR_MODEM, NoSetup))
    BY <1>a, <2>1, <2>2, EntryType, DeviceAsks, QueueQuiet
  <2>3. CASE UNCHANGED <<asked_interrupts, is_halted>>
    BY <2>1, <2>3, QueueQuiet
  <2> QED
    BY <1>4, <2>2, <2>3 DEF ModemUpdate
<1>5. CASE TimerFires
  <2>1. /\ phase = "timer" /\ phase' \in {"exec", "stopped"}
        /\ UNCHANGED <<n_ops, should_die, interrupt_type>>
        /\ Trigger(Interrupt(VM_INTR_TIMER1, TimerReset))
    BY <1>5 DEF TimerFires, NextTurn
  <2> QED
    BY <1>a, <2>1, EntryType, DeviceAsks, QueueQuiet
<1>6. CASE TimerIdle
  BY <1>6, QueueQuiet DEF TimerIdle, NextTurn
<1> QED
  BY <1>1, <1>2, <1>3, <1>4, <1>5, <1>6 DEF Devices

LEMMA QueueStep == TypeInv /\ QueueInv /\ [Next]_vars => QueueInv'
<1>1. ASSUME QueueInv, UNCHANGED vars PROVE QueueInv'
  <2>1. UNCHANGED <<phase, n_ops, num_postponed, asked_interrupts, is_halted, should_die,
                    interrupt_type>>
    BY <1>1 DEF vars, frames, locals
  <2>2. Level' = Level
    BY <2>1 DEF Level
  <2> QED
    BY <1>1, <2>1, <2>2 DEF QueueInv, NeverSleepsOnDue, NothingDue, Settled
<1> QED
  BY <1>1, QueueExec, QueueDispatch, QueueDevices DEF Next, Stopped

\* At every step the queue holds nothing a finished pass should have delivered,
\* and in the middle of a pass the part already compacted cannot interrupt.
THEOREM QueueCorrect == Spec => []QueueInv
  BY QueueInit, QueueStep, TypeCorrect, PTL DEF Spec

\* No lost wake-up: neither a halted processor nor a batch in progress passes
\* over a request that outranks what runs.
THEOREM NoLostWakeUp == Spec => []NeverSleepsOnDue
  BY QueueCorrect, PTL DEF QueueInv

\* A fault is handled at once or kills the machine: an EXCEPTION never waits,
\* unless inside the handler of another.
THEOREM FaultsDelivered == Spec => []FaultsAreDelivered
<1>1. TypeInv /\ QueueInv => FaultsAreDelivered
  <2> SUFFICES ASSUME TypeInv, QueueInv, Settled,
                      NEW k \in DOMAIN asked_interrupts,
                      asked_interrupts[k].type = VM_INTR_EXCEPTION
               PROVE  InExceptionHandler
    BY DEF FaultsAreDelivered
  <2>1. Priority(VM_INTR_EXCEPTION) <= Level
    BY DEF QueueInv
  <2>2. interrupt_type # << >>
    BY <2>1, LevelFacts, Priorities
  <2>3. Last(interrupt_type) \in IntrTypes /\ Priority(Last(interrupt_type)) >= 32
    BY <2>1, <2>2, LevelFacts, Priorities
  <2>4. Priority(Last(interrupt_type)) = 32
    BY <2>3, Priorities
  <2> QED
    BY <2>2, <2>3, <2>4, Priorities DEF InExceptionHandler
<1> QED
  BY <1>1, QueueCorrect, TypeCorrect, PTL

-----------------------------------------------------------------------------
(* The halted processor. *)

HaltInv == is_halted /\ ~should_die => ~interrupts_disabled

LEMMA HaltStep == TypeInv /\ HaltInv /\ [Next]_vars => HaltInv'
<1> SUFFICES ASSUME TypeInv, HaltInv, [Next]_vars PROVE HaltInv'
  OBVIOUS
<1> USE DEF HaltInv
<1>1. CASE Exec
  <2>1. CASE ExecSkip
    BY <2>1 DEF ExecSkip
  <2>2. CASE ExecHlt
    BY <2>2 DEF ExecHlt, DiesOnHalt
  <2>3. CASE ExecFetchFault
    BY <2>3 DEF ExecFetchFault, DiesOnHalt
  <2>4. CASE ~is_halted'
    BY <2>4
  <2> QED
    BY <1>1, <2>1, <2>2, <2>3, <2>4
    DEF Exec, ExecOrdinary, ExecSetVector, ExecFault, ExecInt, ExecMask, ExecFini,
        ExecFiniOutside, Executing, Trigger, HaltedAfter
<1>2. CASE Dispatch
  BY <1>2 DEF Dispatch, DispatchEnter, DispatchIgnore, DispatchPostpone, DispatchCrash, DispatchEnd,
     EndPass
<1>3. CASE Devices
  BY <1>3 DEF Devices, EndBatch, CrtKey, KeyToIntr, CrtClose, CrtDone, ModemUpdate, TimerFires,
     TimerIdle, Untouched, Trigger, HaltedAfter
<1> QED
  BY <1>1, <1>2, <1>3 DEF Next, Stopped, vars

\* A machine that sleeps and is not dead can be woken by any device.
THEOREM HaltedWakeable == Spec => []HaltedIsWakeable
<1>1. Init => HaltInv
  BY DEF Init, HaltInv
<1>2. HaltInv => HaltedIsWakeable
  BY DEF HaltInv, HaltedIsWakeable, Settled
<1> QED
  BY <1>1, <1>2, HaltStep, TypeCorrect, PTL DEF Spec

-----------------------------------------------------------------------------
(* The keyboard registers. *)

LEMMA KeyRegsStep ==
    ASSUME TypeInv, NestingStrict, [Next]_vars,
           VM_INTR_KEY \in ToSet(interrupt_type)
    PROVE  kb_regs' = kb_regs
<1>1. ASSUME Dispatching, Outranks(Current), RunSetup(Current.setup)
      PROVE  kb_regs' = kb_regs
  <2>1. PICK k \in DOMAIN interrupt_type : interrupt_type[k] = VM_INTR_KEY
    BY DEF ToSet
  <2> DEFINE n == Len(interrupt_type)
  <2>2. /\ interrupt_type \in Seq(IntrTypes) /\ n \in Nat
        /\ k \in 1 .. n /\ n \in DOMAIN interrupt_type
        /\ interrupt_type # << >>
    BY <2>1, EmptySeq, LenProperties DEF TypeInv, TypeOK
  <2>3. interrupt_type[n] \in IntrTypes /\ VM_INTR_KEY \in IntrTypes
    BY <2>1, <2>2
  <2>4. Priority(VM_INTR_KEY) <= Priority(interrupt_type[n])
    <3>1. CASE k = n
      BY <2>1, <2>3, <3>1, PriorityInt
    <3>2. CASE k # n
      BY <2>1, <2>2, <2>3, <3>2, PriorityInt DEF NestingStrict
    <3> QED
      BY <3>1, <3>2
  <2>5. Priority(interrupt_type[n]) < Priority(Current.type)
    BY <1>1, <2>2 DEF Outranks, Last
  <2>6. Current.type # VM_INTR_KEY
    BY <2>3, <2>4, <2>5, PriorityInt
  <2>7. Current.setup \notin KeyEvents
    BY <1>1, <2>6, CurrentFacts DEF Interrupts
  <2> QED
    BY <1>1, <2>7 DEF RunSetup
<1>2. CASE Exec
  BY <1>2 DEF Exec, ExecSkip, ExecOrdinary, ExecSetVector, ExecFault, ExecHlt, ExecFetchFault,
     ExecInt, ExecMask, ExecFini, ExecFiniOutside, BeginPass, devices
<1>3. CASE Dispatch
  BY <1>1, <1>3 DEF Dispatch, DispatchEnter, DispatchIgnore, DispatchPostpone, DispatchCrash,
     DispatchEnd, EndPass, devices
<1>4. CASE Devices
  BY <1>4 DEF Devices, EndBatch, CrtKey, KeyToIntr, CrtClose, CrtDone, ModemUpdate, TimerFires,
     TimerIdle, devices
<1> QED
  BY <1>2, <1>3, <1>4 DEF Next, Stopped, vars, devices

\* A key handler reads the key it was entered for, whatever arrives meanwhile.
THEOREM KeyRegsKept == Spec => KeyRegsStable
<1>1. TypeInv /\ NestingStrict /\ [Next]_vars =>
        [{VM_INTR_KEY} \subseteq ToSet(interrupt_type) \cap ToSet(interrupt_type')
            => kb_regs' = kb_regs]_vars
  BY KeyRegsStep
<1> QED
  BY <1>1, TypeCorrect, HandlersNest, PTL DEF Spec, KeyRegsStable

-----------------------------------------------------------------------------
(* How a step changes the queue and the frames. *)

\* Everything an instruction appends comes without the timer's setup function;
\* the pass then starts from the first entry.
LEMMA ExecQueue ==
    ASSUME TypeInv, Exec
    PROVE  \/ UNCHANGED <<phase, scan, num_postponed, asked_interrupts, frames, excRegs, devices,
                          should_die>> /\ phase = "exec"
           \/ /\ phase = "exec" /\ phase' = "dispatch" /\ scan' = 1 /\ num_postponed' = 0
              /\ UNCHANGED devices
              /\ Len(asked_interrupts) <= Len(asked_interrupts')
              /\ \A k \in 1 .. Len(asked_interrupts) : asked_interrupts'[k] = asked_interrupts[k]
              /\ \A k \in 1 .. Len(asked_interrupts') :
                    k > Len(asked_interrupts) => asked_interrupts'[k].setup = NoSetup
<1>q. asked_interrupts \in Seq(Interrupts) /\ Len(asked_interrupts) \in Nat
  BY DEF TypeInv, TypeOK
<1> DEFINE Grows(p, q) ==
        /\ q \in Seq(Interrupts)
        /\ Len(p) <= Len(q)
        /\ \A k \in 1 .. Len(p) : q[k] = p[k]
        /\ \A k \in 1 .. Len(q) : k > Len(p) => q[k].setup = NoSetup
<1>1. \A p \in Seq(Interrupts) : Grows(p, p)
  OBVIOUS
<1>2. ASSUME NEW p \in Seq(Interrupts), NEW q, Grows(p, q), NEW t, Interrupt(t, NoSetup) \in Interrupts
      PROVE  Grows(p, Append(q, Interrupt(t, NoSetup)))
  <2>1. Interrupt(t, NoSetup).setup = NoSetup
    BY DEF Interrupt
  <2> DEFINE e == Interrupt(t, NoSetup)
  <2>2. /\ e \in Interrupts /\ e.setup = NoSetup /\ q \in Seq(Interrupts)
    BY <1>2, <2>1
  <2>3. /\ Append(q, e) \in Seq(Interrupts)
        /\ Len(Append(q, e)) = Len(q) + 1
        /\ \A k \in 1 .. Len(q) : Append(q, e)[k] = q[k]
        /\ Append(q, e)[Len(q) + 1] = e
        /\ Len(q) \in Nat /\ Len(p) \in Nat
    BY <2>2, AppendProperties, LenProperties
  <2> HIDE DEF e
  <2>4. \A k \in 1 .. Len(q) + 1 : k \in 1 .. Len(q) \/ k = Len(q) + 1
    BY <2>3
  <2>5. Grows(p, Append(q, e))
    BY <1>2, <2>2, <2>3, <2>4
  <2> QED
    BY <2>5 DEF e
<1>3. \A t \in IntrTypes : Interrupt(t, NoSetup) \in Interrupts
  BY EntryType
<1>4. VM_INTR_EXCEPTION \in IntrTypes /\ (HaveModem => VM_INTR_MODEM \in IntrTypes)
  BY IntrTypesAssumption
<1>5. ASSUME NEW t \in IntrTypes PROVE Grows(asked_interrupts, Asked(asked_interrupts, Interrupt(t, NoSetup)))
  BY <1>q, <1>1, <1>2, <1>3 DEF Asked
<1>6. \A q \in QueuesAfterAccess : Grows(asked_interrupts, q)
  BY <1>q, <1>1, <1>4, <1>5 DEF QueuesAfterAccess
<1>7. \A q, e : Grows(asked_interrupts, q) /\ RaiseException(e, q)
                   => Grows(asked_interrupts, asked_interrupts')
  BY <1>q, <1>2, <1>3, <1>4 DEF RaiseException
<1>8. ASSUME NEW e, ExecFault(e) PROVE Grows(asked_interrupts, asked_interrupts')
  <2>1. PICK q \in QueuesBeforeFault(e) : RaiseException(e, q)
    BY <1>8 DEF ExecFault
  <2>2. Grows(asked_interrupts, q)
    BY <1>q, <1>1, <1>6, <2>1 DEF QueuesBeforeFault
  <2> QED
    BY <1>7, <2>1, <2>2
<1>9. \/ ExecSkip
      \/ /\ Executing /\ BeginPass /\ Grows(asked_interrupts, asked_interrupts')
  <2> HIDE DEF Grows
  <2>1. CASE ExecSkip
    BY <2>1
  <2>2. CASE ExecOrdinary
    BY <1>6, <2>2 DEF ExecOrdinary
  <2>3. CASE \E t \in IntrTypes, h \in Handlers \cup {0} : ExecSetVector(t, h)
    BY <1>q, <1>1, <2>3 DEF ExecSetVector
  <2>4. CASE \E e : ExecFault(e)
    BY <1>8, <2>4 DEF ExecFault
  <2>5. CASE ExecHlt
    BY <1>q, <1>1, <2>5 DEF ExecHlt
  <2>6. CASE ExecFetchFault
    BY <1>q, <1>1, <1>7, <2>6 DEF ExecFetchFault
  <2>7. CASE \E t \in IntrTypes : ExecInt(t)
    BY <1>5, <2>7 DEF ExecInt, Trigger
  <2>8. CASE \E d \in BOOLEAN : ExecMask(d)
    BY <1>q, <1>1, <2>8 DEF ExecMask
  <2>9. CASE ExecFini
    BY <1>q, <1>1, <2>9 DEF ExecFini
  <2>10. CASE ExecFiniOutside
    BY <2>4, <2>10 DEF ExecFiniOutside
  <2> QED
    BY <2>1, <2>2, <2>3, <2>4, <2>5, <2>6, <2>7, <2>8, <2>9, <2>10 DEF Exec
<1>10. CASE ExecSkip
  BY <1>10 DEF ExecSkip, locals
<1>11. CASE Executing /\ BeginPass /\ Grows(asked_interrupts, asked_interrupts')
  BY <1>11 DEF Executing, BeginPass
<1> QED
  BY <1>9, <1>10, <1>11

-----------------------------------------------------------------------------
(* The timer. *)

\* The entries a pass has yet to see and those it has put back: the others are
\* stale copies.
Live == 1 .. num_postponed \cup scan .. Len(asked_interrupts)

TimerInv ==
    /\ \A k, l \in Live :
          asked_interrupts[k].setup = TimerReset /\ asked_interrupts[l].setup = TimerReset
              => k = l /\ is_waiting
    /\ phase # "dispatch" => scan = 1 /\ num_postponed = 0

LEMMA TimerExec == TypeInv /\ TimerInv /\ Exec => TimerInv'
<1> SUFFICES ASSUME TypeInv, TimerInv, Exec PROVE TimerInv'
  OBVIOUS
<1>0. Len(asked_interrupts) \in Nat /\ Len(asked_interrupts') \in Nat
  BY ExecType, LenProperties DEF TypeInv, TypeOK
<1>1. CASE UNCHANGED <<phase, scan, num_postponed, asked_interrupts, devices>>
  BY <1>1 DEF TimerInv, Live, devices
<1>2. CASE phase = "exec" /\ ~UNCHANGED <<phase, scan, num_postponed, asked_interrupts, devices>>
  <2>1. /\ phase = "exec" /\ phase' = "dispatch" /\ scan' = 1 /\ num_postponed' = 0
        /\ is_waiting' = is_waiting
        /\ Len(asked_interrupts) <= Len(asked_interrupts')
        /\ \A k \in 1 .. Len(asked_interrupts) : asked_interrupts'[k] = asked_interrupts[k]
        /\ \A k \in 1 .. Len(asked_interrupts') :
              k > Len(asked_interrupts) => asked_interrupts'[k].setup = NoSetup
    BY <1>2, ExecQueue DEF devices
  <2>2. Live = 1 .. Len(asked_interrupts) /\ Live' = 1 .. Len(asked_interrupts')
    BY <1>0, <2>1 DEF TimerInv, Live
  <2>3. NoSetup # TimerReset
    BY DEF NoSetup, TimerReset
  <2>4. \A k \in Live' : asked_interrupts'[k].setup = TimerReset
           => k \in Live /\ asked_interrupts[k].setup = TimerReset
    BY <1>0, <2>1, <2>2, <2>3
  <2> QED
    BY <2>1, <2>4 DEF TimerInv
<1> QED
  BY <1>1, <1>2, ExecQueue

LEMMA TimerDispatch == TypeInv /\ TimerInv /\ Dispatch => TimerInv'
<1> SUFFICES ASSUME TypeInv, TimerInv, Dispatch PROVE TimerInv'
  OBVIOUS
<1>q. /\ asked_interrupts \in Seq(Interrupts) /\ Len(asked_interrupts) \in Nat
      /\ num_postponed \in 0 .. scan - 1
      /\ scan \in 1 .. Len(asked_interrupts) + 1
  BY LenProperties DEF TypeInv, TypeOK
<1>1. CASE DispatchEnter \/ DispatchIgnore
  <2>1. /\ scan \in 1 .. Len(asked_interrupts) /\ phase = "dispatch"
        /\ UNCHANGED <<phase, num_postponed, asked_interrupts>>
        /\ scan' = scan + 1
        /\ is_waiting' = (is_waiting /\ asked_interrupts[scan].setup # TimerReset)
    BY <1>1, CurrentFacts DEF DispatchEnter, DispatchIgnore, RunSetup, Current, Dispatching
  <2>2. Live' \subseteq Live /\ scan \in Live /\ scan \notin Live'
    BY <1>q, <2>1 DEF Live
  <2> QED
    BY <2>1, <2>2 DEF TimerInv
<1>2. CASE DispatchPostpone
  <2>1. /\ scan \in 1 .. Len(asked_interrupts) /\ phase = "dispatch"
        /\ UNCHANGED <<phase, is_waiting>>
        /\ scan' = scan + 1 /\ num_postponed' = num_postponed + 1
        /\ asked_interrupts' = Compacted
        /\ Current \in Interrupts
    BY <1>2, CurrentFacts DEF DispatchPostpone, Dispatching, devices
  <2>2. num_postponed + 1 \in 1 .. Len(asked_interrupts)
    BY <1>q, <2>1
  <2>3. /\ Len(asked_interrupts') = Len(asked_interrupts)
        /\ \A k \in 1 .. Len(asked_interrupts) : asked_interrupts'[k] =
              IF k = num_postponed + 1 THEN asked_interrupts[scan] ELSE asked_interrupts[k]
    BY <1>q, <2>1, <2>2, ExceptSeq DEF Compacted, Current
  <2> DEFINE From(k) == IF k = num_postponed + 1 THEN scan ELSE k
  <2>4. \A k \in Live' : From(k) \in Live /\ asked_interrupts'[k] = asked_interrupts[From(k)]
    BY <1>q, <2>1, <2>2, <2>3 DEF Live
  <2>5. \A k, l \in Live' : From(k) = From(l) => k = l
    BY <1>q, <2>1, <2>2, <2>3 DEF Live
  <2> HIDE DEF From
  <2> QED
    BY <2>1, <2>4, <2>5 DEF TimerInv
<1>3. CASE EndPass
  <2>1. /\ Len(asked_interrupts') = num_postponed
        /\ \A k \in 1 .. num_postponed : asked_interrupts'[k] = asked_interrupts[k]
        /\ scan' = 1 /\ num_postponed' = 0 /\ is_waiting' = is_waiting
    BY <1>q, <1>3, Prefix DEF EndPass, devices
  <2>2. Live' = 1 .. num_postponed /\ Live' \subseteq Live
    BY <1>q, <2>1 DEF Live
  <2> QED
    BY <2>1, <2>2 DEF TimerInv
<1> QED
  BY <1>1, <1>2, <1>3 DEF Dispatch, DispatchCrash, DispatchEnd

LEMMA TimerDevices == TypeInv /\ TimerInv /\ Devices => TimerInv'
<1> SUFFICES ASSUME TypeInv, TimerInv, Devices PROVE TimerInv'
  OBVIOUS
<1> USE DEF Untouched, locals, devices
<1>q. asked_interrupts \in Seq(Interrupts) /\ Len(asked_interrupts) \in Nat
  BY LenProperties DEF TypeInv, TypeOK
<1>s. /\ NoSetup # TimerReset /\ \A k \in KeyEvents : k # TimerReset
      /\ \A t, s : Interrupt(t, s).setup = s
  BY KeyEventsAssumption DEF NoSetup, TimerReset, Interrupt
<1>1. CASE UNCHANGED <<asked_interrupts, is_waiting>> /\ UNCHANGED locals /\ phase' # "dispatch" /\ phase # "dispatch"
  BY <1>1 DEF TimerInv, Live
<1>2. ASSUME NEW e \in Interrupts, Trigger(e), UNCHANGED locals, phase' # "dispatch", phase # "dispatch",
             \/ e.setup # TimerReset /\ is_waiting' = is_waiting
             \/ ~is_waiting /\ is_waiting' = TRUE
      PROVE  TimerInv'
  <2>1. Live = 1 .. Len(asked_interrupts) /\ scan = 1 /\ num_postponed = 0
    BY <1>q, <1>2 DEF TimerInv, Live
  <2>2. asked_interrupts' = asked_interrupts \/ asked_interrupts' = Append(asked_interrupts, e)
    BY <1>2 DEF Trigger, Asked
  <2>3. /\ Len(asked_interrupts') \in {Len(asked_interrupts), Len(asked_interrupts) + 1}
        /\ \A k \in 1 .. Len(asked_interrupts) : asked_interrupts'[k] = asked_interrupts[k]
        /\ Len(asked_interrupts') = Len(asked_interrupts) + 1
              => asked_interrupts'[Len(asked_interrupts) + 1] = e
    BY <1>q, <2>2, AppendProperties
  <2>4. Live' = 1 .. Len(asked_interrupts')
    BY <1>2, <2>1, <2>3, <1>q DEF Live
  <2>5. \A k \in Live' : \/ k \in Live /\ asked_interrupts'[k] = asked_interrupts[k]
                         \/ k = Len(asked_interrupts) + 1 /\ asked_interrupts'[k] = e
    BY <1>q, <2>1, <2>3, <2>4
  <2>6. CASE e.setup # TimerReset /\ is_waiting' = is_waiting
    BY <1>2, <2>1, <2>5, <2>6 DEF TimerInv
  <2>7. CASE ~is_waiting /\ is_waiting' = TRUE
    <3>1. \A k \in Live : asked_interrupts[k].setup # TimerReset
      BY <2>7 DEF TimerInv
    <3>2. \A k \in Live' : asked_interrupts'[k].setup = TimerReset => k = Len(asked_interrupts) + 1
      BY <2>5, <3>1
    <3>3. scan' = 1 /\ num_postponed' = 0
      BY <1>2, <2>1
    <3> QED
      BY <2>7, <3>2, <3>3 DEF TimerInv
  <2> QED
    BY <1>2, <2>6, <2>7
<1>3. ASSUME NEW k \in KeyEvents, CrtKey(k) PROVE TimerInv'
  BY <1>2, <1>3, <1>s, EntryType DEF CrtKey, KeyToIntr
<1>4. CASE ModemUpdate
  <2>1. CASE HaveModem /\ Trigger(Interrupt(VM_INTR_MODEM, NoSetup))
    BY <1>2, <1>4, <1>s, <2>1, EntryType DEF ModemUpdate
  <2>2. CASE UNCHANGED <<asked_interrupts, is_halted>>
    BY <1>1, <1>4, <2>2 DEF ModemUpdate
  <2> QED
    BY <1>4, <2>1, <2>2 DEF ModemUpdate
<1>5. CASE TimerFires
  <2>1. /\ Trigger(Interrupt(VM_INTR_TIMER1, TimerReset)) /\ ~is_waiting /\ is_waiting' = TRUE
        /\ phase # "dispatch" /\ phase' # "dispatch" /\ UNCHANGED locals
    BY <1>5 DEF TimerFires, TimerReady, NextTurn
  <2> QED
    BY <1>2, <2>1, EntryType
<1>6. CASE EndBatch \/ CrtClose \/ CrtDone \/ TimerIdle
  BY <1>1, <1>6 DEF EndBatch, CrtClose, CrtDone, TimerIdle, NextTurn
<1> QED
  BY <1>3, <1>4, <1>5, <1>6 DEF Devices

LEMMA TimerStep == TypeInv /\ TimerInv /\ [Next]_vars => TimerInv'
<1>1. TimerInv /\ UNCHANGED vars => TimerInv'
  BY DEF TimerInv, Live, vars, devices, locals
<1> QED
  BY <1>1, TimerExec, TimerDispatch, TimerDevices DEF Next, Stopped

LEMMA TimerCorrect == Spec => []TimerInv
<1>1. Init => TimerInv
  <2> SUFFICES ASSUME Init PROVE TimerInv
    OBVIOUS
  <2>1. Live = {} /\ scan = 1 /\ num_postponed = 0
    BY EmptySeq DEF Init, Live
  <2> QED
    BY <2>1 DEF TimerInv
<1> QED
  BY <1>1, TimerStep, TypeCorrect, PTL DEF Spec

\* The timer has one request in flight at most, and waits for exactly that one:
\* nothing a program does can make it ask twice.
THEOREM TimerAsksOnce == Spec => []OneTimerInFlight
<1>1. TypeInv /\ TimerInv => OneTimerInFlight
  <2> SUFFICES ASSUME TypeInv, TimerInv, phase # "dispatch" PROVE OneTimerInFlight
    BY DEF OneTimerInFlight
  <2>1. Live = DOMAIN asked_interrupts
    BY LenProperties DEF TypeInv, TypeOK, TimerInv, Live
  <2> QED
    BY <2>1 DEF TimerInv, OneTimerInFlight
<1> QED
  BY <1>1, TimerCorrect, TypeCorrect, PTL

-----------------------------------------------------------------------------
(* The exception registers. *)

\* The program that faulted can be resumed: the address is in a frame.
ResumeSaved ==
    \E k \in DOMAIN interrupt_return_addr : \E n \in ResumeOffsets(exception_type) :
        interrupt_return_addr[k] = After(exception_pc, n)

\* The program that faulted runs on until the pass delivers something.
ResumeNext == \E n \in ResumeOffsets(exception_type) : pc = After(exception_pc, n)

\* The pass has not reached the request of the fault yet.
FaultAhead ==
    \E k \in scan .. Len(asked_interrupts) : asked_interrupts[k].type = VM_INTR_EXCEPTION

ExcInv ==
    /\ Settled /\ exception_type # VM_EXC_NONE => InExceptionHandler /\ ResumeSaved
    /\ phase = "dispatch" /\ ~should_die /\ exception_type # VM_EXC_NONE =>
          \/ InExceptionHandler /\ ResumeSaved
          \/ ~InExceptionHandler /\ FaultAhead /\ (ResumeSaved \/ ResumeNext)

\* Nothing outranks EXCEPTION, and EXCEPTION outranks all the rest.
LEMMA ExceptionOutranks ==
    ASSUME TypeInv
    PROVE  /\ \A e \in Interrupts : InExceptionHandler => ~Outranks(e)
           /\ \A e \in Interrupts : ~InExceptionHandler /\ e.type = VM_INTR_EXCEPTION => Outranks(e)
<1>1. interrupt_type # << >> => Last(interrupt_type) \in IntrTypes
  BY FrontLast DEF TypeInv, TypeOK
<1>2. \A e \in Interrupts : e.type \in IntrTypes
  BY DEF Interrupts
<1>3. ASSUME NEW e \in Interrupts, InExceptionHandler, Outranks(e) PROVE FALSE
  <2>1. 32 < Priority(e.type) /\ Priority(e.type) \in 0 .. 32
    BY <1>2, <1>3, Priorities DEF InExceptionHandler, Outranks
  <2> QED
    BY <2>1
<1>4. ASSUME NEW e \in Interrupts, ~InExceptionHandler, e.type = VM_INTR_EXCEPTION PROVE Outranks(e)
  <2>1. CASE interrupt_type = << >>
    BY <2>1 DEF Outranks
  <2>2. CASE interrupt_type # << >>
    <3>1. Last(interrupt_type) \in IntrTypes /\ Last(interrupt_type) # VM_INTR_EXCEPTION
      BY <1>1, <1>4, <2>2 DEF InExceptionHandler
    <3>2. Priority(Last(interrupt_type)) \in 0 .. 32 /\ Priority(Last(interrupt_type)) # 32
      BY <3>1, Priorities
    <3>3. Priority(Last(interrupt_type)) < 32
      BY <3>2
    <3> QED
      BY <1>4, <3>3, Priorities DEF Outranks
  <2> QED
    BY <2>1, <2>2
<1> QED
  BY <1>3, <1>4

\* A fault either kills the processor or leaves a request the pass will reach.
LEMMA ExcFaultStep ==
    ASSUME TypeInv, ExcInv, Executing, BeginPass, UNCHANGED frames,
           NEW e, NEW q \in Seq(Interrupts), RaiseException(e, q),
           NEW n \in ResumeOffsets(e), pc' = After(pc, n),
           InExceptionHandler => should_die'
    PROVE  ExcInv'
<1> DEFINE x == Interrupt(VM_INTR_EXCEPTION, NoSetup)
<1>1. /\ asked_interrupts' = Append(q, x) /\ x.type = VM_INTR_EXCEPTION
      /\ exception_type' = e /\ exception_pc' = pc
      /\ phase' = "dispatch" /\ scan' = 1
  BY DEF RaiseException, BeginPass, Interrupt
<1>2. Len(q) \in Nat /\ Len(asked_interrupts') = Len(q) + 1 /\ asked_interrupts'[Len(q) + 1] = x
  BY <1>1, EntryType, AppendProperties, LenProperties
<1> HIDE DEF x
<1>3. FaultAhead'
  BY <1>1, <1>2 DEF FaultAhead
<1>4. ResumeNext'
  BY <1>1 DEF ResumeNext
<1>5. InExceptionHandler' = InExceptionHandler
  BY DEF frames, InExceptionHandler
<1> QED
  BY <1>1, <1>3, <1>4, <1>5 DEF ExcInv, Settled

LEMMA ExcExec == TypeInv /\ ExcInv /\ Exec => ExcInv'
<1> SUFFICES ASSUME TypeInv, ExcInv, Exec PROVE ExcInv'
  OBVIOUS
<1>q. \A q \in QueuesAfterAccess : q \in Seq(Interrupts)
  BY EntryType, AskedType DEF QueuesAfterAccess, TypeInv, TypeOK
<1>1. CASE ExecSkip
  <2>1. UNCHANGED <<phase, should_die, frames, excRegs>> /\ phase = "exec"
    BY <1>1 DEF ExecSkip
  <2> QED
    BY <2>1 DEF ExcInv, Settled, InExceptionHandler, ResumeSaved, frames, excRegs
<1>2. ASSUME Executing, BeginPass, UNCHANGED <<frames, excRegs>> PROVE ExcInv'
  <2>1. exception_type # VM_EXC_NONE => InExceptionHandler /\ ResumeSaved
    BY <1>2 DEF ExcInv, Executing, Settled
  <2>2. phase' = "dispatch"
    BY <1>2 DEF BeginPass
  <2> QED
    BY <1>2, <2>1, <2>2 DEF ExcInv, Settled, InExceptionHandler, ResumeSaved, frames, excRegs
<1>3. ASSUME NEW e, ExecFault(e) PROVE ExcInv'
  <2>1. PICK q \in QueuesBeforeFault(e) : RaiseException(e, q)
    BY <1>3 DEF ExecFault
  <2>2. q \in Seq(Interrupts)
    BY <1>q, <2>1 DEF QueuesBeforeFault, TypeInv, TypeOK
  <2>3. PICK n \in ResumeOffsets(e) : pc' = After(pc, n)
    BY <1>3 DEF ExecFault, Advance
  <2> QED
    BY <1>3, <2>1, <2>2, <2>3, ExcFaultStep DEF ExecFault, DiesOnFault
<1>4. CASE ExecFetchFault
  <2>1. /\ RaiseException(VM_EXC_SEGFAULT, asked_interrupts)
        /\ asked_interrupts \in Seq(Interrupts)
        /\ Executing /\ BeginPass /\ UNCHANGED frames
        /\ pc' = After(pc, 1)
        /\ InExceptionHandler => should_die'
    BY <1>4 DEF ExecFetchFault, DiesOnFault, Advance, TypeInv, TypeOK
  <2>2. 1 \in ResumeOffsets(VM_EXC_SEGFAULT)
    BY DEF ResumeOffsets, VM_EXC_SEGFAULT, VM_EXC_UNKNOWN_OPCODE
  <2> QED
    BY <2>1, <2>2, ExcFaultStep
<1>5. CASE ExecFini
  <2>1. exception_type' = VM_EXC_NONE
    <3>1. exception_type # VM_EXC_NONE => InExceptionHandler
      BY <1>5 DEF ExcInv, ExecFini, Executing, Settled
    <3> QED
      BY <1>5, <3>1 DEF ExecFini, ExcTypeAfterFini, InExceptionHandler
  <2> QED
    BY <2>1 DEF ExcInv
<1> QED
  BY <1>1, <1>2, <1>3, <1>4, <1>5
  DEF Exec, ExecOrdinary, ExecSetVector, ExecHlt, ExecInt, ExecMask, ExecFiniOutside

LEMMA ExcDispatch == TypeInv /\ ExcInv /\ Dispatch => ExcInv'
<1> SUFFICES ASSUME TypeInv, ExcInv, Dispatch PROVE ExcInv'
  OBVIOUS
<1>q. /\ asked_interrupts \in Seq(Interrupts) /\ Len(asked_interrupts) \in Nat
      /\ num_postponed \in 0 .. scan - 1
      /\ scan \in 1 .. Len(asked_interrupts) + 1
      /\ interrupt_type \in Seq(IntrTypes) /\ interrupt_return_addr \in Seq(Code)
      /\ Len(interrupt_return_addr) \in Nat /\ pc \in Code
  BY LenProperties DEF TypeInv, TypeOK
<1>0. phase = "dispatch"
  BY DEF Dispatch, DispatchEnter, DispatchIgnore, DispatchPostpone, DispatchCrash, DispatchEnd, Dispatching
<1>d. CASE should_die'
  BY <1>d DEF ExcInv, Settled
<1>1. CASE DispatchEnter /\ ~should_die /\ exception_type # VM_EXC_NONE
  <2>1. /\ phase' = "dispatch" /\ UNCHANGED <<should_die, asked_interrupts, excRegs>>
        /\ scan' = scan + 1
        /\ interrupt_type' = Append(interrupt_type, Current.type)
        /\ interrupt_return_addr' = Append(interrupt_return_addr, pc)
        /\ Dispatching /\ Outranks(Current)
    BY <1>1, <1>0 DEF DispatchEnter
  <2>2. Current \in Interrupts /\ Current.type \in IntrTypes /\ scan \in 1 .. Len(asked_interrupts)
    BY <2>1, CurrentFacts
  <2>3. ~InExceptionHandler /\ FaultAhead /\ (ResumeSaved \/ ResumeNext)
    BY <1>0, <1>1, <2>1, <2>2, ExceptionOutranks DEF ExcInv
  <2>4. /\ Len(interrupt_return_addr') = Len(interrupt_return_addr) + 1
        /\ \A k \in 1 .. Len(interrupt_return_addr) :
              interrupt_return_addr'[k] = interrupt_return_addr[k]
        /\ interrupt_return_addr'[Len(interrupt_return_addr) + 1] = pc
        /\ DOMAIN interrupt_return_addr = 1 .. Len(interrupt_return_addr)
        /\ DOMAIN interrupt_return_addr' = 1 .. Len(interrupt_return_addr) + 1
    BY <1>q, <2>1, AppendProperties, LenProperties
  <2>5. ResumeSaved'
    <3>1. CASE ResumeSaved
      BY <1>q, <2>1, <2>4, <3>1 DEF ResumeSaved, excRegs
    <3>2. CASE ResumeNext
      <4>1. Len(interrupt_return_addr) + 1 \in DOMAIN interrupt_return_addr'
        BY <1>q, <2>4
      <4> QED
        BY <2>1, <2>4, <3>2, <4>1 DEF ResumeSaved, ResumeNext, excRegs
    <3> QED
      BY <2>3, <3>1, <3>2
  <2>6. Last(interrupt_type') = Current.type /\ interrupt_type' # << >>
    BY <1>q, <2>1, <2>2, AppendProperties DEF Last
  <2>7. Current.type # VM_INTR_EXCEPTION => FaultAhead'
    BY <1>q, <2>1, <2>2, <2>3 DEF FaultAhead, Current
  <2> QED
    BY <2>1, <2>5, <2>6, <2>7 DEF ExcInv, Settled, InExceptionHandler
<1>2. CASE DispatchIgnore /\ ~should_die /\ exception_type # VM_EXC_NONE
  <2>1. /\ phase' = "dispatch" /\ UNCHANGED <<should_die, asked_interrupts, excRegs, frames, pc>>
        /\ scan' = scan + 1
        /\ Dispatching /\ Current.type # VM_INTR_EXCEPTION
    BY <1>2, <1>0 DEF DispatchIgnore
  <2>2. scan \in 1 .. Len(asked_interrupts)
    BY <2>1, CurrentFacts
  <2>3. FaultAhead => FaultAhead'
    BY <1>q, <2>1, <2>2 DEF FaultAhead, Current
  <2> QED
    BY <1>0, <1>2, <2>1, <2>3
    DEF ExcInv, Settled, InExceptionHandler, ResumeSaved, ResumeNext, frames, excRegs
<1>3. CASE DispatchPostpone /\ ~should_die /\ exception_type # VM_EXC_NONE
  <2>1. /\ phase' = "dispatch" /\ UNCHANGED <<should_die, excRegs, frames, pc>>
        /\ scan' = scan + 1 /\ asked_interrupts' = Compacted
        /\ Dispatching /\ ~Outranks(Current)
    BY <1>3, <1>0 DEF DispatchPostpone
  <2>2. scan \in 1 .. Len(asked_interrupts) /\ Current \in Interrupts
    BY <2>1, CurrentFacts
  <2>3. num_postponed + 1 \in 1 .. Len(asked_interrupts)
    BY <1>q, <2>2
  <2>4. /\ Len(asked_interrupts') = Len(asked_interrupts)
        /\ \A k \in 1 .. Len(asked_interrupts) :
              k > scan => asked_interrupts'[k] = asked_interrupts[k]
    BY <1>q, <2>1, <2>2, <2>3, ExceptSeq DEF Compacted
  <2>5. ~InExceptionHandler => Current.type # VM_INTR_EXCEPTION
    BY <2>1, <2>2, ExceptionOutranks
  <2>6. ~InExceptionHandler /\ FaultAhead => FaultAhead'
    <3> SUFFICES ASSUME ~InExceptionHandler, NEW k \in scan .. Len(asked_interrupts),
                        asked_interrupts[k].type = VM_INTR_EXCEPTION
                 PROVE  FaultAhead'
      BY DEF FaultAhead
    <3>1. k # scan
      BY <2>5 DEF Current
    <3>2. /\ k \in scan' .. Len(asked_interrupts')
          /\ k \in 1 .. Len(asked_interrupts) /\ k > scan
      BY <1>q, <2>1, <2>2, <2>4, <3>1
    <3>3. asked_interrupts'[k] = asked_interrupts[k]
      BY <2>4, <3>2
    <3> QED
      BY <3>2, <3>3 DEF FaultAhead
  <2> QED
    BY <1>0, <1>3, <2>1, <2>6
    DEF ExcInv, Settled, InExceptionHandler, ResumeSaved, ResumeNext, frames, excRegs
<1>4. CASE DispatchEnd /\ ~should_die /\ exception_type # VM_EXC_NONE
  <2>1. ~FaultAhead
    BY <1>q, <1>4 DEF FaultAhead, DispatchEnd
  <2>2. InExceptionHandler /\ ResumeSaved
    BY <1>0, <1>4, <2>1 DEF ExcInv
  <2>3. phase' = "exec" /\ UNCHANGED <<frames, excRegs>>
    BY <1>4 DEF DispatchEnd, EndPass
  <2> QED
    BY <2>2, <2>3 DEF ExcInv, Settled, InExceptionHandler, ResumeSaved, frames, excRegs
<1>5. should_die => should_die'
  BY DEF Dispatch, DispatchEnter, DispatchIgnore, DispatchPostpone, DispatchCrash, DispatchEnd
<1>6. exception_type' = exception_type
  BY DEF Dispatch, DispatchEnter, DispatchIgnore, DispatchPostpone, DispatchCrash, DispatchEnd, EndPass,
     excRegs
<1>7. CASE exception_type = VM_EXC_NONE
  BY <1>6, <1>7 DEF ExcInv
<1>8. CASE DispatchCrash
  BY <1>d, <1>8 DEF DispatchCrash
<1> QED
  BY <1>d, <1>1, <1>2, <1>3, <1>4, <1>5, <1>7, <1>8 DEF Dispatch

LEMMA ExcDevices == ExcInv /\ Devices => ExcInv'
<1> SUFFICES ASSUME ExcInv, Devices PROVE ExcInv'
  OBVIOUS
<1>1. /\ UNCHANGED <<frames, excRegs>> /\ phase # "dispatch" /\ phase' # "dispatch"
      /\ should_die => should_die'
  BY DEF Devices, EndBatch, CrtKey, CrtClose, CrtDone, ModemUpdate, TimerFires, TimerIdle,
     NextTurn, Untouched
<1> QED
  BY <1>1 DEF ExcInv, Settled, InExceptionHandler, ResumeSaved, frames, excRegs

LEMMA ExcStep == TypeInv /\ ExcInv /\ [Next]_vars => ExcInv'
<1>1. ExcInv /\ UNCHANGED vars => ExcInv'
  BY DEF ExcInv, Settled, InExceptionHandler, ResumeSaved, ResumeNext, FaultAhead, vars, frames,
     excRegs, locals
<1> QED
  BY <1>1, ExcExec, ExcDispatch, ExcDevices DEF Next, Stopped

\* Whatever is delivered between a fault and its handler, the registers name the
\* fault whose handler is innermost, and the way back to the program that
\* faulted is in a frame.
THEOREM ExceptionRegsDescribeFault == Spec => []ExceptionRegsMatchFrame
<1>1. Init => ExcInv
  BY DEF Init, ExcInv
<1>2. ExcInv => ExceptionRegsMatchFrame
  BY DEF ExcInv, ExceptionRegsMatchFrame, ResumeSaved
<1> QED
  BY <1>1, <1>2, ExcStep, TypeCorrect, PTL DEF Spec

-----------------------------------------------------------------------------
(* The processor implements PriorityInterrupts, for every size of memory,   *)
(* set of interrupts and keys, batch length and queue bound: the pass that   *)
(* compacts its array in place while it enters handlers delivers the oldest  *)
(* request that is due, and loses and duplicates none.                       *)

\* Pending, as an operator on the queue and the locals of the pass.
Waits(q, n, m) == SubSeq(q, 1, n) \o SubSeq(q, m, Len(q))

\* What waits is the first n entries, then those from m on.
LEMMA WaitsFacts ==
    ASSUME NEW S, NEW q \in Seq(S), NEW n \in Nat, NEW m \in 1 .. Len(q) + 1, n < m
    PROVE  /\ Waits(q, n, m) \in Seq(S)
           /\ Len(Waits(q, n, m)) = n + (Len(q) - m + 1)
           /\ \A i \in 1 .. n : Waits(q, n, m)[i] = q[i]
           /\ \A i \in n + 1 .. n + (Len(q) - m + 1) : Waits(q, n, m)[i] = q[m + i - n - 1]
<1>q. Len(q) \in Nat /\ \A i \in 1 .. Len(q) : q[i] \in S
  BY LenProperties, ElementOfSeq
<1>1. /\ SubSeq(q, 1, n) \in Seq(S)
      /\ Len(SubSeq(q, 1, n)) = n
      /\ \A i \in 1 .. n : SubSeq(q, 1, n)[i] = q[i]
  BY <1>q, Prefix
<1>2. \A i \in m .. Len(q) : q[i] \in S
  BY <1>q
<1>3. /\ SubSeq(q, m, Len(q)) \in Seq(S)
      /\ Len(SubSeq(q, m, Len(q))) = Len(q) - m + 1
      /\ \A i \in 1 .. Len(q) - m + 1 : SubSeq(q, m, Len(q))[i] = q[m + i - 1]
  BY <1>q, <1>2, SubSeqProperties
<1> DEFINE a == SubSeq(q, 1, n)
           b == SubSeq(q, m, Len(q))
<1>4. /\ a \o b \in Seq(S)
      /\ Len(a \o b) = Len(a) + Len(b)
      /\ \A i \in 1 .. Len(a) + Len(b) : (a \o b)[i] = IF i <= Len(a) THEN a[i] ELSE b[i - Len(a)]
  BY <1>1, <1>3, ConcatProperties
<1>5. Waits(q, n, m) = a \o b
  BY DEF Waits
<1>6. /\ Len(a) = n /\ Len(b) = Len(q) - m + 1
      /\ \A i \in 1 .. n : a[i] = q[i]
      /\ \A i \in 1 .. Len(q) - m + 1 : b[i] = q[m + i - 1]
  BY <1>1, <1>3
<1> HIDE DEF a, b
<1>7. \A i \in 1 .. n : (a \o b)[i] = q[i]
  BY <1>q, <1>4, <1>6
<1>8. ASSUME NEW i \in n + 1 .. n + (Len(q) - m + 1) PROVE (a \o b)[i] = q[m + i - n - 1]
  <2>1. i \in 1 .. Len(a) + Len(b) /\ ~(i <= Len(a)) /\ i - n \in 1 .. Len(q) - m + 1
    BY <1>q, <1>6
  <2>2. (a \o b)[i] = b[i - n]
    BY <1>4, <1>6, <2>1
  <2>3. b[i - n] = q[m + (i - n) - 1] /\ m + (i - n) - 1 = m + i - n - 1
    BY <1>6, <2>1
  <2> QED
    BY <2>2, <2>3
<1> QED
  BY <1>4, <1>5, <1>6, <1>7, <1>8

\* Before a pass starts, the whole array waits.
LEMMA WaitsAll == ASSUME NEW S, NEW q \in Seq(S) PROVE Waits(q, 0, 1) = q
<1>1. SubSeq(q, 1, 0) = << >> /\ SubSeq(q, 1, Len(q)) = q
  BY SubSeqEmpty, SubSeqFull
<1> QED
  BY <1>1, ConcatEmptySeq DEF Waits

\* What is left of a sequence when its k-th element goes.
LEMMA RemoveFacts ==
    ASSUME NEW S, NEW s \in Seq(S), NEW k \in 1 .. Len(s)
    PROVE  /\ RemoveAt(s, k) \in Seq(S)
           /\ Len(RemoveAt(s, k)) = Len(s) - 1
           /\ \A i \in 1 .. k - 1 : RemoveAt(s, k)[i] = s[i]
           /\ \A i \in k .. Len(s) - 1 : RemoveAt(s, k)[i] = s[i + 1]
<1>1. Len(s) \in Nat
  BY LenProperties
<1>2. k - 1 \in Nat /\ k + 1 \in 1 .. Len(s) + 1 /\ k - 1 < k + 1
  BY <1>1
<1>3. RemoveAt(s, k) = Waits(s, k - 1, k + 1)
  BY DEF RemoveAt, Waits
<1>4. /\ Waits(s, k - 1, k + 1) \in Seq(S)
      /\ Len(Waits(s, k - 1, k + 1)) = (k - 1) + (Len(s) - (k + 1) + 1)
      /\ \A i \in 1 .. k - 1 : Waits(s, k - 1, k + 1)[i] = s[i]
      /\ \A i \in (k - 1) + 1 .. (k - 1) + (Len(s) - (k + 1) + 1) :
            Waits(s, k - 1, k + 1)[i] = s[(k + 1) + i - (k - 1) - 1]
  BY <1>2, WaitsFacts
<1>5. (k - 1) + (Len(s) - (k + 1) + 1) = Len(s) - 1 /\ (k - 1) + 1 = k
  BY <1>1
<1>6. \A i \in k .. Len(s) - 1 : (k + 1) + i - (k - 1) - 1 = i + 1
  BY <1>1
<1> QED
  BY <1>3, <1>4, <1>5, <1>6

\* Delivering an entry takes it out of what waits, behind those put back.
LEMMA WaitsDelivered ==
    ASSUME NEW S, NEW q \in Seq(S), NEW n \in Nat, NEW m \in 1 .. Len(q), n < m
    PROVE  /\ n + 1 \in DOMAIN Waits(q, n, m)
           /\ Waits(q, n, m)[n + 1] = q[m]
           /\ \A j \in 1 .. n : Waits(q, n, m)[j] = q[j]
           /\ Waits(q, n, m + 1) = RemoveAt(Waits(q, n, m), n + 1)
<1> DEFINE w == Waits(q, n, m)
           v == Waits(q, n, m + 1)
           r == RemoveAt(w, n + 1)
<1>q. Len(q) \in Nat
  BY LenProperties
<1>1. /\ w \in Seq(S)
      /\ Len(w) = n + (Len(q) - m + 1)
      /\ \A i \in 1 .. n : w[i] = q[i]
      /\ \A i \in n + 1 .. n + (Len(q) - m + 1) : w[i] = q[m + i - n - 1]
  BY <1>q, WaitsFacts
<1>2. m + 1 \in 1 .. Len(q) + 1 /\ n < m + 1
  BY <1>q
<1>3. /\ v \in Seq(S)
      /\ Len(v) = n + (Len(q) - (m + 1) + 1)
      /\ \A i \in 1 .. n : v[i] = q[i]
      /\ \A i \in n + 1 .. n + (Len(q) - (m + 1) + 1) : v[i] = q[(m + 1) + i - n - 1]
  BY <1>q, <1>2, WaitsFacts
<1> HIDE DEF v, w
<1>4. n + 1 \in 1 .. Len(w) /\ DOMAIN w = 1 .. Len(w)
  BY <1>q, <1>1, LenProperties
<1>5. /\ r \in Seq(S)
      /\ Len(r) = Len(w) - 1
      /\ \A i \in 1 .. (n + 1) - 1 : r[i] = w[i]
      /\ \A i \in n + 1 .. Len(w) - 1 : r[i] = w[i + 1]
  BY <1>1, <1>4, RemoveFacts
<1> HIDE DEF r
<1>6. Len(v) = Len(r) /\ Len(v) = n + (Len(q) - m)
  BY <1>q, <1>1, <1>3, <1>5
<1>7. ASSUME NEW i \in 1 .. Len(v) PROVE v[i] = r[i]
  <2>1. CASE i \in 1 .. n
    <3>1. i \in 1 .. (n + 1) - 1
      BY <2>1
    <3> QED
      BY <1>1, <1>3, <1>5, <2>1, <3>1
  <2>2. CASE i \notin 1 .. n
    <3>1. /\ i \in n + 1 .. Len(w) - 1
          /\ i + 1 \in n + 1 .. n + (Len(q) - m + 1)
          /\ i \in n + 1 .. n + (Len(q) - (m + 1) + 1)
      BY <1>q, <1>1, <1>6, <2>2
    <3>2. r[i] = q[m + (i + 1) - n - 1] /\ v[i] = q[(m + 1) + i - n - 1]
      BY <1>1, <1>3, <1>5, <3>1
    <3>3. m + (i + 1) - n - 1 = (m + 1) + i - n - 1
      BY <1>q
    <3> QED
      BY <3>2, <3>3
  <2> QED
    BY <2>1, <2>2
<1>8. v = r
  BY <1>3, <1>5, <1>6, <1>7, SeqEqual
<1>9. w[n + 1] = q[m]
  <2>1. n + 1 \in n + 1 .. n + (Len(q) - m + 1) /\ m + (n + 1) - n - 1 = m
    BY <1>q
  <2> QED
    BY <1>1, <2>1
<1> QED
  BY <1>1, <1>4, <1>8, <1>9 DEF v, w, r

\* Putting an entry back at the front of the array moves it, and changes
\* nothing of what waits nor of its order.
LEMMA WaitsPutBack ==
    ASSUME NEW S, NEW q \in Seq(S), NEW n \in Nat, NEW m \in 1 .. Len(q), n < m
    PROVE  Waits([q EXCEPT ![n + 1] = q[m]], n + 1, m + 1) = Waits(q, n, m)
<1> DEFINE p == [q EXCEPT ![n + 1] = q[m]]
           w == Waits(q, n, m)
           v == Waits(p, n + 1, m + 1)
<1>q. Len(q) \in Nat /\ n + 1 \in 1 .. Len(q) /\ q[m] \in S
  BY LenProperties, ElementOfSeq
<1>1. /\ p \in Seq(S) /\ Len(p) = Len(q)
      /\ \A j \in 1 .. Len(q) : p[j] = IF j = n + 1 THEN q[m] ELSE q[j]
  BY <1>q, ExceptSeq
<1> HIDE DEF p
<1>2. /\ w \in Seq(S)
      /\ Len(w) = n + (Len(q) - m + 1)
      /\ \A i \in 1 .. n : w[i] = q[i]
      /\ \A i \in n + 1 .. n + (Len(q) - m + 1) : w[i] = q[m + i - n - 1]
  BY <1>q, WaitsFacts
<1>3. m + 1 \in 1 .. Len(p) + 1 /\ n + 1 < m + 1 /\ n + 1 \in Nat
  BY <1>q, <1>1
<1>4. /\ v \in Seq(S)
      /\ Len(v) = (n + 1) + (Len(p) - (m + 1) + 1)
      /\ \A i \in 1 .. n + 1 : v[i] = p[i]
      /\ \A i \in (n + 1) + 1 .. (n + 1) + (Len(p) - (m + 1) + 1) :
            v[i] = p[(m + 1) + i - (n + 1) - 1]
  BY <1>1, <1>3, WaitsFacts
<1> HIDE DEF v, w
<1>5. Len(v) = Len(w)
  BY <1>q, <1>1, <1>2, <1>4
<1>6. ASSUME NEW i \in 1 .. Len(v) PROVE v[i] = w[i]
  <2>1. CASE i \in 1 .. n
    <3>1. i \in 1 .. n + 1 /\ i \in 1 .. Len(q) /\ i # n + 1
      BY <1>q, <2>1
    <3> QED
      BY <1>1, <1>2, <1>4, <2>1, <3>1
  <2>2. CASE i = n + 1
    <3>1. i \in 1 .. n + 1 /\ i \in n + 1 .. n + (Len(q) - m + 1) /\ m + i - n - 1 = m
      BY <1>q, <2>2
    <3> QED
      BY <1>q, <1>1, <1>2, <1>4, <2>2, <3>1
  <2>3. CASE i > n + 1
    <3>1. /\ i \in n + 1 .. n + (Len(q) - m + 1)
          /\ i \in (n + 1) + 1 .. (n + 1) + (Len(p) - (m + 1) + 1)
          /\ (m + 1) + i - (n + 1) - 1 = m + i - n - 1
          /\ m + i - n - 1 \in 1 .. Len(q)
          /\ m + i - n - 1 # n + 1
      BY <1>q, <1>1, <1>2, <1>5, <2>3
    <3>2. v[i] = p[m + i - n - 1]
      BY <1>4, <3>1
    <3>3. p[m + i - n - 1] = q[m + i - n - 1]
      BY <1>1, <3>1
    <3>4. w[i] = q[m + i - n - 1]
      BY <1>2, <3>1
    <3> QED
      BY <3>2, <3>3, <3>4
  <2>4. i \in 1 .. n \/ i = n + 1 \/ i > n + 1
    <3>1. i \in Nat /\ i >= 1
      BY <1>q, <1>2, <1>5
    <3> QED
      BY <3>1
  <2> QED
    BY <2>1, <2>2, <2>3, <2>4
<1>7. v = w
  BY <1>2, <1>4, <1>5, <1>6, SeqEqual
<1> QED
  BY <1>7 DEF v, w, p

\* The first n of what waits are those the pass has put back.
LEMMA WaitsPrefix ==
    ASSUME NEW S, NEW q \in Seq(S), NEW n \in Nat, NEW m \in 1 .. Len(q) + 1, n < m
    PROVE  SubSeq(Waits(q, n, m), 1, n) = SubSeq(q, 1, n)
<1> DEFINE w == Waits(q, n, m)
<1>1. /\ w \in Seq(S) /\ Len(w) = n + (Len(q) - m + 1)
      /\ \A i \in 1 .. n : w[i] = q[i]
      /\ Len(q) \in Nat
  BY WaitsFacts, LenProperties
<1> HIDE DEF w
<1>2. n \in 0 .. Len(w) /\ n \in 0 .. Len(q)
  BY <1>1
<1>3. /\ SubSeq(w, 1, n) \in Seq(S) /\ Len(SubSeq(w, 1, n)) = n
      /\ \A k \in 1 .. n : SubSeq(w, 1, n)[k] = w[k]
  BY <1>1, <1>2, Prefix
<1>4. /\ SubSeq(q, 1, n) \in Seq(S) /\ Len(SubSeq(q, 1, n)) = n
      /\ \A k \in 1 .. n : SubSeq(q, 1, n)[k] = q[k]
  BY <1>2, Prefix
<1>5. SubSeq(w, 1, n) = SubSeq(q, 1, n)
  BY <1>1, <1>3, <1>4, SeqEqual
<1> QED
  BY <1>5 DEF w

-----------------------------------------------------------------------------
(* The steps *)

AbstractStep == [Abstract!Next]_(Abstract!vars)

\* The instance has operators of its own for those of the community modules.
LEMMA SameOperators ==
    /\ \A s : Abstract!Last(s) = Last(s) /\ Abstract!Front(s) = Front(s)
    /\ \A s, k : Abstract!RemoveAt(s, k) = RemoveAt(s, k)
    /\ \A s, t : Abstract!IsStrictPrefix(s, t) = IsStrictPrefix(s, t)
  BY DEF Abstract!Last, Last, Abstract!Front, Front, Abstract!RemoveAt, RemoveAt,
     Abstract!IsStrictPrefix, Abstract!IsPrefix, IsStrictPrefix, IsPrefix

LEMMA PendingIsWaits == Pending = Waits(asked_interrupts, num_postponed, scan)
  BY DEF Pending, Waits

\* Outside a pass, the array is what waits.
LEMMA PendingOutsidePass ==
    ASSUME TypeInv, scan = 1, num_postponed = 0 PROVE Pending = asked_interrupts
  BY PendingIsWaits, WaitsAll DEF TypeInv, TypeOK

\* Whoever appends to the array, or decides to die, or neither.
LEMMA GrowthIsAsk ==
    ASSUME NEW q \in Seq(Interrupts), NEW p \in Seq(Interrupts),
           Pending = q, Pending' = p,
           Len(q) <= Len(p), Len(p) <= Len(q) + 2,
           \A k \in 1 .. Len(q) : p[k] = q[k],
           UNCHANGED interrupt_type,
           should_die' \in {should_die, TRUE}
    PROVE  AbstractStep
<1>1. Len(q) \in Nat /\ Len(p) \in Nat
  BY LenProperties
<1>2. CASE Len(p) = Len(q)
  <2>1. p = q
    BY <1>2, SeqEqual
  <2>2. CASE should_die' = should_die
    BY <2>1, <2>2 DEF AbstractStep, Abstract!vars
  <2>3. CASE should_die' = TRUE
    <3>1. Pending' = SubSeq(Pending, 1, Len(Pending)) /\ Len(Pending) \in 0 .. Len(Pending)
      BY <1>1, <2>1, SubSeqFull
    <3>2. Abstract!Die
      BY <2>3, <3>1 DEF Abstract!Die
    <3> QED
      BY <3>2 DEF AbstractStep, Abstract!Next
  <2> QED
    BY <2>2, <2>3
<1>3. CASE Len(p) # Len(q)
  <2>1. Len(q) \in 0 .. Len(p) /\ Len(q) \in 0 .. Len(q)
    BY <1>1
  <2>2. /\ SubSeq(p, 1, Len(q)) \in Seq(Interrupts) /\ Len(SubSeq(p, 1, Len(q))) = Len(q)
        /\ \A k \in 1 .. Len(q) : SubSeq(p, 1, Len(q))[k] = p[k]
    BY <2>1, Prefix
  <2>3. SubSeq(p, 1, Len(q)) = q /\ SubSeq(q, 1, Len(q)) = q
    BY <2>2, SeqEqual, SubSeqFull
  <2>4. IsStrictPrefix(Pending, Pending')
    BY <1>3, <2>3 DEF IsStrictPrefix, IsPrefix
  <2>5. Abstract!Ask
    BY <2>4, SameOperators DEF Abstract!Ask
  <2> QED
    BY <2>5 DEF AbstractStep, Abstract!Next
<1> QED
  BY <1>2, <1>3

\* No instruction appends more than two entries.
LEMMA ExecAppends ==
    ASSUME TypeInv, Exec
    PROVE  /\ Len(asked_interrupts') <= Len(asked_interrupts) + 2
           /\ ExecFini \/ UNCHANGED interrupt_type
           /\ should_die' \in {should_die, TRUE}
<1>q. asked_interrupts \in Seq(Interrupts) /\ Len(asked_interrupts) \in Nat
  BY LenProperties DEF TypeInv, TypeOK
<1>1. \A q \in Seq(Interrupts) : \A t \in IntrTypes :
         /\ Append(q, Interrupt(t, NoSetup)) \in Seq(Interrupts)
         /\ Len(Append(q, Interrupt(t, NoSetup))) = Len(q) + 1
         /\ Len(q) \in Nat
  BY EntryType, AppendProperties, LenProperties
<1>2. VM_INTR_EXCEPTION \in IntrTypes /\ (HaveModem => VM_INTR_MODEM \in IntrTypes)
  BY IntrTypesAssumption
<1>3. \A t \in IntrTypes :
         /\ Asked(asked_interrupts, Interrupt(t, NoSetup)) \in Seq(Interrupts)
         /\ Len(Asked(asked_interrupts, Interrupt(t, NoSetup))) <= Len(asked_interrupts) + 1
  BY <1>q, <1>1 DEF Asked
<1>4. \A q \in QueuesAfterAccess : q \in Seq(Interrupts) /\ Len(q) <= Len(asked_interrupts) + 1
  BY <1>q, <1>2, <1>3 DEF QueuesAfterAccess
<1>5. ASSUME NEW e, NEW q \in QueuesAfterAccess \cup {asked_interrupts}, RaiseException(e, q)
      PROVE  Len(asked_interrupts') <= Len(asked_interrupts) + 2
  <2>1. q \in Seq(Interrupts) /\ Len(q) <= Len(asked_interrupts) + 1 /\ Len(q) \in Nat
    BY <1>q, <1>4, LenProperties
  <2>2. asked_interrupts' = Append(q, Interrupt(VM_INTR_EXCEPTION, NoSetup))
    BY <1>5 DEF RaiseException
  <2>3. Len(asked_interrupts') = Len(q) + 1
    BY <1>1, <1>2, <2>1, <2>2
  <2> QED
    BY <1>q, <2>1, <2>3
<1>6. ASSUME NEW e, ExecFault(e) PROVE Len(asked_interrupts') <= Len(asked_interrupts) + 2
  <2>1. PICK q \in QueuesBeforeFault(e) : RaiseException(e, q)
    BY <1>6 DEF ExecFault
  <2>2. q \in QueuesAfterAccess \cup {asked_interrupts}
    BY <2>1 DEF QueuesBeforeFault
  <2> QED
    BY <1>5, <2>1, <2>2
<1>7. Len(asked_interrupts') <= Len(asked_interrupts) + 2
  <2>1. CASE \E e : ExecFault(e)
    BY <1>6, <2>1
  <2>2. CASE ExecFetchFault
    BY <1>5, <2>2 DEF ExecFetchFault
  <2>3. CASE \E t \in IntrTypes : ExecInt(t)
    BY <1>q, <1>3, <2>3 DEF ExecInt, Trigger
  <2>4. CASE ExecOrdinary
    BY <1>q, <1>4, <2>4 DEF ExecOrdinary
  <2>5. CASE asked_interrupts' = asked_interrupts
    BY <1>q, <2>5
  <2> QED
    BY <2>1, <2>2, <2>3, <2>4, <2>5
    DEF Exec, ExecSkip, ExecSetVector, ExecHlt, ExecMask, ExecFini, ExecFiniOutside
<1>8. ExecFini \/ UNCHANGED interrupt_type
  BY DEF Exec, ExecSkip, ExecOrdinary, ExecSetVector, ExecFault, ExecHlt, ExecFetchFault,
     ExecInt, ExecMask, ExecFiniOutside, frames
<1>9. should_die' \in {should_die, TRUE}
  <2>1. should_die' \in BOOLEAN /\ should_die \in BOOLEAN
    BY ExecType DEF TypeInv, TypeOK
  <2>2. should_die => should_die'
    BY DEF Exec, ExecSkip, ExecOrdinary, ExecSetVector, ExecFault, ExecHlt, ExecFetchFault,
       ExecInt, ExecMask, ExecFini, ExecFiniOutside, Executing
  <2> QED
    BY <2>1, <2>2
<1> QED
  BY <1>7, <1>8, <1>9

LEMMA RefineExec == TypeInv /\ TimerInv /\ Exec => AbstractStep
<1> SUFFICES ASSUME TypeInv, TimerInv, Exec PROVE AbstractStep
  OBVIOUS
<1>1. phase = "exec" /\ scan = 1 /\ num_postponed = 0 /\ scan' = 1 /\ num_postponed' = 0
  BY ExecQueue DEF TimerInv
<1>2. /\ TypeInv'
      /\ asked_interrupts \in Seq(Interrupts) /\ Len(asked_interrupts) \in Nat
      /\ asked_interrupts' \in Seq(Interrupts)
  BY ExecType, LenProperties DEF TypeInv, TypeOK
<1>3. Pending = asked_interrupts /\ Pending' = asked_interrupts'
  <2>1. Pending = asked_interrupts
    BY <1>1, PendingOutsidePass
  <2>2. Pending' = Waits(asked_interrupts', num_postponed', scan')
    BY DEF Pending, Waits
  <2> QED
    BY <1>1, <1>2, <2>1, <2>2, WaitsAll
<1>4. CASE ExecFini
  <2>1. Abstract!Return
    BY <1>3, <1>4, SameOperators DEF ExecFini, Abstract!Return
  <2> QED
    BY <2>1 DEF AbstractStep, Abstract!Next
<1>5. CASE UNCHANGED interrupt_type
  <2>1. /\ Len(asked_interrupts) <= Len(asked_interrupts')
        /\ \A k \in 1 .. Len(asked_interrupts) : asked_interrupts'[k] = asked_interrupts[k]
    BY <1>2, ExecQueue
  <2> QED
    BY <1>2, <1>3, <1>5, <2>1, ExecAppends, GrowthIsAsk
<1> QED
  BY <1>4, <1>5, ExecAppends

\* The pass delivers the oldest request that is due, because everything it has
\* put back is not due at the level of whatever handler it has entered since.
LEMMA OldestDue ==
    ASSUME TypeInv, QueueInv, Dispatching, Outranks(Current)
    PROVE  /\ num_postponed + 1 \in DOMAIN Pending
           /\ Pending[num_postponed + 1] = Current
           /\ Abstract!Due(Pending[num_postponed + 1])
           /\ \A j \in 1 .. num_postponed : ~Abstract!Due(Pending[j])
           /\ Waits(asked_interrupts, num_postponed, scan + 1)
                = RemoveAt(Pending, num_postponed + 1)
<1>q. /\ asked_interrupts \in Seq(Interrupts) /\ Len(asked_interrupts) \in Nat
      /\ num_postponed \in Nat /\ num_postponed < scan
      /\ scan \in 1 .. Len(asked_interrupts)
  BY CurrentFacts, LenProperties DEF TypeInv, TypeOK
<1>1. /\ num_postponed + 1 \in DOMAIN Pending
      /\ Pending[num_postponed + 1] = Current
      /\ \A j \in 1 .. num_postponed : Pending[j] = asked_interrupts[j]
      /\ Waits(asked_interrupts, num_postponed, scan + 1) = RemoveAt(Pending, num_postponed + 1)
  BY <1>q, PendingIsWaits, WaitsDelivered DEF Current
<1>2. ASSUME NEW j \in 1 .. num_postponed PROVE ~Abstract!Due(Pending[j])
  <2>1. asked_interrupts[j] \in Interrupts /\ Pending[j] = asked_interrupts[j]
    BY <1>q, <1>1
  <2>2. Priority(asked_interrupts[j].type) \in Int /\ Priority(asked_interrupts[j].type) >= 0
    BY <2>1, PriorityInt DEF Interrupts
  <2>3. Priority(asked_interrupts[j].type) <= Level
    BY DEF QueueInv, Dispatching
  <2>4. interrupt_type # << >> /\ Level \in Int
    BY <2>2, <2>3, LevelFacts
  <2>5. ~(Priority(Last(interrupt_type)) < Priority(asked_interrupts[j].type))
    BY <2>2, <2>3, <2>4, LevelFacts
  <2> QED
    BY <2>1, <2>4, <2>5, SameOperators DEF Abstract!Due
<1>3. Abstract!Due(Pending[num_postponed + 1])
  BY <1>1, SameOperators DEF Abstract!Due, Outranks
<1> QED
  BY <1>1, <1>2, <1>3

LEMMA RefineDispatch == TypeInv /\ QueueInv /\ Dispatch => AbstractStep
<1> SUFFICES ASSUME TypeInv, QueueInv, Dispatch PROVE AbstractStep
  OBVIOUS
<1>q. /\ asked_interrupts \in Seq(Interrupts) /\ Len(asked_interrupts) \in Nat
      /\ num_postponed \in 0 .. scan - 1 /\ num_postponed \in Nat /\ num_postponed < scan
      /\ scan \in 1 .. Len(asked_interrupts) + 1
      /\ num_postponed \in 0 .. Len(asked_interrupts)
  BY LenProperties DEF TypeInv, TypeOK
<1>p. Pending' = Waits(asked_interrupts', num_postponed', scan')
  BY DEF Pending, Waits
<1>1. CASE DispatchEnter \/ DispatchIgnore
  <2>1. /\ Dispatching /\ Outranks(Current)
        /\ UNCHANGED <<asked_interrupts, num_postponed, should_die>> /\ scan' = scan + 1
        /\ interrupt_type' \in {interrupt_type, Append(interrupt_type, Current.type)}
    BY <1>1 DEF DispatchEnter, DispatchIgnore, frames
  <2>2. Pending' = RemoveAt(Pending, num_postponed + 1)
    BY <1>p, <2>1, OldestDue
  <2>3. /\ num_postponed + 1 \in DOMAIN Pending
        /\ Abstract!Due(Pending[num_postponed + 1])
        /\ \A j \in 1 .. (num_postponed + 1) - 1 : ~Abstract!Due(Pending[j])
        /\ interrupt_type' \in {interrupt_type,
                                Append(interrupt_type, Pending[num_postponed + 1].type)}
    BY <1>q, <2>1, OldestDue
  <2>4. Abstract!Deliver
    BY <2>1, <2>2, <2>3, SameOperators DEF Abstract!Deliver
  <2> QED
    BY <2>4 DEF AbstractStep, Abstract!Next
<1>2. CASE DispatchPostpone
  <2>1. /\ scan \in 1 .. Len(asked_interrupts)
        /\ asked_interrupts' = [asked_interrupts EXCEPT ![num_postponed + 1] = asked_interrupts[scan]]
        /\ num_postponed' = num_postponed + 1 /\ scan' = scan + 1
        /\ UNCHANGED <<interrupt_type, should_die>>
    BY <1>2, CurrentFacts DEF DispatchPostpone, Compacted, Current, frames
  <2>2. Pending' = Pending
    BY <1>p, <1>q, <2>1, WaitsPutBack, PendingIsWaits
  <2> QED
    BY <2>1, <2>2 DEF AbstractStep, Abstract!vars
<1>e. ASSUME EndPass PROVE Pending' = SubSeq(Pending, 1, num_postponed) /\ UNCHANGED interrupt_type
  <2>1. /\ asked_interrupts' = SubSeq(asked_interrupts, 1, num_postponed)
        /\ scan' = 1 /\ num_postponed' = 0
    BY <1>e DEF EndPass
  <2>2. asked_interrupts' \in Seq(Interrupts)
    BY <1>q, <2>1, Prefix
  <2>3. Pending' = asked_interrupts'
    BY <1>p, <2>1, <2>2, WaitsAll
  <2> QED
    BY <1>e, <1>q, <2>1, <2>3, WaitsPrefix, PendingIsWaits DEF EndPass, frames
<1>3. CASE DispatchCrash
  <2>1. num_postponed \in 0 .. Len(Pending)
    <3>1. Len(Pending) = num_postponed + (Len(asked_interrupts) - scan + 1)
      BY <1>q, PendingIsWaits, WaitsFacts
    <3> QED
      BY <1>q, <3>1
  <2>2. Abstract!Die
    BY <1>3, <1>e, <2>1 DEF DispatchCrash, Abstract!Die
  <2> QED
    BY <2>2 DEF AbstractStep, Abstract!Next
<1>4. CASE DispatchEnd
  <2>1. scan = Len(asked_interrupts) + 1
    BY <1>4, <1>q DEF DispatchEnd
  <2>2. Pending \in Seq(Interrupts) /\ Len(Pending) = num_postponed
    <3>1. /\ Waits(asked_interrupts, num_postponed, scan) \in Seq(Interrupts)
          /\ Len(Waits(asked_interrupts, num_postponed, scan))
                = num_postponed + (Len(asked_interrupts) - scan + 1)
      BY <1>q, WaitsFacts
    <3>2. num_postponed + (Len(asked_interrupts) - scan + 1) = num_postponed
      BY <1>q, <2>1
    <3> QED
      BY <3>1, <3>2, PendingIsWaits
  <2>3. Pending' = Pending
    BY <1>4, <1>e, <2>2, SubSeqFull DEF DispatchEnd
  <2> QED
    BY <1>4, <1>e, <2>3 DEF DispatchEnd, AbstractStep, Abstract!vars
<1> QED
  BY <1>1, <1>2, <1>3, <1>4 DEF Dispatch

LEMMA RefineDevices == TypeInv /\ TimerInv /\ Devices => AbstractStep
<1> SUFFICES ASSUME TypeInv, TimerInv, Devices PROVE AbstractStep
  OBVIOUS
<1>1. /\ phase # "dispatch" /\ UNCHANGED locals /\ UNCHANGED interrupt_type
  BY DEF Devices, EndBatch, CrtKey, CrtClose, CrtDone, ModemUpdate, TimerFires, TimerIdle,
     Untouched, frames
<1>2. /\ scan = 1 /\ num_postponed = 0 /\ scan' = 1 /\ num_postponed' = 0
  BY <1>1 DEF TimerInv, locals
<1>3. /\ asked_interrupts \in Seq(Interrupts) /\ Len(asked_interrupts) \in Nat
      /\ asked_interrupts' \in Seq(Interrupts)
      /\ should_die \in BOOLEAN /\ should_die' \in BOOLEAN
  BY DevicesType, LenProperties DEF TypeInv, TypeOK
<1>4. Pending = asked_interrupts /\ Pending' = asked_interrupts'
  <2>1. Pending' = Waits(asked_interrupts', num_postponed', scan')
    BY DEF Pending, Waits
  <2> QED
    BY <1>2, <1>3, <2>1, WaitsAll, PendingOutsidePass
<1>5. should_die' \in {should_die, TRUE}
  <2>1. should_die => should_die'
    BY DEF Devices, EndBatch, CrtKey, CrtClose, CrtDone, ModemUpdate, TimerFires, TimerIdle
  <2> QED
    BY <1>3, <2>1
<1>6. ASSUME NEW e \in Interrupts, Trigger(e) PROVE AbstractStep
  <2>1. asked_interrupts' \in {asked_interrupts, Append(asked_interrupts, e)}
    BY <1>6 DEF Trigger, Asked
  <2>2. /\ Len(asked_interrupts) <= Len(asked_interrupts')
        /\ Len(asked_interrupts') <= Len(asked_interrupts) + 2
        /\ \A k \in 1 .. Len(asked_interrupts) : asked_interrupts'[k] = asked_interrupts[k]
    BY <1>3, <2>1, AppendProperties
  <2> QED
    BY <1>1, <1>3, <1>4, <1>5, <2>2, GrowthIsAsk
<1>7. CASE UNCHANGED asked_interrupts
  <2>1. /\ Len(asked_interrupts) <= Len(asked_interrupts')
        /\ Len(asked_interrupts') <= Len(asked_interrupts) + 2
    BY <1>3, <1>7
  <2> QED
    BY <1>1, <1>3, <1>4, <1>5, <1>7, <2>1, GrowthIsAsk
<1>8. \/ UNCHANGED asked_interrupts
      \/ \E e \in Interrupts : Trigger(e)
  <2>1. ASSUME NEW k \in KeyEvents, CrtKey(k) PROVE \E e \in Interrupts : Trigger(e)
    BY <2>1, EntryType DEF CrtKey, KeyToIntr
  <2>2. CASE TimerFires
    BY <2>2, EntryType DEF TimerFires
  <2>3. CASE ModemUpdate
    BY <2>3, EntryType DEF ModemUpdate
  <2> QED
    BY <2>1, <2>2, <2>3 DEF Devices, EndBatch, CrtClose, CrtDone, TimerIdle
<1> QED
  BY <1>6, <1>7, <1>8

\* The array of requests, compacted in place by a loop that enters handlers as
\* it goes, is a queue from which the oldest request that outranks what runs is
\* delivered, and in which nothing is lost, duplicated or overtaken by its
\* equals (mainloop.c:121-161, state.c:97-108).
THEOREM ProcessorImplementsPriorityInterrupts == Spec => ImplementsPriorityInterrupts
<1>1. Init => Abstract!Init
  <2> SUFFICES ASSUME Init PROVE Abstract!Init
    OBVIOUS
  <2>1. asked_interrupts = << >> /\ asked_interrupts \in Seq(Interrupts) /\ scan = 1 /\ num_postponed = 0
    BY EmptySeq DEF Init
  <2>2. Pending = << >>
    BY <2>1, PendingIsWaits, WaitsAll
  <2> QED
    BY <2>2 DEF Init, Abstract!Init
<1>2. TypeInv /\ QueueInv /\ TimerInv /\ [Next]_vars => [Abstract!Next]_(Abstract!vars)
  <2>1. UNCHANGED vars => UNCHANGED Abstract!vars
    BY DEF vars, frames, locals, Abstract!vars, Pending
  <2> QED
    BY <2>1, RefineExec, RefineDispatch, RefineDevices DEF Next, Stopped, AbstractStep
<1> QED
  BY <1>1, <1>2, TypeCorrect, QueueCorrect, TimerCorrect, PTL
  DEF Spec, ImplementsPriorityInterrupts, Abstract!Spec

=============================================================================
