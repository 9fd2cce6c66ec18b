# A verification project for ivm

`ivm` (`src/`) is an emulator of a small stack machine, its assembler and its
disassembler, in C. This directory holds TLA+ models of the parts whose
correctness depends on the order of events or on the exact interplay of several
functions, TLC configurations that check them on small instances, and TLAPS
proofs of their main properties for every value of the constants.

Run inside this directory: `tlc -config VmQueue.cfg MCVmCore` checks a run,
`tlapm VmCoreProofs.tla` a proof module. `PROJECT.json` lists components, runs,
the source lines of every definition, hazards, findings and theorems.

## 1. The system

| Part | Source | State | Operations | How it interacts |
|---|---|---|---|---|
| Main loop | `vm/main.c` | `should_die` | 1000 x `vm_exec`, then CRT, modem, timer | calls everything, on one thread |
| Processor | `vm/mainloop.c`, `vm/state.c` | `pc`, `is_halted`, interrupt table, handler stack, `asked_interrupts`, exception registers | execute, trigger, raise, halt, the pass over the queue | devices push requests into its queue; requests carry a `setup_state` callback into the device |
| Instructions | `vm/ops.c` | data stack, `v2_sp`, `v2_sf` | one function per opcode | memory, queue |
| Memory | `vm/mem.c` | RAM, ROM, device table | byte-wise reads and writes, segfault | dispatches to the devices' readers and writers |
| Modem | `vm/dev/modem.c` | `fd`, `status`, `error`, arguments | six commands, update | one TCP socket; asks for interrupt 8 from the main loop **and** from inside an instruction |
| CRT, keyboard | `vm/dev/crt.c` | segments, free pool, held keys, key registers | move/draw, tick, key events | window; asks for interrupt 7 |
| Printer | `vm/dev/printer.c` | none | write | terminal |
| Modem program | `examples/v2/modem.s` | its place, its stack | connect, send, wait; receive in a handler | the modem's registers, from the main program **and** from the handler |
| Assembler driver | `asm/main.c`, `asm/asm.c`, `asm/ast.c`, `asm/arch/ivm.c` | statements, location, output | reads a file with its includes; first pass, symbols, second pass | symbol table, calculator, parser library |
| Symbol table | `asm/symtab.c` | entries with their step, the loop being reported | add, look up, compute all | computes a symbol through the calculator, which calls back for every name |
| Calculator | `asm/calc.c` | a stack of values and one of operators | one expression | calls back into the symbol table |
| Disassembler | `ivm-objdump/main.c` | none | one loop | none |
| Dynamic arrays | `common/array.c` | a block with length and capacity | push, pop, top, resize | the stacks and queues of all the others |
| Parser library | `common/parser/*` | none | match and trim characters, report errors | the assembler |
| Utilities | `common/util.c` | none | read a file, end the process | all |

There is one thread, so the hard behaviour is not preemption: it is the
interleaving of *requests*. A device, an instruction, a fault and the program's
own masking meet in `asked_interrupts`, which is scanned only after an
instruction; whoever asks while the machine is halted, masked, in a handler or
in the middle of the scan meets another branch. Around the modem the network
can send, shut down, reset or fail between any two commands. The remaining hard
parts are sequential: byte-wise accesses that fault half way; a recursion between
symbol table and calculator that is left by `longjmp` when symbols form a loop;
two assembler passes that must agree though different functions do them; blocks
of memory that grow under the items they hold.

What makes each part correct:

* processor: handlers nest strictly by priority; requests are delivered oldest
  first among those that are due, none is lost or duplicated once accepted; a
  due request is not slept on; a fault reaches its handler before the next
  instruction or stops the machine; the exception registers describe the fault
  being handled; devices keep getting their turn;
* modem: exactly one socket, closed on every path; the flags agree with it;
  errors have a reason; RECV never blocks the machine; data is announced;
* processor and modem together: what the modem announces reaches the program,
  once, and all that comes is read;
* CRT and keyboard: segments are in the list or in the pool, never both; each
  press has one release; the window is closed at exit;
* memory and instructions: a faulting access changes what the code says it
  changes and no more; bounds of RAM, ROM and the device table;
* assembler: both passes give every label the same address, and relative jumps
  reach it; constants have the value they mean whatever the order of their
  definitions; a loop among them is reported, and what is reported is a loop;
  every program is assembled or refused;
* dynamic arrays: a list of items, at every length and capacity.

## 2. Modules

| Module | Models |
|---|---|
| `VmCore` | the main loop, one instruction at a time; the interrupt machinery; the devices as sources of requests |
| `PriorityInterrupts` | the abstract promise about interrupts: a queue, a stack, four steps |
| `MCVmCore` | TLC instances of `VmCore` |
| `VmCoreProofs` | theorems about `VmCore`, and that it implements `PriorityInterrupts` |
| `Modem` | the modem device, with program, main loop and network around it |
| `MCModem`, `ModemProofs` | its TLC instance and theorems |
| `Receiver` | processor and modem together, under the example program `examples/v2/modem.s` (instances of `VmCore` and `Modem`) |
| `ReceiverProofs` | theorems about the composition |
| `Crt` | the display's segments and the keyboard's held keys |
| `Phosphor` | the abstract screen: a queue of lines that fade |
| `MCCrt`, `CrtProofs` | the TLC instance and theorems of `Crt` |
| `Words` | arithmetic of words, shared by the processor and the assembler |
| `WordsProofs` | lemmas about it, for every width of a word and a byte |
| `Machine` | what each instruction does to stacks, registers and memory (extends `Words`) |
| `MCMachine`, `MachineProofs` | its TLC instance and theorems |
| `Calc` | the expression calculator, one activation of it (extends `Words`) |
| `Symtab` | the symbol table and the recursion through the calculator (extends `Calc`) |
| `Assembler` | files, the two passes, output (extends `Symtab`) |
| `Meanings` | what a program means, defined without the assembler (extends `Assembler`) |
| `MCAssembler`, `AssemblerProofs` | the TLC instance and theorems of `Assembler` |
| `DynArray` | dynamic arrays, byte by byte |
| `ItemList` | the abstract list |
| `DynArrayProofs` | theorems about `DynArray` |

### VmCore

Variables have the names of the fields of `vm_state`; `kb_regs` stands for the
three keyboard registers, `is_waiting` is the timer's static flag, `phase`,
`n_ops`, `scan` and `num_postponed` are the program counter and locals of
`main` and `vm_exec`. `IntrTypes`, `Handlers`, `Exceptions`, `KeyEvents` are the
values in use; `OPS_PER_UPDATE` is the batch length, 1000 in the code.

The *program* is not a constant: each `Exec...` action is one kind of
instruction and any of them may come next at any address, so a behaviour of the
model covers every ROM, including code that modifies itself. Instructions that
neither fault nor touch interrupts are one action, `ExecOrdinary`, which sends
`pc` anywhere. `ExecFetchFault` is the case that `vm_mem_read` fails on the
opcode: its result is not tested and opcode 0 (`hlt`) executes. A fault resumes
at `pc`, `pc + 1` or `pc + 9` depending on the instruction (`ResumeOffsets`).
A read of the modem's status byte and its RECV command run `vm_modem_update`,
so an ordinary or a faulting instruction may ask for the modem's interrupt.

The loop at the end of `vm_exec` takes one step per entry. `DispatchEnter`,
`DispatchIgnore`, `DispatchPostpone` and `DispatchCrash` are its branches, with
the in-place compaction (`Compacted`) and the callback (`RunSetup`);
`DispatchEnd` is the final resize. `EndBatch`, `CrtKey`, `CrtClose`, `CrtDone`,
`ModemUpdate`, `TimerFires`, `TimerIdle` are the rest of a turn; whether time
has passed, a key was pressed or data has come is nondeterministic there.

### PriorityInterrupts and the refinement

The abstract machine has `pending` (a sequence), `active` (the types being
handled) and `dead`. A step asks (appends one or two requests), delivers the
oldest request that outranks the innermost active type, returns, or dies. The
property `ImplementsPriorityInterrupts` of `VmCore` is this specification with
`pending` replaced by *the compacted prefix of the array followed by the part
not yet scanned*: in the middle of a pass the array itself holds stale copies,
and only this reading shows that no request is lost or delivered twice.

### Modem

The functions of `modem.c` are operators from a record of the modem, its socket
and its request to the set of its possible outcomes; an action applies one of
them to the state (`Become`), because RECV and the read of the status byte
call `vm_modem_update` inside. Flags are sets, bytes are counted. `open_fds`
are the descriptors the process holds, so a leak is visible. `peer` and
`unread` are the host's side of the connection: the peer sends, shuts down its
side, resets (with what was not read lost or not), or the connection fails
with another error. `asked` says that interrupt 8 waits in the queue of the
processor; `Mask` and `Delivered` are what `VmCore` does to it. A write of an
argument is one step, not eight bytes; commands that block in the host
(`connect`, `send`) are taken to return.

The bounds test of SEND and RECV adds a 64-bit size to a pointer, so its sum wraps
around (`InBounds`): RAM and ROM lie at `RAM_AT` and `ROM_AT` among `POINTERS` host
addresses. A size large enough passes the test, and a RECV with it may then store
outside of its region. What memory of the host that was the model does not say: it
ends there (`Intact`, `Running`), and what it shows is that nothing else leads there.

### Receiver

`VmCore` takes from any device any request, and `Modem` takes from any program any
command and any masking. `Receiver` puts the two together: each takes from the
other what the other does. `Cpu` and `Dev` are instances of the two modules with
their own variables; `asked`, the modem's request, is not a variable here but the
presence of its entry in the processor's queue (`ModemAsked`), and an access or an
update of the modem is one step that takes an outcome of `Dev` and appends to the
queue of `Cpu` if the outcome asks (`Takes`, `Queued`). The program is fixed: it is
`examples/v2/modem.s`, the only one in the repository that receives by interrupt.
`SetHandler`, `PutArgument`, `PutCommand`, `PutRecv`, `GetStatus`, `Branch`,
`Straight` and `Control` are its instructions, by what they do; an instruction that
touches neither modem nor interrupts nor control between these (printing, the
stack) is left out, since `ExecOrdinary` of `VmCore` says that it changes nothing
that is kept. `seen` is the status bit on the data stack that a branch decides on.
`MainLoop`, `TimerFires` and `ModemUpdate` are the rest of `main`, `Exit` is
`vm_modem_destroy` behind it. `noticed` is history.

### Crt and Phosphor

`segs`, `seg_pool`, `oldest_idx`, `newest_idx`, `cursor` and `keys` are the
fields of `vm_crt`. The array begins at 1 and 0 stands for the index -1. Times
are ages: `TimePasses` makes every segment and the last tick one unit older, up
to the age after which the code no longer distinguishes them. `Move` is
`_vm_crt_move`; one call of `vm_crt_loop` is `CloseWindow`, or `Tick` followed
by one step for each round of its three loops: presses (`TakePress`), keys held
(`KeepKey`, `ReportRelease`, which compact the array they read) and faded
segments (`Recycle`), each with its end; `phase` says which loop it is in.
`Destroy` is `vm_crt_destroy` with its one more call of the loop, which may find
that no tick is due. `down` and `pressed` are what raylib knows of the keys;
`owed` is the history of what the device asked of the processor: presses less
releases.

The start time of a line is not modelled: the code measures the distance to draw
from a cursor it has already moved (`crt.c:45`, `55`), so it is always the end
time, and only its sign (was the ray lit) is used.

`Phosphor` knows nothing of arrays: lines are appended, age together and leave
at the front once faded. `ImplementsPhosphor` reads `lines` off the linked list
as the drawing loop does.

### Machine

The processor's data as a record and each function of `ops.c` as an operator on
it; an action applies one to a machine of `Starts`, and that is the whole
behaviour, because the instructions have no memory but the machine. `Load` and
`Store` are `vm_mem_read` and `vm_mem_write` with the readers and writers
behind them; they go byte by byte in the sense that `Reach` says how far the
loop gets. `raised` marks that the instruction raised an exception; what becomes
of it, and the five instructions that concern interrupts, are in `VmCore`, and
`FaultsGoOnBehind` shows that the resume addresses used there are right. Where `pc`
cannot be executed the fetch is the step (`FetchFails`): it raises a segfault, or
takes the emulator down, and then 0 is executed; jumps, calls and returns may lead
there, so `pc` of a machine in `Starts` is any word.
`Words` is the arithmetic: words that wrap around, unsigned readings, bytes, bits,
shifts modulo the width, division towards zero.
`host = "crashed"` is an emulator that died: the byte behind the exception
registers, a division that overflows, a device table indexed by a negative
address (which may also go well: `wild`). `left_first` is the order in which the
compiler evaluates the two pops of a comparison, and `sfbegin`, which lacks its
return, may or may not count as a jump.

### Calc, Symtab and Assembler

The assembler is deterministic but for its input: the program, a function from
file names to sequences of statements, is chosen in `Init` from `Sources`. An
expression is a sequence of tokens.

`Calc` is one activation of `ivm_compute_expression`: its two stacks, its place
among the tokens and whether the last token ended an operand. `MustExecute` is
the condition of the loops that execute operators of at least the priority of
the next one; `Executed`, `Shifted` and `Operand` are what a step leaves;
`ExecuteFails`, `ExecutePanics`, `TokenFails`, `EndFails`, `EndPanics` are its
ends, a reported error or a dead process (a `check$` that fails, a division that
traps).

`Symtab` puts such activations on `frames`, the C stack of `_compute_fn`. A name
met in an expression is one step: `TakeLabel`, `TakeConstant` (a call: the entry is
IN_PROGRESS, a frame is pushed), `FindLoop` (the first `longjmp`), `TakeValue` in
the second pass, where `_fake_get_value` answers. `Return` stores the value and
resumes the caller. Note that a constant that is DONE is computed again by
whoever names it (`symtab.c:124`). `Unwind` is one `longjmp`: the innermost
activation prints its line of the report, becomes DONE and is gone.

`Assembler` is the rest. `Open`, `ReadInclude`, `ReadStatement` and `ReadEnd` are
`parse_source` with its recursion on includes (`reading`); the `Layout...` actions
the first pass; `Resolve...` the loop of `ivm_symtab_compute_values`; `Emit...` the
second pass, statement by statement and argument by argument. Three mnemonics
stand for the table, one of each kind of flag. `output` holds items with their
address rather than bytes, but a number in it is cut to its size. `phase` also
names the four ends: done, failed (a report), panicked, and trimming, the loop of
`match.c:79` that never ends.

`Meanings` is the reference. It knows nothing of stacks, frames, passes or
steps: `Values` evaluates an expression by splitting it at its outermost operator,
`Flat` substitutes includes, `Address` adds up sizes, `Meaning` is the fixpoint of
constants whose expressions can be evaluated, and `Good` says when a program
means something in all its parts. Its recursive operators keep it out of the
proofs.

### DynArray and ItemList

`data` is the block, a function from 0 to `availiable * ITEM`, so that a write
outside the block would not be one of the model. What `realloc` adds is `Junk`,
which is no byte. `Push` with its growth, `Pop`, `Top` and `Resize` keep the zero
byte behind the items as the code does (`Resize` does not). `PushWithoutMemory` is
`realloc` that fails, where the code writes through the result before it tests it.
`ItemList` is a sequence with the same four calls; `ImplementsItemList` reads the
items off the block.

## 3. Runs

| Run | Question | Instance | Result |
|---|---|---|---|
| `vm_queue` | types, nesting, wake-up, the timer's flag, key registers, refinement | keyboard, timer and exceptions, queue of 2 or more, batch of 1 | holds, 1.6 million states |
| `vm_faults` | faults, halting, exception registers; devices keep their turn, death stops | modem (priority 0), timer, exceptions, two code addresses, batch of 2, `push` of length 1, weak fairness | holds, 772 thousand states |
| `vm_timer_lost` | "triggers at interval" | the same devices, batch of 1, weak fairness | violated |
| `vm_halted_handler` | "interrupts will un-halt it" | two addresses | violated |
| `vm_masked_fault` | "Exception is non-maskable" | two addresses | violated |
| `modem` | socket, flags, RECV, announcements | RAM and ROM of two bytes at 3 and 1 of seven host addresses, sizes up to two and the largest, two descriptors, streams of two bytes | holds, 155 thousand states |
| `modem_closing` | "triggered ... when connection is closed" | the same | violated |
| `receiver` | does what the modem announces reach the program, once, and is all of it read | batches of 2, memory of 7 bytes, a buffer of two, streams of two bytes, weak and strong fairness | holds, 15 thousand states |
| `crt` | list and pool, fading, held keys, refinement, liveness | two positions, two keys, two presses at a time, two segments, fade and tick of one unit | holds, 345 thousand states |
| `machine` | what instructions take, leave and store, with and without faults, and when the emulator dies | words of 4 bytes of 2 bits, 41 addresses, 2,486 machines | holds, 133 thousand states |
| `assembler` | passes, jumps, values of constants, loops among them, termination | words of 8 bytes of 2 bits, some 17,000 programs | holds, 289 thousand states |
| `dyn_array` | the block is a list | items of two bytes of one bit, up to five | holds, 40 thousand states |

**Properties of the processor.** `NestingStrict`: the handler stack is strictly
increasing in priority, so its depth is bounded and no handler is re-entered.
`NeverSleepsOnDue`: between two instructions of a batch, and while halted,
nothing in the queue outranks what runs. `OneTimerInFlight`: at most one request
of the timer device waits, and only while `is_waiting`. `KeyRegsStable`: the
key registers do not change while a key handler is on the stack.
`HaltedIsWakeable`: a live halted machine has interrupts enabled.
`FaultsAreDelivered`: an exception in the queue means that one is being handled.
`ExceptionRegsMatchFrame`: outside an exception handler the registers are clear
and inside it the address to resume is in a frame; it fails both if `fini` forgets to
clear them and if a fault of the handler itself, which overwrites them, does not stop
the machine. `DevicesKeepTheirTurn` and
`DeathStops` are liveness properties.

**Properties of the modem.** `NoSocketLeak`, `ConnectedIffSocket`,
`RecvNeverBlocks`; `OverrunsOnlyByWrapping`: a step after which the modem has stored
outside a region of memory is one in which the sum of the bounds test wrapped; and
`LeftoversAreAnnounced` (liveness: bytes that INCM does not show yet lead to an
interrupt, unless the program masks it, reads them or loses the connection).

**Properties of processor and modem together.** `AnnouncementKept`: while INCM is
set, and since an edge of INCM is announced once only, the request is in the queue or
the handler has still to receive. `OneRequestEach`: the queue holds one request of
each device at most, and none of the modem while its handler is still to receive.
`NeverInVain`: a handler on a living connection finds bytes. `IsModem`: the modem
under this program is a behaviour of `Modem`, so that every property of `Modem` holds
of it. `AllIsRead` (liveness): bytes that the peer has sent are read, or the
connection or the machine ends.

**Properties of the display and keyboard.** `SegmentsAccounted`: the list ends,
at `newest_idx`, and with the pool holds every place exactly once, also in the
middle of recycling. `ImplementsPhosphor`: no visible line is lost, doubled or
joined to the wrong end. `TickForgetsAllFaded` (a theorem): looking at the head only
is enough. `ReleasesMatchPresses`: one release for each press, for a key that was
pressed twice between polls too, and at every step of the loop that compacts
the array of held keys while it reports from it. `SegmentsAreFreed` and `KeysAreReleased` are
liveness properties; the second says of a key that is not pressed again and
again that everything owed is paid, as long as the window is open.

**Properties of the instructions.** `StackDiscipline`: operands and results as
in `docs/cheatsheet.txt`, and values below the operands survive even a fault.
`StoresStopAtFault`: memory changes only from the target of a store up to the
address the fault reports. `FaultsGoOnBehind`: see above. `FramesNest`: `sfend`
undoes `sfbegin`, whatever was pushed or framed in between. `ReadBackWritten` (a theorem):
`get` undoes `put`, for every size, also across RAM's and the vectors' edges.
`EmulatorDiesKnown`: of the instructions of `Machine`, and of the fetch of the next
one, the emulator itself dies in four ways: a quotient that no word holds, a read at a
negative address, a read of byte 0x111, and a fetch at a negative address, to which any
jump, return or handler may lead. Stores and offsets into the stack are checked.

**Properties of the assembler.** `PassesAgree`: the second pass writes each
statement, and each argument of an instruction, where the first pass has put it.
`JumpsLand`: the number pushed for a relative jump to a label, added as the processor
adds it to the address of the opcode, is the label's address. `InProgressIsOnStack`:
an entry is IN_PROGRESS exactly while one activation computes it, which is what
makes `_get_value` take for a loop only what is one. `LoopReportIsACycle`: the
report is a loop, every line naming the one above, drawn from where it was
found to the entry where it closes and marked as the comment at `symtab.c:97`
shows. `ConstantsMeanWhatTheySay`: after `ivm_symtab_compute_values` each constant
has its meaning by `Meanings`, for every order of the definitions.
`GoodProgramsAreAssembled`: nothing that means something is refused or kills the
assembler. `Terminates`: every program without `;` ends.

**Property of the arrays.** `ImplementsItemList`: every call gives and leaves what
it would on a list. `dyn_array` allows deadlock because `die` ends the process.

**Bounds.**

* `VmCore`: `MaxAsked` limits only *triggers*: a request is not made while the
  queue holds that many entries, exceptions excepted, so the queue grows to
  `MaxAsked + 1`. Two entries are enough for every branch of the compaction
  (kept after delivered, delivered after kept); priorities take four values, and
  the instances hold three of them at a time, which is one more than two entries
  can compare with one frame. `MaxPc` wraps addresses around; one address is
  enough where no property compares addresses, two separate the fault from its
  resume address. `vm_faults` has a queue of one trigger and the exceptions,
  which are always accepted: its questions are about what happens between two
  requests, not about their order. The proofs have none of these bounds except
  `MaxAsked`, which only removes steps.
* `Modem`: two descriptors are enough to see a leak, because a leaked one stays
  in `open_fds`. With seven host addresses the largest size wraps the sum for every
  buffer, and the others for none; regions of two bytes have buffers that fit, end at
  the end and run over it.
* `Receiver`: two bytes of stream and a buffer of one byte more than a read needs give
  reads that leave nothing and reads that leave something; batches of two let updates
  come between any two instructions or after several (3 and 5 were tried, as were
  streams of three bytes). Buffer and size are the program's, so that with eight host
  addresses no sum wraps (the last assumption of `Receiver`). `MaxAsked` is 5 and never reached: `QueueIsShort` proves
  that the queue never has more than two entries between passes. One descriptor is
  enough, the leak of one being the question of `modem`.
* `Crt`: two segments give every shape of list and pool up to both full, with
  reuse; with a fade of one unit a segment is new, old or faded; two keys and
  two presses give a double press, two keys at once, and a key kept behind one
  dropped. The proofs need none of it but the bound itself.
* `Machine`: a word keeps four bytes, an int half of them, and each region has
  at least one word and its two edges; the stacks hold up to three of ten values
  that include the extremes and the edges of regions.
* `Assembler`: three families of programs. One constant with every sequence of
  up to five tokens among a number, three operators and parentheses, every pair
  of operators with every bracketing, three operators of every priority, and
  words that are refused: the decisions of the calculator look at the top of one
  stack, at the size of the other and at one token, and these expressions vary
  all three. Three constants, a label and an unknown name in every way they can
  name one another, sums included: loops of length one to three, entered from
  outside and from inside. Every order of up to two out of seventeen statements,
  and of three out of the eleven that are not refused, between two labels, with
  an include that adds a jump or includes the including file: sizes, forward and
  backward references, redefinition, and each error. `LABEL_OFFSET` is 4 and
  `MAX_NESTING`, the includes the host's stack holds, 3. Words have 8 bytes,
  because a push does, of two bits.
* `DynArray`: five items make the capacity grow four times, 1, 2, 4, 7; two
  bytes separate the first byte of an item from the rest, which is all the zero
  byte can tell apart.

**Fairness.** `VmCore`: weak fairness of `Next`, which says that the host runs
the only thread; there is no fairness of single instructions or devices, and
none is needed for `DevicesKeepTheirTurn`, because every step of a batch
counts. In `vm_timer_lost` the same fairness is what makes the counterexample a
real one: the machine runs on for ever without its timer. `Modem`: weak
fairness of `UpdateStep`, justified by `DevicesKeepTheirTurn`: the main loop
comes back to `vm_modem_update`. `Crt`: weak fairness of time, of the tick and
of the rounds of its loops, for the same reason. `Receiver`: weak fairness of the
machine, which is one thread, and strong fairness of `TimerFires`: whenever the main
loop comes to the timer the interval may have passed or not, and in a run that goes
on for ever it has passed again and again. Without it a handler entered while the
processor is halted would stay there. There is none of the network. `Assembler`: weak fairness of
`Next`, one thread again.

**Proved, and in no run.** `TypeOK` of `Modem`, `Crt`, `Machine` and `Assembler`,
`FailHasReason`, `TickForgetsAllFaded` and `ReadBackWritten` are theorems for every
value of the constants (section 4), and the configurations do not repeat them.

**Disagreements found.** The first four are runs that TLC finds violated and findings
in `PROJECT.json`:

1. the timer never triggers again after one tick with interrupts disabled
   (`main.c:74`);
2. a handler can be entered with the processor halted: a device asks at the end of a
   batch, the first instruction of the next one is `hlt`, and the pass behind it
   enters the handler (`mainloop.c:141`); a fetch that faults and the exception handler
   do the same, which the formula excludes by `exception_type`, since 3 is about them;
3. a faulting instruction fetch executes `hlt`, and with interrupts disabled the
   machine dies with an exception handler set (`mainloop.c:101`);
4. a connection reset by the other side is noticed without an interrupt
   (`modem.c:66`), although an orderly shutdown gives one.

The next seven have a formula in the module of their component and no configuration
of their own. The formula in place of the
INVARIANTS and PROPERTIES of the configuration named gives the counterexample:

| Formula | Module | Configuration | What the code does |
|---|---|---|---|
| `SneExtendsSign` | `MCMachine` | `Machine.cfg` | `sne` sets the upper bits of positive numbers too, and its mask is computed in an int (`ops.c:93`), where `docs/cheatsheet.txt` says "Sign extend second item" |
| `ReportsFailedAddress` | `MCMachine` | `Machine.cfg` | a read of 0x112 to 0x11f reports an address that is 0x100 too low (`state.c:33`) |
| `SendsItsArguments` | `Receiver` | `Receiver.cfg` | the handler of the modem program comes between the stores of the arguments of SEND and its command, and overwrites them: what is sent is the receive buffer (`examples/v2/modem.s:148`) |
| `ClosingIsReported` | `Receiver` | `Receiver.cfg` | after an orderly shutdown the handler's RECV on the closed modem replaces CONNRESET by CONNFAIL before the main program looks (`modem.c:188`) |
| `ResetIsReset` | `Receiver` | `Receiver.cfg` | the modem program reports every failure as a connection closed by the other side (`examples/v2/modem.s:78`) |
| `WindowIsDestroyed` | `MCCrt` | `Crt.cfg` | `vm_crt_destroy` leaves the window open when the last tick was too recent (`crt.c:257`) |
| `CommentsAreSkipped` | `MCAssembler` | `Assembler.cfg`, with `Sources <- CommentedSources` | the `;` comments of `docs/asm-directives.md` hang the assembler: `ivm_trim_ws_and_comments` stops at a `;` that `ivm_match_comment` does not know (`match.c:79`) |

Noted while reading, without a run of their own: the bounds test of SEND and
RECV refuses a buffer that ends exactly at the end of RAM or ROM, and accepts a size
whose sum with the pointer wraps around (`modem.c:167`, `196`); no jump, return or
entry of a handler looks at the address it goes to, and the fetch from a negative one
indexes the table of devices outside of it (`mainloop.c:101`, `mem.c:60`); RECV may store in ROM, which the processor cannot;
after a shutdown RECV notices itself the error code is CONNFAIL, not CONNRESET
(`modem.c:212`); INCM stays set on a modem that lost its connection to a
shutdown; a masked edge of INCM is not repeated by the modem;
`docs/interrupts.md` numbers the interrupts 1, 8, 15 where the code has 0, 7,
14; `docs/hardware.md:11` promises zeroes after the ROM's end where the code
faults; a negative offset of `pull` or `fswap` is a STACK_UNDERFLOW, not the
BAD_TOP_OFFSET of `state.h:82` (`ops.c:187`); reading byte 0x111 ends the
emulator (`state.c:30`); `spop`, `sfload` and `sfend` complete although their read
failed; `lt`, `le`, `gt`, `ge` depend on the order in which the compiler
evaluates two calls; the data of a key request that is dropped is never freed.

Of the assembler: unary minus has the priority of the binary one, so that `8 / -4 / 2`
is not what it would be in C; unary `~` is read but never accepted (`calc.c:461`),
because `binary_operator_priority` does not know it; `5 (3) +` is 8 and `5 ()` is 5;
`1 +`, `()` alone and `5 (3)` end in a failed `check$` rather than a
report; the smallest number divided by -1 traps; an escaped quote ends the string
in `ivm_match_string`, and an unknown escape leaves a character uninitialized;
`.func`, `.table` and `.string` without a label behind them print an uninitialized
span; files that include one another overflow the stack; a failure in the second
pass leaves part of the output. Of the arrays: `array.h:134` promises that a push
on NULL creates an array, where the code asserts there is one; the capacity is
written through the result of `realloc` before that is tested (`array.c:97`);
`_ia_resize` leaves the zero byte where it was.

## 4. Proofs

`VmCoreProofs` proves, from the named assumptions on the constants:

* `TypeCorrect`, `TypeOKHolds`: the type invariant, strengthened by: the two
  stacks of a frame have the same length, and a pass runs only inside a batch;
* `HandlersNest`: `NestingStrict`. It is inductive over the types: only
  `DispatchEnter` pushes, and only above a lower priority;
* `QueueCorrect`: `QueueInv`, the strengthening of `NeverSleepsOnDue` that says
  what holds in the middle of a pass: nothing in the compacted prefix outranks
  the innermost handler. The prefix was compared with an earlier, lower top of
  the stack, and the top only rises during a pass; at the end the prefix is the
  queue. It also says that devices run at the start of a batch and that no
  exception waits but under an exception;
* `NoLostWakeUp`, `FaultsDelivered`, `HaltedWakeable`, `KeyRegsKept`: the
  invariants and the action property of the runs;
* `TimerAsksOnce`: `OneTimerInFlight`. `TimerInv` says it of the `Live` entries,
  those put back and those not yet scanned: in the middle of a pass the array holds
  stale copies of a request, and only the live ones are one;
* `ExceptionRegsDescribeFault`: `ExceptionRegsMatchFrame`. `ExcInv` says what
  holds between a fault and its handler: the request is ahead of the pass, and
  the address to resume at is in a frame already or in `pc`, so that whichever
  handler is entered first saves it. It needs that nothing outranks an exception
  (`ExceptionOutranks`).

`ProcessorImplementsPriorityInterrupts` is `ImplementsPriorityInterrupts` for queues
of every length. What waits is `Waits(q, n, m)`, the first `n` entries and those from `m` on.
Putting an entry back in place changes nothing of it (`WaitsPutBack`), delivering
takes out the entry behind those put back (`WaitsDelivered`), and that one is the
oldest that is due because `QueueInv` says that none of the prefix is
(`OldestDue`). Everything else appends or stutters (`RefineExec`,
`RefineDevices`).

`ModemProofs` proves `MInv`. Its core, `Good(m)`, is a predicate on the record
of a modem, and each function of `modem.c` has a lemma that says it makes a
good modem of a good one (or, for the hard error state, of any modem that holds
at most its own socket: that is what makes every failure path of `connect`
safe). The steps then follow from `BecomeGood`. Its consequences are
`SocketNotLeaked`, `ConnectedRight`, `FailExplained`, `ReceiveDoesNotBlock`,
`OverrunNeedsWrap` and `TypeOKHolds`. For `OverrunNeedsWrap`, a RECV whose sum does
not wrap has passed a test of numbers: what it stores, at most as much as it asked for,
ends before its region does (`BufferInRegion`), and all other commands store nothing
(`OthersStoreNothing`).

`ReceiverProofs` is about the composition, for every batch length, memory map, buffer
and stream. None of the four invariants of the run is inductive; `Inv` is, in four
parts:

* `QueueInv`: the queue holds requests of the modem and of the timer only, one of each
  at most (`Pending` again, since in a pass the array holds stale copies), one of the
  timer exactly while `is_waiting`, and what waits behind a pass is due to no one;
* `ProgramInv`: where the program is, its frame, and what the interrupt table holds
  there; before the connection is asked for nothing has been announced;
* `ModemInv`: the modem is good, in the sense of `ModemProofs`, and before `connect`
  it is as `vm_modem_init` left it;
* `AskInv`, the heart: INCM rises only when no request of the modem waits and the
  handler is not about to receive, because a RECV always clears INCM, whatever
  becomes of it. So a request waits, or the handler is still to receive, from the
  edge on until the RECV; and as long as there is a connection there are bytes.

`Invariance` is `Spec => []Inv`, one lemma for each action; the modem's part of a
step comes from the lemmas of `ModemProofs` about outcomes, the processor's part from
its branches. `TypeCorrect`, `Kept`, `QueueBounded`, `HandlerHasBytes` and
`QueueIsShort` follow. `ModemRefined` is the refinement `IsModem`: `Matches(m, m2)`
relates an outcome whose request is appended to a queue with one that sets a flag,
every access and update of the machine is then the step of `Modem` of that outcome,
the end of the request's wait is `Delivered`, `cli` is `Mask`, and everything else
stutters. The theorems of `ModemProofs` are thereby theorems about the composition.
`StaysIntact` says that under this program the modem never stores outside a region:
the handler receives with the program's own buffer and size, which end before RAM does,
and RAM ends before the host's pointers do (`BufferInBounds`).

`CrtProofs` proves `SegmentsKept`, which is `SegmentsAccounted` for every array,
fade time and tick. Reachability in a linked list is a recursive notion; the
proof carries the witness instead, a sequence `q` of places that is the list
(`Chain(q)`): a move appends to it (`MoveAppends`), a round of recycling takes
its head (`RecycleTakesHead`), and disjointness from the pool makes the place
that `_new_segment` returns a fresh one (`NewIndexIsFree`). `Chain` also says
that ages descend along `q`, from which `FadedForgotten` follows: a head that
has not faded has nothing older behind it. `DisplayIsAScreen` is the refinement of
`Phosphor`: following the list from `oldest_idx` meets the places of `q` and then
nothing (`NthPlaces`, by induction), so what is drawn is the sequence of lines of
`q` (`DrawnLines`); a move appends a line and ends the one before where the new
one begins (`MoveDraws`), time is `Age`, a round of recycling `Forget`, and
everything else stutters (`StepsOfTheScreen`). `OneReleasePerPress` is
`ReleasesMatchPresses` for every set of keys. Its invariant counts the places of
a key among those `StillHeld`: in the middle of the loop, a round adds one place
and takes away another, possibly the same (`KeepKeyCounts`), or takes one away
and pays one release (`ReportReleaseCounts`). `TypeOKHolds` puts the parts
together.

`WordsProofs` is the arithmetic that the next two need, for every `WORD` and
`BYTE_BITS`. `Power2` and the sum in `SumTo` are recursive functions; that they
exist and obey their equations is proved once (`PowerDefined`, `PowersExist`), by an
induction over numbers, `AllNumbers`, that comes from the well-foundedness of their order,
and the rest (`PowerSum`, `HALF` and `BYTE` as powers) follows. `Wrap` gives a word
and is a congruence; each operation, bitwise ones included, gives a word; and a word
is the sum of its bytes, cut to any size.

`MachineProofs` proves every property of the run, and `ReadBackWritten`, for every width of a
word, memory layout and sample of machines. An instruction is a composition of
`Push`, `Pop`, `Load`, `Store` and updates of single fields; each property of what
an instruction leaves has a relation between the machine before and one in the
middle of the instruction, kept by each of these, and one between before and after:
`Amid` and `Behind` for `FaultsGoOn`, `Spares` and `StoredAt` for `StoresStop`,
`Holds` and `Leaves` (for `fswap`, `Exchanges`) for `StackIsKept`. The relations of
an instruction then follow from its definition, and tables of them from those. How
far a store gets is a least address (`ReachStops`). `TypesHold` is the type invariant:
every operation makes a machine of a machine, whose values are words by
`WordsProofs`. `WrittenIsReadBack` puts a `Load` behind a `Store`: when
neither faults, the bytes stored are those found, and their weighted sum is the
number cut to its size. `FramesAreNested` follows a frame through the
second stack: what `sfbegin` saved at its base is not touched by what is pushed
above it. `DeathsAreKnown` is `EmulatorDiesKnown`: each update keeps the emulator
running (`Runs`), a `Load` does unless it begins below the memory or meets the
byte behind the registers (`RunsLoad`), and a fetch unless `pc` is negative
(`FetchRuns`).

`StartsAssumption` and `SizesAssumption` say that the sample consists of machines
on which no exception is being raised, that their data stack has fewer values than
half the words there are (2^63: the host's memory is smaller), and that sizes of
operands fit in a word. `LayoutAssumption` says that the regions of memory are apart
and that addresses, up to the end of the ROM, are positive words; `state.h`
puts the end of the ROM at 0x20000.

`AssemblerProofs` proves its invariants for all programs, each by one step per
action. `PassInv`: by phase, what has been read (`ReadOK`), that every statement
begins where the one before it ends (`Adjacent`), and that the position of the
second pass is that of its statement and argument (`Emitting`); its consequence
is `LabelsAreAddresses`. `StackInv`: activations are in the middle of the
expression of their entry (`FramesOK`), each was started by the name the one
outside stands at (`Chain`), names are unique (`EntriesOK`),
`InProgressIsOnStack` itself, and what each phase knows (`PhaseOK`: in the
second pass, that all entries are DONE). It gives `RecursionIsOnStack` and
`ValuesAreKnown`. With `TraceInv`, what has been printed and that the innermost
activation mentions the line printed last, it gives `LoopsAreReported`.
`AssemblerTypes` is the type invariant, in two halves that need each other:
`TableTyped`, the symbol table and the activations of the calculator, whose stacks
hold words, and `PassTyped`, what the passes keep.

`JumpsReachLabels` is `JumpsLand`: what the first pass measured, the symbol table
computed and the second pass wrote, taken together by a processor that adds the
operand to the address of the opcode. Four facts are carried from phase to phase:
every label statement has an entry at its address (`Labelled`) and that entry, once
DONE, has the value that address wraps to (`Valued`); items of the output lie in the order of
their addresses (`Ordered`), so that the one that ends at an opcode is the push
in front of it and no other; in the middle of an argument, the activation knows
the label or has its value on the stack (`Evaluating`, `Pushed`); and every jump already written
has its operand in front of it (`Landed`). The value wraps twice, as
`ivm_sym_value_t` and as the difference of two addresses, and the bytes written lose its sign:
the congruences of `WordsProofs` say that the sum wraps to the address all the same.
Assumed of the program is that a `.number` has at most the bytes of a word, which
the directives of `ast.c` guarantee.

`DynArrayProofs` proves `BlockHoldsItems`, that the block has room for its items
and the zero byte and no byte of an item is junk, and from it `ArrayIsList`, that
each call is the call of `ItemList`. Its lemmas are about places in a block: bytes
of different items are different, and all are in front of the zero byte.

Assumed of the constants is only what each module declares under `ASSUME`, and
TLC evaluates every one of them in the runs.

Only model-checked:

* the liveness properties (`DevicesKeepTheirTurn`, `DeathStops`,
  `LeftoversAreAnnounced`, `AllIsRead`, `SegmentsAreFreed`, `KeysAreReleased`,
  `Terminates`), which
  TLAPS cannot prove under fairness;
* `ConstantsMeanWhatTheySay` and `GoodProgramsAreAssembled`: their reference,
  `Meanings`, is recursive over expressions and files, and a proof would be
  by induction over them. The first would also need an assumption that the run meets
  and the code does not guarantee: addresses are counted without end in `location`,
  and a label's value is a word, so for a program as long as there are words a
  constant has the value of the wrapped address;
* the disagreements: each is a counterexample, not a theorem.

## 5. Not modelled

* Printer: one write handler without state. Its byte is in the address space of
  `Machine`; what it prints is output only.
* Parser library: matching of characters and formatting of errors. What a line or
  an expression consists of is taken for granted in `Assembler` and `Calc`: a
  program is a sequence of statements, an expression one of tokens, with statements
  and tokens that are refused. The one function whose control the assembler's
  behaviour depends on, `ivm_trim_ws_and_comments`, is part of `Symtab` and `Assembler`.
* Of the assembler: the command line, the printer of the tree, the text of error
  messages, the characters of strings, and the mnemonics beyond one of each kind.
* Utilities and macros: reading files and ending the process.
* Disassembler: a single loop over a file that prints instructions.
* Of the processor: logging, verbose output and the command line. Values of operands
  and of RAM are abstracted in `VmCore`; the registers of devices other than the
  processor and the printer are not in the address space of `Machine`, so that a
  command register written by a store that faults behind it is in no property.
* Of the display: what raylib draws, and the byte-wise writes of its coordinates,
  which are any position.
* Limits of the host: memory (but in `DynArray`), blocking sends and connects, the
  growth of `asked_interrupts` without end.

## 6. What is left

1. A model of lines and tokens for the parser library, should the grammar of the
   assembler grow.
2. `Receiver` with a display: the keyboard's requests between those of the modem and
   the timer.
