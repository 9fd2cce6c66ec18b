------------------------------ MODULE Machine ------------------------------
(***************************************************************************)
(* What the instructions do to the data stack, the second stack and the     *)
(* memory (vm/ops.c, vm/mem.c, the registers in vm/state.c).  VmCore says    *)
(* when an instruction runs and what becomes of an exception; here is what  *)
(* it computes, and what a fault half way leaves behind.                    *)
(*                                                                          *)
(* The regions of the address space keep their order and are smaller than   *)
(* in the code.                                                             *)
(***************************************************************************)
EXTENDS Words, Sequences

CONSTANTS
    VECTORS_END,    \* end of the interrupt table, which begins at WORD
    PRINTER,        \* a byte that is only written, where the registers end
    SYSMEM_END,
    RAM_END,
    Rom,            \* the bytes of the ROM, from RAM_END on
    Sizes,          \* byte counts of the memory instructions
    Starts          \* the machines before the instruction

ASSUME LayoutAssumption ==
    /\ {VECTORS_END, PRINTER, SYSMEM_END, RAM_END} \subseteq Nat
    /\ WORD % 2 = 0     \* an int has half the bytes of a vm_stack_val_t
    /\ WORD < VECTORS_END /\ VECTORS_END + 2 * WORD + 1 < PRINTER
    /\ PRINTER < SYSMEM_END /\ SYSMEM_END < RAM_END
    /\ Rom \in Seq(Bytes) /\ RAM_END + Len(Rom) < HALF

VARIABLES
    m,              \* the machine: a member of Machines
    last,           \* the instruction executed, or "none"
    left_first      \* whether the build evaluates operands left to right

vars == <<m, last, left_first>>

-----------------------------------------------------------------------------
(* Little-endian numbers in memory, and truth values.                       *)

\* The little-endian number of the k bytes b[0], b[1], ...
FromBytes(b, k) == Wrap(SumTo([i \in 0..k - 1 |-> b[i] * Weight(i)], k))

Flag(cond) == IF cond THEN 1 ELSE 0

-----------------------------------------------------------------------------
(* Machines.  mem holds the bytes of the interrupt table and of the RAM;    *)
(* host is "crashed" when the emulator itself has died.                     *)

Vectors == WORD..VECTORS_END - 1
Ram == SYSMEM_END..RAM_END - 1
Stored == Vectors \cup Ram
RomBytes == RAM_END..RAM_END + Len(Rom) - 1

\* Registers of the last exception: its type, its pc, the address.
EXC_PC == VECTORS_END + 1
EXC_ADDR == EXC_PC + WORD
ExcRegs == VECTORS_END..EXC_ADDR + WORD - 1
\* One byte past the address register: read as its byte number WORD, which
\* index_num refuses by killing the emulator (state.c:30).
PAST_REGS == EXC_ADDR + WORD

Codes == [NONE |-> 0, DIVIDE_BY_ZERO |-> 1, STACK_UNDERFLOW |-> 2,
          WRONG_SNE_SIZE |-> 3, BAD_TOP_OFFSET |-> 4, SEGFAULT |-> 7]

Machines ==
    [stack : Seq(Words), pc : Words, v2_sp : Words, v2_sf : Words,
     mem : [Stored -> Bytes],
     exception_type : DOMAIN Codes, exception_pc : Words, exception_addr : Words,
     raised : BOOLEAN, host : {"runs", "crashed"}]

\* What can be fetched, read and written.
Executable == Ram \cup RomBytes
Readable == Executable \cup Vectors \cup ExcRegs
Writable == Stored \cup {PRINTER}

\* An instruction has raised nothing before it begins, the host's memory is too
\* small for 2^63 values, and there are accesses of one to eight bytes.  pc may be
\* any word: jumps, calls, returns and handlers go where the program says.
ASSUME StartsAssumption ==
    \A x \in Starts : x \in Machines /\ ~x.raised /\ Len(x.stack) < HALF
ASSUME SizesAssumption == Sizes \subseteq 1..WORD

Init ==
    /\ m \in Starts
    /\ last = "none"
    /\ left_first \in BOOLEAN

Raised(x, what) ==
    [x EXCEPT !.exception_type = what, !.exception_pc = x.pc, !.raised = TRUE]

Segfault(x, a) == [Raised(x, "SEGFAULT") EXCEPT !.exception_addr = a]

Crashed(x) == [x EXCEPT !.host = "crashed"]

-----------------------------------------------------------------------------
(* Memory, byte by byte.                                                    *)

\* _read_byte where it succeeds
ByteAt(x, a) ==
    CASE a \in Stored                       -> x.mem[a]
      [] a \in RomBytes                     -> Rom[a - RAM_END + 1]
      [] a = VECTORS_END                    -> Codes[x.exception_type] % BYTE
      [] a \in EXC_PC..EXC_ADDR - 1         -> ByteOf(x.exception_pc, a - EXC_PC)
      [] a \in EXC_ADDR..EXC_ADDR + WORD - 1 -> ByteOf(x.exception_addr, a - EXC_ADDR)

\* How many of the n bytes from a on are reached when only ok ones can be.
Reach(a, n, ok) ==
    CHOOSE k \in 0..n :
        /\ a..a + k - 1 \subseteq ok
        /\ k = n \/ a + k \notin ok

\* The bytes between the registers and the next device report an address that
\* the offset of the registers has been taken from.
Blamed(a, usage) ==
    IF usage = "READ" /\ a \in PAST_REGS + 1..PRINTER - 1 THEN a - VECTORS_END ELSE a

\* _read_byte where it fails.  A negative address indexes the table of
\* devices out of its bounds, and anything may be found there: wild says that
\* it was not the end of the matter.
ReadFails(x, a, usage, wild) ==
    IF \/ a = PAST_REGS /\ usage = "READ"
       \/ a < 0 /\ wild
    THEN Crashed(x)
    ELSE Segfault(x, Blamed(a, usage))

\* vm_mem_read: the machine after it, the value, and whether all was read.
Load(x, a, n, usage, wild) ==
    LET k == Reach(a, n, IF usage = "READ" THEN Readable ELSE Executable)
    IN  [machine |-> IF k = n THEN x ELSE ReadFails(x, a + k, usage, wild),
         value |-> FromBytes([i \in 0..k - 1 |-> ByteAt(x, a + i)], k),
         ok |-> k = n]

\* The memory after the bytes of v have gone to the k addresses from a on.
Written(x, a, k, v) ==
    [b \in Stored |-> IF b \in a..a + k - 1 THEN ByteOf(v, b - a) ELSE x.mem[b]]

\* A fault that does not end the loop (mutant of Store).
StoreGoesOn(x, a, n, v) ==
    LET k == Reach(a, n, Writable)
        y == [x EXCEPT !.mem = Written(x, a, n, v)]
    IN  IF k = n THEN y ELSE Segfault(y, a + k)

\* vm_mem_write: a store that fails keeps the bytes before the failing one.
Store(x, a, n, v) ==
    LET k == Reach(a, n, Writable)
        y == [x EXCEPT !.mem = Written(x, a, k, v)]
    IN  IF k = n THEN y ELSE Segfault(y, a + k)

-----------------------------------------------------------------------------
(* The data stack.                                                          *)

Height(x) == Len(x.stack)

\* The n-th value from the top, and the machine without the n top ones.
Top(x, n) == x.stack[Height(x) - n + 1]
Popped(x, n) == [x EXCEPT !.stack = SubSeq(@, 1, Height(x) - n)]
Pushed(x, v) == [x EXCEPT !.stack = Append(@, v)]

Advanced(x, n) == [x EXCEPT !.pc = Wrap(@ + n)]

\* The instruction is tried again (mutant of Underflow).
UnderflowStays(x) == [Raised(x, "STACK_UNDERFLOW") EXCEPT !.stack = <<>>]

\* get_val finds too few values: those there were are gone.
Underflow(x) == Advanced([Raised(x, "STACK_UNDERFLOW") EXCEPT !.stack = <<>>], 1)

\* An instruction of n operands.
Taking(x, n, executed) == IF Height(x) < n THEN Underflow(x) ELSE executed

-----------------------------------------------------------------------------
(* The instructions, as functions of the machine.                           *)

\* a is the top value, b the one below it.
Computed(op, a, b) ==
    CASE op = "add" -> Wrap(b + a)
      [] op = "sub" -> Wrap(b - a)
      [] op = "mul" -> Wrap(b * a)
      [] op = "lsh" -> ShiftLeft(b, a)
      [] op = "rsh" -> ShiftRight(b, a)
      [] op = "or"  -> BitOr(a, b)
      [] op = "and" -> BitAnd(a, b)
      [] op = "xor" -> BitXor(a, b)
      [] op = "eq"  -> Flag(a = b)
      [] op = "lt"  -> Flag(IF left_first THEN a < b ELSE b < a)
      [] op = "le"  -> Flag(IF left_first THEN a <= b ELSE b <= a)
      [] op = "gt"  -> Flag(IF left_first THEN a > b ELSE b > a)
      [] op = "ge"  -> Flag(IF left_first THEN a >= b ELSE b >= a)

BinaryOps == {"add", "sub", "mul", "lsh", "rsh", "or", "and", "xor",
              "eq", "lt", "le", "gt", "ge"}

Binary(x, op) ==
    Taking(x, 2,
        Advanced(Pushed(Popped(x, 2), Computed(op, Top(x, 1), Top(x, 2))), 1))

\* A divisor that is not looked at: the division traps (mutant of Division).
DivisionUnchecked(x, op) ==
    LET a == Top(x, 1)
        b == Top(x, 2)
        result == IF op = "div" THEN Quotient(b, a) ELSE Remainder(b, a)
    IN  Taking(x, 2,
          IF a = 0 \/ (a = -1 /\ b = -HALF) THEN Crashed(x)
          ELSE Advanced(Pushed(Popped(x, 2), result), 1))

\* div and mod look at the divisor before they take the dividend; the
\* quotient that is one too large for a word traps in the host.
Division(x, op) ==
    LET a == Top(x, 1)
        b == Top(x, 2)
        result == IF op = "div" THEN Quotient(b, a) ELSE Remainder(b, a)
    IN  Taking(x, 1,
          IF a = 0 THEN Advanced(Raised(Popped(x, 1), "DIVIDE_BY_ZERO"), 1)
          ELSE Taking(x, 2,
                 IF a = -1 /\ b = -HALF THEN Crashed(x)
                 ELSE Advanced(Pushed(Popped(x, 2), result), 1)))

\* The ones that sne puts above n bytes: 1 is an int, so the count of the
\* first shift is taken modulo the width of an int.
SneOnes(n) ==
    ShiftLeft(Power2[((WORD - n) * BYTE_BITS) % (BITS \div 2)] - 1, n * BYTE_BITS)

Sne(x) ==
    Taking(x, 2,
        IF Top(x, 1) \notin 1..WORD
        THEN Advanced(Raised(Popped(x, 2), "WRONG_SNE_SIZE"), 1)
        ELSE Advanced(Pushed(Popped(x, 2), BitOr(Top(x, 2), SneOnes(Top(x, 1)))), 1))

IsZero(x) ==
    Taking(x, 1, Advanced(Pushed(Popped(x, 1), Flag(Top(x, 1) = 0)), 1))

Drop(x) == Taking(x, 1, Advanced(Popped(x, 1), 1))

\* The value is popped and pushed once (mutant of Dup).
DupOnce(x) == Taking(x, 1, Advanced(x, 1))

Dup(x) == Taking(x, 1, Advanced(Pushed(x, Top(x, 1)), 1))

Swap(x) ==
    Taking(x, 2,
        Advanced(Pushed(Pushed(Popped(x, 2), Top(x, 1)), Top(x, 2)), 1))

\* The test of pull and fswap compares as unsigned numbers, so a negative
\* offset is found too large, and the test for it is never reached.
BeyondStack(offset, height) == Unsigned(offset) >= height

Pull(x) ==
    Taking(x, 1,
        LET offset == Top(x, 1)
            rest == Popped(x, 1)
        IN  IF BeyondStack(offset, Height(rest))
            THEN Advanced(Raised(rest, "STACK_UNDERFLOW"), 1)
            ELSE Advanced(Pushed(rest, Top(rest, offset + 1)), 1))

FSwap(x) ==
    Taking(x, 2,
        LET offset == Top(x, 1)
            rest == Popped(x, 2)
            slot == Height(rest) - offset
        IN  IF BeyondStack(offset, Height(rest))
            THEN Advanced(Raised(rest, "STACK_UNDERFLOW"), 1)
            ELSE Advanced(Pushed([rest EXCEPT !.stack[slot] = Top(x, 2)],
                                 rest.stack[slot]), 1))

\* The literal lies behind the opcode; it is read as instructions are.
Push(x) ==
    LET got == Load(x, x.pc + 1, WORD, "EXEC", FALSE)
    IN  Advanced(IF got.ok THEN Pushed(x, got.value) ELSE got.machine, 1 + WORD)

Jump(x) == Taking(x, 1, [Popped(x, 1) EXCEPT !.pc = Top(x, 1)])

JumpIf(x) ==
    Taking(x, 2,
        IF Top(x, 2) = 0 THEN Advanced(Popped(x, 2), 1)
        ELSE [Popped(x, 2) EXCEPT !.pc = Top(x, 1)])

Call(x) ==
    Taking(x, 1,
        [Pushed(Popped(x, 1), Wrap(x.pc + 1)) EXCEPT !.pc = Top(x, 1)])

\* rjmp, rjmpi, rcall: the distance counts from the instruction itself.
RelJump(x) == Taking(x, 1, Advanced(Popped(x, 1), Top(x, 1)))

RelJumpIf(x) ==
    Taking(x, 2,
        Advanced(Popped(x, 2), IF Top(x, 2) = 0 THEN 1 ELSE Top(x, 1)))

RelCall(x) ==
    Taking(x, 1,
        Advanced(Pushed(Popped(x, 1), Wrap(x.pc + 1)), Top(x, 1)))

\* gsf, gsp, gpc
Report(x, value) == Advanced(Pushed(x, value), 1)

SetSf(x) == Taking(x, 1, Advanced([Popped(x, 1) EXCEPT !.v2_sf = Top(x, 1)], 1))
SetSp(x) == Taking(x, 1, Advanced([Popped(x, 1) EXCEPT !.v2_sp = Top(x, 1)], 1))
SAdd(x) ==
    Taking(x, 1,
        Advanced([Popped(x, 1) EXCEPT !.v2_sp = Wrap(@ + Top(x, 1))], 1))

\* get8 ... get64 push nothing when the access fails.
Get(x, n, wild) ==
    Taking(x, 1,
        LET got == Load(Popped(x, 1), Top(x, 1), n, "READ", wild)
        IN  Advanced(IF got.ok THEN Pushed(got.machine, got.value) ELSE got.machine, 1))

Put(x, n) ==
    Taking(x, 2, Advanced(Store(Popped(x, 2), Top(x, 1), n, Top(x, 2)), 1))

\* Of a failed spop, sfload or sfend the rest happens all the same, with the
\* bytes read so far.
SfLoad(x, n, wild) ==
    Taking(x, 1,
        LET got == Load(Popped(x, 1), Wrap(x.v2_sf + Top(x, 1)), n, "READ", wild)
        IN  Advanced(Pushed(got.machine, got.value), 1))

SfStore(x, n) ==
    Taking(x, 2,
        Advanced(Store(Popped(x, 2), Wrap(x.v2_sf + Top(x, 1)), n, Top(x, 2)), 1))

SPush(x) ==
    Taking(x, 1,
        LET lower == Wrap(x.v2_sp - WORD)
        IN  Advanced(Store([Popped(x, 1) EXCEPT !.v2_sp = lower], lower, WORD, Top(x, 1)), 1))

SPop(x, wild) ==
    LET got == Load(x, x.v2_sp, WORD, "READ", wild)
    IN  Advanced(Pushed([got.machine EXCEPT !.v2_sp = Wrap(@ + WORD)], got.value), 1)

\* sfbegin has no return statement, so its caller may take it for a jump.
SfBegin(x, jumped) ==
    LET lower == Wrap(x.v2_sp - WORD)
        y == Store([x EXCEPT !.v2_sp = lower], lower, WORD, x.v2_sf)
        z == [y EXCEPT !.v2_sf = lower]
    IN  IF jumped THEN z ELSE Advanced(z, 1)

\* The saved frame pointer stays on the stack (mutant of SfEnd).
SfEndKeepsSlot(x, wild) ==
    LET got == Load(x, x.v2_sf, WORD, "READ", wild)
    IN  Advanced([got.machine EXCEPT !.v2_sp = x.v2_sf, !.v2_sf = got.value], 1)

SfEnd(x, wild) ==
    LET got == Load(x, x.v2_sf, WORD, "READ", wild)
    IN  Advanced([got.machine EXCEPT !.v2_sp = Wrap(x.v2_sf + WORD),
                                     !.v2_sf = got.value], 1)

-----------------------------------------------------------------------------
(* One instruction is executed.                                             *)

Execute(name, x) ==
    /\ last = "none"
    /\ m.host = "runs"
    /\ m' = x
    /\ last' = name
    /\ UNCHANGED left_first

ExecArithmetic ==
    \/ \E op \in BinaryOps : Execute(op, Binary(m, op))
    \/ Execute("div", Division(m, "div"))
    \/ Execute("mod", Division(m, "mod"))
    \/ Execute("sne", Sne(m))
    \/ Execute("iszero", IsZero(m))

ExecStack ==
    \/ Execute("drop", Drop(m))
    \/ Execute("dup", Dup(m))
    \/ Execute("swap", Swap(m))
    \/ Execute("pull", Pull(m))
    \/ Execute("fswap", FSwap(m))

ExecPush == Execute("push", Push(m))

ExecFlow ==
    \/ Execute("jmp", Jump(m))
    \/ Execute("jmpi", JumpIf(m))
    \/ Execute("call", Call(m))
    \/ Execute("rjmp", RelJump(m))
    \/ Execute("rjmpi", RelJumpIf(m))
    \/ Execute("rcall", RelCall(m))
    \/ Execute("gpc", Report(m, m.pc))

ExecMemory ==
    \E n \in Sizes, wild \in BOOLEAN :
        \/ Execute("get", Get(m, n, wild))
        \/ Execute("put", Put(m, n))
        \/ Execute("sfload", SfLoad(m, n, wild))
        \/ Execute("sfstore", SfStore(m, n))

ExecSecondStack ==
    \/ Execute("gsf", Report(m, m.v2_sf))
    \/ Execute("gsp", Report(m, m.v2_sp))
    \/ Execute("ssf", SetSf(m))
    \/ Execute("ssp", SetSp(m))
    \/ Execute("sadd", SAdd(m))
    \/ Execute("spush", SPush(m))
    \/ \E wild \in BOOLEAN :
          \/ Execute("spop", SPop(m, wild))
          \/ Execute("sfbegin", SfBegin(m, wild))
          \/ Execute("sfend", SfEnd(m, wild))

\* vm_exec: the opcode cannot be read.  0, which is in its place, is executed: to
\* this module hlt does no more than go on, VmCore has the rest.
Fetch(x, wild) == Advanced(Load(x, x.pc, 1, "EXEC", wild).machine, 1)

FetchFails ==
    /\ m.pc \notin Executable
    /\ \E wild \in BOOLEAN : Execute("fetch", Fetch(m, wild))

ExecFetched ==
    \/ ExecArithmetic
    \/ ExecStack
    \/ ExecPush
    \/ ExecFlow
    \/ ExecMemory
    \/ ExecSecondStack

\* What comes next is the affair of VmCore.
Finished == last # "none" /\ UNCHANGED vars

Next ==
    \/ m.pc \in Executable /\ ExecFetched
    \/ FetchFails
    \/ Finished

Spec == Init /\ [][Next]_vars

-----------------------------------------------------------------------------
(* Properties.                                                              *)

\* The instructions by their names, and the fetch that gives none.
Instructions == BinaryOps \cup
    {"div", "mod", "sne", "iszero", "drop", "dup", "swap", "pull", "fswap", "push",
     "jmp", "jmpi", "call", "rjmp", "rjmpi", "rcall", "gpc", "get", "put", "sfload",
     "sfstore", "gsf", "gsp", "ssf", "ssp", "sadd", "spush", "spop", "sfbegin", "sfend",
     "fetch"}

\* Every instruction makes a machine of a machine: words stay in 64 bits,
\* bytes in 8, the stack is finite.
TypeOK ==
    /\ m \in Machines
    /\ last \in Instructions \cup {"none"}
    /\ left_first \in BOOLEAN

\* What docs/cheatsheet.txt writes to the right and to the left of a name.
Operands(name) ==
    CASE name \in {"gpc", "gsf", "gsp", "push", "spop", "sfbegin", "sfend", "fetch"} -> 0
      [] name \in BinaryOps \cup {"div", "mod", "sne", "swap", "fswap", "jmpi",
                                  "rjmpi", "put", "sfstore"} -> 2
      [] OTHER -> 1
Results(name) ==
    CASE name \in {"drop", "jmp", "jmpi", "rjmp", "rjmpi", "put", "sfstore", "ssf",
                   "ssp", "sadd", "spush", "sfbegin", "sfend", "fetch"} -> 0
      [] name \in {"dup", "swap"} -> 2
      [] OTHER -> 1

\* An instruction takes and leaves what the cheatsheet says (fswap: the value
\* and the offset, one value back), and even one that faults half way leaves
\* the values below its operands alone; fswap exchanges one of them.
\* Only a missing operand empties the stack.
StackDiscipline ==
    [][ LET kept == Height(m) - Operands(last')
        IN  (last = "none" /\ m'.host = "runs") =>
            /\ ~m'.raised => Height(m') = kept + Results(last')
            /\ kept >= 0 =>
                 /\ Height(m') >= kept
                 /\ \A i \in 1..kept :
                       m'.stack[i] # m.stack[i] =>
                         last' = "fswap" /\ m.stack[i] = m'.stack[Height(m')] ]_vars

\* The first address a store goes to.
Target(x, name) ==
    CASE name = "put"                   -> Top(x, 1)
      [] name = "sfstore"               -> Wrap(x.v2_sf + Top(x, 1))
      [] name \in {"spush", "sfbegin"}  -> Wrap(x.v2_sp - WORD)

\* Memory changes only by a store, only from its target upwards, and of a store
\* that faults only below the address it reports, which is one that cannot be
\* written.
StoresStopAtFault ==
    [][ LET changed == {a \in Stored : m'.mem[a] # m.mem[a]}
        IN  /\ changed # {} =>
                 /\ last' \in {"put", "sfstore", "spush", "sfbegin"}
                 /\ changed \subseteq Target(m, last')..Target(m, last') + WORD - 1
            /\ (changed # {} /\ m'.raised) =>
                 /\ m'.exception_type = "SEGFAULT"
                 /\ m'.exception_addr \notin Writable
                 /\ \A a \in changed : a < m'.exception_addr ]_vars

\* A fault reports the instruction that faulted and goes on behind it: these
\* are the offsets VmCore resumes at.  Only sfbegin may stay where it is.
FaultsGoOnBehind ==
    [][ (last = "none" /\ m'.raised /\ m'.host = "runs") =>
          /\ m'.exception_pc = m.pc
          /\ m'.exception_type # "NONE"
          /\ \/ m'.pc = Wrap(m.pc + IF last' = "push" THEN 1 + WORD ELSE 1)
             \/ last' = "sfbegin" /\ m'.pc = m.pc ]_vars

\* A function that opens a frame, pushes or opens a frame of its own, and closes
\* what it opened, returns the second stack as it was, unless something faults.
FramesNest ==
    \A inner \in {"nothing", "spush", "frame"} :
        LET opened == SfBegin(m, FALSE)
            used == CASE inner = "nothing" -> opened
                      [] inner = "spush"   -> SPush(opened)
                      [] inner = "frame"   -> SfEnd(SfBegin(opened, FALSE), FALSE)
            closed == SfEnd(used, FALSE)
        IN  ~closed.raised => closed.v2_sp = m.v2_sp /\ closed.v2_sf = m.v2_sf

\* What put stores, get of the same size reads back, cut to that size and, short
\* of a whole word, without a sign.
ReadBackWritten ==
    \A n \in Sizes :
        LET stored == Put(m, n)
            read == Get(Pushed(stored, Top(m, 1)), n, FALSE)
        IN  (Height(m) >= 2 /\ ~stored.raised /\ ~read.raised) =>
              Top(read, 1) = Wrap(Unsigned(Top(m, 2)) % Weight(n))

\* The first address a read of memory goes to.
Source(x, name) ==
    CASE name = "get"    -> Top(x, 1)
      [] name = "sfload" -> Wrap(x.v2_sf + Top(x, 1))
      [] name = "spop"   -> x.v2_sp
      [] name = "sfend"  -> x.v2_sf

\* The instructions of this module and the fetch of the next one take the
\* emulator itself down in four ways and no other: with the quotient that no word
\* holds, with a read below the memory, with a read of the byte behind the
\* exception registers, and with the fetch of an opcode from below the memory,
\* where a jump, a call, fini or a handler may lead, none of which looks at the
\* address (ops.c:72, mem.c:60-71, state.c:30, mainloop.c:101).  A store below the
\* memory is refused, and so is an offset beyond the stack.
EmulatorDiesKnown ==
    [][ (last = "none" /\ m'.host = "crashed") =>
          \/ last' \in {"div", "mod"} /\ Top(m, 1) = -1 /\ Top(m, 2) = -HALF
          \/ /\ last' \in {"get", "sfload", "spop", "sfend"}
             /\ \/ Source(m, last') < 0
                \/ PAST_REGS \in Source(m, last')..Source(m, last') + WORD - 1
          \/ last' = "fetch" /\ m.pc < 0 ]_vars

\* docs/cheatsheet.txt:67: "Address to which access failed (for segfault)".  The
\* register holds one of the addresses that the instruction read.
ReportsFailedAddress ==
    [][ (last = "none" /\ last' = "get" /\ m'.raised /\ m'.exception_type = "SEGFAULT")
          => m'.exception_addr \in Source(m, last')..Source(m, last') + WORD - 1 ]_vars

\* The number that the lowest n bytes of v are, taken with their sign.
SignExtended(v, n) ==
    LET half == Weight(n) \div 2
    IN  ((v + half) % Weight(n)) - half

\* docs/instructions.md:26: "`06 sne` Sign extend second item on the stack from N
\* byte integer to full stack item size."  The code sets bits above the number
\* whatever its sign.
SneExtendsSign ==
    [][ (/\ last = "none" /\ last' = "sne" /\ ~m'.raised
         /\ Top(m, 1) < WORD /\ Top(m, 2) \in 0..Weight(Top(m, 1)) - 1)
           => Top(m', 1) = SignExtended(Top(m, 2), Top(m, 1)) ]_vars
=============================================================================
