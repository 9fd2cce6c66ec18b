--------------------------- MODULE MachineProofs ---------------------------
(***************************************************************************)
(* Proofs about Machine, for every width of a word, memory layout, ROM and  *)
(* machine before the instruction.  An instruction is a composition of a    *)
(* few updates of the machine; each section has a relation between the      *)
(* machine before it and a machine it passes through, a lemma that says     *)
(* which updates keep the relation, and then one step per instruction.      *)
(***************************************************************************)
EXTENDS Machine, WordsProofs, SequenceTheorems, TLAPS

Fields == {"stack", "pc", "v2_sp", "v2_sf", "mem", "exception_type",
           "exception_pc", "exception_addr", "raised", "host"}
Shape(x) == DOMAIN x = Fields

\* A machine before an instruction.
Fresh(x) ==
    /\ Shape(x)
    /\ ~x.raised
    /\ x.stack \in Seq(Words)
    /\ x.v2_sp \in Words
    /\ x.v2_sf \in Words
    /\ Len(x.stack) < HALF

MInv == last = "none" => Fresh(m)

LEMMA MInvHolds == Spec => []MInv
  <1>1. Init => MInv
    BY StartsAssumption DEF Init, MInv, Fresh, Shape, Fields, Machines
  <1>2. MInv /\ [Next]_vars => MInv'
    <2> SUFFICES ASSUME MInv, [Next]_vars PROVE MInv'
      OBVIOUS
    <2>1. CASE UNCHANGED vars
      BY <2>1 DEF MInv, vars
    <2>2. CASE Finished
      BY <2>2 DEF Finished, MInv, vars
    <2>3. ASSUME NEW name, NEW x, Execute(name, x), name # "none"
          PROVE  MInv'
      BY <2>3 DEF Execute, MInv
    <2>4. \A op \in BinaryOps : op # "none"
      BY DEF BinaryOps
    <2> QED
      BY <2>1, <2>2, <2>3, <2>4
         DEF Next, ExecFetched, ExecArithmetic, ExecStack, ExecPush, ExecFlow, ExecMemory,
             ExecSecondStack, FetchFails
  <1> QED
    BY <1>1, <1>2, PTL DEF Spec

-----------------------------------------------------------------------------
(* Where a fault goes on.                                                   *)

\* y is x in the middle of an instruction: pc has not moved yet, and what has
\* been raised names it.
Blames(x, y) ==
    /\ y.exception_pc = x.pc
    /\ y.exception_type # "NONE"
Amid(x, y) ==
    /\ Shape(y)
    /\ y.pc = x.pc
    /\ y.raised => Blames(x, y)

\* z is x after an instruction of n bytes, if that raised anything.
Behind(x, z, n) == z.raised => Blames(x, z) /\ z.pc = Wrap(x.pc + n)

LEMMA AmidSelf == ASSUME NEW x, Fresh(x) PROVE Amid(x, x)
  BY DEF Fresh, Amid

\* Updates of one field.
WithStack(y, s) == [y EXCEPT !.stack = s]
WithMem(y, mem) == [y EXCEPT !.mem = mem]
WithSp(y, v) == [y EXCEPT !.v2_sp = v]
WithSf(y, v) == [y EXCEPT !.v2_sf = v]
WithPc(y, v) == [y EXCEPT !.pc = v]

LEMMA AmidKept ==
    ASSUME NEW x, NEW y, Amid(x, y), NEW n, NEW v
    PROVE  /\ Amid(x, Popped(y, n))
           /\ Amid(x, Pushed(y, v))
           /\ Amid(x, Crashed(y))
           /\ Amid(x, WithStack(y, v))
           /\ Amid(x, WithMem(y, v))
           /\ Amid(x, WithSp(y, v))
           /\ Amid(x, WithSf(y, v))
  BY DEF Amid, Shape, Fields, Popped, Pushed, Crashed, Blames,
         WithStack, WithMem, WithSp, WithSf

LEMMA AmidRaised ==
    ASSUME NEW x, NEW y, Amid(x, y), NEW a, NEW what, what # "NONE"
    PROVE  Amid(x, Raised(y, what)) /\ Amid(x, Segfault(y, a))
  BY DEF Amid, Shape, Fields, Raised, Segfault, Blames

LEMMA AmidLoad ==
    ASSUME NEW x, NEW y, Amid(x, y), NEW a, NEW n, NEW usage, NEW wild
    PROVE  Amid(x, Load(y, a, n, usage, wild).machine)
  <1>1. ASSUME NEW b PROVE Amid(x, ReadFails(y, b, usage, wild))
    BY AmidKept, AmidRaised DEF ReadFails
  <1> QED
    BY <1>1 DEF Load

LEMMA AmidStore ==
    ASSUME NEW x, NEW y, Amid(x, y), NEW a, NEW n, NEW v
    PROVE  Amid(x, Store(y, a, n, v))
  <1> DEFINE k == Reach(a, n, Writable)
             z == WithMem(y, Written(y, a, k, v))
  <1>1. Store(y, a, n, v) = IF k = n THEN z ELSE Segfault(z, a + k)
    BY DEF Store, WithMem
  <1>2. Amid(x, z)
    BY AmidKept
  <1> HIDE DEF k, z
  <1>3. Amid(x, Segfault(z, a + k))
    BY <1>2, AmidRaised
  <1> QED
    BY <1>1, <1>2, <1>3

LEMMA BehindAdvanced ==
    ASSUME NEW x, NEW y, Amid(x, y), NEW n
    PROVE  Behind(x, Advanced(y, n), n)
  BY DEF Amid, Behind, Shape, Fields, Advanced, Blames

LEMMA BehindUnderflow ==
    ASSUME NEW x, Fresh(x)
    PROVE  Behind(x, Underflow(x), 1)
  <1>1. Underflow(x) = Advanced(WithStack(Raised(x, "STACK_UNDERFLOW"), <<>>), 1)
    BY DEF Underflow, WithStack
  <1> QED
    BY <1>1, AmidSelf, AmidKept, AmidRaised, BehindAdvanced

LEMMA ArithmeticBehind ==
    ASSUME NEW x, Fresh(x), NEW op
    PROVE  /\ Behind(x, Binary(x, op), 1)
           /\ Behind(x, Division(x, op), 1)
           /\ Behind(x, Sne(x), 1)
           /\ Behind(x, IsZero(x), 1)
  <1>1. Behind(x, Binary(x, op), 1)
    BY AmidSelf, AmidKept, BehindAdvanced, BehindUnderflow DEF Binary, Taking
  <1>2. Behind(x, Sne(x), 1)
    BY AmidSelf, AmidKept, AmidRaised, BehindAdvanced, BehindUnderflow DEF Sne, Taking
  <1>3. Behind(x, IsZero(x), 1)
    BY AmidSelf, AmidKept, BehindAdvanced, BehindUnderflow DEF IsZero, Taking
  <1>4. Behind(x, Division(x, op), 1)
    <2>1. Behind(x, Crashed(x), 1)
      BY DEF Crashed, Behind, Fresh, Shape, Fields
    <2> QED
      BY <2>1, AmidSelf, AmidKept, AmidRaised, BehindAdvanced, BehindUnderflow
         DEF Division, Taking
  <1> QED
    BY <1>1, <1>2, <1>3, <1>4

LEMMA StackBehind ==
    ASSUME NEW x, Fresh(x)
    PROVE  /\ Behind(x, Drop(x), 1)
           /\ Behind(x, Dup(x), 1)
           /\ Behind(x, Swap(x), 1)
           /\ Behind(x, Pull(x), 1)
           /\ Behind(x, FSwap(x), 1)
  <1>1. Behind(x, Drop(x), 1)
    BY AmidSelf, AmidKept, BehindAdvanced, BehindUnderflow DEF Drop, Taking
  <1>2. Behind(x, Dup(x), 1)
    BY AmidSelf, AmidKept, BehindAdvanced, BehindUnderflow DEF Dup, Taking
  <1>3. Behind(x, Swap(x), 1)
    BY AmidSelf, AmidKept, BehindAdvanced, BehindUnderflow DEF Swap, Taking
  <1>4. Behind(x, Pull(x), 1)
    BY AmidSelf, AmidKept, AmidRaised, BehindAdvanced, BehindUnderflow DEF Pull, Taking
  <1>5. Behind(x, FSwap(x), 1)
    <2> DEFINE rest == Popped(x, 2)
               slot == Height(rest) - Top(x, 1)
               y == WithStack(rest, [rest.stack EXCEPT ![slot] = Top(x, 2)])
    <2>1. y = [rest EXCEPT !.stack[slot] = Top(x, 2)]
      BY AmidSelf, AmidKept DEF WithStack, Amid, Shape, Fields
    <2>2. FSwap(x) = Taking(x, 2,
            IF BeyondStack(Top(x, 1), Height(rest))
            THEN Advanced(Raised(rest, "STACK_UNDERFLOW"), 1)
            ELSE Advanced(Pushed(y, rest.stack[slot]), 1))
      BY <2>1, Zenon DEF FSwap
    <2>3. Amid(x, y)
      BY AmidSelf, AmidKept
    <2> HIDE DEF y, slot
    <2> QED
      BY <2>2, <2>3, AmidSelf, AmidKept, AmidRaised, BehindAdvanced, BehindUnderflow
         DEF Taking
  <1> QED
    BY <1>1, <1>2, <1>3, <1>4, <1>5

\* An instruction that raises nothing but for a missing operand.
LEMMA QuietBehind ==
    ASSUME NEW x, Fresh(x), NEW n, NEW z, ~z.raised
    PROVE  Behind(x, Taking(x, n, z), 1)
  BY BehindUnderflow DEF Taking, Behind

\* Updates by instructions that raise nothing.
Quiet(y) == Shape(y) /\ ~y.raised

LEMMA QuietKept ==
    ASSUME NEW y, Quiet(y), NEW n, NEW v
    PROVE  /\ Quiet(Popped(y, n))
           /\ Quiet(Pushed(y, v))
           /\ Quiet(Advanced(y, n))
           /\ Quiet(WithSp(y, v))
           /\ Quiet(WithSf(y, v))
           /\ ~[y EXCEPT !.pc = v].raised
  BY DEF Quiet, Shape, Fields, Popped, Pushed, Advanced, WithSp, WithSf

LEMMA FlowBehind ==
    ASSUME NEW x, Fresh(x), NEW v
    PROVE  /\ Behind(x, Jump(x), 1)
           /\ Behind(x, JumpIf(x), 1)
           /\ Behind(x, Call(x), 1)
           /\ Behind(x, RelJump(x), 1)
           /\ Behind(x, RelJumpIf(x), 1)
           /\ Behind(x, RelCall(x), 1)
           /\ Behind(x, Report(x, v), 1)
           /\ Behind(x, Push(x), 1 + WORD)
  <1>0. Quiet(x)
    BY DEF Fresh, Quiet
  <1>1. Behind(x, Jump(x), 1)
    BY <1>0, QuietKept, QuietBehind DEF Jump
  <1>2. Behind(x, JumpIf(x), 1)
    BY <1>0, QuietKept, QuietBehind DEF JumpIf, Quiet
  <1>3. Behind(x, Call(x), 1)
    BY <1>0, QuietKept, QuietBehind DEF Call
  <1>4. Behind(x, RelJump(x), 1)
    BY <1>0, QuietKept, QuietBehind DEF RelJump, Quiet
  <1>5. Behind(x, RelJumpIf(x), 1)
    BY <1>0, QuietKept, QuietBehind DEF RelJumpIf, Quiet
  <1>6. Behind(x, RelCall(x), 1)
    BY <1>0, QuietKept, QuietBehind DEF RelCall, Quiet
  <1>7. Behind(x, Report(x, v), 1)
    BY AmidSelf, AmidKept, BehindAdvanced DEF Report
  <1>8. Behind(x, Push(x), 1 + WORD)
    BY AmidSelf, AmidKept, AmidLoad, BehindAdvanced DEF Push
  <1> QED
    BY <1>1, <1>2, <1>3, <1>4, <1>5, <1>6, <1>7, <1>8

LEMMA FetchBehind ==
    ASSUME NEW x, Fresh(x), NEW wild
    PROVE  Behind(x, Fetch(x, wild), 1)
  BY AmidSelf, AmidLoad, BehindAdvanced DEF Fetch

LEMMA MemoryBehind ==
    ASSUME NEW x, Fresh(x), NEW n, NEW wild
    PROVE  /\ Behind(x, Get(x, n, wild), 1)
           /\ Behind(x, Put(x, n), 1)
           /\ Behind(x, SfLoad(x, n, wild), 1)
           /\ Behind(x, SfStore(x, n), 1)
  <1>1. Behind(x, Get(x, n, wild), 1)
    BY AmidSelf, AmidKept, AmidLoad, BehindAdvanced, BehindUnderflow DEF Get, Taking
  <1>2. Behind(x, Put(x, n), 1)
    BY AmidSelf, AmidKept, AmidStore, BehindAdvanced, BehindUnderflow DEF Put, Taking
  <1>3. Behind(x, SfLoad(x, n, wild), 1)
    BY AmidSelf, AmidKept, AmidLoad, BehindAdvanced, BehindUnderflow DEF SfLoad, Taking
  <1>4. Behind(x, SfStore(x, n), 1)
    BY AmidSelf, AmidKept, AmidStore, BehindAdvanced, BehindUnderflow DEF SfStore, Taking
  <1> QED
    BY <1>1, <1>2, <1>3, <1>4

LEMMA SecondStackBehind ==
    ASSUME NEW x, Fresh(x), NEW wild
    PROVE  /\ Behind(x, SetSf(x), 1)
           /\ Behind(x, SetSp(x), 1)
           /\ Behind(x, SAdd(x), 1)
           /\ Behind(x, SPush(x), 1)
           /\ Behind(x, SPop(x, wild), 1)
           /\ Behind(x, SfEnd(x, wild), 1)
  <1>1. Behind(x, SetSf(x), 1)
    <2>1. SetSf(x) = Taking(x, 1, Advanced(WithSf(Popped(x, 1), Top(x, 1)), 1))
      BY DEF SetSf, WithSf
    <2> QED
      BY <2>1, AmidSelf, AmidKept, BehindAdvanced, BehindUnderflow DEF Taking
  <1>2. Behind(x, SetSp(x), 1)
    <2>1. SetSp(x) = Taking(x, 1, Advanced(WithSp(Popped(x, 1), Top(x, 1)), 1))
      BY DEF SetSp, WithSp
    <2> QED
      BY <2>1, AmidSelf, AmidKept, BehindAdvanced, BehindUnderflow DEF Taking
  <1>3. Behind(x, SAdd(x), 1)
    <2>1. SAdd(x) = Taking(x, 1, Advanced(WithSp(Popped(x, 1),
                        Wrap(Popped(x, 1).v2_sp + Top(x, 1))), 1))
      BY DEF SAdd, WithSp
    <2> QED
      BY <2>1, AmidSelf, AmidKept, BehindAdvanced, BehindUnderflow DEF Taking
  <1>4. Behind(x, SPush(x), 1)
    <2> DEFINE lower == Wrap(x.v2_sp - WORD)
    <2>1. SPush(x) = Taking(x, 1,
            Advanced(Store(WithSp(Popped(x, 1), lower), lower, WORD, Top(x, 1)), 1))
      BY DEF SPush, WithSp
    <2> QED
      BY <2>1, AmidSelf, AmidKept, AmidStore, BehindAdvanced, BehindUnderflow DEF Taking
  <1>5. Behind(x, SPop(x, wild), 1)
    <2> DEFINE got == Load(x, x.v2_sp, WORD, "READ", wild)
    <2>1. SPop(x, wild) = Advanced(Pushed(WithSp(got.machine,
                              Wrap(got.machine.v2_sp + WORD)), got.value), 1)
      BY DEF SPop, WithSp
    <2> QED
      BY <2>1, AmidSelf, AmidKept, AmidLoad, BehindAdvanced
  <1>6. Behind(x, SfEnd(x, wild), 1)
    <2> DEFINE got == Load(x, x.v2_sf, WORD, "READ", wild)
    <2>1. SfEnd(x, wild) = Advanced(WithSf(WithSp(got.machine, Wrap(x.v2_sf + WORD)),
                                           got.value), 1)
      BY DEF SfEnd, WithSp, WithSf
    <2> QED
      BY <2>1, AmidSelf, AmidKept, AmidLoad, BehindAdvanced
  <1> QED
    BY <1>1, <1>2, <1>3, <1>4, <1>5, <1>6

\* sfbegin, which may stay where it is.
LEMMA SfBeginBehind ==
    ASSUME NEW x, Fresh(x), NEW jumped
    PROVE  \/ Behind(x, SfBegin(x, jumped), 1)
           \/ Amid(x, SfBegin(x, jumped))
  <1> DEFINE lower == Wrap(x.v2_sp - WORD)
             z == WithSf(Store(WithSp(x, lower), lower, WORD, x.v2_sf), lower)
  <1>1. SfBegin(x, jumped) = IF jumped THEN z ELSE Advanced(z, 1)
    BY DEF SfBegin, WithSp, WithSf
  <1>2. Amid(x, z)
    BY AmidSelf, AmidKept, AmidStore
  <1> HIDE DEF z
  <1> QED
    BY <1>1, <1>2, BehindAdvanced

\* Any instruction, by its name.
GoesOnBehind(x, name, z) ==
    z.raised =>
      /\ Blames(x, z)
      /\ \/ z.pc = Wrap(x.pc + IF name = "push" THEN 1 + WORD ELSE 1)
         \/ name = "sfbegin" /\ z.pc = x.pc

LEMMA EveryInstructionGoesOn ==
    ASSUME Fresh(m), Next, last = "none"
    PROVE  GoesOnBehind(m, last', m')
  <1>0. ASSUME NEW name, NEW z, Execute(name, z), Behind(m, z, 1), name # "push"
        PROVE  GoesOnBehind(m, last', m')
    BY <1>0 DEF Execute, Behind, GoesOnBehind
  <1>1. CASE ExecArithmetic
    <2>1. \A op \in BinaryOps : op # "push"
      BY DEF BinaryOps
    <2> QED
      BY <1>0, <1>1, <2>1, ArithmeticBehind DEF ExecArithmetic
  <1>2. CASE ExecStack
    BY <1>0, <1>2, StackBehind DEF ExecStack
  <1>3. CASE ExecPush
    BY <1>3, FlowBehind DEF ExecPush, Execute, Behind, GoesOnBehind
  <1>4. CASE ExecFlow
    BY <1>0, <1>4, FlowBehind DEF ExecFlow
  <1>5. CASE ExecMemory
    BY <1>0, <1>5, MemoryBehind DEF ExecMemory
  <1>6. CASE ExecSecondStack
    <2>1. ASSUME NEW wild \in BOOLEAN, Execute("sfbegin", SfBegin(m, wild))
          PROVE  GoesOnBehind(m, last', m')
      BY <2>1, SfBeginBehind DEF Execute, Behind, Amid, GoesOnBehind
    <2> QED
      BY <1>0, <1>6, <2>1, SecondStackBehind, FlowBehind DEF ExecSecondStack
  <1>7. CASE FetchFails
    BY <1>0, <1>7, FetchBehind DEF FetchFails
  <1>8. CASE Finished
    BY <1>8 DEF Finished
  <1> QED
    BY <1>1, <1>2, <1>3, <1>4, <1>5, <1>6, <1>7, <1>8 DEF Next, ExecFetched

\* A fault names the instruction that faulted and goes on behind it, for every
\* instruction: the offsets VmCore resumes at are right (vm/ops.c).
THEOREM FaultsGoOn == Spec => FaultsGoOnBehind
  <1>1. MInv /\ [Next]_vars =>
          [(last = "none" /\ m'.raised /\ m'.host = "runs") =>
              /\ m'.exception_pc = m.pc
              /\ m'.exception_type # "NONE"
              /\ \/ m'.pc = Wrap(m.pc + IF last' = "push" THEN 1 + WORD ELSE 1)
                 \/ last' = "sfbegin" /\ m'.pc = m.pc ]_vars
    BY EveryInstructionGoesOn DEF MInv, GoesOnBehind, Blames
  <1> QED
    BY <1>1, MInvHolds, PTL DEF Spec, FaultsGoOnBehind

-----------------------------------------------------------------------------
(* Where a store stops.                                                     *)

\* The first k bytes can be reached, and the next one cannot or is not wanted.
Reaches(a, n, ok, k) ==
    /\ a..a + k - 1 \subseteq ok
    /\ k = n \/ a + k \notin ok

LEMMA ReachStops ==
    ASSUME NEW a \in Int, NEW n \in Nat, NEW ok
    PROVE  Reach(a, n, ok) \in 0..n /\ Reaches(a, n, ok, Reach(a, n, ok))
  <1> DEFINE T == {j \in Nat : \/ a..a + j - 1 \subseteq ok
                               \/ \E k \in 0..j - 1 : /\ a..a + k - 1 \subseteq ok
                                                      /\ a + k \notin ok}
  <1>1. 0 \in T
    <2>1. a..a + 0 - 1 = {}
      OBVIOUS
    <2> QED
      BY <2>1
  <1>2. ASSUME NEW j \in Nat, j \in T PROVE j + 1 \in T
    <2>1. CASE \E k \in 0..j - 1 : a..a + k - 1 \subseteq ok /\ a + k \notin ok
      <3>1. PICK k \in 0..j - 1 : a..a + k - 1 \subseteq ok /\ a + k \notin ok
        BY <2>1
      <3>2. k \in 0..(j + 1) - 1
        OBVIOUS
      <3> QED
        BY <3>1, <3>2
    <2>2. CASE a..a + j - 1 \subseteq ok /\ a + j \notin ok
      <3>1. j \in 0..(j + 1) - 1
        OBVIOUS
      <3> QED
        BY <2>2, <3>1
    <2>3. CASE a..a + j - 1 \subseteq ok /\ a + j \in ok
      <3>1. a..a + (j + 1) - 1 = (a..a + j - 1) \cup {a + j}
        OBVIOUS
      <3> QED
        BY <2>3, <3>1
    <2> QED
      BY <1>2, <2>1, <2>2, <2>3
  <1>3. n \in T
    <2> HIDE DEF T
    <2> QED
      BY <1>1, <1>2, AllNumbers
  <1>4. \E k \in 0..n : Reaches(a, n, ok, k)
    <2>1. CASE a..a + n - 1 \subseteq ok
      BY <2>1 DEF Reaches
    <2>2. CASE \E k \in 0..n - 1 : a..a + k - 1 \subseteq ok /\ a + k \notin ok
      BY <2>2 DEF Reaches
    <2> QED
      BY <1>3, <2>1, <2>2
  <1>5. Reach(a, n, ok) = CHOOSE k \in 0..n : Reaches(a, n, ok, k)
    BY DEF Reach, Reaches
  <1> QED
    BY <1>4, <1>5

\* y has the memory of x.
Spares(x, y) == Shape(y) /\ y.mem = x.mem

\* z is x after a store that began at a.
Changed(x, z) == {b \in Stored : z.mem[b] # x.mem[b]}
StoredAt(x, z, a) ==
    /\ Shape(z)
    /\ Changed(x, z) \subseteq a..a + WORD - 1
    /\ (Changed(x, z) # {} /\ z.raised) =>
         /\ z.exception_type = "SEGFAULT"
         /\ z.exception_addr \notin Writable
         /\ \A b \in Changed(x, z) : b < z.exception_addr

LEMMA SparesKept ==
    ASSUME NEW x, NEW y, Spares(x, y), NEW n, NEW v
    PROVE  /\ Spares(x, Popped(y, n))
           /\ Spares(x, Pushed(y, v))
           /\ Spares(x, Crashed(y))
           /\ Spares(x, Raised(y, v))
           /\ Spares(x, Segfault(y, v))
           /\ Spares(x, Advanced(y, n))
           /\ Spares(x, WithStack(y, v))
           /\ Spares(x, WithSp(y, v))
           /\ Spares(x, WithSf(y, v))
           /\ Spares(x, WithPc(y, v))
  BY DEF Spares, Shape, Fields, Popped, Pushed, Crashed, Raised, Segfault, Advanced,
         WithStack, WithSp, WithSf, WithPc

LEMMA SparesLoad ==
    ASSUME NEW x, NEW y, Spares(x, y), NEW a, NEW n, NEW usage, NEW wild
    PROVE  Spares(x, Load(y, a, n, usage, wild).machine)
  <1>1. ASSUME NEW b PROVE Spares(x, ReadFails(y, b, usage, wild))
    BY SparesKept DEF ReadFails
  <1> QED
    BY <1>1 DEF Load

LEMMA SparesUnderflow ==
    ASSUME NEW x, Spares(x, x)
    PROVE  Spares(x, Underflow(x))
  <1>1. Underflow(x) = Advanced(WithStack(Raised(x, "STACK_UNDERFLOW"), <<>>), 1)
    BY DEF Underflow, WithStack
  <1> QED
    BY <1>1, SparesKept

LEMMA SparesStoredAt ==
    ASSUME NEW x, NEW z, Spares(x, z), NEW a
    PROVE  StoredAt(x, z, a)
  BY DEF Spares, StoredAt, Changed

LEMMA StoreStoredAt ==
    ASSUME NEW x, NEW y, Spares(x, y), ~y.raised,
           NEW a \in Int, NEW n \in 1..WORD, NEW v
    PROVE  StoredAt(x, Store(y, a, n, v), a)
  <1> DEFINE k == Reach(a, n, Writable)
             z == WithMem(y, Written(y, a, k, v))
  <1>1. Store(y, a, n, v) = IF k = n THEN z ELSE Segfault(z, a + k)
    BY DEF Store, WithMem
  <1>2. k \in 0..n /\ (k = n \/ a + k \notin Writable)
    BY ReachStops DEF Reaches
  <1>3. /\ Shape(z) /\ ~z.raised
        /\ \A b \in Stored : b \notin a..a + k - 1 => z.mem[b] = x.mem[b]
    BY DEF Spares, Shape, Fields, WithMem, Written
  <1> HIDE DEF k, z
  <1>4. /\ Shape(Segfault(z, a + k))
        /\ Segfault(z, a + k).mem = z.mem
        /\ Segfault(z, a + k).exception_type = "SEGFAULT"
        /\ Segfault(z, a + k).exception_addr = a + k
    BY <1>3 DEF Shape, Fields, Segfault, Raised
  <1>5. Changed(x, z) \subseteq a..a + k - 1 /\ Changed(x, Segfault(z, a + k)) = Changed(x, z)
    BY <1>3, <1>4 DEF Changed
  <1>6. a..a + k - 1 \subseteq a..a + WORD - 1 /\ \A b \in a..a + k - 1 : b < a + k
    BY <1>2, WordAssumption
  <1>7. CASE k = n
    BY <1>1, <1>3, <1>5, <1>6, <1>7 DEF StoredAt
  <1>8. CASE k # n
    <2>1. /\ Changed(x, z) \subseteq a..a + WORD - 1
          /\ \A b \in Changed(x, z) : b < a + k
      BY <1>5, <1>6
    <2> QED
      BY <1>1, <1>2, <1>4, <1>5, <1>8, <2>1 DEF StoredAt
  <1> QED
    BY <1>7, <1>8

LEMMA StoredAtKept ==
    ASSUME NEW x, NEW z, NEW a, StoredAt(x, z, a), NEW n, NEW v
    PROVE  StoredAt(x, Advanced(z, n), a) /\ StoredAt(x, WithSf(z, v), a)
  BY DEF StoredAt, Changed, Shape, Fields, Advanced, WithSf

\* The instructions that store nothing.
LEMMA ComputeSpares ==
    ASSUME NEW x, Spares(x, x), NEW op
    PROVE  /\ Spares(x, Binary(x, op))
           /\ Spares(x, Division(x, op))
           /\ Spares(x, Sne(x))
           /\ Spares(x, IsZero(x))
           /\ Spares(x, Drop(x))
           /\ Spares(x, Dup(x))
           /\ Spares(x, Swap(x))
           /\ Spares(x, Pull(x))
           /\ Spares(x, FSwap(x))
  <1>1. Spares(x, Binary(x, op))
    BY SparesKept, SparesUnderflow DEF Binary, Taking
  <1>2. Spares(x, Division(x, op))
    BY SparesKept, SparesUnderflow DEF Division, Taking
  <1>3. Spares(x, Sne(x))
    BY SparesKept, SparesUnderflow DEF Sne, Taking
  <1>4. Spares(x, IsZero(x)) /\ Spares(x, Drop(x)) /\ Spares(x, Dup(x)) /\ Spares(x, Swap(x))
    BY SparesKept, SparesUnderflow DEF IsZero, Drop, Dup, Swap, Taking
  <1>5. Spares(x, Pull(x))
    BY SparesKept, SparesUnderflow DEF Pull, Taking
  <1>6. Spares(x, FSwap(x))
    <2> DEFINE rest == Popped(x, 2)
               slot == Height(rest) - Top(x, 1)
               y == WithStack(rest, [rest.stack EXCEPT ![slot] = Top(x, 2)])
    <2>1. y = [rest EXCEPT !.stack[slot] = Top(x, 2)]
      BY SparesKept DEF WithStack, Spares, Shape, Fields
    <2>2. FSwap(x) = Taking(x, 2,
            IF BeyondStack(Top(x, 1), Height(rest))
            THEN Advanced(Raised(rest, "STACK_UNDERFLOW"), 1)
            ELSE Advanced(Pushed(y, rest.stack[slot]), 1))
      BY <2>1, Zenon DEF FSwap
    <2>3. Spares(x, y)
      BY SparesKept
    <2> HIDE DEF y, slot
    <2> QED
      BY <2>2, <2>3, SparesKept, SparesUnderflow DEF Taking
  <1> QED
    BY <1>1, <1>2, <1>3, <1>4, <1>5, <1>6

LEMMA FlowSpares ==
    ASSUME NEW x, Spares(x, x), NEW v
    PROVE  /\ Spares(x, Push(x))
           /\ Spares(x, Jump(x))
           /\ Spares(x, JumpIf(x))
           /\ Spares(x, Call(x))
           /\ Spares(x, RelJump(x))
           /\ Spares(x, RelJumpIf(x))
           /\ Spares(x, RelCall(x))
           /\ Spares(x, Report(x, v))
  <1>1. Spares(x, Push(x))
    BY SparesKept, SparesLoad DEF Push
  <1>2. /\ Jump(x) = Taking(x, 1, WithPc(Popped(x, 1), Top(x, 1)))
        /\ JumpIf(x) = Taking(x, 2, IF Top(x, 2) = 0 THEN Advanced(Popped(x, 2), 1)
                                    ELSE WithPc(Popped(x, 2), Top(x, 1)))
        /\ Call(x) = Taking(x, 1,
              WithPc(Pushed(Popped(x, 1), Wrap(x.pc + 1)), Top(x, 1)))
    BY DEF Jump, JumpIf, Call, WithPc
  <1>3. Spares(x, Jump(x)) /\ Spares(x, JumpIf(x)) /\ Spares(x, Call(x))
    BY <1>2, SparesKept, SparesUnderflow DEF Taking
  <1>4. Spares(x, RelJump(x)) /\ Spares(x, RelJumpIf(x)) /\ Spares(x, RelCall(x))
    BY SparesKept, SparesUnderflow DEF RelJump, RelJumpIf, RelCall, Taking
  <1>5. Spares(x, Report(x, v))
    BY SparesKept DEF Report
  <1> QED
    BY <1>1, <1>3, <1>4, <1>5

LEMMA FetchSpares ==
    ASSUME NEW x, Spares(x, x), NEW wild
    PROVE  Spares(x, Fetch(x, wild))
  BY SparesKept, SparesLoad DEF Fetch

LEMMA ReadSpares ==
    ASSUME NEW x, Spares(x, x), NEW n, NEW wild
    PROVE  /\ Spares(x, Get(x, n, wild))
           /\ Spares(x, SfLoad(x, n, wild))
           /\ Spares(x, SPop(x, wild))
           /\ Spares(x, SfEnd(x, wild))
           /\ Spares(x, SetSf(x))
           /\ Spares(x, SetSp(x))
           /\ Spares(x, SAdd(x))
  <1>1. Spares(x, Get(x, n, wild)) /\ Spares(x, SfLoad(x, n, wild))
    BY SparesKept, SparesLoad, SparesUnderflow DEF Get, SfLoad, Taking
  <1>2. Spares(x, SPop(x, wild))
    <2> DEFINE got == Load(x, x.v2_sp, WORD, "READ", wild)
    <2>1. SPop(x, wild) = Advanced(Pushed(WithSp(got.machine,
                              Wrap(got.machine.v2_sp + WORD)), got.value), 1)
      BY DEF SPop, WithSp
    <2> QED
      BY <2>1, SparesKept, SparesLoad
  <1>3. Spares(x, SfEnd(x, wild))
    <2> DEFINE got == Load(x, x.v2_sf, WORD, "READ", wild)
    <2>1. SfEnd(x, wild) = Advanced(WithSf(WithSp(got.machine, Wrap(x.v2_sf + WORD)),
                                           got.value), 1)
      BY DEF SfEnd, WithSp, WithSf
    <2> QED
      BY <2>1, SparesKept, SparesLoad
  <1>4. Spares(x, SetSf(x)) /\ Spares(x, SetSp(x)) /\ Spares(x, SAdd(x))
    <2>1. /\ SetSf(x) = Taking(x, 1, Advanced(WithSf(Popped(x, 1), Top(x, 1)), 1))
          /\ SetSp(x) = Taking(x, 1, Advanced(WithSp(Popped(x, 1), Top(x, 1)), 1))
          /\ SAdd(x) = Taking(x, 1, Advanced(WithSp(Popped(x, 1),
                          Wrap(Popped(x, 1).v2_sp + Top(x, 1))), 1))
      BY DEF SetSf, SetSp, SAdd, WithSp, WithSf
    <2> QED
      BY <2>1, SparesKept, SparesUnderflow DEF Taking
  <1> QED
    BY <1>1, <1>2, <1>3, <1>4

\* Addresses are numbers.
LEMMA WordsAreNumbers ==
    /\ Words \subseteq Int
    /\ \A v \in Int : Wrap(v) \in Int
  BY WordsAreInts, WrapType

\* The instructions that store, from their targets on.
LEMMA StoresFromTarget ==
    ASSUME NEW x, Fresh(x), NEW n \in 1..WORD, NEW jumped
    PROVE  /\ StoredAt(x, Put(x, n), Target(x, "put"))
           /\ StoredAt(x, SfStore(x, n), Target(x, "sfstore"))
           /\ StoredAt(x, SPush(x), Target(x, "spush"))
           /\ StoredAt(x, SfBegin(x, jumped), Target(x, "sfbegin"))
  <1>0. /\ Spares(x, x)
        /\ Quiet(x)
        /\ WORD \in 1..WORD
        /\ x.v2_sp \in Int
        /\ x.v2_sf \in Int
    <2>1. Spares(x, x) /\ Quiet(x)
      BY DEF Fresh, Spares, Quiet
    <2>2. WORD \in 1..WORD
      BY WordAssumption
    <2>3. x.v2_sp \in Words /\ x.v2_sf \in Words
      BY DEF Fresh
    <2> QED
      BY <2>1, <2>2, <2>3, WordsAreNumbers
  <1>1. Height(x) >= 1 => Top(x, 1) \in Int
    <2>1. x.stack \in Seq(Words)
      BY DEF Fresh
    <2>2. \A i \in 1..Len(x.stack) : x.stack[i] \in Words
      BY <2>1
    <2>3. Len(x.stack) \in Nat /\ Len(x.stack) - 1 + 1 = Len(x.stack)
      BY <2>1
    <2>4. Len(x.stack) >= 1 => x.stack[Len(x.stack)] \in Int
      <3> SUFFICES ASSUME Len(x.stack) >= 1 PROVE x.stack[Len(x.stack)] \in Int
        OBVIOUS
      <3>1. Len(x.stack) \in 1..Len(x.stack)
        BY <2>3
      <3>2. x.stack[Len(x.stack)] \in Words
        BY <2>2, <3>1
      <3>3. Words \subseteq Int
        BY WordsAreNumbers
      <3> QED
        BY <3>2, <3>3
    <2>5. Top(x, 1) = x.stack[Len(x.stack)]
      BY <2>3 DEF Top, Height
    <2> QED
      BY <2>4, <2>5 DEF Height
  <1>2. StoredAt(x, Underflow(x), Target(x, "put"))
        /\ StoredAt(x, Underflow(x), Target(x, "sfstore"))
        /\ StoredAt(x, Underflow(x), Target(x, "spush"))
    BY <1>0, SparesUnderflow, SparesStoredAt
  <1>3. Height(x) \in Nat
    BY DEF Fresh, Height
  <1>4. StoredAt(x, Put(x, n), Target(x, "put"))
    <2>1. CASE Height(x) < 2
      BY <1>2, <2>1 DEF Put, Taking
    <2>2. CASE ~(Height(x) < 2)
      <3>1. Spares(x, Popped(x, 2)) /\ ~Popped(x, 2).raised
        BY <1>0, SparesKept, QuietKept DEF Quiet
      <3>2. Top(x, 1) \in Int
        BY <1>1, <1>3, <2>2
      <3>3. StoredAt(x, Store(Popped(x, 2), Top(x, 1), n, Top(x, 2)), Top(x, 1))
        BY <3>1, <3>2, StoreStoredAt
      <3> QED
        BY <2>2, <3>3, StoredAtKept DEF Put, Taking, Target
    <2> QED
      BY <2>1, <2>2
  <1>5. StoredAt(x, SfStore(x, n), Target(x, "sfstore"))
    <2> DEFINE a == Wrap(x.v2_sf + Top(x, 1))
    <2>1. CASE Height(x) < 2
      BY <1>2, <2>1 DEF SfStore, Taking
    <2>2. CASE ~(Height(x) < 2)
      <3>1. Spares(x, Popped(x, 2)) /\ ~Popped(x, 2).raised
        BY <1>0, SparesKept, QuietKept DEF Quiet
      <3>2. a \in Int
        BY <1>0, <1>1, <1>3, <2>2, WordsAreNumbers
      <3>3. StoredAt(x, Store(Popped(x, 2), a, n, Top(x, 2)), a)
        BY <3>1, <3>2, StoreStoredAt
      <3> QED
        BY <2>2, <3>3, StoredAtKept DEF SfStore, Taking, Target
    <2> QED
      BY <2>1, <2>2
  <1>6. Wrap(x.v2_sp - WORD) \in Int
    BY <1>0, WordsAreNumbers, WordAssumption
  <1>7. StoredAt(x, SPush(x), Target(x, "spush"))
    <2> DEFINE a == Wrap(x.v2_sp - WORD)
               y == WithSp(Popped(x, 1), a)
    <2>1. SPush(x) = Taking(x, 1, Advanced(Store(y, a, WORD, Top(x, 1)), 1))
      BY DEF SPush, WithSp
    <2>2. Spares(x, y) /\ ~y.raised
      BY <1>0, SparesKept, QuietKept DEF Quiet
    <2>3. StoredAt(x, Store(y, a, WORD, Top(x, 1)), a)
      BY <1>0, <1>6, <2>2, StoreStoredAt
    <2> QED
      BY <1>2, <2>1, <2>3, StoredAtKept DEF Taking, Target
  <1>8. StoredAt(x, SfBegin(x, jumped), Target(x, "sfbegin"))
    <2> DEFINE a == Wrap(x.v2_sp - WORD)
               y == WithSp(x, a)
               z == WithSf(Store(y, a, WORD, x.v2_sf), a)
    <2>1. SfBegin(x, jumped) = IF jumped THEN z ELSE Advanced(z, 1)
      BY DEF SfBegin, WithSp, WithSf
    <2>2. Spares(x, y) /\ ~y.raised
      BY <1>0, SparesKept, QuietKept DEF Quiet
    <2>3. StoredAt(x, z, a)
      BY <1>0, <1>6, <2>2, StoreStoredAt, StoredAtKept
    <2>4. StoredAt(x, Advanced(z, 1), a)
      BY <2>3, StoredAtKept
    <2> HIDE DEF z
    <2> QED
      BY <2>1, <2>3, <2>4 DEF Target
  <1> QED
    BY <1>4, <1>5, <1>7, <1>8

\* Any instruction, by its name.
StoringOps == {"put", "sfstore", "spush", "sfbegin"}
StopsAtFault(x, name, z) ==
    Spares(x, z) \/ (name \in StoringOps /\ StoredAt(x, z, Target(x, name)))

LEMMA EveryStoreStops ==
    ASSUME Fresh(m), Next, last = "none"
    PROVE  StopsAtFault(m, last', m')
  <1>0. Spares(m, m)
    BY DEF Fresh, Spares
  <1>n. ASSUME NEW name, NEW z, Execute(name, z), Spares(m, z)
        PROVE  StopsAtFault(m, last', m')
    BY <1>n DEF Execute, StopsAtFault
  <1>s. ASSUME NEW name, NEW z, Execute(name, z), name \in StoringOps,
               StoredAt(m, z, Target(m, name))
        PROVE  StopsAtFault(m, last', m')
    BY <1>s DEF Execute, StopsAtFault
  <1>1. CASE ExecArithmetic
    BY <1>0, <1>n, <1>1, ComputeSpares DEF ExecArithmetic
  <1>2. CASE ExecStack
    BY <1>0, <1>n, <1>2, ComputeSpares DEF ExecStack
  <1>3. CASE ExecPush
    BY <1>0, <1>n, <1>3, FlowSpares DEF ExecPush
  <1>4. CASE ExecFlow
    BY <1>0, <1>n, <1>4, FlowSpares DEF ExecFlow
  <1>5. CASE ExecMemory
    <2>1. PICK n \in Sizes, wild \in BOOLEAN :
            \/ Execute("get", Get(m, n, wild))
            \/ Execute("put", Put(m, n))
            \/ Execute("sfload", SfLoad(m, n, wild))
            \/ Execute("sfstore", SfStore(m, n))
      BY <1>5 DEF ExecMemory
    <2>2. n \in 1..WORD /\ "put" \in StoringOps /\ "sfstore" \in StoringOps
      BY SizesAssumption DEF StoringOps
    <2> QED
      BY <1>0, <1>n, <1>s, <2>1, <2>2, ReadSpares, StoresFromTarget
  <1>6. CASE ExecSecondStack
    <2>1. WORD \in 1..WORD /\ "spush" \in StoringOps /\ "sfbegin" \in StoringOps
      BY WordAssumption DEF StoringOps
    <2> QED
      BY <1>0, <1>n, <1>s, <1>6, <2>1, ReadSpares, FlowSpares, StoresFromTarget
         DEF ExecSecondStack
  <1>7. CASE FetchFails
    BY <1>0, <1>n, <1>7, FetchSpares DEF FetchFails
  <1>8. CASE Finished
    BY <1>8 DEF Finished
  <1> QED
    BY <1>1, <1>2, <1>3, <1>4, <1>5, <1>6, <1>7, <1>8 DEF Next, ExecFetched

\* A store that faults has stored below the address it reports, and that cannot
\* be written; nothing else touches memory (vm/mem.c:89-123).
THEOREM StoresStop == Spec => StoresStopAtFault
  <1>1. ASSUME MInv, Next, last = "none"
        PROVE  /\ Changed(m, m') # {} =>
                    /\ last' \in {"put", "sfstore", "spush", "sfbegin"}
                    /\ Changed(m, m') \subseteq Target(m, last')..Target(m, last') + WORD - 1
               /\ (Changed(m, m') # {} /\ m'.raised) =>
                    /\ m'.exception_type = "SEGFAULT"
                    /\ m'.exception_addr \notin Writable
                    /\ \A a \in Changed(m, m') : a < m'.exception_addr
    <2>1. StopsAtFault(m, last', m')
      BY <1>1, EveryStoreStops DEF MInv
    <2>2. CASE Spares(m, m')
      BY <2>2 DEF Spares, Changed
    <2>3. CASE last' \in StoringOps /\ StoredAt(m, m', Target(m, last'))
      BY <2>3 DEF StoringOps, StoredAt
    <2> QED
      BY <2>1, <2>2, <2>3 DEF StopsAtFault
  <1>2. ASSUME Next, last # "none" PROVE m' = m /\ UNCHANGED vars
    BY <1>2 DEF Next, ExecFetched, ExecArithmetic, ExecStack, ExecPush, ExecFlow,
                ExecMemory, ExecSecondStack, FetchFails, Execute, Finished, vars
  <1>3. MInv /\ [Next]_vars =>
          [ LET changed == {a \in Stored : m'.mem[a] # m.mem[a]}
            IN  /\ changed # {} =>
                     /\ last' \in {"put", "sfstore", "spush", "sfbegin"}
                     /\ changed \subseteq Target(m, last')..Target(m, last') + WORD - 1
                /\ (changed # {} /\ m'.raised) =>
                     /\ m'.exception_type = "SEGFAULT"
                     /\ m'.exception_addr \notin Writable
                     /\ \A a \in changed : a < m'.exception_addr ]_vars
    BY <1>1, <1>2 DEF Changed
  <1> QED
    BY <1>3, MInvHolds, PTL DEF Spec, StoresStopAtFault

-----------------------------------------------------------------------------
(* What an instruction takes and leaves.                                    *)

\* y has a stack of t values, the lowest h of which are those of x.
Holds(x, y, h, t) ==
    /\ Shape(y)
    /\ \E S : y.stack \in Seq(S)
    /\ Height(y) = t
    /\ h \in Nat /\ h <= t
    /\ \A i \in 1..h : y.stack[i] = x.stack[i]

\* z is x after an instruction of k operands and r results.
Leaves(x, z, k, r) ==
    z.host = "runs" =>
      /\ ~z.raised => Height(z) = Height(x) - k + r
      /\ Height(x) - k >= 0 =>
           /\ Height(z) >= Height(x) - k
           /\ \A i \in 1..Height(x) - k : z.stack[i] = x.stack[i]

LEMMA HoldsSelf ==
    ASSUME NEW x, Fresh(x)
    PROVE  Holds(x, x, Height(x), Height(x)) /\ Height(x) \in Nat
  <1>1. x.stack \in Seq(Words) /\ Shape(x)
    BY DEF Fresh
  <1>2. Len(x.stack) \in Nat
    BY <1>1
  <1> QED
    BY <1>1, <1>2 DEF Holds, Height

LEMMA HoldsPopped ==
    ASSUME NEW x, Fresh(x), NEW n \in Nat, n <= Height(x)
    PROVE  Holds(x, Popped(x, n), Height(x) - n, Height(x) - n)
  <1> DEFINE k == Height(x) - n
             q == SubSeq(x.stack, 1, k)
  <1>1. x.stack \in Seq(Words) /\ Len(x.stack) \in Nat /\ k \in Nat /\ k <= Len(x.stack)
    BY DEF Fresh, Height
  <1>2. Shape(Popped(x, n)) /\ Popped(x, n).stack = q
    BY DEF Fresh, Shape, Fields, Popped
  <1>3. \A i \in 1..k : x.stack[i] \in Words
    BY <1>1
  <1> HIDE DEF k
  <1>4. /\ q \in Seq(Words)
        /\ Len(q) = IF 1 <= k THEN k - 1 + 1 ELSE 0
        /\ \A i \in 1..k - 1 + 1 : q[i] = x.stack[1 + i - 1]
    BY <1>1, <1>3, SubSeqProperties
  <1>5. \A i \in 1..k : i \in 1..k - 1 + 1 /\ 1 + i - 1 = i
    BY <1>1
  <1>6. Len(q) = k /\ \A i \in 1..k : q[i] = x.stack[i]
    BY <1>1, <1>4, <1>5
  <1>7. \E S : Popped(x, n).stack \in Seq(S)
    BY <1>2, <1>4
  <1>8. /\ Height(Popped(x, n)) = k
        /\ \A i \in 1..k : Popped(x, n).stack[i] = x.stack[i]
    BY <1>2, <1>6 DEF Height
  <1>9. Holds(x, Popped(x, n), k, k)
    BY <1>1, <1>2, <1>7, <1>8 DEF Holds
  <1> QED
    BY <1>9 DEF k

LEMMA HoldsPushed ==
    ASSUME NEW x, NEW y, NEW h, NEW t, Holds(x, y, h, t), NEW v
    PROVE  Holds(x, Pushed(y, v), h, t + 1)
  <1>1. PICK S : y.stack \in Seq(S)
    BY DEF Holds
  <1>2. Shape(Pushed(y, v)) /\ Pushed(y, v).stack = Append(y.stack, v)
    BY DEF Holds, Shape, Fields, Pushed
  <1>3. y.stack \in Seq(S \cup {v}) /\ v \in S \cup {v}
    BY <1>1
  <1>4. /\ Append(y.stack, v) \in Seq(S \cup {v})
        /\ Len(Append(y.stack, v)) = Len(y.stack) + 1
        /\ \A i \in 1..Len(y.stack) : Append(y.stack, v)[i] = y.stack[i]
    BY <1>3, AppendProperties
  <1>5. Len(y.stack) \in Nat
    BY <1>1
  <1>6. Len(y.stack) = t /\ h \in Nat /\ h <= t /\ \A i \in 1..h : y.stack[i] = x.stack[i]
    BY DEF Holds, Height
  <1>7. \A i \in 1..h : i \in 1..Len(y.stack)
    BY <1>5, <1>6
  <1>8. /\ Height(Pushed(y, v)) = t + 1
        /\ h <= t + 1
        /\ \A i \in 1..h : Pushed(y, v).stack[i] = x.stack[i]
    BY <1>2, <1>4, <1>5, <1>6, <1>7 DEF Height
  <1>9. \E U : Pushed(y, v).stack \in Seq(U)
    BY <1>2, <1>4
  <1> QED
    BY <1>2, <1>6, <1>8, <1>9 DEF Holds

LEMMA HoldsKept ==
    ASSUME NEW x, NEW y, NEW h, NEW t, Holds(x, y, h, t), NEW n, NEW v
    PROVE  /\ Holds(x, Crashed(y), h, t)
           /\ Holds(x, Raised(y, v), h, t)
           /\ Holds(x, Segfault(y, v), h, t)
           /\ Holds(x, Advanced(y, n), h, t)
           /\ Holds(x, WithMem(y, v), h, t)
           /\ Holds(x, WithSp(y, v), h, t)
           /\ Holds(x, WithSf(y, v), h, t)
           /\ Holds(x, WithPc(y, v), h, t)
  BY DEF Holds, Height, Shape, Fields, Crashed, Raised, Segfault, Advanced,
         WithMem, WithSp, WithSf, WithPc

LEMMA HoldsLower ==
    ASSUME NEW x, NEW y, NEW h, NEW t, Holds(x, y, h, t), NEW g \in Nat, g <= h
    PROVE  Holds(x, y, g, t)
  <1>1. PICK S : y.stack \in Seq(S)
    BY DEF Holds
  <1>2. t \in Nat
    BY <1>1 DEF Holds, Height
  <1> QED
    BY <1>2 DEF Holds

LEMMA HoldsStore ==
    ASSUME NEW x, NEW y, NEW h, NEW t, Holds(x, y, h, t), NEW a, NEW n, NEW v
    PROVE  Holds(x, Store(y, a, n, v), h, t)
  <1> DEFINE k == Reach(a, n, Writable)
             z == WithMem(y, Written(y, a, k, v))
  <1>1. Store(y, a, n, v) = IF k = n THEN z ELSE Segfault(z, a + k)
    BY DEF Store, WithMem
  <1>2. Holds(x, z, h, t)
    BY HoldsKept
  <1> HIDE DEF k, z
  <1>3. Holds(x, Segfault(z, a + k), h, t)
    BY <1>2, HoldsKept
  <1> QED
    BY <1>1, <1>2, <1>3

\* A read that fails raises an exception, or kills the emulator.
LEMMA HoldsLoad ==
    ASSUME NEW x, NEW y, NEW h, NEW t, Holds(x, y, h, t),
           NEW a, NEW n, NEW usage, NEW wild
    PROVE  LET got == Load(y, a, n, usage, wild)
           IN  /\ Holds(x, got.machine, h, t)
               /\ ~got.ok => got.machine.raised \/ got.machine.host = "crashed"
  <1>1. ASSUME NEW b
        PROVE  /\ Holds(x, ReadFails(y, b, usage, wild), h, t)
               /\ \/ ReadFails(y, b, usage, wild).raised
                  \/ ReadFails(y, b, usage, wild).host = "crashed"
    <2>1. Holds(x, Crashed(y), h, t) /\ Crashed(y).host = "crashed"
      BY ZenonT(30), HoldsKept DEF Holds, Shape, Fields, Crashed
    <2>2. \A c : Holds(x, Segfault(y, c), h, t)
      BY HoldsKept
    <2>3. \A c : Segfault(y, c).raised
      BY DEF Holds, Shape, Fields, Segfault, Raised
    <2> QED
      BY <2>1, <2>2, <2>3 DEF ReadFails
  <1> QED
    BY <1>1 DEF Load

\* The three ways an instruction ends.
LEMMA LeavesResults ==
    ASSUME NEW x, NEW z, NEW k, NEW r, Holds(x, z, Height(x) - k, Height(x) - k + r),
           Height(x) - k \in Nat, r \in Nat
    PROVE  Leaves(x, z, k, r)
  BY DEF Holds, Leaves

LEMMA LeavesRaised ==
    ASSUME NEW x, NEW z, NEW k, NEW r, NEW t, Holds(x, z, Height(x) - k, t), z.raised
    PROVE  Leaves(x, z, k, r)
  BY DEF Holds, Leaves

LEMMA LeavesCrashed ==
    ASSUME NEW x, NEW z, NEW k, NEW r, z.host = "crashed"
    PROVE  Leaves(x, z, k, r)
  BY DEF Leaves

\* A missing operand leaves nothing that has to be kept.
LEMMA LeavesTaking ==
    ASSUME NEW x, Fresh(x), NEW n \in Nat, NEW k \in Nat, n <= k, NEW r, NEW z,
           Height(x) >= n => Leaves(x, z, k, r)
    PROVE  Leaves(x, Taking(x, n, z), k, r)
  <1>0. Height(x) \in Nat
    BY HoldsSelf
  <1>1. CASE Height(x) < n
    <2>1. Taking(x, n, z) = Underflow(x)
      BY <1>1 DEF Taking
    <2>2. Underflow(x).raised
      BY DEF Fresh, Shape, Fields, Underflow, Advanced, Raised
    <2>3. ~(Height(x) - k >= 0)
      BY <1>0, <1>1
    <2> QED
      BY <2>1, <2>2, <2>3 DEF Leaves
  <1>2. CASE ~(Height(x) < n)
    BY <1>0, <1>2 DEF Taking
  <1> QED
    BY <1>1, <1>2

\* Operands are taken, and results pushed.
LEMMA LeavesUsual ==
    ASSUME NEW x, Fresh(x), NEW k \in Nat, Height(x) >= k, NEW n, NEW v, NEW w
    PROVE  /\ Leaves(x, Advanced(Popped(x, k), n), k, 0)
           /\ Leaves(x, WithPc(Popped(x, k), v), k, 0)
           /\ Leaves(x, Advanced(Pushed(Popped(x, k), v), n), k, 1)
           /\ Leaves(x, WithPc(Pushed(Popped(x, k), v), w), k, 1)
           /\ Leaves(x, Advanced(Pushed(Pushed(Popped(x, k), v), w), n), k, 2)
  <1> DEFINE h == Height(x) - k
  <1>1. h \in Nat /\ h + 0 = h /\ h + 1 + 1 = h + 2
    BY HoldsSelf
  <1>2. Holds(x, Popped(x, k), h, h)
    BY HoldsPopped
  <1>3. Holds(x, Pushed(Popped(x, k), v), h, h + 1)
    BY <1>2, HoldsPushed
  <1>4. Holds(x, Pushed(Pushed(Popped(x, k), v), w), h, h + 2)
    BY <1>1, <1>3, HoldsPushed
  <1>5. /\ Holds(x, Advanced(Popped(x, k), n), h, h + 0)
        /\ Holds(x, WithPc(Popped(x, k), v), h, h + 0)
    BY <1>1, <1>2, HoldsKept
  <1>6. /\ Holds(x, Advanced(Pushed(Popped(x, k), v), n), h, h + 1)
        /\ Holds(x, WithPc(Pushed(Popped(x, k), v), w), h, h + 1)
    BY <1>3, HoldsKept
  <1>7. Holds(x, Advanced(Pushed(Pushed(Popped(x, k), v), w), n), h, h + 2)
    BY <1>4, HoldsKept
  <1> QED
    BY <1>1, <1>5, <1>6, <1>7, LeavesResults

\* A fault after j of the k operands have been taken.
LEMMA LeavesFault ==
    ASSUME NEW x, Fresh(x), NEW j \in Nat, NEW k \in Nat, j <= k, j <= Height(x),
           NEW r, NEW what
    PROVE  Leaves(x, Advanced(Raised(Popped(x, j), what), 1), k, r)
  <1> DEFINE z == Advanced(Raised(Popped(x, j), what), 1)
  <1>0. Height(x) \in Nat
    BY HoldsSelf
  <1>1. Holds(x, z, Height(x) - j, Height(x) - j)
    BY HoldsPopped, HoldsKept
  <1>2. z.raised
    BY DEF Fresh, Shape, Fields, Advanced, Raised, Popped
  <1> HIDE DEF z
  <1>3. Leaves(x, z, k, r)
    <2>1. CASE Height(x) >= k
      <3>1. Holds(x, z, Height(x) - k, Height(x) - j)
        BY <1>0, <1>1, <2>1, HoldsLower
      <3> QED
        BY <1>2, <3>1, LeavesRaised
    <2>2. CASE ~(Height(x) >= k)
      <3>1. ~(Height(x) - k >= 0)
        BY <1>0, <2>2
      <3> QED
        BY <1>2, <3>1 DEF Leaves
    <2> QED
      BY <2>1, <2>2
  <1> QED
    BY <1>3 DEF z

LEMMA ArithmeticLeaves ==
    ASSUME NEW x, Fresh(x), NEW op
    PROVE  /\ Leaves(x, Binary(x, op), 2, 1)
           /\ Leaves(x, Division(x, op), 2, 1)
           /\ Leaves(x, Sne(x), 2, 1)
           /\ Leaves(x, IsZero(x), 1, 1)
  <1>1. Leaves(x, Binary(x, op), 2, 1)
    BY LeavesTaking, LeavesUsual DEF Binary
  <1>2. Leaves(x, Sne(x), 2, 1)
    BY LeavesTaking, LeavesUsual, LeavesFault DEF Sne
  <1>3. Leaves(x, IsZero(x), 1, 1)
    BY LeavesTaking, LeavesUsual DEF IsZero
  <1>4. Leaves(x, Division(x, op), 2, 1)
    <2> DEFINE a == Top(x, 1)
               b == Top(x, 2)
               result == IF op = "div" THEN Quotient(b, a) ELSE Remainder(b, a)
               rest == IF a = -1 /\ b = -HALF THEN Crashed(x)
                       ELSE Advanced(Pushed(Popped(x, 2), result), 1)
               z == IF a = 0 THEN Advanced(Raised(Popped(x, 1), "DIVIDE_BY_ZERO"), 1)
                    ELSE Taking(x, 2, rest)
    <2>1. Leaves(x, Crashed(x), 2, 1)
      <3>1. Crashed(x).host = "crashed"
        BY DEF Fresh, Shape, Fields, Crashed
      <3> QED
        BY <3>1, LeavesCrashed
    <2>2. Height(x) >= 2 => Leaves(x, rest, 2, 1)
      BY <2>1, LeavesUsual
    <2> DEFINE rested == Taking(x, 2, rest)
    <2>3. Leaves(x, rested, 2, 1)
      <3> HIDE DEF rest
      <3> QED
        BY <2>2, LeavesTaking
    <2>4. Height(x) >= 1 => Leaves(x, z, 2, 1)
      <3> HIDE DEF rested
      <3>1. z = IF a = 0 THEN Advanced(Raised(Popped(x, 1), "DIVIDE_BY_ZERO"), 1) ELSE rested
        BY DEF rested
      <3> HIDE DEF z
      <3> QED
        BY <2>3, <3>1, LeavesFault
    <2>5. Leaves(x, Taking(x, 1, z), 2, 1)
      <3> HIDE DEF z
      <3> QED
        BY <2>4, LeavesTaking
    <2> QED
      BY <2>5 DEF Division
  <1> QED
    BY <1>1, <1>2, <1>3, <1>4

\* A sequence with one of its elements replaced.
Replace1(s, i, e) == [s EXCEPT ![i] = e]

LEMMA Replaced ==
    ASSUME NEW S, NEW s \in Seq(S), NEW i, NEW e
    PROVE  /\ Replace1(s, i, e) \in Seq(S \cup {e})
           /\ Len(Replace1(s, i, e)) = Len(s)
           /\ \A j \in 1..Len(s) : j # i => Replace1(s, i, e)[j] = s[j]
  <1> DEFINE q == Replace1(s, i, e)
  <1>1. Len(s) \in Nat /\ DOMAIN s = 1..Len(s) /\ \A j \in 1..Len(s) : s[j] \in S
    OBVIOUS
  <1>2. q = [j \in 1..Len(s) |-> IF j = i THEN e ELSE s[j]]
    BY <1>1 DEF Replace1
  <1>3. q \in [1..Len(s) -> S \cup {e}]
    BY <1>1, <1>2
  <1>4. \A n \in Nat : \A f \in [1..n -> S \cup {e}] : f \in Seq(S \cup {e}) /\ Len(f) = n
    OBVIOUS
  <1>5. q \in Seq(S \cup {e}) /\ Len(q) = Len(s)
    BY <1>1, <1>3, <1>4
  <1> QED
    BY <1>2, <1>5

\* fswap: the value the slot had is pushed in exchange for the new one.
Exchanges(x, z) ==
    z.host = "runs" =>
      /\ ~z.raised => Height(z) = Height(x) - 2 + 1
      /\ Height(x) - 2 >= 0 =>
           /\ Height(z) >= Height(x) - 2
           /\ \A i \in 1..Height(x) - 2 :
                 z.stack[i] # x.stack[i] => x.stack[i] = z.stack[Height(z)]

LEMMA FSwapExchanges == ASSUME NEW x, Fresh(x) PROVE Exchanges(x, FSwap(x))
  <1> DEFINE rest == Popped(x, 2)
             slot == Height(rest) - Top(x, 1)
             q == [rest.stack EXCEPT ![slot] = Top(x, 2)]
             y == WithStack(rest, q)
             v == rest.stack[slot]
             z == Advanced(Pushed(y, v), 1)
             missed == Advanced(Raised(rest, "STACK_UNDERFLOW"), 1)
  <1>0. Height(x) \in Nat /\ x.stack \in Seq(Words) /\ Shape(x)
    BY HoldsSelf DEF Fresh
  <1>1. CASE Height(x) < 2
    <2>1. FSwap(x) = Underflow(x)
      BY <1>1 DEF FSwap, Taking
    <2>2. Leaves(x, Taking(x, 2, x), 2, 1)
      BY <1>1, LeavesTaking, <1>0
    <2>3. Taking(x, 2, x) = Underflow(x)
      BY <1>1 DEF Taking
    <2> QED
      BY <1>0, <1>1, <2>1, <2>2, <2>3 DEF Leaves, Exchanges
  <1>2. CASE Height(x) >= 2
    <2>1. Holds(x, rest, Height(x) - 2, Height(x) - 2)
      BY <1>2, HoldsPopped
    <2>2. y = [rest EXCEPT !.stack[slot] = Top(x, 2)]
      BY <2>1 DEF WithStack, Holds, Shape, Fields
    <2>3. FSwap(x) = IF BeyondStack(Top(x, 1), Height(rest)) THEN missed ELSE z
      <3>1. ~(Height(x) < 2)
        BY <1>0, <1>2
      <3> QED
        BY <2>2, <3>1, Zenon DEF FSwap, Taking
    <2>4. Exchanges(x, missed)
      <3>1. Leaves(x, missed, 2, 1)
        BY <1>2, LeavesFault
      <3> HIDE DEF missed
      <3> QED
        BY <3>1 DEF Leaves, Exchanges
    <2>5. Exchanges(x, z)
      <3>1. PICK n \in Nat : n = Height(x) - 2
        BY <1>0, <1>2
      <3>2. /\ rest.stack \in Seq(Words)
            /\ Len(rest.stack) = n
            /\ \A i \in 1..n : rest.stack[i] = x.stack[i]
            /\ Shape(rest)
        <4>1. rest.stack = SubSeq(x.stack, 1, n)
          BY <1>0, <3>1 DEF Popped, Shape, Fields
        <4>2. \A i \in 1..n : x.stack[i] \in Words
          BY <1>0, <3>1 DEF Height
        <4>3. SubSeq(x.stack, 1, n) \in Seq(Words)
          <5>1. n \in Int /\ 1 \in Int /\ \A i \in 1..n : x.stack[i] \in Words
            BY <4>2
          <5> QED
            BY <5>1, SubSeqProperties
        <4>4. Height(rest) = n /\ \A i \in 1..n : rest.stack[i] = x.stack[i]
          BY <2>1, <3>1 DEF Holds
        <4> HIDE DEF rest
        <4> QED
          BY <2>1, <4>1, <4>3, <4>4 DEF Holds, Height
      <3>3. /\ q \in Seq(Words \cup {Top(x, 2)})
            /\ Len(q) = n
            /\ \A i \in 1..n : i # slot => q[i] = rest.stack[i]
        <4>1. PICK old : old = rest.stack
          OBVIOUS
        <4>2. q = Replace1(old, slot, Top(x, 2))
          BY <4>1 DEF Replace1
        <4>3. old \in Seq(Words) /\ Len(old) = n
          BY <3>2, <4>1
        <4> HIDE DEF rest, slot, q
        <4>4. /\ Replace1(old, slot, Top(x, 2)) \in Seq(Words \cup {Top(x, 2)})
              /\ Len(Replace1(old, slot, Top(x, 2))) = Len(old)
              /\ \A i \in 1..Len(old) :
                    i # slot => Replace1(old, slot, Top(x, 2))[i] = old[i]
          <5>1. \A i, u : /\ Replace1(old, i, u) \in Seq(Words \cup {u})
                          /\ Len(Replace1(old, i, u)) = Len(old)
                          /\ \A j \in 1..Len(old) : j # i => Replace1(old, i, u)[j] = old[j]
            BY <4>3, Replaced
          <5> QED
            BY <5>1
        <4>5. q \in Seq(Words \cup {Top(x, 2)})
          BY <4>2, <4>4
        <4>6. Len(q) = n
          BY <4>2, <4>3, <4>4
        <4>7. \A i \in 1..n : i # slot => q[i] = rest.stack[i]
          BY <4>1, <4>2, <4>3, <4>4, Zenon
        <4> QED
          BY <4>5, <4>6, <4>7
      <3>4. Shape(y) /\ y.stack = q /\ Shape(z) /\ z.stack = Append(q, v)
        BY <3>2 DEF Shape, Fields, WithStack, Advanced, Pushed
      <3> HIDE DEF q, y, z, v
      <3>5. PICK S : S = (Words \cup {Top(x, 2)}) \cup {v}
        OBVIOUS
      <3>6. q \in Seq(S) /\ v \in S
        BY <3>3, <3>5
      <3>7. /\ Len(z.stack) = n + 1
            /\ \A i \in 1..n : z.stack[i] = q[i]
            /\ z.stack[n + 1] = v
        BY <3>3, <3>4, <3>6, AppendProperties
      <3>8. ASSUME NEW i \in 1..n, z.stack[i] # x.stack[i]
            PROVE  x.stack[i] = z.stack[n + 1]
        <4>1. i = slot
          BY <3>2, <3>3, <3>7, <3>8
        <4> QED
          BY <3>2, <3>7, <4>1 DEF v
      <3>9. Height(z) = n + 1 /\ Height(x) = n + 2 /\ Height(x) - 2 = n
        BY <1>0, <3>1, <3>7 DEF Height
      <3>10. n + 1 = Height(x) - 2 + 1 /\ n + 1 >= n
        BY <3>9
      <3> QED
        BY <3>8, <3>9, <3>10 DEF Exchanges
    <2> HIDE DEF z, missed
    <2> QED
      BY <2>3, <2>4, <2>5
  <1> QED
    BY <1>0, <1>1, <1>2

LEMMA StackLeaves ==
    ASSUME NEW x, Fresh(x)
    PROVE  /\ Leaves(x, Drop(x), 1, 0)
           /\ Leaves(x, Dup(x), 1, 2)
           /\ Leaves(x, Swap(x), 2, 2)
           /\ Leaves(x, Pull(x), 1, 1)
  <1>1. Leaves(x, Drop(x), 1, 0)
    BY LeavesTaking, LeavesUsual DEF Drop
  <1>2. Leaves(x, Dup(x), 1, 2)
    <2> DEFINE z == Advanced(Pushed(x, Top(x, 1)), 1)
    <2>1. Holds(x, z, Height(x), Height(x) + 1) /\ Height(x) \in Nat
      BY HoldsSelf, HoldsPushed, HoldsKept
    <2> HIDE DEF z
    <2>2. Height(x) >= 1 => Leaves(x, z, 1, 2)
      <3> SUFFICES ASSUME Height(x) >= 1 PROVE Leaves(x, z, 1, 2)
        OBVIOUS
      <3>1. Height(x) - 1 \in Nat /\ Height(x) - 1 <= Height(x)
            /\ Height(x) + 1 = Height(x) - 1 + 2
        BY <2>1
      <3>2. Holds(x, z, Height(x) - 1, Height(x) - 1 + 2)
        BY <2>1, <3>1, HoldsLower
      <3> QED
        BY <3>1, <3>2, LeavesResults
    <2>3. Leaves(x, Taking(x, 1, z), 1, 2)
      BY <2>2, LeavesTaking
    <2> QED
      BY <2>3 DEF Dup, z
  <1>3. Leaves(x, Swap(x), 2, 2)
    BY LeavesTaking, LeavesUsual DEF Swap
  <1>4. Leaves(x, Pull(x), 1, 1)
    BY LeavesTaking, LeavesUsual, LeavesFault DEF Pull
  <1> QED
    BY <1>1, <1>2, <1>3, <1>4

LEMMA FlowLeaves ==
    ASSUME NEW x, Fresh(x), NEW v
    PROVE  /\ Leaves(x, Push(x), 0, 1)
           /\ Leaves(x, Jump(x), 1, 0)
           /\ Leaves(x, JumpIf(x), 2, 0)
           /\ Leaves(x, Call(x), 1, 1)
           /\ Leaves(x, RelJump(x), 1, 0)
           /\ Leaves(x, RelJumpIf(x), 2, 0)
           /\ Leaves(x, RelCall(x), 1, 1)
           /\ Leaves(x, Report(x, v), 0, 1)
  <1>0. /\ Height(x) \in Nat /\ Height(x) - 0 = Height(x)
        /\ Holds(x, x, Height(x), Height(x))
    BY HoldsSelf
  <1>1. ASSUME NEW u, NEW n
        PROVE  Leaves(x, Advanced(Pushed(x, u), n), 0, 1)
    <2>1. Holds(x, Advanced(Pushed(x, u), n), Height(x) - 0, Height(x) - 0 + 1)
      BY <1>0, HoldsPushed, HoldsKept
    <2> QED
      BY <1>0, <2>1, LeavesResults
  <1>2. Leaves(x, Push(x), 0, 1)
    <2> DEFINE got == Load(x, x.pc + 1, WORD, "EXEC", FALSE)
    <2>1. CASE got.ok
      BY <1>1, <2>1 DEF Push
    <2>2. CASE ~got.ok
      <3> DEFINE z == Advanced(got.machine, 1 + WORD)
      <3>1. Push(x) = z
        BY <2>2 DEF Push
      <3>2. Holds(x, got.machine, Height(x) - 0, Height(x))
            /\ (got.machine.raised \/ got.machine.host = "crashed")
        BY ZenonT(30), <1>0, <2>2, HoldsLoad
      <3> HIDE DEF got
      <3>3. Holds(x, z, Height(x) - 0, Height(x))
        BY <3>2, HoldsKept
      <3>4. z.raised = got.machine.raised /\ z.host = got.machine.host
        BY <3>2 DEF Holds, Shape, Fields, Advanced
      <3> HIDE DEF z
      <3> QED
        BY <3>1, <3>2, <3>3, <3>4, LeavesRaised, LeavesCrashed
    <2> QED
      BY <2>1, <2>2
  <1>3. /\ Jump(x) = Taking(x, 1, WithPc(Popped(x, 1), Top(x, 1)))
        /\ JumpIf(x) = Taking(x, 2, IF Top(x, 2) = 0 THEN Advanced(Popped(x, 2), 1)
                                    ELSE WithPc(Popped(x, 2), Top(x, 1)))
        /\ Call(x) = Taking(x, 1,
              WithPc(Pushed(Popped(x, 1), Wrap(x.pc + 1)), Top(x, 1)))
    BY DEF Jump, JumpIf, Call, WithPc
  <1>4. Leaves(x, Jump(x), 1, 0) /\ Leaves(x, JumpIf(x), 2, 0) /\ Leaves(x, Call(x), 1, 1)
    BY <1>3, LeavesTaking, LeavesUsual
  <1>5. Leaves(x, RelJump(x), 1, 0)
    BY LeavesTaking, LeavesUsual DEF RelJump
  <1>6. Leaves(x, RelJumpIf(x), 2, 0)
    BY LeavesTaking, LeavesUsual DEF RelJumpIf
  <1>7. Leaves(x, RelCall(x), 1, 1)
    BY LeavesTaking, LeavesUsual DEF RelCall
  <1>8. Leaves(x, Report(x, v), 0, 1)
    BY <1>1 DEF Report
  <1> QED
    BY <1>2, <1>4, <1>5, <1>6, <1>7, <1>8

LEMMA MemoryLeaves ==
    ASSUME NEW x, Fresh(x), NEW n, NEW wild
    PROVE  /\ Leaves(x, Get(x, n, wild), 1, 1)
           /\ Leaves(x, Put(x, n), 2, 0)
           /\ Leaves(x, SfLoad(x, n, wild), 1, 1)
           /\ Leaves(x, SfStore(x, n), 2, 0)
  <1>0. Height(x) \in Nat
    BY HoldsSelf
  <1>1. Leaves(x, Get(x, n, wild), 1, 1)
    <2> DEFINE h == Height(x) - 1
               got == Load(Popped(x, 1), Top(x, 1), n, "READ", wild)
               z == Advanced(IF got.ok THEN Pushed(got.machine, got.value) ELSE got.machine, 1)
    <2>1. Height(x) >= 1 => Leaves(x, z, 1, 1)
      <3> SUFFICES ASSUME Height(x) >= 1 PROVE Leaves(x, z, 1, 1)
        OBVIOUS
      <3>1. Holds(x, Popped(x, 1), h, h) /\ h \in Nat
        BY <1>0, HoldsPopped
      <3>2. /\ Holds(x, got.machine, h, h)
            /\ ~got.ok => got.machine.raised \/ got.machine.host = "crashed"
        BY <3>1, HoldsLoad
      <3> HIDE DEF got
      <3>3. CASE got.ok
        <4>1. Holds(x, Advanced(Pushed(got.machine, got.value), 1), h, h + 1)
          BY <3>2, HoldsPushed, HoldsKept
        <4> QED
          BY <3>1, <3>3, <4>1, LeavesResults
      <3>4. CASE ~got.ok
        <4>1. z = Advanced(got.machine, 1)
          BY <3>4
        <4>2. Holds(x, z, h, h)
          BY <3>2, <4>1, HoldsKept
        <4>3. z.raised = got.machine.raised /\ z.host = got.machine.host
          BY <3>2, <4>1 DEF Holds, Shape, Fields, Advanced
        <4> HIDE DEF z
        <4> QED
          BY <3>2, <3>4, <4>2, <4>3, LeavesRaised, LeavesCrashed
      <3> QED
        BY <3>3, <3>4
    <2>2. Leaves(x, Taking(x, 1, z), 1, 1)
      <3> HIDE DEF z
      <3> QED
        BY <2>1, LeavesTaking
    <2> QED
      BY <2>2 DEF Get
  <1>2. ASSUME NEW a, NEW v
        PROVE  Leaves(x, Taking(x, 2, Advanced(Store(Popped(x, 2), a, n, v), 1)), 2, 0)
    <2> DEFINE h == Height(x) - 2
               z == Advanced(Store(Popped(x, 2), a, n, v), 1)
    <2>1. Height(x) >= 2 => Leaves(x, z, 2, 0)
      <3> SUFFICES ASSUME Height(x) >= 2 PROVE Leaves(x, z, 2, 0)
        OBVIOUS
      <3>1. Holds(x, Popped(x, 2), h, h) /\ h \in Nat /\ h + 0 = h
        BY <1>0, HoldsPopped
      <3>2. Holds(x, z, h, h + 0)
        BY <3>1, HoldsStore, HoldsKept
      <3> QED
        BY <3>1, <3>2, LeavesResults
    <2> HIDE DEF z
    <2>2. Leaves(x, Taking(x, 2, z), 2, 0)
      BY <2>1, LeavesTaking
    <2> QED
      BY <2>2 DEF z
  <1>3. Leaves(x, Put(x, n), 2, 0) /\ Leaves(x, SfStore(x, n), 2, 0)
    BY <1>2 DEF Put, SfStore
  <1>4. Leaves(x, SfLoad(x, n, wild), 1, 1)
    <2> DEFINE h == Height(x) - 1
               got == Load(Popped(x, 1), Wrap(x.v2_sf + Top(x, 1)), n, "READ", wild)
               z == Advanced(Pushed(got.machine, got.value), 1)
    <2>1. Height(x) >= 1 => Leaves(x, z, 1, 1)
      <3> SUFFICES ASSUME Height(x) >= 1 PROVE Leaves(x, z, 1, 1)
        OBVIOUS
      <3>1. Holds(x, Popped(x, 1), h, h) /\ h \in Nat
        BY <1>0, HoldsPopped
      <3>2. Holds(x, got.machine, h, h)
        BY <3>1, HoldsLoad
      <3> HIDE DEF got
      <3>3. Holds(x, z, h, h + 1)
        BY <3>2, HoldsPushed, HoldsKept
      <3> QED
        BY <3>1, <3>3, LeavesResults
    <2>2. Leaves(x, Taking(x, 1, z), 1, 1)
      <3> HIDE DEF z
      <3> QED
        BY <2>1, LeavesTaking
    <2> QED
      BY <2>2 DEF SfLoad
  <1> QED
    BY <1>1, <1>3, <1>4

LEMMA SecondStackLeaves ==
    ASSUME NEW x, Fresh(x), NEW wild
    PROVE  /\ Leaves(x, SetSf(x), 1, 0)
           /\ Leaves(x, SetSp(x), 1, 0)
           /\ Leaves(x, SAdd(x), 1, 0)
           /\ Leaves(x, SPush(x), 1, 0)
           /\ Leaves(x, SPop(x, wild), 0, 1)
           /\ Leaves(x, SfBegin(x, wild), 0, 0)
           /\ Leaves(x, SfEnd(x, wild), 0, 0)
  <1> DEFINE h == Height(x) - 1
  <1>0. /\ Height(x) \in Nat
        /\ Height(x) - 0 = Height(x) /\ Height(x) + 0 = Height(x)
        /\ h + 0 = h
        /\ Holds(x, x, Height(x), Height(x))
    BY HoldsSelf
  \* One operand, and then registers and memory only.
  <1>1. ASSUME NEW z, Height(x) >= 1 => Holds(x, z, h, h)
        PROVE  Leaves(x, Taking(x, 1, z), 1, 0)
    <2>1. Height(x) >= 1 => Leaves(x, z, 1, 0)
      BY <1>0, <1>1, LeavesResults
    <2> QED
      BY <2>1, LeavesTaking
  <1>2. Height(x) >= 1 => Holds(x, Popped(x, 1), h, h)
    BY HoldsPopped
  <1> HIDE DEF h
  <1>3. Leaves(x, SetSf(x), 1, 0) /\ Leaves(x, SetSp(x), 1, 0) /\ Leaves(x, SAdd(x), 1, 0)
    <2>1. /\ SetSf(x) = Taking(x, 1, Advanced(WithSf(Popped(x, 1), Top(x, 1)), 1))
          /\ SetSp(x) = Taking(x, 1, Advanced(WithSp(Popped(x, 1), Top(x, 1)), 1))
          /\ SAdd(x) = Taking(x, 1, Advanced(WithSp(Popped(x, 1),
                          Wrap(Popped(x, 1).v2_sp + Top(x, 1))), 1))
      BY DEF SetSf, SetSp, SAdd, WithSp, WithSf
    <2> QED
      BY <1>1, <1>2, <2>1, HoldsKept
  <1>4. Leaves(x, SPush(x), 1, 0)
    <2> DEFINE a == Wrap(x.v2_sp - WORD)
               z == Advanced(Store(WithSp(Popped(x, 1), a), a, WORD, Top(x, 1)), 1)
    <2>1. SPush(x) = Taking(x, 1, z)
      BY DEF SPush, WithSp
    <2>2. Height(x) >= 1 => Holds(x, z, h, h)
      BY <1>2, HoldsKept, HoldsStore
    <2> HIDE DEF z
    <2> QED
      BY <1>1, <2>1, <2>2
  <1>5. Leaves(x, SPop(x, wild), 0, 1)
    <2> DEFINE got == Load(x, x.v2_sp, WORD, "READ", wild)
    <2>1. SPop(x, wild) = Advanced(Pushed(WithSp(got.machine,
                              Wrap(got.machine.v2_sp + WORD)), got.value), 1)
      BY DEF SPop, WithSp
    <2>2. Holds(x, got.machine, Height(x), Height(x))
      BY <1>0, HoldsLoad
    <2> HIDE DEF got
    <2>3. Holds(x, SPop(x, wild), Height(x), Height(x) + 1)
      BY <2>1, <2>2, HoldsKept, HoldsPushed
    <2> QED
      BY <1>0, <2>3, LeavesResults
  <1>6. Leaves(x, SfBegin(x, wild), 0, 0)
    <2> DEFINE a == Wrap(x.v2_sp - WORD)
               z == WithSf(Store(WithSp(x, a), a, WORD, x.v2_sf), a)
    <2>1. SfBegin(x, wild) = IF wild THEN z ELSE Advanced(z, 1)
      BY DEF SfBegin, WithSp, WithSf
    <2>2. Holds(x, z, Height(x), Height(x))
      BY <1>0, HoldsKept, HoldsStore
    <2> HIDE DEF z
    <2>3. Holds(x, SfBegin(x, wild), Height(x), Height(x))
      BY <2>1, <2>2, HoldsKept
    <2> QED
      BY <1>0, <2>3, LeavesResults
  <1>7. Leaves(x, SfEnd(x, wild), 0, 0)
    <2> DEFINE got == Load(x, x.v2_sf, WORD, "READ", wild)
    <2>1. SfEnd(x, wild) = Advanced(WithSf(WithSp(got.machine, Wrap(x.v2_sf + WORD)),
                                           got.value), 1)
      BY DEF SfEnd, WithSp, WithSf
    <2>2. Holds(x, got.machine, Height(x), Height(x))
      BY <1>0, HoldsLoad
    <2> HIDE DEF got
    <2>3. Holds(x, SfEnd(x, wild), Height(x), Height(x))
      BY <2>1, <2>2, HoldsKept
    <2> QED
      BY <1>0, <2>3, LeavesResults
  <1> QED
    BY <1>3, <1>4, <1>5, <1>6, <1>7

LEMMA FetchLeaves ==
    ASSUME NEW x, Fresh(x), NEW wild
    PROVE  Leaves(x, Fetch(x, wild), 0, 0)
  <1> DEFINE h == Height(x)
  <1>1. Holds(x, x, h, h) /\ h \in Nat
    BY HoldsSelf
  <1>2. Holds(x, Fetch(x, wild), h, h)
    BY <1>1, HoldsLoad, HoldsKept DEF Fetch
  <1>3. h - 0 = h /\ h - 0 + 0 = h
    BY <1>1
  <1> QED
    BY <1>1, <1>2, <1>3, LeavesResults

-----------------------------------------------------------------------------
(* The two tables of the cheatsheet, by name.                               *)

Table(name, k, r) == Operands(name) = k /\ Results(name) = r

LEMMA Tables ==
    /\ \A op \in BinaryOps : Table(op, 2, 1)
    /\ \A op \in {"div", "mod", "sne", "fswap"} : Table(op, 2, 1)
    /\ \A op \in {"iszero", "pull", "get", "sfload", "call", "rcall"} : Table(op, 1, 1)
    /\ \A op \in {"jmpi", "rjmpi", "put", "sfstore"} : Table(op, 2, 0)
    /\ \A op \in {"drop", "jmp", "rjmp", "ssf", "ssp", "sadd", "spush"} : Table(op, 1, 0)
    /\ \A op \in {"gpc", "gsf", "gsp", "push", "spop"} : Table(op, 0, 1)
    /\ \A op \in {"sfbegin", "sfend", "fetch"} : Table(op, 0, 0)
    /\ Table("dup", 1, 2)
    /\ Table("swap", 2, 2)
  BY DEF Table, Operands, Results, BinaryOps

\* What StackDiscipline says of one instruction.
Disciplined(x, name, z) ==
    LET kept == Height(x) - Operands(name)
    IN  z.host = "runs" =>
        /\ ~z.raised => Height(z) = kept + Results(name)
        /\ kept >= 0 =>
             /\ Height(z) >= kept
             /\ \A i \in 1..kept :
                   z.stack[i] # x.stack[i] =>
                     name = "fswap" /\ x.stack[i] = z.stack[Height(z)]

LEMMA EveryInstructionIsDisciplined ==
    ASSUME Fresh(m), Next, last = "none"
    PROVE  Disciplined(m, last', m')
  <1>0. ASSUME NEW name, NEW z, NEW k, NEW r,
               Execute(name, z), Leaves(m, z, k, r), Table(name, k, r)
        PROVE  Disciplined(m, last', m')
    BY <1>0 DEF Execute, Leaves, Table, Disciplined
  <1>1. CASE ExecArithmetic
    <2>1. CASE \E op \in BinaryOps : Execute(op, Binary(m, op))
      BY <1>0, <2>1, ArithmeticLeaves, Tables
    <2>2. CASE Execute("div", Division(m, "div"))
      BY <1>0, <2>2, ArithmeticLeaves, Tables
    <2>3. CASE Execute("mod", Division(m, "mod"))
      BY <1>0, <2>3, ArithmeticLeaves, Tables
    <2>4. CASE Execute("sne", Sne(m))
      BY <1>0, <2>4, ArithmeticLeaves, Tables
    <2>5. CASE Execute("iszero", IsZero(m))
      BY <1>0, <2>5, ArithmeticLeaves, Tables
    <2> QED
      BY <1>1, <2>1, <2>2, <2>3, <2>4, <2>5 DEF ExecArithmetic
  <1>2. CASE ExecStack
    <2>1. CASE Execute("drop", Drop(m))
      BY <1>0, <2>1, StackLeaves, Tables
    <2>2. CASE Execute("dup", Dup(m))
      BY <1>0, <2>2, StackLeaves, Tables
    <2>3. CASE Execute("swap", Swap(m))
      BY <1>0, <2>3, StackLeaves, Tables
    <2>4. CASE Execute("pull", Pull(m))
      BY <1>0, <2>4, StackLeaves, Tables
    <2>5. CASE Execute("fswap", FSwap(m))
      <3>1. Exchanges(m, FSwap(m)) /\ Table("fswap", 2, 1)
        BY FSwapExchanges, Tables
      <3> QED
        BY <2>5, <3>1 DEF Execute, Exchanges, Table, Disciplined
    <2> QED
      BY <1>2, <2>1, <2>2, <2>3, <2>4, <2>5 DEF ExecStack
  <1>3. CASE ExecPush
    BY <1>0, <1>3, FlowLeaves, Tables DEF ExecPush
  <1>4. CASE ExecFlow
    <2>1. CASE Execute("jmp", Jump(m)) \/ Execute("rjmp", RelJump(m))
      BY <1>0, <2>1, FlowLeaves, Tables
    <2>2. CASE Execute("jmpi", JumpIf(m)) \/ Execute("rjmpi", RelJumpIf(m))
      BY <1>0, <2>2, FlowLeaves, Tables
    <2>3. CASE Execute("call", Call(m)) \/ Execute("rcall", RelCall(m))
      BY <1>0, <2>3, FlowLeaves, Tables
    <2>4. CASE Execute("gpc", Report(m, m.pc))
      BY <1>0, <2>4, FlowLeaves, Tables
    <2> QED
      BY <1>4, <2>1, <2>2, <2>3, <2>4 DEF ExecFlow
  <1>5. CASE ExecMemory
    <2>1. PICK n \in Sizes, wild \in BOOLEAN :
            \/ Execute("get", Get(m, n, wild)) \/ Execute("sfload", SfLoad(m, n, wild))
            \/ Execute("put", Put(m, n)) \/ Execute("sfstore", SfStore(m, n))
      BY <1>5 DEF ExecMemory
    <2>2. CASE Execute("get", Get(m, n, wild)) \/ Execute("sfload", SfLoad(m, n, wild))
      BY <1>0, <2>2, MemoryLeaves, Tables
    <2>3. CASE Execute("put", Put(m, n)) \/ Execute("sfstore", SfStore(m, n))
      BY <1>0, <2>3, MemoryLeaves, Tables
    <2> QED
      BY <2>1, <2>2, <2>3
  <1>6. CASE ExecSecondStack
    <2>1. CASE Execute("gsf", Report(m, m.v2_sf)) \/ Execute("gsp", Report(m, m.v2_sp))
      BY <1>0, <2>1, FlowLeaves, Tables
    <2>2. CASE Execute("ssf", SetSf(m)) \/ Execute("ssp", SetSp(m)) \/ Execute("sadd", SAdd(m))
      BY <1>0, <2>2, SecondStackLeaves, Tables
    <2>3. CASE Execute("spush", SPush(m))
      BY <1>0, <2>3, SecondStackLeaves, Tables
    <2>4. ASSUME NEW wild \in BOOLEAN, Execute("spop", SPop(m, wild))
          PROVE  Disciplined(m, last', m')
      BY <1>0, <2>4, SecondStackLeaves, Tables
    <2>5. ASSUME NEW wild \in BOOLEAN, Execute("sfbegin", SfBegin(m, wild))
          PROVE  Disciplined(m, last', m')
      BY <1>0, <2>5, SecondStackLeaves, Tables
    <2>6. ASSUME NEW wild \in BOOLEAN, Execute("sfend", SfEnd(m, wild))
          PROVE  Disciplined(m, last', m')
      BY <1>0, <2>6, SecondStackLeaves, Tables
    <2> QED
      BY <1>6, <2>1, <2>2, <2>3, <2>4, <2>5, <2>6 DEF ExecSecondStack
  <1>7. CASE FetchFails
    BY <1>0, <1>7, FetchLeaves, Tables DEF FetchFails
  <1>8. CASE Finished
    BY <1>8 DEF Finished
  <1> QED
    BY <1>1, <1>2, <1>3, <1>4, <1>5, <1>6, <1>7, <1>8 DEF Next, ExecFetched

\* Every instruction takes and leaves what the cheatsheet says, and what lies
\* below its operands survives even its faults (vm/ops.c).
THEOREM StackIsKept == Spec => StackDiscipline
  <1>1. MInv /\ [Next]_vars =>
          [ LET kept == Height(m) - Operands(last')
            IN  (last = "none" /\ m'.host = "runs") =>
                /\ ~m'.raised => Height(m') = kept + Results(last')
                /\ kept >= 0 =>
                     /\ Height(m') >= kept
                     /\ \A i \in 1..kept :
                           m'.stack[i] # m.stack[i] =>
                             last' = "fswap" /\ m.stack[i] = m'.stack[Height(m')] ]_vars
    BY EveryInstructionIsDisciplined DEF MInv, Disciplined
  <1> QED
    BY <1>1, MInvHolds, PTL DEF Spec, StackDiscipline
-----------------------------------------------------------------------------
(* Types.                                                                   *)

LEMMA Layout ==
    /\ WORD \in Nat /\ WORD >= 2
    /\ VECTORS_END \in Nat /\ PRINTER \in Nat /\ SYSMEM_END \in Nat /\ RAM_END \in Nat
    /\ Len(Rom) \in Nat /\ HALF \in Nat /\ HALF >= 2 /\ WORD < HALF
    /\ WORD < VECTORS_END /\ VECTORS_END + 2 * WORD + 1 < PRINTER
    /\ PRINTER < SYSMEM_END /\ SYSMEM_END < RAM_END /\ RAM_END + Len(Rom) < HALF
  <1>1. /\ VECTORS_END \in Nat /\ PRINTER \in Nat /\ SYSMEM_END \in Nat /\ RAM_END \in Nat
        /\ WORD < VECTORS_END /\ VECTORS_END + 2 * WORD + 1 < PRINTER
        /\ PRINTER < SYSMEM_END /\ SYSMEM_END < RAM_END /\ RAM_END + Len(Rom) < HALF
    BY LayoutAssumption
  <1>2. Len(Rom) \in Nat
    BY LayoutAssumption
  <1>3. WORD \in Nat /\ WORD >= 2
    <2>1. WORD \in Nat \ {0} /\ WORD % 2 = 0
      BY LayoutAssumption, WordAssumption
    <2>2. WORD # 1
      BY <2>1
    <2> QED
      BY <2>1, <2>2
  <1> QED
    BY <1>1, <1>2, <1>3, HalfType

\* Small numbers and addresses are words.
LEMMA SmallWords ==
    /\ Words \subseteq Int
    /\ 0 \in Words /\ 1 \in Words
    /\ 0..RAM_END + Len(Rom) \subseteq Words
  BY Layout DEF Words

LEMMA MachineFields ==
    ASSUME NEW x \in Machines
    PROVE  /\ Shape(x)
           /\ x.stack \in Seq(Words) /\ Height(x) \in Nat
           /\ x.pc \in Words /\ x.v2_sp \in Words /\ x.v2_sf \in Words
           /\ x.mem \in [Stored -> Bytes]
           /\ x.exception_type \in DOMAIN Codes
           /\ x.exception_pc \in Words /\ x.exception_addr \in Words
  BY DEF Machines, Shape, Fields, Height

LEMMA MachineTop ==
    ASSUME NEW x \in Machines, NEW n \in 1..Height(x)
    PROVE  Top(x, n) \in Words
  <1>1. Height(x) - n + 1 \in 1..Len(x.stack) /\ x.stack \in Seq(Words)
    BY MachineFields DEF Height
  <1> QED
    BY <1>1 DEF Top

LEMMA MachineWith ==
    ASSUME NEW x \in Machines, NEW v \in Words
    PROVE  /\ WithSp(x, v) \in Machines
           /\ WithSf(x, v) \in Machines
           /\ WithPc(x, v) \in Machines
           /\ Crashed(x) \in Machines
           /\ \A what \in DOMAIN Codes : Raised(x, what) \in Machines
           /\ \A s \in Seq(Words) : WithStack(x, s) \in Machines
           /\ \A mem \in [Stored -> Bytes] : WithMem(x, mem) \in Machines
  BY DEF Machines, WithSp, WithSf, WithPc, Crashed, Raised, WithStack, WithMem

LEMMA MachineSegfault ==
    ASSUME NEW x \in Machines, NEW a \in Words
    PROVE  Segfault(x, a) \in Machines
  <1>1. "SEGFAULT" \in DOMAIN Codes
    BY DEF Codes
  <1>2. Raised(x, "SEGFAULT") \in Machines
    BY <1>1, MachineWith
  <1> QED
    BY <1>2 DEF Segfault, Machines

LEMMA MachinePushed ==
    ASSUME NEW x \in Machines, NEW v \in Words
    PROVE  Pushed(x, v) \in Machines
  <1>1. Append(x.stack, v) \in Seq(Words)
    BY MachineFields
  <1>2. Pushed(x, v) = WithStack(x, Append(x.stack, v))
    BY DEF Pushed, WithStack
  <1> QED
    BY <1>1, <1>2, MachineWith

LEMMA MachinePopped ==
    ASSUME NEW x \in Machines, NEW n \in 0..Height(x)
    PROVE  /\ Popped(x, n) \in Machines
           /\ Height(Popped(x, n)) = Height(x) - n
           /\ \A i \in 1..Height(x) - n : Popped(x, n).stack[i] = x.stack[i]
  <1> DEFINE s == SubSeq(x.stack, 1, Height(x) - n)
  <1>1. x.stack \in Seq(Words) /\ Height(x) - n \in 0..Len(x.stack) /\ Height(x) = Len(x.stack)
    BY MachineFields DEF Height
  <1>2. s \in Seq(Words) /\ Len(s) = Height(x) - n
        /\ \A i \in 1..Height(x) - n : s[i] = x.stack[i]
    BY <1>1
  <1>3. Popped(x, n) = WithStack(x, s)
    BY DEF Popped, WithStack
  <1> HIDE DEF s
  <1>4. WithStack(x, s).stack = s
    BY MachineFields DEF WithStack, Shape, Fields
  <1> QED
    <2>1. Popped(x, n) \in Machines
      BY <1>2, <1>3, MachineWith, SmallWords
    <2>2. Popped(x, n).stack = s
      BY <1>3, <1>4
    <2> QED
      BY <1>2, <2>1, <2>2 DEF Height

LEMMA MachineAdvanced ==
    ASSUME NEW x \in Machines, NEW n \in Int
    PROVE  Advanced(x, n) \in Machines
  <1>1. x.pc + n \in Int
    <2>1. x.pc \in Int
      BY MachineFields, WordsAreInts
    <2> QED
      BY <2>1
  <1>2. Wrap(x.pc + n) \in Words
    BY <1>1, WrapType
  <1>3. Advanced(x, n) = WithPc(x, Wrap(x.pc + n))
    BY DEF Advanced, WithPc
  <1> QED
    BY <1>2, <1>3, MachineWith

LEMMA MachineTaking ==
    ASSUME NEW x \in Machines, NEW n, NEW z, ~(Height(x) < n) => z \in Machines
    PROVE  Taking(x, n, z) \in Machines
  <1>1. <<>> \in Seq(Words) /\ "STACK_UNDERFLOW" \in DOMAIN Codes /\ 1 \in Int
    BY DEF Codes
  <1>2. Underflow(x) = Advanced(WithStack(Raised(x, "STACK_UNDERFLOW"), <<>>), 1)
    BY DEF Underflow, WithStack
  <1>3. 0 \in Words
    BY SmallWords
  <1>4. Underflow(x) \in Machines
    BY <1>1, <1>2, <1>3, MachineWith, MachineAdvanced
  <1> QED
    BY <1>4 DEF Taking

\* The types of the instructions that compute.
LEMMA ComputedType ==
    ASSUME NEW op \in BinaryOps, NEW a \in Words, NEW b \in Words
    PROVE  Computed(op, a, b) \in Words
  <1>1. a \in Int /\ b \in Int /\ b + a \in Int /\ b - a \in Int /\ b * a \in Int
    BY WordsAreInts
  <1>2. \A cond : Flag(cond) \in Words
    BY SmallWords DEF Flag
  <1>3. Wrap(b + a) \in Words /\ Wrap(b - a) \in Words /\ Wrap(b * a) \in Words
    BY <1>1, WrapType
  <1>4. ShiftLeft(b, a) \in Words /\ ShiftRight(b, a) \in Words
    BY <1>1, ShiftType
  <1>5. BitOr(a, b) \in Words /\ BitAnd(a, b) \in Words /\ BitXor(a, b) \in Words
    BY <1>1, BitOperationsType
  <1> QED
    BY <1>2, <1>3, <1>4, <1>5 DEF Computed, BinaryOps

LEMMA ArithmeticType ==
    ASSUME NEW x \in Machines
    PROVE  /\ \A op \in BinaryOps : Binary(x, op) \in Machines
           /\ \A op \in {"div", "mod"} : Division(x, op) \in Machines
           /\ Sne(x) \in Machines
           /\ IsZero(x) \in Machines
  <1>0. Height(x) \in Nat /\ 1 \in Int /\ 0 \in Words
        /\ {"DIVIDE_BY_ZERO", "WRONG_SNE_SIZE"} \subseteq DOMAIN Codes
    BY MachineFields, SmallWords DEF Codes
  <1>1. ASSUME ~(Height(x) < 2)
        PROVE  Popped(x, 2) \in Machines /\ Top(x, 1) \in Words /\ Top(x, 2) \in Words
    <2>1. 2 \in 0..Height(x) /\ 1 \in 1..Height(x) /\ 2 \in 1..Height(x)
      BY <1>0, <1>1
    <2> QED
      BY <2>1, MachinePopped, MachineTop
  <1>2. ASSUME ~(Height(x) < 1)
        PROVE  Popped(x, 1) \in Machines /\ Top(x, 1) \in Words
    <2>1. 1 \in 0..Height(x) /\ 1 \in 1..Height(x)
      BY <1>0, <1>2
    <2> QED
      BY <2>1, MachinePopped, MachineTop
  <1>3. ASSUME NEW op \in BinaryOps PROVE Binary(x, op) \in Machines
    BY <1>0, <1>1, ComputedType, MachinePushed, MachineAdvanced, MachineTaking DEF Binary
  <1>4. ASSUME NEW op \in {"div", "mod"} PROVE Division(x, op) \in Machines
    <2> DEFINE a == Top(x, 1)
               b == Top(x, 2)
               result == IF op = "div" THEN Quotient(b, a) ELSE Remainder(b, a)
               divided == Advanced(Pushed(Popped(x, 2), result), 1)
               kept == IF a = -1 /\ b = -HALF THEN Crashed(x) ELSE divided
               faulted == Advanced(Raised(Popped(x, 1), "DIVIDE_BY_ZERO"), 1)
    <2>1. Division(x, op) = Taking(x, 1, IF a = 0 THEN faulted ELSE Taking(x, 2, kept))
      BY DEF Division
    <2>2. Crashed(x) \in Machines
      BY <1>0, MachineWith
    <2>3. ~(Height(x) < 1) => faulted \in Machines
      BY <1>0, <1>2, MachineWith, MachineAdvanced
    <2>4. ASSUME a # 0, ~(Height(x) < 2), ~(a = -1 /\ b = -HALF) PROVE divided \in Machines
      <3>1. a \in Words /\ b \in Words /\ Popped(x, 2) \in Machines
        BY <1>1, <2>4
      <3>2. result \in Words
        <4> HIDE DEF a, b
        <4> QED
          BY <2>4, <3>1, QuotientType
      <3> HIDE DEF result, a, b
      <3> QED
        BY <1>0, <3>1, <3>2, MachinePushed, MachineAdvanced
    <2>5. a # 0 => Taking(x, 2, kept) \in Machines
      <3> HIDE DEF a, b, divided
      <3> QED
        BY <2>2, <2>4, MachineTaking
    <2> HIDE DEF a, faulted, kept
    <2> QED
      BY <2>1, <2>3, <2>5, MachineTaking
  <1>5. Sne(x) \in Machines
    <2> DEFINE n == Top(x, 1)
               ones == SneOnes(n)
    <2>1. ASSUME ~(Height(x) < 2), n \in 1..WORD PROVE BitOr(Top(x, 2), ones) \in Words
      <3> DEFINE d == ((WORD - n) * BYTE_BITS) % (BITS \div 2)
      <3>1. WORD - n \in Nat /\ n \in Nat /\ BYTE_BITS \in Nat /\ BITS \in Nat
        BY <2>1, Layout, WidthType
      <3>2. BITS \div 2 \in Nat \ {0} /\ BITS \div 2 <= BITS
        <4>1. BITS >= 2
          <5>1. HALF # 1
            BY Layout
          <5>2. BITS # 1
            BY <5>1, PowerStep DEF HALF
          <5> QED
            BY <5>2, WidthType
        <4> QED
          BY <4>1, <3>1
      <3>3. (WORD - n) * BYTE_BITS \in Int /\ n * BYTE_BITS \in Int
        <4> HIDE DEF n
        <4> QED
          BY <3>1
      <3>4. d \in 0..(BITS \div 2) - 1
        <4> DEFINE e == (WORD - n) * BYTE_BITS
                   h == BITS \div 2
        <4>1. e \in Int /\ h \in Nat \ {0}
          BY <3>2, <3>3
        <4> HIDE DEF e, h
        <4>2. e % h \in 0..h - 1
          BY <4>1, DivMod
        <4> QED
          BY <4>2 DEF e, h
      <3>5. d \in 0..BITS
        <4> HIDE DEF d
        <4> QED
          BY <3>1, <3>2, <3>4
      <3>6. Power2[d] - 1 \in Int /\ n * BYTE_BITS \in Int
        <4> HIDE DEF d
        <4> QED
          BY <3>3, <3>5, PowerType
      <3> DEFINE P == Power2[(n * BYTE_BITS) % BITS]
                 y == Power2[d] - 1
      <3>7. P \in Int /\ y \in Int
        BY <3>6, ShiftCount
      <3>8. y * P \in Int
        <4> HIDE DEF y, P
        <4> QED
          BY <3>7
      <3>9. ones \in Int
        <4>1. ones = Wrap(y * P)
          BY DEF SneOnes, ShiftLeft
        <4> HIDE DEF ones, y, P
        <4> QED
          BY <4>1, <3>8, WrapType, WordsAreInts
      <3>10. Top(x, 2) \in Int
        BY <1>1, <2>1, WordsAreInts
      <3> HIDE DEF ones
      <3> QED
        BY <3>9, <3>10, BitOperationsType
    <2> HIDE DEF n, ones
    <2>2. Sne(x) = Taking(x, 2,
             IF n \notin 1..WORD THEN Advanced(Raised(Popped(x, 2), "WRONG_SNE_SIZE"), 1)
             ELSE Advanced(Pushed(Popped(x, 2), BitOr(Top(x, 2), ones)), 1))
      BY DEF Sne, n, ones
    <2> QED
      BY <2>1, <2>2, <1>0, <1>1, MachineWith, MachinePushed, MachineAdvanced, MachineTaking
  <1>6. IsZero(x) \in Machines
    <2>1. Flag(Top(x, 1) = 0) \in Words
      BY SmallWords DEF Flag
    <2> QED
      BY <1>0, <1>2, <2>1, MachinePushed, MachineAdvanced, MachineTaking DEF IsZero
  <1> QED
    BY <1>3, <1>4, <1>5, <1>6

LEMMA StackType ==
    ASSUME NEW x \in Machines, Height(x) < HALF
    PROVE  /\ Drop(x) \in Machines /\ Dup(x) \in Machines /\ Swap(x) \in Machines
           /\ Pull(x) \in Machines /\ FSwap(x) \in Machines
  <1>0. Height(x) \in Nat /\ 1 \in Int /\ 0 \in Words /\ "STACK_UNDERFLOW" \in DOMAIN Codes
    BY MachineFields, SmallWords DEF Codes
  <1>1. ASSUME ~(Height(x) < 2)
        PROVE  Popped(x, 2) \in Machines /\ Top(x, 1) \in Words /\ Top(x, 2) \in Words
    <2>1. 2 \in 0..Height(x) /\ 1 \in 1..Height(x) /\ 2 \in 1..Height(x)
      BY <1>0, <1>1
    <2> QED
      BY <2>1, MachinePopped, MachineTop
  <1>2. ASSUME ~(Height(x) < 1)
        PROVE  Popped(x, 1) \in Machines /\ Top(x, 1) \in Words
    <2>1. 1 \in 0..Height(x) /\ 1 \in 1..Height(x)
      BY <1>0, <1>2
    <2> QED
      BY <2>1, MachinePopped, MachineTop
  <1>3. Drop(x) \in Machines /\ Dup(x) \in Machines /\ Swap(x) \in Machines
    <2>1. Drop(x) \in Machines
      BY <1>0, <1>2, MachineAdvanced, MachineTaking DEF Drop
    <2>2. Dup(x) \in Machines
      BY <1>0, <1>2, MachinePushed, MachineAdvanced, MachineTaking DEF Dup
    <2>3. Swap(x) \in Machines
      BY <1>0, <1>1, MachinePushed, MachineAdvanced, MachineTaking DEF Swap
    <2> QED
      BY <2>1, <2>2, <2>3
  \* An offset within the stack is not negative.
  <1>4. ASSUME NEW y \in Machines, NEW d \in Words, Height(y) <= Height(x),
               ~BeyondStack(d, Height(y))
        PROVE  d \in 0..Height(y) - 1
    <2>1. d \in Int /\ Height(y) \in Nat /\ HALF \in Nat /\ d >= -HALF
      BY WordsAreInts, MachineFields, HalfType DEF Words
    <2>2. Unsigned(d) = IF d < 0 THEN d + 2 * HALF ELSE d
      BY UnsignedWord
    <2>3. ~(Unsigned(d) >= Height(y))
      BY <1>4 DEF BeyondStack
    <2> QED
      BY <1>0, <1>4, <2>1, <2>2, <2>3
  <1>5. Pull(x) \in Machines
    <2> DEFINE d == Top(x, 1)
               rest == Popped(x, 1)
               faulted == Advanced(Raised(rest, "STACK_UNDERFLOW"), 1)
               pulled == Advanced(Pushed(rest, Top(rest, d + 1)), 1)
    <2>1. Pull(x) = Taking(x, 1, IF BeyondStack(d, Height(rest)) THEN faulted ELSE pulled)
      BY DEF Pull
    <2>2. ~(Height(x) < 1) => faulted \in Machines
      BY <1>0, <1>2, MachineWith, MachineAdvanced
    <2>3. ASSUME ~(Height(x) < 1), ~BeyondStack(d, Height(rest)) PROVE pulled \in Machines
      <3>1. rest \in Machines /\ d \in Words /\ Height(rest) = Height(x) - 1
        BY <1>0, <1>2, <2>3, MachinePopped
      <3> HIDE DEF rest, d
      <3>2. d \in 0..Height(rest) - 1
        BY <1>0, <1>4, <2>3, <3>1
      <3>3. d + 1 \in 1..Height(rest)
        BY <1>0, <3>1, <3>2
      <3>4. Top(rest, d + 1) \in Words
        BY <3>1, <3>3, MachineTop
      <3> QED
        BY <1>0, <3>1, <3>4, MachinePushed, MachineAdvanced
    <2> HIDE DEF rest, d, faulted, pulled
    <2> QED
      BY <2>1, <2>2, <2>3, MachineTaking
  <1>6. FSwap(x) \in Machines
    <2> DEFINE d == Top(x, 1)
               v == Top(x, 2)
               rest == Popped(x, 2)
               slot == Height(rest) - d
               y == WithStack(rest, [rest.stack EXCEPT ![slot] = v])
               faulted == Advanced(Raised(rest, "STACK_UNDERFLOW"), 1)
               swapped == Advanced(Pushed(y, rest.stack[slot]), 1)
    <2>0. ~(Height(x) < 2) => rest \in Machines /\ d \in Words /\ v \in Words
                              /\ Height(rest) = Height(x) - 2
      BY <1>0, <1>1, MachinePopped
    <2>1. FSwap(x) = Taking(x, 2, IF BeyondStack(d, Height(rest)) THEN faulted ELSE swapped)
      <3>1. y = [rest EXCEPT !.stack[slot] = v]
        <4>1. Shape(x)
          BY MachineFields
        <4>2. Shape(rest)
          BY <4>1 DEF Popped, Shape, Fields
        <4> HIDE DEF rest, slot, v
        <4> QED
          BY <4>2 DEF WithStack, Shape, Fields
      <3> QED
        BY <3>1, Zenon DEF FSwap
    <2>2. ~(Height(x) < 2) => faulted \in Machines
      BY <1>0, <2>0, MachineWith, MachineAdvanced
    <2>3. ASSUME ~(Height(x) < 2), ~BeyondStack(d, Height(rest)) PROVE swapped \in Machines
      <3>1. rest \in Machines /\ d \in Words /\ v \in Words /\ Height(rest) = Height(x) - 2
        BY <2>0, <2>3
      <3> HIDE DEF rest, d, v
      <3>2. d \in 0..Height(rest) - 1 /\ Height(rest) \in Nat
        BY <1>0, <1>4, <2>3, <3>1, MachineFields
      <3>3. slot \in 1..Height(rest) /\ rest.stack \in Seq(Words) /\ Height(rest) = Len(rest.stack)
        BY <3>1, <3>2, MachineFields DEF Height
      <3> HIDE DEF slot
      <3>4. rest.stack[slot] \in Words
        BY <3>3
      <3>5. [rest.stack EXCEPT ![slot] = v] \in Seq(Words)
        BY <3>1, <3>3
      <3>6. y \in Machines
        BY <3>1, <3>5, MachineWith
      <3> HIDE DEF y
      <3> QED
        BY <1>0, <3>4, <3>6, MachinePushed, MachineAdvanced
    <2> HIDE DEF rest, d, v, y, slot, faulted, swapped
    <2> QED
      BY <2>1, <2>2, <2>3, MachineTaking
  <1> QED
    BY <1>3, <1>5, <1>6

\* The memory.
LEMMA ByteAtType ==
    ASSUME NEW x \in Machines, NEW a \in Readable
    PROVE  ByteAt(x, a) \in Int
  <1>0. Bytes \subseteq Int
    BY HalfType DEF Bytes
  <1>1. a \in Stored => x.mem[a] \in Int
    BY <1>0, MachineFields
  <1>2. a \in RomBytes => Rom[a - RAM_END + 1] \in Int
    <2>1. a \in RomBytes => a - RAM_END + 1 \in 1..Len(Rom)
      BY Layout DEF RomBytes
    <2>2. Rom \in Seq(Bytes)
      BY LayoutAssumption
    <2>3. \A j \in 1..Len(Rom) : Rom[j] \in Bytes
      BY <2>2
    <2> QED
      BY <1>0, <2>1, <2>3
  <1>3. Codes[x.exception_type] % BYTE \in Int
    <2>1. \A c \in DOMAIN Codes : Codes[c] \in Int
      BY DEF Codes
    <2>2. Codes[x.exception_type] \in Int /\ BYTE \in Nat \ {0}
      BY <2>1, MachineFields, HalfType
    <2> HIDE DEF Codes
    <2>3. Codes[x.exception_type] % BYTE \in 0..BYTE - 1
      BY <2>2, DivMod
    <2> QED
      BY <2>2, <2>3
  <1>4. ASSUME NEW v \in Words, NEW i \in 0..WORD - 1 PROVE ByteOf(v, i) \in Int
    <2>1. i \in 0..WORD /\ v \in Int
      BY Layout, WordsAreInts
    <2> QED
      BY <1>0, <2>1, ByteOfType
  <1>5. a \in EXC_PC..EXC_ADDR - 1 => ByteOf(x.exception_pc, a - EXC_PC) \in Int
    <2>1. a \in EXC_PC..EXC_ADDR - 1 => a - EXC_PC \in 0..WORD - 1
      BY Layout DEF EXC_PC, EXC_ADDR
    <2> QED
      BY <1>4, <2>1, MachineFields
  <1>6. a \in EXC_ADDR..EXC_ADDR + WORD - 1 => ByteOf(x.exception_addr, a - EXC_ADDR) \in Int
    <2>1. a \in EXC_ADDR..EXC_ADDR + WORD - 1 => a - EXC_ADDR \in 0..WORD - 1
      BY Layout DEF EXC_PC, EXC_ADDR
    <2> QED
      BY <1>4, <2>1, MachineFields
  <1>7. \/ a \in Stored \/ a \in RomBytes \/ a = VECTORS_END
        \/ a \in EXC_PC..EXC_ADDR - 1 \/ a \in EXC_ADDR..EXC_ADDR + WORD - 1
    BY Layout DEF Readable, Executable, ExcRegs, EXC_PC, EXC_ADDR, Stored
  <1> QED
    BY <1>1, <1>2, <1>3, <1>5, <1>6, <1>7 DEF ByteAt

LEMMA ByteAtStored ==
    ASSUME NEW x, NEW a \in Stored
    PROVE  ByteAt(x, a) = x.mem[a]
  <1>1. (a \in Int /\ a < VECTORS_END) \/ a \in SYSMEM_END..RAM_END - 1
    BY Layout DEF Stored, Vectors, Ram
  <1>2. /\ a \notin RomBytes /\ a # VECTORS_END /\ a \notin EXC_PC..EXC_ADDR - 1
        /\ a \notin EXC_ADDR..EXC_ADDR + WORD - 1
    BY <1>1, Layout DEF RomBytes, EXC_PC, EXC_ADDR
  <1> QED
    BY <1>2 DEF ByteAt

LEMMA FromBytesType ==
    ASSUME NEW k \in 0..WORD, NEW b, \A i \in 0..k - 1 : b[i] \in Int
    PROVE  FromBytes(b, k) \in Words
  <1> DEFINE t == [i \in 0..k - 1 |-> b[i] * Weight(i)]
  <1>1. ASSUME NEW i \in 0..k - 1 PROVE t[i] \in Int
    <2>1. i \in 0..WORD
      BY Layout
    <2>2. Weight(i) \in Int /\ b[i] \in Int
      BY <2>1, WeightStep
    <2>3. \A y, z \in Int : y * z \in Int
      OBVIOUS
    <2> QED
      BY <2>2, <2>3
  <1> HIDE DEF t
  <1>2. SumTo(t, k) \in Int
    BY <1>1, SumType, Layout
  <1>3. Wrap(SumTo(t, k)) \in Words
    BY <1>2, WrapType
  <1> QED
    BY <1>3 DEF FromBytes, t

\* Addresses that hold something lie within the memory.
LEMMA Addresses ==
    /\ Readable \subseteq 0..RAM_END + Len(Rom) - 1
    /\ Executable \subseteq Readable
    /\ Writable \subseteq 0..RAM_END + Len(Rom) - 1
    /\ PAST_REGS \notin Writable /\ PAST_REGS \notin Readable
    /\ Writable \cap Readable \subseteq Stored
  BY Layout DEF Readable, Executable, Writable, Vectors, Ram, Stored, RomBytes, ExcRegs,
                EXC_PC, EXC_ADDR, PAST_REGS

\* The first address that a load or store does not reach is a word.
LEMMA FaultAddress ==
    ASSUME NEW a \in Words, NEW k \in Nat, NEW ok,
           ok \subseteq 0..RAM_END + Len(Rom) - 1, a..a + k - 1 \subseteq ok
    PROVE  a + k \in Words
  <1>1. CASE k = 0
    BY <1>1, WordsAreInts
  <1>2. CASE k > 0
    <2>1. a \in Int
      BY WordsAreInts
    <2>2. a + k - 1 \in a..a + k - 1
      BY <1>2, <2>1
    <2>3. a + k - 1 \in 0..RAM_END + Len(Rom) - 1
      BY <2>2
    <2>4. a + k \in 0..RAM_END + Len(Rom)
      BY <2>1, <2>3, Layout
    <2> QED
      BY <2>4, SmallWords
  <1> QED
    BY <1>1, <1>2

LEMMA LoadType ==
    ASSUME NEW x \in Machines, NEW a \in Words, NEW n \in 1..WORD,
           NEW usage \in {"READ", "EXEC"}, NEW wild
    PROVE  /\ Load(x, a, n, usage, wild).machine \in Machines
           /\ Load(x, a, n, usage, wild).value \in Words
  <1> DEFINE ok == IF usage = "READ" THEN Readable ELSE Executable
             k == Reach(a, n, ok)
             b == [i \in 0..k - 1 |-> ByteAt(x, a + i)]
  <1>1. a \in Int /\ n \in Nat /\ ok \subseteq Readable
    BY WordsAreInts, Layout, Addresses
  <1>2. Load(x, a, n, usage, wild) =
           [machine |-> IF k = n THEN x ELSE ReadFails(x, a + k, usage, wild),
            value |-> FromBytes(b, k), ok |-> k = n]
    BY DEF Load
  <1>3. k \in 0..n /\ a..a + k - 1 \subseteq ok
    <2> HIDE DEF ok
    <2> QED
      BY <1>1, ReachStops DEF Reaches
  <1> HIDE DEF ok, k
  <1>4. ASSUME NEW i \in 0..k - 1 PROVE b[i] \in Int
    <2>1. a + i \in a..a + k - 1
      BY <1>1, <1>3
    <2>2. a + i \in Readable
      BY <1>1, <1>3, <2>1
    <2> QED
      BY <2>2, ByteAtType
  <1>5. k \in 0..WORD /\ k \in Nat
    BY <1>3, Layout
  <1> HIDE DEF b
  <1>6. FromBytes(b, k) \in Words
    BY <1>4, <1>5, FromBytesType
  <1>7. a + k \in Words
    BY <1>1, <1>3, <1>5, Addresses, FaultAddress
  <1>8. ReadFails(x, a + k, usage, wild) \in Machines
    <2>1. Blamed(a + k, usage) \in Words
      <3>1. ASSUME a + k \in PAST_REGS + 1..PRINTER - 1
            PROVE  (a + k) - VECTORS_END \in Words
        <4>1. (a + k) - VECTORS_END \in 0..RAM_END + Len(Rom)
          BY <1>1, <1>5, <3>1, Layout DEF PAST_REGS, EXC_ADDR, EXC_PC
        <4> QED
          BY <4>1, SmallWords
      <3> QED
        BY <1>7, <3>1 DEF Blamed
    <2> QED
      BY <1>7, <2>1, MachineWith, MachineSegfault DEF ReadFails
  <1> QED
    BY <1>2, <1>6, <1>8

LEMMA WrittenType ==
    ASSUME NEW x \in Machines, NEW a \in Int, NEW k \in 0..WORD, NEW v \in Words
    PROVE  Written(x, a, k, v) \in [Stored -> Bytes]
  <1>1. ASSUME NEW b \in Stored, b \in a..a + k - 1 PROVE ByteOf(v, b - a) \in Bytes
    <2>1. b - a \in 0..WORD /\ v \in Int
      BY <1>1, Layout, WordsAreInts
    <2> QED
      BY <2>1, ByteOfType
  <1> QED
    BY <1>1, MachineFields DEF Written

LEMMA StoreType ==
    ASSUME NEW x \in Machines, NEW a \in Words, NEW n \in 1..WORD, NEW v \in Words
    PROVE  Store(x, a, n, v) \in Machines
  <1> DEFINE k == Reach(a, n, Writable)
             y == WithMem(x, Written(x, a, k, v))
  <1>1. Store(x, a, n, v) = IF k = n THEN y ELSE Segfault(y, a + k)
    BY DEF Store, WithMem
  <1>2. a \in Int /\ n \in Nat
    BY WordsAreInts, Layout
  <1>3. k \in 0..n /\ a..a + k - 1 \subseteq Writable
    BY <1>2, ReachStops DEF Reaches
  <1> HIDE DEF k
  <1>4. k \in 0..WORD /\ k \in Nat
    BY <1>3, Layout
  <1>5. y \in Machines
    BY <1>2, <1>4, WrittenType, MachineWith
  <1> HIDE DEF y
  <1>6. a + k \in Words
    BY <1>3, <1>4, Addresses, FaultAddress
  <1> QED
    BY <1>1, <1>5, <1>6, MachineSegfault

\* The instructions that move pc, and push.
LEMMA FlowType ==
    ASSUME NEW x \in Machines
    PROVE  /\ x.pc \in Executable => Push(x) \in Machines
           /\ Jump(x) \in Machines /\ JumpIf(x) \in Machines /\ Call(x) \in Machines
           /\ RelJump(x) \in Machines /\ RelJumpIf(x) \in Machines /\ RelCall(x) \in Machines
           /\ \A v \in Words : Report(x, v) \in Machines
  <1>0. Height(x) \in Nat /\ 1 \in Int /\ x.pc \in Int /\ WORD \in 1..WORD /\ 1 + WORD \in Int
    BY MachineFields, WordsAreInts, Layout
  <1>1. ASSUME ~(Height(x) < 2)
        PROVE  Popped(x, 2) \in Machines /\ Top(x, 1) \in Words /\ Top(x, 2) \in Words
    <2>1. 2 \in 0..Height(x) /\ 1 \in 1..Height(x) /\ 2 \in 1..Height(x)
      BY <1>0, <1>1
    <2> QED
      BY <2>1, MachinePopped, MachineTop
  <1>2. ASSUME ~(Height(x) < 1)
        PROVE  Popped(x, 1) \in Machines /\ Top(x, 1) \in Words
    <2>1. 1 \in 0..Height(x) /\ 1 \in 1..Height(x)
      BY <1>0, <1>2
    <2> QED
      BY <2>1, MachinePopped, MachineTop
  <1>3. Wrap(x.pc + 1) \in Words
    BY <1>0, WrapType
  <1>4. /\ Jump(x) = Taking(x, 1, WithPc(Popped(x, 1), Top(x, 1)))
        /\ JumpIf(x) = Taking(x, 2, IF Top(x, 2) = 0 THEN Advanced(Popped(x, 2), 1)
                                    ELSE WithPc(Popped(x, 2), Top(x, 1)))
        /\ Call(x) = Taking(x, 1,
              WithPc(Pushed(Popped(x, 1), Wrap(x.pc + 1)), Top(x, 1)))
    BY DEF Jump, JumpIf, Call, WithPc
  <1>5. Jump(x) \in Machines
    BY <1>2, <1>4, MachineWith, MachineTaking
  <1>6. JumpIf(x) \in Machines
    BY <1>0, <1>1, <1>4, MachineWith, MachineAdvanced, MachineTaking
  <1>7. Call(x) \in Machines
    BY <1>2, <1>3, <1>4, MachineWith, MachinePushed, MachineTaking
  <1>8. RelJump(x) \in Machines
    BY <1>2, WordsAreInts, MachineAdvanced, MachineTaking DEF RelJump
  <1>9. RelJumpIf(x) \in Machines
    <2>1. ~(Height(x) < 2) => (IF Top(x, 2) = 0 THEN 1 ELSE Top(x, 1)) \in Int
      BY <1>1, WordsAreInts
    <2> QED
      BY <1>1, <2>1, MachineAdvanced, MachineTaking DEF RelJumpIf
  <1>10. RelCall(x) \in Machines
    <2>1. ~(Height(x) < 1) => Pushed(Popped(x, 1), Wrap(x.pc + 1)) \in Machines /\ Top(x, 1) \in Int
      BY <1>2, <1>3, MachinePushed, WordsAreInts
    <2> QED
      BY <2>1, MachineAdvanced, MachineTaking DEF RelCall
  <1>11. ASSUME NEW v \in Words PROVE Report(x, v) \in Machines
    BY <1>0, MachinePushed, MachineAdvanced DEF Report
  <1>12. ASSUME x.pc \in Executable PROVE Push(x) \in Machines
    <2> DEFINE got == Load(x, x.pc + 1, WORD, "EXEC", FALSE)
               z == IF got.ok THEN Pushed(x, got.value) ELSE got.machine
    <2>1. x.pc \in 0..RAM_END + Len(Rom) - 1
      BY <1>12, Addresses
    <2>2. x.pc + 1 \in 0..RAM_END + Len(Rom)
      BY <2>1, Layout
    <2>3. x.pc + 1 \in Words
      BY <2>2, SmallWords
    <2>4. got.machine \in Machines /\ got.value \in Words
      BY <1>0, <2>3, LoadType
    <2>5. Push(x) = Advanced(z, 1 + WORD)
      BY DEF Push
    <2> HIDE DEF got
    <2>6. z \in Machines
      BY <2>4, MachinePushed
    <2> HIDE DEF z
    <2> QED
      BY <1>0, <2>5, <2>6, MachineAdvanced
  <1> QED
    BY <1>5, <1>6, <1>7, <1>8, <1>9, <1>10, <1>11, <1>12

LEMMA FetchType ==
    ASSUME NEW x \in Machines, NEW wild
    PROVE  Fetch(x, wild) \in Machines
  <1>1. 1 \in 1..WORD /\ 1 \in Int /\ x.pc \in Words
    BY Layout, MachineFields
  <1>2. Load(x, x.pc, 1, "EXEC", wild).machine \in Machines
    BY <1>1, LoadType
  <1> QED
    BY <1>1, <1>2, MachineAdvanced DEF Fetch

LEMMA MemoryType ==
    ASSUME NEW x \in Machines, NEW n \in 1..WORD, NEW wild
    PROVE  /\ Get(x, n, wild) \in Machines /\ Put(x, n) \in Machines
           /\ SfLoad(x, n, wild) \in Machines /\ SfStore(x, n) \in Machines
  <1>0. Height(x) \in Nat /\ 1 \in Int /\ x.v2_sf \in Int
    BY MachineFields, WordsAreInts
  <1>1. ASSUME ~(Height(x) < 2)
        PROVE  Popped(x, 2) \in Machines /\ Top(x, 1) \in Words /\ Top(x, 2) \in Words
    <2>1. 2 \in 0..Height(x) /\ 1 \in 1..Height(x) /\ 2 \in 1..Height(x)
      BY <1>0, <1>1
    <2> QED
      BY <2>1, MachinePopped, MachineTop
  <1>2. ASSUME ~(Height(x) < 1)
        PROVE  Popped(x, 1) \in Machines /\ Top(x, 1) \in Words
    <2>1. 1 \in 0..Height(x) /\ 1 \in 1..Height(x)
      BY <1>0, <1>2
    <2> QED
      BY <2>1, MachinePopped, MachineTop
  <1>3. Top(x, 1) \in Words => Wrap(x.v2_sf + Top(x, 1)) \in Words
    BY <1>0, WordsAreInts, WrapType
  <1>4. Get(x, n, wild) \in Machines
    <2> DEFINE got == Load(Popped(x, 1), Top(x, 1), n, "READ", wild)
    <2>1. ~(Height(x) < 1) => got.machine \in Machines /\ got.value \in Words
      BY <1>2, LoadType
    <2>2. Get(x, n, wild) = Taking(x, 1,
             Advanced(IF got.ok THEN Pushed(got.machine, got.value) ELSE got.machine, 1))
      BY DEF Get
    <2> HIDE DEF got
    <2> QED
      BY <1>0, <2>1, <2>2, MachinePushed, MachineAdvanced, MachineTaking
  <1>5. Put(x, n) \in Machines
    BY <1>0, <1>1, StoreType, MachineAdvanced, MachineTaking DEF Put
  <1>6. SfLoad(x, n, wild) \in Machines
    <2> DEFINE got == Load(Popped(x, 1), Wrap(x.v2_sf + Top(x, 1)), n, "READ", wild)
    <2>1. ~(Height(x) < 1) => got.machine \in Machines /\ got.value \in Words
      BY <1>2, <1>3, LoadType
    <2>2. SfLoad(x, n, wild) = Taking(x, 1, Advanced(Pushed(got.machine, got.value), 1))
      BY DEF SfLoad
    <2> HIDE DEF got
    <2> QED
      BY <1>0, <2>1, <2>2, MachinePushed, MachineAdvanced, MachineTaking
  <1>7. SfStore(x, n) \in Machines
    BY <1>0, <1>1, <1>3, StoreType, MachineAdvanced, MachineTaking DEF SfStore
  <1> QED
    BY <1>4, <1>5, <1>6, <1>7

LEMMA SecondStackType ==
    ASSUME NEW x \in Machines, NEW wild
    PROVE  /\ SetSf(x) \in Machines /\ SetSp(x) \in Machines /\ SAdd(x) \in Machines
           /\ SPush(x) \in Machines /\ SPop(x, wild) \in Machines
           /\ SfBegin(x, wild) \in Machines /\ SfEnd(x, wild) \in Machines
  <1>0. /\ Height(x) \in Nat /\ 1 \in Int /\ WORD \in 1..WORD /\ WORD \in Int
        /\ x.v2_sf \in Int /\ x.v2_sp \in Int /\ x.v2_sf \in Words /\ x.v2_sp \in Words
    BY MachineFields, WordsAreInts, Layout
  <1>1. ASSUME ~(Height(x) < 1)
        PROVE  Popped(x, 1) \in Machines /\ Top(x, 1) \in Words
    <2>1. 1 \in 0..Height(x) /\ 1 \in 1..Height(x)
      BY <1>0, <1>1
    <2> QED
      BY <2>1, MachinePopped, MachineTop
  <1> DEFINE lower == Wrap(x.v2_sp - WORD)
  <1>2. lower \in Words
    BY <1>0, WrapType
  <1>3. SetSf(x) \in Machines
    <2>1. SetSf(x) = Taking(x, 1, Advanced(WithSf(Popped(x, 1), Top(x, 1)), 1))
      BY DEF SetSf, WithSf
    <2> QED
      BY <1>0, <1>1, <2>1, MachineWith, MachineAdvanced, MachineTaking
  <1>4. SetSp(x) \in Machines
    <2>1. SetSp(x) = Taking(x, 1, Advanced(WithSp(Popped(x, 1), Top(x, 1)), 1))
      BY DEF SetSp, WithSp
    <2> QED
      BY <1>0, <1>1, <2>1, MachineWith, MachineAdvanced, MachineTaking
  <1>5. SAdd(x) \in Machines
    <2> DEFINE y == Popped(x, 1)
               sum == Wrap(y.v2_sp + Top(x, 1))
    <2>1. SAdd(x) = Taking(x, 1, Advanced(WithSp(y, sum), 1))
      BY DEF SAdd, WithSp
    <2>2. ~(Height(x) < 1) => y.v2_sp \in Int /\ Top(x, 1) \in Int /\ y \in Machines
      BY <1>1, MachineFields, WordsAreInts
    <2>3. ~(Height(x) < 1) => sum \in Words
      BY <2>2, WrapType
    <2> HIDE DEF sum, y
    <2> QED
      BY <1>0, <2>1, <2>2, <2>3, MachineWith, MachineAdvanced, MachineTaking
  <1>6. SPush(x) \in Machines
    <2>1. SPush(x) = Taking(x, 1,
            Advanced(Store(WithSp(Popped(x, 1), lower), lower, WORD, Top(x, 1)), 1))
      BY DEF SPush, WithSp
    <2> HIDE DEF lower
    <2> QED
      BY <1>0, <1>1, <1>2, <2>1, MachineWith, StoreType, MachineAdvanced, MachineTaking
  <1>7. SPop(x, wild) \in Machines
    <2> DEFINE got == Load(x, x.v2_sp, WORD, "READ", wild)
               sum == Wrap(got.machine.v2_sp + WORD)
    <2>1. SPop(x, wild) = Advanced(Pushed(WithSp(got.machine, sum), got.value), 1)
      BY DEF SPop, WithSp
    <2>2. got.machine \in Machines /\ got.value \in Words
      BY <1>0, LoadType
    <2> HIDE DEF got
    <2>3. got.machine.v2_sp \in Int
      BY <2>2, MachineFields, WordsAreInts
    <2>4. sum \in Words
      BY <1>0, <2>3, WrapType
    <2> HIDE DEF sum
    <2> QED
      BY <1>0, <2>1, <2>2, <2>4, MachineWith, MachinePushed, MachineAdvanced
  <1>8. SfBegin(x, wild) \in Machines
    <2> DEFINE z == WithSf(Store(WithSp(x, lower), lower, WORD, x.v2_sf), lower)
    <2>1. SfBegin(x, wild) = IF wild THEN z ELSE Advanced(z, 1)
      BY DEF SfBegin, WithSp, WithSf
    <2> HIDE DEF lower
    <2>2. z \in Machines
      BY <1>0, <1>2, MachineWith, StoreType
    <2> HIDE DEF z
    <2> QED
      BY <1>0, <2>1, <2>2, MachineAdvanced
  <1>9. SfEnd(x, wild) \in Machines
    <2> DEFINE got == Load(x, x.v2_sf, WORD, "READ", wild)
               sum == Wrap(x.v2_sf + WORD)
    <2>1. SfEnd(x, wild) = Advanced(WithSf(WithSp(got.machine, sum), got.value), 1)
      BY DEF SfEnd, WithSp, WithSf
    <2>2. got.machine \in Machines /\ got.value \in Words
      BY <1>0, LoadType
    <2>3. sum \in Words
      BY <1>0, WrapType
    <2> HIDE DEF sum, got
    <2> QED
      BY <1>0, <2>1, <2>2, <2>3, MachineWith, MachineAdvanced
  <1> QED
    BY <1>3, <1>4, <1>5, <1>6, <1>7, <1>8, <1>9

LEMMA EveryInstructionIsTyped ==
    ASSUME m \in Machines, last = "none" => Fresh(m), Next
    PROVE  m' \in Machines /\ last' \in Instructions \cup {last} /\ left_first' = left_first
  <1>1. ASSUME NEW name \in Instructions, NEW z, Execute(name, z),
               last = "none" => z \in Machines
        PROVE  m' \in Machines /\ last' \in Instructions \cup {last} /\ left_first' = left_first
    BY <1>1 DEF Execute
  <1>2. CASE ExecArithmetic
    <2>1. \A op \in BinaryOps : op \in Instructions
      BY DEF Instructions
    <2> QED
      BY <1>1, <1>2, <2>1, ArithmeticType DEF ExecArithmetic, Instructions
  <1>3. CASE ExecStack
    <2>1. last = "none" => Height(m) < HALF
      BY DEF Fresh, Height
    <2> QED
      BY <1>1, <1>3, <2>1, StackType DEF ExecStack, Instructions
  <1>4. CASE m.pc \in Executable /\ ExecPush
    BY <1>1, <1>4, FlowType DEF ExecPush, Instructions
  <1>5. CASE ExecFlow
    BY <1>1, <1>5, FlowType, MachineFields DEF ExecFlow, Instructions
  <1>6. CASE ExecMemory
    <2>1. \A n \in Sizes : n \in 1..WORD
      BY SizesAssumption
    <2> QED
      BY <1>1, <1>6, <2>1, MemoryType DEF ExecMemory, Instructions
  <1>7. CASE ExecSecondStack
    BY <1>1, <1>7, FlowType, SecondStackType, MachineFields DEF ExecSecondStack, Instructions
  <1>8. CASE FetchFails
    BY <1>1, <1>8, FetchType DEF FetchFails, Instructions
  <1>9. CASE Finished
    BY <1>9 DEF Finished, vars
  <1> QED
    BY <1>2, <1>3, <1>4, <1>5, <1>6, <1>7, <1>8, <1>9 DEF Next, ExecFetched

\* Every instruction makes a machine of a machine: what it computes, reads and
\* reports fits in 64 bits and what it stores in 8 (vm/ops.c, vm/mem.c).
THEOREM TypesHold == Spec => []TypeOK
  <1>1. Init => TypeOK
    BY StartsAssumption DEF Init, TypeOK
  <1>2. TypeOK /\ MInv /\ [Next]_vars => TypeOK'
    <2>1. CASE Next
      BY <2>1, EveryInstructionIsTyped DEF TypeOK, MInv
    <2>2. CASE UNCHANGED vars
      BY <2>2 DEF TypeOK, vars
    <2> QED
      BY <2>1, <2>2
  <1> QED
    BY <1>1, <1>2, MInvHolds, PTL DEF Spec

-----------------------------------------------------------------------------
(* What is written is read back.                                            *)

LEMMA FromBytesOf ==
    ASSUME NEW v \in Words, NEW k \in 0..WORD, NEW b, \A i \in 0..k - 1 : b[i] = ByteOf(v, i)
    PROVE  FromBytes(b, k) = Wrap(Unsigned(v) % Weight(k))
  <1> DEFINE t == [i \in 0..k - 1 |-> b[i] * Weight(i)]
             u == Unsigned(v)
  <1>1. u \in Nat
    BY UnsignedType, WordsAreInts, HalfType
  <1>2. \A i \in 0..k - 1 : t[i] = ((u \div Weight(i)) % BYTE) * Weight(i)
    BY DEF ByteOf
  <1>3. FromBytes(b, k) = Wrap(SumTo(t, k))
    BY DEF FromBytes
  <1> HIDE DEF t, u
  <1>4. SumTo(t, k) = u % Weight(k)
    BY <1>1, <1>2, SumOfBytes
  <1> QED
    BY <1>3, <1>4 DEF u

\* All the bytes of a word are the word.
LEMMA WholeWord ==
    ASSUME NEW v \in Words
    PROVE  Wrap(Unsigned(v) % Weight(WORD)) = v
  <1> DEFINE u == Unsigned(v)
             w == 2 * HALF
  <1>1. u \in 0..w - 1 /\ Wrap(u) = v /\ w \in Nat \ {0} /\ Weight(WORD) = w
    BY UnsignedType, WordsAreInts, HalfType, WeightStep, WrapWord
  <1> HIDE DEF u, w
  <1>2. (w * 0 + u) % w = u
    BY <1>1, DivModOnly
  <1>3. w * 0 + u = u
    BY <1>1
  <1> QED
    BY <1>1, <1>2, <1>3 DEF u

\* The lowest n bytes of v are at a, where they can be read.
Saved(x, a, n, v) ==
    /\ a..a + n - 1 \subseteq Writable
    /\ \A b \in a..a + n - 1 : b \in Stored => x.mem[b] = ByteOf(v, b - a)

\* What the instructions between a store and a load do not touch.
Rest(x) == <<x.mem, x.raised, x.v2_sp, x.v2_sf>>

LEMMA RestKept ==
    ASSUME NEW x \in Machines, NEW n, NEW v
    PROVE  /\ Rest(Popped(x, n)) = Rest(x)
           /\ Rest(Pushed(x, v)) = Rest(x)
           /\ Rest(Advanced(x, n)) = Rest(x)
           /\ Rest(WithSp(x, v)) = <<x.mem, x.raised, v, x.v2_sf>>
           /\ Rest(WithSf(x, v)) = <<x.mem, x.raised, x.v2_sp, v>>
           /\ Rest(WithMem(x, v)) = <<v, x.raised, x.v2_sp, x.v2_sf>>
           /\ Segfault(x, v).raised
           /\ Underflow(x).raised
  BY MachineFields DEF Rest, Shape, Fields, Popped, Pushed, Advanced, WithSp, WithSf,
                       WithMem, Segfault, Raised, Underflow

LEMMA TopPushed ==
    ASSUME NEW x \in Machines, NEW v \in Words
    PROVE  Top(Pushed(x, v), 1) = v /\ Height(Pushed(x, v)) = Height(x) + 1
  <1>1. Pushed(x, v).stack = Append(x.stack, v) /\ x.stack \in Seq(Words)
    BY MachineFields DEF Pushed, Shape, Fields
  <1>2. Len(Append(x.stack, v)) = Len(x.stack) + 1
        /\ Append(x.stack, v)[Len(x.stack) + 1] = v /\ Len(x.stack) \in Nat
    BY <1>1
  <1> QED
    BY <1>1, <1>2 DEF Top, Height

LEMMA StoreSaves ==
    ASSUME NEW x \in Machines, NEW a \in Words, NEW n \in 1..WORD, NEW v \in Words,
           ~Store(x, a, n, v).raised
    PROVE  /\ Store(x, a, n, v) = WithMem(x, Written(x, a, n, v))
           /\ Saved(Store(x, a, n, v), a, n, v)
           /\ ~x.raised
  <1> DEFINE k == Reach(a, n, Writable)
             y == WithMem(x, Written(x, a, k, v))
  <1>1. Store(x, a, n, v) = IF k = n THEN y ELSE Segfault(y, a + k)
    BY DEF Store, WithMem
  <1>2. a \in Int /\ n \in Nat
    BY WordsAreInts, Layout
  <1>3. k \in 0..n /\ a..a + k - 1 \subseteq Writable
    BY <1>2, ReachStops DEF Reaches
  <1> HIDE DEF k
  <1>4. y \in Machines
    <2>1. k \in 0..WORD
      BY <1>3, Layout
    <2> QED
      BY <1>2, <2>1, WrittenType, MachineWith
  <1>5. k = n
    <2> HIDE DEF y
    <2> QED
      BY <1>1, <1>4, RestKept
  <1>6. Store(x, a, n, v) = WithMem(x, Written(x, a, n, v))
    BY <1>1, <1>5
  <1>7. /\ WithMem(x, Written(x, a, n, v)).mem = Written(x, a, n, v)
        /\ WithMem(x, Written(x, a, n, v)).raised = x.raised
    BY RestKept DEF Rest
  <1>8. \A b \in a..a + n - 1 : b \in Stored => Written(x, a, n, v)[b] = ByteOf(v, b - a)
    BY DEF Written
  <1> QED
    BY <1>3, <1>5, <1>6, <1>7, <1>8 DEF Saved

LEMMA LoadSaved ==
    ASSUME NEW x \in Machines, NEW a \in Words, NEW n \in 1..WORD, NEW v \in Words,
           NEW wild, Saved(x, a, n, v), ~Load(x, a, n, "READ", wild).machine.raised
    PROVE  /\ Load(x, a, n, "READ", wild).machine = x
           /\ Load(x, a, n, "READ", wild).ok
           /\ Load(x, a, n, "READ", wild).value = Wrap(Unsigned(v) % Weight(n))
  <1> DEFINE k == Reach(a, n, Readable)
             b == [i \in 0..k - 1 |-> ByteAt(x, a + i)]
  <1>1. a \in Int /\ n \in Nat /\ n \in 0..WORD
    BY WordsAreInts, Layout
  <1>2. Load(x, a, n, "READ", wild) =
           [machine |-> IF k = n THEN x ELSE ReadFails(x, a + k, "READ", wild),
            value |-> FromBytes(b, k), ok |-> k = n]
    BY DEF Load
  <1>3. k \in 0..n /\ a..a + k - 1 \subseteq Readable /\ (k = n \/ a + k \notin Readable)
    BY <1>1, ReachStops DEF Reaches
  <1>4. \A i \in 0..k - 1 : b[i] = ByteOf(v, i)
    <2> HIDE DEF k
    <2> SUFFICES ASSUME NEW i \in 0..k - 1 PROVE b[i] = ByteOf(v, i)
      OBVIOUS
    <2>1. a + i \in a..a + k - 1 /\ a + i \in a..a + n - 1 /\ (a + i) - a = i
      BY <1>1, <1>3
    <2>2. a + i \in Stored
      BY <1>3, <2>1, Addresses DEF Saved
    <2>3. x.mem[a + i] = ByteOf(v, i)
      BY <2>1, <2>2 DEF Saved
    <2>4. ByteAt(x, a + i) = x.mem[a + i]
      BY <2>2, ByteAtStored
    <2> QED
      BY <2>3, <2>4
  <1> HIDE DEF k, b
  <1>5. k = n
    <2> SUFFICES ASSUME k # n PROVE FALSE
      OBVIOUS
    <2>1. a + k \in a..a + n - 1 /\ a + k \in Int
      BY <1>1, <1>3
    <2>2. a + k \in Writable /\ a + k \notin Readable
      BY <1>3, <2>1 DEF Saved
    <2>3. a + k # PAST_REGS /\ ~(a + k < 0)
      <3>1. a + k # PAST_REGS /\ a + k \in 0..RAM_END + Len(Rom) - 1
        BY <2>2, Addresses
      <3> QED
        BY <3>1, Layout
    <2>4. ReadFails(x, a + k, "READ", wild) = Segfault(x, Blamed(a + k, "READ"))
      BY <2>3 DEF ReadFails
    <2>5. Load(x, a, n, "READ", wild).machine = ReadFails(x, a + k, "READ", wild)
      BY <1>2
    <2> QED
      BY <2>4, <2>5, RestKept
  <1>6. FromBytes(b, n) = Wrap(Unsigned(v) % Weight(n))
    BY <1>1, <1>4, <1>5, FromBytesOf
  <1>7. Load(x, a, n, "READ", wild) = [machine |-> x, value |-> FromBytes(b, n), ok |-> TRUE]
    BY <1>2, <1>5
  <1> QED
    BY <1>6, <1>7

LEMMA PutThenGet ==
    ASSUME m \in Machines, NEW n \in Sizes, NEW wild, Height(m) >= 2,
           ~Put(m, n).raised, ~Get(Pushed(Put(m, n), Top(m, 1)), n, wild).raised
    PROVE  Top(Get(Pushed(Put(m, n), Top(m, 1)), n, wild), 1)
             = Wrap(Unsigned(Top(m, 2)) % Weight(n))
  <1> DEFINE a == Top(m, 1)
             v == Top(m, 2)
             s == Store(Popped(m, 2), a, n, v)
             stored == Advanced(s, 1)
             p == Pushed(stored, a)
             q == Popped(p, 1)
             got == Load(q, a, n, "READ", wild)
             read == Advanced(IF got.ok THEN Pushed(got.machine, got.value) ELSE got.machine, 1)
  <1>1. n \in 1..WORD /\ Height(m) \in Nat
    BY SizesAssumption, MachineFields
  <1>2. 1 \in 1..Height(m) /\ 2 \in 1..Height(m) /\ 2 \in 0..Height(m) /\ 1 \in Int
    BY <1>1
  <1>3. a \in Words /\ v \in Words /\ Popped(m, 2) \in Machines
    BY <1>2, MachineTop, MachinePopped
  <1>4. Put(m, n) = stored
    BY <1>1 DEF Put, Taking
  <1> HIDE DEF a, v
  <1>5. s \in Machines
    BY <1>1, <1>3, StoreType
  <1>6. stored \in Machines /\ stored.raised = s.raised /\ stored.mem = s.mem
    <2> HIDE DEF s
    <2> QED
      BY ZenonT(30), <1>2, <1>5, MachineAdvanced, RestKept DEF Rest
  <1>7. Saved(s, a, n, v)
    BY <1>1, <1>3, <1>4, <1>6, StoreSaves
  <1>8. p \in Machines /\ p.mem = s.mem /\ Top(p, 1) = a /\ Height(p) = Height(stored) + 1
    <2> HIDE DEF s, stored
    <2> QED
      BY ZenonT(30), <1>3, <1>6, MachinePushed, RestKept, TopPushed DEF Rest
  <1>9. Height(stored) \in Nat
    BY <1>6, MachineFields
  <1>10. Get(p, n, wild) = read
    <2> HIDE DEF s, stored, p
    <2>1. Get(p, n, wild) = Taking(p, 1, read)
      BY <1>8 DEF Get
    <2>2. ~(Height(p) < 1)
      BY <1>8, <1>9
    <2> QED
      BY <2>1, <2>2 DEF Taking
  <1>11. q \in Machines /\ q.mem = s.mem
    <2> HIDE DEF s, stored, p
    <2>1. 1 \in 0..Height(p)
      BY <1>8, <1>9
    <2> QED
      BY <1>8, <2>1, MachinePopped, RestKept DEF Rest
  <1>12. Saved(q, a, n, v)
    BY <1>7, <1>11 DEF Saved
  <1>13. ~read.raised
    BY <1>4, <1>10 DEF a
  <1> HIDE DEF s, stored, p, q
  <1>14. got.machine \in Machines /\ got.value \in Words
    BY <1>1, <1>3, <1>11, LoadType
  <1>15. ~got.machine.raised
    <2> HIDE DEF got
    <2>1. Pushed(got.machine, got.value) \in Machines
      BY <1>14, MachinePushed
    <2> QED
      BY <1>13, <1>14, <2>1, RestKept DEF Rest
  <1>16. got.ok /\ got.value = Wrap(Unsigned(v) % Weight(n))
    <2>1. q \in Machines /\ a \in Words /\ n \in 1..WORD /\ v \in Words
      BY <1>1, <1>3, <1>11
    <2>2. Saved(q, a, n, v) /\ ~Load(q, a, n, "READ", wild).machine.raised
      BY <1>12, <1>15
    <2> QED
      BY <2>1, <2>2, LoadSaved
  <1>17. Top(read, 1) = got.value
    <2> HIDE DEF got
    <2>1. Pushed(got.machine, got.value) \in Machines
      BY <1>14, MachinePushed
    <2>2. Advanced(Pushed(got.machine, got.value), 1).stack = Pushed(got.machine, got.value).stack
      BY <2>1, MachineFields DEF Advanced, Shape, Fields
    <2> QED
      BY <1>14, <1>16, <2>2, TopPushed DEF Top, Height
  <1> QED
    BY <1>4, <1>10, <1>16, <1>17 DEF v, a, p, stored, s

\* What put stores, get of the same size reads back, in every reachable machine,
\* whatever the size, the address and the layout (vm/mem.c, vm/ops.c).
THEOREM WrittenIsReadBack == Spec => []ReadBackWritten
  <1>1. TypeOK => ReadBackWritten
    <2> SUFFICES ASSUME TypeOK PROVE ReadBackWritten
      OBVIOUS
    <2>1. \A wild \in BOOLEAN : \A n \in Sizes :
             (/\ Height(m) >= 2 /\ ~Put(m, n).raised
              /\ ~Get(Pushed(Put(m, n), Top(m, 1)), n, wild).raised)
               => Top(Get(Pushed(Put(m, n), Top(m, 1)), n, wild), 1)
                    = Wrap(Unsigned(Top(m, 2)) % Weight(n))
      BY PutThenGet DEF TypeOK
    <2>2. FALSE \in BOOLEAN
      OBVIOUS
    <2> QED
      BY <2>1, <2>2 DEF ReadBackWritten
  <1> QED
    BY <1>1, TypesHold, PTL

-----------------------------------------------------------------------------
(* Frames.                                                                  *)

\* x is in a frame that saved v at a.
InFrame(x, a, v) == x \in Machines /\ x.v2_sf = a /\ Saved(x, a, WORD, v)

\* The slot of a frame.
Lower(x) == Wrap(x.v2_sp - WORD)

LEMMA LowerType ==
    ASSUME NEW x \in Machines
    PROVE  Lower(x) \in Words /\ Wrap(Lower(x) + WORD) = x.v2_sp
  <1>1. x.v2_sp \in Int /\ x.v2_sp \in Words /\ WORD \in Int
    BY MachineFields, WordsAreInts, Layout
  <1>2. \A y \in Int : Wrap(Wrap(y) + WORD) = Wrap(y + WORD)
    BY <1>1, WrapSum
  <1>3. (x.v2_sp - WORD) + WORD = x.v2_sp /\ x.v2_sp - WORD \in Int
    BY <1>1
  <1> QED
    BY <1>1, <1>2, <1>3, WrapWord, WrapType DEF Lower

\* Below a slot that could be written there is no wrapping around.
LEMMA LowerBelow ==
    ASSUME NEW x \in Machines, x.v2_sp \in Writable
    PROVE  Lower(x) = x.v2_sp - WORD
  <1>1. x.v2_sp \in 0..RAM_END + Len(Rom) - 1
    BY Addresses
  <1>2. x.v2_sp - WORD \in Words
    BY <1>1, Layout DEF Words
  <1> QED
    BY <1>2, WrapWord DEF Lower

LEMMA FrameOpened ==
    ASSUME NEW x \in Machines, NEW jumped \in BOOLEAN, ~SfBegin(x, jumped).raised
    PROVE  /\ InFrame(SfBegin(x, jumped), Lower(x), x.v2_sf)
           /\ SfBegin(x, jumped).v2_sp = Lower(x)
           /\ SfBegin(x, jumped).mem = Written(x, Lower(x), WORD, x.v2_sf)
           /\ ~x.raised
           /\ Lower(x) \in Writable
  <1> DEFINE a == Lower(x)
             v == x.v2_sf
             y == WithSp(x, a)
             s == Store(y, a, WORD, v)
             z == WithSf(s, a)
  <1>1. a \in Words /\ v \in Words /\ WORD \in 1..WORD /\ 1 \in Int
    BY LowerType, MachineFields, Layout
  <1>2. SfBegin(x, jumped) = IF jumped THEN z ELSE Advanced(z, 1)
    BY DEF SfBegin, Lower, WithSp, WithSf
  <1> HIDE DEF a, v
  <1>3. y \in Machines /\ y.mem = x.mem /\ y.raised = x.raised /\ y.v2_sp = a
    <2>1. y \in Machines
      BY <1>1, MachineWith
    <2>2. Rest(y) = <<x.mem, x.raised, a, x.v2_sf>>
      BY RestKept
    <2> HIDE DEF y
    <2> QED
      BY <2>1, <2>2 DEF Rest
  <1> HIDE DEF y
  <1>4. s \in Machines
    BY <1>1, <1>3, StoreType
  <1>5. z \in Machines /\ Rest(z) = <<s.mem, s.raised, s.v2_sp, a>>
    <2> HIDE DEF s
    <2> QED
      BY <1>1, <1>4, MachineWith, RestKept
  <1>6. Advanced(z, 1) \in Machines /\ Rest(Advanced(z, 1)) = Rest(z)
    <2> HIDE DEF z
    <2> QED
      BY <1>1, <1>5, MachineAdvanced, RestKept
  <1>7. SfBegin(x, jumped) \in Machines /\ Rest(SfBegin(x, jumped)) = Rest(z)
    <2> HIDE DEF z
    <2> QED
      BY <1>2, <1>5, <1>6
  <1>8. ~s.raised
    <2> HIDE DEF z, s
    <2> QED
      BY <1>5, <1>7 DEF Rest
  <1>9. s = WithMem(y, Written(y, a, WORD, v)) /\ Saved(s, a, WORD, v) /\ ~y.raised
    BY <1>1, <1>3, <1>8, StoreSaves
  <1>10. s.mem = Written(x, a, WORD, v) /\ s.v2_sp = a
    <2>1. Rest(s) = <<Written(y, a, WORD, v), y.raised, y.v2_sp, y.v2_sf>>
      BY <1>3, <1>9, RestKept
    <2>2. Written(y, a, WORD, v) = Written(x, a, WORD, v)
      BY <1>3 DEF Written
    <2> HIDE DEF s
    <2> QED
      BY <1>3, <2>1, <2>2 DEF Rest
  <1>11. a \in Writable
    <2>1. a \in a..a + WORD - 1
      BY <1>1, WordsAreInts, Layout
    <2> QED
      BY <1>9, <2>1 DEF Saved
  <1> HIDE DEF s, z
  <1>12. /\ SfBegin(x, jumped).mem = s.mem /\ SfBegin(x, jumped).v2_sp = a
         /\ SfBegin(x, jumped).v2_sf = a
    BY <1>5, <1>7, <1>10 DEF Rest
  <1>13. Saved(SfBegin(x, jumped), a, WORD, v)
    BY <1>9, <1>12 DEF Saved
  <1> QED
    BY <1>3, <1>7, <1>9, <1>10, <1>11, <1>12, <1>13 DEF InFrame, a, v

LEMMA FrameClosed ==
    ASSUME NEW x, NEW a \in Words, NEW v \in Words, InFrame(x, a, v),
           NEW wild \in BOOLEAN, ~SfEnd(x, wild).raised
    PROVE  /\ SfEnd(x, wild) \in Machines
           /\ SfEnd(x, wild).v2_sf = v
           /\ SfEnd(x, wild).v2_sp = Wrap(a + WORD)
           /\ SfEnd(x, wild).mem = x.mem
  <1> DEFINE got == Load(x, a, WORD, "READ", wild)
             y == WithSp(got.machine, Wrap(a + WORD))
             z == WithSf(y, got.value)
  <1>1. x \in Machines /\ Saved(x, a, WORD, v) /\ WORD \in 1..WORD /\ 1 \in Int
    BY Layout DEF InFrame
  <1>2. SfEnd(x, wild) = Advanced(z, 1)
    BY DEF SfEnd, InFrame, WithSp, WithSf
  <1>3. got.machine \in Machines /\ got.value \in Words /\ Wrap(a + WORD) \in Words
    <2>1. got.machine \in Machines /\ got.value \in Words
      BY <1>1, LoadType
    <2>2. a + WORD \in Int
      BY WordsAreInts, Layout
    <2> HIDE DEF got
    <2>3. QED
      BY <2>1, <2>2, WrapType
  <1>4. ~got.machine.raised => got.machine = x /\ got.value = v
    BY <1>1, LoadSaved, WholeWord
  <1> HIDE DEF got
  <1>5. y \in Machines /\ Rest(y) = <<got.machine.mem, got.machine.raised, Wrap(a + WORD), got.machine.v2_sf>>
    BY <1>3, MachineWith, RestKept
  <1> HIDE DEF y
  <1>6. z \in Machines /\ Rest(z) = <<y.mem, y.raised, y.v2_sp, got.value>>
    BY <1>3, <1>5, MachineWith, RestKept
  <1> HIDE DEF z
  <1>7. Advanced(z, 1) \in Machines /\ Rest(Advanced(z, 1)) = Rest(z)
    BY <1>1, <1>6, MachineAdvanced, RestKept
  <1>8. Rest(SfEnd(x, wild)) = <<got.machine.mem, got.machine.raised, Wrap(a + WORD), got.value>>
    BY <1>2, <1>5, <1>6, <1>7 DEF Rest
  <1> QED
    BY <1>2, <1>4, <1>7, <1>8 DEF Rest

\* What raised before goes on raising.
LEMMA RaisedStays ==
    ASSUME NEW x \in Machines, x.raised, NEW wild \in BOOLEAN
    PROVE  SfEnd(x, wild).raised
  <1> DEFINE got == Load(x, x.v2_sf, WORD, "READ", wild)
  <1>1. got.machine.raised
    <2>1. \A b : ReadFails(x, b, "READ", wild).raised
      BY MachineFields, RestKept DEF ReadFails, Crashed, Shape, Fields
    <2> QED
      BY <2>1 DEF Load
  <1>2. got.machine \in Machines
    BY LoadType, MachineFields, Layout
  <1>3. SfEnd(x, wild) = Advanced(WithSf(WithSp(got.machine, Wrap(x.v2_sf + WORD)), got.value), 1)
    BY DEF SfEnd, WithSp, WithSf
  <1> HIDE DEF got
  <1> QED
    BY <1>1, <1>2, <1>3, MachineFields DEF Advanced, WithSp, WithSf, Shape, Fields

LEMMA SPushRaised ==
    ASSUME NEW x \in Machines, x.raised
    PROVE  SPush(x).raised
  <1> DEFINE lower == Lower(x)
             y == WithSp(Popped(x, 1), lower)
             s == Store(y, lower, WORD, Top(x, 1))
  <1>1. SPush(x) = Taking(x, 1, Advanced(s, 1))
    BY DEF SPush, Lower, WithSp
  <1>2. ~(Height(x) < 1) => s.raised /\ s \in Machines
    <2> SUFFICES ASSUME ~(Height(x) < 1) PROVE s.raised /\ s \in Machines
      OBVIOUS
    <2>1. 1 \in 0..Height(x) /\ 1 \in 1..Height(x)
      BY MachineFields
    <2>2. Popped(x, 1) \in Machines /\ Top(x, 1) \in Words /\ lower \in Words /\ WORD \in 1..WORD
      BY <2>1, MachinePopped, MachineTop, LowerType, Layout
    <2> HIDE DEF lower
    <2>3. y \in Machines /\ y.raised
      BY <2>2, MachineWith, RestKept DEF Rest
    <2> HIDE DEF y
    <2> QED
      BY <2>2, <2>3, StoreType, StoreSaves
  <1> HIDE DEF s
  <1> QED
    BY <1>1, <1>2, RestKept DEF Taking, Rest

\* A store below a slot leaves the slot alone.
LEMMA SavedAbove ==
    ASSUME NEW x, NEW z, NEW a \in Int, NEW v, Saved(x, a, WORD, v),
           NEW w, z.mem = Written(x, a - WORD, WORD, w)
    PROVE  Saved(z, a, WORD, v)
  <1>1. ASSUME NEW b \in a..a + WORD - 1, b \in Stored PROVE z.mem[b] = x.mem[b]
    <2>1. b \notin (a - WORD)..(a - WORD) + WORD - 1
      BY Layout
    <2> QED
      BY <1>1, <2>1 DEF Written
  <1> QED
    BY <1>1 DEF Saved

LEMMA PushedInFrame ==
    ASSUME NEW x, NEW v \in Words, InFrame(x, x.v2_sp, v), x.v2_sp \in Writable,
           ~SPush(x).raised
    PROVE  InFrame(SPush(x), x.v2_sp, v) /\ ~x.raised
  <1> DEFINE a == x.v2_sp
             lower == Lower(x)
             y == WithSp(Popped(x, 1), lower)
             s == Store(y, lower, WORD, Top(x, 1))
  <1>1. x \in Machines /\ Height(x) \in Nat /\ a \in Words /\ a \in Int /\ WORD \in 1..WORD /\ 1 \in Int
    BY MachineFields, WordsAreInts, Layout DEF InFrame
  <1>2. Height(x) >= 1 /\ SPush(x) = Advanced(s, 1)
    <2>1. SPush(x) = Taking(x, 1, Advanced(s, 1))
      BY DEF SPush, Lower, WithSp
    <2> HIDE DEF s
    <2>2. ~(Height(x) < 1)
      BY <1>1, <2>1, RestKept DEF Taking
    <2> QED
      BY <1>1, <2>1, <2>2 DEF Taking
  <1>3. lower \in Words /\ lower = a - WORD
    BY <1>1, LowerType, LowerBelow
  <1>4. Popped(x, 1) \in Machines /\ Top(x, 1) \in Words
    <2>1. 1 \in 0..Height(x) /\ 1 \in 1..Height(x)
      BY <1>1, <1>2
    <2> QED
      BY <1>1, <2>1, MachinePopped, MachineTop
  <1> HIDE DEF lower
  <1>5. y \in Machines /\ Rest(y) = <<x.mem, x.raised, lower, x.v2_sf>>
    <2>1. y \in Machines
      BY <1>3, <1>4, MachineWith
    <2>2. Rest(y) = <<Popped(x, 1).mem, Popped(x, 1).raised, lower, Popped(x, 1).v2_sf>>
      BY <1>4, RestKept
    <2>3. Rest(Popped(x, 1)) = Rest(x)
      BY <1>1, RestKept
    <2> HIDE DEF y
    <2> QED
      BY <2>1, <2>2, <2>3 DEF Rest
  <1> HIDE DEF y
  <1>6. s \in Machines
    BY <1>1, <1>3, <1>4, <1>5, StoreType
  <1>7. SPush(x) \in Machines /\ Rest(SPush(x)) = Rest(s)
    <2> HIDE DEF s
    <2>1. Advanced(s, 1) \in Machines
      BY <1>1, <1>6, MachineAdvanced
    <2>2. Rest(Advanced(s, 1)) = Rest(s)
      BY <1>6, RestKept
    <2> QED
      BY <1>2, <2>1, <2>2
  <1>8. ~s.raised
    <2> HIDE DEF s
    <2> QED
      BY <1>7 DEF Rest
  <1>9. s = WithMem(y, Written(y, lower, WORD, Top(x, 1))) /\ ~y.raised
    BY <1>1, <1>3, <1>4, <1>5, <1>8, StoreSaves
  <1>10. Rest(s) = <<Written(y, lower, WORD, Top(x, 1)), y.raised, y.v2_sp, y.v2_sf>>
    BY <1>5, <1>9, RestKept
  <1>11. Written(y, lower, WORD, Top(x, 1)) = Written(x, lower, WORD, Top(x, 1))
    BY <1>5 DEF Written, Rest
  <1> HIDE DEF s
  <1>12. SPush(x).mem = Written(x, a - WORD, WORD, Top(x, 1)) /\ SPush(x).v2_sf = x.v2_sf
    BY <1>3, <1>5, <1>7, <1>10, <1>11 DEF Rest
  <1>13. ~x.raised
    BY <1>5, <1>9 DEF Rest
  <1>14. Saved(SPush(x), a, WORD, v)
    BY <1>1, <1>12, SavedAbove DEF InFrame
  <1> QED
    BY <1>7, <1>12, <1>13, <1>14 DEF InFrame

LEMMA NestedFrame ==
    ASSUME NEW x, NEW v \in Words, InFrame(x, x.v2_sp, v), x.v2_sp \in Writable,
           NEW no \in BOOLEAN, ~SfEnd(SfBegin(x, no), no).raised
    PROVE  InFrame(SfEnd(SfBegin(x, no), no), x.v2_sp, v) /\ ~x.raised
  <1> DEFINE a == x.v2_sp
             y == SfBegin(x, no)
             z == SfEnd(y, no)
             lower == Lower(x)
  <1>1. x \in Machines /\ a \in Words /\ a \in Int /\ x.v2_sf = a
    BY MachineFields, WordsAreInts DEF InFrame
  <1>2. lower \in Words /\ lower = a - WORD /\ Wrap(lower + WORD) = a
    BY <1>1, LowerType, LowerBelow
  <1>3. y \in Machines
    BY <1>1, SecondStackType
  <1>4. ~y.raised
    <2> HIDE DEF y
    <2> QED
      BY <1>3, RaisedStays DEF y
  <1>5. InFrame(y, lower, a) /\ y.mem = Written(x, lower, WORD, a) /\ ~x.raised
    BY <1>1, <1>4, FrameOpened
  <1> HIDE DEF y, lower
  <1>6. z \in Machines /\ z.v2_sf = a /\ z.mem = y.mem
    BY <1>1, <1>2, <1>5, FrameClosed DEF y
  <1>7. Saved(z, a, WORD, v)
    BY <1>1, <1>2, <1>5, <1>6, SavedAbove DEF InFrame
  <1> QED
    BY <1>5, <1>6, <1>7 DEF InFrame, y

\* What a function does between the opening and the closing of its frame.
Used(inner, opened, no) ==
    CASE inner = "nothing" -> opened
      [] inner = "spush"   -> SPush(opened)
      [] inner = "frame"   -> SfEnd(SfBegin(opened, no), no)

LEMMA FrameRestores ==
    ASSUME m \in Machines, NEW no \in BOOLEAN, NEW inner \in {"nothing", "spush", "frame"},
           ~SfEnd(Used(inner, SfBegin(m, no), no), no).raised
    PROVE  /\ SfEnd(Used(inner, SfBegin(m, no), no), no).v2_sp = m.v2_sp
           /\ SfEnd(Used(inner, SfBegin(m, no), no), no).v2_sf = m.v2_sf
  <1> DEFINE opened == SfBegin(m, no)
             used == Used(inner, opened, no)
             a == Lower(m)
             v == m.v2_sf
  <1>1. v \in Words /\ a \in Words /\ Wrap(a + WORD) = m.v2_sp /\ opened \in Machines
    BY LowerType, MachineFields, SecondStackType
  <1>2. ~opened.raised => /\ InFrame(opened, opened.v2_sp, v) /\ opened.v2_sp = a
                          /\ opened.v2_sp \in Writable
    <2>1. ~opened.raised => InFrame(opened, a, v) /\ opened.v2_sp = a /\ a \in Writable
      BY FrameOpened
    <2> HIDE DEF opened, a
    <2> QED
      BY <2>1
  <1> HIDE DEF opened, v, a
  <1>3. used \in Machines
    BY <1>1, SecondStackType DEF Used
  <1>4. ~used.raised
    <2> HIDE DEF used
    <2> QED
      BY <1>3, RaisedStays DEF used, opened
  <1>5. InFrame(used, a, v)
    <2>1. CASE inner = "nothing"
      BY <1>2, <1>4, <2>1 DEF Used
    <2>2. CASE inner = "spush"
      <3>1. used = SPush(opened)
        BY <2>2 DEF Used
      <3>2. ~opened.raised
        BY <1>1, <1>4, <3>1, SPushRaised
      <3> QED
        BY <1>1, <1>2, <1>4, <3>1, <3>2, PushedInFrame
    <2>3. CASE inner = "frame"
      <3>1. used = SfEnd(SfBegin(opened, no), no)
        BY <2>3 DEF Used
      <3>2. SfBegin(opened, no) \in Machines
        BY <1>1, SecondStackType
      <3>3. ~SfBegin(opened, no).raised
        BY <1>4, <3>1, <3>2, RaisedStays
      <3>4. ~opened.raised
        BY <1>1, <3>3, FrameOpened
      <3> QED
        BY <1>1, <1>2, <1>4, <3>1, <3>4, NestedFrame
    <2> QED
      BY <2>1, <2>2, <2>3
  <1> HIDE DEF used
  <1>6. ~SfEnd(used, no).raised
    BY DEF used, opened
  <1>7. SfEnd(used, no).v2_sp = Wrap(a + WORD) /\ SfEnd(used, no).v2_sf = v
    BY <1>1, <1>5, <1>6, FrameClosed
  <1> QED
    BY <1>1, <1>7 DEF used, opened, a, v

\* Frames nest: what sfbegin saved is there for its sfend, and the second stack
\* comes out as it was, from every reachable machine, if nothing faults
\* (op_sfbegin, op_spush and op_sfend in vm/ops.c).
THEOREM FramesAreNested == Spec => []FramesNest
  <1>1. TypeOK => FramesNest
    <2> SUFFICES ASSUME TypeOK PROVE FramesNest
      OBVIOUS
    <2>1. \A no \in BOOLEAN : \A inner \in {"nothing", "spush", "frame"} :
             LET closed == SfEnd(Used(inner, SfBegin(m, no), no), no)
             IN  ~closed.raised => closed.v2_sp = m.v2_sp /\ closed.v2_sf = m.v2_sf
      BY FrameRestores DEF TypeOK
    <2>2. FALSE \in BOOLEAN
      OBVIOUS
    <2> QED
      BY <2>1, <2>2 DEF FramesNest, Used
  <1> QED
    BY <1>1, TypesHold, PTL

-----------------------------------------------------------------------------
(* What takes the emulator down.                                            *)

\* The emulator is still there.
Runs(y) == Shape(y) /\ y.host = "runs"

LEMMA RunsKept ==
    ASSUME NEW y, Runs(y), NEW n, NEW v
    PROVE  /\ Runs(Popped(y, n))
           /\ Runs(Pushed(y, v))
           /\ Runs(Advanced(y, n))
           /\ Runs(Raised(y, v))
           /\ Runs(Segfault(y, v))
           /\ Runs(WithStack(y, v))
           /\ Runs(WithMem(y, v))
           /\ Runs(WithSp(y, v))
           /\ Runs(WithSf(y, v))
           /\ Runs(WithPc(y, v))
  BY DEF Runs, Shape, Fields, Popped, Pushed, Advanced, Raised, Segfault,
         WithStack, WithMem, WithSp, WithSf, WithPc

LEMMA RunsStore ==
    ASSUME NEW y, Runs(y), NEW a, NEW n, NEW v
    PROVE  Runs(Store(y, a, n, v))
  <1> DEFINE k == Reach(a, n, Writable)
             z == WithMem(y, Written(y, a, k, v))
  <1>1. Store(y, a, n, v) = IF k = n THEN z ELSE Segfault(z, a + k)
    BY DEF Store, WithMem
  <1>2. Runs(z)
    BY RunsKept
  <1> HIDE DEF k, z
  <1> QED
    BY <1>1, <1>2, RunsKept

\* The two places where a read is not checked.
Unchecked(a, n) == a < 0 \/ PAST_REGS \in a..a + n - 1

LEMMA RunsLoad ==
    ASSUME NEW y, Runs(y), NEW a \in Int, NEW n \in Nat, NEW wild, ~Unchecked(a, n)
    PROVE  Runs(Load(y, a, n, "READ", wild).machine)
  <1> DEFINE k == Reach(a, n, Readable)
  <1>1. Load(y, a, n, "READ", wild).machine =
          IF k = n THEN y ELSE ReadFails(y, a + k, "READ", wild)
    BY DEF Load
  <1>2. k \in 0..n /\ Reaches(a, n, Readable, k)
    BY ReachStops
  <1> HIDE DEF k
  <1>3. CASE k # n
    <2>1. a + k \in a..a + n - 1 /\ ~(a + k < 0)
      BY <1>2, <1>3 DEF Unchecked
    <2>2. a + k # PAST_REGS
      BY <2>1 DEF Unchecked
    <2>3. ReadFails(y, a + k, "READ", wild) = Segfault(y, Blamed(a + k, "READ"))
      BY <2>1, <2>2 DEF ReadFails
    <2> QED
      BY <1>1, <1>3, <2>3, RunsKept
  <1> QED
    BY <1>1, <1>3

LEMMA RunsFetch ==
    ASSUME NEW y, Runs(y), NEW a, NEW n
    PROVE  Runs(Load(y, a, n, "EXEC", FALSE).machine)
  <1>1. \A b : ReadFails(y, b, "EXEC", FALSE) = Segfault(y, Blamed(b, "EXEC"))
    BY DEF ReadFails
  <1>2. \A b : Runs(Segfault(y, Blamed(b, "EXEC")))
    BY RunsKept
  <1> QED
    BY <1>1, <1>2 DEF Load

LEMMA RunsTaking ==
    ASSUME NEW x, Runs(x), NEW n, NEW z, ~(Height(x) < n) => Runs(z)
    PROVE  Runs(Taking(x, n, z))
  <1>1. Underflow(x) = Advanced(WithStack(Raised(x, "STACK_UNDERFLOW"), <<>>), 1)
    BY DEF Underflow, WithStack
  <1>2. Runs(Underflow(x))
    BY <1>1, RunsKept
  <1> QED
    BY <1>2 DEF Taking

LEMMA ArithmeticRuns ==
    ASSUME NEW x, Runs(x), NEW op
    PROVE  /\ Runs(Binary(x, op))
           /\ Runs(Division(x, op)) \/ (Top(x, 1) = -1 /\ Top(x, 2) = -HALF)
           /\ Runs(Sne(x))
           /\ Runs(IsZero(x))
  <1>1. Runs(Binary(x, op)) /\ Runs(Sne(x)) /\ Runs(IsZero(x))
    BY RunsKept, RunsTaking DEF Binary, Sne, IsZero
  <1>2. ASSUME ~(Top(x, 1) = -1 /\ Top(x, 2) = -HALF)
        PROVE  Runs(Division(x, op))
    <2> DEFINE result == IF op = "div" THEN Quotient(Top(x, 2), Top(x, 1))
                         ELSE Remainder(Top(x, 2), Top(x, 1))
               computed == Taking(x, 2, Advanced(Pushed(Popped(x, 2), result), 1))
               zero == Advanced(Raised(Popped(x, 1), "DIVIDE_BY_ZERO"), 1)
    <2>1. Division(x, op) = Taking(x, 1, IF Top(x, 1) = 0 THEN zero ELSE computed)
      BY <1>2 DEF Division
    <2>2. Runs(computed) /\ Runs(zero)
      BY RunsKept, RunsTaking
    <2> HIDE DEF computed, zero
    <2> QED
      BY <2>1, <2>2, RunsTaking
  <1> QED
    BY <1>1, <1>2

LEMMA StackRuns ==
    ASSUME NEW x, Runs(x)
    PROVE  /\ Runs(Drop(x)) /\ Runs(Dup(x)) /\ Runs(Swap(x))
           /\ Runs(Pull(x)) /\ Runs(FSwap(x))
  <1>1. Runs(Drop(x)) /\ Runs(Dup(x)) /\ Runs(Swap(x)) /\ Runs(Pull(x))
    BY RunsKept, RunsTaking DEF Drop, Dup, Swap, Pull
  <1>2. Runs(FSwap(x))
    <2> DEFINE rest == Popped(x, 2)
               slot == Height(rest) - Top(x, 1)
               swapped == WithStack(rest, [rest.stack EXCEPT ![slot] = Top(x, 2)])
    <2>1. Runs(rest) /\ Runs(swapped)
      BY RunsKept
    <2>2. [rest EXCEPT !.stack[slot] = Top(x, 2)] = swapped
      BY DEF WithStack
    <2>3. FSwap(x) = Taking(x, 2,
             IF BeyondStack(Top(x, 1), Height(rest))
             THEN Advanced(Raised(rest, "STACK_UNDERFLOW"), 1)
             ELSE Advanced(Pushed(swapped, rest.stack[slot]), 1))
      BY <2>2 DEF FSwap
    <2> HIDE DEF rest, slot, swapped
    <2> QED
      BY <2>1, <2>3, RunsKept, RunsTaking
  <1> QED
    BY <1>1, <1>2

LEMMA FlowRuns ==
    ASSUME NEW x, Runs(x), NEW v
    PROVE  /\ Runs(Jump(x)) /\ Runs(JumpIf(x)) /\ Runs(Call(x))
           /\ Runs(RelJump(x)) /\ Runs(RelJumpIf(x)) /\ Runs(RelCall(x))
           /\ Runs(Report(x, v)) /\ Runs(Push(x))
  <1>1. /\ Jump(x) = Taking(x, 1, WithPc(Popped(x, 1), Top(x, 1)))
        /\ JumpIf(x) = Taking(x, 2,
             IF Top(x, 2) = 0 THEN Advanced(Popped(x, 2), 1) ELSE WithPc(Popped(x, 2), Top(x, 1)))
        /\ Call(x) = Taking(x, 1, WithPc(Pushed(Popped(x, 1), Wrap(x.pc + 1)), Top(x, 1)))
    BY DEF Jump, JumpIf, Call, WithPc
  <1>2. Runs(Jump(x)) /\ Runs(JumpIf(x)) /\ Runs(Call(x))
    BY <1>1, RunsKept, RunsTaking
  <1>3. Runs(RelJump(x)) /\ Runs(RelJumpIf(x)) /\ Runs(RelCall(x)) /\ Runs(Report(x, v))
    BY RunsKept, RunsTaking DEF RelJump, RelJumpIf, RelCall, Report
  <1>4. Runs(Push(x))
    BY RunsKept, RunsFetch DEF Push
  <1> QED
    BY <1>2, <1>3, <1>4

LEMMA FetchRuns ==
    ASSUME NEW x, Runs(x), x.pc \in Int, ~(x.pc < 0), NEW wild
    PROVE  Runs(Fetch(x, wild))
  <1> DEFINE k == Reach(x.pc, 1, Executable)
  <1>1. Load(x, x.pc, 1, "EXEC", wild).machine =
          IF k = 1 THEN x ELSE ReadFails(x, x.pc + k, "EXEC", wild)
    BY DEF Load
  <1>2. k \in 0..1
    BY ReachStops
  <1> HIDE DEF k
  <1>3. ~(x.pc + k < 0)
    BY <1>2
  <1>4. ReadFails(x, x.pc + k, "EXEC", wild) = Segfault(x, Blamed(x.pc + k, "EXEC"))
    BY <1>3 DEF ReadFails
  <1> QED
    BY <1>1, <1>4, RunsKept DEF Fetch

LEMMA MemoryRuns ==
    ASSUME NEW x \in Machines, Runs(x), NEW n \in 1..WORD, NEW wild
    PROVE  /\ Runs(Get(x, n, wild)) \/ Unchecked(Source(x, "get"), WORD)
           /\ Runs(Put(x, n))
           /\ Runs(SfLoad(x, n, wild)) \/ Unchecked(Source(x, "sfload"), WORD)
           /\ Runs(SfStore(x, n))
  <1>0. /\ Height(x) \in Nat /\ n \in Nat /\ WORD \in Nat /\ n <= WORD
        /\ x.v2_sf \in Int
    BY MachineFields, WordsAreInts, Layout
  <1>1. ASSUME ~(Height(x) < 1) PROVE Top(x, 1) \in Int /\ Wrap(x.v2_sf + Top(x, 1)) \in Int
    <2>1. 1 \in 1..Height(x)
      BY <1>0, <1>1
    <2>2. Top(x, 1) \in Int
      BY <2>1, MachineTop, WordsAreInts
    <2>3. Wrap(x.v2_sf + Top(x, 1)) \in Words
      BY <1>0, <2>2, WrapType
    <2> QED
      BY <2>2, <2>3, WordsAreInts
  <1>2. \A a \in Int : ~Unchecked(a, WORD) => ~Unchecked(a, n)
    <2>1. \A a \in Int : a..a + n - 1 \subseteq a..a + WORD - 1
      BY <1>0
    <2> QED
      BY <2>1 DEF Unchecked
  <1>3. Runs(Put(x, n)) /\ Runs(SfStore(x, n))
    BY RunsKept, RunsStore, RunsTaking DEF Put, SfStore
  <1>4. ASSUME ~Unchecked(Source(x, "get"), WORD) PROVE Runs(Get(x, n, wild))
    <2> DEFINE got == Load(Popped(x, 1), Top(x, 1), n, "READ", wild)
    <2>1. ~(Height(x) < 1) => Runs(got.machine)
      BY <1>0, <1>1, <1>2, <1>4, RunsKept, RunsLoad DEF Source
    <2>2. Get(x, n, wild) = Taking(x, 1,
             Advanced(IF got.ok THEN Pushed(got.machine, got.value) ELSE got.machine, 1))
      BY DEF Get
    <2> HIDE DEF got
    <2> QED
      BY <2>1, <2>2, RunsKept, RunsTaking
  <1>5. ASSUME ~Unchecked(Source(x, "sfload"), WORD) PROVE Runs(SfLoad(x, n, wild))
    <2> DEFINE a == Wrap(x.v2_sf + Top(x, 1))
               got == Load(Popped(x, 1), a, n, "READ", wild)
    <2>1. ~(Height(x) < 1) => a \in Int /\ ~Unchecked(a, n)
      BY <1>1, <1>2, <1>5 DEF Source
    <2>2. SfLoad(x, n, wild) = Taking(x, 1, Advanced(Pushed(got.machine, got.value), 1))
      BY DEF SfLoad
    <2> HIDE DEF a
    <2>3. ~(Height(x) < 1) => Runs(got.machine)
      BY <1>0, <2>1, RunsKept, RunsLoad
    <2> HIDE DEF got
    <2> QED
      BY <2>2, <2>3, RunsKept, RunsTaking
  <1> QED
    BY <1>3, <1>4, <1>5

LEMMA SecondStackRuns ==
    ASSUME NEW x \in Machines, Runs(x), NEW wild
    PROVE  /\ Runs(SetSf(x)) /\ Runs(SetSp(x)) /\ Runs(SAdd(x)) /\ Runs(SPush(x))
           /\ Runs(SPop(x, wild)) \/ Unchecked(Source(x, "spop"), WORD)
           /\ Runs(SfBegin(x, wild))
           /\ Runs(SfEnd(x, wild)) \/ Unchecked(Source(x, "sfend"), WORD)
  <1>0. x.v2_sf \in Int /\ x.v2_sp \in Int /\ WORD \in Nat
    BY MachineFields, WordsAreInts, Layout
  <1> DEFINE lower == Wrap(x.v2_sp - WORD)
  <1>1. Runs(SetSf(x)) /\ Runs(SetSp(x))
    <2>1. /\ SetSf(x) = Taking(x, 1, Advanced(WithSf(Popped(x, 1), Top(x, 1)), 1))
          /\ SetSp(x) = Taking(x, 1, Advanced(WithSp(Popped(x, 1), Top(x, 1)), 1))
      BY DEF SetSf, SetSp, WithSf, WithSp
    <2> QED
      BY <2>1, RunsKept, RunsTaking
  <1>2. Runs(SAdd(x))
    <2>1. SAdd(x) = Taking(x, 1, Advanced(WithSp(Popped(x, 1),
                        Wrap(Popped(x, 1).v2_sp + Top(x, 1))), 1))
      BY DEF SAdd, WithSp
    <2> QED
      BY <2>1, RunsKept, RunsTaking
  <1>3. Runs(SPush(x))
    <2>1. SPush(x) = Taking(x, 1,
            Advanced(Store(WithSp(Popped(x, 1), lower), lower, WORD, Top(x, 1)), 1))
      BY DEF SPush, WithSp
    <2> HIDE DEF lower
    <2> QED
      BY <2>1, RunsKept, RunsStore, RunsTaking
  <1>4. ASSUME ~Unchecked(Source(x, "spop"), WORD) PROVE Runs(SPop(x, wild))
    <2> DEFINE got == Load(x, x.v2_sp, WORD, "READ", wild)
    <2>1. SPop(x, wild) = Advanced(Pushed(WithSp(got.machine,
                              Wrap(got.machine.v2_sp + WORD)), got.value), 1)
      BY DEF SPop, WithSp
    <2>2. Runs(got.machine)
      BY <1>0, <1>4, RunsLoad DEF Source
    <2> HIDE DEF got
    <2> QED
      BY <2>1, <2>2, RunsKept
  <1>5. Runs(SfBegin(x, wild))
    <2> DEFINE z == WithSf(Store(WithSp(x, lower), lower, WORD, x.v2_sf), lower)
    <2>1. SfBegin(x, wild) = IF wild THEN z ELSE Advanced(z, 1)
      BY DEF SfBegin, WithSp, WithSf
    <2> HIDE DEF lower
    <2>2. Runs(z)
      BY RunsKept, RunsStore
    <2> HIDE DEF z
    <2> QED
      BY <2>1, <2>2, RunsKept
  <1>6. ASSUME ~Unchecked(Source(x, "sfend"), WORD) PROVE Runs(SfEnd(x, wild))
    <2> DEFINE got == Load(x, x.v2_sf, WORD, "READ", wild)
    <2>1. SfEnd(x, wild) = Advanced(WithSf(WithSp(got.machine, Wrap(x.v2_sf + WORD)),
                                           got.value), 1)
      BY DEF SfEnd, WithSp, WithSf
    <2>2. Runs(got.machine)
      BY <1>0, <1>6, RunsLoad DEF Source
    <2> HIDE DEF got
    <2> QED
      BY <2>1, <2>2, RunsKept
  <1> QED
    BY <1>1, <1>2, <1>3, <1>4, <1>5, <1>6

\* The instruction called name takes the emulator down on x.
KnownDeath(x, name) ==
    \/ name \in {"div", "mod"} /\ Top(x, 1) = -1 /\ Top(x, 2) = -HALF
    \/ /\ name \in {"get", "sfload", "spop", "sfend"}
       /\ Unchecked(Source(x, name), WORD)
    \/ name = "fetch" /\ x.pc < 0

LEMMA EveryDeathIsKnown ==
    ASSUME m \in Machines, Next, last = "none"
    PROVE  m'.host = "crashed" => KnownDeath(m, last')
  <1>1. ASSUME NEW name, NEW z, Execute(name, z), Runs(m) => Runs(z) \/ KnownDeath(m, name)
        PROVE  m'.host = "crashed" => KnownDeath(m, last')
    BY <1>1, MachineFields DEF Execute, Runs
  <1>2. CASE ExecArithmetic
    BY <1>1, <1>2, ArithmeticRuns DEF ExecArithmetic, KnownDeath
  <1>3. CASE ExecStack
    BY <1>1, <1>3, StackRuns DEF ExecStack
  <1>4. CASE ExecPush
    BY <1>1, <1>4, FlowRuns DEF ExecPush
  <1>5. CASE ExecFlow
    BY <1>1, <1>5, FlowRuns DEF ExecFlow
  <1>6. CASE ExecMemory
    <2>1. \A n \in Sizes : n \in 1..WORD
      BY SizesAssumption
    <2> QED
      BY <1>1, <1>6, <2>1, MemoryRuns DEF ExecMemory, KnownDeath
  <1>7. CASE ExecSecondStack
    BY <1>1, <1>7, FlowRuns, SecondStackRuns DEF ExecSecondStack, KnownDeath
  <1>8. CASE FetchFails
    <2>1. m.pc \in Int
      BY MachineFields, WordsAreInts
    <2> QED
      BY <1>1, <1>8, <2>1, FetchRuns DEF FetchFails, KnownDeath
  <1>9. CASE Finished
    BY <1>9 DEF Finished
  <1> QED
    BY <1>2, <1>3, <1>4, <1>5, <1>6, <1>7, <1>8, <1>9 DEF Next, ExecFetched

\* The modelled instructions and the fetch of the next one take the emulator
\* itself down in four ways only: the quotient that no word holds, a read below
\* the memory, a read of the byte behind the exception registers, and the fetch of
\* an opcode below the memory, wherever pc came from (ops.c:72, mem.c:60-71,
\* state.c:30, mainloop.c:101).
THEOREM DeathsAreKnown == Spec => EmulatorDiesKnown
  <1>1. TypeOK /\ [Next]_vars =>
          [(last = "none" /\ m'.host = "crashed") =>
              \/ last' \in {"div", "mod"} /\ Top(m, 1) = -1 /\ Top(m, 2) = -HALF
              \/ /\ last' \in {"get", "sfload", "spop", "sfend"}
                 /\ \/ Source(m, last') < 0
                    \/ PAST_REGS \in Source(m, last')..Source(m, last') + WORD - 1
              \/ last' = "fetch" /\ m.pc < 0 ]_vars
    BY EveryDeathIsKnown DEF TypeOK, KnownDeath, Unchecked
  <1> QED
    BY <1>1, TypesHold, PTL DEF Spec, EmulatorDiesKnown

=============================================================================
