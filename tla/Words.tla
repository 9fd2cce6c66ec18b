------------------------------- MODULE Words -------------------------------
(***************************************************************************)
(* int64_t arithmetic, which the build lets wrap around: of the processor   *)
(* (vm_stack_val_t) and of the assembler (ivm_sym_value_t).  A word has     *)
(* WORD bytes of 2^BYTE_BITS values, 8 and 256 in the code.                 *)
(***************************************************************************)
EXTENDS Integers

CONSTANTS
    WORD,           \* bytes of a word
    BYTE_BITS       \* bits of a byte

ASSUME WordAssumption == WORD \in Nat \ {0} /\ BYTE_BITS \in Nat \ {0}

BITS == WORD * BYTE_BITS

\* 2 to the power n
Power2[n \in 0..BITS] == IF n = 0 THEN 1 ELSE 2 * Power2[n - 1]

BYTE == Power2[BYTE_BITS]
HALF == Power2[BITS - 1]

Bytes == 0..BYTE - 1
Words == -HALF..HALF - 1

Wrap(x) == ((x + HALF) % (2 * HALF)) - HALF
Unsigned(v) == v % (2 * HALF)

\* t[0] + ... + t[k - 1]
SumTo(t, k) ==
    LET sum[i \in 0..k] == IF i = 0 THEN 0 ELSE sum[i - 1] + t[i - 1]
    IN  sum[k]

\* What the byte i counts for, and what n bytes count up to.
Weight(i) == Power2[BYTE_BITS * i]

\* index_num_const
ByteOf(v, i) == (Unsigned(v) \div Weight(i)) % BYTE

Bit(v, i) == (Unsigned(v) \div Power2[i]) % 2

\* The word whose bit is op[n] wherever n of the bits of v and w are set.
BitWise(op, v, w) ==
    Wrap(SumTo([i \in 0..BITS - 1 |-> op[Bit(v, i) + Bit(w, i)] * Power2[i]], BITS))

BitOr(v, w) == BitWise([n \in 0..2 |-> IF n > 0 THEN 1 ELSE 0], v, w)
BitAnd(v, w) == BitWise([n \in 0..2 |-> IF n = 2 THEN 1 ELSE 0], v, w)
BitXor(v, w) == BitWise([n \in 0..2 |-> n % 2], v, w)

\* The count of a shift is taken modulo the width.
ShiftLeft(v, d) == Wrap(v * Power2[d % BITS])
ShiftRight(v, d) == v \div Power2[d % BITS]

Abs(v) == IF v < 0 THEN -v ELSE v
Sign(v) == IF v < 0 THEN -1 ELSE 1

\* Division of C, towards zero.
Quotient(v, w) == Sign(v) * Sign(w) * (Abs(v) \div Abs(w))
Remainder(v, w) == Sign(v) * (Abs(v) % Abs(w))

=============================================================================
