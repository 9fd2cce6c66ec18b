------------------------------ MODULE DynArray ------------------------------
(***************************************************************************)
(* Dynamic arrays (common/array.c): a block of memory with a length, a      *)
(* capacity and the bytes of the items, one byte more than they need.  The  *)
(* stacks of the processor and the calculator, the symbol table and the     *)
(* queues of keys and interrupts are such arrays.                           *)
(***************************************************************************)
EXTENDS Integers, Sequences

CONSTANTS
    ITEM,           \* bytes of an item
    Byte,           \* values of a byte
    Junk,           \* what is in memory that nobody has written
    MaxLength       \* bound on the items

ASSUME DynArrayAssumption ==
    ITEM \in Nat \ {0} /\ 0 \in Byte /\ Junk \notin Byte /\ MaxLength \in Nat

VARIABLES
    length,
    availiable,     \* items that fit
    data,           \* bytes, from 0 to availiable * ITEM
    event,          \* the last call, with what it was given or gave
    host            \* "runs", "died" with a report, "crashed" without one

vars == <<length, availiable, data, event, host>>

Items == [0..ITEM - 1 -> Byte]

\* ia_new_empty_array$: calloc, with the byte for the zero.
Init ==
    /\ length = 0 /\ availiable = 0
    /\ data = [b \in {0} |-> 0]
    /\ event = <<"new">> /\ host = "runs"

End(how) == host' = how /\ UNCHANGED <<length, availiable, data, event>>

ItemAt(k) == [b \in 0..ITEM - 1 |-> data[k * ITEM + b]]

Grown(avail) == (avail * 3) \div 2 + 1

\* realloc keeps the old bytes.
Reallocated(avail) ==
    [b \in 0..avail * ITEM |-> IF b \in DOMAIN data THEN data[b] ELSE Junk]

\* The zero byte is written before the length grows (mutant of Stored).
StoredZeroFirst(bytes, n, item) ==
    [b \in DOMAIN bytes |->
        IF b = n * ITEM THEN 0
        ELSE IF b \in n * ITEM..n * ITEM + ITEM - 1 THEN item[b - n * ITEM]
        ELSE bytes[b]]

\* The item at place n and the zero byte behind it.
Stored(bytes, n, item) ==
    [b \in DOMAIN bytes |->
        IF b = (n + 1) * ITEM THEN 0
        ELSE IF b \in n * ITEM..n * ITEM + ITEM - 1 THEN item[b - n * ITEM]
        ELSE bytes[b]]

MustGrow == availiable < length + 1

\* array_must_have_space asks for one item more than there are, so its loop
\* has one round at most.
Push(item) ==
    /\ host = "runs" /\ length < MaxLength
    /\ availiable' = IF MustGrow THEN Grown(availiable) ELSE availiable
    /\ data' = Stored(IF MustGrow THEN Reallocated(Grown(availiable)) ELSE data, length, item)
    /\ length' = length + 1
    /\ event' = <<"push", item>> /\ UNCHANGED host

\* realloc returned NULL, and the capacity is written there before it is tested.
PushWithoutMemory ==
    host = "runs" /\ length < MaxLength /\ MustGrow /\ End("crashed")

Pop ==
    /\ host = "runs"
    /\ IF length = 0 THEN End("died")
       ELSE /\ length' = length - 1
            /\ data' = [data EXCEPT ![(length - 1) * ITEM] = 0]
            /\ event' = <<"pop">> /\ UNCHANGED <<availiable, host>>

\* ia_top$
Top ==
    /\ host = "runs"
    /\ IF length = 0 THEN End("died")
       ELSE /\ event' = <<"top", ItemAt(length - 1)>>
            /\ UNCHANGED <<length, availiable, data, host>>

\* _ia_resize writes no zero byte.
Resize(size) ==
    /\ host = "runs"
    /\ IF size > length THEN End("died")
       ELSE /\ length' = size
            /\ event' = <<"resize", size>> /\ UNCHANGED <<availiable, data, host>>

Next ==
    \/ \E item \in Items : Push(item)
    \/ PushWithoutMemory
    \/ Pop \/ Top
    \/ \E size \in 0..MaxLength : Resize(size)

Spec == Init /\ [][Next]_vars

-----------------------------------------------------------------------------
\* The block holds the items, and the zero byte behind them, at every length
\* the array ever has.
InBounds ==
    /\ length \in Nat /\ availiable \in Nat /\ length <= availiable
    /\ DOMAIN data = 0..availiable * ITEM
    /\ \A b \in 0..length * ITEM - 1 : data[b] \in Byte

L == INSTANCE ItemList WITH items <- [k \in 1..length |-> ItemAt(k - 1)]

\* Growing, shrinking and the zero byte never touch an item that is still in
\* the array: it is a list (array.h).
ImplementsItemList == L!Spec

=============================================================================
