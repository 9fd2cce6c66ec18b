--------------------------- MODULE DynArrayProofs ---------------------------
(***************************************************************************)
(* A dynamic array is a list of items, for items of every size and every    *)
(* number of them (DynArray, ItemList).                                     *)
(***************************************************************************)
EXTENDS DynArray, SequenceTheorems, TLAPS

Block == data \in [0..availiable * ITEM -> Byte \cup {Junk}]

\* What is in the block: a junk byte is never part of an item.
Good ==
    /\ length \in Nat /\ availiable \in Nat /\ length <= availiable
    /\ Block
    /\ \A b \in 0..length * ITEM - 1 : data[b] \in Byte

-----------------------------------------------------------------------------
(* Arithmetic of places in the block.                                       *)

\* Whole items compare as their numbers do.
LEMMA ItemsOrdered ==
    ASSUME NEW m \in Nat, NEW n \in Nat, m < n
    PROVE  m * ITEM + ITEM <= n * ITEM
<1>1. ITEM \in Nat \ {0}
  BY DynArrayAssumption
<1>2. PICK d \in Nat : n = m + 1 + d
  <2>1. n - m - 1 \in Nat /\ n = m + 1 + (n - m - 1)
    OBVIOUS
  <2>2. QED
    BY <2>1
<1>3. n * ITEM = m * ITEM + ITEM + d * ITEM
  BY <1>1, <1>2
<1>4. d * ITEM >= 0
  BY <1>1, <1>2
<1>5. QED
  BY <1>1, <1>3, <1>4

\* A byte of item k of n is within the n items.
LEMMA ByteWithin ==
    ASSUME NEW k \in Nat, NEW n \in Nat, k < n, NEW b \in 0..ITEM - 1
    PROVE  k * ITEM + b \in 0..n * ITEM - 1
<1>1. ITEM \in Nat \ {0}
  BY DynArrayAssumption
<1>2. k * ITEM \in Nat /\ n * ITEM \in Nat
  BY <1>1
<1>3. k * ITEM + ITEM <= n * ITEM
  BY ItemsOrdered
<1>4. QED
  BY <1>1, <1>2, <1>3

\* One round of array_must_have_space makes room for one item more.
LEMMA GrownIsEnough ==
    ASSUME NEW avail \in Nat
    PROVE  Grown(avail) \in Nat /\ Grown(avail) >= avail + 1
BY DEF Grown

-----------------------------------------------------------------------------
(* The block.                                                               *)

LEMMA InitGood == Init => Good
<1>1. ITEM \in Nat \ {0} /\ 0 \in Byte
  BY DynArrayAssumption
<1>2. 0 * ITEM = 0
  BY <1>1
<1>3. QED
  BY <1>1, <1>2 DEF Init, Good, Block

\* The block that a push writes to: it has room, and the old items are in it.
LEMMA Room ==
    ASSUME Good
    PROVE  LET avail == IF MustGrow THEN Grown(availiable) ELSE availiable
               bytes == IF MustGrow THEN Reallocated(Grown(availiable)) ELSE data
           IN  /\ avail \in Nat /\ length + 1 <= avail
               /\ bytes \in [0..avail * ITEM -> Byte \cup {Junk}]
               /\ \A b \in 0..length * ITEM - 1 : bytes[b] = data[b]
<1>1. /\ length \in Nat /\ availiable \in Nat /\ length <= availiable
      /\ ITEM \in Nat \ {0} /\ Block
  BY DynArrayAssumption DEF Good
<1>2. CASE ~MustGrow
  BY <1>1, <1>2 DEF MustGrow, Block
<1>3. CASE MustGrow
  <2> DEFINE avail == Grown(availiable)
             bytes == Reallocated(avail)
  <2>1. avail \in Nat /\ avail >= availiable + 1
    BY <1>1, GrownIsEnough
  <2>2. length + 1 <= avail
    BY <1>1, <2>1
  <2>3. bytes = [b \in 0..avail * ITEM |-> IF b \in 0..availiable * ITEM THEN data[b] ELSE Junk]
    BY <1>1 DEF Reallocated, Block
  <2> HIDE DEF avail, bytes
  <2>4. bytes \in [0..avail * ITEM -> Byte \cup {Junk}]
    BY <1>1, <2>3 DEF Block
  <2>5. length * ITEM <= availiable * ITEM /\ length * ITEM <= avail * ITEM
    <3>1. length * ITEM \in Nat
      BY <1>1
    <3>2. length = availiable \/ length * ITEM + ITEM <= availiable * ITEM
      BY <1>1, ItemsOrdered
    <3>3. length * ITEM + ITEM <= avail * ITEM
      BY <1>1, <2>1, ItemsOrdered
    <3>4. availiable * ITEM \in Nat /\ avail * ITEM \in Nat
      BY <1>1, <2>1
    <3>5. QED
      BY <1>1, <3>1, <3>2, <3>3, <3>4
  <2>6. length * ITEM \in Nat /\ availiable * ITEM \in Nat /\ avail * ITEM \in Nat
    BY <1>1, <2>1
  <2>7. \A b \in 0..length * ITEM - 1 : bytes[b] = data[b]
    BY <2>3, <2>5, <2>6
  <2>8. QED
    BY <1>3, <2>1, <2>2, <2>4, <2>7 DEF avail, bytes
<1>4. QED
  BY <1>2, <1>3

\* A push writes one item and the zero byte, within the block.
LEMMA StoredItem ==
    ASSUME NEW avail \in Nat, NEW n \in Nat, n + 1 <= avail,
           NEW bytes \in [0..avail * ITEM -> Byte \cup {Junk}],
           NEW item \in Items
    PROVE  /\ Stored(bytes, n, item) \in [0..avail * ITEM -> Byte \cup {Junk}]
           /\ \A b \in 0..n * ITEM - 1 : Stored(bytes, n, item)[b] = bytes[b]
           /\ \A b \in 0..ITEM - 1 : Stored(bytes, n, item)[n * ITEM + b] = item[b]
<1>1. ITEM \in Nat \ {0} /\ 0 \in Byte
  BY DynArrayAssumption
<1>2. n * ITEM \in Nat /\ avail * ITEM \in Nat /\ (n + 1) * ITEM = n * ITEM + ITEM
  BY <1>1
<1>3. n * ITEM + ITEM <= avail * ITEM
  BY ItemsOrdered
<1> DEFINE from == n * ITEM
           to == avail * ITEM
<1>4. Stored(bytes, n, item) =
        [b \in 0..to |-> IF b = from + ITEM THEN 0
                         ELSE IF b \in from..from + ITEM - 1 THEN item[b - from]
                         ELSE bytes[b]]
  BY <1>2 DEF Stored
<1>5. from \in Nat /\ to \in Nat /\ from + ITEM <= to
  BY <1>2, <1>3
<1>6. bytes \in [0..to -> Byte \cup {Junk}] /\ item \in [0..ITEM - 1 -> Byte]
  BY DEF Items
<1> HIDE DEF from, to
<1>7. \A b \in from..from + ITEM - 1 : item[b - from] \in Byte
  BY <1>1, <1>5, <1>6
<1>8. Stored(bytes, n, item) \in [0..to -> Byte \cup {Junk}]
  BY <1>1, <1>4, <1>5, <1>6, <1>7
<1>9. \A b \in 0..from - 1 : Stored(bytes, n, item)[b] = bytes[b]
  BY <1>1, <1>4, <1>5
<1>10. \A b \in 0..ITEM - 1 : Stored(bytes, n, item)[from + b] = item[b]
  <2>1. TAKE b \in 0..ITEM - 1
  <2>2. from + b \in 0..to /\ from + b # from + ITEM /\ from + b \in from..from + ITEM - 1
    BY <1>1, <1>5
  <2>3. (from + b) - from = b
    BY <1>5
  <2>4. QED
    BY <1>4, <2>2, <2>3
<1>11. QED
  BY <1>8, <1>9, <1>10 DEF from, to

-----------------------------------------------------------------------------
(* The invariant.                                                           *)

\* Everything a push does to the block, for a pushed item.
LEMMA PushEffect ==
    ASSUME Good, NEW item \in Items, Push(item)
    PROVE  /\ length' = length + 1 /\ availiable' \in Nat /\ length' <= availiable'
           /\ data' \in [0..availiable' * ITEM -> Byte \cup {Junk}]
           /\ \A b \in 0..length * ITEM - 1 : data'[b] = data[b]
           /\ \A b \in 0..ITEM - 1 : data'[length * ITEM + b] = item[b]
<1> DEFINE avail == IF MustGrow THEN Grown(availiable) ELSE availiable
           bytes == IF MustGrow THEN Reallocated(Grown(availiable)) ELSE data
<1>1. /\ avail \in Nat /\ length + 1 <= avail
      /\ bytes \in [0..avail * ITEM -> Byte \cup {Junk}]
      /\ \A b \in 0..length * ITEM - 1 : bytes[b] = data[b]
  BY Room
<1>2. length' = length + 1 /\ availiable' = avail /\ data' = Stored(bytes, length, item)
  BY DEF Push
<1>3. length \in Nat
  BY DEF Good
<1> HIDE DEF avail, bytes
<1>4. /\ Stored(bytes, length, item) \in [0..avail * ITEM -> Byte \cup {Junk}]
      /\ \A b \in 0..length * ITEM - 1 : Stored(bytes, length, item)[b] = bytes[b]
      /\ \A b \in 0..ITEM - 1 : Stored(bytes, length, item)[length * ITEM + b] = item[b]
  BY <1>1, <1>3, StoredItem
<1>5. QED
  BY <1>1, <1>2, <1>4

\* A shorter array has fewer bytes of items.
LEMMA Shorter ==
    ASSUME NEW m \in Nat, NEW n \in Nat, m <= n
    PROVE  m * ITEM \in Nat /\ n * ITEM \in Nat /\ m * ITEM <= n * ITEM
<1>1. ITEM \in Nat \ {0}
  BY DynArrayAssumption
<1>2. m * ITEM \in Nat /\ n * ITEM \in Nat
  BY <1>1
<1>3. m = n \/ m * ITEM + ITEM <= n * ITEM
  BY ItemsOrdered
<1>4. QED
  BY <1>1, <1>2, <1>3

\* Every operation keeps the block good.
LEMMA NextGood == Good /\ [Next]_vars => Good'
<1> SUFFICES ASSUME Good, [Next]_vars PROVE Good'
  OBVIOUS
<1>1. /\ length \in Nat /\ availiable \in Nat /\ length <= availiable
      /\ data \in [0..availiable * ITEM -> Byte \cup {Junk}]
      /\ \A b \in 0..length * ITEM - 1 : data[b] \in Byte
      /\ ITEM \in Nat \ {0} /\ 0 \in Byte
  BY DynArrayAssumption DEF Good, Block
<1>2. CASE UNCHANGED <<length, availiable, data>>
  BY <1>2 DEF Good, Block
<1>3. ASSUME NEW item \in Items, Push(item) PROVE Good'
  <2>1. /\ length' = length + 1 /\ availiable' \in Nat /\ length' <= availiable'
        /\ data' \in [0..availiable' * ITEM -> Byte \cup {Junk}]
        /\ \A b \in 0..length * ITEM - 1 : data'[b] = data[b]
        /\ \A b \in 0..ITEM - 1 : data'[length * ITEM + b] = item[b]
    BY <1>3, PushEffect
  <2>2. length' * ITEM = length * ITEM + ITEM /\ length * ITEM \in Nat
    BY <1>1, <2>1
  <2>3. \A b \in 0..length' * ITEM - 1 : data'[b] \in Byte
    <3>1. TAKE b \in 0..length' * ITEM - 1
    <3>2. CASE b < length * ITEM
      <4>1. b \in 0..length * ITEM - 1
        BY <2>2, <3>2
      <4>2. data'[b] = data[b] /\ data[b] \in Byte
        BY <1>1, <2>1, <4>1
      <4>3. QED
        BY <4>2
    <3>3. CASE b >= length * ITEM
      <4>1. PICK c \in 0..ITEM - 1 : b = length * ITEM + c
        <5>1. b - length * ITEM \in 0..ITEM - 1 /\ b = length * ITEM + (b - length * ITEM)
          BY <1>1, <2>2, <3>3
        <5>2. QED
          BY <5>1
      <4>2. item[c] \in Byte
        BY DEF Items
      <4>3. QED
        BY <2>1, <4>1, <4>2
    <3>4. QED
      BY <1>1, <2>2, <3>2, <3>3
  <2>4. length' \in Nat
    BY <1>1, <2>1
  <2>5. QED
    BY <2>1, <2>3, <2>4 DEF Good, Block
<1>4. ASSUME Pop, length # 0 PROVE Good'
  <2>1. /\ length' = length - 1 /\ availiable' = availiable
        /\ data' = [data EXCEPT ![(length - 1) * ITEM] = 0]
    BY <1>4 DEF Pop
  <2>2. length - 1 \in Nat
    BY <1>1, <1>4
  <2>3. /\ (length - 1) * ITEM \in Nat /\ (length - 1) * ITEM <= length * ITEM
        /\ length * ITEM \in Nat /\ availiable * ITEM \in Nat
        /\ length * ITEM <= availiable * ITEM
    BY <1>1, <2>2, Shorter
  <2> DEFINE end == (length - 1) * ITEM
  <2>4. data' \in [0..availiable * ITEM -> Byte \cup {Junk}]
    BY <1>1, <2>1, <2>3
  <2>5. \A b \in 0..end - 1 : data'[b] \in Byte
    BY <1>1, <2>1, <2>3
  <2>6. QED
    BY <1>1, <2>1, <2>2, <2>4, <2>5 DEF Good, Block
<1>5. ASSUME NEW size \in 0..MaxLength, Resize(size), size <= length PROVE Good'
  <2>1. length' = size /\ availiable' = availiable /\ data' = data
    BY <1>1, <1>5, DynArrayAssumption DEF Resize
  <2>2. size \in Nat /\ size * ITEM \in Nat /\ length * ITEM \in Nat /\ size * ITEM <= length * ITEM
    BY <1>1, <1>5, Shorter, DynArrayAssumption
  <2>3. \A b \in 0..size * ITEM - 1 : data[b] \in Byte
    BY <1>1, <2>2
  <2>4. QED
    BY <1>1, <1>5, <2>1, <2>2, <2>3 DEF Good, Block
<1>6. ASSUME NEW size \in 0..MaxLength, Resize(size), size > length
      PROVE  UNCHANGED <<length, availiable, data>>
  BY <1>6 DEF Resize, End
<1>7. Pop /\ length = 0 => UNCHANGED <<length, availiable, data>>
  BY DEF Pop, End
<1>8. Top \/ PushWithoutMemory => UNCHANGED <<length, availiable, data>>
  BY DEF Top, PushWithoutMemory, End
<1>9. UNCHANGED vars => UNCHANGED <<length, availiable, data>>
  BY DEF vars
<1>10. \A size \in 0..MaxLength : size \in Nat
  BY DynArrayAssumption
<1>11. QED
  BY <1>1, <1>2, <1>3, <1>4, <1>5, <1>6, <1>7, <1>8, <1>9, <1>10 DEF Next

\* The block always has room for its items and the zero byte behind them, and
\* no byte of an item is junk, for items of every size and arrays of every
\* length (array_must_have_space).
THEOREM BlockHoldsItems == Spec => []InBounds
<1>1. Good => InBounds
  BY DEF Good, Block, InBounds
<1>2. QED
  BY InitGood, NextGood, <1>1, PTL DEF Spec

-----------------------------------------------------------------------------
(* The refinement.                                                          *)

\* The items in the block, which ItemList is given.
Bar == [k \in 1..length |-> ItemAt(k - 1)]

\* They are items, and as many as the length says.
LEMMA BarIsList ==
    ASSUME Good
    PROVE  /\ Bar \in Seq(Items) /\ Len(Bar) = length /\ length \in Nat
           /\ \A k \in 1..length : Bar[k] = ItemAt(k - 1)
<1>1. /\ length \in Nat /\ ITEM \in Nat \ {0}
      /\ \A b \in 0..length * ITEM - 1 : data[b] \in Byte
  BY DynArrayAssumption DEF Good
<1>2. ASSUME NEW k \in 1..length PROVE ItemAt(k - 1) \in Items
  <2>1. k - 1 \in Nat /\ k - 1 < length
    BY <1>1
  <2>2. \A b \in 0..ITEM - 1 : (k - 1) * ITEM + b \in 0..length * ITEM - 1
    BY <1>1, <2>1, ByteWithin
  <2>3. \A b \in 0..ITEM - 1 : data[(k - 1) * ITEM + b] \in Byte
    BY <1>1, <2>2
  <2>4. QED
    BY <2>3 DEF ItemAt, Items
<1>3. QED
  BY <1>1, <1>2 DEF Bar

\* The beginning of a list.
LEMMA ListPrefix ==
    ASSUME NEW T, NEW s \in Seq(T), NEW m \in 0..Len(s)
    PROVE  SubSeq(s, 1, m) = [k \in 1..m |-> s[k]]
OBVIOUS

\* A list with one element more.
LEMMA ListAppend ==
    ASSUME NEW T, NEW s \in Seq(T), NEW x \in T, NEW n \in Nat, n = Len(s)
    PROVE  Append(s, x) = [k \in 1..n + 1 |-> IF k = n + 1 THEN x ELSE s[k]]
<1>1. /\ Append(s, x) \in Seq(T) /\ Len(Append(s, x)) = n + 1
      /\ \A k \in 1..n : Append(s, x)[k] = s[k]
      /\ Append(s, x)[n + 1] = x
  BY AppendProperties
<1>2. Append(s, x) = [k \in 1..n + 1 |-> Append(s, x)[k]]
  <2>1. Append(s, x) \in [1..n + 1 -> T]
    BY <1>1, LenProperties
  <2>2. QED
    BY <2>1
<1>3. \A k \in 1..n + 1 : Append(s, x)[k] = IF k = n + 1 THEN x ELSE s[k]
  BY <1>1
<1>4. [k \in 1..n + 1 |-> Append(s, x)[k]] = [k \in 1..n + 1 |-> IF k = n + 1 THEN x ELSE s[k]]
  BY <1>3, Zenon
<1>5. QED
  BY <1>2, <1>4, Zenon

\* A shorter length, and the bytes before it untouched: the beginning of the list.
LEMMA BarShorter ==
    ASSUME Good, Good', length' \in 0..length,
           \A b \in 0..length' * ITEM - 1 : data'[b] = data[b]
    PROVE  Bar' = SubSeq(Bar, 1, length')
<1>1. /\ Bar \in Seq(Items) /\ Len(Bar) = length /\ length \in Nat
      /\ \A k \in 1..length : Bar[k] = ItemAt(k - 1)
  BY BarIsList
<1>2. SubSeq(Bar, 1, length') = [k \in 1..length' |-> Bar[k]]
  BY <1>1, ListPrefix
<1>3. ASSUME NEW k \in 1..length' PROVE ItemAt(k - 1)' = ItemAt(k - 1)
  <2>1. k - 1 \in Nat /\ length' \in Nat /\ k - 1 < length'
    BY <1>1
  <2>2. ASSUME NEW b \in 0..ITEM - 1
        PROVE  data'[(k - 1) * ITEM + b] = data[(k - 1) * ITEM + b]
    <3>1. (k - 1) * ITEM + b \in 0..length' * ITEM - 1
      BY <2>1, ByteWithin
    <3>2. QED
      BY <3>1
  <2>3. QED
    BY <2>2 DEF ItemAt
<1>4. Bar' = [k \in 1..length' |-> ItemAt(k - 1)]
  BY <1>3 DEF Bar
<1>5. \A k \in 1..length' : Bar[k] = ItemAt(k - 1)
  BY <1>1
<1>6. QED
  BY <1>2, <1>4, <1>5

\* A push appends.
LEMMA BarLonger ==
    ASSUME Good, NEW item \in Items, Push(item)
    PROVE  Bar' = Append(Bar, item)
<1>1. /\ Bar \in Seq(Items) /\ Len(Bar) = length /\ length \in Nat
      /\ \A k \in 1..length : Bar[k] = ItemAt(k - 1)
  BY BarIsList
<1>2. /\ length' = length + 1
      /\ \A b \in 0..length * ITEM - 1 : data'[b] = data[b]
      /\ \A b \in 0..ITEM - 1 : data'[length * ITEM + b] = item[b]
  BY PushEffect
<1>3. ASSUME NEW k \in 1..length PROVE ItemAt(k - 1)' = ItemAt(k - 1)
  <2>1. k - 1 \in Nat /\ k - 1 < length
    BY <1>1
  <2>2. ASSUME NEW b \in 0..ITEM - 1
        PROVE  data'[(k - 1) * ITEM + b] = data[(k - 1) * ITEM + b]
    <3>1. (k - 1) * ITEM + b \in 0..length * ITEM - 1
      BY <1>1, <2>1, ByteWithin
    <3>2. QED
      BY <1>2, <3>1
  <2>3. QED
    BY <2>2 DEF ItemAt
<1>4. ASSUME NEW n \in Nat, n = length PROVE ItemAt(n)' = item
  <2>1. ItemAt(n)' = [b \in 0..ITEM - 1 |-> data'[n * ITEM + b]]
    BY DEF ItemAt
  <2>2. \A b \in 0..ITEM - 1 : data'[n * ITEM + b] = item[b]
    BY <1>2, <1>4
  <2>3. item = [b \in 0..ITEM - 1 |-> item[b]]
    BY DEF Items
  <2>4. QED
    BY <2>1, <2>2, <2>3
<1>5. PICK n \in Nat : n = length
  BY <1>1
<1>6. Bar' = [k \in 1..n + 1 |-> ItemAt(k - 1)']
  BY <1>2, <1>5 DEF Bar
<1>7. ASSUME NEW k \in 1..n + 1
      PROVE  ItemAt(k - 1)' = IF k = n + 1 THEN item ELSE Bar[k]
  <2>1. CASE k = n + 1
    <3>1. k - 1 = n
      BY <2>1, <1>5
    <3>2. ItemAt(n)' = item
      BY <1>4, <1>5
    <3>3. QED
      BY <2>1, <3>1, <3>2
  <2>2. CASE k # n + 1
    <3>1. k \in 1..length
      BY <2>2, <1>5
    <3>2. QED
      BY <1>1, <1>3, <2>2, <3>1
  <2>3. QED
    BY <2>1, <2>2
<1>8. Append(Bar, item) = [k \in 1..n + 1 |-> IF k = n + 1 THEN item ELSE Bar[k]]
  BY <1>1, <1>5, ListAppend
<1>9. [k \in 1..n + 1 |-> ItemAt(k - 1)'] = [k \in 1..n + 1 |-> IF k = n + 1 THEN item ELSE Bar[k]]
  BY <1>7, Zenon
<1>10. QED
  BY <1>6, <1>8, <1>9, Zenon

\* Every step of the block is a step of the list, or changes nothing of it.
LEMMA NextImplements == Good /\ Good' /\ [Next]_vars => [L!Next]_(L!vars)
<1> SUFFICES ASSUME Good, Good', [Next]_vars
             PROVE  L!Next \/ (Bar' = Bar /\ event' = event /\ host' = host)
  BY DEF Bar, L!vars
<1>1. /\ Bar \in Seq(Items) /\ Len(Bar) = length /\ length \in Nat /\ MaxLength \in Nat
      /\ \A k \in 1..length : Bar[k] = ItemAt(k - 1)
  BY BarIsList, DynArrayAssumption
<1>2. Bar = << >> <=> length = 0
  BY <1>1, EmptySeq
<1>3. UNCHANGED <<length, data>> => Bar' = Bar
  BY DEF Bar, ItemAt
<1>4. ASSUME NEW item \in Items, Push(item) PROVE L!Next
  <2>1. Bar' = Append(Bar, item)
    BY <1>4, BarLonger
  <2>2. host = "runs" /\ Len(Bar) < MaxLength /\ event' = <<"push", item>> /\ UNCHANGED host
    BY <1>1, <1>4 DEF Push
  <2>3. L!Push(item)
    BY <2>1, <2>2 DEF L!Push, Bar
  <2>4. QED
    BY <2>3 DEF L!Next
<1>5. ASSUME PushWithoutMemory PROVE L!Next \/ Items = {}
  <2>1. /\ host = "runs" /\ Len(Bar) < MaxLength /\ host' = "crashed"
        /\ UNCHANGED event /\ Bar' = Bar
    BY <1>1, <1>3, <1>5 DEF PushWithoutMemory, End
  <2>2. ASSUME NEW item \in Items PROVE L!Push(item)
    BY <2>1 DEF L!Push, L!End, Bar
  <2>3. QED
    BY <2>2 DEF L!Next
<1>6. Items # {}
  <2>1. [b \in 0..ITEM - 1 |-> 0] \in Items
    BY DynArrayAssumption DEF Items
  <2>2. QED
    BY <2>1
<1>7. ASSUME Pop, length = 0 PROVE L!Next
  <2>1. host = "runs" /\ host' = "died" /\ UNCHANGED event /\ Bar' = Bar /\ Bar = << >>
    BY <1>2, <1>3, <1>7 DEF Pop, End
  <2>2. L!Pop
    BY <2>1 DEF L!Pop, L!End, Bar
  <2>3. QED
    BY <2>2 DEF L!Next
<1>8. ASSUME Pop, length # 0 PROVE L!Next
  <2>1. /\ host = "runs" /\ length' = length - 1 /\ event' = <<"pop">> /\ UNCHANGED host
        /\ data' = [data EXCEPT ![(length - 1) * ITEM] = 0]
    BY <1>8 DEF Pop
  <2>2. length' \in 0..length
    BY <1>1, <1>8, <2>1
  <2>3. length' * ITEM \in Nat
    BY <1>1, <2>2, Shorter
  <2>4. \A b \in 0..length' * ITEM - 1 : data'[b] = data[b]
    BY <2>1, <2>3
  <2>5. Bar' = SubSeq(Bar, 1, Len(Bar) - 1)
    BY <1>1, <2>1, <2>2, <2>4, BarShorter
  <2>6. L!Pop
    BY <1>2, <1>8, <2>1, <2>5 DEF L!Pop, Bar
  <2>7. QED
    BY <2>6 DEF L!Next
<1>9. ASSUME Top PROVE L!Next
  <2>1. CASE length = 0
    <3>1. host = "runs" /\ host' = "died" /\ UNCHANGED event /\ Bar' = Bar /\ Bar = << >>
      BY <1>2, <1>3, <1>9, <2>1 DEF Top, End
    <3>2. L!Top
      BY <3>1 DEF L!Top, L!End, Bar
    <3>3. QED
      BY <3>2 DEF L!Next
  <2>2. CASE length # 0
    <3>1. /\ host = "runs" /\ event' = <<"top", ItemAt(length - 1)>> /\ UNCHANGED host
          /\ Bar' = Bar /\ Bar # << >>
      BY <1>2, <1>3, <1>9, <2>2 DEF Top
    <3>2. Bar[Len(Bar)] = ItemAt(length - 1)
      BY <1>1, <2>2
    <3>3. L!Top
      BY <3>1, <3>2 DEF L!Top, Bar
    <3>4. QED
      BY <3>3 DEF L!Next
  <2>3. QED
    BY <2>1, <2>2
<1>10. ASSUME NEW size \in 0..MaxLength, Resize(size) PROVE L!Next
  <2>1. CASE size > length
    <3>1. host = "runs" /\ host' = "died" /\ UNCHANGED event /\ Bar' = Bar /\ size > Len(Bar)
      BY <1>1, <1>3, <1>10, <2>1 DEF Resize, End
    <3>2. L!Resize(size)
      BY <3>1 DEF L!Resize, L!End, Bar
    <3>3. QED
      BY <3>2 DEF L!Next
  <2>2. CASE ~(size > length)
    <3>1. /\ host = "runs" /\ length' = size /\ event' = <<"resize", size>> /\ UNCHANGED host
          /\ data' = data
      BY <1>10, <2>2 DEF Resize
    <3>2. length' \in 0..length
      BY <1>1, <2>2, <3>1
    <3>3. Bar' = SubSeq(Bar, 1, size)
      BY <3>1, <3>2, BarShorter
    <3>4. ~(size > Len(Bar))
      BY <1>1, <2>2
    <3>5. L!Resize(size)
      BY <3>1, <3>3, <3>4 DEF L!Resize, Bar
    <3>6. QED
      BY <3>5 DEF L!Next
  <2>3. QED
    BY <2>1, <2>2
<1>11. UNCHANGED vars => Bar' = Bar /\ event' = event /\ host' = host
  BY <1>3 DEF vars
<1>12. QED
  BY <1>4, <1>5, <1>6, <1>7, <1>8, <1>9, <1>10, <1>11 DEF Next

\* A dynamic array is a list (array.h): what is pushed is read back, popped and
\* cut off as from a list, however the block grows, for items of every size.
THEOREM ArrayIsList == Spec => ImplementsItemList
<1>1. Init => L!Init
  <2>1. ASSUME Init PROVE Bar = << >>
    BY <2>1 DEF Init, Bar
  <2>2. QED
    BY <2>1 DEF Init, L!Init, Bar
<1>2. QED
  BY InitGood, NextGood, NextImplements, <1>1, PTL DEF Spec, L!Spec, ImplementsItemList

=============================================================================
