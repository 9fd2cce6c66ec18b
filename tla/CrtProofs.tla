----------------------------- MODULE CrtProofs -----------------------------
(***************************************************************************)
(* Proofs about Crt, for every number of segments, time and set of points.  *)
(* The witness of SegmentsAccounted is the list itself, the sequence q of   *)
(* the places it visits: a move of the ray appends to q, the recycling loop *)
(* takes its head, and the invariant says that q and the pool together are  *)
(* all places, once each.                                                   *)
(***************************************************************************)
EXTENDS Crt, FiniteSetTheorems, SequenceTheorems, WellFoundedInduction, TLAPS

Phases == {"machine", "press", "release", "fade", "gone"}

SegTypes ==
    /\ segs \in Seq(Segments)
    /\ seg_pool \in Seq(DOMAIN segs)
    /\ cursor \in Points
    /\ phase \in Phases

\* Along the list no segment is older than the one before it.
AgesDescend(q) ==
    \A m, n \in DOMAIN q : m < n => segs[q[n]].age <= segs[q[m]].age

\* q is the list of the segments.
Chain(q) ==
    /\ q \in Orders
    /\ IsList(q)
    /\ HoldsAllOnce(q)
    /\ EndsAtNewest(q)
    /\ AgesDescend(q)

SInv == SegTypes /\ \E q : Chain(q)

-----------------------------------------------------------------------------
(* Sequences as functions.                                                  *)

\* A function on 1..n is a sequence of length n.
LEMMA SeqOfFunction ==
    ASSUME NEW S, NEW n \in Nat, NEW f \in [1..n -> S]
    PROVE  f \in Seq(S) /\ Len(f) = n /\ DOMAIN f = 1..n
  OBVIOUS

\* A sequence is a function on 1..its length.
LEMMA FunctionOfSeq ==
    ASSUME NEW S, NEW s \in Seq(S)
    PROVE  /\ Len(s) \in Nat
           /\ DOMAIN s = 1..Len(s)
           /\ s \in [1..Len(s) -> S]
           /\ s = <<>> <=> Len(s) = 0
  OBVIOUS

\* A sequence without its last element.
LEMMA Shortened ==
    ASSUME NEW S, NEW s \in Seq(S), NEW n \in Nat, n = Len(s) - 1
    PROVE  /\ SubSeq(s, 1, n) \in Seq(S)
           /\ Len(SubSeq(s, 1, n)) = n
           /\ \A m \in 1..n : SubSeq(s, 1, n)[m] = s[m]
  <1>1. \A i \in 1..n : s[i] \in S
    BY FunctionOfSeq
  <1>2. /\ SubSeq(s, 1, n) \in Seq(S)
        /\ Len(SubSeq(s, 1, n)) = IF 1 <= n THEN n - 1 + 1 ELSE 0
        /\ \A i \in 1..n - 1 + 1 : SubSeq(s, 1, n)[i] = s[1 + i - 1]
    BY <1>1, SubSeqProperties
  <1>3. \A i \in 1..n : i \in 1..n - 1 + 1 /\ 1 + i - 1 = i
    OBVIOUS
  <1>4. \A i \in 1..n : SubSeq(s, 1, n)[i] = s[i]
    BY <1>2, <1>3
  <1> QED
    BY <1>2, <1>4

\* The members of Orders are the sequences of places no longer than the array.
LEMMA OrdersAreSeqs ==
    ASSUME segs \in Seq(Segments), NEW q
    PROVE  q \in Orders <=> q \in Seq(DOMAIN segs) /\ Len(q) <= Len(segs)
  <1>1. ASSUME q \in Orders
        PROVE  q \in Seq(DOMAIN segs) /\ Len(q) <= Len(segs)
    <2>1. PICK n \in 0..Len(segs) : q \in [1..n -> DOMAIN segs]
      BY <1>1 DEF Orders
    <2>2. n \in Nat /\ n <= Len(segs)
      OBVIOUS
    <2> QED
      BY <2>1, <2>2, SeqOfFunction
  <1>2. ASSUME q \in Seq(DOMAIN segs), Len(q) <= Len(segs)
        PROVE  q \in Orders
    <2>1. q \in [1..Len(q) -> DOMAIN segs] /\ Len(q) \in 0..Len(segs)
      BY <1>2
    <2> QED
      BY <2>1 DEF Orders
  <1> QED
    BY <1>1, <1>2

-----------------------------------------------------------------------------
(* One lemma per operation on the list.                                     *)

\* Facts about a list that every step uses.
LEMMA ChainFacts ==
    ASSUME SegTypes, NEW q, Chain(q)
    PROVE  /\ q \in Seq(DOMAIN segs)
           /\ Len(q) \in Nat
           /\ DOMAIN q = 1..Len(q)
           /\ Len(segs) \in Nat
           /\ DOMAIN segs = 1..Len(segs)
           /\ Len(seg_pool) \in Nat
           /\ DOMAIN seg_pool = 1..Len(seg_pool)
           /\ \A n \in 1..Len(q) : q[n] \in 1..Len(segs)
           /\ \A n \in 1..Len(seg_pool) : seg_pool[n] \in 1..Len(segs)
           /\ q = <<>> <=> Len(q) = 0
           /\ seg_pool = <<>> <=> Len(seg_pool) = 0
  <1>1. q \in Seq(DOMAIN segs)
    BY OrdersAreSeqs DEF Chain, SegTypes
  <1> QED
    BY <1>1, FunctionOfSeq DEF SegTypes

\* _new_segment returns a place that the list does not use.
LEMMA NewIndexIsFree ==
    ASSUME SegTypes, NEW q, Chain(q)
    PROVE  /\ NewIndex \in 1..Len(segs) + 1
           /\ \A n \in 1..Len(q) : q[n] # NewIndex
           /\ \A m \in 1..Len(PoolWithoutNew) :
                 PoolWithoutNew[m] = seg_pool[m] /\ seg_pool[m] # NewIndex
           /\ PoolWithoutNew \in Seq(DOMAIN segs)
           /\ Len(PoolWithoutNew) =
                 IF seg_pool = <<>> THEN 0 ELSE Len(seg_pool) - 1
  <1>1. CASE seg_pool = <<>>
    <2>1. NewIndex = Len(segs) + 1 /\ PoolWithoutNew = <<>>
      BY <1>1 DEF NewIndex, PoolWithoutNew
    <2> QED
      BY <1>1, <2>1, ChainFacts
  <1>2. CASE seg_pool # <<>>
    <2>1. /\ NewIndex = seg_pool[Len(seg_pool)]
          /\ PoolWithoutNew = SubSeq(seg_pool, 1, Len(seg_pool) - 1)
      BY <1>2 DEF NewIndex, PoolWithoutNew
    <2>2. Len(seg_pool) \in 1..Len(seg_pool)
      BY <1>2, ChainFacts
    <2>3. /\ PoolWithoutNew \in Seq(DOMAIN segs)
          /\ Len(PoolWithoutNew) = Len(seg_pool) - 1
          /\ \A m \in 1..Len(seg_pool) - 1 : PoolWithoutNew[m] = seg_pool[m]
      <3>1. Len(seg_pool) - 1 \in Nat
        BY <2>2, ChainFacts
      <3> QED
        BY <2>1, <3>1, Shortened DEF SegTypes
    <2>4. \A n \in 1..Len(q) : q[n] # NewIndex
      BY <2>1, <2>2, ChainFacts DEF Chain, HoldsAllOnce
    <2>5. \A m \in 1..Len(seg_pool) - 1 : seg_pool[m] # NewIndex
      BY <2>1, <2>2, ChainFacts DEF Chain, HoldsAllOnce
    <2>6. \A m \in 1..Len(PoolWithoutNew) :
             PoolWithoutNew[m] = seg_pool[m] /\ seg_pool[m] # NewIndex
      BY <2>3, <2>5
    <2>7. NewIndex \in 1..Len(segs)
      BY <2>1, <2>2, ChainFacts
    <2>8. NewIndex \in 1..Len(segs) + 1
      BY <2>7, ChainFacts
    <2>9. Len(PoolWithoutNew) = IF seg_pool = <<>> THEN 0 ELSE Len(seg_pool) - 1
      BY <1>2, <2>3
    <2> QED
      BY <2>3, <2>4, <2>6, <2>8, <2>9
  <1> QED
    BY <1>1, <1>2

\* The places of the array after a move.
LEMMA MovedPlaces ==
    ASSUME SegTypes, NEW q, Chain(q), NEW to \in Points, NEW stroke \in BOOLEAN,
           Move(to, stroke)
    PROVE  /\ segs' \in Seq(Segments)
           /\ Len(segs') = IF seg_pool = <<>> THEN Len(segs) + 1 ELSE Len(segs)
           /\ \A i \in 1..Len(segs') :
                 segs'[i].next = IF i = NewIndex THEN NONE
                                 ELSE IF newest_idx # NONE /\ i = newest_idx
                                      THEN NewIndex ELSE segs[i].next
           /\ \A i \in 1..Len(segs') :
                 /\ segs'[i].age = IF i = NewIndex THEN 0 ELSE segs[i].age
                 /\ segs'[i].start = IF i = NewIndex THEN cursor ELSE segs[i].start
                 /\ segs'[i].lit = IF i = NewIndex THEN stroke ELSE segs[i].lit
  <1> DEFINE N == IF seg_pool = <<>> THEN Len(segs) + 1 ELSE Len(segs)
             P == Placed(NewIndex, NewSegment(stroke))
  <1>1. DOMAIN segs \cup {NewIndex} = 1..N /\ N \in Nat
    <2>1. CASE seg_pool = <<>>
      BY <2>1, ChainFacts DEF NewIndex
    <2>2. CASE seg_pool # <<>>
      <3>1. NewIndex \in 1..Len(segs)
        BY <2>2, ChainFacts DEF NewIndex
      <3> QED
        BY <2>2, <3>1, ChainFacts
    <2> QED
      BY <2>1, <2>2
  <1>2. /\ NewSegment(stroke) \in Segments
        /\ NewSegment(stroke).next = NONE
        /\ NewSegment(stroke).age = 0
        /\ NewSegment(stroke).start = cursor
        /\ NewSegment(stroke).lit = stroke
    BY CrtAssumption DEF NewSegment, Segments, SegTypes, NONE
  <1>3. P \in [1..N -> Segments]
    BY <1>1, <1>2, ChainFacts DEF Placed, SegTypes
  <1>4. \A i \in 1..N : P[i] = IF i = NewIndex THEN NewSegment(stroke) ELSE segs[i]
    BY <1>1 DEF Placed
  <1>5. segs' = Continued(P, NewIndex)
    BY DEF Move
  <1>6. NewIndex \in Nat
    BY NewIndexIsFree, ChainFacts
  <1>7. newest_idx # NONE => newest_idx \in 1..N /\ newest_idx # NewIndex
    <2>1. ASSUME newest_idx # NONE PROVE newest_idx \in 1..N /\ newest_idx # NewIndex
      <3>1. q # <<>>
        BY <2>1 DEF Chain, EndsAtNewest, Move, Running
      <3>2. newest_idx = q[Len(q)] /\ Len(q) \in 1..Len(q)
        BY <3>1, ChainFacts DEF Chain, EndsAtNewest
      <3> QED
        BY <3>2, <1>1, NewIndexIsFree, ChainFacts
    <2> QED
      BY <2>1
  <1> HIDE DEF N, P
  <1>8. segs' \in [1..N -> Segments]
    <2>1. CASE newest_idx = NONE
      BY <2>1, <1>3, <1>5 DEF Continued
    <2>2. CASE newest_idx # NONE
      <3>1. segs' = [P EXCEPT ![newest_idx].next = NewIndex]
        BY <2>2, <1>5 DEF Continued
      <3>2. P[newest_idx] \in Segments
        BY <2>2, <1>3, <1>7
      <3>3. [P[newest_idx] EXCEPT !.next = NewIndex] \in Segments
        BY <3>2, <1>6 DEF Segments
      <3> QED
        BY <3>1, <3>3, <1>3, <1>7
    <2> QED
      BY <2>1, <2>2
  <1>9. \A i \in 1..N :
           segs'[i].next = IF i = NewIndex THEN NONE
                           ELSE IF newest_idx # NONE /\ i = newest_idx
                                THEN NewIndex ELSE segs[i].next
    <2>1. CASE newest_idx = NONE
      BY <2>1, <1>2, <1>4, <1>5 DEF Continued
    <2>2. CASE newest_idx # NONE
      <3>1. segs' = [P EXCEPT ![newest_idx].next = NewIndex]
        BY <2>2, <1>5 DEF Continued
      <3>2. P[newest_idx] \in Segments
        BY <2>2, <1>3, <1>7
      <3>3. segs'[newest_idx].next = NewIndex
        BY <3>1, <3>2, <1>3, <1>7, <2>2 DEF Segments
      <3>4. \A i \in 1..N : i # newest_idx => segs'[i] = P[i]
        BY <3>1, <1>3
      <3> QED
        BY <3>3, <3>4, <1>2, <1>4, <1>7, <2>2
    <2> QED
      BY <2>1, <2>2
  <1>10. \A i \in 1..N :
            /\ segs'[i].age = IF i = NewIndex THEN 0 ELSE segs[i].age
            /\ segs'[i].start = IF i = NewIndex THEN cursor ELSE segs[i].start
            /\ segs'[i].lit = IF i = NewIndex THEN stroke ELSE segs[i].lit
    <2>1. CASE newest_idx = NONE
      BY <2>1, <1>2, <1>4, <1>5 DEF Continued
    <2>2. CASE newest_idx # NONE
      <3>1. segs' = [P EXCEPT ![newest_idx].next = NewIndex]
        BY <2>2, <1>5 DEF Continued
      <3>2. P[newest_idx] \in Segments
        BY <2>2, <1>3, <1>7
      <3>3. /\ segs'[newest_idx].age = P[newest_idx].age
            /\ segs'[newest_idx].start = P[newest_idx].start
            /\ segs'[newest_idx].lit = P[newest_idx].lit
        BY <3>1, <3>2, <1>3, <1>7, <2>2 DEF Segments
      <3>4. \A i \in 1..N : i # newest_idx => segs'[i] = P[i]
        BY <3>1, <1>3
      <3>5. \A i \in 1..N :
               /\ segs'[i].age = P[i].age
               /\ segs'[i].start = P[i].start
               /\ segs'[i].lit = P[i].lit
        BY <3>3, <3>4
      <3> QED
        BY <3>5, <1>2, <1>4
    <2> QED
      BY <2>1, <2>2
  <1> QED
    BY <1>1, <1>8, <1>9, <1>10, SeqOfFunction DEF N

\* A move of the ray appends the new place to the list.
LEMMA MoveAppends ==
    ASSUME SegTypes, NEW to \in Points, NEW stroke \in BOOLEAN, Move(to, stroke),
           NEW q, Chain(q), NEW h, h = NewIndex
    PROVE  SegTypes' /\ \E r : r = Append(q, h) /\ Chain(r)'
  <1>0. SegTypes
    OBVIOUS
  <1>1. Chain(q)
    OBVIOUS
  <1>n. PICK new : new = NewIndex
    OBVIOUS
  <1>p. segs' \in Seq(Segments) /\ DOMAIN segs' = 1..Len(segs') /\ Len(segs') \in Nat
    <2>1. segs' \in Seq(Segments)
      BY <1>0, <1>1, MovedPlaces
    <2> QED
      BY <2>1, FunctionOfSeq
  <1>r. PICK r : r = Append(q, new)
    OBVIOUS
  <1>2. SegTypes'
    <2>1. segs' \in Seq(Segments) /\ DOMAIN segs \subseteq DOMAIN segs'
      BY <1>0, <1>1, <1>n, MovedPlaces, ChainFacts, FunctionOfSeq
    <2>2. seg_pool' \in Seq(DOMAIN segs)
      BY <1>0, <1>1, <1>n, NewIndexIsFree DEF Move
    <2>3. seg_pool' \in Seq(DOMAIN segs')
      BY <2>1, <2>2
    <2> QED
      BY <1>0, <2>1, <2>3 DEF SegTypes, Move
  <1>3. /\ r \in Seq(DOMAIN segs')
        /\ Len(r) = Len(q) + 1
        /\ DOMAIN r = 1..Len(q) + 1
        /\ \A n \in 1..Len(q) : r[n] = q[n]
        /\ r[Len(q) + 1] = new
        /\ r # <<>>
    <2>1. NewIndex \in DOMAIN segs' /\ DOMAIN segs \subseteq DOMAIN segs'
      <3>2. CASE seg_pool = <<>>
        <4>1. Len(segs') = Len(segs) + 1
          BY <1>0, <1>1, <3>2, MovedPlaces
        <4> QED
          BY <1>0, <1>1, <4>1, <1>p, NewIndexIsFree, ChainFacts
      <3>3. CASE seg_pool # <<>>
        <4>1. NewIndex \in 1..Len(segs)
          BY <1>0, <1>1, <1>n, <3>3, ChainFacts DEF NewIndex
        <4>2. Len(segs') = Len(segs)
          BY <1>0, <1>1, <3>3, MovedPlaces
        <4> QED
          BY <1>0, <1>1, <4>1, <4>2, <1>p, ChainFacts
      <3> QED
        BY <3>2, <3>3
    <2>2. q \in Seq(DOMAIN segs')
      BY <1>0, <1>1, <1>n, <2>1, ChainFacts
    <2> QED
      BY <1>0, <1>1, <1>n, <1>r, <2>1, <2>2, ChainFacts, AppendProperties, FunctionOfSeq
  <1>4. HoldsAllOnce(r)'
    <2>1. /\ seg_pool' = PoolWithoutNew
          /\ Len(seg_pool') = IF seg_pool = <<>> THEN 0 ELSE Len(seg_pool) - 1
          /\ DOMAIN seg_pool' = 1..Len(seg_pool')
          /\ \A m \in 1..Len(seg_pool') :
                /\ m \in 1..Len(seg_pool)
                /\ seg_pool'[m] = seg_pool[m]
                /\ seg_pool[m] # NewIndex
      <3>1. seg_pool' = PoolWithoutNew
        BY DEF Move
      <3>2. /\ PoolWithoutNew \in Seq(DOMAIN segs)
            /\ Len(PoolWithoutNew) = IF seg_pool = <<>> THEN 0 ELSE Len(seg_pool) - 1
            /\ \A m \in 1..Len(PoolWithoutNew) :
                 PoolWithoutNew[m] = seg_pool[m] /\ seg_pool[m] # NewIndex
        BY <1>0, <1>1, NewIndexIsFree
      <3>3. DOMAIN PoolWithoutNew = 1..Len(PoolWithoutNew)
        BY <3>2, FunctionOfSeq
      <3>4. \A m \in 1..Len(PoolWithoutNew) : m \in 1..Len(seg_pool)
        BY <1>0, <1>1, <3>2, ChainFacts
      <3> QED
        BY <3>1, <3>2, <3>3, <3>4
    <2>2. Len(r) + Len(seg_pool') = Len(segs')
      <3>1. Len(q) + Len(seg_pool) = Len(segs)
        BY <1>1 DEF Chain, HoldsAllOnce
      <3>2. Len(segs') = IF seg_pool = <<>> THEN Len(segs) + 1 ELSE Len(segs)
        BY <1>0, <1>1, MovedPlaces
      <3>3. /\ Len(q) \in Nat /\ Len(seg_pool) \in Nat /\ Len(segs) \in Nat
            /\ seg_pool = <<>> <=> Len(seg_pool) = 0
        BY <1>0, <1>1, ChainFacts
      <3>4. Len(r) = Len(q) + 1
        BY <1>3
      <3>5. CASE seg_pool = <<>>
        <4>1. Len(seg_pool) = 0 /\ Len(seg_pool') = 0 /\ Len(segs') = Len(segs) + 1
          BY <2>1, <3>2, <3>3, <3>5
        <4> QED
          BY <3>1, <3>3, <3>4, <4>1
      <3>6. CASE seg_pool # <<>>
        <4>1. Len(seg_pool') = Len(seg_pool) - 1 /\ Len(segs') = Len(segs)
          BY <2>1, <3>2, <3>6
        <4> QED
          BY <3>1, <3>3, <3>4, <4>1
      <3> QED
        BY <3>5, <3>6
    <2>3. \A n \in DOMAIN r, m \in DOMAIN seg_pool' : r[n] # seg_pool'[m]
      <3> SUFFICES ASSUME NEW n \in DOMAIN r, NEW m \in DOMAIN seg_pool'
                   PROVE  r[n] # seg_pool'[m]
        OBVIOUS
      <3>0. m \in 1..Len(seg_pool) /\ seg_pool'[m] = seg_pool[m] /\ seg_pool[m] # new
        BY <1>n, <2>1
      <3>1. CASE n \in 1..Len(q)
        <4>1. n \in DOMAIN q /\ m \in DOMAIN seg_pool
          BY <1>0, <1>1, <3>0, <3>1, ChainFacts
        <4>2. q[n] # seg_pool[m]
          BY <1>1, <4>1 DEF Chain, HoldsAllOnce
        <4> QED
          BY <1>3, <3>0, <3>1, <4>2
      <3>2. CASE n = Len(q) + 1
        BY <1>3, <3>0, <3>2
      <3> QED
        BY <1>0, <1>1, <1>n, <1>3, <3>1, <3>2, ChainFacts
    <2>4. \A m, n \in DOMAIN r : r[m] = r[n] => m = n
      <3> SUFFICES ASSUME NEW m \in DOMAIN r, NEW n \in DOMAIN r, r[m] = r[n]
                   PROVE  m = n
        OBVIOUS
      <3>1. CASE m \in 1..Len(q) /\ n \in 1..Len(q)
        BY <1>0, <1>1, <1>n, <1>3, <3>1, ChainFacts DEF Chain, HoldsAllOnce
      <3>2. CASE m = Len(q) + 1 /\ n \in 1..Len(q)
        BY <1>0, <1>1, <1>n, <1>3, <3>2, NewIndexIsFree
      <3>3. CASE n = Len(q) + 1 /\ m \in 1..Len(q)
        BY <1>0, <1>1, <1>n, <1>3, <3>3, NewIndexIsFree
      <3> QED
        BY <1>0, <1>1, <1>n, <1>3, <3>1, <3>2, <3>3, ChainFacts
    <2>5. \A m, n \in DOMAIN seg_pool' : seg_pool'[m] = seg_pool'[n] => m = n
      BY SMTT(30), <1>0, <1>1, <1>n, <2>1, ChainFacts DEF Chain, HoldsAllOnce
    <2> QED
      BY <2>2, <2>3, <2>4, <2>5 DEF HoldsAllOnce
  <1>5. newest_idx = IF q = <<>> THEN NONE ELSE q[Len(q)]
    BY <1>0, <1>1 DEF Chain, EndsAtNewest, Move, Running
  <1>6. newest_idx = NONE <=> q = <<>>
    <2>1. ASSUME q # <<>> PROVE q[Len(q)] # NONE
      BY <1>0, <1>1, <1>n, <2>1, ChainFacts DEF NONE
    <2> QED
      BY <1>5, <2>1
  <1>7. IsList(r)'
    <2>1. oldest_idx' = r[1]
      <3>1. CASE q = <<>>
        BY <1>0, <1>1, <1>n, <1>3, <1>6, <3>1, ChainFacts DEF Move
      <3>2. CASE q # <<>>
        BY <1>0, <1>1, <1>n, <1>3, <1>6, <3>2, ChainFacts DEF Move, Chain, IsList
      <3> QED
        BY <3>1, <3>2
    <2>2. ASSUME NEW n \in 1..Len(q) + 1
          PROVE  segs'[r[n]].next = IF n = Len(q) + 1 THEN NONE ELSE r[n + 1]
      <3>1. r[n] \in 1..Len(segs')
        BY <1>0, <1>1, <1>n, <1>3, <2>2, MovedPlaces, FunctionOfSeq
      <3>2. CASE n = Len(q) + 1
        BY <1>0, <1>1, <1>n, <1>3, <3>1, <3>2, MovedPlaces
      <3>3. CASE n \in 1..Len(q)
        <4>1. r[n] = q[n] /\ q[n] # NewIndex /\ n # Len(q) + 1
          BY <1>0, <1>1, <1>n, <1>3, <3>3, NewIndexIsFree, ChainFacts
        <4>2. CASE n = Len(q)
          <5>1. newest_idx = r[n] /\ newest_idx # NONE
            BY <1>0, <1>1, <1>n, <1>5, <1>6, <3>3, <4>1, <4>2, ChainFacts
          <5> QED
            BY <1>0, <1>1, <1>n, <1>3, <3>1, <4>1, <4>2, <5>1, MovedPlaces
        <4>3. CASE n # Len(q)
          <5>1. n + 1 \in 1..Len(q) /\ Len(q) \in 1..Len(q)
            BY <1>0, <1>1, <1>n, <3>3, <4>3, ChainFacts
          <5>2. q[n] # q[Len(q)]
            BY <1>0, <1>1, <1>n, <3>3, <4>3, <5>1, ChainFacts DEF Chain, HoldsAllOnce
          <5>3. q # <<>>
            BY <1>0, <1>1, <1>n, <5>1, ChainFacts
          <5>4. q[n] # newest_idx
            BY <1>5, <5>2, <5>3
          <5>5. segs[q[n]].next = q[n + 1]
            BY <1>0, <1>1, <1>n, <3>3, <4>3, ChainFacts DEF Chain, IsList
          <5> QED
            BY <1>0, <1>1, <1>n, <1>3, <3>1, <4>1, <5>1, <5>4, <5>5, MovedPlaces
        <4> QED
          BY <4>2, <4>3
      <3> QED
        BY <1>0, <1>1, <1>n, <2>2, <3>2, <3>3, ChainFacts
    <2> QED
      BY <1>3, <2>1, <2>2 DEF IsList
  <1>8. EndsAtNewest(r)'
    BY <1>3, <1>n DEF EndsAtNewest, Move
  <1>9. (r \in Orders)'
    <2>1. Len(r) <= Len(segs')
      <3>1. Len(seg_pool') \in Nat /\ Len(segs') \in Nat /\ Len(r) \in Nat
        BY <1>0, <1>1, <1>n, <1>2, <1>3, ChainFacts, FunctionOfSeq DEF SegTypes
      <3> QED
        BY <1>4, <3>1 DEF HoldsAllOnce
    <2>2. r \in [1..Len(r) -> DOMAIN segs'] /\ Len(r) \in 0..Len(segs')
      BY <1>0, <1>1, <1>n, <1>2, <1>3, <2>1, ChainFacts, FunctionOfSeq DEF SegTypes
    <2> QED
      BY <2>2 DEF Orders
  <1>10. AgesDescend(r)'
    <2> SUFFICES ASSUME NEW m \in DOMAIN r, NEW n \in DOMAIN r, m < n
                 PROVE  segs'[r[n]].age <= segs'[r[m]].age
      BY DEF AgesDescend
    <2>1. m \in 1..Len(q) /\ r[m] = q[m] /\ m \in DOMAIN q
      BY <1>0, <1>1, <1>3, ChainFacts
    <2>2. ASSUME NEW i \in 1..Len(q)
          PROVE  /\ segs'[q[i]].age = segs[q[i]].age
                 /\ segs[q[i]].age \in 0..FADE + 1
      <3>1. q[i] \in 1..Len(segs) /\ q[i] # NewIndex
        BY <1>0, <1>1, NewIndexIsFree, ChainFacts
      <3>2. q[i] \in 1..Len(segs')
        BY <1>0, <1>1, <3>1, MovedPlaces, ChainFacts
      <3>3. segs[q[i]] \in Segments
        BY <1>0, <1>1, <3>1, ChainFacts DEF SegTypes
      <3> QED
        BY <1>0, <1>1, <3>1, <3>2, <3>3, MovedPlaces DEF Segments
    <2>3. CASE n \in 1..Len(q)
      <3>1. n \in DOMAIN q /\ r[n] = q[n]
        BY <1>0, <1>1, <1>3, <2>3, ChainFacts
      <3>2. segs[q[n]].age <= segs[q[m]].age
        BY <1>1, <2>1, <3>1 DEF Chain, AgesDescend
      <3> QED
        BY <2>1, <2>2, <2>3, <3>1, <3>2
    <2>4. CASE n = Len(q) + 1
      <3>1. new \in 1..Len(segs')
        BY <1>3, <1>p, <2>4
      <3>2. segs'[r[n]].age = 0
        BY <1>0, <1>1, <1>n, <1>3, <2>4, <3>1, MovedPlaces
      <3> QED
        BY <2>1, <2>2, <3>2, CrtAssumption
    <2> QED
      BY <1>0, <1>1, <1>3, <2>3, <2>4, ChainFacts
  <1>11. Chain(r)'
    BY <1>4, <1>7, <1>8, <1>9, <1>10 DEF Chain
  <1> QED
    BY <1>n, <1>r, <1>2, <1>11

\* A round of the recycling loop takes the head of the list to the pool.
LEMMA RecycleTakesHead ==
    ASSUME SegTypes, Recycle, NEW q, Chain(q)
    PROVE  SegTypes' /\ q # <<>> /\ \E r : r = Tail(q) /\ Chain(r)'
  <1>0. SegTypes /\ segs' = segs
    BY DEF Recycle, SegTypes
  <1>1. Chain(q)
    OBVIOUS
  <1>2. /\ q # <<>> /\ oldest_idx = q[1]
        /\ 1 \in 1..Len(q) /\ Len(q) \in Nat
    <2>1. q # <<>> /\ oldest_idx = q[1]
      BY <1>1 DEF Recycle, Expired, Chain, IsList
    <2> QED
      BY <1>0, <1>1, <2>1, ChainFacts
  <1>3. PICK r : r = Tail(q)
    OBVIOUS
  <1>4. /\ r \in Seq(DOMAIN segs)
        /\ Len(r) = Len(q) - 1
        /\ DOMAIN r = 1..Len(q) - 1
        /\ \A n \in 1..Len(q) - 1 : r[n] = q[n + 1] /\ n + 1 \in 1..Len(q)
        /\ r = <<>> <=> Len(q) = 1
    <2>1. q \in Seq(DOMAIN segs)
      BY <1>0, <1>1, ChainFacts
    <2>2. r \in Seq(DOMAIN segs) /\ Len(r) = Len(q) - 1
          /\ \A n \in 1..Len(r) : r[n] = q[n + 1]
      BY <1>2, <1>3, <2>1, HeadTailProperties
    <2> QED
      BY <1>2, <2>2, FunctionOfSeq
  <1>5. /\ seg_pool' \in Seq(DOMAIN segs)
        /\ Len(seg_pool') = Len(seg_pool) + 1
        /\ DOMAIN seg_pool' = 1..Len(seg_pool) + 1
        /\ \A m \in 1..Len(seg_pool) : seg_pool'[m] = seg_pool[m]
        /\ seg_pool'[Len(seg_pool) + 1] = q[1]
    <2>1. seg_pool' = Append(seg_pool, q[1]) /\ q[1] \in DOMAIN segs
      BY <1>0, <1>1, <1>2, ChainFacts DEF Recycle
    <2> QED
      BY <1>0, <2>1, AppendProperties, FunctionOfSeq DEF SegTypes
  <1>6. SegTypes'
    BY <1>0, <1>5 DEF SegTypes, Recycle
  <1>7. IsList(r)'
    <2>1. oldest_idx' = IF Len(q) = 1 THEN NONE ELSE q[2]
      <3>1. 1 \in DOMAIN q
        BY <1>0, <1>1, <1>2, ChainFacts
      <3>2. segs[q[1]].next = IF 1 = Len(q) THEN NONE ELSE q[1 + 1]
        BY <1>1, <3>1 DEF Chain, IsList
      <3>3. 1 + 1 = 2
        OBVIOUS
      <3> QED
        BY <1>2, <3>2, <3>3 DEF Recycle
    <2>2. oldest_idx' = IF r = <<>> THEN NONE ELSE r[1]
      BY <1>2, <1>4, <2>1
    <2>3. ASSUME NEW n \in DOMAIN r
          PROVE  segs[r[n]].next = IF n = Len(r) THEN NONE ELSE r[n + 1]
      <3>1. n \in 1..Len(q) - 1 /\ n + 1 \in DOMAIN q /\ r[n] = q[n + 1]
        BY <1>0, <1>1, <1>4, <2>3, ChainFacts
      <3>2. segs[q[n + 1]].next = IF n + 1 = Len(q) THEN NONE ELSE q[n + 1 + 1]
        BY <1>1, <3>1 DEF Chain, IsList
      <3>3. n # Len(r) => n + 1 \in 1..Len(q) - 1 /\ r[n + 1] = q[n + 1 + 1]
        BY <1>2, <1>4, <3>1
      <3>4. n = Len(r) <=> n + 1 = Len(q)
        BY <1>2, <1>4, <3>1
      <3> QED
        BY <3>1, <3>2, <3>3, <3>4
    <2> QED
      BY <1>0, <2>2, <2>3 DEF IsList
  <1>8. HoldsAllOnce(r)'
    <2>0. /\ Len(q) + Len(seg_pool) = Len(segs)
          /\ \A n \in DOMAIN q, m \in DOMAIN seg_pool : q[n] # seg_pool[m]
          /\ \A m, n \in DOMAIN q : q[m] = q[n] => m = n
          /\ \A m, n \in DOMAIN seg_pool : seg_pool[m] = seg_pool[n] => m = n
          /\ DOMAIN q = 1..Len(q) /\ DOMAIN seg_pool = 1..Len(seg_pool)
          /\ Len(seg_pool) \in Nat
      BY <1>0, <1>1, ChainFacts DEF Chain, HoldsAllOnce
    <2>1. Len(r) + Len(seg_pool') = Len(segs')
      <3>1. Len(q) \in Nat /\ Len(seg_pool) \in Nat
            /\ Len(q) + Len(seg_pool) = Len(segs)
        BY <1>2, <2>0
      <3>2. Len(r) = Len(q) - 1 /\ Len(seg_pool') = Len(seg_pool) + 1
        BY <1>4, <1>5
      <3>3. Len(segs') = Len(segs)
        BY <1>0
      <3> QED
        BY <3>1, <3>2, <3>3
    <2>2. ASSUME NEW n \in DOMAIN r, NEW m \in DOMAIN seg_pool'
          PROVE  r[n] # seg_pool'[m]
      <3>1. r[n] = q[n + 1] /\ n + 1 \in DOMAIN q /\ n + 1 # 1 /\ 1 \in DOMAIN q
        BY <1>2, <1>4, <2>0, <2>2
      <3>2. CASE m \in 1..Len(seg_pool)
        BY <1>5, <2>0, <3>1, <3>2
      <3>3. CASE m = Len(seg_pool) + 1
        BY <1>5, <2>0, <3>1, <3>3
      <3> QED
        BY <1>5, <2>0, <2>2, <3>2, <3>3
    <2>3. \A m, n \in DOMAIN r : r[m] = r[n] => m = n
      <3> SUFFICES ASSUME NEW m \in DOMAIN r, NEW n \in DOMAIN r, r[m] = r[n]
                   PROVE  m = n
        OBVIOUS
      <3>1. m \in 1..Len(q) - 1 /\ n \in 1..Len(q) - 1
        BY <1>4
      <3>2. q[m + 1] = q[n + 1] /\ m + 1 \in DOMAIN q /\ n + 1 \in DOMAIN q
        BY <1>4, <2>0, <3>1
      <3>3. m + 1 = n + 1
        BY <2>0, <3>2
      <3> QED
        BY <1>2, <3>1, <3>3
    <2>4. ASSUME NEW m \in DOMAIN seg_pool', NEW n \in DOMAIN seg_pool',
                 seg_pool'[m] = seg_pool'[n]
          PROVE  m = n
      <3>1. 1 \in DOMAIN q
        BY <1>2, <2>0
      <3>2. CASE m \in 1..Len(seg_pool) /\ n \in 1..Len(seg_pool)
        BY <1>5, <2>0, <2>4, <3>2
      <3>3. CASE m = Len(seg_pool) + 1 /\ n \in 1..Len(seg_pool)
        BY ZenonT(30), <1>5, <2>0, <2>4, <3>1, <3>3
      <3>4. CASE n = Len(seg_pool) + 1 /\ m \in 1..Len(seg_pool)
        <4>1. seg_pool'[n] = q[1] /\ seg_pool'[m] = seg_pool[m] /\ m \in DOMAIN seg_pool
          BY <1>5, <2>0, <3>4
        <4>2. q[1] # seg_pool[m]
          BY <2>0, <3>1, <4>1
        <4> QED
          BY <2>4, <4>1, <4>2
      <3>5. /\ m \in 1..Len(seg_pool) \/ m = Len(seg_pool) + 1
            /\ n \in 1..Len(seg_pool) \/ n = Len(seg_pool) + 1
        BY <1>5, <2>0, <2>4
      <3> QED
        BY <3>2, <3>3, <3>4, <3>5
    <2> QED
      BY <2>1, <2>2, <2>3, <2>4 DEF HoldsAllOnce
  <1>9. EndsAtNewest(r)'
    <2>1. newest_idx' = newest_idx /\ newest_idx = q[Len(q)] /\ phase' = "fade"
      BY <1>1, <1>2 DEF Recycle, Chain, EndsAtNewest
    <2>2. r # <<>> => r[Len(r)] = q[Len(q)]
      <3>1. r # <<>> => Len(q) - 1 \in 1..Len(q) - 1
        BY <1>2, <1>4
      <3> QED
        BY <1>2, <1>4, <3>1
    <2> QED
      BY <2>1, <2>2 DEF EndsAtNewest
  <1>10. (r \in Orders)'
    <2>1. Len(r) \in 0..Len(segs)
      <3>1. Len(seg_pool) \in Nat /\ Len(segs) \in Nat
            /\ Len(q) + Len(seg_pool) = Len(segs)
        BY <1>0, <1>1, ChainFacts DEF Chain, HoldsAllOnce
      <3> QED
        BY <1>2, <1>4, <3>1
    <2>2. r \in [1..Len(r) -> DOMAIN segs]
      BY <1>4, FunctionOfSeq
    <2> QED
      BY <1>0, <2>1, <2>2 DEF Orders
  <1>11. AgesDescend(r)'
    <2> SUFFICES ASSUME NEW m \in DOMAIN r, NEW n \in DOMAIN r, m < n
                 PROVE  segs[r[n]].age <= segs[r[m]].age
      BY <1>0 DEF AgesDescend
    <2>1. /\ r[m] = q[m + 1] /\ m + 1 \in DOMAIN q
          /\ r[n] = q[n + 1] /\ n + 1 \in DOMAIN q
          /\ m + 1 < n + 1
      <3>1. m \in 1..Len(q) - 1 /\ n \in 1..Len(q) - 1
        BY <1>4
      <3>2. DOMAIN q = 1..Len(q)
        BY <1>0, <1>1, ChainFacts
      <3>3. m + 1 < n + 1
        BY <1>2, <3>1
      <3> QED
        BY <1>4, <3>1, <3>2, <3>3
    <2> QED
      BY <1>1, <2>1 DEF Chain, AgesDescend
  <1> QED
    <2>1. Chain(r)'
      BY <1>7, <1>8, <1>9, <1>10, <1>11 DEF Chain
    <2> QED
      BY <1>2, <1>3, <1>6, <2>1

\* The end of the loop: newest_idx is forgotten with the last segment.
LEMMA FadeDoneKeeps ==
    ASSUME SegTypes, FadeDone, NEW q, Chain(q)
    PROVE  SegTypes' /\ Chain(q)'
  <1>0. SegTypes /\ segs' = segs /\ seg_pool' = seg_pool /\ oldest_idx' = oldest_idx
    BY DEF FadeDone
  <1>1. Chain(q)
    OBVIOUS
  <1>2. oldest_idx = NONE <=> q = <<>>
    <2>1. q # <<>> => q[1] \in 1..Len(segs)
      BY <1>0, <1>1, ChainFacts
    <2>2. q # <<>> => q[1] # NONE
      BY <1>0, <1>1, <2>1, ChainFacts DEF NONE
    <2> QED
      BY <1>1, <2>2 DEF Chain, IsList
  <1>3. EndsAtNewest(q)'
    BY <1>1, <1>2 DEF FadeDone, NewestAfterFade, EndsAtNewest, Chain
  <1>4. IsList(q)' /\ HoldsAllOnce(q)' /\ (q \in Orders)' /\ AgesDescend(q)'
    BY <1>0, <1>1 DEF Chain, IsList, HoldsAllOnce, Orders, AgesDescend
  <1>5. SegTypes'
    BY <1>0 DEF SegTypes, FadeDone, Phases
  <1> QED
    BY <1>3, <1>4, <1>5 DEF Chain

\* Time changes the ages only.
LEMMA TimeKeeps ==
    ASSUME SegTypes, TimePasses, NEW q, Chain(q)
    PROVE  /\ SegTypes' /\ Chain(q)'
           /\ DOMAIN segs' = DOMAIN segs
           /\ \A i \in DOMAIN segs :
                 segs'[i] = [segs[i] EXCEPT !.age = Older(segs[i].age, FADE + 1)]
  <1>0. SegTypes /\ seg_pool' = seg_pool /\ oldest_idx' = oldest_idx
        /\ newest_idx' = newest_idx /\ cursor' = cursor /\ phase' = phase
    BY DEF TimePasses
  <1>1. Chain(q)
    OBVIOUS
  <1>2. Len(segs) \in Nat /\ DOMAIN segs = 1..Len(segs) /\ segs \in [1..Len(segs) -> Segments]
    BY <1>0, FunctionOfSeq DEF SegTypes
  <1>3. ASSUME NEW i \in DOMAIN segs
        PROVE  /\ segs'[i] \in Segments
               /\ segs'[i].next = segs[i].next
               /\ segs'[i].age = Older(segs[i].age, FADE + 1)
               /\ segs[i].age \in 0..FADE + 1
    <2>1. segs[i] \in Segments
      BY <1>2, <1>3
    <2>2. segs'[i] = [segs[i] EXCEPT !.age = Older(segs[i].age, FADE + 1)]
      BY <1>3 DEF TimePasses
    <2>3. Older(segs[i].age, FADE + 1) \in 0..FADE + 1
      BY <2>1, CrtAssumption DEF Older, Segments
    <2> QED
      BY <2>1, <2>2, <2>3 DEF Segments
  <1>4. segs' \in [1..Len(segs) -> Segments]
    <2>1. DOMAIN segs' = DOMAIN segs
          /\ segs' = [i \in DOMAIN segs |->
                        [segs[i] EXCEPT !.age = Older(segs[i].age, FADE + 1)]]
      BY DEF TimePasses
    <2> QED
      BY <1>2, <1>3, <2>1
  <1>5. segs' \in Seq(Segments) /\ Len(segs') = Len(segs) /\ DOMAIN segs' = DOMAIN segs
    BY <1>2, <1>4, SeqOfFunction
  <1>6. SegTypes'
    BY <1>0, <1>5 DEF SegTypes
  <1>7. \A n \in DOMAIN q : q[n] \in DOMAIN segs
    BY <1>0, <1>1, ChainFacts
  <1>8. IsList(q)'
    <2>1. \A n \in DOMAIN q : segs'[q[n]].next = segs[q[n]].next
      BY <1>3, <1>7
    <2> QED
      BY <1>0, <1>1, <2>1 DEF Chain, IsList
  <1>9. HoldsAllOnce(q)' /\ EndsAtNewest(q)' /\ (q \in Orders)'
    BY <1>0, <1>1, <1>5 DEF Chain, HoldsAllOnce, EndsAtNewest, Orders
  <1>10. AgesDescend(q)'
    <2> SUFFICES ASSUME NEW m \in DOMAIN q, NEW n \in DOMAIN q, m < n
                 PROVE  segs'[q[n]].age <= segs'[q[m]].age
      BY DEF AgesDescend
    <2>1. segs[q[n]].age <= segs[q[m]].age
      BY <1>1 DEF Chain, AgesDescend
    <2>2. q[m] \in DOMAIN segs /\ q[n] \in DOMAIN segs
      BY <1>7
    <2> QED
      BY <1>3, <2>1, <2>2, CrtAssumption DEF Older
  <1>11. \A i \in DOMAIN segs :
            segs'[i] = [segs[i] EXCEPT !.age = Older(segs[i].age, FADE + 1)]
    BY DEF TimePasses
  <1> QED
    BY <1>5, <1>6, <1>8, <1>9, <1>10, <1>11 DEF Chain

\* A step that leaves the segments alone, and the loop too.
LEMMA OthersKeep ==
    ASSUME SegTypes, NEW q, Chain(q),
           UNCHANGED <<segs, seg_pool, oldest_idx, newest_idx, cursor>>,
           phase' \in Phases,
           phase = "fade" => phase' = "fade"
    PROVE  SegTypes' /\ Chain(q)'
  <1>0. SegTypes /\ segs' = segs /\ seg_pool' = seg_pool /\ oldest_idx' = oldest_idx
        /\ newest_idx' = newest_idx /\ cursor' = cursor
    OBVIOUS
  <1>1. Chain(q)
    OBVIOUS
  <1>2. IsList(q)' /\ HoldsAllOnce(q)' /\ (q \in Orders)' /\ AgesDescend(q)'
    BY <1>0, <1>1 DEF Chain, IsList, HoldsAllOnce, Orders, AgesDescend
  <1>3. EndsAtNewest(q)'
    BY <1>0, <1>1 DEF Chain, EndsAtNewest
  <1>4. SegTypes'
    BY <1>0 DEF SegTypes
  <1> QED
    BY <1>2, <1>3, <1>4 DEF Chain

-----------------------------------------------------------------------------
(* The invariant and its consequence.                                       *)

LEMMA InitSInv == Init => SInv
  <1> SUFFICES ASSUME Init PROVE SInv
    OBVIOUS
  <1>1. SegTypes
    BY CrtAssumption DEF Init, SegTypes, Phases
  <1>2. DOMAIN segs = {} /\ Len(segs) = 0 /\ DOMAIN seg_pool = {} /\ Len(seg_pool) = 0
    BY DEF Init
  <1>3. PICK q : q = << >>
    OBVIOUS
  <1>4. DOMAIN q = {} /\ Len(q) = 0
    BY <1>3
  <1>5. q \in Orders
    <2>1. q \in [1..0 -> DOMAIN segs] /\ 0 \in 0..Len(segs)
      BY <1>2, <1>3
    <2> QED
      BY <2>1 DEF Orders
  <1>6. IsList(q) /\ HoldsAllOnce(q) /\ EndsAtNewest(q) /\ AgesDescend(q)
    BY <1>2, <1>3, <1>4 DEF Init, IsList, HoldsAllOnce, EndsAtNewest, AgesDescend
  <1> QED
    BY <1>1, <1>5, <1>6 DEF SInv, Chain

\* Every other step of the program, of the host and of the tick leaves the
\* segments alone.
LEMMA LeavesSegments ==
    ASSUME SegTypes, [Next]_vars,
           ~TimePasses, ~Recycle, ~FadeDone,
           ~\E to \in Points, stroke \in BOOLEAN : Move(to, stroke)
    PROVE  /\ UNCHANGED <<segs, seg_pool, oldest_idx, newest_idx, cursor>>
           /\ phase' \in Phases
           /\ phase = "fade" => phase' = "fade"
  <1>0. phase \in Phases
    BY DEF SegTypes
  <1>1. CASE Die \/ CloseWindow \/ Gone \/ UNCHANGED vars
    BY <1>0, <1>1 DEF Die, CloseWindow, Gone, vars, segVars
  <1>2. CASE \E k \in Keys : PressKey(k) \/ ReleaseKey(k)
    BY <1>0, <1>2 DEF PressKey, ReleaseKey, segVars
  <1>3. CASE Tick \/ TakePress \/ PressesDone \/ KeepKey \/ ReportRelease \/ ReleasesDone
    BY <1>0, <1>3 DEF Tick, TakePress, PressesDone, KeepKey, ReportRelease,
                      ReleasesDone, segVars, Phases
  <1>4. CASE Destroy
    BY <1>4 DEF Destroy, segVars, Phases
  <1> QED
    BY <1>1, <1>2, <1>3, <1>4 DEF Next

LEMMA NextSInv == SInv /\ [Next]_vars => SInv'
  <1> SUFFICES ASSUME SInv, [Next]_vars PROVE SInv'
    OBVIOUS
  <1>0. SegTypes
    BY DEF SInv
  <1>q. PICK q : Chain(q)
    BY DEF SInv
  <1>1. ASSUME NEW to \in Points, NEW stroke \in BOOLEAN, Move(to, stroke)
        PROVE  SInv'
    <2>1. PICK new : new = NewIndex
      OBVIOUS
    <2>2. SegTypes' /\ \E r : r = Append(q, new) /\ Chain(r)'
      BY <1>0, <1>q, <1>1, <2>1, MoveAppends
    <2> QED
      BY <2>2 DEF SInv
  <1>2. CASE TimePasses
    BY <1>0, <1>q, <1>2, TimeKeeps DEF SInv
  <1>3. CASE Recycle
    <2>1. SegTypes' /\ \E r : Chain(r)'
      BY <1>0, <1>q, <1>3, RecycleTakesHead
    <2> QED
      BY <2>1 DEF SInv
  <1>4. CASE FadeDone
    BY <1>0, <1>q, <1>4, FadeDoneKeeps DEF SInv
  <1>5. CASE /\ ~TimePasses /\ ~Recycle /\ ~FadeDone
             /\ ~\E to \in Points, stroke \in BOOLEAN : Move(to, stroke)
    <2>1. /\ UNCHANGED <<segs, seg_pool, oldest_idx, newest_idx, cursor>>
          /\ phase' \in Phases
          /\ phase = "fade" => phase' = "fade"
      BY <1>0, <1>5, LeavesSegments
    <2> QED
      BY <1>0, <1>q, <2>1, OthersKeep DEF SInv
  <1> QED
    BY <1>1, <1>2, <1>3, <1>4, <1>5

\* No place of the array of segments is ever lost, or used twice: the list
\* and the pool share all of them (crt.c:23-36, 74-83, 322-329).
THEOREM SegmentsKept == Spec => []SegmentsAccounted
  <1>1. SInv => SegmentsAccounted
    BY DEF SInv, Chain, SegmentsAccounted
  <1> QED
    BY <1>1, InitSInv, NextSInv, PTL DEF Spec

\* The end of the loop that recycles: the head has not faded, and no other
\* segment is older.
LEMMA FadeDoneForgets ==
    ASSUME SInv, FadeDone
    PROVE  NoneFaded'
  <1>0. SegTypes /\ segs' = segs /\ oldest_idx' = oldest_idx
    BY DEF SInv, FadeDone
  <1>1. PICK q : Chain(q)
    BY DEF SInv
  <1>2. IsList(q)' /\ (q \in Orders)'
    BY <1>0, <1>1 DEF Chain, IsList, Orders
  <1>3. ASSUME NEW n \in DOMAIN q
        PROVE  segs[q[n]].age <= FADE
    <2>1. /\ n \in 1..Len(q) /\ 1 \in DOMAIN q /\ q # <<>> /\ Len(q) \in Nat
          /\ q[1] \in DOMAIN segs /\ q[n] \in DOMAIN segs
          /\ q[1] \in 1..Len(segs)
      BY <1>0, <1>1, ChainFacts
    <2>2. oldest_idx = q[1] /\ q[1] # NONE
      BY <1>0, <1>1, <2>1, ChainFacts DEF Chain, IsList, NONE
    <2>3. segs[q[1]] \in Segments /\ segs[q[n]] \in Segments
      BY <1>0, <2>1 DEF SegTypes
    <2>4. segs[q[1]].age <= FADE
      BY <2>2, <2>3, CrtAssumption DEF FadeDone, Expired, Segments
    <2>5. CASE n = 1
      BY <2>4, <2>5
    <2>6. CASE n # 1
      <3>1. segs[q[n]].age <= segs[q[1]].age
        BY <1>1, <2>1, <2>6 DEF Chain, AgesDescend
      <3> QED
        BY <2>3, <2>4, <3>1, CrtAssumption DEF Segments
    <2> QED
      BY <2>5, <2>6
  <1> QED
    BY <1>0, <1>2, <1>3 DEF NoneFaded

\* Looking at the head of the list is enough to forget every faded segment,
\* for every number of segments and every fade time (crt.c:322-327).
THEOREM FadedForgotten == Spec => TickForgetsAllFaded
  <1>1. SInv /\ [Next]_vars
            => [phase = "fade" /\ phase' = "machine" => NoneFaded']_vars
    <2> SUFFICES ASSUME SInv, Next, phase = "fade", phase' = "machine"
                 PROVE  NoneFaded'
      OBVIOUS
    <2>1. FadeDone
      BY DEF Next, Move, Running, Die, TimePasses, PressKey, ReleaseKey, Tick,
             TakePress, PressesDone, KeepKey, ReportRelease, ReleasesDone, Recycle, CloseWindow, Destroy, Gone, vars
    <2> QED
      BY <2>1, FadeDoneForgets
  <1> QED
    BY <1>1, InitSInv, NextSInv, PTL DEF Spec, TickForgetsAllFaded

-----------------------------------------------------------------------------
(* The keys held.  The array is compacted in place, so the count of a key   *)
(* is that of its places among those that still count.                      *)

PlacesOf(k) == {n \in StillHeld : keys[n] = k}

KeyTypes ==
    /\ keys \in Seq(Keys)
    /\ pressed \in Seq(Keys)
    /\ down \in SUBSET Keys
    /\ owed \in [Keys -> Int]
    /\ kpos \in Nat
    /\ key_i \in Nat
    /\ kpos < key_i
    /\ key_i <= Len(keys) + 1
    /\ phase # "release" => kpos = 0 /\ key_i = 1

KInv == KeyTypes /\ ReleasesMatchPresses

LEMMA PlacesAreFinite ==
    ASSUME KeyTypes, NEW k
    PROVE  /\ IsFiniteSet(PlacesOf(k))
           /\ Cardinality(PlacesOf(k)) \in Nat
           /\ StillHeld \subseteq 1..Len(keys)
  <1>1. Len(keys) \in Nat
    BY FunctionOfSeq DEF KeyTypes
  <1>2. StillHeld \subseteq 1..Len(keys)
    BY <1>1 DEF KeyTypes, StillHeld
  <1>3. IsFiniteSet(1..Len(keys))
    BY <1>1, FS_Interval
  <1>4. PlacesOf(k) \subseteq 1..Len(keys)
    BY <1>2 DEF PlacesOf
  <1>5. IsFiniteSet(PlacesOf(k))
    BY <1>3, <1>4, FS_Subset
  <1> QED
    BY <1>2, <1>5, FS_CardinalityType

LEMMA InitKInv == Init => KInv
  <1> SUFFICES ASSUME Init PROVE KInv
    OBVIOUS
  <1>1. KeyTypes
    BY DEF Init, KeyTypes
  <1>2. ASSUME NEW k \in Keys
        PROVE  owed[k] = Cardinality(PlacesOf(k))
    <2>1. StillHeld = {}
      BY DEF Init, StillHeld
    <2>2. PlacesOf(k) = {}
      BY <2>1 DEF PlacesOf
    <2> QED
      BY <2>2, FS_EmptySet DEF Init
  <1> QED
    BY <1>1, <1>2 DEF KInv, ReleasesMatchPresses, PlacesOf

\* A press puts its key at the end of the array.
LEMMA TakePressCounts ==
    ASSUME KInv, TakePress
    PROVE  KInv'
  <1> DEFINE new == Head(pressed)
             last == Len(keys) + 1
  <1>1. KeyTypes
    BY DEF KInv
  <1>2. /\ Len(keys) \in Nat /\ Len(pressed) \in Nat /\ Len(pressed) >= 1
        /\ DOMAIN keys = 1..Len(keys)
    BY <1>1, FunctionOfSeq DEF KeyTypes, TakePress
  <1>3. new \in Keys /\ pressed' \in Seq(Keys)
    BY <1>1, HeadTailProperties DEF KeyTypes, TakePress
  <1>4. /\ keys' \in Seq(Keys) /\ Len(keys') = last /\ keys'[last] = new
        /\ \A n \in 1..Len(keys) : keys'[n] = keys[n]
    BY <1>1, <1>2, <1>3, AppendProperties DEF KeyTypes, TakePress
  <1> HIDE DEF new
  <1>5. owed' = [owed EXCEPT ![new] = @ + 1]
    BY DEF TakePress, new
  <1>6. kpos = 0 /\ key_i = 1 /\ UNCHANGED <<kpos, key_i, down, phase>>
    BY <1>1 DEF KeyTypes, TakePress
  <1>7. KeyTypes'
    BY <1>1, <1>2, <1>3, <1>4, <1>5, <1>6 DEF KeyTypes
  <1>8. ASSUME NEW k \in Keys
        PROVE  owed'[k] = Cardinality(PlacesOf(k)')
    <2>1. owed[k] = Cardinality(PlacesOf(k)) /\ owed[k] \in Int
      BY <1>1 DEF KInv, ReleasesMatchPresses, PlacesOf, KeyTypes
    <2>2. IsFiniteSet(PlacesOf(k)) /\ Cardinality(PlacesOf(k)) \in Nat
      BY <1>1, PlacesAreFinite
    <2>3. StillHeld = 1..Len(keys) /\ StillHeld' = StillHeld \cup {last} /\ last \notin StillHeld
      BY <1>2, <1>4, <1>6 DEF StillHeld
    <2>4. CASE k = new
      <3>1. PlacesOf(k)' = PlacesOf(k) \cup {last} /\ last \notin PlacesOf(k)
        BY <1>4, <2>3, <2>4 DEF PlacesOf
      <3>2. Cardinality(PlacesOf(k) \cup {last}) = Cardinality(PlacesOf(k)) + 1
        BY <2>2, <3>1, FS_AddElement
      <3>3. owed'[k] = owed[k] + 1
        BY <1>1, <1>5, <2>4 DEF KeyTypes
      <3> QED
        BY <2>1, <3>1, <3>2, <3>3
    <2>5. CASE k # new
      <3>1. PlacesOf(k)' = PlacesOf(k)
        BY <1>4, <2>3, <2>5 DEF PlacesOf
      <3>2. owed'[k] = owed[k]
        BY <1>1, <1>5, <2>5 DEF KeyTypes
      <3> QED
        BY <2>1, <3>1, <3>2
    <2> QED
      BY <2>4, <2>5
  <1> QED
    BY <1>7, <1>8 DEF KInv, ReleasesMatchPresses, PlacesOf

\* A key that is down moves to the front: its place is another, its count the
\* same, also when the two places are one.
LEMMA KeepKeyCounts ==
    ASSUME KInv, KeepKey
    PROVE  KInv'
  <1> DEFINE to == kpos + 1
  <1>1. KeyTypes
    BY DEF KInv
  <1>2. /\ Len(keys) \in Nat /\ DOMAIN keys = 1..Len(keys)
        /\ keys \in [1..Len(keys) -> Keys]
    BY <1>1, FunctionOfSeq DEF KeyTypes
  <1>3. key_i \in 1..Len(keys) /\ to \in 1..key_i /\ to \in 1..Len(keys)
    BY <1>1, <1>2 DEF KeyTypes, KeepKey
  <1>4. keys[key_i] \in Keys
    BY <1>2, <1>3
  <1>5. keys' = [keys EXCEPT ![to] = keys[key_i]]
    BY DEF KeepKey
  <1>6. /\ keys' \in [1..Len(keys) -> Keys] /\ keys'[to] = keys[key_i]
        /\ \A n \in 1..Len(keys) : n # to => keys'[n] = keys[n]
    BY <1>2, <1>3, <1>4, <1>5
  <1>7. keys' \in Seq(Keys) /\ Len(keys') = Len(keys)
    BY <1>2, <1>6, SeqOfFunction
  <1>8. kpos' = to /\ key_i' = key_i + 1 /\ UNCHANGED <<down, pressed, owed, phase>>
        /\ phase = "release"
    BY DEF KeepKey
  <1>9. KeyTypes'
    BY <1>1, <1>2, <1>3, <1>7, <1>8 DEF KeyTypes
  <1>10. ASSUME NEW k \in Keys
         PROVE  owed'[k] = Cardinality(PlacesOf(k)')
    <2>1. owed[k] = Cardinality(PlacesOf(k))
      BY <1>1 DEF KInv, ReleasesMatchPresses, PlacesOf
    <2>2. IsFiniteSet(PlacesOf(k)) /\ Cardinality(PlacesOf(k)) \in Nat
      BY <1>1, PlacesAreFinite
    <2>3. StillHeld = 1..kpos \cup key_i..Len(keys)
          /\ StillHeld' = 1..to \cup key_i + 1..Len(keys)
      BY <1>7, <1>8 DEF StillHeld
    <2>4. CASE keys[key_i] # k
      <3>1. \A n \in StillHeld' : n # to => n \in StillHeld /\ n \in 1..Len(keys) /\ n # key_i
        BY <1>1, <1>2, <1>3, <2>3 DEF KeyTypes
      <3>2. \A n \in StillHeld : n # key_i => n \in StillHeld' /\ n \in 1..Len(keys) /\ n # to
        BY <1>1, <1>2, <1>3, <2>3 DEF KeyTypes
      <3>3. PlacesOf(k)' = PlacesOf(k)
        BY <1>6, <2>4, <3>1, <3>2 DEF PlacesOf
      <3> QED
        BY <1>8, <2>1, <3>3
    <2>5. CASE keys[key_i] = k
      <3> DEFINE rest == PlacesOf(k) \ {key_i}
      <3>1. key_i \in PlacesOf(k)
        BY <1>2, <1>3, <2>3, <2>5 DEF PlacesOf
      <3>2. IsFiniteSet(rest) /\ Cardinality(rest) = Cardinality(PlacesOf(k)) - 1
        BY <2>2, <3>1, FS_RemoveElement
      <3>3. \A n \in StillHeld' : n # to => n \in StillHeld /\ n \in 1..Len(keys) /\ n # key_i
        BY <1>1, <1>2, <1>3, <2>3 DEF KeyTypes
      <3>4. \A n \in StillHeld : n # key_i => n \in StillHeld' /\ n \in 1..Len(keys) /\ n # to
        BY <1>1, <1>2, <1>3, <2>3 DEF KeyTypes
      <3>5. to \in StillHeld'
        BY <1>3, <2>3
      <3>6. PlacesOf(k)' = rest \cup {to} /\ to \notin rest
        BY <1>6, <2>5, <3>3, <3>4, <3>5 DEF PlacesOf
      <3>7. Cardinality(rest \cup {to}) = Cardinality(rest) + 1
        BY <3>2, <3>6, FS_AddElement
      <3> QED
        BY <1>8, <2>1, <2>2, <3>2, <3>6, <3>7
    <2> QED
      BY <2>4, <2>5
  <1> QED
    BY <1>9, <1>10 DEF KInv, ReleasesMatchPresses, PlacesOf

\* A key that is up loses a place and is owed a release less.
LEMMA ReportReleaseCounts ==
    ASSUME KInv, ReportRelease
    PROVE  KInv'
  <1> DEFINE up == keys[key_i]
  <1>1. KeyTypes
    BY DEF KInv
  <1>2. /\ Len(keys) \in Nat /\ DOMAIN keys = 1..Len(keys)
        /\ keys \in [1..Len(keys) -> Keys]
    BY <1>1, FunctionOfSeq DEF KeyTypes
  <1>3. key_i \in 1..Len(keys) /\ up \in Keys
    BY <1>1, <1>2 DEF KeyTypes, ReportRelease
  <1>4. /\ owed' = [owed EXCEPT ![up] = @ - 1]
        /\ key_i' = key_i + 1 /\ UNCHANGED <<keys, kpos, down, pressed, phase>>
        /\ phase = "release"
    BY DEF ReportRelease
  <1> HIDE DEF up
  <1>5. KeyTypes'
    BY <1>1, <1>2, <1>3, <1>4 DEF KeyTypes
  <1>6. ASSUME NEW k \in Keys
        PROVE  owed'[k] = Cardinality(PlacesOf(k)')
    <2>1. owed[k] = Cardinality(PlacesOf(k)) /\ owed[k] \in Int
      BY <1>1 DEF KInv, ReleasesMatchPresses, PlacesOf, KeyTypes
    <2>2. IsFiniteSet(PlacesOf(k)) /\ Cardinality(PlacesOf(k)) \in Nat
      BY <1>1, PlacesAreFinite
    <2>3. StillHeld' = StillHeld \ {key_i} /\ key_i \in StillHeld
      BY <1>1, <1>2, <1>3, <1>4 DEF StillHeld, KeyTypes
    <2>4. PlacesOf(k)' = PlacesOf(k) \ {key_i}
      BY <1>4, <2>3 DEF PlacesOf
    <2>5. CASE k = up
      <3>1. key_i \in PlacesOf(k)
        BY <2>3, <2>5 DEF PlacesOf, up
      <3>2. Cardinality(PlacesOf(k) \ {key_i}) = Cardinality(PlacesOf(k)) - 1
        BY <2>2, <3>1, FS_RemoveElement
      <3>3. owed'[k] = owed[k] - 1
        BY <1>1, <1>4, <2>5 DEF KeyTypes
      <3> QED
        BY <2>1, <2>4, <3>2, <3>3
    <2>6. CASE k # up
      <3>1. key_i \notin PlacesOf(k)
        BY <2>6 DEF PlacesOf, up
      <3>2. owed'[k] = owed[k] /\ PlacesOf(k) \ {key_i} = PlacesOf(k)
        BY <1>1, <1>4, <2>6, <3>1 DEF KeyTypes
      <3> QED
        BY <2>1, <2>4, <3>2
    <2> QED
      BY <2>5, <2>6
  <1> QED
    BY <1>5, <1>6 DEF KInv, ReleasesMatchPresses, PlacesOf

\* The array is cut behind the keys that were kept.
LEMMA ReleasesDoneCounts ==
    ASSUME KInv, ReleasesDone
    PROVE  KInv'
  <1>1. KeyTypes
    BY DEF KInv
  <1>2. Len(keys) \in Nat /\ kpos \in 0..Len(keys) /\ key_i = Len(keys) + 1
    BY <1>1, FunctionOfSeq DEF KeyTypes, ReleasesDone
  <1>3. \A n \in 1..kpos : keys[n] \in Keys
    BY <1>1, <1>2, FunctionOfSeq DEF KeyTypes
  <1>4. /\ keys' \in Seq(Keys) /\ Len(keys') = kpos
        /\ \A n \in 1..kpos : keys'[n] = keys[n]
    <2>1. /\ Kept \in Seq(Keys)
          /\ Len(Kept) = IF 1 <= kpos THEN kpos - 1 + 1 ELSE 0
          /\ \A n \in 1..kpos - 1 + 1 : Kept[n] = keys[1 + n - 1]
      BY <1>2, <1>3, SubSeqProperties DEF Kept
    <2>2. \A n \in 1..kpos : n \in 1..kpos - 1 + 1 /\ 1 + n - 1 = n
      BY <1>2
    <2> HIDE DEF Kept
    <2>3. keys' = Kept
      BY DEF ReleasesDone
    <2>4. Len(Kept) = kpos
      BY <1>2, <2>1
    <2> QED
      BY <2>1, <2>2, <2>3, <2>4
  <1>5. kpos' = 0 /\ key_i' = 1 /\ UNCHANGED <<down, pressed, owed>>
    BY DEF ReleasesDone
  <1>6. KeyTypes'
    BY <1>1, <1>2, <1>4, <1>5 DEF KeyTypes
  <1>7. StillHeld = 1..kpos /\ StillHeld' = 1..kpos
    BY <1>2, <1>4, <1>5 DEF StillHeld
  <1>8. \A k \in Keys : PlacesOf(k)' = PlacesOf(k)
    BY <1>4, <1>7 DEF PlacesOf
  <1>9. \A k \in Keys : owed'[k] = Cardinality(PlacesOf(k)')
    BY <1>5, <1>8 DEF KInv, ReleasesMatchPresses, PlacesOf
  <1> QED
    BY <1>6, <1>9 DEF KInv, ReleasesMatchPresses, PlacesOf

\* Presses and releases at the host change neither the array nor the count.
LEMMA HostKeepsCounts ==
    ASSUME KInv, NEW k \in Keys, PressKey(k) \/ ReleaseKey(k)
    PROVE  KInv'
  <1>1. KeyTypes
    BY DEF KInv
  <1>2. pressed' \in Seq(Keys) /\ down' \in SUBSET Keys
    <2>1. CASE PressKey(k)
      <3>1. pressed' = Append(pressed, k) /\ down' = down \cup {k}
        BY <2>1 DEF PressKey
      <3> QED
        BY <1>1, <3>1, AppendProperties DEF KeyTypes
    <2>2. CASE ReleaseKey(k)
      BY <1>1, <2>2 DEF ReleaseKey, KeyTypes
    <2> QED
      BY <2>1, <2>2
  <1>3. UNCHANGED <<keys, kpos, key_i, owed, phase>>
    BY DEF PressKey, ReleaseKey
  <1>4. KeyTypes'
    BY <1>1, <1>2, <1>3 DEF KeyTypes
  <1>5. ReleasesMatchPresses'
    BY <1>3 DEF KInv, ReleasesMatchPresses, StillHeld
  <1> QED
    BY <1>4, <1>5 DEF KInv

\* A step that leaves the keys alone.
LEMMA OthersCount ==
    ASSUME KInv, UNCHANGED <<keys, kpos, key_i, down, pressed, owed>>,
           phase = "release" => phase' = "release"
    PROVE  KInv'
  <1>1. KeyTypes'
    BY DEF KInv, KeyTypes
  <1>2. ReleasesMatchPresses'
    BY DEF KInv, ReleasesMatchPresses, StillHeld
  <1> QED
    BY <1>1, <1>2 DEF KInv

LEMMA NextKInv == KInv /\ [Next]_vars => KInv'
  <1> SUFFICES ASSUME KInv, [Next]_vars PROVE KInv'
    OBVIOUS
  <1>1. CASE TakePress
    BY <1>1, TakePressCounts
  <1>2. CASE KeepKey
    BY <1>2, KeepKeyCounts
  <1>3. CASE ReportRelease
    BY <1>3, ReportReleaseCounts
  <1>4. CASE ReleasesDone
    BY <1>4, ReleasesDoneCounts
  <1>5. ASSUME NEW k \in Keys, PressKey(k) \/ ReleaseKey(k)
        PROVE  KInv'
    BY <1>5, HostKeepsCounts
  <1>6. CASE \E to \in Points, stroke \in BOOLEAN : Move(to, stroke)
    BY <1>6, OthersCount DEF Move, keyVars
  <1>7. CASE Die \/ TimePasses \/ Tick \/ PressesDone \/ Recycle \/ FadeDone
    BY <1>7, OthersCount DEF Die, TimePasses, Tick, PressesDone, Recycle, FadeDone, keyVars
  <1>8. CASE CloseWindow \/ Destroy \/ Gone \/ UNCHANGED vars
    BY <1>8, OthersCount DEF CloseWindow, Destroy, Gone, vars, keyVars
  <1> QED
    BY <1>1, <1>2, <1>3, <1>4, <1>5, <1>6, <1>7, <1>8 DEF Next

\* Every press has one release, however often a key is pressed between two
\* polls and whatever is held beside it, for every set of keys (crt.c:274-288).
THEOREM OneReleasePerPress == Spec => []ReleasesMatchPresses
  <1>1. KInv => ReleasesMatchPresses
    BY DEF KInv
  <1> QED
    BY <1>1, InitKInv, NextKInv, PTL DEF Spec

-----------------------------------------------------------------------------
(* The types of the rest.                                                   *)

RestTypes ==
    /\ newest_idx \in Nat
    /\ since_tick \in 0..TICK
    /\ should_exit \in BOOLEAN
    /\ was_closed \in BOOLEAN
    /\ should_die \in BOOLEAN

LEMMA InitRest == Init => RestTypes
  <1> SUFFICES ASSUME Init PROVE RestTypes
    OBVIOUS
  <1>1. newest_idx \in Nat /\ since_tick \in 0..TICK
    BY CrtAssumption DEF Init, NONE
  <1>2. should_exit \in BOOLEAN /\ was_closed \in BOOLEAN /\ should_die \in BOOLEAN
    BY DEF Init
  <1> QED
    BY <1>1, <1>2 DEF RestTypes

LEMMA NextRest == SInv /\ RestTypes /\ [Next]_vars => RestTypes'
  <1> SUFFICES ASSUME SInv, RestTypes, [Next]_vars PROVE RestTypes'
    OBVIOUS
  <1>1. ASSUME NEW to \in Points, NEW stroke \in BOOLEAN, Move(to, stroke)
        PROVE  RestTypes'
    <2>1. NewIndex \in Nat
      <3>1. PICK q : Chain(q)
        BY DEF SInv
      <3>2. NewIndex \in 1..Len(segs) + 1 /\ Len(segs) \in Nat
        BY <3>1, NewIndexIsFree, ChainFacts DEF SInv
      <3> QED
        BY <3>2
    <2> QED
      BY <1>1, <2>1 DEF Move, RestTypes, endVars
  <1>2. CASE Die \/ TimePasses \/ CloseWindow \/ Destroy
    <2>1. newest_idx' \in Nat
      BY <1>2 DEF Die, TimePasses, CloseWindow, Destroy, RestTypes, segVars
    <2>2. since_tick' \in 0..TICK
      BY <1>2, CrtAssumption
         DEF Die, TimePasses, CloseWindow, Destroy, RestTypes, Older
    <2>3. should_exit' \in BOOLEAN /\ was_closed' \in BOOLEAN /\ should_die' \in BOOLEAN
      BY <1>2, Zenon DEF Die, TimePasses, CloseWindow, Destroy, RestTypes, Due, endVars
    <2> QED
      BY <2>1, <2>2, <2>3 DEF RestTypes
  <1>3. CASE Tick \/ Recycle \/ FadeDone
    BY <1>3, CrtAssumption
       DEF Tick, Recycle, FadeDone, NewestAfterFade, NONE, RestTypes, segVars, endVars
  <1>4. CASE TakePress \/ PressesDone \/ KeepKey \/ ReportRelease \/ ReleasesDone
    BY <1>4 DEF TakePress, PressesDone, KeepKey, ReportRelease, ReleasesDone,
                RestTypes, segVars, endVars
  <1>5. ASSUME NEW k \in Keys, PressKey(k) \/ ReleaseKey(k)
        PROVE  RestTypes'
    BY <1>5 DEF PressKey, ReleaseKey, RestTypes, segVars, endVars
  <1>6. CASE Gone \/ UNCHANGED vars
    BY <1>6 DEF Gone, vars, segVars, endVars, RestTypes
  <1> QED
    BY <1>1, <1>2, <1>3, <1>4, <1>5, <1>6 DEF Next

\* Every variable of the display and the keyboard keeps its type.
THEOREM TypeOKHolds == Spec => []TypeOK
  <1>1. SInv /\ KInv /\ RestTypes => TypeOK
    <2> SUFFICES ASSUME SInv, KInv, RestTypes PROVE TypeOK
      OBVIOUS
    <2>1. PICK q : Chain(q)
      BY DEF SInv
    <2>2. oldest_idx \in Nat
      <3>1. q # <<>> => q[1] \in 1..Len(segs) /\ Len(segs) \in Nat
        BY <2>1, ChainFacts DEF SInv
      <3> QED
        BY <2>1, <3>1 DEF Chain, IsList, NONE
    <2>3. seg_pool \in Seq(Nat)
      <3>1. DOMAIN segs \subseteq Nat
        BY FunctionOfSeq DEF SInv, SegTypes
      <3> QED
        BY <3>1 DEF SInv, SegTypes
    <2>4. Len(keys) \in Nat
      BY FunctionOfSeq DEF KInv, KeyTypes
    <2>5. kpos \in 0..Len(keys) /\ key_i \in 1..Len(keys) + 1
      BY <2>4 DEF KInv, KeyTypes
    <2> QED
      BY <2>2, <2>3, <2>5 DEF SInv, SegTypes, KInv, KeyTypes, RestTypes, TypeOK, Phases
  <1> QED
    BY <1>1, InitSInv, NextSInv, InitKInv, NextKInv, InitRest, NextRest, PTL DEF Spec

-----------------------------------------------------------------------------
(* The list in the array is a queue of lines: the display implements the    *)
(* screen of Phosphor.                                                      *)

\* A set of numbers that has zero and the next of each has them all.
LEMMA EveryNumber ==
    ASSUME NEW T, 0 \in T, \A n \in Nat : n \in T => n + 1 \in T
    PROVE  Nat \subseteq T
  <1>1. SUFFICES ASSUME Nat \ T # {} PROVE FALSE
    OBVIOUS
  <1>2. PICK x \in Nat \ T : \A y \in Nat \ T : ~(<<y, x>> \in OpToRel(<, Nat))
    BY <1>1, NatLessThanWellFounded, WFMin
  <1>3. \A y \in Nat \ T : ~(y < x)
    BY <1>2 DEF OpToRel
  <1>4. x # 0 /\ x - 1 \in Nat /\ x - 1 < x
    OBVIOUS
  <1>5. x - 1 \in T
    BY <1>3, <1>4
  <1> QED
    BY <1>4, <1>5

\* f follows the list from oldest_idx.
Follows(f) == f = [n \in Nat |-> IF n = 0 THEN oldest_idx ELSE Successor[f[n - 1]]]

\* Following the list from oldest_idx meets the places of q, then nothing.
LEMMA NthPlaces ==
    ASSUME SegTypes, NEW q, Chain(q)
    PROVE  \A n \in Nat : Nth[n] = IF n < Len(q) THEN q[n + 1] ELSE NONE
  <1> DEFINE f == [n \in Nat |-> IF n < Len(q) THEN q[n + 1] ELSE NONE]
             g == Nth
             T == {n \in Nat : g[n] = f[n]}
  <1>0. /\ Len(q) \in Nat /\ DOMAIN q = 1..Len(q) /\ DOMAIN segs = 1..Len(segs)
        /\ Len(segs) \in Nat
        /\ \A n \in 1..Len(q) : q[n] \in 1..Len(segs)
        /\ q = <<>> <=> Len(q) = 0
    BY ChainFacts
  <1>a. Len(q) \in Nat
    BY <1>0
  <1>1. /\ Successor[NONE] = NONE
        /\ \A i \in 1..Len(segs) : Successor[i] = segs[i].next
    BY <1>0 DEF Successor, NONE
  <1>2. /\ oldest_idx = IF q = <<>> THEN NONE ELSE q[1]
        /\ \A n \in 1..Len(q) :
              segs[q[n]].next = IF n = Len(q) THEN NONE ELSE q[n + 1]
    BY <1>0 DEF Chain, IsList
  <1>3. /\ \A n \in Nat : f[n] = IF n < Len(q) THEN q[n + 1] ELSE NONE
        /\ DOMAIN f = Nat /\ f = [n \in Nat |-> f[n]]
    OBVIOUS
  <1>6. g = CHOOSE h : Follows(h)
    BY DEF Nth, Follows
  <1> HIDE DEF f, g
  <1>4. ASSUME NEW n \in Nat
        PROVE  f[n] = IF n = 0 THEN oldest_idx ELSE Successor[f[n - 1]]
    <2>1. CASE n = 0
      <3>1. oldest_idx = IF Len(q) = 0 THEN NONE ELSE q[1]
        BY <1>0, <1>2
      <3> QED
        BY <1>a, <1>3, <2>1, <3>1
    <2>2. CASE n \in 1..Len(q)
      <3>0. n - 1 \in Nat /\ n - 1 < Len(q) /\ (n - 1) + 1 = n
        BY <1>0, <2>2
      <3>1. f[n - 1] = q[n] /\ q[n] \in 1..Len(segs)
        BY <1>0, <1>3, <2>2, <3>0
      <3>2. Successor[f[n - 1]] = IF n = Len(q) THEN NONE ELSE q[n + 1]
        BY <1>1, <1>2, <2>2, <3>1
      <3>3. n # 0 /\ (n < Len(q) <=> n # Len(q))
        BY <1>a, <2>2
      <3> QED
        BY <1>3, <3>2, <3>3
    <2>3. CASE n > Len(q)
      <3>1. f[n - 1] = NONE /\ f[n] = NONE /\ n # 0
        BY <1>0, <1>3, <2>3
      <3> QED
        BY <1>1, <3>1
    <2> QED
      BY <1>0, <2>1, <2>2, <2>3
  <1>5. Follows(f)
    BY <1>3, <1>4 DEF Follows
  <1>7. Follows(g)
    BY <1>5, <1>6
  <1>8. \A n \in Nat : g[n] = IF n = 0 THEN oldest_idx ELSE Successor[g[n - 1]]
    BY <1>7 DEF Follows
  <1>9. 0 \in T
    BY <1>4, <1>8
  <1>10. ASSUME NEW n \in Nat, n \in T PROVE n + 1 \in T
    <2>1. n + 1 \in Nat /\ n + 1 # 0 /\ (n + 1) - 1 = n
      OBVIOUS
    <2>2. g[n + 1] = Successor[g[n]] /\ f[n + 1] = Successor[f[n]]
      BY <1>4, <1>8, <2>1
    <2> QED
      BY <1>10, <2>1, <2>2
  <1>11. Nat \subseteq T
    <2> HIDE DEF T
    <2> QED
      BY <1>9, <1>10, EveryNumber
  <1> QED
    BY <1>3, <1>11 DEF g

\* The line that the n-th place of the list stands for.
LineAt(q, n) ==
    [from |-> segs[q[n]].start,
     to |-> IF n = Len(q) THEN cursor ELSE segs[q[n + 1]].start,
     lit |-> segs[q[n]].lit,
     age |-> segs[q[n]].age]

\* What the device draws, in terms of the list.
LEMMA DrawnLines ==
    \A q : SegTypes /\ Chain(q) => Drawn = [n \in 1..Len(q) |-> LineAt(q, n)]
  <1> SUFFICES ASSUME SegTypes, NEW q, Chain(q)
               PROVE  Drawn = [n \in 1..Len(q) |-> LineAt(q, n)]
    OBVIOUS
  <1>0. /\ Len(q) \in Nat /\ DOMAIN q = 1..Len(q) /\ DOMAIN segs = 1..Len(segs)
        /\ Len(segs) \in Nat /\ Len(seg_pool) \in Nat
        /\ \A n \in 1..Len(q) : q[n] \in 1..Len(segs)
    BY ChainFacts
  <1>a. Len(q) \in Nat
    BY <1>0
  <1>1. Len(q) <= Len(segs)
    BY <1>0 DEF Chain, HoldsAllOnce
  <1>2. ASSUME NEW n \in Nat
        PROVE  Nth[n] = IF n < Len(q) THEN q[n + 1] ELSE NONE
    BY <1>2, NthPlaces
  <1>3. ListLength = Len(q)
    <2>1. \A n \in 0..Len(segs) - 1 : Nth[n] # NONE <=> n <= Len(q) - 1
      <3> SUFFICES ASSUME NEW n \in 0..Len(segs) - 1
                   PROVE  Nth[n] # NONE <=> n <= Len(q) - 1
        OBVIOUS
      <3>1. n \in Nat
        OBVIOUS
      <3>2. CASE n < Len(q)
        <4>1. Nth[n] = q[n + 1] /\ q[n + 1] \in 1..Len(segs)
          BY <1>0, <1>2, <3>1, <3>2
        <4> QED
          BY <1>0, <3>1, <3>2, <4>1 DEF NONE
      <3>3. CASE ~(n < Len(q))
        BY <1>0, <1>2, <3>1, <3>3
      <3> QED
        BY <3>2, <3>3
    <2>2. {n \in 0..Len(segs) - 1 : Nth[n] # NONE} = 0..Len(q) - 1
      <3> DEFINE N == Nth
      <3>1. \A n \in 0..Len(segs) - 1 : N[n] # NONE <=> n <= Len(q) - 1
        BY <2>1
      <3> HIDE DEF N
      <3>2. \A n : n \in 0..Len(q) - 1 <=> n \in 0..Len(segs) - 1 /\ n <= Len(q) - 1
        BY <1>0, <1>1
      <3>3. \A n : n \in {k \in 0..Len(segs) - 1 : N[k] # NONE} <=> n \in 0..Len(q) - 1
        BY <3>1, <3>2
      <3> QED
        BY <3>3 DEF N
    <2>3. Cardinality(0..Len(q) - 1) = Len(q)
      <3>1. Len(q) - 1 \in Int /\ 0 \in Int
        BY <1>0
      <3>2. Cardinality(0..Len(q) - 1)
              = IF 0 > Len(q) - 1 THEN 0 ELSE (Len(q) - 1) - 0 + 1
        BY <3>1, FS_Interval
      <3> QED
        BY <1>0, <3>2
    <2> QED
      BY <2>2, <2>3 DEF ListLength
  <1>4. ASSUME NEW n \in 1..Len(q)
        PROVE  Line(segs[Nth[n - 1]]) = LineAt(q, n)
    <2>1. Nth[n - 1] = q[n]
      <3>1. n - 1 \in Nat /\ n - 1 < Len(q) /\ (n - 1) + 1 = n
        BY <1>0
      <3> QED
        BY <1>2, <3>1
    <2>2. segs[q[n]].next = IF n = Len(q) THEN NONE ELSE q[n + 1]
      BY <1>0 DEF Chain, IsList
    <2>3. n # Len(q) => q[n + 1] # NONE
      <3>1. n # Len(q) => n + 1 \in 1..Len(q)
        BY <1>a
      <3>2. \A i \in 1..Len(segs) : i # NONE
        BY DEF NONE
      <3> QED
        BY <1>0, <3>1, <3>2
    <2> QED
      BY <2>1, <2>2, <2>3 DEF Line, LineAt
  <1> QED
    BY <1>3, <1>4 DEF Drawn

Lines == [from : Points, to : Points, lit : BOOLEAN, age : 0..FADE + 1]

\* The lines of a list make a sequence.
LEMMA LinesTyped ==
    ASSUME SegTypes, NEW q, Chain(q)
    PROVE  /\ Len(q) \in Nat
           /\ \A n \in 1..Len(q) : LineAt(q, n) \in Lines
  <1>0. /\ Len(q) \in Nat /\ DOMAIN segs = 1..Len(segs)
        /\ \A n \in 1..Len(q) : q[n] \in 1..Len(segs)
    BY ChainFacts
  <1>a. Len(q) \in Nat
    BY <1>0
  <1>1. ASSUME NEW n \in 1..Len(q) PROVE segs[q[n]] \in Segments
    BY <1>0 DEF SegTypes
  <1>2. ASSUME NEW n \in 1..Len(q) PROVE LineAt(q, n) \in Lines
    <2>1. n # Len(q) => n + 1 \in 1..Len(q)
      BY <1>a
    <2>2. /\ segs[q[n]].start \in Points /\ segs[q[n]].lit \in BOOLEAN
          /\ segs[q[n]].age \in 0..FADE + 1
      BY <1>1 DEF Segments
    <2>3. n # Len(q) => segs[q[n + 1]].start \in Points
      BY <1>1, <2>1 DEF Segments
    <2>4. cursor \in Points
      BY DEF SegTypes
    <2> QED
      BY <2>2, <2>3, <2>4 DEF LineAt, Lines
  <1> QED
    BY <1>0, <1>2

\* A sequence with one more element is the sequence with it appended.
LEMMA Appended ==
    ASSUME NEW S, NEW s \in Seq(S), NEW x \in S, NEW t \in Seq(S),
           Len(t) = Len(s) + 1,
           \A n \in 1..Len(s) : t[n] = s[n],
           t[Len(s) + 1] = x
    PROVE  t = Append(s, x)
  <1>1. /\ Append(s, x) \in Seq(S)
        /\ Len(Append(s, x)) = Len(s) + 1
        /\ \A n \in 1..Len(s) : Append(s, x)[n] = s[n]
        /\ Append(s, x)[Len(s) + 1] = x
    BY AppendProperties
  <1>2. PICK u : u = Append(s, x)
    OBVIOUS
  <1>3. Len(s) \in Nat /\ Len(t) = Len(u) /\ Len(u) = Len(s) + 1
    BY <1>1, <1>2
  <1>4. ASSUME NEW n \in 1..Len(t) PROVE t[n] = u[n]
    <2>1. n \in 1..Len(s) \/ n = Len(s) + 1
      BY <1>3
    <2> QED
      BY <1>1, <1>2, <2>1
  <1> QED
    BY <1>1, <1>2, <1>3, <1>4, SeqEqual

\* A sequence without its first element is its tail.
LEMMA Beheaded ==
    ASSUME NEW S, NEW s \in Seq(S), NEW t \in Seq(S),
           s # <<>>,
           Len(t) = Len(s) - 1,
           \A n \in 1..Len(t) : t[n] = s[n + 1]
    PROVE  t = Tail(s)
  <1>1. /\ Tail(s) \in Seq(S)
        /\ Len(Tail(s)) = Len(s) - 1
        /\ \A n \in 1..Len(Tail(s)) : Tail(s)[n] = s[n + 1]
    BY HeadTailProperties
  <1>2. PICK u : u = Tail(s)
    OBVIOUS
  <1>3. Len(t) = Len(u) /\ \A n \in 1..Len(t) : t[n] = u[n]
    BY <1>1, <1>2
  <1> QED
    BY <1>1, <1>2, <1>3, SeqEqual

\* What the device draws after a step, in terms of the list after it.
LEMMA DrawnNext ==
    (\A q : SegTypes /\ Chain(q) => Drawn = [n \in 1..Len(q) |-> LineAt(q, n)])'
  BY DrawnLines, PTL

LEMMA LinesTypedNext ==
    (\A q : SegTypes /\ Chain(q) => 
        Len(q) \in Nat /\ \A n \in 1..Len(q) : LineAt(q, n) \in Lines)'
  <1>1. \A q : SegTypes /\ Chain(q) => 
            Len(q) \in Nat /\ \A n \in 1..Len(q) : LineAt(q, n) \in Lines
    BY LinesTyped
  <1> QED
    BY <1>1, PTL

\* A move of the ray draws one line, and the last one before it, which ended
\* at the cursor, ends where the new one begins.
LEMMA MoveDraws ==
    ASSUME SInv, NEW to \in Points, NEW stroke \in BOOLEAN, Move(to, stroke)
    PROVE  Screen!Draw(to, stroke)
  <1>0. SegTypes /\ cursor \in Points /\ cursor' = to
    BY DEF SInv, SegTypes, Move
  <1>q. PICK q : Chain(q)
    BY DEF SInv
  <1>n. PICK new : new = NewIndex
    OBVIOUS
  <1>1. SegTypes' /\ \E r : r = Append(q, new) /\ Chain(r)'
    BY <1>0, <1>q, <1>n, MoveAppends
  <1>r. PICK r : r = Append(q, new) /\ Chain(r)'
    BY <1>1
  <1>2. /\ Len(q) \in Nat /\ q \in Seq(DOMAIN segs)
        /\ \A n \in 1..Len(q) : q[n] \in 1..Len(segs) /\ q[n] # new
    BY <1>0, <1>q, <1>n, ChainFacts, NewIndexIsFree
  <1>a. Len(q) \in Nat
    BY <1>2
  <1>3. /\ Len(r) = Len(q) + 1
        /\ \A n \in 1..Len(q) : r[n] = q[n]
        /\ r[Len(q) + 1] = new
    <2>1. q \in Seq(DOMAIN segs \cup {new}) /\ new \in DOMAIN segs \cup {new}
      BY <1>2
    <2> QED
      BY <1>r, <2>1, AppendProperties
  <1>4. /\ Len(segs) <= Len(segs') /\ Len(segs) \in Nat /\ Len(segs') \in Nat
        /\ new \in 1..Len(segs')
    <2>1. Len(segs') = IF seg_pool = <<>> THEN Len(segs) + 1 ELSE Len(segs)
      BY <1>0, <1>q, MovedPlaces
    <2>2. Len(segs) \in Nat /\ (seg_pool # <<>> => new \in 1..Len(segs))
      BY <1>0, <1>q, <1>n, ChainFacts DEF NewIndex
    <2>3. seg_pool = <<>> => new = Len(segs) + 1
      BY <1>n DEF NewIndex
    <2> QED
      BY <2>1, <2>2, <2>3
  <1>5. \A i \in 1..Len(segs') :
           /\ segs'[i].age = IF i = new THEN 0 ELSE segs[i].age
           /\ segs'[i].start = IF i = new THEN cursor ELSE segs[i].start
           /\ segs'[i].lit = IF i = new THEN stroke ELSE segs[i].lit
    BY <1>0, <1>q, <1>n, MovedPlaces
  <1>6. ASSUME NEW n \in 1..Len(q)
        PROVE  LineAt(r, n)' = LineAt(q, n)
    <2>1. r[n] = q[n] /\ q[n] \in 1..Len(segs') /\ q[n] # new
      BY <1>2, <1>3, <1>4
    <2>2. /\ segs'[r[n]].age = segs[q[n]].age
          /\ segs'[r[n]].start = segs[q[n]].start
          /\ segs'[r[n]].lit = segs[q[n]].lit
      BY <1>5, <2>1
    <2>3. n # Len(r)
      BY <1>a, <1>3
    <2>4. segs'[r[n + 1]].start = IF n = Len(q) THEN cursor ELSE segs[q[n + 1]].start
      <3>1. CASE n = Len(q)
        BY <1>3, <1>4, <1>5, <3>1
      <3>2. CASE n # Len(q)
        <4>1. n + 1 \in 1..Len(q)
          BY <1>a, <3>2
        <4>2. r[n + 1] = q[n + 1] /\ q[n + 1] \in 1..Len(segs') /\ q[n + 1] # new
          BY <1>2, <1>3, <1>4, <4>1
        <4> QED
          BY <1>5, <3>2, <4>2
      <3> QED
        BY <3>1, <3>2
    <2> QED
      BY <2>2, <2>3, <2>4 DEF LineAt
  <1>7. LineAt(r, Len(r))' = Screen!Line(cursor, to, stroke)
    <2>1. r[Len(r)] = new
      BY <1>3
    <2>2. /\ segs'[new].age = 0 /\ segs'[new].start = cursor /\ segs'[new].lit = stroke
      BY <1>4, <1>5
    <2> QED
      BY <1>0, <2>1, <2>2 DEF LineAt, Screen!Line
  <1>8. PICK x : x = Screen!Line(cursor, to, stroke)
    OBVIOUS
  <1>9. x \in Lines
    BY <1>0, <1>8, CrtAssumption DEF Lines, Screen!Line
  <1>10. PICK s : s = [n \in 1..Len(q) |-> LineAt(q, n)]
    OBVIOUS
  <1>11. s \in Seq(Lines) /\ Len(s) = Len(q) /\ \A n \in 1..Len(q) : s[n] = LineAt(q, n)
    <2>1. s \in [1..Len(q) -> Lines]
      BY <1>0, <1>q, <1>10, LinesTyped
    <2>2. \A n \in 1..Len(q) : s[n] = LineAt(q, n)
      BY <1>10
    <2> QED
      BY <1>a, <2>1, <2>2, SeqOfFunction
  <1>12. PICK t : t = [n \in 1..Len(r) |-> LineAt(r, n)']
    OBVIOUS
  <1>13. t \in Seq(Lines) /\ Len(t) = Len(r) /\ \A n \in 1..Len(r) : t[n] = LineAt(r, n)'
    <2>1. \A n \in 1..Len(r) : LineAt(r, n)' \in Lines
      BY <1>1, <1>r, LinesTypedNext DEF Lines
    <2>2. Len(r) \in Nat
      BY <1>a, <1>3
    <2>3. t \in [1..Len(r) -> Lines]
      BY <1>12, <2>1
    <2>4. \A n \in 1..Len(r) : t[n] = LineAt(r, n)'
      BY <1>12
    <2> QED
      BY <2>2, <2>3, <2>4, SeqOfFunction
  <1>14. t = Append(s, x)
    <2>1. /\ Len(t) = Len(s) + 1
          /\ \A n \in 1..Len(s) : n \in 1..Len(r)
          /\ Len(s) + 1 = Len(r) /\ Len(r) \in 1..Len(r)
      BY <1>a, <1>3, <1>11, <1>13
    <2>2. \A n \in 1..Len(s) : t[n] = s[n]
      BY <1>6, <1>11, <1>13, <2>1
    <2>3. t[Len(s) + 1] = x
      BY <1>7, <1>8, <1>13, <2>1
    <2> QED
      BY <1>9, <1>11, <1>13, <2>1, <2>2, <2>3, Appended
  <1>15. Drawn = s
    BY <1>0, <1>q, <1>10, DrawnLines
  <1>16. Drawn' = t
    BY <1>1, <1>r, <1>12, DrawnNext
  <1> QED
    BY <1>0, <1>8, <1>14, <1>15, <1>16 DEF Screen!Draw

\* Time makes every line older.
LEMMA TimeAges ==
    ASSUME SInv, TimePasses
    PROVE  Screen!Age
  <1>0. SegTypes
    BY DEF SInv
  <1>q. PICK q : Chain(q)
    BY DEF SInv
  <1>1. /\ SegTypes' /\ Chain(q)' /\ cursor' = cursor
        /\ \A i \in DOMAIN segs :
              segs'[i] = [segs[i] EXCEPT !.age = Older(segs[i].age, FADE + 1)]
    BY <1>0, <1>q, TimeKeeps DEF TimePasses
  <1>2. /\ Len(q) \in Nat
        /\ \A n \in 1..Len(q) : q[n] \in DOMAIN segs
    BY <1>0, <1>q, ChainFacts
  <1>a. Len(q) \in Nat
    BY <1>2
  <1>3. ASSUME NEW i \in DOMAIN segs
        PROVE  /\ segs'[i].start = segs[i].start
               /\ segs'[i].lit = segs[i].lit
               /\ segs'[i].age = IF segs[i].age > FADE THEN segs[i].age
                                 ELSE segs[i].age + 1
    <2>1. segs[i] \in Segments
      BY <1>0, <1>3 DEF SegTypes
    <2>2. segs'[i] = [segs[i] EXCEPT !.age = Older(segs[i].age, FADE + 1)]
      BY <1>1, <1>3
    <2>3. segs[i].age \in 0..FADE + 1
      BY <2>1 DEF Segments
    <2>4. Older(segs[i].age, FADE + 1) = IF segs[i].age > FADE THEN segs[i].age
                                         ELSE segs[i].age + 1
      BY <2>3, CrtAssumption DEF Older
    <2> QED
      BY <2>1, <2>2, <2>4 DEF Segments
  <1>4. ASSUME NEW n \in 1..Len(q)
        PROVE  LineAt(q, n)' =
                 [LineAt(q, n) EXCEPT !.age = IF @ > FADE THEN @ ELSE @ + 1]
    <2>1. /\ segs'[q[n]].start = segs[q[n]].start
          /\ segs'[q[n]].lit = segs[q[n]].lit
          /\ segs'[q[n]].age = IF segs[q[n]].age > FADE THEN segs[q[n]].age
                               ELSE segs[q[n]].age + 1
      BY <1>2, <1>3
    <2>2. n # Len(q) => n + 1 \in 1..Len(q)
      BY <1>a
    <2>3. n # Len(q) => segs'[q[n + 1]].start = segs[q[n + 1]].start
      BY <1>2, <1>3, <2>2
    <2> QED
      BY <1>1, <2>1, <2>3 DEF LineAt
  <1>5. PICK s : s = [n \in 1..Len(q) |-> LineAt(q, n)]
    OBVIOUS
  <1>6. DOMAIN s = 1..Len(q) /\ \A n \in 1..Len(q) : s[n] = LineAt(q, n)
    BY <1>5
  <1>7. [n \in 1..Len(q) |-> LineAt(q, n)'] =
          [n \in DOMAIN s |-> [s[n] EXCEPT !.age = IF @ > FADE THEN @ ELSE @ + 1]]
    BY <1>4, <1>6
  <1>8. Drawn = s
    BY <1>0, <1>q, <1>5, DrawnLines
  <1>9. Drawn' = [n \in 1..Len(q) |-> LineAt(q, n)']
    BY <1>1, DrawnNext
  <1> QED
    BY <1>1, <1>7, <1>8, <1>9 DEF Screen!Age

\* A round of the recycling loop forgets the oldest line, which has faded.
LEMMA RecycleForgets ==
    ASSUME SInv, Recycle
    PROVE  Screen!Forget
  <1>0. SegTypes /\ segs' = segs /\ cursor' = cursor /\ Expired(oldest_idx)
    BY DEF SInv, Recycle
  <1>q. PICK q : Chain(q)
    BY DEF SInv
  <1>1. SegTypes' /\ q # <<>> /\ \E r : r = Tail(q) /\ Chain(r)'
    BY <1>0, <1>q, RecycleTakesHead
  <1>r. PICK r : r = Tail(q) /\ Chain(r)'
    BY <1>1
  <1>2. Len(q) \in Nat /\ q \in Seq(DOMAIN segs) /\ (q = <<>> <=> Len(q) = 0)
    BY <1>0, <1>q, ChainFacts
  <1>a. Len(q) \in Nat /\ Len(q) # 0
    BY <1>1, <1>2
  <1>3. /\ Len(r) = Len(q) - 1
        /\ \A n \in 1..Len(r) : r[n] = q[n + 1]
    BY <1>1, <1>2, <1>r, HeadTailProperties
  <1>b. Len(r) \in Nat
    BY <1>a, <1>3
  <1>4. ASSUME NEW n \in 1..Len(r)
        PROVE  LineAt(r, n)' = LineAt(q, n + 1)
    <2>1. r[n] = q[n + 1] /\ (n = Len(r) <=> n + 1 = Len(q))
      BY <1>a, <1>3
    <2>2. n # Len(r) => r[n + 1] = q[n + 1 + 1]
      <3>1. n # Len(r) => n + 1 \in 1..Len(r)
        BY <1>b
      <3> QED
        BY <1>3, <3>1
    <2> QED
      BY <1>0, <2>1, <2>2 DEF LineAt
  <1>5. PICK s : s = [n \in 1..Len(q) |-> LineAt(q, n)]
    OBVIOUS
  <1>6. /\ s \in Seq(Lines) /\ Len(s) = Len(q)
        /\ \A n \in 1..Len(q) : s[n] = LineAt(q, n)
    <2>1. s \in [1..Len(q) -> Lines]
      BY <1>0, <1>q, <1>5, LinesTyped
    <2>2. \A n \in 1..Len(q) : s[n] = LineAt(q, n)
      BY <1>5
    <2> QED
      BY <1>a, <2>1, <2>2, SeqOfFunction
  <1>7. PICK t : t = [n \in 1..Len(r) |-> LineAt(r, n)']
    OBVIOUS
  <1>8. t \in Seq(Lines) /\ Len(t) = Len(r) /\ \A n \in 1..Len(r) : t[n] = LineAt(r, n)'
    <2>1. \A n \in 1..Len(r) : LineAt(r, n)' \in Lines
      BY <1>1, <1>r, LinesTypedNext DEF Lines
    <2>2. t \in [1..Len(r) -> Lines]
      BY <1>7, <2>1
    <2>3. \A n \in 1..Len(r) : t[n] = LineAt(r, n)'
      BY <1>7
    <2> QED
      BY <1>b, <2>2, <2>3, SeqOfFunction
  <1>9. s # <<>> /\ Head(s) = s[1] /\ 1 \in 1..Len(q)
    BY <1>a, <1>6
  <1>10. t = Tail(s)
    <2>1. \A n \in 1..Len(t) : n + 1 \in 1..Len(q) /\ n \in 1..Len(r)
      BY <1>a, <1>3, <1>8
    <2>2. \A n \in 1..Len(t) : t[n] = s[n + 1]
      BY <1>4, <1>6, <1>8, <2>1
    <2>3. Len(t) = Len(s) - 1
      BY <1>3, <1>6, <1>8
    <2> QED
      BY <1>6, <1>8, <1>9, <2>2, <2>3, Beheaded
  <1>11. Head(s).age > FADE
    <2>1. oldest_idx = q[1]
      BY <1>1, <1>q DEF Chain, IsList
    <2>2. s[1] = LineAt(q, 1)
      BY <1>6, <1>9
    <2> QED
      BY <1>0, <1>9, <2>1, <2>2 DEF LineAt, Expired
  <1>12. Drawn = s
    BY <1>0, <1>q, <1>5, DrawnLines
  <1>13. Drawn' = t
    BY <1>1, <1>r, <1>7, DrawnNext
  <1> QED
    BY <1>0, <1>9, <1>10, <1>11, <1>12, <1>13 DEF Screen!Forget

\* A step that leaves the list as it is leaves the screen as it is.
LEMMA SameLines ==
    ASSUME SegTypes, NEW q, Chain(q), SegTypes', Chain(q)',
           segs' = segs, cursor' = cursor
    PROVE  UNCHANGED <<Drawn, cursor>>
  <1>1. Drawn = [n \in 1..Len(q) |-> LineAt(q, n)]
    BY DrawnLines
  <1>2. Drawn' = [n \in 1..Len(q) |-> LineAt(q, n)']
    BY DrawnNext
  <1>3. \A n \in 1..Len(q) : LineAt(q, n)' = LineAt(q, n)
    BY DEF LineAt
  <1> QED
    BY <1>1, <1>2, <1>3

\* At first nothing is drawn.
LEMMA NothingDrawn == Init => Screen!Init
  <1> SUFFICES ASSUME Init PROVE Screen!Init
    OBVIOUS
  <1>1. SegTypes
    BY InitSInv DEF SInv
  <1>2. PICK q : Chain(q)
    BY InitSInv DEF SInv
  <1>3. Drawn = [n \in 1..Len(q) |-> LineAt(q, n)]
    BY <1>1, <1>2, DrawnLines
  <1>4. Len(q) = 0
    <2>1. Len(segs) = 0 /\ Len(seg_pool) = 0
      BY DEF Init
    <2>2. Len(q) \in Nat /\ Len(q) + Len(seg_pool) = Len(segs)
      BY <1>1, <1>2, ChainFacts DEF Chain, HoldsAllOnce
    <2> QED
      BY <2>1, <2>2
  <1>5. Drawn = <<>>
    <2>1. 1..Len(q) = {}
      BY <1>4
    <2> QED
      BY <1>3, <2>1
  <1> QED
    BY <1>5 DEF Init, Screen!Init

\* Every step of the device draws, ages or forgets a line, or changes nothing
\* that is seen.
LEMMA StepsOfTheScreen == SInv /\ [Next]_vars => [Screen!Next]_(Screen!vars)
  <1> SUFFICES ASSUME SInv, [Next]_vars PROVE [Screen!Next]_(Screen!vars)
    OBVIOUS
  <1>0. SegTypes
    BY DEF SInv
  <1>q. PICK q : Chain(q)
    BY DEF SInv
  <1>1. ASSUME NEW to \in Points, NEW stroke \in BOOLEAN, Move(to, stroke)
        PROVE  [Screen!Next]_(Screen!vars)
    BY <1>1, MoveDraws DEF Screen!Next
  <1>2. CASE TimePasses
    BY <1>2, TimeAges DEF Screen!Next
  <1>3. CASE Recycle
    BY <1>3, RecycleForgets DEF Screen!Next
  <1>4. CASE FadeDone
    <2>1. SegTypes' /\ Chain(q)' /\ segs' = segs /\ cursor' = cursor
      BY <1>0, <1>q, <1>4, FadeDoneKeeps DEF FadeDone
    <2>2. UNCHANGED <<Drawn, cursor>>
      BY <1>0, <1>q, <2>1, SameLines
    <2> QED
      BY <2>2 DEF Screen!vars
  <1>5. CASE /\ ~TimePasses /\ ~Recycle /\ ~FadeDone
             /\ ~\E to \in Points, stroke \in BOOLEAN : Move(to, stroke)
    <2>1. /\ UNCHANGED <<segs, seg_pool, oldest_idx, newest_idx, cursor>>
          /\ phase' \in Phases
          /\ phase = "fade" => phase' = "fade"
      BY <1>0, <1>5, LeavesSegments
    <2>2. SegTypes' /\ Chain(q)'
      BY <1>0, <1>q, <2>1, OthersKeep
    <2>3. UNCHANGED <<Drawn, cursor>>
      BY <1>0, <1>q, <2>1, <2>2, SameLines
    <2> QED
      BY <2>3 DEF Screen!vars
  <1> QED
    BY <1>1, <1>2, <1>3, <1>4, <1>5

\* The linked list with its pool of free places is the queue of lines that
\* the program has drawn: in order, end to end, none lost while it is visible
\* and none drawn twice (crt.c:23-83, 292-329).
THEOREM DisplayIsAScreen == Spec => ImplementsPhosphor
  <1> QED
    BY NothingDrawn, StepsOfTheScreen, InitSInv, NextSInv, PTL
       DEF Spec, ImplementsPhosphor, Screen!Spec

=============================================================================
