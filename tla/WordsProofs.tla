---------------------------- MODULE WordsProofs ----------------------------
(***************************************************************************)
(* What the provers have to be told of Words: its powers of two and its     *)
(* sums are recursive functions, its words wrap around, and a word is the   *)
(* sum of its bytes.                                                        *)
(***************************************************************************)
EXTENDS Words, NaturalsInduction, WellFoundedInduction, TLAPS

-----------------------------------------------------------------------------
(* Induction.                                                               *)

\* A set with 0 and the successor of each of its numbers has all of them.
LEMMA AllNumbers ==
    ASSUME NEW T, 0 \in T, \A n \in Nat : n \in T => n + 1 \in T
    PROVE  Nat \subseteq T
  <1>1. SUFFICES ASSUME Nat \ T # {} PROVE FALSE
    OBVIOUS
  <1>2. PICK x \in Nat \ T : \A y \in Nat \ T : ~(<<y, x>> \in OpToRel(<, Nat))
    BY <1>1, NatLessThanWellFounded, WFMin
  <1>3. \A y \in Nat \ T : ~(y < x)
    BY <1>2 DEF OpToRel
  <1>4. x # 0 /\ x - 1 \in Nat /\ x - 1 < x
    OBVIOUS
  <1>5. x - 1 \in T
    BY <1>3, <1>4
  <1> QED
    BY <1>4, <1>5

-----------------------------------------------------------------------------
(* Powers of two.                                                           *)

\* f is the powers of two up to the one of n.
Doubles(f, n) == f = [k \in 0..n |-> IF k = 0 THEN 1 ELSE 2 * f[k - 1]]

LEMMA PowersExist == \A n \in Nat : \E f \in [0..n -> Nat \ {0}] : Doubles(f, n)
  <1> DEFINE T == {n \in Nat : \E f \in [0..n -> Nat \ {0}] : Doubles(f, n)}
  <1>1. 0 \in T
    <2> DEFINE f == [k \in 0..0 |-> 1]
    <2>1. f \in [0..0 -> Nat \ {0}] /\ Doubles(f, 0)
      BY DEF Doubles
    <2> QED
      BY <2>1
  <1>2. ASSUME NEW n \in Nat, n \in T PROVE n + 1 \in T
    <2>1. PICK f \in [0..n -> Nat \ {0}] : Doubles(f, n)
      BY <1>2
    <2> DEFINE g == [k \in 0..n + 1 |-> IF k = n + 1 THEN 2 * f[n] ELSE f[k]]
    <2>2. g \in [0..n + 1 -> Nat \ {0}]
      OBVIOUS
    <2>3. ASSUME NEW k \in 0..n + 1 PROVE g[k] = IF k = 0 THEN 1 ELSE 2 * g[k - 1]
      <3>1. CASE k = n + 1
        BY <3>1
      <3>2. CASE k \in 0..n
        <4>1. f[k] = IF k = 0 THEN 1 ELSE 2 * f[k - 1]
          BY <2>1, <3>2 DEF Doubles
        <4> QED
          BY <3>2, <4>1
      <3> QED
        BY <3>1, <3>2
    <2>4. Doubles(g, n + 1)
      <3> HIDE DEF g
      <3> QED
        BY <2>2, <2>3 DEF Doubles
    <2> QED
      BY <2>2, <2>4
  <1> HIDE DEF T
  <1>3. Nat \subseteq T
    BY <1>1, <1>2, AllNumbers
  <1> QED
    BY <1>3 DEF T

LEMMA WidthType == WORD \in Nat \ {0} /\ BYTE_BITS \in Nat \ {0} /\ BITS \in Nat \ {0}
  BY WordAssumption DEF BITS

LEMMA PowerDefined == Doubles(Power2, BITS)
  <1>1. PICK f : Doubles(f, BITS)
    BY PowersExist, WidthType
  <1>2. Power2 = CHOOSE g : Doubles(g, BITS)
    BY DEF Power2, Doubles
  <1> QED
    BY <1>1, <1>2

LEMMA PowerStep ==
    /\ DOMAIN Power2 = 0..BITS
    /\ Power2[0] = 1
    /\ \A n \in 1..BITS : Power2[n] = 2 * Power2[n - 1]
  <1> DEFINE P == Power2
  <1>1. P = [k \in 0..BITS |-> IF k = 0 THEN 1 ELSE 2 * P[k - 1]]
    BY PowerDefined DEF Doubles
  <1> HIDE DEF P
  <1>2. DOMAIN P = 0..BITS /\ P[0] = 1 /\ \A n \in 1..BITS : P[n] = 2 * P[n - 1]
    BY <1>1, WidthType
  <1> QED
    BY <1>2 DEF P

\* Powers are positive numbers.
LEMMA PowerType == Power2 \in [0..BITS -> Nat \ {0}]
  <1> DEFINE P == Power2
             T == {n \in Nat : n <= BITS => P[n] \in Nat \ {0}}
  <1>0. /\ DOMAIN P = 0..BITS /\ P[0] = 1 /\ \A n \in 1..BITS : P[n] = 2 * P[n - 1]
        /\ P = [k \in 0..BITS |-> IF k = 0 THEN 1 ELSE 2 * P[k - 1]]
    BY PowerStep, PowerDefined DEF Doubles
  <1> HIDE DEF P
  <1>1. 0 \in T
    BY <1>0
  <1>2. ASSUME NEW n \in Nat, n \in T PROVE n + 1 \in T
    <2>1. SUFFICES ASSUME n + 1 <= BITS PROVE P[n + 1] \in Nat \ {0}
      OBVIOUS
    <2>2. n + 1 \in 1..BITS /\ (n + 1) - 1 = n /\ n <= BITS
      BY <2>1, WidthType
    <2>3. P[n + 1] = 2 * P[n]
      BY <1>0, <2>2
    <2> QED
      BY <1>2, <2>2, <2>3
  <1>3. Nat \subseteq T
    <2> HIDE DEF T
    <2> QED
      BY <1>1, <1>2, AllNumbers
  <1>4. \A n \in 0..BITS : P[n] \in Nat \ {0}
    BY <1>3, WidthType
  <1> QED
    BY <1>0, <1>4 DEF P

\* The power of a sum is the product of the powers.
LEMMA PowerSum ==
    ASSUME NEW a \in Nat, NEW b \in Nat, a + b <= BITS
    PROVE  Power2[a + b] = Power2[a] * Power2[b]
  <1> DEFINE P == Power2
             T == {n \in Nat : a + n <= BITS => P[a + n] = P[a] * P[n]}
  <1>0. /\ P \in [0..BITS -> Nat \ {0}] /\ P[0] = 1
        /\ \A n \in 1..BITS : P[n] = 2 * P[n - 1]
    BY PowerStep, PowerType
  <1>w. BITS \in Nat
    BY WidthType
  <1> HIDE DEF P
  <1>1. 0 \in T
    <2>1. a <= BITS => P[a] \in Nat
      BY <1>0, <1>w
    <2> QED
      BY <1>0, <2>1
  <1>2. ASSUME NEW n \in Nat, n \in T PROVE n + 1 \in T
    <2>1. SUFFICES ASSUME a + (n + 1) <= BITS PROVE P[a + (n + 1)] = P[a] * P[n + 1]
      OBVIOUS
    <2>2. P[a + (n + 1)] = 2 * P[a + n] /\ P[n + 1] = 2 * P[n]
      <3>1. a + (n + 1) \in 1..BITS /\ n + 1 \in 1..BITS
        BY <2>1, <1>w
      <3>2. (a + (n + 1)) - 1 = a + n /\ (n + 1) - 1 = n
        OBVIOUS
      <3> QED
        BY <1>0, <3>1, <3>2
    <2>3. P[a + n] = P[a] * P[n]
      BY <1>2, <2>1, <1>w
    <2>4. P[a] \in Nat /\ P[n] \in Nat
      BY <1>0, <2>1, <1>w
    <2>5. \A x, y \in Nat : 2 * (x * y) = x * (2 * y)
      OBVIOUS
    <2> QED
      BY <2>2, <2>3, <2>4, <2>5
  <1>3. Nat \subseteq T
    <2> HIDE DEF T
    <2> QED
      BY <1>1, <1>2, AllNumbers
  <1> QED
    BY <1>3 DEF P


-----------------------------------------------------------------------------
(* Sums.                                                                    *)

\* f is the sums of t up to the one of n terms.
Sums(t, f, n) == f = [k \in 0..n |-> IF k = 0 THEN 0 ELSE f[k - 1] + t[k - 1]]

LEMMA SumsExist ==
    ASSUME NEW t, NEW n \in Nat, \A k \in 0..n - 1 : t[k] \in Int
    PROVE  \E f \in [0..n -> Int] : Sums(t, f, n)
  <1> DEFINE T == {j \in Nat : j <= n => \E f \in [0..j -> Int] : Sums(t, f, j)}
  <1>1. 0 \in T
    <2> DEFINE f == [k \in 0..0 |-> 0]
    <2>1. f \in [0..0 -> Int] /\ Sums(t, f, 0)
      BY DEF Sums
    <2> QED
      BY <2>1
  <1>2. ASSUME NEW j \in Nat, j \in T PROVE j + 1 \in T
    <2>1. SUFFICES ASSUME j + 1 <= n
                   PROVE  \E f \in [0..j + 1 -> Int] : Sums(t, f, j + 1)
      OBVIOUS
    <2>2. PICK f \in [0..j -> Int] : Sums(t, f, j)
      BY <1>2, <2>1
    <2> DEFINE g == [k \in 0..j + 1 |-> IF k = j + 1 THEN f[j] + t[j] ELSE f[k]]
    <2>3. t[j] \in Int
      BY <2>1
    <2>4. g \in [0..j + 1 -> Int]
      BY <2>3
    <2>5. ASSUME NEW k \in 0..j + 1
          PROVE  g[k] = IF k = 0 THEN 0 ELSE g[k - 1] + t[k - 1]
      <3>1. CASE k = j + 1
        BY <3>1
      <3>2. CASE k \in 0..j
        <4>1. f[k] = IF k = 0 THEN 0 ELSE f[k - 1] + t[k - 1]
          BY <2>2, <3>2 DEF Sums
        <4> QED
          BY <3>2, <4>1
      <3> QED
        BY <3>1, <3>2
    <2>6. Sums(t, g, j + 1)
      <3> HIDE DEF g
      <3> QED
        BY <2>4, <2>5 DEF Sums
    <2> QED
      BY <2>4, <2>6
  <1> HIDE DEF T
  <1>3. n \in T
    BY <1>1, <1>2, AllNumbers
  <1> QED
    BY <1>3 DEF T

\* What any function of sums does.
LEMMA SumsStep ==
    ASSUME NEW t, NEW f, NEW n \in Nat, Sums(t, f, n)
    PROVE  f[0] = 0 /\ \A k \in 1..n : f[k] = f[k - 1] + t[k - 1]
  BY DEF Sums

\* There is one function of sums of n terms, and what it says of fewer terms is
\* the same.
LEMMA SumsAgree ==
    ASSUME NEW t, NEW f, NEW g, NEW j \in Nat, NEW n \in j..j + 1,
           Sums(t, f, j), Sums(t, g, n)
    PROVE  f[j] = g[j]
  <1> DEFINE T == {k \in Nat : k <= j => f[k] = g[k]}
  <1>1. /\ f[0] = 0 /\ \A k \in 1..j : f[k] = f[k - 1] + t[k - 1]
        /\ g[0] = 0 /\ \A k \in 1..n : g[k] = g[k - 1] + t[k - 1]
    BY SumsStep
  <1>2. 0 \in T
    BY <1>1
  <1>3. ASSUME NEW k \in Nat, k \in T PROVE k + 1 \in T
    <2>1. SUFFICES ASSUME k + 1 <= j PROVE f[k + 1] = g[k + 1]
      OBVIOUS
    <2>2. k + 1 \in 1..j /\ k + 1 \in 1..n /\ (k + 1) - 1 = k
      BY <2>1
    <2>3. f[k + 1] = f[k] + t[k] /\ g[k + 1] = g[k] + t[k]
      BY <1>1, <2>2
    <2> QED
      BY <1>3, <2>1, <2>3
  <1> HIDE DEF T
  <1>4. j \in T
    BY <1>2, <1>3, AllNumbers
  <1> QED
    BY <1>4 DEF T

LEMMA SumIsLast ==
    ASSUME NEW t, NEW n \in Nat, \A k \in 0..n - 1 : t[k] \in Int
    PROVE  \E f \in [0..n -> Int] : Sums(t, f, n) /\ SumTo(t, n) = f[n]
  <1> DEFINE f == CHOOSE f : Sums(t, f, n)
  <1>1. PICK g \in [0..n -> Int] : Sums(t, g, n)
    BY SumsExist
  <1>2. Sums(t, f, n)
    BY <1>1
  <1>3. SumTo(t, n) = f[n]
    BY DEF SumTo, Sums
  <1> HIDE DEF f
  <1>4. \A j \in 0..n : f[j] = g[j]
    <2> DEFINE T == {j \in Nat : j <= n => f[j] = g[j]}
    <2>1. /\ f[0] = 0 /\ \A k \in 1..n : f[k] = f[k - 1] + t[k - 1]
          /\ g[0] = 0 /\ \A k \in 1..n : g[k] = g[k - 1] + t[k - 1]
      BY <1>1, <1>2, SumsStep
    <2>2. 0 \in T
      BY <2>1
    <2>3. ASSUME NEW j \in Nat, j \in T PROVE j + 1 \in T
      <3>1. SUFFICES ASSUME j + 1 <= n PROVE f[j + 1] = g[j + 1]
        OBVIOUS
      <3>2. j + 1 \in 1..n /\ (j + 1) - 1 = j
        BY <3>1
      <3>3. f[j + 1] = f[j] + t[j] /\ g[j + 1] = g[j] + t[j]
        BY <2>1, <3>2
      <3> QED
        BY <2>3, <3>1, <3>3
    <2> HIDE DEF T
    <2>4. Nat \subseteq T
      BY <2>2, <2>3, AllNumbers
    <2> QED
      BY <2>4 DEF T
  <1>5. DOMAIN f = 0..n /\ f = [k \in 0..n |-> f[k]]
    BY <1>2 DEF Sums
  <1>6. f \in [0..n -> Int]
    BY <1>4, <1>5
  <1> QED
    BY <1>2, <1>3, <1>6

\* No terms add up to 0, and one more term is added.
LEMMA SumOfNone ==
    ASSUME NEW t
    PROVE  SumTo(t, 0) = 0
  <1>0. \A k \in 0..0 - 1 : t[k] \in Int
    OBVIOUS
  <1>1. PICK f \in [0..0 -> Int] : Sums(t, f, 0) /\ SumTo(t, 0) = f[0]
    BY <1>0, SumIsLast
  <1> QED
    BY <1>1, SumsStep

LEMMA SumOfMore ==
    ASSUME NEW t, NEW n \in Nat, \A k \in 0..n : t[k] \in Int
    PROVE  SumTo(t, n + 1) = SumTo(t, n) + t[n]
  <1>0. n + 1 \in Nat /\ 0..(n + 1) - 1 = 0..n /\ \A k \in 0..n - 1 : t[k] \in Int
    OBVIOUS
  <1>1. PICK f \in [0..n -> Int] : Sums(t, f, n) /\ SumTo(t, n) = f[n]
    BY <1>0, SumIsLast
  <1>2. PICK g \in [0..n + 1 -> Int] : Sums(t, g, n + 1) /\ SumTo(t, n + 1) = g[n + 1]
    BY <1>0, SumIsLast
  <1>3. f[n] = g[n]
    <2>1. n + 1 \in n..n + 1
      OBVIOUS
    <2> QED
      BY <1>1, <1>2, <2>1, SumsAgree
  <1>4. n + 1 \in 1..n + 1 /\ (n + 1) - 1 = n
    OBVIOUS
  <1>5. g[n + 1] = g[n] + t[n]
    BY <1>2, <1>4, SumsStep
  <1> QED
    BY <1>1, <1>2, <1>3, <1>5

LEMMA SumType ==
    ASSUME NEW t, NEW n \in Nat, \A k \in 0..n - 1 : t[k] \in Int
    PROVE  SumTo(t, n) \in Int
  BY SumIsLast


-----------------------------------------------------------------------------
(* Division with a rest.                                                    *)

LEMMA DivMod ==
    ASSUME NEW a \in Int, NEW b \in Nat \ {0}
    PROVE  /\ a \div b \in Int /\ a % b \in 0..b - 1
           /\ a = b * (a \div b) + (a % b)
  OBVIOUS

\* A product less than one of its factors is of 0.
LEMMA SmallMultiple ==
    ASSUME NEW b \in Nat \ {0}, NEW x \in Int, b * x < b, -b < b * x
    PROVE  x = 0
  <1>1. CASE x >= 1
    <2>1. \A y \in Nat : b * (y + 1) = b * y + b /\ b * y >= 0
      OBVIOUS
    <2>2. x - 1 \in Nat /\ (x - 1) + 1 = x
      BY <1>1
    <2>3. b * x >= b
      BY <2>1, <2>2
    <2> QED
      BY <2>3
  <1>2. CASE x <= -1
    <2>1. \A y \in Nat : b * (-1 - y) = -b - b * y /\ b * y >= 0
      OBVIOUS
    <2>2. -1 - x \in Nat /\ -1 - (-1 - x) = x
      BY <1>2
    <2>3. b * x <= -b
      BY <2>1, <2>2
    <2> QED
      BY <2>3
  <1> QED
    BY <1>1, <1>2

\* Quotient and rest are the only ones.
LEMMA DivModOnly ==
    ASSUME NEW b \in Nat \ {0}, NEW q \in Int, NEW r \in 0..b - 1
    PROVE  /\ (b * q + r) \div b = q
           /\ (b * q + r) % b = r
  <1> DEFINE a == b * q + r
             d == a \div b
             e == a % b
  <1>1. a \in Int
    OBVIOUS
  <1>2. d \in Int /\ e \in 0..b - 1 /\ a = b * d + e
    BY <1>1, DivMod
  <1>3. b * d + e = b * q + r
    BY <1>2
  <1> HIDE DEF d, e, a
  <1>4. b * (d - q) = b * d - b * q
    BY <1>2
  <1>5. b * d \in Int /\ b * q \in Int
    BY <1>2
  <1>6. d - q = 0
    <2>1. b * (d - q) = r - e
      BY <1>2, <1>3, <1>4, <1>5
    <2>2. b * (d - q) < b /\ -b < b * (d - q)
      BY <2>1, <1>2
    <2> QED
      BY <1>2, <2>2, SmallMultiple
  <1>7. d = q
    BY <1>2, <1>6
  <1>8. e = r
    BY <1>2, <1>3, <1>5, <1>7
  <1> QED
    BY <1>7, <1>8 DEF d, e, a


-----------------------------------------------------------------------------
(* Words.                                                                   *)

LEMMA HalfType ==
    /\ HALF \in Nat \ {0}
    /\ Power2[BITS] = 2 * HALF
    /\ BYTE \in Nat \ {0}
  <1>1. BITS - 1 \in 0..BITS /\ BITS \in 1..BITS /\ BYTE_BITS \in 0..BITS
    <2>1. \A x, y \in Nat \ {0} : y <= x * y
      <3>1. \A x, y \in Nat : (x + 1) * y = x * y + y /\ x * y >= 0
        OBVIOUS
      <3>2. \A x \in Nat \ {0} : x - 1 \in Nat /\ (x - 1) + 1 = x
        OBVIOUS
      <3> QED
        BY <3>1, <3>2
    <2> QED
      BY <2>1, WidthType DEF BITS
  <1> QED
    BY <1>1, PowerStep, PowerType DEF HALF, BYTE

\* A word is what is left of a number by taking away all the multiples of the
\* number of words.
LEMMA WrapType ==
    ASSUME NEW x \in Int
    PROVE  /\ Wrap(x) \in Words
           /\ \E q \in Int : Wrap(x) = x + 2 * HALF * q
  <1> DEFINE b == 2 * HALF
             a == x + HALF
  <1>0. b \in Nat \ {0} /\ a \in Int /\ HALF \in Nat
    BY HalfType
  <1>1. a \div b \in Int /\ a % b \in 0..b - 1 /\ a = b * (a \div b) + (a % b)
    <2> HIDE DEF a, b
    <2> QED
      BY <1>0, DivMod
  <1>2. Wrap(x) = (a % b) - HALF
    BY DEF Wrap
  <1>3. (a % b) - HALF \in -HALF..HALF - 1
    <2> DEFINE r == a % b
    <2>1. r \in 0..2 * HALF - 1
      BY <1>1
    <2> HIDE DEF r
    <2>2. r - HALF \in -HALF..HALF - 1
      BY <1>0, <2>1
    <2> QED
      BY <2>2 DEF r
  <1>4. (a % b) - HALF = x + b * (-(a \div b))
    <2> DEFINE r == a % b
               q == a \div b
    <2>1. r \in Int /\ q \in Int /\ x + HALF = b * q + r
      BY <1>0, <1>1
    <2> HIDE DEF r, q, a, b
    <2>2. b * (-q) = -(b * q) /\ b * q \in Int
      BY <1>0, <2>1
    <2>3. r - HALF = x + b * (-q)
      BY <1>0, <2>1, <2>2
    <2> QED
      BY <2>3 DEF r, q
  <1> QED
    BY <1>1, <1>2, <1>3, <1>4 DEF Words

LEMMA WrapOnly ==
    ASSUME NEW w \in Words, NEW q \in Int
    PROVE  Wrap(w + 2 * HALF * q) = w
  <1> DEFINE b == 2 * HALF
  <1>0. b \in Nat \ {0} /\ HALF \in Nat /\ w + HALF \in 0..b - 1 /\ w \in Int
    BY HalfType DEF Words
  <1>1. b * q \in Int /\ (w + b * q) + HALF = b * q + (w + HALF)
    BY <1>0
  <1>2. (b * q + (w + HALF)) % b = w + HALF
    <2> HIDE DEF b
    <2> QED
      BY <1>0, DivModOnly
  <1>3. Wrap(w + b * q) = (((w + b * q) + HALF) % b) - HALF
    BY DEF Wrap
  <1>4. Wrap(w + b * q) = w
    <2> HIDE DEF b
    <2> QED
      BY <1>0, <1>1, <1>2, <1>3
  <1> QED
    BY <1>4

\* A word stays as it is.
LEMMA WrapWord ==
    ASSUME NEW w \in Words
    PROVE  Wrap(w) = w
  <1>1. w + 2 * HALF * 0 = w
    BY HalfType DEF Words
  <1> QED
    BY <1>1, WrapOnly

\* What differs by a multiple of the number of words is the same word.
LEMMA WrapSame ==
    ASSUME NEW x \in Int, NEW q \in Int
    PROVE  Wrap(x + 2 * HALF * q) = Wrap(x)
  <1> DEFINE b == 2 * HALF
             w == Wrap(x)
  <1>1. b \in Int
    BY HalfType
  <1>2. PICK p \in Int : w = x + b * p
    BY WrapType
  <1>3. w \in Words /\ w \in Int
    BY WrapType, HalfType DEF Words
  <1> HIDE DEF w
  <1>4. q - p \in Int /\ x + b * q = w + b * (q - p)
    <2> HIDE DEF b
    <2>1. b * (q - p) = b * q - b * p /\ b * q \in Int /\ b * p \in Int
      BY <1>1, <1>2
    <2> QED
      BY <1>1, <1>2, <1>3, <2>1
  <1>5. Wrap(w + b * (q - p)) = w
    BY <1>3, <1>4, WrapOnly
  <1> QED
    BY <1>4, <1>5 DEF w

\* To wrap around on the way makes no difference.
LEMMA WrapSum ==
    ASSUME NEW x \in Int, NEW y \in Int
    PROVE  Wrap(Wrap(x) + y) = Wrap(x + y)
  <1> DEFINE b == 2 * HALF
             w == Wrap(x)
  <1>1. b \in Int
    BY HalfType
  <1>2. PICK p \in Int : w = x + b * p
    BY WrapType
  <1>3. w + y = (x + y) + b * p
    <2> HIDE DEF w, b
    <2> QED
      BY <1>1, <1>2
  <1> QED
    BY <1>3, WrapSame

LEMMA UnsignedType ==
    ASSUME NEW v \in Int
    PROVE  /\ Unsigned(v) \in 0..2 * HALF - 1
           /\ Wrap(Unsigned(v)) = Wrap(v)
  <1> DEFINE b == 2 * HALF
  <1>1. b \in Nat \ {0}
    BY HalfType
  <1>2. v \div b \in Int /\ v % b \in 0..b - 1 /\ v = b * (v \div b) + (v % b)
    <2> HIDE DEF b
    <2> QED
      BY <1>1, DivMod
  <1> DEFINE q == v \div b
             r == v % b
  <1>3. r \in Int /\ q \in Int /\ v = r + b * q
    <2> HIDE DEF b
    <2> QED
      BY <1>1, <1>2
  <1>4. Wrap(r + b * q) = Wrap(r)
    <2> HIDE DEF r, q
    <2> QED
      BY <1>3, WrapSame
  <1>5. Unsigned(v) = r
    BY DEF Unsigned
  <1> QED
    BY <1>2, <1>3, <1>4, <1>5


LEMMA UnsignedWord ==
    ASSUME NEW v \in Words
    PROVE  Unsigned(v) = IF v < 0 THEN v + 2 * HALF ELSE v
  <1> DEFINE b == 2 * HALF
             q == IF v < 0 THEN -1 ELSE 0
             r == IF v < 0 THEN v + b ELSE v
  <1>1. b \in Nat \ {0} /\ q \in Int /\ r \in 0..b - 1 /\ v = b * q + r
    BY HalfType DEF Words
  <1>2. Unsigned(v) = v % b
    BY DEF Unsigned
  <1> HIDE DEF b, q
  <1>3. (b * q + r) % b = r
    <2> HIDE DEF r
    <2> QED
      BY <1>1, DivModOnly
  <1> QED
    BY <1>1, <1>2, <1>3 DEF b

-----------------------------------------------------------------------------
(* Bytes.                                                                   *)

LEMMA WeightStep ==
    /\ Weight(0) = 1
    /\ \A i \in 0..WORD : Weight(i) \in Nat \ {0}
    /\ \A i \in 0..WORD - 1 : Weight(i + 1) = Weight(i) * BYTE
    /\ Weight(WORD) = 2 * HALF
  <1>1. BYTE_BITS * 0 = 0 /\ BYTE_BITS * WORD = BITS
    BY WidthType DEF BITS
  <1>2. ASSUME NEW i \in 0..WORD PROVE BYTE_BITS * i \in 0..BITS
    <2>1. \A x, y \in Nat : x * y >= 0 /\ x * y \in Nat
      OBVIOUS
    <2>2. WORD - i \in Nat /\ i \in Nat
      BY WidthType
    <2>3. BYTE_BITS * WORD = BYTE_BITS * i + BYTE_BITS * (WORD - i)
      BY <2>2, WidthType
    <2>4. BYTE_BITS * (WORD - i) \in Nat /\ BYTE_BITS * i \in Nat
      BY <2>1, <2>2, WidthType
    <2>5. \A x, y, z \in Nat : x = y + z => y \in 0..x
      OBVIOUS
    <2> QED
      BY <1>1, <2>3, <2>4, <2>5, WidthType
  <1>3. ASSUME NEW i \in 0..WORD - 1 PROVE Weight(i + 1) = Weight(i) * BYTE
    <2>1. i + 1 \in 0..WORD /\ i \in Nat /\ i \in 0..WORD
      BY WidthType
    <2>2. BYTE_BITS * (i + 1) = BYTE_BITS * i + BYTE_BITS
      BY <2>1, WidthType
    <2>3. BYTE_BITS * i \in Nat /\ BYTE_BITS * (i + 1) <= BITS
      BY <1>2, <2>1, WidthType
    <2>4. Power2[BYTE_BITS * i + BYTE_BITS] = Power2[BYTE_BITS * i] * Power2[BYTE_BITS]
      BY <2>2, <2>3, WidthType, PowerSum
    <2> QED
      BY <2>2, <2>4 DEF Weight, BYTE
  <1> QED
    BY <1>1, <1>2, <1>3, PowerStep, PowerType, HalfType DEF Weight

\* One more digit, of the base B, of a number.
LEMMA DigitStep ==
    ASSUME NEW u \in Nat, NEW P \in Nat \ {0}, NEW B \in Nat \ {0}
    PROVE  u % (P * B) = (u % P) + ((u \div P) % B) * P
  <1> DEFINE q == u \div P
             r == u % P
             c == q \div B
             d == q % B
  <1>1. q \in Int /\ r \in 0..P - 1 /\ u = P * q + r
    BY DivMod
  <1>2. c \in Int /\ d \in 0..B - 1 /\ q = B * c + d
    <2> HIDE DEF q
    <2> QED
      BY <1>1, DivMod
  <1> HIDE DEF q, r, c, d
  <1>3. P * q = (P * B) * c + d * P
    <2>1. \A x, y, z, w \in Int : x * (y * z + w) = (x * y) * z + w * x
      OBVIOUS
    <2> QED
      BY <1>2, <2>1
  <1>4. r + d * P \in 0..(P * B) - 1
    <2>1. B - 1 - d \in Nat /\ P \in Nat /\ d \in Nat /\ r \in Nat
      BY <1>1, <1>2
    <2>2. P * B = P * (B - 1 - d) + d * P + P
      BY <1>2
    <2>3. \A x, y \in Nat : x * y \in Nat
      OBVIOUS
    <2>4. P * (B - 1 - d) \in Nat /\ d * P \in Nat
      BY <2>1, <2>3
    <2> QED
      BY <1>1, <2>1, <2>2, <2>4
  <1>5. P * B \in Nat \ {0}
    OBVIOUS
  <1>6. (P * B) * c \in Int /\ d * P \in Int
    BY <1>2, <1>5
  <1>7. u = (P * B) * c + (r + d * P)
    BY <1>1, <1>3, <1>6
  <1>8. ((P * B) * c + (r + d * P)) % (P * B) = r + d * P
    <2> DEFINE Q == P * B
               e == r + d * P
    <2>1. Q \in Nat \ {0} /\ e \in 0..Q - 1
      BY <1>4, <1>5
    <2> HIDE DEF Q, e
    <2>2. (Q * c + e) % Q = e
      BY <1>2, <2>1, DivModOnly
    <2> QED
      BY <2>2 DEF Q, e
  <1> QED
    BY <1>7, <1>8 DEF q, r, d

\* The lowest bytes of a number, each with its weight, add up to the number cut
\* to so many bytes.
LEMMA SumOfBytes ==
    ASSUME NEW u \in Nat, NEW n \in 0..WORD, NEW t,
           \A i \in 0..n - 1 : t[i] = ((u \div Weight(i)) % BYTE) * Weight(i)
    PROVE  SumTo(t, n) = u % Weight(n)
  <1> DEFINE T == {k \in Nat : k <= n => SumTo(t, k) = u % Weight(k)}
  <1>0. \A i \in 0..n - 1 : i \in 0..WORD /\ t[i] \in Int
    <2> SUFFICES ASSUME NEW i \in 0..n - 1 PROVE i \in 0..WORD /\ t[i] \in Int
      OBVIOUS
    <2>1. i \in 0..WORD /\ Weight(i) \in Nat \ {0} /\ BYTE \in Nat \ {0}
      BY WidthType, WeightStep, HalfType
    <2>2. \A w, b \in Nat \ {0} : ((u \div w) % b) * w \in Int
      <3> SUFFICES ASSUME NEW w \in Nat \ {0}, NEW b \in Nat \ {0}
                   PROVE  ((u \div w) % b) * w \in Int
        OBVIOUS
      <3>1. u \div w \in Int
        BY DivMod
      <3>2. (u \div w) % b \in Int
        BY <3>1, DivMod
      <3> QED
        BY <3>2
    <2> QED
      BY <2>1, <2>2
  <1>1. 0 \in T
    <2>1. u % 1 = 0
      OBVIOUS
    <2> QED
      BY <2>1, SumOfNone, WeightStep
  <1>2. ASSUME NEW k \in Nat, k \in T PROVE k + 1 \in T
    <2>1. SUFFICES ASSUME k + 1 <= n PROVE SumTo(t, k + 1) = u % Weight(k + 1)
      OBVIOUS
    <2>2. k \in 0..n - 1 /\ k \in 0..WORD - 1 /\ k \in 0..WORD
      BY <2>1, WidthType
    <2>3. \A i \in 0..k : t[i] \in Int
      BY <1>0, <2>2
    <2>4. SumTo(t, k + 1) = SumTo(t, k) + t[k]
      BY <2>3, SumOfMore
    <2>5. SumTo(t, k) = u % Weight(k)
      BY <1>2, <2>1
    <2>6. t[k] = ((u \div Weight(k)) % BYTE) * Weight(k)
      BY <2>2
    <2>7. Weight(k) \in Nat \ {0} /\ BYTE \in Nat \ {0} /\ Weight(k + 1) = Weight(k) * BYTE
      BY <2>2, WeightStep, HalfType
    <2>8. u % (Weight(k) * BYTE) = (u % Weight(k)) + ((u \div Weight(k)) % BYTE) * Weight(k)
      BY <2>7, DigitStep
    <2> QED
      BY <2>4, <2>5, <2>6, <2>7, <2>8
  <1>3. n \in T
    <2> HIDE DEF T
    <2> QED
      BY <1>1, <1>2, AllNumbers, WidthType
  <1> QED
    BY <1>3

\* A byte of a word is a byte.
LEMMA ByteOfType ==
    ASSUME NEW v \in Int, NEW i \in 0..WORD
    PROVE  ByteOf(v, i) \in Bytes
  <1> DEFINE u == Unsigned(v)
             w == Weight(i)
  <1>1. u \in Int /\ w \in Nat \ {0} /\ BYTE \in Nat \ {0}
    BY UnsignedType, WeightStep, HalfType
  <1> HIDE DEF u, w
  <1>2. u \div w \in Int
    BY <1>1, DivMod
  <1>3. (u \div w) % BYTE \in 0..BYTE - 1
    BY <1>1, <1>2, DivMod
  <1> QED
    BY <1>3 DEF ByteOf, Bytes, u, w


-----------------------------------------------------------------------------
(* The operations on words give words.                                      *)

LEMMA WordsAreInts == \A v \in Words : v \in Int
  BY HalfType DEF Words

LEMMA ShiftCount ==
    ASSUME NEW d \in Int
    PROVE  Power2[d % BITS] \in Nat \ {0}
  <1>1. d % BITS \in 0..BITS - 1
    BY WidthType, DivMod
  <1>2. d % BITS \in 0..BITS
    BY <1>1, WidthType
  <1> QED
    BY <1>2, PowerType

LEMMA ShiftType ==
    ASSUME NEW v \in Words, NEW d \in Int
    PROVE  ShiftLeft(v, d) \in Words /\ ShiftRight(v, d) \in Words
  <1> DEFINE P == Power2[d % BITS]
             q == v \div P
             r == v % P
  <1>1. P \in Nat \ {0} /\ v \in Int
    BY ShiftCount, WordsAreInts
  <1>2. v * P \in Int
    <2> HIDE DEF P
    <2> QED
      BY <1>1
  <1>3. ShiftLeft(v, d) \in Words
    BY <1>2, WrapType DEF ShiftLeft
  <1>4. q \in Int /\ r \in 0..P - 1 /\ v = P * q + r
    <2> HIDE DEF P
    <2> QED
      BY <1>1, DivMod
  <1>5. q \in Words
    <2> HIDE DEF P, q, r
    <2>1. CASE q >= 0
      <3>1. \A x, y \in Nat : (x + 1) * y = x * y + y /\ x * y >= 0
        OBVIOUS
      <3>2. P - 1 \in Nat /\ q \in Nat /\ (P - 1) + 1 = P
        BY <1>1, <1>4, <2>1
      <3>3. P * q >= q /\ P * q \in Int
        BY <3>1, <3>2, <1>1, <1>4
      <3>4. 0 <= q /\ q <= v
        BY <1>1, <1>4, <2>1, <3>3
      <3> QED
        BY <3>4, <1>4, HalfType DEF Words
    <2>2. CASE q < 0
      \* v = -P (-1 - q) - P + r and the rest is less than P
      <3> DEFINE s == -1 - q
      <3>1. s \in Nat /\ P - 1 \in Nat
        BY <1>1, <1>4, <2>2
      <3>2. \A x, y \in Nat : (x + 1) * (-1 - y) = -(x * y) - y - x - 1 /\ x * y >= 0
        OBVIOUS
      <3>3. (P - 1) + 1 = P /\ -1 - s = q
        BY <1>1, <1>4
      <3> HIDE DEF s
      <3>4. P * q = -((P - 1) * s) - s - (P - 1) - 1 /\ (P - 1) * s >= 0
        BY <3>1, <3>2, <3>3
      <3>5. (P - 1) * s \in Int
        BY <3>1
      <3>6. v <= -s - 1
        BY <1>1, <1>4, <3>1, <3>4, <3>5
      <3>7. -s - 1 = q
        BY <3>1, <3>3, <1>4
      <3> QED
        BY <1>1, <1>4, <2>2, <3>6, <3>7, HalfType DEF Words
    <2> QED
      BY <2>1, <2>2, <1>4
  <1> QED
    BY <1>3, <1>5 DEF ShiftRight

LEMMA BitType ==
    ASSUME NEW v \in Int, NEW i \in 0..BITS
    PROVE  Bit(v, i) \in 0..1
  <1> DEFINE u == Unsigned(v)
             w == Power2[i]
  <1>1. u \in Int /\ w \in Nat \ {0}
    BY SMTT(30), UnsignedType, PowerType
  <1> HIDE DEF u, w
  <1>2. u \div w \in Int
    BY <1>1, DivMod
  <1>3. (u \div w) % 2 \in 0..1
    BY <1>2
  <1> QED
    BY <1>3 DEF Bit, u, w

LEMMA BitWiseType ==
    ASSUME NEW v \in Int, NEW w \in Int, NEW op \in [0..2 -> 0..1]
    PROVE  BitWise(op, v, w) \in Words
  <1> DEFINE t == [i \in 0..BITS - 1 |-> op[Bit(v, i) + Bit(w, i)] * Power2[i]]
  <1>1. ASSUME NEW i \in 0..BITS - 1 PROVE t[i] \in Int
    <2>1. i \in 0..BITS
      BY WidthType
    <2>2. Bit(v, i) \in 0..1 /\ Bit(w, i) \in 0..1 /\ Power2[i] \in Nat
      BY <2>1, BitType, PowerType
    <2>3. op[Bit(v, i) + Bit(w, i)] \in 0..1
      BY <2>2
    <2> DEFINE x == op[Bit(v, i) + Bit(w, i)]
               y == Power2[i]
    <2>4. x \in Int /\ y \in Int
      BY <2>2, <2>3
    <2>5. x * y \in Int
      <3> HIDE DEF x, y
      <3> QED
        BY <2>4
    <2> QED
      BY <2>5
  <1> HIDE DEF t
  <1>2. SumTo(t, BITS) \in Int
    BY <1>1, SumType, WidthType
  <1>3. Wrap(SumTo(t, BITS)) \in Words
    BY <1>2, WrapType
  <1> QED
    BY <1>3 DEF BitWise, t

LEMMA BitOperationsType ==
    ASSUME NEW v \in Int, NEW w \in Int
    PROVE  BitOr(v, w) \in Words /\ BitAnd(v, w) \in Words /\ BitXor(v, w) \in Words
  <1>1. [n \in 0..2 |-> IF n > 0 THEN 1 ELSE 0] \in [0..2 -> 0..1]
    OBVIOUS
  <1>2. [n \in 0..2 |-> IF n = 2 THEN 1 ELSE 0] \in [0..2 -> 0..1]
    OBVIOUS
  <1>3. [n \in 0..2 |-> n % 2] \in [0..2 -> 0..1]
    OBVIOUS
  <1> QED
    BY <1>1, <1>2, <1>3, BitWiseType DEF BitOr, BitAnd, BitXor

\* A quotient is a word but for the one that traps in the host.
LEMMA QuotientType ==
    ASSUME NEW v \in Words, NEW w \in Words, w # 0
    PROVE  /\ Quotient(v, w) \in Int
           /\ (v = -HALF /\ w = -1) \/ Quotient(v, w) \in Words
           /\ Remainder(v, w) \in Words
  <1> DEFINE a == Abs(v)
             b == Abs(w)
             q == a \div b
             r == a % b
  <1>1. /\ a \in 0..HALF /\ b \in 1..HALF /\ b \in Nat \ {0}
        /\ a = HALF => v = -HALF
        /\ b = 1 => w = 1 \/ w = -1
        /\ HALF \in Nat \ {0}
    BY HalfType DEF Words, Abs
  <1>2. q \in Int /\ r \in 0..b - 1 /\ a = b * q + r
    <2> HIDE DEF a, b
    <2> QED
      BY <1>1, DivMod
  <1>3. Sign(v) \in {-1, 1} /\ Sign(w) \in {-1, 1} /\ (v < 0 <=> Sign(v) = -1) /\ (w < 0 <=> Sign(w) = -1)
    BY HalfType DEF Sign, Words
  <1>4. q \in 0..a /\ (q = HALF => a = HALF /\ b = 1)
    <2> HIDE DEF a, b, q, r
    <2>1. q >= 0
      <3>1. SUFFICES ASSUME q <= -1 PROVE FALSE
        BY <1>2
      <3>2. \A y \in Nat : b * (-1 - y) = -b - b * y /\ b * y >= 0
        BY <1>1
      <3>3. -1 - q \in Nat /\ -1 - (-1 - q) = q
        BY <1>2, <3>1
      <3>4. b * q <= -b
        BY <3>2, <3>3, <1>1
      <3>5. b * q \in Int
        BY <1>1, <1>2
      <3> QED
        BY <1>1, <1>2, <3>4, <3>5
    <2>2. \A x, y \in Nat : (x + 1) * y = x * y + y /\ x * y >= 0
      OBVIOUS
    <2>3. b - 1 \in Nat /\ q \in Nat /\ (b - 1) + 1 = b
      BY <1>1, <1>2, <2>1
    <2>4. b * q = (b - 1) * q + q /\ (b - 1) * q >= 0 /\ (b - 1) * q \in Int
      BY <2>2, <2>3
    <2>5. q <= a
      BY <1>1, <1>2, <2>3, <2>4
    <2>6. ASSUME q = HALF PROVE a = HALF /\ b = 1
      <3>1. a = HALF /\ (b - 1) * q = 0
        BY <1>1, <1>2, <2>3, <2>4, <2>5, <2>6
      <3>2. \A x, y \in Nat : x * y = 0 => x = 0 \/ y = 0
        OBVIOUS
      <3>3. b - 1 = 0
        BY <1>1, <2>3, <2>6, <3>1, <3>2
      <3> QED
        BY <1>1, <3>1, <3>3
    <2> QED
      BY <1>1, <1>2, <2>1, <2>5, <2>6
  <1>5. Quotient(v, w) = Sign(v) * Sign(w) * q /\ Remainder(v, w) = Sign(v) * r
    BY DEF Quotient, Remainder
  <1>6. Quotient(v, w) = q \/ Quotient(v, w) = -q
    <2> HIDE DEF q
    <2> QED
      BY <1>2, <1>3, <1>5
  <1>7. Remainder(v, w) = r \/ Remainder(v, w) = -r
    <2> HIDE DEF r
    <2> QED
      BY <1>2, <1>3, <1>5
  <1>8. q = HALF => (v = -HALF /\ w = -1) \/ Quotient(v, w) = -q
    <2>1. SUFFICES ASSUME q = HALF, w = 1 PROVE Quotient(v, w) = -q
      BY <1>1, <1>4
    <2>2. v = -HALF
      BY <1>1, <1>4, <2>1
    <2>3. Sign(v) = -1 /\ Sign(w) = 1
      BY <1>1, <2>1, <2>2 DEF Sign
    <2> HIDE DEF q
    <2> QED
      BY <1>2, <1>5, <2>3
  <1> HIDE DEF a, b, q, r
  <1> QED
    BY <1>1, <1>2, <1>4, <1>6, <1>7, <1>8 DEF Words

=============================================================================
