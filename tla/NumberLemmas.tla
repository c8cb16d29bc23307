---------------------------- MODULE NumberLemmas ------------------------------
(***************************************************************************)
(* Arithmetic that the proofs share: sequence numbers modulo a power of    *)
(* two, and rows of equal length laid end to end, as frames are.           *)
(***************************************************************************)
EXTENDS Integers, TLAPS

\* A number written as m * q + r with r below m has remainder r.
LEMMA ModUnique == ASSUME NEW m \in Nat \ {0}, NEW q \in Nat, NEW r \in 0 .. (m - 1)
                   PROVE  (m * q + r) % m = r
<1> DEFINE a == m * q + r
           b == a % m
           d == a \div m
<1>0. a \in Nat
  OBVIOUS
<1> HIDE DEF a
<1>1. a = m * d + b /\ b \in 0 .. (m - 1) /\ d \in Nat
  BY <1>0
<1> HIDE DEF b, d
<1>2. m * (q - d) = b - r
  BY <1>1 DEF a
<1>3. ASSUME q - d >= 1 PROVE FALSE
  <2>1. m * (q - d) >= m
    BY <1>1, <1>3
  <2> QED BY <2>1, <1>1, <1>2
<1>4. ASSUME d - q >= 1 PROVE FALSE
  <2>1. m * (d - q) >= m
    BY <1>1, <1>4
  <2>2. m * (d - q) = r - b
    BY <1>1, <1>2
  <2> QED BY <2>1, <1>1, <2>2
<1>5. q = d
  BY <1>1, <1>3, <1>4
<1>6. b = r
  BY <1>1, <1>5 DEF a
<1> QED BY <1>6 DEF a, b

\* Counting modulo m step by step is counting and reducing at the end.
LEMMA ModSucc == ASSUME NEW m \in Nat \ {0}, NEW a \in Nat
                 PROVE  ((a % m) + 1) % m = (a + 1) % m
<1> DEFINE q == a \div m
           r == a % m
<1>1. a = m * q + r /\ r \in 0 .. (m - 1) /\ q \in Nat
  OBVIOUS
<1> HIDE DEF q, r
<1>2. CASE r + 1 < m
  <2>1. a + 1 = m * q + (r + 1)
    BY <1>1
  <2>2. (a + 1) % m = r + 1
    BY <1>1, <1>2, <2>1, ModUnique
  <2>3. (m * 0 + (r + 1)) % m = r + 1
    BY <1>1, <1>2, ModUnique
  <2> QED BY <1>1, <2>2, <2>3 DEF r
<1>3. CASE r + 1 = m
  <2>1. a + 1 = m * (q + 1) + 0
    BY <1>1, <1>3
  <2>2. (a + 1) % m = 0
    BY <1>1, <2>1, ModUnique
  <2>3. m = m * 1 + 0 /\ (m * 1 + 0) % m = 0
    BY ModUnique
  <2> QED BY <1>1, <1>3, <2>2, <2>3 DEF r
<1> QED BY <1>1, <1>2, <1>3

LEMMA ModRange == ASSUME NEW m \in Nat \ {0}, NEW a \in Nat
                  PROVE  a % m \in 0 .. (m - 1)
OBVIOUS

\* Below m, counting modulo m is counting.
LEMMA ModSmall == ASSUME NEW m \in Nat \ {0}, NEW a \in 0 .. (m - 1)
                  PROVE  a % m = a
OBVIOUS

\* Rows of B each, counted from 0.
LEMMA NextRow ==
    ASSUME NEW B \in Nat, NEW a \in Nat
    PROVE  (a + 1) * B = a * B + B /\ a * B \in Nat
OBVIOUS

LEMMA RowAfter ==
    ASSUME NEW B \in Nat, NEW a \in Nat, NEW b \in Nat, a < b
    PROVE  a * B + B <= b * B /\ a * B \in Nat /\ b * B \in Nat
<1>1. PICK d \in Nat : b = a + 1 + d
  <2>1. b - a - 1 \in Nat /\ b = a + 1 + (b - a - 1)
    OBVIOUS
  <2> QED BY <2>1
<1>2. b * B = a * B + B + d * B /\ d * B \in Nat /\ a * B \in Nat
  BY <1>1
<1> QED BY <1>2

\* A position is in one row only, at one place.
LEMMA Rows ==
    ASSUME NEW B \in Nat, NEW a \in Nat, NEW b \in Nat, NEW i \in 1 .. B, NEW j \in 1 .. B,
           a * B + i = b * B + j
    PROVE  a = b /\ i = j
<1>1. ASSUME a < b PROVE FALSE
  <2>1. a * B + B <= b * B /\ a * B \in Nat /\ b * B \in Nat
    BY <1>1, RowAfter
  <2> QED BY <2>1
<1>2. ASSUME b < a PROVE FALSE
  <2>1. b * B + B <= a * B /\ a * B \in Nat /\ b * B \in Nat
    BY <1>2, RowAfter
  <2> QED BY <2>1
<1>3. a = b
  BY <1>1, <1>2
<1>4. a * B \in Nat
  OBVIOUS
<1> QED BY <1>3, <1>4

LEMMA WholeRows == ASSUME NEW B \in Nat, NEW a \in Nat \ {0} PROVE (a * B) \div a = B
<1> DEFINE x == a * B
           q == x \div a
<1>1. x \in Nat /\ (a * B + 0) % a = 0
  BY ModUnique
<1>2. x % a = 0
  BY <1>1
<1> HIDE DEF x
<1>3. x = a * q /\ q \in Nat
  BY <1>1, <1>2
<1> HIDE DEF q
<1>4. a * q = q * a /\ a * B = B * a /\ q * a \in Nat /\ B * a \in Nat
  BY <1>3
<1>5. ASSUME q < B PROVE FALSE
  BY <1>3, <1>4, <1>5, RowAfter DEF x
<1>6. ASSUME B < q PROVE FALSE
  BY <1>3, <1>4, <1>6, RowAfter DEF x
<1> QED BY <1>3, <1>5, <1>6 DEF q, x
===============================================================================
