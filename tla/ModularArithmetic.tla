-------------------------- MODULE ModularArithmetic --------------------------
(***************************************************************************)
(* Arithmetic modulo M for a modulus that is a parameter: what the proofs  *)
(* about 12-bit sequence numbers and about ring indices rest on.           *)
(***************************************************************************)
EXTENDS Integers, TLAPS

LEMMA ModUnique ==
  ASSUME NEW M \in Nat \ {0}, NEW q \in Int, NEW r \in 0 .. M - 1
  PROVE  (M * q + r) % M = r
  BY Z3

LEMMA ModSplit ==
  ASSUME NEW M \in Nat \ {0}, NEW a \in Int
  PROVE  \E q \in Int : a = M * q + (a % M) /\ a % M \in 0 .. M - 1
  <1>1. a \div M \in Int
    BY Z3
  <1>2. a = M * (a \div M) + (a % M)
    BY Z3
  <1>3. a % M \in 0 .. M - 1
    BY Z3
  <1> QED BY <1>1, <1>2, <1>3

LEMMA ModShift ==
  ASSUME NEW M \in Nat \ {0}, NEW a \in Int, NEW k \in Int
  PROVE  (a + M * k) % M = a % M
  <1>1. PICK q \in Int : a = M * q + (a % M) /\ a % M \in 0 .. M - 1
    BY ModSplit
  <1>2. a + M * k = M * (q + k) + (a % M)
    BY <1>1, Z3
  <1>3. (M * (q + k) + (a % M)) % M = a % M
    BY <1>1, ModUnique
  <1> QED BY <1>2, <1>3

\* The difference of two remainders has the remainder of the difference.
LEMMA ModDiff ==
  ASSUME NEW M \in Nat \ {0}, NEW a \in Int, NEW b \in Int
  PROVE  ((a % M) - (b % M)) % M = (a - b) % M
  <1>1. PICK q \in Int : a = M * q + (a % M) /\ a % M \in 0 .. M - 1
    BY ModSplit
  <1>2. PICK p \in Int : b = M * p + (b % M) /\ b % M \in 0 .. M - 1
    BY ModSplit
  <1>3. (a % M) - (b % M) = (a - b) + M * (p - q)
    BY <1>1, <1>2, Z3
  <1>4. a - b \in Int /\ p - q \in Int
    OBVIOUS
  <1>5. ((a - b) + M * (p - q)) % M = (a - b) % M
    BY <1>4, ModShift
  <1> QED BY <1>3, <1>5

\* Adding to a remainder.
LEMMA ModAdd ==
  ASSUME NEW M \in Nat \ {0}, NEW a \in Int, NEW k \in Int
  PROVE  ((a % M) + k) % M = (a + k) % M
  <1>1. PICK q \in Int : a = M * q + (a % M) /\ a % M \in 0 .. M - 1
    BY ModSplit
  <1>2. (a % M) + k = (a + k) + M * (0 - q)
    <2>1. ASSUME NEW r \in Int, a = M * q + r PROVE r + k = (a + k) + M * (0 - q)
      BY <2>1, Z3
    <2>2. a % M \in Int
      BY <1>1
    <2> QED BY <1>1, <2>1, <2>2
  <1>3. a + k \in Int /\ 0 - q \in Int
    OBVIOUS
  <1>4. ((a + k) + M * (0 - q)) % M = (a + k) % M
    BY <1>3, ModShift
  <1> QED BY <1>2, <1>4

LEMMA ModSmall ==
  ASSUME NEW M \in Nat \ {0}, NEW a \in 0 .. M - 1
  PROVE  a % M = a
  BY Z3

LEMMA ModNegative ==
  ASSUME NEW M \in Nat \ {0}, NEW a \in Int, -M <= a, a < 0
  PROVE  a % M = a + M
  <1>1. a + M \in 0 .. M - 1 /\ a = M * (-1) + (a + M)
    OBVIOUS
  <1>2. (M * (-1) + (a + M)) % M = a + M
    BY <1>1, ModUnique
  <1> QED BY <1>1, <1>2

\* Two numbers less than M apart are equal when their remainders are.
LEMMA ModEqual ==
  ASSUME NEW M \in Nat \ {0}, NEW a \in Int, NEW b \in Int,
         a - b < M, b - a < M, a % M = b % M
  PROVE  a = b
  <1>1. PICK q \in Int : a = M * q + (a % M)
    BY ModSplit
  <1>2. PICK p \in Int : b = M * p + (b % M)
    BY ModSplit
  <1>3. a - b = M * (q - p)
    BY <1>1, <1>2, Z3
  <1>4. q - p < 1 /\ p - q < 1
    BY <1>3, Z3
  <1>5. q = p
    BY <1>4
  <1> QED BY <1>1, <1>2, <1>5

\* The comparison of sequence numbers by the top bit of their difference is
\* the comparison of the numbers behind them, while these are less than half
\* the space apart.
LEMMA ModLess ==
  ASSUME NEW M \in Nat \ {0}, M % 2 = 0, NEW a \in Int, NEW b \in Int,
         -M <= 2 * (a - b), 2 * (a - b) < M
  PROVE  (((a % M) - (b % M)) % M >= M \div 2) <=> (a < b)
  <1>1. 2 * (M \div 2) = M /\ M \div 2 \in Int
    BY Z3
  <1>2. ((a % M) - (b % M)) % M = (a - b) % M
    BY ModDiff
  <1>3. CASE a < b
    <2>1. (a - b) % M = (a - b) + M
      <3>1. a - b \in Int /\ -M <= a - b /\ a - b < 0
        BY <1>3
      <3> QED BY <3>1, ModNegative
    <2> QED BY <1>1, <1>2, <1>3, <2>1
  <1>4. CASE ~(a < b)
    <2>1. (a - b) % M = a - b
      <3>1. a - b \in 0 .. M - 1
        BY <1>4
      <3> QED BY <3>1, ModSmall
    <2> QED BY <1>1, <1>2, <1>4, <2>1
  <1> QED BY <1>3, <1>4
=============================================================================
