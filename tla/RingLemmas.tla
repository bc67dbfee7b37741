----------------------------- MODULE RingLemmas -----------------------------
(***************************************************************************)
(* Arithmetic of the indices of a ring, which the rings of sem_thread.c    *)
(* and threadpool.c advance modulo their size.                             *)
(***************************************************************************)
EXTENDS Integers, TLAPS

LEMMA DivMod ==
  ASSUME NEW N \in Nat \ {0}, NEW a \in Nat
  PROVE  /\ a = N * (a \div N) + (a % N)
         /\ a % N \in 0 .. N - 1 /\ a \div N \in Int
OBVIOUS

\* No multiple of N lies strictly between 0 and N.
LEMMA NoMultipleBetween ==
  ASSUME NEW N \in Nat \ {0}, NEW d \in Int
  PROVE  ~(0 < N * d /\ N * d < N)
<1>1. CASE d <= 0
  BY <1>1
<1>2. CASE d >= 1
  BY <1>2
<1> QED  BY <1>1, <1>2

(* Two indices less than a round apart are two places of the ring.         *)
LEMMA ModApart ==
  ASSUME NEW N \in Nat \ {0}, NEW a \in Nat, NEW b \in Nat,
         b < a, a - b < N
  PROVE  a % N # b % N
<1> SUFFICES ASSUME a % N = b % N PROVE FALSE
  OBVIOUS
<1> DEFINE d == (a \div N) - (b \div N)
<1>1. a - b = N * (a \div N) - N * (b \div N)
  BY DivMod
<1>2. a - b = N * d /\ d \in Int
  BY <1>1, DivMod
<1> HIDE DEF d
<1> QED  BY <1>2, NoMultipleBetween

(* Advancing one index and then another number of places is advancing it   *)
(* by the sum.                                                             *)
LEMMA ModAdd ==
  ASSUME NEW N \in Nat \ {0}, NEW a \in Nat, NEW b \in Nat
  PROVE  ((a % N) + b) % N = (a + b) % N
<1> DEFINE x == (a % N) + b   y == a + b   q == a \div N
           d == y \div N - q - x \div N
<1>1. /\ x \in Nat /\ y \in Nat /\ q \in Int /\ d \in Int
      /\ y = x + N * q
  BY DivMod
<1>2. /\ x = N * (x \div N) + (x % N) /\ x % N \in 0 .. N - 1
      /\ y = N * (y \div N) + (y % N) /\ y % N \in 0 .. N - 1
      /\ x \div N \in Int /\ y \div N \in Int
  BY <1>1, DivMod
<1>3. N * d = N * (y \div N) - N * q - N * (x \div N)
  BY <1>1, <1>2
<1>4. (x % N) - (y % N) = N * d
  BY <1>1, <1>2, <1>3
<1>5. d = 0
  <2>1. CASE d > 0
    BY <1>1, <1>2, <1>4, <2>1, NoMultipleBetween
  <2>2. CASE d < 0
    <3>1. N * (-d) = -(N * d)
      BY <1>1
    <3>2. 0 < N * (-d) /\ N * (-d) < N
      BY <1>1, <1>2, <1>4, <2>2, <3>1
    <3> QED  BY <1>1, <3>2, NoMultipleBetween
  <2> QED  BY <1>1, <2>1, <2>2
<1>6. x % N = y % N
  BY <1>2, <1>4, <1>5
<1> QED  BY <1>6
=============================================================================
