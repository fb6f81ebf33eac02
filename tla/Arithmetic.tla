----------------------------- MODULE Arithmetic -----------------------------
(***************************************************************************)
(* What the proofs about wrapping indices and counters need of % and of    *)
(* the least element of a set of numbers.                                  *)
(***************************************************************************)
EXTENDS Integers, TLAPS, WellFoundedInduction

\* Quotient and remainder.
LEMMA DivMod ==
  ASSUME NEW x \in Int, NEW n \in Nat \ {0}
  PROVE  /\ x \div n \in Int
         /\ x % n \in 0..(n - 1)
         /\ x = (x \div n) * n + (x % n)
OBVIOUS

LEMMA ModUnique ==
  ASSUME NEW n \in Nat \ {0}, NEW q \in Int, NEW r \in 0..(n - 1)
  PROVE  (q * n + r) % n = r
OBVIOUS

\* The remainders of what is at most one turn away.
LEMMA ModNear ==
  ASSUME NEW n \in Nat \ {0}, NEW x \in Int
  PROVE  /\ x \in 0..(n - 1) => x % n = x
         /\ x \in n..(2 * n - 1) => x % n = x - n
         /\ x \in (-n)..(-1) => x % n = x + n
OBVIOUS

\* Whole turns do not count.
LEMMA ModTurns ==
  ASSUME NEW n \in Nat \ {0}, NEW x \in Int, NEW k \in Int
  PROVE  (x + k * n) % n = x % n
<1> DEFINE q == x \div n
           r == x % n
<1>1. x = q * n + r /\ q \in Int /\ r \in 0..(n - 1)
  BY DivMod
<1> HIDE DEF q, r
<1>2. x + k * n = (q + k) * n + r
  BY <1>1
<1>3. ((q + k) * n + r) % n = r
  BY <1>1, ModUnique
<1>4. r = x % n
  BY DEF r
<1> QED BY <1>2, <1>3, <1>4

\* A sum or a difference may be reduced before or after.
LEMMA ModPlus ==
  ASSUME NEW n \in Nat \ {0}, NEW x \in Int, NEW y \in Int
  PROVE  /\ ((x % n) + y) % n = (x + y) % n
         /\ (y - (x % n)) % n = (y - x) % n
<1> DEFINE q == x \div n
           r == x % n
<1>1. x = q * n + r /\ q \in Int /\ r \in Int
  BY DivMod
<1> HIDE DEF q, r
<1>2. ((r + y) + q * n) % n = (r + y) % n
  <2>1. r + y \in Int BY <1>1
  <2> QED BY <1>1, <2>1, ModTurns
<1>3. ((y - x) + q * n) % n = (y - x) % n
  <2>1. y - x \in Int OBVIOUS
  <2> QED BY <1>1, <2>1, ModTurns
<1>4. x + y = (r + y) + q * n /\ y - r = (y - x) + q * n
  BY <1>1
<1>5. r = x % n
  BY DEF r
<1> QED BY <1>2, <1>3, <1>4, <1>5

\* An index that wraps at a multiple of the ring's size points into the ring
\* as one that never wraps would.
LEMMA ModOfMultiple ==
  ASSUME NEW n \in Nat \ {0}, NEW w \in Nat \ {0}, w % n = 0,
         NEW x \in Int, NEW y \in Int
  PROVE  ((x % w) + y) % n = (x + y) % n
<1> DEFINE q == x \div w
           r == x % w
           k == w \div n
<1>1. x = q * w + r /\ q \in Int /\ r \in Int
  BY DivMod
<1>2. w = k * n /\ k \in Int
  BY DivMod
<1> HIDE DEF q, r, k
<1>3. q * k \in Int /\ r + y \in Int
  BY <1>1, <1>2
<1>4. ((r + y) + (q * k) * n) % n = (r + y) % n
  BY <1>3, ModTurns
<1>5. x + y = (r + y) + (q * k) * n
  BY <1>1, <1>2
<1>6. r = x % w
  BY DEF r
<1> QED BY <1>4, <1>5, <1>6

\* A set of natural numbers has a least element.
LEMMA LeastExists ==
  ASSUME NEW S \in SUBSET Nat, S # {}
  PROVE  \E x \in S : \A y \in S : x <= y
<1> DEFINE R == OpToRel(<, Nat)
<1>1. PICK x \in S : \A y \in S : ~(<<y, x>> \in R)
  BY NatLessThanWellFounded, WFMin
<1>2. ASSUME NEW y \in S PROVE x <= y
  <2>1. x \in Nat /\ y \in Nat /\ ~(y < x)
    BY <1>1 DEF OpToRel
  <2> QED BY <2>1
<1> QED BY <1>2
=============================================================================
