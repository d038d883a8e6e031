------------------------------ MODULE Modular ------------------------------
(***************************************************************************)
(* Facts about % that the proofs about rings rest on: the remainder is     *)
(* unique, wrapping once is an addition or a subtraction, masking after    *)
(* wrapping is masking, and distinct small offsets have distinct residues. *)
(***************************************************************************)
EXTENDS Integers, TLAPS

\* Division with remainder.
LEMMA DivMod ==
    ASSUME NEW a \in Int, NEW n \in Nat \ {0}
    PROVE  /\ a = n * (a \div n) + (a % n)
           /\ a % n \in 0 .. (n - 1)
           /\ (a \div n) \in Int
  OBVIOUS

\* The remainder is the only number in 0 .. n-1 that differs from a by a
\* multiple of n.
LEMMA ModUnique ==
    ASSUME NEW a \in Int, NEW n \in Nat \ {0}, NEW q \in Int,
           NEW r \in 0 .. (n - 1), a = n * q + r
    PROVE  a % n = r
<1> DEFINE p == a \div n
           s == a % n
<1>1. a = n * p + s /\ s \in 0 .. (n - 1) /\ p \in Int
  BY DivMod
<1> HIDE DEF p, s
<1>2. ~ (p >= q + 1)
  <2> SUFFICES ASSUME p >= q + 1 PROVE FALSE
    OBVIOUS
  <2>1. n * p >= n * (q + 1)
    BY <1>1
  <2>2. n * (q + 1) = n * q + n
    OBVIOUS
  <2> QED
    BY <1>1, <2>1, <2>2
<1>3. ~ (p + 1 <= q)
  <2> SUFFICES ASSUME p + 1 <= q PROVE FALSE
    OBVIOUS
  <2>1. n * q >= n * (p + 1)
    BY <1>1
  <2>2. n * (p + 1) = n * p + n
    BY <1>1
  <2> QED
    BY <1>1, <2>1, <2>2
<1>4. p = q
  BY <1>1, <1>2, <1>3
<1>5. s = r
  BY <1>1, <1>4
<1> QED
  BY <1>5 DEF s

\* A number within one period of 0 .. n-1 wraps by at most one n.
LEMMA ModWrap ==
    ASSUME NEW n \in Nat \ {0}, NEW a \in Int, -n <= a, a < 2 * n
    PROVE  a % n = IF a < 0 THEN a + n ELSE IF a >= n THEN a - n ELSE a
<1>1. CASE a < 0
  BY <1>1, a = n * (-1) + (a + n), ModUnique
<1>2. CASE a >= n
  BY <1>2, a = n * 1 + (a - n), ModUnique
<1>3. CASE a >= 0 /\ a < n
  BY <1>3, a = n * 0 + a, ModUnique
<1> QED
  BY <1>1, <1>2, <1>3

\* Adding a multiple of n changes nothing.
LEMMA ModAddMultiple ==
    ASSUME NEW n \in Nat \ {0}, NEW a \in Int, NEW q \in Int
    PROVE  (a + n * q) % n = a % n
<1> DEFINE p == a \div n
           s == a % n
<1>1. a = n * p + s /\ s \in 0 .. (n - 1) /\ p \in Int
  BY DivMod
<1> HIDE DEF p, s
<1>2. n * (p + q) = n * p + n * q
  BY <1>1
<1>3. a + n * q = n * (p + q) + s
  BY <1>1, <1>2
<1>4. n * q \in Int /\ p + q \in Int
  BY <1>1
<1>5. (a + n * q) % n = s
  BY <1>1, <1>3, <1>4, ModUnique
<1> QED
  BY <1>5 DEF s

\* Going once around leads back.
LEMMA ModAddOnce ==
    ASSUME NEW n \in Nat \ {0}, NEW a \in Int
    PROVE  (a + n) % n = a % n
<1> DEFINE p == a \div n
           s == a % n
<1>1. a = n * p + s /\ s \in 0 .. (n - 1) /\ p \in Int
  BY DivMod
<1> HIDE DEF p, s
<1>2. n * (p + 1) = n * p + n
  BY <1>1
<1>3. a + n = n * (p + 1) + s /\ a + n \in Int /\ p + 1 \in Int
  BY <1>1, <1>2
<1>4. (a + n) % n = s
  BY <1>1, <1>3, ModUnique
<1> QED
  BY <1>4 DEF s

\* Reducing a term of a sum first makes no difference.
LEMMA ModOfSum ==
    ASSUME NEW n \in Nat \ {0}, NEW a \in Int, NEW b \in Int
    PROVE  ((a % n) + b) % n = (a + b) % n
<1> DEFINE p == a \div n
           s == a % n
<1>1. a = n * p + s /\ s \in 0 .. (n - 1) /\ p \in Int
  BY DivMod
<1> HIDE DEF p, s
<1>2. s + b \in Int /\ a + b = (s + b) + n * p
  BY <1>1
<1>3. ((s + b) + n * p) % n = (s + b) % n
  BY <1>1, <1>2, ModAddMultiple
<1>4. (a + b) % n = (s + b) % n
  BY <1>2, <1>3
<1> QED
  BY <1>4 DEF s

\* A pointer that has wrapped at a multiple of n selects the same entry of an
\* array of n as the one that has not.
LEMMA ModOfWrapped ==
    ASSUME NEW n \in Nat \ {0}, NEW m \in Nat \ {0}, NEW k \in Int, m = k * n,
           NEW a \in Int, NEW b \in Int
    PROVE  ((a % m) + b) % n = (a + b) % n
<1> DEFINE p == a \div m
           s == a % m
           t == k * p
<1>1. a = m * p + s /\ s \in 0 .. (m - 1) /\ p \in Int
  BY DivMod
<1> HIDE DEF p, s
<1>2. m * p = n * t /\ t \in Int
  <2>1. (k * n) * p = n * (k * p)
    BY <1>1
  <2> QED
    BY <1>1, <2>1
<1> HIDE DEF t
<1>3. s + b \in Int /\ a + b = (s + b) + n * t
  BY <1>1, <1>2
<1>4. ((s + b) + n * t) % n = (s + b) % n
  BY <1>2, <1>3, ModAddMultiple
<1>5. (a + b) % n = (s + b) % n
  BY <1>3, <1>4
<1> QED
  BY <1>5 DEF s

\* Two offsets less than n apart select different entries.
LEMMA ModInjective ==
    ASSUME NEW n \in Nat \ {0}, NEW a \in Int, NEW j \in 0 .. (n - 1), NEW l \in 0 .. (n - 1),
           (a + j) % n = (a + l) % n
    PROVE  j = l
<1> DEFINE p == (a + j) \div n
           q == (a + l) \div n
           s == (a + j) % n
<1>1. a + j = n * p + s /\ s \in 0 .. (n - 1) /\ p \in Int
  BY DivMod, a + j \in Int
<1>2. a + l = n * q + s /\ q \in Int
  BY DivMod, a + l \in Int
<1> HIDE DEF p, q, s
<1>3. n * (p - q) = n * p - n * q
  BY <1>1, <1>2
<1>4. j - l = n * (p - q)
  BY <1>1, <1>2, <1>3
<1>5. p - q < 1 /\ p - q > -1
  <2>1. p - q >= 1 => n * (p - q) >= n
    BY <1>1, <1>2
  <2>2. p - q <= -1 => n * (p - q) <= -n
    BY <1>1, <1>2
  <2> QED
    BY <1>1, <1>2, <1>4, <2>1, <2>2
<1>6. p = q
  BY <1>1, <1>2, <1>5
<1> QED
  BY <1>1, <1>2, <1>6

\* Every entry is selected by some offset less than n.
LEMMA ModOnto ==
    ASSUME NEW n \in Nat \ {0}, NEW a \in Int, NEW s \in 0 .. (n - 1)
    PROVE  \E j \in 0 .. (n - 1) : (a + j) % n = s
<1> DEFINE j == (s - a) % n
           p == (s - a) \div n
<1>1. s - a = n * p + j /\ j \in 0 .. (n - 1) /\ p \in Int
  BY DivMod, s - a \in Int
<1> HIDE DEF j, p
<1>2. n * (-p) = -(n * p)
  BY <1>1
<1>3. a + j = n * (-p) + s
  BY <1>1, <1>2
<1>4. (a + j) % n = s
  BY <1>1, <1>3, ModUnique, -p \in Int, a + j \in Int
<1> QED
  BY <1>1, <1>4
=============================================================================
