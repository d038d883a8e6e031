--------------------------- MODULE XskRingProofs ---------------------------
(***************************************************************************)
(* Arithmetic of wrapping pointers, and what the ring operations of        *)
(* XskRing preserve.  u32(b - a) is how far pointer b is ahead of a.       *)
(***************************************************************************)
EXTENDS XskRing, Modular

\* Whatever is computed modulo U32 is a pointer.
LEMMA U32Type ==
    ASSUME NEW a \in Int
    PROVE  u32(a) \in U32Values
BY U32Assumption, DivMod DEF u32, U32Values

\* Pointers are numbers, and so are the distances between them and the sums
\* that wrap.
LEMMA U32Nat ==
    /\ U32 \in Nat /\ 0 \in U32Values
    /\ \A x \in U32Values : x \in Nat /\ x \in Int /\ x < U32
    /\ \A x, y \in U32Values : u32(x - y) \in U32Values
    /\ \A x \in U32Values, k \in Nat : u32(x + k) \in U32Values
<1>1. U32 \in Nat /\ 0 \in U32Values /\ \A x \in U32Values : x \in Nat /\ x \in Int /\ x < U32
  BY U32Assumption DEF U32Values
<1>2. ASSUME NEW x \in U32Values, NEW y \in U32Values
      PROVE  u32(x - y) \in U32Values
  BY <1>1, x - y \in Int, U32Type
<1>3. ASSUME NEW x \in U32Values, NEW k \in Nat
      PROVE  u32(x + k) \in U32Values
  BY <1>1, x + k \in Int, U32Type
<1> QED
  BY <1>1, <1>2, <1>3

\* A number within one period wraps by at most one period.
LEMMA U32Wrap ==
    ASSUME NEW a \in Int, -U32 <= a, a < 2 * U32
    PROVE  u32(a) = IF a < 0 THEN a + U32 ELSE IF a >= U32 THEN a - U32 ELSE a
BY U32Assumption, ModWrap DEF u32

\* A pointer is its own remainder.
LEMMA U32Small ==
    ASSUME NEW a \in U32Values
    PROVE  u32(a) = a /\ u32(a + 0) = a
BY U32Assumption, U32Wrap, a + 0 = a DEF U32Values

\* A pointer is no distance ahead of itself, and of no other.
LEMMA DistZero ==
    ASSUME NEW a \in U32Values, NEW b \in U32Values
    PROVE  u32(b - a) = 0 <=> a = b
<1>1. b - a \in Int /\ -U32 <= b - a /\ b - a < 2 * U32
  BY U32Assumption DEF U32Values
<1> QED
  BY <1>1, U32Wrap, U32Assumption DEF U32Values

\* Advancing the leading pointer.
LEMMA DistAdd ==
    ASSUME NEW a \in U32Values, NEW b \in U32Values, NEW k \in Nat,
           u32(b - a) + k < U32
    PROVE  u32(u32(b + k) - a) = u32(b - a) + k
<1>1. b - a \in Int /\ -U32 <= b - a /\ b - a < 2 * U32
  BY U32Assumption DEF U32Values
<1>2. u32(b - a) = IF b - a < 0 THEN b - a + U32 ELSE b - a
  BY <1>1, U32Wrap, U32Assumption DEF U32Values
<1>3. b + k \in Int /\ -U32 <= b + k /\ b + k < 2 * U32
  BY <1>2, U32Assumption DEF U32Values
<1>4. u32(b + k) = IF b + k >= U32 THEN b + k - U32 ELSE b + k
  BY <1>3, U32Wrap, U32Assumption DEF U32Values
<1> DEFINE d == u32(b + k) - a
<1>5. d \in Int /\ -U32 <= d /\ d < 2 * U32
  BY <1>2, <1>4, U32Assumption DEF U32Values
<1>6. u32(d) = IF d < 0 THEN d + U32 ELSE IF d >= U32 THEN d - U32 ELSE d
  BY <1>5, U32Wrap
<1> QED
  BY <1>2, <1>4, <1>6, U32Assumption DEF U32Values

\* Advancing the trailing pointer.
LEMMA DistSub ==
    ASSUME NEW a \in U32Values, NEW b \in U32Values, NEW k \in Nat,
           k <= u32(b - a)
    PROVE  u32(b - u32(a + k)) = u32(b - a) - k
<1>1. b - a \in Int /\ -U32 <= b - a /\ b - a < 2 * U32
  BY U32Assumption DEF U32Values
<1>2. u32(b - a) = IF b - a < 0 THEN b - a + U32 ELSE b - a
  BY <1>1, U32Wrap, U32Assumption DEF U32Values
<1>3. a + k \in Int /\ -U32 <= a + k /\ a + k < 2 * U32
  BY <1>2, U32Assumption DEF U32Values
<1>4. u32(a + k) = IF a + k >= U32 THEN a + k - U32 ELSE a + k
  BY <1>3, U32Wrap, U32Assumption DEF U32Values
<1> DEFINE d == b - u32(a + k)
<1>5. d \in Int /\ -U32 <= d /\ d < 2 * U32
  BY <1>2, <1>4, U32Assumption DEF U32Values
<1>6. u32(d) = IF d < 0 THEN d + U32 ELSE IF d >= U32 THEN d - U32 ELSE d
  BY <1>5, U32Wrap
<1> QED
  BY <1>2, <1>4, <1>6, U32Assumption DEF U32Values

\* From b to a point k past a.
LEMMA DistPast ==
    ASSUME NEW a \in U32Values, NEW b \in U32Values, NEW k \in Nat,
           k < U32, u32(b - a) <= k
    PROVE  u32(u32(a + k) - b) = k - u32(b - a)
<1>1. b - a \in Int /\ -U32 <= b - a /\ b - a < 2 * U32
  BY U32Assumption DEF U32Values
<1>2. u32(b - a) = IF b - a < 0 THEN b - a + U32 ELSE b - a
  BY <1>1, U32Wrap, U32Assumption DEF U32Values
<1>3. a + k \in Int /\ -U32 <= a + k /\ a + k < 2 * U32
  BY U32Assumption DEF U32Values
<1>4. u32(a + k) = IF a + k >= U32 THEN a + k - U32 ELSE a + k
  BY <1>3, U32Wrap, U32Assumption DEF U32Values
<1> DEFINE d == u32(a + k) - b
<1>5. d \in Int /\ -U32 <= d /\ d < 2 * U32
  BY <1>4, U32Assumption DEF U32Values
<1>6. u32(d) = IF d < 0 THEN d + U32 ELSE IF d >= U32 THEN d - U32 ELSE d
  BY <1>5, U32Wrap
<1> QED
  BY <1>2, <1>4, <1>6, U32Assumption DEF U32Values

\* Following the distance leads to the pointer.
LEMMA AddDist ==
    ASSUME NEW a \in U32Values, NEW b \in U32Values
    PROVE  u32(a + u32(b - a)) = b
<1>1. b - a \in Int /\ -U32 <= b - a /\ b - a < 2 * U32
  BY U32Assumption DEF U32Values
<1>2. u32(b - a) = IF b - a < 0 THEN b - a + U32 ELSE b - a
  BY <1>1, U32Wrap, U32Assumption DEF U32Values
<1> DEFINE d == a + u32(b - a)
<1>3. d \in Int /\ -U32 <= d /\ d < 2 * U32
  BY <1>2, U32Assumption DEF U32Values
<1>4. u32(d) = IF d < 0 THEN d + U32 ELSE IF d >= U32 THEN d - U32 ELSE d
  BY <1>3, U32Wrap
<1> QED
  BY <1>2, <1>4, U32Assumption DEF U32Values

\* Wrapping in the middle of a sum makes no difference.
LEMMA AddAdd ==
    ASSUME NEW a \in Int, NEW b \in Int
    PROVE  u32(u32(a) + b) = u32(a + b)
BY U32Assumption, ModOfSum DEF u32

\* One step past a pointer that is k steps past another.
LEMMA AddOne ==
    ASSUME NEW a \in U32Values, NEW k \in Nat
    PROVE  u32(u32(a + k) + 1) = u32(a + (k + 1))
<1>1. a \in Nat
  BY U32Nat
<1>2. a + k \in Int /\ (a + k) + 1 = a + (k + 1)
  BY <1>1
<1> QED
  BY <1>2, AddAdd
=============================================================================
