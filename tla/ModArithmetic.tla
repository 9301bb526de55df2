---------------------------- MODULE ModArithmetic ----------------------------
(***************************************************************************)
(* Facts about % that the ring structures rest on.  Both index an array    *)
(* whose length divides 2^32 with an unsigned counter that wraps at 2^32:  *)
(* what has to be known is that reducing modulo 2^32 first does not change *)
(* the slot, and that fewer counters than slots never share one.           *)
(***************************************************************************)
EXTENDS Integers, TLAPS

\* A remainder and its quotient determine the number: no index has two slots.
LEMMA ModUnique ==
  ASSUME NEW m \in Nat \ {0}, NEW q \in Int, NEW r \in 0 .. m - 1
  PROVE  (m * q + r) % m = r
  OBVIOUS

\* A number is its quotient times the modulus plus its remainder, which is
\* how an unsigned counter splits into lap and slot.
LEMMA ModSplit ==
  ASSUME NEW m \in Nat \ {0}, NEW x \in Int
  PROVE  /\ x % m \in 0 .. m - 1
         /\ x \div m \in Int
         /\ x = m * (x \div m) + (x % m)
  OBVIOUS

\* Adding whole laps changes no slot.
LEMMA ModLaps ==
  ASSUME NEW m \in Nat \ {0}, NEW x \in Int, NEW q \in Int
  PROVE  (x + m * q) % m = x % m
<1>1. x + m * q = m * ((x \div m) + q) + (x % m)
  BY ModSplit
<1>2. (x \div m) + q \in Int /\ x % m \in 0 .. m - 1
  BY ModSplit
<1>3. (m * ((x \div m) + q) + (x % m)) % m = x % m
  BY <1>2, ModUnique
<1>4. QED
  BY <1>1, <1>3

\* The wrap of an unsigned counter at w changes no slot of an array whose
\* length m divides w.
LEMMA ModOfMod ==
  ASSUME NEW m \in Nat \ {0}, NEW w \in Nat \ {0}, w % m = 0, NEW x \in Int
  PROVE  (x % w) % m = x % m
<1> DEFINE k == w \div m
           q == x \div w
<1>1. k \in Int /\ w = m * k
  BY ModSplit
<1>2. q \in Int /\ x % w \in Int /\ x = w * q + (x % w)
  BY ModSplit
<1>3. k * q \in Int
  BY <1>1, <1>2
<1>4. w * q = m * (k * q)
  BY <1>1, <1>2
<1> HIDE DEF k, q
<1>5. x = (x % w) + m * (k * q)
  BY <1>2, <1>4
<1>6. ((x % w) + m * (k * q)) % m = (x % w) % m
  BY <1>2, <1>3, ModLaps
<1>7. QED
  BY <1>5, <1>6

\* Two counters less than m apart that share a slot are equal: the slots
\* of a window no longer than the array are distinct.
LEMMA ModInjective ==
  ASSUME NEW m \in Nat \ {0}, NEW x \in Int, NEW y \in Int,
         x - y < m, y - x < m, x % m = y % m
  PROVE  x = y
<1> DEFINE qx == x \div m
           qy == y \div m
           r == x % m
<1>1. qx \in Int /\ qy \in Int /\ r \in Int /\ x = m * qx + r /\ y = m * qy + r
  BY ModSplit
<1> HIDE DEF qx, qy, r
<1>2. x - y = m * (qx - qy)
  BY <1>1
<1>3. CASE qx = qy
  BY <1>1, <1>3
<1>4. CASE qx - qy >= 1
  <2>1. m * (qx - qy) >= m
    <3>1. \A d \in Int : d >= 1 => m * d >= m
      OBVIOUS
    <3>2. qx - qy \in Int
      BY <1>1
    <3>3. QED
      BY <1>4, <3>1, <3>2
  <2>2. QED
    BY <1>1, <1>2, <2>1
<1>5. CASE qy - qx >= 1
  <2>1. m * (qy - qx) >= m
    <3>1. \A d \in Int : d >= 1 => m * d >= m
      OBVIOUS
    <3>2. qy - qx \in Int
      BY <1>1
    <3>3. QED
      BY <1>5, <3>1, <3>2
  <2>2. y - x = m * (qy - qx)
    BY <1>1
  <2>3. QED
    BY <1>1, <2>1, <2>2
<1>6. QED
  BY <1>1, <1>3, <1>4, <1>5

\* A number below the modulus is its own remainder.
LEMMA ModSmall ==
  ASSUME NEW m \in Nat \ {0}, NEW x \in 0 .. m - 1
  PROVE  x % m = x
  OBVIOUS

\* The unsigned difference of two counters of w values, without %.
LEMMA ModDifference ==
  ASSUME NEW w \in Nat \ {0}, NEW x \in 0 .. w - 1, NEW y \in 0 .. w - 1
  PROVE  (x - y) % w = IF x >= y THEN x - y ELSE x - y + w
<1>1. CASE x >= y
  BY <1>1, ModSmall
<1>2. CASE x < y
  <2>1. x - y = w * (-1) + (x - y + w) /\ x - y + w \in 0 .. w - 1
    BY <1>2
  <2>2. (w * (-1) + (x - y + w)) % w = x - y + w
    BY <2>1, ModUnique
  <2>3. QED
    BY <1>2, <2>1, <2>2
<1>3. QED
  BY <1>1, <1>2

\* The unsigned sum of a counter and at most w, without %.
LEMMA ModSum ==
  ASSUME NEW w \in Nat \ {0}, NEW x \in 0 .. w - 1, NEW d \in 0 .. w
  PROVE  (x + d) % w = IF x + d < w THEN x + d ELSE x + d - w
<1>1. CASE x + d < w
  BY <1>1, ModSmall
<1>2. CASE x + d >= w
  <2>1. x + d = w * 1 + (x + d - w) /\ x + d - w \in 0 .. w - 1
    BY <1>2
  <2>2. (w * 1 + (x + d - w)) % w = x + d - w
    BY <2>1, ModUnique
  <2>3. QED
    BY <1>2, <2>1, <2>2
<1>3. QED
  BY <1>1, <1>2

\* Between two counters that do not lap each other, advancing the first by d
\* adds d to their unsigned difference.
LEMMA ModAdvance ==
  ASSUME NEW w \in Nat \ {0}, NEW x \in 0 .. w - 1, NEW y \in 0 .. w - 1,
         NEW d \in 0 .. w - 1, ((x - y) % w) + d < w
  PROVE  (((x + d) % w) - y) % w = ((x - y) % w) + d
<1> DEFINE z == (x + d) % w
<1>1. (x - y) % w = IF x >= y THEN x - y ELSE x - y + w
  BY ModDifference
<1>2. z = IF x + d < w THEN x + d ELSE x + d - w
  <2>1. d \in 0 .. w
    OBVIOUS
  <2>2. QED
    BY <2>1, ModSum
<1> HIDE DEF z
<1>3. z \in 0 .. w - 1
  BY <1>2
<1>4. (z - y) % w = IF z >= y THEN z - y ELSE z - y + w
  BY <1>3, ModDifference
<1>5. (z - y) % w = ((x - y) % w) + d
  BY <1>1, <1>2, <1>4
<1>6. QED
  BY <1>5 DEF z

\* ... and advancing the second takes d away.
LEMMA ModFollow ==
  ASSUME NEW w \in Nat \ {0}, NEW x \in 0 .. w - 1, NEW y \in 0 .. w - 1,
         NEW d \in 0 .. w - 1, d <= (x - y) % w
  PROVE  (x - ((y + d) % w)) % w = ((x - y) % w) - d
<1> DEFINE z == (y + d) % w
<1>1. (x - y) % w = IF x >= y THEN x - y ELSE x - y + w
  BY ModDifference
<1>2. z = IF y + d < w THEN y + d ELSE y + d - w
  <2>1. d \in 0 .. w
    OBVIOUS
  <2>2. QED
    BY <2>1, ModSum
<1> HIDE DEF z
<1>3. z \in 0 .. w - 1
  BY <1>2
<1>4. (x - z) % w = IF x >= z THEN x - z ELSE x - z + w
  BY <1>3, ModDifference
<1>5. (x - z) % w = ((x - y) % w) - d
  BY <1>1, <1>2, <1>4
<1>6. QED
  BY <1>5 DEF z

\* A position counted from a wrapped counter is the one counted from the
\* counter that never wrapped.
LEMMA ModShift ==
  ASSUME NEW m \in Nat \ {0}, NEW w \in Nat \ {0}, w % m = 0,
         NEW x \in Int, NEW i \in Int
  PROVE  ((x % w) + i) % m = (x + i) % m
<1> DEFINE k == w \div m
           q == x \div w
<1>1. k \in Int /\ w = m * k
  BY ModSplit
<1>2. q \in Int /\ x % w \in Int /\ x = w * q + (x % w)
  BY ModSplit
<1>3. k * q \in Int
  BY <1>1, <1>2
<1>4. w * q = m * (k * q)
  BY <1>1, <1>2
<1> HIDE DEF k, q
<1>5. x + i = ((x % w) + i) + m * (k * q)
  BY <1>2, <1>4
<1>6. (((x % w) + i) + m * (k * q)) % m = ((x % w) + i) % m
  <2>1. (x % w) + i \in Int
    BY <1>2
  <2>2. QED
    BY <1>3, <2>1, ModLaps
<1>7. QED
  BY <1>5, <1>6
=============================================================================
