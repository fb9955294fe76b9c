--------------------------- MODULE KademliaProofs ---------------------------
(***************************************************************************)
(* Theorems about the Kademlia node, for every network, bucket size and    *)
(* parallelism: the XOR metric, the shape and the progress of a search,    *)
(* and the agreement of the copies of a stored value.                      *)
(***************************************************************************)
EXTENDS Kademlia, FiniteSetTheorems, NaturalsInduction, WellFoundedInduction, TLAPS

LEMMA NatMin ==
  ASSUME NEW T, T \subseteq Nat, T # {}
  PROVE  \E x \in T : \A y \in T : x <= y
<1>1. PICK x \in T : \A y \in T : ~ (<<y, x>> \in OpToRel(<, Nat))
  BY WFMin, NatLessThanWellFounded
<1>2. \A y \in T : ~(y < x) BY <1>1 DEF OpToRel
<1> QED BY <1>2

-----------------------------------------------------------------------------
(* The bits of a number.                                                     *)

LEMMA Division ==
  ASSUME NEW a \in Nat, NEW q \in Nat \ {0}
  PROVE  a \div q \in Nat /\ a % q \in 0 .. q - 1 /\ a = (a \div q) * q + (a % q)
<1>1. PICK d \in Int : d = a \div q OBVIOUS
<1>2. PICK r \in Int : r = a % q OBVIOUS
<1>3. a = d * q + r BY <1>1, <1>2
<1>4. a = (a \div q) * q + (a % q) BY <1>1, <1>2, <1>3, Zenon
<1>5. a \div q \in Nat OBVIOUS
<1>6. a % q \in 0 .. q - 1 OBVIOUS
<1> QED BY <1>4, <1>5, <1>6

LEMMA QuotientUnique ==
  ASSUME NEW q \in Nat \ {0}, NEW e \in Nat, NEW f \in Nat,
         NEW r \in 0 .. q - 1, NEW s \in 0 .. q - 1, e * q + r = f * q + s
  PROVE  e = f
<1>1. ASSUME NEW x \in Nat, NEW y \in Nat, x < y PROVE x * q + q <= y * q
  <2>1. PICK z \in Nat : y = x + 1 + z
    <3>1. y - x - 1 \in Nat /\ y = x + 1 + (y - x - 1) BY <1>1
    <3> QED BY <3>1
  <2>2. y * q = x * q + q + z * q BY <2>1
  <2>3. z * q \in Nat OBVIOUS
  <2> QED BY <2>2, <2>3
<1>2. ~(e < f) BY <1>1
<1>3. ~(f < e) BY <1>1
<1> QED BY <1>2, <1>3

LEMMA HalfFirst ==
  ASSUME NEW a \in Nat, NEW p \in Nat \ {0}
  PROVE  a \div (2 * p) = (a \div 2) \div p
<1> DEFINE d == a \div 2   e == d \div p   r == a % 2   s == d % p
<1>1. d \in Nat /\ r \in 0 .. 1 /\ a = d * 2 + r BY Division
<1>2. e \in Nat /\ s \in 0 .. p - 1 /\ d = e * p + s BY <1>1, Division
<1> HIDE DEF d, e, r, s
<1>3. a = e * (2 * p) + (2 * s + r) /\ 2 * s + r \in 0 .. 2 * p - 1
  <2>1. a = (e * p) * 2 + (2 * s + r) BY <1>1, <1>2
  <2>2. (e * p) * 2 = e * (2 * p) BY <1>2
  <2> QED BY <1>1, <1>2, <2>1, <2>2
<1> DEFINE g == a \div (2 * p)   t == a % (2 * p)
<1>4. 2 * p \in Nat \ {0} OBVIOUS
<1>5. g \in Nat /\ t \in 0 .. 2 * p - 1 /\ a = g * (2 * p) + t
  <2>1. PICK q : q = 2 * p OBVIOUS
  <2>2. q \in Nat \ {0} BY <1>4, <2>1
  <2>3. a \div q \in Nat /\ a % q \in 0 .. q - 1 /\ a = (a \div q) * q + (a % q)
    BY <2>2, Division
  <2>4. a \div (2 * p) \in Nat BY <1>4
  <2>5. a % (2 * p) \in 0 .. 2 * p - 1 BY <1>4
  <2>6. a = (a \div (2 * p)) * (2 * p) + (a % (2 * p)) BY <2>1, <2>3
  <2> QED BY <2>4, <2>5, <2>6
<1> HIDE DEF g, t
<1>6. 2 * s + r \in 0 .. 2 * p - 1 BY <1>3
<1>7. g = e BY <1>2, <1>3, <1>4, <1>5, <1>6, QuotientUnique
<1> QED BY <1>7 DEF g, e, d

LEMMA PowerFacts ==
  ASSUME NEW i \in 0 .. Bits
  PROVE  2 ^ i \in Nat \ {0} /\ 2 ^ (i + 1) = 2 * 2 ^ i
<1> DEFINE Bad == {j \in 0 .. Bits : 2 ^ j \notin Nat \ {0}}
<1>1. Bits \in Nat BY KademliaAssumption
<1>2. Bad = {}
  <2> SUFFICES ASSUME Bad # {} PROVE FALSE OBVIOUS
  <2>1. Bad \subseteq Nat BY <1>1
  <2>2. PICK j \in Bad : \A k \in Bad : j <= k BY <2>1, NatMin
  <2>3. j # 0
    <3>1. 2 ^ 0 = 1 BY PowerAssumption
    <3>2. 0 \notin Bad BY <3>1
    <3> QED BY <2>2, <3>2
  <2>4. j - 1 \in 0 .. Bits /\ j - 1 \notin Bad /\ (j - 1) + 1 = j BY <2>2, <2>3, <1>1
  <2>5. 2 ^ (j - 1) \in Nat \ {0} /\ 2 ^ j = 2 * 2 ^ (j - 1) BY <2>4, PowerAssumption
  <2>6. 2 ^ j \in Nat \ {0} BY <2>5
  <2> QED BY <2>2, <2>6
<1>3. i \notin Bad BY <1>2
<1> QED BY <1>3, PowerAssumption

\* Bit 0 is the parity, the others are the bits of the half.
LEMMA BitFacts ==
  ASSUME NEW a \in Nat, NEW j \in 0 .. Bits
  PROVE  /\ Bit(a, j) \in 0 .. 1
         /\ Bit(a, 0) = a % 2
         /\ Bit(a, j + 1) = Bit(a \div 2, j)
<1>1. 2 ^ j \in Nat \ {0} /\ 2 ^ (j + 1) = 2 * 2 ^ j BY PowerFacts
<1>2. a \div 2 ^ j \in Nat BY <1>1
<1>3. Bit(a, j) \in 0 .. 1 BY <1>2 DEF Bit
<1>4. Bit(a, 0) = a % 2 BY PowerAssumption DEF Bit
<1>5. a \div 2 ^ (j + 1) = (a \div 2) \div 2 ^ j BY <1>1, HalfFirst
<1> QED BY <1>3, <1>4, <1>5 DEF Bit

\* A number below 2^n is known by its n lowest bits.
SameBits(a, b, n) == \A j \in 0 .. n - 1 : Bit(a, j) = Bit(b, j)

LEMMA BitsUnique ==
  ASSUME NEW a \in Id, NEW b \in Id, SameBits(a, b, Bits)
  PROVE  a = b
<1> DEFINE Known(n) == \A x, y \in 0 .. 2 ^ n - 1 : SameBits(x, y, n) => x = y
           Bad == {n \in 0 .. Bits : ~Known(n)}
<1>1. Bits \in Nat BY KademliaAssumption
<1>2. Known(0)
  <2>1. 2 ^ 0 = 1 BY PowerAssumption
  <2> QED BY <2>1
<1>3. ASSUME NEW n \in 0 .. Bits, n + 1 \in 0 .. Bits, Known(n) PROVE Known(n + 1)
  <2> SUFFICES ASSUME NEW x \in 0 .. 2 ^ (n + 1) - 1, NEW y \in 0 .. 2 ^ (n + 1) - 1,
                      SameBits(x, y, n + 1)
               PROVE  x = y
    OBVIOUS
  <2>1. 2 ^ n \in Nat /\ 2 ^ (n + 1) = 2 * 2 ^ n BY PowerFacts
  <2>2. x \in Nat /\ y \in Nat /\ n \in Nat BY <2>1, <1>1
  <2>3. x \div 2 \in 0 .. 2 ^ n - 1 /\ y \div 2 \in 0 .. 2 ^ n - 1 BY <2>1, <2>2
  <2>4. SameBits(x \div 2, y \div 2, n)
    <3> SUFFICES ASSUME NEW j \in 0 .. n - 1 PROVE Bit(x \div 2, j) = Bit(y \div 2, j)
      BY DEF SameBits
    <3>1. j \in 0 .. Bits /\ j + 1 \in 0 .. n BY <1>1, <2>2
    <3>2. Bit(x, j + 1) = Bit(y, j + 1) BY <3>1, <2>2 DEF SameBits
    <3>3. Bit(x, j + 1) = Bit(x \div 2, j) /\ Bit(y, j + 1) = Bit(y \div 2, j)
      BY <3>1, <2>2, BitFacts
    <3> QED BY <3>2, <3>3
  <2>5. x \div 2 = y \div 2 BY <1>3, <2>3, <2>4
  <2>6. x % 2 = y % 2
    <3>1. 0 \in 0 .. Bits /\ 0 \in 0 .. (n + 1) - 1 BY <1>1, <2>2
    <3>2. Bit(x, 0) = Bit(y, 0) BY <3>1 DEF SameBits
    <3>3. Bit(x, 0) = x % 2 /\ Bit(y, 0) = y % 2 BY <3>1, <2>2, BitFacts
    <3> QED BY <3>2, <3>3
  <2>7. x = (x \div 2) * 2 + (x % 2) /\ y = (y \div 2) * 2 + (y % 2) BY <2>2, Division
  <2> QED BY <2>5, <2>6, <2>7
<1>4. Bad = {}
  <2> HIDE DEF Known
  <2> SUFFICES ASSUME Bad # {} PROVE FALSE OBVIOUS
  <2>1. Bad \subseteq Nat BY <1>1
  <2>2. PICK n \in Bad : \A m \in Bad : n <= m BY <2>1, NatMin
  <2>3. n # 0 BY <1>2, <2>2
  <2>4. n - 1 \in 0 .. Bits /\ n - 1 \notin Bad /\ (n - 1) + 1 = n BY <2>2, <2>3, <1>1
  <2>5. Known(n - 1) BY <2>4
  <2>6. Known((n - 1) + 1) BY <2>2, <2>4, <2>5, <1>3
  <2> QED BY <2>2, <2>4, <2>6
<1>5. Known(Bits)
  <2> HIDE DEF Known
  <2> QED BY <1>1, <1>4
<1> QED BY <1>5 DEF Id

\* Any set of bits is the bits of some number.
LEMMA BitsAny ==
  ASSUME NEW S \in SUBSET Index
  PROVE  \E a \in Id : \A j \in Index : Bit(a, j) = 1 <=> j \in S
<1> DEFINE Has(n) == \A T \in SUBSET (0 .. n - 1) :
                       \E x \in 0 .. 2 ^ n - 1 : \A j \in 0 .. n - 1 : Bit(x, j) = 1 <=> j \in T
           Bad == {n \in 0 .. Bits : ~Has(n)}
<1>1. Bits \in Nat BY KademliaAssumption
<1>2. Has(0)
  <2>1. 2 ^ 0 = 1 BY PowerAssumption
  <2>2. 0 \in 0 .. 2 ^ 0 - 1 BY <2>1
  <2> QED BY <2>2
<1>3. ASSUME NEW n \in 0 .. Bits, n + 1 \in 0 .. Bits, Has(n) PROVE Has(n + 1)
  <2> SUFFICES ASSUME NEW T \in SUBSET (0 .. n)
               PROVE  \E x \in 0 .. 2 ^ (n + 1) - 1 :
                        \A j \in 0 .. n : Bit(x, j) = 1 <=> j \in T
    BY <1>1
  <2>1. 2 ^ n \in Nat /\ 2 ^ (n + 1) = 2 * 2 ^ n BY PowerFacts
  <2>2. n \in Nat BY <1>1
  <2> DEFINE H == {j \in 0 .. n - 1 : j + 1 \in T}
             r == IF 0 \in T THEN 1 ELSE 0
  <2>3. PICK h \in 0 .. 2 ^ n - 1 : \A j \in 0 .. n - 1 : Bit(h, j) = 1 <=> j \in H
    BY <1>3
  <2>4. PICK x \in Nat : x = 2 * h + r BY <2>1
  <2>5. x \in 0 .. 2 ^ (n + 1) - 1 /\ x % 2 = r /\ x \div 2 = h /\ h \in Nat BY <2>1, <2>4
  <2>6. ASSUME NEW j \in 0 .. n PROVE Bit(x, j) = 1 <=> j \in T
    <3>1. CASE j = 0
      <4>1. j \in 0 .. Bits BY <1>1, <3>1
      <4>2. Bit(x, 0) = x % 2 BY <4>1, BitFacts
      <4> QED BY <3>1, <4>2, <2>5
    <3>2. CASE j # 0
      <4>1. PICK i \in 0 .. n - 1 : j = i + 1
        <5>1. j - 1 \in 0 .. n - 1 /\ j = (j - 1) + 1 BY <2>2, <3>2
        <5> QED BY <5>1
      <4>2. i \in 0 .. Bits BY <1>1
      <4>3. Bit(x, i + 1) = Bit(x \div 2, i) BY <4>2, BitFacts
      <4>4. Bit(x, i + 1) = Bit(h, i) BY <4>3, <2>5
      <4> QED BY <4>1, <4>4, <2>3
    <3> QED BY <3>1, <3>2
  <2> QED BY <2>5, <2>6
<1>4. Bad = {}
  <2> HIDE DEF Has
  <2> SUFFICES ASSUME Bad # {} PROVE FALSE OBVIOUS
  <2>1. Bad \subseteq Nat BY <1>1
  <2>2. PICK n \in Bad : \A m \in Bad : n <= m BY <2>1, NatMin
  <2>3. n # 0 BY <1>2, <2>2
  <2>4. n - 1 \in 0 .. Bits /\ n - 1 \notin Bad /\ (n - 1) + 1 = n BY <2>2, <2>3, <1>1
  <2>5. Has(n - 1) BY <2>4
  <2>6. Has((n - 1) + 1) BY <2>2, <2>4, <2>5, <1>3
  <2> QED BY <2>2, <2>4, <2>6
<1>5. Has(Bits)
  <2> HIDE DEF Has
  <2> QED BY <1>1, <1>4
<1> QED BY <1>5 DEF Id, Index

-----------------------------------------------------------------------------
(* The XOR metric.                                                           *)

LEMMA IndexMax ==
  ASSUME NEW S \in SUBSET Index, S # {}
  PROVE  \E x \in S : \A y \in S : y <= x
<1> DEFINE T == {k \in Nat : \E y \in S : k = Bits - y}
<1>1. Bits \in Nat /\ \A y \in S : y \in 0 .. Bits - 1 BY KademliaAssumption DEF Index
<1>2. \A y \in S : Bits - y \in T BY <1>1
<1>3. T # {} /\ T \subseteq Nat BY <1>2
<1>4. PICK m \in T : \A k \in T : m <= k BY <1>3, NatMin
<1>5. PICK x \in S : m = Bits - x BY <1>4
<1>6. ASSUME NEW y \in S PROVE y <= x BY <1>1, <1>2, <1>4, <1>5
<1> QED BY <1>6

LEMMA LessTransitive ==
  ASSUME NEW x \in SUBSET Index, NEW y \in SUBSET Index, NEW z \in SUBSET Index,
         Less(x, y), Less(y, z)
  PROVE  Less(x, z)
<1>1. PICK i \in y \ x : \A j \in Index : j > i => (j \in x <=> j \in y) BY DEF Less
<1>2. PICK h \in z \ y : \A j \in Index : j > h => (j \in y <=> j \in z) BY DEF Less
<1>3. i \in Index /\ h \in Index /\ Index \subseteq Int BY DEF Index
<1>4. i # h BY <1>1, <1>2
<1>5. CASE i < h
  <2>1. h \in z \ x BY <1>1, <1>2, <1>3, <1>5
  <2>2. \A j \in Index : j > h => (j \in x <=> j \in z) BY <1>1, <1>2, <1>3, <1>5
  <2> QED BY <2>1, <2>2 DEF Less
<1>6. CASE h < i
  <2>1. i \in z \ x BY <1>1, <1>2, <1>3, <1>6
  <2>2. \A j \in Index : j > i => (j \in x <=> j \in z) BY <1>1, <1>2, <1>3, <1>6
  <2> QED BY <2>1, <2>2 DEF Less
<1> QED BY <1>3, <1>4, <1>5, <1>6

LEMMA LessTotal ==
  ASSUME NEW x \in SUBSET Index, NEW y \in SUBSET Index, x # y
  PROVE  Less(x, y) \/ Less(y, x)
<1> DEFINE D == (x \ y) \cup (y \ x)
<1>1. D \in SUBSET Index /\ D # {} OBVIOUS
<1>2. PICK i \in D : \A j \in D : j <= i BY <1>1, IndexMax
<1>3. \A j \in Index : j > i => (j \in x <=> j \in y)
  <2> SUFFICES ASSUME NEW j \in Index, j > i PROVE j \notin D OBVIOUS
  <2>1. i \in Int /\ j \in Int BY <1>1, <1>2 DEF Index
  <2> HIDE DEF D
  <2> QED BY <1>2, <2>1
<1> QED BY <1>2, <1>3 DEF Less

\* XORDistance is a metric in which no two identifiers are equally far from a
\* third, which is why a search can order its contacts by it: what lookup.go and
\* routing.go rely on wherever they sort.
THEOREM XORMetric ==
  ASSUME NEW a \in Id, NEW b \in Id, NEW c \in Id
  PROVE  /\ XORDistance(a, b) = XORDistance(b, a)
         /\ XORDistance(a, b) = {} <=> a = b
         /\ XORDistance(a, c) = XORDistance(b, c) => a = b
<1>1. \A x \in Id, j \in Index : Bit(x, j) \in 0 .. 1
  <2> SUFFICES ASSUME NEW x \in Id, NEW j \in Index PROVE Bit(x, j) \in 0 .. 1 OBVIOUS
  <2>1. Bits \in Nat /\ 2 ^ Bits \in Nat BY KademliaAssumption, PowerAssumption
  <2>2. x \in Nat /\ j \in 0 .. Bits BY <2>1 DEF Id, Index
  <2> QED BY <2>2, BitFacts
<1>2. ASSUME NEW x \in Id, NEW y \in Id, \A j \in Index : Bit(x, j) = Bit(y, j) PROVE x = y
  <2>1. SameBits(x, y, Bits) BY <1>2 DEF SameBits, Index
  <2> QED BY <2>1, BitsUnique
<1>3. XORDistance(a, b) = XORDistance(b, a) BY DEF XORDistance
<1>4. XORDistance(a, b) = {} => a = b BY <1>2 DEF XORDistance
<1>5. a = b => XORDistance(a, b) = {} BY DEF XORDistance
<1>6. ASSUME XORDistance(a, c) = XORDistance(b, c) PROVE a = b
  <2>1. \A j \in Index : Bit(a, j) # Bit(c, j) <=> Bit(b, j) # Bit(c, j)
    BY <1>6 DEF XORDistance
  <2>2. \A j \in Index : Bit(a, j) = Bit(b, j) BY <1>1, <2>1
  <2> QED BY <2>2, <1>2
<1> QED BY <1>3, <1>4, <1>5, <1>6

\* refreshBuckets finds an identifier for every bucket: the own one with the bit
\* of the bucket flipped exists, and it lies in that bucket.
THEOREM FlippedBit ==
  ASSUME NEW n \in Id, NEW i \in Index
  PROVE  /\ \E m \in Id : XORDistance(n, m) = {i}
         /\ \A m \in Id : XORDistance(n, m) = {i} => BucketIndex(n, m) = i
<1>1. \A x \in Id, j \in Index : Bit(x, j) \in 0 .. 1
  <2> SUFFICES ASSUME NEW x \in Id, NEW j \in Index PROVE Bit(x, j) \in 0 .. 1 OBVIOUS
  <2>1. Bits \in Nat /\ 2 ^ Bits \in Nat BY KademliaAssumption, PowerAssumption
  <2>2. x \in Nat /\ j \in 0 .. Bits BY <2>1 DEF Id, Index
  <2> QED BY <2>2, BitFacts
<1> DEFINE S == {j \in Index : IF j = i THEN Bit(n, j) = 0 ELSE Bit(n, j) = 1}
<1>2. S \in SUBSET Index OBVIOUS
<1> HIDE DEF S
<1>3. PICK m \in Id : \A j \in Index : Bit(m, j) = 1 <=> j \in S BY <1>2, BitsAny
<1>4. \A j \in Index : Bit(n, j) # Bit(m, j) <=> j = i BY <1>1, <1>3 DEF S
<1>5. XORDistance(n, m) = {i} BY <1>4 DEF XORDistance
<1>6. ASSUME NEW w \in Id, XORDistance(n, w) = {i} PROVE BucketIndex(n, w) = i
  <2>1. n # w BY <1>6, XORMetric
  <2>2. BucketIndex(n, w) = Max({i}) BY <1>6, <2>1 DEF BucketIndex
  <2>3. i \in Int BY DEF Index
  <2>4. Max({i}) = i BY <2>3 DEF Max
  <2> QED BY <2>2, <2>4
<1> QED BY <1>5, <1>6

\* "Closer to the target" orders the identifiers strictly and totally.
LEMMA CloserOrder ==
  ASSUME NEW t \in Id, NEW a \in Id, NEW b \in Id, NEW c \in Id
  PROVE  /\ Closer[t][a] \subseteq Id
         /\ a \notin Closer[t][a]
         /\ a \in Closer[t][b] /\ b \in Closer[t][c] => a \in Closer[t][c]
         /\ a # b => a \in Closer[t][b] \/ b \in Closer[t][a]
<1> DEFINE d(x) == XORDistance(x, t)
<1>1. \A x, y \in Id : x \in Closer[t][y] <=> Less(d(x), d(y)) BY DEF Closer
<1>2. \A x \in Id : d(x) \in SUBSET Index BY DEF XORDistance
<1>3. Closer[t][a] \subseteq Id BY DEF Closer
<1>4. ~Less(d(a), d(a)) BY DEF Less
<1>5. Less(d(a), d(b)) /\ Less(d(b), d(c)) => Less(d(a), d(c)) BY <1>2, LessTransitive
<1>6. a # b => d(a) # d(b) BY XORMetric
<1>7. a # b => Less(d(a), d(b)) \/ Less(d(b), d(a)) BY <1>2, <1>6, LessTotal
<1> HIDE DEF d
<1> QED BY <1>1, <1>3, <1>4, <1>5, <1>7

-----------------------------------------------------------------------------
(* What KClosest and Nearest return.                                         *)

LEMMA IdFinite ==
  /\ IsFiniteSet(Id) /\ IsFiniteSet(Node)
  /\ \A S \in SUBSET Id : IsFiniteSet(S) /\ Cardinality(S) \in Nat
<1>1. 2 ^ Bits \in Nat BY KademliaAssumption, PowerAssumption
<1>2. IsFiniteSet(Id) BY <1>1, FS_Interval DEF Id
<1>3. \A S \in SUBSET Id : IsFiniteSet(S) BY <1>2, FS_Subset
<1> QED BY <1>2, <1>3, KademliaAssumption, FS_CardinalityType

LEMMA FewerThan ==
  ASSUME NEW S \in SUBSET Id, NEW T \in SUBSET S, T # S
  PROVE  Cardinality(T) < Cardinality(S)
<1>1. T \in SUBSET Id OBVIOUS
<1>2. IsFiniteSet(S) /\ Cardinality(S) \in Nat /\ Cardinality(T) \in Nat BY <1>1, IdFinite
<1>3. Cardinality(T) <= Cardinality(S) /\ Cardinality(T) # Cardinality(S) BY <1>2, FS_Subset
<1> QED BY <1>2, <1>3

\* The nearest contact: a closest one exists, and every other is farther.
LEMMA NearestFacts ==
  ASSUME NEW t \in Id, NEW S \in SUBSET Id, S # {}
  PROVE  /\ Nearest(S, t) \in S
         /\ S \cap Closer[t][Nearest(S, t)] = {}
         /\ \A c \in S : c # Nearest(S, t) => Nearest(S, t) \in Closer[t][c]
         /\ \A c \in S : S \cap Closer[t][c] = {} => c = Nearest(S, t)
<1> DEFINE rank(c) == Cardinality(S \cap Closer[t][c])
           R == {rank(c) : c \in S}
<1>1. \A c \in S : S \cap Closer[t][c] \in SUBSET Id OBVIOUS
<1>2. \A c \in S : rank(c) \in Nat BY <1>1, IdFinite
<1>3. R \subseteq Nat /\ R # {} BY <1>2
<1>4. PICK r \in R : \A q \in R : r <= q BY <1>3, NatMin
<1>5. PICK c \in S : r = rank(c) BY <1>4
<1>6. S \cap Closer[t][c] = {}
  <2> SUFFICES ASSUME NEW d \in S \cap Closer[t][c] PROVE FALSE OBVIOUS
  <2>1. S \cap Closer[t][d] \subseteq S \cap Closer[t][c] BY CloserOrder
  <2>2. d \notin S \cap Closer[t][d] BY CloserOrder
  <2>3. S \cap Closer[t][d] # S \cap Closer[t][c] BY <2>2
  <2>4. S \cap Closer[t][c] \in SUBSET Id OBVIOUS
  <2>5. rank(d) < rank(c) BY <2>1, <2>3, <2>4, FewerThan
  <2>6. rank(d) \in R BY <2>2
  <2>7. rank(c) <= rank(d) BY <1>4, <1>5, <2>6
  <2>8. rank(c) \in Nat /\ rank(d) \in Nat BY <1>2
  <2> HIDE DEF rank
  <2> QED BY <2>5, <2>7, <2>8
<1> DEFINE m == Nearest(S, t)
<1>7. m \in S /\ S \cap Closer[t][m] = {} BY <1>6 DEF Nearest
<1> HIDE DEF m
<1>8. \A x \in S : x # m => m \in Closer[t][x] BY <1>7, CloserOrder
<1>9. \A x \in S : S \cap Closer[t][x] = {} => x = m BY <1>7, <1>8
<1> QED BY <1>7, <1>8, <1>9 DEF m

\* KClosest returns at most k contacts, and whoever it leaves out is farther than
\* all of them.
LEMMA KClosestFacts ==
  ASSUME NEW t \in Id, NEW S \in SUBSET Id, NEW k \in Nat
  PROVE  /\ KClosest(S, t, k) \subseteq S
         /\ Cardinality(KClosest(S, t, k)) <= k
         /\ \A c \in KClosest(S, t, k), d \in S \ KClosest(S, t, k) : c \in Closer[t][d]
         /\ S # {} /\ k # 0 => /\ Nearest(S, t) \in KClosest(S, t, k)
                              /\ Nearest(KClosest(S, t, k), t) = Nearest(S, t)
<1> DEFINE rank(c) == Cardinality(S \cap Closer[t][c])
           C == KClosest(S, t, k)
<1>1. \A c \in S : S \cap Closer[t][c] \in SUBSET Id OBVIOUS
<1>2. \A c \in S : rank(c) \in Nat BY <1>1, IdFinite
<1>3. C \subseteq S /\ \A c \in S : c \in C <=> rank(c) < k BY DEF KClosest
<1>4. \A c \in S : IsFiniteSet(S \cap Closer[t][c]) BY <1>1, IdFinite
<1>5. IsFiniteSet(C) /\ Cardinality(C) \in Nat
  <2>1. C \in SUBSET Id BY <1>3
  <2> QED BY <2>1, IdFinite
<1>6. ASSUME NEW c \in S, NEW d \in S, c \in Closer[t][d] PROVE rank(c) <= rank(d)
  <2>1. S \cap Closer[t][c] \subseteq S \cap Closer[t][d] BY <1>6, CloserOrder
  <2>2. IsFiniteSet(S \cap Closer[t][d]) BY <1>4
  <2> QED BY <2>1, <2>2, FS_Subset
<1>7. \A c \in C, d \in S \ C : c \in Closer[t][d]
  <2> SUFFICES ASSUME NEW c \in C, NEW d \in S \ C, c \notin Closer[t][d] PROVE FALSE
    OBVIOUS
  <2>1. c # d /\ c \in S BY <1>3
  <2>2. d \in Closer[t][c] BY <2>1, CloserOrder
  <2>3. rank(d) <= rank(c) BY <2>1, <2>2, <1>6
  <2>4. rank(c) < k /\ ~(rank(d) < k) BY <1>3, <2>1
  <2>5. rank(c) \in Nat /\ rank(d) \in Nat BY <1>2, <2>1
  <2> HIDE DEF rank
  <2> QED BY <2>3, <2>4, <2>5
<1>8. Cardinality(C) <= k
  <2>1. CASE C = {} BY <2>1, FS_EmptySet
  <2>2. CASE C # {}
    <3> DEFINE Q == {n \in Nat : \E c \in C : n = k - rank(c)}
    <3>1. \A c \in C : k - rank(c) \in Nat BY <1>2, <1>3
    <3>2. Q \subseteq Nat /\ Q # {} BY <2>2, <3>1
    <3>3. PICK n \in Q : \A q \in Q : n <= q BY <3>2, NatMin
    <3>4. PICK c \in C : n = k - rank(c) BY <3>3
    <3>5. C \ {c} \subseteq S \cap Closer[t][c]
      <4> SUFFICES ASSUME NEW d \in C, d # c, d \notin Closer[t][c] PROVE FALSE
        BY <1>3
      <4>1. c \in S /\ d \in S BY <1>3
      <4>2. c \in Closer[t][d] BY <4>1, CloserOrder
      <4>3. S \cap Closer[t][c] \subseteq S \cap Closer[t][d] BY <4>1, <4>2, CloserOrder
      <4>4. c \in S \cap Closer[t][d] /\ c \notin S \cap Closer[t][c]
        BY <4>1, <4>2, CloserOrder
      <4>5. S \cap Closer[t][c] # S \cap Closer[t][d] BY <4>4
      <4>6. rank(c) < rank(d)
        <5>1. S \cap Closer[t][d] \in SUBSET Id BY <1>1, <4>1
        <5> QED BY <4>3, <4>5, <5>1, FewerThan
      <4>7. k - rank(d) \in Q BY <3>1
      <4>8. k - rank(c) <= k - rank(d) BY <3>3, <3>4, <4>7
      <4>9. rank(c) \in Nat /\ rank(d) \in Nat BY <1>2, <4>1
      <4> HIDE DEF rank
      <4> QED BY <4>6, <4>8, <4>9
    <3>6. c \in S /\ rank(c) < k /\ rank(c) \in Nat BY <1>2, <1>3
    <3>7. Cardinality(C \ {c}) <= rank(c) BY <3>5, <3>6, <1>4, FS_Subset
    <3>8. Cardinality(C \ {c}) = Cardinality(C) - 1 BY <1>5, FS_RemoveElement
    <3> HIDE DEF rank, C
    <3> QED BY <1>5, <3>6, <3>7, <3>8
  <2> QED BY <2>1, <2>2
<1>9. ASSUME S # {}, k # 0
      PROVE  Nearest(S, t) \in C /\ Nearest(C, t) = Nearest(S, t)
  <2> DEFINE m == Nearest(S, t)
  <2>1. m \in S /\ S \cap Closer[t][m] = {} BY <1>9, NearestFacts
  <2>2. rank(m) = 0 BY <2>1, FS_EmptySet
  <2>3. m \in C BY <1>3, <1>9, <2>1, <2>2
  <2>4. C \in SUBSET Id /\ C # {} /\ C \cap Closer[t][m] = {} BY <1>3, <2>1, <2>3
  <2> HIDE DEF m, C
  <2>5. m = Nearest(C, t) BY <2>3, <2>4, NearestFacts
  <2> QED BY <2>3, <2>5 DEF m
<1> HIDE DEF C
<1> QED BY <1>3, <1>7, <1>8, <1>9 DEF C

-----------------------------------------------------------------------------
(* The inductive invariant.                                                  *)

Op == [kind : {"idle", "join", "store", "find", "republish", "refresh"},
       step : {"idle", "round", "put", "next", "done"},
       target : Id, pn : SUBSET Node, queried : SUBSET Node, closest : Node \cup {Nil},
       wait : SUBSET Node, learnt : SUBSET Node, final : BOOLEAN, entry : Entry,
       miss : Node \cup {Nil}, todo : SUBSET Node,
       list : (SUBSET Index) \cup (SUBSET (Key \X Entry)), want : Entry, clean : BOOLEAN]

TypeInv ==
  /\ life \in [Node -> {"off", "joining", "member", "gone"}]
  /\ known \in [Node -> SUBSET Node]
  /\ kv \in [Node -> [Key -> Entry]]
  /\ acked \in [Key -> Entry]
  /\ th \in [Thread -> Op]
  /\ now \in 0 .. MaxTime /\ stored \in 0 .. MaxStores

\* A table never holds its own node.
TableInv == \A n \in Node : n \notin known[n]

\* An operation of node n: what a search holds, whom it has asked, and where it
\* is; closest is the nearest contact of the round before.
OpInv(s, n) ==
  /\ n \notin s.pn /\ n \notin s.wait /\ Cardinality(s.pn) <= K
  /\ s.wait \subseteq s.queried
  /\ s.kind = "idle" <=> s.step = "idle"
  /\ s.kind = "refresh" => s.list \subseteq Index
  /\ s.kind = "republish" => s.list \subseteq Key \X Entry
  /\ s.kind \in {"store", "find", "republish"} /\ s.step # "next" => s.target \in Key
  /\ s.step = "put" => s.kind \in {"store", "republish"}
  /\ s.step = "round" => IF s.pn = {} THEN s.wait = {} /\ s.learnt = {}
                                      ELSE s.closest = Nearest(s.pn, s.target)

ThreadInv == \A t \in Thread : OpInv(th[t], t[1])

\* A node that has not joined runs nothing.
OffInv == \A t \in Thread : life[t[1]] = "off" => th[t].kind = "idle"

IInv == TypeInv /\ TableInv /\ ThreadInv /\ OffInv

\* An operation has e at hand as the value of k.
Carries(s, k, e) ==
  \/ s.target = k /\ s.entry = e
  \/ s.kind = "republish" /\ <<k, e>> \in s.list

\* e is held, sent or about to be sent as the value of k.
IsCopy(k, e) ==
  /\ e.id # 0
  /\ \/ \E n \in Node : kv[n][k] = e
     \/ \E t \in Thread : Carries(th[t], k, e)

CopyInv ==
  /\ \A k \in Key, e \in Entry : IsCopy(k, e) => e.id <= stored
  /\ \A j, k \in Key, d, e \in Entry : IsCopy(j, d) /\ IsCopy(k, e) /\ d.id = e.id => j = k /\ d = e

LEMMA Constants ==
  /\ Node \subseteq Id /\ Key \subseteq Id /\ First \in Node
  /\ Nil \notin Node /\ 0 \in Id /\ Index \subseteq Nat
  /\ K \in Nat \ {0} /\ Alpha \in Nat \ {0}
  /\ None \in Entry /\ IsFiniteSet(Node)
<1>1. Bits \in Nat /\ 2 ^ Bits \in Nat \ {0}
  <2>1. Bits \in Nat BY KademliaAssumption
  <2> QED BY <2>1, PowerFacts
<1>2. Id \subseteq Nat /\ 0 \in Id BY <1>1 DEF Id
<1>3. Nil \notin Node BY <1>2, KademliaAssumption DEF Nil
<1>4. None \in Entry BY KademliaAssumption DEF None, Entry
<1>5. Index \subseteq Nat BY <1>1 DEF Index
<1> QED BY <1>2, <1>3, <1>4, <1>5, KademliaAssumption, IdFinite

LEMMA IdleOK ==
  /\ Idle \in Op
  /\ \A n \in Node : OpInv(Idle, n)
<1>1. Idle \in Op BY Constants DEF Idle, Op
<1>2. Idle.pn = {} /\ Idle.wait = {} /\ Idle.kind = "idle" /\ Idle.step = "idle" BY DEF Idle
<1>3. Cardinality({}) <= K BY FS_EmptySet, Constants
<1> QED BY <1>1, <1>2, <1>3 DEF OpInv

\* The contacts known to a node, or any others, closest to a target.
LEMMA KClosestNodes ==
  ASSUME NEW S \in SUBSET Node, NEW t \in Id, NEW k \in Nat \ {0}
  PROVE  /\ KClosest(S, t, k) \in SUBSET S
         /\ Cardinality(KClosest(S, t, k)) <= k
         /\ S # {} => /\ Nearest(S, t) \in S
                      /\ Nearest(S, t) \in KClosest(S, t, k)
                      /\ Nearest(KClosest(S, t, k), t) = Nearest(S, t)
<1>1. S \in SUBSET Id BY Constants
<1> QED BY <1>1, KClosestFacts, NearestFacts

\* A search starts with at most K contacts and asks Alpha of them.
LEMMA SearchOK ==
  ASSUME TypeInv, TableInv, NEW n \in Node,
         NEW kind \in {"store", "find", "republish", "refresh"}, NEW target \in Id,
         kind # "refresh" => target \in Key, NEW entry \in Entry,
         NEW s, s = Search(n, kind, target, entry)
  PROVE  /\ s \in Op
         /\ OpInv(s, n)
         /\ s.kind = kind /\ s.step = "round" /\ s.target = target /\ s.entry = entry
         /\ s.list = {} /\ s.want = None
<1> DEFINE seeds == KClosest(known[n], target, K)
           batch == KClosest(seeds, target, Alpha)
<1>1. known[n] \in SUBSET Node /\ n \notin known[n] BY DEF TypeInv, TableInv
<1>2. seeds \in SUBSET Node /\ n \notin seeds /\ Cardinality(seeds) <= K
  BY <1>1, KClosestNodes, Constants
<1> HIDE DEF seeds
<1>3. batch \in SUBSET seeds BY <1>2, KClosestNodes, Constants
<1>4. seeds # {} => Nearest(seeds, target) \in Node BY <1>2, KClosestNodes, Constants
<1> HIDE DEF batch
<1> DEFINE closest == IF seeds = {} THEN Nil ELSE Nearest(seeds, target)
<1>5. closest \in Node \cup {Nil} BY <1>4
<1>6. PICK clean \in BOOLEAN : clean = Settled BY DEF Settled
<1>6a. PICK queried \in SUBSET Node : queried = {n} \cup batch BY <1>2, <1>3
<1>6b. batch \in SUBSET Node /\ seeds \in SUBSET Node BY <1>2, <1>3
<1>7. s = [Idle EXCEPT !.kind = kind, !.step = "round", !.target = target, !.pn = seeds,
                       !.queried = queried, !.wait = batch, !.entry = entry,
                       !.closest = closest, !.clean = clean]
  BY <1>6, <1>6a DEF Search, seeds, batch
<1> HIDE DEF closest
<1>8. Idle \in Op BY IdleOK
<1>9. s \in Op BY ONLY ZenonT(60), <1>5, <1>6b, <1>7, <1>8, entry \in Entry, target \in Id,
                      queried \in SUBSET Node, clean \in BOOLEAN,
                      kind \in {"store", "find", "republish", "refresh"} DEF Op
<1>10. /\ s.kind = kind /\ s.step = "round" /\ s.target = target /\ s.pn = seeds
       /\ s.queried = queried /\ s.wait = batch /\ s.entry = entry /\ s.closest = closest
  BY <1>7, <1>8 DEF Op
<1>11. s.list = {} /\ s.want = None /\ s.learnt = {} BY <1>7, <1>8 DEF Op, Idle
<1>12. OpInv(s, n)
  BY <1>2, <1>3, <1>6a, <1>10, <1>11 DEF OpInv, closest
<1> QED BY <1>9, <1>10, <1>11, <1>12

\* One operation moves on, the tables and the stores change within their types.
LEMMA ThreadStep ==
  ASSUME IInv, NEW t \in Thread, NEW s \in Op, OpInv(s, t[1]), life[t[1]] # "off",
         th' = [th EXCEPT ![t] = s], UNCHANGED <<life, now>>,
         known' \in [Node -> SUBSET Node], TableInv',
         kv' \in [Node -> [Key -> Entry]], acked' \in [Key -> Entry],
         stored' \in 0 .. MaxStores
  PROVE  IInv'
<1>1. th \in [Thread -> Op] BY DEF IInv, TypeInv
<1>2. th' \in [Thread -> Op] BY <1>1
<1>3. th'[t] = s /\ \A u \in Thread : u # t => th'[u] = th[u] BY <1>1
<1>4. TypeInv' BY <1>2 DEF IInv, TypeInv
<1>5. ThreadInv' BY <1>3 DEF IInv, ThreadInv
<1>6. OffInv' BY <1>3 DEF IInv, OffInv
<1> QED BY <1>4, <1>5, <1>6 DEF IInv

\* It brings no entry forward that was not there.
LEMMA CopyStep ==
  ASSUME IInv, NEW t \in Thread, NEW s \in Op, th' = [th EXCEPT ![t] = s],
         \A k \in Key, e \in Entry : e.id # 0 /\ Carries(s, k, e) => IsCopy(k, e),
         \A m \in Node, k \in Key : kv'[m][k].id # 0 => IsCopy(k, kv'[m][k]),
         stored' = stored, CopyInv
  PROVE  CopyInv'
<1>1. th \in [Thread -> Op] BY DEF IInv, TypeInv
<1>2. th'[t] = s /\ \A u \in Thread : u # t => th'[u] = th[u] BY <1>1
<1>3. ASSUME NEW k \in Key, NEW e \in Entry, IsCopy(k, e)' PROVE IsCopy(k, e)
  <2>1. e.id # 0 BY <1>3 DEF IsCopy
  <2>2. CASE \E m \in Node : kv'[m][k] = e BY <2>1, <2>2
  <2>3. ASSUME NEW u \in Thread, Carries(th'[u], k, e) PROVE IsCopy(k, e)
    <3>1. CASE u = t BY <1>2, <2>1, <2>3, <3>1
    <3>2. CASE u # t BY <1>2, <2>1, <2>3, <3>2 DEF IsCopy
    <3> QED BY <3>1, <3>2
  <2> QED BY <1>3, <2>2, <2>3 DEF IsCopy
<1> QED BY <1>3 DEF CopyInv

LEMMA TableOK ==
  ASSUME TypeInv, TableInv, NEW n \in Node, NEW cs \in SUBSET Node,
         known' = updateRoutingTable(known, n, cs)
  PROVE  known' \in [Node -> SUBSET Node] /\ TableInv'
<1>1. known \in [Node -> SUBSET Node] BY DEF TypeInv
<1>2. known' = [known EXCEPT ![n] = known[n] \cup (cs \ {n})] BY DEF updateRoutingTable
<1>3. \A m \in Node : known'[m] = IF m = n THEN known[n] \cup (cs \ {n}) ELSE known[m]
  BY <1>1, <1>2
<1>4. known' \in [Node -> SUBSET Node] BY <1>1, <1>2
<1>5. TableInv' BY <1>3 DEF TableInv
<1> QED BY <1>4, <1>5

LEMMA KStoreOK ==
  ASSUME TypeInv, TableInv, NEW c \in Node, NEW n \in Node, NEW k \in Key, NEW e \in Entry,
         KStore(c, n, k, e)
  PROVE  /\ known' \in [Node -> SUBSET Node] /\ TableInv'
         /\ kv' \in [Node -> [Key -> Entry]]
         /\ \A m \in Node, j \in Key :
              kv'[m][j] = kv[m][j] \/ (j = k /\ kv'[m][j] = e)
<1>1. kv \in [Node -> [Key -> Entry]] BY DEF TypeInv
<1>2. CASE c \in Registered
  <2>1. known' = updateRoutingTable(known, c, {n}) /\ kv' = [kv EXCEPT ![c][k] = e]
    BY <1>2 DEF KStore
  <2>2. known' \in [Node -> SUBSET Node] /\ TableInv' BY <2>1, TableOK
  <2>3. kv' = [kv EXCEPT ![c] = [kv[c] EXCEPT ![k] = e]] BY <2>1
  <2>4. kv[c] \in [Key -> Entry] /\ [kv[c] EXCEPT ![k] = e] \in [Key -> Entry] BY <1>1
  <2>5. kv' \in [Node -> [Key -> Entry]] BY <1>1, <2>3, <2>4
  <2>6. \A m \in Node, j \in Key : kv'[m][j] = IF m = c /\ j = k THEN e ELSE kv[m][j]
    BY <1>1, <2>3, <2>4
  <2> QED BY <2>2, <2>5, <2>6
<1>3. CASE c \notin Registered
  <2>1. UNCHANGED <<known, kv>> BY <1>3 DEF KStore
  <2> QED BY <2>1, <1>1 DEF TypeInv, TableInv
<1> QED BY <1>2, <1>3

\* What Get returns is what the store holds, or nothing.
LEMMA GetOK ==
  ASSUME TypeInv, NEW n \in Node, NEW k \in Key
  PROVE  Get(n, k) \in Entry /\ Get(n, k) \in {None, kv[n][k]}
BY Constants DEF TypeInv, Get

LEMMA Active ==
  ASSUME IInv, NEW t \in Thread
  PROVE  /\ th[t] \in Op /\ OpInv(th[t], t[1]) /\ t[1] \in Node
         /\ th[t].kind # "idle" \/ th[t].step # "idle" => life[t[1]] # "off"
<1>1. th[t] \in Op /\ OpInv(th[t], t[1]) BY DEF IInv, TypeInv, ThreadInv
<1>2. t[1] \in Node BY DEF Thread
<1>3. th[t].kind = "idle" <=> th[t].step = "idle" BY <1>1 DEF OpInv
<1> QED BY <1>1, <1>2, <1>3 DEF IInv, OffInv

-----------------------------------------------------------------------------
(* The steps of a search.                                                    *)

\* A call ends, with or without an answer.
LEMMA WaitLess ==
  ASSUME NEW n \in Node, NEW s \in Op, OpInv(s, n), NEW c, NEW r,
         r = [s EXCEPT !.wait = @ \ {c}]
  PROVE  /\ r \in Op /\ OpInv(r, n)
         /\ r.kind = s.kind /\ r.step = s.step /\ r.target = s.target /\ r.entry = s.entry
         /\ r.list = s.list /\ r.learnt = s.learnt /\ r.miss = s.miss
         /\ r.pn = s.pn /\ r.wait = s.wait \ {c}
<1>1. r \in Op BY DEF Op
<1>2. /\ r.kind = s.kind /\ r.step = s.step /\ r.target = s.target /\ r.list = s.list
      /\ r.pn = s.pn /\ r.queried = s.queried /\ r.closest = s.closest
      /\ r.learnt = s.learnt /\ r.wait = s.wait \ {c} /\ r.entry = s.entry /\ r.miss = s.miss
  BY DEF Op
<1>3. OpInv(r, n) BY <1>2 DEF OpInv
<1> QED BY <1>1, <1>2, <1>3

LEMMA AnswerOK ==
  ASSUME IInv, NEW t \in Thread, NEW c \in Node, Answer(t, c)
  PROVE  /\ IInv'
         /\ CopyInv => CopyInv'
<1> DEFINE s == th[t]   n == t[1]
           e == IF s.kind = "find" THEN Get(c, s.target) ELSE None
           got == [s EXCEPT !.wait = @ \ {c}]
           miss == IF s.kind # "find" THEN Nil
                   ELSE IF got.miss = Nil THEN c ELSE Nearest({got.miss, c}, s.target)
           more == [got EXCEPT !.learnt = got.learnt \cup Closest(c, n, s.target), !.miss = miss]
           r == IF Hit(s) THEN got ELSE IF e # None THEN [got EXCEPT !.entry = e] ELSE more
<1>1. s \in Op /\ OpInv(s, n) /\ n \in Node /\ life[n] # "off" /\ s.step = "round"
  BY Active DEF Answer
<1>2. c \in s.wait BY DEF Answer
<1>3. /\ got \in Op /\ OpInv(got, n) /\ got.kind = s.kind /\ got.step = s.step
      /\ got.target = s.target /\ got.entry = s.entry /\ got.list = s.list
      /\ got.pn = s.pn /\ got.wait = s.wait \ {c}
  BY SMTT(30), <1>1, WaitLess
<1>4. s.target \in Id BY <1>1 DEF Op
<1>5. s.kind = "find" => s.target \in Key BY <1>1 DEF OpInv
<1>6. e \in Entry /\ e \in {None} \cup (IF s.kind = "find" THEN {kv[c][s.target]} ELSE {})
  <2>1. CASE s.kind = "find" BY <1>5, <2>1, GetOK DEF IInv
  <2>2. CASE s.kind # "find" BY <2>2, Constants
  <2> QED BY <2>1, <2>2
<1>7. known' = updateRoutingTable(known, c, {n}) /\ UNCHANGED <<life, kv, now, stored, acked>>
  BY DEF Answer
<1>8. th' = [th EXCEPT ![t] = r]
  BY DEF Answer
<1> HIDE DEF e, got
<1>9. [got EXCEPT !.entry = e] \in Op /\ OpInv([got EXCEPT !.entry = e], n)
  <2>1. [got EXCEPT !.entry = e] \in Op BY <1>3, <1>6 DEF Op
  <2>2. \A f \in DOMAIN got : f # "entry" => [got EXCEPT !.entry = e][f] = got[f] OBVIOUS
  <2>3. OpInv([got EXCEPT !.entry = e], n)
    <3> DEFINE q == [got EXCEPT !.entry = e]
    <3>1. /\ q.kind = got.kind /\ q.step = got.step /\ q.target = got.target
          /\ q.list = got.list /\ q.pn = got.pn /\ q.queried = got.queried
          /\ q.closest = got.closest /\ q.learnt = got.learnt /\ q.wait = got.wait
      BY <1>3 DEF Op
    <3> HIDE DEF q
    <3>2. OpInv(q, n) BY <1>3, <3>1 DEF OpInv
    <3> QED BY <3>2 DEF q
  <2> QED BY <2>1, <2>3
<1>10. more \in Op /\ OpInv(more, n)
  <2>1. Closest(c, n, s.target) \in SUBSET Node
    <3>1. known[c] \cup {n} \in SUBSET Node BY <1>1 DEF IInv, TypeInv
    <3> QED BY <3>1, <1>4, KClosestNodes, Constants DEF Closest
  <2>2. got.miss \in Node \cup {Nil} /\ got.learnt \in SUBSET Node BY <1>3 DEF Op
  <2>3. miss \in Node \cup {Nil}
    <3>1. ASSUME got.miss \in Node PROVE Nearest({got.miss, c}, s.target) \in Node
      <4>1. {got.miss, c} \in SUBSET Node BY <3>1
      <4> QED BY <4>1, <1>4, KClosestNodes
    <3> QED BY <2>2, <3>1
  <2> DEFINE learnt == got.learnt \cup Closest(c, n, s.target)
  <2>4. learnt \in SUBSET Node BY <2>1, <2>2
  <2> HIDE DEF miss, learnt
  <2> DEFINE q == [got EXCEPT !.learnt = learnt, !.miss = miss]
  <2>5. q \in Op BY <1>3, <2>3, <2>4 DEF Op
  <2>6. /\ q.kind = got.kind /\ q.step = got.step /\ q.target = got.target
        /\ q.list = got.list /\ q.pn = got.pn /\ q.queried = got.queried
        /\ q.closest = got.closest /\ q.wait = got.wait
    BY <1>3 DEF Op
  <2>7. got.pn # {} BY <1>1, <1>2, <1>3 DEF OpInv
  <2>8. q = more BY DEF learnt
  <2> HIDE DEF q
  <2>9. OpInv(q, n) BY <1>3, <2>6, <2>7 DEF OpInv
  <2> QED BY <2>5, <2>8, <2>9
<1>11. r \in Op /\ OpInv(r, n) BY <1>3, <1>9, <1>10
<1>12. known' \in [Node -> SUBSET Node] /\ TableInv' BY <1>1, <1>7, TableOK DEF IInv
<1>13. IInv'
  <2> HIDE DEF r
  <2> QED BY <1>1, <1>7, <1>8, <1>11, <1>12, ThreadStep DEF IInv, TypeInv
<1>14. /\ r.kind = s.kind /\ r.target = s.target /\ r.list = s.list /\ r.step = "round"
       /\ r.wait = s.wait \ {c} /\ r.entry \in {s.entry, e}
  <2> HIDE DEF miss
  <2> QED BY <1>1, <1>3 DEF Op
<1> HIDE DEF r
<1>15. ASSUME CopyInv PROVE CopyInv'
  <2>1. kv' = kv /\ stored' = stored BY <1>7
  <2>2. \A m \in Node, k \in Key : kv'[m][k].id # 0 => IsCopy(k, kv'[m][k])
    BY <2>1 DEF IsCopy
  <2>3. ASSUME NEW k \in Key, NEW d \in Entry, d.id # 0, Carries(r, k, d) PROVE IsCopy(k, d)
    <3>1. CASE Carries(s, k, d) BY <2>3, <3>1 DEF IsCopy
    <3>2. CASE ~Carries(s, k, d)
      <4>1. k = s.target /\ d = e BY <1>14, <2>3, <3>2 DEF Carries
      <4>2. None.id = 0 BY DEF None
      <4>3. d = kv[c][k] BY <1>6, <2>3, <4>1, <4>2
      <4> QED BY <2>3, <4>3 DEF IsCopy
    <3> QED BY <3>1, <3>2
  <2> QED BY <1>8, <1>11, <1>15, <2>1, <2>2, <2>3, CopyStep
<1> QED BY <1>13, <1>15

\* An operation that keeps what it carries.
LEMMA SameCopies ==
  ASSUME IInv, NEW t \in Thread, NEW r \in Op, th' = [th EXCEPT ![t] = r],
         r.kind = th[t].kind, r.target = th[t].target, r.entry = th[t].entry,
         r.list \subseteq th[t].list,
         UNCHANGED <<kv, stored>>
  PROVE  CopyInv => CopyInv'
<1>1. \A m \in Node, k \in Key : kv'[m][k].id # 0 => IsCopy(k, kv'[m][k]) BY DEF IsCopy
<1>2. \A k \in Key, e \in Entry : Carries(r, k, e) => Carries(th[t], k, e) BY DEF Carries
<1>3. \A k \in Key, e \in Entry : e.id # 0 /\ Carries(r, k, e) => IsCopy(k, e)
  BY <1>2 DEF IsCopy
<1> QED BY <1>1, <1>3, CopyStep

LEMMA NoAnswerOK ==
  ASSUME IInv, NEW t \in Thread, NEW c \in Node, NoAnswer(t, c)
  PROVE  IInv' /\ (CopyInv => CopyInv')
<1> DEFINE s == th[t]   r == [s EXCEPT !.wait = @ \ {c}]
<1>1. s \in Op /\ OpInv(s, t[1]) /\ t[1] \in Node /\ life[t[1]] # "off"
  BY Active DEF NoAnswer
<1>2. /\ r \in Op /\ OpInv(r, t[1]) /\ r.kind = s.kind /\ r.target = s.target
      /\ r.entry = s.entry /\ r.list = s.list
  BY <1>1, WaitLess
<1>3. th' = [th EXCEPT ![t] = r] /\ UNCHANGED <<life, known, kv, now, stored, acked>>
  BY DEF NoAnswer
<1> HIDE DEF r
<1>4. IInv' BY <1>1, <1>2, <1>3, ThreadStep DEF IInv, TypeInv, TableInv
<1>5. CopyInv => CopyInv' BY <1>2, <1>3, SameCopies
<1> QED BY <1>4, <1>5

\* The history flag of a search plays no part.
LEMMA UnsettleOK ==
  ASSUME NEW f \in [Thread -> Op], NEW g, g = Unsettle(f)
  PROVE  /\ g \in [Thread -> Op]
         /\ \A t \in Thread :
              /\ \A n \in Node : OpInv(f[t], n) <=> OpInv(g[t], n)
              /\ g[t].kind = f[t].kind /\ g[t].target = f[t].target
              /\ g[t].entry = f[t].entry /\ g[t].list = f[t].list
              /\ g[t].step = f[t].step /\ g[t].wait = f[t].wait
<1>1. \A t \in Thread : g[t] = [f[t] EXCEPT !.clean = FALSE] BY DEF Unsettle
<1>2. \A t \in Thread : f[t] \in Op OBVIOUS
<1>3. \A t \in Thread : g[t] \in Op
  <2>1. ASSUME NEW s \in Op, NEW r, r = [s EXCEPT !.clean = FALSE] PROVE r \in Op
    BY <2>1 DEF Op
  <2> QED BY ONLY <1>1, <1>2, <2>1
<1>4. g = [t \in Thread |-> g[t]] BY DEF Unsettle
<1>5. g \in [Thread -> Op] BY <1>3, <1>4
<1>6. ASSUME NEW t \in Thread
      PROVE  /\ g[t].kind = f[t].kind /\ g[t].target = f[t].target
             /\ g[t].entry = f[t].entry /\ g[t].list = f[t].list
             /\ g[t].step = f[t].step /\ g[t].wait = f[t].wait
             /\ g[t].pn = f[t].pn /\ g[t].queried = f[t].queried
             /\ g[t].closest = f[t].closest /\ g[t].learnt = f[t].learnt
  BY ZenonT(60), <1>1, <1>2 DEF Op
<1>7. \A t \in Thread, n \in Node : OpInv(f[t], n) <=> OpInv(g[t], n)
  BY <1>6 DEF OpInv
<1> QED BY <1>5, <1>6, <1>7

LEMMA UnsettleStep ==
  ASSUME IInv, NEW f \in [Thread -> Op], th' = Unsettle(f),
         \A t \in Thread : OpInv(f[t], t[1]),
         \A t \in Thread : life'[t[1]] = "off" => f[t].kind = "idle",
         life' \in [Node -> {"off", "joining", "member", "gone"}],
         known' \in [Node -> SUBSET Node], TableInv', UNCHANGED <<kv, now, stored, acked>>
  PROVE  /\ IInv'
         /\ (\A t \in Thread, k \in Key, e \in Entry :
               e.id # 0 /\ Carries(f[t], k, e) => IsCopy(k, e)) /\ CopyInv => CopyInv'
<1> DEFINE g == Unsettle(f)
<1>1. \A t \in Thread : t[1] \in Node BY DEF Thread
<1>2. g \in [Thread -> Op] /\ \A t \in Thread : OpInv(g[t], t[1]) /\ g[t].kind = f[t].kind
  BY <1>1, UnsettleOK
<1>3. \A t \in Thread : g[t].target = f[t].target /\ g[t].entry = f[t].entry
                       /\ g[t].list = f[t].list
  BY UnsettleOK
<1>4. th' = g OBVIOUS
<1> HIDE DEF g
<1>5. IInv' BY <1>2, <1>4 DEF IInv, TypeInv, ThreadInv, OffInv
<1>6. ASSUME \A t \in Thread, k \in Key, e \in Entry :
               e.id # 0 /\ Carries(f[t], k, e) => IsCopy(k, e), CopyInv
      PROVE  CopyInv'
  <2>1. ASSUME NEW k \in Key, NEW e \in Entry, IsCopy(k, e)' PROVE IsCopy(k, e)
    <3>1. e.id # 0 /\ kv' = kv BY <2>1 DEF IsCopy
    <3>2. \A t \in Thread : Carries(g[t], k, e) => Carries(f[t], k, e)
      BY <1>2, <1>3 DEF Carries
    <3>3. \A t \in Thread : Carries(g[t], k, e) => IsCopy(k, e) BY <1>6, <3>1, <3>2
    <3> QED BY <1>4, <2>1, <3>1, <3>3 DEF IsCopy
  <2> QED BY <1>6, <2>1 DEF CopyInv
<1> QED BY <1>5, <1>6

LEMMA LoseCallOK ==
  ASSUME IInv, NEW t \in Thread, NEW c \in Node, LoseCall(t, c)
  PROVE  IInv' /\ (CopyInv => CopyInv')
<1> DEFINE s == th[t]
<1>1. s \in Op /\ OpInv(s, t[1]) /\ t[1] \in Node BY Active
<1>2. UNCHANGED <<life, known, kv, now, stored, acked>> BY DEF LoseCall
<1>3. PICK r \in Op : /\ OpInv(r, t[1]) /\ r.kind = s.kind /\ r.target = s.target
                      /\ r.entry = s.entry /\ r.list = s.list
                      /\ th' = Unsettle([th EXCEPT ![t] = r])
  <2>1. CASE th' = Unsettle([th EXCEPT ![t].wait = @ \ {c}])
    <3> DEFINE r == [s EXCEPT !.wait = @ \ {c}]
    <3>1. th' = Unsettle([th EXCEPT ![t] = r]) BY <2>1
    <3>2. /\ r \in Op /\ OpInv(r, t[1]) /\ r.kind = s.kind /\ r.target = s.target
          /\ r.entry = s.entry /\ r.list = s.list
      BY <1>1, WaitLess
    <3> QED BY <3>1, <3>2
  <2>2. CASE th' = Unsettle([th EXCEPT ![t].todo = @ \ {c}])
    <3> DEFINE r == [s EXCEPT !.todo = @ \ {c}]
    <3>1. th' = Unsettle([th EXCEPT ![t] = r]) BY <2>2
    <3>2. r \in Op BY <1>1 DEF Op
    <3>3. /\ r.kind = s.kind /\ r.step = s.step /\ r.target = s.target /\ r.list = s.list
          /\ r.pn = s.pn /\ r.queried = s.queried /\ r.closest = s.closest
          /\ r.learnt = s.learnt /\ r.wait = s.wait /\ r.entry = s.entry
      BY <1>1 DEF Op
    <3> HIDE DEF r
    <3>4. OpInv(r, t[1]) BY <1>1, <3>3 DEF OpInv
    <3> QED BY <3>1, <3>2, <3>3, <3>4
  <2> QED BY <2>1, <2>2 DEF LoseCall
<1> DEFINE f == [th EXCEPT ![t] = r]
<1>4. th \in [Thread -> Op] BY DEF IInv, TypeInv
<1>5. f \in [Thread -> Op] /\ f[t] = r /\ \A u \in Thread : u # t => f[u] = th[u] BY <1>4
<1>6. th' = Unsettle(f) BY <1>3
<1> HIDE DEF f
<1>7. \A u \in Thread : OpInv(f[u], u[1]) BY <1>3, <1>5 DEF IInv, ThreadInv
<1>8. \A u \in Thread : life'[u[1]] = "off" => f[u].kind = "idle"
  BY <1>2, <1>3, <1>5 DEF IInv, OffInv
<1>9. \A u \in Thread, k \in Key, e \in Entry : e.id # 0 /\ Carries(f[u], k, e) => IsCopy(k, e)
  <2> SUFFICES ASSUME NEW u \in Thread, NEW k \in Key, NEW e \in Entry, e.id # 0,
                      Carries(f[u], k, e)
               PROVE  IsCopy(k, e)
    OBVIOUS
  <2>1. Carries(th[u], k, e) BY <1>3, <1>5 DEF Carries
  <2> QED BY <2>1 DEF IsCopy
<1> QED BY <1>2, <1>5, <1>6, <1>7, <1>8, <1>9, UnsettleStep DEF IInv, TypeInv, TableInv

\* After a round: the contacts held are again at most K, and none of those in
\* reach of the search is nearer than the nearest of them.
LEMMA MergedOK ==
  ASSUME NEW n \in Node, NEW s \in Op, OpInv(s, n), s.step = "round"
  PROVE  /\ Merged(s, n) \in SUBSET Node /\ n \notin Merged(s, n)
         /\ Cardinality(Merged(s, n)) <= K
         /\ s.pn = {} => Merged(s, n) = {}
         /\ s.pn # {} => /\ Merged(s, n) # {}
                        /\ Nearest(Merged(s, n), s.target) \in Merged(s, n)
                        /\ s.closest \in Node
                        /\ \/ Nearest(Merged(s, n), s.target) = s.closest
                           \/ Nearest(Merged(s, n), s.target) \in Closer[s.target][s.closest]
<1> DEFINE S == s.pn \cup (s.learnt \ {n})
           m == Merged(s, n)
<1>1. s.pn \in SUBSET Node /\ s.learnt \in SUBSET Node /\ s.target \in Id BY DEF Op
<1>2. n \notin s.pn BY DEF OpInv
<1>3. S \in SUBSET Node /\ n \notin S BY <1>1, <1>2
<1>4. m = KClosest(S, s.target, K) BY DEF Merged
<1>4a. s.pn = {} => S = {} BY DEF OpInv
<1>4b. s.pn \subseteq S OBVIOUS
<1> HIDE DEF m, S
<1>5. /\ m \in SUBSET S /\ Cardinality(m) <= K
      /\ S # {} => /\ Nearest(S, s.target) \in S /\ Nearest(S, s.target) \in m
                   /\ Nearest(m, s.target) = Nearest(S, s.target)
  BY <1>1, <1>3, <1>4, KClosestNodes, Constants
<1>7. ASSUME s.pn # {}
      PROVE  /\ m # {} /\ Nearest(m, s.target) \in m /\ s.closest \in Node
             /\ \/ Nearest(m, s.target) = s.closest
                \/ Nearest(m, s.target) \in Closer[s.target][s.closest]
  <2>1. S # {} BY <1>7, <1>4b
  <2>2. s.closest = Nearest(s.pn, s.target) BY <1>7 DEF OpInv
  <2>3. s.closest \in s.pn
    <3>1. s.pn \in SUBSET Id BY <1>1, Constants
    <3> QED BY <1>1, <1>7, <2>2, <3>1, NearestFacts
  <2>4. S \in SUBSET Id BY <1>3, Constants
  <2>5. s.closest # Nearest(S, s.target) => Nearest(S, s.target) \in Closer[s.target][s.closest]
    BY <1>1, <1>4b, <2>1, <2>3, <2>4, NearestFacts
  <2> QED BY <1>1, <1>5, <2>1, <2>3, <2>5
<1> QED BY <1>3, <1>4a, <1>5, <1>7 DEF m

LEMMA NextBatchOK ==
  ASSUME NEW s \in Op, NEW pn \in SUBSET Node
  PROVE  /\ NextBatch(s, pn) \in SUBSET pn /\ NextBatch(s, pn) \cap s.queried = {}
         /\ NextBatch(s, pn) # {} => ~s.final /\ pn # {}
<1>1. s.target \in Id /\ pn \ s.queried \in SUBSET Node BY DEF Op
<1>2. KClosest(pn \ s.queried, s.target, Alpha) \in SUBSET (pn \ s.queried)
  BY <1>1, KClosestNodes, Constants
<1> QED BY <1>2 DEF NextBatch

LEMMA RoundAgainOK ==
  ASSUME IInv, NEW t \in Thread, RoundAgain(t)
  PROVE  IInv' /\ (CopyInv => CopyInv')
<1> DEFINE s == th[t]   n == t[1]   pn == Merged(s, n)   batch == NextBatch(s, pn)
           final == (Nearest(pn, s.target) = s.closest)
<1>1. s \in Op /\ OpInv(s, n) /\ n \in Node /\ life[n] # "off" /\ s.step = "round"
  BY Active DEF RoundAgain, RoundOver
<1>2. s.learnt \in SUBSET Node /\ s.target \in Id /\ s.queried \in SUBSET Node BY <1>1 DEF Op
<1>3. /\ pn \in SUBSET Node /\ n \notin pn /\ Cardinality(pn) <= K
      /\ s.pn = {} => pn = {}
      /\ s.pn # {} => Nearest(pn, s.target) \in pn
  BY <1>1, MergedOK
<1>4. batch # {} /\ known' = updateRoutingTable(known, n, s.learnt)
      /\ UNCHANGED <<life, kv, now, stored, acked>>
  BY DEF RoundAgain
<1>5. th' = [th EXCEPT ![t] =
           [s EXCEPT !.pn = pn, !.queried = s.queried \cup batch, !.wait = batch, !.learnt = {},
                     !.closest = Nearest(pn, s.target), !.final = final]]
  BY DEF RoundAgain
<1> HIDE DEF pn
<1>6. batch \in SUBSET pn /\ pn # {} BY <1>1, <1>3, <1>4, NextBatchOK
<1> DEFINE queried == s.queried \cup batch   closest == Nearest(pn, s.target)
<1>7. closest \in Node BY <1>3, <1>6
<1>8. queried \in SUBSET Node BY <1>2, <1>3, <1>6
<1>9. PICK last \in BOOLEAN : last = final OBVIOUS
<1> DEFINE r == [s EXCEPT !.pn = pn, !.queried = queried, !.wait = batch, !.learnt = {},
                          !.closest = closest, !.final = last]
<1>10. th' = [th EXCEPT ![t] = r] BY <1>5, <1>9
<1>11. batch \subseteq queried OBVIOUS
<1> HIDE DEF batch, queried
<1>12. batch \in SUBSET Node BY <1>3, <1>6
<1>13. closest = Nearest(pn, s.target) OBVIOUS
<1> HIDE DEF closest
<1>14. r \in Op BY ONLY ZenonT(60), <1>1, <1>3, <1>7, <1>8, <1>9, <1>12 DEF Op
<1>15. /\ r.kind = s.kind /\ r.step = s.step /\ r.target = s.target /\ r.list = s.list
       /\ r.pn = pn /\ r.queried = queried /\ r.closest = closest
       /\ r.learnt = {} /\ r.wait = batch /\ r.entry = s.entry
  BY ONLY <1>1 DEF Op
<1> HIDE DEF r
<1>16. OpInv(r, n) BY <1>1, <1>3, <1>6, <1>11, <1>13, <1>15 DEF OpInv
<1>17. known' \in [Node -> SUBSET Node] /\ TableInv' BY <1>1, <1>2, <1>4, TableOK DEF IInv
<1>18. IInv' BY <1>1, <1>4, <1>10, <1>14, <1>16, <1>17, ThreadStep DEF IInv, TypeInv
<1>19. CopyInv => CopyInv' BY <1>4, <1>10, <1>14, <1>15, SameCopies
<1> QED BY <1>18, <1>19

LEMMA RoundLastOK ==
  ASSUME IInv, NEW t \in Thread, RoundLast(t)
  PROVE  IInv' /\ (CopyInv => CopyInv')
<1> DEFINE s == th[t]   n == t[1]   pn == Merged(s, n)
           q == [s EXCEPT !.pn = pn, !.learnt = {}]
           r == Found(q)
<1>1. s \in Op /\ OpInv(s, n) /\ n \in Node /\ life[n] # "off" /\ s.step = "round"
  BY Active DEF RoundLast, RoundOver
<1>2. s.learnt \in SUBSET Node BY <1>1 DEF Op
<1>3. pn \in SUBSET Node /\ n \notin pn /\ Cardinality(pn) <= K
  BY <1>1, MergedOK
<1>4. known' = updateRoutingTable(known, n, s.learnt) /\ UNCHANGED <<life, kv, now, stored, acked>>
      /\ th' = [th EXCEPT ![t] = r]
  BY DEF RoundLast
<1>5. s.kind # "idle" BY <1>1 DEF OpInv
<1> HIDE DEF pn
<1>6. q \in Op BY ONLY <1>1, <1>3 DEF Op
<1>7. /\ q.kind = s.kind /\ q.step = s.step /\ q.target = s.target /\ q.list = s.list
      /\ q.pn = pn /\ q.queried = s.queried /\ q.wait = s.wait /\ q.entry = s.entry
  BY ONLY <1>1 DEF Op
<1> HIDE DEF q
<1>8. /\ r \in Op /\ r.step \in {"put", "next", "done"} /\ r.kind = s.kind
      /\ r.step = "put" => r.kind \in {"store", "republish"}
      /\ r.target = s.target /\ r.list = s.list /\ r.pn = pn
      /\ r.queried = s.queried /\ r.wait = s.wait /\ r.entry = s.entry
  <2>1. CASE q.kind \in {"store", "republish"}
    <3> DEFINE f == [q EXCEPT !.step = "put", !.todo = q.pn]
    <3>1. r = f BY <2>1 DEF Found
    <3>2. f \in Op /\ f.step = "put" /\ f.kind = q.kind
          /\ f.target = q.target /\ f.list = q.list /\ f.pn = q.pn
          /\ f.queried = q.queried /\ f.wait = q.wait /\ f.entry = q.entry
      BY ONLY <1>6 DEF Op
    <3> QED BY <2>1, <1>7, <3>1, <3>2
  <2>2. CASE q.kind = "refresh"
    <3> DEFINE f == [q EXCEPT !.step = "next"]
    <3>1. r = f BY <2>2 DEF Found
    <3>2. f \in Op /\ f.step = "next" /\ f.kind = q.kind
          /\ f.target = q.target /\ f.list = q.list /\ f.pn = q.pn
          /\ f.queried = q.queried /\ f.wait = q.wait /\ f.entry = q.entry
      BY ONLY <1>6 DEF Op
    <3> QED BY <1>7, <3>1, <3>2
  <2>3. CASE q.kind \notin {"store", "republish", "refresh"}
    <3> DEFINE f == [q EXCEPT !.step = "done"]
    <3>1. r = f BY <2>3 DEF Found
    <3>2. f \in Op /\ f.step = "done" /\ f.kind = q.kind
          /\ f.target = q.target /\ f.list = q.list /\ f.pn = q.pn
          /\ f.queried = q.queried /\ f.wait = q.wait /\ f.entry = q.entry
      BY ONLY <1>6 DEF Op
    <3> QED BY <1>7, <3>1, <3>2
  <2> QED BY <2>1, <2>2, <2>3
<1> HIDE DEF r
<1>9. OpInv(r, n) BY <1>1, <1>3, <1>5, <1>8 DEF OpInv
<1>10. known' \in [Node -> SUBSET Node] /\ TableInv' BY <1>1, <1>2, <1>4, TableOK DEF IInv
<1>11. IInv' BY <1>1, <1>4, <1>8, <1>9, <1>10, ThreadStep DEF IInv, TypeInv
<1>12. CopyInv => CopyInv' BY <1>4, <1>8, SameCopies
<1> QED BY <1>11, <1>12

\* A search returns to its caller, or a loop or an entry is put aside.
LEMMA FieldsOK ==
  ASSUME NEW n \in Node, NEW s \in Op, OpInv(s, n), NEW r \in Op,
         r.kind = s.kind, r.pn = s.pn, r.wait = s.wait, r.queried = s.queried,
         r.target = s.target, r.list \subseteq s.list,
         s.kind # "idle", r.step \notin {"idle", "round"}, r.step # "next" => s.step # "next",
         r.step = "put" => s.kind \in {"store", "republish"}
  PROVE  OpInv(r, n)
BY DEF OpInv

\* A thread that becomes idle.
LEMMA IdleStep ==
  ASSUME IInv, NEW t \in Thread, th' = [th EXCEPT ![t] = Idle],
         UNCHANGED <<life, now, known, kv, stored>>, acked' \in [Key -> Entry],
         life[t[1]] # "off"
  PROVE  IInv' /\ (CopyInv => CopyInv')
<1>1. t[1] \in Node BY DEF Thread
<1>2. IInv' BY <1>1, IdleOK, ThreadStep DEF IInv, TypeInv, TableInv
<1>3. Idle.entry = None /\ Idle.kind # "republish" /\ None.id = 0 BY DEF Idle, None
<1>4. \A k \in Key, e \in Entry : e.id # 0 => ~Carries(Idle, k, e) BY <1>3 DEF Carries
<1>5. \A m \in Node, k \in Key : kv'[m][k].id # 0 => IsCopy(k, kv'[m][k]) BY DEF IsCopy
<1>6. CopyInv => CopyInv' BY <1>4, <1>5, IdleOK, CopyStep
<1> QED BY <1>2, <1>6

LEMMA FindHitOK ==
  ASSUME IInv, NEW t \in Thread, FindHit(t)
  PROVE  IInv' /\ (CopyInv => CopyInv')
<1> DEFINE s == th[t]   n == t[1]   r == [s EXCEPT !.step = "done", !.learnt = {}]
<1>1. s \in Op /\ OpInv(s, n) /\ n \in Node /\ life[n] # "off" /\ s.step = "round"
  BY Active DEF FindHit
<1>2. s.kind = "find" BY DEF FindHit, Hit
<1>3. s.target \in Key /\ s.entry \in Entry /\ s.miss \in Node \cup {Nil}
  BY <1>1, <1>2 DEF OpInv, Op
<1>4. th' = [th EXCEPT ![t] = r] /\ UNCHANGED <<life, now, stored, acked>> BY DEF FindHit
<1>5. /\ r \in Op /\ r.kind = s.kind /\ r.step = "done" /\ r.target = s.target /\ r.list = s.list
      /\ r.pn = s.pn /\ r.queried = s.queried /\ r.wait = s.wait /\ r.entry = s.entry
  BY ONLY <1>1 DEF Op
<1> HIDE DEF r
<1>6. OpInv(r, n) BY <1>1, <1>2, <1>5, FieldsOK
<1>7. /\ known' \in [Node -> SUBSET Node] /\ TableInv' /\ kv' \in [Node -> [Key -> Entry]]
      /\ \A m \in Node, j \in Key :
           kv'[m][j] = kv[m][j] \/ (j = s.target /\ kv'[m][j] = s.entry)
  <2>1. CASE s.miss = Nil
    <3>1. UNCHANGED <<known, kv>> BY <2>1 DEF FindHit
    <3> QED BY <3>1 DEF IInv, TypeInv, TableInv
  <2>2. CASE s.miss # Nil
    <3>1. KStore(s.miss, n, s.target, s.entry) BY <2>2 DEF FindHit
    <3>2. s.miss \in Node BY <1>3, <2>2
    <3> QED BY <1>1, <1>3, <3>1, <3>2, KStoreOK DEF IInv
  <2> QED BY <2>1, <2>2
<1>8. IInv' BY <1>1, <1>4, <1>5, <1>6, <1>7, ThreadStep DEF IInv, TypeInv
<1>9. ASSUME CopyInv PROVE CopyInv'
  <2>1. \A k \in Key, e \in Entry : e.id # 0 /\ Carries(s, k, e) => IsCopy(k, e) BY DEF IsCopy
  <2>2. \A k \in Key, e \in Entry : Carries(r, k, e) => Carries(s, k, e)
    BY <1>5 DEF Carries
  <2>3. ASSUME NEW m \in Node, NEW k \in Key, kv'[m][k].id # 0
        PROVE  IsCopy(k, kv'[m][k])
    <3>1. CASE kv'[m][k] = kv[m][k] BY <2>3, <3>1 DEF IsCopy
    <3>2. CASE k = s.target /\ kv'[m][k] = s.entry BY <1>3, <2>1, <2>3, <3>2 DEF Carries
    <3> QED BY <1>7, <3>1, <3>2
  <2> QED BY <1>4, <1>5, <1>9, <2>1, <2>2, <2>3, CopyStep
<1> QED BY <1>8, <1>9

LEMMA PutOK ==
  ASSUME IInv, NEW t \in Thread, Put(t)
  PROVE  IInv' /\ (CopyInv => CopyInv')
<1> DEFINE s == th[t]   n == t[1]   c == Nearest(s.todo, s.target)
           todo == s.todo \ {c}
           r == [s EXCEPT !.todo = todo]
<1>1. s \in Op /\ OpInv(s, n) /\ n \in Node /\ life[n] # "off" /\ s.step = "put"
  BY Active DEF Put
<1>2. s.todo \in SUBSET Node /\ s.todo # {} /\ s.target \in Id /\ s.entry \in Entry
  BY <1>1 DEF Op, Put
<1>3. c \in Node
  <2>1. s.todo \in SUBSET Id BY <1>2, Constants
  <2> QED BY <1>2, <2>1, NearestFacts
<1>4. th' = [th EXCEPT ![t] = r] /\ UNCHANGED <<life, now, stored, acked>>
      /\ KStore(c, n, s.target, s.entry)
  BY DEF Put
<1> HIDE DEF c
<1>5. todo \in SUBSET Node BY <1>2
<1> HIDE DEF todo
<1>6. /\ r \in Op /\ r.kind = s.kind /\ r.step = "put" /\ r.target = s.target /\ r.list = s.list
      /\ r.pn = s.pn /\ r.queried = s.queried /\ r.wait = s.wait /\ r.entry = s.entry
  BY ONLY <1>1, <1>5 DEF Op
<1> HIDE DEF r
<1>7. s.kind \in {"store", "republish"} BY <1>1 DEF OpInv
<1>8. OpInv(r, n) BY <1>1, <1>6, <1>7, FieldsOK
<1>9. CASE s.target \in Key
  <2>1. /\ known' \in [Node -> SUBSET Node] /\ TableInv' /\ kv' \in [Node -> [Key -> Entry]]
        /\ \A m \in Node, j \in Key :
             kv'[m][j] = kv[m][j] \/ (j = s.target /\ kv'[m][j] = s.entry)
    BY <1>1, <1>2, <1>3, <1>4, <1>9, KStoreOK DEF IInv
  <2>2. IInv' BY <1>1, <1>4, <1>6, <1>8, <2>1, ThreadStep DEF IInv, TypeInv
  <2>3. ASSUME CopyInv PROVE CopyInv'
    <3>1. \A k \in Key, e \in Entry : e.id # 0 /\ Carries(s, k, e) => IsCopy(k, e) BY DEF IsCopy
    <3>2. \A k \in Key, e \in Entry : Carries(r, k, e) => Carries(s, k, e)
      BY <1>6 DEF Carries
    <3>3. ASSUME NEW m \in Node, NEW k \in Key, kv'[m][k].id # 0
          PROVE  IsCopy(k, kv'[m][k])
      <4>1. CASE kv'[m][k] = kv[m][k] BY <3>3, <4>1 DEF IsCopy
      <4>2. CASE k = s.target /\ kv'[m][k] = s.entry BY <1>2, <3>1, <3>3, <4>2 DEF Carries
      <4> QED BY <2>1, <4>1, <4>2
    <3> QED BY <1>4, <1>6, <2>3, <3>1, <3>2, <3>3, CopyStep
  <2> QED BY <2>2, <2>3
<1>10. s.target \in Key
  <2>1. s.kind \in {"store", "republish"} BY <1>1 DEF OpInv
  <2> QED BY <1>1, <2>1 DEF OpInv
<1> QED BY <1>9, <1>10

-----------------------------------------------------------------------------
(* The operations.                                                           *)

LEMMA JoinOK ==
  ASSUME IInv, NEW n \in Node, NEW b \in Node, Join(n, b)
  PROVE  IInv' /\ (CopyInv => CopyInv')
<1> DEFINE t == <<n, "api">>   g == Unsettle(th)
           r == [Idle EXCEPT !.kind = "join", !.step = "round", !.target = n, !.pn = {b},
                             !.queried = {n, b}, !.wait = {b}, !.closest = b]
<1>1. t \in Thread /\ t[1] = n BY DEF Thread
<1>2. life \in [Node -> {"off", "joining", "member", "gone"}] /\ th \in [Thread -> Op]
  BY DEF IInv, TypeInv
<1>3. life[n] = "off" /\ life[b] = "member" /\ life' = [life EXCEPT ![n] = "joining"]
      /\ known' = updateRoutingTable(known, n, {b}) /\ UNCHANGED <<kv, now, stored, acked>>
      /\ th' = [g EXCEPT ![t] = r]
  BY DEF Join, Members
<1>4. n # b BY <1>3
<1>5. n \in Id /\ b \in Id BY Constants
<1>6. {b} \in SUBSET Node /\ {n, b} \in SUBSET Node OBVIOUS
<1>7. r \in Op BY ONLY <1>5, <1>6, IdleOK, n \in Node, b \in Node DEF Op
<1>8. /\ r.kind = "join" /\ r.step = "round" /\ r.target = n /\ r.pn = {b}
      /\ r.queried = {n, b} /\ r.wait = {b} /\ r.closest = b
  BY ONLY IdleOK DEF Op
<1>9. r.entry = None BY ONLY IdleOK DEF Op, Idle
<1> HIDE DEF r
<1>10. b = Nearest({b}, n)
  <2>1. b \notin Closer[n][b] BY <1>5, CloserOrder
  <2>2. PICK S : S = {b} OBVIOUS
  <2>3. S \in SUBSET Id /\ S # {} /\ b \in S /\ S \cap Closer[n][b] = {} BY <1>5, <2>1, <2>2
  <2>4. b = Nearest(S, n) BY <1>5, <2>3, NearestFacts
  <2> QED BY <2>2, <2>4
<1>11. Cardinality({b}) <= K
  <2>1. Cardinality({b}) = 1 BY FS_Singleton
  <2> QED BY <2>1, Constants
<1>12. OpInv(r, n) BY <1>4, <1>8, <1>10, <1>11 DEF OpInv
<1>13. \A u \in Thread : u[1] \in Node BY DEF Thread
<1>14. /\ g \in [Thread -> Op]
       /\ \A u \in Thread : /\ OpInv(g[u], u[1]) /\ g[u].kind = th[u].kind
                            /\ g[u].target = th[u].target /\ g[u].entry = th[u].entry
                            /\ g[u].list = th[u].list
  BY <1>2, <1>13, UnsettleOK DEF IInv, ThreadInv
<1> HIDE DEF g
<1>15. th' \in [Thread -> Op] /\ th'[t] = r /\ \A u \in Thread : u # t => th'[u] = g[u]
  BY <1>1, <1>3, <1>7, <1>14
<1>16. known' \in [Node -> SUBSET Node] /\ TableInv' BY <1>3, <1>6, TableOK DEF IInv
<1>17. TypeInv' BY <1>2, <1>3, <1>15, <1>16 DEF IInv, TypeInv
<1>18. ThreadInv' BY <1>1, <1>12, <1>14, <1>15 DEF ThreadInv
<1>19. OffInv'
  <2> SUFFICES ASSUME NEW u \in Thread, life'[u[1]] = "off" PROVE th'[u].kind = "idle"
    BY DEF OffInv
  <2>1. u[1] # n BY <1>2, <1>3
  <2>2. u # t /\ life[u[1]] = "off" BY <1>1, <1>2, <1>3, <1>13, <2>1
  <2>3. th[u].kind = "idle" BY <2>2 DEF IInv, OffInv
  <2> QED BY <1>14, <1>15, <2>2, <2>3
<1>20. ASSUME CopyInv PROVE CopyInv'
  <2>1. ASSUME NEW k \in Key, NEW e \in Entry, IsCopy(k, e)' PROVE IsCopy(k, e)
    <3>1. e.id # 0 BY <2>1 DEF IsCopy
    <3>2. CASE \E m \in Node : kv'[m][k] = e BY <1>3, <3>1, <3>2 DEF IsCopy
    <3>3. ASSUME NEW u \in Thread, Carries(th'[u], k, e) PROVE IsCopy(k, e)
      <4>1. u # t
        <5>1. None.id = 0 BY DEF None
        <5> QED BY <1>8, <1>9, <1>15, <3>1, <3>3, <5>1 DEF Carries
      <4>2. Carries(th[u], k, e) BY <1>14, <1>15, <3>3, <4>1 DEF Carries
      <4> QED BY <3>1, <4>2 DEF IsCopy
    <3> QED BY <2>1, <3>2, <3>3 DEF IsCopy
  <2> QED BY <1>3, <1>20, <2>1 DEF CopyInv
<1> QED BY <1>16, <1>17, <1>18, <1>19, <1>20 DEF IInv

LEMMA JoinReturnOK ==
  ASSUME IInv, NEW n \in Node, JoinReturn(n)
  PROVE  IInv' /\ (CopyInv => CopyInv')
<1> DEFINE t == <<n, "api">>   u == <<n, "refresh">>
           r == [Idle EXCEPT !.kind = "refresh", !.step = "next", !.list = Index]
<1>1. t \in Thread /\ u \in Thread /\ t # u /\ t[1] = n /\ u[1] = n BY DEF Thread
<1>2. life \in [Node -> {"off", "joining", "member", "gone"}] /\ th \in [Thread -> Op]
  BY DEF IInv, TypeInv
<1>3. life' = [life EXCEPT ![n] = "member"] /\ UNCHANGED <<known, kv, now, stored, acked>>
      /\ th' = [th EXCEPT ![t] = Idle, ![u] = r]
  BY DEF JoinReturn
<1>4. Index \in SUBSET Index OBVIOUS
<1>5. r \in Op BY ONLY <1>4, IdleOK DEF Op
<1>6. r.kind = "refresh" /\ r.step = "next" /\ r.list = Index
  BY ONLY IdleOK DEF Op
<1>7. r.entry = None /\ r.pn = {} /\ r.wait = {} BY ONLY IdleOK DEF Op, Idle
<1> HIDE DEF r
<1>8. Cardinality({}) <= K BY FS_EmptySet, Constants
<1>9. OpInv(r, n) BY <1>6, <1>7, <1>8 DEF OpInv
<1>10. /\ th' \in [Thread -> Op] /\ th'[t] = Idle /\ th'[u] = r
       /\ \A w \in Thread : w # t /\ w # u => th'[w] = th[w]
  BY <1>1, <1>2, <1>3, <1>5, IdleOK
<1>11. \A w \in Thread : w[1] \in Node BY DEF Thread
<1>12. TypeInv' BY <1>2, <1>3, <1>10 DEF IInv, TypeInv
<1>13. ThreadInv'
  <2> SUFFICES ASSUME NEW w \in Thread PROVE OpInv(th'[w], w[1]) BY DEF ThreadInv
  <2>1. CASE w = t BY <1>1, <1>10, <2>1, IdleOK
  <2>2. CASE w = u BY <1>1, <1>9, <1>10, <2>2
  <2>3. CASE w # t /\ w # u BY <1>10, <2>3 DEF IInv, ThreadInv
  <2> QED BY <2>1, <2>2, <2>3
<1>14. OffInv'
  <2> SUFFICES ASSUME NEW w \in Thread, life'[w[1]] = "off" PROVE th'[w].kind = "idle"
    BY DEF OffInv
  <2>1. w[1] # n BY <1>2, <1>3
  <2>2. w # t /\ w # u /\ life[w[1]] = "off" BY <1>1, <1>2, <1>3, <1>11, <2>1
  <2>3. th[w].kind = "idle" BY <2>2 DEF IInv, OffInv
  <2> QED BY <1>10, <2>2, <2>3
<1>15. ASSUME CopyInv PROVE CopyInv'
  <2>1. ASSUME NEW k \in Key, NEW e \in Entry, IsCopy(k, e)' PROVE IsCopy(k, e)
    <3>1. e.id # 0 BY <2>1 DEF IsCopy
    <3>2. CASE \E m \in Node : kv'[m][k] = e BY <1>3, <3>1, <3>2 DEF IsCopy
    <3>3. ASSUME NEW w \in Thread, Carries(th'[w], k, e) PROVE IsCopy(k, e)
      <4>1. w # t /\ w # u
        <5>1. None.id = 0 /\ Idle.entry = None /\ Idle.kind = "idle" BY DEF None, Idle
        <5> QED BY <1>6, <1>7, <1>10, <3>1, <3>3, <5>1 DEF Carries
      <4>2. Carries(th[w], k, e) BY <1>10, <3>3, <4>1
      <4> QED BY <3>1, <4>2 DEF IsCopy
    <3> QED BY <2>1, <3>2, <3>3 DEF IsCopy
  <2> QED BY <1>3, <1>15, <2>1 DEF CopyInv
<1>16. TableInv' BY <1>3 DEF IInv, TableInv
<1> QED BY <1>12, <1>13, <1>14, <1>15, <1>16 DEF IInv

\* A search of a loop, with what the loop has left.
LEMMA WithList ==
  ASSUME NEW n \in Node, NEW s \in Op, OpInv(s, n), s.step = "round",
         NEW list \in (SUBSET Index) \cup (SUBSET (Key \X Entry)),
         s.kind = "refresh" => list \subseteq Index,
         s.kind = "republish" => list \subseteq Key \X Entry,
         NEW r, r = [s EXCEPT !.list = list]
  PROVE  /\ r \in Op /\ OpInv(r, n)
         /\ r.kind = s.kind /\ r.target = s.target /\ r.entry = s.entry /\ r.list = list
<1>1. r \in Op BY DEF Op
<1>2. /\ r.kind = s.kind /\ r.step = s.step /\ r.target = s.target /\ r.list = list
      /\ r.pn = s.pn /\ r.queried = s.queried /\ r.closest = s.closest
      /\ r.learnt = s.learnt /\ r.wait = s.wait /\ r.entry = s.entry
  BY DEF Op
<1>3. OpInv(r, n) BY <1>2 DEF OpInv
<1> QED BY <1>1, <1>2, <1>3

LEMMA RefreshNextOK ==
  ASSUME IInv, NEW n \in Node, RefreshNext(n)
  PROVE  IInv' /\ (CopyInv => CopyInv')
<1> DEFINE t == <<n, "refresh">>
           left == EmptyBuckets(n, th[t].list)
           i == CHOOSE j \in left : \A k \in left : j <= k
           id == CHOOSE m \in Id : XORDistance(n, m) = {i}
           list == {j \in th[t].list : j > i}
           r == [Search(n, "refresh", id, None) EXCEPT !.list = list]
<1>1. t \in Thread /\ t[1] = n BY DEF Thread
<1>2. th[t].kind = "refresh" /\ UNCHANGED <<life, known, kv, now, stored, acked>>
      /\ th' = [th EXCEPT ![t] = IF left = {} THEN Idle ELSE r]
  BY DEF RefreshNext
<1>3. OpInv(th[t], n) /\ life[n] # "off" BY <1>1, <1>2, Active
<1>4. th[t].list \subseteq Index BY <1>2, <1>3 DEF OpInv
<1>5. CASE left = {}
  <2>1. th' = [th EXCEPT ![t] = Idle] BY <1>2, <1>5
  <2> QED BY <1>1, <1>2, <1>3, <2>1, IdleStep DEF IInv, TypeInv
<1>6. CASE left # {}
  <2>1. left \subseteq Index /\ left \subseteq Nat BY <1>4, Constants DEF EmptyBuckets
  <2> HIDE DEF left
  <2>2. \E j \in left : \A k \in left : j <= k BY <1>6, <2>1, NatMin
  <2>3. i \in left BY <2>2
  <2>4. i \in Index BY <2>1, <2>3
  <2> HIDE DEF i
  <2>5. n \in Id BY Constants
  <2>6. id \in Id BY <2>4, <2>5, FlippedBit
  <2> HIDE DEF id
  <2>7. list \in SUBSET Index BY <1>4
  <2> HIDE DEF list
  <2>8. r \in Op /\ OpInv(r, n) /\ r.kind = "refresh" /\ r.entry = None
    <3>1. list \in (SUBSET Index) \cup (SUBSET (Key \X Entry)) /\ list \subseteq Index BY <2>7
    <3>2. TypeInv /\ TableInv /\ None \in Entry BY Constants DEF IInv
    <3>3. PICK s : s = Search(n, "refresh", id, None) OBVIOUS
    <3>4. /\ s \in Op /\ OpInv(s, n) /\ s.kind = "refresh" /\ s.step = "round"
          /\ s.entry = None
      BY <2>6, <3>2, <3>3, SearchOK
    <3>5. r = [s EXCEPT !.list = list] BY <3>3
    <3> HIDE DEF r
    <3> QED BY <3>1, <3>4, <3>5, WithList
  <2>9. th' = [th EXCEPT ![t] = r] BY <1>2, <1>6
  <2> HIDE DEF r
  <2>10. IInv' BY <1>1, <1>2, <1>3, <2>8, <2>9, ThreadStep DEF IInv, TypeInv, TableInv
  <2>11. \A k \in Key, e \in Entry : e.id # 0 => ~Carries(r, k, e) BY <2>8 DEF Carries, None
  <2>12. \A m \in Node, k \in Key : kv'[m][k].id # 0 => IsCopy(k, kv'[m][k])
    BY <1>2 DEF IsCopy
  <2>13. CopyInv => CopyInv' BY <1>1, <1>2, <2>8, <2>9, <2>11, <2>12, CopyStep
  <2> QED BY <2>10, <2>13
<1> QED BY <1>5, <1>6

LEMMA StoreValueOK ==
  ASSUME IInv, NEW n \in Node, NEW k \in Key, StoreValue(n, k)
  PROVE  IInv' /\ (CopyInv => CopyInv')
<1> DEFINE t == <<n, "api">>   e == [id |-> stored + 1, at |-> now]
<1>1. t \in Thread /\ t[1] = n BY DEF Thread
<1>2. PICK r : r = Search(n, "store", k, e) OBVIOUS
<1>3. life[n] = "member" /\ stored < MaxStores /\ stored' = stored + 1
      /\ kv' = [kv EXCEPT ![n][k] = e] /\ th' = [th EXCEPT ![t] = r]
      /\ UNCHANGED <<life, known, now, acked>>
  BY <1>2 DEF StoreValue, Members
<1>4. TypeInv /\ TableInv /\ k \in Id BY Constants DEF IInv
<1>5. stored \in 0 .. MaxStores /\ now \in 0 .. MaxTime /\ kv \in [Node -> [Key -> Entry]]
      /\ MaxStores \in Nat
  BY <1>4, KademliaAssumption DEF TypeInv
<1>6. stored' \in 0 .. MaxStores /\ stored \in Nat BY <1>3, <1>5
<1>7. e \in Entry /\ e.id = stored + 1 BY <1>3, <1>5, <1>6 DEF Entry
<1> HIDE DEF e
<1>8. /\ r \in Op /\ OpInv(r, n) /\ r.kind = "store" /\ r.target = k /\ r.entry = e
  BY <1>2, <1>4, <1>7, SearchOK
<1>9. kv[n] \in [Key -> Entry] /\ [kv[n] EXCEPT ![k] = e] \in [Key -> Entry] BY <1>5, <1>7
<1>10. kv' = [kv EXCEPT ![n] = [kv[n] EXCEPT ![k] = e]] BY <1>3
<1>11. kv' \in [Node -> [Key -> Entry]] BY <1>5, <1>9, <1>10
<1>12. \A m \in Node, j \in Key : kv'[m][j] = IF m = n /\ j = k THEN e ELSE kv[m][j]
  BY <1>5, <1>9, <1>10
<1>13. IInv'
  BY <1>1, <1>3, <1>6, <1>8, <1>11, ThreadStep DEF IInv, TypeInv, TableInv
<1>14. ASSUME CopyInv PROVE CopyInv'
  <2>1. th \in [Thread -> Op] BY <1>4 DEF TypeInv
  <2>2. th'[t] = r /\ \A u \in Thread : u # t => th'[u] = th[u] BY <1>1, <1>3, <2>1
  <2>3. ASSUME NEW j \in Key, NEW d \in Entry, IsCopy(j, d)'
        PROVE  IsCopy(j, d) \/ (j = k /\ d = e)
    <3>1. d.id # 0 BY <2>3 DEF IsCopy
    <3>2. CASE \E m \in Node : kv'[m][j] = d BY <1>12, <3>1, <3>2 DEF IsCopy
    <3>3. ASSUME NEW u \in Thread, Carries(th'[u], j, d)
          PROVE  IsCopy(j, d) \/ (j = k /\ d = e)
      <4>1. CASE u = t BY <1>8, <2>2, <3>3, <4>1 DEF Carries
      <4>2. CASE u # t BY <2>2, <3>1, <3>3, <4>2 DEF IsCopy
      <4> QED BY <4>1, <4>2
    <3> QED BY <2>3, <3>2, <3>3 DEF IsCopy
  <2>4. \A j \in Key, d \in Entry : IsCopy(j, d) => d.id \in Nat /\ d.id <= stored
    BY <1>14 DEF CopyInv, Entry
  <2>5. ASSUME NEW j \in Key, NEW d \in Entry, IsCopy(j, d)' PROVE d.id <= stored'
    BY <1>3, <1>6, <1>7, <2>3, <2>4, <2>5
  <2>6. ASSUME NEW i \in Key, NEW j \in Key, NEW c \in Entry, NEW d \in Entry,
               IsCopy(i, c)', IsCopy(j, d)', c.id = d.id
        PROVE  i = j /\ c = d
    <3>1. CASE IsCopy(i, c) /\ IsCopy(j, d) BY <1>14, <2>6, <3>1 DEF CopyInv
    <3>2. CASE IsCopy(i, c) /\ (j = k /\ d = e) BY <1>6, <1>7, <2>4, <2>6, <3>2
    <3>3. CASE IsCopy(j, d) /\ (i = k /\ c = e) BY <1>6, <1>7, <2>4, <2>6, <3>3
    <3> QED BY <2>3, <2>6, <3>1, <3>2, <3>3
  <2> QED BY <2>5, <2>6 DEF CopyInv
<1> QED BY <1>13, <1>14

LEMMA StoreReturnOK ==
  ASSUME IInv, NEW t \in Thread, StoreReturn(t)
  PROVE  IInv' /\ (CopyInv => CopyInv')
<1> DEFINE s == th[t]
<1>1. s \in Op /\ life[t[1]] # "off" BY Active DEF StoreReturn
<1>2. s.entry \in Entry BY <1>1 DEF Op
<1>3. acked \in [Key -> Entry] BY DEF IInv, TypeInv
<1>4. acked' \in [Key -> Entry]
  <2>1. acked' = [acked EXCEPT ![s.target] = IF s.entry.id > acked[s.target].id THEN s.entry
                                             ELSE acked[s.target]]
    BY DEF StoreReturn
  <2> QED BY <1>2, <1>3, <2>1
<1> QED BY <1>1, <1>4, IdleStep DEF StoreReturn

LEMMA FindReturnOK ==
  ASSUME IInv, NEW t \in Thread, FindReturn(t)
  PROVE  IInv' /\ (CopyInv => CopyInv')
<1>1. life[t[1]] # "off" BY Active DEF FindReturn
<1>2. acked' \in [Key -> Entry] BY DEF IInv, TypeInv, FindReturn
<1> QED BY <1>1, <1>2, IdleStep DEF FindReturn

LEMMA FindValueOK ==
  ASSUME IInv, NEW n \in Node, NEW k \in Key, FindValue(n, k)
  PROVE  IInv' /\ (CopyInv => CopyInv')
<1> DEFINE t == <<n, "api">>   e == Get(n, k)   want == acked[k]
<1>1. t \in Thread /\ t[1] = n BY DEF Thread
<1>2. PICK q : q = Search(n, "find", k, None) OBVIOUS
<1> DEFINE s == [q EXCEPT !.want = want]
           r == IF e # None THEN [s EXCEPT !.step = "done", !.wait = {}, !.entry = e] ELSE s
<1>3. life[n] = "member" /\ th' = [th EXCEPT ![t] = r]
      /\ UNCHANGED <<life, known, kv, now, stored, acked>>
  BY <1>2 DEF FindValue, Members
<1>4. TypeInv /\ TableInv /\ k \in Id /\ None \in Entry BY Constants DEF IInv
<1>5. want \in Entry BY <1>4 DEF TypeInv
<1>6. e \in Entry /\ e \in {None, kv[n][k]} BY <1>4, GetOK
<1> HIDE DEF e, want
<1>7. /\ q \in Op /\ OpInv(q, n) /\ q.kind = "find" /\ q.target = k /\ q.entry = None
  BY <1>2, <1>4, SearchOK
<1>8. s \in Op BY ONLY <1>5, <1>7 DEF Op
<1>9. /\ s.kind = q.kind /\ s.step = q.step /\ s.target = q.target /\ s.list = q.list
      /\ s.pn = q.pn /\ s.queried = q.queried /\ s.closest = q.closest
      /\ s.learnt = q.learnt /\ s.wait = q.wait /\ s.entry = q.entry
  BY ONLY <1>7 DEF Op
<1> HIDE DEF s
<1>10. OpInv(s, n) BY <1>7, <1>9 DEF OpInv
<1>11. r \in Op /\ OpInv(r, n) /\ r.kind = "find" /\ r.target = k /\ r.entry \in {None, e}
  <2>1. CASE e = None BY <1>7, <1>8, <1>9, <1>10, <2>1
  <2>2. CASE e # None
    <3> DEFINE f == [s EXCEPT !.step = "done", !.wait = {}, !.entry = e]
    <3>1. f \in Op BY ONLY <1>6, <1>8 DEF Op
    <3>2. /\ f.kind = s.kind /\ f.step = "done" /\ f.target = s.target /\ f.list = s.list
          /\ f.pn = s.pn /\ f.queried = s.queried /\ f.wait = {} /\ f.entry = e
      BY ONLY <1>8 DEF Op
    <3> HIDE DEF f
    <3>3. OpInv(f, n) BY <1>7, <1>9, <1>10, <3>2 DEF OpInv
    <3>4. r = f BY <2>2 DEF f
    <3> QED BY <1>7, <1>9, <3>1, <3>2, <3>3, <3>4
  <2> QED BY <2>1, <2>2
<1> HIDE DEF r
<1>12. IInv' BY <1>1, <1>3, <1>11, ThreadStep DEF IInv, TypeInv, TableInv
<1>13. \A j \in Key, d \in Entry : d.id # 0 /\ Carries(r, j, d) => IsCopy(j, d)
  BY <1>6, <1>11 DEF Carries, IsCopy, None
<1>14. \A m \in Node, j \in Key : kv'[m][j].id # 0 => IsCopy(j, kv'[m][j])
  BY <1>3 DEF IsCopy
<1>15. CopyInv => CopyInv' BY <1>1, <1>3, <1>11, <1>13, <1>14, CopyStep
<1> QED BY <1>12, <1>15

LEMMA RepublishOK ==
  ASSUME IInv, NEW n \in Node, Republish(n)
  PROVE  IInv' /\ (CopyInv => CopyInv')
<1> DEFINE t == <<n, "republish">>
           all == {<<k, Get(n, k)>> : k \in {j \in Key : Get(n, j) # None}}
           r == [Idle EXCEPT !.kind = "republish", !.step = "next", !.list = all]
<1>1. t \in Thread /\ t[1] = n BY DEF Thread
<1>2. life[n] = "member" /\ th' = [th EXCEPT ![t] = r]
      /\ UNCHANGED <<life, known, kv, now, stored, acked>>
  BY DEF Republish, Members
<1>3. \A k \in Key : Get(n, k) \in Entry /\ Get(n, k) \in {None, kv[n][k]}
  BY GetOK DEF IInv
<1>4. all \in SUBSET (Key \X Entry) BY <1>3
<1>5. \A x \in all : x[2] = kv[n][x[1]] BY <1>3
<1>6. all \in (SUBSET Index) \cup (SUBSET (Key \X Entry)) BY <1>4
<1> HIDE DEF all
<1>7. r \in Op BY ONLY <1>6, IdleOK DEF Op
<1>8. r.kind = "republish" /\ r.step = "next" /\ r.list = all BY ONLY IdleOK DEF Op
<1>9. r.pn = {} /\ r.wait = {} /\ r.entry = None BY ONLY IdleOK DEF Op, Idle
<1> HIDE DEF r
<1>10. Cardinality({}) <= K BY FS_EmptySet, Constants
<1>11. OpInv(r, n) BY <1>4, <1>8, <1>9, <1>10 DEF OpInv
<1>12. IInv' BY <1>1, <1>2, <1>7, <1>11, ThreadStep DEF IInv, TypeInv, TableInv
<1>13. ASSUME NEW k \in Key, NEW d \in Entry, d.id # 0, Carries(r, k, d) PROVE IsCopy(k, d)
  <2>1. None.id = 0 BY DEF None
  <2>2. <<k, d>> \in all BY <1>8, <1>9, <1>13, <2>1 DEF Carries
  <2>3. d = kv[n][k] BY <1>5, <2>2
  <2> QED BY <1>13, <2>3 DEF IsCopy
<1>14. \A m \in Node, j \in Key : kv'[m][j].id # 0 => IsCopy(j, kv'[m][j])
  BY <1>2 DEF IsCopy
<1>15. CopyInv => CopyInv' BY <1>1, <1>2, <1>7, <1>13, <1>14, CopyStep
<1> QED BY <1>12, <1>15

LEMMA RepublishNextOK ==
  ASSUME IInv, NEW t \in Thread, RepublishNext(t)
  PROVE  IInv' /\ (CopyInv => CopyInv')
<1> DEFINE s == th[t]   n == t[1]
<1>1. s \in Op /\ OpInv(s, n) /\ n \in Node /\ life[n] # "off" /\ s.kind = "republish"
  BY Active DEF RepublishNext
<1>2. s.list \subseteq Key \X Entry BY <1>1 DEF OpInv
<1>3. UNCHANGED <<life, known, kv, now, stored, acked>> BY DEF RepublishNext
<1>4. CASE th' = [th EXCEPT ![t] = Idle] BY <1>1, <1>3, <1>4, IdleStep DEF IInv, TypeInv
<1>5. ASSUME NEW x \in s.list,
             th' = [th EXCEPT ![t] = [Search(n, "republish", x[1], x[2]) EXCEPT
                                        !.list = s.list \ {x}]]
      PROVE  IInv' /\ (CopyInv => CopyInv')
  <2>1. PICK k \in Key, e \in Entry : x = <<k, e>> BY <1>2
  <2>2. x[1] = k /\ x[2] = e BY <2>1
  <2>3. PICK q : q = Search(n, "republish", k, e) OBVIOUS
  <2>4. TypeInv /\ TableInv /\ k \in Id BY Constants DEF IInv
  <2>5. /\ q \in Op /\ OpInv(q, n) /\ q.kind = "republish" /\ q.step = "round"
        /\ q.target = k /\ q.entry = e
    BY <1>1, <2>3, <2>4, SearchOK
  <2>6. PICK list \in SUBSET (Key \X Entry) : list = s.list \ {x} BY <1>2
  <2>7. list \in (SUBSET Index) \cup (SUBSET (Key \X Entry)) OBVIOUS
  <2> DEFINE r == [q EXCEPT !.list = list]
  <2>9. /\ r \in Op /\ OpInv(r, n) /\ r.kind = "republish" /\ r.target = k /\ r.entry = e
        /\ r.list = list
    <3>1. PICK m \in Node : m = n BY <1>1
    <3>2. OpInv(q, m) /\ q.kind # "refresh" /\ list \subseteq Key \X Entry BY <2>5, <3>1
    <3>3. r = [q EXCEPT !.list = list] OBVIOUS
    <3> HIDE DEF r
    <3>4. /\ r \in Op /\ OpInv(r, m) /\ r.kind = q.kind /\ r.target = q.target
          /\ r.entry = q.entry /\ r.list = list
      BY <2>5, <2>7, <3>2, <3>3, WithList
    <3> QED BY <2>5, <3>1, <3>4
  <2>10. th' = [th EXCEPT ![t] = r] BY <1>5, <2>2, <2>3, <2>6
  <2> HIDE DEF r
  <2>11. IInv' BY <1>1, <1>3, <2>9, <2>10, ThreadStep DEF IInv, TypeInv, TableInv
  <2>12. ASSUME NEW j \in Key, NEW d \in Entry, d.id # 0, Carries(r, j, d) PROVE IsCopy(j, d)
    <3>1. <<j, d>> \in s.list BY <2>1, <2>6, <2>9, <2>12 DEF Carries
    <3>2. Carries(s, j, d) BY <1>1, <3>1 DEF Carries
    <3> QED BY <2>12, <3>2 DEF IsCopy
  <2>13. \A m \in Node, j \in Key : kv'[m][j].id # 0 => IsCopy(j, kv'[m][j])
    BY <1>3 DEF IsCopy
  <2>14. CopyInv => CopyInv' BY <1>3, <2>9, <2>10, <2>12, <2>13, CopyStep
  <2> QED BY <2>11, <2>14
<1> QED BY <1>4, <1>5 DEF RepublishNext

\* The clock, eviction and crashes touch no operation.
LEMMA EnvironmentOK ==
  ASSUME IInv, \/ \E n \in Node : Evict(n) \/ Crash(n)
               \/ Tick
               \/ UNCHANGED vars
  PROVE  IInv' /\ (CopyInv => CopyInv')
<1>1. UNCHANGED <<th, known, stored, acked>> BY DEF Evict, Crash, Tick, vars
<1>2. /\ kv' \in [Node -> [Key -> Entry]]
      /\ \A m \in Node, k \in Key : kv'[m][k] \in {None, kv[m][k]}
  <2>1. kv \in [Node -> [Key -> Entry]] BY DEF IInv, TypeInv
  <2>2. ASSUME NEW n \in Node, Evict(n)
        PROVE  /\ kv' \in [Node -> [Key -> Entry]]
               /\ \A m \in Node, k \in Key : kv'[m][k] \in {None, kv[m][k]}
    <3> DEFINE f == [k \in Key |-> Get(n, k)]
    <3>1. \A k \in Key : Get(n, k) \in Entry /\ Get(n, k) \in {None, kv[n][k]}
      BY GetOK DEF IInv
    <3>2. f \in [Key -> Entry] /\ \A k \in Key : f[k] \in {None, kv[n][k]} BY <3>1
    <3>3. kv' = [kv EXCEPT ![n] = f] BY <2>2 DEF Evict
    <3> HIDE DEF f
    <3> QED BY <2>1, <3>2, <3>3
  <2>3. kv' = kv \/ \E n \in Node : Evict(n) BY DEF Evict, Crash, Tick, vars
  <2> QED BY <2>1, <2>2, <2>3
<1>3. /\ life' \in [Node -> {"off", "joining", "member", "gone"}]
      /\ \A n \in Node : life'[n] = "off" => life[n] = "off"
  <2>1. life \in [Node -> {"off", "joining", "member", "gone"}] BY DEF IInv, TypeInv
  <2>2. life' = life \/ \E n \in Node : life' = [life EXCEPT ![n] = "gone"]
    BY DEF Evict, Crash, Tick, vars
  <2> QED BY <2>1, <2>2
<1>4. now' \in 0 .. MaxTime
  <2>1. now \in 0 .. MaxTime /\ MaxTime \in Nat BY KademliaAssumption DEF IInv, TypeInv
  <2>2. now' = now \/ (now < MaxTime /\ now' = now + 1) BY DEF Evict, Crash, Tick, vars
  <2> QED BY <2>1, <2>2
<1>5. IInv'
  <2>1. TypeInv' BY <1>1, <1>2, <1>3, <1>4 DEF IInv, TypeInv
  <2>2. TableInv' /\ ThreadInv' BY <1>1 DEF IInv, TableInv, ThreadInv
  <2>3. OffInv'
    <3>1. \A t \in Thread : t[1] \in Node BY DEF Thread
    <3> QED BY <1>1, <1>3, <3>1 DEF IInv, OffInv
  <2> QED BY <2>1, <2>2, <2>3 DEF IInv
<1>6. ASSUME CopyInv PROVE CopyInv'
  <2>1. ASSUME NEW k \in Key, NEW e \in Entry, IsCopy(k, e)' PROVE IsCopy(k, e)
    <3>1. None.id = 0 BY DEF None
    <3> QED BY <1>1, <1>2, <2>1, <3>1 DEF IsCopy
  <2> QED BY <1>1, <1>6, <2>1 DEF CopyInv
<1> QED BY <1>5, <1>6

LEMMA InitOK == Init => IInv /\ CopyInv
<1> SUFFICES ASSUME Init PROVE IInv /\ CopyInv OBVIOUS
<1>1. life \in [Node -> {"off", "joining", "member", "gone"}] BY DEF Init
<1>2. known \in [Node -> SUBSET Node] /\ TableInv BY DEF Init, TableInv
<1>3. /\ kv \in [Node -> [Key -> Entry]] /\ acked \in [Key -> Entry]
      /\ \A n \in Node, k \in Key : kv[n][k] = None
  BY Constants DEF Init
<1>4. th \in [Thread -> Op] /\ \A t \in Thread : th[t] = Idle BY IdleOK DEF Init
<1>5. now \in 0 .. MaxTime /\ stored \in 0 .. MaxStores BY KademliaAssumption DEF Init
<1>6. \A t \in Thread : t[1] \in Node BY DEF Thread
<1>7. Idle.kind = "idle" /\ Idle.entry = None /\ None.id = 0 BY DEF Idle, None
<1>8. IInv
  BY <1>1, <1>2, <1>3, <1>4, <1>5, <1>6, <1>7, IdleOK DEF IInv, TypeInv, ThreadInv, OffInv
<1>9. \A k \in Key, e \in Entry : ~IsCopy(k, e) BY <1>3, <1>4, <1>7 DEF IsCopy, Carries
<1> QED BY <1>8, <1>9 DEF CopyInv

LEMMA NextOK ==
  ASSUME IInv, [Next]_vars
  PROVE  IInv' /\ (CopyInv => CopyInv')
<1>1. ASSUME NEW t \in Thread, NEW c \in Node, Answer(t, c) PROVE IInv' /\ (CopyInv => CopyInv')
  BY <1>1, AnswerOK
<1>2. ASSUME NEW t \in Thread, NEW c \in Node, NoAnswer(t, c) PROVE IInv' /\ (CopyInv => CopyInv')
  BY <1>2, NoAnswerOK
<1>3. ASSUME NEW t \in Thread, NEW c \in Node, LoseCall(t, c) PROVE IInv' /\ (CopyInv => CopyInv')
  BY <1>3, LoseCallOK
<1>4. ASSUME NEW t \in Thread,
             \/ RoundAgain(t) \/ RoundLast(t) \/ FindHit(t)
             \/ Put(t) \/ StoreReturn(t) \/ FindReturn(t) \/ RepublishNext(t)
      PROVE  IInv' /\ (CopyInv => CopyInv')
  BY <1>4, RoundAgainOK, RoundLastOK, FindHitOK, PutOK, StoreReturnOK, FindReturnOK,
     RepublishNextOK
<1>5. ASSUME NEW n \in Node, NEW b \in Node, Join(n, b) PROVE IInv' /\ (CopyInv => CopyInv')
  BY <1>5, JoinOK
<1>6. ASSUME NEW n \in Node, JoinReturn(n) \/ RefreshNext(n) \/ Republish(n)
      PROVE  IInv' /\ (CopyInv => CopyInv')
  BY <1>6, JoinReturnOK, RefreshNextOK, RepublishOK
<1>7. ASSUME NEW n \in Node, NEW k \in Key, StoreValue(n, k) \/ FindValue(n, k)
      PROVE  IInv' /\ (CopyInv => CopyInv')
  BY <1>7, StoreValueOK, FindValueOK
<1>8. ASSUME \/ \E n \in Node : Evict(n) \/ Crash(n)
             \/ Tick
             \/ UNCHANGED vars
      PROVE  IInv' /\ (CopyInv => CopyInv')
  BY <1>8, EnvironmentOK
<1> QED BY <1>1, <1>2, <1>3, <1>4, <1>5, <1>6, <1>7, <1>8 DEF Next

-----------------------------------------------------------------------------
\* A search of iterativeSearch never holds more than K contacts, never holds or
\* asks the searcher itself and waits only for contacts it has asked, in any
\* network, with any number of concurrent searches, losses and crashes.
THEOREM TypeCorrect == Spec => []TypeOK
<1>1. ASSUME IInv PROVE TypeOK
  <2> SUFFICES ASSUME NEW t \in Thread
               PROVE  /\ th[t].pn \subseteq Node \ {t[1]} /\ Cardinality(th[t].pn) <= K
                      /\ th[t].wait \subseteq th[t].queried /\ th[t].wait \subseteq Node \ {t[1]}
                      /\ th[t].miss \in Node \cup {Nil} /\ th[t].entry \in Entry
    BY <1>1 DEF TypeOK, IInv, TypeInv
  <2>1. th[t] \in Op /\ OpInv(th[t], t[1]) BY <1>1, Active
  <2>2. /\ th[t].pn \in SUBSET Node /\ th[t].wait \in SUBSET Node
        /\ th[t].miss \in Node \cup {Nil} /\ th[t].entry \in Entry
    BY <2>1 DEF Op
  <2> QED BY <2>1, <2>2 DEF OpInv
<1> QED BY <1>1, InitOK, NextOK, PTL DEF Spec

\* All copies of one stored value are under one key and carry the time of its
\* StoreValue, however often Put, FindHit and republishKeys have copied them.
THEOREM CopiesAlike == Spec => []CopiesAgree
<1>1. ASSUME IInv, CopyInv PROVE CopiesAgree
  <2> SUFFICES ASSUME NEW n \in Node, NEW m \in Node, NEW j \in Key, NEW k \in Key,
                      kv[n][j].id # 0, kv[n][j].id = kv[m][k].id
               PROVE  j = k /\ kv[n][j] = kv[m][k]
    BY DEF CopiesAgree
  <2>1. kv[n][j] \in Entry /\ kv[m][k] \in Entry BY <1>1 DEF IInv, TypeInv
  <2>2. IsCopy(j, kv[n][j]) /\ IsCopy(k, kv[m][k]) BY DEF IsCopy
  <2> QED BY <1>1, <2>1, <2>2 DEF CopyInv
<1> QED BY <1>1, InitOK, NextOK, PTL DEF Spec

-----------------------------------------------------------------------------
(* Progress of a search.                                                     *)

\* t begins a further round.
Further(t) ==
  th[t].step = "round" /\ th[t].wait = {} /\ th'[t].step = "round" /\ th'[t].wait # {}

\* Nothing but RoundAgain begins one.
LEMMA OnlyRoundAgain ==
  ASSUME IInv, [Next]_vars, NEW t \in Thread, Further(t)
  PROVE  RoundAgain(t)
<1>1. th \in [Thread -> Op] /\ th[t] \in Op BY DEF IInv, TypeInv
<1>2. th[t].kind # "idle"
  <2>1. OpInv(th[t], t[1]) BY DEF IInv, ThreadInv
  <2> QED BY <2>1 DEF OpInv, Further
<1>3. \A u \in Thread : \A x : th' = [th EXCEPT ![u] = x] => u = t
  BY <1>1 DEF Further
<1>4. ASSUME NEW u \in Thread, NEW x, th' = [th EXCEPT ![u] = x] PROVE u = t /\ th'[t] = x
  BY <1>1, <1>3, <1>4
<1>5. ASSUME NEW u \in Thread, NEW c \in Node, Answer(u, c) PROVE FALSE
  <2>1. \E x : th' = [th EXCEPT ![u] = x] BY <1>5 DEF Answer
  <2>2. u = t BY <1>4, <2>1
  <2> QED BY <1>5, <2>2 DEF Answer, Further
<1>6. ASSUME NEW u \in Thread, NEW c \in Node, NoAnswer(u, c) PROVE FALSE
  <2>1. \E x : th' = [th EXCEPT ![u] = x] BY <1>6 DEF NoAnswer
  <2>2. u = t BY <1>4, <2>1
  <2> QED BY <1>6, <2>2 DEF NoAnswer, Further
<1>7. ASSUME NEW u \in Thread, NEW c \in Node, LoseCall(u, c) PROVE FALSE
  <2>1. PICK x \in Op : /\ th' = Unsettle([th EXCEPT ![u] = x])
                        /\ x.wait \subseteq th[u].wait
    <3>1. CASE th' = Unsettle([th EXCEPT ![u].wait = @ \ {c}])
      <4> DEFINE x == [th[u] EXCEPT !.wait = @ \ {c}]
      <4>1. x \in Op /\ x.wait \subseteq th[u].wait BY <1>1 DEF Op
      <4> QED BY <3>1, <4>1
    <3>2. CASE th' = Unsettle([th EXCEPT ![u].todo = @ \ {c}])
      <4> DEFINE x == [th[u] EXCEPT !.todo = @ \ {c}]
      <4>1. x \in Op /\ x.wait \subseteq th[u].wait BY <1>1 DEF Op
      <4> QED BY <3>2, <4>1
    <3> QED BY <1>7, <3>1, <3>2 DEF LoseCall
  <2> DEFINE f == [th EXCEPT ![u] = x]
  <2>2. f \in [Thread -> Op] /\ f[t].wait \subseteq th[t].wait BY <1>1, <2>1
  <2>3. th' = Unsettle(f) BY <2>1
  <2> HIDE DEF f
  <2>4. th'[t].wait = f[t].wait BY <2>2, <2>3, UnsettleOK
  <2> QED BY <2>2, <2>4 DEF Further
<1>8. ASSUME NEW u \in Thread, RoundLast(u) PROVE FALSE
  <2> DEFINE q == [th[u] EXCEPT !.pn = Merged(th[u], u[1]), !.learnt = {}]
  <2>1. th' = [th EXCEPT ![u] = Found(q)] BY <1>8 DEF RoundLast
  <2>2. u = t /\ th'[t] = Found(q) BY <1>4, <2>1
  <2>3. Merged(th[u], u[1]) \in SUBSET Node
    <3>1. OpInv(th[u], u[1]) /\ u[1] \in Node BY Active
    <3> QED BY <1>1, <2>2, <3>1, MergedOK DEF Further
  <2>4. q \in Op BY ZenonT(60), <1>1, <2>2, <2>3 DEF Op
  <2> HIDE DEF q
  <2>5. Found(q).step \in {"put", "next", "done"}
    <3>1. CASE q.kind \in {"store", "republish"} BY <2>4, <3>1 DEF Found, Op
    <3>2. CASE q.kind = "refresh" BY <2>4, <3>2 DEF Found, Op
    <3>3. CASE q.kind \notin {"store", "republish", "refresh"} BY <2>4, <3>3 DEF Found, Op
    <3> QED BY <3>1, <3>2, <3>3
  <2> QED BY <2>2, <2>5 DEF Further
<1>9. ASSUME NEW u \in Thread, FindHit(u) PROVE FALSE
  <2> DEFINE q == [th[u] EXCEPT !.step = "done", !.learnt = {}]
  <2>1. th' = [th EXCEPT ![u] = q] BY <1>9 DEF FindHit
  <2>2. u = t /\ th'[t] = q BY <1>4, <2>1
  <2>3. q.step = "done" BY <1>1, <2>2 DEF Op
  <2> QED BY <2>2, <2>3 DEF Further
<1>10. ASSUME NEW u \in Thread,
              Put(u) \/ StoreReturn(u) \/ FindReturn(u) \/ RepublishNext(u)
       PROVE  FALSE
  <2>1. \E x : th' = [th EXCEPT ![u] = x]
    BY <1>10 DEF Put, StoreReturn, FindReturn, RepublishNext
  <2>2. u = t BY <1>4, <2>1
  <2> QED BY <1>10, <2>2 DEF Put, StoreReturn, FindReturn, RepublishNext, Further
<1>11. ASSUME NEW n \in Node, NEW b \in Node, Join(n, b) PROVE FALSE
  <2> DEFINE u == <<n, "api">>   g == Unsettle(th)
  <2>1. u \in Thread /\ u[1] = n BY DEF Thread
  <2>2. \E x : th' = [g EXCEPT ![u] = x] BY <1>11 DEF Join
  <2>3. g \in [Thread -> Op] /\ g[t].wait = th[t].wait BY <1>1, UnsettleOK
  <2> HIDE DEF g
  <2>4. u = t BY <2>2, <2>3 DEF Further
  <2>5. th[u].kind = "idle" BY <1>11, <2>1 DEF Join, IInv, OffInv
  <2> QED BY <1>2, <2>4, <2>5
<1>12. ASSUME NEW n \in Node, JoinReturn(n) PROVE FALSE
  <2> DEFINE u == <<n, "api">>   w == <<n, "refresh">>
             r == [Idle EXCEPT !.kind = "refresh", !.step = "next", !.list = Index]
  <2>1. u \in Thread /\ w \in Thread /\ u # w BY DEF Thread
  <2>2. th[u].step = "done" /\ th' = [th EXCEPT ![u] = Idle, ![w] = r]
    BY <1>12 DEF JoinReturn
  <2>3. r.step = "next" BY ONLY IdleOK DEF Op
  <2> HIDE DEF r
  <2>4. t # u /\ t # w
    <3>1. th'[w] = r BY <1>1, <2>1, <2>2
    <3> QED BY <2>2, <2>3, <3>1 DEF Further
  <2>5. th'[t] = th[t] BY <1>1, <2>1, <2>2, <2>4
  <2> QED BY <2>5 DEF Further
<1>13. ASSUME NEW n \in Node, RefreshNext(n) PROVE FALSE
  <2> DEFINE u == <<n, "refresh">>
  <2>1. u \in Thread BY DEF Thread
  <2>2. \E x : th' = [th EXCEPT ![u] = x] BY <1>13 DEF RefreshNext
  <2>3. u = t BY <1>4, <2>1, <2>2
  <2> QED BY <1>13, <2>3 DEF RefreshNext, Further
<1>14. ASSUME NEW n \in Node, Republish(n) PROVE FALSE
  <2> DEFINE u == <<n, "republish">>
  <2>1. u \in Thread BY DEF Thread
  <2>2. \E x : th' = [th EXCEPT ![u] = x] BY <1>14 DEF Republish
  <2>3. u = t BY <1>4, <2>1, <2>2
  <2> QED BY <1>2, <1>14, <2>3 DEF Republish
<1>15. ASSUME NEW n \in Node, NEW k \in Key, StoreValue(n, k) \/ FindValue(n, k) PROVE FALSE
  <2> DEFINE u == <<n, "api">>
  <2>1. u \in Thread BY DEF Thread
  <2>2. \E x : th' = [th EXCEPT ![u] = x] BY <1>15 DEF StoreValue, FindValue
  <2>3. u = t BY <1>4, <2>1, <2>2
  <2> QED BY <1>2, <1>15, <2>3 DEF StoreValue, FindValue
<1>16. ASSUME th' = th PROVE FALSE BY <1>16 DEF Further
<1>17. (\E n \in Node : Evict(n) \/ Crash(n)) \/ Tick \/ UNCHANGED vars => th' = th
  BY DEF Evict, Crash, Tick, vars
<1>18. ASSUME NEW u \in Thread, RoundAgain(u) PROVE u = t
  <2>1. \E x : th' = [th EXCEPT ![u] = x] BY <1>18 DEF RoundAgain
  <2> QED BY <1>4, <2>1
<1> QED
  BY <1>5, <1>6, <1>7, <1>8, <1>9, <1>10, <1>11, <1>12, <1>13, <1>14, <1>15, <1>16, <1>17, <1>18
  DEF Next

\* Every further round of a search asks only contacts not asked before, and the
\* nearest contact has come nearer to the target since the round before, or the
\* round is the final one: a search of iterativeSearch has at most one round for
\* every contact it comes to know, and the final one.
THEOREM RoundsNear == Spec => SearchNears
<1>1. ASSUME IInv, [Next]_vars, NEW t \in Thread, Further(t)
      PROVE  /\ ~th[t].final /\ th'[t].wait \cap th[t].queried = {}
             /\ IF th'[t].final THEN th'[t].closest = th[t].closest
                ELSE th'[t].closest \in Closer[th[t].target][th[t].closest]
  <2> DEFINE s == th[t]   n == t[1]   pn == Merged(s, n)   batch == NextBatch(s, pn)
             closest == Nearest(pn, s.target)
  <2>1. RoundAgain(t) BY <1>1, OnlyRoundAgain
  <2>2. s \in Op /\ OpInv(s, n) /\ n \in Node /\ s.step = "round" /\ th \in [Thread -> Op]
    BY <1>1, Active DEF Further, IInv, TypeInv
  <2>3. /\ pn \in SUBSET Node
        /\ s.pn = {} => pn = {}
        /\ s.pn # {} => closest = s.closest \/ closest \in Closer[s.target][s.closest]
    BY <2>2, MergedOK
  <2> HIDE DEF pn
  <2>4. batch # {} BY <2>1 DEF RoundAgain, pn
  <2>5. ~s.final /\ pn # {} /\ batch \cap s.queried = {} BY <2>2, <2>3, <2>4, NextBatchOK
  <2> HIDE DEF batch, closest
  <2>6. PICK r : /\ th'[t] = r
                 /\ r = [s EXCEPT !.pn = pn, !.queried = @ \cup batch, !.wait = batch,
                                  !.learnt = {}, !.closest = closest,
                                  !.final = (closest = s.closest)]
    BY <2>1, <2>2 DEF RoundAgain, pn, batch, closest
  <2>7. r.wait = batch /\ r.closest = closest /\ r.final = (closest = s.closest)
    BY ONLY <2>2, <2>6 DEF Op
  <2> QED BY <2>3, <2>5, <2>6, <2>7
<1>2. ASSUME IInv, [Next]_vars
      PROVE  [\A t \in Thread :
                LET s == th[t]  r == th'[t] IN
                s.step = "round" /\ s.wait = {} /\ r.step = "round" /\ r.wait # {}
                  => /\ ~s.final /\ r.wait \cap s.queried = {}
                     /\ IF r.final THEN r.closest = s.closest
                                   ELSE r.closest \in Closer[s.target][s.closest]]_vars
  BY <1>1, <1>2 DEF Further
<1> QED BY <1>2, InitOK, NextOK, PTL DEF Spec, SearchNears
=============================================================================
