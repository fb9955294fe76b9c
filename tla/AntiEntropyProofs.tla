-------------------------- MODULE AntiEntropyProofs --------------------------
(***************************************************************************)
(* Proofs about MerkleTree and AntiEntropy, for any number of nodes, keys  *)
(* and writes and any placement of the replicas: the levels are a tower in *)
(* which each is half the one below, the descent into subtrees with        *)
(* different hashes finds exactly the leaves that differ, no exchange      *)
(* undoes a write or brings a key back that every node has deleted, and    *)
(* the comparison of two stores misses nothing.                            *)
(***************************************************************************)
EXTENDS AntiEntropy, SequenceTheorems, FiniteSetTheorems, WellFoundedInduction, TLAPS

-----------------------------------------------------------------------------
(* Induction: a nonempty set of numbers has a least element.                 *)

LEMMA NatMin ==
  ASSUME NEW T, T \subseteq Nat, T # {}
  PROVE  \E x \in T : \A y \in T : x <= y
<1> DEFINE Less == OpToRel(<, Nat)
<1>1. IsWellFoundedOn(Less, Nat) BY NatLessThanWellFounded
<1> HIDE DEF Less
<1>2. PICK x \in T : \A y \in T : ~ (<<y, x>> \in Less) BY <1>1, WFMin
<1>3. \A y \in T : ~(y < x) BY <1>2 DEF Less, OpToRel
<1> QED BY <1>3

-----------------------------------------------------------------------------
(* A level of a tree: a sequence, whatever its elements.                     *)

IsLevel(s) == Len(s) \in Nat /\ s = [i \in 1 .. Len(s) |-> s[i]]

LEMMA LevelOf ==
  ASSUME NEW n \in Nat, NEW f, f = [i \in 1 .. n |-> f[i]]
  PROVE  IsLevel(f) /\ Len(f) = n /\ f \in Seq({f[i] : i \in 1 .. n})
<1> DEFINE S == {f[i] : i \in 1 .. n}
<1>1. f \in [1 .. n -> S]
  <2>1. \A i \in 1 .. n : f[i] \in S OBVIOUS
  <2> HIDE DEF S
  <2> QED BY <2>1
<1> HIDE DEF S
<1>2. f \in Seq(S) BY <1>1, SeqDef
<1>3. Len(f) \in Nat /\ DOMAIN f = 1 .. Len(f) BY <1>2, LenProperties
<1>4. DOMAIN f = 1 .. n BY <1>1
<1>5. Len(f) = n BY <1>3, <1>4
<1> QED BY <1>2, <1>5 DEF IsLevel, S

LEMMA LevelLength == ASSUME NEW s, IsLevel(s) PROVE Len(s) \in Nat
BY DEF IsLevel

LEMMA LevelEqual ==
  ASSUME NEW s, NEW t, IsLevel(s), IsLevel(t), Len(s) = Len(t),
         \A i \in 1 .. Len(s) : s[i] = t[i]
  PROVE  s = t
BY DEF IsLevel

-----------------------------------------------------------------------------
(* The sorted keys.                                                          *)

Rank(K, k) == Cardinality({j \in K : j <= k})

LEMMA RankType ==
  ASSUME NEW K, K \subseteq Nat, IsFiniteSet(K), NEW k \in K
  PROVE  Rank(K, k) \in 1 .. Cardinality(K)
<1> DEFINE D == {j \in K : j <= k}
<1>1. D \in SUBSET K /\ k \in D OBVIOUS
<1> HIDE DEF D
<1>2. IsFiniteSet(D) /\ Cardinality(D) <= Cardinality(K) BY <1>1, FS_Subset
<1>3. Cardinality(D) \in Nat /\ Cardinality(K) \in Nat BY <1>2, FS_CardinalityType
<1>4. Cardinality(D) # 0 BY <1>1, <1>2, FS_EmptySet
<1> QED BY <1>2, <1>3, <1>4 DEF Rank, D

LEMMA RankInjective ==
  ASSUME NEW K, K \subseteq Nat, IsFiniteSet(K), NEW k \in K, NEW j \in K,
         Rank(K, j) = Rank(K, k)
  PROVE  j = k
<1> DEFINE D(x) == {i \in K : i <= x}
<1>1. ASSUME NEW x \in K, NEW y \in K, x <= y, Rank(K, x) = Rank(K, y)
      PROVE  x = y
  <2>0. x \in Nat /\ y \in Nat OBVIOUS
  <2>1. D(x) \subseteq D(y) /\ D(y) \subseteq K /\ y \in D(y) /\ (y \in D(x) => y <= x)
    <3>1. \A i \in K : i <= x => i <= y BY <1>1
    <3>2. y <= y BY <2>0
    <3>3. D(x) \subseteq D(y) BY <3>1, Zenon
    <3>4. D(y) \subseteq K /\ y \in D(y) /\ (y \in D(x) => y <= x) BY <3>2, Zenon
    <3> QED BY <3>3, <3>4
  <2>2. Cardinality(D(x)) = Cardinality(D(y)) BY <1>1 DEF Rank
  <2> HIDE DEF D
  <2>3. IsFiniteSet(D(y)) BY <2>1, FS_Subset
  <2>4. D(x) = D(y) BY <2>1, <2>2, <2>3, FS_Subset
  <2> QED BY <2>1, <2>4, <1>1
<1> QED BY <1>1

Sorted(K) == [i \in 1 .. Cardinality(K) |-> CHOOSE k \in K : Rank(K, k) = i]

LEMMA SortedKeysAre ==
  ASSUME NEW K, K \subseteq Nat, IsFiniteSet(K)
  PROVE  /\ Cardinality(K) \in Nat
         /\ \A i \in 1 .. Cardinality(K) : Sorted(K)[i] \in K
         /\ \A i, j \in 1 .. Cardinality(K) : Sorted(K)[i] = Sorted(K)[j] => i = j
         /\ \A k \in K : \E i \in 1 .. Cardinality(K) : Sorted(K)[i] = k
<1> DEFINE n == Cardinality(K)
           S == Sorted(K)
           f == [k \in K |-> Rank(K, k)]
<1>1. n \in Nat BY FS_CardinalityType
<1>2. \A k \in K : Rank(K, k) \in 1 .. n BY RankType
<1>3. \A j, k \in K : Rank(K, j) = Rank(K, k) => j = k BY RankInjective
<1>4. IsFiniteSet(1 .. n) /\ Cardinality(1 .. n) = n
  <2>1. 1 \in Int /\ n \in Int BY <1>1
  <2> HIDE DEF n
  <2>2. IsFiniteSet(1 .. n) /\ Cardinality(1 .. n) = IF 1 > n THEN 0 ELSE n - 1 + 1 BY <2>1, FS_Interval
  <2> QED BY <1>1, <2>2
<1>5. f \in Injection(K, 1 .. n)
  <2> HIDE DEF n
  <2> QED BY <1>2, <1>3 DEF Injection, IsInjective
<1>6. f \in Surjection(K, 1 .. n)
  <2>1. Cardinality(K) = n OBVIOUS
  <2> HIDE DEF n, f
  <2> QED BY <2>1, <1>4, <1>5, FS_Injection
<1>7. \A i \in 1 .. n : \E k \in K : Rank(K, k) = i
  <2>1. \A i \in 1 .. n : \E k \in K : f[k] = i
    <3> HIDE DEF n, f
    <3> QED BY <1>6 DEF Surjection
  <2> HIDE DEF n
  <2> QED BY <2>1
<1> HIDE DEF f, n, S
<1>8. \A i \in 1 .. n : S[i] = CHOOSE k \in K : Rank(K, k) = i BY DEF n, S, Sorted
<1>9. \A i \in 1 .. n : S[i] \in K /\ Rank(K, S[i]) = i BY <1>7, <1>8
<1>10. \A i, j \in 1 .. n : S[i] = S[j] => i = j BY <1>9
<1>11. \A k \in K : \E i \in 1 .. n : S[i] = k
  <2> SUFFICES ASSUME NEW k \in K PROVE S[Rank(K, k)] = k
    BY <1>2
  <2> QED BY <1>2, <1>3, <1>9
<1> QED BY <1>1, <1>9, <1>10, <1>11 DEF n, S

-----------------------------------------------------------------------------
(* The levels.                                                               *)

\* The next level: a root stays.
Up(s) == IF Len(s) <= 1 THEN s ELSE Parents(s)

AreLevels(first, n, g) == g = [i \in 0 .. n |-> IF i = 0 THEN first ELSE Up(g[i - 1])]

LEMMA LevelsExist ==
  ASSUME NEW first, NEW n \in Nat
  PROVE  \E g : AreLevels(first, n, g)
<1> DEFINE T == {m \in Nat : ~ \E g : AreLevels(first, m, g)}
<1> SUFFICES ASSUME T # {} PROVE FALSE
  OBVIOUS
<1>1. PICK m \in T : \A l \in T : m <= l
  <2>1. T \subseteq Nat OBVIOUS
  <2> HIDE DEF T
  <2> QED BY <2>1, NatMin
<1>2. m \in Nat /\ ~ \E g : AreLevels(first, m, g)
  OBVIOUS
<1>3. CASE m = 0
  <2> DEFINE h == [i \in 0 .. 0 |-> first]
  <2>1. h = [i \in 0 .. 0 |-> IF i = 0 THEN first ELSE Up(h[i - 1])]
    OBVIOUS
  <2> HIDE DEF h
  <2> QED BY <1>2, <1>3, <2>1 DEF AreLevels
<1>4. CASE m # 0
  <2>1. m - 1 \in Nat /\ m - 1 \notin T
    BY <1>1, <1>2, <1>4
  <2>2. PICK g : AreLevels(first, m - 1, g)
    BY <2>1
  <2> DEFINE h == [i \in 0 .. m |-> IF i = m THEN Up(g[m - 1]) ELSE g[i]]
             k == [i \in 0 .. m |-> IF i = 0 THEN first ELSE Up(h[i - 1])]
  <2>3. ASSUME NEW i \in 0 .. m
        PROVE  h[i] = k[i]
    <3>1. CASE i = m
      <4>1. h[m] = Up(g[m - 1]) /\ h[m - 1] = g[m - 1]
        BY <1>2, <1>4
      <4>2. k[m] = Up(h[m - 1])
        BY <1>2, <1>4
      <4> HIDE DEF h, k
      <4> QED BY <4>1, <4>2, <3>1
    <3>2. CASE i # m /\ i # 0
      <4>1. h[i] = g[i] /\ h[i - 1] = g[i - 1]
        BY <1>2, <3>2
      <4>2. g[i] = Up(g[i - 1])
        BY <1>2, <2>2, <3>2 DEF AreLevels
      <4>3. k[i] = Up(h[i - 1])
        BY <3>2
      <4> HIDE DEF h, k
      <4> QED BY <4>1, <4>2, <4>3
    <3>3. CASE i = 0
      <4>1. h[0] = g[0] /\ g[0] = first /\ k[0] = first
        BY <1>2, <1>4, <2>2 DEF AreLevels
      <4> HIDE DEF h, k
      <4> QED BY <4>1, <3>3
    <3> QED BY <3>1, <3>2, <3>3
  <2>4. h = k
    BY <2>3
  <2> QED BY <1>2, <2>4, Zenon DEF AreLevels
<1> QED BY <1>3, <1>4

LEMMA LevelsAre ==
  ASSUME NEW t, Top \in Nat
  PROVE  /\ buildTreeLevels(t)[0] = Leaves(t)
         /\ \A i \in 1 .. Top : buildTreeLevels(t)[i] = Up(buildTreeLevels(t)[i - 1])
<1> DEFINE B(g) == [i \in 0 .. Top |->
                     IF i = 0 THEN Leaves(t)
                     ELSE IF Len(g[i - 1]) <= 1 THEN g[i - 1] ELSE Parents(g[i - 1])]
<1>1. PICK g : AreLevels(Leaves(t), Top, g)
  BY LevelsExist
<1>2. g = B(g)
  BY <1>1 DEF AreLevels, Up
<1>3. buildTreeLevels(t) = CHOOSE f : f = B(f)
  BY DEF buildTreeLevels
<1>4. buildTreeLevels(t) = B(buildTreeLevels(t))
  <2> HIDE DEF B
  <2> QED BY <1>2, <1>3, Zenon
<1> DEFINE b == buildTreeLevels(t)
<1>5. b = B(b) BY <1>4
<1> HIDE DEF b
<1>6. b[0] = Leaves(t) /\ \A i \in 1 .. Top : b[i] = Up(b[i - 1])
  BY <1>5 DEF Up
<1> QED BY <1>6 DEF b

-----------------------------------------------------------------------------
(* One level up.                                                             *)

\* The left and the right child of node i above a level of m hashes.
Right(m, i) == IF 2 * i <= m THEN 2 * i ELSE m

LEMMA Halves ==
  ASSUME NEW m \in Nat, m >= 2
  PROVE  /\ (m + 1) \div 2 \in Nat /\ (m + 1) \div 2 >= 1 /\ (m + 1) \div 2 < m
         /\ \A i \in 1 .. (m + 1) \div 2 :
              2 * i - 1 \in 1 .. m /\ Right(m, i) \in 1 .. m
         /\ \A j \in 1 .. m :
              /\ (j + 1) \div 2 \in 1 .. (m + 1) \div 2
              /\ \/ j = 2 * ((j + 1) \div 2) - 1
                 \/ j = Right(m, (j + 1) \div 2)
BY DEF Right

LEMMA ParentsAre ==
  ASSUME NEW s, IsLevel(s), Len(s) >= 2
  PROVE  /\ IsLevel(Parents(s))
         /\ Len(Parents(s)) = (Len(s) + 1) \div 2
         /\ \A i \in 1 .. (Len(s) + 1) \div 2 :
              Parents(s)[i] = <<s[2 * i - 1], s[Right(Len(s), i)]>>
<1> DEFINE m == Len(s)
           h == IF m % 2 = 0 THEN s ELSE Append(s, s[m])
           n == (m + 1) \div 2
<1>1. m \in Nat /\ s = [i \in 1 .. m |-> s[i]]
  BY DEF IsLevel
<1>2. s \in Seq({s[i] : i \in 1 .. m})
  BY <1>1, LevelOf
<1>3. n \in Nat /\ (m % 2 = 0 => m = 2 * n) /\ (m % 2 # 0 => m + 1 = 2 * n)
  <2>1. \A q \in Nat : /\ (q + 1) \div 2 \in Nat
                       /\ q % 2 = 0 => q = 2 * ((q + 1) \div 2)
                       /\ q % 2 # 0 => q + 1 = 2 * ((q + 1) \div 2)
    OBVIOUS
  <2> HIDE DEF m
  <2> QED BY <1>1, <2>1
<1>4. Len(h) = 2 * n /\ \A i \in 1 .. 2 * n : h[i] = s[IF i <= m THEN i ELSE m]
  <2>1. CASE m % 2 = 0
    <3>1. h = s BY <2>1
    <3>2. m = 2 * n BY <1>3, <2>1
    <3> HIDE DEF h, n
    <3> QED BY <3>1, <3>2, <1>1
  <2>2. CASE m % 2 # 0
    <3>1. h = Append(s, s[m]) BY <2>2
    <3>2. m + 1 = 2 * n BY <1>3, <2>2
    <3>3. s[m] \in {s[i] : i \in 1 .. m} BY <1>1
    <3>4. Len(h) = m + 1 /\ h[m + 1] = s[m] /\ \A i \in 1 .. m : h[i] = s[i]
      <4> DEFINE S == {s[i] : i \in 1 .. m}
      <4>1. s \in Seq(S) /\ s[m] \in S BY <1>2, <3>3
      <4> HIDE DEF S, h
      <4> QED BY <3>1, <4>1, AppendProperties
    <3> HIDE DEF h, n
    <3> QED BY <3>2, <3>4, <1>1
  <2> QED BY <2>1, <2>2
<1>5. Parents(s) = [i \in 1 .. Len(h) \div 2 |-> <<h[2 * i - 1], h[2 * i]>>]
  BY DEF Parents
<1>6. Len(h) \div 2 = n
  <2> HIDE DEF h, n
  <2> QED BY <1>3, <1>4
<1> DEFINE p == Parents(s)
<1>7. p = [i \in 1 .. n |-> <<h[2 * i - 1], h[2 * i]>>]
  BY <1>5, <1>6
<1>8. IsLevel(p) /\ Len(p) = n
  <2>1. p = [i \in 1 .. n |-> p[i]]
    <3> HIDE DEF p, n, h
    <3> QED BY <1>7
  <2> HIDE DEF p, n
  <2> QED BY <2>1, <1>3, LevelOf
<1>9. ASSUME NEW i \in 1 .. n
      PROVE  p[i] = <<s[2 * i - 1], s[Right(m, i)]>>
  <2>1. p[i] = <<h[2 * i - 1], h[2 * i]>>
    <3> HIDE DEF p, n, h
    <3> QED BY <1>7
  <2>2. 2 * i - 1 \in 1 .. 2 * n /\ 2 * i \in 1 .. 2 * n /\ 2 * i - 1 <= m
    <3> HIDE DEF m
    <3> QED BY <1>1
  <2>3. h[2 * i - 1] = s[2 * i - 1] /\ h[2 * i] = s[Right(m, i)]
    <3> HIDE DEF p, n, h
    <3> QED BY <2>2, <1>4 DEF Right
  <2> QED BY <2>1, <2>3
<1> QED BY <1>8, <1>9

Distinct(s) == \A i, j \in 1 .. Len(s) : s[i] = s[j] => i = j

LEMMA UpIs ==
  ASSUME NEW s, IsLevel(s)
  PROVE  /\ Len(s) <= 1 => Up(s) = s
         /\ Len(s) >= 2 => Up(s) = Parents(s)
         /\ IsLevel(Up(s))
         /\ Len(Up(s)) = IF Len(s) <= 1 THEN Len(s) ELSE (Len(s) + 1) \div 2
         /\ Distinct(s) => Distinct(Up(s))
<1>1. Len(s) \in Nat BY DEF IsLevel
<1>2. CASE Len(s) <= 1 BY <1>1, <1>2 DEF Up
<1>3. CASE Len(s) >= 2
  <2> DEFINE p == Parents(s)
             m == Len(s)
             n == (m + 1) \div 2
  <2>1. Up(s) = p BY <1>1, <1>3 DEF Up
  <2>2. IsLevel(p) /\ Len(p) = n /\ \A i \in 1 .. n : p[i] = <<s[2 * i - 1], s[Right(m, i)]>>
    BY <1>3, ParentsAre
  <2>3. \A i \in 1 .. n : 2 * i - 1 \in 1 .. m
    BY <1>1, <1>3, Halves
  <2>4. ASSUME Distinct(s) PROVE Distinct(p)
    <3> SUFFICES ASSUME NEW i \in 1 .. n, NEW j \in 1 .. n, p[i] = p[j] PROVE i = j
      BY <2>2 DEF Distinct
    <3> HIDE DEF p
    <3>1. s[2 * i - 1] = s[2 * j - 1]
      <4> HIDE DEF n
      <4>1. <<s[2 * i - 1], s[Right(m, i)]>> = <<s[2 * j - 1], s[Right(m, j)]>> BY <2>2
      <4> QED BY <4>1
    <3>2. 2 * i - 1 \in 1 .. m /\ 2 * j - 1 \in 1 .. m BY <2>3
    <3>3. 2 * i - 1 = 2 * j - 1 BY <2>4, <3>1, <3>2 DEF Distinct
    <3>4. i \in Int /\ j \in Int OBVIOUS
    <3> QED
      <4> HIDE DEF n, m
      <4> QED BY <3>3, <3>4
  <2>5. ~(Len(s) <= 1) BY <1>1, <1>3
  <2>6. IsLevel(Up(s)) /\ Len(Up(s)) = (Len(s) + 1) \div 2 BY <2>1, <2>2
  <2>7. Distinct(s) => Distinct(Up(s)) BY <2>1, <2>4
  <2> QED BY <2>1, <2>5, <2>6, <2>7
<1> QED BY <1>1, <1>2, <1>3

\* What buildTreeLevels makes of the leaves of a tree.
IsTower(a) ==
  /\ Top \in Nat
  /\ \A l \in 0 .. Top : IsLevel(a[l]) /\ Distinct(a[l])
  /\ \A l \in 1 .. Top : a[l] = Up(a[l - 1])
  /\ Len(a[Top]) <= 1
  /\ \A i \in 1 .. Len(a[0]) : \E k, v : a[0][i] = <<k, v, "leaf">>

AnyTree == [Key -> Nat \cup {Absent}]

LEMMA KeysAre ==
  ASSUME NEW t \in AnyTree
  PROVE  /\ keysOf(t) \subseteq Key
         /\ Top \in Nat
         /\ Cardinality(keysOf(t)) \in 0 .. Top
         /\ DOMAIN sortedKeys(t) = 1 .. Cardinality(keysOf(t))
         /\ \A i \in 1 .. Cardinality(keysOf(t)) : sortedKeys(t)[i] \in keysOf(t)
         /\ \A i, j \in 1 .. Cardinality(keysOf(t)) : sortedKeys(t)[i] = sortedKeys(t)[j] => i = j
         /\ \A k \in keysOf(t) : \E i \in 1 .. Cardinality(keysOf(t)) : sortedKeys(t)[i] = k
<1> DEFINE K == keysOf(t)
           S == sortedKeys(t)
<1>1. K \subseteq Key BY DEF keysOf
<1>2. Key \subseteq Nat /\ IsFiniteSet(Key) BY KeyAssumption
<1>3. S = Sorted(K)
  BY DEF sortedKeys, Sorted, Rank
<1> HIDE DEF K, S
<1>4. K \in SUBSET Key BY <1>1
<1>5. IsFiniteSet(K) /\ Cardinality(K) <= Cardinality(Key) BY <1>2, <1>4, FS_Subset
<1>6. Top \in Nat BY <1>2, FS_CardinalityType DEF Top
<1>7. K \subseteq Nat BY <1>1, <1>2
<1>8. /\ Cardinality(K) \in Nat
      /\ \A i \in 1 .. Cardinality(K) : S[i] \in K
      /\ \A i, j \in 1 .. Cardinality(K) : S[i] = S[j] => i = j
      /\ \A k \in K : \E i \in 1 .. Cardinality(K) : S[i] = k
  <2>1. /\ Cardinality(K) \in Nat
        /\ \A i \in 1 .. Cardinality(K) : Sorted(K)[i] \in K
        /\ \A i, j \in 1 .. Cardinality(K) : Sorted(K)[i] = Sorted(K)[j] => i = j
        /\ \A k \in K : \E i \in 1 .. Cardinality(K) : Sorted(K)[i] = k
    BY <1>5, <1>7, SortedKeysAre, Zenon
  <2> QED BY <2>1, <1>3, Zenon
<1>9. DOMAIN S = 1 .. Cardinality(K) BY <1>3 DEF Sorted
<1>10. Cardinality(K) \in 0 .. Top BY <1>5, <1>6, <1>8 DEF Top
<1> QED BY <1>1, <1>6, <1>8, <1>9, <1>10 DEF K, S

LEMMA LeavesAre ==
  ASSUME NEW t \in AnyTree
  PROVE  /\ IsLevel(Leaves(t)) /\ Len(Leaves(t)) = Cardinality(keysOf(t))
         /\ \A i \in 1 .. Cardinality(keysOf(t)) :
              Leaves(t)[i] = <<sortedKeys(t)[i], t[sortedKeys(t)[i]], "leaf">>
         /\ Distinct(Leaves(t))
<1> DEFINE S == sortedKeys(t)
           n == Cardinality(keysOf(t))
           s == Leaves(t)
<1>1. /\ n \in Nat /\ DOMAIN S = 1 .. n /\ \A i \in 1 .. n : S[i] \in keysOf(t)
      /\ \A i, j \in 1 .. n : S[i] = S[j] => i = j
  BY KeysAre
<1>2. s = [i \in 1 .. n |-> leafHash(S[i], t[S[i]])]
  BY <1>1 DEF Leaves
<1>3. \A k \in keysOf(t) : t[k] # Absent BY DEF keysOf
<1> HIDE DEF S, n, s
<1>4. \A i \in 1 .. n : s[i] = <<S[i], t[S[i]], "leaf">>
  BY <1>1, <1>2, <1>3 DEF leafHash
<1>5. s = [i \in 1 .. n |-> s[i]] BY <1>2
<1>6. IsLevel(s) /\ Len(s) = n BY <1>1, <1>5, LevelOf
<1>7. Distinct(s)
  <2> SUFFICES ASSUME NEW i \in 1 .. n, NEW j \in 1 .. n, s[i] = s[j] PROVE i = j
    BY <1>6 DEF Distinct
  <2>1. <<S[i], t[S[i]], "leaf">> = <<S[j], t[S[j]], "leaf">> BY <1>4
  <2>2. S[i] = S[j] BY <2>1
  <2> QED BY <2>2, <1>1
<1> QED BY <1>4, <1>6, <1>7 DEF S, n, s

LEMMA TowerOf ==
  ASSUME NEW t \in AnyTree
  PROVE  IsTower(buildTreeLevels(t))
<1> DEFINE a == buildTreeLevels(t)
           n == Cardinality(keysOf(t))
           Good(l) == /\ IsLevel(a[l]) /\ Distinct(a[l])
                      /\ Len(a[l]) <= 1 \/ Len(a[l]) + l <= n
           T == {l \in 0 .. Top : ~Good(l)}
<1>1. Top \in Nat /\ n \in 0 .. Top BY KeysAre
<1>2. a[0] = Leaves(t) /\ \A i \in 1 .. Top : a[i] = Up(a[i - 1])
  BY <1>1, LevelsAre
<1>3. /\ IsLevel(a[0]) /\ Len(a[0]) = n /\ Distinct(a[0])
      /\ \A i \in 1 .. n : a[0][i] = <<sortedKeys(t)[i], t[sortedKeys(t)[i]], "leaf">>
  BY <1>2, LeavesAre
<1> HIDE DEF a, n
<1>4. T = {}
  <2> SUFFICES ASSUME T # {} PROVE FALSE
    OBVIOUS
  <2>1. PICK l \in T : \A m \in T : l <= m
    <3>1. T \subseteq Nat OBVIOUS
    <3> HIDE DEF T
    <3> QED BY <3>1, NatMin
  <2>2. l \in 0 .. Top /\ ~Good(l) BY <2>1
  <2>3. l # 0 BY <1>1, <1>3, <2>2
  <2>4. l - 1 \in 0 .. Top /\ ~(l <= l - 1) BY <1>1, <2>2, <2>3
  <2>5. Good(l - 1)
    <3>1. l - 1 \notin T
      <4> HIDE DEF T
      <4> QED BY <2>1, <2>4
    <3> HIDE DEF Good
    <3> QED BY <2>4, <3>1
  <2>6. a[l] = Up(a[l - 1]) BY <1>2, <2>2, <2>3
  <2>7. /\ IsLevel(a[l]) /\ Distinct(a[l])
        /\ Len(a[l]) = IF Len(a[l - 1]) <= 1 THEN Len(a[l - 1]) ELSE (Len(a[l - 1]) + 1) \div 2
    BY <2>5, <2>6, UpIs
  <2>8. \A q, r, m \in Nat :
          (q <= 1 \/ q + (m - 1) <= n) /\ r = (IF q <= 1 THEN q ELSE (q + 1) \div 2) => r <= 1 \/ r + m <= n
    BY <1>1
  <2>9. Len(a[l]) \in Nat /\ Len(a[l - 1]) \in Nat /\ l \in Nat
    <3>1. IsLevel(a[l]) /\ IsLevel(a[l - 1]) BY <2>5, <2>7
    <3>2. l \in Nat BY <2>2
    <3> QED BY <3>1, <3>2, LevelLength
  <2>10. Len(a[l]) <= 1 \/ Len(a[l]) + l <= n
    BY <2>5, <2>7, <2>8, <2>9
  <2> QED BY <2>2, <2>7, <2>10
<1>5. \A l \in 0 .. Top : Good(l) BY <1>4
<1>6. Len(a[Top]) <= 1
  <2>1. Top \in 0 .. Top BY <1>1
  <2>2. IsLevel(a[Top]) /\ (Len(a[Top]) <= 1 \/ Len(a[Top]) + Top <= n) BY <1>5, <2>1
  <2> QED BY <1>1, <2>2 DEF IsLevel
<1>7. IsTower(a)
  BY <1>1, <1>2, <1>3, <1>5, <1>6 DEF IsTower
<1> QED BY <1>7 DEF a

-----------------------------------------------------------------------------
(* Trees with the same root have the same leaves.                            *)

LEMMA Pairs ==
  /\ \A x, y, z, w : <<x, y>> = <<z, w>> => x = z /\ y = w
  /\ \A x, y, z, v, w : <<x, y>> # <<z, v, w>>
OBVIOUS

\* Above a level of one hash there is no level of more.
LEMMA TowerStep ==
  ASSUME NEW a, IsTower(a), NEW l \in 1 .. Top
  PROVE  /\ l - 1 \in 0 .. Top /\ l \in 0 .. Top
         /\ IsLevel(a[l]) /\ IsLevel(a[l - 1]) /\ Len(a[l]) \in Nat /\ Len(a[l - 1]) \in Nat
         /\ Distinct(a[l - 1])
         /\ Len(a[l]) = IF Len(a[l - 1]) <= 1 THEN Len(a[l - 1]) ELSE (Len(a[l - 1]) + 1) \div 2
         /\ Len(a[l]) >= 2 => Len(a[l - 1]) >= 2
         /\ Len(a[l - 1]) <= 1 => a[l] = a[l - 1]
         /\ Len(a[l - 1]) >= 2 =>
              /\ a[l] = Parents(a[l - 1])
              /\ a[l][1] = <<a[l - 1][1], a[l - 1][2]>>
<1>1. Top \in Nat BY DEF IsTower
<1>2. l - 1 \in 0 .. Top /\ l \in 0 .. Top BY <1>1
<1>3. IsLevel(a[l]) /\ IsLevel(a[l - 1]) /\ Distinct(a[l - 1]) BY <1>2 DEF IsTower
<1>4. a[l] = Up(a[l - 1]) BY DEF IsTower
<1>5. Len(a[l]) \in Nat /\ Len(a[l - 1]) \in Nat BY <1>3, LevelLength
<1>6. /\ Len(a[l - 1]) <= 1 => a[l] = a[l - 1]
      /\ Len(a[l - 1]) >= 2 => a[l] = Parents(a[l - 1])
      /\ Len(a[l]) = IF Len(a[l - 1]) <= 1 THEN Len(a[l - 1]) ELSE (Len(a[l - 1]) + 1) \div 2
  BY <1>3, <1>4, UpIs
<1>7. ASSUME Len(a[l - 1]) >= 2 PROVE a[l][1] = <<a[l - 1][1], a[l - 1][2]>>
  <2>1. \A j \in 1 .. (Len(a[l - 1]) + 1) \div 2 :
          Parents(a[l - 1])[j] = <<a[l - 1][2 * j - 1], a[l - 1][Right(Len(a[l - 1]), j)]>>
    BY <1>3, <1>7, ParentsAre
  <2>2. \A m \in Nat : m >= 2 => 1 \in 1 .. (m + 1) \div 2 /\ 2 * 1 - 1 = 1 /\ Right(m, 1) = 2
    BY DEF Right
  <2>3. /\ 1 \in 1 .. (Len(a[l - 1]) + 1) \div 2 /\ 2 * 1 - 1 = 1
        /\ Right(Len(a[l - 1]), 1) = 2
    BY <1>5, <1>7, <2>2
  <2>4. Parents(a[l - 1])[1] = <<a[l - 1][1], a[l - 1][2]>>
    <3>1. Parents(a[l - 1])[1] = <<a[l - 1][2 * 1 - 1], a[l - 1][Right(Len(a[l - 1]), 1)]>>
      BY <2>1, <2>3
    <3> QED BY <3>1, <2>3
  <2> QED BY <1>6, <1>7, <2>4
<1>8. Len(a[l]) >= 2 => Len(a[l - 1]) >= 2
  <2>1. \A q, r \in Nat : r = (IF q <= 1 THEN q ELSE (q + 1) \div 2) /\ r >= 2 => q >= 2
    OBVIOUS
  <2> QED BY <1>5, <1>6, <2>1
<1> QED BY <1>2, <1>3, <1>5, <1>6, <1>7, <1>8

\* First hashes of levels of different heights differ.
LEMMA Heights ==
  ASSUME NEW a, NEW b, IsTower(a), IsTower(b)
  PROVE  \A i \in 0 .. Top, d \in 1 .. Top :
           /\ i + d \in 0 .. Top
           /\ Len(a[i]) >= 2 /\ Len(b[i + d]) >= 2
           => a[i][1] # b[i + d][1]
<1> DEFINE Meet(i) == \E d \in 1 .. Top : /\ i + d \in 0 .. Top
                                         /\ Len(a[i]) >= 2 /\ Len(b[i + d]) >= 2
                                         /\ a[i][1] = b[i + d][1]
           T == {i \in 0 .. Top : Meet(i)}
<1>1. Top \in Nat BY DEF IsTower
<1> SUFFICES ASSUME T # {} PROVE FALSE
  OBVIOUS
<1>2. PICK i \in T : \A j \in T : i <= j
  <2>1. T \subseteq Nat BY <1>1
  <2> HIDE DEF T
  <2> QED BY <2>1, NatMin
<1>3. i \in 0 .. Top /\ Meet(i) BY <1>2
<1>4. PICK d \in 1 .. Top : /\ i + d \in 0 .. Top
                           /\ Len(a[i]) >= 2 /\ Len(b[i + d]) >= 2
                           /\ a[i][1] = b[i + d][1]
  BY <1>3
<1>5. \A j \in 0 .. Top : Meet(j) => i <= j
  <2> HIDE DEF Meet
  <2> QED BY <1>2
<1> HIDE DEF T
<1>6. i + d \in 1 .. Top /\ i \in Nat /\ d \in Nat BY <1>1, <1>3, <1>4
<1> DEFINE e == i + d
<1>7. /\ Len(b[e]) >= 2 /\ (Len(b[e]) >= 2 => Len(b[e - 1]) >= 2)
      /\ Len(b[e - 1]) >= 2 => b[e][1] = <<b[e - 1][1], b[e - 1][2]>>
  <2>1. e \in 1 .. Top BY <1>6
  <2>2. Len(b[e]) >= 2 BY <1>4
  <2> HIDE DEF e
  <2> QED BY <2>1, <2>2, TowerStep
<1>8. Len(b[e - 1]) >= 2 /\ b[e][1] = <<b[e - 1][1], b[e - 1][2]>>
  <2> HIDE DEF e
  <2>1. Len(b[e - 1]) >= 2 BY <1>7
  <2> QED BY <2>1, <1>7
<1>9. CASE i = 0
  <2>1. 1 \in 1 .. Len(a[0])
    <3>1. IsLevel(a[0]) BY <1>3, <1>9 DEF IsTower
    <3>2. Len(a[0]) \in Nat BY <3>1, LevelLength
    <3> QED BY <1>4, <1>9, <3>2
  <2>2. PICK k, v : a[0][1] = <<k, v, "leaf">> BY <2>1 DEF IsTower
  <2>3. a[0][1] = b[e][1] BY <1>4, <1>9
  <2> HIDE DEF e
  <2>4. <<b[e - 1][1], b[e - 1][2]>> = <<k, v, "leaf">> BY <1>8, <2>2, <2>3
  <2> QED BY <2>4
<1>10. CASE i # 0
  <2>1. i \in 1 .. Top /\ i - 1 \in 0 .. Top /\ i - 1 + d = e - 1 /\ e - 1 \in 0 .. Top /\ ~(i <= i - 1)
    BY <1>1, <1>3, <1>4, <1>6, <1>10
  <2>2. /\ Len(a[i]) >= 2 /\ (Len(a[i]) >= 2 => Len(a[i - 1]) >= 2)
        /\ Len(a[i - 1]) >= 2 => a[i][1] = <<a[i - 1][1], a[i - 1][2]>>
    BY <1>4, <2>1, TowerStep
  <2>3. Len(a[i - 1]) >= 2 BY <2>2
  <2>4. <<a[i - 1][1], a[i - 1][2]>> = <<b[e - 1][1], b[e - 1][2]>>
    <3>1. a[i][1] = b[e][1] BY <1>4
    <3> HIDE DEF e
    <3> QED BY <1>8, <2>2, <2>3, <3>1
  <2>5. a[i - 1][1] = b[e - 1][1]
    <3> HIDE DEF e
    <3> QED BY <2>4, Pairs
  <2>6. Meet(i - 1)
    <3> HIDE DEF e
    <3> QED BY <1>8, <2>1, <2>3, <2>5
  <2> HIDE DEF Meet
  <2> QED BY <1>5, <2>1, <2>6
<1> QED BY <1>9, <1>10

\* The root of a tower is its one leaf, or has two children at some level below.
LEMMA RootFrom ==
  ASSUME NEW a, IsTower(a)
  PROVE  \A l \in 0 .. Top :
           Len(a[l]) = 1 =>
             \/ \E k, v : a[l][1] = <<k, v, "leaf">>
             \/ \E i \in 0 .. l - 1 : Len(a[i]) >= 2 /\ a[l][1] = <<a[i][1], a[i][2]>>
<1> DEFINE Good(l) == Len(a[l]) = 1 =>
             \/ \E k, v : a[l][1] = <<k, v, "leaf">>
             \/ \E i \in 0 .. l - 1 : Len(a[i]) >= 2 /\ a[l][1] = <<a[i][1], a[i][2]>>
           T == {l \in 0 .. Top : ~Good(l)}
<1>1. Top \in Nat BY DEF IsTower
<1> SUFFICES ASSUME T # {} PROVE FALSE
  OBVIOUS
<1>2. PICK l \in T : \A j \in T : l <= j
  <2>1. T \subseteq Nat BY <1>1
  <2> HIDE DEF T
  <2> QED BY <2>1, NatMin
<1>3. l \in 0 .. Top /\ ~Good(l)
  <2> HIDE DEF Good
  <2> QED BY <1>2
<1>4. \A j \in 0 .. Top : ~Good(j) => l <= j
  <2> HIDE DEF Good
  <2> QED BY <1>2
<1> HIDE DEF T
<1>5. Len(a[l]) = 1 BY <1>3
<1>6. CASE l = 0
  <2>1. 1 \in 1 .. Len(a[0]) BY <1>5, <1>6
  <2>2. \E k, v : a[0][1] = <<k, v, "leaf">> BY <2>1 DEF IsTower
  <2> QED BY <1>3, <1>6, <2>2
<1>7. CASE l # 0
  <2>1. l \in 1 .. Top /\ l - 1 \in 0 .. Top /\ ~(l <= l - 1) BY <1>1, <1>3, <1>7
  <2>2. /\ Len(a[l - 1]) \in Nat
        /\ Len(a[l]) = IF Len(a[l - 1]) <= 1 THEN Len(a[l - 1]) ELSE (Len(a[l - 1]) + 1) \div 2
        /\ Len(a[l - 1]) <= 1 => a[l] = a[l - 1]
        /\ Len(a[l - 1]) >= 2 => a[l][1] = <<a[l - 1][1], a[l - 1][2]>>
    BY <2>1, TowerStep
  <2>3. CASE Len(a[l - 1]) >= 2
    <3>1. l - 1 \in 0 .. l - 1 BY <2>1
    <3> QED BY <1>3, <2>2, <2>3, <3>1
  <2>4. CASE Len(a[l - 1]) <= 1
    <3>1. a[l] = a[l - 1] BY <2>2, <2>4
    <3>2. Good(l - 1)
      <4> HIDE DEF Good
      <4> QED BY <1>4, <2>1
    <3>3. Good(l)
      <4>1. \A i \in 0 .. l - 1 - 1 : i \in 0 .. l - 1 BY <2>1
      <4> QED BY <3>1, <3>2, <4>1
    <3> QED BY <1>3, <3>3
  <2> QED BY <2>2, <2>3, <2>4
<1> QED BY <1>6, <1>7

LEMMA SingleNotPair ==
  ASSUME NEW a, NEW b, IsTower(a), IsTower(b), NEW l \in 1 .. Top,
         Len(a[l - 1]) <= 1, Len(b[l - 1]) >= 2
  PROVE  a[l] # b[l]
<1> SUFFICES ASSUME a[l] = b[l] PROVE FALSE
  OBVIOUS
<1>1. Top \in Nat /\ l - 1 \in 0 .. Top /\ l \in Nat BY DEF IsTower
<1>2. a[l] = a[l - 1] BY TowerStep
<1>3. /\ Len(b[l - 1]) \in Nat
      /\ Len(b[l]) = IF Len(b[l - 1]) <= 1 THEN Len(b[l - 1]) ELSE (Len(b[l - 1]) + 1) \div 2
      /\ b[l][1] = <<b[l - 1][1], b[l - 1][2]>>
  BY TowerStep
<1>4. Len(b[l]) >= 1
  <2>1. \A q, r \in Nat : r = (IF q <= 1 THEN q ELSE (q + 1) \div 2) /\ q >= 2 => r >= 1
    OBVIOUS
  <2>2. Len(b[l]) \in Nat BY TowerStep
  <2> QED BY <1>3, <2>1, <2>2
<1>5. Len(a[l - 1]) = 1
  <2>1. Len(a[l - 1]) \in Nat BY TowerStep
  <2>2. Len(a[l - 1]) = Len(b[l]) BY <1>2, Zenon
  <2>3. Len(a[l - 1]) <= 1 OBVIOUS
  <2>4. \A q \in Nat : q >= 1 /\ q <= 1 => q = 1 OBVIOUS
  <2>5. Len(a[l - 1]) >= 1 BY <1>4, <2>2, Zenon
  <2> QED BY <2>1, <2>3, <2>4, <2>5, Zenon
<1>6. a[l - 1][1] = <<b[l - 1][1], b[l - 1][2]>> BY <1>2, <1>3
<1>7. \/ \E k, v : a[l - 1][1] = <<k, v, "leaf">>
      \/ \E i \in 0 .. l - 1 - 1 : Len(a[i]) >= 2 /\ a[l - 1][1] = <<a[i][1], a[i][2]>>
  BY <1>1, <1>5, RootFrom
<1>8. CASE \E k, v : a[l - 1][1] = <<k, v, "leaf">>
  <2>1. PICK k, v : a[l - 1][1] = <<k, v, "leaf">> BY <1>8
  <2>2. <<b[l - 1][1], b[l - 1][2]>> = <<k, v, "leaf">> BY <1>6, <2>1
  <2> QED BY <2>2
<1>9. CASE \E i \in 0 .. l - 1 - 1 : Len(a[i]) >= 2 /\ a[l - 1][1] = <<a[i][1], a[i][2]>>
  <2>1. PICK i \in 0 .. l - 1 - 1 : Len(a[i]) >= 2 /\ a[l - 1][1] = <<a[i][1], a[i][2]>> BY <1>9
  <2>2. <<b[l - 1][1], b[l - 1][2]>> = <<a[i][1], a[i][2]>> BY <1>6, <2>1
  <2>3. a[i][1] = b[l - 1][1] BY <2>2, Pairs
  <2> DEFINE d == l - 1 - i
  <2>4. i \in 0 .. Top /\ d \in 1 .. Top /\ i + d = l - 1 BY <1>1, <2>1
  <2> HIDE DEF d
  <2>5. i + d \in 0 .. Top /\ Len(b[i + d]) >= 2 BY <1>1, <2>4
  <2>6. a[i][1] # b[i + d][1] BY <2>1, <2>4, <2>5, Heights
  <2> QED BY <2>3, <2>4, <2>6
<1> QED BY <1>7, <1>8, <1>9

LEMMA ParentsInjective ==
  ASSUME NEW s, NEW r, IsLevel(s), IsLevel(r), Distinct(s), Distinct(r),
         Len(s) >= 2, Len(r) >= 2, Parents(s) = Parents(r)
  PROVE  s = r
<1> DEFINE m == Len(s)
           n == (m + 1) \div 2
           p == Parents(s)
<1>1. Len(s) \in Nat /\ Len(r) \in Nat BY LevelLength
<1>2. /\ Len(p) = n /\ Len(p) = (Len(r) + 1) \div 2
      /\ \A i \in 1 .. n : p[i] = <<s[2 * i - 1], s[Right(m, i)]>>
      /\ \A i \in 1 .. (Len(r) + 1) \div 2 : p[i] = <<r[2 * i - 1], r[Right(Len(r), i)]>>
  BY ParentsAre
<1> HIDE DEF p
<1>3. n = (Len(r) + 1) \div 2 BY <1>2
<1>4. \A i \in 1 .. n : s[2 * i - 1] = r[2 * i - 1] /\ s[Right(m, i)] = r[Right(Len(r), i)]
  <2> SUFFICES ASSUME NEW i \in 1 .. n
               PROVE  s[2 * i - 1] = r[2 * i - 1] /\ s[Right(m, i)] = r[Right(Len(r), i)]
    OBVIOUS
  <2>1. <<s[2 * i - 1], s[Right(m, i)]>> = <<r[2 * i - 1], r[Right(Len(r), i)]>>
    <3> HIDE DEF n, m
    <3> QED BY <1>2, <1>3
  <2> QED BY <2>1, Pairs
<1>5. Len(s) = Len(r)
  <2>1. \A q, w \in Nat : q >= 2 /\ w >= 2 /\ (q + 1) \div 2 = (w + 1) \div 2 /\ q < w =>
          /\ Right(q, (q + 1) \div 2) = 2 * ((q + 1) \div 2) - 1
          /\ Right(w, (q + 1) \div 2) = 2 * ((q + 1) \div 2)
          /\ w = 2 * ((q + 1) \div 2)
          /\ (q + 1) \div 2 \in 1 .. (q + 1) \div 2
    BY DEF Right
  <2>2. CASE Len(s) < Len(r)
    <3>1. Right(m, n) = 2 * n - 1 /\ Right(Len(r), n) = 2 * n /\ Len(r) = 2 * n /\ n \in 1 .. n
      BY <1>1, <1>3, <2>1, <2>2
    <3>2. s[2 * n - 1] = r[2 * n - 1] /\ s[Right(m, n)] = r[Right(Len(r), n)]
      <4> HIDE DEF n, m
      <4> QED BY <1>4, <3>1
    <3> HIDE DEF n, m
    <3>3. r[2 * n - 1] = r[2 * n] BY <3>1, <3>2
    <3>4. 2 * n - 1 \in 1 .. Len(r) /\ 2 * n \in 1 .. Len(r) /\ 2 * n - 1 # 2 * n BY <3>1
    <3> QED BY <3>3, <3>4 DEF Distinct
  <2>3. CASE Len(r) < Len(s)
    <3>1. Right(Len(r), n) = 2 * n - 1 /\ Right(m, n) = 2 * n /\ m = 2 * n /\ n \in 1 .. n
      <4> DEFINE w == Len(r)
                 o == (w + 1) \div 2
      <4>1. Right(w, o) = 2 * o - 1 /\ Right(m, o) = 2 * o /\ m = 2 * o /\ o \in 1 .. o
        BY <1>1, <1>3, <2>1, <2>3
      <4>2. o = n BY <1>3
      <4> HIDE DEF o, n
      <4> QED BY <4>1, <4>2
    <3>2. s[2 * n - 1] = r[2 * n - 1] /\ s[Right(m, n)] = r[Right(Len(r), n)]
      <4> HIDE DEF n, m
      <4> QED BY <1>4, <3>1
    <3> HIDE DEF n
    <3>3. s[2 * n - 1] = s[2 * n] BY <3>1, <3>2
    <3>4. 2 * n - 1 \in 1 .. Len(s) /\ 2 * n \in 1 .. Len(s) /\ 2 * n - 1 # 2 * n BY <3>1
    <3> QED BY <3>3, <3>4 DEF Distinct
  <2> QED BY <1>1, <2>2, <2>3
<1>6. ASSUME NEW j \in 1 .. m PROVE s[j] = r[j]
  <2>1. (j + 1) \div 2 \in 1 .. n /\ (j = 2 * ((j + 1) \div 2) - 1 \/ j = Right(m, (j + 1) \div 2))
    BY <1>1, Halves
  <2> DEFINE i == (j + 1) \div 2
  <2>2. Len(r) = m BY <1>5
  <2> HIDE DEF i, n, m
  <2>3. i \in 1 .. n /\ (j = 2 * i - 1 \/ j = Right(m, i)) BY <2>1 DEF i
  <2> QED BY <1>4, <2>2, <2>3
<1> QED BY <1>5, <1>6, LevelEqual

LEMMA RootInjective ==
  ASSUME NEW a, NEW b, IsTower(a), IsTower(b), a[Top] = b[Top]
  PROVE  a[0] = b[0]
<1> DEFINE T == {d \in 0 .. Top : a[Top - d] # b[Top - d]}
<1>1. Top \in Nat BY DEF IsTower
<1>2. T = {}
  <2> SUFFICES ASSUME T # {} PROVE FALSE
    OBVIOUS
  <2>1. PICK d \in T : \A e \in T : d <= e
    <3>1. T \subseteq Nat BY <1>1
    <3> HIDE DEF T
    <3> QED BY <3>1, NatMin
  <2>2. d \in 0 .. Top /\ a[Top - d] # b[Top - d] BY <2>1
  <2>3. \A e \in 0 .. Top : a[Top - e] # b[Top - e] => d <= e BY <2>1
  <2> HIDE DEF T
  <2>4. d # 0
    <3>1. Top - 0 = Top BY <1>1
    <3> QED BY <2>2, <3>1
  <2> DEFINE l == Top - d + 1
  <2>5. l \in 1 .. Top /\ Top - (d - 1) = l /\ l - 1 = Top - d /\ d - 1 \in 0 .. Top /\ ~(d <= d - 1)
    BY <1>1, <2>2, <2>4
  <2> HIDE DEF l
  <2>6. a[l] = b[l]
    <3>1. a[Top - (d - 1)] = b[Top - (d - 1)] BY <2>3, <2>5
    <3> QED BY <2>5, <3>1
  <2>7. a[l - 1] # b[l - 1] BY <2>2, <2>5
  <2>8. /\ Len(a[l - 1]) \in Nat /\ IsLevel(a[l - 1]) /\ Distinct(a[l - 1])
        /\ Len(a[l - 1]) <= 1 => a[l] = a[l - 1]
        /\ Len(a[l - 1]) >= 2 => a[l] = Parents(a[l - 1])
    BY <2>5, TowerStep
  <2>9. /\ Len(b[l - 1]) \in Nat /\ IsLevel(b[l - 1]) /\ Distinct(b[l - 1])
        /\ Len(b[l - 1]) <= 1 => b[l] = b[l - 1]
        /\ Len(b[l - 1]) >= 2 => b[l] = Parents(b[l - 1])
    BY <2>5, TowerStep
  <2>10. CASE Len(a[l - 1]) <= 1 /\ Len(b[l - 1]) <= 1
    BY <2>6, <2>7, <2>8, <2>9, <2>10
  <2>11. CASE Len(a[l - 1]) <= 1 /\ Len(b[l - 1]) >= 2
    BY <2>5, <2>6, <2>11, SingleNotPair
  <2>12. CASE Len(b[l - 1]) <= 1 /\ Len(a[l - 1]) >= 2
    <3>1. b[l] # a[l] BY <2>5, <2>12, SingleNotPair
    <3> QED BY <2>6, <3>1
  <2>13. CASE Len(a[l - 1]) >= 2 /\ Len(b[l - 1]) >= 2
    <3>1. Parents(a[l - 1]) = Parents(b[l - 1]) BY <2>6, <2>8, <2>9, <2>13
    <3> QED BY <2>7, <2>8, <2>9, <2>13, <3>1, ParentsInjective
  <2>14. \A m, n \in Nat : \/ m <= 1 /\ n <= 1
                           \/ m <= 1 /\ n >= 2
                           \/ n <= 1 /\ m >= 2
                           \/ m >= 2 /\ n >= 2
    OBVIOUS
  <2> QED BY <2>8, <2>9, <2>10, <2>11, <2>12, <2>13, <2>14
<1>3. Top \in 0 .. Top /\ Top - Top = 0 BY <1>1
<1>4. \A d \in 0 .. Top : a[Top - d] = b[Top - d] BY <1>2
<1>5. a[Top - Top] = b[Top - Top] BY <1>3, <1>4
<1> QED BY <1>3, <1>5

-----------------------------------------------------------------------------
(* The descent arrives at the leaves that differ.                            *)

LEMMA UpDiffers ==
  ASSUME NEW a, NEW b, IsTower(a), IsTower(b), NEW l \in 1 .. Top,
         Len(a[l - 1]) = Len(b[l - 1]),
         NEW j \in 1 .. Len(a[l - 1]), a[l - 1][j] # b[l - 1][j]
  PROVE  /\ (j + 1) \div 2 \in 1 .. Len(a[l])
         /\ a[l][(j + 1) \div 2] # b[l][(j + 1) \div 2]
<1> DEFINE s == a[l - 1]
           r == b[l - 1]
           m == Len(s)
           i == (j + 1) \div 2
<1>1. /\ m \in Nat /\ IsLevel(s) /\ IsLevel(r)
      /\ Len(a[l]) = IF m <= 1 THEN m ELSE (m + 1) \div 2
      /\ m <= 1 => a[l] = s
      /\ m >= 2 => a[l] = Parents(s)
  BY TowerStep
<1>2. /\ Len(r) <= 1 => b[l] = r
      /\ Len(r) >= 2 => b[l] = Parents(r)
  BY TowerStep
<1>3. Len(r) = m /\ s[j] # r[j] /\ j \in 1 .. m OBVIOUS
<1> HIDE DEF s, r
<1>4. CASE m <= 1
  <2>1. j = 1 /\ m = 1
    <3> HIDE DEF m
    <3> QED BY <1>1, <1>3, <1>4
  <2>2. i = 1 BY <2>1
  <2>3. a[l] = s /\ b[l] = r BY <1>1, <1>2, <1>3, <1>4
  <2>4. a[l][1] # b[l][1] BY <1>3, <2>1, <2>3
  <2>5. Len(a[l]) = 1 BY <2>1, <2>3
  <2> HIDE DEF i
  <2>6. i \in 1 .. Len(a[l]) BY <2>2, <2>5
  <2>7. a[l][i] # b[l][i] BY <2>2, <2>4
  <2> QED BY <2>6, <2>7 DEF i
<1>5. CASE m >= 2
  <2>1. a[l] = Parents(s) /\ b[l] = Parents(r) BY <1>1, <1>2, <1>3, <1>5
  <2>2. \A k \in 1 .. (m + 1) \div 2 : Parents(s)[k] = <<s[2 * k - 1], s[Right(m, k)]>>
    BY <1>1, <1>5, ParentsAre
  <2>3. \A k \in 1 .. (m + 1) \div 2 : Parents(r)[k] = <<r[2 * k - 1], r[Right(m, k)]>>
    <3>1. Len(r) >= 2 BY <1>3, <1>5
    <3>2. \A k \in 1 .. (Len(r) + 1) \div 2 : Parents(r)[k] = <<r[2 * k - 1], r[Right(Len(r), k)]>>
      BY <1>1, <3>1, ParentsAre
    <3> QED BY <1>3, <3>2
  <2>4. i \in 1 .. (m + 1) \div 2 /\ (j = 2 * i - 1 \/ j = Right(m, i))
    <3> HIDE DEF m
    <3> QED BY <1>1, <1>3, <1>5, Halves
  <2> HIDE DEF i, m
  <2>5. Parents(s)[i] # Parents(r)[i]
    <3> SUFFICES ASSUME Parents(s)[i] = Parents(r)[i] PROVE FALSE
      OBVIOUS
    <3>1. <<s[2 * i - 1], s[Right(m, i)]>> = <<r[2 * i - 1], r[Right(m, i)]>> BY <2>2, <2>3, <2>4
    <3>2. s[2 * i - 1] = r[2 * i - 1] /\ s[Right(m, i)] = r[Right(m, i)] BY <3>1, Pairs
    <3> QED BY <1>3, <2>4, <3>2
  <2>6. Len(a[l]) = (m + 1) \div 2 BY <1>1, <1>5
  <2>7. i \in 1 .. Len(a[l]) BY <2>4, <2>6
  <2>8. a[l][i] # b[l][i] BY <2>1, <2>5
  <2> QED BY <2>7, <2>8 DEF i
<1>6. m <= 1 \/ m >= 2
  <2> HIDE DEF m
  <2> QED BY <1>1
<1> QED BY <1>4, <1>5, <1>6

LEMMA SameLengths ==
  ASSUME NEW a, NEW b, IsTower(a), IsTower(b), Len(a[0]) = Len(b[0])
  PROVE  \A l \in 0 .. Top : Len(a[l]) = Len(b[l])
<1> DEFINE T == {l \in 0 .. Top : Len(a[l]) # Len(b[l])}
<1>1. Top \in Nat BY DEF IsTower
<1> SUFFICES ASSUME T # {} PROVE FALSE
  OBVIOUS
<1>2. PICK l \in T : \A m \in T : l <= m
  <2>1. T \subseteq Nat BY <1>1
  <2> HIDE DEF T
  <2> QED BY <2>1, NatMin
<1>3. l \in 0 .. Top /\ Len(a[l]) # Len(b[l]) BY <1>2
<1>4. l # 0 BY <1>3
<1>5. l \in 1 .. Top /\ l - 1 \in 0 .. Top /\ ~(l <= l - 1) BY <1>1, <1>3, <1>4
<1>6. Len(a[l - 1]) = Len(b[l - 1]) BY <1>2, <1>5
<1>7. Len(a[l]) = IF Len(a[l - 1]) <= 1 THEN Len(a[l - 1]) ELSE (Len(a[l - 1]) + 1) \div 2
  BY <1>5, TowerStep
<1>8. Len(b[l]) = IF Len(b[l - 1]) <= 1 THEN Len(b[l - 1]) ELSE (Len(b[l - 1]) + 1) \div 2
  BY <1>5, TowerStep
<1> QED BY <1>3, <1>6, <1>7, <1>8, Zenon

LEMMA DescentIs ==
  ASSUME NEW a, NEW b, IsTower(a), IsTower(b), Len(a[0]) = Len(b[0])
  PROVE  descendDiff(a, b) = {j \in 1 .. Len(a[0]) : a[0][j] # b[0][j]}
<1> DEFINE X(l) == {j \in 1 .. Len(a[l]) : a[l][j] # b[l][j]}
           N(g) == [l \in 0 .. Top |->
                     {j \in 1 .. Len(a[l]) : a[l][j] # b[l][j] /\ (l < Top => (j + 1) \div 2 \in g[l + 1])}]
           D == [l \in 0 .. Top |-> X(l)]
<1>1. Top \in Nat BY DEF IsTower
<1>2. \A l \in 0 .. Top : Len(a[l]) = Len(b[l]) BY SameLengths
<1>3. ASSUME NEW l \in 0 .. Top, l < Top, NEW j \in X(l)
      PROVE  (j + 1) \div 2 \in X(l + 1)
  <2> DEFINE k == l + 1
  <2>1. k \in 1 .. Top /\ k - 1 = l BY <1>1, <1>3
  <2>2. j \in 1 .. Len(a[l]) /\ a[l][j] # b[l][j] /\ Len(a[l]) = Len(b[l]) BY <1>2, <1>3
  <2> HIDE DEF k
  <2>3. /\ (j + 1) \div 2 \in 1 .. Len(a[k])
        /\ a[k][(j + 1) \div 2] # b[k][(j + 1) \div 2]
    BY <2>1, <2>2, UpDiffers
  <2>4. (j + 1) \div 2 \in X(k) BY <2>3
  <2> QED BY <2>4 DEF k
<1>4. ASSUME NEW l \in 0 .. Top, NEW S, l < Top => S = X(l + 1)
      PROVE  {j \in 1 .. Len(a[l]) : a[l][j] # b[l][j] /\ (l < Top => (j + 1) \div 2 \in S)} = X(l)
  <2> DEFINE Y == {j \in 1 .. Len(a[l]) : a[l][j] # b[l][j] /\ (l < Top => (j + 1) \div 2 \in S)}
  <2>1. \A j : j \in Y => j \in X(l) BY Zenon
  <2>2. ASSUME NEW j \in X(l) PROVE j \in Y
    <3>1. l < Top => (j + 1) \div 2 \in S
      <4> HIDE DEF X
      <4> QED BY <1>3, <1>4
    <3>2. j \in 1 .. Len(a[l]) /\ a[l][j] # b[l][j] BY Zenon
    <3> QED BY <3>1, <3>2, Zenon
  <2> HIDE DEF Y, X
  <2>3. Y = X(l) BY <2>1, <2>2
  <2> QED BY <2>3 DEF Y
<1>5. D = N(D)
  <2> SUFFICES ASSUME NEW l \in 0 .. Top PROVE D[l] = N(D)[l]
    <3> HIDE DEF X
    <3> QED OBVIOUS
  <2>1. D[l] = X(l) OBVIOUS
  <2>2. l < Top => D[l + 1] = X(l + 1) BY <1>1
  <2>3. N(D)[l] = {j \in 1 .. Len(a[l]) : a[l][j] # b[l][j] /\ (l < Top => (j + 1) \div 2 \in D[l + 1])}
    <3> HIDE DEF D
    <3> QED OBVIOUS
  <2> HIDE DEF D, N
  <2>4. N(D)[l] = X(l)
    <3> HIDE DEF X
    <3>1. {j \in 1 .. Len(a[l]) : a[l][j] # b[l][j] /\ (l < Top => (j + 1) \div 2 \in D[l + 1])} = X(l)
      BY <1>4, <2>2
    <3> QED BY <2>3, <3>1
  <2> QED BY <2>1, <2>4
<1>6. ASSUME NEW f, f = N(f) PROVE f[0] = X(0)
  <2> DEFINE T == {d \in 0 .. Top : f[Top - d] # X(Top - d)}
  <2>1. T = {}
    <3> SUFFICES ASSUME T # {} PROVE FALSE
      OBVIOUS
    <3>1. PICK d \in T : \A e \in T : d <= e
      <4>1. T \subseteq Nat BY <1>1
      <4> HIDE DEF T
      <4> QED BY <4>1, NatMin
    <3> HIDE DEF X
    <3>2. d \in 0 .. Top /\ f[Top - d] # X(Top - d) BY <3>1
    <3>3. \A e \in 0 .. Top : f[Top - e] # X(Top - e) => d <= e BY <3>1
    <3> HIDE DEF T
    <3> DEFINE l == Top - d
    <3>4. l \in 0 .. Top /\ (l < Top => Top - (d - 1) = l + 1 /\ d - 1 \in 0 .. Top) /\ ~(d <= d - 1)
      BY <1>1, <3>2
    <3>5. f[l] # X(l) BY <3>2
    <3> HIDE DEF l
    <3>6. l < Top => f[l + 1] = X(l + 1)
      <4>1. ASSUME l < Top PROVE f[Top - (d - 1)] = X(Top - (d - 1)) BY <3>3, <3>4, <4>1
      <4> QED BY <3>4, <4>1
    <3>7. f[l] = {j \in 1 .. Len(a[l]) : a[l][j] # b[l][j] /\ (l < Top => (j + 1) \div 2 \in f[l + 1])}
      <4>1. f[l] = N(f)[l]
        <5> HIDE DEF N
        <5> QED BY <1>6
      <4> QED BY <3>4, <4>1
    <3>8. {j \in 1 .. Len(a[l]) : a[l][j] # b[l][j] /\ (l < Top => (j + 1) \div 2 \in f[l + 1])} = X(l)
      BY <1>4, <3>4, <3>6
    <3> QED BY <3>5, <3>7, <3>8
  <2> HIDE DEF X
  <2>2. Top \in 0 .. Top /\ Top - Top = 0 BY <1>1
  <2>3. f[Top - Top] = X(Top - Top) BY <2>1, <2>2
  <2> QED BY <2>2, <2>3
<1>7. descendDiff(a, b) = (CHOOSE f : f = N(f))[0]
  BY DEF descendDiff
<1> HIDE DEF N, D
<1> DEFINE c == CHOOSE f : f = N(f)
<1>8. c = N(c) BY <1>5, Zenon
<1>9. descendDiff(a, b) = c[0] BY <1>7
<1> HIDE DEF c
<1>10. c[0] = X(0)
  <2> HIDE DEF X
  <2> QED BY <1>6, <1>8
<1> QED BY <1>9, <1>10

-----------------------------------------------------------------------------
(* Diff                                                                      *)

\* Trees with the same leaves are the same tree.
LEMMA LeavesInjective ==
  ASSUME NEW t \in AnyTree, NEW u \in AnyTree, Leaves(t) = Leaves(u)
  PROVE  t = u
<1> DEFINE n == Cardinality(keysOf(t))
<1>1. /\ keysOf(t) \subseteq Key
      /\ \A i \in 1 .. n : sortedKeys(t)[i] \in keysOf(t)
      /\ \A k \in keysOf(t) : \E i \in 1 .. n : sortedKeys(t)[i] = k
  BY KeysAre
<1>2. /\ keysOf(u) \subseteq Key
      /\ \A i \in 1 .. Cardinality(keysOf(u)) : sortedKeys(u)[i] \in keysOf(u)
      /\ \A k \in keysOf(u) : \E i \in 1 .. Cardinality(keysOf(u)) : sortedKeys(u)[i] = k
  BY KeysAre
<1>3. /\ Len(Leaves(t)) = n
      /\ \A i \in 1 .. n : Leaves(t)[i] = <<sortedKeys(t)[i], t[sortedKeys(t)[i]], "leaf">>
  BY LeavesAre
<1>4. /\ Len(Leaves(u)) = Cardinality(keysOf(u))
      /\ \A i \in 1 .. Cardinality(keysOf(u)) :
           Leaves(u)[i] = <<sortedKeys(u)[i], u[sortedKeys(u)[i]], "leaf">>
  BY LeavesAre
<1>5. Cardinality(keysOf(u)) = n BY <1>3, <1>4
<1> HIDE DEF n
<1>6. ASSUME NEW i \in 1 .. n
      PROVE  sortedKeys(t)[i] = sortedKeys(u)[i] /\ t[sortedKeys(t)[i]] = u[sortedKeys(t)[i]]
  <2>1. <<sortedKeys(t)[i], t[sortedKeys(t)[i]], "leaf">> = <<sortedKeys(u)[i], u[sortedKeys(u)[i]], "leaf">>
    BY <1>3, <1>4, <1>5
  <2>2. \A x, y, z, w : <<x, y, "leaf">> = <<z, w, "leaf">> => x = z /\ y = w OBVIOUS
  <2>3. sortedKeys(t)[i] = sortedKeys(u)[i] /\ t[sortedKeys(t)[i]] = u[sortedKeys(u)[i]]
    BY <2>1, <2>2, Zenon
  <2> QED BY <2>3, Zenon
<1>7. \A k \in keysOf(t) : k \in keysOf(u) /\ t[k] = u[k]
  <2> SUFFICES ASSUME NEW k \in keysOf(t) PROVE k \in keysOf(u) /\ t[k] = u[k]
    OBVIOUS
  <2>1. PICK i \in 1 .. n : sortedKeys(t)[i] = k BY <1>1
  <2>2. sortedKeys(u)[i] \in keysOf(u) BY <1>2, <1>5
  <2> QED BY <1>6, <2>1, <2>2
<1>8. \A k \in keysOf(u) : k \in keysOf(t)
  <2> SUFFICES ASSUME NEW k \in keysOf(u) PROVE k \in keysOf(t)
    OBVIOUS
  <2>1. PICK i \in 1 .. n : sortedKeys(u)[i] = k BY <1>2, <1>5
  <2>2. sortedKeys(t)[i] \in keysOf(t) BY <1>1
  <2> QED BY <1>6, <2>1, <2>2
<1>9. \A k \in Key : t[k] = u[k]
  BY <1>7, <1>8 DEF keysOf
<1> QED BY <1>9 DEF AnyTree

\* The roots agree only when the trees do.
LEMMA RootsAgree ==
  ASSUME NEW t \in AnyTree, NEW u \in AnyTree, Root(t) = Root(u)
  PROVE  t = u
<1> DEFINE a == buildTreeLevels(t)
           b == buildTreeLevels(u)
<1>1. IsTower(a) /\ IsTower(b) BY TowerOf
<1>2. a[Top] = b[Top] BY DEF Root
<1>3. Top \in Nat BY KeysAre
<1>4. a[0] = Leaves(t) /\ b[0] = Leaves(u) BY <1>3, LevelsAre
<1> HIDE DEF a, b
<1>5. a[0] = b[0] BY <1>1, <1>2, RootInjective
<1> QED BY <1>4, <1>5, LeavesInjective

\* The descent reports the keys under which two trees of the same keys differ.
LEMMA DescentFinds ==
  ASSUME NEW t \in AnyTree, NEW u \in AnyTree, keysOf(t) = keysOf(u)
  PROVE  {sortedKeys(t)[i] : i \in descendDiff(buildTreeLevels(t), buildTreeLevels(u))}
           = {k \in keysOf(t) : t[k] # u[k]}
<1> DEFINE a == buildTreeLevels(t)
           b == buildTreeLevels(u)
           n == Cardinality(keysOf(t))
           S == sortedKeys(t)
<1>1. IsTower(a) /\ IsTower(b) BY TowerOf
<1>2. Top \in Nat BY KeysAre
<1>3. a[0] = Leaves(t) /\ b[0] = Leaves(u) BY <1>2, LevelsAre
<1>4. sortedKeys(u) = S BY DEF sortedKeys
<1>5. /\ \A i \in 1 .. n : S[i] \in keysOf(t)
      /\ \A k \in keysOf(t) : \E i \in 1 .. n : S[i] = k
  BY KeysAre
<1>6. /\ Len(Leaves(t)) = n
      /\ \A i \in 1 .. n : Leaves(t)[i] = <<S[i], t[S[i]], "leaf">>
  BY LeavesAre
<1>7. /\ Len(Leaves(u)) = n
      /\ \A i \in 1 .. n : Leaves(u)[i] = <<S[i], u[S[i]], "leaf">>
  BY <1>4, LeavesAre
<1> HIDE DEF a, b, n, S
<1>8. Len(a[0]) = n /\ Len(b[0]) = n BY <1>3, <1>6, <1>7
<1>9. descendDiff(a, b) = {j \in 1 .. n : a[0][j] # b[0][j]} BY <1>1, <1>8, DescentIs
<1>10. ASSUME NEW j \in 1 .. n PROVE (a[0][j] # b[0][j]) <=> (t[S[j]] # u[S[j]])
  <2>1. a[0][j] = <<S[j], t[S[j]], "leaf">> /\ b[0][j] = <<S[j], u[S[j]], "leaf">>
    BY <1>3, <1>6, <1>7
  <2>2. \A x, y, z : <<x, y, "leaf">> = <<x, z, "leaf">> => y = z OBVIOUS
  <2> QED BY <2>1, <2>2, Zenon
<1>11. descendDiff(a, b) = {j \in 1 .. n : t[S[j]] # u[S[j]]} BY <1>9, <1>10
<1>12. {S[i] : i \in descendDiff(a, b)} = {k \in keysOf(t) : t[k] # u[k]} BY <1>5, <1>11
<1> QED BY <1>12 DEF a, b, S

(***************************************************************************)
(* Diff reports exactly the keys in which two trees differ, but for a key  *)
(* that is there with an empty value and not there.                        *)
(***************************************************************************)
THEOREM DiffFinds ==
  ASSUME NEW t \in AnyTree, NEW u \in AnyTree
  PROVE  Diff(t, u) = {k \in Key : t[k] # u[k] /\ {t[k], u[k]} # {Absent, Empty}}
<1> DEFINE W == {k \in Key : t[k] # u[k] /\ {t[k], u[k]} # {Absent, Empty}}
<1>0. keysOf(t) \subseteq Key /\ keysOf(u) \subseteq Key BY KeysAre
<1>1. CASE Root(t) = Root(u)
  <2>1. t = u BY <1>1, RootsAgree
  <2>2. Diff(t, u) = {} BY <1>1 DEF Diff
  <2> QED BY <2>1, <2>2
<1>2. CASE Root(t) # Root(u) /\ keysOf(t) = keysOf(u)
  <2>1. Diff(t, u) = {sortedKeys(t)[i] : i \in descendDiff(buildTreeLevels(t), buildTreeLevels(u))}
    BY <1>2 DEF Diff
  <2>2. Diff(t, u) = {k \in keysOf(t) : t[k] # u[k]} BY <1>2, <2>1, DescentFinds
  <2>3. ASSUME NEW k \in Key
        PROVE  (k \in keysOf(t) /\ t[k] # u[k]) <=> (t[k] # u[k] /\ {t[k], u[k]} # {Absent, Empty})
    <3>1. k \in keysOf(t) <=> t[k] # Absent BY DEF keysOf
    <3>2. k \in keysOf(t) <=> u[k] # Absent BY <1>2 DEF keysOf
    <3>3. t[k] # Absent /\ u[k] # Absent => {t[k], u[k]} # {Absent, Empty} OBVIOUS
    <3> QED BY <3>1, <3>2, <3>3
  <2> QED BY <1>0, <2>2, <2>3
<1>3. CASE Root(t) # Root(u) /\ keysOf(t) # keysOf(u)
  <2>1. Diff(t, u) = {k \in keysOf(t) \cup keysOf(u) : leafHash(k, t[k]) # leafHash(k, u[k])}
    BY <1>3 DEF Diff
  <2>2. ASSUME NEW k \in Key
        PROVE  (k \in keysOf(t) \cup keysOf(u) /\ leafHash(k, t[k]) # leafHash(k, u[k]))
                 <=> (t[k] # u[k] /\ {t[k], u[k]} # {Absent, Empty})
    <3> DEFINE v == t[k]
               w == u[k]
               full(x) == IF x = Absent THEN Empty ELSE x
    <3>1. k \in keysOf(t) \cup keysOf(u) <=> v # Absent \/ w # Absent BY DEF keysOf
    <3>2. leafHash(k, v) = <<k, full(v), "leaf">> /\ leafHash(k, w) = <<k, full(w), "leaf">>
      BY DEF leafHash
    <3> HIDE DEF v, w
    <3>3. leafHash(k, v) # leafHash(k, w) <=> full(v) # full(w)
      <4> HIDE DEF full
      <4>1. \A x, y : <<k, x, "leaf">> = <<k, y, "leaf">> => x = y OBVIOUS
      <4> QED BY <3>2, <4>1, Zenon
    <3>4. (v # Absent \/ w # Absent) /\ full(v) # full(w) <=> v # w /\ {v, w} # {Absent, Empty}
      BY DEF Absent, Empty
    <3> QED BY <3>1, <3>3, <3>4 DEF v, w
  <2> QED BY <1>0, <2>1, <2>2
<1> QED BY <1>1, <1>2, <1>3

-----------------------------------------------------------------------------
(* The inductive invariant.                                                  *)

\* Where a gossip goroutine can be.
Place == [pc : {"idle", "fetch", "compare", "key", "push", "pull"},
          peers : SUBSET Node, peer : Node \cup {NoNode}, snap : [Key -> Entry],
          tree : Tree, todo : SUBSET Key, key : Key \cup {0}, entry : Entry]

Types ==
  /\ alive \in SUBSET Node
  /\ store \in [Node -> [Key -> Entry]]
  /\ ae \in [Node -> Place]
  /\ floor \in [Node -> [Key -> Entry]]
  /\ gone \in SUBSET Key
  /\ deleting \in [key : Key \cup {0}, left : SUBSET Node, clean : BOOLEAN]
  /\ deleting.left \subseteq alive
  /\ deleting.left # {} => deleting.key \in Key

\* What is kept of an exchange at each of its points.
Sane(n, s) ==
  /\ n \notin s.peers /\ n # s.peer
  /\ s.pc \in {"idle", "fetch", "compare"} => s.todo = {}
  /\ s.pc \in {"idle", "fetch"} => s.snap = [k \in Key |-> None]
  /\ s.pc \in {"key", "push", "pull"} => \A k \in Key : k \notin s.todo => s.snap[k] = None
  /\ s.pc # "idle" => s.peer \in Node
  /\ s.pc \in {"push", "pull"} => s.key \in Key

\* An exchange holds nothing older than what it may overwrite must be.
Weighs(n, s) ==
  /\ s.pc = "compare" => \A k \in Key : s.snap[k] >= floor[s.peer][k]
  /\ s.pc \in {"key", "push", "pull"} => \A k \in s.todo : s.snap[k] >= floor[s.peer][k]
  /\ s.pc = "push" => s.entry >= floor[s.peer][s.key]
  /\ s.pc = "pull" => s.entry >= floor[n][s.key]

\* An exchange knows nothing of a key that is gone.
Forgets(n, s) ==
  s.pc # "idle" => \A k \in gone :
    /\ store[n][k] = None /\ s.snap[k] = None
    /\ s.pc \in {"push", "pull"} => s.key # k

Sanity == \A n \in Node : Sane(n, ae[n])
Weighed == \A n \in Node : Weighs(n, ae[n])
Forgotten == \A n \in Node : Forgets(n, ae[n])

\* A deletion that began while no round was under way.
CleanDelete ==
  deleting.clean /\ deleting.left # {} =>
    /\ Quiet
    /\ \A n \in alive \ deleting.left : store[n][deleting.key] = None

IInv ==
  /\ Types /\ Sanity
  /\ NoRegress /\ Weighed
  /\ GoneStaysGone /\ Forgotten /\ CleanDelete

-----------------------------------------------------------------------------
(* Entries, trees and places.                                                *)

LEMMA Entries ==
  /\ MaxWrites \in Nat /\ None \in Entry /\ Entry \subseteq Nat
  /\ \A w \in Write : w \in Entry /\ keyOf[w] \in Key /\ w # None
  /\ \A e \in Entry : value(e) \in {Absent} \cup {valueOf[w] : w \in Write}
<1>1. MaxWrites \in Nat /\ keyOf \in [Write -> Key] BY GossipAssumption
<1>2. \A e \in Entry : e # None => e \in Write BY <1>1 DEF Entry, Write, None
<1> QED BY <1>1, <1>2 DEF Entry, None, Write, value

LEMMA Trees ==
  /\ \A s \in [Key -> Entry] : treeOf(s) \in Tree
  /\ \A t \in Tree, k \in Key, e \in Entry : [t EXCEPT ![k] = value(e)] \in Tree
  /\ [k \in Key |-> Absent] \in Tree
  /\ Tree \subseteq AnyTree
<1>1. \A e \in Entry : value(e) \in {Absent} \cup {valueOf[w] : w \in Write} BY Entries
<1>2. valueOf \in [Write -> Nat] BY GossipAssumption
<1>3. ASSUME NEW s \in [Key -> Entry] PROVE treeOf(s) \in Tree
  <2>1. \A k \in Key : value(s[k]) \in {Absent} \cup {valueOf[w] : w \in Write} BY <1>1
  <2> QED BY <2>1 DEF treeOf, Tree
<1>4. ASSUME NEW t \in Tree, NEW k \in Key, NEW e \in Entry
      PROVE  [t EXCEPT ![k] = value(e)] \in Tree
  BY <1>1 DEF Tree
<1>5. [k \in Key |-> Absent] \in Tree BY DEF Tree
<1>6. {Absent} \cup {valueOf[w] : w \in Write} \subseteq Nat \cup {Absent} BY <1>2
<1>7. Tree \subseteq AnyTree BY <1>6 DEF Tree, AnyTree
<1> QED BY <1>3, <1>4, <1>5, <1>7

\* DiffOf is Diff.
LEMMA DiffOfIs == \A t, u \in Tree : DiffOf[t, u] = Diff(t, u)
<1> SUFFICES ASSUME NEW t \in Tree, NEW u \in Tree PROVE DiffOf[t, u] = Diff(t, u)
  OBVIOUS
<1> DEFINE f == [p \in Tree \X Tree |-> Diff(p[1], p[2])]
<1>1. <<t, u>> \in Tree \X Tree OBVIOUS
<1>2. f[<<t, u>>] = Diff(t, u) BY <1>1
<1>4. DiffOf = CHOOSE d \in {f} : d = d BY DEF DiffOf
<1> HIDE DEF f
<1>5. DiffOf = f BY <1>4
<1> QED BY <1>2, <1>5

\* The same but for the tree.
AllButTree(r, s) ==
  /\ r.pc = s.pc /\ r.peers = s.peers /\ r.peer = s.peer /\ r.snap = s.snap
  /\ r.todo = s.todo /\ r.key = s.key /\ r.entry = s.entry

LEMMA PlaceFields ==
  ASSUME NEW s \in Place
  PROVE  /\ s.pc \in {"idle", "fetch", "compare", "key", "push", "pull"}
         /\ s.peers \in SUBSET Node /\ s.peer \in Node \cup {NoNode} /\ s.snap \in [Key -> Entry]
         /\ s.tree \in Tree /\ s.todo \in SUBSET Key /\ s.key \in Key \cup {0} /\ s.entry \in Entry
BY DEF Place

LEMMA IdleIs ==
  /\ Idle \in Place /\ Idle.pc = "idle" /\ Idle.peers = {} /\ Idle.peer = NoNode
  /\ Idle.snap = [k \in Key |-> None] /\ Idle.todo = {} /\ Idle.tree = [k \in Key |-> Absent]
  /\ \A n \in Node : Sane(n, Idle)
<1>1. [k \in Key |-> None] \in [Key -> Entry] /\ None \in Entry BY Entries
<1>2. [k \in Key |-> Absent] \in Tree BY Trees
<1>3. NoNode \notin Node BY GossipAssumption
<1>4. Idle \in Place BY <1>1, <1>2 DEF Idle, Place
<1>5. /\ Idle.pc = "idle" /\ Idle.peers = {} /\ Idle.peer = NoNode
      /\ Idle.snap = [k \in Key |-> None] /\ Idle.todo = {} /\ Idle.tree = [k \in Key |-> Absent]
  BY DEF Idle
<1> QED BY <1>3, <1>4, <1>5 DEF Sane

\* Where a round goes on, with the next peer or not at all.
LEMMA RestIs ==
  ASSUME NEW n \in Node, NEW peers \in SUBSET Node, n \notin peers, NEW tree \in Tree,
         NEW s \in Rest(peers, tree)
  PROVE  /\ s \in Place /\ Sane(n, s) /\ s.pc \in {"idle", "fetch"}
         /\ s.snap = [k \in Key |-> None]
<1>1. CASE peers = {}
  <2>1. s = Idle BY <1>1 DEF Rest
  <2> QED BY <2>1, IdleIs
<1>2. CASE peers # {}
  <2>1. PICK p \in peers : s = [Idle EXCEPT !.pc = "fetch", !.peers = peers \ {p}, !.peer = p, !.tree = tree]
    BY <1>2 DEF Rest
  <2>2. Idle \in Place /\ Idle.snap = [k \in Key |-> None] /\ Idle.todo = {} BY IdleIs
  <2> HIDE DEF Idle
  <2>3. s \in Place BY <2>1, <2>2 DEF Place
  <2>4. /\ s.pc = "fetch" /\ s.peers = peers \ {p} /\ s.peer = p
        /\ s.snap = Idle.snap /\ s.todo = Idle.todo
    BY <2>1, <2>2 DEF Place
  <2>5. p # n BY <2>1
  <2> QED BY <2>2, <2>3, <2>4, <2>5 DEF Sane
<1> QED BY <1>1, <1>2

LEMMA StoredIs ==
  ASSUME store \in [Node -> [Key -> Entry]], NEW n \in Node, NEW k \in Key, NEW e \in Entry
  PROVE  /\ Stored(n, k, e) \in [Node -> [Key -> Entry]]
         /\ \A m \in Node, j \in Key :
              Stored(n, k, e)[m][j] = IF m = n /\ j = k THEN e ELSE store[m][j]
BY DEF Stored

LEMMA NotifiedIs ==
  ASSUME NEW p \in [Node -> Place], NEW n \in Node, NEW k \in Key, NEW e \in Entry
  PROVE  /\ Notified(p, n, k, e) \in [Node -> Place]
         /\ \A m \in Node : AllButTree(Notified(p, n, k, e)[m], p[m])
<1> DEFINE q == [p[n] EXCEPT !.tree = [@ EXCEPT ![k] = value(e)]]
<1>1. p[n] \in Place /\ p[n].tree \in Tree BY PlaceFields
<1>2. [p[n].tree EXCEPT ![k] = value(e)] \in Tree BY <1>1, Trees
<1>3. q \in Place
  <2> DEFINE t == [p[n].tree EXCEPT ![k] = value(e)]
  <2>1. q = [p[n] EXCEPT !.tree = t] OBVIOUS
  <2> HIDE DEF t, q
  <2> QED BY <1>1, <1>2, <2>1 DEF Place, t
<1>4. AllButTree(q, p[n]) BY <1>1 DEF AllButTree, Place
<1>5. CASE p[n].pc = "idle"
  BY <1>5 DEF Notified, AllButTree
<1>6. CASE p[n].pc # "idle"
  <2>1. Notified(p, n, k, e) = [p EXCEPT ![n] = q] BY <1>6 DEF Notified
  <2> HIDE DEF q
  <2> QED BY <2>1, <1>3, <1>4 DEF AllButTree
<1> QED BY <1>5, <1>6

\* The exchange of n goes on from s, the others stay where they are.
Moved(n, s) ==
  /\ ae' \in [Node -> Place]
  /\ AllButTree(ae'[n], s)
  /\ \A m \in Node \ {n} : AllButTree(ae'[m], ae[m])

LEMMA GotoMoves ==
  ASSUME ae \in [Node -> Place], NEW n \in Node, NEW s \in Place, Goto(n, s)
  PROVE  Moved(n, s)
BY DEF Goto, Moved, AllButTree

LEMMA NotifiedMoves ==
  ASSUME ae \in [Node -> Place], NEW n \in Node, NEW s \in Place,
         NEW q \in Node, NEW k \in Key, NEW e \in Entry,
         ae' = Notified([ae EXCEPT ![n] = s], q, k, e)
  PROVE  Moved(n, s)
<1> DEFINE p == [ae EXCEPT ![n] = s]
<1>1. p \in [Node -> Place] /\ p[n] = s /\ \A m \in Node \ {n} : p[m] = ae[m] OBVIOUS
<1>2. ae' = Notified(p, q, k, e) OBVIOUS
<1> HIDE DEF p
<1>3. /\ Notified(p, q, k, e) \in [Node -> Place]
      /\ \A m \in Node : AllButTree(Notified(p, q, k, e)[m], p[m])
  BY <1>1, NotifiedIs
<1>4. ae' \in [Node -> Place] /\ \A m \in Node : AllButTree(ae'[m], p[m]) BY <1>2, <1>3
<1> QED BY <1>1, <1>4 DEF Moved

-----------------------------------------------------------------------------
(* Conjuncts of the invariant after a move.                                  *)

LEMMA SanityMoves ==
  ASSUME Sanity, NEW n \in Node, NEW s, Sane(n, s), Moved(n, s)
  PROVE  Sanity'
<1>1. \A m \in Node : \A q, r : Sane(m, q) /\ AllButTree(r, q) => Sane(m, r)
  BY DEF Sane, AllButTree
<1>2. Sane(n, ae'[n]) BY <1>1 DEF Moved
<1>3. \A m \in Node \ {n} : Sane(m, ae'[m]) BY <1>1 DEF Moved, Sanity
<1>4. \A m \in Node : Sane(m, ae'[m]) BY <1>2, <1>3
<1> QED BY <1>4 DEF Sanity, Sane

LEMMA WeighedMoves ==
  ASSUME Weighed, NEW n \in Node, NEW s, Weighs(n, s), Moved(n, s), floor' = floor
  PROVE  Weighed'
<1>1. \A m \in Node : \A q, r : Weighs(m, q) /\ AllButTree(r, q) => Weighs(m, r)
  BY DEF Weighs, AllButTree
<1>2. Weighs(n, ae'[n]) BY <1>1 DEF Moved
<1>3. \A m \in Node \ {n} : Weighs(m, ae'[m]) BY <1>1 DEF Moved, Weighed
<1>4. \A m \in Node : Weighs(m, ae'[m]) BY <1>2, <1>3
<1> QED BY <1>4 DEF Weighed, Weighs

LEMMA ForgottenMoves ==
  ASSUME Forgotten, NEW n \in Node, NEW s, Moved(n, s), gone' \subseteq gone,
         \A m \in Node, k \in gone' : store[m][k] = None => store'[m][k] = None,
         s.pc # "idle" => \A k \in gone' :
           /\ store'[n][k] = None /\ s.snap[k] = None
           /\ s.pc \in {"push", "pull"} => s.key # k
  PROVE  Forgotten'
<1>1. ASSUME NEW m \in Node PROVE Forgets(m, ae[m])'
  <2>1. CASE m = n
    <3>1. AllButTree(ae'[n], s) BY DEF Moved
    <3> QED BY <2>1, <3>1 DEF Forgets, AllButTree
  <2>2. CASE m # n
    <3>1. AllButTree(ae'[m], ae[m]) BY <2>2 DEF Moved
    <3>2. Forgets(m, ae[m]) BY DEF Forgotten
    <3> QED BY <3>1, <3>2 DEF Forgets, AllButTree
  <2> QED BY <2>1, <2>2
<1> QED BY <1>1 DEF Forgotten

\* What a step of an exchange under way leaves of deletions.
LEMMA DeletionsStay ==
  ASSUME IInv, NEW n \in Node, ae[n].pc # "idle",
         UNCHANGED <<alive, deleting, gone>>,
         \A m \in Node, k \in gone : store[m][k] = None => store'[m][k] = None
  PROVE  CleanDelete' /\ GoneStaysGone'
<1>1. ~Quiet BY DEF Quiet
<1>2. ~(deleting.clean /\ deleting.left # {}) BY <1>1 DEF IInv, CleanDelete
<1>3. CleanDelete' BY <1>2 DEF CleanDelete
<1>4. \A k \in gone, m \in alive : store[m][k] = None /\ m \in Node BY DEF IInv, GoneStaysGone, Types
<1>5. GoneStaysGone' BY <1>4 DEF GoneStaysGone
<1> QED BY <1>3, <1>5

\* An exchange that goes on without touching a store.
LEMMA MovePreserves ==
  ASSUME IInv, NEW n \in Node, ae[n].pc # "idle", NEW s \in Place, Goto(n, s),
         UNCHANGED <<alive, store, deleting, floor, gone>>,
         Sane(n, s), Weighs(n, s), Forgets(n, s)
  PROVE  IInv'
<1>1. Moved(n, s) BY GotoMoves DEF IInv, Types
<1>2. Types' BY <1>1 DEF IInv, Types, Moved
<1>3. Sanity' BY <1>1, SanityMoves DEF IInv
<1>4. Weighed' BY <1>1, WeighedMoves DEF IInv
<1>5. Forgotten'
  <2>1. s.pc # "idle" => \A k \in gone' :
           /\ store'[n][k] = None /\ s.snap[k] = None
           /\ s.pc \in {"push", "pull"} => s.key # k
    BY DEF Forgets
  <2>2. Forgotten BY DEF IInv
  <2>3. gone' \subseteq gone /\ \A m \in Node, k \in gone' : store[m][k] = None => store'[m][k] = None
    OBVIOUS
  <2> QED BY <1>1, <2>1, <2>2, <2>3, ForgottenMoves
<1>6. CleanDelete' /\ GoneStaysGone' BY DeletionsStay
<1>7. NoRegress' BY DEF IInv, NoRegress
<1> QED BY <1>2, <1>3, <1>4, <1>5, <1>6, <1>7 DEF IInv

-----------------------------------------------------------------------------
(* The steps of a round.                                                     *)

LEMMA HereIs ==
  ASSUME IInv, NEW n \in Node
  PROVE  /\ ae \in [Node -> Place] /\ ae[n] \in Place
         /\ Sane(n, ae[n]) /\ Weighs(n, ae[n]) /\ Forgets(n, ae[n])
BY DEF IInv, Types, Sanity, Weighed, Forgotten

LEMMA FetchPreserves == ASSUME IInv, NEW n \in Node, Fetch(n) PROVE IInv'
<1> DEFINE p == ae[n].peer
           s == [ae[n] EXCEPT !.pc = "compare", !.snap = store[p]]
<1>1. /\ ae[n] \in Place /\ Sane(n, ae[n]) /\ Forgets(n, ae[n])
      /\ ae[n].pc = "fetch" /\ p \in alive /\ Goto(n, s)
      /\ UNCHANGED <<alive, store, deleting, floor, gone>>
  BY HereIs DEF Fetch
<1>2. p \in Node /\ store[p] \in [Key -> Entry] BY <1>1 DEF IInv, Types
<1>3. s \in Place BY <1>1, <1>2 DEF Place
<1>4. /\ s.pc = "compare" /\ s.snap = store[p] /\ s.peers = ae[n].peers /\ s.peer = p
      /\ s.todo = ae[n].todo
  BY <1>1 DEF Place
<1> HIDE DEF s
<1>5. Sane(n, s) BY <1>1, <1>2, <1>4 DEF Sane
<1>6. Weighs(n, s)
  <2>1. \A k \in Key : store[p][k] >= floor[p][k] BY <1>2 DEF IInv, NoRegress
  <2> QED BY <1>4, <2>1 DEF Weighs
<1>7. Forgets(n, s)
  <2>1. \A k \in gone : store[p][k] = None BY <1>1 DEF IInv, GoneStaysGone
  <2>2. \A k \in gone : store[n][k] = None BY <1>1 DEF Forgets
  <2> QED BY <1>4, <2>1, <2>2 DEF Forgets
<1>8. ae[n].pc # "idle" BY <1>1
<1> QED BY <1>1, <1>3, <1>5, <1>6, <1>7, <1>8, MovePreserves

\* The exchange is over, and with it the round or not.
LEMMA RestPreserves ==
  ASSUME IInv, NEW n \in Node, ae[n].pc # "idle",
         \E s \in Rest(ae[n].peers, ae[n].tree) : Goto(n, s),
         UNCHANGED <<alive, store, deleting, floor, gone>>
  PROVE  IInv'
<1>1. PICK s \in Rest(ae[n].peers, ae[n].tree) : Goto(n, s) OBVIOUS
<1>2. ae[n] \in Place /\ Sane(n, ae[n]) /\ Forgets(n, ae[n]) BY HereIs
<1>3. ae[n].peers \in SUBSET Node /\ ae[n].tree \in Tree /\ n \notin ae[n].peers
  BY <1>2, PlaceFields DEF Sane
<1>4. /\ s \in Place /\ Sane(n, s) /\ s.pc \in {"idle", "fetch"}
      /\ s.snap = [k \in Key |-> None]
  BY <1>1, <1>3, RestIs
<1>5. Weighs(n, s) BY <1>4 DEF Weighs
<1>6. Forgets(n, s)
  <2>1. \A k \in gone : store[n][k] = None BY <1>2 DEF Forgets
  <2>2. \A k \in gone : k \in Key BY DEF IInv, Types
  <2> QED BY <1>4, <2>1, <2>2 DEF Forgets
<1> QED BY <1>1, <1>4, <1>5, <1>6, MovePreserves

LEMMA SyncEndPreserves == ASSUME IInv, NEW n \in Node, SyncEnd(n) PROVE IInv'
<1>1. ae[n].pc # "idle" BY DEF SyncEnd
<1> QED BY <1>1, RestPreserves DEF SyncEnd

\* The key in hand has been dealt with.
LEMMA OnwardIs ==
  ASSUME IInv, NEW n \in Node, ae[n].pc \in {"push", "pull"}
  PROVE  /\ Onward(ae[n]) \in Place
         /\ Sane(n, Onward(ae[n])) /\ Weighs(n, Onward(ae[n])) /\ Forgets(n, Onward(ae[n]))
         /\ Onward(ae[n]).pc = "key" /\ Onward(ae[n]).snap = ae[n].snap
<1> DEFINE s == Onward(ae[n])
<1>1. ae[n] \in Place /\ Sane(n, ae[n]) /\ Weighs(n, ae[n]) /\ Forgets(n, ae[n]) BY HereIs
<1>2. s \in Place BY <1>1, Entries DEF Onward, Place
<1>3. /\ s.pc = "key" /\ s.peers = ae[n].peers /\ s.peer = ae[n].peer
      /\ s.snap = ae[n].snap /\ s.todo = ae[n].todo
  BY <1>1 DEF Onward, Place
<1> HIDE DEF s
<1>4. Sane(n, s) BY <1>1, <1>3 DEF Sane
<1>5. Weighs(n, s) BY <1>1, <1>3 DEF Weighs
<1>6. Forgets(n, s) BY <1>1, <1>3 DEF Forgets
<1> QED BY <1>2, <1>3, <1>4, <1>5, <1>6 DEF s

LEMMA RpcFailsPreserves == ASSUME IInv, NEW n \in Node, RpcFails(n) PROVE IInv'
<1>1. ae[n].pc \in {"fetch", "push"} /\ UNCHANGED <<alive, store, deleting, floor, gone>>
  BY DEF RpcFails
<1>2. CASE ae[n].pc = "fetch"
  <2>1. \E s \in Rest(ae[n].peers, ae[n].tree) : Goto(n, s) BY <1>2 DEF RpcFails
  <2> QED BY <1>1, <1>2, <2>1, RestPreserves
<1>3. CASE ae[n].pc = "push"
  <2>1. Goto(n, Onward(ae[n])) BY <1>3 DEF RpcFails
  <2>2. /\ Onward(ae[n]) \in Place /\ Sane(n, Onward(ae[n]))
        /\ Weighs(n, Onward(ae[n])) /\ Forgets(n, Onward(ae[n]))
    BY <1>3, OnwardIs
  <2>3. ae[n].pc # "idle" BY <1>3
  <2> QED BY <1>1, <2>1, <2>2, <2>3, MovePreserves
<1> QED BY <1>1, <1>2, <1>3

LEMMA ComparePreserves == ASSUME IInv, NEW n \in Node, Compare(n) PROVE IInv'
<1> DEFINE todo == DiffOf[<<ae[n].tree, treeOf(ae[n].snap)>>]
           snap == [k \in Key |-> IF k \in todo THEN ae[n].snap[k] ELSE None]
           s == [ae[n] EXCEPT !.pc = "key", !.todo = todo, !.snap = snap]
<1>1. /\ ae[n] \in Place /\ Sane(n, ae[n]) /\ Weighs(n, ae[n]) /\ Forgets(n, ae[n])
      /\ ae[n].pc = "compare" /\ Goto(n, s)
      /\ UNCHANGED <<alive, store, deleting, floor, gone>>
  BY HereIs DEF Compare
<1>2. ae[n].snap \in [Key -> Entry] /\ ae[n].tree \in Tree BY <1>1, PlaceFields
<1>3. todo \subseteq Key
  <2>1. treeOf(ae[n].snap) \in Tree BY <1>2, Trees
  <2> DEFINE t == ae[n].tree
             u == treeOf(ae[n].snap)
  <2>2. t \in Tree /\ u \in Tree BY <1>2, <2>1
  <2> HIDE DEF t, u
  <2>3. DiffOf[<<t, u>>] = Diff(t, u) BY <2>2, DiffOfIs
  <2>4. t \in AnyTree /\ u \in AnyTree BY <2>2, Trees
  <2>5. Diff(t, u) = {k \in Key : t[k] # u[k] /\ {t[k], u[k]} # {Absent, Empty}} BY <2>4, DiffFinds
  <2>6. DiffOf[<<t, u>>] \subseteq Key BY <2>3, <2>5
  <2> QED BY <2>6 DEF t, u
<1> HIDE DEF todo
<1>4. snap \in [Key -> Entry] BY <1>2, Entries
<1>5. /\ \A k \in todo : snap[k] = ae[n].snap[k]
      /\ \A k \in Key : k \notin todo => snap[k] = None
  BY <1>3
<1> HIDE DEF snap
<1>6. s \in Place BY <1>1, <1>3, <1>4 DEF Place
<1>7. /\ s.pc = "key" /\ s.peers = ae[n].peers /\ s.peer = ae[n].peer
      /\ s.snap = snap /\ s.todo = todo
  BY <1>1 DEF Place
<1> HIDE DEF s
<1>8. Sane(n, s) BY <1>1, <1>5, <1>7 DEF Sane
<1>9. Weighs(n, s) BY <1>1, <1>3, <1>5, <1>7 DEF Weighs
<1>10. Forgets(n, s)
  <2>1. \A k \in gone : k \in Key /\ store[n][k] = None /\ ae[n].snap[k] = None
    BY <1>1 DEF Forgets, IInv, Types
  <2> QED BY <1>5, <1>7, <2>1 DEF Forgets
<1>11. ae[n].pc # "idle" BY <1>1
<1> QED BY <1>1, <1>6, <1>8, <1>9, <1>10, <1>11, MovePreserves

LEMMA ReconcilePreserves == ASSUME IInv, NEW n \in Node, Reconcile(n) PROVE IInv'
<1> DEFINE p == ae[n]
           k == least(p.todo)
           local == store[n][k]
           peer == p.snap[k]
           rest == [p EXCEPT !.todo = @ \ {k}, !.snap[k] = None]
           step == IF PeerWins(local, peer) THEN "pull" ELSE IF local # None THEN "push" ELSE "key"
           s == IF step = "key" THEN rest
                ELSE [rest EXCEPT !.pc = step, !.key = k,
                                  !.entry = IF step = "pull" THEN peer ELSE local]
<1>1. /\ p \in Place /\ Sane(n, p) /\ Weighs(n, p) /\ Forgets(n, p)
      /\ p.pc = "key" /\ p.todo # {} /\ Goto(n, s)
      /\ UNCHANGED <<alive, store, deleting, floor, gone>>
  BY HereIs DEF Reconcile
<1>2. p.todo \in SUBSET Key /\ p.snap \in [Key -> Entry] BY <1>1, PlaceFields
<1>3. k \in p.todo
  <2>1. p.todo \subseteq Nat BY <1>2, KeyAssumption
  <2>2. \E x \in p.todo : \A y \in p.todo : x <= y
    <3> DEFINE T == p.todo
    <3>1. T \subseteq Nat /\ T # {} BY <1>1, <2>1
    <3> HIDE DEF T
    <3>2. \E x \in T : \A y \in T : x <= y BY <3>1, NatMin
    <3> QED BY <3>2 DEF T
  <2> QED BY <2>2 DEF least
<1> HIDE DEF k
<1>4. k \in Key /\ local \in Entry /\ peer \in Entry BY <1>2, <1>3 DEF IInv, Types
<1>5. rest \in Place
  <2>1. [p.snap EXCEPT ![k] = None] \in [Key -> Entry] BY <1>2, Entries
  <2> DEFINE q == [p.snap EXCEPT ![k] = None]
  <2>2. rest = [p EXCEPT !.todo = p.todo \ {k}, !.snap = q] OBVIOUS
  <2> HIDE DEF q, rest, p
  <2>3. q \in [Key -> Entry] /\ p.todo \ {k} \in SUBSET Key BY <1>2, <2>1 DEF q
  <2> QED BY <1>1, <2>2, <2>3 DEF Place
<1>6. /\ rest.pc = "key" /\ rest.peers = p.peers /\ rest.peer = p.peer
      /\ rest.todo = p.todo \ {k}
      /\ \A j \in Key : rest.snap[j] = IF j = k THEN None ELSE p.snap[j]
  BY <1>1, <1>2 DEF Place
<1>7. step \in {"pull", "push", "key"} OBVIOUS
<1>8. step = "pull" => peer > local BY DEF PeerWins
<1>9. step = "push" => ~(peer > local) /\ local # None BY DEF PeerWins
<1> DEFINE e == IF step = "pull" THEN peer ELSE local
<1>10. e \in Entry BY <1>4
<1> HIDE DEF p, local, peer, rest, step, e
<1>11. s = IF step = "key" THEN rest ELSE [rest EXCEPT !.pc = step, !.key = k, !.entry = e]
  BY DEF e
<1>12. s \in Place BY <1>4, <1>5, <1>7, <1>10, <1>11 DEF Place
<1>13. /\ s.pc = step /\ s.peers = p.peers /\ s.peer = p.peer /\ s.todo = p.todo \ {k}
       /\ s.snap = rest.snap
       /\ step # "key" => s.key = k /\ s.entry = e
  BY <1>5, <1>6, <1>7, <1>11 DEF Place
<1> HIDE DEF s
<1>14. Sane(n, s) BY <1>1, <1>4, <1>6, <1>7, <1>13 DEF Sane
<1>15. Weighs(n, s)
  <2>1. p.peer \in Node BY <1>1 DEF Sane
  <2>2. local >= floor[n][k] BY <1>4 DEF local, IInv, NoRegress
  <2>3. peer >= floor[p.peer][k] BY <1>1, <1>3 DEF Weighs, peer
  <2>4. floor[n][k] \in Nat /\ floor[p.peer][k] \in Nat /\ local \in Nat /\ peer \in Nat
    BY <1>4, <2>1, Entries DEF IInv, Types
  <2>5. step = "pull" => e = peer /\ e >= floor[n][k] BY <1>8, <2>2, <2>4 DEF e
  <2>6. step = "push" => e = local /\ e >= floor[p.peer][k] BY <1>9, <2>3, <2>4 DEF e
  <2>7. \A j \in p.todo \ {k} : rest.snap[j] >= floor[p.peer][j]
    BY <1>1, <1>2, <1>6 DEF Weighs
  <2> QED BY <1>7, <1>13, <2>5, <2>6, <2>7 DEF Weighs
<1>16. Forgets(n, s)
  <2> SUFFICES ASSUME NEW j \in gone
               PROVE  /\ store[n][j] = None /\ s.snap[j] = None
                      /\ s.pc \in {"push", "pull"} => s.key # j
    BY DEF Forgets
  <2>1. j \in Key /\ store[n][j] = None /\ p.snap[j] = None BY <1>1 DEF Forgets, IInv, Types
  <2>2. s.snap[j] = None BY <1>6, <1>13, <2>1
  <2>3. ASSUME step # "key" PROVE k # j
    <3> SUFFICES ASSUME k = j PROVE FALSE
      OBVIOUS
    <3>1. local = None /\ peer = None BY <2>1 DEF local, peer
    <3>2. step = "key" BY <3>1 DEF step, PeerWins, None
    <3> QED BY <2>3, <3>2
  <2> QED BY <1>13, <2>1, <2>2, <2>3
<1>17. ae[n].pc # "idle" BY <1>1 DEF p
<1> QED BY <1>1, <1>12, <1>14, <1>15, <1>16, <1>17, MovePreserves

\* The entry in hand goes to a store that holds nothing later for good.
LEMMA StorePreserves ==
  ASSUME IInv, NEW n \in Node, ae[n].pc \in {"push", "pull"}, NEW q \in Node,
         ae[n].key \in Key => ae[n].entry >= floor[q][ae[n].key],
         store' = Stored(q, ae[n].key, ae[n].entry),
         ae' = Notified([ae EXCEPT ![n] = Onward(ae[n])], q, ae[n].key, ae[n].entry),
         UNCHANGED <<alive, deleting, floor, gone>>
  PROVE  IInv'
<1> DEFINE k == ae[n].key
           e == ae[n].entry
           s == Onward(ae[n])
<1>1. /\ ae \in [Node -> Place] /\ ae[n] \in Place
      /\ Sane(n, ae[n]) /\ Forgets(n, ae[n])
  BY HereIs
<1>2. k \in Key /\ e \in Entry
  <2>1. k \in Key BY <1>1 DEF Sane
  <2> QED BY <1>1, <2>1, PlaceFields
<1>3. /\ s \in Place /\ Sane(n, s) /\ Weighs(n, s) /\ Forgets(n, s)
      /\ s.pc = "key" /\ s.snap = ae[n].snap
  BY OnwardIs
<1>4. /\ e >= floor[q][k] /\ ae[n].pc # "idle"
      /\ store' = Stored(q, k, e) /\ ae' = Notified([ae EXCEPT ![n] = s], q, k, e)
  BY <1>2
<1>5. \A j \in gone : j \in Key /\ j # k /\ store[n][j] = None /\ ae[n].snap[j] = None
  BY <1>1 DEF Forgets, IInv, Types
<1> HIDE DEF k, e, s
<1>6. Moved(n, s) BY <1>1, <1>2, <1>3, <1>4, NotifiedMoves
<1>7. /\ store' \in [Node -> [Key -> Entry]]
      /\ \A m \in Node, j \in Key : store'[m][j] = IF m = q /\ j = k THEN e ELSE store[m][j]
  <2>1. store \in [Node -> [Key -> Entry]] BY DEF IInv, Types
  <2>2. /\ Stored(q, k, e) \in [Node -> [Key -> Entry]]
        /\ \A m \in Node, j \in Key : Stored(q, k, e)[m][j] = IF m = q /\ j = k THEN e ELSE store[m][j]
    BY <1>2, <2>1, StoredIs
  <2>3. store' = Stored(q, k, e) BY <1>4
  <2> QED BY <2>2, <2>3
<1>8. Types' BY <1>6, <1>7 DEF IInv, Types, Moved
<1>9. Sanity' BY <1>3, <1>6, SanityMoves DEF IInv
<1>10. Weighed' BY <1>3, <1>6, WeighedMoves DEF IInv
<1>11. \A m \in Node, j \in gone : store[m][j] = None => store'[m][j] = None
  BY <1>5, <1>7
<1>12. Forgotten'
  <2>1. s.pc # "idle" => \A j \in gone' :
           /\ store'[n][j] = None /\ s.snap[j] = None
           /\ s.pc \in {"push", "pull"} => s.key # j
    BY <1>3, <1>5, <1>11
  <2>2. Forgotten BY DEF IInv
  <2>3. gone' \subseteq gone /\ \A m \in Node, j \in gone' : store[m][j] = None => store'[m][j] = None
    BY <1>11
  <2> QED BY <1>6, <2>1, <2>2, <2>3, ForgottenMoves
<1>13. CleanDelete' /\ GoneStaysGone' BY <1>4, <1>11, DeletionsStay
<1>14. NoRegress'
  <2>1. \A m \in Node, j \in Key : store[m][j] >= floor[m][j] BY DEF IInv, NoRegress
  <2>2. \A m \in Node, j \in Key : store'[m][j] >= floor[m][j] BY <1>4, <1>7, <2>1
  <2> QED BY <2>2 DEF NoRegress
<1> QED BY <1>8, <1>9, <1>10, <1>12, <1>13, <1>14 DEF IInv

LEMMA PushPreserves == ASSUME IInv, NEW n \in Node, Push(n) PROVE IInv'
<1> DEFINE q == ae[n].peer
<1>1. /\ ae \in [Node -> Place] /\ Weighs(n, ae[n]) /\ ae[n].pc = "push" /\ q \in Node
  <2>1. ae[n].pc = "push" /\ q \in alive BY DEF Push
  <2> QED BY <2>1, HereIs DEF IInv, Types
<1>2. ae[n].entry >= floor[q][ae[n].key] BY <1>1 DEF Weighs
<1>3. /\ store' = Stored(q, ae[n].key, ae[n].entry)
      /\ UNCHANGED <<alive, deleting, floor, gone>>
  BY DEF Push
<1>4. ae' = Notified([ae EXCEPT ![n] = Onward(ae[n])], q, ae[n].key, ae[n].entry)
  BY <1>1 DEF Push
<1> HIDE DEF q
<1> QED BY <1>1, <1>2, <1>3, <1>4, StorePreserves

LEMMA PullPreserves == ASSUME IInv, NEW n \in Node, Pull(n) PROVE IInv'
<1>1. /\ ae \in [Node -> Place] /\ Weighs(n, ae[n]) /\ ae[n].pc = "pull"
  BY HereIs DEF Pull
<1>2. ae[n].entry >= floor[n][ae[n].key] BY <1>1 DEF Weighs
<1>3. /\ store' = Stored(n, ae[n].key, ae[n].entry)
      /\ UNCHANGED <<alive, deleting, floor, gone>>
  BY DEF Pull
<1>4. ae' = Notified([ae EXCEPT ![n] = Onward(ae[n])], n, ae[n].key, ae[n].entry)
  BY <1>1 DEF Pull
<1> QED BY <1>1, <1>2, <1>3, <1>4, StorePreserves

LEMMA GossipRoundPreserves == ASSUME IInv, NEW n \in Node, gossipRound(n) PROVE IInv'
<1>1. /\ ae \in [Node -> Place] /\ n \in alive
      /\ deleting' = [deleting EXCEPT !.clean = FALSE]
      /\ UNCHANGED <<alive, store, floor, gone>>
  BY HereIs DEF gossipRound
<1>2. PICK peers \in SUBSET (alive \ {n}) : \E s \in Rest(peers, treeOf(store[n])) : Goto(n, s)
  BY DEF gossipRound
<1>3. PICK s \in Rest(peers, treeOf(store[n])) : Goto(n, s) BY <1>2
<1>4. peers \in SUBSET Node /\ n \notin peers /\ treeOf(store[n]) \in Tree
  <2>1. store[n] \in [Key -> Entry] BY DEF IInv, Types
  <2> QED BY <2>1, Trees DEF IInv, Types
<1>5. /\ s \in Place /\ Sane(n, s) /\ s.pc \in {"idle", "fetch"}
      /\ s.snap = [k \in Key |-> None]
  BY <1>3, <1>4, RestIs
<1>6. Moved(n, s) BY <1>1, <1>3, <1>5, GotoMoves
<1>7. /\ deleting' \in [key : Key \cup {0}, left : SUBSET Node, clean : BOOLEAN]
      /\ deleting'.left = deleting.left /\ deleting'.key = deleting.key /\ deleting'.clean = FALSE
  BY <1>1 DEF IInv, Types
<1>8. Types' BY <1>1, <1>6, <1>7 DEF IInv, Types, Moved
<1>9. Sanity' BY <1>5, <1>6, SanityMoves DEF IInv
<1>10. Weighed'
  <2>1. Weighs(n, s) BY <1>5 DEF Weighs
  <2> QED BY <1>1, <1>6, <2>1, WeighedMoves DEF IInv
<1>11. Forgotten'
  <2>1. \A k \in gone : k \in Key /\ store[n][k] = None BY <1>1 DEF IInv, Types, GoneStaysGone
  <2>2. s.pc # "idle" => \A k \in gone' :
           /\ store'[n][k] = None /\ s.snap[k] = None
           /\ s.pc \in {"push", "pull"} => s.key # k
    BY <1>1, <1>5, <2>1
  <2>3. Forgotten BY DEF IInv
  <2>4. gone' \subseteq gone /\ \A m \in Node, k \in gone' : store[m][k] = None => store'[m][k] = None
    BY <1>1
  <2> QED BY <1>6, <2>2, <2>3, <2>4, ForgottenMoves
<1>12. CleanDelete' BY <1>7 DEF CleanDelete
<1>13. GoneStaysGone' /\ NoRegress' BY <1>1 DEF IInv, GoneStaysGone, NoRegress
<1> QED BY <1>8, <1>9, <1>10, <1>11, <1>12, <1>13 DEF IInv

-----------------------------------------------------------------------------
(* The steps of clients.                                                     *)

LEMMA PutEntryPreserves ==
  ASSUME IInv, NEW n \in Node, NEW w \in Write, PutEntry(n, w)
  PROVE  IInv'
<1> DEFINE k == keyOf[w]
<1>1. /\ n \in alive /\ store' = Stored(n, k, w) /\ ae' = Notified(ae, n, k, w)
      /\ floor' = [floor EXCEPT ![n][k] = IF Raced(n, k) /\ @ < w THEN @ ELSE w]
      /\ gone' = gone \ {k} /\ alive' = alive
      /\ deleting' = [deleting EXCEPT !.clean = @ /\ deleting.key # k]
  BY DEF PutEntry
<1>2. k \in Key /\ w \in Entry BY Entries
<1>3. /\ store \in [Node -> [Key -> Entry]] /\ floor \in [Node -> [Key -> Entry]]
      /\ ae \in [Node -> Place] /\ gone \in SUBSET Key /\ alive \in SUBSET Node
      /\ deleting \in [key : Key \cup {0}, left : SUBSET Node, clean : BOOLEAN]
      /\ deleting.left \subseteq alive /\ (deleting.left # {} => deleting.key \in Key)
  BY DEF IInv, Types
<1> HIDE DEF k
<1>4. /\ store' \in [Node -> [Key -> Entry]]
      /\ \A m \in Node, j \in Key : store'[m][j] = IF m = n /\ j = k THEN w ELSE store[m][j]
  <2>1. /\ Stored(n, k, w) \in [Node -> [Key -> Entry]]
        /\ \A m \in Node, j \in Key : Stored(n, k, w)[m][j] = IF m = n /\ j = k THEN w ELSE store[m][j]
    BY <1>2, <1>3, StoredIs
  <2> QED BY <1>1, <2>1
<1>5. ae' \in [Node -> Place] /\ \A m \in Node : AllButTree(ae'[m], ae[m])
  BY <1>1, <1>2, <1>3, NotifiedIs
<1> DEFINE low == IF Raced(n, k) /\ floor[n][k] < w THEN floor[n][k] ELSE w
<1>6. /\ low \in Entry /\ low \in Nat /\ low <= w /\ (Raced(n, k) => low <= floor[n][k])
  <2>1. floor[n][k] \in Entry BY <1>2, <1>3
  <2>2. floor[n][k] \in Nat /\ w \in Nat BY <1>2, <2>1, Entries
  <2>3. CASE Raced(n, k) /\ floor[n][k] < w BY <2>1, <2>2, <2>3
  <2>4. CASE ~(Raced(n, k) /\ floor[n][k] < w)
    <3>1. low = w BY <2>4
    <3>2. Raced(n, k) => w <= floor[n][k] BY <2>2, <2>4
    <3> HIDE DEF low
    <3> QED BY <1>2, <2>2, <3>1, <3>2
  <2> QED BY <2>3, <2>4
<1>7. floor' = [floor EXCEPT ![n][k] = low] BY <1>1
<1> HIDE DEF low
<1>8. /\ floor' \in [Node -> [Key -> Entry]]
      /\ \A m \in Node, j \in Key : floor'[m][j] = IF m = n /\ j = k THEN low ELSE floor[m][j]
  BY <1>2, <1>3, <1>6, <1>7
<1>9. \A m \in Node, j \in Key : floor[m][j] \in Nat /\ store[m][j] \in Nat
  BY <1>3, Entries
<1>10. /\ deleting'.left = deleting.left /\ deleting'.key = deleting.key
       /\ deleting' \in [key : Key \cup {0}, left : SUBSET Node, clean : BOOLEAN]
       /\ deleting'.clean => deleting.clean /\ deleting.key # k
  <2> DEFINE c == deleting.clean /\ deleting.key # k
  <2>1. c \in BOOLEAN OBVIOUS
  <2>2. deleting' = [deleting EXCEPT !.clean = c] BY <1>1
  <2>3. c => deleting.clean /\ deleting.key # k OBVIOUS
  <2> HIDE DEF c
  <2>4. /\ deleting'.left = deleting.left /\ deleting'.key = deleting.key
        /\ deleting' \in [key : Key \cup {0}, left : SUBSET Node, clean : BOOLEAN]
        /\ deleting'.clean = c
    BY <1>3, <2>1, <2>2
  <2> QED BY <2>3, <2>4
<1>11. Types' BY <1>1, <1>3, <1>4, <1>5, <1>8, <1>10 DEF Types
<1>12. Moved(n, ae[n]) BY <1>5 DEF Moved
<1>13. Sanity'
  <2>1. Sane(n, ae[n]) BY HereIs
  <2> QED BY <1>12, <2>1, SanityMoves DEF IInv
<1>14. Weighed'
  <2> SUFFICES ASSUME NEW m \in Node PROVE Weighs(m, ae[m])'
    BY DEF Weighed
  <2>1. AllButTree(ae'[m], ae[m]) BY <1>5
  <2>2. Weighs(m, ae[m]) /\ Sane(m, ae[m]) /\ ae[m] \in Place BY HereIs
  <2>3. ae[m].snap \in [Key -> Entry] /\ ae[m].todo \in SUBSET Key /\ ae[m].entry \in Entry
    BY <2>2, PlaceFields
  <2>4. (\A j \in Key : ae[m].snap[j] \in Nat) /\ ae[m].entry \in Nat
    BY <2>3, Entries
  <2> DEFINE q == ae[m].peer
  <2>5. ASSUME ae[m].pc = "compare", NEW j \in Key PROVE ae[m].snap[j] >= floor'[q][j]
    <3>1. q \in Node /\ ae[m].snap[j] >= floor[q][j] BY <2>2, <2>5 DEF Sane, Weighs
    <3>2. q = n /\ j = k => Raced(n, k) BY <2>5 DEF Raced
    <3>3. floor'[q][j] <= floor[q][j] /\ floor'[q][j] \in Nat BY <1>6, <1>8, <1>9, <3>1, <3>2
    <3>4. floor[q][j] \in Nat /\ ae[m].snap[j] \in Nat BY <1>9, <2>4, <3>1
    <3> HIDE DEF q
    <3> QED BY <3>1, <3>3, <3>4
  <2>6. ASSUME ae[m].pc \in {"key", "push", "pull"}, NEW j \in ae[m].todo PROVE ae[m].snap[j] >= floor'[q][j]
    <3>1. q \in Node /\ j \in Key /\ ae[m].snap[j] >= floor[q][j] BY <2>2, <2>3, <2>6 DEF Sane, Weighs
    <3>2. q = n /\ j = k => Raced(n, k) BY <2>6 DEF Raced
    <3>3. floor'[q][j] <= floor[q][j] /\ floor'[q][j] \in Nat BY <1>6, <1>8, <1>9, <3>1, <3>2
    <3>4. floor[q][j] \in Nat /\ ae[m].snap[j] \in Nat BY <1>9, <2>4, <3>1
    <3> HIDE DEF q
    <3> QED BY <3>1, <3>3, <3>4
  <2>7. ASSUME ae[m].pc = "push" PROVE ae[m].entry >= floor'[q][ae[m].key]
    <3> DEFINE j == ae[m].key
    <3>1. q \in Node /\ j \in Key /\ ae[m].entry >= floor[q][j] BY <2>2, <2>7 DEF Sane, Weighs
    <3>2. q = n /\ j = k => Raced(n, k) BY <2>7 DEF Raced
    <3> HIDE DEF j
    <3>3. floor'[q][j] <= floor[q][j] /\ floor'[q][j] \in Nat BY <1>6, <1>8, <1>9, <3>1, <3>2
    <3>4. floor[q][j] \in Nat BY <1>9, <3>1
    <3> HIDE DEF q
    <3>5. ae[m].entry >= floor'[q][j] BY <2>4, <3>1, <3>3, <3>4
    <3> QED BY <3>5 DEF j
  <2>8. ASSUME ae[m].pc = "pull" PROVE ae[m].entry >= floor'[m][ae[m].key]
    <3> DEFINE j == ae[m].key
    <3>1. j \in Key /\ ae[m].entry >= floor[m][j] BY <2>2, <2>8 DEF Sane, Weighs
    <3>2. m = n /\ j = k => Raced(n, k) BY <2>8 DEF Raced
    <3> HIDE DEF j
    <3>3. floor'[m][j] <= floor[m][j] /\ floor'[m][j] \in Nat BY <1>6, <1>8, <1>9, <3>1, <3>2
    <3>4. floor[m][j] \in Nat BY <1>9, <3>1
    <3>5. ae[m].entry >= floor'[m][j] BY <2>4, <3>1, <3>3, <3>4
    <3> QED BY <3>5 DEF j
  <2> QED BY <2>1, <2>5, <2>6, <2>7, <2>8 DEF AllButTree, Weighs
<1>15. \A m \in Node, j \in gone' : j \in gone /\ j \in Key /\ store'[m][j] = store[m][j]
  BY <1>1, <1>3, <1>4
<1>16. Forgotten'
  <2>1. Forgets(n, ae[n]) /\ Forgotten BY HereIs DEF IInv
  <2>2. gone' \subseteq gone BY <1>1
  <2>3. ae[n].pc # "idle" => \A j \in gone' :
           /\ store'[n][j] = None /\ ae[n].snap[j] = None
           /\ ae[n].pc \in {"push", "pull"} => ae[n].key # j
    BY <1>15, <2>1 DEF Forgets
  <2>4. \A m \in Node, j \in gone' : store[m][j] = None => store'[m][j] = None BY <1>15
  <2> QED BY <1>12, <2>1, <2>2, <2>3, <2>4, ForgottenMoves
<1>17. GoneStaysGone'
  <2>1. \A j \in gone', m \in alive : m \in Node /\ store[m][j] = None
    BY <1>1, <1>3 DEF IInv, GoneStaysGone
  <2> QED BY <1>1, <1>15, <2>1 DEF GoneStaysGone
<1>18. CleanDelete'
  <2> SUFFICES ASSUME deleting'.clean, deleting'.left # {}
               PROVE  /\ Quiet'
                      /\ \A m \in alive' \ deleting'.left : store'[m][deleting'.key] = None
    BY DEF CleanDelete
  <2>1. deleting.clean /\ deleting.left # {} /\ deleting.key # k /\ deleting.key \in Key
    BY <1>3, <1>10
  <2>2. Quiet /\ \A m \in alive \ deleting.left : store[m][deleting.key] = None
    BY <2>1 DEF IInv, CleanDelete
  <2>3. Quiet' BY <1>5, <2>2 DEF Quiet, AllButTree
  <2>4. \A m \in alive \ deleting.left : store'[m][deleting.key] = None
    BY <1>3, <1>4, <2>1, <2>2
  <2> QED BY <1>1, <1>10, <2>3, <2>4
<1>19. NoRegress'
  <2> SUFFICES ASSUME NEW m \in Node, NEW j \in Key PROVE store'[m][j] >= floor'[m][j]
    BY DEF NoRegress
  <2>1. store[m][j] >= floor[m][j] BY DEF IInv, NoRegress
  <2>2. w \in Nat BY <1>2, Entries
  <2> QED BY <1>4, <1>6, <1>8, <2>1, <2>2
<1> QED BY <1>11, <1>13, <1>14, <1>16, <1>17, <1>18, <1>19 DEF IInv

LEMMA DeleteKeyPreserves == ASSUME IInv, NEW k \in Key, DeleteKey(k) PROVE IInv'
<1>1. /\ deleting' = [key |-> k, left |-> alive, clean |-> Quiet]
      /\ UNCHANGED <<alive, store, ae, floor, gone>>
  BY DEF DeleteKey
<1>2. deleting' \in [key : Key \cup {0}, left : SUBSET Node, clean : BOOLEAN]
  <2>1. Quiet \in BOOLEAN BY DEF Quiet
  <2> DEFINE c == Quiet
  <2>2. c \in BOOLEAN /\ deleting' = [key |-> k, left |-> alive, clean |-> c] BY <1>1, <2>1
  <2>3. alive \in SUBSET Node BY DEF IInv, Types
  <2> HIDE DEF c
  <2> QED BY <2>2, <2>3
<1>3. deleting'.left = alive /\ deleting'.key = k /\ deleting'.clean = Quiet BY <1>1
<1>4. Types' BY <1>1, <1>2, <1>3 DEF IInv, Types
<1>5. CleanDelete'
  <2>1. Quiet' = Quiet BY <1>1 DEF Quiet
  <2> QED BY <1>1, <1>3, <2>1 DEF CleanDelete
<1>6. Sanity' /\ NoRegress' /\ GoneStaysGone' BY <1>1 DEF IInv, Sanity, NoRegress, GoneStaysGone
<1>7. Weighed' BY <1>1 DEF IInv, Weighed, Weighs
<1>8. Forgotten' BY <1>1 DEF IInv, Forgotten, Forgets
<1> QED BY <1>4, <1>5, <1>6, <1>7, <1>8 DEF IInv

LEMMA CrashNodePreserves == ASSUME IInv, NEW n \in Node, CrashNode(n) PROVE IInv'
<1>1. /\ alive' = alive \ {n} /\ deleting.left = {}
      /\ UNCHANGED <<store, ae, deleting, floor, gone>>
  BY DEF CrashNode
<1>2. Types' BY <1>1 DEF IInv, Types
<1>3. Sanity' /\ NoRegress' /\ GoneStaysGone' BY <1>1 DEF IInv, Sanity, NoRegress, GoneStaysGone
<1>4. Weighed' BY <1>1 DEF IInv, Weighed, Weighs
<1>5. Forgotten' BY <1>1 DEF IInv, Forgotten, Forgets
<1>6. CleanDelete' BY <1>1 DEF CleanDelete
<1> QED BY <1>2, <1>3, <1>4, <1>5, <1>6 DEF IInv

LEMMA DeleteAtPreserves == ASSUME IInv, NEW n \in Node, DeleteAt(n) PROVE IInv'
<1> DEFINE k == deleting.key
<1>1. /\ n \in deleting.left
      /\ store' = [store EXCEPT ![n][k] = None] /\ floor' = [floor EXCEPT ![n][k] = None]
      /\ deleting' = [deleting EXCEPT !.left = @ \ {n}]
      /\ gone' = IF deleting.clean /\ deleting.left = {n} THEN gone \cup {k} ELSE gone
      /\ UNCHANGED <<alive, ae>>
  BY DEF DeleteAt
<1>2. /\ store \in [Node -> [Key -> Entry]] /\ floor \in [Node -> [Key -> Entry]]
      /\ ae \in [Node -> Place] /\ gone \in SUBSET Key /\ alive \in SUBSET Node
      /\ deleting \in [key : Key \cup {0}, left : SUBSET Node, clean : BOOLEAN]
      /\ deleting.left \subseteq alive
      /\ k \in Key
  BY <1>1 DEF IInv, Types
<1> HIDE DEF k
<1>3. /\ store' \in [Node -> [Key -> Entry]] /\ floor' \in [Node -> [Key -> Entry]]
      /\ \A m \in Node, j \in Key :
           /\ store'[m][j] = IF m = n /\ j = k THEN None ELSE store[m][j]
           /\ floor'[m][j] = IF m = n /\ j = k THEN None ELSE floor[m][j]
  BY <1>1, <1>2, Entries
<1>4. /\ deleting' \in [key : Key \cup {0}, left : SUBSET Node, clean : BOOLEAN]
      /\ deleting'.left = deleting.left \ {n} /\ deleting'.key = k /\ deleting'.clean = deleting.clean
  BY <1>1, <1>2 DEF k
<1>5. Types' BY <1>1, <1>2, <1>3, <1>4 DEF Types
<1>6. Sanity' BY <1>1 DEF IInv, Sanity
<1>7. \A m \in Node, j \in Key, e \in Nat : e >= floor[m][j] => e >= floor'[m][j]
  BY <1>3 DEF None
<1>8. NoRegress'
  <2>1. \A m \in Node, j \in Key : store[m][j] >= floor[m][j] /\ store[m][j] \in Nat
    BY <1>2, Entries DEF IInv, NoRegress
  <2>2. \A m \in Node, j \in Key : store'[m][j] >= floor'[m][j] BY <1>3, <2>1 DEF None
  <2> QED BY <2>2 DEF NoRegress
<1>9. Weighed'
  <2> SUFFICES ASSUME NEW m \in Node PROVE Weighs(m, ae[m])'
    BY DEF Weighed
  <2>1. Weighs(m, ae[m]) /\ Sane(m, ae[m]) /\ ae[m] \in Place /\ ae'[m] = ae[m] BY <1>1, HereIs
  <2>2. ae[m].snap \in [Key -> Entry] /\ ae[m].todo \in SUBSET Key /\ ae[m].entry \in Entry
    BY <2>1, PlaceFields
  <2>3. (\A j \in Key : ae[m].snap[j] \in Nat) /\ ae[m].entry \in Nat
    BY <2>2, Entries
  <2>4. ae[m].pc = "compare" => \A j \in Key : ae[m].snap[j] >= floor'[ae[m].peer][j]
    BY <1>7, <2>1, <2>3 DEF Weighs, Sane
  <2>5. ae[m].pc \in {"key", "push", "pull"} => \A j \in ae[m].todo : ae[m].snap[j] >= floor'[ae[m].peer][j]
    BY <1>7, <2>1, <2>2, <2>3 DEF Weighs, Sane
  <2>6. ae[m].pc = "push" => ae[m].entry >= floor'[ae[m].peer][ae[m].key]
    BY <1>7, <2>1, <2>3 DEF Weighs, Sane
  <2>7. ae[m].pc = "pull" => ae[m].entry >= floor'[m][ae[m].key]
    BY <1>7, <2>1, <2>3 DEF Weighs, Sane
  <2> QED BY <2>1, <2>4, <2>5, <2>6, <2>7 DEF Weighs
<1>10. \A j \in gone' : j \in gone \/ (j = k /\ deleting.clean /\ deleting.left = {n})
  BY <1>1
<1>11. deleting.clean => Quiet /\ \A m \in alive \ deleting.left : store[m][k] = None
  BY <1>1 DEF IInv, CleanDelete, k
<1>12. \A m \in alive, j \in gone : store[m][j] = None /\ j \in Key /\ m \in Node
  BY <1>2 DEF IInv, GoneStaysGone
<1>13. GoneStaysGone'
  <2> SUFFICES ASSUME NEW j \in gone', NEW m \in alive PROVE store'[m][j] = None
    BY <1>1 DEF GoneStaysGone
  <2>1. CASE j \in gone
    BY <1>3, <1>12, <2>1
  <2>2. CASE j = k /\ deleting.clean /\ deleting.left = {n}
    <3>1. m # n => store[m][k] = None BY <1>11, <2>2
    <3> QED BY <1>2, <1>3, <2>2, <3>1
  <2> QED BY <1>10, <2>1, <2>2
<1>14. Forgotten'
  <2> SUFFICES ASSUME NEW m \in Node, ae[m].pc # "idle", NEW j \in gone'
               PROVE  /\ store'[m][j] = None /\ ae[m].snap[j] = None
                      /\ ae[m].pc \in {"push", "pull"} => ae[m].key # j
    BY <1>1 DEF Forgotten, Forgets
  <2>1. j \in gone BY <1>10, <1>11 DEF Quiet
  <2>2. /\ store[m][j] = None /\ ae[m].snap[j] = None
        /\ ae[m].pc \in {"push", "pull"} => ae[m].key # j
    BY <2>1, HereIs DEF Forgets
  <2>3. store'[m][j] = None BY <1>2, <1>3, <2>1, <2>2
  <2> QED BY <2>2, <2>3
<1>15. CleanDelete'
  <2> SUFFICES ASSUME deleting.clean
               PROVE  /\ Quiet'
                      /\ \A m \in alive \ (deleting.left \ {n}) : store'[m][k] = None
    BY <1>1, <1>4 DEF CleanDelete
  <2>1. Quiet' BY <1>1, <1>11 DEF Quiet
  <2>2. \A m \in alive \ (deleting.left \ {n}) : store'[m][k] = None
    BY <1>2, <1>3, <1>11
  <2> QED BY <2>1, <2>2
<1> QED BY <1>5, <1>6, <1>8, <1>9, <1>13, <1>14, <1>15 DEF IInv

-----------------------------------------------------------------------------
(* The invariant holds initially and is preserved.                           *)

\* What a node holds when the rounds begin is an entry.
LEMMA HeldIs == ASSUME NEW n \in Node, NEW k \in Key PROVE Held(n, k) \in Entry
<1> DEFINE ws == {w \in Early : n \in replicasOf[w] /\ keyOf[w] = k}
<1>1. ws \subseteq Write /\ MaxWrites \in Nat BY GossipAssumption
<1>2. CASE ws = {}
  BY <1>2, Entries DEF Held
<1>3. CASE ws # {}
  <2> DEFINE T == {MaxWrites - w : w \in ws}
  <2>1. T \subseteq Nat BY <1>1 DEF Write
  <2>2. T # {} BY <1>3
  <2> HIDE DEF T
  <2>3. PICK x \in T : \A y \in T : x <= y BY <2>1, <2>2, NatMin
  <2>4. PICK w \in ws : x = MaxWrites - w BY <2>3 DEF T
  <2>5. \A v \in ws : v <= w
    <3> SUFFICES ASSUME NEW v \in ws PROVE v <= w
      OBVIOUS
    <3>1. MaxWrites - v \in T BY DEF T
    <3>2. MaxWrites - w <= MaxWrites - v BY <2>3, <2>4, <3>1
    <3>3. v \in Int /\ w \in Int /\ MaxWrites \in Int BY <1>1 DEF Write
    <3> HIDE DEF ws
    <3> QED BY <3>2, <3>3
  <2>6. Held(n, k) = CHOOSE u \in ws : \A v \in ws : v <= u BY <1>3 DEF Held
  <2> HIDE DEF ws
  <2>7. Held(n, k) \in ws BY <2>5, <2>6
  <2> QED BY <1>1, <2>7, Entries
<1> QED BY <1>2, <1>3

LEMMA InitInvariant == Init => IInv
<1> SUFFICES ASSUME Init PROVE IInv
  OBVIOUS
<1>1. /\ alive = Node /\ store = [n \in Node |-> [k \in Key |-> Held(n, k)]]
      /\ ae = [n \in Node |-> Idle] /\ deleting = NoDelete /\ floor = store /\ gone = {}
  BY DEF Init
<1>2. store \in [Node -> [Key -> Entry]] BY <1>1, HeldIs
<1>3. /\ deleting \in [key : Key \cup {0}, left : SUBSET Node, clean : BOOLEAN]
      /\ deleting.left = {} /\ deleting.clean = FALSE
  BY <1>1 DEF NoDelete
<1>4. Idle \in Place /\ Idle.pc = "idle" /\ \A n \in Node : Sane(n, Idle) BY IdleIs
<1> HIDE DEF Idle
<1>5. ae \in [Node -> Place] /\ \A n \in Node : ae[n] = Idle BY <1>1, <1>4
<1>6. Types BY <1>1, <1>2, <1>3, <1>5 DEF Types
<1>7. Sanity BY <1>4, <1>5 DEF Sanity
<1>8. Weighed
  <2>1. \A n \in Node : ae[n].pc = "idle" BY <1>4, <1>5
  <2> QED BY <2>1 DEF Weighed, Weighs
<1>9. NoRegress
  <2>1. \A n \in Node, k \in Key : store[n][k] \in Nat BY <1>2, Entries
  <2>2. \A n \in Node, k \in Key : store[n][k] >= store[n][k] BY <2>1
  <2> QED BY <1>1, <2>2 DEF NoRegress
<1>10. GoneStaysGone /\ Forgotten BY <1>1 DEF GoneStaysGone, Forgotten, Forgets
<1>11. CleanDelete BY <1>3 DEF CleanDelete
<1> QED BY <1>6, <1>7, <1>8, <1>9, <1>10, <1>11 DEF IInv

LEMMA NextInvariant == IInv /\ [Next]_vars => IInv'
<1> SUFFICES ASSUME IInv, [Next]_vars PROVE IInv'
  OBVIOUS
<1>1. CASE UNCHANGED vars
  <2>1. UNCHANGED <<alive, store, ae, deleting, floor, gone>> BY <1>1 DEF vars
  <2>2. Types' /\ Sanity' /\ NoRegress' /\ GoneStaysGone' /\ CleanDelete'
    BY <2>1 DEF IInv, Types, Sanity, NoRegress, GoneStaysGone, CleanDelete, Quiet
  <2>3. Weighed' /\ Forgotten'
    BY <2>1 DEF IInv, Weighed, Weighs, Forgotten, Forgets
  <2> QED BY <2>2, <2>3 DEF IInv
<1>2. ASSUME NEW n \in Node, gossipRound(n) PROVE IInv' BY <1>2, GossipRoundPreserves
<1>3. ASSUME NEW n \in Node, Fetch(n) PROVE IInv' BY <1>3, FetchPreserves
<1>4. ASSUME NEW n \in Node, RpcFails(n) PROVE IInv' BY <1>4, RpcFailsPreserves
<1>5. ASSUME NEW n \in Node, Compare(n) PROVE IInv' BY <1>5, ComparePreserves
<1>6. ASSUME NEW n \in Node, Reconcile(n) PROVE IInv' BY <1>6, ReconcilePreserves
<1>7. ASSUME NEW n \in Node, Push(n) PROVE IInv' BY <1>7, PushPreserves
<1>8. ASSUME NEW n \in Node, Pull(n) PROVE IInv' BY <1>8, PullPreserves
<1>9. ASSUME NEW n \in Node, SyncEnd(n) PROVE IInv' BY <1>9, SyncEndPreserves
<1>10. ASSUME NEW n \in Node, NEW w \in Write, PutEntry(n, w) PROVE IInv' BY <1>10, PutEntryPreserves
<1>11. ASSUME NEW n \in Node, DeleteAt(n) PROVE IInv' BY <1>11, DeleteAtPreserves
<1>12. ASSUME NEW n \in Node, CrashNode(n) PROVE IInv' BY <1>12, CrashNodePreserves
<1>13. ASSUME NEW k \in Key, DeleteKey(k) PROVE IInv' BY <1>13, DeleteKeyPreserves
<1> QED
  BY <1>1, <1>2, <1>3, <1>4, <1>5, <1>6, <1>7, <1>8, <1>9, <1>10, <1>11, <1>12, <1>13 DEF Next

LEMMA Invariant == Spec => []IInv
BY InitInvariant, NextInvariant, PTL DEF Spec

-----------------------------------------------------------------------------

(***************************************************************************)
(* The state is well formed, and no node exchanges with itself.            *)
(***************************************************************************)
THEOREM TypeCorrect == Spec => []TypeOK
<1>1. IInv => TypeOK
  <2> SUFFICES ASSUME IInv PROVE TypeOK
    OBVIOUS
  <2>1. Tree \subseteq [Key -> Nat \cup {Absent}] BY Trees DEF AnyTree
  <2>2. ae \in [Node -> [pc : {"idle", "fetch", "compare", "key", "push", "pull"},
                      peers : SUBSET Node, peer : Node \cup {NoNode}, snap : [Key -> Entry],
                      tree : [Key -> Nat \cup {Absent}], todo : SUBSET Key, key : Key \cup {0}, entry : Entry]]
    BY <2>1 DEF IInv, Types, Place
  <2>3. \A n \in Node : n \notin ae[n].peers \cup {ae[n].peer} BY DEF IInv, Sanity, Sane
  <2> QED BY <2>2, <2>3 DEF IInv, Types, TypeOK
<1> QED BY <1>1, Invariant, PTL

(***************************************************************************)
(* Whatever rounds, lost calls and crashes interleave with it, a write     *)
(* that no exchange had already looked past is never replaced by an        *)
(* earlier one, until its key is deleted.                                  *)
(***************************************************************************)
THEOREM WritesStay == Spec => []NoRegress
BY Invariant, PTL DEF IInv

(***************************************************************************)
(* A key deleted while no round was under way is at no live node until it  *)
(* is written again.                                                       *)
(***************************************************************************)
THEOREM DeletedStaysDeleted == Spec => []GoneStaysGone
BY Invariant, PTL DEF IInv

(***************************************************************************)
(* At every comparison a round makes, Diff reports exactly the keys in     *)
(* which the own tree and the snapshot differ (an empty value and no entry *)
(* hash alike).                                                            *)
(***************************************************************************)
THEOREM ComparisonExact == Spec => []DiffExact
<1>1. IInv => DiffExact
  <2>1. ASSUME IInv, NEW n \in Node
        PROVE  LET t == ae[n].tree  u == treeOf(ae[n].snap) IN
               DiffOf[t, u] = {k \in Key : t[k] # u[k] /\ {t[k], u[k]} # {Absent, Empty}}
    <3> DEFINE t == ae[n].tree
               u == treeOf(ae[n].snap)
    <3>1. ae[n] \in Place BY <2>1, HereIs
    <3>2. t \in Tree BY <3>1, PlaceFields
    <3>3. ae[n].snap \in [Key -> Entry] BY <3>1, PlaceFields
    <3>4. u \in Tree BY <3>3, Trees
    <3> HIDE DEF t, u
    <3>5. DiffOf[t, u] = Diff(t, u) BY <3>2, <3>4, DiffOfIs
    <3>6. t \in AnyTree /\ u \in AnyTree BY <3>2, <3>4, Trees
    <3>7. DiffOf[t, u] = {k \in Key : t[k] # u[k] /\ {t[k], u[k]} # {Absent, Empty}}
      BY <3>5, <3>6, DiffFinds
    <3> QED BY <3>7 DEF t, u
  <2> QED BY <2>1 DEF DiffExact
<1> QED BY <1>1, Invariant, PTL

==============================================================================
