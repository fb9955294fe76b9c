----------------------------- MODULE MerkleTree -----------------------------
(***************************************************************************)
(* internal/store/merkle.go: the Merkle tree over a sorted set of keys and *)
(* the comparison of two trees.  A tree is the function from Key to the    *)
(* value stored, Absent where there is none.  SHA-1 is taken as injective: *)
(* a hash is the tuple it was computed from.                               *)
(***************************************************************************)
EXTENDS Integers, Sequences, FiniteSets

CONSTANT Key                      \* keys, numbers in the order of compareIDs

Absent == -1                      \* the key is not in the tree
Empty == 0                        \* the value of no bytes

ASSUME KeyAssumption == Key \subseteq Nat /\ IsFiniteSet(Key)

keysOf(tree) == {k \in Key : tree[k] # Absent}

\* SHA-1(key || value).  A key that is not in the map reads as nil, which hashes
\* as the empty value does.
leafHash(k, v) == <<k, IF v = Absent THEN Empty ELSE v, "leaf">>

\* m.keys: the keys of the tree, sorted.
sortedKeys(tree) ==
  LET K == keysOf(tree)
  IN  [i \in 1 .. Cardinality(K) |-> CHOOSE k \in K : Cardinality({j \in K : j <= k}) = i]

Leaves(tree) ==
  LET keys == sortedKeys(tree)
  IN  [i \in DOMAIN keys |-> leafHash(keys[i], tree[keys[i]])]

\* Mutant: an odd level is not padded.
ParentsUnpadded(hashes) == [i \in 1 .. Len(hashes) \div 2 |-> <<hashes[2 * i - 1], hashes[2 * i]>>]

\* One level up; an odd level is padded with its last hash.
Parents(hashes) ==
  LET h == IF Len(hashes) % 2 = 0 THEN hashes ELSE Append(hashes, hashes[Len(hashes)])
  IN  [i \in 1 .. Len(h) \div 2 |-> <<h[2 * i - 1], h[2 * i]>>]

\* A level on which every tree has come down to its root.
Top == Cardinality(Key)

\* Levels of the tree, 0 the leaves; from the root on they repeat it.
buildTreeLevels(tree) ==
  LET level[i \in 0 .. Top] ==
        IF i = 0 THEN Leaves(tree)
        ELSE LET below == level[i - 1] IN IF Len(below) <= 1 THEN below ELSE Parents(below)
  IN  level

\* buildRoot, merkleBuild; the empty tree has a root of its own.
Root(tree) == buildTreeLevels(tree)[Top]

\* The descent, level by level: from a node whose hashes differ to its two children.
\* It arrives at the indices of the leaves it reports.
descendDiff(a, b) ==
  LET node[l \in 0 .. Top] ==
        {j \in 1 .. Len(a[l]) : a[l][j] # b[l][j] /\ (l < Top => (j + 1) \div 2 \in node[l + 1])}
  IN  node[0]

\* Keys in which the trees differ: by descent when they have the same keys, else
\* by comparing the leaf hash of every key of either.
Diff(tree, other) ==
  IF Root(tree) = Root(other) THEN {}
  ELSE IF keysOf(tree) = keysOf(other)
  THEN LET keys == sortedKeys(tree)
       IN  {keys[i] : i \in descendDiff(buildTreeLevels(tree), buildTreeLevels(other))}
  ELSE {k \in keysOf(tree) \cup keysOf(other) : leafHash(k, tree[k]) # leafHash(k, other[k])}

=============================================================================
