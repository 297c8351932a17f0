------------------------------ MODULE TreeMath ------------------------------
(***************************************************************************)
(* The index arithmetic of the left-balanced binary tree under BeeKEM      *)
(* (beekem/tree-math.ts).  Leaves sit at even indices, internal nodes at   *)
(* odd ones, and the level of a node is the number of its trailing 1 bits. *)
(* The code works with bitwise operators on numbers far below 2^31; here   *)
(* each of them is the addition or subtraction it amounts to for a node of *)
(* level k: bits 0..k-1 of its index are 1 and bit k is 0.                 *)
(***************************************************************************)
EXTENDS Naturals, Sequences

(* Bit k of a number. *)
Bit(x, k) == (x \div (2 ^ k)) % 2

isLeaf(index) == index % 2 = 0

isInternal(index) == index % 2 = 1

(* The number of trailing 1 bits: the loop stops at the first 0 bit. *)
level[index \in Nat] ==
  CHOOSE k \in 0..index : Bit(index, k) = 0 /\ \A j \in 0..(k - 1) : Bit(index, j) = 1

nodeWidth[numLeaves \in Nat] == IF numLeaves = 0 THEN 0 ELSE 2 * numLeaves - 1

(* The position of the most significant 1 bit. *)
log2[x \in Nat] == IF x = 0 THEN 0 ELSE CHOOSE k \in 0..x : 2 ^ k <= x /\ x < 2 ^ (k + 1)

(* index ^ (1 << (k - 1)) clears bit k-1. *)
left[index \in Nat] == index - 2 ^ (level[index] - 1)

(* index ^ (0b11 << (k - 1)) clears bit k-1 and sets bit k; the clamp then *)
(* descends to the left until the node is in the tree.                     *)
clamp[r \in Nat, numLeaves \in Nat] ==
  IF r >= nodeWidth[numLeaves] THEN clamp[left[r], numLeaves] ELSE r

right[index \in Nat, numLeaves \in Nat] == clamp[index + 2 ^ (level[index] - 1), numLeaves]

(* (index | (1 << k)) & ~(1 << (k + 1)) sets bit k and clears bit k+1. *)
parentStep[index \in Nat] ==
  LET k == level[index]
  IN  index + 2 ^ k - Bit(index, k + 1) * 2 ^ (k + 1)

root[numLeaves \in Nat] == IF numLeaves = 1 THEN 0 ELSE 2 ^ log2[nodeWidth[numLeaves]] - 1

climb[p \in Nat, numLeaves \in Nat] ==
  IF p >= nodeWidth[numLeaves] THEN climb[parentStep[p], numLeaves] ELSE p

parentNoClimb == [index \in Nat, numLeaves \in Nat |-> parentStep[index]]

(* Called on a node that is not the root. *)
parent == [index \in Nat, numLeaves \in Nat |-> climb[parentStep[index], numLeaves]]

sibling[index \in Nat, numLeaves \in Nat] ==
  LET p == parent[index, numLeaves]
  IN  IF left[p] = index THEN right[p, numLeaves] ELSE left[p]

(* From the leaf, exclusive, to the root, inclusive. *)
directPath[leafIndex \in Nat, numLeaves \in Nat] ==
  IF numLeaves <= 1 \/ leafIndex = root[numLeaves] THEN << >>
  ELSE LET p == parent[leafIndex, numLeaves] IN <<p>> \o directPath[p, numLeaves]

(* The siblings of the leaf and of every node of its path but the root. *)
copath[leafIndex \in Nat, numLeaves \in Nat] ==
  LET nodes == <<leafIndex>> \o directPath[leafIndex, numLeaves]
  IN  [i \in 1..(Len(nodes) - 1) |-> sibling[nodes[i], numLeaves]]

leafToNodeIndex(leafPosition) == leafPosition * 2

(* Called on leaves only. *)
nodeToLeafIndex(nodeIndex) == nodeIndex \div 2

(* BeeKEM._isInSubtree: whether a leaf lies under a node, by the span of   *)
(* the node's level.                                                       *)
isInSubtree[leafIndex \in Nat, subtreeRoot \in Nat] ==
  \/ subtreeRoot = leafIndex
  \/ LET span == 2 ^ level[subtreeRoot]
     IN  /\ isInternal(subtreeRoot)
         /\ leafIndex >= subtreeRoot - span + 1
         /\ leafIndex <= subtreeRoot + span - 1

-----------------------------------------------------------------------------
(* The reference: the left-balanced tree over the leaf positions lo..hi-1. *)
(* Its left subtree holds the largest power of two of leaves that is less  *)
(* than their number, and its root is the index between the two subtrees.  *)
Balanced(n) == CHOOSE p \in 1..n : p < n /\ 2 * p >= n /\ \E k \in 0..n : p = 2 ^ k

RefRoot(lo, hi) == IF hi = lo + 1 THEN 2 * lo ELSE 2 * (lo + Balanced(hi - lo)) - 1

(* The nodes from the root of the subtree over lo..hi-1 down to a leaf. *)
RefDescent(lo0, hi0, pos) ==
  LET down[r \in Nat \X Nat] ==
        LET lo  == r[1]
            hi  == r[2]
            mid == lo + Balanced(hi - lo)
        IN  IF hi = lo + 1 THEN <<2 * lo>>
            ELSE <<RefRoot(lo, hi)>> \o (IF pos < mid THEN down[<<lo, mid>>] ELSE down[<<mid, hi>>])
  IN  down[<<lo0, hi0>>]

(* The other child at every step of the descent. *)
RefSiblings(lo0, hi0, pos) ==
  LET down[r \in Nat \X Nat] ==
        LET lo  == r[1]
            hi  == r[2]
            mid == lo + Balanced(hi - lo)
        IN  IF hi = lo + 1 THEN << >>
            ELSE IF pos < mid THEN <<RefRoot(mid, hi)>> \o down[<<lo, mid>>]
                 ELSE <<RefRoot(lo, mid)>> \o down[<<mid, hi>>]
  IN  down[<<lo0, hi0>>]
=============================================================================
