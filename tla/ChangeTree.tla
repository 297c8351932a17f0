----------------------------- MODULE ChangeTree -----------------------------
(***************************************************************************)
(* The change tree a sync message carries, and the operators of            *)
(* merkle-cross-links.ts on it.                                            *)
(*                                                                         *)
(* `_makeChange` puts its new node above the tree of the last sync message *)
(* (the primary parent, embedded whole) and beside it a few cross-links:   *)
(* deferred leaves that hold a CID and no payload.  So a tree is a spine   *)
(* of nodes with payload, each with a set of deferred leaves.  It is       *)
(* written here as the sequence of its spine, oldest node first:           *)
(*     << [cid |-> c1, links |-> L1], ..., [cid |-> cn, links |-> Ln] >>   *)
(* whose root (the message's changeId) is cn.  A block holds one change's  *)
(* payload and no links, so what lies below a deferred leaf cannot be      *)
(* reached from the leaf.                                                  *)
(***************************************************************************)
EXTENDS Integers, Sequences, FiniteSets

CONSTANTS Cids,           \* content identifiers of change blocks
          MaxRecentTips,  \* MAX_RECENT_TIPS (4 in the code)
          MaxCrossLinks   \* MAX_CROSS_LINKS (3 in the code)

ASSUME TipBoundsAssumption == /\ MaxRecentTips \in Nat \ {0}
                              /\ MaxCrossLinks \in Nat

Node == [cid : Cids, links : SUBSET Cids]
Tree == Seq(Node)

Inline(tree)   == {tree[i].cid : i \in DOMAIN tree}
Deferred(tree) == UNION {tree[i].links : i \in DOMAIN tree}

(* Every CID the tree names, with or without its payload.                  *)
collectAllCidsInTree(tree) == Inline(tree) \cup Deferred(tree)

treeContainsCid(tree, cid) == cid \in collectAllCidsInTree(tree)

(* Every CID that some node of the tree points to.                         *)
collectReferencedAncestors(tree) ==
  {tree[i].cid : i \in 1..(Len(tree) - 1)} \cup Deferred(tree)

(* The walk of mergeRemoteSyncTree goes down from the root and does not    *)
(* enter a node that is known: the nodes above the topmost known one.      *)
NewNodes(tree, known) ==
  LET top == CHOOSE i \in 0..Len(tree) :
               /\ i > 0 => tree[i].cid \in known
               /\ \A j \in (i + 1)..Len(tree) : tree[j].cid \notin known
  IN SubSeq(tree, top + 1, Len(tree))

(* Deferred leaves of those nodes, unless known or met with a payload.     *)
MissingCids(tree, known) ==
  LET new == NewNodes(tree, known)
  IN Deferred(new) \ (known \cup Inline(new))

-----------------------------------------------------------------------------
(* The newest n elements of a sequence kept newest-last.                   *)
Newest(seq, n) ==
  IF Len(seq) <= n THEN seq ELSE SubSeq(seq, Len(seq) - n + 1, Len(seq))

(* The elements of a sequence that are not in S, in their order.           *)
Without(seq, S) ==
  LET kept == {i \in DOMAIN seq : seq[i] \notin S}
      Nth(n) == CHOOSE i \in kept : Cardinality({j \in kept : j <= i}) = n
  IN [n \in 1..Cardinality(kept) |-> seq[Nth(n)]]

(* trackTipInList for each of the CIDs of fresh in turn: a tip moves to    *)
(* the end, and the oldest ones are evicted beyond MaxRecentTips.          *)
TrackTips(tips, fresh) ==
  Newest(Without(tips, {fresh[i] : i \in DOMAIN fresh}) \o fresh, MaxRecentTips)

trackTipInList(tips, cid) == TrackTips(tips, <<cid>>)

(* The newest tips but for the parent and the new change itself.           *)
selectCrossLinks(tips, primaryParent, newCid) ==
  LET candidates == {i \in DOMAIN tips : tips[i] \notin {primaryParent, newCid}}
      Newer(i) == {j \in candidates : j > i}
  IN {tips[i] : i \in {k \in candidates : Cardinality(Newer(k)) < MaxCrossLinks}}
=============================================================================
