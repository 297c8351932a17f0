-------------------------- MODULE CompactionProofs --------------------------
(***************************************************************************)
(* Proofs about Compaction, for any bounds and any interleaving of changes,*)
(* snapshots and received snapshots: the served tree keeps naming every ACL*)
(* change (AclInv); a snapshot covers its boundary (HistInv, SnapInv).     *)
(***************************************************************************)
EXTENDS Compaction, ProofLemmas

(* A set of indices of a sequence that is not empty has a greatest element, *)
(* so _pruneChanges' boundary is one of the nodes it has reached.           *)
LEMMA MaxIndex ==
  ASSUME NEW n \in Nat, NEW S \in SUBSET (1..n), S # {}
  PROVE  Max(S) \in S
<1> DEFINE T == {n - i : i \in S}
           R == OpToRel(<, Nat)
<1>1. IsWellFoundedOn(R, Nat)
  BY NatLessThanWellFounded, Zenon
<1>0. \A x, y \in Nat : x < y => <<x, y>> \in R
  BY DEF OpToRel
<1> HIDE DEF R
<1>2. T \subseteq Nat /\ T # {}
  <2>1. \A i \in S : i \in 1..n /\ n - i \in Nat
    OBVIOUS
  <2>2. PICK i \in S : TRUE
    BY Zenon
  <2>3. n - i \in T
    BY <2>2
  <2> QED
    BY <2>1, <2>3
<1>3. PICK m \in T : \A y \in T : <<y, m>> \notin R
  BY <1>1, <1>2, WFMin, Zenon
<1>4. PICK k \in S : m = n - k
  BY <1>3
<1>5. \A j \in S : k >= j
  <2> SUFFICES ASSUME NEW j \in S, ~(k >= j) PROVE FALSE
    OBVIOUS
  <2>1. n - j \in T /\ n - j \in Nat /\ m \in Nat /\ n - j < m
    BY <1>4
  <2>2. <<n - j, m>> \in R
    BY <2>1, <1>0
  <2> QED
    BY <2>1, <2>2, <1>3
<1> QED
  BY <1>4, <1>5, Zenon DEF Max

(* The boundary of a prune is a node of the tree, or there is none.         *)
LEMMA BoundaryIndex ==
  ASSUME NEW t, IsSequence(t), NEW k
  PROVE  Boundary(t, k) \in DOMAIN t \cup {0}
<1> DEFINE reached == {i \in DOMAIN t : /\ t[i].cid \notin acl
                                        /\ documentNodesVisited(t, i) >= k}
<1>1. Len(t) \in Nat /\ DOMAIN t = 1..Len(t)
  BY DEF IsSequence
<1>2. CASE reached = {}
  BY <1>2 DEF Boundary
<1>3. CASE reached # {}
  <2>1. reached \in SUBSET (1..Len(t))
    BY <1>1
  <2> HIDE DEF reached
  <2>2. Max(reached) \in reached
    BY <2>1, <1>1, <1>3, MaxIndex, Zenon
  <2>3. Boundary(t, k) = Max(reached)
    BY <1>3 DEF Boundary, reached
  <2> QED
    BY <2>1, <2>2, <2>3, <1>1, Zenon
<1> QED
  BY <1>2, <1>3

(* prunedTree: the nodes above the boundary stay as they are, and the       *)
(* boundary becomes the first node.                                         *)
LEMMA PrunedTreeShape ==
  ASSUME NEW t, IsSequence(t), NEW b \in DOMAIN t
  PROVE  /\ IsSequence(prunedTree(t, b))
         /\ 1 \in DOMAIN prunedTree(t, b)
         /\ prunedTree(t, b)[1] =
              [cid |-> t[b].cid,
               links |-> collectACLNodes(t, b).named \ collectACLNodes(t, b).payload,
               acl |-> collectACLNodes(t, b).payload]
         /\ \A i \in (b + 1)..Len(t) : /\ i - b + 1 \in DOMAIN prunedTree(t, b)
                                       /\ prunedTree(t, b)[i - b + 1] = t[i]
         /\ Len(prunedTree(t, b)) = 1 + Len(t) - b
<1> DEFINE kept == collectACLNodes(t, b)
           node == [cid |-> t[b].cid, links |-> kept.named \ kept.payload,
                    acl |-> kept.payload]
           rest == SubSeq(t, b + 1, Len(t))
           D == {t[i] : i \in DOMAIN t} \cup {node}
<1>1. Len(t) \in Nat /\ b \in 1..Len(t) /\ DOMAIN t = 1..Len(t)
  BY DEF IsSequence
<1>2. t \in Seq(D)
  <2>1. t \in Seq({t[i] : i \in DOMAIN t})
    BY DEF IsSequence
  <2> HIDE DEF node
  <2> QED
    BY <2>1
<1>3. node \in D
  OBVIOUS
<1> HIDE DEF node, D
<1>5. /\ rest \in Seq(D) /\ Len(rest) = Len(t) - b
      /\ \A i \in (b + 1)..Len(t) : rest[i - b] = t[i]
  <2>1. rest \in Seq(D)
    BY <1>1, <1>2
  <2>2. Len(rest) = Len(t) - b
    BY <1>1, <1>2
  <2>3. \A k \in 1..(Len(t) - b) : rest[k] = t[b + k]
    BY <1>1, <1>2
  <2>4. ASSUME NEW i \in (b + 1)..Len(t) PROVE rest[i - b] = t[i]
    <3>1. i - b \in 1..(Len(t) - b) /\ b + (i - b) = i
      BY <1>1
    <3> QED
      BY <2>3, <3>1
  <2> QED
    BY <2>1, <2>2, <2>4
<1>6. prunedTree(t, b) = <<node>> \o rest
  BY DEF prunedTree, node
<1> HIDE DEF rest
<1>7. /\ <<node>> \o rest \in Seq(D)
      /\ Len(<<node>> \o rest) = 1 + Len(t) - b
      /\ (<<node>> \o rest)[1] = node
      /\ \A i \in (b + 1)..Len(t) : (<<node>> \o rest)[i - b + 1] = rest[i - b]
  BY <1>1, <1>3, <1>5
<1>8. IsSequence(prunedTree(t, b))
  BY <1>6, <1>7, SequenceOfOwn, Zenon
<1>9. DOMAIN prunedTree(t, b) = 1..(1 + Len(t) - b)
  BY <1>6, <1>7
<1>10. ASSUME NEW i \in (b + 1)..Len(t)
       PROVE  /\ i - b + 1 \in DOMAIN prunedTree(t, b)
              /\ prunedTree(t, b)[i - b + 1] = t[i]
  BY <1>1, <1>5, <1>6, <1>7, <1>9
<1>11. 1 \in DOMAIN prunedTree(t, b) /\ prunedTree(t, b)[1] = node
  BY <1>1, <1>6, <1>7, <1>9
<1>12. Len(prunedTree(t, b)) = 1 + Len(t) - b
  BY <1>6, <1>7
<1> QED
  BY <1>8, <1>10, <1>11, <1>12 DEF node

(* _pruneChanges: pruning at any node leaves every ACL CID in the tree.     *)
LEMMA PruneKeepsAcl ==
  ASSUME NEW t, IsSequence(t), NEW b \in DOMAIN t
  PROVE  collectTreeCIDs(t) \cap acl \subseteq collectTreeCIDs(prunedTree(t, b))
<1> DEFINE p == prunedTree(t, b)
           below == SubSeq(t, 1, b)
           kept == collectACLNodes(t, b)
<1> SUFFICES ASSUME NEW c \in collectTreeCIDs(t) \cap acl
             PROVE  c \in collectTreeCIDs(p)
  OBVIOUS
<1>1. /\ Len(t) \in Nat /\ b \in 1..Len(t) /\ DOMAIN t = 1..Len(t)
      /\ DOMAIN below = 1..b
      /\ \A i \in 1..b : below[i] = t[i]
  BY DEF IsSequence
<1>2. PICK i \in 1..Len(t) : c = t[i].cid \/ c \in t[i].links \/ c \in t[i].acl
  BY <1>1 DEF collectTreeCIDs, collectAllCidsInTree, Inline, Deferred, AclLeaves
<1>3. /\ 1 \in DOMAIN p
      /\ p[1].cid = t[b].cid
      /\ p[1].links = kept.named \ kept.payload
      /\ p[1].acl = kept.payload
  <2>1. /\ 1 \in DOMAIN p
        /\ p[1] = [cid |-> t[b].cid, links |-> kept.named \ kept.payload,
                   acl |-> kept.payload]
    BY PrunedTreeShape
  <2> HIDE DEF p, kept
  <2> QED
    BY <2>1
<1>4. \A j \in (b + 1)..Len(t) : j - b + 1 \in DOMAIN p /\ p[j - b + 1] = t[j]
  BY PrunedTreeShape, Zenon
<1> HIDE DEF p
<1>5. \A j \in DOMAIN p : (c = p[j].cid \/ c \in p[j].links \/ c \in p[j].acl)
                            => c \in collectTreeCIDs(p)
  BY DEF collectTreeCIDs, collectAllCidsInTree, Inline, Deferred, AclLeaves
<1>6. CASE i > b
  BY <1>1, <1>2, <1>4, <1>5, <1>6
<1>7. CASE i = b /\ c = t[i].cid
  BY <1>3, <1>5, <1>7
<1>8. CASE i <= b /\ ~(i = b /\ c = t[i].cid)
  <2>1. c \in kept.named
    BY <1>1, <1>2, <1>8 DEF collectACLNodes, AclLeaves, Deferred
  <2> QED
    BY <2>1, <1>3, <1>5
<1> QED
  BY <1>1, <1>2, <1>6, <1>7, <1>8

-----------------------------------------------------------------------------
IsCall(r) == r = [pc |-> r.pc, cid |-> r.cid, auto |-> r.auto, snapshot |-> r.snapshot]

(* A call that goes on to its next await keeps what it holds.               *)
LEMMA CallAt ==
  ASSUME NEW r, IsCall(r), NEW p
  PROVE  /\ IsCall([r EXCEPT !.pc = p])
         /\ [r EXCEPT !.pc = p].pc = p
         /\ [r EXCEPT !.pc = p].snapshot = r.snapshot
<1>1. [r EXCEPT !.pc = p] = [pc |-> p, cid |-> r.cid, auto |-> r.auto, snapshot |-> r.snapshot]
  BY DEF IsCall
<1> QED
  BY <1>1 DEF IsCall

(* The inductive invariant: a new change gets a CID that was not served, as *)
(* local CIDs are handed out in order and a peer's snapshot names none that *)
(* is not known here.                                                       *)
AclInv ==
  /\ IsSequence(history) /\ IsSequence(tree)
  /\ call = [x \in Calls |-> call[x]]
  /\ \A x \in Calls : IsCall(call[x])
  /\ \E n \in Nat : hashes \cap Cids = 1..n
  /\ Served \subseteq hashes \cap Cids
  /\ \A x \in Calls : call[x].pc = "signMessage" => call[x].cid \in hashes \cap Cids
  /\ \A x \in Calls : call[x].pc = "verifySnapshot" =>
                        call[x].snapshot.lastChangeNodeCID \in hashes \cup Foreign
  /\ AclNodesNamed

(* Init: nothing is served, and nothing is known.                           *)
LEMMA AclInit == Init => AclInv
<1> SUFFICES ASSUME Init PROVE AclInv
  OBVIOUS
<1>1. IsSequence(history) /\ IsSequence(tree) /\ DOMAIN history = {}
  BY DEF Init, IsSequence
<1>2. hashes \cap Cids = 1..0
  BY DEF Init
<1>3. Served = {}
  BY <1>1 DEF Served
<1>4. call = [x \in Calls |-> Idle] /\ IsCall(Idle) /\ Idle.pc = "idle"
  BY DEF Init, IsCall, Idle, Await
<1> HIDE DEF Idle
<1> QED
  BY <1>1, <1>2, <1>3, <1>4 DEF AclInv, AclNodesNamed

(* What a step that leaves the history, the trees and the known CIDs alone  *)
(* has to preserve: the calls that hold a change or a peer's snapshot.      *)
LEMMA QuietStep ==
  ASSUME AclInv, UNCHANGED <<history, acl, tree, hashes>>, NEW x \in Calls, NEW r,
         call' = [call EXCEPT ![x] = r], IsCall(r), r.pc # "signMessage",
         r.pc = "verifySnapshot" => r.snapshot.lastChangeNodeCID \in hashes \cup Foreign
  PROVE  AclInv'
<1>1. /\ call' = [y \in Calls |-> call'[y]]
      /\ call'[x] = r /\ \A y \in Calls \ {x} : call'[y] = call[y]
  BY DEF AclInv
<1>2. Served' = Served /\ AclNodesNamed'
  BY DEF Served, AclInv, AclNodesNamed, collectTreeCIDs, collectAllCidsInTree, Inline,
         Deferred, AclLeaves
<1>3. IsSequence(history)' /\ IsSequence(tree)'
  BY DEF AclInv, IsSequence
<1>4. \A y \in Calls : IsCall(call[y])'
  BY <1>1 DEF AclInv, IsCall
<1>5. /\ \E n \in Nat : hashes' \cap Cids = 1..n
      /\ Served' \subseteq hashes' \cap Cids
  BY <1>2 DEF AclInv
<1>6. \A y \in Calls : /\ call'[y].pc = "signMessage" => call'[y].cid \in hashes' \cap Cids
                       /\ call'[y].pc = "verifySnapshot" =>
                            call'[y].snapshot.lastChangeNodeCID \in hashes' \cup Foreign
  BY <1>1 DEF AclInv
<1> QED
  BY <1>1, <1>2, <1>3, <1>4, <1>5, <1>6 DEF AclInv

(* Change: the new CID is not one that has been served.                     *)
LEMMA ChangeStep ==
  ASSUME AclInv, NEW x \in Calls, Change(x)
  PROVE  AclInv'
<1> DEFINE c == 1 + Cardinality(hashes \cap Cids)
           r == Await("signMessage", c, FALSE, None)
<1>1. PICK n \in Nat : hashes \cap Cids = 1..n
  BY DEF AclInv
<1>2. c = n + 1
  <2>1. Cardinality(1..n) = IF 1 > n THEN 0 ELSE n - 1 + 1
    BY FS_Interval, 1 \in Int, n \in Int
  <2>2. Cardinality(hashes \cap Cids) = Cardinality(1..n)
    BY <1>1, Zenon
  <2>3. Cardinality(1..n) = n
    BY <2>1
  <2> QED
    BY <2>2, <2>3
<1> HIDE DEF c
<1>3. c \in Cids /\ hashes' = hashes \cup {c} /\ call' = [call EXCEPT ![x] = r]
  BY DEF Change, c
<1>4. hashes' \cap Cids = 1..(n + 1)
  <2>1. hashes' \cap Cids = (1..n) \cup {c}
    BY <1>1, <1>3
  <2> QED
    BY <2>1, <1>2
<1>5. UNCHANGED <<history, tree>> /\ acl' \subseteq acl \cup {c}
  BY DEF Change, c
<1>6. c \notin Served
  BY <1>1, <1>2 DEF AclInv
<1>7. Served' = Served
  BY <1>5 DEF Served
<1>8. AclNodesNamed'
  <2>1. collectTreeCIDs(tree)' = collectTreeCIDs(tree)
    BY <1>5 DEF collectTreeCIDs, collectAllCidsInTree, Inline, Deferred, AclLeaves
  <2> QED
    BY <2>1, <1>5, <1>6, <1>7 DEF AclNodesNamed, AclInv
<1>9. r.pc = "signMessage" /\ r.cid = c /\ IsCall(r)
  BY DEF Await, IsCall
<1> HIDE DEF r
<1>10. /\ call' = [y \in Calls |-> call'[y]]
       /\ call'[x] = r /\ \A y \in Calls \ {x} : call'[y] = call[y]
  BY <1>3 DEF AclInv
<1>11. IsSequence(history)' /\ IsSequence(tree)'
  BY <1>5 DEF AclInv, IsSequence
<1>12. \A y \in Calls : IsCall(call[y])'
  BY <1>9, <1>10 DEF AclInv, IsCall
<1>13. \A y \in Calls : /\ call'[y].pc = "signMessage" => call'[y].cid \in hashes' \cap Cids
                        /\ call'[y].pc = "verifySnapshot" =>
                             call'[y].snapshot.lastChangeNodeCID \in hashes' \cup Foreign
  BY <1>3, <1>9, <1>10 DEF AclInv
<1>14. /\ \E m \in Nat : hashes' \cap Cids = 1..m
       /\ Served' \subseteq hashes' \cap Cids
  BY <1>3, <1>4, <1>7 DEF AclInv
<1> QED
  BY <1>8, <1>10, <1>11, <1>12, <1>13, <1>14 DEF AclInv

(* SetLastSyncMessage: the new node is named, and what was named still is.  *)
LEMMA SetLastStep ==
  ASSUME AclInv, NEW x \in Calls, SetLastSyncMessage(x)
  PROVE  AclInv'
<1> DEFINE c == call[x].cid
           r == IF c \in acl THEN Idle ELSE [call[x] EXCEPT !.pc = "publish"]
<1>1. PICK node : node.cid = c /\ tree' = Append(tree, node)
  BY DEF SetLastSyncMessage
<1>2. /\ history' = Append(history, c) /\ call' = [call EXCEPT ![x] = r]
      /\ UNCHANGED <<acl, hashes>> /\ c \in hashes \cap Cids
  BY DEF SetLastSyncMessage, AclInv
<1>3. IsCall(r) /\ r.pc \in {"idle", "publish"}
  <2>1. CASE c \in acl
    <3>1. r = [pc |-> "idle", cid |-> 0, auto |-> FALSE, snapshot |-> None]
      BY <2>1 DEF Idle, Await
    <3> QED
      BY <3>1 DEF IsCall
  <2>2. CASE c \notin acl
    <3>1. r = [call[x] EXCEPT !.pc = "publish"] /\ IsCall(call[x])
      BY <2>2 DEF AclInv
    <3> HIDE DEF r
    <3>2. IsCall([call[x] EXCEPT !.pc = "publish"])
      BY <3>1, CallAt
    <3>3. [call[x] EXCEPT !.pc = "publish"].pc = "publish"
      BY <3>1, CallAt
    <3> QED
      BY <3>1, <3>2, <3>3
  <2> QED
    BY <2>1, <2>2
<1> HIDE DEF c, r
<1>4. /\ IsSequence(tree') /\ DOMAIN tree' = DOMAIN tree \cup {Len(tree) + 1}
      /\ tree'[Len(tree) + 1] = node
      /\ \A i \in DOMAIN tree : tree'[i] = tree[i]
  BY <1>1, AppendShape DEF AclInv
<1>5. /\ IsSequence(history') /\ DOMAIN history' = DOMAIN history \cup {Len(history) + 1}
      /\ history'[Len(history) + 1] = c
      /\ \A i \in DOMAIN history : history'[i] = history[i]
  BY <1>2, AppendShape DEF AclInv
<1>6. Served' = Served \cup {c}
  BY <1>5 DEF Served
<1>7. collectTreeCIDs(tree) \cup {c} \subseteq collectTreeCIDs(tree')
  BY <1>1, <1>4 DEF collectTreeCIDs, collectAllCidsInTree, Inline, Deferred, AclLeaves
<1>8. AclNodesNamed'
  BY <1>2, <1>6, <1>7 DEF AclInv, AclNodesNamed
<1>9. /\ call' = [y \in Calls |-> call'[y]]
      /\ call'[x] = r /\ \A y \in Calls \ {x} : call'[y] = call[y]
  BY <1>2 DEF AclInv
<1>10. \A y \in Calls : IsCall(call[y])'
  BY <1>3, <1>9 DEF AclInv, IsCall
<1>11. \A y \in Calls : /\ call'[y].pc = "signMessage" => call'[y].cid \in hashes' \cap Cids
                        /\ call'[y].pc = "verifySnapshot" =>
                             call'[y].snapshot.lastChangeNodeCID \in hashes' \cup Foreign
  BY <1>2, <1>3, <1>9 DEF AclInv
<1>12. /\ \E m \in Nat : hashes' \cap Cids = 1..m
       /\ Served' \subseteq hashes' \cap Cids
  BY <1>2, <1>6 DEF AclInv
<1> QED
  BY <1>4, <1>5, <1>8, <1>9, <1>10, <1>11, <1>12 DEF AclInv

(* Install: the tree is pruned, at a node of it or not at all.              *)
LEMMA InstallStep ==
  ASSUME AclInv, NEW x \in Calls, NEW s, Install(x, s)
  PROVE  AclInv'
<1>1. /\ UNCHANGED <<history, acl, hashes>> /\ call' = [call EXCEPT ![x] = Idle]
      /\ PruneAndCollect(s.lastChangeNodeCID)
  BY DEF Install, Release
<1>2. /\ IsSequence(tree')
      /\ collectTreeCIDs(tree) \cap acl \subseteq collectTreeCIDs(tree')
  <2> DEFINE b == Boundary(tree, KeepRecentNodes)
  <2>1. b \in DOMAIN tree \cup {0} /\ IsSequence(tree)
    BY BoundaryIndex DEF AclInv
  <2>2. CASE tree' = tree
    BY <2>1, <2>2
  <2>3. CASE b # 0 /\ tree' = prunedTree(tree, b)
    <3> HIDE DEF b
    <3>1. b \in DOMAIN tree
      BY <2>1, <2>3
    <3>2. IsSequence(prunedTree(tree, b))
      BY <2>1, <3>1, PrunedTreeShape, Zenon
    <3>3. collectTreeCIDs(tree) \cap acl \subseteq collectTreeCIDs(prunedTree(tree, b))
      BY <2>1, <3>1, PruneKeepsAcl
    <3> QED
      BY <2>3, <3>2, <3>3
  <2>4. tree' = tree \/ (b # 0 /\ tree' = prunedTree(tree, b))
    BY <1>1 DEF PruneAndCollect
  <2> QED
    BY <2>2, <2>3, <2>4
<1>3. Served' = Served /\ IsSequence(history')
  BY <1>1 DEF Served, AclInv
<1>4. AclNodesNamed'
  BY <1>1, <1>2, <1>3 DEF AclInv, AclNodesNamed
<1>5. /\ call' = [y \in Calls |-> call'[y]]
      /\ call'[x] = Idle /\ \A y \in Calls \ {x} : call'[y] = call[y]
  BY <1>1 DEF AclInv
<1>6. IsCall(Idle) /\ Idle.pc = "idle"
  BY DEF IsCall, Idle, Await
<1>7. \A y \in Calls : IsCall(call[y])'
  BY <1>5, <1>6 DEF AclInv, IsCall
<1>8. \A y \in Calls : /\ call'[y].pc = "signMessage" => call'[y].cid \in hashes' \cap Cids
                       /\ call'[y].pc = "verifySnapshot" =>
                            call'[y].snapshot.lastChangeNodeCID \in hashes' \cup Foreign
  BY <1>1, <1>5, <1>6 DEF AclInv
<1>9. /\ \E m \in Nat : hashes' \cap Cids = 1..m
      /\ Served' \subseteq hashes' \cap Cids
  BY <1>1, <1>3 DEF AclInv
<1> QED
  BY <1>2, <1>3, <1>4, <1>5, <1>7, <1>8, <1>9 DEF AclInv

(* PeerSnapshots: a peer's snapshot names a change known here, or its own.  *)
LEMMA PeerBoundary ==
  ASSUME AclInv, NEW s \in PeerSnapshots
  PROVE  s.lastChangeNodeCID \in hashes \cup Foreign
<1>1. IsSequence(history) /\ DOMAIN history = 1..Len(history) /\ Len(history) \in Nat
  BY DEF AclInv, IsSequence
<1>2. s.lastChangeNodeCID \in Served \cup Foreign
  BY <1>1 DEF PeerSnapshots, Served
<1> QED
  BY <1>2 DEF AclInv

(* applySnapshot: the boundary of a peer's snapshot hands out no local CID. *)
LEMMA ApplyStep ==
  ASSUME AclInv, NEW s, s.lastChangeNodeCID \in hashes \cup Foreign, applySnapshot(s),
         call' = call \/ \E x \in Calls : call' = [call EXCEPT ![x] = Idle]
  PROVE  AclInv'
<1>1. /\ UNCHANGED <<history, acl, tree>>
      /\ hashes' = hashes \cup {s.lastChangeNodeCID}
  BY DEF applySnapshot
<1>2. hashes' \cap Cids = hashes \cap Cids
  BY <1>1, CompactionAssumption, ZenonT(30) DEF CompactionAssumption
<1>3. Served' = Served /\ AclNodesNamed'
  BY <1>1 DEF Served, AclInv, AclNodesNamed, collectTreeCIDs, collectAllCidsInTree, Inline,
              Deferred, AclLeaves
<1>4. IsSequence(history') /\ IsSequence(tree')
  BY <1>1 DEF AclInv
<1>5. IsCall(Idle) /\ Idle.pc = "idle"
  BY DEF IsCall, Idle, Await
<1>6. /\ call' = [y \in Calls |-> call'[y]]
      /\ \A y \in Calls : call'[y] \in {call[y], Idle}
  BY DEF AclInv
<1>7. \A y \in Calls : IsCall(call[y])'
  BY <1>5, <1>6 DEF AclInv, IsCall
<1>8. \A y \in Calls : /\ call'[y].pc = "signMessage" => call'[y].cid \in hashes' \cap Cids
                       /\ call'[y].pc = "verifySnapshot" =>
                            call'[y].snapshot.lastChangeNodeCID \in hashes' \cup Foreign
  BY <1>1, <1>5, <1>6 DEF AclInv
<1>9. /\ \E m \in Nat : hashes' \cap Cids = 1..m
      /\ Served' \subseteq hashes' \cap Cids
  BY <1>2, <1>3 DEF AclInv
<1> QED
  BY <1>3, <1>4, <1>6, <1>7, <1>8, <1>9 DEF AclInv

(* Every step preserves the invariant.                                      *)
LEMMA AclStep == AclInv /\ [Next]_vars => AclInv'
<1> SUFFICES ASSUME AclInv, [Next]_vars PROVE AclInv'
  OBVIOUS
<1>0. IsCall(Idle) /\ Idle.pc = "idle" /\ \A x \in Calls : IsCall(call[x])
  BY DEF IsCall, Idle, Await, AclInv
<1>1. ASSUME NEW x \in Calls, Change(x) PROVE AclInv'
  BY <1>1, ChangeStep
<1>2. ASSUME NEW x \in Calls, SetLastSyncMessage(x) PROVE AclInv'
  BY <1>2, SetLastStep
<1>3. ASSUME NEW x \in Calls, CountChange(x) PROVE AclInv'
  <2> DEFINE due == Await("checkWriter", 0, TRUE, None)
  <2>1. IsCall(due) /\ due.pc = "checkWriter"
    BY DEF IsCall, Await
  <2> HIDE DEF due
  <2>2. PICK r \in {due, Idle} : call' = [call EXCEPT ![x] = r]
    BY <1>3, Zenon DEF CountChange, due
  <2>3. UNCHANGED <<history, acl, tree, hashes>>
    BY <1>3 DEF CountChange, changeVars
  <2>4. IsCall(r) /\ r.pc \in {"idle", "checkWriter"}
    BY <1>0, <2>1, <2>2
  <2> QED
    BY <2>2, <2>3, <2>4, QuietStep, ZenonT(30)
<1>4. ASSUME NEW x \in Calls,
             SignFails(x) \/ PublishFails(x) \/ SnapshotFails(x) \/ SnapshotRejected(x)
      PROVE AclInv'
  <2>1. UNCHANGED <<history, acl, tree, hashes>> /\ call' = [call EXCEPT ![x] = Idle]
    BY <1>4 DEF SignFails, PublishFails, SnapshotFails, SnapshotRejected, Release, changeVars
  <2> QED
    BY <1>0, <2>1, QuietStep, ZenonT(30)
<1>5. ASSUME NEW x \in Calls, WriterChecked(x) \/ ManualSnapshot(x) PROVE AclInv'
  <2>1. UNCHANGED <<history, acl, tree, hashes>>
    BY <1>5 DEF WriterChecked, ManualSnapshot, changeVars
  <2>2. CASE call' = [call EXCEPT ![x] = Idle]
    BY <1>0, <2>1, <2>2, QuietStep, Zenon
  <2>3. CASE call' = [call EXCEPT ![x].pc = "ensureWriter"]
    <3> DEFINE r == [call[x] EXCEPT !.pc = "ensureWriter"]
    <3>1. IsCall(r) /\ r.pc = "ensureWriter"
      BY <1>0, CallAt
    <3>2. call' = [call EXCEPT ![x] = r]
      BY <2>3
    <3> HIDE DEF r
    <3> QED
      BY <2>1, <3>1, <3>2, QuietStep, Zenon
  <2> QED
    BY <1>5, <2>2, <2>3 DEF WriterChecked, ManualSnapshot
<1>6. ASSUME NEW x \in Calls, CaptureSnapshot(x) PROVE AclInv'
  <2>1. CASE Signing
    <3> DEFINE r == Await("signSnapshot", 0, call[x].auto, capture)
    <3>1. IsCall(r) /\ r.pc = "signSnapshot"
      BY DEF IsCall, Await
    <3>2. call' = [call EXCEPT ![x] = r]
      BY <1>6, <2>1 DEF CaptureSnapshot
    <3>3. UNCHANGED <<history, acl, tree, hashes>>
      BY <1>6, <2>1 DEF CaptureSnapshot, changeVars
    <3> HIDE DEF r
    <3> QED
      BY <3>1, <3>2, <3>3, QuietStep, ZenonT(30)
  <2>2. CASE ~Signing
    BY <1>6, <2>2, InstallStep DEF CaptureSnapshot
  <2> QED
    BY <2>1, <2>2
<1>7. ASSUME NEW x \in Calls, InstallSnapshot(x) PROVE AclInv'
  BY <1>7, InstallStep DEF InstallSnapshot
<1>8. ASSUME NEW x \in Calls, ReceiveSnapshot(x) PROVE AclInv'
  <2>1. PICK s \in PeerSnapshots :
          IF Signing
          THEN /\ call' = [call EXCEPT ![x] = Await("verifySnapshot", 0, FALSE, s)]
               /\ UNCHANGED <<changeVars, counters, snapshotVars>>
          ELSE applySnapshot(s) /\ UNCHANGED call
    BY <1>8, Zenon DEF ReceiveSnapshot
  <2>2. s.lastChangeNodeCID \in hashes \cup Foreign
    BY PeerBoundary
  <2>3. CASE Signing
    <3> DEFINE r == Await("verifySnapshot", 0, FALSE, s)
    <3>1. IsCall(r) /\ r.pc = "verifySnapshot" /\ r.snapshot = s
      BY DEF IsCall, Await
    <3>2. call' = [call EXCEPT ![x] = r]
      BY <2>1, <2>3, Zenon
    <3>3. UNCHANGED <<history, acl, tree, hashes>>
      BY <2>1, <2>3 DEF changeVars
    <3> HIDE DEF r
    <3> QED
      BY <2>2, <3>1, <3>2, <3>3, QuietStep, ZenonT(30)
  <2>4. CASE ~Signing
    BY <2>1, <2>2, <2>4, ApplyStep
  <2> QED
    BY <2>3, <2>4
<1>9. ASSUME NEW x \in Calls, SnapshotVerified(x) PROVE AclInv'
  <2>1. /\ applySnapshot(call[x].snapshot) /\ call' = [call EXCEPT ![x] = Idle]
        /\ call[x].snapshot.lastChangeNodeCID \in hashes \cup Foreign
    BY <1>9 DEF SnapshotVerified, AclInv
  <2> QED
    BY <2>1, ApplyStep, Zenon
<1>10. ASSUME UNCHANGED <<history, acl, tree, hashes, call>> PROVE AclInv'
  <2>1. Served' = Served /\ collectTreeCIDs(tree)' = collectTreeCIDs(tree)
    BY <1>10 DEF Served, collectTreeCIDs, collectAllCidsInTree, Inline, Deferred, AclLeaves
  <2>2. AclNodesNamed'
    BY <1>10, <2>1 DEF AclInv, AclNodesNamed
  <2>3. IsSequence(history)' /\ IsSequence(tree)' /\ \A x \in Calls : IsCall(call[x])'
    BY <1>10 DEF AclInv, IsSequence, IsCall
  <2> QED
    BY <1>10, <2>1, <2>2, <2>3 DEF AclInv
<1>11. ASSUME NEW c \in gc, DeleteBlock(c) PROVE AclInv'
  BY <1>10, <1>11 DEF DeleteBlock, changeVars
<1>12. CASE UNCHANGED vars
  BY <1>10, <1>12 DEF vars
<1> QED
  BY <1>1, <1>2, <1>3, <1>4, <1>5, <1>6, <1>7, <1>8, <1>9, <1>11, <1>12
  DEF Next, Continue

(* _pruneChanges: with any bound on the nodes kept, any number of prunes    *)
(* and any interleaving of changes, snapshots and received snapshots, the   *)
(* served tree names every ACL change that was ever served.                 *)
THEOREM AclChangesStayNamed == Spec => []AclNodesNamed
<1>1. AclInv => AclNodesNamed
  BY DEF AclInv
<1> QED
  BY AclInit, AclStep, <1>1, PTL DEF Spec

-----------------------------------------------------------------------------
(* The second invariant: what the counters, the history and the snapshots   *)
(* hold, for SnapshotCoversBoundary.                                        *)
(* collectTreeCIDs, node by node.                                           *)
LEMMA NamedBy ==
  ASSUME NEW t, NEW c
  PROVE  c \in collectTreeCIDs(t) <=>
           \E i \in DOMAIN t : c = t[i].cid \/ c \in t[i].links \/ c \in t[i].acl
BY DEF collectTreeCIDs, collectAllCidsInTree, Inline, Deferred, AclLeaves

(* The fields of the nodes of a tree.                                       *)
LEMMA TreeNodeFields ==
  ASSUME NEW t \in Seq(TreeNode), NEW i \in DOMAIN t
  PROVE  t[i].cid \in Cids /\ t[i].links \subseteq Cids /\ t[i].acl \subseteq Cids
<1>1. t[i] \in TreeNode
  OBVIOUS
<1> QED
  BY <1>1 DEF TreeNode

(* prunedTree, index by index.                                              *)
LEMMA PrunedTreeNodes ==
  ASSUME NEW t, IsSequence(t), NEW b \in DOMAIN t, NEW k \in DOMAIN prunedTree(t, b), k # 1
  PROVE  k + b - 1 \in DOMAIN t /\ prunedTree(t, b)[k] = t[k + b - 1]
<1> DEFINE p == prunedTree(t, b)
<1>1. Len(t) \in Nat /\ b \in 1..Len(t) /\ DOMAIN t = 1..Len(t)
  BY SequenceShape
<1>2. IsSequence(p) /\ Len(p) = 1 + Len(t) - b
  BY PrunedTreeShape, ZenonT(30)
<1>3. DOMAIN p = 1..Len(p)
  BY <1>2, SequenceShape
<1>4. \A i \in (b + 1)..Len(t) : p[i - b + 1] = t[i]
  BY PrunedTreeShape, Zenon
<1> HIDE DEF p
<1>5. k \in 1..(1 + Len(t) - b)
  BY <1>2, <1>3 DEF p
<1>6. k + b - 1 \in (b + 1)..Len(t) /\ (k + b - 1) - b + 1 = k
  BY <1>1, <1>5
<1>7. p[(k + b - 1) - b + 1] = t[k + b - 1]
  BY <1>4, <1>6
<1> QED
  BY <1>1, <1>6, <1>7 DEF p

(* _pruneChanges: the tree that remains has the same root, and names only   *)
(* what the tree named before.                                              *)
LEMMA PrunedTreeNames ==
  ASSUME NEW t \in Seq(TreeNode), NEW b \in DOMAIN t
  PROVE  /\ prunedTree(t, b) \in Seq(TreeNode)
         /\ collectTreeCIDs(prunedTree(t, b)) \subseteq collectTreeCIDs(t)
         /\ Root(prunedTree(t, b)) = Root(t)
<1> DEFINE p == prunedTree(t, b)
           below == SubSeq(t, 1, b)
           kept == collectACLNodes(t, b)
<1>1. IsSequence(t) /\ Len(t) \in Nat /\ b \in 1..Len(t) /\ DOMAIN t = 1..Len(t)
  BY SequenceOfOwn
<1>2. IsSequence(p) /\ Len(p) = 1 + Len(t) - b /\ 1 \in DOMAIN p
  BY <1>1, PrunedTreeShape, Zenon
<1>3. p[1] = [cid |-> t[b].cid, links |-> kept.named \ kept.payload, acl |-> kept.payload]
  BY <1>1, PrunedTreeShape, Zenon
<1>4. DOMAIN p = 1..Len(p)
  BY <1>2, SequenceShape
<1>5. \A k \in DOMAIN p : k # 1 => k + b - 1 \in DOMAIN t /\ p[k] = t[k + b - 1]
  BY <1>1, PrunedTreeNodes
<1>6. /\ DOMAIN below = 1..b
      /\ \A i \in 1..b : below[i] = t[i]
  BY <1>1
<1>7. \A c \in kept.named \cup kept.payload :
        \E i \in DOMAIN t : c = t[i].cid \/ c \in t[i].links \/ c \in t[i].acl
  <2> DEFINE inline == {t[j].cid : j \in 1..(b - 1)} \cap acl
  <2>1. \A j \in 1..(b - 1) : j \in DOMAIN t
    BY <1>1
  <2>2. \A c \in inline : \E i \in DOMAIN t : c = t[i].cid
    BY <2>1
  <2>3. \A c \in AclLeaves(below) : \E i \in 1..b : c \in t[i].acl
    BY <1>6 DEF AclLeaves
  <2>4. \A c \in Deferred(below) : \E i \in 1..b : c \in t[i].links
    BY <1>6 DEF Deferred
  <2>5. 1..b \subseteq DOMAIN t
    BY <1>1
  <2>6. /\ kept.named = inline \cup AclLeaves(below) \cup (Deferred(below) \cap acl)
        /\ kept.payload \subseteq inline \cup AclLeaves(below)
    BY DEF collectACLNodes
  <2> HIDE DEF inline, below, kept
  <2> QED
    BY <2>2, <2>3, <2>4, <2>5, <2>6
<1>8. \A i \in DOMAIN t : t[i].cid \in Cids /\ t[i].links \subseteq Cids /\ t[i].acl \subseteq Cids
  BY TreeNodeFields
<1>9. kept.named \subseteq Cids /\ kept.payload \subseteq Cids
  BY <1>7, <1>8
<1> HIDE DEF p, kept, below
<1>10. p[1] \in TreeNode
  BY <1>3, <1>8, <1>9 DEF TreeNode
<1>11. \A k \in DOMAIN p : p[k] \in TreeNode
  BY <1>1, <1>5, <1>10
<1>12. p \in Seq(TreeNode)
  <2>1. p \in Seq({p[i] : i \in DOMAIN p})
    BY <1>2 DEF IsSequence
  <2>2. {p[i] : i \in DOMAIN p} \subseteq TreeNode
    BY <1>11
  <2> HIDE DEF TreeNode
  <2> QED
    BY <2>1, <2>2
<1>13. ASSUME NEW c \in collectTreeCIDs(p) PROVE c \in collectTreeCIDs(t)
  <2>1. PICK k \in DOMAIN p : c = p[k].cid \/ c \in p[k].links \/ c \in p[k].acl
    BY NamedBy
  <2>2. CASE k = 1
    <3>1. c = t[b].cid \/ c \in kept.named \cup kept.payload
      BY <2>1, <2>2, <1>3
    <3> QED
      BY <3>1, <1>7, <1>1, NamedBy
  <2>3. CASE k # 1
    BY <2>1, <2>3, <1>5, NamedBy
  <2> QED
    BY <2>2, <2>3
<1>14. Root(p) = Root(t)
  <2>1. Root(t) = t[Len(t)].cid
    BY <1>1 DEF Root
  <2>2. Root(p) = p[Len(p)].cid
    BY <1>2, <1>4, <1>1, SequenceShape DEF Root
  <2>3. CASE b = Len(t)
    <3>1. Len(p) = 1
      BY <1>1, <1>2, <2>3
    <3> QED
      BY <2>1, <2>2, <3>1, <2>3, <1>3
  <2>4. CASE b # Len(t)
    <3>1. Len(p) # 1 /\ Len(p) \in DOMAIN p /\ Len(p) + b - 1 = Len(t)
      BY <1>1, <1>2, <1>4, <2>4
    <3>2. p[Len(p)] = t[Len(p) + b - 1]
      BY <3>1, <1>5, Zenon
    <3> QED
      BY <2>1, <2>2, <3>1, <3>2
  <2> QED
    BY <2>3, <2>4
<1> QED
  BY <1>12, <1>13, <1>14 DEF p

(* A snapshot represents its boundary and every change of the history h     *)
(* below it, but for the ACL changes a.                                     *)
CoversIn(s, h, a) ==
  /\ s \in Snapshot
  /\ s.lastChangeNodeCID \in Elements(h) \cup Foreign \cup {0}
  /\ \A i \in DOMAIN h : h[i] = s.lastChangeNodeCID =>
       \A j \in 1..i : h[j] \in s.state \cup a

(* The snapshot a call holds across an await does so too.                   *)
HoldIn(r, h, a) ==
  /\ r.pc \in {"signSnapshot", "verifySnapshot"} => CoversIn(r.snapshot, h, a)
  /\ r.pc = "verifySnapshot" => r.snapshot.lastChangeNodeCID \in r.snapshot.state

Unset(x) == call[x].pc = "signMessage"

(* What is known is merged, or an ACL change; nothing is served twice.      *)
MergedInv ==
  /\ IsInjective(history)
  /\ acl \subseteq hashes /\ hashes \subseteq document \cup acl

TipsInv == IsInjective(tips) /\ Elements(tips) \subseteq hashes

RootInv == Root(tree) = IF history = <<>> THEN 0 ELSE history[Len(history)]

(* A change that is being signed is not served, and no other call's.        *)
UnsetInv ==
  /\ \A x \in Calls : Unset(x) => call[x].cid \notin Served \cup Elements(tips)
  /\ \A x, y \in Calls : Unset(x) /\ Unset(y) /\ call[x].cid = call[y].cid => x = y

HistInv == TypeOK /\ MergedInv /\ TipsInv /\ RootInv /\ UnsetInv

SnapInv ==
  /\ latest # None => CoversIn(latest, history, acl)
  /\ \A x \in Calls : HoldIn(call[x], history, acl)

(* The calls are records of the fields the code's closures hold.            *)
LEMMA CallTypes == TypeOK => call \in [Calls -> CallRecord] /\ tree \in Seq(TreeNode)
BY DEF TypeOK

(* Await: the fields of a call that waits.                                  *)
LEMMA AwaitRecord ==
  ASSUME NEW p \in {"idle", "signMessage", "publish", "checkWriter", "ensureWriter",
                    "signSnapshot", "verifySnapshot"},
         NEW c \in Cids \cup {0}, NEW a \in BOOLEAN, NEW s \in Snapshot \cup {None}
  PROVE  /\ Await(p, c, a, s) \in CallRecord
         /\ Await(p, c, a, s).pc = p /\ Await(p, c, a, s).cid = c
         /\ Await(p, c, a, s).auto = a /\ Await(p, c, a, s).snapshot = s
<1> HIDE DEF Snapshot
<1> QED
  BY DEF Await, CallRecord

(* An idle call holds nothing.                                              *)
LEMMA IdleRecord ==
  /\ Idle \in CallRecord /\ Idle.pc = "idle"
  /\ \A h, a : HoldIn(Idle, h, a)
<1>1. Idle \in CallRecord /\ Idle.pc = "idle"
  <2>1. None \in Snapshot \cup {None}
    OBVIOUS
  <2> HIDE DEF Snapshot
  <2> QED
    BY <2>1 DEF Idle, Await, CallRecord
<1> QED
  BY <1>1 DEF HoldIn

(* A call that goes on to another await keeps its record.                   *)
LEMMA GoesOn ==
  ASSUME NEW r \in CallRecord, NEW p \in {"publish", "ensureWriter"}
  PROVE  /\ [r EXCEPT !.pc = p] \in CallRecord
         /\ [r EXCEPT !.pc = p].pc = p
         /\ \A h, a : HoldIn([r EXCEPT !.pc = p], h, a)
<1>1. [r EXCEPT !.pc = p] \in CallRecord /\ [r EXCEPT !.pc = p].pc = p
  <2> HIDE DEF Snapshot
  <2> QED
    BY DEF CallRecord
<1> QED
  BY <1>1 DEF HoldIn

(* A new change at the end of the history is below no known boundary.       *)
LEMMA CoversAppend ==
  ASSUME NEW h \in Seq(Cids), NEW s, NEW a, CoversIn(s, h, a),
         NEW c \in Cids, c \notin Elements(h), c # 0
  PROVE  CoversIn(s, Append(h, c), a)
<1> DEFINE g == Append(h, c)
<1>1. IsSequence(h) /\ DOMAIN h = 1..Len(h) /\ Len(h) \in Nat
  BY SequenceOfOwn
<1>2. /\ DOMAIN g = DOMAIN h \cup {Len(h) + 1} /\ g[Len(h) + 1] = c
      /\ \A i \in DOMAIN h : g[i] = h[i]
  BY <1>1, AppendShape
<1> HIDE DEF g
<1>3. Elements(h) \subseteq Elements(g)
  BY <1>2 DEF Elements
<1>4. c # s.lastChangeNodeCID
  BY CompactionAssumption, Zenon DEF CoversIn, CompactionAssumption
<1>5. ASSUME NEW i \in DOMAIN g, g[i] = s.lastChangeNodeCID, NEW j \in 1..i
      PROVE  g[j] \in s.state \cup a
  <2>1. i \in DOMAIN h /\ j \in DOMAIN h
    BY <1>1, <1>2, <1>4, <1>5
  <2>2. g[i] = h[i] /\ g[j] = h[j]
    BY <2>1, <1>2
  <2> QED
    BY <2>1, <2>2, <1>5, ZenonT(30) DEF CoversIn
<1> QED
  BY <1>3, <1>5 DEF CoversIn, g

(* capture: what snapshot() takes down covers the whole history.            *)
LEMMA CaptureCovers ==
  ASSUME AclInv, HistInv
  PROVE  CoversIn(capture, history, acl)
<1>1. /\ capture.state = document /\ capture.lastChangeNodeCID = Root(tree)
  BY DEF capture
<1>2. /\ history \in Seq(Cids) /\ Len(history) \in Nat /\ DOMAIN history = 1..Len(history)
  BY DEF HistInv, TypeOK
<1>3. Root(tree) \in Elements(history) \cup {0}
  <2>1. CASE history = <<>>
    BY <2>1 DEF HistInv, RootInv
  <2>2. CASE history # <<>>
    <3>1. Len(history) \in DOMAIN history
      BY <1>2, <2>2
    <3> QED
      BY <3>1, <2>2 DEF HistInv, RootInv, Elements
  <2> QED
    BY <2>1, <2>2
<1>4. Elements(history) \subseteq Cids
  BY <1>2 DEF Elements
<1>5. capture \in Snapshot
  <2>1. document \subseteq Cids \cup Foreign /\ documentChangeCount \in Nat
    BY DEF HistInv, TypeOK
  <2>2. Root(tree) \in Cids \cup Foreign \cup {0}
    BY <1>3, <1>4
  <2> QED
    BY <2>1, <2>2 DEF capture, Snapshot
<1>6. \A j \in DOMAIN history : history[j] \in document \cup acl
  BY DEF AclInv, HistInv, MergedInv, Served
<1> HIDE DEF capture
<1> QED
  BY <1>1, <1>2, <1>3, <1>5, <1>6 DEF CoversIn

(* PeerSnapshots: a peer's snapshot covers the prefix of the history that   *)
(* it was made of, and represents its own boundary.                         *)
LEMMA PeerCovers ==
  ASSUME HistInv, NEW s \in PeerSnapshots
  PROVE  CoversIn(s, history, acl) /\ s.lastChangeNodeCID \in s.state
<1> DEFINE Prefix(n) == {history[i] : i \in 1..n}
<1>1. /\ history \in Seq(Cids) /\ Len(history) \in Nat /\ DOMAIN history = 1..Len(history)
      /\ IsInjective(history)
  BY DEF HistInv, TypeOK, MergedInv
<1>a. PICK n \in 0..Len(history), f \in SUBSET Foreign :
        \E c \in (Prefix(n) \ acl) \cup f :
          s = [state |-> (Prefix(n) \ acl) \cup f, lastChangeNodeCID |-> c,
               compactedCount |-> Cardinality((Prefix(n) \ acl) \cup f)]
  <2> DEFINE Of(u) == {[state |-> u, lastChangeNodeCID |-> c,
                        compactedCount |-> Cardinality(u)] : c \in u}
             Union(n, f) == (Prefix(n) \ acl) \cup f
             States == {Union(n, f) : n \in 0..Len(history), f \in SUBSET Foreign}
  <2>1. PeerSnapshots = UNION {Of(u) : u \in States}
    BY DEF PeerSnapshots
  <2> HIDE DEF Union
  <2>2. \A u \in States : \E n \in 0..Len(history), f \in SUBSET Foreign : u = Union(n, f)
    OBVIOUS
  <2>3. \A u : \A v \in Of(u) : \E c \in u :
          v = [state |-> u, lastChangeNodeCID |-> c, compactedCount |-> Cardinality(u)]
    OBVIOUS
  <2> HIDE DEF Of, States
  <2>4. PICK u \in States : s \in Of(u)
    BY <2>1
  <2>5. PICK n \in 0..Len(history), f \in SUBSET Foreign : u = Union(n, f)
    BY <2>2
  <2> QED
    BY <2>3, <2>4, <2>5, ZenonT(30) DEF Union
<1>2. PICK c \in (Prefix(n) \ acl) \cup f :
        s = [state |-> (Prefix(n) \ acl) \cup f, lastChangeNodeCID |-> c,
             compactedCount |-> Cardinality((Prefix(n) \ acl) \cup f)]
  BY <1>a, ZenonT(30)
<1> DEFINE st == (Prefix(n) \ acl) \cup f
<1>3. n \in Nat /\ 1..n \subseteq DOMAIN history
  BY <1>1, <1>2
<1>4. Prefix(n) \subseteq Cids /\ Prefix(n) \subseteq Elements(history)
  BY <1>1, <1>3 DEF Elements
<1>5. st \in SUBSET (Cids \cup Foreign)
  BY <1>2, <1>4
<1>6. Cardinality(st) \in Nat
  <2>1. IsFiniteSet(1..n)
    BY <1>3, FS_Interval, 1 \in Int, n \in Int
  <2>2. IsFiniteSet(Prefix(n))
    BY <2>1, <1>1, <1>3, AsManyElements
  <2>3. IsFiniteSet(Prefix(n) \ acl) /\ IsFiniteSet(f)
    BY <2>2, FS_Subset, CompactionAssumption, ZenonT(30) DEF CompactionAssumption
  <2>4. IsFiniteSet(st)
    BY <2>3, FS_Union, ZenonT(30)
  <2> QED
    BY <2>4, FS_CardinalityType
<1>7. /\ s.state = st /\ s.lastChangeNodeCID = c /\ c \in st
      /\ s.compactedCount = Cardinality(st)
  BY <1>2
<1>8. s \in Snapshot
  <2>1. s = [state |-> st, lastChangeNodeCID |-> c, compactedCount |-> Cardinality(st)]
    BY <1>2
  <2> HIDE DEF st
  <2>2. c \in Cids \cup Foreign \cup {0}
    BY <1>5, <1>7
  <2> QED
    BY <2>1, <2>2, <1>5, <1>6 DEF Snapshot
<1>9. c \in Elements(history) \cup Foreign
  BY <1>4, <1>2
<1>10. ASSUME NEW i \in DOMAIN history, history[i] = c, NEW j \in 1..i
       PROVE  history[j] \in st \cup acl
  <2>1. c \in Cids /\ c \notin Foreign
    <3>1. history[i] \in Cids
      BY <1>1
    <3> QED
      BY <3>1, <1>10, CompactionAssumption, ZenonT(30)
  <2>2. c \in Prefix(n)
    BY <2>1, <1>2
  <2>3. PICK k \in 1..n : history[k] = c
    BY <2>2
  <2>4. i = k
    BY <2>3, <1>3, <1>10, <1>1 DEF IsInjective
  <2>5. j \in 1..n
    BY <2>3, <2>4, <1>1, <1>3
  <2> QED
    BY <2>5
<1> HIDE DEF st
<1> QED
  BY <1>7, <1>8, <1>9, <1>10 DEF CoversIn

(* Init: nothing is served, tracked or captured.                            *)
LEMMA CoverInit == Init => HistInv /\ SnapInv
<1> SUFFICES ASSUME Init PROVE HistInv /\ SnapInv
  OBVIOUS
<1>1. /\ history = <<>> /\ acl = {} /\ tree = <<>> /\ tips = <<>> /\ document = {}
      /\ hashes = {} /\ documentChangeCount = 0 /\ changesSinceSnapshot = 0
      /\ latest = None /\ compactionInProgress = FALSE /\ gc = {} /\ deleted = {}
      /\ call = [x \in Calls |-> Idle]
  BY DEF Init
<1>2. \A x \in Calls : call[x] = Idle /\ ~Unset(x) /\ HoldIn(call[x], history, acl)
  BY <1>1, IdleRecord DEF Unset
<1>3. call \in [Calls -> CallRecord]
  BY <1>1, IdleRecord
<1>4. TypeOK
  <2>1. history \in Seq(Cids) /\ tips \in Seq(Cids) /\ Len(tips) <= MaxRecentTips
    BY <1>1, TipBoundsAssumption
  <2>2. tree \in Seq(TreeNode)
    BY <1>1
  <2>3. /\ acl \subseteq Cids /\ document \subseteq Cids \cup Foreign
        /\ hashes \subseteq Cids \cup Foreign
        /\ gc \subseteq Cids /\ deleted \subseteq Cids
    BY <1>1
  <2>4. {documentChangeCount, changesSinceSnapshot} \subseteq Nat
    BY <1>1
  <2>5. latest \in Snapshot \cup {None}
    BY <1>1
  <2>6. compactionInProgress \in BOOLEAN
    BY <1>1, ZenonT(30)
  <2> QED
    BY <1>3, <2>1, <2>2, <2>3, <2>4, <2>5, <2>6, ZenonT(30) DEF TypeOK
<1>5. IsInjective(history) /\ IsInjective(tips) /\ Elements(tips) = {}
  BY <1>1, EmptyIsSequence DEF IsInjective, Elements
<1>6. Root(tree) = IF history = <<>> THEN 0 ELSE history[Len(history)]
  BY <1>1 DEF Root
<1>7. MergedInv /\ TipsInv /\ RootInv /\ UnsetInv
  BY <1>1, <1>2, <1>5, <1>6 DEF MergedInv, TipsInv, RootInv, UnsetInv
<1>8. SnapInv
  BY <1>1, <1>2 DEF SnapInv
<1> QED
  BY <1>4, <1>7, <1>8 DEF HistInv

(* A step that makes no change known and tracks no tip: what it does to the *)
(* tree must leave the root, and a snapshot it keeps must cover.            *)
LEMMA CoverQuiet ==
  ASSUME HistInv, SnapInv, UNCHANGED <<history, acl, tips, document, hashes>>,
         tree' \in Seq(TreeNode), Root(tree') = Root(tree),
         NEW x \in Calls, NEW r \in CallRecord, call' = [call EXCEPT ![x] = r],
         r.pc # "signMessage", HoldIn(r, history, acl),
         latest' \in Snapshot \cup {None},
         latest' # None => CoversIn(latest', history, acl),
         documentChangeCount' \in Nat, changesSinceSnapshot' \in Nat,
         compactionInProgress' \in BOOLEAN, gc' \subseteq Cids, deleted' \subseteq Cids
  PROVE  HistInv' /\ SnapInv'
<1>1. call \in [Calls -> CallRecord]
  BY CallTypes DEF HistInv
<1>2. /\ call' \in [Calls -> CallRecord]
      /\ call'[x] = r /\ \A y \in Calls \ {x} : call'[y] = call[y]
  BY <1>1
<1>3. TypeOK'
  BY <1>2 DEF HistInv, TypeOK
<1>4. Served' = Served
  BY Zenon DEF Served
<1>5. \A y \in Calls : Unset(y)' => y # x /\ Unset(y)
  BY <1>2 DEF Unset
<1>6. UnsetInv'
  BY <1>2, <1>4, <1>5 DEF HistInv, UnsetInv
<1>7. MergedInv' /\ TipsInv' /\ RootInv'
  BY DEF HistInv, MergedInv, TipsInv, RootInv
<1>8. HistInv'
  BY <1>3, <1>6, <1>7 DEF HistInv
<1>9. \A y \in Calls : HoldIn(call'[y], history', acl')
  BY <1>2 DEF SnapInv
<1> QED
  BY <1>8, <1>9 DEF SnapInv

(* trackTipInList: the change of a call becomes a tip; no other call's.     *)
LEMMA TipStep ==
  ASSUME AclInv, HistInv, NEW x \in Calls, Unset(x),
         tips' = trackTipInList(tips, call[x].cid)
  PROVE  /\ call[x].cid \in Cids /\ call[x].cid # 0
         /\ call[x].cid \in hashes /\ call[x].cid \notin Elements(history)
         /\ tips' \in Seq(Cids) /\ Len(tips') <= MaxRecentTips /\ IsInjective(tips')
         /\ Elements(tips') \subseteq hashes
         /\ \A y \in Calls \ {x} : Unset(y) => call[y].cid \notin Elements(tips')
<1> DEFINE c == call[x].cid
<1>1. c \in hashes \cap Cids /\ \E n \in Nat : hashes \cap Cids = 1..n
  BY DEF AclInv, Unset
<1>2. c # 0
  BY <1>1
<1>3. c \notin Elements(history)
  BY DEF HistInv, UnsetInv, Served, Elements
<1>4. tips \in Seq(Cids) /\ IsInjective(tips) /\ Elements(tips) \subseteq hashes
  BY DEF HistInv, TypeOK, TipsInv
<1> HIDE DEF c
<1>5. /\ tips' \in Seq(Cids) /\ Len(tips') <= MaxRecentTips /\ IsInjective(tips')
      /\ Elements(tips') \subseteq Elements(tips) \cup {c}
  BY <1>1, <1>4, TrackTipShape DEF c
<1>6. \A y \in Calls \ {x} : Unset(y) => call[y].cid # c /\ call[y].cid \notin Elements(tips)
  BY DEF HistInv, UnsetInv, c
<1> QED
  BY <1>1, <1>2, <1>3, <1>4, <1>5, <1>6 DEF c

(* SignFails: the change stays known and becomes a tip.                     *)
LEMMA SignFailsCover ==
  ASSUME AclInv, HistInv, SnapInv, NEW x \in Calls, SignFails(x)
  PROVE  HistInv' /\ SnapInv'
<1>1. /\ Unset(x) /\ tips' = trackTipInList(tips, call[x].cid)
      /\ call' = [call EXCEPT ![x] = Idle]
      /\ UNCHANGED <<history, acl, tree, document, hashes, documentChangeCount,
                     changesSinceSnapshot, latest, compactionInProgress, gc, deleted>>
  BY DEF SignFails, Unset, counters, snapshotVars
<1>2. /\ tips' \in Seq(Cids) /\ Len(tips') <= MaxRecentTips /\ IsInjective(tips')
      /\ Elements(tips') \subseteq hashes
      /\ \A y \in Calls \ {x} : Unset(y) => call[y].cid \notin Elements(tips')
  BY <1>1, TipStep
<1>3. call \in [Calls -> CallRecord]
  BY CallTypes DEF HistInv
<1>4. /\ call' \in [Calls -> CallRecord]
      /\ call'[x] = Idle /\ \A y \in Calls \ {x} : call'[y] = call[y]
  BY <1>1, <1>3, IdleRecord
<1>5. TypeOK'
  BY <1>1, <1>2, <1>4 DEF HistInv, TypeOK
<1>6. \A y \in Calls : Unset(y)' => y # x /\ Unset(y)
  BY <1>4, IdleRecord DEF Unset
<1>7. Served' = Served
  BY <1>1 DEF Served
<1>8. UnsetInv'
  BY <1>2, <1>4, <1>6, <1>7 DEF HistInv, UnsetInv
<1>9. MergedInv' /\ TipsInv' /\ RootInv'
  BY <1>1, <1>2 DEF HistInv, MergedInv, TipsInv, RootInv
<1>10. HistInv'
  BY <1>5, <1>8, <1>9 DEF HistInv
<1>11. \A y \in Calls : HoldIn(call'[y], history', acl')
  BY <1>1, <1>4, IdleRecord DEF SnapInv
<1> QED
  BY <1>1, <1>10, <1>11 DEF SnapInv

(* SetLastSyncMessage: the change goes to the end of the history, and its   *)
(* node above the tree.                                                     *)
LEMMA SetLastCover ==
  ASSUME AclInv, HistInv, SnapInv, NEW x \in Calls, SetLastSyncMessage(x)
  PROVE  HistInv' /\ SnapInv'
<1> DEFINE c == call[x].cid
           links == IF tree = <<>> THEN {} ELSE selectCrossLinks(tips, Root(tree), c)
           node == [cid |-> c, links |-> links, acl |-> {}]
           r == IF c \in acl THEN Idle ELSE [call[x] EXCEPT !.pc = "publish"]
<1>1. /\ Unset(x) /\ tips' = trackTipInList(tips, c)
      /\ history' = Append(history, c) /\ tree' = Append(tree, node)
      /\ call' = [call EXCEPT ![x] = r]
      /\ UNCHANGED <<acl, document, hashes, documentChangeCount,
                     changesSinceSnapshot, latest, compactionInProgress, gc, deleted>>
  BY DEF SetLastSyncMessage, Unset, counters, snapshotVars
<1>2. /\ c \in Cids /\ c # 0 /\ c \in hashes /\ c \notin Elements(history)
  BY <1>1, TipStep
<1>3. /\ tips' \in Seq(Cids) /\ Len(tips') <= MaxRecentTips /\ IsInjective(tips')
      /\ Elements(tips') \subseteq hashes
      /\ \A y \in Calls \ {x} : Unset(y) => call[y].cid \notin Elements(tips')
  BY <1>1, TipStep
<1>4. call \in [Calls -> CallRecord] /\ tree \in Seq(TreeNode) /\ history \in Seq(Cids)
  BY CallTypes DEF HistInv, TypeOK
<1>5. r \in CallRecord /\ r.pc \in {"idle", "publish"} /\ \A h, a : HoldIn(r, h, a)
  BY <1>4, IdleRecord, GoesOn, ZenonT(30)
<1> HIDE DEF r
<1>6. /\ call' \in [Calls -> CallRecord]
      /\ call'[x] = r /\ \A y \in Calls \ {x} : call'[y] = call[y]
  BY <1>1, <1>4, <1>5
<1>7. node \in TreeNode
  <2>1. links \subseteq Elements(tips)
    BY LinksAreTips
  <2>2. Elements(tips) \subseteq Cids
    BY DEF HistInv, TypeOK, Elements
  <2> HIDE DEF links, c
  <2> QED
    BY <1>2, <2>1, <2>2 DEF TreeNode
<1> HIDE DEF c, node
<1>8. history' \in Seq(Cids) /\ tree' \in Seq(TreeNode)
  BY <1>1, <1>2, <1>4, <1>7
<1>9. TypeOK'
  BY <1>1, <1>3, <1>6, <1>8 DEF HistInv, TypeOK
<1>10. /\ IsSequence(history') /\ Len(history') = Len(history) + 1
       /\ DOMAIN history' = DOMAIN history \cup {Len(history) + 1}
       /\ history'[Len(history) + 1] = c
       /\ \A i \in DOMAIN history : history'[i] = history[i]
  BY <1>1, AppendShape DEF AclInv
<1>11. IsInjective(history')
  <2>1. IsInjective(history) /\ \A i \in DOMAIN history : history[i] # c
    BY <1>2 DEF HistInv, MergedInv, Elements
  <2> QED
    BY <2>1, <1>10 DEF IsInjective
<1>12. RootInv'
  <2>1. tree' # <<>> /\ tree'[Len(tree')] = node
    <3>1. IsSequence(tree)
      BY DEF AclInv
    <3>2. Len(tree') = Len(tree) + 1 /\ tree'[Len(tree) + 1] = node /\ IsSequence(tree')
      BY <1>1, <3>1, AppendShape
    <3>3. Len(tree) \in Nat /\ (tree' = <<>> <=> Len(tree') = 0)
      BY <3>1, <3>2, SequenceShape
    <3> QED
      BY <3>2, <3>3
  <2>2. Root(tree') = node.cid
    BY <2>1 DEF Root
  <2>3. history' # <<>> /\ history'[Len(history')] = c
    BY <1>1, <1>2, <1>4
  <2>4. node.cid = c
    BY DEF node, c
  <2> QED
    BY <2>2, <2>3, <2>4 DEF RootInv
<1>13. Served' = Served \cup {c}
  BY <1>10 DEF Served
<1>14. \A y \in Calls : Unset(y)' => y # x /\ Unset(y)
  BY <1>5, <1>6 DEF Unset
<1>15. \A y \in Calls \ {x} : Unset(y) => call[y].cid # c /\ call[y].cid \notin Served
  BY <1>1 DEF HistInv, UnsetInv, c
<1>16. UnsetInv'
  BY <1>3, <1>6, <1>13, <1>14, <1>15 DEF HistInv, UnsetInv
<1>17. MergedInv' /\ TipsInv'
  BY <1>1, <1>3, <1>11 DEF HistInv, MergedInv, TipsInv
<1>18. HistInv'
  BY <1>9, <1>12, <1>16, <1>17 DEF HistInv
<1>19. \A s : CoversIn(s, history, acl) => CoversIn(s, history', acl')
  BY <1>1, <1>2, <1>4, CoversAppend
<1>20. \A y \in Calls : HoldIn(call'[y], history', acl')
  <2>1. \A y \in Calls : HoldIn(call[y], history, acl) => HoldIn(call[y], history', acl')
    BY <1>19 DEF HoldIn
  <2> QED
    BY <2>1, <1>5, <1>6 DEF SnapInv
<1> QED
  BY <1>1, <1>18, <1>19, <1>20 DEF SnapInv

(* Change: the CID of the new block is not known yet.                       *)
LEMMA FreshCid ==
  ASSUME AclInv, 1 + Cardinality(hashes \cap Cids) \in Cids
  PROVE  1 + Cardinality(hashes \cap Cids) \notin hashes
<1>1. PICK n \in Nat : hashes \cap Cids = 1..n
  BY DEF AclInv
<1>2. Cardinality(1..n) = IF 1 > n THEN 0 ELSE n - 1 + 1
  BY FS_Interval, 1 \in Int, n \in Int
<1>3. Cardinality(hashes \cap Cids) = n
  <2>1. Cardinality(1..n) = n
    BY <1>2
  <2>2. Cardinality(hashes \cap Cids) = Cardinality(1..n)
    BY <1>1, Zenon
  <2> QED
    BY <2>1, <2>2
<1>4. n + 1 \notin 1..n
  OBVIOUS
<1> QED
  BY <1>1, <1>3, <1>4

(* Change: the change is merged, or an ACL change, before it is known.      *)
LEMMA ChangeCover ==
  ASSUME AclInv, HistInv, SnapInv, NEW x \in Calls, Change(x)
  PROVE  HistInv' /\ SnapInv'
<1> DEFINE c == 1 + Cardinality(hashes \cap Cids)
           r == Await("signMessage", c, FALSE, None)
<1>1. /\ c \in Cids /\ hashes' = hashes \cup {c} /\ call' = [call EXCEPT ![x] = r]
      /\ \/ document' = document \cup {c} /\ acl' = acl
         \/ document' = document /\ acl' = acl \cup {c}
      /\ UNCHANGED <<history, tree, tips, documentChangeCount,
                     changesSinceSnapshot, latest, compactionInProgress, gc, deleted>>
  BY DEF Change, counters, snapshotVars
<1>2. c \notin hashes
  BY <1>1, FreshCid
<1> HIDE DEF c
<1>3. r \in CallRecord /\ r.pc = "signMessage" /\ r.cid = c /\ \A h, a : HoldIn(r, h, a)
  <2>1. r \in CallRecord /\ r.pc = "signMessage" /\ r.cid = c
    BY <1>1 DEF Await, CallRecord
  <2> QED
    BY <2>1, ZenonT(30) DEF HoldIn
<1> HIDE DEF r
<1>4. call \in [Calls -> CallRecord]
  BY CallTypes DEF HistInv
<1>5. /\ call' \in [Calls -> CallRecord]
      /\ call'[x] = r /\ \A y \in Calls \ {x} : call'[y] = call[y]
  BY <1>1, <1>3, <1>4
<1>6. TypeOK'
  BY <1>1, <1>5 DEF HistInv, TypeOK
<1>7. Served' = Served /\ c \notin Served /\ c \notin Elements(tips)
  BY <1>1, <1>2 DEF Served, AclInv, HistInv, TipsInv
<1>8. \A y \in Calls \ {x} : Unset(y)' => Unset(y) /\ call[y].cid # c
  BY <1>2, <1>5 DEF Unset, AclInv
<1>9. UnsetInv'
  BY <1>1, <1>3, <1>5, <1>7, <1>8, ZenonT(30) DEF HistInv, UnsetInv
<1>10. MergedInv' /\ TipsInv' /\ RootInv'
  BY <1>1 DEF HistInv, MergedInv, TipsInv, RootInv
<1>11. HistInv'
  BY <1>6, <1>9, <1>10 DEF HistInv
<1>12. \A s : CoversIn(s, history, acl) => CoversIn(s, history', acl')
  BY <1>1 DEF CoversIn
<1>13. \A y \in Calls : HoldIn(call'[y], history', acl')
  <2>1. \A y \in Calls : HoldIn(call[y], history, acl) => HoldIn(call[y], history', acl')
    BY <1>12 DEF HoldIn
  <2> QED
    BY <2>1, <1>3, <1>5, Zenon DEF SnapInv
<1> QED
  BY <1>1, <1>11, <1>12, <1>13 DEF SnapInv

(* PruneAndCollect: the root stays, and what is handed to the GC was named. *)
LEMMA PruneShape ==
  ASSUME HistInv, NEW k, PruneAndCollect(k)
  PROVE  /\ tree' \in Seq(TreeNode) /\ Root(tree') = Root(tree)
         /\ gc' \subseteq Cids
<1> DEFINE b == Boundary(tree, KeepRecentNodes)
<1>1. tree \in Seq(TreeNode) /\ gc \subseteq Cids
  BY CallTypes DEF HistInv, TypeOK
<1>2. b \in DOMAIN tree \cup {0}
  BY <1>1, SequenceOfOwn, BoundaryIndex
<1>3. CASE UNCHANGED <<tree, gc>>
  BY <1>1, <1>3
<1>4. CASE /\ b # 0 /\ tree' = prunedTree(tree, b)
           /\ gc' = gc \cup filterDeletableCIDs(prunedCIDs(tree, b), prunedTree(tree, b), {k})
  <2> HIDE DEF b
  <2>1. b \in DOMAIN tree
    BY <1>2, <1>4
  <2>2. tree' \in Seq(TreeNode) /\ Root(tree') = Root(tree)
    BY <1>1, <1>4, <2>1, PrunedTreeNames
  <2>3. prunedCIDs(tree, b) \subseteq Cids
    <3> DEFINE below == SubSeq(tree, 1, b)
    <3>1. DOMAIN below = 1..b /\ \A i \in 1..b : below[i] = tree[i] /\ i \in DOMAIN tree
      BY <1>1, <2>1
    <3>2. \A i \in DOMAIN tree : /\ tree[i].cid \in Cids /\ tree[i].links \subseteq Cids
                                 /\ tree[i].acl \subseteq Cids
      BY <1>1, TreeNodeFields
    <3> HIDE DEF below
    <3>3. ASSUME NEW c \in collectTreeCIDs(below) PROVE c \in Cids
      <4>1. PICK i \in DOMAIN below :
              c = below[i].cid \/ c \in below[i].links \/ c \in below[i].acl
        BY NamedBy
      <4> QED
        BY <3>1, <3>2, <4>1
    <3> QED
      BY <3>3 DEF prunedCIDs, below
  <2> QED
    BY <1>1, <1>4, <2>2, <2>3 DEF filterDeletableCIDs
<1> QED
  BY <1>3, <1>4, ZenonT(30) DEF PruneAndCollect

(* Install: the latest snapshot is one that covers its boundary.            *)
LEMMA InstallCover ==
  ASSUME HistInv, SnapInv, NEW x \in Calls, NEW s, CoversIn(s, history, acl), Install(x, s)
  PROVE  HistInv' /\ SnapInv'
<1>1. /\ latest' = s /\ changesSinceSnapshot' = 0 /\ PruneAndCollect(s.lastChangeNodeCID)
      /\ compactionInProgress' = (compactionInProgress /\ ~call[x].auto)
      /\ call' = [call EXCEPT ![x] = Idle]
      /\ UNCHANGED <<history, acl, tips, document, hashes, documentChangeCount, deleted>>
  BY DEF Install, Release
<1>2. tree' \in Seq(TreeNode) /\ Root(tree') = Root(tree) /\ gc' \subseteq Cids
  BY <1>1, PruneShape
<1>3. s \in Snapshot
  BY DEF CoversIn
<1>4. documentChangeCount' \in Nat /\ deleted' \subseteq Cids
  BY <1>1 DEF HistInv, TypeOK
<1>5. compactionInProgress' \in BOOLEAN
  BY <1>1
<1> QED
  BY <1>1, <1>2, <1>3, <1>4, <1>5, IdleRecord, CoverQuiet, ZenonT(30)

(* applySnapshot: the boundary is marked as known, and is merged, since the *)
(* snapshot's state represents it.                                          *)
LEMMA ApplyCover ==
  ASSUME HistInv, SnapInv, NEW s, CoversIn(s, history, acl),
         s.lastChangeNodeCID \in s.state, applySnapshot(s),
         call' = call \/ \E x \in Calls : call' = [call EXCEPT ![x] = Idle]
  PROVE  HistInv' /\ SnapInv'
<1>1. /\ document' = document \cup s.state /\ latest' = s /\ changesSinceSnapshot' = 0
      /\ documentChangeCount' = Max({documentChangeCount, s.compactedCount})
      /\ hashes' = hashes \cup {s.lastChangeNodeCID}
      /\ UNCHANGED <<history, acl, tree, tips, compactionInProgress, gc, deleted>>
  BY DEF applySnapshot
<1>2. s \in Snapshot /\ s.state \subseteq Cids \cup Foreign /\ s.compactedCount \in Nat
  BY DEF CoversIn, Snapshot
<1>3. documentChangeCount' \in Nat
  <2> DEFINE m == documentChangeCount
             n == s.compactedCount
  <2>1. m \in Nat /\ n \in Nat
    BY <1>2 DEF HistInv, TypeOK
  <2> HIDE DEF m, n
  <2>2. \E i \in {m, n} : \A j \in {m, n} : i >= j
    BY <2>1
  <2>3. Max({m, n}) \in {m, n}
    BY <2>2 DEF Max
  <2> QED
    BY <1>1, <2>1, <2>3 DEF m, n
<1>4. call \in [Calls -> CallRecord]
  BY CallTypes, ZenonT(30) DEF HistInv
<1>5. /\ call' \in [Calls -> CallRecord]
      /\ \A y \in Calls : call'[y] \in {call[y], Idle}
  BY <1>4, IdleRecord
<1>6. TypeOK'
  <2>1. /\ history' \in Seq(Cids) /\ acl' \subseteq Cids /\ tree' \in Seq(TreeNode)
        /\ tips' \in Seq(Cids) /\ Len(tips') <= MaxRecentTips
        /\ compactionInProgress' \in BOOLEAN /\ gc' \subseteq Cids /\ deleted' \subseteq Cids
    BY <1>1, ZenonT(30) DEF HistInv, TypeOK
  <2>2. s.lastChangeNodeCID \in Cids \cup Foreign
    BY <1>2
  <2>3. document' \subseteq Cids \cup Foreign /\ hashes' \subseteq Cids \cup Foreign
    BY <1>1, <1>2, <2>2 DEF HistInv, TypeOK
  <2>4. latest' \in Snapshot \cup {None}
    BY <1>1, <1>2
  <2>5. {documentChangeCount', changesSinceSnapshot'} \subseteq Nat
    BY <1>1, <1>3
  <2> QED
    BY <1>5, <2>1, <2>3, <2>4, <2>5, ZenonT(30) DEF TypeOK
<1>7. \A y \in Calls : Unset(y)' => Unset(y) /\ call'[y] = call[y]
  BY <1>5, IdleRecord, ZenonT(30) DEF Unset
<1>8. Served' = Served
  BY <1>1, ZenonT(30) DEF Served
<1>9. UnsetInv'
  BY <1>1, <1>7, <1>8, ZenonT(30) DEF HistInv, UnsetInv
<1>10. MergedInv' /\ TipsInv' /\ RootInv'
  BY <1>1 DEF HistInv, MergedInv, TipsInv, RootInv
<1>11. HistInv'
  BY <1>6, <1>9, <1>10 DEF HistInv
<1>12. \A y \in Calls : HoldIn(call'[y], history', acl')
  <2>1. \A y \in Calls : HoldIn(call[y], history, acl)
    BY ZenonT(30) DEF SnapInv
  <2>2. \A y \in Calls : HoldIn(call[y], history', acl') /\ HoldIn(Idle, history', acl')
    BY <1>1, <2>1, IdleRecord
  <2> QED
    BY <1>5, <2>2, Zenon
<1> QED
  BY <1>1, <1>11, <1>12, ZenonT(30) DEF SnapInv

(* Every step preserves the second invariant.                               *)
LEMMA CoverStep == AclInv /\ HistInv /\ SnapInv /\ [Next]_vars => HistInv' /\ SnapInv'
<1> SUFFICES ASSUME AclInv, HistInv, SnapInv, [Next]_vars PROVE HistInv' /\ SnapInv'
  OBVIOUS
<1>0. /\ call \in [Calls -> CallRecord] /\ tree \in Seq(TreeNode)
      /\ documentChangeCount \in Nat /\ changesSinceSnapshot \in Nat
      /\ latest \in Snapshot \cup {None} /\ compactionInProgress \in BOOLEAN
      /\ gc \subseteq Cids /\ deleted \subseteq Cids
      /\ latest # None => CoversIn(latest, history, acl)
  BY CallTypes DEF HistInv, TypeOK, SnapInv
<1>1. ASSUME NEW x \in Calls, Change(x) PROVE HistInv' /\ SnapInv'
  BY <1>1, ChangeCover
<1>2. ASSUME NEW x \in Calls, SetLastSyncMessage(x) PROVE HistInv' /\ SnapInv'
  BY <1>2, SetLastCover
<1>3. ASSUME NEW x \in Calls, SignFails(x) PROVE HistInv' /\ SnapInv'
  BY <1>3, SignFailsCover
<1>4. ASSUME NEW x \in Calls, CountChange(x) PROVE HistInv' /\ SnapInv'
  <2> DEFINE due == Await("checkWriter", 0, TRUE, None)
  <2>1. due \in CallRecord /\ due.pc = "checkWriter"
    BY DEF Await, CallRecord
  <2> HIDE DEF due
  <2>2. PICK r \in {due, Idle} : call' = [call EXCEPT ![x] = r]
    BY <1>4, Zenon DEF CountChange, due
  <2>3. r \in CallRecord /\ r.pc \in {"checkWriter", "idle"}
    BY <2>1, <2>2, IdleRecord
  <2>4. HoldIn(r, history, acl)
    BY <2>3 DEF HoldIn
  <2>5. /\ documentChangeCount' \in Nat /\ changesSinceSnapshot' \in Nat
        /\ UNCHANGED <<history, acl, tree, tips, document, hashes, latest,
                       compactionInProgress, gc, deleted>>
    BY <1>0, <1>4 DEF CountChange, changeVars, snapshotVars
  <2> QED
    BY <1>0, <2>2, <2>3, <2>4, <2>5, CoverQuiet, ZenonT(30)
<1>5. ASSUME NEW x \in Calls, PublishFails(x) \/ SnapshotFails(x) \/ SnapshotRejected(x)
      PROVE HistInv' /\ SnapInv'
  <2>1. /\ call' = [call EXCEPT ![x] = Idle]
        /\ UNCHANGED <<history, acl, tree, tips, document, hashes, documentChangeCount,
                       changesSinceSnapshot, latest, gc, deleted>>
    BY <1>5 DEF PublishFails, SnapshotFails, SnapshotRejected, Release, changeVars,
                counters, snapshotVars
  <2>2. compactionInProgress' \in BOOLEAN
    BY <1>0, <1>5, Zenon DEF PublishFails, SnapshotFails, SnapshotRejected, Release, snapshotVars
  <2> QED
    BY <1>0, <2>1, <2>2, IdleRecord, CoverQuiet, ZenonT(30)
<1>6. ASSUME NEW x \in Calls, WriterChecked(x) \/ ManualSnapshot(x) PROVE HistInv' /\ SnapInv'
  <2> DEFINE r == [call[x] EXCEPT !.pc = "ensureWriter"]
  <2>1. UNCHANGED <<history, acl, tree, tips, document, hashes, documentChangeCount,
                    changesSinceSnapshot, latest, gc, deleted>>
    BY <1>6 DEF WriterChecked, ManualSnapshot, changeVars, counters, snapshotVars
  <2>2. compactionInProgress' \in BOOLEAN
    BY <1>0, <1>6, Zenon DEF WriterChecked, ManualSnapshot, snapshotVars
  <2>3. CASE call' = [call EXCEPT ![x] = Idle]
    BY <1>0, <2>1, <2>2, <2>3, IdleRecord, CoverQuiet, ZenonT(30)
  <2>4. CASE call' = [call EXCEPT ![x].pc = "ensureWriter"]
    <3>1. r \in CallRecord /\ r.pc = "ensureWriter" /\ HoldIn(r, history, acl)
      BY <1>0, GoesOn, Zenon
    <3>2. call' = [call EXCEPT ![x] = r]
      BY <2>4
    <3> HIDE DEF r
    <3> QED
      BY <1>0, <2>1, <2>2, <3>1, <3>2, CoverQuiet, ZenonT(30)
  <2> QED
    BY <1>6, <2>3, <2>4 DEF WriterChecked, ManualSnapshot
<1>7. ASSUME NEW x \in Calls, CaptureSnapshot(x) PROVE HistInv' /\ SnapInv'
  <2>1. CoversIn(capture, history, acl)
    BY CaptureCovers
  <2>2. CASE Signing
    <3> DEFINE r == Await("signSnapshot", 0, call[x].auto, capture)
    <3>1. capture \in Snapshot /\ call[x].auto \in BOOLEAN
      BY <2>1, <1>0 DEF CoversIn, CallRecord
    <3> HIDE DEF capture
    <3>2. r \in CallRecord /\ r.pc = "signSnapshot" /\ r.snapshot = capture
      BY <3>1, AwaitRecord
    <3> HIDE DEF r
    <3>3. HoldIn(r, history, acl)
      BY <2>1, <3>2 DEF HoldIn
    <3>4. /\ call' = [call EXCEPT ![x] = r]
          /\ UNCHANGED <<history, acl, tree, tips, document, hashes, documentChangeCount,
                         changesSinceSnapshot, latest, compactionInProgress, gc, deleted>>
      BY <1>7, <2>2 DEF CaptureSnapshot, changeVars, counters, snapshotVars, r
    <3> QED
      BY <1>0, <3>2, <3>3, <3>4, CoverQuiet, ZenonT(30)
  <2>3. CASE ~Signing
    <3>1. Install(x, capture)
      BY <1>7, <2>3 DEF CaptureSnapshot
    <3> HIDE DEF capture
    <3> QED
      BY <2>1, <3>1, InstallCover
  <2> QED
    BY <2>2, <2>3
<1>8. ASSUME NEW x \in Calls, InstallSnapshot(x) PROVE HistInv' /\ SnapInv'
  <2>1. Install(x, call[x].snapshot) /\ CoversIn(call[x].snapshot, history, acl)
    BY <1>8 DEF InstallSnapshot, SnapInv, HoldIn
  <2> QED
    BY <2>1, InstallCover
<1>9. ASSUME NEW x \in Calls, ReceiveSnapshot(x) PROVE HistInv' /\ SnapInv'
  <2>1. PICK s \in PeerSnapshots :
          IF Signing
          THEN /\ call' = [call EXCEPT ![x] = Await("verifySnapshot", 0, FALSE, s)]
               /\ UNCHANGED <<changeVars, counters, snapshotVars>>
          ELSE applySnapshot(s) /\ UNCHANGED call
    BY <1>9, ZenonT(30) DEF ReceiveSnapshot
  <2>2. CoversIn(s, history, acl) /\ s.lastChangeNodeCID \in s.state
    BY PeerCovers
  <2>3. CASE Signing
    <3> DEFINE r == Await("verifySnapshot", 0, FALSE, s)
    <3>1. s \in Snapshot
      BY <2>2 DEF CoversIn
    <3>2. r \in CallRecord /\ r.pc = "verifySnapshot" /\ r.snapshot = s
      BY <3>1 DEF Await, CallRecord
    <3> HIDE DEF r
    <3>3. HoldIn(r, history, acl)
      BY <2>2, <3>2 DEF HoldIn
    <3>4. /\ call' = [call EXCEPT ![x] = r]
          /\ UNCHANGED <<history, acl, tree, tips, document, hashes, documentChangeCount,
                         changesSinceSnapshot, latest, compactionInProgress, gc, deleted>>
      BY <2>1, <2>3, ZenonT(30) DEF changeVars, counters, snapshotVars, r
    <3> QED
      BY <1>0, <3>2, <3>3, <3>4, CoverQuiet, ZenonT(30)
  <2>4. CASE ~Signing
    BY <2>1, <2>2, <2>4, ApplyCover
  <2> QED
    BY <2>3, <2>4
<1>10. ASSUME NEW x \in Calls, SnapshotVerified(x) PROVE HistInv' /\ SnapInv'
  <2>1. /\ applySnapshot(call[x].snapshot) /\ call' = [call EXCEPT ![x] = Idle]
        /\ CoversIn(call[x].snapshot, history, acl)
        /\ call[x].snapshot.lastChangeNodeCID \in call[x].snapshot.state
    BY <1>10 DEF SnapshotVerified, SnapInv, HoldIn
  <2> QED
    BY <2>1, ApplyCover, ZenonT(30)
<1>11. ASSUME UNCHANGED <<history, acl, tree, tips, document, hashes, documentChangeCount,
                          changesSinceSnapshot, latest, compactionInProgress, call>>,
              gc' \subseteq Cids, deleted' \subseteq Cids
       PROVE  HistInv' /\ SnapInv'
  <2>1. TypeOK'
    BY <1>11 DEF HistInv, TypeOK
  <2>2. Served' = Served /\ \A y \in Calls : Unset(y)' <=> Unset(y)
    BY <1>11 DEF Served, Unset
  <2>3. HistInv'
    <3>1. MergedInv' /\ TipsInv' /\ RootInv' /\ UnsetInv'
      BY <2>2, <1>11 DEF HistInv, MergedInv, TipsInv, RootInv, UnsetInv
    <3> QED
      BY <2>1, <3>1 DEF HistInv
  <2>4. SnapInv'
    BY <1>11 DEF SnapInv
  <2> QED
    BY <2>3, <2>4
<1>12. ASSUME NEW c \in gc, DeleteBlock(c) PROVE HistInv' /\ SnapInv'
  BY <1>0, <1>11, <1>12 DEF DeleteBlock, changeVars, counters
<1>13. CASE UNCHANGED vars
  BY <1>0, <1>11, <1>13 DEF vars
<1> QED
  BY <1>1, <1>2, <1>3, <1>4, <1>5, <1>6, <1>7, <1>8, <1>9, <1>10, <1>12, <1>13
     DEF Next, Continue

(* The three invariants hold of every state of the replica.                 *)
LEMMA CoverInvHolds == Spec => [](AclInv /\ HistInv /\ SnapInv)
<1>1. Init => AclInv /\ HistInv /\ SnapInv
  BY AclInit, CoverInit
<1>2. AclInv /\ HistInv /\ SnapInv /\ [Next]_vars => (AclInv /\ HistInv /\ SnapInv)'
  BY AclStep, CoverStep
<1> QED
  BY <1>1, <1>2, PTL DEF Spec

(* snapshot() and sync(): whatever is captured, signed, verified and        *)
(* installed in whatever order, the latest snapshot represents its boundary *)
(* and every change below it, and what counts as seen is merged.            *)
THEOREM SnapshotsCoverTheirBoundary == Spec => []SnapshotCoversBoundary
<1>1. AclInv /\ HistInv /\ SnapInv => SnapshotCoversBoundary
  BY DEF HistInv, MergedInv, SnapInv, CoversIn, SnapshotCoversBoundary
<1> QED
  BY CoverInvHolds, <1>1, PTL
=============================================================================
