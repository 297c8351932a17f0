--------------------------- MODULE GarbageProofs ----------------------------
(***************************************************************************)
(* Proofs about Compaction, on top of the invariants of CompactionProofs:  *)
(* what is served stays complete (CompleteInv), and the garbage collection *)
(* deletes no block that the tree names (GcInv).                           *)
(***************************************************************************)
EXTENDS CompactionProofs

(* Without signatures and without snapshots of peers a snapshot is captured *)
(* and installed in one step, so no call holds one.                         *)
CompleteInv ==
  /\ ServedComplete
  /\ \A x \in Calls : call[x].pc \notin {"signSnapshot", "verifySnapshot"}

(* What a step has to preserve: a call does not come to hold a snapshot,    *)
(* the tree and the latest snapshot stay, and nothing more is served.       *)
LEMMA CompleteQuiet ==
  ASSUME CompleteInv, HistInv, UNCHANGED <<history, tree, latest>>, acl \subseteq acl',
         NEW x \in Calls, NEW r, call' = [call EXCEPT ![x] = r],
         r.pc \notin {"signSnapshot", "verifySnapshot"}
  PROVE  CompleteInv'
<1>1. call \in [Calls -> CallRecord]
  BY CallTypes DEF HistInv
<1>2. call'[x] = r /\ \A y \in Calls \ {x} : call'[y] = call[y]
  BY <1>1
<1>3. Served' = Served /\ Inline(tree)' = Inline(tree)
  BY DEF Served, Inline
<1> QED
  BY <1>2, <1>3 DEF CompleteInv, ServedComplete

(* Install: the state that was just captured holds what was ever served.    *)
LEMMA CompleteInstall ==
  ASSUME AclInv, HistInv, CompleteInv, NEW x \in Calls, Install(x, capture)
  PROVE  CompleteInv'
<1>1. /\ latest' = capture /\ call' = [call EXCEPT ![x] = Idle] /\ UNCHANGED <<history, acl>>
  BY DEF Install, Release
<1>2. capture \in Snapshot /\ capture.state = document
  <2>1. capture \in Snapshot
    BY CaptureCovers DEF CoversIn
  <2> QED
    BY <2>1 DEF capture
<1>3. latest' # None /\ latest'.state = document
  BY <1>1, <1>2, NoneAssumption
<1>4. Served' = Served /\ Served \ acl \subseteq document
  BY <1>1 DEF Served, AclInv, HistInv, MergedInv
<1>5. call \in [Calls -> CallRecord]
  BY CallTypes DEF HistInv
<1>6. call'[x] = Idle /\ \A y \in Calls \ {x} : call'[y] = call[y]
  BY <1>1, <1>5
<1> HIDE DEF capture
<1> QED
  BY <1>1, <1>3, <1>4, <1>6, IdleRecord DEF CompleteInv, ServedComplete

(* SetLastSyncMessage: what is served now is in the tree.                   *)
LEMMA CompleteSetLast ==
  ASSUME AclInv, HistInv, CompleteInv, NEW x \in Calls, SetLastSyncMessage(x)
  PROVE  CompleteInv'
<1> DEFINE c == call[x].cid
           r == IF c \in acl THEN Idle ELSE [call[x] EXCEPT !.pc = "publish"]
<1>1. PICK node : node.cid = c /\ tree' = Append(tree, node)
  BY DEF SetLastSyncMessage
<1>2. /\ history' = Append(history, c) /\ call' = [call EXCEPT ![x] = r]
      /\ UNCHANGED <<acl, latest>>
  BY DEF SetLastSyncMessage, snapshotVars
<1>3. call \in [Calls -> CallRecord]
  BY CallTypes DEF HistInv
<1>4. r.pc \in {"idle", "publish"}
  BY <1>3, IdleRecord, GoesOn
<1> HIDE DEF c, r
<1>5. call'[x] = r /\ \A y \in Calls \ {x} : call'[y] = call[y]
  BY <1>2, <1>3
<1>6. /\ DOMAIN tree' = DOMAIN tree \cup {Len(tree) + 1} /\ tree'[Len(tree) + 1] = node
      /\ \A i \in DOMAIN tree : tree'[i] = tree[i]
  BY <1>1, AppendShape DEF AclInv
<1>7. /\ DOMAIN history' = DOMAIN history \cup {Len(history) + 1}
      /\ history'[Len(history) + 1] = c
      /\ \A i \in DOMAIN history : history'[i] = history[i]
  BY <1>2, AppendShape DEF AclInv
<1>8. Served' = Served \cup {c}
  <2>1. ASSUME NEW d \in Served PROVE d \in Served'
    BY <1>7, <2>1 DEF Served
  <2>2. c \in Served'
    BY <1>7 DEF Served
  <2>3. ASSUME NEW d \in Served' PROVE d \in Served \cup {c}
    BY <1>7, <2>3 DEF Served
  <2> QED
    BY <2>1, <2>2, <2>3
<1>9. Inline(tree) \cup {c} \subseteq Inline(tree')
  BY <1>1, <1>6 DEF Inline
<1> QED
  BY <1>2, <1>4, <1>5, <1>8, <1>9 DEF CompleteInv, ServedComplete

(* Every step preserves the completeness of what is served.                 *)
LEMMA CompleteStep ==
  ASSUME ~Signing, ~PeerCompacts, AclInv, HistInv, CompleteInv, [Next]_vars
  PROVE  CompleteInv'
<1>0. call \in [Calls -> CallRecord]
  BY CallTypes DEF HistInv
<1>1. ASSUME NEW x \in Calls, Change(x) PROVE CompleteInv'
  <2> DEFINE r == Await("signMessage", 1 + Cardinality(hashes \cap Cids), FALSE, None)
  <2>1. r.pc = "signMessage"
    BY DEF Await
  <2>2. /\ call' = [call EXCEPT ![x] = r] /\ acl \subseteq acl'
        /\ UNCHANGED <<history, tree, latest>>
    BY <1>1, Zenon DEF Change, snapshotVars
  <2> HIDE DEF r
  <2> QED
    BY <2>1, <2>2, CompleteQuiet, ZenonT(30)
<1>2. ASSUME NEW x \in Calls, SetLastSyncMessage(x) PROVE CompleteInv'
  BY <1>2, CompleteSetLast
<1>3. ASSUME NEW x \in Calls, CountChange(x) PROVE CompleteInv'
  <2> DEFINE due == Await("checkWriter", 0, TRUE, None)
  <2>1. due.pc = "checkWriter"
    BY DEF Await
  <2> HIDE DEF due
  <2>2. PICK r \in {due, Idle} : call' = [call EXCEPT ![x] = r]
    BY <1>3, ZenonT(30) DEF CountChange, due
  <2>3. UNCHANGED <<history, acl, tree, latest>>
    BY <1>3 DEF CountChange, changeVars, snapshotVars
  <2>4. r.pc \in {"idle", "checkWriter"}
    BY <2>1, <2>2, IdleRecord
  <2> QED
    BY <2>2, <2>3, <2>4, CompleteQuiet, ZenonT(30)
<1>4. ASSUME NEW x \in Calls,
             SignFails(x) \/ PublishFails(x) \/ SnapshotFails(x) \/ SnapshotRejected(x)
      PROVE CompleteInv'
  <2>1. UNCHANGED <<history, acl, tree, latest>> /\ call' = [call EXCEPT ![x] = Idle]
    BY <1>4 DEF SignFails, PublishFails, SnapshotFails, SnapshotRejected, Release,
                changeVars, snapshotVars
  <2> QED
    BY <2>1, IdleRecord, CompleteQuiet, ZenonT(30)
<1>5. ASSUME NEW x \in Calls, WriterChecked(x) \/ ManualSnapshot(x) PROVE CompleteInv'
  <2> DEFINE e == [call[x] EXCEPT !.pc = "ensureWriter"]
  <2>1. e.pc = "ensureWriter"
    BY <1>0, GoesOn
  <2>2. call' = [call EXCEPT ![x] = Idle] \/ call' = [call EXCEPT ![x] = e]
    BY <1>5 DEF WriterChecked, ManualSnapshot
  <2>3. UNCHANGED <<history, acl, tree, latest>>
    BY <1>5 DEF WriterChecked, ManualSnapshot, changeVars, snapshotVars
  <2> HIDE DEF e
  <2>4. PICK r \in {e, Idle} : call' = [call EXCEPT ![x] = r]
    BY <2>2
  <2>5. r.pc \in {"idle", "ensureWriter"}
    BY <2>1, <2>4, IdleRecord
  <2> QED
    BY <2>3, <2>4, <2>5, CompleteQuiet, ZenonT(30)
<1>6. ASSUME NEW x \in Calls, CaptureSnapshot(x) PROVE CompleteInv'
  <2>1. Install(x, capture)
    BY <1>6 DEF CaptureSnapshot
  <2> QED
    BY <2>1, CompleteInstall
<1>7. ASSUME NEW x \in Calls, InstallSnapshot(x) \/ ReceiveSnapshot(x) \/ SnapshotVerified(x)
      PROVE CompleteInv'
  BY <1>7 DEF InstallSnapshot, ReceiveSnapshot, SnapshotVerified, CompleteInv
<1>8. ASSUME UNCHANGED <<history, acl, tree, latest, call>> PROVE CompleteInv'
  BY <1>8 DEF CompleteInv, ServedComplete, Served, Inline
<1>9. ASSUME NEW c \in gc, DeleteBlock(c) PROVE CompleteInv'
  BY <1>8, <1>9 DEF DeleteBlock, changeVars
<1>10. CASE UNCHANGED vars
  BY <1>8, <1>10 DEF vars
<1> QED
  BY <1>1, <1>2, <1>3, <1>4, <1>5, <1>6, <1>7, <1>9, <1>10 DEF Next, Continue

(* snapshot(): where no await separates the capture of a snapshot from its  *)
(* installation, and peers send none, the latest snapshot and the served    *)
(* tree together hold every document change that was ever served.  (With    *)
(* signatures a change set during the await is in neither; a peer's         *)
(* snapshot replaces a larger state.)                                       *)
THEOREM ServedStaysComplete ==
  ASSUME ~Signing, ~PeerCompacts
  PROVE  Spec => []ServedComplete
<1>1. Init => CompleteInv
  <2> SUFFICES ASSUME Init PROVE CompleteInv
    OBVIOUS
  <2>1. history = <<>> /\ call = [x \in Calls |-> Idle]
    BY DEF Init
  <2>2. Served = {}
    BY <2>1, EmptyIsSequence DEF Served
  <2> QED
    BY <2>1, <2>2, IdleRecord DEF CompleteInv, ServedComplete
<1>2. AclInv /\ HistInv /\ SnapInv /\ CompleteInv /\ [Next]_vars => CompleteInv'
  BY CompleteStep
<1>3. CompleteInv => ServedComplete
  BY DEF CompleteInv
<1> QED
  BY <1>1, <1>2, <1>3, CoverInvHolds, PTL DEF Spec

-----------------------------------------------------------------------------
(* Blocks.  A block is dropped when _gcPrunedBlocks has deleted it or will. *)
Dropped == gc \cup deleted

(* A tip that the next change would link is linked by the root already, or  *)
(* is the root's parent, or is neither named by the tree nor dropped: so no *)
(* prune can drop it, as long as a prune keeps the root and its parent.     *)
LinkOK(t, tp, D) ==
  t # <<>> => \A c \in selectCrossLinks(tp, Root(t), 0) :
                \/ c \in t[Len(t)].links
                \/ Len(t) > 1 /\ c = t[Len(t) - 1].cid
                \/ c \notin collectTreeCIDs(t) \cup D

(* Nothing that is named or dropped is a change still being signed.         *)
UnnamedInv ==
  /\ collectTreeCIDs(tree) \cup Dropped \subseteq hashes
  /\ \A x \in Calls : Unset(x) => call[x].cid \notin collectTreeCIDs(tree) \cup Dropped

KeptInv ==
  /\ collectTreeCIDs(tree) \cap Dropped = {}
  /\ tree = <<>> => Dropped = {}

GcInv == UnnamedInv /\ KeptInv /\ LinkOK(tree, tips, Dropped)

(* documentNodesVisited: at the root at most one node has been counted, so  *)
(* a prune that keeps two or more nodes keeps the root and its parent.      *)
LEMMA BoundaryBelowRoot ==
  ASSUME NEW t, IsSequence(t), NEW k \in Nat, k > 1, Boundary(t, k) # 0
  PROVE  Boundary(t, k) \in 1..(Len(t) - 1)
<1> DEFINE n == Len(t)
           reached == {i \in DOMAIN t : /\ t[i].cid \notin acl
                                        /\ documentNodesVisited(t, i) >= k}
           spine == {j \in n..n : t[j].cid \notin acl}
           leaves == UNION {{j} \X (t[j].links \ acl) : j \in (n + 2)..n}
<1>1. n \in Nat /\ DOMAIN t = 1..n
  BY SequenceShape
<1>2. documentNodesVisited(t, n) = Cardinality(spine) + Cardinality(leaves)
  BY DEF documentNodesVisited
<1>3. Cardinality(leaves) = 0
  <2>1. (n + 2)..n = {}
    BY <1>1
  <2>2. leaves = {}
    BY <2>1
  <2> QED
    BY <2>2, FS_EmptySet
<1>4. Cardinality(spine) \in Nat /\ Cardinality(spine) <= 1
  <2>1. spine \in SUBSET {n}
    BY <1>1
  <2> HIDE DEF spine
  <2>2. IsFiniteSet({n}) /\ Cardinality({n}) = 1
    BY FS_Singleton, ZenonT(30)
  <2>3. IsFiniteSet(spine) /\ Cardinality(spine) <= Cardinality({n})
    BY <2>1, <2>2, FS_Subset
  <2> QED
    BY <2>2, <2>3, FS_CardinalityType
<1> HIDE DEF spine, leaves
<1>5. ~(documentNodesVisited(t, n) >= k)
  BY <1>2, <1>3, <1>4
<1>6. n \notin reached
  BY <1>5
<1>7. reached \in SUBSET (1..n)
  BY <1>1
<1> HIDE DEF reached
<1>8. reached # {} /\ Boundary(t, k) = Max(reached)
  BY DEF Boundary, reached
<1>9. Max(reached) \in reached
  BY <1>1, <1>7, <1>8, MaxIndex, ZenonT(30)
<1>10. Boundary(t, k) \in 1..n /\ Boundary(t, k) # n
  BY <1>6, <1>7, <1>8, <1>9, ZenonT(30)
<1> QED
  BY <1>1, <1>10

(* selectCrossLinks: a CID that is no tip makes no difference as the new    *)
(* change.                                                                  *)
LEMMA SameLinks ==
  ASSUME NEW s, NEW p, NEW d, NEW e, d \notin Elements(s), e \notin Elements(s)
  PROVE  selectCrossLinks(s, p, d) = selectCrossLinks(s, p, e)
<1>1. {i \in DOMAIN s : s[i] \notin {p, d}} = {i \in DOMAIN s : s[i] \notin {p, e}}
  BY DEF Elements
<1> QED
  BY <1>1, ZenonT(30) DEF selectCrossLinks

(* Local CIDs are positive, the tips among them.                            *)
LEMMA NoTipIsZero ==
  ASSUME AclInv, HistInv
  PROVE  tips \in Seq(Cids) /\ 0 \notin Elements(tips)
<1>1. tips \in Seq(Cids) /\ Elements(tips) \subseteq hashes
  BY DEF HistInv, TypeOK, TipsInv
<1>2. Elements(tips) \subseteq Cids
  BY <1>1 DEF Elements
<1>3. \E n \in Nat : hashes \cap Cids = 1..n
  BY DEF AclInv
<1> QED
  BY <1>1, <1>2, <1>3

(* A step that leaves the tree and the tips, and drops nothing more.        *)
LEMMA GcQuiet ==
  ASSUME GcInv, UNCHANGED <<tree, tips>>, hashes \subseteq hashes',
         Dropped' \subseteq Dropped,
         \A y \in Calls : Unset(y)' => \/ Unset(y) /\ call'[y].cid = call[y].cid
                                       \/ call'[y].cid \notin hashes
  PROVE  GcInv'
<1>1. collectTreeCIDs(tree') = collectTreeCIDs(tree)
  BY Zenon
<1>2. LinkOK(tree', tips', Dropped')
  <2>1. LinkOK(tree, tips, Dropped')
    BY DEF GcInv, LinkOK
  <2> QED
    BY <2>1
<1>3. UnnamedInv'
  BY <1>1 DEF GcInv, UnnamedInv
<1>4. KeptInv'
  BY <1>1 DEF GcInv, KeptInv
<1> QED
  BY <1>2, <1>3, <1>4 DEF GcInv

(* SetLastSyncMessage: what the new node links has not been dropped, and    *)
(* what the next one may link is linked by it, or is its parent.            *)
LEMMA GcSetLast ==
  ASSUME AclInv, HistInv, GcInv, NEW x \in Calls, SetLastSyncMessage(x)
  PROVE  GcInv'
<1> DEFINE c == call[x].cid
           root == Root(tree)
           links == IF tree = <<>> THEN {} ELSE selectCrossLinks(tips, root, c)
           node == [cid |-> c, links |-> links, acl |-> {}]
           r == IF c \in acl THEN Idle ELSE [call[x] EXCEPT !.pc = "publish"]
           named == collectTreeCIDs(tree)
           n == Len(tree)
<1>1. /\ Unset(x) /\ tips' = trackTipInList(tips, c) /\ tree' = Append(tree, node)
      /\ call' = [call EXCEPT ![x] = r] /\ UNCHANGED <<hashes, gc, deleted>>
  BY DEF SetLastSyncMessage, Unset, snapshotVars
<1>2. c \in Cids /\ c # 0 /\ c \in hashes
  BY <1>1, TipStep
<1>3. c \notin Elements(tips) /\ c \notin named \cup Dropped
  BY <1>1 DEF HistInv, UnsetInv, GcInv, UnnamedInv
<1>4. tips \in Seq(Cids) /\ 0 \notin Elements(tips) /\ Elements(tips) \subseteq hashes
  BY NoTipIsZero DEF HistInv, TipsInv
<1>5. call \in [Calls -> CallRecord]
  BY CallTypes DEF HistInv
<1>6. r.pc \in {"idle", "publish"}
  BY <1>5, IdleRecord, GoesOn
<1> HIDE DEF r
<1>7. call'[x] = r /\ \A y \in Calls \ {x} : call'[y] = call[y]
  BY <1>1, <1>5
<1>8. \A y \in Calls : Unset(y)' => /\ Unset(y) /\ call'[y].cid = call[y].cid
                                    /\ call[y].cid # c
  BY <1>1, <1>6, <1>7 DEF Unset, HistInv, UnsetInv
<1>9. links \subseteq Elements(tips)
  BY LinksAreTips
<1>10. links = IF tree = <<>> THEN {} ELSE selectCrossLinks(tips, root, 0)
  BY <1>3, <1>4, SameLinks
<1>11. node.cid = c /\ node.links = links /\ node.acl = {}
  OBVIOUS
<1> HIDE DEF c, node, links, root
<1>12. IsSequence(tree) /\ n \in Nat /\ DOMAIN tree = 1..n
  BY SequenceShape DEF AclInv
<1>13. /\ IsSequence(tree') /\ Len(tree') = n + 1
       /\ DOMAIN tree' = DOMAIN tree \cup {n + 1} /\ tree'[n + 1] = node
       /\ \A i \in DOMAIN tree : tree'[i] = tree[i]
  BY <1>1, <1>12, AppendShape
<1>14. \A d \in collectTreeCIDs(tree') : d \in named \/ d = c \/ d \in links
  <2> SUFFICES ASSUME NEW d \in collectTreeCIDs(tree') PROVE d \in named \/ d = c \/ d \in links
    OBVIOUS
  <2>1. PICK i \in DOMAIN tree' : d = tree'[i].cid \/ d \in tree'[i].links \/ d \in tree'[i].acl
    BY NamedBy
  <2>2. CASE i \in DOMAIN tree
    BY <2>1, <2>2, <1>13, NamedBy
  <2>3. CASE i = n + 1
    BY <2>1, <2>3, <1>11, <1>13
  <2> QED
    BY <1>13, <2>2, <2>3
<1>15. Dropped' = Dropped
  BY <1>1 DEF Dropped
<1>16. links \cap Dropped = {}
  <2>1. CASE tree = <<>>
    BY <1>10, <2>1
  <2>2. CASE tree # <<>>
    <3> SUFFICES ASSUME NEW d \in links PROVE d \notin Dropped
      OBVIOUS
    <3>1. n \in DOMAIN tree /\ (n > 1 => n - 1 \in DOMAIN tree)
      BY <2>2, <1>12, SequenceShape
    <3>2. \/ d \in tree[n].links \/ (n > 1 /\ d = tree[n - 1].cid)
          \/ d \notin named \cup Dropped
      BY <2>2, <1>10 DEF GcInv, LinkOK, root
    <3>3. d \in named \/ d \notin Dropped
      BY <3>1, <3>2, NamedBy
    <3> QED
      BY <3>3 DEF GcInv, KeptInv
  <2> QED
    BY <2>1, <2>2
<1>17. KeptInv'
  <2>1. tree' # <<>>
    BY <1>12, <1>13, SequenceShape
  <2>2. collectTreeCIDs(tree') \cap Dropped' = {}
    BY <1>3, <1>14, <1>15, <1>16 DEF GcInv, KeptInv
  <2> QED
    BY <2>1, <2>2 DEF KeptInv
<1>18. UnnamedInv'
  <2>1. collectTreeCIDs(tree') \cup Dropped' \subseteq hashes'
    BY <1>1, <1>2, <1>4, <1>9, <1>14, <1>15 DEF GcInv, UnnamedInv
  <2>2. ASSUME NEW y \in Calls, Unset(y)'
        PROVE  call'[y].cid \notin collectTreeCIDs(tree') \cup Dropped'
    <3>1. Unset(y) /\ call'[y].cid = call[y].cid /\ call[y].cid # c
      BY <1>8, <2>2
    <3>2. call[y].cid \notin named \cup Dropped /\ call[y].cid \notin links
      BY <3>1, <1>9, ZenonT(30) DEF GcInv, UnnamedInv, HistInv, UnsetInv
    <3> QED
      BY <3>1, <3>2, <1>14, <1>15
  <2> QED
    BY <2>1, <2>2 DEF UnnamedInv
<1>20. LinkOK(tree', tips', Dropped')
  <2>1. Root(tree') = c /\ tree' # <<>>
    <3>1. tree' # <<>>
      BY <1>12, <1>13, SequenceShape
    <3> QED
      BY <3>1, <1>11, <1>13 DEF Root
  <2> SUFFICES ASSUME NEW d \in selectCrossLinks(tips', c, 0)
               PROVE  \/ d \in tree'[Len(tree')].links
                      \/ Len(tree') > 1 /\ d = tree'[Len(tree') - 1].cid
                      \/ d \notin collectTreeCIDs(tree') \cup Dropped'
    BY <2>1 DEF LinkOK
  <2>2. d \notin {c, 0}
    BY LinksAreTips
  <2>3. d \in {c, root} \cup selectCrossLinks(tips, root, 0)
    <3>1. selectCrossLinks(trackTipInList(tips, c), c, 0)
            \subseteq {c, root} \cup selectCrossLinks(tips, root, 0)
      BY <1>2, <1>3, <1>4, NextLinks
    <3> QED
      BY <3>1, <1>1
  <2>4. CASE tree = <<>>
    <3>1. root = 0
      BY <2>4 DEF root, Root
    <3>2. named = {} /\ links = {} /\ Dropped = {}
      <4>1. DOMAIN tree = {}
        BY <2>4, EmptyIsSequence
      <4>2. named = {}
        BY <4>1, NamedBy
      <4> QED
        BY <2>4, <4>2, <1>10 DEF GcInv, KeptInv
    <3> QED
      BY <2>2, <3>2, <1>14, <1>15
  <2>5. CASE tree # <<>>
    <3>1. n > 0 /\ n \in DOMAIN tree
      BY <2>5, <1>12, SequenceShape
    <3>2. CASE d = root
      <4>1. root = tree[n].cid
        BY <2>5 DEF root, Root
      <4>2. Len(tree') > 1 /\ Len(tree') - 1 = n /\ tree'[n] = tree[n]
        BY <1>12, <1>13, <3>1
      <4> QED
        BY <3>2, <4>1, <4>2
    <3>3. CASE d \in selectCrossLinks(tips, root, 0)
      <4>1. d \in links
        BY <2>5, <3>3, <1>10
      <4> QED
        BY <4>1, <1>11, <1>13
    <3> QED
      BY <2>2, <2>3, <3>2, <3>3
  <2> QED
    BY <2>4, <2>5
<1> QED
  BY <1>17, <1>18, <1>20 DEF GcInv

(* SignFails: the tip that is added is named by no tree and not dropped.    *)
LEMMA GcSignFails ==
  ASSUME AclInv, HistInv, GcInv, NEW x \in Calls, SignFails(x)
  PROVE  GcInv'
<1> DEFINE c == call[x].cid
           root == Root(tree)
           named == collectTreeCIDs(tree)
<1>1. /\ Unset(x) /\ tips' = trackTipInList(tips, c)
      /\ call' = [call EXCEPT ![x] = Idle] /\ UNCHANGED <<tree, hashes, gc, deleted>>
  BY DEF SignFails, Unset, snapshotVars
<1>2. c \in Cids
  BY <1>1, TipStep
<1>3. c \notin Elements(tips) /\ c \notin named \cup Dropped
  BY <1>1 DEF HistInv, UnsetInv, GcInv, UnnamedInv
<1>4. tips \in Seq(Cids) /\ 0 \notin Elements(tips)
  BY NoTipIsZero
<1>5. call \in [Calls -> CallRecord]
  BY CallTypes DEF HistInv
<1>6. call'[x] = Idle /\ \A y \in Calls \ {x} : call'[y] = call[y]
  BY <1>1, <1>5
<1>7. \A y \in Calls : Unset(y)' => Unset(y) /\ call'[y].cid = call[y].cid
  BY <1>6, IdleRecord, ZenonT(30) DEF Unset
<1> HIDE DEF c
<1>8. Dropped' = Dropped /\ collectTreeCIDs(tree') = named
  BY <1>1 DEF Dropped
<1>9. LinkOK(tree, tips', Dropped)
  <2> SUFFICES ASSUME tree # <<>>, NEW d \in selectCrossLinks(tips', root, 0)
               PROVE  \/ d \in tree[Len(tree)].links
                      \/ Len(tree) > 1 /\ d = tree[Len(tree) - 1].cid
                      \/ d \notin named \cup Dropped
    BY DEF LinkOK
  <2> HIDE DEF root, named
  <2>1. d # root
    BY LinksAreTips
  <2>2. selectCrossLinks(trackTipInList(tips, c), root, 0)
          \subseteq {c, root} \cup selectCrossLinks(tips, root, 0)
    BY <1>2, <1>3, <1>4, NextLinks
  <2>3. d = c \/ d \in selectCrossLinks(tips, root, 0)
    BY <2>1, <2>2, <1>1
  <2> QED
    BY <2>3, <1>3 DEF GcInv, LinkOK, root, named
<1>10. LinkOK(tree', tips', Dropped')
  BY <1>1, <1>8, <1>9
<1>11. UnnamedInv'
  BY <1>1, <1>7, <1>8 DEF GcInv, UnnamedInv
<1>12. KeptInv'
  BY <1>1, <1>8 DEF GcInv, KeptInv
<1> QED
  BY <1>10, <1>11, <1>12 DEF GcInv

(* Install: a prune below the root drops only what the tree no longer names *)
(* and what no change to come will link.                                    *)
LEMMA GcInstall ==
  ASSUME KeepRecentNodes # 1, AclInv, HistInv, GcInv, NEW x \in Calls, NEW s, Install(x, s)
  PROVE  GcInv'
<1> DEFINE b == Boundary(tree, KeepRecentNodes)
           p == prunedTree(tree, b)
           n == Len(tree)
           cut == filterDeletableCIDs(prunedCIDs(tree, b), p, {s.lastChangeNodeCID})
           named == collectTreeCIDs(tree)
<1>1. /\ PruneAndCollect(s.lastChangeNodeCID) /\ call' = [call EXCEPT ![x] = Idle]
      /\ UNCHANGED <<tips, hashes, deleted>>
  BY DEF Install, Release
<1>2. call \in [Calls -> CallRecord] /\ tree \in Seq(TreeNode)
  BY CallTypes DEF HistInv
<1>3. call'[x] = Idle /\ \A y \in Calls \ {x} : call'[y] = call[y]
  BY <1>1, <1>2
<1>4. \A y \in Calls : Unset(y)' => Unset(y) /\ call'[y].cid = call[y].cid
  BY <1>3, IdleRecord, ZenonT(30) DEF Unset
<1>5. CASE UNCHANGED <<tree, gc>>
  <2>1. Dropped' = Dropped
    BY <1>1, <1>5 DEF Dropped
  <2> QED
    BY <1>1, <1>4, <1>5, <2>1, GcQuiet
<1>6. CASE KeepRecentNodes # 0 /\ b # 0 /\ tree' = p /\ gc' = gc \cup cut
  <2>1. IsSequence(tree) /\ n \in Nat /\ DOMAIN tree = 1..n
    BY SequenceShape DEF AclInv
  <2>2. KeepRecentNodes \in Nat /\ KeepRecentNodes > 1
    BY <1>6, CompactionAssumption
  <2>3. b \in 1..(n - 1)
    BY <1>6, <2>1, <2>2, BoundaryBelowRoot
  <2>4. b \in DOMAIN tree /\ n \in (b + 1)..n
    BY <2>1, <2>3
  <2> HIDE DEF b
  <2>5. IsSequence(p) /\ Len(p) = 1 + n - b /\ 1 \in DOMAIN p
    BY <2>1, <2>4, PrunedTreeShape, ZenonT(30)
  <2>6. p[1] = [cid |-> tree[b].cid,
                links |-> collectACLNodes(tree, b).named \ collectACLNodes(tree, b).payload,
                acl |-> collectACLNodes(tree, b).payload]
    BY <2>1, <2>4, PrunedTreeShape, ZenonT(30)
  <2>7. p[1].cid = tree[b].cid
    BY <2>6
  <2>8. \A i \in (b + 1)..n : p[i - b + 1] = tree[i]
    BY <2>1, <2>4, PrunedTreeShape, ZenonT(30)
  <2>9. collectTreeCIDs(p) \subseteq named /\ Root(p) = Root(tree)
    BY <1>2, <2>4, PrunedTreeNames
  <2>10. cut \subseteq named /\ cut \cap collectTreeCIDs(p) = {}
    <3> DEFINE below == SubSeq(tree, 1, b)
    <3>1. DOMAIN below = 1..b /\ \A i \in 1..b : below[i] = tree[i] /\ i \in DOMAIN tree
      BY <1>2, <2>1, <2>4
    <3> HIDE DEF below
    <3>2. ASSUME NEW c \in collectTreeCIDs(below) PROVE c \in named
      <4>1. PICK i \in DOMAIN below :
              c = below[i].cid \/ c \in below[i].links \/ c \in below[i].acl
        BY NamedBy, Zenon
      <4>2. i \in DOMAIN tree /\ below[i] = tree[i]
        BY <3>1, ZenonT(30)
      <4> QED
        BY <4>1, <4>2, NamedBy
    <3> QED
      BY <3>2 DEF filterDeletableCIDs, prunedCIDs, below
  <2> HIDE DEF p, cut
  <2>11. Dropped' = Dropped \cup cut
    BY <1>1, <1>6 DEF Dropped
  <2>12. tree # <<>> /\ p # <<>>
    BY <2>1, <2>4, <2>5, SequenceShape
  <2>13. p[Len(p)] = tree[n]
    <3>1. n - b + 1 = Len(p)
      BY <2>1, <2>3, <2>5
    <3> QED
      BY <3>1, <2>4, <2>8
  <2>14. Len(p) > 1 /\ n > 1 /\ p[Len(p) - 1].cid = tree[n - 1].cid
    <3>1. Len(p) > 1 /\ n > 1 /\ Len(p) - 1 = n - b
      BY <2>1, <2>3, <2>5
    <3>2. CASE b = n - 1
      <4>1. Len(p) - 1 = 1
        BY <2>1, <2>5, <3>2
      <4> QED
        BY <3>1, <3>2, <4>1, <2>7, ZenonT(30)
    <3>3. CASE b # n - 1
      <4>1. n - 1 \in (b + 1)..n /\ (n - 1) - b + 1 = Len(p) - 1
        <5>1. b \in Int /\ n \in Int /\ b <= n - 1
          BY <2>1, <2>3
        <5>2. b + 1 <= n - 1
          BY <5>1, <3>3
        <5> QED
          BY <5>1, <5>2, <2>5
      <4>2. p[(n - 1) - b + 1] = tree[n - 1]
        BY <4>1, <2>8
      <4> QED
        BY <3>1, <4>1, <4>2
    <3> QED
      BY <3>2, <3>3
  <2>15. LinkOK(p, tips, Dropped \cup cut)
    <3> SUFFICES ASSUME NEW d \in selectCrossLinks(tips, Root(tree), 0)
                 PROVE  \/ d \in p[Len(p)].links
                        \/ Len(p) > 1 /\ d = p[Len(p) - 1].cid
                        \/ d \notin collectTreeCIDs(p) \cup (Dropped \cup cut)
      BY <2>9 DEF LinkOK
    <3>1. \/ d \in tree[n].links \/ d = tree[n - 1].cid \/ d \notin named \cup Dropped
      BY <2>12 DEF GcInv, LinkOK
    <3> QED
      BY <3>1, <2>9, <2>10, <2>13, <2>14
  <2>16. LinkOK(tree', tips', Dropped')
    BY <1>1, <1>6, <2>11, <2>15
  <2>17. collectTreeCIDs(tree') \cup Dropped' \subseteq named \cup Dropped
    BY <1>6, <2>9, <2>10, <2>11
  <2>18. KeptInv'
    <3>1. collectTreeCIDs(tree') \cap Dropped' = {}
      BY <1>6, <2>9, <2>10, <2>11 DEF GcInv, KeptInv
    <3> QED
      BY <1>6, <2>12, <3>1 DEF KeptInv
  <2>19. UnnamedInv'
    BY <1>1, <1>4, <2>17 DEF GcInv, UnnamedInv
  <2> QED
    BY <2>16, <2>18, <2>19 DEF GcInv
<1> QED
  BY <1>1, <1>5, <1>6 DEF PruneAndCollect

(* Every step preserves that what is dropped is not, and will not be, named.*)
LEMMA GcStep ==
  ASSUME KeepRecentNodes # 1, AclInv, HistInv, SnapInv, GcInv, [Next]_vars
  PROVE  GcInv'
<1>0. call \in [Calls -> CallRecord]
  BY CallTypes DEF HistInv
<1>1. ASSUME NEW x \in Calls, NEW r, call' = [call EXCEPT ![x] = r], r.pc # "signMessage",
             UNCHANGED <<tree, tips, gc, deleted>>, hashes \subseteq hashes'
      PROVE  GcInv'
  <2>1. call'[x] = r /\ \A y \in Calls \ {x} : call'[y] = call[y]
    BY <1>0, <1>1
  <2>2. \A y \in Calls : Unset(y)' => Unset(y) /\ call'[y].cid = call[y].cid
    BY <1>1, <2>1 DEF Unset
  <2>3. Dropped' = Dropped
    BY <1>1 DEF Dropped
  <2> QED
    BY <1>1, <2>2, <2>3, GcQuiet
<1>2. ASSUME NEW x \in Calls, Change(x) PROVE GcInv'
  <2> DEFINE c == 1 + Cardinality(hashes \cap Cids)
             r == Await("signMessage", c, FALSE, None)
  <2>1. /\ c \in Cids /\ hashes' = hashes \cup {c} /\ call' = [call EXCEPT ![x] = r]
        /\ UNCHANGED <<tree, tips, gc, deleted>>
    BY <1>2 DEF Change, snapshotVars
  <2>2. c \notin hashes
    BY <2>1, FreshCid
  <2>3. r.cid = c
    BY DEF Await
  <2> HIDE DEF r, c
  <2>4. call'[x] = r /\ \A y \in Calls \ {x} : call'[y] = call[y]
    BY <1>0, <2>1
  <2>5. \A y \in Calls : Unset(y)' => \/ Unset(y) /\ call'[y].cid = call[y].cid
                                      \/ call'[y].cid \notin hashes
    BY <2>2, <2>3, <2>4 DEF Unset
  <2>6. Dropped' = Dropped
    BY <2>1 DEF Dropped
  <2> QED
    BY <2>1, <2>5, <2>6, GcQuiet
<1>3. ASSUME NEW x \in Calls, SetLastSyncMessage(x) PROVE GcInv'
  BY <1>3, GcSetLast
<1>4. ASSUME NEW x \in Calls, SignFails(x) PROVE GcInv'
  BY <1>4, GcSignFails
<1>5. ASSUME NEW x \in Calls, CountChange(x) PROVE GcInv'
  <2> DEFINE due == Await("checkWriter", 0, TRUE, None)
  <2>1. due.pc = "checkWriter"
    BY DEF Await
  <2> HIDE DEF due
  <2>2. PICK r \in {due, Idle} : call' = [call EXCEPT ![x] = r]
    BY <1>5, ZenonT(30) DEF CountChange, due
  <2>3. UNCHANGED <<tree, tips, hashes, gc, deleted>>
    BY <1>5 DEF CountChange, changeVars, snapshotVars
  <2>4. r.pc # "signMessage"
    BY <2>1, <2>2, IdleRecord
  <2> QED
    BY <1>1, <2>2, <2>3, <2>4, ZenonT(30)
<1>6. ASSUME NEW x \in Calls,
             PublishFails(x) \/ SnapshotFails(x) \/ SnapshotRejected(x) \/ SnapshotVerified(x)
      PROVE  GcInv'
  <2>1. /\ UNCHANGED <<tree, tips, gc, deleted>> /\ hashes \subseteq hashes'
        /\ call' = [call EXCEPT ![x] = Idle]
    BY <1>6, ZenonT(30)
    DEF PublishFails, SnapshotFails, SnapshotRejected, SnapshotVerified, Release,
                applySnapshot, changeVars, snapshotVars
  <2> QED
    BY <1>1, <2>1, IdleRecord, ZenonT(30)
<1>7. ASSUME NEW x \in Calls, WriterChecked(x) \/ ManualSnapshot(x) PROVE GcInv'
  <2> DEFINE e == [call[x] EXCEPT !.pc = "ensureWriter"]
  <2>1. e.pc = "ensureWriter"
    BY <1>0, GoesOn
  <2>2. call' = [call EXCEPT ![x] = Idle] \/ call' = [call EXCEPT ![x] = e]
    BY <1>7 DEF WriterChecked, ManualSnapshot
  <2>3. UNCHANGED <<tree, tips, hashes, gc, deleted>>
    BY <1>7 DEF WriterChecked, ManualSnapshot, changeVars, snapshotVars
  <2> HIDE DEF e
  <2> QED
    BY <1>1, <2>1, <2>2, <2>3, IdleRecord
<1>8. ASSUME NEW x \in Calls, CaptureSnapshot(x) PROVE GcInv'
  <2>1. CASE Signing
    <3> DEFINE r == Await("signSnapshot", 0, call[x].auto, capture)
    <3>1. r.pc = "signSnapshot"
      BY DEF Await
    <3>2. call' = [call EXCEPT ![x] = r] /\ UNCHANGED <<tree, tips, hashes, gc, deleted>>
      BY <1>8, <2>1 DEF CaptureSnapshot, changeVars, snapshotVars
    <3> HIDE DEF r
    <3> QED
      BY <1>1, <3>1, <3>2, ZenonT(30)
  <2>2. CASE ~Signing
    <3>1. Install(x, capture)
      BY <1>8, <2>2 DEF CaptureSnapshot
    <3> HIDE DEF capture
    <3> QED
      BY <3>1, GcInstall
  <2> QED
    BY <2>1, <2>2
<1>9. ASSUME NEW x \in Calls, InstallSnapshot(x) PROVE GcInv'
  BY <1>9, GcInstall DEF InstallSnapshot
<1>10. ASSUME UNCHANGED <<tree, tips, call>>, hashes \subseteq hashes', Dropped' \subseteq Dropped
       PROVE  GcInv'
  <2>1. \A y \in Calls : Unset(y)' => Unset(y) /\ call'[y].cid = call[y].cid
    BY <1>10 DEF Unset
  <2> QED
    BY <1>10, <2>1, GcQuiet
<1>11. ASSUME NEW x \in Calls, ReceiveSnapshot(x) PROVE GcInv'
  <2>1. PICK s \in PeerSnapshots :
          IF Signing
          THEN /\ call' = [call EXCEPT ![x] = Await("verifySnapshot", 0, FALSE, s)]
               /\ UNCHANGED <<changeVars, counters, snapshotVars>>
          ELSE applySnapshot(s) /\ UNCHANGED call
    BY <1>11, Zenon DEF ReceiveSnapshot
  <2>2. CASE Signing
    <3> DEFINE r == Await("verifySnapshot", 0, FALSE, s)
    <3>1. r.pc = "verifySnapshot"
      BY DEF Await
    <3>2. call' = [call EXCEPT ![x] = r] /\ UNCHANGED <<tree, tips, hashes, gc, deleted>>
      BY <2>1, <2>2, ZenonT(30) DEF changeVars, snapshotVars
    <3> HIDE DEF r
    <3> QED
      BY <1>1, <3>1, <3>2, ZenonT(30)
  <2>3. CASE ~Signing
    BY <1>10, <2>1, <2>3, ZenonT(30) DEF applySnapshot, Dropped
  <2> QED
    BY <2>2, <2>3
<1>12. ASSUME NEW c \in gc, DeleteBlock(c) PROVE GcInv'
  <2>1. UNCHANGED <<tree, tips, call, hashes>> /\ Dropped' \subseteq Dropped
    BY <1>12 DEF DeleteBlock, changeVars, Dropped
  <2> QED
    BY <1>10, <2>1
<1>13. CASE UNCHANGED vars
  BY <1>10, <1>13 DEF vars, Dropped
<1> QED
  BY <1>2, <1>3, <1>4, <1>5, <1>6, <1>7, <1>8, <1>9, <1>11, <1>12, <1>13
  DEF Next, Continue

(* _gcPrunedBlocks: as long as a prune keeps more than one node, a block    *)
(* that the served tree names is never deleted, although blocks are deleted *)
(* long after they were handed over and changes are linked meanwhile.       *)
THEOREM NamedBlocksAreKept ==
  ASSUME KeepRecentNodes # 1
  PROVE  Spec => []LinkedBlocksKept
<1>1. Init => GcInv
  <2> SUFFICES ASSUME Init PROVE GcInv
    OBVIOUS
  <2>1. tree = <<>> /\ gc = {} /\ deleted = {} /\ call = [x \in Calls |-> Idle]
    BY DEF Init
  <2>2. \A x \in Calls : ~Unset(x)
    BY <2>1, IdleRecord DEF Unset
  <2>3. collectTreeCIDs(tree) = {}
    BY <2>1, EmptyIsSequence, NamedBy
  <2> QED
    BY <2>1, <2>2, <2>3 DEF GcInv, UnnamedInv, KeptInv, Dropped, LinkOK
<1>2. AclInv /\ HistInv /\ SnapInv /\ GcInv /\ [Next]_vars => GcInv'
  BY GcStep
<1>3. GcInv => LinkedBlocksKept
  BY DEF GcInv, KeptInv, Dropped, LinkedBlocksKept
<1> QED
  BY <1>1, <1>2, <1>3, CoverInvHolds, PTL DEF Spec
=============================================================================
