----------------------------- MODULE Compaction -----------------------------
(***************************************************************************)
(* History compaction at one replica: _makeChange's tail and _maybeCompact,*)
(* snapshot() with the pruning of the served tree and the deletion of      *)
(* pruned blocks, and the installation of a peer's snapshot by sync().     *)
(*                                                                         *)
(* A step is the code between two awaits of a call.  The trees are those   *)
(* of ChangeTree; a pruned tree ends in a node whose children are ACL      *)
(* nodes kept as leaves, with their payload (acl) or without (links).      *)
(* Building a message and setting it are one step here: DocumentSync has   *)
(* the calls that overlap there.                                           *)
(***************************************************************************)
EXTENDS ChangeTree, FiniteSetsExt

CONSTANTS Calls,            \* calls of the replica's methods that may overlap
          Foreign,          \* changes of a peer, known from its snapshots only
          MaxAcl,           \* bound: how many of the changes are ACL changes
          Signing,          \* _isSigningEnabled()
          PeerCompacts,     \* snapshots of peers may arrive
          SnapshotInterval, \* CompactionConfig.snapshotInterval
          MinChanges,       \* CompactionConfig.minChangesBeforeSnapshot
          KeepRecentNodes,  \* CompactionConfig.keepRecentNodes
          None

ASSUME CompactionAssumption ==
  /\ Cids = 1..Cardinality(Cids)
  /\ IsFiniteSet(Foreign) /\ Foreign \subseteq Nat \ Cids
  /\ {Signing, PeerCompacts} \subseteq BOOLEAN
  /\ {MaxAcl, SnapshotInterval, MinChanges, KeepRecentNodes} \subseteq Nat

VARIABLES history,   \* every change set in _lastSyncMessage, in order, unpruned
          acl,       \* which of the changes are ACL changes
          tree,      \* _lastSyncMessage.changes
          tips,      \* _recentTips
          document,  \* the document changes merged into _document
          hashes,    \* _hashes
          documentChangeCount, changesSinceSnapshot,
          latest,    \* _latestSnapshot
          compactionInProgress,
          gc,        \* blocks _gcPrunedBlocks has yet to delete
          deleted,   \* blocks it has deleted
          call       \* the calls: what they await, and what they hold

vars == <<history, acl, tree, tips, document, hashes, documentChangeCount,
          changesSinceSnapshot, latest, compactionInProgress, gc, deleted, call>>

changeVars   == <<history, acl, tree, tips, document, hashes>>
snapshotVars == <<latest, compactionInProgress, gc, deleted>>
counters     == <<documentChangeCount, changesSinceSnapshot>>

Snapshot == [state : SUBSET (Cids \cup Foreign),
             lastChangeNodeCID : Cids \cup Foreign \cup {0},   \* 0: ''
             compactedCount : Nat]

ASSUME NoneAssumption == None \notin Snapshot

(* A call: the await it is at, the change or snapshot it holds, and whether *)
(* it comes from _maybeCompact.                                            *)
Await(pc, cid, auto, snapshot) ==
  [pc |-> pc, cid |-> cid, auto |-> auto, snapshot |-> snapshot]

Idle == Await("idle", 0, FALSE, None)

Root(t) == IF t = <<>> THEN 0 ELSE t[Len(t)].cid

(* Every node of a tree, with the ACL leaves that pruning attached to it.  *)
AclLeaves(t) == UNION {t[i].acl : i \in DOMAIN t}
collectTreeCIDs(t) == collectAllCidsInTree(t) \cup AclLeaves(t)

TreeNode == [cid : Cids, links : SUBSET Cids, acl : SUBSET Cids]

CallRecord ==
  [pc : {"idle", "signMessage", "publish", "checkWriter", "ensureWriter",
         "signSnapshot", "verifySnapshot"},
   cid : Cids \cup {0}, auto : BOOLEAN, snapshot : Snapshot \cup {None}]

TypeOK ==
  /\ history \in Seq(Cids) /\ acl \subseteq Cids
  /\ tree \in Seq(TreeNode)
  /\ tips \in Seq(Cids) /\ Len(tips) <= MaxRecentTips
  /\ document \subseteq Cids \cup Foreign /\ hashes \subseteq Cids \cup Foreign
  /\ {documentChangeCount, changesSinceSnapshot} \subseteq Nat
  /\ latest \in Snapshot \cup {None}
  /\ compactionInProgress \in BOOLEAN
  /\ gc \subseteq Cids /\ deleted \subseteq Cids
  /\ call \in [Calls -> CallRecord]

Init ==
  /\ history = <<>> /\ acl = {} /\ tree = <<>> /\ tips = <<>>
  /\ document = {} /\ hashes = {}
  /\ documentChangeCount = 0 /\ changesSinceSnapshot = 0
  /\ latest = None /\ compactionInProgress = FALSE
  /\ gc = {} /\ deleted = {}
  /\ call = [x \in Calls |-> Idle]

-----------------------------------------------------------------------------
(* Pruning.  _pruneChanges goes through the tree level by level, a spine   *)
(* node before the leaves beside it, and counts document nodes, deferred   *)
(* leaves included.  At spine node i (the root is the last) it has counted *)
(* the spine from the root to i and the leaves of the nodes above i + 1.   *)

documentNodesVisited(t, i) ==
  LET spine  == {j \in i..Len(t) : t[j].cid \notin acl}
      leaves == UNION {{j} \X (t[j].links \ acl) : j \in (i + 2)..Len(t)}
  IN Cardinality(spine) + Cardinality(leaves)

(* The first document node at which the count is reached; 0 if none is.    *)
Boundary(t, keepCount) ==
  LET reached == {i \in DOMAIN t : /\ t[i].cid \notin acl
                                   /\ documentNodesVisited(t, i) >= keepCount}
  IN IF reached = {} THEN 0 ELSE Max(reached)

(* Mutant: only the direct children are searched for ACL nodes.            *)
collectACLNodesShallow(t, b) ==
  LET parent == IF b = 1 THEN {} ELSE {t[b - 1].cid} \cap acl
  IN [named   |-> (t[b].links \cap acl) \cup t[b].acl \cup parent,
      payload |-> t[b].acl \cup parent]

(* The ACL nodes below node b, keyed by CID: a later one replaces an       *)
(* earlier one.  The embedded parent is entered first and the deferred     *)
(* leaves of a node follow it, so a CID that is also a leaf loses the      *)
(* payload.                                                                *)
collectACLNodes(t, b) ==
  LET below    == SubSeq(t, 1, b)
      inline   == {t[j].cid : j \in 1..(b - 1)} \cap acl
      deferred == Deferred(below) \cap acl
  IN [named   |-> inline \cup AclLeaves(below) \cup deferred,
      payload |-> (inline \cup AclLeaves(below)) \ deferred]

(* The document nodes below node b: those that are cut off.                *)
prunedCIDs(t, b) == (collectTreeCIDs(SubSeq(t, 1, b)) \ {t[b].cid}) \ acl

(* The tree that remains: node b keeps only the ACL nodes as children.     *)
prunedTree(t, b) ==
  LET kept == collectACLNodes(t, b)
      node == [cid |-> t[b].cid, links |-> kept.named \ kept.payload,
               acl |-> kept.payload]
  IN <<node>> \o SubSeq(t, b + 1, Len(t))

(* Mutant: what the tree that remains names is not looked at.              *)
filterDeletableCIDsAll(candidates, t, protectedCIDs) == candidates \ protectedCIDs

filterDeletableCIDs(candidates, t, protectedCIDs) ==
  (candidates \ collectTreeCIDs(t)) \ protectedCIDs

(* The end of snapshot(): prune the tree, and hand blocks to the GC.       *)
PruneAndCollect(boundaryCID) ==
  LET b == Boundary(tree, KeepRecentNodes)
  IN IF KeepRecentNodes = 0 \/ b = 0
     THEN UNCHANGED <<tree, gc>>
     ELSE /\ tree' = prunedTree(tree, b)
          /\ gc' = gc \cup filterDeletableCIDs(prunedCIDs(tree, b),
                                               prunedTree(tree, b), {boundaryCID})

-----------------------------------------------------------------------------
(* A change is applied to the document, or to an ACL, and its block stored.*)
Change(x) ==
  /\ call[x] = Idle
  /\ LET c == 1 + Cardinality(hashes \cap Cids)
     IN /\ c \in Cids
        /\ \/ /\ document' = document \cup {c}
              /\ UNCHANGED acl
           \/ /\ Cardinality(acl) < MaxAcl
              /\ acl' = acl \cup {c}
              /\ UNCHANGED document
        /\ hashes' = hashes \cup {c}
        /\ call' = [call EXCEPT ![x] = Await("signMessage", c, FALSE, None)]
  /\ UNCHANGED <<history, tree, tips, counters, snapshotVars>>

(* The new node goes above the tree served so far, with cross-links.       *)
SetLastSyncMessage(x) ==
  /\ call[x].pc = "signMessage"
  /\ LET c == call[x].cid
         links == IF tree = <<>> THEN {} ELSE selectCrossLinks(tips, Root(tree), c)
     IN /\ history' = Append(history, c)
        /\ tree' = Append(tree, [cid |-> c, links |-> links, acl |-> {}])
        /\ tips' = trackTipInList(tips, c)
        /\ call' = [call EXCEPT ![x] = IF c \in acl THEN Idle
                                       ELSE [@ EXCEPT !.pc = "publish"]]
  /\ UNCHANGED <<acl, document, hashes, counters, snapshotVars>>

(* Signing fails: the call throws, with the change a tip and not served.   *)
SignFails(x) ==
  /\ call[x].pc = "signMessage"
  /\ tips' = trackTipInList(tips, call[x].cid)
  /\ call' = [call EXCEPT ![x] = Idle]
  /\ UNCHANGED <<history, acl, tree, document, hashes, counters, snapshotVars>>

(* The message is published: the change is counted, and _maybeCompact goes *)
(* up to the check of the writer ACL.                                      *)
CountChange(x) ==
  /\ call[x].pc = "publish"
  /\ documentChangeCount' = documentChangeCount + 1
  /\ changesSinceSnapshot' = changesSinceSnapshot + 1
  /\ LET due == /\ ~compactionInProgress
                /\ documentChangeCount' >= MinChanges
                /\ changesSinceSnapshot' >= SnapshotInterval
     IN call' = [call EXCEPT ![x] =
                   IF due THEN Await("checkWriter", 0, TRUE, None) ELSE Idle]
  /\ UNCHANGED <<changeVars, snapshotVars>>

(* Encrypting or publishing fails: the call throws, with the message set.  *)
PublishFails(x) ==
  /\ call[x].pc = "publish"
  /\ call' = [call EXCEPT ![x] = Idle]
  /\ UNCHANGED <<changeVars, counters, snapshotVars>>

(* _maybeCompact goes on to snapshot(), or the user is not a writer.       *)
WriterChecked(x) ==
  /\ call[x].pc = "checkWriter"
  /\ \/ /\ compactionInProgress' = TRUE
        /\ call' = [call EXCEPT ![x].pc = "ensureWriter"]
     \/ /\ call' = [call EXCEPT ![x] = Idle]
        /\ UNCHANGED compactionInProgress
  /\ UNCHANGED <<changeVars, counters, latest, gc, deleted>>

(* The application calls snapshot() itself.                                *)
ManualSnapshot(x) ==
  /\ call[x] = Idle
  /\ call' = [call EXCEPT ![x].pc = "ensureWriter"]
  /\ UNCHANGED <<changeVars, counters, snapshotVars>>

(* What snapshot() takes down of the document, without an await.           *)
capture ==
  [state |-> document, lastChangeNodeCID |-> Root(tree),
   compactedCount |-> documentChangeCount]

(* A finally block resets the flag, whichever call set it.                 *)
Release(x) ==
  /\ compactionInProgress' = (compactionInProgress /\ ~call[x].auto)
  /\ call' = [call EXCEPT ![x] = Idle]

(* Mutant: the flag stays set when snapshot() throws.                      *)
SnapshotFailsHeld(x) ==
  /\ call[x].pc \in {"ensureWriter", "signSnapshot"}
  /\ call' = [call EXCEPT ![x] = Idle]
  /\ UNCHANGED <<changeVars, counters, snapshotVars>>

(* snapshot() throws: not a writer, or the signature fails.                *)
SnapshotFails(x) ==
  /\ call[x].pc \in {"ensureWriter", "signSnapshot"}
  /\ Release(x)
  /\ UNCHANGED <<changeVars, counters, latest, gc, deleted>>

(* Mutant: the tree is pruned, and the snapshot not kept.                  *)
InstallUnset(x, s) ==
  /\ changesSinceSnapshot' = 0
  /\ PruneAndCollect(s.lastChangeNodeCID)
  /\ Release(x)
  /\ UNCHANGED <<history, acl, tips, document, hashes, documentChangeCount, deleted, latest>>

(* The rest of snapshot() once the snapshot is signed.                     *)
Install(x, s) ==
  /\ latest' = s
  /\ changesSinceSnapshot' = 0
  /\ PruneAndCollect(s.lastChangeNodeCID)
  /\ Release(x)
  /\ UNCHANGED <<history, acl, tips, document, hashes, documentChangeCount, deleted>>

(* Without signatures there is no await between the capture and the rest.  *)
CaptureSnapshot(x) ==
  /\ call[x].pc = "ensureWriter"
  /\ IF Signing
     THEN /\ call' = [call EXCEPT ![x] = Await("signSnapshot", 0, @.auto, capture)]
          /\ UNCHANGED <<changeVars, counters, snapshotVars>>
     ELSE Install(x, capture)

(* Mutant: the boundary is read after the await, the state before it.      *)
InstallSnapshotLate(x) ==
  /\ call[x].pc = "signSnapshot"
  /\ Install(x, [call[x].snapshot EXCEPT !.lastChangeNodeCID = Root(tree)])

InstallSnapshot(x) ==
  /\ call[x].pc = "signSnapshot"
  /\ Install(x, call[x].snapshot)

(* _gcPrunedBlocks deletes a block, or logs that it could not.             *)
DeleteBlock(c) ==
  /\ c \in gc
  /\ gc' = gc \ {c}
  /\ deleted' \in {deleted, deleted \cup {c}}
  /\ UNCHANGED <<changeVars, counters, latest, compactionInProgress, call>>

-----------------------------------------------------------------------------
(* Snapshots a peer may have made: of a prefix of what this replica has    *)
(* published, and of changes of its own.                                   *)
PeerSnapshots ==
  LET Prefix(n) == {history[i] : i \in 1..n} \ acl
      States == {Prefix(n) \cup f : n \in 0..Len(history), f \in SUBSET Foreign}
  IN UNION {{[state |-> s, lastChangeNodeCID |-> c, compactedCount |-> Cardinality(s)] :
               c \in s} : s \in States}

MoreRecent(s) ==
  latest # None =>
    \/ s.compactedCount > latest.compactedCount
    \/ /\ s.compactedCount = latest.compactedCount
       /\ s.lastChangeNodeCID > latest.lastChangeNodeCID

applySnapshot(s) ==
  /\ document' = document \cup s.state
  /\ latest' = s
  /\ documentChangeCount' = Max({documentChangeCount, s.compactedCount})
  /\ changesSinceSnapshot' = 0
  /\ hashes' = hashes \cup {s.lastChangeNodeCID}
  /\ UNCHANGED <<history, acl, tree, tips, compactionInProgress, gc, deleted>>

(* sync() meets a snapshot that is more recent than the latest one.        *)
ReceiveSnapshot(x) ==
  /\ PeerCompacts
  /\ call[x] = Idle
  /\ \E s \in PeerSnapshots :
       /\ MoreRecent(s)
       /\ IF Signing
          THEN /\ call' = [call EXCEPT ![x] = Await("verifySnapshot", 0, FALSE, s)]
               /\ UNCHANGED <<changeVars, counters, snapshotVars>>
          ELSE /\ applySnapshot(s)
               /\ UNCHANGED call

(* Its signature is verified, and it is installed; the comparison is not   *)
(* repeated.                                                               *)
SnapshotVerified(x) ==
  /\ call[x].pc = "verifySnapshot"
  /\ applySnapshot(call[x].snapshot)
  /\ call' = [call EXCEPT ![x] = Idle]

SnapshotRejected(x) ==
  /\ call[x].pc = "verifySnapshot"
  /\ call' = [call EXCEPT ![x] = Idle]
  /\ UNCHANGED <<changeVars, counters, snapshotVars>>

Continue(x) ==
  \/ SetLastSyncMessage(x) \/ SignFails(x) \/ CountChange(x) \/ PublishFails(x)
  \/ WriterChecked(x) \/ SnapshotFails(x) \/ CaptureSnapshot(x) \/ InstallSnapshot(x)
  \/ SnapshotVerified(x) \/ SnapshotRejected(x)

Next ==
  \/ \E x \in Calls : Change(x) \/ ManualSnapshot(x) \/ ReceiveSnapshot(x) \/ Continue(x)
  \/ \E c \in gc : DeleteBlock(c)

Spec == Init /\ [][Next]_vars

(* The promises a call awaits settle.                                      *)
FairSpec == Spec /\ \A x \in Calls : WF_vars(Continue(x))

-----------------------------------------------------------------------------
Served == {history[i] : i \in DOMAIN history}

(* _pruneChanges: however often the tree is pruned, every ACL change that   *)
(* was ever served is still named by it, so a joiner can learn of it.       *)
AclNodesNamed == Served \cap acl \subseteq collectTreeCIDs(tree)

(* _pruneChanges: ACL nodes survive pruning with the change they carry.     *)
AclPayloadKept == Served \cap acl \subseteq Inline(tree) \cup AclLeaves(tree)

(* snapshot(): the change that a snapshot names as its boundary, and every  *)
(* change below it in the history, is represented by the snapshot's state,  *)
(* for a peer marks the boundary as seen and does not look below it.  Thus  *)
(* in sync() a change that counts as seen, a boundary included, is merged.  *)
(* It includes the types.                                                   *)
SnapshotCoversBoundary ==
  /\ TypeOK
  /\ latest # None =>
       \A i \in DOMAIN history : history[i] = latest.lastChangeNodeCID =>
         \A j \in 1..i : history[j] \in latest.state \cup acl
  /\ hashes \subseteq document \cup acl

(* _gcPrunedBlocks: no block that the served tree names has been deleted,   *)
(* although blocks are deleted after later changes have been linked.        *)
LinkedBlocksKept == collectTreeCIDs(tree) \cap deleted = {}

(* snapshot() and sync(): the latest snapshot and the served tree together  *)
(* hold every document change that was ever served, so a peer that loads    *)
(* them arrives at the whole document.                                      *)
ServedComplete ==
  Served \ acl \subseteq Inline(tree) \cup (IF latest = None THEN {} ELSE latest.state)

(* _pruneChanges: a prune that cuts changes off leaves at least             *)
(* KeepRecentNodes of them.                                                 *)
RecentNodesKept ==
  [][Inline(tree) \subseteq Inline(tree') \/
     Cardinality(Inline(tree') \ acl) >= KeepRecentNodes]_vars

(* _maybeCompact: snapshot() calls of concurrent paths do not overlap.      *)
OneSnapshotAtATime ==
  \A x, y \in Calls :
    (call[x].auto /\ call[y].auto /\ {call[x].pc, call[y].pc} \subseteq
       {"ensureWriter", "signSnapshot"}) => x = y

(* sync(): a received snapshot replaces only one that it is more recent     *)
(* than.                                                                    *)
LatestAdvances ==
  [][(latest' # latest /\ \E x \in Calls : SnapshotVerified(x)) => MoreRecent(latest')]_vars

(* _maybeCompact: the flag that keeps other calls from compacting is reset, *)
(* also when snapshot() throws.                                             *)
CompactionEnds == compactionInProgress ~> ~compactionInProgress
=============================================================================
