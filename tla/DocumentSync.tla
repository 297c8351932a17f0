---------------------------- MODULE DocumentSync ----------------------------
(***************************************************************************)
(* Replicas of one open document exchanging changes over a GossipSub topic *)
(* (collabswarm-document.ts: change, _makeChange, sync,                    *)
(* _syncDocumentChanges, _refreshLastSyncMessageFromSync).                 *)
(*                                                                         *)
(* The code is single-threaded and asynchronous: an action is what runs    *)
(* between two awaits, and everything else may run in between.  Messages   *)
(* may be lost (never received), reordered and received again; a block     *)
(* fetch may fail.  A change is named by the CID of its block; its tree is *)
(* the tree of the message that publishes it, and every replica's          *)
(* _lastSyncMessage is the message of some change.  Here every node is a   *)
(* document change; pruning, rollback and ACL changes are not part of this *)
(* module.                                                                 *)
(***************************************************************************)
EXTENDS ChangeTree

CONSTANTS Replicas,
          Genesis,   \* the founder's first change, which open() publishes
          Slots,     \* sync() calls in flight at one replica
          None

ASSUME GenesisAssumption == Genesis \in Cids
ASSUME NoneAssumption == None \notin Cids /\ None \notin Replicas

VARIABLES
  change,      \* change[c]: progress of the _makeChange call that creates c
  document,    \* document[r]: the changes merged into _document
  hashes,      \* hashes[r]: _hashes
  referenced,  \* referenced[r]: _referencedAncestors
  last,        \* last[r]: changeId of _lastSyncMessage
  tips,        \* tips[r]: CIDs of _recentTips, newest last
  sync         \* sync[r][s]: a sync() call

vars == <<change, document, hashes, referenced, last, tips, sync>>

ChangeState ==
  [pc : {"unused", "putting", "signing", "publishing", "published", "failed"},
   author : Replicas \cup {None},
   tree : Tree]

SyncState ==
  [pc : {"idle", "merging", "fetching"},
   root : Cids \cup {None},
   new : Tree,                  \* entries with an inline payload
   missing : SUBSET Cids]       \* entries to fetch

IdleSync == [pc |-> "idle", root |-> None, new |-> <<>>, missing |-> {}]

(* What an instance must keep: values have their types.                    *)
TypeOK ==
  /\ change \in [Cids -> ChangeState]
  /\ document \in [Replicas -> SUBSET Cids]
  /\ hashes \in [Replicas -> SUBSET Cids]
  /\ referenced \in [Replicas -> SUBSET Cids]
  /\ last \in [Replicas -> Cids]
  /\ tips \in [Replicas -> Seq(Cids)]
  /\ sync \in [Replicas -> [Slots -> SyncState]]

(* Every replica has opened the document: the founder created Genesis in   *)
(* open(), the others loaded it.                                           *)
Init ==
  /\ change = [c \in Cids |->
                IF c = Genesis
                THEN [pc |-> "published", author |-> None,
                      tree |-> <<[cid |-> Genesis, links |-> {}]>>]
                ELSE [pc |-> "unused", author |-> None, tree |-> <<>>]]
  /\ document = [r \in Replicas |-> {Genesis}]
  /\ hashes = [r \in Replicas |-> {Genesis}]
  /\ referenced = [r \in Replicas |-> {}]
  /\ last = [r \in Replicas |-> Genesis]
  /\ tips = [r \in Replicas |-> <<Genesis>>]
  /\ sync = [r \in Replicas |-> [s \in Slots |-> IdleSync]]

TreeOf(c) == change[c].tree

-----------------------------------------------------------------------------
(* change(): the local edit is in the document before _putBlock is         *)
(* awaited.                                                                *)
Change(r, c) ==
  /\ change[c].pc = "unused"
  /\ change' = [change EXCEPT ![c].pc = "putting", ![c].author = r]
  /\ document' = [document EXCEPT ![r] = @ \cup {c}]
  /\ UNCHANGED <<hashes, referenced, last, tips, sync>>

(* _putBlock rejects: the edit stays in the local document, unpublished.   *)
PutBlockFails(c) ==
  /\ change[c].pc = "putting"
  /\ change' = [change EXCEPT ![c].pc = "failed"]
  /\ UNCHANGED <<document, hashes, referenced, last, tips, sync>>

(* _makeChange from _putBlock to the await of _signAsWriter.               *)
BuildMessage(c) ==
  LET r == change[c].author
      links == selectCrossLinks(tips[r], last[r], c)
  IN /\ change[c].pc = "putting"
     /\ hashes' = [hashes EXCEPT ![r] = @ \cup {c}]
     /\ change' = [change EXCEPT
                     ![c].pc = "signing",
                     ![c].tree = Append(TreeOf(last[r]),
                                        [cid |-> c, links |-> links])]
     /\ referenced' = [referenced EXCEPT ![r] = @ \cup {last[r]} \cup links]
     /\ tips' = [tips EXCEPT ![r] = trackTipInList(@, c)]
     /\ UNCHANGED <<document, last, sync>>

(* _makeChange after the signature: the message replaces whatever          *)
(* _lastSyncMessage has become in the meantime.                            *)
SetLastSyncMessage(c) ==
  /\ change[c].pc = "signing"
  /\ last' = [last EXCEPT ![change[c].author] = c]
  /\ change' = [change EXCEPT ![c].pc = "publishing"]
  /\ UNCHANGED <<document, hashes, referenced, tips, sync>>

Publish(c) ==
  /\ change[c].pc = "publishing"
  /\ change' = [change EXCEPT ![c].pc = "published"]
  /\ UNCHANGED <<document, hashes, referenced, last, tips, sync>>

(* Signing (before last is set) or publishing (after it) rejects.          *)
MakeChangeFails(c) ==
  /\ change[c].pc \in {"signing", "publishing"}
  /\ change' = [change EXCEPT ![c].pc = "failed"]
  /\ UNCHANGED <<document, hashes, referenced, last, tips, sync>>

-----------------------------------------------------------------------------
(* Mutant: a CID that some tree references is taken for a known one.       *)
ReceiveSyncSkipsReferenced(r, s, c) ==
  LET tree == TreeOf(c)
      known == hashes[r] \cup referenced[r]
  IN /\ sync[r][s].pc = "idle"
     /\ change[c].pc = "published"
     /\ change[c].author \notin {r, None}
     /\ referenced' = [referenced EXCEPT
                         ![r] = @ \cup collectReferencedAncestors(tree)]
     /\ sync' = [sync EXCEPT ![r][s] =
                   [pc |-> "merging", root |-> c,
                    new |-> NewNodes(tree, known),
                    missing |-> MissingCids(tree, known)]]
     /\ UNCHANGED <<change, document, hashes, last, tips>>

(* sync() of the message of c: the walk over its tree, up to the await of  *)
(* _mergeSyncTree.  GossipSub does not deliver a node's own messages, and  *)
(* that of Genesis is over when the replicas have opened.                  *)
ReceiveSync(r, s, c) ==
  LET tree == TreeOf(c)
      known == hashes[r] \cup {last[r]}
  IN /\ sync[r][s].pc = "idle"
     /\ change[c].pc = "published"
     /\ change[c].author \notin {r, None}
     /\ referenced' = [referenced EXCEPT
                         ![r] = @ \cup collectReferencedAncestors(tree)]
     /\ sync' = [sync EXCEPT ![r][s] =
                   [pc |-> "merging", root |-> c,
                    new |-> NewNodes(tree, known),
                    missing |-> MissingCids(tree, known)]]
     /\ UNCHANGED <<change, document, hashes, last, tips>>

(* Mutant: the entries still to be fetched are marked as seen at once.     *)
ApplyInlineMarksMissing(r, s) ==
  LET new == sync[r][s].new
  IN /\ sync[r][s].pc = "merging"
     /\ document' = [document EXCEPT ![r] = @ \cup Inline(new)]
     /\ hashes' = [hashes EXCEPT
                     ![r] = @ \cup Inline(new) \cup sync[r][s].missing]
     /\ tips' = [tips EXCEPT
                   ![r] = TrackTips(@, [i \in DOMAIN new |-> new[i].cid])]
     /\ sync' = [sync EXCEPT ![r][s].pc = "fetching", ![r][s].new = <<>>]
     /\ UNCHANGED <<change, referenced, last>>

(* The entries with a payload are applied in one go; their tips are        *)
(* tracked oldest first, so the message's root is the newest.              *)
ApplyInline(r, s) ==
  LET new == sync[r][s].new
  IN /\ sync[r][s].pc = "merging"
     /\ document' = [document EXCEPT ![r] = @ \cup Inline(new)]
     /\ hashes' = [hashes EXCEPT ![r] = @ \cup Inline(new)]
     /\ tips' = [tips EXCEPT
                   ![r] = TrackTips(@, [i \in DOMAIN new |-> new[i].cid])]
     /\ sync' = [sync EXCEPT ![r][s].pc = "fetching", ![r][s].new = <<>>]
     /\ UNCHANGED <<change, referenced, last>>

(* The continuation of one _getBlock.                                      *)
FetchMissing(r, s, c) ==
  /\ sync[r][s].pc = "fetching"
  /\ c \in sync[r][s].missing
  /\ document' = [document EXCEPT ![r] = @ \cup {c}]
  /\ hashes' = [hashes EXCEPT ![r] = @ \cup {c}]
  /\ tips' = [tips EXCEPT ![r] = trackTipInList(@, c)]
  /\ sync' = [sync EXCEPT ![r][s].missing = @ \ {c}]
  /\ UNCHANGED <<change, referenced, last>>

(* A failed fetch is logged; its CID is forgotten.                         *)
FetchFails(r, s, c) ==
  /\ sync[r][s].pc = "fetching"
  /\ c \in sync[r][s].missing
  /\ sync' = [sync EXCEPT ![r][s].missing = @ \ {c}]
  /\ UNCHANGED <<change, document, hashes, referenced, last, tips>>

(* _refreshLastSyncMessageFromSync: the received message is adopted when   *)
(* it names the root of the current one.                                   *)
refreshed(r, c) ==
  IF treeContainsCid(TreeOf(c), last[r]) THEN c ELSE last[r]

FinishSync(r, s) ==
  /\ sync[r][s].pc = "fetching"
  /\ sync[r][s].missing = {}
  /\ last' = [last EXCEPT ![r] = refreshed(r, sync[r][s].root)]
  /\ sync' = [sync EXCEPT ![r][s] = IdleSync]
  /\ UNCHANGED <<change, document, hashes, referenced, tips>>

-----------------------------------------------------------------------------
MakeChange(c) ==
  \/ PutBlockFails(c)
  \/ BuildMessage(c)
  \/ SetLastSyncMessage(c)
  \/ Publish(c)
  \/ MakeChangeFails(c)

SyncStep(r, s) ==
  \/ ApplyInline(r, s)
  \/ \E c \in Cids : FetchMissing(r, s, c) \/ FetchFails(r, s, c)
  \/ FinishSync(r, s)

Next ==
  \/ \E r \in Replicas, c \in Cids : Change(r, c)
  \/ \E c \in Cids : MakeChange(c)
  \/ \E r \in Replicas, s \in Slots, c \in Cids : ReceiveSync(r, s, c)
  \/ \E r \in Replicas, s \in Slots : SyncStep(r, s)

Spec == Init /\ [][Next]_vars

(* Calls in flight make progress; a message whose change a replica does    *)
(* not know is delivered to it at some point.                              *)
Fairness ==
  /\ \A c \in Cids :
       WF_vars(BuildMessage(c) \/ SetLastSyncMessage(c) \/ Publish(c))
  /\ \A r \in Replicas, s \in Slots : WF_vars(SyncStep(r, s))
  /\ \A r \in Replicas, c \in Cids :
       SF_vars(c \notin hashes[r] /\ \E s \in Slots : ReceiveSync(r, s, c))

FairSpec == Spec /\ Fairness

-----------------------------------------------------------------------------
(* The walk over a received tree stops at a CID of _hashes, and nothing is *)
(* ever fetched for it again: such a change is in the document.  So are    *)
(* the root of the message that a replica serves and builds on and the     *)
(* tips that it links, whatever calls interleave; the tips are distinct    *)
(* and within MAX_RECENT_TIPS.                                             *)
(* It includes the types.                                                  *)
KnownIsMerged ==
  /\ TypeOK
  /\ \A r \in Replicas :
       /\ hashes[r] \subseteq document[r]
       /\ last[r] \in hashes[r]
       /\ Len(tips[r]) <= MaxRecentTips
       /\ \A i, j \in DOMAIN tips[r] : tips[r][i] = tips[r][j] => i = j
       /\ \A i \in DOMAIN tips[r] : tips[r][i] \in hashes[r]

(* The code promises eventual consistency: a published change reaches the  *)
(* document of every replica.                                              *)
PublishedReachesAll ==
  \A c \in Cids, r \in Replicas :
    change[c].pc = "published" ~> c \in document[r]

-----------------------------------------------------------------------------
Finishing(r, s) == sync[r][s].pc = "fetching" /\ sync'[r][s].pc = "idle"

(* sync() applies the new changes of its message: when it is done, every   *)
(* change whose payload the message carries is in the document.            *)
CarriedChangesMerged ==
  [][\A r \in Replicas, s \in Slots :
       Finishing(r, s) => Inline(TreeOf(sync[r][s].root)) \subseteq document[r]]_vars

(* _refreshLastSyncMessageFromSync replaces the served message only by one *)
(* that covers every change the old one names.                             *)
RefreshKeepsCoverage ==
  [][\A r \in Replicas, s \in Slots :
       Finishing(r, s) => collectAllCidsInTree(TreeOf(last[r]))
                            \subseteq collectAllCidsInTree(TreeOf(last[r]'))]_vars

(* What a replica serves never shrinks, whichever call replaces it.        *)
ServedCoverageGrows ==
  [][\A r \in Replicas : collectAllCidsInTree(TreeOf(last[r]))
                            \subseteq collectAllCidsInTree(TreeOf(last[r]'))]_vars

(* _currentFrontier                                                        *)
currentFrontier(r) == hashes[r] \ referenced[r]

(* The next local change links every head its replica has merged.          *)
NextChangeLinksHeads ==
  [][\A c \in Cids :
       change[c].pc = "putting" /\ change'[c].pc = "signing" =>
         currentFrontier(change[c].author)
           \subseteq collectAllCidsInTree(change'[c].tree)]_vars
=============================================================================
