---------------------------- MODULE Transaction -----------------------------
(***************************************************************************)
(* startChange(), addChange(), endChange() and change() of one document,   *)
(* with the messages of other peers that arrive during their awaits, and   *)
(* the rollback of a transaction that fails.                               *)
(*                                                                         *)
(* A change is its CID and the document is the set of changes applied to   *)
(* it. A Set of the code, whose iteration is in order of insertion, is a   *)
(* sequence. A CRDT provider either returns a new document (Automerge) or  *)
(* mutates the one it is given (Yjs); then the reference that a rollback   *)
(* restores is to the mutated one. The trees of other peers hold every     *)
(* payload, and compaction is left to its own module.                      *)
(***************************************************************************)
EXTENDS ChangeTree

CONSTANTS
  Commits,              \* changes that endChange() makes, one a transaction
  Changes,              \* changes that change() makes
  RemoteTree,           \* the tree of the message of each remote change
  MaxPending,           \* bound on the queued change functions
  MaxDeliveries         \* bound on the deliveries of a message

VARIABLES
  inPlace,              \* the provider mutates in place
  document,             \* _document
  hashes,               \* _hashes
  referencedAncestors,  \* _referencedAncestors
  lastSyncMessage,      \* the tree of _lastSyncMessage, empty when undefined
  documentChangeCount, recentTips,
  inTransaction, committing,
  pendingChangeFns,     \* number of _pendingChangeFns
  original,             \* what endChange() keeps for the rollback
  stage,                \* the await of each local change
  made,                 \* the tree of each local change, once it has one
  receiving,            \* the await of the delivery of each remote change
  deliveries,
  mixed,                \* a change() and a commit were under way at once
  failedChange,         \* a change() has failed after it changed the document
  lateRefresh           \* a commit failed while a delivery was under way

state == <<document, hashes, referencedAncestors, lastSyncMessage, documentChangeCount, recentTips>>
transaction == <<inTransaction, committing, pendingChangeFns, original>>
history == <<mixed, failedChange, lateRefresh>>
txVars == <<inPlace, state, transaction, stage, made, receiving, deliveries, history>>

Local == Commits \cup Changes
Remote == DOMAIN RemoteTree
Awaiting == {"check", "put", "sign", "publish", "notify"}
underWay == {c \in Local : stage[c] \in Awaiting}
range(seq) == {seq[i] : i \in DOMAIN seq}
rootOf(tree) == IF tree = <<>> THEN {} ELSE {tree[Len(tree)].cid}

TransactionTypeOK ==
  /\ document \subseteq Cids /\ range(hashes) \subseteq Cids /\ Len(recentTips) <= MaxRecentTips
  /\ Len(hashes) = Cardinality(range(hashes)) /\ documentChangeCount \in 0..Cardinality(Cids)
  /\ pendingChangeFns \in 0..MaxPending
  /\ stage \in [Local -> Awaiting \cup {"new", "done", "failed"}]
  /\ receiving \in [Remote -> {"idle", "notify"}]

TransactionInit ==
  /\ inPlace \in BOOLEAN
  /\ document = {} /\ hashes = <<>> /\ referencedAncestors = <<>> /\ lastSyncMessage = <<>>
  /\ documentChangeCount = 0 /\ recentTips = <<>>
  /\ inTransaction = FALSE /\ committing = FALSE /\ pendingChangeFns = 0 /\ original = <<>>
  /\ stage = [c \in Local |-> "new"] /\ made = [c \in Local |-> <<>>]
  /\ receiving = [r \in Remote |-> "idle"] /\ deliveries = [r \in Remote |-> 0]
  /\ mixed = FALSE /\ failedChange = FALSE /\ lateRefresh = FALSE

(* Insertion into a Set: an element keeps its place. *)
add(seq, xs) == seq \o SelectSeq(xs, LAMBDA x : x \notin range(seq))
(* Some order of a set: Object.keys() of the children of a change node. *)
listed(S) == CHOOSE s \in [1..Cardinality(S) -> S] : range(s) = S
spineDown(tree) == [i \in DOMAIN tree |-> tree[Len(tree) + 1 - i].cid]

-----------------------------------------------------------------------------
(* startChange() and addChange(); each throws when its guard is false. *)
StartChange ==
  /\ ~inTransaction /\ \E t \in Commits : stage[t] = "new"
  /\ inTransaction' = TRUE /\ pendingChangeFns' = 0
  /\ UNCHANGED <<inPlace, state, committing, original, stage, made, receiving, deliveries, history>>

AddChange ==
  /\ inTransaction /\ ~committing /\ pendingChangeFns < MaxPending
  /\ pendingChangeFns' = pendingChangeFns + 1
  /\ UNCHANGED <<inPlace, state, inTransaction, committing, original, stage, made, receiving, deliveries,
                 history>>

(* endChange() to its first await. An empty transaction ends at once. *)
EndChange(t) ==
  /\ inTransaction /\ ~committing /\ stage[t] = "new"
  /\ \/ /\ pendingChangeFns = 0 /\ inTransaction' = FALSE
        /\ UNCHANGED <<committing, original, stage, mixed>>
     \/ /\ pendingChangeFns > 0 /\ committing' = TRUE
        /\ original' = [document |-> document, hashes |-> Len(hashes),
                        ancestors |-> Len(referencedAncestors), last |-> lastSyncMessage,
                        count |-> documentChangeCount, tips |-> recentTips]
        /\ stage' = [stage EXCEPT ![t] = "check"] /\ mixed' = (mixed \/ underWay # {})
        /\ UNCHANGED inTransaction
  /\ UNCHANGED <<inPlace, state, pendingChangeFns, made, receiving, deliveries, failedChange, lateRefresh>>

(* change() to its first await; it throws during a transaction. *)
Change(c) ==
  /\ ~inTransaction /\ stage[c] = "new" /\ stage' = [stage EXCEPT ![c] = "check"]
  /\ UNCHANGED <<inPlace, state, transaction, made, receiving, deliveries, history>>

-----------------------------------------------------------------------------
(* The steps of a local change, each to the next await: localChange(), the   *)
(* node on top of the last message's tree, the message, its publication, and *)
(* the count after the handlers.                                             *)
LocalChange(c) ==
  /\ stage[c] = "check" /\ stage' = [stage EXCEPT ![c] = "put"]
  /\ document' = document \cup {c}
  /\ UNCHANGED <<hashes, referencedAncestors, lastSyncMessage, documentChangeCount, recentTips,
                 transaction, made>>

Put(c) ==
  LET parent == rootOf(lastSyncMessage)
      links == IF parent = {} THEN {}
               ELSE selectCrossLinks(recentTips, lastSyncMessage[Len(lastSyncMessage)].cid, c)
  IN
  /\ stage[c] = "put" /\ stage' = [stage EXCEPT ![c] = "sign"]
  /\ hashes' = add(hashes, <<c>>)
  /\ made' = [made EXCEPT ![c] = Append(lastSyncMessage, [cid |-> c, links |-> links])]
  /\ referencedAncestors' = add(referencedAncestors, listed(parent \cup links))
  /\ recentTips' = trackTipInList(recentTips, c)
  /\ UNCHANGED <<document, lastSyncMessage, documentChangeCount, transaction>>

Signed(c) ==
  /\ stage[c] = "sign" /\ stage' = [stage EXCEPT ![c] = "publish"]
  /\ lastSyncMessage' = made[c]
  /\ UNCHANGED <<document, hashes, referencedAncestors, documentChangeCount, recentTips, transaction, made>>

Sent(c) ==
  /\ stage[c] = "publish" /\ stage' = [stage EXCEPT ![c] = "notify"]
  /\ UNCHANGED <<state, transaction, made>>

Ended(c) ==
  /\ stage[c] = "notify" /\ stage' = [stage EXCEPT ![c] = "done"]
  /\ documentChangeCount' = documentChangeCount + 1
  /\ IF c \in Commits
     THEN inTransaction' = FALSE /\ committing' = FALSE /\ pendingChangeFns' = 0 /\ UNCHANGED original
     ELSE UNCHANGED transaction
  /\ UNCHANGED <<document, hashes, referencedAncestors, lastSyncMessage, recentTips, made>>

Proceed(c) ==
  /\ LocalChange(c) \/ Put(c) \/ Signed(c) \/ Sent(c) \/ Ended(c)
  /\ UNCHANGED <<inPlace, receiving, deliveries, history>>

(* A step of a change() fails: it throws, and what it did stays. *)
ChangeFails(c) ==
  /\ c \in Changes /\ c \in underWay /\ stage' = [stage EXCEPT ![c] = "failed"]
  /\ failedChange' = (failedChange \/ stage[c] # "check")
  /\ UNCHANGED <<inPlace, state, transaction, made, receiving, deliveries, mixed, lateRefresh>>

(* What a rollback restores: a Set loses the elements past its old size.     *)
(* Mutants: the hashes stay, the last message stays.                         *)
prefix(seq, n) == IF Len(seq) > n THEN SubSeq(seq, 1, n) ELSE seq

restoredKeepsHashes ==
  [document |-> IF inPlace THEN document ELSE original.document, hashes |-> hashes,
   ancestors |-> prefix(referencedAncestors, original.ancestors), last |-> original.last,
   count |-> original.count, tips |-> original.tips]

restoredKeepsLast ==
  [document |-> IF inPlace THEN document ELSE original.document,
   hashes |-> prefix(hashes, original.hashes), ancestors |-> prefix(referencedAncestors, original.ancestors),
   last |-> lastSyncMessage, count |-> original.count, tips |-> original.tips]

restored ==
  [document |-> IF inPlace THEN document ELSE original.document,
   hashes |-> prefix(hashes, original.hashes), ancestors |-> prefix(referencedAncestors, original.ancestors),
   last |-> original.last, count |-> original.count, tips |-> original.tips]

(* A step of a commit fails: the transaction is rolled back.                 *)
Rollback ==
  /\ document' = restored.document /\ hashes' = restored.hashes
  /\ referencedAncestors' = restored.ancestors /\ lastSyncMessage' = restored.last
  /\ documentChangeCount' = restored.count /\ recentTips' = restored.tips

CommitFails(t) ==
  /\ t \in Commits /\ t \in underWay /\ stage' = [stage EXCEPT ![t] = "failed"]
  /\ Rollback
  /\ inTransaction' = FALSE /\ committing' = FALSE /\ pendingChangeFns' = 0
  /\ lateRefresh' = (lateRefresh \/ \E r \in Remote : receiving[r] # "idle")
  /\ UNCHANGED <<inPlace, original, made, receiving, deliveries, mixed, failedChange>>

-----------------------------------------------------------------------------
(* The message of a remote change arrives, by publication or in the answer   *)
(* to a load(): the changes that are new, which the walk takes from its root *)
(* down, are applied. Then the handlers are awaited and the last message is  *)
(* refreshed when the tree contains its root.                                *)
refreshed(tree) ==
  IF lastSyncMessage = <<>> \/ \E c \in rootOf(lastSyncMessage) : treeContainsCid(tree, c)
  THEN tree ELSE lastSyncMessage

Receive(r) ==
  LET tree == RemoteTree[r]
      new == NewNodes(tree, range(hashes) \cup rootOf(lastSyncMessage))
      down == spineDown(new)
  IN
  /\ receiving[r] = "idle" /\ deliveries[r] < MaxDeliveries
  /\ deliveries' = [deliveries EXCEPT ![r] = @ + 1]
  /\ referencedAncestors' = add(referencedAncestors, listed(collectReferencedAncestors(tree)))
  /\ document' = document \cup Inline(new) /\ hashes' = add(hashes, down)
  /\ documentChangeCount' = documentChangeCount + Len(new)
  /\ recentTips' = TrackTips(recentTips, [i \in DOMAIN new |-> new[i].cid])
  /\ receiving' = [receiving EXCEPT ![r] = IF new = <<>> THEN "idle" ELSE "notify"]
  /\ lastSyncMessage' = IF new = <<>> THEN refreshed(tree) ELSE lastSyncMessage
  /\ UNCHANGED <<inPlace, transaction, stage, made, history>>

RefreshLastSyncMessage(r) ==
  /\ receiving[r] = "notify" /\ receiving' = [receiving EXCEPT ![r] = "idle"]
  /\ lastSyncMessage' = refreshed(RemoteTree[r])
  /\ UNCHANGED <<inPlace, document, hashes, referencedAncestors, documentChangeCount, recentTips,
                 transaction, stage, made, deliveries, history>>

TransactionNext ==
  \/ StartChange \/ AddChange
  \/ \E t \in Commits : EndChange(t) \/ CommitFails(t)
  \/ \E c \in Changes : Change(c) \/ ChangeFails(c)
  \/ \E c \in Local : Proceed(c)
  \/ \E r \in Remote : Receive(r) \/ RefreshLastSyncMessage(r)

-----------------------------------------------------------------------------
serial == ~mixed /\ ~failedChange

(* With nothing under way the history agrees with the document: the changes  *)
(* known by hash are those that are applied and counted, and the served tree *)
(* is of such changes. Rollbacks keep this though messages of other peers    *)
(* are applied during the transaction, for a provider that does not mutate,  *)
(* without a change() beside a commit.                                       *)
HistoryIsDocument ==
  serial /\ ~inPlace /\ ~lateRefresh /\ underWay = {} /\ (\A r \in Remote : receiving[r] = "idle") =>
    /\ range(hashes) = document /\ documentChangeCount = Cardinality(document)
    /\ collectAllCidsInTree(lastSyncMessage) \subseteq document
    /\ range(recentTips) \subseteq document

(* A commit that failed leaves nothing for peers to be served or linked to,  *)
(* for every provider and whatever arrived meanwhile.                        *)
AbortLeavesNoTrace ==
  ~mixed => \A t \in Commits : stage[t] = "failed" =>
    t \notin range(hashes) \cup range(referencedAncestors) \cup range(recentTips)
               \cup collectAllCidsInTree(lastSyncMessage)

(* The flags follow the commit: `_committing` is set exactly while one is    *)
(* under way, so that no failure leaves a document that refuses every later  *)
(* startChange(), addChange() or change().                                   *)
CommittingIsUnderWay ==
  (committing <=> underWay \cap Commits # {}) /\ (committing => inTransaction)

(* A rollback is complete: it leaves no trace of the commit that failed, a   *)
(* history that agrees with the document, and the document open for changes. *)
(* It includes the types.                                                    *)
RollbackIsComplete == TransactionTypeOK /\ HistoryIsDocument /\ AbortLeavesNoTrace /\ CommittingIsUnderWay

Delivered(r) == deliveries'[r] # deliveries[r]

(* "the reverted remote changes will be re-applied on the next sync cycle or *)
(* document load": a delivery after the rollback applies all its changes,    *)
(* when no delivery was under way during the rollback.                       *)
DeliveryRestores ==
  [][serial /\ ~lateRefresh => \A r \in Remote : Delivered(r) => Inline(RemoteTree[r]) \subseteq document']_txVars

(* The same without that condition.                                          *)
DeliveryRestoresAlways ==
  [][serial => \A r \in Remote : Delivered(r) => Inline(RemoteTree[r]) \subseteq document']_txVars
=============================================================================
