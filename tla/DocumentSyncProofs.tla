------------------------- MODULE DocumentSyncProofs -------------------------
(***************************************************************************)
(* Proofs about DocumentSync: whatever local changes, received messages,   *)
(* block fetches and failures interleave at any number of replicas, what a *)
(* replica takes for known, serves or links is in its document.            *)
(***************************************************************************)
EXTENDS DocumentSync, ProofLemmas

(* _makeChange has built the message of c: c has a tree.                    *)
Built(c) == TreeOf(c) # << >>

(* The tree of a message: its root is its change, its inline nodes are      *)
(* different changes, and each of these was built before.                   *)
TreeOK(c) ==
  /\ change[c].pc \in {"unused", "putting"} => ~Built(c)
  /\ change[c].pc \in {"signing", "publishing", "published"} => Built(c)
  /\ Built(c) => TreeOf(c)[Len(TreeOf(c))].cid = c
  /\ \A i, j \in DOMAIN TreeOf(c) : TreeOf(c)[i].cid = TreeOf(c)[j].cid => i = j
  /\ \A d \in Inline(TreeOf(c)) : Built(d)

TreeInv == \A c \in Cids : TreeOK(c)

(* A _makeChange call under way: its replica has the edit in its document,  *)
(* and its hash once the message is built.                                  *)
CallInv ==
  \A c \in Cids :
    /\ change[c].pc = "putting" =>
         change[c].author \in Replicas /\ c \in document[change[c].author]
    /\ change[c].pc = "signing" =>
         change[c].author \in Replicas /\ c \in hashes[change[c].author]

ServedInv ==
  \A r \in Replicas :
    hashes[r] \subseteq document[r] /\ last[r] \in hashes[r] /\ Built(last[r])

TipsInv ==
  \A r \in Replicas :
    /\ Len(tips[r]) <= MaxRecentTips
    /\ IsInjective(tips[r])
    /\ Elements(tips[r]) \subseteq hashes[r]

(* A sync() call under way: the root of its message is one of the nodes it  *)
(* is about to apply, or known; afterwards it is known.                     *)
SyncOK(r, s) ==
  /\ sync[r][s].pc # "idle" => sync[r][s].root \in Cids /\ Built(sync[r][s].root)
  /\ sync[r][s].pc = "merging" =>
       /\ sync[r][s].root \in Inline(sync[r][s].new) \cup hashes[r]
       /\ \A i, j \in DOMAIN sync[r][s].new :
            sync[r][s].new[i].cid = sync[r][s].new[j].cid => i = j
  /\ sync[r][s].pc = "fetching" => sync[r][s].root \in hashes[r]

SyncInv == \A r \in Replicas, s \in Slots : SyncOK(r, s)

(* The inductive invariant.                                                 *)
KnownInv == TypeOK /\ TreeInv /\ CallInv /\ ServedInv /\ TipsInv /\ SyncInv

(* A step that changes no tree keeps what TreeInv says of it.               *)
LEMMA TreesKept ==
  ASSUME TreeInv,
         \A c \in Cids :
           /\ change'[c].tree = change[c].tree
           /\ change'[c].pc \in {"unused", "putting"} =>
                change[c].pc \in {"unused", "putting"}
           /\ change'[c].pc \in {"signing", "publishing", "published"} =>
                change[c].pc \in {"signing", "publishing", "published"},
         \A c \in Cids : Inline(TreeOf(c)) \subseteq Cids
  PROVE  TreeInv'
<1> SUFFICES ASSUME NEW c \in Cids PROVE TreeOK(c)'
  BY DEF TreeInv
<1>1. TreeOf(c)' = TreeOf(c) /\ \A d \in Cids : Built(d)' <=> Built(d)
  BY DEF TreeOf, Built
<1>2. TreeOK(c)
  BY DEF TreeInv
<1>3. \A d \in Inline(TreeOf(c)) : Built(d)'
  BY <1>1, <1>2 DEF TreeOK
<1> QED
  BY <1>1, <1>2, <1>3 DEF TreeOK

(* The nodes of a tree name CIDs.                                           *)
LEMMA TreeTypes ==
  ASSUME TypeOK, NEW c \in Cids
  PROVE  /\ TreeOf(c) \in Seq(Node) /\ IsSequence(TreeOf(c))
         /\ \A i \in DOMAIN TreeOf(c) : TreeOf(c)[i].cid \in Cids
         /\ Inline(TreeOf(c)) \subseteq Cids
<1>1. TreeOf(c) \in Seq(Node)
  BY DEF TypeOK, ChangeState, TreeOf, Tree
<1>2. \A i \in DOMAIN TreeOf(c) : TreeOf(c)[i].cid \in Cids
  <2>1. \A n \in Node : n.cid \in Cids
    BY DEF Node
  <2> HIDE DEF Node
  <2> QED
    BY <1>1, <2>1
<1>3. IsSequence(TreeOf(c))
  BY <1>1, SequenceOfOwn
<1> QED
  BY <1>1, <1>2, <1>3 DEF Inline

(* open() has given every replica the founder's change.                     *)
LEMMA KnownInit == Init => KnownInv
<1> SUFFICES ASSUME Init PROVE KnownInv
  OBVIOUS
<1> DEFINE node == [cid |-> Genesis, links |-> {}]
<1>1. node \in Node /\ node.cid = Genesis
  BY GenesisAssumption DEF Node
<1>2. /\ TreeOf(Genesis) = <<node>>
      /\ \A c \in Cids \ {Genesis} : TreeOf(c) = << >> /\ change[c].pc = "unused"
      /\ change[Genesis].pc = "published"
  BY GenesisAssumption, Zenon DEF Init, TreeOf
<1> HIDE DEF node
<1>3. <<node>> \in Seq(Node) /\ DOMAIN <<node>> = {1} /\ <<node>>[1] = node /\ Len(<<node>>) = 1
      /\ <<node>> # << >>
  BY <1>1
<1>4. TreeInv
  <2>1. Built(Genesis) /\ \A c \in Cids \ {Genesis} : ~Built(c)
    BY <1>2, <1>3 DEF Built
  <2>2. TreeOK(Genesis)
    BY <1>1, <1>2, <1>3, <2>1 DEF TreeOK, Inline
  <2>3. ASSUME NEW c \in Cids \ {Genesis} PROVE TreeOK(c)
    BY <1>2, <2>1 DEF TreeOK, Inline
  <2> QED
    BY <2>2, <2>3 DEF TreeInv
<1>5. TypeOK
  <2>1. change \in [Cids -> ChangeState]
    <3>1. ASSUME NEW c \in Cids PROVE change[c] \in ChangeState
      <4>1. << >> \in Tree /\ <<node>> \in Tree
        BY <1>3 DEF Tree
      <4> HIDE DEF Tree
      <4> QED
        BY <4>1 DEF Init, ChangeState, node
    <3>2. change = [c \in Cids |-> change[c]]
      BY DEF Init
    <3> QED
      BY <3>1, <3>2
  <2>2. IdleSync \in SyncState
    BY DEF IdleSync, SyncState, Tree
  <2>3. <<Genesis>> \in Seq(Cids)
    BY GenesisAssumption
  <2> QED
    BY <2>1, <2>2, <2>3, GenesisAssumption, Zenon DEF Init, TypeOK
<1>6. ServedInv
  BY <1>2, <1>3, Zenon DEF Init, ServedInv, Built
<1>7. TipsInv
  <2>1. /\ DOMAIN <<Genesis>> = {1} /\ <<Genesis>>[1] = Genesis
        /\ Len(<<Genesis>>) <= MaxRecentTips
    BY TipBoundsAssumption
  <2>2. IsInjective(<<Genesis>>) /\ Elements(<<Genesis>>) = {Genesis}
    BY <2>1 DEF IsInjective, Elements
  <2> QED
    BY <2>1, <2>2 DEF Init, TipsInv
<1>8. CallInv
  BY <1>2 DEF CallInv
<1>9. SyncInv
  BY DEF Init, SyncInv, SyncOK, IdleSync
<1> QED
  BY <1>4, <1>5, <1>6, <1>7, <1>8, <1>9 DEF KnownInv

(* A sync() call that does not move stays as it was while hashes and built  *)
(* messages become more.                                                    *)
LEMMA SyncKept ==
  ASSUME SyncInv, NEW r \in Replicas, NEW s \in Slots, sync'[r][s] = sync[r][s],
         hashes[r] \subseteq hashes'[r], \A c \in Cids : Built(c) => Built(c)'
  PROVE  SyncOK(r, s)'
<1>1. SyncOK(r, s)
  BY DEF SyncInv
<1> QED
  BY <1>1 DEF SyncOK

(* What one _makeChange call does to the record of its change.              *)
LEMMA ChangeRecord ==
  ASSUME TypeOK, NEW c \in Cids, NEW p, NEW a \in Replicas \cup {None},
         p \in {"unused", "putting", "signing", "publishing", "published", "failed"},
         \/ change' = [change EXCEPT ![c].pc = p] /\ a = change[c].author
         \/ change' = [change EXCEPT ![c].pc = p, ![c].author = a]
  PROVE  /\ change' \in [Cids -> ChangeState]
         /\ change'[c].pc = p /\ change'[c].author = a /\ change'[c].tree = change[c].tree
         /\ \A d \in Cids \ {c} : change'[d] = change[d]
<1> USE DEF ChangeState
<1>1. change \in [Cids -> ChangeState]
  BY DEF TypeOK
<1> QED
  BY <1>1

(* The steps of _makeChange that build no message: the block is stored or   *)
(* not, the message signed and sent or not.                                 *)
LEMMA CallMoves ==
  ASSUME KnownInv, NEW c \in Cids, NEW p, NEW a \in Replicas \cup {None},
         p \in {"putting", "publishing", "published", "failed"},
         p = "putting" => change[c].pc = "unused" /\ a \in Replicas /\ c \in document'[a],
         p \in {"publishing", "published"} => change[c].pc \in {"signing", "publishing"},
         \/ change' = [change EXCEPT ![c].pc = p] /\ a = change[c].author
         \/ change' = [change EXCEPT ![c].pc = p, ![c].author = a],
         \A r \in Replicas : document[r] \subseteq document'[r],
         UNCHANGED <<hashes, tips, sync>>
  PROVE  /\ change' \in [Cids -> ChangeState]
         /\ TreeInv' /\ CallInv' /\ TipsInv' /\ SyncInv'
         /\ \A d \in Cids : Built(d)' <=> Built(d)
<1>1. /\ change' \in [Cids -> ChangeState]
      /\ change'[c].pc = p /\ change'[c].author = a /\ change'[c].tree = change[c].tree
      /\ \A d \in Cids \ {c} : change'[d] = change[d]
  BY ChangeRecord DEF KnownInv
<1>2. \A d \in Cids : change'[d].tree = change[d].tree
  BY <1>1
<1>3. TreeInv'
  <2>1. \A d \in Cids : Inline(TreeOf(d)) \subseteq Cids
    BY TreeTypes DEF KnownInv
  <2>2. \A d \in Cids :
          /\ change'[d].pc \in {"unused", "putting"} => change[d].pc \in {"unused", "putting"}
          /\ change'[d].pc \in {"signing", "publishing", "published"} =>
               change[d].pc \in {"signing", "publishing", "published"}
    BY <1>1
  <2> QED
    BY <1>2, <2>1, <2>2, TreesKept DEF KnownInv
<1>4. \A d \in Cids : Built(d)' <=> Built(d)
  BY <1>2 DEF Built, TreeOf
<1>5. CallInv'
  <2>1. CallInv
    BY DEF KnownInv
  <2> SUFFICES ASSUME NEW d \in Cids
      PROVE  /\ change'[d].pc = "putting" =>
                  change'[d].author \in Replicas /\ d \in document'[change'[d].author]
             /\ change'[d].pc = "signing" =>
                  change'[d].author \in Replicas /\ d \in hashes'[change'[d].author]
    BY DEF CallInv
  <2>2. CASE d = c
    BY <1>1, <2>2
  <2>3. CASE d # c
    BY <1>1, <2>1, <2>3 DEF CallInv
  <2> QED
    BY <2>2, <2>3
<1>6. TipsInv'
  BY DEF KnownInv, TipsInv
<1>7. SyncInv'
  BY <1>4, SyncKept DEF KnownInv, SyncInv
<1> QED
  BY <1>1, <1>3, <1>4, <1>5, <1>6, <1>7

(* change(): the edit is in the document before anything else knows of it.  *)
LEMMA KnownChange ==
  ASSUME KnownInv, NEW r \in Replicas, NEW c \in Cids, Change(r, c)
  PROVE  KnownInv'
<1>1. /\ change[c].pc = "unused" /\ document' = [document EXCEPT ![r] = @ \cup {c}]
      /\ change' = [change EXCEPT ![c].pc = "putting", ![c].author = r]
      /\ UNCHANGED <<hashes, referenced, last, tips, sync>>
  BY DEF Change
<1>2. /\ document' \in [Replicas -> SUBSET Cids] /\ c \in document'[r]
      /\ \A q \in Replicas : document[q] \subseteq document'[q]
  BY <1>1 DEF KnownInv, TypeOK
<1>3. /\ change' \in [Cids -> ChangeState] /\ TreeInv' /\ CallInv' /\ TipsInv' /\ SyncInv'
      /\ \A d \in Cids : Built(d)' <=> Built(d)
  BY <1>1, <1>2, CallMoves, Zenon
<1>4. ServedInv'
  BY <1>1, <1>2, <1>3 DEF KnownInv, ServedInv, TypeOK
<1>5. TypeOK'
  BY <1>1, <1>2, <1>3 DEF KnownInv, TypeOK
<1> QED
  BY <1>3, <1>4, <1>5 DEF KnownInv

(* The block is not stored, the message is sent, or one of the calls after  *)
(* building it rejects.                                                     *)
LEMMA KnownCallEnds ==
  ASSUME KnownInv, NEW c \in Cids, PutBlockFails(c) \/ Publish(c) \/ MakeChangeFails(c)
  PROVE  KnownInv'
<1>1. PICK p \in {"published", "failed"} :
        /\ change' = [change EXCEPT ![c].pc = p]
        /\ p = "published" => change[c].pc = "publishing"
        /\ UNCHANGED <<document, hashes, referenced, last, tips, sync>>
  BY DEF PutBlockFails, Publish, MakeChangeFails
<1>2. change[c].author \in Replicas \cup {None}
  BY DEF KnownInv, TypeOK, ChangeState
<1>3. /\ change' \in [Cids -> ChangeState] /\ TreeInv' /\ CallInv' /\ TipsInv' /\ SyncInv'
      /\ \A d \in Cids : Built(d)' <=> Built(d)
  BY <1>1, <1>2, CallMoves, Zenon
<1>4. ServedInv'
  BY <1>1, <1>3 DEF KnownInv, ServedInv, TypeOK
<1>5. TypeOK'
  BY <1>1, <1>3 DEF KnownInv, TypeOK
<1> QED
  BY <1>3, <1>4, <1>5 DEF KnownInv

(* _makeChange after the signature: the message that it serves from now on  *)
(* is that of a change whose hash it has.                                   *)
LEMMA KnownSetLast ==
  ASSUME KnownInv, NEW c \in Cids, SetLastSyncMessage(c)
  PROVE  KnownInv'
<1> DEFINE a == change[c].author
<1>1. /\ change[c].pc = "signing" /\ last' = [last EXCEPT ![a] = c]
      /\ change' = [change EXCEPT ![c].pc = "publishing"]
      /\ UNCHANGED <<document, hashes, referenced, tips, sync>>
  BY DEF SetLastSyncMessage
<1>2. a \in Replicas /\ c \in hashes[a] /\ Built(c)
  BY <1>1 DEF KnownInv, CallInv, TreeInv, TreeOK
<1>3. /\ change' \in [Cids -> ChangeState] /\ TreeInv' /\ CallInv' /\ TipsInv' /\ SyncInv'
      /\ \A d \in Cids : Built(d)' <=> Built(d)
  BY <1>1, <1>2, CallMoves, Zenon
<1> HIDE DEF a
<1>4. /\ last' \in [Replicas -> Cids] /\ last'[a] = c
      /\ \A r \in Replicas \ {a} : last'[r] = last[r]
  BY <1>1, <1>2 DEF KnownInv, TypeOK
<1>5. ServedInv'
  BY <1>1, <1>2, <1>3, <1>4 DEF KnownInv, ServedInv, TypeOK
<1>6. TypeOK'
  BY <1>1, <1>3, <1>4 DEF KnownInv, TypeOK
<1> QED
  BY <1>3, <1>5, <1>6 DEF KnownInv

(* _makeChange up to the signature: the new node goes above the tree of the *)
(* last message, whose nodes are all built, so that it is none of them; its *)
(* links are tips.                                                          *)
LEMMA KnownBuild ==
  ASSUME KnownInv, NEW c \in Cids, BuildMessage(c)
  PROVE  KnownInv'
<1> DEFINE r == change[c].author
           links == selectCrossLinks(tips[r], last[r], c)
           node == [cid |-> c, links |-> links]
           below == TreeOf(last[r])
           tree == Append(below, node)
<1>1. /\ change[c].pc = "putting" /\ hashes' = [hashes EXCEPT ![r] = @ \cup {c}]
      /\ change' = [change EXCEPT ![c].pc = "signing", ![c].tree = tree]
      /\ referenced' = [referenced EXCEPT ![r] = @ \cup {last[r]} \cup links]
      /\ tips' = [tips EXCEPT ![r] = trackTipInList(@, c)]
      /\ UNCHANGED <<document, last, sync>>
  BY DEF BuildMessage
<1>2. r \in Replicas /\ c \in document[r] /\ ~Built(c)
  BY <1>1 DEF KnownInv, CallInv, TreeInv, TreeOK
<1>3. last[r] \in Cids /\ last[r] \in hashes[r] /\ Built(last[r]) /\ TreeOK(last[r])
  BY <1>2 DEF KnownInv, ServedInv, TreeInv, TypeOK
<1>4. tips[r] \in Seq(Cids) /\ IsInjective(tips[r]) /\ Elements(tips[r]) \subseteq hashes[r]
  BY <1>2 DEF KnownInv, TypeOK, TipsInv
<1>5. links \subseteq Cids
  <2>1. Elements(tips[r]) \subseteq Cids
    BY <1>4 DEF Elements
  <2> QED
    BY <2>1, LinksAreTips
<1>6. node \in Node /\ node.cid = c
  BY <1>5 DEF Node
<1>7. /\ below \in Seq(Node) /\ IsSequence(below)
      /\ Inline(below) \subseteq Cids
  BY <1>3, TreeTypes DEF KnownInv
<1> HIDE DEF r, links, node, below
<1>8. tree \in Tree /\ tree # << >>
  BY <1>6, <1>7 DEF Tree
<1>9. /\ DOMAIN tree = DOMAIN below \cup {Len(tree)} /\ tree[Len(tree)] = node
      /\ Len(tree) \notin DOMAIN below
      /\ \A i \in DOMAIN below : tree[i] = below[i]
  <2>1. Len(below) \in Nat /\ DOMAIN below = 1..Len(below)
    BY <1>7, SequenceShape
  <2> QED
    BY <1>7, <2>1, AppendShape
<1> HIDE DEF tree
<1>10. /\ change' \in [Cids -> ChangeState]
       /\ change'[c].pc = "signing" /\ change'[c].tree = tree
       /\ change'[c].author = r
       /\ \A d \in Cids \ {c} : change'[d] = change[d]
  <2>1. change \in [Cids -> ChangeState]
    BY DEF KnownInv, TypeOK
  <2> HIDE DEF Tree
  <2> QED
    BY <1>1, <1>8, <2>1, ZenonT(30) DEF ChangeState, r
<1>11. TreeOf(c)' = tree /\ \A d \in Cids \ {c} : TreeOf(d)' = TreeOf(d)
  BY <1>10 DEF TreeOf
<1>12. Built(c)' /\ \A d \in Cids \ {c} : Built(d)' <=> Built(d)
  BY <1>8, <1>11 DEF Built
<1>13. \A d \in Inline(below) : d # c /\ Built(d)'
  BY <1>2, <1>3, <1>7, <1>12 DEF TreeOK, below
<1>14. TreeInv'
  <2>1. TreeOK(c)'
    <3>1. tree[Len(tree)].cid = c
      BY <1>6, <1>9
    <3>2. ASSUME NEW i \in DOMAIN tree, NEW j \in DOMAIN tree, tree[i].cid = tree[j].cid
          PROVE  i = j
      <4>1. \A k \in DOMAIN below : tree[k].cid # c
        BY <1>9, <1>13, ZenonT(30) DEF Inline
      <4>2. \A k, l \in DOMAIN below : tree[k].cid = tree[l].cid => k = l
        BY <1>3, <1>9, Zenon DEF TreeOK, below
      <4> QED
        BY <1>9, <3>1, <3>2, <4>1, <4>2, ZenonT(30)
    <3>3. \A d \in Inline(tree) : Built(d)'
      <4>1. Inline(tree) \subseteq Inline(below) \cup {c}
        BY <1>9, <3>1, Zenon DEF Inline
      <4> QED
        BY <1>12, <1>13, <4>1
    <3>4. change'[c].pc = "signing"
      BY <1>10
    <3> QED
      BY <1>11, <1>12, <3>1, <3>2, <3>3, <3>4 DEF TreeOK
  <2>2. ASSUME NEW d \in Cids \ {c} PROVE TreeOK(d)'
    <3>1. TreeOK(d)
      BY DEF KnownInv, TreeInv
    <3>2. Inline(TreeOf(d)) \subseteq Cids
      BY TreeTypes DEF KnownInv
    <3>3. \A e \in Inline(TreeOf(d)) : Built(e)'
      BY <1>12, <3>1, <3>2 DEF TreeOK
    <3>4. change'[d] = change[d] /\ TreeOf(d)' = TreeOf(d) /\ (Built(d)' <=> Built(d))
      BY <1>10, <1>11, <1>12
    <3> QED
      BY <3>1, <3>3, <3>4 DEF TreeOK
  <2> QED
    BY <2>1, <2>2 DEF TreeInv
<1>15. /\ hashes' \in [Replicas -> SUBSET Cids] /\ hashes'[r] = hashes[r] \cup {c}
       /\ \A q \in Replicas : hashes[q] \subseteq hashes'[q]
       /\ \A q \in Replicas \ {r} : hashes'[q] = hashes[q]
  BY <1>1, <1>2 DEF KnownInv, TypeOK
<1>16. CallInv'
  <2> SUFFICES ASSUME NEW d \in Cids
      PROVE  /\ change'[d].pc = "putting" =>
                  change'[d].author \in Replicas /\ d \in document'[change'[d].author]
             /\ change'[d].pc = "signing" =>
                  change'[d].author \in Replicas /\ d \in hashes'[change'[d].author]
    BY DEF CallInv
  <2>1. CASE d = c
    BY <1>2, <1>10, <1>15, <2>1
  <2>2. CASE d # c
    BY <1>1, <1>10, <1>15, <2>2 DEF KnownInv, CallInv
  <2> QED
    BY <2>1, <2>2
<1>17. ServedInv'
  BY <1>1, <1>2, <1>12, <1>15 DEF KnownInv, ServedInv, TypeOK
<1>18. /\ tips' \in [Replicas -> Seq(Cids)] /\ TipsInv'
  <2>1. /\ trackTipInList(tips[r], c) \in Seq(Cids)
        /\ Len(trackTipInList(tips[r], c)) <= MaxRecentTips
        /\ IsInjective(trackTipInList(tips[r], c))
        /\ Elements(trackTipInList(tips[r], c)) \subseteq Elements(tips[r]) \cup {c}
    BY <1>4, TrackTipShape
  <2>2. /\ tips' \in [Replicas -> Seq(Cids)] /\ tips'[r] = trackTipInList(tips[r], c)
        /\ \A q \in Replicas \ {r} : tips'[q] = tips[q]
    BY <1>1, <1>2, <2>1 DEF KnownInv, TypeOK
  <2>3. Elements(tips'[r]) \subseteq hashes'[r]
    BY <1>4, <1>15, <2>1, <2>2
  <2>4. TipsInv'
    BY <1>15, <2>1, <2>2, <2>3, Zenon DEF KnownInv, TipsInv
  <2> QED
    BY <2>2, <2>4
<1>19. SyncInv'
  BY <1>1, <1>12, <1>15, SyncKept DEF KnownInv, SyncInv
<1>20. referenced' \in [Replicas -> SUBSET Cids]
  BY <1>1, <1>3, <1>5, Zenon DEF KnownInv, TypeOK
<1>21. TypeOK'
  BY <1>1, <1>10, <1>15, <1>18, <1>20 DEF KnownInv, TypeOK
<1> QED
  BY <1>14, <1>16, <1>17, <1>18, <1>19, <1>21 DEF KnownInv

(* sync() up to its first await: the walk stops at what is known, so the    *)
(* root is known or among the new nodes.                                    *)
LEMMA KnownReceive ==
  ASSUME KnownInv, NEW r \in Replicas, NEW s \in Slots, NEW c \in Cids, ReceiveSync(r, s, c)
  PROVE  KnownInv'
<1> DEFINE tree == TreeOf(c)
           known == hashes[r] \cup {last[r]}
           new == NewNodes(tree, known)
           missing == MissingCids(tree, known)
           call == [pc |-> "merging", root |-> c, new |-> new, missing |-> missing]
<1>1. /\ change[c].pc = "published"
      /\ referenced' = [referenced EXCEPT ![r] = @ \cup collectReferencedAncestors(tree)]
      /\ sync' = [sync EXCEPT ![r][s] = call]
      /\ UNCHANGED <<change, document, hashes, last, tips>>
  BY DEF ReceiveSync
<1>2. /\ Built(c) /\ TreeOK(c)
  BY <1>1 DEF KnownInv, TreeInv, TreeOK
<1>3. tree \in Seq(Node) /\ Inline(tree) \subseteq Cids /\ Deferred(tree) \subseteq Cids
  <2>1. tree \in Seq(Node) /\ Inline(tree) \subseteq Cids
    BY TreeTypes DEF KnownInv
  <2>2. \A n \in Node : n.links \subseteq Cids
    BY DEF Node
  <2> HIDE DEF tree, Node
  <2>3. \A i \in DOMAIN tree : tree[i] \in Node
    BY <2>1
  <2> QED
    BY <2>1, <2>2, <2>3 DEF Deferred
<1>4. known = hashes[r]
  BY DEF KnownInv, ServedInv
<1>5. /\ new \in Seq(Node) /\ Deferred(new) \subseteq Cids
      /\ c \in known \/ c \in Inline(new)
      /\ \A i, j \in DOMAIN new : new[i].cid = new[j].cid => i = j
  <2>1. tree # << >> /\ tree[Len(tree)].cid = c
    BY <1>2 DEF Built, TreeOK
  <2>2. \A i, j \in DOMAIN tree : tree[i].cid = tree[j].cid => i = j
    BY <1>2 DEF TreeOK
  <2> HIDE DEF tree, known
  <2> QED
    BY <1>3, <2>1, <2>2, NewNodesShape
<1>6. missing \subseteq Cids
  BY <1>5, Zenon DEF MissingCids
<1>7. collectReferencedAncestors(tree) \subseteq Cids
  <2>1. Len(tree) \in Nat /\ DOMAIN tree = 1..Len(tree)
    BY <1>3
  <2>2. \A i \in 1..(Len(tree) - 1) : tree[i].cid \in Inline(tree)
    BY <2>1 DEF Inline
  <2> QED
    BY <1>3, <2>2 DEF collectReferencedAncestors
<1> HIDE DEF tree, known, new, missing
<1>8. call \in SyncState
  <2>1. new \in Tree
    BY <1>5 DEF Tree
  <2> QED
    BY <1>6, <2>1 DEF SyncState
<1>9. call.pc = "merging" /\ call.root = c /\ call.new = new
  OBVIOUS
<1> HIDE DEF call
<1>10. /\ sync' \in [Replicas -> [Slots -> SyncState]] /\ sync'[r][s] = call
       /\ \A q \in Replicas, t \in Slots : <<q, t>> # <<r, s>> => sync'[q][t] = sync[q][t]
  BY <1>1, <1>8 DEF KnownInv, TypeOK
<1>11. SyncInv'
  <2>1. SyncOK(r, s)'
    <3>1. Built(c)'
      BY <1>1, <1>2 DEF Built, TreeOf
    <3>2. c \in Inline(new) \cup hashes'[r]
      BY <1>1, <1>4, <1>5
    <3> QED
      BY <1>5, <1>9, <1>10, <3>1, <3>2 DEF SyncOK
  <2>2. \A d \in Cids : Built(d) => Built(d)'
    BY <1>1 DEF Built, TreeOf
  <2>3. ASSUME NEW q \in Replicas, NEW t \in Slots, <<q, t>> # <<r, s>> PROVE SyncOK(q, t)'
    BY <1>1, <1>10, <2>2, <2>3, SyncKept DEF KnownInv
  <2> QED
    BY <2>1, <2>3 DEF SyncInv
<1>12. referenced' \in [Replicas -> SUBSET Cids]
  BY <1>1, <1>7 DEF KnownInv, TypeOK
<1>13. TypeOK'
  BY <1>1, <1>10, <1>12 DEF KnownInv, TypeOK
<1>14. TreeInv' /\ CallInv' /\ ServedInv' /\ TipsInv'
  BY <1>1 DEF KnownInv, TreeInv, TreeOK, CallInv, ServedInv, TipsInv, Built, TreeOf
<1> QED
  BY <1>11, <1>13, <1>14 DEF KnownInv

(* A step of the call s of sync() at r that merges the changes M, if any,   *)
(* tracks them as tips, and leaves the call in order.                       *)
LEMMA MergeStep ==
  ASSUME KnownInv, NEW r \in Replicas, NEW s \in Slots, NEW M \in SUBSET Cids,
         NEW t \in Seq(Cids), Len(t) <= MaxRecentTips, IsInjective(t),
         Elements(t) \subseteq Elements(tips[r]) \cup M,
         document' = [document EXCEPT ![r] = @ \cup M],
         hashes' = [hashes EXCEPT ![r] = @ \cup M],
         tips' = [tips EXCEPT ![r] = t],
         UNCHANGED <<change, referenced, last>>,
         sync' \in [Replicas -> [Slots -> SyncState]],
         \A q \in Replicas, u \in Slots : <<q, u>> # <<r, s>> => sync'[q][u] = sync[q][u],
         SyncOK(r, s)'
  PROVE  KnownInv'
<1>1. /\ hashes' \in [Replicas -> SUBSET Cids] /\ document' \in [Replicas -> SUBSET Cids]
      /\ hashes'[r] = hashes[r] \cup M /\ document'[r] = document[r] \cup M
      /\ \A q \in Replicas \ {r} : hashes'[q] = hashes[q] /\ document'[q] = document[q]
  BY DEF KnownInv, TypeOK
<1>2. /\ tips' \in [Replicas -> Seq(Cids)] /\ tips'[r] = t
      /\ \A q \in Replicas \ {r} : tips'[q] = tips[q]
  BY DEF KnownInv, TypeOK
<1>3. \A q \in Replicas : hashes[q] \subseteq hashes'[q] /\ document[q] \subseteq document'[q]
  BY <1>1
<1>4. \A c \in Cids : Built(c) => Built(c)'
  BY DEF Built, TreeOf
<1>5. TypeOK'
  BY <1>1, <1>2 DEF KnownInv, TypeOK
<1>6. TreeInv'
  BY DEF KnownInv, TreeInv, TreeOK, Built, TreeOf
<1>7. CallInv'
  BY <1>3 DEF KnownInv, CallInv
<1>8. ServedInv'
  BY <1>1, <1>4 DEF KnownInv, ServedInv, TypeOK
<1>9. TipsInv'
  <2>1. Elements(tips'[r]) \subseteq hashes'[r]
    BY <1>1, <1>2 DEF KnownInv, TipsInv
  <2> QED
    BY <1>1, <1>2, <2>1 DEF KnownInv, TipsInv
<1>10. SyncInv'
  BY <1>3, <1>4, SyncKept DEF KnownInv, SyncInv
<1> QED
  BY <1>5, <1>6, <1>7, <1>8, <1>9, <1>10 DEF KnownInv

(* The new nodes that came with their payload are merged at once.           *)
LEMMA KnownApply ==
  ASSUME KnownInv, NEW r \in Replicas, NEW s \in Slots, ApplyInline(r, s)
  PROVE  KnownInv'
<1> DEFINE new == sync[r][s].new
           fresh == [i \in DOMAIN new |-> new[i].cid]
           M == Inline(new)
           t == TrackTips(tips[r], fresh)
           call == [sync[r][s] EXCEPT !.pc = "fetching", !.new = << >>]
<1>1. /\ sync[r][s].pc = "merging"
      /\ document' = [document EXCEPT ![r] = @ \cup M]
      /\ hashes' = [hashes EXCEPT ![r] = @ \cup M]
      /\ tips' = [tips EXCEPT ![r] = t]
      /\ sync' = [sync EXCEPT ![r][s].pc = "fetching", ![r][s].new = << >>]
      /\ UNCHANGED <<change, referenced, last>>
  BY DEF ApplyInline
<1>2. sync[r][s] \in SyncState /\ SyncOK(r, s)
  BY DEF KnownInv, TypeOK, SyncInv
<1>3. new \in Seq(Node) /\ \A i \in DOMAIN new : new[i].cid \in Cids
  <2>1. new \in Seq(Node)
    BY <1>2 DEF SyncState, Tree
  <2>2. \A n \in Node : n.cid \in Cids
    BY DEF Node
  <2> HIDE DEF new, Node
  <2>3. \A i \in DOMAIN new : new[i] \in Node
    BY <2>1
  <2> QED
    BY <2>1, <2>2, <2>3
<1>4. sync[r][s].root \in M \cup hashes[r] /\ \A i, j \in DOMAIN new : new[i].cid = new[j].cid => i = j
  BY <1>1, <1>2 DEF SyncOK
<1>5. sync[r][s].root \in Cids /\ Built(sync[r][s].root)
  BY <1>1, <1>2 DEF SyncOK
<1>6. /\ call \in SyncState /\ call.pc = "fetching" /\ call.root = sync[r][s].root
  <2>1. << >> \in Tree
    BY DEF Tree
  <2> HIDE DEF Tree
  <2> QED
    BY <1>2, <2>1, Zenon DEF SyncState
<1>7. /\ sync' \in [Replicas -> [Slots -> SyncState]] /\ sync'[r][s] = call
      /\ \A q \in Replicas, u \in Slots : <<q, u>> # <<r, s>> => sync'[q][u] = sync[q][u]
  <2>1. sync \in [Replicas -> [Slots -> SyncState]]
    BY DEF KnownInv, TypeOK
  <2>2. sync' = [sync EXCEPT ![r] = [sync[r] EXCEPT ![s] = call]]
    BY <1>1, <1>2, <2>1, Zenon DEF SyncState
  <2> HIDE DEF call
  <2> QED
    BY <1>6, <2>1, <2>2
<1> HIDE DEF call, new
<1>8. M \in SUBSET Cids /\ fresh \in Seq(Cids) /\ IsInjective(fresh) /\ Elements(fresh) = M
  <2>1. Len(new) \in Nat /\ DOMAIN new = 1..Len(new)
    BY <1>3
  <2>2. fresh \in [1..Len(new) -> Cids] /\ fresh \in Seq(Cids)
    BY <1>3, <2>1
  <2>3. IsInjective(fresh) /\ Elements(fresh) = M
    BY <1>4 DEF IsInjective, Elements, Inline
  <2> QED
    BY <1>3, <2>2, <2>3 DEF Inline
<1> HIDE DEF fresh, M
<1>9. tips[r] \in Seq(Cids) /\ IsInjective(tips[r])
  BY DEF KnownInv, TypeOK, TipsInv
<1>10. /\ t \in Seq(Cids) /\ Len(t) <= MaxRecentTips /\ IsInjective(t)
       /\ Elements(t) \subseteq Elements(tips[r]) \cup M
  BY <1>8, <1>9, TrackTipsShape
<1> HIDE DEF t
<1>11. SyncOK(r, s)'
  <2>1. hashes'[r] = hashes[r] \cup M
    BY <1>1 DEF KnownInv, TypeOK
  <2>2. \A c \in Cids : Built(c) => Built(c)'
    BY <1>1 DEF Built, TreeOf
  <2> QED
    BY <1>4, <1>5, <1>6, <1>7, <2>1, <2>2 DEF SyncOK
<1> QED
  BY <1>1, <1>7, <1>8, <1>10, <1>11, MergeStep, Zenon

(* A deferred leaf is fetched and merged, or the fetch fails.               *)
LEMMA KnownFetch ==
  ASSUME KnownInv, NEW r \in Replicas, NEW s \in Slots, NEW c \in Cids,
         FetchMissing(r, s, c) \/ FetchFails(r, s, c)
  PROVE  KnownInv'
<1> DEFINE call == [sync[r][s] EXCEPT !.missing = @ \ {c}]
<1>1. /\ sync[r][s].pc = "fetching"
      /\ sync' = [sync EXCEPT ![r][s].missing = @ \ {c}]
      /\ UNCHANGED <<change, referenced, last>>
  BY DEF FetchMissing, FetchFails
<1>2. sync[r][s] \in SyncState /\ SyncOK(r, s)
  BY DEF KnownInv, TypeOK, SyncInv
<1>3. /\ call \in SyncState /\ call.pc = "fetching" /\ call.root = sync[r][s].root
  BY <1>1, <1>2 DEF SyncState
<1>4. /\ sync' \in [Replicas -> [Slots -> SyncState]] /\ sync'[r][s] = call
      /\ \A q \in Replicas, u \in Slots : <<q, u>> # <<r, s>> => sync'[q][u] = sync[q][u]
  <2>1. sync \in [Replicas -> [Slots -> SyncState]]
    BY DEF KnownInv, TypeOK
  <2>2. sync' = [sync EXCEPT ![r] = [sync[r] EXCEPT ![s] = call]]
    BY <1>1, <1>2, <2>1 DEF SyncState
  <2> HIDE DEF call
  <2> QED
    BY <1>3, <2>1, <2>2
<1> HIDE DEF call
<1>5. \A d \in Cids : Built(d) => Built(d)'
  BY <1>1 DEF Built, TreeOf
<1>6. hashes[r] \subseteq hashes'[r] => SyncOK(r, s)'
  BY <1>1, <1>2, <1>3, <1>4, <1>5 DEF SyncOK
<1>7. /\ tips \in [Replicas -> Seq(Cids)] /\ hashes \in [Replicas -> SUBSET Cids]
      /\ document \in [Replicas -> SUBSET Cids]
      /\ tips[r] \in Seq(Cids) /\ IsInjective(tips[r]) /\ Len(tips[r]) <= MaxRecentTips
  BY DEF KnownInv, TypeOK, TipsInv
<1>8. CASE FetchMissing(r, s, c)
  <2> DEFINE t == trackTipInList(tips[r], c)
  <2>1. /\ document' = [document EXCEPT ![r] = @ \cup {c}]
        /\ hashes' = [hashes EXCEPT ![r] = @ \cup {c}]
        /\ tips' = [tips EXCEPT ![r] = t]
    BY <1>8 DEF FetchMissing
  <2>2. /\ t \in Seq(Cids) /\ Len(t) <= MaxRecentTips /\ IsInjective(t)
        /\ Elements(t) \subseteq Elements(tips[r]) \cup {c}
    BY <1>7, TrackTipShape
  <2> HIDE DEF t
  <2>3. SyncOK(r, s)'
    BY <1>6, <1>7, <2>1
  <2>4. {c} \in SUBSET Cids
    OBVIOUS
  <2> QED
    BY <1>1, <1>4, <2>1, <2>2, <2>3, <2>4, MergeStep, Zenon
<1>9. CASE FetchFails(r, s, c)
  <2>1. UNCHANGED <<document, hashes, tips>>
    BY <1>9 DEF FetchFails
  <2>2. /\ document' = [document EXCEPT ![r] = @ \cup {}]
        /\ hashes' = [hashes EXCEPT ![r] = @ \cup {}]
        /\ tips' = [tips EXCEPT ![r] = tips[r]]
    BY <1>7, <2>1
  <2>3. SyncOK(r, s)' /\ {} \in SUBSET Cids
    BY <1>6, <2>1
  <2>4. Elements(tips[r]) \subseteq Elements(tips[r]) \cup {}
    OBVIOUS
  <2> QED
    BY <1>1, <1>4, <1>7, <2>2, <2>3, <2>4, MergeStep, Zenon
<1> QED
  BY <1>8, <1>9

(* _refreshLastSyncMessageFromSync: the message that is served afterwards   *)
(* is the old one, or the received one, whose root has been merged.         *)
LEMMA KnownFinish ==
  ASSUME KnownInv, NEW r \in Replicas, NEW s \in Slots, FinishSync(r, s)
  PROVE  KnownInv'
<1> DEFINE c == refreshed(r, sync[r][s].root)
<1>1. /\ sync[r][s].pc = "fetching" /\ last' = [last EXCEPT ![r] = c]
      /\ sync' = [sync EXCEPT ![r][s] = IdleSync]
      /\ UNCHANGED <<change, document, hashes, referenced, tips>>
  BY DEF FinishSync
<1>2. c \in Cids /\ c \in hashes[r] /\ Built(c)
  <2>1. SyncOK(r, s)
    BY DEF KnownInv, SyncInv
  <2>2. last[r] \in Cids /\ last[r] \in hashes[r] /\ Built(last[r])
    BY DEF KnownInv, TypeOK, ServedInv
  <2> QED
    BY <1>1, <2>1, <2>2 DEF SyncOK, refreshed
<1> HIDE DEF c
<1>3. last' \in [Replicas -> Cids] /\ last'[r] = c /\ \A q \in Replicas \ {r} : last'[q] = last[q]
  BY <1>1, <1>2 DEF KnownInv, TypeOK
<1>4. IdleSync \in SyncState /\ IdleSync.pc = "idle"
  BY DEF IdleSync, SyncState, Tree
<1>5. /\ sync' \in [Replicas -> [Slots -> SyncState]] /\ sync'[r][s] = IdleSync
      /\ \A q \in Replicas, u \in Slots : <<q, u>> # <<r, s>> => sync'[q][u] = sync[q][u]
  BY <1>1, <1>4 DEF KnownInv, TypeOK
<1>6. \A d \in Cids : Built(d) => Built(d)'
  BY <1>1 DEF Built, TreeOf
<1>7. SyncInv'
  <2>1. SyncOK(r, s)'
    BY <1>4, <1>5 DEF SyncOK
  <2>2. ASSUME NEW q \in Replicas, NEW u \in Slots, <<q, u>> # <<r, s>> PROVE SyncOK(q, u)'
    BY <1>1, <1>5, <1>6, <2>2, SyncKept DEF KnownInv
  <2> QED
    BY <2>1, <2>2 DEF SyncInv
<1>8. ServedInv'
  BY <1>1, <1>2, <1>3, <1>6 DEF KnownInv, ServedInv, TypeOK
<1>9. TypeOK'
  BY <1>1, <1>3, <1>5 DEF KnownInv, TypeOK
<1>10. TreeInv' /\ CallInv' /\ TipsInv'
  BY <1>1 DEF KnownInv, TreeInv, TreeOK, CallInv, TipsInv, Built, TreeOf
<1> QED
  BY <1>7, <1>8, <1>9, <1>10 DEF KnownInv

(* DocumentSync: for any number of replicas, changes and overlapping        *)
(* sync() calls, and whatever fails or arrives again, what a replica takes  *)
(* for known is in its document, and so are the root of the message that it *)
(* serves and the tips that its next change links.                          *)
THEOREM KnownChangesAreMerged == Spec => []KnownIsMerged
<1>1. KnownInv /\ [Next]_vars => KnownInv'
  <2> SUFFICES ASSUME KnownInv, [Next]_vars PROVE KnownInv'
    OBVIOUS
  <2>1. ASSUME NEW r \in Replicas, NEW c \in Cids, Change(r, c) PROVE KnownInv'
    BY <2>1, KnownChange
  <2>2. ASSUME NEW c \in Cids, MakeChange(c) PROVE KnownInv'
    BY <2>2, KnownBuild, KnownSetLast, KnownCallEnds DEF MakeChange
  <2>3. ASSUME NEW r \in Replicas, NEW s \in Slots, NEW c \in Cids, ReceiveSync(r, s, c)
        PROVE  KnownInv'
    BY <2>3, KnownReceive
  <2>4. ASSUME NEW r \in Replicas, NEW s \in Slots, SyncStep(r, s) PROVE KnownInv'
    BY <2>4, KnownApply, KnownFetch, KnownFinish DEF SyncStep
  <2>5. CASE UNCHANGED vars
    <3>1. TypeOK' /\ CallInv' /\ TipsInv'
      BY <2>5, ZenonT(30) DEF vars, KnownInv, TypeOK, CallInv, TipsInv
    <3>2. TreeInv'
      BY <2>5, ZenonT(30) DEF vars, KnownInv, TreeInv, TreeOK, Built, TreeOf
    <3>3. ServedInv'
      BY <2>5, ZenonT(30) DEF vars, KnownInv, ServedInv, Built, TreeOf
    <3>4. SyncInv'
      BY <2>5, ZenonT(30) DEF vars, KnownInv, SyncInv, SyncOK, Built, TreeOf
    <3> QED
      BY <3>1, <3>2, <3>3, <3>4 DEF KnownInv
  <2> QED
    BY <2>1, <2>2, <2>3, <2>4, <2>5 DEF Next
<1>2. KnownInv => KnownIsMerged
  <2> SUFFICES ASSUME KnownInv PROVE KnownIsMerged
    OBVIOUS
  <2>1. ASSUME NEW r \in Replicas
        PROVE  /\ \A i, j \in DOMAIN tips[r] : tips[r][i] = tips[r][j] => i = j
               /\ \A i \in DOMAIN tips[r] : tips[r][i] \in hashes[r]
    BY DEF KnownInv, TipsInv, IsInjective, Elements
  <2> QED
    BY <2>1 DEF KnownInv, KnownIsMerged, ServedInv, TipsInv
<1> QED
  BY <1>1, <1>2, KnownInit, PTL DEF Spec
=============================================================================
