------------------------------- MODULE BeeKEM -------------------------------
(***************************************************************************)
(* The BeeKEM ratchet tree of one member (beekem/beekem.ts) as operators   *)
(* from a tree to the tree, the messages and the root secret that a method *)
(* leaves.  A key pair is a number, its private and its public half the    *)
(* same one, and NoKey stands for a missing or blanked half; a key sealed  *)
(* by ECIES is the pair of the key and of the public key it is sealed to,  *)
(* and only the matching private key opens it.  The secret derived from    *)
(* the root node stands for that node's private key.                       *)
(*                                                                         *)
(* The methods await WebCrypto between their steps.  Nothing in the class  *)
(* orders two calls on one tree; each is taken as one step here.           *)
(***************************************************************************)
EXTENDS TreeMath, SequencesExt, FiniteSetsExt

NoKey == 0

Node(pub, priv) == [pub |-> pub, priv |-> priv]

Blank == Node(NoKey, NoKey)

(* A tree that was never initialised, and a Welcome that was not built. *)
NoTree == [nodes |-> << >>, n |-> 0, me |-> 0]

NoWelcome == [leaf |-> 0, path |-> << >>, others |-> << >>, hash |-> {}]

(* _nodes.get of a node that may be absent, and _nodes.set. *)
Get(t, i) == IF i \in DOMAIN t.nodes THEN t.nodes[i] ELSE Blank

SetNode(t, i, node) ==
  [t EXCEPT !.nodes = [j \in DOMAIN t.nodes \cup {i} |-> IF j = i THEN node ELSE t.nodes[j]]]

(* _encryptNodeKey and _decryptNodeKey; NoKey stands for the exception. *)
Seal(key, to) == [key |-> key, to |-> to]

Open(sealed, priv) == IF priv # NoKey /\ sealed.to = priv THEN sealed.key ELSE NoKey

(* _computeTreeHash: the hash covers every node that has a public key. *)
computeTreeHash(t) == {<<i, t.nodes[i].pub>> : i \in {j \in DOMAIN t.nodes : t.nodes[j].pub # NoKey}}

(* getRootSecret, NoKey where it throws. *)
getRootSecret(t) == IF t.n <= 0 THEN NoKey
                    ELSE IF t.n = 1 THEN Get(t, 0).priv
                    ELSE Get(t, root[t.n]).priv

initialize(key) == [nodes |-> [i \in {0} |-> Node(key, key)], n |-> 1, me |-> 0]

(* _resolvePublicKey and _resolveSubtreeKey: the first key of a half found *)
(* in the subtree, the node before its left and its left before its right. *)
Resolve(t, start, half) ==
  LET find[i \in Nat] ==
        IF Get(t, i)[half] # NoKey \/ isLeaf(i) THEN Get(t, i)[half]
        ELSE LET l == find[left[i]] IN IF l # NoKey THEN l ELSE find[right[i, t.n]]
  IN  find[start]

resolvePublicKey(t, i) == Resolve(t, i, "pub")

resolveSubtreeKey(t, i) == Resolve(t, i, "priv")

(* _findChildOnOurSide, the node itself where the code returns undefined. *)
findChildOnOurSide(t, i) ==
  IF isLeaf(i) THEN i
  ELSE IF isInSubtree[t.me, left[i]] THEN left[i]
  ELSE IF isInSubtree[t.me, right[i, t.n]] THEN right[i, t.n]
  ELSE i

sealTargetRoot(t, siblingIndex) == resolvePublicKey(t, root[t.n])

(* The public key a node of our path is sealed to: the first one found in  *)
(* the sibling subtree, an empty ciphertext when there is none.            *)
sealTarget(t, siblingIndex) == resolvePublicKey(t, siblingIndex)

(* _updatePath: a fresh key pair for every node of our path, each sealed   *)
(* to the resolution of its sibling.  mint is the last key in use.         *)
updatePath(t, mint) ==
  LET dp == directPath[t.me, t.n]
      cp == copath[t.me, t.n]
      t2 == [t EXCEPT !.nodes = [j \in DOMAIN t.nodes \cup ToSet(dp) |->
                IF j \in ToSet(dp)
                THEN LET k == mint + (CHOOSE i \in DOMAIN dp : dp[i] = j) IN Node(k, k)
                ELSE t.nodes[j]]]
  IN  [tree   |-> t2,
       update |-> [leaf    |-> t.me,
                   leafPub |-> Get(t, t.me).pub,
                   path    |-> [i \in DOMAIN dp |->
                                 [node |-> dp[i],
                                  pub  |-> mint + i,
                                  enc  |-> Seal(mint + i, sealTarget(t, cp[i]))]]],
       root   |-> getRootSecret(t2),
       minted |-> dp]

(* The key that the i-th path key of a Welcome is sealed to. *)
chainKey(t, dp, i, memberKey) == IF i = 1 THEN memberKey ELSE Get(t, dp[i - 1]).pub

(* _buildWelcome: the private keys of the new member's path, the first     *)
(* sealed to the new member and each next one to the node before it.       *)
buildWelcome(t, newLeaf, memberKey) ==
  LET dp == directPath[newLeaf, t.n]
      others == DOMAIN t.nodes \ (ToSet(dp) \cup {newLeaf})
  IN  IF \E i \in DOMAIN dp : Get(t, dp[i]).pub = NoKey \/ Get(t, dp[i]).priv = NoKey
      THEN NoWelcome
      ELSE [leaf   |-> newLeaf,
            path   |-> [i \in DOMAIN dp |->
                         [node |-> dp[i],
                          pub  |-> Get(t, dp[i]).pub,
                          enc  |-> Seal(Get(t, dp[i]).priv, chainKey(t, dp, i, memberKey))]],
            others |-> [j \in others |-> t.nodes[j].pub],
            hash   |-> computeTreeHash(t)]

(* addMember: the leaf is taken and the path renewed before the Welcome is *)
(* built, and stay so when building it throws.                             *)
addMember(t, memberKey, mint) ==
  LET newLeaf == leafToNodeIndex(t.n)
      welcomed(r) == [tree |-> r.tree, update |-> r.update, root |-> r.root, minted |-> r.minted,
                      welcome |-> buildWelcome(r.tree, newLeaf, memberKey)]
  IN  welcomed(updatePath(SetNode([t EXCEPT !.n = @ + 1], newLeaf, Node(memberKey, NoKey)), mint))

(* update: a fresh leaf and a fresh path for us. *)
selfUpdate(t, mint) ==
  [updatePath(SetNode(t, t.me, Node(mint + 1, mint + 1)), mint + 1) EXCEPT !.minted = <<t.me>> \o @]

blankedPathOnly(t, memberLeaf) == ToSet(directPath[memberLeaf, t.n])

(* The leaf and the internal nodes that removeMember blanks. *)
blanked(t, memberLeaf) == {memberLeaf} \cup ToSet(directPath[memberLeaf, t.n])

(* removeMember: a blank path for the removed member, then the same as     *)
(* update.                                                                 *)
removeMember(t, memberLeaf, mint) ==
  LET gone == blanked(t, memberLeaf)
      t1 == [t EXCEPT !.nodes = [j \in DOMAIN t.nodes \cup gone |->
                                   IF j \in gone THEN Blank ELSE t.nodes[j]]]
  IN  selfUpdate(t1, mint)

(* processPathUpdate, up to the first node of the update on our own path:  *)
(* its private key, opened with a key of our side, or NoKey.               *)
intersection(t, u) ==
  LET mine == {i \in DOMAIN u.path : u.path[i].node \in ToSet(directPath[t.me, t.n])}
  IN  IF mine = {} THEN 0 ELSE Min(mine)

intersectionKey(t, u) ==
  LET i == intersection(t, u)
  IN  IF i = 0 THEN NoKey
      ELSE Open(u.path[i].enc, resolveSubtreeKey(t, findChildOnOurSide(t, u.path[i].node)))

processAboveKeepsKey(acc, p) ==
  [acc EXCEPT !.tree = SetNode(@, p.node, Node(p.pub, Get(acc.tree, p.node).priv))]

(* One node above the intersection: its private key is opened with the key *)
(* of the child on our side when there is one.  A key that does not open   *)
(* the ciphertext throws, and so does TreeMath.right on a node outside our *)
(* tree; both end the walk with what was stored so far.                    *)
processAbove(acc, p) ==
  LET child == findChildOnOurSide(acc.tree, p.node)
      have  == IF child = p.node THEN NoKey ELSE Get(acc.tree, child).priv
      priv  == IF have = NoKey THEN NoKey ELSE Open(p.enc, have)
  IN  IF \/ ~acc.ok
         \/ p.node >= nodeWidth[acc.tree.n]
         \/ have # NoKey /\ priv = NoKey
      THEN [acc EXCEPT !.ok = FALSE]
      ELSE [acc EXCEPT !.tree = SetNode(@, p.node, Node(p.pub, priv))]

(* processPathUpdate: the tree it leaves, also where it throws, and the    *)
(* root secret it returns, NoKey where it throws.                          *)
belowIntersection(t, u, x) ==
  LET below(acc, p) == SetNode(acc, p.node, Node(p.pub, NoKey))
  IN  FoldLeft(below, t, SubSeq(u.path, 1, x - 1))

fromIntersection(t, u, x, key) ==
  LET rooted(t3) == [tree |-> t3, root |-> getRootSecret(t3)]
      ended(above) == IF above.ok THEN rooted(belowIntersection(above.tree, u, x))
                      ELSE [tree |-> above.tree, root |-> NoKey]
  IN  IF key = NoKey THEN [tree |-> t, root |-> NoKey]
      ELSE ended(FoldLeft(processAbove,
                          [tree |-> SetNode(t, u.path[x].node, Node(u.path[x].pub, key)), ok |-> TRUE],
                          SubSeq(u.path, x + 1, Len(u.path))))

processPathUpdate(t, u) ==
  LET received(t1) == fromIntersection(t1, u, intersection(t1, u), intersectionKey(t1, u))
  IN  received(SetNode(t, u.leaf, Node(u.leafPub, NoKey)))

(* The leaves a Welcome implies: its own and those a path node needs. *)
impliedLeaves(w) ==
  Max({nodeToLeafIndex(w.leaf) + 1}
      \cup {nodeToLeafIndex(IF isLeaf(p.node) THEN p.node ELSE p.node + 1) + 1 : p \in ToSet(w.path)})

(* The chain of private keys a Welcome gives to the owner of key. *)
pathKeyChain(w, key) ==
  LET chain[i \in Nat] == IF i = 0 THEN key ELSE Open(w.path[i].enc, chain[i - 1])
  IN  [i \in DOMAIN w.path |-> chain[i]]

(* processWelcome on a fresh instance, NoTree where it throws. *)
processWelcome(w, key) ==
  LET keys  == pathKeyChain(w, key)
      onPath(j) == CHOOSE i \in DOMAIN w.path : w.path[i].node = j
      inPath == {p.node : p \in ToSet(w.path)}
      t == [nodes |-> [j \in {w.leaf} \cup inPath \cup DOMAIN w.others |->
                         IF j = w.leaf THEN Node(key, key)
                         ELSE IF j \in inPath THEN Node(w.path[onPath(j)].pub, keys[onPath(j)])
                         ELSE Node(w.others[j], NoKey)],
            n |-> impliedLeaves(w), me |-> w.leaf]
  IN  IF \/ \E i \in DOMAIN keys : keys[i] = NoKey
         \/ computeTreeHash(t) # w.hash
         \/ getRootSecret(t) = NoKey
      THEN NoTree ELSE t

(* findLeafByPublicKey, -1 for undefined. *)
findLeafByPublicKey(t, key) ==
  LET found == {pos \in 0..(t.n - 1) : key # NoKey /\ Get(t, leafToNodeIndex(pos)).pub = key}
  IN  IF found = {} THEN -1 ELSE leafToNodeIndex(Min(found))

(* compact: a blanked leaf goes, with its path, when all of the path is    *)
(* blank.                                                                  *)
compact(t) ==
  LET blankAt(i) == Get(t, i).pub = NoKey
      leaves == {leafToNodeIndex(pos) : pos \in 0..(t.n - 1)}
      dead   == {l \in leaves : blankAt(l) /\ \A i \in ToSet(directPath[l, t.n]) : blankAt(i)}
      gone   == UNION {{l} \cup ToSet(directPath[l, t.n]) : l \in dead}
  IN  IF t.n <= 1 THEN t
      ELSE [t EXCEPT !.nodes = [j \in DOMAIN t.nodes \ gone |-> t.nodes[j]]]
=============================================================================
