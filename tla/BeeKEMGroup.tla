----------------------------- MODULE BeeKEMGroup -----------------------------
(***************************************************************************)
(* A group of members, each with the ratchet tree of BeeKEM.  A member     *)
(* adds and removes others and renews its own path; the Welcome and the    *)
(* PathUpdates it makes travel over unordered, lossy streams: they are     *)
(* kept in sets, and a member takes one of them in any order, late, twice  *)
(* or never.  Any member of the group may act, two of them concurrently on *)
(* trees that have not met.                                                *)
(*                                                                         *)
(* kem[x] is the long-lived key pair of x, whose public half the inviter   *)
(* holds (setKemKeyPair); minted[k] is the tree node that key k was made   *)
(* for, and the next key is the next number.                               *)
(***************************************************************************)
EXTENDS BeeKEM

CONSTANTS Members,   \* the members, numbered from 1
          MaxOps     \* bound: calls of addMember, removeMember and update

ASSUME MembersAssumption == Members = 1..Cardinality(Members) /\ 1 \in Members

VARIABLES
  trees,     \* member -> its tree, NoTree before it joined
  leafOf,    \* inviter -> member -> the leaf recorded at the last invitation, -1 for none
  minted,    \* the nodes of the tree the keys made so far are for
  welcomes,  \* Welcomes built: [to, w, root]
  updates,   \* PathUpdates made: [from, n, u, root]
  removals,  \* root secrets made by a removal: [who, root]
  placed,    \* member -> every leaf addMember put its key on, also where it then threw
  held,      \* member -> every private key its tree ever held
  ops

treesVars == <<trees, leafOf, minted, welcomes, updates, removals, placed, held, ops>>

Founder == 1

kem == [x \in Members |-> x]

(* A key made later is numbered after the KEM keys. *)
lastKey == Cardinality(Members) + Len(minted)

nodeOfKey(k) == minted[k - Cardinality(Members)]

PrivateKeys(t) == {t.nodes[i].priv : i \in DOMAIN t.nodes} \ {NoKey}

TreesInit ==
  /\ trees = [x \in Members |-> IF x = Founder THEN initialize(kem[Founder]) ELSE NoTree]
  /\ leafOf = [x \in Members |-> [y \in Members |-> -1]]
  /\ minted = << >>
  /\ welcomes = {} /\ updates = {} /\ removals = {}
  /\ placed = [x \in Members |-> IF x = Founder THEN {0} ELSE {}]
  /\ held = [x \in Members |-> {kem[x]}]

InGroup(x) == trees[x] # NoTree

Invited == {m.to : m \in welcomes}

(* What every method that renews the own path leaves: r is its result. *)
Renew(x, r) ==
  /\ ops < MaxOps
  /\ ops' = ops + 1
  /\ trees' = [trees EXCEPT ![x] = r.tree]
  /\ minted' = minted \o r.minted
  /\ updates' = updates \cup {[from |-> x, n |-> r.tree.n, u |-> r.update, root |-> r.root]}
  /\ held' = [held EXCEPT ![x] = @ \cup PrivateKeys(r.tree)]

(* addMember as addReader calls it, for a y that is not a reader yet or    *)
(* whose earlier call threw.                                               *)
AddMember(x, y) ==
  /\ InGroup(x)
  /\ y # x /\ y # Founder
  /\ y \notin Invited
  /\ \E r \in {addMember(trees[x], kem[y], lastKey)} :
      /\ Renew(x, r)
      /\ IF r.welcome = NoWelcome THEN UNCHANGED <<leafOf, welcomes>>
         ELSE /\ leafOf' = [leafOf EXCEPT ![x][y] = r.welcome.leaf]
              /\ welcomes' = welcomes \cup {[to |-> y, w |-> r.welcome, root |-> r.root]}
      /\ placed' = [placed EXCEPT ![y] = @ \cup {leafToNodeIndex(trees[x].n)}]
      /\ UNCHANGED removals

(* removeMember as removeReader calls it, on the leaf recorded for y. *)
RemoveMember(x, y) ==
  /\ leafOf[x][y] # -1
  /\ \E r \in {removeMember(trees[x], leafOf[x][y], lastKey)} :
      /\ Renew(x, r)
      /\ leafOf' = [leafOf EXCEPT ![x][y] = -1]
      /\ removals' = removals \cup {[who |-> y, root |-> r.root]}
      /\ UNCHANGED <<welcomes, placed>>

Update(x) ==
  /\ InGroup(x)
  /\ Renew(x, selfUpdate(trees[x], lastKey))
  /\ UNCHANGED <<leafOf, welcomes, removals, placed>>

(* A Welcome is sent once, to a member that has no tree yet. *)
ProcessWelcome(y) ==
  \E m \in welcomes :
    /\ m.to = y
    /\ ~InGroup(y)
    /\ \E t \in {processWelcome(m.w, kem[y])} :
        /\ t # NoTree
        /\ trees' = [trees EXCEPT ![y] = t]
        /\ held' = [held EXCEPT ![y] = @ \cup PrivateKeys(t)]
        /\ UNCHANGED <<leafOf, minted, welcomes, updates, removals, placed, ops>>

ProcessPathUpdate(y) ==
  \E m \in updates :
    /\ InGroup(y)
    /\ m.from # y
    /\ \E t \in {processPathUpdate(trees[y], m.u).tree} :
        /\ trees' = [trees EXCEPT ![y] = t]
        /\ held' = [held EXCEPT ![y] = @ \cup PrivateKeys(t)]
        /\ UNCHANGED <<leafOf, minted, welcomes, updates, removals, placed, ops>>

Compact(x) ==
  /\ InGroup(x)
  /\ trees' = [trees EXCEPT ![x] = compact(@)]
  /\ UNCHANGED <<leafOf, minted, welcomes, updates, removals, placed, held, ops>>

TreesNext ==
  \E x \in Members :
    \/ \E y \in Members : AddMember(x, y) \/ RemoveMember(x, y)
    \/ Update(x)
    \/ ProcessWelcome(x)
    \/ ProcessPathUpdate(x)
    \/ Compact(x)

-----------------------------------------------------------------------------
(* Every ciphertext sent, and the keys a holder of ks can open from them.  *)
Sealed == UNION {{m.u.path[i].enc : i \in DOMAIN m.u.path} : m \in updates}
          \cup UNION {{m.w.path[i].enc : i \in DOMAIN m.w.path} : m \in welcomes}

Reach(ks) ==
  LET close[known \in SUBSET Nat] ==
        LET more == known \cup {e.key : e \in {s \in Sealed : s.to \in known}}
        IN  IF more = known THEN known ELSE close[more]
  IN  close[ks]

Knows(x) == Reach(held[x])

(* TreesTypeOK: every private key a tree holds belongs to the public key stored *)
(* beside it, and messages name members, nodes and keys that exist.        *)
TreesTypeOK ==
  /\ ops \in 0..MaxOps
  /\ \A x \in Members : \A i \in DOMAIN trees[x].nodes :
       LET node == trees[x].nodes[i]
       IN  /\ node.pub \in 0..lastKey
           /\ node.priv \in {NoKey, node.pub}
  /\ \A m \in welcomes : m.to \in Members /\ m.root \in 1..lastKey
  /\ \A m \in updates : m.from \in Members /\ m.root \in 1..lastKey

(* RootsAgree: whoever derives a root secret from a message derives the    *)
(* sender's.  A Welcome that addMember returned lets its addressee open    *)
(* the whole chain of path keys and arrive at the secret the inviter had   *)
(* when it was built (processWelcome); when processPathUpdate returns a    *)
(* secret to a member whose tree has as many leaves as the sender's had,   *)
(* it is the sender's, whatever updates it took or missed before.          *)
(* It includes the types.                                                  *)
RootsAgree ==
  /\ TreesTypeOK
  /\ \A m \in welcomes : LET t == processWelcome(m.w, kem[m.to])
                         IN  t # NoTree /\ getRootSecret(t) = m.root
  /\ \A y \in Members : \A m \in updates :
       LET r == processPathUpdate(trees[y], m.u)
       IN  (InGroup(y) /\ m.from # y /\ m.n = trees[y].n /\ r.root # NoKey) => r.root = m.root

(* KeysAreConfined: whatever messages a member collects and opens outside  *)
(* the code, it knows the private key made for a node of the tree only if  *)
(* its own key was put on a leaf under that node (_updatePath seals to the *)
(* sibling subtree, _buildWelcome along the newcomer's path), and the root *)
(* secret that removeMember returns never becomes known to the member it   *)
(* removed ("the removed member cannot derive").                           *)
KeysAreConfined ==
  /\ \A x \in Members : \A k \in Knows(x) :
       k > Cardinality(Members) => \E l \in placed[x] : isInSubtree[l, nodeOfKey(k)]
  /\ \A r \in removals : r.root \notin Knows(r.who)

(* TreeMathCorrect: for every size up to the bound, the index arithmetic   *)
(* gives each leaf the path, the copath and the subtrees of the            *)
(* left-balanced tree (tree-math.ts; _isInSubtree of beekem.ts).           *)
TreeMathUpTo(size) ==
  \A n \in 1..size : \A pos \in 0..(n - 1) :
    LET down == RefDescent(0, n, pos)
        leaf == leafToNodeIndex(pos)
    IN  /\ leaf = Last(down)
        /\ <<leaf>> \o directPath[leaf, n] = Reverse(down)
        /\ copath[leaf, n] = Reverse(RefSiblings(0, n, pos))
        /\ \A node \in 0..(2 * n - 2) : isInSubtree[leaf, node] <=> node \in ToSet(down)

TreeMathCorrect == ops = 0 => TreeMathUpTo(17)

(* SurvivorsFollow: the comment on _registerBeeKEMReader, which does not   *)
(* broadcast what addMember changes because "the wire path on revoke       *)
(* re-syncs everyone": with a single member that adds and removes, every   *)
(* other member that joined and is not removed takes the first removal's   *)
(* PathUpdate, straight from the tree its Welcome left, to its root.       *)
SurvivorsFollow ==
  \A r \in removals, w \in welcomes, m \in updates :
    /\ \A o \in updates : o.from = Founder
    /\ removals = {r} /\ w.to # r.who /\ w.root < r.root
    /\ m.root = r.root
    /\ trees[w.to] = processWelcome(w.w, kem[w.to])
    => processPathUpdate(trees[w.to], m.u).root = r.root
=============================================================================
