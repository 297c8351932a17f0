------------------------------ MODULE UcanAcl -------------------------------
(***************************************************************************)
(* UCANACL of ucan-acl.ts around the replicated list of module CrdtAcl:    *)
(* capabilities granted and keys revoked are kept beside it, at the        *)
(* replica where the call was made, and only the list is merged.           *)
(***************************************************************************)
EXTENDS CrdtAcl, UcanChain

CONSTANT Granted   \* the abilities grant() is called with

VARIABLES
  granted,       \* granted[p][u]: the capability in _entries, or nobody
  revoked,       \* _revokedKeys
  awaiting       \* calls of the backing ACL that await serializeKey

aclVars == <<crdtVars, granted, revoked, awaiting>>

AclTypeOK ==
  /\ granted \in [Admins -> [Users -> Granted \cup {nobody}]]
  /\ revoked \in [Admins -> SUBSET Users]
  /\ Cardinality(ops) <= MaxOps
  /\ \A p \in Admins : known[p] \subseteq ops /\ applied(p) \subseteq known[p]
  /\ \A p \in Admins : {op \in ops : op.actor = p} \subseteq applied(p)

(* grant(), once the token is signed, up to the call of the backing add. *)
Grant(p) ==
  \E u \in Users, ability \in Granted :
    /\ Cardinality(ops) + Cardinality(awaiting) < MaxOps
    /\ granted' = [granted EXCEPT ![p][u] = ability]
    /\ awaiting' = awaiting \cup {[at |-> p, kind |-> "add", user |-> u]}
    /\ UNCHANGED <<crdtVars, revoked>>

(* remove() and revoke(), up to the call of the backing remove. *)
Revoke(p) ==
  \E u \in Users :
    /\ Cardinality(ops) + Cardinality(awaiting) < MaxOps
    /\ revoked' = [revoked EXCEPT ![p] = @ \cup {u}]
    /\ granted' = [granted EXCEPT ![p][u] = nobody]
    /\ awaiting' = awaiting \cup {[at |-> p, kind |-> "remove", user |-> u]}
    /\ UNCHANGED crdtVars

(* The backing add or remove, after its own serializeKey. *)
Backing ==
  \E a \in awaiting :
    /\ IF a.kind = "add" THEN add(a.at, a.user) ELSE remove(a.at, a.user)
    /\ awaiting' = awaiting \ {a}
    /\ UNCHANGED <<granted, revoked>>

AclMerge == \E p \in Admins : Merge(p) /\ UNCHANGED <<granted, revoked, awaiting>>

AclInit ==
  /\ CrdtInit
  /\ granted = [p \in Admins |-> [u \in Users |-> nobody]]
  /\ revoked = [p \in Admins |-> {}]
  /\ awaiting = {}

AclNext == (\E p \in Admins : Grant(p) \/ Revoke(p)) \/ Backing \/ AclMerge

(* check(publicKey, capability). *)
check(p, u, ability) ==
  /\ u \notin revoked[p]
  /\ IF granted[p][u] = nobody THEN isMember(p, u)
     ELSE capabilityImplies(granted[p][u], ability)

----------------------------------------------------------------------------
(* p has merged every block of changes that an add or remove returned. *)
Received(p) == UNION blocks \subseteq known[p]

Made(kind, u) == {op \in ops : op.kind = kind /\ op.user = u}

(* "An ACL keeps track of a list of user's public keys and produces changes  *)
(* that can be sent to other swarm peers" (acl.ts): at a replica that has    *)
(* merged all blocks, in whatever order, a user who was added and never      *)
(* removed is a member.                                                      *)
AddedIsMember ==
  \A p \in Admins, u \in Users :
    Received(p) /\ Made("add", u) # {} /\ Made("remove", u) = {} => isMember(p, u)

(* The list says what was done to it: the above, and a removal by a replica  *)
(* that had seen every addition of the user holds everywhere, whichever of   *)
(* the entries each replica saw last.                                        *)
(* It includes the types.                                                    *)
MergedListIsRight ==
  /\ AclTypeOK
  /\ AddedIsMember
  /\ \A p \in Admins, u \in Users :
       /\ Received(p)
       /\ \E r \in Made("remove", u) : \A op \in Made("add", u) : Id(op) \in r.seen
       => ~isMember(p, u)

(* "Concurrent grant + revoke of the same user: revoke wins" (ucan-acl.ts):  *)
(* once every block is merged and no call is under way, a user whom a        *)
(* replica revoked, and whom nobody added after seeing that, has no          *)
(* capability anywhere.  The code does not do this: _revokedKeys and         *)
(* _entries are not merged, and in the merged list the addition survives.    *)
RevokeWins ==
  \A p \in Admins, u \in Users :
    /\ awaiting = {} /\ \A q \in Admins : Received(q)
    /\ \E r \in Made("remove", u) : \A op \in Made("add", u) : Id(r) \notin op.seen
    => \A ability \in Abilities : ~check(p, u, ability)
=============================================================================
