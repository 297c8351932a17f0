------------------------------ MODULE CrdtAcl -------------------------------
(***************************************************************************)
(* The replicated lists of users behind a document's readers and writers:  *)
(* YjsACL and AutomergeACL, wrapped or not by UCANACL (ucan-acl.ts).       *)
(*                                                                         *)
(* Each replica adds and removes users and sends the block of changes that *)
(* the call returned; the others merge the blocks, in any order.  An       *)
(* operation is a record: who made it, the users object it was made in,    *)
(* the entries it replaces or deletes, and the operations a replica must   *)
(* have before its CRDT library applies it; until then it is pending.      *)
(* What its maker had applied is recorded for the properties only.  Of the *)
(* libraries, which are external, the model has what decides presence:     *)
(*   Yjs        the users map is one for all; the rightmost of the entries *)
(*              set for a key counts, and concurrent ones stand in the     *)
(*              order of their client ids; a delete names the entry it     *)
(*              deletes, and every block carries all deletes of its sender *)
(*   Automerge  from({users: {}}) makes an object of each replica's own;   *)
(*              of the conflicting ones that of the highest actor counts;  *)
(*              a change applies after all its maker had applied.          *)
(***************************************************************************)
EXTENDS Integers, FiniteSets, Sequences

CONSTANTS
  Admins,       \* the replicas, by client or actor id: numbers
  Users,
  Backend,      \* "yjs" or "automerge"
  MaxOps,       \* bound on the operations made
  nobody        \* no user, no object, no capability

VARIABLES
  ops,          \* the operations made
  known,        \* known[p]: those p has received or made itself
  blocks        \* the blocks of changes returned so far

crdtVars == <<ops, known, blocks>>

Id(op) == <<op.actor, op.n>>

(* The from({users: {}}) of an AutomergeACL. *)
Seed(p) == [actor |-> p, n |-> 0, kind |-> "seed", user |-> nobody, object |-> p,
            over |-> {}, deps |-> {}, seen |-> {}]

(* What the library of p has applied. *)
applied(p) == {op \in known[p] : op.deps \subseteq {Id(o) : o \in known[p]}}

Highest(S) == CHOOSE op \in S : \A o \in S : o.actor <= op.actor

(* The users object that p sees. *)
root(p) ==
  IF Backend = "yjs" THEN nobody
  ELSE Highest({op \in applied(p) : op.kind = "seed"}).object

setsOf(p, u) == {op \in applied(p) : op.kind = "add" /\ op.user = u /\ op.object = root(p)}

(* Yjs: the rightmost of a key's entries, from one entry on. *)
RECURSIVE rightmost(_, _)
rightmost(S, last) ==
  LET after == {op \in S : op.over = last}
  IN  IF after = {} THEN last ELSE rightmost(S, {Id(Highest(after))})

(* The entries a set() or delete() of p for u refers to: the last one of     *)
(* Yjs, or every value of Automerge that nothing replaced or deleted.        *)
latest(p, u) ==
  IF Backend = "yjs" THEN rightmost(setsOf(p, u), {})
  ELSE {Id(op) : op \in setsOf(p, u)} \ UNION {op.over : op \in applied(p)}

(* ACL.check without a capability. *)
isMember(p, u) ==
  \E id \in latest(p, u) : \A op \in applied(p) : op.kind = "remove" => id \notin op.over

----------------------------------------------------------------------------
(* What must be applied before an operation of p: for Yjs the earlier        *)
(* entries of the same client and those it refers to; for Automerge          *)
(* everything p had applied.                                                 *)
needs(p, kind, over) ==
  LET first == {op \in applied(p) :
                  \/ Backend = "automerge"
                  \/ Id(op) \in over
                  \/ kind = "add" /\ op.kind = "add" /\ op.actor = p}
  IN  {Id(op) : op \in first} \cup UNION {op.deps : op \in first}

Operation(p, kind, u) ==
  [actor |-> p, n |-> Cardinality({op \in ops : op.actor = p}), kind |-> kind, user |-> u,
   object |-> root(p), over |-> latest(p, u), deps |-> needs(p, kind, latest(p, u)),
   seen |-> {Id(op) : op \in applied(p)}]

(* encodeStateAsUpdateV2(doc, beforeSV) holds the new entries and every      *)
(* delete; getChanges(before, after) holds the new change.                   *)
block(p, op) ==
  {op} \cup IF Backend = "yjs" THEN {o \in applied(p) : o.kind = "remove"} ELSE {}

Make(p, op) ==
  /\ Cardinality(ops) < MaxOps
  /\ ops' = ops \cup {op}
  /\ known' = [known EXCEPT ![p] = @ \cup {op}]
  /\ blocks' = blocks \cup {block(p, op)}

(* add and remove of the backing ACL, after serializeKey. *)
add(p, u) == Make(p, Operation(p, "add", u))
removeOwn(p, u) ==
  IF isMember(p, u)
  THEN Make(p, [Operation(p, "remove", u) EXCEPT !.over = {id \in @ : id[1] = p}])
  ELSE UNCHANGED crdtVars

remove(p, u) ==
  IF isMember(p, u) THEN Make(p, Operation(p, "remove", u)) ELSE UNCHANGED crdtVars

(* merge(changes), of a block from a peer. *)
Merge(p) ==
  \E b \in blocks :
    /\ ~ b \subseteq known[p]
    /\ known' = [known EXCEPT ![p] = @ \cup b]
    /\ UNCHANGED <<ops, blocks>>

CrdtInit ==
  /\ ops = IF Backend = "yjs" THEN {} ELSE {Seed(p) : p \in Admins}
  /\ known = [p \in Admins |-> {op \in ops : op.actor = p}]
  /\ blocks = {}
=============================================================================
