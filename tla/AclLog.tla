------------------------------- MODULE AclLog -------------------------------
(***************************************************************************)
(* What ACLChain (acl-chain.ts) promises its callers: each replica holds a *)
(* log of ACL entries.  A step of a replica extends its log by one entry   *)
(* that belongs at exactly this place, signed by a key that was a writer   *)
(* just before, or empties the log to load it again.  Nothing else ever    *)
(* happens to a log, however the calls that do it overlap.                 *)
(***************************************************************************)
EXTENDS Sequences, Integers, FiniteSets

CONSTANTS
  Replicas,                \* the chains; each is named by the key of its owner
  Changes,                 \* change blocks: [adds, removes] of keys
  genesisAuthorizedKeys,   \* who may author the first entry
  undefined                \* the parentHash of the first entry

VARIABLE log

(* ops.applyChange: what a change block does to the set of writers. *)
applyChange(writers, change) == (writers \cup change.adds) \ change.removes

(* The writers after the first n entries of a log. *)
writersAfter(l) ==
  LET after[n \in Nat] == IF n = 0 THEN {} ELSE applyChange(after[n - 1], l[n].change)
  IN  after

(* computeEntryHash covers every field but the signature, the parent's hash  *)
(* among them: an entry's hash is its payload.                               *)
headHash(l) == IF l = << >> THEN undefined ELSE l[Len(l)]

(* Who may sign the next entry of a log. *)
mayAuthor(l) == IF l = << >> THEN genesisAuthorizedKeys ELSE writersAfter(l)[Len(l)]

Init == log = [p \in Replicas |-> << >>]

Append1(p) ==
  \E change \in Changes, signer \in mayAuthor(log[p]) :
    log' = [log EXCEPT ![p] = Append(@,
              [sequenceNumber |-> Len(@), parentHash |-> headHash(@),
               change |-> change, signerKeyId |-> signer])]

Empty(p) == log' = [log EXCEPT ![p] = << >>]

Next == \E p \in Replicas : Append1(p) \/ Empty(p)

Spec == Init /\ [][Next]_log
=============================================================================
