------------------------------ MODULE AclChain ------------------------------
(***************************************************************************)
(* The chains of signed ACL entries of acl-chain.ts, one per replica, and  *)
(* the network between them.                                               *)
(*                                                                         *)
(* authorAndAppend, ingestEntry and replay await key serialization,        *)
(* hashing, signing, verification and the ACL adapter.  They go through    *)
(* _runExclusive, a promise queue; the model splits each call at its       *)
(* awaits, so that what the queue is for is seen.  Entries reach other     *)
(* replicas late, repeatedly, in any order or damaged, and a replica may   *)
(* load another's chain as it was at some time.                            *)
(***************************************************************************)
EXTENDS Sequences, Integers, FiniteSets

CONSTANTS
  Replicas,      \* the chains; each is named by the key of its owner
  Changes,       \* change blocks: [adds, removes] of keys
  genesisAuthorizedKeys,   \* who may author the first entry
  undefined,     \* no parentHash, no state, no entry
  MaxCalls,      \* bound on the calls made
  MaxQueue       \* bound on the calls pending at one replica

ASSUME ChainBounds == MaxCalls \in Nat /\ MaxQueue \in Nat

(* A list of writers, the empty one too, is never taken for a missing one.   *)
ASSUME WritersAreDefined ==
  \A writers \in SUBSET UNION {change.adds : change \in Changes} : writers # undefined

VARIABLES
  entries,       \* _entries, and _entryHashes: an entry's hash is its payload
  state,         \* _state: the writers, or undefined while it is null
  queue,         \* the calls behind _mutationQueue, the running one first
  calls,         \* how many calls were made
  signed,        \* the payloads that were ever signed
  net            \* what was returned for transmission, and loaded snapshots

chain == <<entries, state>>
vars  == <<entries, state, queue, calls, signed, net>>

(* What the chains are for their callers. *)
Log == INSTANCE AclLog WITH log <- entries

(* A call: its kind, where it awaits, the change to author, its entry, for   *)
(* replay() the snapshot and the place in it, and the captured priorState.   *)
Call(kind, change, entry, snapshot) ==
  [kind |-> kind, phase |-> "queued", change |-> change, entry |-> entry,
   snapshot |-> snapshot, at |-> 1, prior |-> undefined]

ChainTypeOK ==
  /\ calls \in 0..MaxCalls
  /\ \A p \in Replicas :
       /\ state[p] = undefined <=> entries[p] = << >>
       /\ Len(queue[p]) <= MaxQueue
       /\ \A k \in 2..Len(queue[p]) : queue[p][k].phase = "queued"

----------------------------------------------------------------------------
(* _runExclusive: a task starts when all earlier ones have settled. *)
Turn(p, k) == k = 1 /\ queue[p] # << >>

Enqueue(p, call) ==
  /\ calls < MaxCalls /\ Len(queue[p]) < MaxQueue
  /\ calls' = calls + 1
  /\ queue' = [queue EXCEPT ![p] = Append(@, call)]
  /\ UNCHANGED <<chain, signed, net>>

(* authorAndAppend(change) with the replica's own key. *)
AuthorAndAppend(p) ==
  \E change \in Changes :
    Enqueue(p, Call("author", change, undefined, << >>))

(* A delivered copy of an entry: the entry itself, or one whose change was   *)
(* damaged on the way.                                                       *)
Delivered(entry) == {[entry EXCEPT !.change = change] : change \in Changes}

(* ingestEntry(entry, key of its signer). *)
IngestEntry(p) ==
  \E entry \in net.entries : \E copy \in Delivered(entry) :
    Enqueue(p, Call("ingest", undefined, copy, << >>))

(* replay(entries() of another replica). *)
Replay(p) ==
  \E snapshot \in net.snapshots :
    Enqueue(p, Call("replay", undefined, undefined, snapshot))

(* entries(): a copy of the chain, sent to a peer. *)
Entries(p) ==
  /\ entries[p] # << >> /\ net.snapshots = {}
  /\ net' = [net EXCEPT !.snapshots = @ \cup {entries[p]}]
  /\ UNCHANGED <<chain, queue, calls, signed>>

----------------------------------------------------------------------------
Others(p, k) == SubSeq(queue[p], 1, k - 1) \o SubSeq(queue[p], k + 1, Len(queue[p]))

(* A task that returns, throws or refuses its entry leaves the queue; the    *)
(* next one runs whatever became of it.                                      *)
Settle(p, k) == queue' = [queue EXCEPT ![p] = Others(p, k)]

Moves(p, k, call) == queue' = [queue EXCEPT ![p][k] = call]

(* authorAndAppend: serializeKey, build the payload on the current head and  *)
(* sign it.                                                                  *)
Sign(p, k) ==
  LET call == queue[p][k]
      entry == [sequenceNumber |-> Len(entries[p]), parentHash |-> Log!headHash(entries[p]),
                change |-> call.change, signerKeyId |-> p]
  IN  /\ call.kind = "author" /\ call.phase = "queued"
      /\ Moves(p, k, [call EXCEPT !.phase = "check", !.entry = entry])
      /\ signed' = signed \cup {entry}
      /\ UNCHANGED <<chain, calls, net>>

(* replay: reset, and take the first entry. *)
Reset(p, k) ==
  LET call == queue[p][k]
  IN  /\ call.kind = "replay" /\ call.phase = "queued"
      /\ entries' = [entries EXCEPT ![p] = << >>]
      /\ state' = [state EXCEPT ![p] = undefined]
      /\ Moves(p, k, [call EXCEPT !.phase = "check", !.entry = call.snapshot[1]])
      /\ UNCHANGED <<calls, signed, net>>

(* _ingestEntryInternal, steps 2 and 3: the entry's number is the length of  *)
(* the chain and its parent is the head.                                     *)
InPlace(p, entry) ==
  /\ entry.sequenceNumber = Len(entries[p])
  /\ entry.parentHash = Log!headHash(entries[p])

Check(p, k) ==
  LET call == queue[p][k]
      ready == call.phase = IF call.kind = "ingest" THEN "queued" ELSE "check"
  IN  /\ ready
      /\ IF InPlace(p, call.entry)
         THEN Moves(p, k, [call EXCEPT !.phase = "authorize"])
         ELSE Settle(p, k)
      /\ UNCHANGED <<chain, calls, signed, net>>

(* Step 5: auth.verify holds for exactly the payloads that were signed. *)
Verifies(entry) == entry \in signed

(* Step 6: a bootstrap key for the first entry, a writer of priorState for   *)
(* any other.                                                                *)
AuthorizedAlways(p, entry) == TRUE
Authorized(p, entry) ==
  entry.signerKeyId \in IF entries[p] = << >> THEN genesisAuthorizedKeys ELSE state[p]

Authorize(p, k) ==
  LET call == queue[p][k]
  IN  /\ call.phase = "authorize"
      /\ IF Verifies(call.entry) /\ Authorized(p, call.entry)
         THEN Moves(p, k, [call EXCEPT !.phase = "commit",
                             !.prior = IF state[p] = undefined THEN {} ELSE state[p]])
         ELSE Settle(p, k)
      /\ UNCHANGED <<chain, calls, signed, net>>

(* Step 7, once applyChange has answered: the new state and the entry, and   *)
(* what the caller does next.  replay() goes on to the next entry of its     *)
(* snapshot; an authored entry is transmitted.                               *)
Advance(p, k) ==
  LET call == queue[p][k]
      more == call.kind = "replay" /\ call.at < Len(call.snapshot)
  IN  /\ IF more
         THEN Moves(p, k, [call EXCEPT !.phase = "check", !.at = @ + 1, !.prior = undefined,
                                       !.entry = call.snapshot[call.at + 1]])
         ELSE Settle(p, k)
      /\ net' = IF call.kind = "author" THEN [net EXCEPT !.entries = @ \cup {call.entry}]
                                        ELSE net

CommitKeepsState(p, k) ==
  LET call == queue[p][k]
  IN  /\ call.phase = "commit"
      /\ entries' = [entries EXCEPT ![p] = Append(@, call.entry)]
      /\ state' = IF call.kind = "replay" /\ state[p] # undefined THEN state
                  ELSE [state EXCEPT ![p] = Log!applyChange(call.prior, call.entry.change)]
      /\ Advance(p, k)
      /\ UNCHANGED <<calls, signed>>

Commit(p, k) ==
  LET call == queue[p][k]
  IN  /\ call.phase = "commit"
      /\ state' = [state EXCEPT ![p] = Log!applyChange(call.prior, call.entry.change)]
      /\ entries' = [entries EXCEPT ![p] = Append(@, call.entry)]
      /\ Advance(p, k)
      /\ UNCHANGED <<calls, signed>>

(* A call of the running task throws: serializeKey, sign, serializeChange,   *)
(* digest, verify, isWriter, applyChange, or resolveKey, which may also know *)
(* no key.  The entry is refused or the call rejects.                        *)
ThrowsHeld(p, k) ==
  /\ queue[p][k].phase # "queued"
  /\ Moves(p, k, [queue[p][k] EXCEPT !.phase = "rejected"])
  /\ UNCHANGED <<chain, calls, signed, net>>

Throws(p, k) ==
  /\ queue[p][k].phase # "queued"
  /\ Settle(p, k)
  /\ UNCHANGED <<chain, calls, signed, net>>

Run(p, k) ==
  /\ Turn(p, k)
  /\ Sign(p, k) \/ Reset(p, k) \/ Check(p, k) \/ Authorize(p, k) \/ Commit(p, k)
       \/ Throws(p, k)

ChainInit ==
  /\ entries = [p \in Replicas |-> << >>]
  /\ state = [p \in Replicas |-> undefined]
  /\ queue = [p \in Replicas |-> << >>]
  /\ calls = 0
  /\ signed = {}
  /\ net = [entries |-> {}, snapshots |-> {}]

ChainNext ==
  \E p \in Replicas :
    \/ AuthorAndAppend(p) \/ IngestEntry(p) \/ Replay(p) \/ Entries(p)
    \/ \E k \in 1..Len(queue[p]) : Run(p, k)

ChainSpec == ChainInit /\ [][ChainNext]_vars

(* The awaited calls answer or throw. *)
FairSpec ==
  /\ ChainSpec
  /\ \A p \in Replicas :
       WF_vars(\E k \in 1..MaxQueue : k <= Len(queue[p]) /\ Run(p, k))

----------------------------------------------------------------------------
(* Overlapping calls of authorAndAppend, ingestEntry and replay act on a     *)
(* chain like atomic operations: every step extends a chain by one entry     *)
(* that names the chain's length and head and whose signer may author it     *)
(* after the entries before it, or empties the chain for a replay.           *)
ImplementsLog == Log!Spec

(* A chain is what its entries say.  The incrementally kept _state, against  *)
(* which the next signer is authorized, is what replaying the chain yields,  *)
(* also while a replay() or several queued calls are under way; every entry  *)
(* was signed in exactly this form by its declared signer, by whatever path  *)
(* it arrived; and past the checks of number and parent no entry is one the  *)
(* chain already has ("A re-ingested entry therefore can never reach this    *)
(* point with a matching hash").                                             *)
(* It includes the types.                                                    *)
ChainSound ==
  /\ ChainTypeOK
  /\ \A p \in Replicas :
       /\ entries[p] # << >> => state[p] = Log!writersAfter(entries[p])[Len(entries[p])]
       /\ \A n \in 1..Len(entries[p]) :
            /\ entries[p][n] \in signed
            /\ \A k \in 1..Len(queue[p]) :
                 queue[p][k].phase \in {"authorize", "commit"} => entries[p][n] # queue[p][k].entry

(* _runExclusive: a task that rejects does not hold up those behind it; the  *)
(* calls made at a replica all settle.                                       *)
CallsSettle == \A p \in Replicas : []<>(queue[p] = << >>)
=============================================================================
