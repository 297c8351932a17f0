----------------------------- MODULE LoadQuorum -----------------------------
(***************************************************************************)
(* The initial load of a document: load() of collabswarm-document.ts, the  *)
(* probe round of load-quorum-orchestrator.ts and the decision functions   *)
(* of load-quorum.ts.                                                      *)
(*                                                                         *)
(* The loader asks the first k of its peers for the hash of the frontier   *)
(* they would serve, decides whether q of them agree, and then asks the    *)
(* agreeing peers one after the other for the document itself, accepting   *)
(* only a payload whose frontier has the agreed hash.  Peers keep merging  *)
(* changes meanwhile.  A peer's state is the number of the last of its     *)
(* changes, 0 for none; two peers in the same state serve the same         *)
(* frontier.  The loader may lack the keys of the oldest changes.  A       *)
(* faulty peer may vote and serve anything; how many there are is for the  *)
(* properties to say.                                                      *)
(***************************************************************************)
EXTENDS Integers, Sequences, FiniteSets

CONSTANTS
  Peers,
  Connections,      \* the sequences of peers getConnections() may yield
  Configs,          \* the configurations of the loader
  MaxState,         \* bound on the peers' states
  Default, None, Pending, NoVote, UnknownDoc, Forged

ASSUME ConfigAssumption ==
  /\ Connections \subseteq Seq(Peers)
  /\ Configs \subseteq [loadQuorumEnabled : BOOLEAN,
                        loadQuorumK : Nat \ {0},
                        loadQuorumQ : (Nat \ {0}) \cup {Default},
                        loadQuorumAllowSinglePeer : BOOLEAN,
                        compactionEnabled : BOOLEAN]
  /\ MaxState \in Nat \ {0}

(* The marks are no states, no reasons, and different from each other.      *)
ASSUME MarksAssumption ==
  /\ {None, Pending, NoVote, UnknownDoc, Forged} \cap Nat = {}
  /\ None \notin {Pending, NoVote, UnknownDoc, Forged}
  /\ Pending \notin {NoVote, UnknownDoc, Forged}
  /\ NoVote \notin {UnknownDoc, Forged} /\ UnknownDoc # Forged
  /\ None \notin {"new-document", "insufficient-responses", "no-majority",
                  "bind-check-failed-all-agreeing-peers", "agreeing-peers-unreachable"}

States == 1..MaxState
Hashes == States \cup {Forged}   \* Forged: the hash of no honest state
Votes  == Hashes \cup {UnknownDoc, NoVote}

VARIABLES
  state,         \* state[p]: what p holds of the document
  config,        \* the loader's configuration
  firstKey,      \* the first change whose key the loader's keychain has
  faulty,        \* the peers that need not follow the protocol
  pc,            \* progress of the load() call
  peers,         \* quorumPeers
  votes,         \* votes[i]: the advertisement of the i-th probed peer
  orderedPeers,  \* whom the load loop asks
  next,          \* its position in orderedPeers
  winning,       \* winningHashHex
  bindFailures,  \* keys of agreeingPeerBindFailures
  document,      \* the changes that sync() merged
  outcome        \* what load() returned or threw

vars == <<state, config, firstKey, faulty, pc, peers, votes, orderedPeers, next,
          winning, bindFailures, document, outcome>>

Failures == {"insufficient-responses", "no-majority",
             "bind-check-failed-all-agreeing-peers", "agreeing-peers-unreachable"}

TypeOK ==
  /\ state \in [Peers -> 0..MaxState]
  /\ config \in Configs
  /\ firstKey \in States
  /\ faulty \subseteq Peers
  /\ pc \in {"idle", "probing", "snapshot-load", "doc-load", "done"}
  /\ peers \in Seq(Peers)
  /\ \A i \in DOMAIN votes : votes[i] \in Votes \cup {Pending}
  /\ orderedPeers \in Seq(Peers)
  /\ next \in 1..(Len(orderedPeers) + 1)
  /\ winning \in Hashes \cup {None}
  /\ bindFailures \subseteq Peers
  /\ document \subseteq Hashes
  /\ outcome \in {None, "loaded", "new-document"} \cup Failures

Init ==
  /\ state \in [Peers -> 0..MaxState]
  /\ config \in Configs
  /\ firstKey \in States
  /\ faulty \in SUBSET Peers
  /\ pc = "idle"
  /\ peers = <<>>
  /\ votes = <<>>
  /\ orderedPeers = <<>>
  /\ next = 1
  /\ winning = None
  /\ bindFailures = {}
  /\ document = {}
  /\ outcome = None

-----------------------------------------------------------------------------
(* load-quorum.ts                                                          *)

(* Mutant: half of the peers instead of more than half.                    *)
defaultQuorumQHalf(k) == IF k <= 0 THEN 0 ELSE (k + 1) \div 2

defaultQuorumQ(k) == IF k <= 0 THEN 0 ELSE (k \div 2) + 1

(* effectiveK and effectiveQ of a validated configuration: integers >= 1.  *)
effectiveK(known) == IF config.loadQuorumK <= known THEN config.loadQuorumK ELSE known

effectiveQ(k) ==
  LET q == IF config.loadQuorumQ = Default THEN defaultQuorumQ(k) ELSE config.loadQuorumQ
  IN IF q > k THEN k ELSE q

(* Mutant: a peer votes once per connection.                               *)
peersPerConnection(conns) == conns

(* The first connection of each peer, in order.                            *)
dedupePeersByPeerId(conns) ==
  LET First(i) == \A j \in 1..(i - 1) : conns[j] # conns[i]
      firsts == {i \in DOMAIN conns : First(i)}
      Nth(n) == CHOOSE i \in firsts :
                  Cardinality({j \in firsts : j <= i}) = n
  IN [n \in 1..Cardinality(firsts) |-> conns[Nth(n)]]

Bucket(vs, hash) == {i \in DOMAIN vs : vs[i] = hash}

Responding(vs) == {i \in DOMAIN vs : vs[i] # NoVote}

(* Mutant: disclaimers compete with tip-hash votes.                        *)
EligibleAll(vs) == {vs[i] : i \in Responding(vs)}

(* unknown-doc votes count only when there is no tip-hash vote.            *)
Eligible(vs) ==
  LET cast == {vs[i] : i \in Responding(vs)}
  IN IF cast \ {UnknownDoc} # {} THEN cast \ {UnknownDoc} ELSE cast

(* The largest eligible bucket; among equal ones, the one opened first.    *)
LargestBucket(vs) ==
  CHOOSE h \in Eligible(vs) :
    \A g \in Eligible(vs) \ {h} :
      \/ Cardinality(Bucket(vs, g)) < Cardinality(Bucket(vs, h))
      \/ /\ Cardinality(Bucket(vs, g)) = Cardinality(Bucket(vs, h))
         /\ \E i \in Bucket(vs, h) : \A j \in Bucket(vs, g) : i < j

(* Of at least one advertisement and a threshold q >= 1.                   *)
decideLoadQuorum(vs, q) ==
  LET best == LargestBucket(vs)
      Failed(reason) == [kind |-> reason, hash |-> None]
  IN IF Responding(vs) = {} THEN Failed("insufficient-responses")
     ELSE IF Cardinality(Bucket(vs, best)) >= q
       THEN [kind |-> IF best = UnknownDoc THEN "new-doc" ELSE "tip-hash", hash |-> best]
     ELSE IF Cardinality(Responding(vs)) < q THEN Failed("insufficient-responses")
     ELSE Failed("no-majority")

-----------------------------------------------------------------------------
(* A holder merges another change while the load is running.               *)
Advance(p) ==
  /\ state[p] \in 1..(MaxState - 1)
  /\ state' = [state EXCEPT ![p] = @ + 1]
  /\ UNCHANGED <<config, firstKey, faulty, pc, peers, votes, orderedPeers, next,
                 winning, bindFailures, document, outcome>>

FirstAttempt == IF config.compactionEnabled THEN "snapshot-load" ELSE "doc-load"

Return(result) == pc' = "done" /\ outcome' = result

TryEach(ps) == pc' = FirstAttempt /\ orderedPeers' = ps /\ UNCHANGED outcome

(* load() without a connection: a new document.                            *)
LoadAlone ==
  /\ pc = "idle"
  /\ <<>> \in Connections
  /\ Return("new-document")
  /\ UNCHANGED <<state, config, firstKey, faulty, peers, votes, orderedPeers, next,
                 winning, bindFailures, document>>

(* load() without the gate asks every connection, duplicates included.     *)
LoadUngated(conns) ==
  /\ pc = "idle" /\ conns # <<>> /\ ~config.loadQuorumEnabled
  /\ TryEach(conns)
  /\ UNCHANGED <<state, config, firstKey, faulty, peers, votes, next, winning,
                 bindFailures, document>>

(* load() with the gate starts the probes, all at once; a lone peer is     *)
(* refused unless the configuration allows it.                             *)
LoadGated(conns) ==
  LET quorumPeers == dedupePeersByPeerId(conns)
      k == effectiveK(Len(quorumPeers))
  IN /\ pc = "idle" /\ conns # <<>> /\ config.loadQuorumEnabled
     /\ \/ /\ k = 1 /\ ~config.loadQuorumAllowSinglePeer
           /\ Return("insufficient-responses")
           /\ UNCHANGED <<peers, votes>>
        \/ /\ k > 1 \/ config.loadQuorumAllowSinglePeer
           /\ pc' = "probing"
           /\ peers' = quorumPeers
           /\ votes' = [i \in 1..k |-> Pending]
           /\ UNCHANGED outcome
     /\ UNCHANGED <<state, config, firstKey, faulty, orderedPeers, next, winning,
                    bindFailures, document>>

(* What a peer answers a tip-advertise request with.                       *)
Advertised(p) ==
  IF p \in faulty THEN Hashes \cup {UnknownDoc}
  ELSE IF state[p] = 0 THEN {UnknownDoc} ELSE {state[p]}

(* A probe settles: with the peer's answer ...                             *)
ProbeAnswered(i) ==
  /\ pc = "probing"
  /\ votes[i] = Pending
  /\ \E v \in Advertised(peers[i]) : votes' = [votes EXCEPT ![i] = v]
  /\ UNCHANGED <<state, config, firstKey, faulty, pc, peers, orderedPeers, next,
                 winning, bindFailures, document, outcome>>

(* Mutant: a probe that is not raced against a timer.                      *)
ProbeLostUntimed(i) == FALSE

(* ... or without one: the dial failed, the request was refused, or the    *)
(* timer fired first, after which a late answer is dropped.                *)
ProbeLost(i) ==
  /\ pc = "probing"
  /\ votes[i] = Pending
  /\ votes' = [votes EXCEPT ![i] = NoVote]
  /\ UNCHANGED <<state, config, firstKey, faulty, pc, peers, orderedPeers, next,
                 winning, bindFailures, document, outcome>>

(* The peers whose vote was the winning one, in probing order.             *)
narrowedPeers(hash) ==
  LET agreeing == Bucket(votes, hash)
      Nth(n) == CHOOSE i \in agreeing :
                  Cardinality({j \in agreeing : j <= i}) = n
  IN [n \in 1..Cardinality(agreeing) |-> peers[Nth(n)]]

(* Every probe has settled.                                                *)
Decide ==
  LET decision == decideLoadQuorum(votes, effectiveQ(Len(votes)))
  IN /\ pc = "probing"
     /\ Pending \notin {votes[i] : i \in DOMAIN votes}
     /\ \/ /\ decision.kind = "new-doc"
           /\ Return("new-document")
           /\ UNCHANGED <<orderedPeers, winning>>
        \/ /\ decision.kind \in Failures
           /\ Return(decision.kind)
           /\ UNCHANGED <<orderedPeers, winning>>
        \/ /\ decision.kind = "tip-hash"
           /\ winning' = decision.hash
           /\ TryEach(narrowedPeers(decision.hash))
     /\ UNCHANGED <<state, config, firstKey, faulty, peers, votes, next, bindFailures,
                    document>>

Attempting == pc \in {"snapshot-load", "doc-load"}

(* The frontier a peer serves a load request with.                         *)
Served(p) == IF p \in faulty THEN Hashes ELSE {state[p]} \ {0}

(* The changes in a payload, and those whose blocks do not decrypt.        *)
ChangesOf(h) == IF h = Forged THEN {Forged} ELSE 1..h

Undecryptable(h) == {c \in ChangesOf(h) \ {Forged} : c < firstKey}

(* A served payload is synced: its frontier is the agreed one, and every   *)
(* block could be fetched and read.  Without the gate any payload is, with *)
(* the contents it came with.                                              *)
SyncLoaded ==
  /\ Attempting
  /\ \E h \in Served(orderedPeers[next]) :
       /\ winning # None => winning = h /\ Undecryptable(h) = {}
       /\ document' = document \cup ChangesOf(h)
  /\ Return("loaded")
  /\ UNCHANGED <<state, config, firstKey, faulty, peers, votes, orderedPeers, next,
                 winning, bindFailures>>

(* Mutant: one bind failure is reported as a failure of the whole cohort.  *)
ExhaustedAnyBind(failed) ==
  IF winning = None THEN "new-document"
  ELSE IF failed # {} THEN "bind-check-failed-all-agreeing-peers"
  ELSE "agreeing-peers-unreachable"

(* The end of the loop over orderedPeers.                                  *)
Exhausted(failed) ==
  IF winning = None THEN "new-document"
  ELSE IF Cardinality(failed) = Len(orderedPeers)
    THEN "bind-check-failed-all-agreeing-peers"
  ELSE "agreeing-peers-unreachable"

NextPeer(failed) ==
  /\ next' = next + 1
  /\ bindFailures' = failed
  /\ IF next < Len(orderedPeers)
       THEN pc' = FirstAttempt /\ UNCHANGED outcome
       ELSE Return(Exhausted(failed))

(* The served frontier differs from the agreed one, or one of its blocks   *)
(* is not retrievable: the peer is recorded and given no second attempt.   *)
BindCheckFailed ==
  /\ Attempting
  /\ winning # None
  /\ Served(orderedPeers[next]) # {}
  /\ NextPeer(bindFailures \cup {orderedPeers[next]})
  /\ UNCHANGED <<state, config, firstKey, faulty, peers, votes, orderedPeers, winning,
                 document>>

(* The frontier is the agreed one and every block was fetched, but sync()  *)
(* could not read some of them: that shows only after the others have been *)
(* merged.                                                                 *)
SyncIncomplete ==
  /\ Attempting
  /\ winning \in Served(orderedPeers[next])
  /\ Undecryptable(winning) # {}
  /\ document' = document \cup (ChangesOf(winning) \ Undecryptable(winning))
  /\ NextPeer(bindFailures \cup {orderedPeers[next]})
  /\ UNCHANGED <<state, config, firstKey, faulty, peers, votes, orderedPeers, winning>>

(* No payload: an empty or undecryptable response, a failed dial, a sync   *)
(* that rejects the message.                                               *)
NotServed ==
  /\ \/ /\ pc = "snapshot-load"
        /\ pc' = "doc-load"
        /\ UNCHANGED <<next, bindFailures, outcome>>
     \/ /\ pc = "doc-load"
        /\ NextPeer(bindFailures)
  /\ UNCHANGED <<state, config, firstKey, faulty, peers, votes, orderedPeers, winning,
                 document>>

Next ==
  \/ \E p \in Peers : Advance(p)
  \/ LoadAlone
  \/ \E conns \in Connections : LoadUngated(conns) \/ LoadGated(conns)
  \/ \E i \in DOMAIN votes : ProbeAnswered(i) \/ ProbeLost(i)
  \/ Decide
  \/ SyncLoaded \/ BindCheckFailed \/ SyncIncomplete \/ NotServed

Spec == Init /\ [][Next]_vars

(* Only the timer is sure to act: a probe is raced against it, and the     *)
(* decision follows the last probe.  No fairness is assumed of a peer, or  *)
(* of the load streams, which have no timer.                               *)
FairSpec ==
  /\ Spec
  /\ WF_vars(Decide)
  /\ \A i \in 1..Cardinality(Peers) : WF_vars(i \in DOMAIN votes /\ ProbeLost(i))

-----------------------------------------------------------------------------
Probed == {peers[i] : i \in DOMAIN votes}

Q == effectiveQ(Len(votes))

(* When fewer than Q of the probed peers are faulty, whatever the loader    *)
(* merged belongs to a state that a peer which is not advertised to it:     *)
(* neither a second connection to one peer, nor a payload that differs from *)
(* the vote, nor the vote of a minority gets past dedupePeersByPeerId, the  *)
(* tally and the bind check.                                                *)
LoadedStateAttested ==
  (config.loadQuorumEnabled /\ document # {} /\ Cardinality(Probed \cap faulty) < Q) =>
    \E i \in DOMAIN votes :
      peers[i] \notin faulty /\ votes[i] \in Hashes /\ document \subseteq ChangesOf(votes[i])

(* load() tells open() to found a new document only if no probed peer       *)
(* advertised one: not when disclaimers outnumber a holder, and not when    *)
(* the agreeing peers turn out to be unreachable.  It includes the types.   *)
NewDocumentUncontested ==
  /\ TypeOK
  /\ (config.loadQuorumEnabled /\ outcome = "new-document") =>
       \A i \in DOMAIN votes : votes[i] \in {UnknownDoc, NoVote}

(* With the default threshold at most one hash can win, so the order of the *)
(* peers, which breaks ties between buckets, never picks the state.         *)
WinnerUnique ==
  (config.loadQuorumQ = Default /\ winning # None) =>
    \A h \in Hashes \ {winning} : Cardinality(Bucket(votes, h)) < Q

(* load() blames every agreeing peer exactly when every one of them failed  *)
(* the bind check; a cohort of which one was only unreachable is reported   *)
(* as unreachable, the reason callers retry on.                             *)
BlameIsExact ==
  (winning # None /\ outcome \in Failures) =>
    (outcome = "bind-check-failed-all-agreeing-peers"
       <=> \A i \in DOMAIN orderedPeers : orderedPeers[i] \in bindFailures)

(* The probe round of load() ends although no peer need ever answer.        *)
ProbeRoundEnds == pc = "probing" ~> pc # "probing"

(* "Coordinated Byzantine behaviour is the only explanation" of a load that *)
(* fails with bind-check-failed-all-agreeing-peers: some peer was faulty.   *)
BlamedPeersAreFaulty ==
  outcome = "bind-check-failed-all-agreeing-peers" => faulty # {}

(* _sendLoadRequestAndSync fetches every block before sync(), "to keep a    *)
(* failed quorum-bound load from altering local state at all".              *)
FailedLoadLeavesDocument == outcome \in Failures => document = {}
=============================================================================
