----------------------------- MODULE BloomGossip ----------------------------
(***************************************************************************)
(* BloomFilterGossip over BloomFilterCRDT: every peer publishes its filter *)
(* of indexed terms at an interval and keeps one filter per remote peer.   *)
(* The topic (external) may lose, repeat and reorder messages; a peer that *)
(* restarts forgets everything.                                            *)
(*                                                                         *)
(* A filter is the set of its bits; the positions that a term hashes to    *)
(* depend on the configured size.                                          *)
(***************************************************************************)
EXTENDS Integers, FiniteSets

CONSTANTS
  Peers,
  Terms,
  filterSizeInBits,     \* configured size of each peer
  positions,            \* positions[size][term]: bits of a term
  Owner, Listener,      \* two peers of the same size, whose exchange is fair
  MaxRestarts           \* bound on restarts

VARIABLES
  localFilter,          \* _localFilter of each peer
  peerFilters,          \* _peerFilters[p][q], {} while p knows no filter of q
  started,              \* peers whose gossip is started
  topic,                \* messages on their way
  published,            \* bits that a peer has ever published
  restarts

gossipVars == <<localFilter, peerFilters, started, topic, published, restarts>>

bitsOf(p, term) == positions[filterSizeInBits[p]][term]
has(p, filter, term) == bitsOf(p, term) \subseteq filter

(* A filter kept for a peer is of its own publications and of one's own      *)
(* size, also when its messages overtake each other, repeat, or come from    *)
(* before a restart.                                                         *)
GossipTypeOK ==
  /\ started \subseteq Peers /\ restarts \in 0..MaxRestarts
  /\ \A p \in Peers : localFilter[p] \subseteq 0..(filterSizeInBits[p] - 1)
  /\ \A p, q \in Peers :
       /\ peerFilters[p][q] \subseteq published[q]
       /\ filterSizeInBits[p] # filterSizeInBits[q] => peerFilters[p][q] = {}

GossipInit ==
  /\ localFilter = [p \in Peers |-> {}]
  /\ peerFilters = [p \in Peers |-> [q \in Peers |-> {}]]
  /\ started = {} /\ topic = {} /\ restarts = 0
  /\ published = [p \in Peers |-> {}]

StartGossip(p) ==
  /\ p \notin started
  /\ started' = started \cup {p}
  /\ UNCHANGED <<localFilter, peerFilters, topic, published, restarts>>

StopGossip(p) ==
  /\ p \in started
  /\ started' = started \ {p}
  /\ UNCHANGED <<localFilter, peerFilters, topic, published, restarts>>

AddTerm(p, term) ==
  /\ ~has(p, localFilter[p], term)
  /\ localFilter' = [localFilter EXCEPT ![p] = @ \cup bitsOf(p, term)]
  /\ UNCHANGED <<peerFilters, started, topic, published, restarts>>

(* The interval fires. *)
PublishFilterOnce(p) ==
  /\ p \in started /\ published[p] = {}
  /\ topic' = topic \cup {[from |-> p, size |-> filterSizeInBits[p], bits |-> localFilter[p]]}
  /\ published' = [published EXCEPT ![p] = @ \cup localFilter[p]]
  /\ UNCHANGED <<localFilter, peerFilters, started, restarts>>

PublishFilter(p) ==
  /\ p \in started
  /\ topic' = topic \cup {[from |-> p, size |-> filterSizeInBits[p], bits |-> localFilter[p]]}
  /\ published' = [published EXCEPT ![p] = @ \cup localFilter[p]]
  /\ UNCHANGED <<localFilter, peerFilters, started, restarts>>

(* deserialize throws on another length; a known peer's filter is merged.    *)
OnReceiveFilter(p, message) ==
  /\ p \in started /\ p # message.from
  /\ peerFilters' = IF message.size # filterSizeInBits[p] THEN peerFilters
                      ELSE [peerFilters EXCEPT ![p][message.from] = @ \cup message.bits]
  /\ UNCHANGED <<localFilter, started, topic, published, restarts>>

Lose(message) ==
  /\ topic' = topic \ {message}
  /\ UNCHANGED <<localFilter, peerFilters, started, published, restarts>>

Restart(p) ==
  /\ restarts < MaxRestarts /\ restarts' = restarts + 1
  /\ localFilter' = [localFilter EXCEPT ![p] = {}]
  /\ peerFilters' = [peerFilters EXCEPT ![p] = [q \in Peers |-> {}]]
  /\ started' = started \ {p}
  /\ UNCHANGED <<topic, published>>

GossipNext ==
  \/ \E p \in Peers :
       \/ StartGossip(p) \/ StopGossip(p) \/ PublishFilter(p) \/ Restart(p)
       \/ \E term \in Terms : AddTerm(p, term)
       \/ \E message \in topic : OnReceiveFilter(p, message)
  \/ \E message \in topic : Lose(message)

queryPeers(p, terms) ==
  {q \in Peers : peerFilters[p][q] # {} /\ \A t \in terms : has(p, peerFilters[p][q], t)}

-----------------------------------------------------------------------------
(* The owner's interval keeps firing, and of filters published again and     *)
(* again one gets through.                                                   *)
OwnerPublishes == PublishFilter(Owner)
ListenerReceives ==
  \E message \in topic :
    /\ message.from = Owner /\ message.bits = localFilter[Owner]
    /\ OnReceiveFilter(Listener, message)

(* A term reaches every peer of the same size that keeps listening, though   *)
(* messages are lost, while its owner keeps gossiping; and what is kept for  *)
(* a peer is always of that peer's publications (GossipTypeOK).              *)
TermSpreads ==
  /\ []GossipTypeOK
  /\ \A term \in Terms :
       (has(Owner, localFilter[Owner], term) /\ {Owner, Listener} \subseteq started)
         ~> (Owner \in queryPeers(Listener, {term}) \/ ~({Owner, Listener} \subseteq started))
=============================================================================
