------------------------------- MODULE Relay --------------------------------
(***************************************************************************)
(* The relay server's topics: it subscribes to the topics its peers        *)
(* subscribe to, within a policy, and leaves them when the peers have.     *)
(*                                                                         *)
(* A peer announces changes of its subscriptions in one message; the       *)
(* pubsub service (external) applies them and then calls both listeners    *)
(* with them. It drops the subscriptions of a peer that disconnects        *)
(* without calling them. A topic is system, allowed or neither by its      *)
(* prefix.                                                                 *)
(***************************************************************************)
EXTENDS Integers, FiniteSets, Sequences, SequencesExt

CONSTANTS
  RelayPeers,
  PermanentTopics,      \* the seed topics and EXTRA_TOPICS
  OpenTopics,           \* other topics that pass the allowlist
  RefusedTopics,        \* system topics and topics outside the allowlist
  MaxAutoTopics         \* MAX_AUTO_TOPICS

VARIABLES
  wants,                \* the topics of each peer, as the pubsub service has them
  trackedTopics, autoTopics,
  forwarding,           \* topics the relay is subscribed to
  capped,               \* a topic has been skipped with CapReached
  silent                \* a peer with subscriptions has disconnected

relayVars == <<wants, trackedTopics, autoTopics, forwarding, capped, silent>>

Topics == PermanentTopics \cup OpenTopics \cup RefusedTopics
getSubscribers(t) == {p \in RelayPeers : t \in wants'[p]}

RelayTypeOK ==
  /\ wants \in [RelayPeers -> SUBSET Topics]
  /\ trackedTopics \subseteq Topics /\ autoTopics \subseteq OpenTopics /\ forwarding \subseteq Topics

(* The listeners are added and the permanent topics subscribed in one step. *)
RelayInit ==
  /\ wants = [p \in RelayPeers |-> {}]
  /\ trackedTopics = PermanentTopics /\ forwarding = PermanentTopics /\ autoTopics = {}
  /\ capped = FALSE /\ silent = FALSE

-----------------------------------------------------------------------------
(* The relay's fields, as the record that the listeners fold over. *)
relay == [tracked |-> trackedTopics, auto |-> autoTopics, forwarding |-> forwarding, capped |-> capped]

(* The policy; the reasons of a refusal by prefix are one here.              *)
shouldAutoSubscribe(topic, r) ==
  CASE topic \in r.tracked -> "AlreadyTracked"
    [] topic \in RefusedTopics -> "SystemTopic or NotInAllowlist"
    [] Cardinality(r.auto) >= MaxAutoTopics -> "CapReached"
    [] OTHER -> "subscribe"

(* The first listener, for one entry of the message.                         *)
autoSubscribe(r, sub) ==
  IF ~sub.subscribe THEN r
  ELSE LET decision == shouldAutoSubscribe(sub.topic, r)
       IN IF decision # "subscribe" THEN [r EXCEPT !.capped = @ \/ decision = "CapReached"]
          ELSE [r EXCEPT !.tracked = @ \cup {sub.topic}, !.auto = @ \cup {sub.topic},
                         !.forwarding = @ \cup {sub.topic}]

(* Mutant of the second listener: a topic that is left stays tracked.        *)
autoUnsubscribeKeepsTracked(r, sub) ==
  IF sub.subscribe \/ sub.topic \notin r.auto \/ getSubscribers(sub.topic) # {} THEN r
  ELSE [r EXCEPT !.auto = @ \ {sub.topic}, !.forwarding = @ \ {sub.topic}]

(* The second listener, for one entry: the last peer has left the topic.     *)
autoUnsubscribe(r, sub) ==
  IF sub.subscribe \/ sub.topic \notin r.auto \/ getSubscribers(sub.topic) # {} THEN r
  ELSE [r EXCEPT !.tracked = @ \ {sub.topic}, !.auto = @ \ {sub.topic},
                 !.forwarding = @ \ {sub.topic}]

applied(topics, sub) == IF sub.subscribe THEN topics \cup {sub.topic} ELSE topics \ {sub.topic}

SubscriptionChange(p, subs) ==
  /\ wants' = [wants EXCEPT ![p] = FoldLeft(applied, @, subs)]
  /\ \E r \in {FoldLeft(autoUnsubscribe, FoldLeft(autoSubscribe, relay, subs), subs)} :
       /\ trackedTopics' = r.tracked /\ autoTopics' = r.auto
       /\ forwarding' = r.forwarding /\ capped' = r.capped
  /\ UNCHANGED silent

(* A peer disconnects. *)
PeerGone(p) ==
  /\ wants[p] # {} /\ wants' = [wants EXCEPT ![p] = {}]
  /\ silent' = TRUE
  /\ UNCHANGED <<trackedTopics, autoTopics, forwarding, capped>>

(* Messages of one entry, and of two about topics that the relay may join.   *)
Entries(S) == [topic : S, subscribe : BOOLEAN]
Messages == {<<a>> : a \in Entries(Topics)} \cup {<<a, b>> : a, b \in Entries(OpenTopics)}

RelayNext ==
  \E p \in RelayPeers : PeerGone(p) \/ \E subs \in Messages : SubscriptionChange(p, subs)

-----------------------------------------------------------------------------
(* The relay is subscribed to every topic that it tracks and to no other:    *)
(* its permanent topics and at most MAX_AUTO_TOPICS more, never one that the *)
(* policy refuses. Until the cap has been reached it forwards every topic    *)
(* that passes the policy and that some peer is subscribed to, whichever     *)
(* peers left the topic and came back, in whatever messages.                 *)
RelayForwards ==
  /\ forwarding = trackedTopics
  /\ trackedTopics = PermanentTopics \cup autoTopics /\ autoTopics \cap PermanentTopics = {}
  /\ Cardinality(autoTopics) <= MaxAutoTopics
  /\ ~capped => \A p \in RelayPeers : wants[p] \ RefusedTopics \subseteq forwarding

(* "Clean up auto-subscribed topics when all peers leave them": an auto      *)
(* topic has a subscriber, unless a peer left by disconnecting.              *)
RelayCleansUp ==
  ~silent => \A t \in autoTopics : \E p \in RelayPeers : t \in wants[p]

(* The relay follows its peers' subscriptions, both ways.                    *)
(* It includes the types.                                                    *)
RelayFollowsPeers == RelayTypeOK /\ RelayForwards /\ RelayCleansUp

(* The cap bounds the topics of the moment: when there is room, the relay    *)
(* forwards the topics its peers are subscribed to. It does not: a topic     *)
(* that was skipped is not looked at again when another one is left.         *)
RelayUsesRoom ==
  Cardinality(autoTopics) < MaxAutoTopics =>
    \A p \in RelayPeers : wants[p] \ RefusedTopics \subseteq forwarding
=============================================================================
