----------------------------- MODULE SwarmNode ------------------------------
(***************************************************************************)
(* A Collabswarm node: initialize(), the registry of open documents that   *)
(* the shared protocol handlers route by, the peers, and the Redux list of *)
(* peers that follows them.                                                *)
(*                                                                         *)
(* initialize() awaits the stop of the previous Helia node, the start of   *)
(* the new one and the registration of the handlers; a call is in one of   *)
(* these awaits, and calls may overlap. A Helia node has the number of the *)
(* call that created it. The topics, listeners and validators are those    *)
(* of the pubsub service of the current Helia node (external).             *)
(***************************************************************************)
EXTENDS Integers, Sequences, Functions

CONSTANTS
  Paths,                \* document paths
  Instances,            \* instances of CollabswarmDocument, 1..n
  Peers,                \* addresses of peers
  InitializeCalls,      \* calls of initialize(), numbers; each creates at most one Helia node
  InvalidCalls,         \* the calls with a refused configuration
  none

ASSUME CallsAssumption == InitializeCalls \subseteq Nat \ {0}
ASSUME NoneAssumption == none \notin Instances /\ none \notin Paths

VARIABLES
  heliaNode,            \* _heliaNode: its number, 0 when undefined
  running,              \* Helia nodes that are started
  openStores,           \* Helia nodes whose legacy stores are open
  openedLegacyStores,   \* _openedLegacyStores: the node whose stores they are, or 0
  serving,              \* Helia nodes with the shared handlers
  registration,         \* _sharedHandlersRegistration: its Helia node, or 0
  calls,                \* the await of each initialize() call
  target,               \* the Helia node that a call stops, or whose handlers it awaits
  registry,             \* _documentRegistry
  topics, listeners, validators,
  connected,            \* peers connected to each Helia node
  peerIds,              \* _peerIds
  peers,                \* state.peers of the Redux store
  overlapped,           \* two initialize() calls have overlapped
  stopFailed            \* the stop of a Helia node has failed

nodeVars == <<heliaNode, running, openStores, openedLegacyStores, serving, registration, calls, target>>
pubsubVars == <<topics, listeners, validators>>
peerVars == <<connected, peerIds, peers>>
swarmVars == <<nodeVars, registry, pubsubVars, peerVars, overlapped, stopFailed>>

HeliaNodes == InitializeCalls
Awaits == {"stop", "create", "register"}
inFlight == {c \in InitializeCalls : calls[c] \in Awaits}

SwarmTypeOK ==
  /\ heliaNode \in HeliaNodes \cup {0}
  /\ running \subseteq HeliaNodes /\ serving \subseteq HeliaNodes /\ openStores \subseteq HeliaNodes
  /\ registration \in HeliaNodes \cup {0}
  /\ calls \in [InitializeCalls -> Awaits \cup {"new", "done", "failed"}]
  /\ registry \in [Paths -> Instances \cup {none}]
  /\ validators \in [Paths -> Instances \cup {none}]
  /\ topics \subseteq Paths /\ listeners \subseteq Instances
  /\ peerIds \in Seq(Peers) /\ peers \in SUBSET Peers

SwarmInit ==
  /\ heliaNode = 0 /\ running = {} /\ serving = {} /\ registration = 0
  /\ openStores = {} /\ openedLegacyStores = 0
  /\ calls = [c \in InitializeCalls |-> "new"] /\ target = [c \in InitializeCalls |-> 0]
  /\ registry = [p \in Paths |-> none]
  /\ topics = {} /\ listeners = {} /\ validators = [p \in Paths |-> none]
  /\ connected = [h \in HeliaNodes |-> {}] /\ peerIds = <<>> /\ peers = {}
  /\ overlapped = FALSE /\ stopFailed = FALSE

-----------------------------------------------------------------------------
(* The application calls initialize(); with documents open it throws. A      *)
(* configuration that validateLoadQuorumConfig refuses is refused after the  *)
(* previous node is gone.                                                    *)
configured(c) == IF c \in InvalidCalls THEN "failed" ELSE "create"

(* The registration of the previous node is forgotten once the configuration *)
(* has been accepted. Mutant: it is kept.                                    *)
clearedNever(await) == registration
cleared(await) == IF await = "create" THEN 0 ELSE registration

Initialize(c) ==
  /\ calls[c] = "new" /\ \A p \in Paths : registry[p] = none
  /\ calls' = [calls EXCEPT ![c] = IF heliaNode # 0 THEN "stop" ELSE configured(c)]
  /\ target' = [target EXCEPT ![c] = heliaNode]
  /\ registration' = cleared(calls'[c])
  /\ overlapped' = (overlapped \/ inFlight # {})
  /\ UNCHANGED <<heliaNode, running, openStores, openedLegacyStores, serving,
                 registry, pubsubVars, peerVars, stopFailed>>

(* stop() of the previous node settles: the peers of a node that stops are   *)
(* disconnected before. The stores close, and the fields are reset.          *)
Stopped(c, ok) ==
  /\ calls[c] = "stop" /\ (ok => connected[target[c]] = {})
  /\ running' = IF ok THEN running \ {target[c]} ELSE running
  /\ stopFailed' = (stopFailed \/ ~ok)
  /\ openStores' = openStores \ {openedLegacyStores} /\ openedLegacyStores' = 0
  /\ heliaNode' = 0 /\ peerIds' = <<>>
  /\ calls' = [calls EXCEPT ![c] = configured(c)]
  /\ registration' = cleared(calls'[c])
  /\ UNCHANGED <<serving, target, registry, pubsubVars, connected, peers, overlapped>>

(* createAndStartHeliaNode() resolves: a node with its own pubsub service.   *)
(* Peers that connected while it started are not reported. The handlers are  *)
(* registered unless a registration is already under way.                    *)
Created(c, early) ==
  /\ calls[c] = "create" /\ calls' = [calls EXCEPT ![c] = "register"]
  /\ heliaNode' = c /\ running' = running \cup {c}
  /\ openStores' = openStores \cup {c} /\ openedLegacyStores' = c
  /\ topics' = {} /\ listeners' = {} /\ validators' = [p \in Paths |-> none]
  /\ registration' = IF registration = 0 THEN c ELSE registration
  /\ target' = [target EXCEPT ![c] = registration']
  /\ connected' = [connected EXCEPT ![c] = early]
  /\ UNCHANGED <<serving, registry, peerIds, peers, overlapped, stopFailed>>

(* It rejects: what was started or opened is stopped and closed again. *)
CreateFails(c) ==
  /\ calls[c] = "create" /\ calls' = [calls EXCEPT ![c] = "failed"]
  /\ UNCHANGED <<heliaNode, running, openStores, openedLegacyStores, serving, registration, target,
                 registry, pubsubVars, peerVars, overlapped, stopFailed>>

(* A registration settles, for every call that awaits it. *)
settled(h, result) ==
  [c \in InitializeCalls |-> IF calls[c] = "register" /\ target[c] = h THEN result ELSE calls[c]]

HandlersRegistered(h) ==
  /\ settled(h, "done") # calls /\ calls' = settled(h, "done")
  /\ serving' = serving \cup {h}
  /\ UNCHANGED <<heliaNode, running, openStores, openedLegacyStores, registration, target,
                 registry, pubsubVars, peerVars, overlapped, stopFailed>>

HandlersFail(h) ==
  /\ h \notin serving
  /\ settled(h, "failed") # calls /\ calls' = settled(h, "failed")
  /\ registration' = IF registration = h THEN 0 ELSE registration
  /\ UNCHANGED <<heliaNode, running, openStores, openedLegacyStores, serving, target,
                 registry, pubsubVars, peerVars, overlapped, stopFailed>>

-----------------------------------------------------------------------------
(* A peer connects to or leaves a Helia node; the listeners of initialize()  *)
(* are on every node it created, and the handlers dispatch to the store.     *)
indexOf(seq, x) ==
  IF \A i \in DOMAIN seq : seq[i] # x THEN 0
  ELSE CHOOSE i \in DOMAIN seq : seq[i] = x /\ \A j \in 1..(i - 1) : seq[j] # x

(* The first occurrence is spliced out.                                      *)
spliced(seq, i) == IF i > 0 THEN SubSeq(seq, 1, i - 1) \o SubSeq(seq, i + 1, Len(seq)) ELSE seq

PeerConnect(h, peer) ==
  /\ h \in running /\ peer \notin connected[h]
  /\ connected' = [connected EXCEPT ![h] = @ \cup {peer}]
  /\ peerIds' = Append(peerIds, peer)
  /\ peers' = peers \cup {peer}
  /\ UNCHANGED <<nodeVars, registry, pubsubVars, overlapped, stopFailed>>

PeerDisconnect(h, peer) ==
  /\ h \in running /\ peer \in connected[h]
  /\ connected' = [connected EXCEPT ![h] = @ \ {peer}]
  /\ peerIds' = spliced(peerIds, indexOf(peerIds, peer))
  /\ peers' = peers \ {peer}
  /\ UNCHANGED <<nodeVars, registry, pubsubVars, overlapped, stopFailed>>

(* The instance that a shared protocol handler routes a request for path p   *)
(* to: none when nothing listens or no document is registered.               *)
route(p) == IF heliaNode \in serving THEN registry[p] ELSE none

SwarmNext ==
  \/ \E c \in InitializeCalls :
       \/ Initialize(c) \/ CreateFails(c)
       \/ \E early \in SUBSET Peers : Created(c, early)
       \/ HandlersRegistered(c) \/ HandlersFail(c)
       \/ \E ok \in BOOLEAN : Stopped(c, ok)
  \/ \E h \in HeliaNodes, peer \in Peers : PeerConnect(h, peer) \/ PeerDisconnect(h, peer)

-----------------------------------------------------------------------------
(* Calls of initialize() that do not overlap leak nothing: the only Helia    *)
(* node that runs, and the only one whose stores are open, is the current    *)
(* one, or the one that a call is about to stop, whatever calls failed.      *)
SerialLeaksNothing ==
  ~overlapped /\ ~stopFailed =>
    /\ running \subseteq {heliaNode} /\ openStores \subseteq {openedLegacyStores}
    /\ openedLegacyStores = heliaNode

(* After calls of initialize() that did not overlap and did not fail the     *)
(* current node answers requests: handlers that were registered for an       *)
(* earlier node are not taken for those of the new one.                      *)
SerialServes ==
  ~overlapped /\ (\E c \in InitializeCalls : calls[c] = "done")
    /\ (\A c \in InitializeCalls : calls[c] \in {"new", "done"})
  => heliaNode \in serving

(* The peers that the node and the Redux store report are the same ones,     *)
(* once each, and connected to the current node, across reinitialisations.   *)
PeersMatch ==
  ~overlapped /\ ~stopFailed =>
    /\ peers = Range(peerIds) /\ IsInjective(peerIds)
    /\ heliaNode # 0 => peers \subseteq connected[heliaNode]
    /\ heliaNode = 0 => peers = {}

(* After calls of initialize() that did not overlap the node is in order:    *)
(* nothing of an earlier one is left, it serves, and it reports its peers.   *)
(* It includes the types.                                                    *)
SerialInitialize == SwarmTypeOK /\ SerialLeaksNothing /\ SerialServes /\ PeersMatch

(* "Gets the current list of peer IDs that this collabswarm node is connected *)
(* to": every peer that is connected is in the list.                         *)
PeerIdsComplete ==
  heliaNode # 0 => connected[heliaNode] \subseteq Range(peerIds)
=============================================================================
