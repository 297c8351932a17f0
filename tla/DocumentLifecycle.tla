------------------------- MODULE DocumentLifecycle --------------------------
(***************************************************************************)
(* open() and close() of the instances of CollabswarmDocument of one node, *)
(* their change handlers, and the notifications of those handlers.         *)
(*                                                                         *)
(* A document's content is its version, the number of changes applied to   *)
(* it; the document is an immutable value, as Automerge's is. A            *)
(* notification reads the document, awaits the readers and the writers and *)
(* then calls one handler; those awaits end in the order in which the      *)
(* cryptography behind them does, which is any order (external).           *)
(***************************************************************************)
EXTENDS SwarmNode

CONSTANTS
  Validates,            \* validateDocumentPath is configured
  MaxVersion            \* bound on the changes of an instance

ASSUME VersionAssumption == MaxVersion \in Nat

VARIABLES
  pathOf,               \* documentPath of each instance, none before it is created
  step,                 \* where open() of each instance is
  existing,             \* isExisting of open()
  pubsubHandler,        \* instances with a _pubsubHandler
  subscribed,           \* instances with _subscribed
  closed,               \* instances whose close() has finished
  version,
  local,                \* where a change() of each instance is
  handlers,             \* the handlers of each instance, in order of insertion
  fires,                \* notifications under way
  unnotified,           \* a change() has failed to publish: its handlers were not called
  raced,                \* an instance registered while initialize() was under way
  closedEarly           \* close() was called before open() had returned

docVars == <<pathOf, step, existing, pubsubHandler, subscribed, closed>>
contentVars == <<version, local, handlers, fires, unnotified>>
lifecycleVars == <<docVars, contentVars, raced, closedEarly>>

opened(d) == step[d] = "open" /\ d \notin closed

LifecycleTypeOK ==
  /\ pathOf \in [Instances -> Paths \cup {none}]
  /\ step \in [Instances -> {"new", "load", "validate", "found", "open", "failed"}]
  /\ existing \subseteq Instances /\ pubsubHandler \subseteq Instances
  /\ subscribed \subseteq pubsubHandler /\ closed \subseteq Instances
  /\ version \in [Instances -> 0..MaxVersion]
  /\ local \in [Instances -> {"idle", "check", "publish"}]
  /\ \A f \in fires : f.seen \in 0..version[f.doc] /\ f.left # <<>>

LifecycleInit ==
  /\ pathOf = [d \in Instances |-> none] /\ step = [d \in Instances |-> "new"]
  /\ existing = {} /\ pubsubHandler = {} /\ subscribed = {} /\ closed = {}
  /\ version = [d \in Instances |-> 0] /\ local = [d \in Instances |-> "idle"]
  /\ handlers = [d \in Instances |-> <<>>] /\ fires = {}
  /\ unnotified = FALSE /\ raced = FALSE /\ closedEarly = FALSE

-----------------------------------------------------------------------------
(* doc() and open() up to the await of load(), with the handlers that are    *)
(* subscribed in between.                                                    *)
fresh(d) == pathOf[d] = none /\ \A e \in Instances : e < d => pathOf[e] # none

Open(d, p, subscribers) ==
  /\ fresh(d)
  /\ pathOf' = [pathOf EXCEPT ![d] = p] /\ step' = [step EXCEPT ![d] = "load"]
  /\ handlers' = [handlers EXCEPT ![d] = subscribers]
  /\ UNCHANGED <<existing, pubsubHandler, subscribed, closed, version, local, fires,
                 unnotified, raced, closedEarly>>

(* registerDocument() refuses a path that is registered; unregisterDocument()  *)
(* removes the entry of this instance only. Mutant: it removes any.          *)
duplicate(p) == registry[p] # none

unregisteredAny(p, d) == [registry EXCEPT ![p] = none]
unregistered(p, d) == IF registry[p] = d THEN [registry EXCEPT ![p] = none] ELSE registry

(* removeEventListener() of close().                                         *)
unlistened(d) == listeners \ {d}

(* close(): what it does to the instance, the registry and the pubsub        *)
(* service. The accessor of the Helia node throws while there is none.       *)
CloseDocument(d) ==
  LET p == pathOf[d]
      attached == d \in pubsubHandler'
  IN IF attached /\ heliaNode = 0
     THEN UNCHANGED <<topics, listeners, validators, subscribed, registry, closed>>
     ELSE /\ topics' = IF attached /\ d \in subscribed THEN topics \ {p} ELSE topics
          /\ subscribed' = subscribed \ {d}
          /\ listeners' = IF attached THEN unlistened(d) ELSE listeners
          /\ validators' = IF attached THEN [validators EXCEPT ![p] = none] ELSE validators
          /\ registry' = unregistered(p, d)
          /\ closed' = closed \cup {d}

(* open() from the assignment of the handler to the next await: register,    *)
(* subscribe, set the topic's validator. A duplicate path closes and throws; *)
(* the accessor of the Helia node throws before the try block.               *)
Register(d) ==
  LET p == pathOf[d] IN
  /\ pubsubHandler' = pubsubHandler \cup {d}
  /\ \/ /\ heliaNode = 0 /\ step' = [step EXCEPT ![d] = "failed"]
        /\ UNCHANGED <<topics, listeners, validators, subscribed, registry, closed, raced>>
     \/ /\ heliaNode # 0 /\ duplicate(p)
        /\ step' = [step EXCEPT ![d] = "failed"] /\ CloseDocument(d)
        /\ UNCHANGED raced
     \/ /\ heliaNode # 0 /\ ~duplicate(p)
        /\ registry' = [registry EXCEPT ![p] = d]
        /\ listeners' = listeners \cup {d} /\ topics' = topics \cup {p}
        /\ subscribed' = subscribed \cup {d}
        /\ validators' = [validators EXCEPT ![p] = d]
        /\ step' = [step EXCEPT ![d] = IF d \in existing' THEN "open" ELSE "found"]
        /\ raced' = (raced \/ inFlight # {})
        /\ UNCHANGED closed

unmoved == <<nodeVars, peerVars, overlapped, stopFailed, closedEarly, contentVars, pathOf>>

(* load() settles: with the document of a peer, without one, or throwing. *)
Loaded(d, fromPeer) ==
  /\ step[d] = "load"
  /\ existing' = IF fromPeer THEN existing \cup {d} ELSE existing
  /\ IF Validates /\ ~fromPeer
     THEN /\ step' = [step EXCEPT ![d] = "validate"]
          /\ UNCHANGED <<pubsubHandler, subscribed, closed, raced, pubsubVars, registry>>
     ELSE Register(d)
  /\ UNCHANGED unmoved

LoadFails(d) ==
  /\ step[d] = "load" /\ step' = [step EXCEPT ![d] = "failed"]
  /\ UNCHANGED <<unmoved, existing, pubsubHandler, subscribed, closed, raced, pubsubVars, registry>>

(* validateDocumentPath() settles. *)
Validated(d, allowed) ==
  /\ step[d] = "validate" /\ UNCHANGED existing
  /\ IF allowed THEN Register(d)
     ELSE /\ step' = [step EXCEPT ![d] = "failed"]
          /\ UNCHANGED <<pubsubHandler, subscribed, closed, raced, pubsubVars, registry>>
  /\ UNCHANGED unmoved

(* The founder's writer entry, the first key and their change are made, or   *)
(* one of them fails and open() closes again.                                *)
Founded(d, ok) ==
  /\ step[d] = "found" /\ step' = [step EXCEPT ![d] = IF ok THEN "open" ELSE "failed"]
  /\ UNCHANGED pubsubHandler
  /\ IF ok THEN UNCHANGED <<pubsubVars, registry, subscribed, closed>> ELSE CloseDocument(d)
  /\ UNCHANGED <<unmoved, existing, raced>>

(* The application calls close(). *)
Close(d) ==
  /\ pathOf[d] # none /\ d \notin closed
  /\ UNCHANGED pubsubHandler /\ CloseDocument(d)
  /\ closedEarly' = (closedEarly \/ step[d] \in {"load", "validate", "found"})
  /\ UNCHANGED <<nodeVars, peerVars, overlapped, stopFailed, contentVars, pathOf, step, existing, raced>>

-----------------------------------------------------------------------------
(* A change notifies the handlers with a fitting origin one by one; each one *)
(* is passed the document as it is when its turn comes.                      *)
startFire(d, origin) ==
  LET left == SelectSeq(handlers[d], LAMBDA s : s.filter \in {"all", origin})
  IN IF left = <<>> THEN fires
     ELSE fires \cup {[doc |-> d, change |-> version'[d], left |-> left, seen |-> version'[d]]}

afterHandler(f) ==
  IF Tail(f.left) = <<>> THEN fires \ {f}
  ELSE (fires \ {f}) \cup {[f EXCEPT !.left = Tail(@), !.seen = version[f.doc]]}

(* A handler is removed for both origins. *)
unsubscribe(d, id) == [handlers EXCEPT ![d] = SelectSeq(@, LAMBDA s : s.id # id)]

(* A change of another peer arrives on the topic and is applied. *)
RemoteChange(d) ==
  /\ d \in listeners /\ pathOf[d] \in topics /\ version[d] < MaxVersion
  /\ version' = [version EXCEPT ![d] = @ + 1]
  /\ fires' = startFire(d, "remote")
  /\ UNCHANGED <<swarmVars, docVars, local, handlers, unnotified, raced, closedEarly>>

(* change(): the await of the check, the change, the awaits of its           *)
(* publication, and the notification. A failed publication notifies nobody.  *)
startChange(d) == local[d] = "idle" /\ local' = [local EXCEPT ![d] = "check"]

Checked(d, allowed) ==
  /\ local[d] = "check" /\ (allowed => version[d] < MaxVersion)
  /\ local' = [local EXCEPT ![d] = IF allowed THEN "publish" ELSE "idle"]
  /\ version' = IF allowed THEN [version EXCEPT ![d] = @ + 1] ELSE version
  /\ UNCHANGED <<swarmVars, docVars, handlers, fires, unnotified, raced, closedEarly>>

Published(d, ok) ==
  /\ local[d] = "publish" /\ local' = [local EXCEPT ![d] = "idle"]
  /\ UNCHANGED version
  /\ fires' = IF ok THEN startFire(d, "local") ELSE fires
  /\ unnotified' = (unnotified \/ ~ok)
  /\ UNCHANGED <<swarmVars, docVars, handlers, raced, closedEarly>>

DocumentStep ==
  \E d \in Instances :
    \/ LoadFails(d) \/ RemoteChange(d)
    \/ \E ok \in BOOLEAN :
         Loaded(d, ok) \/ Validated(d, ok) \/ Founded(d, ok) \/ Checked(d, ok) \/ Published(d, ok)

-----------------------------------------------------------------------------
(* A document that open() returned and nobody closed is registered for       *)
(* requests, subscribed and listening, whatever other instances of its path  *)
(* tried, failed and closed meanwhile.                                       *)
OpenIsLive ==
  ~raced => \A d \in Instances :
    opened(d) => registry[pathOf[d]] = d /\ pathOf[d] \in topics /\ d \in listeners

(* "Cannot reinitialize while documents are open": the same, with calls of   *)
(* initialize() under way.                                                   *)
OpenSurvivesInitialize ==
  ~closedEarly /\ ~overlapped => \A d \in Instances :
    opened(d) => registry[pathOf[d]] = d /\ pathOf[d] \in topics /\ d \in listeners

(* Two instances of one path never both apply the messages of their topic.   *)
OneListener == \A d, e \in listeners : pathOf[d] = pathOf[e] => d = e

(* An open() that failed and a close() leave nothing behind: no listener, no *)
(* registration that requests would be routed to.                            *)
NothingLeaked ==
  ~closedEarly /\ ~raced =>
    \A d \in Instances :
      step[d] = "failed" \/ d \in closed =>
        d \notin listeners /\ d \notin subscribed /\ \A p \in Paths : route(p) # d

(* However instances of a path are opened and closed, those that are open,   *)
(* and no others, take part in the swarm.                                    *)
(* It includes the types.                                                    *)
OnlyOpenIsLive == LifecycleTypeOK /\ OpenIsLive /\ OneListener /\ NothingLeaked

(* "doing this first avoids subscribing to a topic that would then be        *)
(* unsubscribed by close() on failure, which could disrupt an already-open   *)
(* instance for the same path": the validator of an open document stays.     *)
ValidatorStays == ~raced => \A d \in Instances : opened(d) => validators[pathOf[d]] = d
=============================================================================
