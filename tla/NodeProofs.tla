----------------------------- MODULE NodeProofs -----------------------------
(***************************************************************************)
(* Proofs about a Collabswarm node and its documents: however calls of     *)
(* initialize(), open(), close() and change() interleave, fail and         *)
(* overlap, a node that was not initialized twice at once stays in order   *)
(* (the inductive invariant SwarmInv, which gives SerialInitialize), and   *)
(* the open documents, and no others, take part in the swarm               *)
(* (OnlyOpenIsLive).                                                       *)
(***************************************************************************)
EXTENDS DocumentLifecycle, WellFoundedInduction, TLAPS

SwarmTypes ==
  /\ SwarmTypeOK
  /\ target \in [InitializeCalls -> HeliaNodes \cup {0}]
  /\ openedLegacyStores \in HeliaNodes \cup {0}
  /\ connected \in [HeliaNodes -> SUBSET Peers]
  /\ overlapped \in BOOLEAN /\ stopFailed \in BOOLEAN

(* Calls that did not overlap: there is one at a time, and the fields are   *)
(* those that it has left behind at its last await.                         *)
CallsInv ==
  ~overlapped =>
    /\ \A c, d \in inFlight : c = d
    /\ \A c \in InitializeCalls :
         /\ calls[c] = "stop" => heliaNode # 0 /\ target[c] = heliaNode
         /\ calls[c] = "create" => heliaNode = 0 /\ registration = 0
         /\ calls[c] = "register" => heliaNode = c /\ target[c] = c

(* The inductive invariant of the node.                                     *)
SwarmInv == SwarmTypes /\ CallsInv /\ SerialLeaksNothing /\ SerialServes /\ PeersMatch

(* A node before its first initialize().                                    *)
LEMMA SwarmInvInit == SwarmInit => SwarmInv
<1> SUFFICES ASSUME SwarmInit PROVE SwarmInv
  OBVIOUS
<1>1. SwarmTypes
  <2>1. /\ heliaNode \in HeliaNodes \cup {0} /\ registration \in HeliaNodes \cup {0}
        /\ running \subseteq HeliaNodes /\ serving \subseteq HeliaNodes
        /\ openStores \subseteq HeliaNodes /\ openedLegacyStores \in HeliaNodes \cup {0}
        /\ topics \subseteq Paths /\ listeners \subseteq Instances
        /\ peerIds \in Seq(Peers) /\ peers \in SUBSET Peers
    BY DEF SwarmInit
  <2>4. overlapped \in BOOLEAN /\ stopFailed \in BOOLEAN
    BY Zenon DEF SwarmInit
  <2>2. /\ calls \in [InitializeCalls -> Awaits \cup {"new", "done", "failed"}]
        /\ target \in [InitializeCalls -> HeliaNodes \cup {0}]
        /\ connected \in [HeliaNodes -> SUBSET Peers]
    BY DEF SwarmInit
  <2>3. /\ registry \in [Paths -> Instances \cup {none}]
        /\ validators \in [Paths -> Instances \cup {none}]
    BY DEF SwarmInit
  <2> QED
    BY <2>1, <2>2, <2>3, <2>4 DEF SwarmTypes, SwarmTypeOK
<1>2. CallsInv
  BY DEF SwarmInit, CallsInv, inFlight, Awaits
<1>3. SerialLeaksNothing /\ SerialServes
  BY DEF SwarmInit, SerialLeaksNothing, SerialServes
<1>4. PeersMatch
  BY DEF SwarmInit, PeersMatch, Range, IsInjective
<1> QED
  BY <1>1, <1>2, <1>3, <1>4 DEF SwarmInv

(* A step of one call of initialize() that is at no other await than "new": *)
(* it alone is in flight, before and after.                                 *)
LEMMA OneInFlight ==
  ASSUME SwarmInv, NEW c \in InitializeCalls, calls[c] \in Awaits, NEW a,
         calls' = [calls EXCEPT ![c] = a], overlapped' = overlapped
  PROVE  ~overlapped =>
           /\ \A d, e \in inFlight' : d = e
           /\ \A d \in InitializeCalls : d # c => calls'[d] = calls[d] /\ calls[d] \notin Awaits
<1>1. calls \in [InitializeCalls -> Awaits \cup {"new", "done", "failed"}]
  BY DEF SwarmInv, SwarmTypes, SwarmTypeOK
<1> SUFFICES ASSUME ~overlapped
             PROVE  /\ \A d, e \in inFlight' : d = e
                    /\ \A d \in InitializeCalls : d # c => calls'[d] = calls[d] /\ calls[d] \notin Awaits
  OBVIOUS
<1>2. \A d \in InitializeCalls : d # c => calls'[d] = calls[d]
  BY <1>1
<1>3. \A d, e \in inFlight : d = e
  BY DEF SwarmInv, CallsInv
<1>4. \A d \in InitializeCalls : d # c => calls[d] \notin Awaits
  BY <1>3 DEF inFlight
<1>5. \A d \in inFlight' : d = c
  BY <1>2, <1>4 DEF inFlight
<1> QED
  BY <1>2, <1>4, <1>5

(* initialize() up to its first await.                                      *)
LEMMA SwarmInitialize ==
  ASSUME SwarmInv, NEW c \in InitializeCalls, Initialize(c)
  PROVE  SwarmInv'
<1> DEFINE a == IF heliaNode # 0 THEN "stop" ELSE configured(c)
<1>1. /\ calls[c] = "new" /\ calls' = [calls EXCEPT ![c] = a]
      /\ target' = [target EXCEPT ![c] = heliaNode] /\ registration' = cleared(calls'[c])
      /\ overlapped' = (overlapped \/ inFlight # {})
      /\ UNCHANGED <<heliaNode, running, openStores, openedLegacyStores, serving,
                     registry, pubsubVars, peerVars, stopFailed>>
  BY DEF Initialize
<1>2. a \in {"stop", "create", "failed"} /\ (a = "stop" <=> heliaNode # 0)
  BY DEF configured
<1>3. /\ calls \in [InitializeCalls -> Awaits \cup {"new", "done", "failed"}]
      /\ target \in [InitializeCalls -> HeliaNodes \cup {0}]
      /\ heliaNode \in HeliaNodes \cup {0} /\ registration \in HeliaNodes \cup {0}
      /\ overlapped \in BOOLEAN
  BY DEF SwarmInv, SwarmTypes, SwarmTypeOK
<1> HIDE DEF a
<1>4. /\ calls'[c] = a /\ target'[c] = heliaNode
      /\ \A d \in InitializeCalls \ {c} : calls'[d] = calls[d] /\ target'[d] = target[d]
  BY <1>1, <1>3
<1>5. SwarmTypes'
  <2>1. calls' \in [InitializeCalls -> Awaits \cup {"new", "done", "failed"}]
    BY <1>1, <1>2, <1>3 DEF Awaits
  <2>2. target' \in [InitializeCalls -> HeliaNodes \cup {0}]
    BY <1>1, <1>3
  <2>3. registration' \in HeliaNodes \cup {0} /\ overlapped' \in BOOLEAN
    BY <1>1, <1>3 DEF cleared
  <2> QED
    BY <1>1, <2>1, <2>2, <2>3 DEF SwarmInv, SwarmTypes, SwarmTypeOK, pubsubVars, peerVars
<1>6. CallsInv'
  <2> SUFFICES ASSUME ~overlapped'
               PROVE  /\ \A d, e \in inFlight' : d = e
                      /\ \A d \in InitializeCalls :
                           /\ calls'[d] = "stop" => heliaNode' # 0 /\ target'[d] = heliaNode'
                           /\ calls'[d] = "create" => heliaNode' = 0 /\ registration' = 0
                           /\ calls'[d] = "register" => heliaNode' = d /\ target'[d] = d
    BY DEF CallsInv
  <2>1. ~overlapped /\ inFlight = {}
    BY <1>1, <1>3, Zenon
  <2>2. \A d \in InitializeCalls \ {c} : calls'[d] \notin Awaits
    BY <1>4, <2>1 DEF inFlight
  <2>3. \A d \in inFlight' : d = c
    BY <2>2 DEF inFlight
  <2>4. a = "create" => registration' = 0 /\ heliaNode = 0
    BY <1>1, <1>2, <1>4 DEF cleared
  <2>5. ASSUME NEW d \in InitializeCalls
        PROVE  /\ calls'[d] = "stop" => heliaNode' # 0 /\ target'[d] = heliaNode'
               /\ calls'[d] = "create" => heliaNode' = 0 /\ registration' = 0
               /\ calls'[d] = "register" => heliaNode' = d /\ target'[d] = d
    <3>1. CASE d = c
      BY <1>1, <1>2, <1>4, <2>4, <3>1
    <3>2. CASE d # c
      BY <2>2, <3>2 DEF Awaits
    <3> QED
      BY <3>1, <3>2
  <2> QED
    BY <2>3, <2>5
<1>7. SerialLeaksNothing'
  BY <1>1, <1>3 DEF SwarmInv, SerialLeaksNothing
<1>8. SerialServes'
  BY <1>2, <1>4 DEF SerialServes
<1>9. PeersMatch'
  BY <1>1, <1>3 DEF SwarmInv, PeersMatch, peerVars
<1> QED
  BY <1>5, <1>6, <1>7, <1>8, <1>9 DEF SwarmInv

(* The previous node has stopped, or its stop has failed: the fields are    *)
(* reset.                                                                   *)
LEMMA SwarmStopped ==
  ASSUME SwarmInv, NEW c \in InitializeCalls, NEW ok \in BOOLEAN, Stopped(c, ok)
  PROVE  SwarmInv'
<1> DEFINE a == configured(c)
<1>1. /\ calls[c] = "stop" /\ (ok => connected[target[c]] = {})
      /\ running' = IF ok THEN running \ {target[c]} ELSE running
      /\ stopFailed' = (stopFailed \/ ~ok)
      /\ openStores' = openStores \ {openedLegacyStores} /\ openedLegacyStores' = 0
      /\ heliaNode' = 0 /\ peerIds' = << >> /\ calls' = [calls EXCEPT ![c] = a]
      /\ registration' = cleared(calls'[c])
      /\ UNCHANGED <<serving, target, registry, pubsubVars, connected, peers, overlapped>>
  BY DEF Stopped
<1>2. a \in {"create", "failed"}
  BY DEF configured
<1>3. /\ calls \in [InitializeCalls -> Awaits \cup {"new", "done", "failed"}]
      /\ running \subseteq HeliaNodes /\ openStores \subseteq HeliaNodes
      /\ registration \in HeliaNodes \cup {0} /\ stopFailed \in BOOLEAN
  BY DEF SwarmInv, SwarmTypes, SwarmTypeOK
<1> HIDE DEF a
<1>4. calls'[c] = a
  BY <1>1, <1>3
<1>5. SwarmTypes'
  <2>1. calls' \in [InitializeCalls -> Awaits \cup {"new", "done", "failed"}]
    BY <1>1, <1>2, <1>3 DEF Awaits
  <2>2. registration' \in HeliaNodes \cup {0} /\ stopFailed' \in BOOLEAN
    BY <1>1, <1>3 DEF cleared
  <2>3. running' \subseteq HeliaNodes /\ openStores' \subseteq HeliaNodes /\ peerIds' \in Seq(Peers)
    BY <1>1, <1>3
  <2> QED
    BY <1>1, <2>1, <2>2, <2>3 DEF SwarmInv, SwarmTypes, SwarmTypeOK, pubsubVars
<1>6. ~overlapped => /\ \A d, e \in inFlight' : d = e
                     /\ \A d \in InitializeCalls :
                          d # c => calls'[d] = calls[d] /\ calls[d] \notin Awaits
  BY <1>1, OneInFlight, Zenon DEF Awaits
<1>7. CallsInv'
  <2>1. a = "create" => registration' = 0
    BY <1>1, <1>4 DEF cleared
  <2>2. ASSUME ~overlapped, NEW d \in InitializeCalls
        PROVE  /\ calls'[d] = "stop" => heliaNode' # 0 /\ target'[d] = heliaNode'
               /\ calls'[d] = "create" => heliaNode' = 0 /\ registration' = 0
               /\ calls'[d] = "register" => heliaNode' = d /\ target'[d] = d
    <3>1. CASE d = c
      BY <1>1, <1>2, <1>4, <2>1, <3>1
    <3>2. CASE d # c
      BY <1>6, <2>2, <3>2 DEF Awaits
    <3> QED
      BY <3>1, <3>2
  <2> QED
    BY <1>1, <1>6, <2>2 DEF CallsInv
<1>8. ~overlapped => target[c] = heliaNode /\ heliaNode # 0
  BY <1>1 DEF SwarmInv, CallsInv
<1>9. SerialLeaksNothing'
  <2> SUFFICES ASSUME ~overlapped', ~stopFailed'
               PROVE  running' \subseteq {0} /\ openStores' \subseteq {0}
    BY <1>1 DEF SerialLeaksNothing
  <2>1. ~overlapped /\ ~stopFailed /\ ok
    BY <1>1, <1>3, Zenon
  <2>2. running \subseteq {heliaNode} /\ openStores \subseteq {openedLegacyStores}
    BY <2>1 DEF SwarmInv, SerialLeaksNothing
  <2> QED
    BY <1>1, <1>8, <2>1, <2>2
<1>10. SerialServes'
  BY <1>2, <1>4 DEF SerialServes
<1>11. PeersMatch'
  <2> SUFFICES ASSUME ~overlapped', ~stopFailed' PROVE peers' = {}
    BY <1>1 DEF PeersMatch, Range, IsInjective
  <2>1. ~overlapped /\ ~stopFailed /\ ok
    BY <1>1, <1>3, Zenon
  <2>2. peers \subseteq connected[heliaNode]
    BY <1>8, <2>1 DEF SwarmInv, PeersMatch
  <2> QED
    BY <1>1, <1>8, <2>1, <2>2
<1> QED
  BY <1>5, <1>7, <1>9, <1>10, <1>11 DEF SwarmInv

(* The new node has been created: it is the only one that runs, and its     *)
(* registration is its own.                                                 *)
LEMMA SwarmCreated ==
  ASSUME SwarmInv, NEW c \in InitializeCalls, NEW early \in SUBSET Peers, Created(c, early)
  PROVE  SwarmInv'
<1>1. /\ calls[c] = "create" /\ calls' = [calls EXCEPT ![c] = "register"]
      /\ heliaNode' = c /\ running' = running \cup {c}
      /\ openStores' = openStores \cup {c} /\ openedLegacyStores' = c
      /\ topics' = {} /\ listeners' = {} /\ validators' = [p \in Paths |-> none]
      /\ registration' = IF registration = 0 THEN c ELSE registration
      /\ target' = [target EXCEPT ![c] = registration']
      /\ connected' = [connected EXCEPT ![c] = early]
      /\ UNCHANGED <<serving, registry, peerIds, peers, overlapped, stopFailed>>
  BY DEF Created
<1>2. /\ calls \in [InitializeCalls -> Awaits \cup {"new", "done", "failed"}]
      /\ target \in [InitializeCalls -> HeliaNodes \cup {0}]
      /\ connected \in [HeliaNodes -> SUBSET Peers]
      /\ running \subseteq HeliaNodes /\ openStores \subseteq HeliaNodes
      /\ registration \in HeliaNodes \cup {0} /\ c \in HeliaNodes
  BY DEF SwarmInv, SwarmTypes, SwarmTypeOK, HeliaNodes
<1>3. calls'[c] = "register" /\ target'[c] = registration' /\ connected'[c] = early /\ c # 0
  BY <1>1, <1>2, CallsAssumption
<1>4. SwarmTypes'
  <2>1. calls' \in [InitializeCalls -> Awaits \cup {"new", "done", "failed"}]
    BY <1>1, <1>2 DEF Awaits
  <2>2. registration' \in HeliaNodes \cup {0}
    BY <1>1, <1>2
  <2>3. target' \in [InitializeCalls -> HeliaNodes \cup {0}]
    BY <1>1, <1>2, <2>2
  <2>4. connected' \in [HeliaNodes -> SUBSET Peers]
    BY <1>1, <1>2
  <2>5. validators' \in [Paths -> Instances \cup {none}] /\ topics' \subseteq Paths
        /\ listeners' \subseteq Instances
    BY <1>1
  <2>6. running' \subseteq HeliaNodes /\ openStores' \subseteq HeliaNodes
        /\ heliaNode' \in HeliaNodes \cup {0} /\ openedLegacyStores' \in HeliaNodes \cup {0}
    BY <1>1, <1>2
  <2> QED
    BY <1>1, <2>1, <2>2, <2>3, <2>4, <2>5, <2>6 DEF SwarmInv, SwarmTypes, SwarmTypeOK
<1>5. ~overlapped => /\ \A d, e \in inFlight' : d = e
                     /\ \A d \in InitializeCalls :
                          d # c => calls'[d] = calls[d] /\ calls[d] \notin Awaits
  BY <1>1, OneInFlight, Zenon DEF Awaits
<1>6. ~overlapped => heliaNode = 0 /\ registration = 0
  BY <1>1 DEF SwarmInv, CallsInv
<1>7. CallsInv'
  <2>1. ASSUME ~overlapped, NEW d \in InitializeCalls
        PROVE  /\ calls'[d] = "stop" => heliaNode' # 0 /\ target'[d] = heliaNode'
               /\ calls'[d] = "create" => heliaNode' = 0 /\ registration' = 0
               /\ calls'[d] = "register" => heliaNode' = d /\ target'[d] = d
    <3>1. CASE d = c
      BY <1>1, <1>3, <1>6, <2>1, <3>1
    <3>2. CASE d # c
      BY <1>5, <2>1, <3>2 DEF Awaits
    <3> QED
      BY <3>1, <3>2
  <2> QED
    BY <1>1, <1>5, <2>1 DEF CallsInv
<1>8. SerialLeaksNothing'
  <2> SUFFICES ASSUME ~overlapped', ~stopFailed'
               PROVE  running \subseteq {c} /\ openStores \subseteq {c}
    BY <1>1 DEF SerialLeaksNothing
  <2>1. running \subseteq {0} /\ openStores \subseteq {0}
    BY <1>1, <1>6 DEF SwarmInv, SerialLeaksNothing
  <2>2. 0 \notin HeliaNodes
    BY CallsAssumption DEF HeliaNodes
  <2> QED
    BY <1>2, <2>1, <2>2
<1>9. SerialServes'
  BY <1>3 DEF SerialServes
<1>10. PeersMatch'
  BY <1>1, <1>3, <1>6 DEF SwarmInv, PeersMatch
<1> QED
  BY <1>4, <1>7, <1>8, <1>9, <1>10 DEF SwarmInv

(* The creation rejects.                                                    *)
LEMMA SwarmCreateFails ==
  ASSUME SwarmInv, NEW c \in InitializeCalls, CreateFails(c)
  PROVE  SwarmInv'
<1>1. /\ calls[c] = "create" /\ calls' = [calls EXCEPT ![c] = "failed"]
      /\ UNCHANGED <<heliaNode, running, openStores, openedLegacyStores, serving, registration,
                     target, registry, pubsubVars, peerVars, overlapped, stopFailed>>
  BY DEF CreateFails
<1>2. calls \in [InitializeCalls -> Awaits \cup {"new", "done", "failed"}]
  BY DEF SwarmInv, SwarmTypes, SwarmTypeOK
<1>3. calls'[c] = "failed"
  BY <1>1, <1>2
<1>4. calls' \in [InitializeCalls -> Awaits \cup {"new", "done", "failed"}]
  BY <1>1, <1>2
<1>5. SwarmTypes'
  BY <1>1, <1>4 DEF SwarmInv, SwarmTypes, SwarmTypeOK, pubsubVars, peerVars
<1>6. ~overlapped => /\ \A d, e \in inFlight' : d = e
                     /\ \A d \in InitializeCalls :
                          d # c => calls'[d] = calls[d] /\ calls[d] \notin Awaits
  BY <1>1, OneInFlight, Zenon DEF Awaits
<1>7. ~overlapped => \A d \in InitializeCalls : calls'[d] \notin Awaits
  BY <1>3, <1>6 DEF Awaits
<1>8. CallsInv'
  BY <1>1, <1>6, <1>7 DEF CallsInv, Awaits
<1>9. SerialLeaksNothing' /\ PeersMatch'
  BY <1>1 DEF SwarmInv, SerialLeaksNothing, PeersMatch, peerVars
<1>10. SerialServes'
  BY <1>3 DEF SerialServes
<1> QED
  BY <1>5, <1>8, <1>9, <1>10 DEF SwarmInv

(* A registration settles: which calls it settles, and that without an      *)
(* overlap it is the current node's.                                        *)
LEMMA Settles ==
  ASSUME SwarmInv, NEW h \in InitializeCalls, NEW r \in {"done", "failed"},
         settled(h, r) # calls, calls' = settled(h, r)
  PROVE  /\ calls' \in [InitializeCalls -> Awaits \cup {"new", "done", "failed"}]
         /\ \A d \in InitializeCalls : calls'[d] \in Awaits => calls'[d] = calls[d]
         /\ \E c \in InitializeCalls : calls'[c] = r
         /\ ~overlapped => h = heliaNode
<1>1. /\ calls \in [InitializeCalls -> Awaits \cup {"new", "done", "failed"}]
  BY DEF SwarmInv, SwarmTypes, SwarmTypeOK
<1>2. calls' = [c \in InitializeCalls |->
                  IF calls[c] = "register" /\ target[c] = h THEN r ELSE calls[c]]
  BY DEF settled
<1>3. r \in Awaits \cup {"new", "done", "failed"} /\ r \notin Awaits
  BY DEF Awaits
<1>4. calls' \in [InitializeCalls -> Awaits \cup {"new", "done", "failed"}]
  BY <1>1, <1>2, <1>3
<1>5. \A d \in InitializeCalls : calls'[d] \in Awaits => calls'[d] = calls[d]
  BY <1>2, <1>3
<1>6. \E c \in InitializeCalls : calls[c] = "register" /\ target[c] = h
  <2> SUFFICES ASSUME \A c \in InitializeCalls : ~(calls[c] = "register" /\ target[c] = h)
               PROVE  calls' = calls
    OBVIOUS
  <2>1. \A c \in InitializeCalls : calls'[c] = calls[c]
    BY <1>2
  <2> QED
    BY <1>1, <1>4, <2>1
<1>7. PICK c \in InitializeCalls : calls[c] = "register" /\ target[c] = h
  BY <1>6
<1>8. calls'[c] = r
  BY <1>2, <1>7
<1>9. ~overlapped => h = heliaNode
  BY <1>7 DEF SwarmInv, CallsInv
<1> QED
  BY <1>4, <1>5, <1>8, <1>9

(* No call begins an await: what CallsInv says stays.                       *)
LEMMA CallsStay ==
  ASSUME SwarmInv, \A d \in InitializeCalls : calls'[d] \in Awaits => calls'[d] = calls[d],
         registration = 0 => registration' = 0,
         UNCHANGED <<heliaNode, target, overlapped>>
  PROVE  CallsInv'
<1> SUFFICES ASSUME ~overlapped PROVE CallsInv'
  BY DEF CallsInv
<1>1. inFlight' \subseteq inFlight
  BY DEF inFlight
<1>2. \A c, d \in inFlight' : c = d
  BY <1>1 DEF SwarmInv, CallsInv
<1>3. ASSUME NEW c \in InitializeCalls
      PROVE  /\ calls'[c] = "stop" => heliaNode' # 0 /\ target'[c] = heliaNode'
             /\ calls'[c] = "create" => heliaNode' = 0 /\ registration' = 0
             /\ calls'[c] = "register" => heliaNode' = c /\ target'[c] = c
  BY DEF SwarmInv, CallsInv, Awaits
<1> QED
  BY <1>2, <1>3 DEF CallsInv

(* The handlers have been registered.                                       *)
LEMMA SwarmRegistered ==
  ASSUME SwarmInv, NEW h \in InitializeCalls, HandlersRegistered(h)
  PROVE  SwarmInv'
<1>1. /\ settled(h, "done") # calls /\ calls' = settled(h, "done")
      /\ serving' = serving \cup {h}
      /\ UNCHANGED <<heliaNode, running, openStores, openedLegacyStores, registration, target,
                     registry, pubsubVars, peerVars, overlapped, stopFailed>>
  BY DEF HandlersRegistered
<1>2. /\ calls' \in [InitializeCalls -> Awaits \cup {"new", "done", "failed"}]
      /\ \A d \in InitializeCalls : calls'[d] \in Awaits => calls'[d] = calls[d]
      /\ ~overlapped => h = heliaNode
  BY <1>1, Settles, "done" \in {"done", "failed"}
<1>3. SwarmTypes'
  <2>1. serving' \subseteq HeliaNodes
    BY <1>1 DEF SwarmInv, SwarmTypes, SwarmTypeOK, HeliaNodes
  <2> QED
    BY <1>1, <1>2, <2>1 DEF SwarmInv, SwarmTypes, SwarmTypeOK, pubsubVars, peerVars
<1>4. CallsInv'
  BY <1>1, <1>2, CallsStay
<1>5. SerialLeaksNothing' /\ PeersMatch'
  BY <1>1 DEF SwarmInv, SerialLeaksNothing, PeersMatch, peerVars
<1>6. SerialServes'
  BY <1>1, <1>2 DEF SerialServes
<1> QED
  BY <1>3, <1>4, <1>5, <1>6 DEF SwarmInv

(* Their registration has failed.                                           *)
LEMMA SwarmHandlersFail ==
  ASSUME SwarmInv, NEW h \in InitializeCalls, HandlersFail(h)
  PROVE  SwarmInv'
<1>1. /\ settled(h, "failed") # calls /\ calls' = settled(h, "failed")
      /\ registration' = IF registration = h THEN 0 ELSE registration
      /\ UNCHANGED <<heliaNode, running, openStores, openedLegacyStores, serving, target,
                     registry, pubsubVars, peerVars, overlapped, stopFailed>>
  BY DEF HandlersFail
<1>2. /\ calls' \in [InitializeCalls -> Awaits \cup {"new", "done", "failed"}]
      /\ \A d \in InitializeCalls : calls'[d] \in Awaits => calls'[d] = calls[d]
      /\ \E c \in InitializeCalls : calls'[c] = "failed"
  BY <1>1, Settles, "failed" \in {"done", "failed"}
<1>3. SwarmTypes'
  <2>1. registration' \in HeliaNodes \cup {0}
    BY <1>1 DEF SwarmInv, SwarmTypes, SwarmTypeOK
  <2> QED
    BY <1>1, <1>2, <2>1 DEF SwarmInv, SwarmTypes, SwarmTypeOK, pubsubVars, peerVars
<1>4. CallsInv'
  <2>1. registration = 0 => registration' = 0
    BY <1>1
  <2> QED
    BY <1>1, <1>2, <2>1, CallsStay
<1>5. SerialLeaksNothing' /\ PeersMatch'
  BY <1>1 DEF SwarmInv, SerialLeaksNothing, PeersMatch, peerVars
<1>6. SerialServes'
  BY <1>2 DEF SerialServes
<1> QED
  BY <1>3, <1>4, <1>5, <1>6 DEF SwarmInv

(* A step that leaves the node alone, and its peers.                        *)
LEMMA NodeKept ==
  ASSUME SwarmInv, UNCHANGED <<nodeVars, overlapped, stopFailed>>
  PROVE  CallsInv' /\ SerialLeaksNothing' /\ SerialServes'
<1>1. CallsInv'
  BY CallsStay DEF nodeVars
<1>2. SerialLeaksNothing' /\ SerialServes'
  BY DEF SwarmInv, SerialLeaksNothing, SerialServes, nodeVars
<1> QED
  BY <1>1, <1>2

(* A step of the documents: what it does to the registry and the pubsub     *)
(* service keeps their types.                                               *)
LEMMA SwarmKept ==
  ASSUME SwarmInv, UNCHANGED <<nodeVars, peerVars, overlapped, stopFailed>>,
         registry' \in [Paths -> Instances \cup {none}],
         validators' \in [Paths -> Instances \cup {none}],
         topics' \subseteq Paths, listeners' \subseteq Instances
  PROVE  SwarmInv'
<1>1. SwarmTypes'
  BY DEF SwarmInv, SwarmTypes, SwarmTypeOK, nodeVars, peerVars
<1>2. PeersMatch'
  BY DEF SwarmInv, PeersMatch, nodeVars, peerVars
<1> QED
  BY <1>1, <1>2, NodeKept DEF SwarmInv

-----------------------------------------------------------------------------
(* A peer connects to a node.                                               *)
LEMMA SwarmPeerConnects ==
  ASSUME SwarmInv, NEW h \in HeliaNodes, NEW peer \in Peers, PeerConnect(h, peer)
  PROVE  SwarmInv'
<1>1. /\ h \in running /\ peer \notin connected[h]
      /\ connected' = [connected EXCEPT ![h] = @ \cup {peer}]
      /\ peerIds' = Append(peerIds, peer) /\ peers' = peers \cup {peer}
      /\ UNCHANGED <<nodeVars, registry, pubsubVars, overlapped, stopFailed>>
  BY DEF PeerConnect
<1>2. /\ connected \in [HeliaNodes -> SUBSET Peers] /\ peerIds \in Seq(Peers)
      /\ peers \in SUBSET Peers
  BY DEF SwarmInv, SwarmTypes, SwarmTypeOK
<1>3. SwarmTypes'
  <2>1. connected' \in [HeliaNodes -> SUBSET Peers]
    BY <1>1, <1>2
  <2>2. peerIds' \in Seq(Peers) /\ peers' \in SUBSET Peers
    BY <1>1, <1>2
  <2> QED
    BY <1>1, <2>1, <2>2 DEF SwarmInv, SwarmTypes, SwarmTypeOK, nodeVars, pubsubVars
<1>4. PeersMatch'
  <2> SUFFICES ASSUME ~overlapped, ~stopFailed
               PROVE  /\ peers' = Range(peerIds') /\ IsInjective(peerIds')
                      /\ heliaNode # 0 /\ peers' \subseteq connected'[heliaNode]
    BY <1>1 DEF PeersMatch, nodeVars
  <2>1. h = heliaNode /\ heliaNode # 0
    BY <1>1, CallsAssumption DEF SwarmInv, SerialLeaksNothing, HeliaNodes
  <2>2. /\ peers = Range(peerIds) /\ IsInjective(peerIds)
        /\ peers \subseteq connected[heliaNode]
    BY <2>1 DEF SwarmInv, PeersMatch
  <2>3. connected'[h] = connected[h] \cup {peer}
    BY <1>1, <1>2
  <2>5. /\ DOMAIN peerIds' = DOMAIN peerIds \cup {Len(peerIds) + 1}
        /\ peerIds'[Len(peerIds) + 1] = peer /\ \A i \in DOMAIN peerIds : peerIds'[i] = peerIds[i]
    BY <1>1, <1>2
  <2>6. peer \notin Range(peerIds)
    BY <1>1, <2>1, <2>2
  <2>7. Range(peerIds') = Range(peerIds) \cup {peer}
    BY <2>5 DEF Range
  <2>8. IsInjective(peerIds')
    BY <2>2, <2>5, <2>6 DEF IsInjective, Range
  <2> QED
    BY <1>1, <2>1, <2>2, <2>3, <2>7, <2>8
<1> QED
  BY <1>1, <1>3, <1>4, NodeKept DEF SwarmInv

(* An element of a list has a first occurrence in it.                       *)
LEMMA FirstOccurrence ==
  ASSUME NEW D, NEW s \in Seq(D), NEW x, \E i \in DOMAIN s : s[i] = x
  PROVE  \E i \in DOMAIN s : s[i] = x /\ \A j \in 1..(i - 1) : s[j] # x
<1> DEFINE R == OpToRel(<, Nat)
           T == {i \in DOMAIN s : s[i] = x}
<1>1. IsWellFoundedOn(R, Nat)
  BY NatLessThanWellFounded, Zenon
<1>2. \A i, j \in Nat : i < j => <<i, j>> \in R
  BY DEF OpToRel
<1>3. T \subseteq Nat /\ T # {}
  OBVIOUS
<1> HIDE DEF R
<1>4. PICK m \in T : \A j \in T : <<j, m>> \notin R
  <2> HIDE DEF T
  <2> QED
    BY <1>1, <1>3, WFMin, Zenon
<1>5. ASSUME NEW j \in 1..(m - 1) PROVE s[j] # x
  <2>1. j \in DOMAIN s /\ j \in Nat /\ m \in Nat /\ j < m
    OBVIOUS
  <2> QED
    BY <1>2, <1>4, <2>1, ZenonT(30)
<1> QED
  BY <1>4, <1>5

(* Two lists, joined.                                                       *)
LEMMA JoinedLists ==
  ASSUME NEW D, NEW s \in Seq(D), NEW t \in Seq(D)
  PROVE  /\ s \o t \in Seq(D) /\ Len(s \o t) = Len(s) + Len(t)
         /\ \A i \in 1..(Len(s) + Len(t)) :
              (s \o t)[i] = IF i <= Len(s) THEN s[i] ELSE t[i - Len(s)]
OBVIOUS

(* What follows an element of a list.                                       *)
LEMMA RestOfList ==
  ASSUME NEW D, NEW s \in Seq(D), NEW k \in 1..Len(s)
  PROVE  LET t == SubSeq(s, k + 1, Len(s))
         IN  /\ t \in Seq(D) /\ Len(t) = Len(s) - k
             /\ \A i \in 1..(Len(s) - k) : t[i] = s[k + i]
<1> DEFINE t == SubSeq(s, k + 1, Len(s))
<1>1. Len(s) \in Nat /\ k \in Int
  OBVIOUS
<1>2. t \in Seq(D) /\ Len(t) = Len(s) - k
  BY <1>1
<1>3. ASSUME NEW i \in 1..(Len(s) - k) PROVE t[i] = s[k + i]
  <2>1. t[i] = s[(k + 1) + i - 1] /\ (k + 1) + i - 1 = k + i
    BY <1>1
  <2> QED
    BY <2>1
<1> QED
  BY <1>2, <1>3

(* The list of peers without one of them.                                   *)
LEMMA PeerSpliced ==
  ASSUME NEW s \in Seq(Peers), NEW x
  PROVE  LET r == spliced(s, indexOf(s, x))
         IN  /\ r \in Seq(Peers)
             /\ IsInjective(s) => IsInjective(r) /\ Range(r) = Range(s) \ {x}
<1> DEFINE k == indexOf(s, x)
           r == spliced(s, k)
<1>1. CASE \A i \in DOMAIN s : s[i] # x
  <2>1. k = 0
    BY <1>1 DEF indexOf
  <2>2. r = s
    BY <2>1 DEF spliced
  <2> QED
    BY <1>1, <2>2 DEF Range
<1>2. CASE ~\A i \in DOMAIN s : s[i] # x
  <2>0. DOMAIN s = 1..Len(s) /\ Len(s) \in Nat
    OBVIOUS
  <2>1. \E i \in DOMAIN s : s[i] = x /\ \A j \in 1..(i - 1) : s[j] # x
    BY <1>2, FirstOccurrence, ZenonT(30)
  <2>2. k = CHOOSE i \in DOMAIN s : s[i] = x /\ \A j \in 1..(i - 1) : s[j] # x
    BY <1>2 DEF indexOf
  <2>3. k \in DOMAIN s /\ s[k] = x
    BY <2>1, <2>2
  <2> HIDE DEF k
  <2>4. k > 0 /\ k \in 1..Len(s)
    BY <2>0, <2>3
  <2>5. r = SubSeq(s, 1, k - 1) \o SubSeq(s, k + 1, Len(s))
    BY <2>4, Zenon DEF spliced
  <2> DEFINE u == SubSeq(s, 1, k - 1)
             v == SubSeq(s, k + 1, Len(s))
  <2>11. u \in Seq(Peers) /\ Len(u) = k - 1 /\ \A i \in 1..(k - 1) : u[i] = s[i]
    BY <2>0, <2>4
  <2>12. v \in Seq(Peers) /\ Len(v) = Len(s) - k /\ \A i \in 1..(Len(s) - k) : v[i] = s[k + i]
    BY <2>4, RestOfList, Zenon
  <2>14. r = u \o v
    BY <2>5
  <2> HIDE DEF r, u, v
  <2>6. /\ u \in Seq(Peers) /\ Len(u) = k - 1 /\ \A i \in 1..(k - 1) : u[i] = s[i]
        /\ v \in Seq(Peers) /\ Len(v) = Len(s) - k /\ \A i \in 1..(Len(s) - k) : v[i] = s[k + i]
    BY <2>11, <2>12, Zenon
  <2>15. /\ r \in Seq(Peers) /\ Len(r) = Len(u) + Len(v)
         /\ \A i \in 1..(Len(u) + Len(v)) : r[i] = IF i <= Len(u) THEN u[i] ELSE v[i - Len(u)]
    BY <2>6, <2>14, JoinedLists, Zenon
  <2>7. /\ r \in Seq(Peers) /\ Len(r) = Len(s) - 1
        /\ \A i \in 1..(Len(s) - 1) : r[i] = IF i <= Len(u) THEN u[i] ELSE v[i - Len(u)]
    BY <2>0, <2>4, <2>6, <2>15
  <2>8. DOMAIN r = 1..(Len(s) - 1)
    BY <2>7
  <2>10. \A i \in DOMAIN r : r[i] = IF i < k THEN s[i] ELSE s[i + 1]
    <3> SUFFICES ASSUME NEW i \in 1..(Len(s) - 1)
                 PROVE  r[i] = IF i < k THEN s[i] ELSE s[i + 1]
      BY <2>8
    <3>1. CASE i < k
      BY <2>0, <2>4, <2>6, <2>7, <3>1
    <3>2. CASE ~(i < k)
      <4>1. i - Len(u) \in 1..(Len(s) - k) /\ ~(i <= Len(u)) /\ k + (i - Len(u)) = i + 1
        BY <2>0, <2>4, <2>6, <3>2
      <4> QED
        BY <2>6, <2>7, <3>2, <4>1, ZenonT(30)
    <3> QED
      BY <3>1, <3>2
  <2>9. ASSUME IsInjective(s) PROVE IsInjective(r) /\ Range(r) = Range(s) \ {x}
    <3> DEFINE at(i) == IF i < k THEN i ELSE i + 1
    <3>1. \A i \in DOMAIN r : at(i) \in DOMAIN s /\ at(i) # k /\ r[i] = s[at(i)]
      BY <2>0, <2>4, <2>8, <2>10
    <3>2. \A i, j \in DOMAIN r : at(i) = at(j) => i = j
      BY <2>0, <2>4, <2>8
    <3>3. \A i \in DOMAIN s : i # k => \E j \in DOMAIN r : at(j) = i
      <4> SUFFICES ASSUME NEW i \in DOMAIN s, i # k PROVE \E j \in DOMAIN r : at(j) = i
        OBVIOUS
      <4>1. CASE i < k
        BY <2>0, <2>4, <2>8, <4>1
      <4>2. CASE ~(i < k)
        <5>1. i - 1 \in DOMAIN r /\ at(i - 1) = i
          BY <2>0, <2>4, <2>8, <4>2
        <5> QED
          BY <5>1
      <4> QED
        BY <4>1, <4>2
    <3> HIDE DEF at
    <3>4. IsInjective(r)
      BY <2>9, <3>1, <3>2 DEF IsInjective
    <3>5. \A i \in DOMAIN s : s[i] = x => i = k
      BY <2>3, <2>9 DEF IsInjective
    <3>6. Range(r) \subseteq Range(s) \ {x}
      BY <3>1, <3>5 DEF Range
    <3>7. Range(s) \ {x} \subseteq Range(r)
      BY <2>3, <3>1, <3>3 DEF Range
    <3> QED
      BY <3>4, <3>6, <3>7
  <2> QED
    BY <2>7, <2>9 DEF r, k
<1> QED
  BY <1>1, <1>2

(* A peer leaves a node; one that connected while the node started is in    *)
(* neither list.                                                            *)
LEMMA SwarmPeerLeaves ==
  ASSUME SwarmInv, NEW h \in HeliaNodes, NEW peer \in Peers, PeerDisconnect(h, peer)
  PROVE  SwarmInv'
<1>1. /\ h \in running
      /\ connected' = [connected EXCEPT ![h] = @ \ {peer}]
      /\ peerIds' = spliced(peerIds, indexOf(peerIds, peer)) /\ peers' = peers \ {peer}
      /\ UNCHANGED <<nodeVars, registry, pubsubVars, overlapped, stopFailed>>
  BY DEF PeerDisconnect
<1>2. /\ connected \in [HeliaNodes -> SUBSET Peers] /\ peerIds \in Seq(Peers)
      /\ peers \in SUBSET Peers
  BY DEF SwarmInv, SwarmTypes, SwarmTypeOK
<1>0. /\ peerIds' \in Seq(Peers)
      /\ IsInjective(peerIds) =>
           IsInjective(peerIds') /\ Range(peerIds') = Range(peerIds) \ {peer}
  BY <1>1, <1>2, PeerSpliced
<1>3. SwarmTypes'
  <2>1. connected' \in [HeliaNodes -> SUBSET Peers]
    BY <1>1, <1>2
  <2>2. peers' \in SUBSET Peers
    BY <1>1, <1>2
  <2> QED
    BY <1>0, <1>1, <2>1, <2>2 DEF SwarmInv, SwarmTypes, SwarmTypeOK, nodeVars, pubsubVars
<1>4. PeersMatch'
  <2> SUFFICES ASSUME ~overlapped, ~stopFailed
               PROVE  /\ peers' = Range(peerIds') /\ IsInjective(peerIds')
                      /\ heliaNode # 0 /\ peers' \subseteq connected'[heliaNode]
    BY <1>1 DEF PeersMatch, nodeVars
  <2>1. h = heliaNode /\ heliaNode # 0
    BY <1>1, CallsAssumption DEF SwarmInv, SerialLeaksNothing, HeliaNodes
  <2>2. /\ peers = Range(peerIds) /\ IsInjective(peerIds)
        /\ peers \subseteq connected[heliaNode]
    BY <2>1 DEF SwarmInv, PeersMatch
  <2>3. connected'[h] = connected[h] \ {peer}
    BY <1>1, <1>2
  <2> QED
    BY <1>0, <1>1, <2>1, <2>2, <2>3
<1> QED
  BY <1>1, <1>3, <1>4, NodeKept DEF SwarmInv

(* Every step of the node.                                                  *)
LEMMA SwarmSteps ==
  ASSUME SwarmInv, SwarmNext
  PROVE  SwarmInv'
<1>1. CASE \E c \in InitializeCalls :
             \/ Initialize(c) \/ CreateFails(c)
             \/ \E early \in SUBSET Peers : Created(c, early)
             \/ HandlersRegistered(c) \/ HandlersFail(c)
             \/ \E ok \in BOOLEAN : Stopped(c, ok)
  BY <1>1, SwarmInitialize, SwarmCreateFails, SwarmCreated, SwarmRegistered,
     SwarmHandlersFail, SwarmStopped
<1>2. CASE \E h \in HeliaNodes, peer \in Peers : PeerConnect(h, peer) \/ PeerDisconnect(h, peer)
  BY <1>2, SwarmPeerConnects, SwarmPeerLeaves
<1> QED
  BY <1>1, <1>2 DEF SwarmNext

(* The inductive invariant gives what initialize() promises.                *)
LEMMA SwarmInvGives == SwarmInv => SerialInitialize
<1> SUFFICES ASSUME SwarmInv PROVE SerialInitialize
  OBVIOUS
<1>1. SwarmTypeOK /\ SerialLeaksNothing /\ SerialServes
  BY DEF SwarmInv, SwarmTypes
<1>2. PeersMatch
  BY DEF SwarmInv
<1> QED
  BY <1>1, <1>2 DEF SerialInitialize

-----------------------------------------------------------------------------

(* open() and close() of the application, and of the Redux store and the    *)
(* React hook, which call them with handlers that come and go in any way    *)
(* and may close a document again.                                          *)
OpenCall(d, p) ==
  /\ fresh(d)
  /\ pathOf' = [pathOf EXCEPT ![d] = p] /\ step' = [step EXCEPT ![d] = "load"]
  /\ UNCHANGED <<swarmVars, existing, pubsubHandler, subscribed, closed, version, local, fires,
                 raced, closedEarly>>

CloseCall(d) ==
  /\ pathOf[d] # none
  /\ UNCHANGED pubsubHandler /\ CloseDocument(d)
  /\ closedEarly' = (closedEarly \/ step[d] \in {"load", "validate", "found"})
  /\ UNCHANGED <<nodeVars, peerVars, overlapped, stopFailed, version, local, fires, pathOf, step,
                 existing, raced>>

(* change() is called, a handler returns, or neither, and handlers are      *)
(* subscribed and unsubscribed.                                             *)
ApplicationStep ==
  /\ \/ \E d \in Instances : startChange(d) /\ UNCHANGED fires
     \/ \E f \in fires : fires' = afterHandler(f) /\ UNCHANGED local
     \/ UNCHANGED <<local, fires>>
  /\ UNCHANGED <<swarmVars, docVars, version, raced, closedEarly>>

(* A node and its documents, with whatever uses them.                       *)
NodeNext ==
  \/ SwarmNext /\ UNCHANGED lifecycleVars
  \/ \E d \in Instances, p \in Paths : OpenCall(d, p)
  \/ \E d \in Instances : CloseCall(d)
  \/ DocumentStep
  \/ ApplicationStep

NodeSpec ==
  SwarmInit /\ LifecycleInit /\ [][NodeNext]_<<swarmVars, lifecycleVars>>

-----------------------------------------------------------------------------
DocTypes ==
  /\ LifecycleTypeOK /\ raced \in BOOLEAN /\ closedEarly \in BOOLEAN
  /\ \A f \in fires :
       /\ f.doc \in Instances
       /\ f = [doc |-> f.doc, change |-> f.change, left |-> f.left, seen |-> f.seen]

(* An instance has its path from open() on.                                 *)
PathInv == \A d \in Instances : pathOf[d] = none <=> step[d] = "new"

(* What listens or is subscribed has a handler and owns its path.           *)
OwnInv ==
  \A d \in listeners \cup subscribed :
    d \in pubsubHandler /\ pathOf[d] \in Paths /\ registry[pathOf[d]] = d

(* The registry has an instance under its own path, and not before open()   *)
(* has registered it.                                                       *)
RegistryInv ==
  \A p \in Paths :
    registry[p] # none =>
      pathOf[registry[p]] = p /\ step[registry[p]] \in {"found", "open", "failed"}

(* close() after open() only.                                               *)
ClosedInv == ~closedEarly => \A d \in closed : step[d] \in {"open", "failed"}

(* "Cannot reinitialize while documents are open".                          *)
IdleInv ==
  ~raced /\ (inFlight # {} \/ heliaNode = 0) => \A p \in Paths : registry[p] = none

(* A document that is registered and not closed takes part in the swarm.    *)
LiveInv ==
  ~raced => \A d \in Instances :
    step[d] \in {"found", "open"} /\ d \notin closed => d \in listeners /\ pathOf[d] \in topics

(* One that failed or was closed does not.                                  *)
GoneInv ==
  ~closedEarly /\ ~raced =>
    \A d \in Instances :
      step[d] = "failed" \/ d \in closed =>
        d \notin listeners /\ d \notin subscribed /\ \A p \in Paths : registry[p] # d

(* The inductive invariant of the documents, beside their types.            *)
PlacesInv ==
  PathInv /\ OwnInv /\ RegistryInv /\ ClosedInv /\ IdleInv /\ LiveInv /\ GoneInv

(* Before the first open().                                                 *)
LEMMA DocInit ==
  SwarmInit /\ LifecycleInit => DocTypes /\ PlacesInv
<1> SUFFICES ASSUME SwarmInit, LifecycleInit PROVE DocTypes /\ PlacesInv
  OBVIOUS
<1>1. DocTypes
  <2>1. raced \in BOOLEAN /\ closedEarly \in BOOLEAN
    BY Zenon DEF LifecycleInit
  <2>2. pathOf \in [Instances -> Paths \cup {none}]
    BY DEF LifecycleInit
  <2>3. step \in [Instances -> {"new", "load", "validate", "found", "open", "failed"}]
    BY DEF LifecycleInit
  <2>4. version \in [Instances -> 0..MaxVersion]
    BY VersionAssumption DEF LifecycleInit
  <2>5. local \in [Instances -> {"idle", "check", "publish"}]
    BY DEF LifecycleInit
  <2>6. existing = {} /\ pubsubHandler = {} /\ subscribed = {} /\ closed = {} /\ fires = {}
    BY DEF LifecycleInit
  <2> QED
    BY <2>1, <2>2, <2>3, <2>4, <2>5, <2>6 DEF DocTypes, LifecycleTypeOK
<1>2. /\ \A d \in Instances : pathOf[d] = none /\ step[d] = "new"
      /\ \A p \in Paths : registry[p] = none
      /\ listeners = {} /\ subscribed = {} /\ closed = {}
  BY DEF SwarmInit, LifecycleInit
<1>3. PlacesInv
  BY <1>2 DEF PlacesInv, PathInv, OwnInv, RegistryInv, ClosedInv, IdleInv, LiveInv, GoneInv
<1> QED
  BY <1>1, <1>3

(* open() of an instance, up to the await of load().                        *)
LEMMA PlacesOpen ==
  ASSUME SwarmInv, DocTypes, PlacesInv, NEW d \in Instances, NEW p \in Paths, OpenCall(d, p)
  PROVE  PlacesInv'
<1>1. /\ pathOf[d] = none /\ pathOf' = [pathOf EXCEPT ![d] = p] /\ step' = [step EXCEPT ![d] = "load"]
      /\ UNCHANGED <<swarmVars, pubsubHandler, subscribed, closed, raced, closedEarly>>
  BY DEF OpenCall, fresh
<1>2. /\ pathOf \in [Instances -> Paths \cup {none}]
      /\ step \in [Instances -> {"new", "load", "validate", "found", "open", "failed"}]
      /\ subscribed \subseteq Instances /\ closed \subseteq Instances
  BY DEF DocTypes, LifecycleTypeOK
<1>3. /\ UNCHANGED <<heliaNode, calls, registry, topics, listeners>>
      /\ listeners \subseteq Instances /\ registry \in [Paths -> Instances \cup {none}]
  BY <1>1 DEF swarmVars, nodeVars, pubsubVars, SwarmInv, SwarmTypes, SwarmTypeOK
<1>4. /\ pathOf'[d] = p /\ step'[d] = "load" /\ step[d] = "new" /\ p # none
      /\ \A e \in Instances : e # d => pathOf'[e] = pathOf[e] /\ step'[e] = step[e]
  BY <1>1, <1>2, NoneAssumption DEF PlacesInv, PathInv
<1>5. PathInv'
  BY <1>4 DEF PlacesInv, PathInv
<1>6. d \notin listeners /\ d \notin subscribed
  BY <1>1, NoneAssumption DEF PlacesInv, OwnInv
<1>7. OwnInv'
  BY <1>1, <1>2, <1>3, <1>4, <1>6 DEF PlacesInv, OwnInv
<1>8. \A q \in Paths : registry[q] # d
  BY <1>1, <1>4, NoneAssumption DEF PlacesInv, RegistryInv
<1>9. RegistryInv'
  BY <1>3, <1>4, <1>8 DEF PlacesInv, RegistryInv
<1>10. ClosedInv'
  BY <1>1, <1>2, <1>4 DEF PlacesInv, ClosedInv
<1>11. IdleInv'
  BY <1>1, <1>3 DEF PlacesInv, IdleInv, inFlight
<1>12. LiveInv' /\ GoneInv'
  BY <1>1, <1>3, <1>4, <1>10, <1>6, <1>8 DEF PlacesInv, LiveInv, GoneInv
<1> QED
  BY <1>5, <1>7, <1>9, <1>10, <1>11, <1>12 DEF PlacesInv

(* open() goes on, or fails, without a change of the registry or the pubsub *)
(* service.                                                                 *)
LEMMA PlacesAdvance ==
  ASSUME SwarmInv, DocTypes, PlacesInv, NEW d \in Instances, NEW s,
         \/ step[d] \in {"load", "validate"} /\ s \in {"validate", "failed"}
         \/ step[d] = "found" /\ s = "open",
         step' = [step EXCEPT ![d] = s], pubsubHandler \subseteq pubsubHandler',
         UNCHANGED <<heliaNode, calls, registry, topics, listeners,
                     pathOf, subscribed, closed, raced, closedEarly>>
  PROVE  PlacesInv'
<1>1. /\ step \in [Instances -> {"new", "load", "validate", "found", "open", "failed"}]
      /\ closed \subseteq Instances /\ registry \in [Paths -> Instances \cup {none}]
  BY DEF DocTypes, LifecycleTypeOK, SwarmInv, SwarmTypes, SwarmTypeOK
<1>2. step'[d] = s /\ \A e \in Instances : e # d => step'[e] = step[e]
  BY <1>1
<1>3. step[d] # "new" /\ s # "new"
  OBVIOUS
<1>4. PathInv'
  BY <1>2, <1>3 DEF PlacesInv, PathInv
<1>5. OwnInv'
  BY DEF PlacesInv, OwnInv
<1>6. step[d] \in {"load", "validate"} => \A p \in Paths : registry[p] # d
  BY NoneAssumption DEF PlacesInv, RegistryInv
<1>7. RegistryInv'
  <2> SUFFICES ASSUME NEW p \in Paths, registry[p] # none
               PROVE  /\ pathOf[registry[p]] = p
                      /\ step'[registry[p]] \in {"found", "open", "failed"}
    BY DEF RegistryInv
  <2>1. /\ registry[p] \in Instances /\ pathOf[registry[p]] = p
        /\ step[registry[p]] \in {"found", "open", "failed"}
    BY <1>1 DEF PlacesInv, RegistryInv
  <2>2. CASE registry[p] = d
    BY <1>2, <2>1, <2>2
  <2>3. CASE registry[p] # d
    BY <1>2, <2>1, <2>3
  <2> QED
    BY <2>2, <2>3
<1>8. ClosedInv'
  BY <1>1, <1>2 DEF PlacesInv, ClosedInv
<1>9. IdleInv'
  BY DEF PlacesInv, IdleInv, inFlight
<1>10. LiveInv'
  BY <1>2 DEF PlacesInv, LiveInv
<1>11. step[d] \in {"load", "validate"} => d \notin listeners /\ d \notin subscribed
  BY <1>6 DEF PlacesInv, OwnInv
<1>12. GoneInv'
  <2> SUFFICES ASSUME ~closedEarly, ~raced, NEW e \in Instances, step'[e] = "failed" \/ e \in closed
               PROVE  e \notin listeners /\ e \notin subscribed /\ \A p \in Paths : registry[p] # e
    BY DEF GoneInv
  <2>1. CASE step[e] = "failed" \/ e \in closed
    BY <2>1 DEF PlacesInv, GoneInv
  <2>2. CASE ~(step[e] = "failed" \/ e \in closed)
    <3>1. e = d /\ step[d] \in {"load", "validate"}
      BY <1>2, <2>2
    <3> QED
      BY <1>6, <1>11, <3>1
  <2> QED
    BY <2>1, <2>2
<1> QED
  BY <1>4, <1>5, <1>7, <1>8, <1>9, <1>10, <1>12 DEF PlacesInv

(* open() registers, subscribes and listens.                                *)
LEMMA PlacesRegister ==
  ASSUME SwarmInv, DocTypes, PlacesInv, NEW d \in Instances, NEW s \in {"found", "open"},
         step[d] \in {"load", "validate"}, heliaNode # 0, registry[pathOf[d]] = none,
         registry' = [registry EXCEPT ![pathOf[d]] = d],
         listeners' = listeners \cup {d}, topics' = topics \cup {pathOf[d]},
         subscribed' = subscribed \cup {d}, pubsubHandler' = pubsubHandler \cup {d},
         step' = [step EXCEPT ![d] = s], raced' = (raced \/ inFlight # {}),
         UNCHANGED <<heliaNode, calls, pathOf, closed, closedEarly>>
  PROVE  PlacesInv'
<1> DEFINE p == pathOf[d]
<1>1. /\ step \in [Instances -> {"new", "load", "validate", "found", "open", "failed"}]
      /\ pathOf \in [Instances -> Paths \cup {none}] /\ raced \in BOOLEAN
      /\ closed \subseteq Instances /\ registry \in [Paths -> Instances \cup {none}]
      /\ listeners \subseteq Instances /\ subscribed \subseteq Instances
  BY DEF DocTypes, LifecycleTypeOK, SwarmInv, SwarmTypes, SwarmTypeOK
<1>2. p \in Paths /\ d # none
  BY <1>1, NoneAssumption DEF PlacesInv, PathInv
<1>3. /\ step'[d] = s /\ \A e \in Instances : e # d => step'[e] = step[e]
      /\ registry'[p] = d /\ \A q \in Paths : q # p => registry'[q] = registry[q]
  BY <1>1, <1>2
<1>4. \A q \in Paths : registry[q] # d
  BY <1>2 DEF PlacesInv, RegistryInv
<1>5. d \notin listeners /\ d \notin subscribed
  BY <1>4 DEF PlacesInv, OwnInv
<1>6. PathInv'
  BY <1>3 DEF PlacesInv, PathInv
<1>7. OwnInv'
  <2> SUFFICES ASSUME NEW e \in listeners' \cup subscribed'
               PROVE  e \in pubsubHandler' /\ pathOf[e] \in Paths /\ registry'[pathOf[e]] = e
    BY DEF OwnInv
  <2>1. CASE e = d
    BY <1>2, <1>3, <2>1
  <2>2. CASE e # d
    <3>1. /\ e \in pubsubHandler /\ pathOf[e] \in Paths /\ registry[pathOf[e]] = e
          /\ e \in Instances
      BY <1>1, <2>2 DEF PlacesInv, OwnInv
    <3>2. pathOf[e] # p
      BY <3>1, NoneAssumption
    <3> QED
      BY <1>3, <3>1, <3>2
  <2> QED
    BY <2>1, <2>2
<1>8. RegistryInv'
  <2> SUFFICES ASSUME NEW q \in Paths, registry'[q] # none
               PROVE  /\ pathOf[registry'[q]] = q
                      /\ step'[registry'[q]] \in {"found", "open", "failed"}
    BY DEF RegistryInv
  <2>1. CASE q = p
    BY <1>3, <2>1
  <2>2. CASE q # p
    <3>1. /\ registry'[q] = registry[q] /\ registry[q] \in Instances /\ registry[q] # d
          /\ pathOf[registry[q]] = q /\ step[registry[q]] \in {"found", "open", "failed"}
      BY <1>1, <1>3, <1>4, <2>2 DEF PlacesInv, RegistryInv
    <3> QED
      BY <1>3, <3>1
  <2> QED
    BY <2>1, <2>2
<1>9. ClosedInv'
  BY <1>1, <1>3 DEF PlacesInv, ClosedInv
<1>10. raced' <=> raced \/ inFlight # {}
  BY ZenonT(30)
<1>11. IdleInv'
  BY <1>10 DEF IdleInv, inFlight
<1>12. LiveInv'
  BY <1>3, <1>10 DEF PlacesInv, LiveInv
<1>13. GoneInv'
  <2> SUFFICES ASSUME ~closedEarly, ~raced, NEW e \in Instances, step'[e] = "failed" \/ e \in closed
               PROVE  /\ e \notin listeners' /\ e \notin subscribed'
                      /\ \A q \in Paths : registry'[q] # e
    BY <1>10 DEF GoneInv
  <2>1. e # d
    BY <1>3 DEF PlacesInv, ClosedInv
  <2>2. step[e] = "failed" \/ e \in closed
    BY <1>3, <2>1
  <2>3. e \notin listeners /\ e \notin subscribed /\ \A q \in Paths : registry[q] # e
    BY <2>2 DEF PlacesInv, GoneInv
  <2> QED
    BY <1>3, <2>1, <2>3, ZenonT(30)
<1> QED
  BY <1>6, <1>7, <1>8, <1>9, <1>11, <1>12, <1>13 DEF PlacesInv

(* close() of a document: it is undone in the registry and the pubsub       *)
(* service, and what other instances have there stays.                      *)
Undone(d) ==
  /\ closed' = closed \cup {d}
  /\ listeners' = listeners \ {d} /\ subscribed' = subscribed \ {d}
  /\ \A p \in Paths : registry'[p] = IF registry[p] = d THEN none ELSE registry[p]
  /\ \A p \in topics : registry[p] # d => p \in topics'

(* What close() does, unless the accessor of the Helia node throws.         *)
LEMMA Closing ==
  ASSUME SwarmInv, DocTypes, PlacesInv, NEW d \in Instances, pathOf[d] # none,
         pubsubHandler \subseteq pubsubHandler', CloseDocument(d)
  PROVE  /\ registry' \in [Paths -> Instances \cup {none}]
         /\ validators' \in [Paths -> Instances \cup {none}]
         /\ topics' \subseteq Paths /\ listeners' \subseteq Instances
         /\ subscribed' \subseteq subscribed /\ closed' \subseteq Instances
         /\ \/ d \in pubsubHandler' /\ heliaNode = 0
               /\ UNCHANGED <<topics, listeners, validators, subscribed, registry, closed>>
            \/ Undone(d)
<1> DEFINE p == pathOf[d]
           attached == d \in pubsubHandler'
<1>1. /\ registry \in [Paths -> Instances \cup {none}]
      /\ validators \in [Paths -> Instances \cup {none}]
      /\ topics \subseteq Paths /\ listeners \subseteq Instances
      /\ closed \subseteq Instances /\ pathOf[d] \in Paths
  BY DEF DocTypes, LifecycleTypeOK, SwarmInv, SwarmTypes, SwarmTypeOK
<1>2. CASE attached /\ heliaNode = 0
  BY <1>1, <1>2 DEF CloseDocument
<1>3. CASE ~(attached /\ heliaNode = 0)
  <2>1. /\ topics' = IF attached /\ d \in subscribed THEN topics \ {p} ELSE topics
        /\ subscribed' = subscribed \ {d}
        /\ listeners' = IF attached THEN listeners \ {d} ELSE listeners
        /\ validators' = IF attached THEN [validators EXCEPT ![p] = none] ELSE validators
        /\ registry' = IF registry[p] = d THEN [registry EXCEPT ![p] = none] ELSE registry
        /\ closed' = closed \cup {d}
    BY <1>3 DEF CloseDocument, unregistered, unlistened
  <2>2. d \in listeners => attached
    BY DEF PlacesInv, OwnInv
  <2>3. listeners' = listeners \ {d}
    BY <2>1, <2>2
  <2>4. \A q \in Paths : registry[q] = d => q = p
    BY NoneAssumption DEF PlacesInv, RegistryInv
  <2>5. \A q \in Paths : registry'[q] = IF registry[q] = d THEN none ELSE registry[q]
    BY <1>1, <2>1, <2>4
  <2>6. d \in subscribed => registry[p] = d
    BY DEF PlacesInv, OwnInv
  <2>7. \A q \in topics : registry[q] # d => q \in topics'
    BY <2>1, <2>6
  <2>8. Undone(d)
    BY <2>1, <2>3, <2>5, <2>7 DEF Undone
  <2>9. /\ registry' \in [Paths -> Instances \cup {none}]
        /\ validators' \in [Paths -> Instances \cup {none}]
    BY <1>1, <2>1
  <2> QED
    BY <1>1, <2>1, <2>3, <2>8, <2>9, ZenonT(30)
<1> QED
  BY <1>2, <1>3

(* An instance closes, from the application or because open() failed.       *)
LEMMA PlacesClose ==
  ASSUME SwarmInv, DocTypes, PlacesInv, NEW d \in Instances, NEW s,
         step' = [step EXCEPT ![d] = s], s = step[d] \/ s = "failed", s # "new",
         ~closedEarly' => ~closedEarly /\ s \in {"open", "failed"},
         pubsubHandler \subseteq pubsubHandler', Undone(d),
         step[d] # "new",
         UNCHANGED <<heliaNode, calls, pathOf, raced>>
  PROVE  PlacesInv'
<1>1. /\ step \in [Instances -> {"new", "load", "validate", "found", "open", "failed"}]
      /\ closed \subseteq Instances /\ registry \in [Paths -> Instances \cup {none}]
      /\ listeners \subseteq Instances /\ subscribed \subseteq Instances
  BY DEF DocTypes, LifecycleTypeOK, SwarmInv, SwarmTypes, SwarmTypeOK
<1>2. step'[d] = s /\ \A e \in Instances : e # d => step'[e] = step[e]
  BY <1>1
<1>3. /\ closed' = closed \cup {d}
      /\ listeners' = listeners \ {d} /\ subscribed' = subscribed \ {d}
      /\ \A p \in Paths : registry'[p] = IF registry[p] = d THEN none ELSE registry[p]
      /\ \A p \in topics : registry[p] # d => p \in topics'
  BY DEF Undone
<1>4. PathInv'
  BY <1>2 DEF PlacesInv, PathInv
<1>5. OwnInv'
  BY <1>1, <1>3, ZenonT(30) DEF PlacesInv, OwnInv
<1>6. RegistryInv'
  <2> SUFFICES ASSUME NEW p \in Paths, registry'[p] # none
               PROVE  /\ pathOf[registry'[p]] = p
                      /\ step'[registry'[p]] \in {"found", "open", "failed"}
    BY DEF RegistryInv
  <2>1. registry'[p] = registry[p] /\ registry[p] # d /\ registry[p] \in Instances
    BY <1>1, <1>3
  <2> QED
    BY <1>2, <2>1, ZenonT(30) DEF PlacesInv, RegistryInv
<1>7. ClosedInv'
  BY <1>1, <1>2, <1>3 DEF PlacesInv, ClosedInv
<1>8. IdleInv'
  BY <1>3 DEF PlacesInv, IdleInv, inFlight
<1>9. LiveInv'
  <2> SUFFICES ASSUME ~raced, NEW e \in Instances, step'[e] \in {"found", "open"}, e \notin closed'
               PROVE  e \in listeners' /\ pathOf[e] \in topics'
    BY DEF LiveInv
  <2>1. e # d /\ step[e] \in {"found", "open"} /\ e \notin closed
    BY <1>2, <1>3
  <2>2. e \in listeners /\ pathOf[e] \in topics
    BY <2>1 DEF PlacesInv, LiveInv
  <2>3. registry[pathOf[e]] = e
    BY <2>2 DEF PlacesInv, OwnInv
  <2> QED
    BY <1>3, <2>1, <2>2, <2>3, ZenonT(30)
<1>10. GoneInv'
  <2> SUFFICES ASSUME ~closedEarly', ~raced, NEW e \in Instances, step'[e] = "failed" \/ e \in closed'
               PROVE  /\ e \notin listeners' /\ e \notin subscribed'
                      /\ \A p \in Paths : registry'[p] # e
    BY DEF GoneInv
  <2>1. CASE e = d
    BY <1>3, <2>1, NoneAssumption
  <2>2. CASE e # d
    <3>1. ~closedEarly /\ (step[e] = "failed" \/ e \in closed)
      BY <1>2, <1>3, <2>2
    <3>2. e \notin listeners /\ e \notin subscribed /\ \A p \in Paths : registry[p] # e
      BY <3>1, Zenon DEF PlacesInv, GoneInv
    <3> QED
      BY <1>3, <3>2, NoneAssumption
  <2> QED
    BY <2>1, <2>2
<1> QED
  BY <1>4, <1>5, <1>6, <1>7, <1>8, <1>9, <1>10, ZenonT(30) DEF PlacesInv

(* Neither the places of the documents nor the node change.                 *)
LEMMA PlacesKept ==
  ASSUME PlacesInv, pubsubHandler \subseteq pubsubHandler', ~closedEarly' => ~closedEarly,
         UNCHANGED <<heliaNode, calls, registry, topics, listeners,
                     pathOf, step, subscribed, closed, raced>>
  PROVE  PlacesInv'
<1>1. PathInv' /\ OwnInv' /\ RegistryInv'
  BY ZenonT(30) DEF PlacesInv, PathInv, OwnInv, RegistryInv
<1>2. ClosedInv' /\ GoneInv'
  BY DEF PlacesInv, ClosedInv, GoneInv
<1>3. IdleInv' /\ LiveInv'
  BY DEF PlacesInv, IdleInv, LiveInv, inFlight
<1> QED
  BY <1>1, <1>2, <1>3 DEF PlacesInv

(* A step of initialize(): with documents open there is none.               *)
LEMMA PlacesInitialize ==
  ASSUME SwarmInv, DocTypes, PlacesInv, UNCHANGED lifecycleVars,
         registry' = registry, ~raced => \A p \in Paths : registry[p] = none,
         UNCHANGED <<listeners, topics>> \/ listeners' = {}
  PROVE  PlacesInv'
<1>1. UNCHANGED <<pathOf, step, pubsubHandler, subscribed, closed, raced, closedEarly>>
  BY DEF lifecycleVars, docVars
<1>2. PathInv' /\ RegistryInv' /\ ClosedInv'
  BY <1>1 DEF PlacesInv, PathInv, RegistryInv, ClosedInv
<1>3. OwnInv'
  BY <1>1 DEF PlacesInv, OwnInv
<1>4. IdleInv'
  BY <1>1 DEF IdleInv
<1>5. LiveInv'
  <2> SUFFICES ASSUME ~raced, NEW d \in Instances, step[d] \in {"found", "open"}, d \notin closed
               PROVE  FALSE
    BY <1>1 DEF LiveInv
  <2>1. d \in listeners
    BY DEF PlacesInv, LiveInv
  <2>2. pathOf[d] \in Paths /\ registry[pathOf[d]] = d
    BY <2>1 DEF PlacesInv, OwnInv
  <2> QED
    BY <2>2, NoneAssumption
<1>6. GoneInv'
  BY <1>1 DEF PlacesInv, GoneInv
<1> QED
  BY <1>2, <1>3, <1>4, <1>5, <1>6 DEF PlacesInv

(* Every step of the node, seen from the documents.                         *)
LEMMA PlacesSwarm ==
  ASSUME SwarmInv, DocTypes, PlacesInv, SwarmNext, UNCHANGED lifecycleVars
  PROVE  PlacesInv'
<1>1. ASSUME NEW c \in InitializeCalls, calls[c] \in Awaits, ~raced
      PROVE  \A p \in Paths : registry[p] = none
  BY <1>1 DEF PlacesInv, IdleInv, inFlight
<1>2. ASSUME NEW c \in InitializeCalls, Initialize(c) PROVE PlacesInv'
  BY <1>2, PlacesInitialize DEF Initialize, pubsubVars
<1>3. ASSUME NEW c \in InitializeCalls, CreateFails(c) PROVE PlacesInv'
  <2>1. calls[c] \in Awaits
    BY <1>3 DEF CreateFails, Awaits
  <2> QED
    BY <1>1, <1>3, <2>1, PlacesInitialize DEF CreateFails, pubsubVars
<1>4. ASSUME NEW c \in InitializeCalls, NEW early \in SUBSET Peers, Created(c, early)
      PROVE  PlacesInv'
  <2>1. calls[c] \in Awaits
    BY <1>4 DEF Created, Awaits
  <2> QED
    BY <1>1, <1>4, <2>1, PlacesInitialize DEF Created
<1>5. ASSUME NEW c \in InitializeCalls, NEW ok \in BOOLEAN, Stopped(c, ok) PROVE PlacesInv'
  <2>1. calls[c] \in Awaits
    BY <1>5 DEF Stopped, Awaits
  <2> QED
    BY <1>1, <1>5, <2>1, PlacesInitialize, ZenonT(30) DEF Stopped, pubsubVars
<1>6. ASSUME NEW h \in InitializeCalls, NEW r,
             settled(h, r) # calls, UNCHANGED <<registry, pubsubVars>>
      PROVE  PlacesInv'
  <2>1. \E c \in InitializeCalls : calls[c] = "register"
    <3> SUFFICES ASSUME \A c \in InitializeCalls : calls[c] # "register"
                 PROVE  settled(h, r) = calls
      BY <1>6
    <3>1. settled(h, r) = [c \in InitializeCalls |-> calls[c]]
      BY DEF settled
    <3>2. calls = [c \in InitializeCalls |-> calls[c]]
      BY DEF SwarmInv, SwarmTypes, SwarmTypeOK
    <3> QED
      BY <3>1, <3>2
  <2>2. ~raced => \A p \in Paths : registry[p] = none
    BY <1>1, <2>1 DEF Awaits
  <2> QED
    BY <1>6, <2>2, PlacesInitialize DEF pubsubVars
<1>7. ASSUME NEW h \in InitializeCalls, HandlersRegistered(h) \/ HandlersFail(h) PROVE PlacesInv'
  BY <1>6, <1>7 DEF HandlersRegistered, HandlersFail
<1>8. ASSUME NEW h \in HeliaNodes, NEW peer \in Peers,
             PeerConnect(h, peer) \/ PeerDisconnect(h, peer)
      PROVE  PlacesInv'
  <2>1. UNCHANGED <<heliaNode, calls, registry, topics, listeners>>
    BY <1>8 DEF PeerConnect, PeerDisconnect, nodeVars, pubsubVars
  <2>2. UNCHANGED <<pathOf, step, pubsubHandler, subscribed, closed, raced, closedEarly>>
    BY DEF lifecycleVars, docVars
  <2> QED
    BY <2>1, <2>2, PlacesKept
<1> QED
  BY <1>2, <1>3, <1>4, <1>5, <1>7, <1>8 DEF SwarmNext

-----------------------------------------------------------------------------
NodeInv == SwarmInv /\ DocTypes /\ PlacesInv

(* A step that leaves the content of the documents alone.                   *)
LEMMA DocTypesKept ==
  ASSUME DocTypes, UNCHANGED <<version, local, fires>>,
         pathOf' \in [Instances -> Paths \cup {none}],
         step' \in [Instances -> {"new", "load", "validate", "found", "open", "failed"}],
         existing' \subseteq Instances, pubsubHandler' \subseteq Instances,
         subscribed' \subseteq pubsubHandler', closed' \subseteq Instances,
         raced' \in BOOLEAN, closedEarly' \in BOOLEAN
  PROVE  DocTypes'
BY DEF DocTypes, LifecycleTypeOK

(* doc() and open().                                                        *)
LEMMA NodeOpen ==
  ASSUME NodeInv, NEW d \in Instances, NEW p \in Paths, OpenCall(d, p)
  PROVE  NodeInv'
<1>1. SwarmInv /\ DocTypes /\ PlacesInv
  BY DEF NodeInv
<1>2. PlacesInv'
  BY <1>1, PlacesOpen
<1>3. SwarmInv'
  <2>1. UNCHANGED <<nodeVars, peerVars, overlapped, stopFailed, registry, validators, topics, listeners>>
    BY DEF OpenCall, swarmVars, pubsubVars
  <2>2. /\ registry \in [Paths -> Instances \cup {none}]
        /\ validators \in [Paths -> Instances \cup {none}]
        /\ topics \subseteq Paths /\ listeners \subseteq Instances
    BY <1>1 DEF SwarmInv, SwarmTypes, SwarmTypeOK
  <2> QED
    BY <1>1, <2>1, <2>2, SwarmKept
<1>4. DocTypes'
  <2>1. /\ pathOf' = [pathOf EXCEPT ![d] = p] /\ step' = [step EXCEPT ![d] = "load"]
        /\ UNCHANGED <<existing, pubsubHandler, subscribed, closed, version, local, fires,
                       raced, closedEarly>>
    BY DEF OpenCall
  <2>2. /\ pathOf' \in [Instances -> Paths \cup {none}]
        /\ step' \in [Instances -> {"new", "load", "validate", "found", "open", "failed"}]
    BY <1>1, <2>1 DEF DocTypes, LifecycleTypeOK
  <2> QED
    BY <1>1, <2>1, <2>2 DEF DocTypes, LifecycleTypeOK
<1> QED
  BY <1>2, <1>3, <1>4 DEF NodeInv

(* What every step of open() and close() leaves alone, and the types.       *)
LEMMA NodeMoves ==
  ASSUME NodeInv, PlacesInv', NEW d \in Instances, NEW s,
         s = step[d] \/ s \in {"validate", "found", "open", "failed"},
         step' = [step EXCEPT ![d] = s],
         UNCHANGED <<nodeVars, peerVars, overlapped, stopFailed, version, local, fires, pathOf>>,
         registry' \in [Paths -> Instances \cup {none}],
         validators' \in [Paths -> Instances \cup {none}],
         topics' \subseteq Paths, listeners' \subseteq Instances,
         existing' \subseteq Instances, pubsubHandler' \subseteq Instances,
         subscribed' \subseteq pubsubHandler', closed' \subseteq Instances,
         raced' \in BOOLEAN, closedEarly' \in BOOLEAN
  PROVE  NodeInv'
<1>1. SwarmInv /\ DocTypes
  BY DEF NodeInv
<1>2. SwarmInv'
  BY <1>1, SwarmKept
<1>3. /\ step' \in [Instances -> {"new", "load", "validate", "found", "open", "failed"}]
      /\ pathOf' \in [Instances -> Paths \cup {none}]
  BY <1>1 DEF DocTypes, LifecycleTypeOK
<1>4. DocTypes'
  BY <1>1, <1>3, DocTypesKept
<1> QED
  BY <1>2, <1>4 DEF NodeInv

(* A step of open() that touches neither the registry nor the pubsub        *)
(* service.                                                                 *)
LEMMA NodeAdvance ==
  ASSUME NodeInv, NEW d \in Instances, NEW s,
         \/ step[d] \in {"load", "validate"} /\ s \in {"validate", "failed"}
         \/ step[d] = "found" /\ s = "open",
         step' = [step EXCEPT ![d] = s],
         pubsubHandler' \in {pubsubHandler, pubsubHandler \cup {d}}, existing' \subseteq Instances,
         UNCHANGED unmoved,
         UNCHANGED <<registry, topics, listeners, validators, subscribed, closed, raced>>
  PROVE  NodeInv'
<1>1. SwarmInv /\ DocTypes /\ PlacesInv
  BY DEF NodeInv
<1>2. UNCHANGED <<nodeVars, peerVars, overlapped, stopFailed, closedEarly, version, local, fires,
                  pathOf>>
  BY DEF unmoved, contentVars
<1>3. PlacesInv'
  BY <1>1, <1>2, PlacesAdvance, ZenonT(30) DEF nodeVars
<1>4. /\ registry' \in [Paths -> Instances \cup {none}]
      /\ validators' \in [Paths -> Instances \cup {none}]
      /\ topics' \subseteq Paths /\ listeners' \subseteq Instances
  BY <1>1 DEF SwarmInv, SwarmTypes, SwarmTypeOK
<1>5. /\ pubsubHandler' \subseteq Instances /\ subscribed' \subseteq pubsubHandler'
      /\ closed' \subseteq Instances
  BY <1>1 DEF DocTypes, LifecycleTypeOK
<1>6. raced' \in BOOLEAN /\ closedEarly' \in BOOLEAN
  BY <1>1, <1>2 DEF DocTypes
<1>7. s \in {"validate", "found", "open", "failed"}
  OBVIOUS
<1> QED
  BY <1>2, <1>3, <1>4, <1>5, <1>6, <1>7, NodeMoves, ZenonT(30)

(* open() fails after it has assigned the handler, and closes: the instance *)
(* was not live, or is not any more.                                        *)
LEMMA NodeFails ==
  ASSUME NodeInv, NEW d \in Instances, step[d] \in {"load", "validate", "found"},
         step' = [step EXCEPT ![d] = "failed"],
         pubsubHandler' \in {pubsubHandler, pubsubHandler \cup {d}}, existing' \subseteq Instances,
         CloseDocument(d), heliaNode # 0 \/ step[d] = "found", UNCHANGED <<unmoved, raced>>
  PROVE  NodeInv'
<1>1. SwarmInv /\ DocTypes /\ PlacesInv
  BY DEF NodeInv
<1>2. UNCHANGED <<nodeVars, peerVars, overlapped, stopFailed, closedEarly, version, local, fires,
                  pathOf>>
  BY DEF unmoved, contentVars
<1>3. pathOf[d] # none
  BY <1>1, ZenonT(30) DEF PlacesInv, PathInv
<1>4. /\ registry' \in [Paths -> Instances \cup {none}]
      /\ validators' \in [Paths -> Instances \cup {none}]
      /\ topics' \subseteq Paths /\ listeners' \subseteq Instances
      /\ subscribed' \subseteq subscribed /\ closed' \subseteq Instances
      /\ \/ d \in pubsubHandler' /\ heliaNode = 0
            /\ UNCHANGED <<topics, listeners, validators, subscribed, registry, closed>>
         \/ Undone(d)
  BY <1>1, <1>3, Closing, ZenonT(30)
<1>5. PlacesInv'
  <2>1. CASE Undone(d)
    BY <1>1, <1>2, <2>1, PlacesClose, ZenonT(30) DEF nodeVars
  <2>2. CASE /\ step[d] = "found" /\ heliaNode = 0
             /\ UNCHANGED <<topics, listeners, validators, subscribed, registry, closed>>
    <3>1. /\ step \in [Instances -> {"new", "load", "validate", "found", "open", "failed"}]
          /\ registry \in [Paths -> Instances \cup {none}] /\ closed \subseteq Instances
      BY <1>1 DEF DocTypes, LifecycleTypeOK, SwarmInv, SwarmTypes, SwarmTypeOK
    <3>2. step'[d] = "failed" /\ \A e \in Instances : e # d => step'[e] = step[e]
      BY <3>1
    <3>3. ~closedEarly => raced
      <4> SUFFICES ASSUME ~closedEarly, ~raced PROVE FALSE
        OBVIOUS
      <4>1. d \notin closed
        BY <1>1, <2>2 DEF PlacesInv, ClosedInv
      <4>2. d \in listeners
        BY <1>1, <2>2, <4>1 DEF PlacesInv, LiveInv
      <4>3. pathOf[d] \in Paths /\ registry[pathOf[d]] = d
        BY <1>1, <4>2 DEF PlacesInv, OwnInv
      <4> QED
        BY <1>1, <2>2, <4>3, NoneAssumption, ZenonT(30) DEF PlacesInv, IdleInv
    <3>4. PathInv' /\ OwnInv'
      BY <1>1, <1>2, <2>2, <3>2, ZenonT(30) DEF PlacesInv, PathInv, OwnInv
    <3>5. RegistryInv' /\ ClosedInv'
      BY <1>1, <1>2, <2>2, <3>1, <3>2 DEF PlacesInv, RegistryInv, ClosedInv
    <3>6. IdleInv'
      BY <1>1, <1>2, <2>2 DEF PlacesInv, IdleInv, inFlight, nodeVars
    <3>7. LiveInv'
      BY <1>1, <1>2, <2>2, <3>2, ZenonT(30) DEF PlacesInv, LiveInv
    <3>8. GoneInv'
      BY <1>2, <3>3, ZenonT(30) DEF GoneInv
    <3> QED
      BY <3>4, <3>5, <3>6, <3>7, <3>8 DEF PlacesInv
  <2> QED
    BY <1>4, <2>1, <2>2
<1>6. pubsubHandler' \subseteq Instances /\ subscribed' \subseteq pubsubHandler'
  BY <1>1, <1>4 DEF DocTypes, LifecycleTypeOK
<1>7. raced' \in BOOLEAN /\ closedEarly' \in BOOLEAN
  BY <1>1, <1>2 DEF DocTypes
<1> QED
  BY <1>2, <1>4, <1>5, <1>6, <1>7, NodeMoves, ZenonT(30)

(* open() from the assignment of the handler on.                            *)
LEMMA NodeRegister ==
  ASSUME NodeInv, NEW d \in Instances, step[d] \in {"load", "validate"},
         existing' \subseteq Instances, Register(d), UNCHANGED unmoved
  PROVE  NodeInv'
<1> DEFINE p == pathOf[d]
<1>1. pubsubHandler' = pubsubHandler \cup {d}
  BY Zenon DEF Register
<1>2. CASE /\ heliaNode = 0 /\ step' = [step EXCEPT ![d] = "failed"]
           /\ UNCHANGED <<topics, listeners, validators, subscribed, registry, closed, raced>>
  BY <1>1, <1>2, NodeAdvance, Zenon
<1>3. CASE /\ heliaNode # 0 /\ duplicate(p)
           /\ step' = [step EXCEPT ![d] = "failed"] /\ CloseDocument(d)
           /\ UNCHANGED raced
  BY <1>1, <1>3, NodeFails, Zenon
<1>4. CASE /\ heliaNode # 0 /\ ~duplicate(p)
           /\ registry' = [registry EXCEPT ![p] = d]
           /\ listeners' = listeners \cup {d} /\ topics' = topics \cup {p}
           /\ subscribed' = subscribed \cup {d}
           /\ validators' = [validators EXCEPT ![p] = d]
           /\ step' = [step EXCEPT ![d] = IF d \in existing' THEN "open" ELSE "found"]
           /\ raced' = (raced \/ inFlight # {})
           /\ UNCHANGED closed
  <2> DEFINE s == IF d \in existing' THEN "open" ELSE "found"
  <2>1. s \in {"found", "open"} /\ step' = [step EXCEPT ![d] = s]
    BY <1>4, Zenon
  <2> HIDE DEF s
  <2>2. SwarmInv /\ DocTypes /\ PlacesInv
    BY DEF NodeInv
  <2>3. UNCHANGED <<nodeVars, peerVars, overlapped, stopFailed, closedEarly, version, local, fires,
                    pathOf>>
    BY DEF unmoved, contentVars
  <2>4. UNCHANGED <<heliaNode, calls, pathOf, closed, closedEarly>>
    BY <1>4, <2>3, ZenonT(30) DEF nodeVars
  <2>5. registry[p] = none
    BY <1>4, ZenonT(30) DEF duplicate
  <2>6. PlacesInv'
    BY <1>1, <1>4, <2>1, <2>2, <2>4, <2>5, PlacesRegister, ZenonT(30)
  <2>7. p \in Paths
    BY <2>2 DEF PlacesInv, PathInv, DocTypes, LifecycleTypeOK
  <2>8. /\ registry' \in [Paths -> Instances \cup {none}]
        /\ validators' \in [Paths -> Instances \cup {none}]
        /\ topics' \subseteq Paths /\ listeners' \subseteq Instances
    BY <1>4, <2>2, <2>7, ZenonT(30) DEF SwarmInv, SwarmTypes, SwarmTypeOK
  <2>9. /\ pubsubHandler' \subseteq Instances /\ subscribed' \subseteq pubsubHandler'
        /\ closed' \subseteq Instances
    BY <1>1, <1>4, <2>2 DEF DocTypes, LifecycleTypeOK
  <2>10. raced' \in BOOLEAN /\ closedEarly' \in BOOLEAN
    BY <1>4, <2>2, <2>4 DEF DocTypes
  <2> QED
    BY <2>1, <2>3, <2>6, <2>8, <2>9, <2>10, NodeMoves, Zenon
<1> QED
  BY <1>2, <1>3, <1>4, ZenonT(30) DEF Register

(* A document is closed.                                                    *)
LEMMA NodeClose ==
  ASSUME NodeInv, NEW d \in Instances, CloseCall(d)
  PROVE  NodeInv'
<1>1. /\ pathOf[d] # none /\ UNCHANGED pubsubHandler /\ CloseDocument(d)
      /\ closedEarly' = (closedEarly \/ step[d] \in {"load", "validate", "found"})
      /\ UNCHANGED <<nodeVars, peerVars, overlapped, stopFailed, version, local, fires, pathOf,
                     step, existing, raced>>
  BY Zenon DEF CloseCall
<1>2. SwarmInv /\ DocTypes /\ PlacesInv
  BY DEF NodeInv
<1>3. /\ registry' \in [Paths -> Instances \cup {none}]
      /\ validators' \in [Paths -> Instances \cup {none}]
      /\ topics' \subseteq Paths /\ listeners' \subseteq Instances
      /\ subscribed' \subseteq subscribed /\ closed' \subseteq Instances
      /\ \/ d \in pubsubHandler' /\ heliaNode = 0
            /\ UNCHANGED <<topics, listeners, validators, subscribed, registry, closed>>
         \/ Undone(d)
  BY <1>1, <1>2, Closing, ZenonT(30)
<1>4. step \in [Instances -> {"new", "load", "validate", "found", "open", "failed"}]
  BY <1>2 DEF DocTypes, LifecycleTypeOK
<1>5. step[d] # "new" /\ step' = [step EXCEPT ![d] = step[d]]
  BY <1>1, <1>2, <1>4 DEF PlacesInv, PathInv
<1>6. ~closedEarly' => ~closedEarly /\ step[d] \in {"open", "failed"}
  BY <1>1, <1>4, <1>5, Zenon
<1>7. PlacesInv'
  <2>1. CASE Undone(d)
    BY <1>1, <1>2, <1>5, <1>6, <2>1, PlacesClose, ZenonT(30) DEF nodeVars
  <2>2. CASE UNCHANGED <<topics, listeners, validators, subscribed, registry, closed>>
    BY <1>1, <1>2, <1>6, <2>2, PlacesKept, ZenonT(30) DEF nodeVars
  <2> QED
    BY <1>3, <2>1, <2>2
<1>8. /\ pubsubHandler' \subseteq Instances /\ subscribed' \subseteq pubsubHandler'
      /\ existing' \subseteq Instances
  BY <1>1, <1>2, <1>3 DEF DocTypes, LifecycleTypeOK
<1>9. raced' \in BOOLEAN /\ closedEarly' \in BOOLEAN
  BY <1>1, <1>2 DEF DocTypes
<1> QED
  BY <1>1, <1>3, <1>5, <1>7, <1>8, <1>9, NodeMoves, Zenon

-----------------------------------------------------------------------------
FireOK(f) ==
  /\ f.doc \in Instances /\ f.seen \in 0..version[f.doc] /\ f.left # << >>
  /\ f = [doc |-> f.doc, change |-> f.change, left |-> f.left, seen |-> f.seen]

(* A step of the content: changes, and the notifications of handlers.       *)
LEMMA NodeContent ==
  ASSUME NodeInv, UNCHANGED <<swarmVars, docVars, raced, closedEarly>>,
         version' \in [Instances -> 0..MaxVersion],
         local' \in [Instances -> {"idle", "check", "publish"}],
         \A f \in fires' : FireOK(f)'
  PROVE  NodeInv'
<1>1. SwarmInv /\ DocTypes /\ PlacesInv
  BY DEF NodeInv
<1>2. /\ UNCHANGED <<nodeVars, peerVars, overlapped, stopFailed, registry, validators, topics, listeners>>
      /\ UNCHANGED <<pathOf, step, existing, pubsubHandler, subscribed, closed>>
  BY DEF swarmVars, pubsubVars, docVars
<1>3. SwarmInv'
  <2>1. /\ registry \in [Paths -> Instances \cup {none}]
        /\ validators \in [Paths -> Instances \cup {none}]
        /\ topics \subseteq Paths /\ listeners \subseteq Instances
    BY <1>1 DEF SwarmInv, SwarmTypes, SwarmTypeOK
  <2> QED
    BY <1>1, <1>2, <2>1, SwarmKept
<1>4. PlacesInv'
  BY <1>1, <1>2, PlacesKept, ZenonT(30) DEF nodeVars
<1>5. DocTypes'
  <2>1. \A f \in fires' :
          /\ f.doc \in Instances /\ f.seen \in 0..version'[f.doc] /\ f.left # << >>
          /\ f = [doc |-> f.doc, change |-> f.change, left |-> f.left, seen |-> f.seen]
    BY DEF FireOK
  <2> QED
    BY <1>1, <1>2, <2>1 DEF DocTypes, LifecycleTypeOK
<1> QED
  BY <1>3, <1>4, <1>5 DEF NodeInv

(* The notifications under way, when the documents go on.                   *)
LEMMA FiresGoOn ==
  ASSUME NodeInv, version' \in [Instances -> 0..MaxVersion],
         \A d \in Instances : version[d] <= version'[d]
  PROVE  \A f \in fires : FireOK(f)'
<1> SUFFICES ASSUME NEW f \in fires PROVE FireOK(f)'
  OBVIOUS
<1>1. /\ f.doc \in Instances /\ f.seen \in 0..version[f.doc] /\ f.left # << >>
      /\ f = [doc |-> f.doc, change |-> f.change, left |-> f.left, seen |-> f.seen]
      /\ version \in [Instances -> 0..MaxVersion]
  BY DEF NodeInv, DocTypes, LifecycleTypeOK
<1>2. version[f.doc] \in 0..MaxVersion /\ version'[f.doc] \in 0..MaxVersion
      /\ version[f.doc] <= version'[f.doc]
  BY <1>1
<1>3. f.seen \in 0..version'[f.doc]
  BY <1>1, <1>2, VersionAssumption
<1> QED
  BY <1>1, <1>3 DEF FireOK

(* A notification begins with the document as it is.                        *)
LEMMA FireStarts ==
  ASSUME NEW d \in Instances, NEW origin, version' \in [Instances -> 0..MaxVersion],
         fires' = startFire(d, origin), \A f \in fires : FireOK(f)'
  PROVE  \A f \in fires' : FireOK(f)'
<1> DEFINE left == SelectSeq(handlers[d], LAMBDA s : s.filter \in {"all", origin})
           g == [doc |-> d, change |-> version'[d], left |-> left, seen |-> version'[d]]
<1>1. fires' = IF left = << >> THEN fires ELSE fires \cup {g}
  BY DEF startFire
<1> HIDE DEF left
<1>2. g.doc = d /\ g.change = version'[d] /\ g.left = left /\ g.seen = version'[d]
  OBVIOUS
<1>3. version'[d] \in 0..version'[d]
  BY VersionAssumption
<1>4. g = [doc |-> g.doc, change |-> g.change, left |-> g.left, seen |-> g.seen]
  BY <1>2
<1> HIDE DEF g
<1>5. ASSUME left # << >>, NEW f, f = g PROVE FireOK(f)'
  BY <1>2, <1>3, <1>4, <1>5 DEF FireOK
<1> QED
  BY <1>1, <1>5, ZenonT(30)

(* A change of another peer.                                                *)
LEMMA NodeRemoteChange ==
  ASSUME NodeInv, NEW d \in Instances, RemoteChange(d)
  PROVE  NodeInv'
<1>1. /\ version[d] < MaxVersion /\ version' = [version EXCEPT ![d] = @ + 1]
      /\ fires' = startFire(d, "remote")
      /\ UNCHANGED <<swarmVars, docVars, local, raced, closedEarly>>
  BY DEF RemoteChange
<1>2. /\ version \in [Instances -> 0..MaxVersion]
      /\ local \in [Instances -> {"idle", "check", "publish"}]
  BY DEF NodeInv, DocTypes, LifecycleTypeOK
<1>3. version' \in [Instances -> 0..MaxVersion] /\ \A e \in Instances : version[e] <= version'[e]
  BY <1>1, <1>2, VersionAssumption
<1>4. \A f \in fires' : FireOK(f)'
  BY <1>1, <1>3, FiresGoOn, FireStarts
<1> QED
  BY <1>1, <1>2, <1>3, <1>4, NodeContent

(* change(), after the await of its check.                                  *)
LEMMA NodeChecked ==
  ASSUME NodeInv, NEW d \in Instances, NEW ok \in BOOLEAN, Checked(d, ok)
  PROVE  NodeInv'
<1>1. /\ (ok => version[d] < MaxVersion)
      /\ local' = [local EXCEPT ![d] = IF ok THEN "publish" ELSE "idle"]
      /\ version' = IF ok THEN [version EXCEPT ![d] = @ + 1] ELSE version
      /\ UNCHANGED <<swarmVars, docVars, fires, raced, closedEarly>>
  BY DEF Checked
<1>2. /\ version \in [Instances -> 0..MaxVersion]
      /\ local \in [Instances -> {"idle", "check", "publish"}]
  BY DEF NodeInv, DocTypes, LifecycleTypeOK
<1>3. version' \in [Instances -> 0..MaxVersion] /\ \A e \in Instances : version[e] <= version'[e]
  BY <1>1, <1>2, VersionAssumption
<1>4. local' \in [Instances -> {"idle", "check", "publish"}]
  BY <1>1, <1>2
<1>5. \A f \in fires' : FireOK(f)'
  BY <1>1, <1>3, FiresGoOn
<1> QED
  BY <1>1, <1>3, <1>4, <1>5, NodeContent

(* change(), after its publication.                                         *)
LEMMA NodePublished ==
  ASSUME NodeInv, NEW d \in Instances, NEW ok \in BOOLEAN, Published(d, ok)
  PROVE  NodeInv'
<1>1. /\ local' = [local EXCEPT ![d] = "idle"] /\ UNCHANGED version
      /\ fires' = IF ok THEN startFire(d, "local") ELSE fires
      /\ UNCHANGED <<swarmVars, docVars, raced, closedEarly>>
  BY DEF Published
<1>2. /\ version \in [Instances -> 0..MaxVersion]
      /\ local \in [Instances -> {"idle", "check", "publish"}]
  BY DEF NodeInv, DocTypes, LifecycleTypeOK
<1>3. version' \in [Instances -> 0..MaxVersion] /\ \A e \in Instances : version[e] <= version'[e]
  BY <1>1, <1>2, VersionAssumption
<1>4. local' \in [Instances -> {"idle", "check", "publish"}]
  BY <1>1, <1>2
<1>5. \A f \in fires' : FireOK(f)'
  <2>1. \A f \in fires : FireOK(f)'
    BY <1>3, FiresGoOn
  <2>2. CASE ok
    BY <1>1, <1>3, <2>1, <2>2, FireStarts
  <2>3. CASE ~ok
    BY <1>1, <2>1, <2>3
  <2> QED
    BY <2>2, <2>3
<1> QED
  BY <1>1, <1>3, <1>4, <1>5, NodeContent

(* A notification, with one handler less and the document of now.           *)
LEMMA FireMoves ==
  ASSUME NEW f, NEW x, NEW y,
         f = [doc |-> f.doc, change |-> f.change, left |-> f.left, seen |-> f.seen]
  PROVE  [f EXCEPT !.left = x, !.seen = y]
           = [doc |-> f.doc, change |-> f.change, left |-> x, seen |-> y]
<1> DEFINE h == [f EXCEPT !.left = x]
<1>1. h = [doc |-> f.doc, change |-> f.change, left |-> x, seen |-> f.seen]
  OBVIOUS
<1>2. [f EXCEPT !.left = x, !.seen = y] = [h EXCEPT !.seen = y]
  OBVIOUS
<1> HIDE DEF h
<1>3. [h EXCEPT !.seen = y] = [doc |-> f.doc, change |-> f.change, left |-> x, seen |-> y]
  BY <1>1
<1> QED
  BY <1>2, <1>3

(* The application, and a handler that returns.                             *)
LEMMA NodeApplication ==
  ASSUME NodeInv, ApplicationStep
  PROVE  NodeInv'
<1>1. UNCHANGED <<swarmVars, docVars, version, raced, closedEarly>>
  BY DEF ApplicationStep
<1>2. /\ version \in [Instances -> 0..MaxVersion]
      /\ local \in [Instances -> {"idle", "check", "publish"}]
  BY DEF NodeInv, DocTypes, LifecycleTypeOK
<1>3. \A f \in fires : FireOK(f)'
  <2>1. \A e \in Instances : version[e] <= version'[e]
    BY <1>1, <1>2, VersionAssumption
  <2> QED
    BY <1>1, <1>2, <2>1, FiresGoOn
<1>4. CASE \E d \in Instances : startChange(d) /\ UNCHANGED fires
  <2>1. local' \in [Instances -> {"idle", "check", "publish"}]
    BY <1>2, <1>4 DEF startChange
  <2>2. \A f \in fires' : FireOK(f)'
    BY <1>3, <1>4
  <2> QED
    BY <1>1, <1>2, <2>1, <2>2, NodeContent
<1>5. CASE \E f \in fires : fires' = afterHandler(f) /\ UNCHANGED local
  <2>1. PICK f \in fires : fires' = afterHandler(f) /\ UNCHANGED local
    BY <1>5
  <2> DEFINE g == [f EXCEPT !.left = Tail(@), !.seen = version[f.doc]]
  <2>2. fires' = IF Tail(f.left) = << >> THEN fires \ {f} ELSE (fires \ {f}) \cup {g}
    BY <2>1 DEF afterHandler
  <2>3. /\ f.doc \in Instances
        /\ f = [doc |-> f.doc, change |-> f.change, left |-> f.left, seen |-> f.seen]
    BY DEF NodeInv, DocTypes
  <2>4. g = [doc |-> f.doc, change |-> f.change, left |-> Tail(f.left), seen |-> version[f.doc]]
    BY <2>3, FireMoves, ZenonT(30)
  <2> HIDE DEF g
  <2>5. g.doc = f.doc /\ g.change = f.change /\ g.left = Tail(f.left) /\ g.seen = version[f.doc]
    BY <2>4
  <2>6. version[f.doc] \in 0..version'[f.doc]
    BY <1>1, <1>2, <2>3, VersionAssumption
  <2>7. ASSUME Tail(f.left) # << >>, NEW e, e = g PROVE FireOK(e)'
    BY <2>3, <2>4, <2>5, <2>6, <2>7 DEF FireOK
  <2>8. \A e \in fires' : FireOK(e)'
    BY <1>3, <2>2, <2>7
  <2> QED
    BY <1>1, <1>2, <2>1, <2>8, NodeContent
<1>6. CASE UNCHANGED <<local, fires>>
  BY <1>1, <1>2, <1>3, <1>6, NodeContent
<1> QED
  BY <1>4, <1>5, <1>6 DEF ApplicationStep

(* Every step of a document.                                                *)
LEMMA NodeDocumentStep ==
  ASSUME NodeInv, DocumentStep
  PROVE  NodeInv'
<1>0. existing \subseteq Instances
  BY DEF NodeInv, DocTypes, LifecycleTypeOK
<1>1. ASSUME NEW d \in Instances, NEW ok \in BOOLEAN, Loaded(d, ok) PROVE NodeInv'
  <2>1. /\ step[d] = "load" /\ existing' = (IF ok THEN existing \cup {d} ELSE existing)
        /\ UNCHANGED unmoved
    BY <1>1 DEF Loaded
  <2>2. existing' \subseteq Instances
    BY <1>0, <2>1
  <2>3. CASE /\ step' = [step EXCEPT ![d] = "validate"]
             /\ UNCHANGED <<pubsubHandler, subscribed, closed, raced, pubsubVars, registry>>
    BY <2>1, <2>2, <2>3, NodeAdvance, Zenon DEF pubsubVars
  <2>4. CASE Register(d)
    BY <2>1, <2>2, <2>4, NodeRegister
  <2> QED
    BY <1>1, <2>3, <2>4 DEF Loaded
<1>2. ASSUME NEW d \in Instances, LoadFails(d) PROVE NodeInv'
  <2>1. /\ step[d] = "load" /\ step' = [step EXCEPT ![d] = "failed"] /\ UNCHANGED unmoved
        /\ UNCHANGED <<existing, pubsubHandler, subscribed, closed, raced, topics, listeners,
                       validators, registry>>
    BY <1>2 DEF LoadFails, pubsubVars
  <2> QED
    BY <1>0, <2>1, NodeAdvance, Zenon
<1>3. ASSUME NEW d \in Instances, NEW ok \in BOOLEAN, Validated(d, ok) PROVE NodeInv'
  <2>1. step[d] = "validate" /\ UNCHANGED existing /\ UNCHANGED unmoved
    BY <1>3 DEF Validated
  <2>2. CASE Register(d)
    BY <1>0, <2>1, <2>2, NodeRegister
  <2>3. CASE /\ step' = [step EXCEPT ![d] = "failed"]
             /\ UNCHANGED <<pubsubHandler, subscribed, closed, raced, pubsubVars, registry>>
    BY <1>0, <2>1, <2>3, NodeAdvance, Zenon DEF pubsubVars
  <2> QED
    BY <1>3, <2>2, <2>3 DEF Validated
<1>4. ASSUME NEW d \in Instances, NEW ok \in BOOLEAN, Founded(d, ok) PROVE NodeInv'
  <2>1. /\ step[d] = "found" /\ UNCHANGED <<pubsubHandler, existing, raced>> /\ UNCHANGED unmoved
        /\ step' = [step EXCEPT ![d] = IF ok THEN "open" ELSE "failed"]
    BY <1>4 DEF Founded
  <2>2. CASE ok
    <3>1. /\ step' = [step EXCEPT ![d] = "open"]
          /\ UNCHANGED <<topics, listeners, validators, registry, subscribed, closed>>
      BY <1>4, <2>2 DEF Founded, pubsubVars
    <3> QED
      BY <1>0, <2>1, <3>1, NodeAdvance, Zenon
  <2>3. CASE ~ok
    <3>1. step' = [step EXCEPT ![d] = "failed"] /\ CloseDocument(d)
      BY <1>4, <2>3 DEF Founded
    <3> QED
      BY <1>0, <2>1, <3>1, NodeFails, Zenon
  <2> QED
    BY <2>2, <2>3
<1> QED
  BY <1>1, <1>2, <1>3, <1>4, NodeRemoteChange, NodeChecked, NodePublished
  DEF DocumentStep

(* NodeInv is inductive.                                                    *)
LEMMA NodeInvHolds == NodeSpec => []NodeInv
<1>1. SwarmInit /\ LifecycleInit => NodeInv
  BY SwarmInvInit, DocInit DEF NodeInv
<1>2. NodeInv /\ [NodeNext]_<<swarmVars, lifecycleVars>> => NodeInv'
  <2> SUFFICES ASSUME NodeInv, [NodeNext]_<<swarmVars, lifecycleVars>> PROVE NodeInv'
    OBVIOUS
  <2>1. CASE SwarmNext /\ UNCHANGED lifecycleVars
    <3>1. SwarmInv /\ DocTypes /\ PlacesInv
      BY DEF NodeInv
    <3>2. SwarmInv' /\ PlacesInv'
      BY <2>1, <3>1, SwarmSteps, PlacesSwarm, ZenonT(30)
    <3>3. DocTypes'
      BY <2>1, <3>1 DEF DocTypes, LifecycleTypeOK, lifecycleVars, docVars, contentVars
    <3> QED
      BY <3>2, <3>3 DEF NodeInv
  <2>2. CASE \E d \in Instances, p \in Paths : OpenCall(d, p)
    BY <2>2, NodeOpen
  <2>3. CASE \E d \in Instances : CloseCall(d)
    BY <2>3, NodeClose
  <2>4. CASE DocumentStep
    BY <2>4, NodeDocumentStep
  <2>5. CASE ApplicationStep
    BY <2>5, NodeApplication
  <2>6. CASE UNCHANGED <<swarmVars, lifecycleVars>>
    BY <2>6, NodeApplication DEF ApplicationStep, lifecycleVars, contentVars
  <2> QED
    BY <2>1, <2>2, <2>3, <2>4, <2>5, <2>6 DEF NodeNext
<1> QED
  BY <1>1, <1>2, PTL DEF NodeSpec

(* The inductive invariant gives what open() and close() promise.           *)
LEMMA PlacesGive == NodeInv => OnlyOpenIsLive
<1> SUFFICES ASSUME NodeInv PROVE OnlyOpenIsLive
  OBVIOUS
<1>1. LifecycleTypeOK /\ PlacesInv
  BY DEF NodeInv, DocTypes
<1>2. OpenIsLive
  BY <1>1 DEF PlacesInv, LiveInv, OwnInv, OpenIsLive, opened
<1>3. OneListener
  BY <1>1 DEF PlacesInv, OwnInv, OneListener
<1>4. NothingLeaked
  <2> SUFFICES ASSUME ~closedEarly, ~raced, NEW d \in Instances, step[d] = "failed" \/ d \in closed
               PROVE  /\ d \notin listeners /\ d \notin subscribed
                      /\ \A p \in Paths : route(p) # d
    BY DEF NothingLeaked
  <2>1. d \notin listeners /\ d \notin subscribed /\ \A p \in Paths : registry[p] # d
    BY <1>1 DEF PlacesInv, GoneInv
  <2> QED
    BY <2>1, NoneAssumption DEF route
<1> QED
  BY <1>1, <1>2, <1>3, <1>4 DEF OnlyOpenIsLive

(* However often initialize() is called, and whichever of its steps fail:   *)
(* calls that do not overlap leave one Helia node at most, which serves the *)
(* shared handlers and reports each of its peers once.                      *)
THEOREM NodesAreInOrder == NodeSpec => []SerialInitialize
<1>1. NodeInv => SerialInitialize
  BY SwarmInvGives DEF NodeInv
<1> QED
  BY <1>1, NodeInvHolds, PTL

(* However open(), close(), change() and initialize() of any number of      *)
(* instances interleave and fail: the documents that are open are           *)
(* registered, subscribed and listening, no two for one path, and those     *)
(* that failed to open or were closed are not.                              *)
THEOREM OpenDocumentsAreLive == NodeSpec => []OnlyOpenIsLive
BY PlacesGive, NodeInvHolds, PTL
=============================================================================
