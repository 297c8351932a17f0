---------------------------- MODULE PinningNode -----------------------------
(***************************************************************************)
(* CollabswarmNode, the headless node that pins the blocks of every        *)
(* document that is published: the listener on the publish topic, the      *)
(* handler it subscribes to each document, and the slots that bound the    *)
(* pins that run at once.                                                  *)
(*                                                                         *)
(* A tree of changes is the sequence of the CIDs that _pinNewCIDs reaches, *)
(* parents first (a node whose children are deferred is a leaf of it). The *)
(* pinQueue holds, for each waiter, the CID it is to pin.                  *)
(***************************************************************************)
EXTENDS Integers, FiniteSets, Sequences, SequencesExt

CONSTANTS
  PinCids,              \* CIDs of changes
  MalformedCids,        \* those of them that CID.parse refuses
  PublishedDocs,        \* document ids
  PublishedTrees,       \* the trees that publish messages carry
  MaxPublished,         \* bound on the publish messages
  MaxConcurrentPins     \* MAX_CONCURRENT_PINS

VARIABLES
  daemon,               \* "new", "listening", "stopped", or "exited" with the process
  docRefs,              \* the document of each docRef, in order of creation
  opening,              \* docRefs whose open() has not settled
  openRefs,             \* docRefs that are open
  subscriptions,        \* _subscriptions: the docRef of each document, 0 when there is none
  pinHandlers,          \* docRefs with the 'pinning-handler'
  seenCids, pinningCids, pinQueue, activePins,
  draining              \* how many pins.add() calls run for each CID

slotVars == <<seenCids, pinningCids, pinQueue, activePins, draining>>
pinVars == <<daemon, docRefs, opening, openRefs, subscriptions, pinHandlers, slotVars>>

PinTypeOK ==
  /\ docRefs \in Seq(PublishedDocs) /\ Len(docRefs) <= MaxPublished
  /\ opening \subseteq DOMAIN docRefs /\ openRefs \subseteq DOMAIN docRefs
  /\ subscriptions \in [PublishedDocs -> {0} \cup DOMAIN docRefs]
  /\ seenCids \cup pinningCids \subseteq PinCids \ MalformedCids
  /\ pinQueue \in Seq(pinningCids)

PinInit ==
  /\ daemon = "new" /\ docRefs = <<>> /\ opening = {} /\ openRefs = {}
  /\ subscriptions = [d \in PublishedDocs |-> 0] /\ pinHandlers = {}
  /\ seenCids = {} /\ pinningCids = {} /\ pinQueue = <<>> /\ activePins = 0
  /\ draining = [c \in PinCids |-> 0]

-----------------------------------------------------------------------------
(* The slots, as a record: the fields that _pinCID() changes before its      *)
(* first await.                                                              *)
slots == [pinning |-> pinningCids, queue |-> pinQueue, active |-> activePins, draining |-> draining]

setSlots(s) ==
  /\ pinningCids' = s.pinning /\ pinQueue' = s.queue
  /\ activePins' = s.active /\ draining' = s.draining

(* Mutant: a waiter is let in although every slot is taken.                  *)
acquirePinSlotOver(s, cid) ==
  IF s.active <= MaxConcurrentPins
  THEN [s EXCEPT !.active = @ + 1, !.draining[cid] = @ + 1]
  ELSE [s EXCEPT !.queue = Append(@, cid)]

acquirePinSlot(s, cid) ==
  IF s.active < MaxConcurrentPins
  THEN [s EXCEPT !.active = @ + 1, !.draining[cid] = @ + 1]
  ELSE [s EXCEPT !.queue = Append(@, cid)]

(* A pin that ends hands its slot to the first waiter.                            *)
releasePinSlot(s) ==
  IF s.queue # <<>>
  THEN [s EXCEPT !.queue = Tail(@), !.draining[Head(s.queue)] = @ + 1]
  ELSE [s EXCEPT !.active = @ - 1]

pinCID(s, cid) ==
  IF cid \in seenCids \cup s.pinning \cup MalformedCids THEN s
  ELSE acquirePinSlot([s EXCEPT !.pinning = @ \cup {cid}], cid)

pinNewCIDs(s, cids) == FoldLeft(pinCID, s, cids)

(* pins.add() ends, or throws; a CID whose pin has failed may be pinned when *)
(* it is met again.                                                          *)
PinSettles(cid, ok) ==
  /\ daemon # "exited" /\ draining[cid] > 0
  /\ seenCids' = IF ok THEN seenCids \cup {cid} ELSE seenCids
  /\ setSlots(releasePinSlot([slots EXCEPT !.pinning = @ \ {cid}, !.draining[cid] = @ - 1]))
  /\ UNCHANGED <<daemon, docRefs, opening, openRefs, subscriptions, pinHandlers>>

-----------------------------------------------------------------------------
Start ==
  /\ daemon = "new" /\ daemon' = "listening"
  /\ UNCHANGED <<docRefs, opening, openRefs, subscriptions, pinHandlers, slotVars>>

(* _subscriptions keeps the last docRef of a document. *)
recorded(d, ref) == [subscriptions EXCEPT ![d] = ref]

(* A publish message of another node: a new docRef for its document, with    *)
(* the handler, opened without awaiting it; then the pins of its tree.       *)
DocPublish(d, cids) ==
  /\ daemon = "listening" /\ Len(docRefs) < MaxPublished
  /\ docRefs' = Append(docRefs, d)
  /\ subscriptions' = recorded(d, Len(docRefs'))
  /\ pinHandlers' = pinHandlers \cup {Len(docRefs')}
  /\ opening' = opening \cup {Len(docRefs')}
  /\ setSlots(pinNewCIDs(slots, cids))
  /\ UNCHANGED <<daemon, openRefs, seenCids>>

(* open() of a docRef settles: it rejects when its load fails, or when the   *)
(* document is registered by another docRef. Nothing handles the rejection,  *)
(* which ends the process (the default of Node.js).                          *)
OpenSettles(ref, ok) ==
  /\ daemon # "exited" /\ ref \in opening
  /\ LET registered == \E other \in openRefs : docRefs[other] = docRefs[ref]
     IN IF ok /\ ~registered
        THEN openRefs' = openRefs \cup {ref} /\ UNCHANGED daemon
        ELSE daemon' = "exited" /\ UNCHANGED openRefs
  /\ opening' = opening \ {ref}
  /\ UNCHANGED <<docRefs, subscriptions, pinHandlers, slotVars>>

(* A docRef receives changes, by its load or by its topic, and calls its     *)
(* handlers with their hashes.                                               *)
ChangesReceived(ref, cids) ==
  /\ daemon # "exited" /\ ref \in (opening \cup openRefs) \cap pinHandlers
  /\ setSlots(pinNewCIDs(slots, cids))
  /\ UNCHANGED <<daemon, docRefs, opening, openRefs, subscriptions, pinHandlers, seenCids>>

(* stop(): the topic, the listener and the handlers; documents stay open and *)
(* pins go on.                                                               *)
Stop ==
  /\ daemon = "listening" /\ daemon' = "stopped"
  /\ pinHandlers' = pinHandlers \ {subscriptions[d] : d \in PublishedDocs}
  /\ UNCHANGED <<docRefs, opening, openRefs, subscriptions, slotVars>>

PinNext ==
  \/ Start \/ Stop
  \/ \E d \in PublishedDocs, cids \in PublishedTrees : DocPublish(d, cids)
  \/ \E ref \in DOMAIN docRefs :
       (\E ok \in BOOLEAN : OpenSettles(ref, ok)) \/ (\E cids \in PublishedTrees : ChangesReceived(ref, cids))
  \/ \E cid \in PinCids, ok \in BOOLEAN : PinSettles(cid, ok)

-----------------------------------------------------------------------------
(* The pins that run are the slots taken, no more than MAX_CONCURRENT_PINS,  *)
(* and a pin waits only while every slot is taken: no slot is lost when a    *)
(* pin fails, and no waiter is forgotten.                                    *)
PinSlots ==
  /\ activePins = FoldSet(LAMBDA c, n : n + draining[c], 0, PinCids)
  /\ activePins <= MaxConcurrentPins
  /\ pinQueue # <<>> => activePins = MaxConcurrentPins

(* A CID has one pin at a time, running or waiting, however often messages   *)
(* and documents name it while it waits, and none once it is pinned.         *)
PinnedOnce ==
  \A c \in PinCids :
    LET pins == draining[c] + Cardinality({i \in DOMAIN pinQueue : pinQueue[i] = c})
    IN /\ pins = IF c \in pinningCids THEN 1 ELSE 0
       /\ c \in seenCids => pins = 0

(* After stop() no document pins anything: its handler is unsubscribed from  *)
(* every document, if none was published twice.                              *)
StopEndsPinning ==
  daemon = "stopped" /\ (\A i, j \in DOMAIN docRefs : docRefs[i] = docRefs[j] => i = j)
    => pinHandlers = {}

(* Every pin is accounted for, from the first message that names its CID to  *)
(* the end of the daemon.                                                    *)
(* It includes the types.                                                    *)
PinsAccounted == PinTypeOK /\ PinSlots /\ PinnedOnce /\ StopEndsPinning

(* The same of documents that were published twice, whose first docRef is    *)
(* no longer in _subscriptions.                                              *)
StopEndsPinningAlways == daemon = "stopped" => pinHandlers = {}
=============================================================================
