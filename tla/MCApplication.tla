--------------------------- MODULE MCApplication ----------------------------
(***************************************************************************)
(* The application's side of a node, in seven parts of which a behaviour   *)
(* runs one: "node", a document that is opened and closed while            *)
(* initialize() is called; "documents", instances of one path that are     *)
(* opened and closed; "store", the thunks of the Redux binding; "hooks",   *)
(* the effects of the React hook; "transaction", the change transactions   *)
(* of a document; "pinning", the headless node that pins blocks; "relay",  *)
(* the topics of the relay server.                                         *)
(***************************************************************************)
EXTENDS ReduxStore, ReactHooks, Transaction, PinningNode, Relay, TLC

CONSTANTS HookChanges, p1, e1, e2, e3, t1, t2, c1, r1, r2, x1, x2, x3, x4

VARIABLE part
documentVars == <<swarmVars, lifecycleVars, storeVars, hookVars, txVars>>
vars == <<part, documentVars, pinVars, relayVars>>

MCInstances == 1..2
MCCalls == 1..3
MCPathOfEffect == [h \in Effects |-> p1]
MCSwaps == {<<e1, e2>>, <<e2, e3>>}
node(cid) == [cid |-> cid, links |-> {}]
MCPublishedTrees == {<<x1, x2, x3>>, <<x3, x4>>, <<x2>>}
MCRemoteTree == r1 :> <<node(r1)>> @@ r2 :> <<node(r1), node(r2)>>

(* A node that has been initialized, for the parts about its documents. *)
Initialized ==
  /\ heliaNode = 1 /\ running = {1} /\ serving = {1} /\ registration = 1
  /\ openStores = {1} /\ openedLegacyStores = 1
  /\ calls = [c \in InitializeCalls |-> IF c = 1 THEN "done" ELSE "new"]
  /\ target = [c \in InitializeCalls |-> IF c = 1 THEN 1 ELSE 0]
  /\ registry = [p \in Paths |-> none]
  /\ topics = {} /\ listeners = {} /\ validators = [p \in Paths |-> none]
  /\ connected = [h \in HeliaNodes |-> {}] /\ peerIds = <<>> /\ peers = {}
  /\ overlapped = FALSE /\ stopFailed = FALSE

Init ==
  /\ part \in {"node", "documents", "store", "hooks", "transaction", "pinning", "relay"}
  /\ IF part \in {"documents", "store", "hooks"} THEN Initialized ELSE SwarmInit
  /\ LifecycleInit /\ StoreInit /\ HooksInit /\ TransactionInit /\ PinInit /\ RelayInit
  /\ (part # "transaction" => inPlace = FALSE)

(* The application's own calls of open() and close(), of documents whose     *)
(* content is left out.                                                      *)
Documents ==
  \/ \E d \in Instances, p \in Paths :
       (part = "node" => d = 1) /\ Open(d, p, <<>>) /\ UNCHANGED swarmVars
  \/ \E d \in Instances : Close(d) \/ LoadFails(d)
  \/ \E d \in Instances, ok \in BOOLEAN : Loaded(d, ok) \/ Validated(d, ok) \/ Founded(d, ok)

Next ==
  /\ UNCHANGED part
  /\ \/ /\ UNCHANGED <<pinVars, relayVars>>
        /\ \/ /\ part \in {"node", "documents"} /\ Documents
              /\ UNCHANGED <<storeVars, hookVars, txVars>>
           \/ /\ part = "node" /\ SwarmNext
              /\ UNCHANGED <<lifecycleVars, storeVars, hookVars, txVars>>
           \/ part = "store" /\ StoreNext /\ UNCHANGED <<hookVars, txVars>>
           \/ part = "hooks" /\ HooksNext /\ UNCHANGED <<storeVars, txVars>>
           \/ /\ part = "transaction" /\ TransactionNext
              /\ UNCHANGED <<swarmVars, lifecycleVars, storeVars, hookVars>>
     \/ part = "pinning" /\ PinNext /\ UNCHANGED <<documentVars, relayVars>>
     \/ part = "relay" /\ RelayNext /\ UNCHANGED <<documentVars, pinVars>>

Spec == Init /\ [][Next]_vars

(* The hooks match the documents of the node, where every instance is opened *)
(* by a hook: the open-task map deduplicates open() (OneInstance), the last  *)
(* subscriber closes (OrphanClosed), and in between the effects have their   *)
(* document and show it as it is.                                            *)
(* It includes the types.                                                    *)
HooksMatchDocuments ==
  /\ HooksTypeOK
  /\ part = "hooks" => OneInstance /\ OrphanClosed /\ MountedHasDocument /\ MountedShowsDocument

(* Behaviours end where a change() and a commit have overlapped, which the   *)
(* properties of transactions exclude, and where the instances of the hooks  *)
(* have had more than HookChanges changes between them.                      *)
Bounded ==
  /\ ~mixed
  /\ part = "hooks" => version[1] + version[2] <= HookChanges
=============================================================================
