----------------------------- MODULE ReactHooks -----------------------------
(***************************************************************************)
(* useCollabswarmDocumentState over the lifecycle of documents: the effect *)
(* of each hook, the caches that all hooks of the page share, and the      *)
(* context that they render from.                                          *)
(*                                                                         *)
(* An effect is mounted once and cleaned up once; effects that are cleaned *)
(* up and mounted by one commit see the context as it was rendered. The    *)
(* continuations of an open task run in the order in which they were       *)
(* attached, before anything from outside does. The readers' and writers'  *)
(* caches are set wherever the data cache is and are left out.             *)
(***************************************************************************)
EXTENDS DocumentLifecycle, FiniteSets

CONSTANTS
  Effects,              \* effects of useCollabswarmDocumentState
  pathOfEffect,         \* their document path
  Swaps,                \* commits that clean up one effect and mount another
  bare                  \* a result with readers and writers but no docRef

VARIABLES
  effects,              \* state of each effect
  openTasks,            \* openTasks: the instance that the task opens
  openTaskResults,      \* openTaskResults: an instance, or a result without docRef
  settledTasks,         \* instances whose open task has settled
  reactions,            \* continuations of the open task of each instance
  docCache,             \* docCache of the context
  docDataCache,         \* docDataCache of the context
  swapped,              \* a commit emptied the caches and mounted another effect
  disordered            \* a notification was delivered late or out of order

hookVars == <<effects, openTasks, openTaskResults, settledTasks, reactions,
              docCache, docDataCache, swapped, disordered>>

Mounted == {"opener", "waiter", "opening", "waiting", "cached", "rejected"}
Subscribed == {"opener", "waiter", "cached"}

subscriberCount(p) == Cardinality({h \in Effects : pathOfEffect[h] = p /\ effects[h] \in Mounted})
microtasks == {d \in settledTasks : reactions[d] # <<>>}

HooksTypeOK ==
  /\ effects \in [Effects -> Mounted \cup {"new", "out"}]
  /\ openTasks \in [Paths -> Instances \cup {none}]
  /\ openTaskResults \in [Paths -> Instances \cup {none, bare}]
  /\ docCache \in [Paths -> Instances \cup {none}]

HooksInit ==
  /\ effects = [h \in Effects |-> "new"]
  /\ openTasks = [p \in Paths |-> none] /\ openTaskResults = [p \in Paths |-> none]
  /\ settledTasks = {} /\ reactions = [d \in Instances |-> <<>>]
  /\ docCache = [p \in Paths |-> none] /\ docDataCache = [p \in Paths |-> none]
  /\ swapped = FALSE /\ disordered = FALSE

-----------------------------------------------------------------------------
(* The context's caches rebuilt from the results of the open tasks. *)
seen(d) == [doc |-> d, version |-> version[d]]
rebuiltDocs(results) == [p \in Paths |-> IF results[p] \in Instances THEN results[p] ELSE none]
rebuiltData(results) == [p \in Paths |-> IF results[p] \in Instances THEN seen(results[p]) ELSE none]

Rebuild(results) ==
  /\ openTaskResults' = results
  /\ docCache' = rebuiltDocs(results) /\ docDataCache' = rebuiltData(results)

(* The effect of h, which renders with the context's cached documents: join  *)
(* the cached document, wait for the open task, or open. What the cleanups   *)
(* of the same commit have left is passed.                                   *)
subscriber(h, kind) == [id |-> [effect |-> h, kind |-> kind], filter |-> "all"]

Join(h, effectsNow, handlersNow, reactionsNow) ==
  LET p == pathOfEffect[h] IN
  \/ /\ docCache[p] # none
     /\ effects' = [effectsNow EXCEPT ![h] = "cached"]
     /\ handlers' = [handlersNow EXCEPT ![docCache[p]] = Append(@, subscriber(h, "cached"))]
     /\ reactions' = reactionsNow
     /\ UNCHANGED <<openTasks, pathOf, step>>
  \/ /\ docCache[p] = none /\ openTasks[p] # none
     /\ effects' = [effectsNow EXCEPT ![h] = "waiting"]
     /\ handlers' = handlersNow
     /\ reactions' = [reactionsNow EXCEPT ![openTasks[p]] = Append(@, [kind |-> "waiter", effect |-> h])]
     /\ UNCHANGED <<openTasks, pathOf, step>>
  \/ /\ docCache[p] = none /\ openTasks[p] = none
     /\ effects' = [effectsNow EXCEPT ![h] = "opening"]
     /\ handlers' = handlersNow
     /\ \E d \in Instances :
          /\ fresh(d)
          /\ pathOf' = [pathOf EXCEPT ![d] = p] /\ step' = [step EXCEPT ![d] = "load"]
          /\ openTasks' = [openTasks EXCEPT ![p] = d]
          /\ reactions' = [reactionsNow EXCEPT ![d] = <<[kind |-> "opener", effect |-> h]>>]

unjoined == <<swarmVars, existing, pubsubHandler, subscribed, closed, version, local, fires, unnotified,
              raced, closedEarly, settledTasks, disordered>>

Mount(h) ==
  /\ effects[h] = "new" /\ Join(h, effects, handlers, reactions)
  /\ UNCHANGED <<unjoined, openTaskResults, docCache, docDataCache, swapped>>

-----------------------------------------------------------------------------
(* The cleanup of effect h: unsubscribe through the result of the open task, *)
(* and with the last subscriber of the path evict the caches now and the     *)
(* task once it has settled.                                                 *)
unsubscribed(h) ==
  LET result == openTaskResults[pathOfEffect[h]]
  IN IF effects[h] \in Subscribed /\ result \in Instances
     THEN unsubscribe(result, [effect |-> h, kind |-> effects[h]]) ELSE handlers

last(h) == subscriberCount(pathOfEffect[h]) = 1

evicting(h) ==
  LET p == pathOfEffect[h]
  IN IF last(h) /\ openTasks[p] # none
     THEN [reactions EXCEPT ![openTasks[p]] = Append(@, [kind |-> "evict", effect |-> h])]
     ELSE reactions

EvictCaches(h) ==
  IF last(h) THEN Rebuild([openTaskResults EXCEPT ![pathOfEffect[h]] = none])
  ELSE UNCHANGED <<openTaskResults, docCache, docDataCache>>

(* Mutant: the task is dropped at once, not when it has settled. *)
UnmountDropsTask(h) ==
  /\ effects[h] \in Mounted /\ effects' = [effects EXCEPT ![h] = "out"]
  /\ handlers' = unsubscribed(h) /\ reactions' = evicting(h) /\ EvictCaches(h)
  /\ openTasks' = IF last(h) THEN [openTasks EXCEPT ![pathOfEffect[h]] = none] ELSE openTasks
  /\ UNCHANGED <<unjoined, pathOf, step, swapped>>

Unmount(h) ==
  /\ effects[h] \in Mounted /\ effects' = [effects EXCEPT ![h] = "out"]
  /\ handlers' = unsubscribed(h) /\ reactions' = evicting(h) /\ EvictCaches(h)
  /\ UNCHANGED <<unjoined, pathOf, step, openTasks, swapped>>

(* One commit cleans up g and mounts h: another component shows the document *)
(* next, or a dependency of the effect has changed.                          *)
Swap(g, h) ==
  /\ <<g, h>> \in Swaps /\ effects[g] \in Mounted /\ effects[h] = "new"
  /\ EvictCaches(g)
  /\ Join(h, [effects EXCEPT ![g] = "out"], unsubscribed(g), evicting(g))
  /\ swapped' = (swapped \/ (last(g) /\ docCache[pathOfEffect[g]] # none))
  /\ UNCHANGED unjoined

-----------------------------------------------------------------------------
(* The open task settles: open() has, and the readers and writers are read. *)
TaskSettles(d) ==
  /\ step[d] \in {"open", "failed"} /\ d \notin settledTasks
  /\ settledTasks' = settledTasks \cup {d}
  /\ UNCHANGED <<swarmVars, lifecycleVars, effects, openTasks, openTaskResults, reactions,
                 docCache, docDataCache, swapped, disordered>>

(* The continuations: of the opener, of an effect that waited, of a cleanup. *)
Opened(h, d) ==
  /\ Rebuild([openTaskResults EXCEPT ![pathOfEffect[h]] = d])
  /\ handlers' = [handlers EXCEPT ![d] = Append(@, subscriber(h, "opener"))]
  /\ effects' = [effects EXCEPT ![h] = "opener"]

Waited(h, d) ==
  LET p == pathOfEffect[h] IN
  /\ Rebuild(IF openTaskResults[p] = none THEN [openTaskResults EXCEPT ![p] = d] ELSE openTaskResults)
  /\ handlers' = [handlers EXCEPT ![d] = Append(@, subscriber(h, "waiter"))]
  /\ effects' = [effects EXCEPT ![h] = "waiter"]

Continue(d) ==
  LET r == Head(reactions[d])
      h == r.effect
      p == pathOfEffect[h]
      resolved == step[d] = "open"
      awaiting == effects[h] \in {"opening", "waiting"}
      evicts == r.kind = "evict" /\ (resolved => subscriberCount(p) = 0)
  IN
  /\ d \in microtasks
  /\ reactions' = [reactions EXCEPT ![d] = Tail(@)]
  /\ openTasks' = IF evicts THEN [openTasks EXCEPT ![p] = none] ELSE openTasks
  /\ UNCHANGED pubsubHandler
  /\ IF evicts /\ resolved THEN CloseDocument(d)
     ELSE UNCHANGED <<pubsubVars, subscribed, registry, closed>>
  /\ \/ r.kind = "opener" /\ awaiting /\ resolved /\ Opened(h, d)
     \/ r.kind = "waiter" /\ awaiting /\ resolved /\ Waited(h, d)
     \/ /\ r.kind # "evict" /\ awaiting /\ ~resolved /\ effects' = [effects EXCEPT ![h] = "rejected"]
        /\ UNCHANGED <<openTaskResults, docCache, docDataCache, handlers>>
     \/ /\ r.kind = "evict" \/ ~awaiting
        /\ UNCHANGED <<effects, openTaskResults, docCache, docDataCache, handlers>>
  /\ UNCHANGED <<nodeVars, peerVars, overlapped, stopFailed, pathOf, step, existing, version, local, fires,
                 unnotified, raced, closedEarly, settledTasks, swapped, disordered>>

(* A notification calls the handler of an effect. The opener's writes a      *)
(* result even when there is none.                                           *)
Notify(f) ==
  LET h == Head(f.left).id.effect
      p == pathOfEffect[h]
      sent == [doc |-> f.doc, version |-> f.seen]
      opener == Head(f.left).id.kind = "opener"
      data == docDataCache[p]
  IN
  /\ fires' = afterHandler(f)
  /\ openTaskResults' = IF opener /\ openTaskResults[p] = none
                        THEN [openTaskResults EXCEPT ![p] = bare] ELSE openTaskResults
  /\ docDataCache' = [rebuiltData(openTaskResults') EXCEPT
                        ![p] = IF opener /\ openTaskResults'[p] = bare THEN none ELSE sent]
  /\ disordered' = (disordered \/ effects[h] = "out"
                     \/ (data # none /\ (data.doc # f.doc \/ data.version > f.seen)))
  /\ UNCHANGED <<swarmVars, docVars, version, local, handlers, unnotified, raced, closedEarly,
                 effects, openTasks, reactions, docCache, settledTasks, swapped>>

(* The change function that the hook returns; without a cached document it   *)
(* does nothing.                                                             *)
HookChange(h) ==
  LET d == docCache[pathOfEffect[h]] IN
  /\ effects[h] \in Mounted /\ d # none /\ startChange(d)
  /\ UNCHANGED <<swarmVars, docVars, version, handlers, fires, unnotified, raced, closedEarly, hookVars>>

HooksNext ==
  \/ \E d \in Instances : Continue(d)
  \/ /\ microtasks = {}
     /\ \/ \E h \in Effects : Mount(h) \/ Unmount(h) \/ HookChange(h)
        \/ \E g, h \in Effects : Swap(g, h)
        \/ \E d \in Instances : TaskSettles(d)
        \/ DocumentStep /\ UNCHANGED hookVars
        \/ \E f \in fires : Notify(f)

-----------------------------------------------------------------------------
(* "The open-task map deduplicates an in-flight open, including a rapid      *)
(* StrictMode remount": a path never has two instances that are opening or   *)
(* open, so the registry never refuses one.                                  *)
OneInstance ==
  \A d, e \in Instances :
    /\ pathOf[d] = pathOf[e] /\ pathOf[d] # none
    /\ {step[d], step[e]} \subseteq {"load", "validate", "found", "open"} /\ {d, e} \cap closed = {}
    => d = e

(* "the last subscriber closes and evicts that document": with no effect     *)
(* mounted and no task open, no instance of the path is left open.           *)
OrphanClosed ==
  microtasks = {} =>
    \A p \in Paths :
      /\ subscriberCount(p) = 0
      /\ \A d \in Instances : pathOf[d] = p => d \in settledTasks
      => openTasks[p] = none /\ p \notin topics /\ \A d \in Instances : opened(d) => pathOf[d] # p

(* An effect that has subscribed renders with its document in the context,   *)
(* and that document is open, however effects were mounted and cleaned up in *)
(* commits of their own.                                                     *)
HasDocument(h) == LET d == docCache[pathOfEffect[h]] IN d # none /\ opened(d)
MountedHasDocument ==
  microtasks = {} /\ ~swapped /\ ~disordered =>
    \A h \in Effects : effects[h] \in Subscribed => HasDocument(h)

(* "openTaskResults is safe to delete immediately": the same, when one       *)
(* commit cleans up an effect and mounts another.                            *)
SwappedHasDocument ==
  microtasks = {} /\ ~disordered => \A h \in Effects : effects[h] \in Subscribed => HasDocument(h)

(* With no notification under way an effect shows its document as it is,     *)
(* provided notifications kept their order and none was omitted.             *)
MountedShowsDocument ==
  microtasks = {} /\ fires = {} /\ (\A d \in Instances : local[d] # "publish")
    /\ ~swapped /\ ~disordered /\ ~unnotified
  => \A h \in Effects : effects[h] \in Subscribed =>
       docDataCache[pathOfEffect[h]] = seen(docCache[pathOfEffect[h]])

(* "access the current CRDT state": the same, whatever the order in which    *)
(* notifications end their awaits.                                           *)
ShowsCurrent ==
  microtasks = {} /\ fires = {} /\ (\A d \in Instances : local[d] # "publish")
    /\ ~swapped /\ ~unnotified
  => \A h \in Effects : effects[h] \in Subscribed /\ HasDocument(h) =>
       docDataCache[pathOfEffect[h]] = seen(docCache[pathOfEffect[h]])
=============================================================================
