----------------------------- MODULE ReduxStore -----------------------------
(***************************************************************************)
(* The Redux binding: the thunks openDocumentAsync, closeDocumentAsync and *)
(* changeDocumentAsync over the lifecycle of documents, and the reducer's  *)
(* map of open documents. A thunk is in one of its awaits. The            *)
(* continuations of settled promises run before anything from outside      *)
(* does.                                                                   *)
(***************************************************************************)
EXTENDS DocumentLifecycle

CONSTANT Thunks         \* dispatched thunks

VARIABLES
  documents,            \* state.documents: the reference and the document shown
  thunks,               \* where each thunk is
  outOfOrder,           \* a handler was called after it was unsubscribed or
                        \* with an older document than before
  edited                \* a local change was made

storeVars == <<documents, thunks, outOfOrder, edited>>

idleThunk == [kind |-> "none", path |-> none, at |-> "new", doc |-> none]

StoreTypeOK ==
  /\ \A p \in Paths : documents[p] # none => documents[p].ref \in Instances
  /\ \A t \in Thunks : thunks[t].at \in {"new", "closing", "opening", "done"}

StoreInit ==
  /\ documents = [p \in Paths |-> none] /\ thunks = [t \in Thunks |-> idleThunk]
  /\ outOfOrder = FALSE /\ edited = FALSE

(* What the reducer shows: a version of an instance. *)
entry(d, shown) == [ref |-> d, shown |-> shown]
now(d) == [doc |-> d, version |-> version[d]]

(* CLOSE_DOCUMENT and OPEN_DOCUMENT of the reducer. Mutant: a document as    *)
(* it was before open().                                                     *)
closeReducer(p) == [documents EXCEPT ![p] = none]

openReducerBefore(p, d) == [documents EXCEPT ![p] = entry(d, [doc |-> d, version |-> 0])]
openReducer(p, d) == [documents EXCEPT ![p] = entry(d, now(d))]

settledThunks == {t \in Thunks : \/ thunks[t].at = "closing"
                                 \/ /\ thunks[t].at = "opening"
                                    /\ step[thunks[t].doc] \in {"open", "failed"}}

-----------------------------------------------------------------------------
(* doc(), subscribe() and open() of a thunk. *)
openNext(t, p) ==
  \E d \in Instances :
    /\ Open(d, p, <<[id |-> p, filter |-> "remote"]>>)
    /\ thunks' = [thunks EXCEPT ![t] = [kind |-> "open", path |-> p, at |-> "opening", doc |-> d]]

(* The document that the store holds is unsubscribed and closed. *)
closePrevious(t, kind, p) ==
  LET d == documents[p].ref IN
  /\ thunks' = [thunks EXCEPT ![t] = [kind |-> kind, path |-> p, at |-> "closing", doc |-> d]]
  /\ handlers' = unsubscribe(d, p)
  /\ UNCHANGED pubsubHandler /\ CloseDocument(d)
  /\ UNCHANGED <<nodeVars, peerVars, overlapped, stopFailed, pathOf, step, existing, version, local, fires,
                 unnotified, raced, closedEarly, documents>>

OpenDocumentAsync(t, p) ==
  /\ thunks[t].at = "new"
  /\ \/ documents[p] # none /\ closePrevious(t, "open", p)
     \/ documents[p] = none /\ openNext(t, p) /\ UNCHANGED <<documents, swarmVars>>
  /\ UNCHANGED <<outOfOrder, edited>>

CloseDocumentAsync(t, p) ==
  /\ thunks[t].at = "new" /\ documents[p] # none
  /\ closePrevious(t, "close", p)
  /\ UNCHANGED <<outOfOrder, edited>>

(* close() has resolved: CLOSE_DOCUMENT, and the rest of the thunk. *)
CloseDispatched(t) ==
  /\ thunks[t].at = "closing"
  /\ documents' = closeReducer(thunks[t].path)
  /\ \/ thunks[t].kind = "open" /\ openNext(t, thunks[t].path)
     \/ /\ thunks[t].kind = "close" /\ thunks' = [thunks EXCEPT ![t].at = "done"]
        /\ UNCHANGED lifecycleVars
  /\ UNCHANGED <<swarmVars, outOfOrder, edited>>

(* open() has settled: OPEN_DOCUMENT, or the thunk rejects.                  *)
dispatched(p, d) == IF step[d] = "open" THEN openReducer(p, d) ELSE documents

OpenSettled(t) ==
  LET d == thunks[t].doc IN
  /\ t \in settledThunks /\ thunks[t].at = "opening"
  /\ documents' = dispatched(thunks[t].path, d)
  /\ thunks' = [thunks EXCEPT ![t].at = "done"]
  /\ UNCHANGED <<swarmVars, lifecycleVars, outOfOrder, edited>>

(* CHANGE_DOCUMENT is dispatched as soon as change() reaches its first await. *)
ChangeDocumentAsync(t, p) ==
  /\ thunks[t].at = "new" /\ documents[p] # none
  /\ LET d == documents[p].ref IN
     /\ startChange(d)
     /\ documents' = [documents EXCEPT ![p].shown = now(d)]
  /\ thunks' = [thunks EXCEPT ![t] = [kind |-> "change", path |-> p, at |-> "done", doc |-> none]]
  /\ edited' = TRUE
  /\ UNCHANGED <<swarmVars, docVars, version, handlers, fires, unnotified, raced, closedEarly, outOfOrder>>

(* A notification calls the handler, which dispatches SYNC_DOCUMENT; it is   *)
(* ignored while the path is not open.                                       *)
SyncDocument(f) ==
  LET p == Head(f.left).id
      sent == [doc |-> f.doc, version |-> f.seen]
  IN
  /\ fires' = afterHandler(f)
  /\ documents' = IF documents[p] = none THEN documents ELSE [documents EXCEPT ![p].shown = sent]
  /\ outOfOrder' = (outOfOrder \/ (documents[p] # none
                       /\ (documents[p].ref # f.doc \/ documents[p].shown.version > f.seen)))
  /\ UNCHANGED <<swarmVars, docVars, version, local, handlers, unnotified, raced, closedEarly, thunks, edited>>

StoreNext ==
  \/ \E t \in Thunks : CloseDispatched(t) \/ OpenSettled(t)
  \/ \E t \in Thunks, p \in Paths :
       OpenDocumentAsync(t, p) \/ CloseDocumentAsync(t, p) \/ ChangeDocumentAsync(t, p)
  \/ settledThunks = {} /\ DocumentStep /\ UNCHANGED storeVars
  \/ settledThunks = {} /\ \E f \in fires : SyncDocument(f)

-----------------------------------------------------------------------------
(* The reference that the store holds for a path is the instance that is     *)
(* registered for it, however the thunks of the path overlap.                *)
StoreHoldsLive ==
  settledThunks = {} =>
    \A p \in Paths : documents[p] # none => opened(documents[p].ref) /\ registry[p] = documents[p].ref

(* An instance that a thunk opened is in the store: none is left open that   *)
(* closeDocumentAsync cannot reach.                                          *)
OpenIsInStore ==
  settledThunks = {} =>
    \A t \in Thunks :
      LET d == thunks[t].doc
      IN thunks[t].kind = "open" /\ d # none /\ opened(d) =>
           documents[pathOf[d]] # none /\ documents[pathOf[d]].ref = d

(* With no notification under way the store shows the document of its        *)
(* reference as it is, when no local change was made (the documented         *)
(* limitation) and notifications kept their order: a change that arrives     *)
(* between subscribe() and OPEN_DOCUMENT is not lost.                        *)
StoreShowsDocument ==
  settledThunks = {} /\ fires = {} /\ ~edited /\ ~outOfOrder =>
    \A p \in Paths : documents[p] # none => documents[p].shown = now(documents[p].ref)

(* The store matches the documents of the node: it holds those that are open *)
(* and shows them as they are, however its thunks overlap.                   *)
(* It includes the types.                                                    *)
StoreMatchesDocuments == StoreTypeOK /\ StoreHoldsLive /\ OpenIsInStore /\ StoreShowsDocument

(* The document that the store shows for a path is one of the instance that  *)
(* it holds for it ("updates document data" of the open document).           *)
ShownIsOfReference ==
  \A p \in Paths : documents[p] # none => documents[p].shown.doc = documents[p].ref
=============================================================================
