---------------------------- MODULE IndexManager ----------------------------
(***************************************************************************)
(* The local index: IndexManager over a storage, fed with the changes of   *)
(* tracked documents by CollabswarmIndexIntegration and used through the   *)
(* hooks useDefineIndexes and useIndexQuery.  Calls are asynchronous: a    *)
(* storage request takes effect when it is issued and its answer resumes   *)
(* the caller later; answers of one store come in the order of the         *)
(* requests, those of different stores in any order.                       *)
(*                                                                         *)
(* The storage is IndexedDB: initialize() closes the connection until the  *)
(* schema is upgraded, and a request without a connection, or a write to a *)
(* store that does not exist, throws.                                      *)
(***************************************************************************)
EXTENDS Integers, Sequences, SequencesExt, FiniteSets

CONSTANTS
  Paths,            \* document paths
  Indexes,          \* the definitions of the component, in its order
  collection,       \* per index, the paths its collectionPrefix matches
  Documents,        \* states of a document, as functions from index to indexed fields
  MaxOperations,    \* bound on the operations of the application
  Operations,       \* kinds of operation the application uses
  none              \* no entry

VARIABLES
  document,         \* state of each document
  tracked,          \* _trackedDocuments
  definitions,      \* _definitions, in insertion order
  db,               \* the storage has a connection
  opening,          \* initialize() calls in flight, by index
  stores,           \* object stores that exist
  store,            \* their entries
  calls,            \* running calls of updateIndex, removeFromIndex and rebuildIndex,
                    \* in the order of the requests they await
  hook,             \* the effect of useDefineIndexes
  sub,              \* the live subscription of useIndexQuery, 0 for none
  queries,          \* its queries in flight
  shown,            \* the result that useIndexQuery returns
  used,             \* operations so far
  failed,           \* an initialization has failed
  overlapped,       \* some call ran beside another call or an initialization
  silent,           \* the result changed and no query after that reached the storage
  due               \* per path, indexes that the last update found defined

indexVars == <<document, tracked, definitions, db, opening, stores, store, calls, hook,
               sub, queries, shown, used, failed, overlapped, silent, due>>

storageVars == <<db, opening, stores>>
historyVars == <<failed, overlapped, silent, due>>

names == Range(Indexes)
target == Indexes[1]        \* the index that the subscription queries
noResult == [p \in Paths |-> none]

IndexTypeOK ==
  /\ tracked \subseteq Paths /\ Range(definitions) \subseteq names
  /\ IsInjective(definitions)
  /\ opening \subseteq names /\ (db => stores # {})
  /\ \A i \in names \ stores : store[i] = noResult
  /\ \A k \in DOMAIN calls : calls[k].seen \subseteq names
  /\ hook.at \in 1..(Len(Indexes) + 1) /\ hook.names \subseteq names

IndexInit ==
  /\ document \in [Paths -> Documents]
  /\ tracked = {} /\ calls = <<>> /\ opening = {}
  /\ \/ "define" \in Operations /\ definitions = <<>> /\ stores = {} /\ db = FALSE
     \/ "define" \notin Operations /\ definitions = Indexes /\ stores = names /\ db = TRUE
  /\ store = [i \in names |-> noResult]
  /\ hook = [mounted |-> FALSE, at |-> 1, awaits |-> FALSE, names |-> {}, ok |-> TRUE]
  /\ sub = 0 /\ queries = <<>> /\ shown = noResult
  /\ used = 0 /\ failed = FALSE
  /\ overlapped = FALSE /\ silent = FALSE /\ due = [p \in Paths |-> {}]

Allowed(operation) == operation \in Operations /\ used < MaxOperations /\ used' = used + 1

-----------------------------------------------------------------------------
(* query() of the subscription: without the index it answers at once, without *)
(* a connection it throws and is only logged.                                 *)
Query(id) ==
  IF target \notin Range(definitions)
    THEN <<[id |-> id, result |-> noResult, stored |-> FALSE]>>
    ELSE IF db THEN <<[id |-> id, result |-> store[target], stored |-> TRUE]>> ELSE <<>>

(* _notifySubscribers *)
NotifySubscribers == queries' = IF sub = 0 THEN queries ELSE queries \o Query(sub)

(* A result arrives: the subscription may be gone.  Reads of one store with a *)
(* write between them answer in order; an answer at once overtakes them.      *)
Deliver(j) ==
  /\ \A l \in 1..(j - 1) : ~queries[j].stored /\ queries[l].stored
  /\ shown' = IF queries[j].id = sub THEN queries[j].result ELSE shown
  /\ queries' = RemoveAt(queries, j)
  /\ UNCHANGED <<document, tracked, definitions, storageVars, store, calls, hook, sub,
                 used, historyVars>>

Subscribe ==
  /\ Allowed("subscribe") /\ sub = 0
  /\ sub' = used'
  /\ queries' = queries \o Query(sub')
  /\ silent' = (target \in Range(definitions) /\ ~db)
  /\ UNCHANGED <<document, tracked, definitions, storageVars, store, calls, hook, shown,
                 failed, overlapped, due>>

Unsubscribe ==
  /\ Allowed("subscribe") /\ sub # 0 /\ sub' = 0
  /\ UNCHANGED <<document, tracked, definitions, storageVars, store, calls, hook, queries,
                 shown, historyVars>>

-----------------------------------------------------------------------------
(* updateIndex, removeFromIndex and rebuildIndex as loops over awaited        *)
(* requests.  k is the place of the running call, 0 for a call that starts.   *)
others(k) == IF k = 0 THEN calls ELSE RemoveAt(calls, k)
Keep(k, call) == calls' = Append(others(k), call)
Drop(k) == calls' = others(k)

(* A request throws: the call rejects, which its caller logs. *)
Reject(k, call) ==
  /\ Drop(k)
  /\ silent' = (silent \/ call.changed)
  /\ UNCHANGED <<store, queries>>

Finish(k, call) ==
  /\ Drop(k)
  /\ IF call.changed
       THEN NotifySubscribers /\ silent' = (silent \/ ~db)
       ELSE UNCHANGED <<queries, silent>>
  /\ UNCHANGED store

PutUnmarked(k, call, fields) ==
  IF ~db \/ call.index \notin stores
    THEN Reject(k, call)
    ELSE /\ store' = [store EXCEPT ![call.index][call.path] = fields]
         /\ Keep(k, [call EXCEPT !.step = "put"])
         /\ UNCHANGED <<queries, silent>>

Put(k, call, fields) ==
  IF ~db \/ call.index \notin stores
    THEN Reject(k, call)
    ELSE /\ store' = [store EXCEPT ![call.index][call.path] = fields]
         /\ Keep(k, [call EXCEPT !.step = "put", !.changed = TRUE])
         /\ UNCHANGED <<queries, silent>>

(* The live iteration over _definitions: an index defined meanwhile is visited. *)
Visit(k, call) ==
  LET wanted(i) == i \notin call.seen /\ (call.op = "update" => call.path \in collection[i])
      i == definitions[SelectInSeq(definitions, wanted)]
      next == [call EXCEPT !.index = i, !.seen = @ \cup {i}]
  IN  IF SelectInSeq(definitions, wanted) = 0
        THEN Finish(k, call)
        ELSE IF ~db THEN Reject(k, call)
        ELSE /\ UNCHANGED <<queries, silent>>
             /\ CASE call.op = "update" ->
                       /\ Keep(k, [next EXCEPT !.step = "get", !.existing = store[i][call.path]])
                       /\ UNCHANGED store
                  [] call.op = "remove" ->
                       /\ Keep(k, [next EXCEPT !.step = "delete"])
                       /\ store' = [store EXCEPT ![i][call.path] = none]

Start(op, path, fields) ==
  [op |-> op, path |-> path, fields |-> fields, index |-> target, seen |-> {},
   existing |-> none, changed |-> op # "update", step |-> "start"]

(* The storage answers the request of call k. *)
AnswerUnchecked(k) ==
  LET call == calls[k]
  IN  /\ \A l \in 1..(k - 1) : calls[l].index # call.index
      /\ CASE call.step = "get" ->
                IF call.existing = none
                  THEN Put(k, call, call.fields[call.index]) ELSE Visit(k, call)
           [] call.step = "clear" -> Put(k, call, document[call.path][call.index])
           [] call.op = "rebuild" /\ call.step = "put" -> Finish(k, call)
           [] OTHER -> Visit(k, call)
      /\ UNCHANGED <<document, tracked, definitions, storageVars, hook, sub, shown, used,
                     failed, overlapped, due>>

Answer(k) ==
  LET call == calls[k]
  IN  /\ \A l \in 1..(k - 1) : calls[l].index # call.index
      /\ CASE call.step = "get" ->
                IF call.existing = call.fields[call.index]
                  THEN Visit(k, call) ELSE Put(k, call, call.fields[call.index])
           [] call.step = "clear" -> Put(k, call, document[call.path][call.index])
           [] call.op = "rebuild" /\ call.step = "put" -> Finish(k, call)
           [] OTHER -> Visit(k, call)
      /\ UNCHANGED <<document, tracked, definitions, storageVars, hook, sub, shown, used,
                     failed, overlapped, due>>

busy == calls # <<>> \/ opening # {}

UpdateIndex(path, state) ==
  /\ Visit(0, Start("update", path, state))
  /\ overlapped' = (overlapped \/ busy) /\ UNCHANGED failed
  /\ due' = [due EXCEPT ![path] = {i \in Range(definitions) : path \in collection[i]}]

(* A local or remote change of a document runs the handlers that subscribed. *)
Change(path, state) ==
  /\ Allowed("change")
  /\ document[path] # state
  /\ document' = [document EXCEPT ![path] = state]
  /\ IF path \in tracked THEN UpdateIndex(path, state)
                         ELSE UNCHANGED <<calls, store, queries, historyVars>>
  /\ UNCHANGED <<tracked, definitions, storageVars, hook, sub, shown>>

TrackDocument(path) ==
  /\ Allowed("track") /\ path \notin tracked
  /\ tracked' = tracked \cup {path}
  /\ UpdateIndex(path, document[path])
  /\ UNCHANGED <<document, definitions, storageVars, hook, sub, shown>>

UntrackDocument(path) ==
  /\ Allowed("untrack") /\ path \in tracked
  /\ tracked' = tracked \ {path}
  /\ Visit(0, Start("remove", path, none))
  /\ overlapped' = (overlapped \/ busy)
  /\ due' = [due EXCEPT ![path] = {}]
  /\ UNCHANGED <<document, definitions, storageVars, hook, sub, shown, failed>>

Dispose ==
  /\ Allowed("dispose") /\ tracked # {}
  /\ tracked' = {}
  /\ UNCHANGED <<document, definitions, storageVars, store, calls, hook, sub, queries, shown,
                 historyVars>>

(* rebuildIndex(index, the document at path): clears, then writes it. *)
RebuildIndex(index, path) ==
  /\ Allowed("rebuild") /\ index \in Range(definitions) /\ path \in collection[index]
  /\ LET call == [Start("rebuild", path, none) EXCEPT !.index = index, !.step = "clear"]
     IN  IF db THEN /\ store' = [store EXCEPT ![index] = noResult]
                    /\ Keep(0, call)
                    /\ UNCHANGED <<queries, silent>>
               ELSE Reject(0, [call EXCEPT !.changed = FALSE])
  /\ overlapped' = (overlapped \/ busy)
  /\ due' = [p \in Paths |-> due[p] \ {index}]
  /\ UNCHANGED <<document, tracked, definitions, storageVars, hook, sub, shown, failed>>

-----------------------------------------------------------------------------
(* useDefineIndexes: the effect awaits defineIndex for each definition; its   *)
(* cleanup removes those whose definition had been awaited.                   *)

(* defineIndex(Indexes[at]) is idempotent for the same definition; its         *)
(* initialize() closes the connection unless the store is known and open.     *)
initializes(at) == Indexes[at] \notin Range(definitions) /\ ~(db /\ Indexes[at] \in stores)

DefineIndex(at) ==
  /\ definitions' = IF Indexes[at] \in Range(definitions)
                      THEN definitions ELSE Append(definitions, Indexes[at])
  /\ overlapped' = (overlapped \/ busy)
  /\ silent' = (silent \/ target \in Range(definitions') \ Range(definitions))
  /\ UNCHANGED <<stores, document, tracked, store, calls, sub, queries, shown, due>>

Mount ==
  /\ Allowed("define") /\ ~hook.mounted /\ UNCHANGED failed
  /\ hook' = [mounted |-> TRUE, at |-> 1, awaits |-> initializes(1), names |-> {}, ok |-> TRUE]
  /\ DefineIndex(1)
  /\ IF initializes(1) THEN db' = FALSE /\ opening' = opening \cup {Indexes[1]}
                        ELSE UNCHANGED <<db, opening>>

(* The effect goes on after a definition that resolved or threw. *)
Proceed(resolved, open, rest) ==
  LET at == hook.at + 1
      more == at <= Len(Indexes)
  IN  /\ hook' = [hook EXCEPT !.at = at, !.ok = @ /\ resolved,
                              !.names = IF resolved THEN @ \cup {Indexes[hook.at]} ELSE @,
                              !.awaits = more /\ initializes(at)]
      /\ IF more THEN DefineIndex(at)
                 ELSE UNCHANGED <<definitions, stores, document, tracked, store, calls, sub,
                                  queries, shown, overlapped, silent, due>>
      /\ IF more /\ initializes(at)
           THEN db' = FALSE /\ opening' = rest \cup {Indexes[at]}
           ELSE db' = open /\ opening' = rest

running == hook.mounted /\ hook.at \in DOMAIN Indexes

(* defineIndex found the definition, or its initialize() has returned. *)
Defined ==
  /\ running /\ (hook.awaits => Indexes[hook.at] \notin opening)
  /\ Proceed(TRUE, db, opening)
  /\ UNCHANGED <<used, failed>>

Initialized(i) ==
  /\ opening' = opening \ {i} /\ stores' = stores \cup {i} /\ db' = TRUE
  /\ UNCHANGED <<document, tracked, definitions, store, calls, hook, sub, queries, shown, used,
                 historyVars>>

(* initialize() throws; the definition stays. *)
InitializeFails(i) ==
  /\ ~failed /\ failed' = TRUE /\ UNCHANGED used
  /\ IF running /\ hook.awaits /\ Indexes[hook.at] = i
       THEN Proceed(FALSE, db, opening \ {i})
       ELSE /\ opening' = opening \ {i}
            /\ UNCHANGED <<document, tracked, definitions, db, stores, store, calls, hook, sub,
                           queries, shown, overlapped, silent, due>>

(* removeIndex for each of the names; no subscriber is told. *)
Unmount ==
  /\ Allowed("define") /\ hook.mounted
  /\ hook' = [hook EXCEPT !.mounted = FALSE, !.names = {}]
  /\ definitions' = SelectSeq(definitions, LAMBDA i : i \notin hook.names)
  /\ store' = IF db THEN [i \in names |-> IF i \in hook.names THEN noResult ELSE store[i]]
                    ELSE store
  /\ calls' = [k \in DOMAIN calls |-> [calls[k] EXCEPT !.seen = @ \ hook.names]]
  /\ overlapped' = (overlapped \/ busy) /\ silent' = (silent \/ hook.names # {})
  /\ due' = [p \in Paths |-> due[p] \ hook.names]
  /\ UNCHANGED <<document, tracked, storageVars, sub, queries, shown, failed>>

IndexNext ==
  \/ \E j \in DOMAIN queries : Deliver(j)
  \/ \E k \in DOMAIN calls : Answer(k)
  \/ Subscribe \/ Unsubscribe \/ Dispose
  \/ \E path \in Paths :
       \/ \E state \in Documents : Change(path, state)
       \/ TrackDocument(path) \/ UntrackDocument(path)
       \/ \E i \in names : RebuildIndex(i, path)
  \/ Mount \/ Defined \/ Unmount
  \/ \E i \in opening : Initialized(i) \/ InitializeFails(i)

-----------------------------------------------------------------------------
ready == hook.mounted /\ hook.at > Len(Indexes) /\ hook.ok

(* Calls that do not overlap leave, in every index the last update found      *)
(* defined, the fields of the document as it is now, as long as no            *)
(* initialization failed: comparing with the old entry, or the removal and    *)
(* return of an index, loses no change.                                       *)
SerialCallsIndex ==
  ~overlapped /\ ~busy /\ ~failed =>
    \A path \in tracked : \A i \in due[path] :
      store[i][path] = document[path][i]

(* "The callback fires when the result set may have changed": once no call    *)
(* and no query is in flight, the hook shows what a query returns, however    *)
(* updates, removals and rebuilds overlapped, unless since it subscribed its  *)
(* index was defined or removed, or a call failed after a write.              *)
SubscriberCurrent ==
  sub # 0 /\ ~silent /\ ~busy /\ queries = <<>> =>
    shown = IF target \in Range(definitions) THEN store[target] ELSE noResult

(* What the hooks return is true: the above, and useDefineIndexes returns     *)
(* true only while every definition is registered, through unmounts, remounts *)
(* and failures in between.                                                   *)
(* It includes the types.                                                     *)
HooksCurrent ==
  /\ IndexTypeOK
  /\ SubscriberCurrent /\ (ready => names \subseteq Range(definitions))

(* "automatically updates the index on every change": without initializations *)
(* in between, a tracked document is indexed as it is when all calls are done. *)
IndexedIsCurrent ==
  ~busy => \A path \in tracked : \A i \in due[path] : store[i][path] = document[path][i]

(* "Unsubscribes from changes and removes from index." *)
UntrackedIsRemoved ==
  ~busy => \A path \in Paths \ tracked, i \in names : store[i][path] = none

(* "defines indexes on mount and removes them on unmount" *)
UnmountRemoves == ~hook.mounted /\ opening = {} => definitions = <<>>

(* "The callback fires when the result set may have changed", without exception. *)
CallbackFires ==
  sub # 0 /\ ~busy /\ queries = <<>> /\ db =>
    shown = IF target \in Range(definitions) THEN store[target] ELSE noResult
=============================================================================
