------------------------------ MODULE IdbSchema -----------------------------
(***************************************************************************)
(* IDBIndexStorage.initialize: probe the database's version and schema,    *)
(* and reopen it, one version up when a store or an index is missing.      *)
(* Several calls of one storage, and storages of several tabs, may run at  *)
(* once.                                                                   *)
(*                                                                         *)
(* IndexedDB is external: open requests are served one at a time in their  *)
(* order; an upgrade waits until no connection is open (the code installs  *)
(* no versionchange handler, so nobody closes one for it); a request for   *)
(* an older version fails with VersionError; a request for the version     *)
(* that the database already has opens it without an upgrade.              *)
(***************************************************************************)
EXTENDS Integers, Sequences, Functions, FiniteSets

CONSTANTS
  Calls,                \* initialize() calls; each also names the connection it opens
  tab, indexName, fields,  \* of each call: its storage object and its arguments
  MAX_OPEN_ATTEMPTS

ASSUME CallsAreFinite == IsFiniteSet(Calls)
ASSUME ArgumentsAssumption ==
  /\ DOMAIN tab = Calls /\ DOMAIN indexName = Calls
  /\ \A c \in Calls : "no store" \notin fields[c]
ASSUME AttemptsAssumption == MAX_OPEN_ATTEMPTS \in Nat \ {0}

VARIABLES
  version, schema,      \* the database: version, and indexes per store
  connections,          \* open connections
  requests,             \* open requests, in order
  phase, attempt,       \* per call
  probed,               \* per call: version and schema that its probe read
  idb,                  \* _db of each storage: a set of at most one connection
  indexedFields,        \* _indexedFields of each storage; its domain is _initializedStores
  raced                 \* two calls have run at the same time

schemaVars == <<version, schema, connections, requests, phase, attempt, probed, idb,
                indexedFields, raced>>

Storages == Range(tab)
Stores == Range(indexName)
absent == {"no store"}

SchemaTypeOK ==
  /\ version \in 1..(Cardinality(Calls) + 1)
  /\ connections \subseteq Calls
  /\ \A c \in Calls : attempt[c] \in 0..MAX_OPEN_ATTEMPTS
  /\ \A s \in Storages : Cardinality(idb[s]) <= 1 /\ idb[s] \subseteq connections
  /\ \A n \in DOMAIN requests : phase[requests[n]] \in {"probing", "reopening"}

SchemaInit ==
  /\ version = 1 /\ schema = [n \in Stores |-> absent]
  /\ connections = {} /\ requests = <<>>
  /\ phase = [c \in Calls |-> "idle"] /\ attempt = [c \in Calls |-> 0]
  /\ probed = [c \in Calls |-> [version |-> 0, schema |-> absent]]
  /\ idb = [s \in Storages |-> {}]
  /\ indexedFields = [s \in Storages |-> [n \in Stores |-> {}]]
  /\ raced = FALSE

settled == {"idle", "done", "failed"}

(* initialize(): nothing to do for a known store, otherwise close and probe. *)
Initialize(c) ==
  /\ phase[c] = "idle"
  /\ raced' = (raced \/ \E d \in Calls : phase[d] \notin settled)
  /\ IF idb[tab[c]] # {} /\ fields[c] \subseteq indexedFields[tab[c]][indexName[c]]
       THEN /\ phase' = [phase EXCEPT ![c] = "done"]
            /\ UNCHANGED <<connections, idb, requests>>
       ELSE /\ connections' = connections \ idb[tab[c]]
            /\ idb' = [idb EXCEPT ![tab[c]] = {}]
            /\ phase' = [phase EXCEPT ![c] = "probing"]
            /\ requests' = Append(requests, c)
  /\ UNCHANGED <<version, schema, attempt, probed, indexedFields>>

served(c) == requests # <<>> /\ Head(requests) = c

(* openDB without a version; reads version and index names and closes. *)
Probe(c) ==
  /\ phase[c] = "probing" /\ served(c)
  /\ probed' = [probed EXCEPT ![c] = [version |-> version, schema |-> schema[indexName[c]]]]
  /\ phase' = [phase EXCEPT ![c] = "probed"]
  /\ requests' = Tail(requests)
  /\ UNCHANGED <<version, schema, connections, attempt, idb, indexedFields, raced>>

needsUpgrade(c) == probed[c].schema = absent \/ ~(fields[c] \subseteq probed[c].schema)
wanted(c) == IF needsUpgrade(c) THEN probed[c].version + 1 ELSE probed[c].version

Reopen(c) ==
  /\ phase[c] = "probed"
  /\ phase' = [phase EXCEPT ![c] = "reopening"]
  /\ requests' = Append(requests, c)
  /\ UNCHANGED <<version, schema, connections, attempt, probed, idb, indexedFields, raced>>

(* openDB resolves: _db, _indexedFields and _initializedStores are set. *)
Connect(c) ==
  /\ requests' = Tail(requests)
  /\ connections' = connections \cup {c}
  /\ idb' = [idb EXCEPT ![tab[c]] = {c}]
  /\ indexedFields' = [indexedFields EXCEPT ![tab[c]][indexName[c]] =
                         (probed[c].schema \ absent) \cup fields[c]]
  /\ phase' = [phase EXCEPT ![c] = "done"]
  /\ UNCHANGED <<attempt, probed, raced>>

(* The upgrade callback creates the store and the indexes it lacks. *)
UpgradeStoreOnly(c) ==
  /\ phase[c] = "reopening" /\ served(c)
  /\ wanted(c) > version /\ connections = {}
  /\ version' = wanted(c)
  /\ schema' = [schema EXCEPT ![indexName[c]] = IF @ = absent THEN fields[c] ELSE @]
  /\ Connect(c)

Upgrade(c) ==
  /\ phase[c] = "reopening" /\ served(c)
  /\ wanted(c) > version /\ connections = {}
  /\ version' = wanted(c)
  /\ schema' = [schema EXCEPT ![indexName[c]] = (@ \ absent) \cup fields[c]]
  /\ Connect(c)

OpenSameVersion(c) ==
  /\ phase[c] = "reopening" /\ served(c)
  /\ wanted(c) = version
  /\ UNCHANGED <<version, schema>>
  /\ Connect(c)

(* VersionError: after a delay probe again, or give up. *)
VersionError(c) ==
  /\ phase[c] = "reopening" /\ served(c)
  /\ wanted(c) < version
  /\ attempt' = [attempt EXCEPT ![c] = @ + 1]
  /\ phase' = [phase EXCEPT ![c] = IF attempt'[c] < MAX_OPEN_ATTEMPTS THEN "delayed" ELSE "failed"]
  /\ requests' = Tail(requests)
  /\ UNCHANGED <<version, schema, connections, probed, idb, indexedFields, raced>>

Retry(c) ==
  /\ phase[c] = "delayed"
  /\ phase' = [phase EXCEPT ![c] = "probing"]
  /\ requests' = Append(requests, c)
  /\ UNCHANGED <<version, schema, connections, attempt, probed, idb, indexedFields, raced>>

(* close(); a reload of the tab would also forget indexedFields. *)
CloseStorage(s) ==
  /\ idb[s] # {}
  /\ connections' = connections \ idb[s]
  /\ idb' = [idb EXCEPT ![s] = {}]
  /\ UNCHANGED <<version, schema, requests, phase, attempt, probed, indexedFields, raced>>

SchemaNext ==
  \/ \E c \in Calls :
       \/ Initialize(c) \/ Probe(c) \/ Reopen(c) \/ Upgrade(c) \/ OpenSameVersion(c)
       \/ VersionError(c) \/ Retry(c)
  \/ \E s \in Storages : CloseStorage(s)

-----------------------------------------------------------------------------
(* "so query() never calls store.index() for an index that doesn't exist" *)
IndexedFieldsExist ==
  \A s \in Storages, n \in Stores : indexedFields[s][n] \subseteq schema[n]

(* A storage can close every connection that it opened; one that it cannot   *)
(* blocks every later upgrade, its own included.                             *)
connectionsOwned == connections = UNION Range(idb)

(* As long as initialize() calls follow one another, in one tab or several,  *)
(* the storages know only indexes that exist, keep no connection they cannot *)
(* close, and no call fails.                                                 *)
(* It includes the types.                                                    *)
SerialSchema ==
  /\ SchemaTypeOK
  /\ ~raced =>
       IndexedFieldsExist /\ connectionsOwned /\ \A c \in Calls : phase[c] # "failed"

=============================================================================
