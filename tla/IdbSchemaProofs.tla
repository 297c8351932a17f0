--------------------------- MODULE IdbSchemaProofs --------------------------
(***************************************************************************)
(* Proofs about the schema of the index database: for any number of tabs   *)
(* and initialize() calls, and any bound on the attempts, a storage knows  *)
(* only indexes that exist, and no call fails, while the calls follow one  *)
(* another (SerialSchema).                                                 *)
(***************************************************************************)
EXTENDS IdbSchema, FiniteSetTheorems, TLAPS

(* The storages of the tabs, with no step of the index around them.           *)
SchemaSpec == SchemaInit /\ [][SchemaNext]_schemaVars

FieldNames == absent \cup UNION {fields[c] : c \in Calls}
Phases == settled \cup {"probing", "probed", "reopening", "delayed"}

SchemaTypes ==
  /\ version \in Nat \ {0} /\ raced \in BOOLEAN /\ connections \in SUBSET Calls
  /\ phase \in [Calls -> Phases] /\ attempt \in [Calls -> Nat]
  /\ schema \in [Stores -> SUBSET FieldNames]
  /\ probed \in [Calls -> [version : Nat, schema : SUBSET FieldNames]]
  /\ idb \in [Storages -> SUBSET Calls]
  /\ indexedFields \in [Storages -> [Stores -> SUBSET (FieldNames \ absent)]]

(* A call is in the queue at most once, and while it awaits an open request.  *)
QueueInv ==
  /\ requests \in Seq(Calls) /\ IsInjective(requests)
  /\ \A n \in DOMAIN requests : phase[requests[n]] \in {"probing", "reopening"}

(* Every upgrade was that of a call that is done.                             *)
doneCalls == {c \in Calls : phase[c] = "done"}
VersionInv ==
  /\ version <= Cardinality(doneCalls) + 1
  /\ \A c \in Calls : probed[c].version <= version

AttemptInv ==
  \A c \in Calls : /\ attempt[c] <= MAX_OPEN_ATTEMPTS
                   /\ phase[c] \notin {"done", "failed"} => attempt[c] < MAX_OPEN_ATTEMPTS

(* The connection of a storage is one that a call of its own opened.          *)
OwnerInv ==
  \A s \in Storages :
    /\ idb[s] \subseteq connections
    /\ \A c \in idb[s] : tab[c] = s
    /\ \A c, d \in idb[s] : c = d

(* A call that runs alone has closed its storage's connection, and what it    *)
(* has probed is what the database still is.                                  *)
AloneInv ==
  ~raced =>
    /\ \A c, d \in Calls : phase[c] \notin settled /\ phase[d] \notin settled => c = d
    /\ \A c \in Calls : phase[c] \notin settled => idb[tab[c]] = {}
    /\ \A c \in Calls : phase[c] \in {"probed", "reopening"} =>
         probed[c].version = version /\ probed[c].schema = schema[indexName[c]]

KnownInv ==
  ~raced => IndexedFieldsExist /\ connectionsOwned /\ \A c \in Calls : phase[c] # "failed"

SchemaInv ==
  SchemaTypes /\ QueueInv /\ VersionInv /\ AttemptInv /\ OwnerInv /\ AloneInv /\ KnownInv

-----------------------------------------------------------------------------
(* The storage and the store of a call.                                       *)
LEMMA OfCall ==
  ASSUME NEW c \in Calls
  PROVE  tab[c] \in Storages /\ indexName[c] \in Stores /\ "no store" \notin fields[c]
BY ArgumentsAssumption, ZenonT(30) DEF Storages, Stores, Range

(* An open request goes to the end of the queue.                              *)
LEMMA Requested ==
  ASSUME QueueInv, phase \in [Calls -> Phases], NEW c \in Calls,
         phase[c] \notin {"probing", "reopening"}, NEW ph \in {"probing", "reopening"},
         requests' = Append(requests, c), phase' = [phase EXCEPT ![c] = ph]
  PROVE  QueueInv'
<1>1. requests \in Seq(Calls) /\ Len(requests) \in Nat /\ DOMAIN requests = 1..Len(requests)
  BY DEF QueueInv
<1>2. /\ requests' \in Seq(Calls) /\ DOMAIN requests' = 1..(Len(requests) + 1)
      /\ requests'[Len(requests) + 1] = c /\ \A n \in DOMAIN requests : requests'[n] = requests[n]
  BY <1>1
<1>3. \A n \in DOMAIN requests : requests[n] \in Calls /\ requests[n] # c
  BY <1>1 DEF QueueInv
<1>4. IsInjective(requests')
  BY <1>1, <1>2, <1>3 DEF QueueInv, IsInjective
<1>5. \A n \in DOMAIN requests' : phase'[requests'[n]] \in {"probing", "reopening"}
  BY <1>1, <1>2, <1>3 DEF QueueInv
<1> QED
  BY <1>2, <1>4, <1>5 DEF QueueInv

(* The first request of the queue is served.                                  *)
LEMMA Served ==
  ASSUME QueueInv, phase \in [Calls -> Phases], NEW c \in Calls, served(c), NEW ph,
         requests' = Tail(requests), phase' = [phase EXCEPT ![c] = ph]
  PROVE  QueueInv'
<1>1. /\ requests \in Seq(Calls) /\ Len(requests) \in Nat /\ Len(requests) > 0
      /\ DOMAIN requests = 1..Len(requests) /\ requests[1] = c
  BY DEF QueueInv, served
<1>2. /\ requests' \in Seq(Calls) /\ DOMAIN requests' = 1..(Len(requests) - 1)
      /\ \A n \in 1..(Len(requests) - 1) : requests'[n] = requests[n + 1]
  BY <1>1
<1>3. \A n \in 1..(Len(requests) - 1) : n + 1 \in DOMAIN requests /\ n + 1 # 1
  BY <1>1
<1>4. \A n \in 1..(Len(requests) - 1) : requests[n + 1] \in Calls /\ requests[n + 1] # c
  BY <1>1, <1>3 DEF QueueInv, IsInjective
<1>5. IsInjective(requests')
  <2> SUFFICES ASSUME NEW a \in DOMAIN requests', NEW b \in DOMAIN requests',
                      requests'[a] = requests'[b]
               PROVE  a = b
    BY DEF IsInjective
  <2>1. a + 1 = b + 1
    BY <1>2, <1>3 DEF QueueInv, IsInjective
  <2> QED
    BY <1>1, <1>2, <2>1
<1>6. \A n \in DOMAIN requests' : phase'[requests'[n]] \in {"probing", "reopening"}
  BY <1>2, <1>3, <1>4 DEF QueueInv
<1> QED
  BY <1>2, <1>5, <1>6 DEF QueueInv

(* A call that returns is one more that is done.                              *)
LEMMA DoneGrows ==
  ASSUME phase \in [Calls -> Phases], NEW c \in Calls, phase[c] # "done",
         phase' = [phase EXCEPT ![c] = "done"]
  PROVE  /\ Cardinality(doneCalls) \in Nat
         /\ Cardinality(doneCalls') = Cardinality(doneCalls) + 1
<1>1. doneCalls' = doneCalls \cup {c} /\ c \notin doneCalls /\ doneCalls \subseteq Calls
  BY DEF doneCalls
<1>2. IsFiniteSet(doneCalls)
  BY <1>1, CallsAreFinite, FS_Subset, Zenon
<1> QED
  BY <1>1, <1>2, FS_AddElement, FS_CardinalityType, Zenon

(* No other step of a call changes which are done.                            *)
LEMMA DoneStays ==
  ASSUME phase \in [Calls -> Phases], NEW c \in Calls, phase[c] # "done",
         NEW ph, ph # "done", phase' = [phase EXCEPT ![c] = ph]
  PROVE  doneCalls' = doneCalls
BY DEF doneCalls

-----------------------------------------------------------------------------
(* The first state.                                                           *)
LEMMA SchemaInvInit == SchemaInit => SchemaInv
<1> SUFFICES ASSUME SchemaInit PROVE SchemaInv
  OBVIOUS
<1>1. SchemaTypes
  <2>1. /\ version \in Nat \ {0} /\ connections \in SUBSET Calls
        /\ phase \in [Calls -> Phases] /\ attempt \in [Calls -> Nat]
        /\ schema \in [Stores -> SUBSET FieldNames] /\ idb \in [Storages -> SUBSET Calls]
    BY DEF SchemaInit, Phases, settled, FieldNames
  <2>2. probed \in [Calls -> [version : Nat, schema : SUBSET FieldNames]]
    BY DEF SchemaInit, FieldNames
  <2>3. indexedFields \in [Storages -> [Stores -> SUBSET (FieldNames \ absent)]]
    BY DEF SchemaInit
  <2>4. raced \in BOOLEAN
    BY Zenon DEF SchemaInit
  <2> QED
    BY <2>1, <2>2, <2>3, <2>4 DEF SchemaTypes
<1>2. QueueInv
  BY DEF SchemaInit, QueueInv, IsInjective
<1>3. VersionInv
  <2>1. IsFiniteSet(doneCalls)
    BY CallsAreFinite, FS_Subset, Zenon DEF doneCalls
  <2>2. Cardinality(doneCalls) \in Nat
    BY <2>1, FS_CardinalityType, Zenon
  <2> QED
    BY <2>2 DEF SchemaInit, VersionInv
<1>4. AttemptInv
  BY AttemptsAssumption DEF SchemaInit, AttemptInv
<1>5. OwnerInv
  BY DEF SchemaInit, OwnerInv
<1>6. AloneInv
  BY DEF SchemaInit, AloneInv, settled
<1>7. KnownInv
  <2>1. IndexedFieldsExist
    BY DEF SchemaInit, IndexedFieldsExist
  <2>2. connectionsOwned
    BY DEF SchemaInit, connectionsOwned, Range
  <2> QED
    BY <2>1, <2>2 DEF KnownInv, SchemaInit
<1> QED
  BY <1>1, <1>2, <1>3, <1>4, <1>5, <1>6, <1>7 DEF SchemaInv

(* initialize() finds its store known, and returns.                           *)
LEMMA InitializeReturns ==
  ASSUME SchemaInv, NEW c \in Calls, phase[c] = "idle", phase' = [phase EXCEPT ![c] = "done"],
         raced' = (raced \/ \E d \in Calls : phase[d] \notin settled),
         UNCHANGED <<connections, idb, requests, version, schema, attempt, probed, indexedFields>>
  PROVE  SchemaInv'
<1>1. SchemaTypes /\ phase \in [Calls -> Phases]
  BY DEF SchemaInv, SchemaTypes
<1>2. phase'[c] = "done" /\ \A d \in Calls : d # c => phase'[d] = phase[d]
  BY <1>1
<1>3. ~raced' => ~raced
  BY ZenonT(30)
<1>4. SchemaTypes'
  <2>1. phase' \in [Calls -> Phases]
    BY <1>1 DEF Phases, settled
  <2>2. raced' \in BOOLEAN
    OBVIOUS
  <2> QED
    BY <1>1, <2>1, <2>2 DEF SchemaTypes
<1>5. QueueInv'
  BY <1>2 DEF SchemaInv, QueueInv
<1>6. VersionInv'
  <2>1. /\ Cardinality(doneCalls) \in Nat
        /\ Cardinality(doneCalls') = Cardinality(doneCalls) + 1
    BY <1>1, DoneGrows, ZenonT(30)
  <2> HIDE DEF doneCalls
  <2> QED
    BY <1>1, <2>1 DEF SchemaInv, VersionInv, SchemaTypes
<1>7. AttemptInv' /\ OwnerInv'
  BY <1>2 DEF SchemaInv, AttemptInv, OwnerInv
<1>8. AloneInv'
  BY <1>2, <1>3 DEF SchemaInv, AloneInv, settled
<1>9. KnownInv'
  BY <1>2, <1>3 DEF SchemaInv, KnownInv, IndexedFieldsExist, connectionsOwned
<1> QED
  BY <1>4, <1>5, <1>6, <1>7, <1>8, <1>9 DEF SchemaInv

(* The connections that are left when a storage has closed its own.           *)
LEMMA Closed ==
  ASSUME SchemaTypes, OwnerInv, NEW s \in Storages,
         connections' = connections \ idb[s], idb' = [idb EXCEPT ![s] = {}]
  PROVE  /\ connections' \in SUBSET Calls /\ idb' \in [Storages -> SUBSET Calls]
         /\ idb'[s] = {} /\ \A t \in Storages : t # s => idb'[t] = idb[t]
         /\ OwnerInv' /\ (connectionsOwned => connectionsOwned')
<1>1. /\ connections' \in SUBSET Calls /\ idb' \in [Storages -> SUBSET Calls]
      /\ idb'[s] = {} /\ \A t \in Storages : t # s => idb'[t] = idb[t]
  BY DEF SchemaTypes
<1>2. \A t \in Storages : t # s => idb[t] \cap idb[s] = {}
  BY DEF OwnerInv
<1>3. OwnerInv'
  BY <1>1, <1>2 DEF OwnerInv
<1>4. ASSUME connectionsOwned PROVE connectionsOwned'
  <2>1. DOMAIN idb = Storages /\ DOMAIN idb' = Storages
    BY <1>1 DEF SchemaTypes
  <2>2. connections = UNION {idb[t] : t \in Storages}
    BY <1>4, <2>1 DEF connectionsOwned, Range
  <2>3. connections' = UNION {idb'[t] : t \in Storages}
    BY <1>1, <1>2, <2>2
  <2> QED
    BY <2>1, <2>3 DEF connectionsOwned, Range
<1> QED
  BY <1>1, <1>3, <1>4

(* initialize() closes the connection of its storage and probes.              *)
LEMMA InitializeProbes ==
  ASSUME SchemaInv, NEW c \in Calls, phase[c] = "idle", phase' = [phase EXCEPT ![c] = "probing"],
         raced' = (raced \/ \E d \in Calls : phase[d] \notin settled),
         connections' = connections \ idb[tab[c]], idb' = [idb EXCEPT ![tab[c]] = {}],
         requests' = Append(requests, c),
         UNCHANGED <<version, schema, attempt, probed, indexedFields>>
  PROVE  SchemaInv'
<1>1. SchemaTypes /\ phase \in [Calls -> Phases] /\ tab[c] \in Storages
  BY OfCall, ZenonT(30) DEF SchemaInv, SchemaTypes
<1>2. phase'[c] = "probing" /\ \A d \in Calls : d # c => phase'[d] = phase[d]
  BY <1>1
<1>3. ~raced' => ~raced /\ \A d \in Calls : phase[d] \in settled
  BY ZenonT(30)
<1>4. /\ connections' \in SUBSET Calls /\ idb' \in [Storages -> SUBSET Calls]
      /\ idb'[tab[c]] = {} /\ OwnerInv' /\ (connectionsOwned => connectionsOwned')
  BY <1>1, Closed, ZenonT(30) DEF SchemaInv
<1>5. SchemaTypes'
  <2>1. phase' \in [Calls -> Phases]
    BY <1>1 DEF Phases, settled
  <2>2. raced' \in BOOLEAN
    OBVIOUS
  <2> QED
    BY <1>1, <1>4, <2>1, <2>2 DEF SchemaTypes
<1>6. QueueInv'
  BY <1>1, Requested, ZenonT(30) DEF SchemaInv
<1>7. VersionInv'
  BY <1>1, DoneStays, ZenonT(30) DEF SchemaInv, VersionInv
<1>8. AttemptInv'
  BY <1>2 DEF SchemaInv, AttemptInv
<1>9. AloneInv'
  BY <1>2, <1>3, <1>4 DEF AloneInv, settled
<1>10. KnownInv'
  BY <1>2, <1>3, <1>4 DEF SchemaInv, KnownInv, IndexedFieldsExist
<1> QED
  BY <1>4, <1>5, <1>6, <1>7, <1>8, <1>9, <1>10 DEF SchemaInv

(* close()                                                                    *)
LEMMA CloseKept ==
  ASSUME SchemaInv, NEW s \in Storages, CloseStorage(s)
  PROVE  SchemaInv'
<1>1. /\ connections' = connections \ idb[s] /\ idb' = [idb EXCEPT ![s] = {}]
      /\ UNCHANGED <<version, schema, requests, phase, attempt, probed, indexedFields, raced>>
  BY DEF CloseStorage
<1>2. /\ connections' \in SUBSET Calls /\ idb' \in [Storages -> SUBSET Calls]
      /\ idb'[s] = {} /\ \A t \in Storages : t # s => idb'[t] = idb[t]
      /\ OwnerInv' /\ (connectionsOwned => connectionsOwned')
  BY <1>1, Closed, ZenonT(30) DEF SchemaInv
<1>3. SchemaTypes'
  BY <1>1, <1>2 DEF SchemaInv, SchemaTypes
<1>4. QueueInv' /\ AttemptInv'
  BY <1>1 DEF SchemaInv, QueueInv, AttemptInv
<1>5. VersionInv'
  BY <1>1 DEF SchemaInv, VersionInv, doneCalls
<1>6. AloneInv'
  BY <1>1, <1>2, OfCall, ZenonT(30) DEF SchemaInv, AloneInv
<1>7. KnownInv'
  BY <1>1, <1>2 DEF SchemaInv, KnownInv, IndexedFieldsExist
<1> QED
  BY <1>2, <1>3, <1>4, <1>5, <1>6, <1>7 DEF SchemaInv

(* A call that has started and not ended moves to another phase.              *)
LEMMA Moved ==
  ASSUME SchemaInv, NEW c \in Calls, phase[c] \notin settled,
         NEW ph \in Phases, phase' = [phase EXCEPT ![c] = ph]
  PROVE  /\ phase' \in [Calls -> Phases] /\ phase'[c] = ph
         /\ \A d \in Calls : d # c => phase'[d] = phase[d]
         /\ ~raced => idb[tab[c]] = {} /\ \A d \in Calls : d # c => phase'[d] \in settled
<1>1. phase \in [Calls -> Phases]
  BY DEF SchemaInv, SchemaTypes
<1>2. /\ phase' \in [Calls -> Phases] /\ phase'[c] = ph
      /\ \A d \in Calls : d # c => phase'[d] = phase[d]
  BY <1>1
<1> QED
  BY <1>2 DEF SchemaInv, AloneInv

(* The probe reads the version and the indexes.                               *)
LEMMA ProbeKept ==
  ASSUME SchemaInv, NEW c \in Calls, Probe(c)
  PROVE  SchemaInv'
<1> DEFINE read == [version |-> version, schema |-> schema[indexName[c]]]
<1>1. /\ phase[c] = "probing" /\ served(c)
      /\ probed' = [probed EXCEPT ![c] = read]
      /\ phase' = [phase EXCEPT ![c] = "probed"] /\ requests' = Tail(requests)
      /\ UNCHANGED <<version, schema, connections, attempt, idb, indexedFields, raced>>
  BY DEF Probe
<1>2. /\ phase' \in [Calls -> Phases] /\ phase'[c] = "probed"
      /\ \A d \in Calls : d # c => phase'[d] = phase[d]
      /\ ~raced => idb[tab[c]] = {} /\ \A d \in Calls : d # c => phase'[d] \in settled
  BY <1>1, Moved, ZenonT(30) DEF Phases, settled
<1>3. SchemaTypes /\ phase \in [Calls -> Phases] /\ indexName[c] \in Stores
  BY OfCall, ZenonT(30) DEF SchemaInv, SchemaTypes
<1>4. read \in [version : Nat, schema : SUBSET FieldNames]
  BY <1>3 DEF SchemaTypes
<1>5. /\ probed' \in [Calls -> [version : Nat, schema : SUBSET FieldNames]]
      /\ probed'[c] = read /\ \A d \in Calls : d # c => probed'[d] = probed[d]
  BY <1>1, <1>3, <1>4 DEF SchemaTypes
<1>6. SchemaTypes'
  BY <1>1, <1>2, <1>3, <1>5 DEF SchemaTypes
<1>7. QueueInv'
  BY <1>1, <1>3, Served, ZenonT(30) DEF SchemaInv
<1>8. VersionInv'
  <2>1. doneCalls' = doneCalls
    BY <1>1, <1>3, DoneStays, ZenonT(30)
  <2>2. \A d \in Calls : probed'[d].version <= version
    BY <1>3, <1>5 DEF SchemaInv, VersionInv, SchemaTypes
  <2> QED
    BY <1>1, <2>1, <2>2 DEF SchemaInv, VersionInv
<1>9. AttemptInv' /\ OwnerInv'
  BY <1>1, <1>2 DEF SchemaInv, AttemptInv, OwnerInv
<1>10. AloneInv'
  BY <1>1, <1>2, <1>5 DEF AloneInv, settled
<1>11. KnownInv'
  BY <1>1, <1>2 DEF SchemaInv, KnownInv, IndexedFieldsExist, connectionsOwned, settled
<1> QED
  BY <1>6, <1>7, <1>8, <1>9, <1>10, <1>11 DEF SchemaInv

(* The second open request, and the probe of another attempt.                 *)
LEMMA RequestKept ==
  ASSUME SchemaInv, NEW c \in Calls, Reopen(c) \/ Retry(c)
  PROVE  SchemaInv'
<1>1. PICK ph \in {"probing", "reopening"} :
        /\ phase[c] \in {"probed", "delayed"} /\ (ph = "reopening" => phase[c] = "probed")
        /\ phase' = [phase EXCEPT ![c] = ph] /\ requests' = Append(requests, c)
        /\ UNCHANGED <<version, schema, connections, attempt, probed, idb, indexedFields, raced>>
  BY DEF Reopen, Retry
<1>2. /\ phase' \in [Calls -> Phases] /\ phase'[c] = ph
      /\ \A d \in Calls : d # c => phase'[d] = phase[d]
      /\ ~raced => idb[tab[c]] = {} /\ \A d \in Calls : d # c => phase'[d] \in settled
  BY <1>1, Moved, ZenonT(30) DEF Phases, settled
<1>3. SchemaTypes /\ phase \in [Calls -> Phases]
  BY DEF SchemaInv, SchemaTypes
<1>4. SchemaTypes'
  BY <1>1, <1>2, <1>3 DEF SchemaTypes
<1>5. QueueInv'
  BY <1>1, <1>3, Requested, ZenonT(30) DEF SchemaInv
<1>6. VersionInv'
  <2>1. doneCalls' = doneCalls
    BY <1>1, <1>3, DoneStays, ZenonT(30)
  <2> QED
    BY <1>1, <2>1 DEF SchemaInv, VersionInv
<1>7. AttemptInv' /\ OwnerInv'
  BY <1>1, <1>2 DEF SchemaInv, AttemptInv, OwnerInv
<1>8. AloneInv'
  BY <1>1, <1>2 DEF SchemaInv, AloneInv, settled
<1>9. KnownInv'
  BY <1>1, <1>2 DEF SchemaInv, KnownInv, IndexedFieldsExist, connectionsOwned, settled
<1> QED
  BY <1>4, <1>5, <1>6, <1>7, <1>8, <1>9 DEF SchemaInv

(* What a call wants is a version; alone, the current one or the next.        *)
LEMMA Wanted ==
  ASSUME SchemaInv, NEW c \in Calls, phase[c] = "reopening"
  PROVE  /\ wanted(c) \in Nat /\ wanted(c) <= version + 1 /\ version \in Nat
         /\ ~raced => wanted(c) >= version
<1>1. version \in Nat /\ probed[c].version \in Nat /\ probed[c].version <= version
  BY DEF SchemaInv, SchemaTypes, VersionInv
<1>2. ~raced => probed[c].version = version
  BY DEF SchemaInv, AloneInv
<1> QED
  BY <1>1, <1>2 DEF wanted

(* VersionError: another call has upgraded, so the call was not alone.        *)
LEMMA VersionErrorKept ==
  ASSUME SchemaInv, NEW c \in Calls, VersionError(c)
  PROVE  SchemaInv'
<1> DEFINE ph == IF attempt'[c] < MAX_OPEN_ATTEMPTS THEN "delayed" ELSE "failed"
<1>1. /\ phase[c] = "reopening" /\ served(c) /\ wanted(c) < version
      /\ attempt' = [attempt EXCEPT ![c] = @ + 1]
      /\ phase' = [phase EXCEPT ![c] = ph] /\ requests' = Tail(requests)
      /\ UNCHANGED <<version, schema, connections, probed, idb, indexedFields, raced>>
  BY DEF VersionError
<1>2. ph \in {"delayed", "failed"} /\ (ph = "delayed" => attempt'[c] < MAX_OPEN_ATTEMPTS)
  OBVIOUS
<1> HIDE DEF ph
<1>3. /\ phase' \in [Calls -> Phases] /\ phase'[c] = ph
      /\ \A d \in Calls : d # c => phase'[d] = phase[d]
  BY <1>1, <1>2, Moved, ZenonT(30) DEF Phases, settled
<1>4. SchemaTypes /\ phase \in [Calls -> Phases]
  BY DEF SchemaInv, SchemaTypes
<1>5. raced
  BY <1>1, Wanted
<1>6. /\ attempt' \in [Calls -> Nat] /\ attempt'[c] = attempt[c] + 1
      /\ \A d \in Calls : d # c => attempt'[d] = attempt[d]
  BY <1>1, <1>4 DEF SchemaTypes
<1>7. SchemaTypes'
  BY <1>1, <1>3, <1>4, <1>6 DEF SchemaTypes
<1>8. QueueInv'
  BY <1>1, <1>4, Served, ZenonT(30) DEF SchemaInv
<1>9. VersionInv'
  <2>1. doneCalls' = doneCalls
    BY <1>1, <1>2, <1>4, DoneStays, ZenonT(30)
  <2> QED
    BY <1>1, <2>1 DEF SchemaInv, VersionInv
<1>10. AttemptInv'
  <2>1. attempt[c] < MAX_OPEN_ATTEMPTS /\ attempt[c] \in Nat
    BY <1>1, <1>4, ZenonT(30) DEF SchemaInv, AttemptInv, SchemaTypes
  <2>2. attempt'[c] <= MAX_OPEN_ATTEMPTS
    BY <1>6, <2>1, AttemptsAssumption
  <2> QED
    BY <1>2, <1>3, <1>6, <2>2 DEF SchemaInv, AttemptInv
<1>11. OwnerInv' /\ AloneInv' /\ KnownInv'
  BY <1>1, <1>5 DEF SchemaInv, OwnerInv, AloneInv, KnownInv
<1> QED
  BY <1>7, <1>8, <1>9, <1>10, <1>11 DEF SchemaInv

(* The connection of a call: its storage knows what it probed and asked for.  *)
LEMMA Connected ==
  ASSUME SchemaInv, NEW c \in Calls, phase[c] = "reopening", Connect(c)
  PROVE  /\ OwnerInv' /\ (~raced => connectionsOwned')
         /\ idb' \in [Storages -> SUBSET Calls]
         /\ indexedFields' \in [Storages -> [Stores -> SUBSET (FieldNames \ absent)]]
         /\ \A s \in Storages, n \in Stores :
              \/ indexedFields'[s][n] = indexedFields[s][n]
              \/ n = indexName[c] /\ indexedFields'[s][n] = (probed[c].schema \ absent) \cup fields[c]
<1> DEFINE known == (probed[c].schema \ absent) \cup fields[c]
<1>1. /\ connections' = connections \cup {c}
      /\ idb' = [idb EXCEPT ![tab[c]] = {c}]
      /\ indexedFields' = [indexedFields EXCEPT ![tab[c]][indexName[c]] = known]
  BY DEF Connect
<1>2. SchemaTypes /\ tab[c] \in Storages /\ indexName[c] \in Stores /\ "no store" \notin fields[c]
  BY OfCall, ZenonT(30) DEF SchemaInv
<1>3. /\ idb' \in [Storages -> SUBSET Calls] /\ idb'[tab[c]] = {c}
      /\ \A s \in Storages : s # tab[c] => idb'[s] = idb[s]
  BY <1>1, <1>2, ZenonT(30) DEF SchemaTypes
<1>4. known \in SUBSET (FieldNames \ absent)
  <2>1. probed[c].schema \in SUBSET FieldNames
    BY <1>2, ZenonT(30) DEF SchemaTypes
  <2>2. fields[c] \subseteq FieldNames
    BY DEF FieldNames
  <2> QED
    BY <1>2, <2>1, <2>2, ZenonT(30) DEF absent
<1> HIDE DEF known
<1>5. /\ indexedFields' \in [Storages -> [Stores -> SUBSET (FieldNames \ absent)]]
      /\ \A s \in Storages, n \in Stores :
           indexedFields'[s][n] = IF s = tab[c] /\ n = indexName[c] THEN known
                                                                   ELSE indexedFields[s][n]
  <2>1. indexedFields \in [Storages -> [Stores -> SUBSET (FieldNames \ absent)]]
    BY <1>2, ZenonT(30) DEF SchemaTypes
  <2> QED
    BY <1>1, <1>2, <1>4, <2>1, ZenonT(30)
<1>6. OwnerInv'
  BY <1>1, <1>3 DEF SchemaInv, OwnerInv
<1>7. ASSUME ~raced PROVE connectionsOwned'
  <2>1. idb[tab[c]] = {} /\ connectionsOwned
    BY <1>7 DEF SchemaInv, AloneInv, KnownInv, settled
  <2>2. DOMAIN idb = Storages /\ DOMAIN idb' = Storages
    BY <1>2, <1>3, ZenonT(30) DEF SchemaTypes
  <2>3. connections = UNION {idb[t] : t \in Storages}
    BY <2>1, <2>2 DEF connectionsOwned, Range
  <2>4. ASSUME NEW x \in connections' PROVE \E t \in Storages : x \in idb'[t]
    <3>1. CASE x = c
      BY <1>2, <1>3, <3>1, ZenonT(30)
    <3>2. CASE x # c
      <4>1. PICK t \in Storages : x \in idb[t]
        BY <1>1, <2>3, <3>2
      <4>2. t # tab[c]
        BY <2>1, <4>1
      <4> QED
        BY <1>3, <4>1, <4>2
    <3> QED
      BY <3>1, <3>2
  <2>5. \A t \in Storages : idb'[t] \subseteq connections'
    BY <1>6 DEF OwnerInv
  <2>6. connections' = UNION {idb'[t] : t \in Storages}
    BY <2>4, <2>5
  <2> QED
    BY <2>2, <2>6 DEF connectionsOwned, Range
<1> QED
  BY <1>3, <1>5, <1>6, <1>7 DEF known

(* The open request of a call resolves, with or without an upgrade.           *)
LEMMA ConnectKept ==
  ASSUME SchemaInv, NEW c \in Calls, phase[c] = "reopening", served(c), Connect(c),
         version' \in Nat, version <= version', version' <= version + 1,
         schema' \in [Stores -> SUBSET FieldNames],
         \A n \in Stores : schema[n] \ absent \subseteq schema'[n],
         ~raced => (probed[c].schema \ absent) \cup fields[c] \subseteq schema'[indexName[c]]
  PROVE  SchemaInv'
<1>1. /\ phase' = [phase EXCEPT ![c] = "done"] /\ requests' = Tail(requests)
      /\ connections' = connections \cup {c} /\ UNCHANGED <<attempt, probed, raced>>
  BY ZenonT(30) DEF Connect
<1>2. /\ phase' \in [Calls -> Phases] /\ phase'[c] = "done"
      /\ \A d \in Calls : d # c => phase'[d] = phase[d]
      /\ ~raced => idb[tab[c]] = {} /\ \A d \in Calls : d # c => phase'[d] \in settled
  BY <1>1, Moved, ZenonT(30) DEF Phases, settled
<1>3. SchemaTypes /\ phase \in [Calls -> Phases]
  BY DEF SchemaInv, SchemaTypes
<1>4. SchemaTypes'
  BY <1>1, <1>2, <1>3, Connected DEF SchemaTypes
<1>5. QueueInv'
  BY <1>1, <1>3, Served, ZenonT(30) DEF SchemaInv
<1>6. VersionInv'
  <2>1. doneCalls' = doneCalls \cup {c} /\ c \notin doneCalls
    BY <1>2 DEF doneCalls
  <2>2. /\ Cardinality(doneCalls) \in Nat
        /\ Cardinality(doneCalls') = Cardinality(doneCalls) + 1
    <3>1. IsFiniteSet(doneCalls)
      BY CallsAreFinite, FS_Subset DEF doneCalls
    <3> QED
      BY <2>1, <3>1, FS_AddElement, FS_CardinalityType, ZenonT(30)
  <2> HIDE DEF doneCalls
  <2>3. version' <= Cardinality(doneCalls') + 1
    BY <1>3, <2>2 DEF SchemaInv, VersionInv, SchemaTypes
  <2>4. \A d \in Calls : probed'[d].version <= version'
    BY <1>1, <1>3 DEF SchemaInv, VersionInv, SchemaTypes
  <2> QED
    BY <2>3, <2>4 DEF VersionInv
<1>7. AttemptInv'
  BY <1>1, <1>2 DEF SchemaInv, AttemptInv
<1>8. OwnerInv'
  BY Connected
<1>9. AloneInv'
  BY <1>1, <1>2 DEF AloneInv, settled
<1>10. KnownInv'
  <2> SUFFICES ASSUME ~raced
               PROVE  IndexedFieldsExist' /\ connectionsOwned' /\ \A d \in Calls : phase'[d] # "failed"
    BY <1>1 DEF KnownInv
  <2>1. IndexedFieldsExist /\ \A d \in Calls : phase[d] # "failed"
    BY DEF SchemaInv, KnownInv
  <2>2. ASSUME NEW s \in Storages, NEW n \in Stores
        PROVE  indexedFields'[s][n] \subseteq schema'[n]
    <3>1. indexedFields[s][n] \subseteq schema[n] /\ indexedFields[s][n] \cap absent = {}
      BY <1>3, <2>1 DEF IndexedFieldsExist, SchemaTypes
    <3>2. schema[n] \ absent \subseteq schema'[n]
      OBVIOUS
    <3>3. indexedFields[s][n] \subseteq schema'[n]
      BY <3>1, <3>2
    <3> QED
      BY <3>3, Connected
  <2>3. IndexedFieldsExist'
    BY <2>2 DEF IndexedFieldsExist
  <2>4. connectionsOwned'
    BY Connected
  <2>5. \A d \in Calls : phase'[d] # "failed"
    BY <1>2, <2>1
  <2> QED
    BY <2>3, <2>4, <2>5
<1> QED
  BY <1>4, <1>5, <1>6, <1>7, <1>8, <1>9, <1>10 DEF SchemaInv

(* The upgrade, and the opening of a database that needs none.                *)
LEMMA UpgradeKept ==
  ASSUME SchemaInv, NEW c \in Calls, Upgrade(c)
  PROVE  SchemaInv'
<1> DEFINE n == indexName[c]
<1>1. /\ phase[c] = "reopening" /\ served(c) /\ Connect(c)
      /\ wanted(c) > version /\ version' = wanted(c)
      /\ schema' = [schema EXCEPT ![n] = (@ \ absent) \cup fields[c]]
  BY DEF Upgrade
<1>2. n \in Stores /\ schema \in [Stores -> SUBSET FieldNames]
  BY OfCall, ZenonT(30) DEF SchemaInv, SchemaTypes
<1>3. fields[c] \subseteq FieldNames
  BY DEF FieldNames
<1>4. /\ schema' \in [Stores -> SUBSET FieldNames] /\ schema'[n] = (schema[n] \ absent) \cup fields[c]
      /\ \A m \in Stores : m # n => schema'[m] = schema[m]
  BY <1>1, <1>2, <1>3
<1>5. ~raced => probed[c].schema = schema[n]
  BY <1>1 DEF SchemaInv, AloneInv
<1>6. version' \in Nat /\ version <= version' /\ version' <= version + 1
  BY <1>1, Wanted
<1>7. \A m \in Stores : schema[m] \ absent \subseteq schema'[m]
  BY <1>4
<1>8. ~raced => (probed[c].schema \ absent) \cup fields[c] \subseteq schema'[n]
  BY <1>4, <1>5
<1> QED
  BY <1>1, <1>4, <1>6, <1>7, <1>8, ConnectKept

(* OpenSameVersion: the connection is opened and the schema stays as it is.   *)
LEMMA OpenSameVersionKept ==
  ASSUME SchemaInv, NEW c \in Calls, OpenSameVersion(c)
  PROVE  SchemaInv'
<1> DEFINE n == indexName[c]
<1>1. /\ phase[c] = "reopening" /\ served(c) /\ Connect(c)
      /\ wanted(c) = version /\ version' = version /\ schema' = schema
  BY DEF OpenSameVersion
<1>2. version \in Nat /\ schema \in [Stores -> SUBSET FieldNames]
  BY DEF SchemaInv, SchemaTypes
<1>3. ~raced => (probed[c].schema \ absent) \cup fields[c] \subseteq schema'[n]
  <2>1. ~raced => probed[c].schema = schema[n] /\ probed[c].version = version
    BY <1>1 DEF SchemaInv, AloneInv
  <2>2. ~raced => ~needsUpgrade(c)
    BY <1>1, <1>2, <2>1 DEF wanted
  <2> QED
    BY <1>1, <2>1, <2>2 DEF needsUpgrade
<1> QED
  BY <1>1, <1>2, <1>3, ConnectKept

(* SchemaInv is inductive: one step of the proof per action.                  *)
LEMMA SchemaInvNext == SchemaInv /\ [SchemaNext]_schemaVars => SchemaInv'
<1> SUFFICES ASSUME SchemaInv, [SchemaNext]_schemaVars
             PROVE  SchemaInv'
  OBVIOUS
<1>1. ASSUME NEW c \in Calls, Initialize(c) PROVE SchemaInv'
  <2>1. /\ phase[c] = "idle" /\ raced' = (raced \/ \E d \in Calls : phase[d] \notin settled)
        /\ UNCHANGED <<version, schema, attempt, probed, indexedFields>>
    BY <1>1 DEF Initialize
  <2>2. \/ phase' = [phase EXCEPT ![c] = "done"] /\ UNCHANGED <<connections, idb, requests>>
        \/ /\ phase' = [phase EXCEPT ![c] = "probing"] /\ requests' = Append(requests, c)
           /\ connections' = connections \ idb[tab[c]] /\ idb' = [idb EXCEPT ![tab[c]] = {}]
    BY <1>1 DEF Initialize
  <2>3. CASE phase' = [phase EXCEPT ![c] = "done"] /\ UNCHANGED <<connections, idb, requests>>
    BY <2>1, <2>3, InitializeReturns, ZenonT(30)
  <2>4. CASE /\ phase' = [phase EXCEPT ![c] = "probing"] /\ requests' = Append(requests, c)
             /\ connections' = connections \ idb[tab[c]] /\ idb' = [idb EXCEPT ![tab[c]] = {}]
    BY <2>1, <2>4, InitializeProbes, ZenonT(30)
  <2> QED
    BY <2>2, <2>3, <2>4
<1>2. ASSUME NEW c \in Calls, Probe(c) PROVE SchemaInv'
  BY <1>2, ProbeKept
<1>3. ASSUME NEW c \in Calls, Reopen(c) \/ Retry(c) PROVE SchemaInv'
  BY <1>3, RequestKept
<1>4. ASSUME NEW c \in Calls, Upgrade(c) PROVE SchemaInv'
  BY <1>4, UpgradeKept
<1>5. ASSUME NEW c \in Calls, OpenSameVersion(c) PROVE SchemaInv'
  BY <1>5, OpenSameVersionKept
<1>6. ASSUME NEW c \in Calls, VersionError(c) PROVE SchemaInv'
  BY <1>6, VersionErrorKept
<1>7. ASSUME NEW s \in Storages, CloseStorage(s) PROVE SchemaInv'
  BY <1>7, CloseKept
<1>8. CASE UNCHANGED schemaVars
  <2>1. UNCHANGED <<version, schema, connections, requests, phase, attempt, probed, idb,
                    indexedFields, raced>>
    BY <1>8 DEF schemaVars
  <2>2. SchemaTypes' /\ QueueInv' /\ AttemptInv' /\ OwnerInv'
    BY <2>1 DEF SchemaInv, SchemaTypes, QueueInv, AttemptInv, OwnerInv
  <2>3. VersionInv'
    BY <2>1 DEF SchemaInv, VersionInv, doneCalls
  <2>4. AloneInv' /\ KnownInv'
    BY <2>1 DEF SchemaInv, AloneInv, KnownInv, IndexedFieldsExist, connectionsOwned
  <2> QED
    BY <2>2, <2>3, <2>4 DEF SchemaInv
<1> QED
  BY <1>1, <1>2, <1>3, <1>4, <1>5, <1>6, <1>7, <1>8 DEF SchemaNext

(* The invariant gives the property.                                          *)
LEMMA SchemaInvGives ==
  ASSUME SchemaInv
  PROVE  SerialSchema
<1>1. version \in 1..(Cardinality(Calls) + 1)
  <2>1. doneCalls \subseteq Calls
    BY DEF doneCalls
  <2>2. /\ Cardinality(doneCalls) \in Nat /\ Cardinality(Calls) \in Nat
        /\ Cardinality(doneCalls) <= Cardinality(Calls)
    BY <2>1, CallsAreFinite, FS_Subset, FS_CardinalityType
  <2> HIDE DEF doneCalls
  <2> QED
    BY <2>2 DEF SchemaInv, SchemaTypes, VersionInv
<1>2. \A c \in Calls : attempt[c] \in 0..MAX_OPEN_ATTEMPTS
  BY AttemptsAssumption DEF SchemaInv, SchemaTypes, AttemptInv
<1>3. ASSUME NEW s \in Storages PROVE Cardinality(idb[s]) <= 1 /\ idb[s] \subseteq connections
  <2>1. idb[s] = {} \/ \E c \in Calls : idb[s] = {c}
    BY DEF SchemaInv, OwnerInv, SchemaTypes
  <2>2. Cardinality(idb[s]) \in {0, 1}
    BY <2>1, FS_EmptySet, FS_Singleton
  <2> QED
    BY <2>2 DEF SchemaInv, OwnerInv
<1>4. SchemaTypeOK
  BY <1>1, <1>2, <1>3 DEF SchemaInv, SchemaTypes, QueueInv, SchemaTypeOK
<1> QED
  BY <1>4 DEF SchemaInv, KnownInv, SerialSchema

(* Whatever initialize() and close() calls a database sees, and however they  *)
(* interleave, its version, its connections and the attempts stay in bounds;  *)
(* and as long as the initialize() calls of all storages follow one another,  *)
(* _indexedFields names only indexes that exist, every open connection is the *)
(* _db of its storage, and no call runs out of attempts.                      *)
THEOREM SchemaIsKnown == SchemaSpec => []SerialSchema
<1>1. SchemaInit => SchemaInv
  BY SchemaInvInit
<1>2. SchemaInv => SerialSchema
  BY SchemaInvGives
<1> QED
  BY <1>1, <1>2, SchemaInvNext, PTL DEF SchemaSpec
=============================================================================
