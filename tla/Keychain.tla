------------------------------ MODULE Keychain ------------------------------
(***************************************************************************)
(* The keychain of a document replica (YjsKeychain of collabswarm-yjs.ts): *)
(* an append-only Yjs array of document keys, and the cache of imported    *)
(* keys beside it.                                                         *)
(*                                                                         *)
(* A replica is [client, items, cached].  Yjs gives every appended entry   *)
(* the id <<client, clock>> and, as its origin, the id of the entry that   *)
(* was last then.  A replica integrates an entry once it has the earlier   *)
(* entries of the same client and the origin, and keeps it pending until   *)
(* then; entries with the same origin are ordered by client id.  Client    *)
(* ids are random numbers, so their order carries no meaning.              *)
(***************************************************************************)
EXTENDS Naturals, FiniteSets, SequencesExt

NoId == <<0, 0>>

IdOf(e) == <<e.client, e.clock>>

Replica(client) == [client |-> client, items |-> {}, cached |-> {}]

(* The entries of a set that Yjs integrates; the others stay pending. *)
Integrated(items) ==
  LET round[n \in Nat] ==
        IF n = 0 THEN {}
        ELSE LET ids == {IdOf(e) : e \in round[n - 1]} \cup {NoId}
             IN  {e \in items : /\ e.origin \in ids
                               /\ \A i \in 0..(e.clock - 1) : <<e.client, i>> \in ids}
  IN  round[Cardinality(items)]

(* The client ids from the head of the array down to an entry: the array   *)
(* lists the entries in the lexicographic order of these paths.            *)
Path(items, e) ==
  LET up[id \in {IdOf(i) : i \in items} \cup {NoId}] ==
        IF id = NoId THEN << >>
        ELSE LET i == CHOOSE i \in items : IdOf(i) = id IN Append(up[i.origin], i.client)
  IN  up[IdOf(e)]

Before(p, q) ==
  \/ IsStrictPrefix(p, q)
  \/ \E n \in 1..Min({Len(p), Len(q)}) : /\ \A i \in 1..(n - 1) : p[i] = q[i]
                                         /\ p[n] < q[n]

(* The entries of the array, in order. *)
Entries(k) ==
  LET done == Integrated(k.items)
      less(a, b) == Before(Path(done, a), Path(done, b))
  IN  SetToSortSeq(done, less)

(* The key IDs of keys(), which also imports every key of the array. *)
KeyIds(k) == [i \in DOMAIN Entries(k) |-> Entries(k)[i].key]

Has(k, key) == \E e \in Integrated(k.items) : e.key = key

afterKeys(k) == [k EXCEPT !.cached = @ \cup {e.key : e \in Integrated(k.items)}]

(* current(): the last entry, 0 where it throws on an empty array; the key *)
(* is imported.                                                            *)
current(k) == IF Integrated(k.items) = {} THEN 0 ELSE Last(Entries(k)).key

afterCurrent(k) == [k EXCEPT !.cached = @ \cup ({current(k)} \ {0})]

(* The entry that a push of key appends. *)
NextEntry(k, key) ==
  [key    |-> key,
   client |-> k.client,
   clock  |-> Cardinality({e \in k.items : e.client = k.client}),
   origin |-> IF Integrated(k.items) = {} THEN NoId ELSE IdOf(Last(Entries(k)))]

(* add and addEpochKey: the key is cached and appended; the update that    *)
(* either returns holds the new entry only.                                *)
addKey(k, key) == [k EXCEPT !.items = @ \cup {NextEntry(k, key)}, !.cached = @ \cup {key}]

(* history(): the whole document. *)
history(k) == k.items

(* A fresh document of a fresh client with these keys in order. *)
MinimalDoc(client, keys) ==
  {[key |-> keys[i], client |-> client, clock |-> i - 1,
    origin |-> IF i = 1 THEN NoId ELSE <<client, i - 2>>] : i \in DOMAIN keys}

(* currentKeyChange, on a keychain that is not empty. *)
currentKeyChange(k, client) == MinimalDoc(client, <<current(k)>>)

(* merge *)
mergeKeys(k, update) == [k EXCEPT !.items = @ \cup update]

(* getKey looks in the cache only. *)
getKey(k, key) == key \in k.cached
=============================================================================
