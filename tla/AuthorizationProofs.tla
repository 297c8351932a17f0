------------------------- MODULE AuthorizationProofs ------------------------
(***************************************************************************)
(* Proofs about who may write. The writer-key cache returns no stale list  *)
(* of keys, for every set of keys, any finite number of concurrent         *)
(* mutations and any number of concurrent calls (ReturnsCurrentKeys).      *)
(* AclChain: whatever calls overlap, whatever is delivered, and however    *)
(* long the chains and queues are, a chain is what its entries say         *)
(* (ChainSound), and the chains implement AclLog (ImplementsLog).          *)
(* Epochs: however many transitions overlap, every ancestor of an epoch is *)
(* known (LineageKnown).                                                   *)
(***************************************************************************)
EXTENDS AclChain, Epochs, WriterKeyCache, ProofLemmas

(* The places of a queue: the first, the others, and the one after the last. *)
LEMMA QueuePlaces ==
  /\ 0 + 1 = 1 /\ 0 <= MaxQueue
  /\ \A n \in Nat : \A k \in 1..n : n # 0 /\ (k = 1 \/ k \in 2..n) /\ k - 1 # n
BY ChainBounds

(* A count that one secret bounds stays bounded when both grow by one.       *)
LEMMA BothGrow == \A m, n \in Nat : m <= n => m + 1 <= n + 1
OBVIOUS

(* The inductive invariant of the writer-key cache.                           *)
CacheInv == CacheTypeOK /\ CacheCoherent /\ FetchCoherent

(* The set of mutations in flight is finite, so the counter can count it.    *)
LEMMA PendingFinite == IsFiniteSet(Pending)
BY MutationsAssumption, FS_Subset DEF Pending

(* Starting the mutation of an idle slot adds exactly that slot to the set   *)
(* the in-flight counter counts.                                             *)
LEMMA PendingGrows ==
    ASSUME CacheTypeOK, NEW m \in Mutations, mutation[m].pc = "idle",
           NEW s \in MutationState, s.pc # "idle",
           mutation' = [mutation EXCEPT ![m] = s]
    PROVE  /\ Pending' = Pending \cup {m}
           /\ Cardinality(Pending') = Cardinality(Pending) + 1
<1>1. Pending' = Pending \cup {m} /\ m \notin Pending
  BY DEF Pending, CacheTypeOK
<1>2. QED
  BY <1>1, PendingFinite, FS_AddElement, Zenon

(* The finally block removes exactly its own slot from that set.             *)
LEMMA PendingShrinks ==
    ASSUME CacheTypeOK, NEW m \in Mutations, mutation[m].pc # "idle",
           mutation' = [mutation EXCEPT ![m].pc = "idle"]
    PROVE  /\ Pending' = Pending \ {m}
           /\ Cardinality(Pending') = Cardinality(Pending) - 1
           /\ Cardinality(Pending) >= 1
<1>1. Pending' = Pending \ {m} /\ m \in Pending
  BY DEF Pending, CacheTypeOK, MutationState
<1>2. Cardinality(Pending) \in Nat /\ Cardinality(Pending) # 0
  BY <1>1, PendingFinite, FS_CardinalityType, FS_EmptySet
<1>3. Cardinality(Pending \ {m}) = Cardinality(Pending) - 1
  BY <1>1, PendingFinite, FS_RemoveElement, Zenon
<1>4. QED
  BY <1>1, <1>2, <1>3

(* With the counter at zero no mutation is in flight.                        *)
LEMMA CounterZero ==
    ASSUME FetchCoherent, inFlight = 0
    PROVE  Pending = {}
BY PendingFinite, FS_EmptySet, Zenon DEF FetchCoherent

(* A current fetch made while nothing is in flight is exactly the ACL's list.*)
LEMMA CurrentFetchIsExact ==
    ASSUME CacheInv, NEW c \in Calls, call[c].pc = "fetching",
           version = call[c].versionAtStart, inFlight = 0
    PROVE  call[c].fetched = writers
<1>1. \A m \in Mutations : mutation[m].pc = "idle"
  BY CounterZero DEF CacheInv, Pending
<1>2. \A k \in Keys : (k \in call[c].fetched) <=> (k \in writers)
  BY <1>1 DEF CacheInv, FetchCoherent, Explained
<1>3. call[c].fetched \subseteq Keys /\ writers \subseteq Keys
  BY DEF CacheInv, CacheTypeOK, CallState
<1>4. QED
  BY <1>2, <1>3

-----------------------------------------------------------------------------
(* A document starts with an empty ACL, a null cache and nothing in flight.  *)
LEMMA CacheInvInit == CacheInit => CacheInv
<1> SUFFICES ASSUME CacheInit PROVE CacheInv
  OBVIOUS
<1>1. CacheTypeOK
  BY DEF CacheInit, CacheTypeOK, MutationState, CallState
<1>2. Pending = {}
  BY DEF CacheInit, Pending
<1>3. FetchCoherent
  BY <1>2, FS_EmptySet DEF CacheInit, FetchCoherent
<1>4. QED
  BY <1>1, <1>3 DEF CacheInit, CacheInv, CacheCoherent

(* The prelude of _runWriterMutation: no fetch is current after it.          *)
LEMMA BeginMutationKept ==
    ASSUME CacheInv, NEW m \in Mutations, NEW op \in {"add", "remove"},
           NEW k \in Keys, BeginMutation(m, op, k)
    PROVE  CacheInv'
<1> USE DEF CacheInv, BeginMutation, Invalidate
<1>1. CacheTypeOK'
  BY DEF CacheTypeOK, MutationState
<1>2. Cardinality(Pending') = Cardinality(Pending) + 1
  BY PendingGrows, Zenon DEF MutationState
<1>3. \A c \in Calls : call[c].versionAtStart \in Nat
                         /\ call[c].versionAtStart <= version
  BY DEF CacheTypeOK, CallState, FetchCoherent
<1>4. FetchCoherent'
  BY <1>2, <1>3 DEF FetchCoherent, CacheTypeOK
<1>5. QED
  BY <1>1, <1>4 DEF CacheCoherent

(* The ACL changes: a current fetch now differs in the mutation's key only,  *)
(* and that mutation has not finished.                                       *)
LEMMA ApplyMutationKept ==
    ASSUME CacheInv, NEW m \in Mutations, ApplyMutation(m)
    PROVE  CacheInv'
<1> USE DEF CacheInv, ApplyMutation
<1>1. CacheTypeOK'
  BY DEF CacheTypeOK, MutationState
<1>2. Pending' = Pending /\ m \in Pending
  BY DEF Pending, CacheTypeOK, MutationState
<1>3. ASSUME NEW c \in Calls, call[c].pc = "fetching",
             call[c].versionAtStart = version, NEW k \in Keys
      PROVE  Explained(call[c].fetched, k)'
  <2>1. Explained(call[c].fetched, k)
    BY <1>3 DEF FetchCoherent
  <2>2. CASE k = mutation[m].key
    BY <2>2 DEF Explained, CacheTypeOK, MutationState
  <2>3. CASE k # mutation[m].key
    <3>1. k \in writers' <=> k \in writers
      BY <2>3
    <3>2. \A n \in Mutations : mutation[n].pc = "applied" =>
             mutation'[n].pc = "applied" /\ mutation'[n].key = mutation[n].key
      BY DEF CacheTypeOK, MutationState
    <3>3. QED
      BY <2>1, <3>1, <3>2 DEF Explained
  <2>4. QED
    BY <2>2, <2>3
<1>4. FetchCoherent'
  BY <1>2, <1>3 DEF FetchCoherent
<1>5. QED
  BY <1>1, <1>2, <1>4 DEF CacheCoherent

(* The finally block: no fetch is current after it.                          *)
LEMMA EndMutationKept ==
    ASSUME CacheInv, NEW m \in Mutations, EndMutation(m)
    PROVE  CacheInv'
<1> USE DEF CacheInv, EndMutation, Invalidate
<1>1. /\ Cardinality(Pending') = Cardinality(Pending) - 1
      /\ Cardinality(Pending) >= 1
  BY PendingShrinks, Zenon
<1>2. CacheTypeOK'
  BY <1>1 DEF CacheTypeOK, MutationState, FetchCoherent
<1>3. \A c \in Calls : call[c].versionAtStart \in Nat
                         /\ call[c].versionAtStart <= version
  BY DEF CacheTypeOK, CallState, FetchCoherent
<1>4. FetchCoherent'
  BY <1>1, <1>3 DEF FetchCoherent, CacheTypeOK
<1>5. QED
  BY <1>2, <1>4 DEF CacheCoherent

(* A merge changes the ACL and bumps the version in the same task.           *)
LEMMA MergeWritersKept ==
    ASSUME CacheInv, NEW merged \in SUBSET Keys, MergeWriters(merged)
    PROVE  CacheInv'
<1> USE DEF CacheInv, MergeWriters, Invalidate
<1>1. CacheTypeOK'
  BY DEF CacheTypeOK
<1>2. Pending' = Pending
  BY DEF Pending
<1>3. \A c \in Calls : call[c].versionAtStart \in Nat
                         /\ call[c].versionAtStart <= version
  BY DEF CacheTypeOK, CallState, FetchCoherent
<1>4. FetchCoherent'
  BY <1>2, <1>3 DEF FetchCoherent, CacheTypeOK
<1>5. QED
  BY <1>1, <1>4 DEF CacheCoherent

(* The top of the loop: a miss takes the ACL's list as it is now, a hit leaves*)
(* no fetch pending.                                                         *)
LEMMA LoopTopKept ==
    ASSUME CacheInv, NEW c \in Calls, LoopTop(c),
           UNCHANGED <<writers, cached, version, inFlight, mutation>>
    PROVE  CacheInv'
<1> USE DEF CacheInv
<1>1. Pending' = Pending
  BY DEF Pending
<1>2. CASE /\ cached # None
           /\ call' = [call EXCEPT ![c].pc = "verifying", ![c].fetched = cached]
  <2>1. CacheTypeOK'
    BY <1>2, ZenonT(30) DEF CacheTypeOK, CallState
  <2>2. FetchCoherent'
    BY <1>1, <1>2 DEF FetchCoherent, CacheTypeOK, CallState, Explained
  <2>3. QED
    BY <1>1, <2>1, <2>2 DEF CacheCoherent
<1>3. CASE call' = [call EXCEPT ![c] =
                      [pc |-> "fetching", versionAtStart |-> version,
                       fetched |-> writers]]
  <2>1. CacheTypeOK'
    BY <1>3 DEF CacheTypeOK, CallState
  <2>2. FetchCoherent'
    BY <1>1, <1>3 DEF FetchCoherent, CacheTypeOK, Explained
  <2>3. QED
    BY <1>1, <2>1, <2>2 DEF CacheCoherent
<1>4. QED
  BY <1>2, <1>3 DEF LoopTop

(* A call that only moves its program counter keeps the invariant.           *)
LEMMA CallStepKept ==
    ASSUME CacheInv, NEW c \in Calls, NEW pc \in {"idle", "verifying"},
           call' = [call EXCEPT ![c].pc = pc],
           UNCHANGED <<writers, version, inFlight, mutation>>,
           \/ cached' = cached
           \/ Pending = {} /\ cached' = writers
    PROVE  CacheInv'
<1> USE DEF CacheInv
<1>1. Pending' = Pending
  BY DEF Pending
<1>2. CacheTypeOK'
  BY DEF CacheTypeOK, CallState
<1>3. FetchCoherent'
  BY <1>1 DEF FetchCoherent, CacheTypeOK, CallState, Explained
<1>4. CacheCoherent'
  BY <1>1 DEF CacheCoherent
<1>5. QED
  BY <1>2, <1>3, <1>4

(* Every step of the cache's operations keeps the inductive invariant.       *)
LEMMA CacheInvNext == CacheInv /\ [CacheNext]_cacheVars => CacheInv'
<1> SUFFICES ASSUME CacheInv, [CacheNext]_cacheVars PROVE CacheInv'
  OBVIOUS
<1>1. ASSUME NEW m \in Mutations, NEW op \in {"add", "remove"}, NEW k \in Keys,
             BeginMutation(m, op, k)
      PROVE  CacheInv'
  BY <1>1, BeginMutationKept
<1>2. ASSUME NEW m \in Mutations, ApplyMutation(m) PROVE CacheInv'
  BY <1>2, ApplyMutationKept
<1>3. ASSUME NEW m \in Mutations, EndMutation(m) PROVE CacheInv'
  BY <1>3, EndMutationKept
<1>4. ASSUME NEW merged \in SUBSET Keys, MergeWriters(merged) PROVE CacheInv'
  BY <1>4, MergeWritersKept
<1>5. ASSUME NEW c \in Calls, GetWriterKeys(c) PROVE CacheInv'
  BY <1>5, LoopTopKept DEF GetWriterKeys
<1>6. ASSUME NEW c \in Calls, CommitFetch(c) PROVE CacheInv'
  <2>1. Pending = {} /\ call[c].fetched = writers
    BY <1>6, CounterZero, CurrentFetchIsExact DEF CommitFetch, CacheInv
  <2>2. QED
    BY <1>6, <2>1, CallStepKept, Zenon DEF CommitFetch
<1>7. ASSUME NEW c \in Calls, RetryFetch(c) PROVE CacheInv'
  BY <1>7, LoopTopKept DEF RetryFetch
<1>8. ASSUME NEW c \in Calls, ReturnUncached(c) PROVE CacheInv'
  BY <1>8, CallStepKept, Zenon DEF ReturnUncached
<1>9. ASSUME NEW c \in Calls, FetchThrows(c) PROVE CacheInv'
  BY <1>9, CallStepKept, Zenon DEF FetchThrows
<1>10. ASSUME NEW c \in Calls, VerifySettles(c) PROVE CacheInv'
  BY <1>10, CallStepKept, Zenon DEF VerifySettles
<1>11. CASE UNCHANGED cacheVars
  BY <1>11 DEF cacheVars, CacheInv, CacheTypeOK, CacheCoherent, FetchCoherent, Pending, Explained
<1>12. QED
  BY <1>1, <1>2, <1>3, <1>4, <1>5, <1>6, <1>7, <1>8, <1>9, <1>10, <1>11, Zenon
     DEF CacheNext, Mutate, FetchResolves

(* The inductive invariant holds in every state of the cache.                *)
LEMMA CacheInvHolds == CacheSpec => []CacheInv
<1>1. QED
  BY CacheInvInit, CacheInvNext, PTL DEF CacheSpec

-----------------------------------------------------------------------------
(* Every value _getWriterKeys and the writer mutations store has its type; in*)
(* particular _writerMutationsInFlight never goes below zero.                *)
THEOREM TypeCorrect == CacheSpec => []CacheTypeOK
<1>1. CacheInv => CacheTypeOK
  BY DEF CacheInv
<1>2. QED
  BY <1>1, CacheInvHolds, PTL

(* A non-null _cachedWriterKeys is exactly what the writers ACL holds and no *)
(* writer mutation is in flight, whatever the interleaving of _getWriterKeys,*)
(* _addWriter, _removeWriter and _mergeWriters.                              *)
THEOREM CacheIsCoherent == CacheSpec => []CacheCoherent
<1>1. CacheInv => CacheCoherent
  BY DEF CacheInv
<1>2. QED
  BY <1>1, CacheInvHolds, PTL

(* _writerMutationsInFlight counts the writer mutations in flight, and a fetch*)
(* whose version is still current holds what the ACL holds up to those.      *)
THEOREM FetchesAreCoherent == CacheSpec => []FetchCoherent
<1>1. CacheInv => FetchCoherent
  BY DEF CacheInv
<1>2. QED
  BY <1>1, CacheInvHolds, PTL

(* _getWriterKeys never returns a list that lacks the effect of a finished   *)
(* mutation: a revoked writer is not among the keys a signature is checked   *)
(* against once _removeWriter has finished.                                  *)
THEOREM ReturnedKeysAreCurrent == CacheSpec => ReturnsCurrentKeys
<1> DEFINE Returns(c) == call[c].pc # "verifying" /\ call'[c].pc = "verifying"
<1>1. ASSUME CacheInv, [CacheNext]_cacheVars, NEW c \in Calls, Returns(c), NEW k \in Keys
      PROVE  Explained(call'[c].fetched, k)
  <2>1. call[c].pc # "verifying" /\ call'[c].pc = "verifying"
    BY <1>1
  <2>2. CacheTypeOK /\ CacheCoherent /\ FetchCoherent
    BY <1>1 DEF CacheInv
  <2>3. ASSUME NEW d \in Calls, LoopTop(d)
        PROVE  Explained(call'[c].fetched, k)
    <3>1. d = c /\ cached # None /\ call'[c].fetched = cached
      BY <2>1, <2>2, <2>3 DEF LoopTop, CacheTypeOK, CallState
    <3>2. QED
      BY <2>2, <3>1 DEF CacheCoherent, Explained
  <2>4. ASSUME NEW d \in Calls, CommitFetch(d) \/ ReturnUncached(d)
        PROVE  Explained(call'[c].fetched, k)
    <3>1. /\ d = c
          /\ call[c].pc = "fetching"
          /\ call[c].versionAtStart = version
          /\ call'[c].fetched = call[c].fetched
      BY <2>1, <2>2, <2>4 DEF CommitFetch, ReturnUncached, CacheTypeOK, CallState
    <3>2. QED
      BY <2>2, <3>1 DEF FetchCoherent
  <2>5. ASSUME NEW d \in Calls, FetchThrows(d) \/ VerifySettles(d)
        PROVE  FALSE
    BY <2>1, <2>2, <2>5 DEF FetchThrows, VerifySettles, CacheTypeOK, CallState
  <2>6. CASE Mutate \/ UNCHANGED cacheVars
    BY <2>1, <2>6 DEF Mutate, BeginMutation, ApplyMutation, EndMutation,
                      MergeWriters, cacheVars
  <2>7. QED
    BY <1>1, <2>3, <2>4, <2>5, <2>6, Zenon
       DEF CacheNext, GetWriterKeys, FetchResolves, RetryFetch
<1>2. CacheInv /\ [CacheNext]_cacheVars =>
        [\A c \in Calls :
           call[c].pc # "verifying" /\ call'[c].pc = "verifying"
             => \A k \in Keys : Explained(call'[c].fetched, k)]_cacheVars
  BY <1>1
<1>3. QED
  BY <1>2, CacheInvHolds, PTL DEF CacheSpec, ReturnsCurrentKeys

-----------------------------------------------------------------------------

(* Everyone a chain could ever make a writer. *)
Writers == UNION {change.adds : change \in Changes}

IsCall(c) ==
  /\ c = [kind |-> c.kind, phase |-> c.phase, change |-> c.change, entry |-> c.entry,
          snapshot |-> c.snapshot, at |-> c.at, prior |-> c.prior]
  /\ c.kind = "author" => c.change \in Changes

IsEntry(e) ==
  /\ e = [sequenceNumber |-> e.sequenceNumber, parentHash |-> e.parentHash,
          change |-> e.change, signerKeyId |-> e.signerKeyId]
  /\ e.change \in Changes

(* The chain of a replica: entries that were signed, numbered in order, and  *)
(* the list of writers they give.                                            *)
ChainOk(p) ==
  /\ IsSequence(entries[p])
  /\ \A n \in DOMAIN entries[p] : /\ entries[p][n] \in signed
                                  /\ entries[p][n].sequenceNumber = n - 1
  /\ state[p] = IF entries[p] = << >> THEN undefined
                ELSE Log!writersAfter(entries[p])[Len(entries[p])]
  /\ entries[p] # << >> => state[p] \subseteq Writers

(* The queue of a replica: only the first call has started. *)
QueueOk(p) ==
  /\ IsSequence(queue[p])
  /\ Len(queue[p]) <= MaxQueue
  /\ \A k \in DOMAIN queue[p] : IsCall(queue[p][k])
  /\ \A k \in DOMAIN queue[p] : k # 1 => queue[p][k].phase = "queued"

(* What the running call has found out is still so: nobody else has touched  *)
(* the chain since its checks.                                               *)
RunOk(p) ==
  queue[p] # << >> =>
    LET first == queue[p][1]
    IN  /\ first.phase \in {"authorize", "commit"} => InPlace(p, first.entry)
        /\ first.phase = "commit" =>
             /\ first.entry \in signed
             /\ Authorized(p, first.entry)
             /\ first.prior = IF state[p] = undefined THEN {} ELSE state[p]

(* The inductive invariant. *)
ChainInv ==
  /\ calls \in 0..MaxCalls
  /\ entries = [p \in Replicas |-> entries[p]]
  /\ state = [p \in Replicas |-> state[p]]
  /\ queue = [p \in Replicas |-> queue[p]]
  /\ \A e \in signed : IsEntry(e)
  /\ \A p \in Replicas : ChainOk(p) /\ QueueOk(p) /\ RunOk(p)

-----------------------------------------------------------------------------
(* writersAfter is recursive.  A function with its equation exists on every  *)
(* 0..m, they agree with each other, and so one exists on Nat.               *)
LEMMA WritersAfterEquation ==
  ASSUME NEW l, NEW n \in Nat
  PROVE  Log!writersAfter(l)[n] =
           IF n = 0 THEN {} ELSE Log!applyChange(Log!writersAfter(l)[n - 1], l[n].change)
<1> DEFINE Step(w, i) == Log!applyChange(w, l[i].change)
           Upto(g, m) == g = [i \in 0..m |-> IF i = 0 THEN {} ELSE Step(g[i - 1], i)]
           Whole(g) == g = [i \in Nat |-> IF i = 0 THEN {} ELSE Step(g[i - 1], i)]
<1>0. Log!writersAfter(l) = CHOOSE g : Whole(g)
  BY DEF Log!writersAfter
<1> HIDE DEF Step
<1>1. ASSUME NEW m \in Nat PROVE \E g : Upto(g, m)
  <2> DEFINE S == {i \in Nat : \E g : Upto(g, i)}
  <2>1. 0 \in S
    <3>1. Upto([i \in 0..0 |-> {}], 0)
      OBVIOUS
    <3> QED
      BY <3>1, Zenon
  <2>2. ASSUME NEW i \in Nat, i \in S PROVE i + 1 \in S
    <3>1. PICK g : Upto(g, i)
      BY <2>2
    <3> DEFINE h == [j \in 0..(i + 1) |-> IF j = i + 1 THEN Step(g[i], i + 1) ELSE g[j]]
    <3>2. \A j \in 0..i : g[j] = IF j = 0 THEN {} ELSE Step(g[j - 1], j)
      BY <3>1, Zenon
    <3>3. ASSUME NEW j \in 0..(i + 1)
          PROVE  h[j] = IF j = 0 THEN {} ELSE Step(h[j - 1], j)
      <4>1. CASE j = i + 1
        <5>1. h[j] = Step(g[i], j) /\ h[j - 1] = g[i] /\ j # 0
          BY <4>1
        <5> QED
          BY <5>1
      <4>2. CASE j \in 0..i
        <5>1. h[j] = g[j] /\ (j # 0 => h[j - 1] = g[j - 1])
          BY <4>2
        <5> QED
          BY <5>1, <4>2, <3>2
      <4> QED
        BY <4>1, <4>2
    <3>4. h = [j \in 0..(i + 1) |-> h[j]]
      OBVIOUS
    <3> HIDE DEF h
    <3>5. Upto(h, i + 1)
      BY <3>3, <3>4, Zenon
    <3> QED
      BY <3>5
  <2> HIDE DEF S
  <2>3. Nat \subseteq S
    BY <2>1, <2>2, NatSetInduction
  <2> QED
    BY <2>3, Zenon DEF S
<1>2. ASSUME NEW g, NEW h, NEW m \in Nat, NEW k \in Nat, Upto(g, m), Upto(h, k)
      PROVE  \A i \in Nat : i <= m /\ i <= k => g[i] = h[i]
  <2> DEFINE S == {i \in Nat : i <= m /\ i <= k => g[i] = h[i]}
  <2>0. /\ \A i \in 0..m : g[i] = IF i = 0 THEN {} ELSE Step(g[i - 1], i)
        /\ \A i \in 0..k : h[i] = IF i = 0 THEN {} ELSE Step(h[i - 1], i)
    BY <1>2, Zenon
  <2>1. 0 \in S
    BY <2>0
  <2>2. ASSUME NEW i \in Nat, i \in S PROVE i + 1 \in S
    <3> SUFFICES ASSUME i + 1 <= m, i + 1 <= k PROVE g[i + 1] = h[i + 1]
      OBVIOUS
    <3>1. g[i] = h[i]
      BY <2>2
    <3>2. i + 1 \in 0..m /\ i + 1 \in 0..k /\ i + 1 # 0 /\ (i + 1) - 1 = i
      OBVIOUS
    <3>3. g[i + 1] = Step(g[i], i + 1)
      BY <2>0, <3>2
    <3>4. h[i + 1] = Step(h[i], i + 1)
      BY <2>0, <3>2
    <3> QED
      BY <3>1, <3>3, <3>4
  <2> HIDE DEF S
  <2>3. Nat \subseteq S
    BY <2>1, <2>2, NatSetInduction
  <2> QED
    BY <2>3 DEF S
<1> DEFINE part[m \in Nat] == CHOOSE g : Upto(g, m)
           F == [m \in Nat |-> part[m][m]]
<1>3. \A m \in Nat : Upto(part[m], m)
  BY <1>1, Zenon
<1> HIDE DEF part
<1>4. ASSUME NEW i \in Nat PROVE F[i] = IF i = 0 THEN {} ELSE Step(F[i - 1], i)
  <2>1. part[i][i] = IF i = 0 THEN {} ELSE Step(part[i][i - 1], i)
    <3>1. PICK g : g = part[i]
      OBVIOUS
    <3>2. g = [j \in 0..i |-> IF j = 0 THEN {} ELSE Step(g[j - 1], j)]
      BY <1>3, <3>1, Zenon
    <3>3. \A j \in 0..i : g[j] = IF j = 0 THEN {} ELSE Step(g[j - 1], j)
      BY <3>2, Zenon
    <3>4. i \in 0..i
      OBVIOUS
    <3> QED
      BY <3>1, <3>3, <3>4
  <2>2. ASSUME i # 0 PROVE part[i][i - 1] = part[i - 1][i - 1]
    <3>1. i - 1 \in Nat /\ i - 1 <= i
      BY <2>2
    <3>2. Upto(part[i], i) /\ Upto(part[i - 1], i - 1)
      BY <1>3, <3>1
    <3> HIDE DEF Upto
    <3> QED
      BY <1>2, <3>1, <3>2
  <2> QED
    BY <2>1, <2>2
<1>5. F = [i \in Nat |-> F[i]]
  OBVIOUS
<1> HIDE DEF F
<1>6. Whole(F)
  BY <1>4, <1>5
<1>7. Whole(Log!writersAfter(l))
  <2> HIDE DEF Whole
  <2> QED
    BY <1>0, <1>6, Zenon
<1> QED
  BY <1>7, Zenon DEF Step

(* Appending an entry leaves the writers after the earlier entries alone,    *)
(* and applies the entry's change to the last of them.                       *)
LEMMA WritersAfterAppend ==
  ASSUME NEW l, IsSequence(l), NEW e
  PROVE  Log!writersAfter(Append(l, e))[Len(l) + 1] =
           Log!applyChange(Log!writersAfter(l)[Len(l)], e.change)
<1> DEFINE m == Append(l, e)
           S == {i \in Nat : i <= Len(l) => Log!writersAfter(m)[i] = Log!writersAfter(l)[i]}
<1>0. /\ Len(l) \in Nat /\ DOMAIN l = 1..Len(l)
      /\ m[Len(l) + 1] = e /\ \A i \in DOMAIN l : m[i] = l[i]
  BY AppendShape, SequenceShape
<1> HIDE DEF m
<1>1. 0 \in S
  BY WritersAfterEquation
<1>2. ASSUME NEW i \in Nat, i \in S PROVE i + 1 \in S
  <2> SUFFICES ASSUME i + 1 <= Len(l)
               PROVE  Log!writersAfter(m)[i + 1] = Log!writersAfter(l)[i + 1]
    OBVIOUS
  <2>1. Log!writersAfter(m)[i] = Log!writersAfter(l)[i] /\ m[i + 1] = l[i + 1]
    BY <1>0, <1>2
  <2>2. i + 1 \in Nat /\ i + 1 # 0 /\ (i + 1) - 1 = i
    OBVIOUS
  <2>3. Log!writersAfter(m)[i + 1] = Log!applyChange(Log!writersAfter(m)[i], m[i + 1].change)
    BY <2>2, WritersAfterEquation
  <2>4. Log!writersAfter(l)[i + 1] = Log!applyChange(Log!writersAfter(l)[i], l[i + 1].change)
    BY <2>2, WritersAfterEquation
  <2> QED
    BY <2>1, <2>3, <2>4
<1> HIDE DEF S
<1>3. Nat \subseteq S
  BY <1>1, <1>2, NatSetInduction
<1>4. Log!writersAfter(m)[Len(l)] = Log!writersAfter(l)[Len(l)]
  BY <1>0, <1>3 DEF S
<1>5. Len(l) + 1 \in Nat /\ Len(l) + 1 # 0 /\ (Len(l) + 1) - 1 = Len(l)
  BY <1>0
<1>6. Log!writersAfter(m)[Len(l) + 1] =
        Log!applyChange(Log!writersAfter(m)[Len(l)], m[Len(l) + 1].change)
  BY <1>5, WritersAfterEquation
<1> QED
  BY <1>0, <1>4, <1>6 DEF m

-----------------------------------------------------------------------------
(* A replica that a step does not touch. *)
LEMMA OtherReplica ==
  ASSUME NEW q, ChainOk(q), QueueOk(q), RunOk(q), signed \subseteq signed',
         entries'[q] = entries[q], state'[q] = state[q], queue'[q] = queue[q]
  PROVE  ChainOk(q)' /\ QueueOk(q)' /\ RunOk(q)'
<1>1. ChainOk(q)'
  BY DEF ChainOk
<1>2. QueueOk(q)'
  BY DEF QueueOk
<1>3. RunOk(q)'
  BY DEF RunOk, InPlace, Authorized
<1> QED
  BY <1>1, <1>2, <1>3

(* The chain of a replica that only its queue moves at. *)
LEMMA SameChain ==
  ASSUME NEW p, ChainOk(p), signed \subseteq signed',
         entries'[p] = entries[p], state'[p] = state[p]
  PROVE  ChainOk(p)'
BY DEF ChainOk

(* _runExclusive: a task that settles makes way for one that has not begun. *)
LEMMA SettleQueue ==
  ASSUME ChainInv, NEW p \in Replicas, Turn(p, 1), Settle(p, 1)
  PROVE  /\ queue' = [r \in Replicas |-> queue'[r]]
         /\ \A q \in Replicas \ {p} : queue'[q] = queue[q]
         /\ QueueOk(p)'
         /\ queue'[p] # << >> => queue'[p][1].phase = "queued"
<1> DEFINE s == queue[p]
           r == Others(p, 1)
<1>1. /\ queue = [x \in Replicas |-> queue[x]]
      /\ IsSequence(s) /\ Len(s) <= MaxQueue /\ s # << >>
      /\ \A k \in DOMAIN s : IsCall(s[k]) /\ (k # 1 => s[k].phase = "queued")
  BY DEF ChainInv, QueueOk, Turn
<1>2. Len(s) \in Nat /\ DOMAIN s = 1..Len(s) /\ 1 \in DOMAIN s
  BY <1>1, SequenceShape
<1>3. /\ queue' = [x \in Replicas |-> queue'[x]] /\ queue'[p] = r
      /\ \A q \in Replicas \ {p} : queue'[q] = queue[q]
  BY <1>1 DEF Settle
<1>4. r = SubSeq(s, 1, 1 - 1) \o SubSeq(s, 1 + 1, Len(s))
  BY DEF Others
<1> HIDE DEF s, r
<1>5. /\ IsSequence(r) /\ Len(r) = Len(s) - 1
      /\ \A i \in DOMAIN r : r[i] = IF i < 1 THEN s[i] ELSE s[i + 1]
  BY <1>1, <1>2, <1>4, WithoutShape, Zenon
<1>6. DOMAIN r = 1..(Len(s) - 1) /\ (r # << >> => 1 \in DOMAIN r)
  BY <1>2, <1>5, SequenceShape
<1>7. ASSUME NEW i \in DOMAIN r PROVE IsCall(r[i]) /\ r[i].phase = "queued"
  <2>1. i + 1 \in DOMAIN s /\ i + 1 # 1 /\ ~(i < 1)
    BY <1>2, <1>6
  <2>2. r[i] = s[i + 1]
    BY <1>5, <2>1
  <2> QED
    BY <1>1, <2>1, <2>2
<1>8. Len(r) <= MaxQueue
  BY <1>1, <1>2, <1>5, ChainBounds
<1>9. QueueOk(p)'
  BY <1>3, <1>5, <1>7, <1>8 DEF QueueOk, IsCall
<1> QED
  BY <1>3, <1>6, <1>7, <1>9

(* The running task goes on to its next await. *)
LEMMA MoveQueue ==
  ASSUME ChainInv, NEW p \in Replicas, Turn(p, 1), NEW c, IsCall(c), Moves(p, 1, c)
  PROVE  /\ queue' = [r \in Replicas |-> queue'[r]]
         /\ \A q \in Replicas \ {p} : queue'[q] = queue[q]
         /\ QueueOk(p)'
         /\ queue'[p][1] = c
<1> DEFINE s == queue[p]
           r == [s EXCEPT ![1] = c]
<1>1. /\ queue = [x \in Replicas |-> queue[x]]
      /\ IsSequence(s) /\ Len(s) <= MaxQueue /\ s # << >>
      /\ \A k \in DOMAIN s : IsCall(s[k]) /\ (k # 1 => s[k].phase = "queued")
  BY DEF ChainInv, QueueOk, Turn
<1>2. Len(s) \in Nat /\ DOMAIN s = 1..Len(s) /\ 1 \in DOMAIN s
  BY <1>1, SequenceShape
<1>3. /\ queue' = [x \in Replicas |-> queue'[x]] /\ queue'[p] = r
      /\ \A q \in Replicas \ {p} : queue'[q] = queue[q]
  BY <1>1, Zenon DEF Moves
<1> HIDE DEF s
<1>4. /\ IsSequence(r) /\ Len(r) = Len(s) /\ DOMAIN r = DOMAIN s
      /\ \A i \in DOMAIN s : r[i] = IF i = 1 THEN c ELSE s[i]
  BY <1>1, <1>2, ReplaceShape, Zenon
<1> HIDE DEF r
<1>5. \A i \in DOMAIN r : IsCall(r[i]) /\ (i # 1 => r[i].phase = "queued")
  BY <1>1, <1>4
<1>6. QueueOk(p)'
  BY <1>1, <1>3, <1>4, <1>5 DEF QueueOk, IsCall
<1> QED
  BY <1>2, <1>3, <1>4, <1>6

(* A new call goes behind the running one. *)
LEMMA EnqueueStep ==
  ASSUME ChainInv, NEW p \in Replicas, NEW c, IsCall(c), c.phase = "queued", Enqueue(p, c)
  PROVE  ChainInv'
<1> DEFINE s == queue[p]
           r == Append(s, c)
<1>0. /\ entries' = entries /\ state' = state /\ signed' = signed
      /\ Len(s) < MaxQueue /\ calls' \in 0..MaxCalls
  BY ChainBounds DEF Enqueue, chain, ChainInv
<1>1. /\ queue = [x \in Replicas |-> queue[x]]
      /\ IsSequence(s)
      /\ \A k \in DOMAIN s : IsCall(s[k]) /\ (k # 1 => s[k].phase = "queued")
  BY DEF ChainInv, QueueOk
<1>2. Len(s) \in Nat /\ DOMAIN s = 1..Len(s) /\ (s = << >> <=> Len(s) = 0)
  BY <1>1, SequenceShape
<1>3. /\ queue' = [x \in Replicas |-> queue'[x]] /\ queue'[p] = r
      /\ \A q \in Replicas \ {p} : queue'[q] = queue[q]
  BY <1>1, Zenon DEF Enqueue
<1> HIDE DEF s
<1>4. /\ IsSequence(r) /\ Len(r) = Len(s) + 1 /\ DOMAIN r = DOMAIN s \cup {Len(s) + 1}
      /\ r[Len(s) + 1] = c /\ \A i \in DOMAIN s : r[i] = s[i]
  BY <1>1, AppendShape
<1> HIDE DEF r
<1>5. \A i \in DOMAIN r : IsCall(r[i]) /\ (i # 1 => r[i].phase = "queued")
  BY <1>1, <1>4
<1>6. Len(r) <= MaxQueue
  BY <1>0, <1>2, <1>4, ChainBounds
<1>7. QueueOk(p)'
  BY <1>3, <1>4, <1>5, <1>6, ZenonT(30) DEF QueueOk, IsCall
<1>8. RunOk(p)'
  <2>1. CASE s = << >>
    <3>1. queue'[p][1].phase = "queued"
      BY <1>2, <1>3, <1>4, <2>1, QueuePlaces, ZenonT(30)
    <3> QED
      BY <3>1 DEF RunOk
  <2>2. CASE s # << >>
    <3>1. 1 \in DOMAIN s
      BY <1>2, <2>2
    <3>2. queue'[p][1] = queue[p][1] /\ queue[p] # << >>
      BY <1>3, <1>4, <2>2, <3>1 DEF s
    <3>3. RunOk(p)
      BY DEF ChainInv
    <3> QED
      BY <1>0, <3>2, <3>3 DEF RunOk, InPlace, Authorized
  <2> QED
    BY <2>1, <2>2
<1>9. ASSUME NEW q \in Replicas PROVE ChainOk(q)' /\ QueueOk(q)' /\ RunOk(q)'
  <2>1. ChainOk(q) /\ QueueOk(q) /\ RunOk(q)
    BY DEF ChainInv
  <2>2. CASE q = p
    BY <1>0, <1>7, <1>8, <2>1, <2>2, SameChain
  <2>3. CASE q # p
    BY <1>0, <1>3, <2>1, <2>3, OtherReplica
  <2> QED
    BY <2>2, <2>3
<1> QED
  BY <1>0, <1>3, <1>9 DEF ChainInv, IsEntry

-----------------------------------------------------------------------------
(* A step at one replica. *)
LEMMA StepAt ==
  ASSUME ChainInv, NEW p \in Replicas, calls' = calls,
         signed \subseteq signed', \A e \in signed' : IsEntry(e),
         entries' = [r \in Replicas |-> entries'[r]],
         state' = [r \in Replicas |-> state'[r]],
         queue' = [r \in Replicas |-> queue'[r]],
         \A q \in Replicas \ {p} : /\ entries'[q] = entries[q] /\ state'[q] = state[q]
                                   /\ queue'[q] = queue[q],
         ChainOk(p)', QueueOk(p)', RunOk(p)'
  PROVE  ChainInv'
<1>1. ASSUME NEW q \in Replicas PROVE ChainOk(q)' /\ QueueOk(q)' /\ RunOk(q)'
  <2>1. ChainOk(q) /\ QueueOk(q) /\ RunOk(q)
    BY DEF ChainInv
  <2>2. CASE q = p
    BY <2>2
  <2>3. CASE q # p
    BY <2>1, <2>3, OtherReplica
  <2> QED
    BY <2>2, <2>3
<1>2. calls' \in 0..MaxCalls
  BY DEF ChainInv
<1> QED
  BY <1>1, <1>2 DEF ChainInv, IsEntry

(* The running call, and the one it becomes. *)
LEMMA RunningCall ==
  ASSUME ChainInv, NEW p \in Replicas, Turn(p, 1)
  PROVE  /\ IsCall(queue[p][1])
         /\ ChainOk(p) /\ RunOk(p) /\ queue[p] # << >>
<1>1. IsSequence(queue[p]) /\ queue[p] # << >> /\ \A k \in DOMAIN queue[p] : IsCall(queue[p][k])
  BY DEF ChainInv, QueueOk, Turn
<1>2. 1 \in DOMAIN queue[p]
  BY <1>1, SequenceShape
<1> QED
  BY <1>1, <1>2 DEF ChainInv

AtEntryOf(c, ph, e) == [c EXCEPT !.phase = ph, !.entry = e]
AtPriorOf(c, ph, pr) == [c EXCEPT !.phase = ph, !.prior = pr]
AtPlaceOf(c, ph, pr, e) == [c EXCEPT !.phase = ph, !.at = @ + 1, !.prior = pr, !.entry = e]

(* A call that awaits its next answer. *)
LEMMA AtPhase ==
  ASSUME NEW c, IsCall(c), NEW ph
  PROVE  LET d == [c EXCEPT !.phase = ph]
         IN  /\ d = [kind |-> c.kind, phase |-> ph, change |-> c.change, entry |-> c.entry,
                     snapshot |-> c.snapshot, at |-> c.at, prior |-> c.prior]
             /\ IsCall(d) /\ d.phase = ph /\ d.entry = c.entry
<1>1. c = [kind |-> c.kind, phase |-> c.phase, change |-> c.change, entry |-> c.entry,
           snapshot |-> c.snapshot, at |-> c.at, prior |-> c.prior]
  BY DEF IsCall
<1>2. [c EXCEPT !.phase = ph] =
          [kind |-> c.kind, phase |-> ph, change |-> c.change, entry |-> c.entry,
           snapshot |-> c.snapshot, at |-> c.at, prior |-> c.prior]
  BY <1>1
<1> QED
  BY <1>2 DEF IsCall

(* ... with the entry it is to check. *)
LEMMA AtEntry ==
  ASSUME NEW c, IsCall(c), NEW ph, NEW e
  PROVE  LET d == AtEntryOf(c, ph, e)
         IN  IsCall(d) /\ d.phase = ph /\ d.entry = e
<1>1. PICK d : d = [c EXCEPT !.phase = ph]
  BY Zenon
<1>2. d = [kind |-> c.kind, phase |-> ph, change |-> c.change, entry |-> c.entry,
           snapshot |-> c.snapshot, at |-> c.at, prior |-> c.prior]
  BY <1>1, AtPhase
<1>3. [d EXCEPT !.entry = e] =
          [kind |-> c.kind, phase |-> ph, change |-> c.change, entry |-> e,
           snapshot |-> c.snapshot, at |-> c.at, prior |-> c.prior]
  BY <1>2
<1>4. AtEntryOf(c, ph, e) = [d EXCEPT !.entry = e]
  BY <1>1 DEF AtEntryOf
<1> QED
  BY <1>3, <1>4 DEF IsCall

(* ... with the priorState it has captured. *)
LEMMA AtPrior ==
  ASSUME NEW c, IsCall(c), NEW ph, NEW pr
  PROVE  LET d == AtPriorOf(c, ph, pr)
         IN  IsCall(d) /\ d.phase = ph /\ d.entry = c.entry /\ d.prior = pr
<1>1. PICK d : d = [c EXCEPT !.phase = ph]
  BY Zenon
<1>2. d = [kind |-> c.kind, phase |-> ph, change |-> c.change, entry |-> c.entry,
           snapshot |-> c.snapshot, at |-> c.at, prior |-> c.prior]
  BY <1>1, AtPhase
<1>3. [d EXCEPT !.prior = pr] =
          [kind |-> c.kind, phase |-> ph, change |-> c.change, entry |-> c.entry,
           snapshot |-> c.snapshot, at |-> c.at, prior |-> pr]
  BY <1>2
<1>4. AtPriorOf(c, ph, pr) = [d EXCEPT !.prior = pr]
  BY <1>1 DEF AtPriorOf
<1> QED
  BY <1>3, <1>4 DEF IsCall

(* ... at the next entry of its snapshot. *)
LEMMA AtPlace ==
  ASSUME NEW c, IsCall(c), NEW ph, NEW pr, NEW e
  PROVE  LET d == AtPlaceOf(c, ph, pr, e)
         IN  IsCall(d) /\ d.phase = ph
<1>1. PICK d : d = [c EXCEPT !.phase = ph]
  BY Zenon
<1>2. d = [kind |-> c.kind, phase |-> ph, change |-> c.change, entry |-> c.entry,
           snapshot |-> c.snapshot, at |-> c.at, prior |-> c.prior]
  BY <1>1, AtPhase
<1>3. PICK f : f = [d EXCEPT !.at = @ + 1]
  BY Zenon
<1>4. f = [kind |-> c.kind, phase |-> ph, change |-> c.change, entry |-> c.entry,
           snapshot |-> c.snapshot, at |-> c.at + 1, prior |-> c.prior]
  BY <1>2, <1>3
<1>5. PICK g : g = [f EXCEPT !.prior = pr]
  BY Zenon
<1>6. g = [kind |-> c.kind, phase |-> ph, change |-> c.change, entry |-> c.entry,
           snapshot |-> c.snapshot, at |-> c.at + 1, prior |-> pr]
  BY <1>4, <1>5
<1>7. [g EXCEPT !.entry = e] =
          [kind |-> c.kind, phase |-> ph, change |-> c.change, entry |-> e,
           snapshot |-> c.snapshot, at |-> c.at + 1, prior |-> pr]
  BY <1>6
<1>8. AtPlaceOf(c, ph, pr, e) = [g EXCEPT !.entry = e]
  BY <1>1, <1>2, <1>3, <1>5, ZenonT(30) DEF AtPlaceOf
<1> QED
  BY <1>7, <1>8 DEF IsCall

(* Sign: a new payload, that of the author's change. *)
LEMMA SignStep ==
  ASSUME ChainInv, NEW p \in Replicas, Turn(p, 1), Sign(p, 1)
  PROVE  ChainInv'
<1> DEFINE first == queue[p][1]
           entry == [sequenceNumber |-> Len(entries[p]), parentHash |-> Log!headHash(entries[p]),
                     change |-> first.change, signerKeyId |-> p]
           c == AtEntryOf(first, "check", entry)
<1>1. /\ IsCall(first) /\ ChainOk(p) /\ first.kind = "author"
      /\ Moves(p, 1, c) /\ signed' = signed \cup {entry}
      /\ entries' = entries /\ state' = state /\ calls' = calls
  BY RunningCall, ZenonT(30) DEF Sign, chain, AtEntryOf
<1>2. first.change \in Changes
  BY <1>1, ZenonT(30) DEF IsCall
<1>3. IsEntry(entry)
  BY <1>2 DEF IsEntry
<1> HIDE DEF first, entry
<1>4. IsCall(c) /\ c.phase = "check"
  BY <1>1, AtEntry
<1> HIDE DEF c
<1>5. /\ queue' = [r \in Replicas |-> queue'[r]]
      /\ \A q \in Replicas \ {p} : queue'[q] = queue[q]
      /\ QueueOk(p)' /\ queue'[p][1] = c
  BY <1>1, <1>4, MoveQueue
<1>6. RunOk(p)'
  BY <1>4, <1>5 DEF RunOk
<1>7. ChainOk(p)'
  BY <1>1, SameChain
<1>8. \A e \in signed' : IsEntry(e)
  BY <1>1, <1>3 DEF ChainInv
<1> QED
  BY <1>1, <1>5, <1>6, <1>7, <1>8, StepAt DEF ChainInv

(* Reset: replay begins with an empty chain. *)
LEMMA ResetStep ==
  ASSUME ChainInv, NEW p \in Replicas, Turn(p, 1), Reset(p, 1)
  PROVE  ChainInv'
<1> DEFINE first == queue[p][1]
           e == first.snapshot[1]
           c == AtEntryOf(first, "check", e)
<1>1. /\ IsCall(first) /\ Moves(p, 1, c) /\ signed' = signed /\ calls' = calls
      /\ entries' = [entries EXCEPT ![p] = << >>]
      /\ state' = [state EXCEPT ![p] = undefined]
  BY RunningCall DEF Reset, AtEntryOf
<1> HIDE DEF first, e
<1>2. IsCall(c) /\ c.phase = "check"
  BY <1>1, AtEntry
<1> HIDE DEF c
<1>3. /\ queue' = [r \in Replicas |-> queue'[r]]
      /\ \A q \in Replicas \ {p} : queue'[q] = queue[q]
      /\ QueueOk(p)' /\ queue'[p][1] = c
  BY <1>1, <1>2, MoveQueue
<1>4. /\ entries' = [r \in Replicas |-> entries'[r]] /\ entries'[p] = << >>
      /\ state' = [r \in Replicas |-> state'[r]] /\ state'[p] = undefined
      /\ \A q \in Replicas \ {p} : entries'[q] = entries[q] /\ state'[q] = state[q]
  BY <1>1, Zenon DEF ChainInv
<1>5. RunOk(p)'
  BY <1>2, <1>3 DEF RunOk
<1>6. ChainOk(p)'
  BY <1>4, EmptyIsSequence DEF ChainOk
<1>7. \A x \in signed' : IsEntry(x)
  BY <1>1 DEF ChainInv
<1> QED
  BY <1>1, <1>3, <1>4, <1>5, <1>6, <1>7, StepAt, Zenon

(* A step of the queue alone: the running call moves on to c, or settles. *)
LEMMA QueueStep ==
  ASSUME ChainInv, NEW p \in Replicas, Turn(p, 1), UNCHANGED <<chain, calls, signed>>,
         NEW c, IsCall(c),
         \/ Settle(p, 1)
         \/ /\ Moves(p, 1, c)
            /\ c.phase \in {"authorize", "commit"} => InPlace(p, c.entry)
            /\ c.phase = "commit" =>
                 /\ c.entry \in signed /\ Authorized(p, c.entry)
                 /\ c.prior = IF state[p] = undefined THEN {} ELSE state[p]
  PROVE  ChainInv'
<1>1. /\ entries' = entries /\ state' = state /\ calls' = calls /\ signed' = signed
      /\ ChainOk(p)
  BY RunningCall DEF chain
<1>2. ChainOk(p)'
  BY <1>1, SameChain
<1>3. \A x \in signed' : IsEntry(x)
  BY <1>1 DEF ChainInv
<1>4. CASE Settle(p, 1)
  <2>1. /\ queue' = [r \in Replicas |-> queue'[r]]
        /\ \A q \in Replicas \ {p} : queue'[q] = queue[q]
        /\ QueueOk(p)' /\ (queue'[p] # << >> => queue'[p][1].phase = "queued")
    BY <1>4, SettleQueue
  <2>2. RunOk(p)'
    BY <2>1 DEF RunOk
  <2> QED
    BY <1>1, <1>2, <1>3, <2>1, <2>2, StepAt DEF ChainInv
<1>5. CASE ~Settle(p, 1)
  <2>1. /\ queue' = [r \in Replicas |-> queue'[r]]
        /\ \A q \in Replicas \ {p} : queue'[q] = queue[q]
        /\ QueueOk(p)' /\ queue'[p][1] = c
    BY <1>5, MoveQueue
  <2>2. RunOk(p)'
    BY <1>1, <1>5, <2>1 DEF RunOk, InPlace, Authorized
  <2> QED
    BY <1>1, <1>2, <1>3, <2>1, <2>2, StepAt, ZenonT(30) DEF ChainInv
<1> QED
  BY <1>4, <1>5

(* Check: steps 2 and 3. *)
LEMMA CheckStep ==
  ASSUME ChainInv, NEW p \in Replicas, Turn(p, 1), Check(p, 1)
  PROVE  ChainInv'
<1> DEFINE first == queue[p][1]
           c == [first EXCEPT !.phase = "authorize"]
<1>1. /\ IsCall(first) /\ UNCHANGED <<chain, calls, signed>>
      /\ IF InPlace(p, first.entry) THEN Moves(p, 1, c) ELSE Settle(p, 1)
  BY RunningCall DEF Check
<1> HIDE DEF first
<1>2. IsCall(c) /\ c.phase = "authorize" /\ c.entry = first.entry
  BY <1>1, AtPhase, Zenon
<1> HIDE DEF c
<1> QED
  BY <1>1, <1>2, QueueStep

(* Authorize: steps 5 and 6, for an entry whose place was checked before. *)
LEMMA AuthorizeStep ==
  ASSUME ChainInv, NEW p \in Replicas, Turn(p, 1), Authorize(p, 1)
  PROVE  ChainInv'
<1> DEFINE first == queue[p][1]
           prior == IF state[p] = undefined THEN {} ELSE state[p]
           c == AtPriorOf(first, "commit", prior)
<1>1. /\ IsCall(first) /\ UNCHANGED <<chain, calls, signed>>
      /\ IF Verifies(first.entry) /\ Authorized(p, first.entry)
         THEN Moves(p, 1, c) ELSE Settle(p, 1)
  BY RunningCall DEF Authorize, AtPriorOf
<1>2. InPlace(p, first.entry)
  BY RunningCall DEF Authorize, RunOk
<1> HIDE DEF first, prior
<1>3. IsCall(c) /\ c.phase = "commit" /\ c.entry = first.entry /\ c.prior = prior
  BY <1>1, AtPrior
<1> HIDE DEF c
<1> QED
  BY <1>1, <1>2, <1>3, QueueStep DEF Verifies, prior

(* Throws: a task that throws settles. *)
LEMMA ThrowsStep ==
  ASSUME ChainInv, NEW p \in Replicas, Turn(p, 1), Throws(p, 1)
  PROVE  ChainInv'
<1>1. IsCall(queue[p][1]) /\ UNCHANGED <<chain, calls, signed>> /\ Settle(p, 1)
  BY RunningCall DEF Throws
<1> QED
  BY <1>1, QueueStep

(* What a commit does to the chain: the entry and its change, on top of the  *)
(* chain and list as they are.                                               *)
LEMMA CommitChain ==
  ASSUME ChainInv, NEW p \in Replicas, Turn(p, 1), Commit(p, 1)
  PROVE  /\ queue[p][1].entry \in signed /\ IsEntry(queue[p][1].entry)
         /\ InPlace(p, queue[p][1].entry) /\ Authorized(p, queue[p][1].entry)
         /\ entries'[p] = Append(entries[p], queue[p][1].entry)
         /\ entries' = [r \in Replicas |-> entries'[r]]
         /\ state' = [r \in Replicas |-> state'[r]]
         /\ \A q \in Replicas \ {p} : entries'[q] = entries[q] /\ state'[q] = state[q]
         /\ ChainOk(p)'
<1> DEFINE e == queue[p][1].entry
           prior == queue[p][1].prior
           l == entries[p]
<1>1. /\ ChainOk(p) /\ e \in signed /\ InPlace(p, e) /\ Authorized(p, e)
      /\ prior = IF state[p] = undefined THEN {} ELSE state[p]
  BY RunningCall DEF Commit, RunOk
<1>2. IsEntry(e)
  BY <1>1 DEF ChainInv
<1>3. /\ entries' = [entries EXCEPT ![p] = Append(l, e)]
      /\ state' = [state EXCEPT ![p] = Log!applyChange(prior, e.change)]
      /\ signed' = signed
  BY DEF Commit
<1> HIDE DEF e, prior
<1>4. /\ entries' = [r \in Replicas |-> entries'[r]] /\ entries'[p] = Append(l, e)
      /\ state' = [r \in Replicas |-> state'[r]]
      /\ state'[p] = Log!applyChange(prior, e.change)
      /\ \A q \in Replicas \ {p} : entries'[q] = entries[q] /\ state'[q] = state[q]
  BY <1>3, ZenonT(30) DEF ChainInv
<1>5. /\ IsSequence(l) /\ Len(l) \in Nat /\ DOMAIN l = 1..Len(l) /\ (l = << >> <=> Len(l) = 0)
      /\ \A n \in DOMAIN l : l[n] \in signed /\ l[n].sequenceNumber = n - 1
      /\ e.sequenceNumber = Len(l)
  BY <1>1, SequenceShape DEF ChainOk, InPlace
<1>6. prior = Log!writersAfter(l)[Len(l)] /\ prior \subseteq Writers
  <2>1. CASE l = << >>
    <3>1. state[p] = undefined
      BY <1>1, <2>1 DEF ChainOk
    <3> QED
      BY <1>1, <1>5, <2>1, <3>1, WritersAfterEquation
  <2>2. CASE l # << >>
    <3>1. state[p] = Log!writersAfter(l)[Len(l)] /\ state[p] \subseteq Writers
      BY <1>1, <2>2 DEF ChainOk
    <3>2. state[p] # undefined
      BY <3>1, WritersAreDefined DEF Writers
    <3> QED
      BY <1>1, <3>1, <3>2, ZenonT(30)
  <2> QED
    BY <2>1, <2>2
<1>7. Log!writersAfter(Append(l, e))[Len(l) + 1] = state'[p]
  BY <1>4, <1>5, <1>6, WritersAfterAppend
<1>8. state'[p] \subseteq Writers
  <2>1. e.change.adds \subseteq Writers
    BY <1>2 DEF IsEntry, Writers
  <2> QED
    BY <1>4, <1>6, <2>1 DEF Log!applyChange
<1>9. /\ IsSequence(Append(l, e)) /\ Len(Append(l, e)) = Len(l) + 1
      /\ DOMAIN Append(l, e) = DOMAIN l \cup {Len(l) + 1}
      /\ Append(l, e)[Len(l) + 1] = e
      /\ \A i \in DOMAIN l : Append(l, e)[i] = l[i]
  BY <1>5, AppendShape
<1>10. Append(l, e) # << >>
  BY <1>5, <1>9, SequenceShape
<1> HIDE DEF l
<1>11. ASSUME NEW n \in DOMAIN Append(l, e)
       PROVE  Append(l, e)[n] \in signed /\ Append(l, e)[n].sequenceNumber = n - 1
  BY <1>1, <1>5, <1>9
<1>12. ChainOk(p)'
  BY <1>3, <1>4, <1>7, <1>8, <1>9, <1>10, <1>11, Zenon DEF ChainOk, Writers
<1> QED
  BY <1>1, <1>2, <1>4, <1>12, ZenonT(30) DEF e, l

(* Commit: and the call goes on to the next entry of its snapshot, or ends. *)
LEMMA CommitStep ==
  ASSUME ChainInv, NEW p \in Replicas, Turn(p, 1), Commit(p, 1)
  PROVE  ChainInv'
<1> DEFINE first == queue[p][1]
           c == AtPlaceOf(first, "check", undefined, first.snapshot[first.at + 1])
<1>1. /\ entries' = [r \in Replicas |-> entries'[r]] /\ state' = [r \in Replicas |-> state'[r]]
      /\ \A q \in Replicas \ {p} : entries'[q] = entries[q] /\ state'[q] = state[q]
      /\ ChainOk(p)'
  BY CommitChain
<1>2. IsCall(first) /\ calls' = calls /\ signed' = signed /\ (Moves(p, 1, c) \/ Settle(p, 1))
  BY RunningCall DEF Commit, Advance, AtPlaceOf
<1>3. \A e \in signed' : IsEntry(e)
  BY <1>2 DEF ChainInv
<1> HIDE DEF first
<1>4. IsCall(c) /\ c.phase = "check"
  BY <1>2, AtPlace
<1> HIDE DEF c
<1>5. CASE Moves(p, 1, c)
  <2>1. /\ queue' = [r \in Replicas |-> queue'[r]]
        /\ \A q \in Replicas \ {p} : queue'[q] = queue[q]
        /\ QueueOk(p)' /\ queue'[p][1] = c
    BY <1>4, <1>5, MoveQueue
  <2>2. RunOk(p)'
    BY <1>4, <2>1 DEF RunOk
  <2> QED
    BY <1>1, <1>2, <1>3, <2>1, <2>2, StepAt, ZenonT(30)
<1>6. CASE Settle(p, 1)
  <2>1. /\ queue' = [r \in Replicas |-> queue'[r]]
        /\ \A q \in Replicas \ {p} : queue'[q] = queue[q]
        /\ QueueOk(p)' /\ (queue'[p] # << >> => queue'[p][1].phase = "queued")
    BY <1>6, SettleQueue
  <2>2. RunOk(p)'
    BY <2>1 DEF RunOk
  <2> QED
    BY <1>1, <1>2, <1>3, <2>1, <2>2, StepAt, ZenonT(30)
<1> QED
  BY <1>2, <1>5, <1>6

-----------------------------------------------------------------------------
(* A step of the chain, by its action. *)
LEMMA RunCases ==
  ASSUME NEW p \in Replicas, NEW k \in 1..Len(queue[p]), Run(p, k)
  PROVE  /\ Turn(p, 1)
         /\ \/ Sign(p, 1) \/ Reset(p, 1) \/ Check(p, 1) \/ Authorize(p, 1)
            \/ Commit(p, 1) \/ Throws(p, 1)
<1>1. k = 1 /\ Run(p, 1)
  BY DEF Run, Turn
<1> QED
  BY <1>1 DEF Run

(* The constructor: every chain is empty, nothing is queued or signed.       *)
LEMMA InvariantHoldsAtFirst == ChainInit => ChainInv
<1> SUFFICES ASSUME ChainInit PROVE ChainInv
  OBVIOUS
<1>1. ASSUME NEW p \in Replicas PROVE ChainOk(p) /\ QueueOk(p) /\ RunOk(p)
  <2>1. entries[p] = << >> /\ state[p] = undefined /\ queue[p] = << >>
    BY DEF ChainInit
  <2>2. Len(queue[p]) <= MaxQueue
    BY <2>1, EmptyIsSequence, QueuePlaces, ZenonT(30)
  <2> QED
    BY <2>1, <2>2, EmptyIsSequence DEF ChainOk, QueueOk, RunOk
<1> QED
  BY <1>1, ChainBounds DEF ChainInit, ChainInv

(* Every step of a call, and every call made, keeps the invariant.           *)
LEMMA InvariantIsKept == ChainInv /\ [ChainNext]_vars => ChainInv'
<1> SUFFICES ASSUME ChainInv, [ChainNext]_vars PROVE ChainInv'
  OBVIOUS
<1>1. ASSUME UNCHANGED <<entries, state, queue, calls, signed>> PROVE ChainInv'
  BY <1>1 DEF ChainInv, ChainOk, QueueOk, RunOk, InPlace, Authorized
<1>2. CASE UNCHANGED vars
  BY <1>1, <1>2 DEF vars
<1>3. CASE ChainNext
  <2>1. PICK p \in Replicas :
          \/ AuthorAndAppend(p) \/ IngestEntry(p) \/ Replay(p) \/ Entries(p)
          \/ \E k \in 1..Len(queue[p]) : Run(p, k)
    BY <1>3 DEF ChainNext
  <2>2. ASSUME NEW kind, NEW change, NEW entry, NEW snapshot,
               kind = "author" => change \in Changes,
               Enqueue(p, Call(kind, change, entry, snapshot))
        PROVE  ChainInv'
    <3> DEFINE c == Call(kind, change, entry, snapshot)
    <3>1. IsCall(c) /\ c.phase = "queued"
      BY <2>2 DEF Call, IsCall
    <3> HIDE DEF c
    <3> QED
      BY <2>2, <3>1, EnqueueStep DEF c
  <2>3. CASE AuthorAndAppend(p)
    BY <2>2, <2>3 DEF AuthorAndAppend
  <2>4. CASE IngestEntry(p)
    BY <2>2, <2>4 DEF IngestEntry
  <2>5. CASE Replay(p)
    BY <2>2, <2>5 DEF Replay
  <2>6. CASE Entries(p)
    BY <1>1, <2>6 DEF Entries, chain
  <2>7. CASE \E k \in 1..Len(queue[p]) : Run(p, k)
    BY <2>7, RunCases, SignStep, ResetStep, CheckStep, AuthorizeStep, CommitStep, ThrowsStep
  <2> QED
    BY <2>1, <2>3, <2>4, <2>5, <2>6, <2>7
<1> QED
  BY <1>2, <1>3, ZenonT(30)

(* The invariant says what ChainSound says.  An entry that is in place has   *)
(* the number of the chain's length, and the chain's own have smaller ones.  *)
LEMMA InvariantIsEnough == ChainInv => ChainSound
<1> SUFFICES ASSUME ChainInv PROVE ChainSound
  OBVIOUS
<1>1. ASSUME NEW p \in Replicas
      PROVE  /\ state[p] = undefined <=> entries[p] = << >>
             /\ Len(queue[p]) <= MaxQueue
             /\ \A k \in 2..Len(queue[p]) : queue[p][k].phase = "queued"
             /\ entries[p] # << >> => state[p] = Log!writersAfter(entries[p])[Len(entries[p])]
             /\ \A n \in 1..Len(entries[p]) :
                  /\ entries[p][n] \in signed
                  /\ \A k \in 1..Len(queue[p]) :
                       queue[p][k].phase \in {"authorize", "commit"} =>
                         entries[p][n] # queue[p][k].entry
  <2>1. ChainOk(p) /\ QueueOk(p) /\ RunOk(p)
    BY DEF ChainInv
  <2>2. /\ DOMAIN entries[p] = 1..Len(entries[p]) /\ Len(entries[p]) \in Nat
        /\ DOMAIN queue[p] = 1..Len(queue[p]) /\ Len(queue[p]) \in Nat
        /\ (queue[p] = << >> <=> Len(queue[p]) = 0)
    BY <2>1, SequenceShape DEF ChainOk, QueueOk
  <2>3. state[p] = undefined <=> entries[p] = << >>
    BY <2>1, WritersAreDefined DEF ChainOk, Writers
  <2>4. \A k \in 2..Len(queue[p]) : queue[p][k].phase = "queued"
    BY <2>1, <2>2 DEF QueueOk
  <2>5. ASSUME NEW n \in 1..Len(entries[p]), NEW k \in 1..Len(queue[p]),
               queue[p][k].phase \in {"authorize", "commit"}
        PROVE  entries[p][n] # queue[p][k].entry
    <3>1. k = 1
      BY <2>2, <2>4, <2>5, QueuePlaces, ZenonT(30)
    <3>2. queue[p] # << >>
      BY <2>2, QueuePlaces, ZenonT(30)
    <3>3. queue[p][k].entry.sequenceNumber = Len(entries[p])
      BY <2>1, <2>5, <3>1, <3>2, ZenonT(30) DEF RunOk, InPlace
    <3>4. entries[p][n].sequenceNumber = n - 1
      BY <2>1, <2>2 DEF ChainOk
    <3>5. n - 1 # Len(entries[p])
      BY <2>2, QueuePlaces, ZenonT(30)
    <3> QED
      BY <3>3, <3>4, <3>5, ZenonT(30)
  <2> QED
    BY <2>1, <2>2, <2>3, <2>4, <2>5 DEF ChainOk, QueueOk
<1>2. calls \in 0..MaxCalls
  BY DEF ChainInv
<1> QED
  BY <1>1, <1>2 DEF ChainSound, ChainTypeOK

(* ACLChain, for any replicas, changes, bootstrap keys and number of calls:  *)
(* the _state that signers are authorized against is what the entries give,  *)
(* every entry is one that was signed, and no entry gets past its checks     *)
(* twice.                                                                    *)
THEOREM ChainsAreSound == ChainSpec => []ChainSound
<1>1. ChainInit => ChainInv
  BY InvariantHoldsAtFirst
<1>2. ChainInv /\ [ChainNext]_vars => ChainInv'
  BY InvariantIsKept
<1>3. ChainInv => ChainSound
  BY InvariantIsEnough
<1> QED
  BY <1>1, <1>2, <1>3, PTL DEF ChainSpec

-----------------------------------------------------------------------------
(* A commit appends an entry that AclLog allows; Reset empties a chain; no   *)
(* other step touches one.                                                   *)
LEMMA StepImplementsLog == ChainInv /\ [ChainNext]_vars => [Log!Next]_entries
<1> SUFFICES ASSUME ChainInv, [ChainNext]_vars PROVE Log!Next \/ UNCHANGED entries
  OBVIOUS
<1>1. CASE UNCHANGED vars
  BY <1>1 DEF vars
<1>2. CASE ChainNext
  <2>1. PICK p \in Replicas :
          \/ AuthorAndAppend(p) \/ IngestEntry(p) \/ Replay(p) \/ Entries(p)
          \/ \E k \in 1..Len(queue[p]) : Run(p, k)
    BY <1>2 DEF ChainNext
  <2>2. CASE AuthorAndAppend(p) \/ IngestEntry(p) \/ Replay(p) \/ Entries(p)
    BY <2>2 DEF AuthorAndAppend, IngestEntry, Replay, Entries, Enqueue, chain
  <2>3. CASE \E k \in 1..Len(queue[p]) : Run(p, k)
    <3>0. Turn(p, 1)
      BY <2>3, RunCases
    <3>1. CASE Sign(p, 1) \/ Check(p, 1) \/ Authorize(p, 1) \/ Throws(p, 1)
      BY <3>1 DEF Sign, Check, Authorize, Throws, chain
    <3>2. CASE Reset(p, 1)
      <4>1. Log!Empty(p)
        BY <3>2 DEF Reset, Log!Empty
      <4> QED
        BY <4>1 DEF Log!Next
    <3>3. CASE Commit(p, 1)
      <4> DEFINE e == queue[p][1].entry
                 l == entries[p]
      <4>1. IsEntry(e) /\ InPlace(p, e) /\ Authorized(p, e)
        BY <3>0, <3>3, CommitChain
      <4>2. entries' = [entries EXCEPT ![p] = Append(l, e)]
        BY <3>3 DEF Commit
      <4> HIDE DEF e
      <4>3. ChainOk(p)
        BY DEF ChainInv
      <4>4. e.signerKeyId \in Log!mayAuthor(l) /\ e.change \in Changes
        BY <4>1, <4>3 DEF Authorized, ChainOk, Log!mayAuthor, IsEntry
      <4>5. e = [sequenceNumber |-> Len(l), parentHash |-> Log!headHash(l),
                 change |-> e.change, signerKeyId |-> e.signerKeyId]
        BY <4>1 DEF IsEntry, InPlace
      <4>6. Log!Append1(p)
        BY <4>2, <4>4, <4>5, ZenonT(30) DEF Log!Append1
      <4> QED
        BY <4>6 DEF Log!Next
    <3> QED
      BY <2>3, <3>1, <3>2, <3>3, RunCases, ZenonT(30)
  <2> QED
    BY <2>1, <2>2, <2>3
<1> QED
  BY <1>1, <1>2

(* The promise queue of ACLChain makes its calls atomic: for any number of   *)
(* replicas and overlapping calls, each chain behaves as a log of AclLog.    *)
THEOREM ChainsImplementTheLog == ChainSpec => ImplementsLog
<1>1. ChainInit => Log!Init
  BY DEF ChainInit, Log!Init
<1>2. ChainInit => ChainInv
  BY InvariantHoldsAtFirst
<1>3. ChainInv /\ [ChainNext]_vars => ChainInv'
  BY InvariantIsKept
<1>4. ChainInv /\ [ChainNext]_vars => [Log!Next]_entries
  BY StepImplementsLog
<1> QED
  BY <1>1, <1>2, <1>3, <1>4, PTL DEF ChainSpec, ImplementsLog, Log!Spec

-----------------------------------------------------------------------------
(* The inductive invariant of EpochManager: besides LineageKnown, each epoch *)
(* is of a secret that was drawn, and an epoch that is being derived has a   *)
(* parent that was current, and therefore known, when its call began.        *)
EpochInv ==
  /\ LineageKnown
  /\ IsFiniteSet(epochs \cup deriving)
  /\ \A epoch \in epochs \cup deriving : epoch.secret \in 1..secrets
  /\ \A epoch \in deriving : epoch.parent \in epochs \cup {noEpoch}

(* transitionEpoch() up to its await: its secret is new, hence its epoch.    *)
LEMMA EpochBegins == EpochInv /\ TransitionEpoch => EpochInv'
<1> SUFFICES ASSUME EpochInv, TransitionEpoch PROVE EpochInv'
  OBVIOUS
<1> DEFINE epoch == generateEpochId(secrets', currentEpochId)
<1>1. /\ secrets \in 0..MaxEpochs /\ secrets < MaxEpochs /\ secrets' = secrets + 1
      /\ deriving' = deriving \cup {epoch} /\ epochs' = epochs
      /\ currentEpochId' = currentEpochId
  BY DEF TransitionEpoch, EpochInv, LineageKnown, EpochTypeOK
<1>2. epoch.secret = secrets + 1 /\ epoch.parent = currentEpochId
  BY <1>1 DEF generateEpochId
<1>3. secrets \in Nat /\ secrets' \in 0..MaxEpochs
  BY <1>1, MaxEpochsAssumption
<1>4. epoch \notin epochs \cup deriving
  BY <1>2, <1>3 DEF EpochInv
<1> HIDE DEF epoch
<1>5. epochs' \cup deriving' = (epochs \cup deriving) \cup {epoch}
  BY <1>1
<1>6. /\ IsFiniteSet(epochs' \cup deriving')
      /\ Cardinality(epochs' \cup deriving') = Cardinality(epochs \cup deriving) + 1
  BY <1>4, <1>5, FS_AddElement, ZenonT(30) DEF EpochInv
<1>7. Cardinality(epochs \cup deriving) \in Nat
  BY FS_CardinalityType DEF EpochInv
<1>8. EpochTypeOK'
  <2>1. Cardinality(epochs \cup deriving) <= secrets /\ epochs \cap deriving = {}
    BY ZenonT(30) DEF EpochInv, LineageKnown, EpochTypeOK
  <2>2. Cardinality(epochs' \cup deriving') <= secrets'
    BY <1>1, <1>3, <1>6, <1>7, <2>1, BothGrow, ZenonT(30)
  <2> QED
    BY <1>1, <1>3, <1>4, <2>1, <2>2, ZenonT(30) DEF EpochTypeOK
<1>9. \A e \in epochs' \cup deriving' : e.secret \in 1..secrets'
  BY <1>1, <1>2, <1>3 DEF EpochInv
<1>10. \A e \in deriving' : e.parent \in epochs' \cup {noEpoch}
  BY <1>1, <1>2 DEF EpochInv, LineageKnown
<1> QED
  BY <1>1, <1>6, <1>8, <1>9, <1>10 DEF EpochInv, LineageKnown

(* addEpoch: the epoch whose derivation settles becomes the current one.     *)
LEMMA EpochAdded == EpochInv /\ AddEpoch => EpochInv'
<1> SUFFICES ASSUME EpochInv, AddEpoch PROVE EpochInv'
  OBVIOUS
<1>1. PICK epoch \in deriving : /\ epochs' = epochs \cup {epoch} /\ currentEpochId' = epoch
                                /\ deriving' = deriving \ {epoch} /\ secrets' = secrets
  BY DEF AddEpoch
<1>2. epochs' \cup deriving' = epochs \cup deriving
  BY <1>1
<1> QED
  BY <1>1, <1>2, Zenon DEF EpochInv, LineageKnown, EpochTypeOK

(* A rejected transitionEpoch() leaves the epochs as they were.              *)
LEMMA EpochRejected == EpochInv /\ DerivationFails => EpochInv'
<1> SUFFICES ASSUME EpochInv, DerivationFails PROVE EpochInv'
  OBVIOUS
<1>1. PICK epoch \in deriving : /\ deriving' = deriving \ {epoch} /\ epochs' = epochs
                                /\ currentEpochId' = currentEpochId /\ secrets' = secrets
  BY DEF DerivationFails
<1>2. epochs' \cup deriving' \subseteq epochs \cup deriving
  BY <1>1
<1>3. /\ IsFiniteSet(epochs' \cup deriving')
      /\ Cardinality(epochs' \cup deriving') <= Cardinality(epochs \cup deriving)
  BY <1>2, FS_Subset DEF EpochInv
<1>4. Cardinality(epochs \cup deriving) \in Nat /\ Cardinality(epochs' \cup deriving') \in Nat
  BY <1>3, FS_CardinalityType DEF EpochInv
<1>5. EpochTypeOK'
  BY <1>1, <1>3, <1>4 DEF EpochInv, LineageKnown, EpochTypeOK
<1> QED
  BY <1>1, <1>3, <1>5 DEF EpochInv, LineageKnown

(* EpochManager, for any number of calls of transitionEpoch() that overlap,  *)
(* settle in any order or fail: the current epoch and every ancestor of an   *)
(* epoch are known to getEpoch(), and each secret gave at most one epoch.     *)
THEOREM LineagesAreKnown == EpochSpec => []LineageKnown
<1>1. EpochInit => EpochInv
  <2> SUFFICES ASSUME EpochInit PROVE EpochInv
    OBVIOUS
  <2>1. epochs \cup deriving = {} /\ currentEpochId = noEpoch /\ secrets = 0
    BY DEF EpochInit
  <2>2. IsFiniteSet({}) /\ Cardinality({}) = 0
    BY FS_EmptySet
  <2> QED
    BY <2>1, <2>2, MaxEpochsAssumption
    DEF EpochInit, EpochInv, LineageKnown, EpochTypeOK
<1>2. EpochInv /\ [EpochNext]_epochVars => EpochInv'
  <2>1. EpochInv /\ UNCHANGED epochVars => EpochInv'
    BY DEF EpochInv, LineageKnown, EpochTypeOK, epochVars
  <2> QED
    BY <2>1, EpochBegins, EpochAdded, EpochRejected DEF EpochNext
<1>3. EpochInv => LineageKnown
  BY DEF EpochInv
<1> QED
  BY <1>1, <1>2, <1>3, PTL DEF EpochSpec

=============================================================================
