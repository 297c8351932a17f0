--------------------------- MODULE WriterKeyCache ---------------------------
(***************************************************************************)
(* The writer-key cache of a CollabswarmDocument: _cachedWriterKeys, the   *)
(* version counter and the mutations-in-flight counter that guard it, and  *)
(* every asynchronous operation that touches them.                         *)
(*                                                                         *)
(* JavaScript runs one task at a time, so a step of this model is the code *)
(* between two awaits.  A call of _getWriterKeys suspends once per turn of *)
(* its loop, in `await _writers.users()`; a call of _addWriter or          *)
(* _removeWriter suspends inside the ACL, before the ACL changes (both     *)
(* adapters await serializeKey first) and once more before the finally     *)
(* block runs; _mergeWriters does not suspend at all.                      *)
(***************************************************************************)
EXTENDS Naturals, FiniteSets

CONSTANTS
    Keys,        \* the public keys that may be writers
    Mutations,   \* slots for concurrent _addWriter / _removeWriter calls
    Calls,       \* slots for concurrent _getWriterKeys calls
    None,        \* the cache's null
    MaxVersion   \* bound: no mutation starts once the version reaches it

ASSUME NoneAssumption == \A list \in SUBSET Keys : None # list
ASSUME MutationsAssumption == IsFiniteSet(Mutations)
ASSUME MaxVersionAssumption == MaxVersion \in Nat

VARIABLES
    writers,     \* the keys in the backing ACL, what _writers.users() lists
    cached,      \* _cachedWriterKeys
    version,     \* _writerKeysVersion
    inFlight,    \* _writerMutationsInFlight
    mutation,    \* the state of each _runWriterMutation call
    call         \* the state of each _getWriterKeys call

cacheVars == <<writers, cached, version, inFlight, mutation, call>>

MutationState ==
    [pc: {"idle", "begun", "applied"}, op: {"add", "remove"}, key: Keys]

\* A call remembers the version and the list of its last fetch, and once it
\* has returned the list its caller verifies a signature against.
CallState ==
    [pc: {"idle", "fetching", "verifying"}, versionAtStart: Nat,
     fetched: SUBSET Keys]

CacheTypeOK ==
    /\ writers \in SUBSET Keys
    /\ cached = None \/ cached \in SUBSET Keys
    /\ version \in Nat
    /\ inFlight \in Nat
    /\ mutation \in [Mutations -> MutationState]
    /\ call \in [Calls -> CallState]

CacheInit ==
    /\ writers = {}
    /\ cached = None
    /\ version = 0
    /\ inFlight = 0
    /\ mutation \in [Mutations -> [pc: {"idle"}, op: {"add"}, key: Keys]]
    /\ call = [c \in Calls |->
                 [pc |-> "idle", versionAtStart |-> 0, fetched |-> {}]]

-----------------------------------------------------------------------------
(* Mutations of the writers ACL.                                           *)

\* _invalidateWriterKeyCache, run n times.
Invalidate(n) ==
    /\ cached' = None
    /\ version' = version + n

\* The prelude of _runWriterMutation, up to the await inside the ACL.
BeginMutation(m, op, k) ==
    /\ version < MaxVersion
    /\ mutation[m].pc = "idle"
    /\ mutation' = [mutation EXCEPT ![m] = [pc |-> "begun", op |-> op, key |-> k]]
    /\ inFlight' = inFlight + 1
    /\ Invalidate(1)
    /\ UNCHANGED <<writers, call>>

\* The ACL's add or remove changes the backing state; the promise that
\* _runWriterMutation awaits has not resolved yet.
ApplyMutation(m) ==
    /\ mutation[m].pc = "begun"
    /\ mutation' = [mutation EXCEPT ![m].pc = "applied"]
    /\ writers' = IF mutation[m].op = "add" THEN writers \cup {mutation[m].key}
                                            ELSE writers \ {mutation[m].key}
    /\ UNCHANGED <<cached, version, inFlight, call>>

\* Mutant: the in-flight counter is decremented in a catch and in the finally.
EndMutationTwice(m) ==
    /\ mutation[m].pc \in {"begun", "applied"}
    /\ mutation' = [mutation EXCEPT ![m].pc = "idle"]
    /\ inFlight' = inFlight - (IF mutation[m].pc = "begun" THEN 2 ELSE 1)
    /\ Invalidate(1)
    /\ UNCHANGED <<writers, call>>

\* Mutant: the finally block only clears the cache and leaves the version.
EndMutationUnversioned(m) ==
    /\ mutation[m].pc \in {"begun", "applied"}
    /\ mutation' = [mutation EXCEPT ![m].pc = "idle"]
    /\ inFlight' = inFlight - 1
    /\ Invalidate(0)
    /\ UNCHANGED <<writers, call>>

\* The finally block of _runWriterMutation.  From "begun" it runs because the
\* ACL threw before it changed anything.
EndMutation(m) ==
    /\ mutation[m].pc \in {"begun", "applied"}
    /\ mutation' = [mutation EXCEPT ![m].pc = "idle"]
    /\ inFlight' = inFlight - 1
    /\ Invalidate(1)
    /\ UNCHANGED <<writers, call>>

\* _mergeWriters: increment, invalidate, merge, decrement and invalidate in
\* one task.  The merged CRDT may gain and lose keys; a change that throws
\* leaves it as it was.
MergeWriters(merged) ==
    /\ version < MaxVersion
    /\ writers' = merged
    /\ Invalidate(2)
    /\ UNCHANGED <<inFlight, mutation, call>>

-----------------------------------------------------------------------------
(* Reads of the cache.                                                     *)

\* The top of the while loop of _getWriterKeys: a hit returns the cache, a
\* miss records the version and starts users(), which lists the ACL's keys
\* before its first await.
LoopTop(c) ==
    \/ /\ inFlight = 0
       /\ cached # None
       /\ call' = [call EXCEPT ![c].pc = "verifying", ![c].fetched = cached]
    \/ /\ inFlight # 0 \/ cached = None
       /\ call' = [call EXCEPT ![c] =
                     [pc |-> "fetching", versionAtStart |-> version,
                      fetched |-> writers]]

GetWriterKeys(c) ==
    /\ call[c].pc = "idle"
    /\ LoopTop(c)
    /\ UNCHANGED <<writers, cached, version, inFlight, mutation>>

\* Mutant: the fetched list is cached without comparing versions.
CommitFetchUnversioned(c) ==
    /\ call[c].pc = "fetching"
    /\ inFlight = 0
    /\ cached' = call[c].fetched
    /\ call' = [call EXCEPT ![c].pc = "verifying"]
    /\ UNCHANGED <<writers, version, inFlight, mutation>>

\* users() resolved and nothing happened meanwhile: fill the cache, return.
CommitFetch(c) ==
    /\ call[c].pc = "fetching"
    /\ version = call[c].versionAtStart
    /\ inFlight = 0
    /\ cached' = call[c].fetched
    /\ call' = [call EXCEPT ![c].pc = "verifying"]
    /\ UNCHANGED <<writers, version, inFlight, mutation>>

\* The version advanced during the fetch: discard the list and loop.
RetryFetch(c) ==
    /\ call[c].pc = "fetching"
    /\ version # call[c].versionAtStart
    /\ LoopTop(c)
    /\ UNCHANGED <<writers, cached, version, inFlight, mutation>>

\* Mutant: a fetch that raced a mutation is returned whatever its version.
ReturnUncachedUnversioned(c) ==
    /\ call[c].pc = "fetching"
    /\ inFlight # 0
    /\ call' = [call EXCEPT ![c].pc = "verifying"]
    /\ UNCHANGED <<writers, cached, version, inFlight, mutation>>

\* Mutant: while a mutation is in flight the fetch is started over.
ReturnUncachedNever(c) ==
    /\ call[c].pc = "fetching"
    /\ version = call[c].versionAtStart
    /\ inFlight # 0
    /\ LoopTop(c)
    /\ UNCHANGED <<writers, cached, version, inFlight, mutation>>

\* A mutation is still in flight: return the list, do not cache it.
ReturnUncached(c) ==
    /\ call[c].pc = "fetching"
    /\ version = call[c].versionAtStart
    /\ inFlight # 0
    /\ call' = [call EXCEPT ![c].pc = "verifying"]
    /\ UNCHANGED <<writers, cached, version, inFlight, mutation>>

\* users() rejected: the exception leaves _getWriterKeys without a list.
FetchThrows(c) ==
    /\ call[c].pc = "fetching"
    /\ call' = [call EXCEPT ![c].pc = "idle"]
    /\ UNCHANGED <<writers, cached, version, inFlight, mutation>>

\* The caller (_verifyWriterSignature and its snapshot and Welcome variants)
\* has tried every key of the list it was given.
VerifySettles(c) ==
    /\ call[c].pc = "verifying"
    /\ call' = [call EXCEPT ![c].pc = "idle"]
    /\ UNCHANGED <<writers, cached, version, inFlight, mutation>>

FetchResolves(c) == CommitFetch(c) \/ RetryFetch(c) \/ ReturnUncached(c)

-----------------------------------------------------------------------------
Mutate ==
    \/ \E m \in Mutations, op \in {"add", "remove"}, k \in Keys : BeginMutation(m, op, k)
    \/ \E m \in Mutations : ApplyMutation(m) \/ EndMutation(m)
    \/ \E merged \in SUBSET Keys : MergeWriters(merged)

CacheNext ==
    \/ Mutate
    \/ \E c \in Calls :
          GetWriterKeys(c) \/ FetchResolves(c) \/ FetchThrows(c) \/ VerifySettles(c)

\* A users() call that does not reject resolves: it only waits for key imports.
\* Nothing is assumed of mutations, whose ACL may never answer.
Fairness == \A c \in Calls : WF_cacheVars(FetchResolves(c))

CacheSpec == CacheInit /\ [][CacheNext]_cacheVars

FairCacheSpec == CacheSpec /\ Fairness

-----------------------------------------------------------------------------
(* Properties.                                                             *)

Pending == {m \in Mutations : mutation[m].pc # "idle"}

\* k may differ between a list and the ACL only while a mutation of k that
\* has already changed the ACL has not reached its finally block.
Explained(list, k) ==
    (k \in list) # (k \in writers) =>
        \E m \in Mutations : mutation[m].pc = "applied" /\ mutation[m].key = k

\* A cached list is never stale: whenever _cachedWriterKeys is not null no
\* mutation is in flight and the list is what the ACL holds now
\* (_getWriterKeys returns it without asking the ACL).
CacheCoherent ==
    cached # None => Pending = {} /\ cached = writers

\* The strengthening that makes CacheCoherent inductive: the counter counts
\* the mutations in flight, and a fetch whose version is still current holds
\* what the ACL holds, up to the mutations that are in flight.
FetchCoherent ==
    /\ inFlight = Cardinality(Pending)
    /\ \A c \in Calls : call[c].versionAtStart <= version
    /\ \A c \in Calls :
         call[c].pc = "fetching" /\ call[c].versionAtStart = version
            => \A k \in Keys : Explained(call[c].fetched, k)

\* _getWriterKeys never hands a signature check a list that lacks the effect
\* of a finished mutation: at the moment it returns, a key the list wrongly
\* holds or misses is one whose _addWriter or _removeWriter is unfinished.
\* A writer whose removal has finished is therefore never among the keys.
ReturnsCurrentKeys ==
    [][\A c \in Calls :
         call[c].pc # "verifying" /\ call'[c].pc = "verifying"
            => \A k \in Keys : Explained(call'[c].fetched, k)]_cacheVars

\* Every _getWriterKeys call ends: the retry loop converges because writer
\* mutations are finitely many, even if one of them never finishes.
CallsReturn ==
    \A c \in Calls : call[c].pc = "fetching" ~> call[c].pc # "fetching"

=============================================================================
