-------------------------- MODULE LoadQuorumProofs --------------------------
(***************************************************************************)
(* The initial load, whatever the number of peers, the cohort probed, the  *)
(* votes and the configuration: with the default threshold the vote has at *)
(* most one winner; a new document is founded only if no probed peer       *)
(* advertised one; the reason for a failed load is the true one; and what  *)
(* a gated load merged was advertised by a peer that is not faulty.        *)
(***************************************************************************)
EXTENDS LoadQuorum, ProofLemmas

(* The counters of the loop over the peers, and of what a peer holds.      *)
LEMMA Counters ==
  /\ \A n \in Nat : \A i \in 1..n : i + 1 \in 1..(n + 1) /\ (i < n => i + 1 <= n)
  /\ \A s \in 1..(MaxState - 1) : s + 1 \in 0..MaxState
BY ConfigAssumption

(* The invariant behind WinnerUnique: the votes are a sequence, and they   *)
(* are settled once there is a winner, because only an idle or a probing   *)
(* load() touches them.                                                    *)
IInv ==
  /\ config \in Configs
  /\ votes \in Seq({votes[i] : i \in DOMAIN votes})
  /\ winning # None => pc \notin {"idle", "probing"}
  /\ WinnerUnique

(* Two different values cannot both have more than half of the votes of a   *)
(* sequence: decideLoadQuorum's buckets are disjoint.                       *)
LEMMA MajorityUnique ==
  ASSUME NEW S, NEW vs \in Seq(S), NEW g, NEW h, g # h,
         Cardinality(Bucket(vs, g)) >= defaultQuorumQ(Len(vs)),
         Cardinality(Bucket(vs, h)) >= defaultQuorumQ(Len(vs)),
         Len(vs) # 0
  PROVE  FALSE
<1> DEFINE n == Len(vs)
           G == Bucket(vs, g)
           H == Bucket(vs, h)
<1>1. n \in Nat /\ DOMAIN vs = 1..n
  OBVIOUS
<1>2. IsFiniteSet(1..n) /\ Cardinality(1..n) = n
  <2>1. IsFiniteSet(1..n) /\ Cardinality(1..n) = IF 1 > n THEN 0 ELSE n - 1 + 1
    BY <1>1, FS_Interval
  <2> QED
    BY <1>1, <2>1
<1>3. G \subseteq 1..n /\ H \subseteq 1..n
  BY <1>1 DEF Bucket
<1>4. IsFiniteSet(G) /\ IsFiniteSet(H)
  BY <1>2, <1>3, FS_Subset
<1>5. G \cap H = {}
  BY DEF Bucket
<1>6. Cardinality(G \cup H) = Cardinality(G) + Cardinality(H)
  <2>1. Cardinality(G \cup H) = Cardinality(G) + Cardinality(H) - Cardinality(G \cap H)
    BY <1>4, FS_Union
  <2>2. Cardinality(G) \in Nat /\ Cardinality(H) \in Nat
    BY <1>4, FS_CardinalityType
  <2>3. Cardinality(G \cap H) = 0
    BY <1>5, FS_EmptySet, Zenon
  <2> HIDE DEF G, H
  <2> QED
    BY <2>1, <2>2, <2>3
<1>7. Cardinality(G \cup H) <= n
  BY <1>2, <1>3, FS_Subset
<1>8. Cardinality(G) \in Nat /\ Cardinality(H) \in Nat
  BY <1>4, FS_CardinalityType
<1>9. 2 * defaultQuorumQ(n) > n
  BY <1>1 DEF defaultQuorumQ
<1>10. defaultQuorumQ(n) \in Nat
  BY <1>1 DEF defaultQuorumQ
<1> HIDE DEF n, G, H
<1>11. Cardinality(G) >= defaultQuorumQ(n) /\ Cardinality(H) >= defaultQuorumQ(n)
  BY DEF n, G, H
<1> QED
  BY <1>1, <1>6, <1>7, <1>8, <1>9, <1>10, <1>11

(* What a winning decision of decideLoadQuorum says of the votes: the hash  *)
(* it names has at least the required number of them.                       *)
LEMMA DecisionBacked ==
  ASSUME NEW vs, NEW q, decideLoadQuorum(vs, q).kind = "tip-hash"
  PROVE  /\ Responding(vs) # {}
         /\ Cardinality(Bucket(vs, decideLoadQuorum(vs, q).hash)) >= q
  BY DEF decideLoadQuorum

(* The number of peers a load probes is a natural number.                   *)
LEMMA ProbeCount ==
  ASSUME NEW conns \in Seq(Peers), config \in Configs
  PROVE  effectiveK(Len(dedupePeersByPeerId(conns))) \in Nat
<1> DEFINE firsts == {i \in DOMAIN conns : \A j \in 1..(i - 1) : conns[j] # conns[i]}
<1>1. DOMAIN conns = 1..Len(conns) /\ Len(conns) \in Nat
  OBVIOUS
<1>2. IsFiniteSet(DOMAIN conns)
  BY <1>1, FS_Interval
<1>3. IsFiniteSet(firsts)
  BY <1>2, FS_Subset
<1>4. Cardinality(firsts) \in Nat
  BY <1>3, FS_CardinalityType
<1>5. Len(dedupePeersByPeerId(conns)) = Cardinality(firsts)
  <2>1. DOMAIN dedupePeersByPeerId(conns) = 1..Cardinality(firsts)
    BY DEF dedupePeersByPeerId
  <2> DEFINE c == Cardinality(firsts)
  <2>2. dedupePeersByPeerId(conns) = [n \in 1..c |-> dedupePeersByPeerId(conns)[n]]
    BY DEF dedupePeersByPeerId
  <2> HIDE DEF c
  <2>3. c \in Nat
    BY <1>4 DEF c
  <2>4. Len(dedupePeersByPeerId(conns)) = c
    BY <2>2, <2>3
  <2> QED
    BY <2>4 DEF c
<1>6. config.loadQuorumK \in Nat
  BY ConfigAssumption
<1> HIDE DEF firsts
<1> QED
  BY <1>4, <1>5, <1>6 DEF effectiveK

(* Deciding the vote of a load establishes that its winner is the only one. *)
LEMMA DecideUnique ==
  ASSUME IInv, Decide
  PROVE  IInv'
<1> DEFINE q == effectiveQ(Len(votes))
           decision == decideLoadQuorum(votes, q)
<1>1. votes' = votes /\ config' = config
  BY DEF Decide
<1>2. CASE decision.kind # "tip-hash"
  <2>1. winning' = winning /\ pc = "probing"
    BY <1>2 DEF Decide
  <2>2. winning = None
    BY <2>1 DEF IInv
  <2> QED
    BY <1>1, <2>1, <2>2 DEF IInv, WinnerUnique
<1>3. CASE decision.kind = "tip-hash"
  <2>1. winning' = decision.hash /\ pc' = FirstAttempt
    BY <1>3 DEF Decide, Return, TryEach, Failures
  <2>2. pc' \notin {"idle", "probing"}
    BY <2>1 DEF FirstAttempt
  <2>3. WinnerUnique'
    <3> SUFFICES ASSUME config.loadQuorumQ = Default,
                        NEW h \in Hashes, h # decision.hash,
                        ~(Cardinality(Bucket(votes, h)) < q)
                 PROVE  FALSE
      BY <1>1, <2>1 DEF WinnerUnique, Q, effectiveQ
    <3>1. Responding(votes) # {} /\ Cardinality(Bucket(votes, decision.hash)) >= q
      BY <1>3, DecisionBacked
    <3>2. Len(votes) \in Nat \ {0} /\ DOMAIN votes = 1..Len(votes)
      BY <3>1 DEF IInv, Responding
    <3>3. q = defaultQuorumQ(Len(votes))
      BY <3>2 DEF effectiveQ, defaultQuorumQ
    <3>4. Cardinality(Bucket(votes, h)) \in Nat
      <4>1. IsFiniteSet(DOMAIN votes)
        BY <3>2, FS_Interval
      <4>2. IsFiniteSet(Bucket(votes, h))
        BY <4>1, FS_Subset DEF Bucket
      <4> QED
        BY <4>2, FS_CardinalityType
    <3>5. defaultQuorumQ(Len(votes)) \in Nat
      BY <3>2 DEF defaultQuorumQ
    <3>6. Cardinality(Bucket(votes, h)) >= defaultQuorumQ(Len(votes))
      BY <3>3, <3>4, <3>5
    <3>7. Cardinality(Bucket(votes, decision.hash)) >= defaultQuorumQ(Len(votes))
      BY <3>1, <3>3
    <3> QED
      BY <3>2, <3>6, <3>7, MajorityUnique DEF IInv
  <2> QED
    BY <1>1, <2>2, <2>3 DEF IInv
<1> QED
  BY <1>2, <1>3

(* With the default loadQuorumQ the vote of load() has at most one winner,  *)
(* however many peers are probed and whatever they answer.                  *)
THEOREM UniqueWinner == Spec => []WinnerUnique
<1>1. Init => IInv
  BY DEF Init, IInv, WinnerUnique
<1>2. IInv /\ [Next]_vars => IInv'
  <2> SUFFICES ASSUME IInv, [Next]_vars
               PROVE  IInv'
    OBVIOUS
  <2>1. CASE /\ votes' = votes /\ config' = config /\ winning' = winning
             /\ pc' \in {"idle", "probing"} => pc \in {"idle", "probing"}
    BY <2>1 DEF IInv, WinnerUnique, Q, effectiveQ, Bucket
  <2>2. ASSUME NEW p \in Peers, Advance(p)
        PROVE  IInv'
    BY <2>1, <2>2 DEF Advance
  <2>3. CASE LoadAlone
    BY <2>1, <2>3 DEF LoadAlone, Return
  <2>4. ASSUME NEW conns \in Connections, LoadUngated(conns)
        PROVE  IInv'
    BY <2>1, <2>4 DEF LoadUngated, TryEach
  <2>5. ASSUME NEW conns \in Connections, LoadGated(conns)
        PROVE  IInv'
    <3> DEFINE k == effectiveK(Len(dedupePeersByPeerId(conns)))
    <3>1. winning' = winning /\ config' = config /\ pc = "idle"
      BY <2>5 DEF LoadGated
    <3>2. winning = None
      BY <3>1 DEF IInv
    <3>3. votes' = votes \/ votes' = [i \in 1..k |-> Pending]
      BY <2>5 DEF LoadGated
    <3>4. k \in Nat
      BY ProbeCount, ConfigAssumption DEF IInv
    <3> HIDE DEF k
    <3>5. CASE votes' = [i \in 1..k |-> Pending]
      <4>1. DOMAIN votes' = 1..k /\ \A i \in 1..k : votes'[i] = Pending
        BY <3>5
      <4>2. votes' \in Seq({votes'[i] : i \in DOMAIN votes'})
        BY <3>4, <3>5, <4>1
      <4> QED
        BY <3>1, <3>2, <4>2 DEF IInv, WinnerUnique
    <3>6. CASE votes' = votes
      BY <3>1, <3>2, <3>6 DEF IInv, WinnerUnique
    <3> QED
      BY <3>3, <3>5, <3>6
  <2>6. ASSUME NEW i \in DOMAIN votes, ProbeAnswered(i) \/ ProbeLost(i)
        PROVE  IInv'
    <3>1. winning' = winning /\ config' = config /\ pc = "probing"
      BY <2>6 DEF ProbeAnswered, ProbeLost
    <3>2. winning = None
      BY <3>1 DEF IInv
    <3>3. PICK v : votes' = [votes EXCEPT ![i] = v]
      BY <2>6, Zenon DEF ProbeAnswered, ProbeLost
    <3> DEFINE n == Len(votes)
    <3>4. n \in Nat /\ DOMAIN votes = 1..n
      BY DEF IInv
    <3>5. votes' = [j \in 1..n |-> votes'[j]]
      BY <3>3, <3>4, Zenon
    <3> HIDE DEF n
    <3>6. votes' \in Seq({votes'[j] : j \in DOMAIN votes'})
      BY <3>4, <3>5
    <3> QED
      BY <3>1, <3>2, <3>6 DEF IInv, WinnerUnique
  <2>7. CASE Decide
    BY <2>7, DecideUnique
  <2>8. CASE SyncLoaded \/ BindCheckFailed \/ SyncIncomplete \/ NotServed
    BY <2>1, <2>8 DEF SyncLoaded, BindCheckFailed, SyncIncomplete, NotServed, NextPeer,
                      Return, FirstAttempt
  <2>9. CASE UNCHANGED vars
    BY <2>1, <2>9 DEF vars
  <2> QED
    BY <2>2, <2>3, <2>4, <2>5, <2>6, <2>7, <2>8, <2>9 DEF Next
<1>3. IInv => WinnerUnique
  BY DEF IInv
<1> QED
  BY <1>1, <1>2, <1>3, PTL DEF Spec

-----------------------------------------------------------------------------
(* dedupePeersByPeerId yields different peers.                               *)
LEMMA DedupedPeers ==
  ASSUME NEW conns \in Seq(Peers)
  PROVE  /\ dedupePeersByPeerId(conns) \in Seq(Peers)
         /\ IsInjective(dedupePeersByPeerId(conns))
<1> DEFINE firsts == {i \in DOMAIN conns : \A j \in 1..(i - 1) : conns[j] # conns[i]}
           n == Len(conns)
<1>1. n \in Nat /\ DOMAIN conns = 1..n /\ firsts \in SUBSET (1..n)
  OBVIOUS
<1>2. dedupePeersByPeerId(conns) = InOrder(conns, firsts)
  BY DEF dedupePeersByPeerId, InOrder
<1>3. \A i \in firsts : conns[i] \in Peers
  BY <1>1
<1>4. ASSUME NEW i \in firsts, NEW j \in firsts, conns[i] = conns[j] PROVE i = j
  <2>1. i \in 1..n /\ j \in 1..n
    BY <1>1
  <2>2. ~(i < j) /\ ~(j < i)
    BY <1>4, <2>1
  <2> QED
    BY <2>1, <2>2
<1> HIDE DEF firsts, n
<1>5. InOrder(conns, firsts) \in Seq(Peers)
  BY <1>1, <1>3, InOrderShape, Zenon
<1>6. IsInjective(InOrder(conns, firsts))
  BY <1>1, <1>3, <1>4, InOrderShape, Zenon
<1> QED
  BY <1>2, <1>5, <1>6

-----------------------------------------------------------------------------
(* decideLoadQuorum always finds a largest bucket: among the eligible ones   *)
(* of the greatest size, the one opened first.                               *)
LEMMA LargestBucketExists ==
  ASSUME NEW vs, IsSequence(vs), Responding(vs) # {}
  PROVE  LargestBucket(vs) \in Eligible(vs)
<1> DEFINE n == Len(vs)
           E == Eligible(vs)
           size(h) == Cardinality(Bucket(vs, h))
           sizes == {n - size(h) : h \in E}
<1>1. n \in Nat /\ DOMAIN vs = 1..n
  BY SequenceShape
<1>2. E # {} /\ \A h \in E : \E i \in 1..n : vs[i] = h
  BY <1>1, Zenon DEF Eligible, Responding
<1>3. ASSUME NEW h PROVE size(h) \in Nat /\ size(h) <= n
  <2>1. IsFiniteSet(1..n) /\ Cardinality(1..n) = IF 1 > n THEN 0 ELSE n - 1 + 1
    BY <1>1, FS_Interval
  <2>2. Bucket(vs, h) \in SUBSET (1..n)
    BY <1>1 DEF Bucket
  <2>3. IsFiniteSet(Bucket(vs, h)) /\ Cardinality(Bucket(vs, h)) <= Cardinality(1..n)
    BY <2>1, <2>2, FS_Subset
  <2>4. Cardinality(Bucket(vs, h)) \in Nat
    BY <2>3, FS_CardinalityType
  <2>5. Cardinality(1..n) = n
    BY <1>1, <2>1
  <2> QED
    BY <2>3, <2>4, <2>5
<1> HIDE DEF n, E, size
<1>4. PICK big \in E : \A h \in E : size(h) <= size(big)
  <2>1. sizes \in SUBSET Nat /\ sizes # {}
    BY <1>1, <1>2, <1>3
  <2>2. PICK m \in sizes : \A d \in sizes : m <= d
    BY <2>1, SmallestIn, Zenon
  <2>3. PICK b \in E : m = n - size(b)
    OBVIOUS
  <2>4. ASSUME NEW h \in E PROVE size(h) <= size(b)
    <3>1. m <= n - size(h)
      BY <2>2
    <3> QED
      BY <1>1, <1>3, <2>3, <3>1
  <2> QED
    BY <2>4
<1> DEFINE opened == {i \in 1..n : vs[i] \in E /\ size(vs[i]) = size(big)}
<1>5. opened # {} /\ opened \in SUBSET Nat
  BY <1>1, <1>2
<1>6. PICK first \in opened : \A i \in opened : first <= i
  BY <1>5, SmallestIn, Zenon
<1> DEFINE best == vs[first]
<1>7. best \in E /\ size(best) = size(big) /\ first \in 1..n
  OBVIOUS
<1>8. ASSUME NEW g \in E \ {best}
      PROVE  \/ size(g) < size(best)
             \/ /\ size(g) = size(best)
                /\ \E i \in Bucket(vs, best) : \A j \in Bucket(vs, g) : i < j
  <2>1. CASE size(g) # size(big)
    BY <1>3, <1>4, <1>7, <2>1
  <2>2. CASE size(g) = size(big)
    <3>1. first \in Bucket(vs, best)
      BY <1>1, <1>7 DEF Bucket
    <3>2. ASSUME NEW j \in Bucket(vs, g) PROVE first < j
      <4>1. j \in 1..n /\ vs[j] = g
        BY <1>1 DEF Bucket
      <4>2. j \in opened /\ j # first
        BY <1>8, <2>2, <4>1
      <4>3. first <= j
        BY <1>6, <4>2
      <4> QED
        BY <1>1, <1>7, <4>1, <4>2, <4>3
    <3> QED
      BY <1>7, <2>2, <3>1, <3>2
  <2> QED
    BY <2>1, <2>2
<1> HIDE DEF best
<1>9. \E h \in E : \A g \in E \ {h} :
        \/ size(g) < size(h)
        \/ /\ size(g) = size(h)
           /\ \E i \in Bucket(vs, h) : \A j \in Bucket(vs, g) : i < j
  BY <1>7, <1>8
<1> QED
  BY <1>9, Zenon DEF LargestBucket, E, size

(* The winner of a settled vote is a hash that some peer advertised.         *)
LEMMA WinnerAdvertised ==
  ASSUME NEW vs, IsSequence(vs), NEW q, \A i \in DOMAIN vs : vs[i] \in Votes,
         decideLoadQuorum(vs, q).kind = "tip-hash"
  PROVE  /\ decideLoadQuorum(vs, q).hash \in Hashes
         /\ Bucket(vs, decideLoadQuorum(vs, q).hash) # {}
<1> DEFINE best == LargestBucket(vs)
<1>1. Responding(vs) # {} /\ decideLoadQuorum(vs, q).hash = best /\ best # UnknownDoc
  BY DEF decideLoadQuorum
<1>2. best \in Eligible(vs)
  BY <1>1, LargestBucketExists
<1> HIDE DEF best
<1>3. PICK i \in DOMAIN vs : vs[i] # NoVote /\ vs[i] = best
  BY <1>2 DEF Eligible, Responding
<1> QED
  BY <1>1, <1>3 DEF Votes, Bucket

(* A vote for a new document: nobody advertised one.                         *)
LEMMA NewDocUncontested ==
  ASSUME NEW vs, IsSequence(vs), NEW q, decideLoadQuorum(vs, q).kind = "new-doc"
  PROVE  \A i \in DOMAIN vs : vs[i] \in {UnknownDoc, NoVote}
<1>1. Responding(vs) # {} /\ LargestBucket(vs) = UnknownDoc
  BY DEF decideLoadQuorum
<1>2. UnknownDoc \in Eligible(vs)
  BY <1>1, LargestBucketExists
<1> QED
  BY <1>2 DEF Eligible, Responding

(* What else the vote can come to.                                           *)
LEMMA DecisionKinds ==
  ASSUME NEW vs, NEW q
  PROVE  decideLoadQuorum(vs, q).kind \in {"tip-hash", "new-doc", "insufficient-responses",
                                           "no-majority"}
BY DEF decideLoadQuorum

-----------------------------------------------------------------------------
(* The invariant behind the other properties of a load.  The probed peers    *)
(* are different peers, so votes are peers; the winner has enough of them;   *)
(* the peers to ask are those that agreed, each once, and one is left while  *)
(* the loop runs; and what is merged belongs to the winner.                  *)
LoadInv ==
  /\ TypeOK
  /\ IsSequence(votes) /\ Len(votes) <= Len(peers)
  /\ IsInjective(peers)
  /\ pc = "idle" => votes = << >>
  /\ pc \in {"idle", "probing"} => /\ next = 1 /\ winning = None
                                   /\ bindFailures = {} /\ document = {}
  /\ pc # "done" => outcome = None
  /\ Attempting => /\ next <= Len(orderedPeers)
                   /\ config.loadQuorumEnabled => winning # None
  /\ winning # None => /\ IsInjective(orderedPeers)
                       /\ bindFailures \subseteq {orderedPeers[i] : i \in DOMAIN orderedPeers}
                       /\ Cardinality(Bucket(votes, winning)) >= Q
                       /\ document \subseteq ChangesOf(winning)
  /\ config.loadQuorumEnabled /\ document # {} => winning # None
  /\ NewDocumentUncontested /\ BlameIsExact

(* load() has not begun. *)
LEMMA LoadInvAtFirst == Init => LoadInv
<1> SUFFICES ASSUME Init PROVE LoadInv
  OBVIOUS
<1>1. IsSequence(votes) /\ Len(votes) = 0 /\ Len(peers) = 0 /\ DOMAIN votes = {}
      /\ DOMAIN peers = {}
  BY EmptyIsSequence DEF Init
<1>2. IsInjective(peers)
  BY <1>1 DEF IsInjective
<1>3. TypeOK
  BY <1>1 DEF Init, TypeOK
<1>4. NewDocumentUncontested /\ BlameIsExact
  BY <1>3, MarksAssumption DEF Init, NewDocumentUncontested, BlameIsExact, Failures
<1> QED
  BY <1>1, <1>2, <1>3, <1>4 DEF Init, LoadInv, Attempting

(* Advance: only what a peer holds changes. *)
LEMMA AdvanceStep ==
  ASSUME LoadInv, NEW p \in Peers, Advance(p)
  PROVE  LoadInv'
<1>1. state' \in [Peers -> 0..MaxState]
  BY Counters, ZenonT(30) DEF Advance, LoadInv, TypeOK
<1>2. UNCHANGED <<config, firstKey, faulty, pc, peers, votes, orderedPeers, next,
                  winning, bindFailures, document, outcome>>
  BY DEF Advance
<1>3. TypeOK'
  BY <1>1, <1>2, ZenonT(30) DEF LoadInv, TypeOK
<1> QED
  BY <1>2, <1>3 DEF LoadInv, Attempting, Q, effectiveQ, Bucket, ChangesOf,
                    NewDocumentUncontested, BlameIsExact

(* LoadAlone: nobody was probed. *)
LEMMA LoadAloneStep ==
  ASSUME LoadInv, LoadAlone
  PROVE  LoadInv'
<1>1. /\ UNCHANGED <<state, config, firstKey, faulty, peers, votes, orderedPeers, next,
                     winning, bindFailures, document>>
      /\ pc = "idle" /\ pc' = "done" /\ outcome' = "new-document"
  BY DEF LoadAlone, Return
<1>2. winning = None /\ votes = << >> /\ document = {}
  BY <1>1 DEF LoadInv
<1>3. TypeOK'
  BY <1>1 DEF LoadInv, TypeOK
<1>4. NewDocumentUncontested' /\ BlameIsExact'
  BY <1>1, <1>2, <1>3, EmptyIsSequence DEF NewDocumentUncontested, BlameIsExact
<1> QED
  BY <1>1, <1>2, <1>3, <1>4 DEF LoadInv, Attempting

(* LoadUngated: every connection is to be asked, and there is no winner. *)
LEMMA LoadUngatedStep ==
  ASSUME LoadInv, NEW conns \in Connections, LoadUngated(conns)
  PROVE  LoadInv'
<1>1. /\ UNCHANGED <<state, config, firstKey, faulty, peers, votes, next, winning,
                     bindFailures, document, outcome>>
      /\ pc = "idle" /\ pc' \in {"snapshot-load", "doc-load"} /\ orderedPeers' = conns
      /\ conns # << >> /\ ~config.loadQuorumEnabled
  BY DEF LoadUngated, TryEach, FirstAttempt
<1>2. winning = None /\ outcome = None /\ next = 1
  BY <1>1 DEF LoadInv
<1>3. conns \in Seq(Peers) /\ Len(conns) \in Nat \ {0}
  BY <1>1, ConfigAssumption
<1>4. TypeOK'
  BY <1>1, <1>2, <1>3 DEF LoadInv, TypeOK
<1>5. NewDocumentUncontested' /\ BlameIsExact'
  BY <1>1, <1>2, <1>4 DEF NewDocumentUncontested, BlameIsExact
<1> QED
  BY <1>1, <1>2, <1>3, <1>4, <1>5 DEF LoadInv, Attempting

(* LoadGated: as many different peers as there are, at most K, are probed. *)
LEMMA LoadGatedStep ==
  ASSUME LoadInv, NEW conns \in Connections, LoadGated(conns)
  PROVE  LoadInv'
<1> DEFINE quorumPeers == dedupePeersByPeerId(conns)
           k == effectiveK(Len(quorumPeers))
<1>1. conns \in Seq(Peers) /\ config \in Configs
  BY ConfigAssumption DEF LoadInv, TypeOK
<1>2. quorumPeers \in Seq(Peers) /\ IsInjective(quorumPeers)
  BY <1>1, DedupedPeers
<1>3. k \in Nat
  BY <1>1, ProbeCount
<1>4. Len(quorumPeers) \in Nat /\ k <= Len(quorumPeers)
  <2> HIDE DEF quorumPeers
  <2>1. Len(quorumPeers) \in Nat /\ config.loadQuorumK \in Nat
    BY <1>1, <1>2, ConfigAssumption
  <2> QED
    BY <2>1 DEF effectiveK
<1>5. /\ UNCHANGED <<state, config, firstKey, faulty, orderedPeers, next, winning,
                     bindFailures, document>>
      /\ pc = "idle"
      /\ \/ /\ pc' = "done" /\ outcome' = "insufficient-responses"
            /\ UNCHANGED <<peers, votes>>
         \/ /\ pc' = "probing" /\ peers' = quorumPeers
            /\ votes' = [i \in 1..k |-> Pending] /\ outcome' = outcome
  BY DEF LoadGated, Return
<1>6. winning = None /\ outcome = None /\ next = 1 /\ votes = << >> /\ document = {}
  BY <1>5 DEF LoadInv
<1> HIDE DEF quorumPeers, k
<1>7. CASE /\ pc' = "done" /\ outcome' = "insufficient-responses" /\ UNCHANGED <<peers, votes>>
  <2>1. TypeOK'
    BY <1>5, <1>7 DEF LoadInv, TypeOK, Failures
  <2>2. NewDocumentUncontested' /\ BlameIsExact'
    BY <1>5, <1>6, <1>7, <2>1 DEF NewDocumentUncontested, BlameIsExact
  <2> QED
    BY <1>5, <1>6, <1>7, <2>1, <2>2 DEF LoadInv, Attempting
<1>8. CASE /\ pc' = "probing" /\ peers' = quorumPeers
           /\ votes' = [i \in 1..k |-> Pending] /\ outcome' = outcome
  <2>1. votes' \in Seq({Pending}) /\ Len(votes') = k
    BY <1>3, <1>8
  <2>2. IsSequence(votes') /\ DOMAIN votes' = 1..k /\ \A i \in 1..k : votes'[i] = Pending
    BY <1>8, <2>1, SequenceOfOwn
  <2>3. TypeOK'
    BY <1>2, <1>5, <1>6, <1>8, <2>2 DEF LoadInv, TypeOK
  <2>4. NewDocumentUncontested' /\ BlameIsExact'
    BY <1>5, <1>6, <1>8, <2>3, MarksAssumption
    DEF NewDocumentUncontested, BlameIsExact
  <2> QED
    BY <1>2, <1>4, <1>5, <1>6, <1>8, <2>1, <2>2, <2>3, <2>4, ZenonT(30)
    DEF LoadInv, Attempting
<1> QED
  BY <1>5, <1>7, <1>8

(* A probe settles: one vote. *)
LEMMA ProbeStep ==
  ASSUME LoadInv, NEW i \in DOMAIN votes, ProbeAnswered(i) \/ ProbeLost(i)
  PROVE  LoadInv'
<1>1. /\ UNCHANGED <<state, config, firstKey, faulty, pc, peers, orderedPeers, next,
                     winning, bindFailures, document, outcome>>
      /\ pc = "probing"
  BY DEF ProbeAnswered, ProbeLost
<1>2. winning = None /\ outcome = None /\ document = {}
  BY <1>1 DEF LoadInv
<1>3. PICK v \in Votes : votes' = [votes EXCEPT ![i] = v]
  <2>1. CASE ProbeLost(i)
    BY <2>1, Zenon DEF ProbeLost, Votes
  <2>2. CASE ProbeAnswered(i)
    <3>1. PICK v \in Advertised(peers[i]) : votes' = [votes EXCEPT ![i] = v]
      BY <2>2, Zenon DEF ProbeAnswered
    <3>2. peers[i] \in Peers
      <4>1. Len(votes) \in Nat /\ DOMAIN votes = 1..Len(votes) /\ Len(votes) <= Len(peers)
        BY SequenceShape DEF LoadInv
      <4>2. peers \in Seq(Peers)
        BY DEF LoadInv, TypeOK
      <4> QED
        BY <4>1, <4>2
    <3>3. state[peers[i]] \in 0..MaxState
      BY <3>2 DEF LoadInv, TypeOK
    <3>4. v \in Votes
      BY <3>1, <3>3, ConfigAssumption DEF Advertised, Votes, Hashes, States
    <3> QED
      BY <3>1, <3>4, Zenon
  <2> QED
    BY <2>1, <2>2
<1>4. /\ IsSequence(votes') /\ Len(votes') = Len(votes) /\ DOMAIN votes' = DOMAIN votes
      /\ \A j \in DOMAIN votes : votes'[j] = IF j = i THEN v ELSE votes[j]
  BY <1>3, ReplaceShape, ZenonT(30) DEF LoadInv
<1>5. TypeOK'
  BY <1>1, <1>3, <1>4 DEF LoadInv, TypeOK
<1>6. NewDocumentUncontested' /\ BlameIsExact'
  BY <1>1, <1>2, <1>5, MarksAssumption DEF NewDocumentUncontested, BlameIsExact
<1> QED
  BY <1>1, <1>2, <1>4, <1>5, <1>6 DEF LoadInv, Attempting

(* narrowedPeers: the peers that voted for the winner, each once. *)
LEMMA NarrowedPeers ==
  ASSUME LoadInv, NEW hash, Bucket(votes, hash) # {}
  PROVE  /\ narrowedPeers(hash) \in Seq(Peers) /\ IsInjective(narrowedPeers(hash))
         /\ Len(narrowedPeers(hash)) \in Nat \ {0}
<1> DEFINE n == Len(peers)
           agreeing == Bucket(votes, hash)
<1>1. /\ peers \in Seq(Peers) /\ IsInjective(peers) /\ n \in Nat /\ DOMAIN peers = 1..n
      /\ Len(votes) \in Nat /\ DOMAIN votes = 1..Len(votes) /\ Len(votes) <= n
  BY SequenceShape DEF LoadInv, TypeOK
<1>2. agreeing \in SUBSET (1..n) /\ \A i \in agreeing : peers[i] \in Peers
  BY <1>1 DEF Bucket
<1>3. \A i, j \in agreeing : peers[i] = peers[j] => i = j
  BY <1>1, <1>2 DEF IsInjective
<1>4. narrowedPeers(hash) = InOrder(peers, agreeing)
  BY DEF narrowedPeers, InOrder
<1>5. IsFiniteSet(agreeing)
  BY <1>1, <1>2, OneOfEachRank, Zenon
<1> HIDE DEF n
<1>6. /\ InOrder(peers, agreeing) \in Seq(Peers)
      /\ Len(InOrder(peers, agreeing)) = Cardinality(agreeing)
      /\ Cardinality(agreeing) \in Nat
  BY <1>1, <1>2, InOrderShape, Zenon
<1>7. IsInjective(InOrder(peers, agreeing))
  BY <1>1, <1>2, <1>3, InOrderShape, Zenon
<1>8. Cardinality(agreeing) # 0
  BY <1>5, FS_EmptySet
<1> QED
  BY <1>4, <1>6, <1>7, <1>8

(* Decide: a winner with enough votes, a new document nobody contests, or    *)
(* the reason there is neither.                                              *)
LEMMA DecideStep ==
  ASSUME LoadInv, Decide
  PROVE  LoadInv'
<1> DEFINE q == effectiveQ(Len(votes))
           decision == decideLoadQuorum(votes, q)
<1>1. /\ UNCHANGED <<state, config, firstKey, faulty, peers, votes, next, bindFailures,
                     document>>
      /\ pc = "probing" /\ \A i \in DOMAIN votes : votes[i] # Pending
  BY DEF Decide
<1>2. /\ winning = None /\ outcome = None /\ document = {} /\ next = 1
      /\ bindFailures = {} /\ IsSequence(votes)
      /\ \A i \in DOMAIN votes : votes[i] \in Votes
  BY <1>1 DEF LoadInv, TypeOK
<1>3. CASE decision.kind = "tip-hash"
  <2> DEFINE hash == decision.hash
  <2>1. /\ winning' = hash /\ pc' \in {"snapshot-load", "doc-load"}
        /\ orderedPeers' = narrowedPeers(hash) /\ outcome' = outcome
    BY <1>3 DEF Decide, TryEach, FirstAttempt, Failures
  <2>2. hash \in Hashes /\ Bucket(votes, hash) # {}
    BY <1>2, <1>3, WinnerAdvertised
  <2>3. Cardinality(Bucket(votes, hash)) >= q
    BY <1>3, DecisionBacked
  <2> HIDE DEF hash, q
  <2>4. /\ narrowedPeers(hash) \in Seq(Peers) /\ IsInjective(narrowedPeers(hash))
        /\ Len(narrowedPeers(hash)) \in Nat \ {0}
    BY <2>2, NarrowedPeers
  <2>5. hash # None
    BY <2>2, MarksAssumption, ConfigAssumption DEF Hashes, States
  <2>6. TypeOK'
    BY <1>1, <1>2, <2>1, <2>2, <2>4 DEF LoadInv, TypeOK
  <2>7. NewDocumentUncontested' /\ BlameIsExact'
    BY <1>2, <2>1, <2>6, MarksAssumption DEF NewDocumentUncontested, BlameIsExact, Failures
  <2>8. Q' = q
    BY <1>1 DEF q, Q, effectiveQ
  <2>9. Bucket(votes, winning)' = Bucket(votes, hash)
    BY <1>1, <2>1 DEF Bucket
  <2>10. Attempting' => next' <= Len(orderedPeers') /\ winning' # None
    BY <1>1, <1>2, <2>1, <2>4, <2>5
  <2>11. /\ IsInjective(orderedPeers') /\ bindFailures' = {} /\ document' = {}
         /\ Cardinality(Bucket(votes, winning)') >= Q'
    BY <1>1, <1>2, <2>1, <2>3, <2>4, <2>8, <2>9
  <2>12. /\ IsSequence(votes') /\ Len(votes') <= Len(peers') /\ IsInjective(peers')
         /\ pc' \notin {"idle", "probing", "done"} /\ outcome' = None
    BY <1>1, <1>2, <2>1 DEF LoadInv
  <2> QED
    BY <2>6, <2>7, <2>10, <2>11, <2>12 DEF LoadInv
<1>4. CASE decision.kind = "new-doc"
  <2>1. winning' = winning /\ pc' = "done" /\ orderedPeers' = orderedPeers
        /\ outcome' = "new-document"
    BY <1>4 DEF Decide, Return, Failures
  <2>2. \A i \in DOMAIN votes : votes[i] \in {UnknownDoc, NoVote}
    BY <1>2, <1>4, NewDocUncontested
  <2>3. TypeOK'
    BY <1>1, <2>1 DEF LoadInv, TypeOK
  <2>4. NewDocumentUncontested' /\ BlameIsExact'
    BY <1>1, <1>2, <2>1, <2>2, <2>3 DEF NewDocumentUncontested, BlameIsExact
  <2> QED
    BY <1>1, <1>2, <2>1, <2>3, <2>4 DEF LoadInv, Attempting
<1>5. CASE decision.kind \in {"insufficient-responses", "no-majority"}
  <2>1. winning' = winning /\ pc' = "done" /\ orderedPeers' = orderedPeers
        /\ outcome' \in {"insufficient-responses", "no-majority"}
    BY <1>5 DEF Decide, Return, Failures
  <2>2. TypeOK'
    BY <1>1, <2>1 DEF LoadInv, TypeOK, Failures
  <2>3. NewDocumentUncontested' /\ BlameIsExact'
    BY <1>1, <1>2, <2>1, <2>2 DEF NewDocumentUncontested, BlameIsExact
  <2> QED
    BY <1>1, <1>2, <2>1, <2>2, <2>3, ZenonT(30) DEF LoadInv, Attempting
<1> QED
  BY <1>3, <1>4, <1>5, DecisionKinds

(* Exhausted: as many failures as agreeing peers means every one of them. *)
LEMMA AllFailed ==
  ASSUME NEW failed, NEW s \in Seq(Peers), IsInjective(s),
         failed \subseteq {s[i] : i \in DOMAIN s}
  PROVE  Cardinality(failed) = Len(s) <=> \A i \in DOMAIN s : s[i] \in failed
<1> DEFINE n == Len(s)
           T == {s[i] : i \in DOMAIN s}
<1>1. n \in Nat /\ DOMAIN s = 1..n
  OBVIOUS
<1>2. IsFiniteSet(1..n) /\ Cardinality(1..n) = n
  <2>1. IsFiniteSet(1..n) /\ Cardinality(1..n) = IF 1 > n THEN 0 ELSE n - 1 + 1
    BY <1>1, FS_Interval
  <2> QED
    BY <1>1, <2>1
<1>3. IsFiniteSet(T) /\ Cardinality(T) = n
  <2>1. DOMAIN s \in SUBSET DOMAIN s /\ IsFiniteSet(DOMAIN s) /\ Cardinality(DOMAIN s) = n
    BY <1>1, <1>2
  <2> HIDE DEF n
  <2> QED
    BY <2>1, AsManyElements
<1>4. failed = T <=> \A i \in DOMAIN s : s[i] \in failed
  OBVIOUS
<1> HIDE DEF n, T
<1>5. failed \in SUBSET T
  BY DEF T
<1>6. Cardinality(failed) = n <=> failed = T
  BY <1>3, <1>5, FS_Subset
<1> QED
  BY <1>4, <1>6 DEF n

(* What the loop over orderedPeers finds at its current position: a peer,   *)
(* and what it serves.                                                      *)
LEMMA AskedPeer ==
  ASSUME LoadInv, Attempting
  PROVE  /\ next \in 1..Len(orderedPeers) /\ next \in DOMAIN orderedPeers
         /\ orderedPeers[next] \in Peers
         /\ Served(orderedPeers[next]) \subseteq Hashes
<1>1. next \in 1..Len(orderedPeers) /\ orderedPeers \in Seq(Peers)
  BY DEF LoadInv, TypeOK
<1>2. next \in DOMAIN orderedPeers /\ orderedPeers[next] \in Peers
  BY <1>1
<1>3. state[orderedPeers[next]] \in 0..MaxState
  BY <1>2 DEF LoadInv, TypeOK
<1> QED
  BY <1>1, <1>2, <1>3, ConfigAssumption DEF Served, Hashes, States

(* The loop goes on to the next peer or ends; what has been merged by then *)
(* belongs to the winner.                                                  *)
LEMMA NextPeerStep ==
  ASSUME LoadInv, Attempting, NEW failed, NextPeer(failed),
         UNCHANGED <<state, config, firstKey, faulty, peers, votes, orderedPeers, winning>>,
         failed = bindFailures \/ (winning # None /\ failed = bindFailures \cup {orderedPeers[next]}),
         \/ document' = document
         \/ winning # None /\ document' \subseteq ChangesOf(winning) /\ document' \subseteq Hashes
  PROVE  LoadInv'
<1>1. /\ next \in 1..Len(orderedPeers) /\ next \in DOMAIN orderedPeers
      /\ orderedPeers[next] \in Peers
  BY AskedPeer
<1>2. /\ next' = next + 1 /\ bindFailures' = failed
      /\ \/ /\ next < Len(orderedPeers) /\ outcome' = outcome
            /\ pc' \in {"snapshot-load", "doc-load"}
         \/ ~(next < Len(orderedPeers)) /\ pc' = "done" /\ outcome' = Exhausted(failed)
  BY DEF NextPeer, Return, FirstAttempt
<1>3. outcome = None /\ pc \notin {"idle", "probing"}
  BY DEF LoadInv, Attempting
<1>4. failed \subseteq Peers
  BY <1>1 DEF LoadInv, TypeOK
<1>5. /\ orderedPeers \in Seq(Peers) /\ Len(orderedPeers) \in Nat
      /\ next' \in 1..(Len(orderedPeers) + 1)
  <2>1. orderedPeers \in Seq(Peers)
    BY ZenonT(30) DEF LoadInv, TypeOK
  <2>2. Len(orderedPeers) \in Nat
    BY <2>1
  <2> QED
    BY <1>1, <1>2, <2>1, <2>2, Counters, ZenonT(30)
<1>6. Exhausted(failed) \in {"new-document", "bind-check-failed-all-agreeing-peers",
                             "agreeing-peers-unreachable"}
  BY DEF Exhausted
<1>7. document' \subseteq Hashes
  BY DEF LoadInv, TypeOK
<1>8. TypeOK'
  BY <1>2, <1>3, <1>4, <1>5, <1>6, <1>7 DEF LoadInv, TypeOK, Failures
<1>9. winning # None => /\ IsInjective(orderedPeers)
                        /\ failed \subseteq {orderedPeers[i] : i \in DOMAIN orderedPeers}
                        /\ document' \subseteq ChangesOf(winning)
  BY <1>1, ZenonT(30) DEF LoadInv
<1>10. config.loadQuorumEnabled => winning # None
  BY ZenonT(30) DEF LoadInv
<1>11. NewDocumentUncontested'
  <2>1. CASE outcome' = outcome
    BY <2>1, <1>3, <1>8, MarksAssumption DEF NewDocumentUncontested
  <2>2. CASE outcome' = Exhausted(failed)
    BY <2>2, <1>8, <1>10 DEF NewDocumentUncontested, Exhausted
  <2> QED
    BY <1>2, <2>1, <2>2
<1>12. BlameIsExact'
  <2>1. CASE outcome' = outcome
    BY <2>1, <1>3, MarksAssumption DEF BlameIsExact, Failures
  <2>2. CASE outcome' = Exhausted(failed) /\ winning # None
    <3>1. Cardinality(failed) = Len(orderedPeers)
            <=> \A i \in DOMAIN orderedPeers : orderedPeers[i] \in failed
      BY <2>2, <1>5, <1>9, AllFailed
    <3>2. outcome' = "bind-check-failed-all-agreeing-peers"
            <=> Cardinality(failed) = Len(orderedPeers)
      BY <2>2 DEF Exhausted
    <3> QED
      BY <3>1, <3>2, <1>2 DEF BlameIsExact
  <2>3. CASE winning = None
    BY <2>3 DEF BlameIsExact
  <2> QED
    BY <1>2, <2>1, <2>2, <2>3
<1>13. Q' = Q /\ Bucket(votes, winning)' = Bucket(votes, winning)
       /\ ChangesOf(winning)' = ChangesOf(winning)
  BY DEF Q, effectiveQ, Bucket, ChangesOf
<1>14. Attempting' => next' <= Len(orderedPeers')
  BY <1>1, <1>2, <1>5, Counters, ZenonT(30) DEF Attempting
<1>15. winning' # None => /\ IsInjective(orderedPeers')
                          /\ bindFailures' \subseteq {orderedPeers'[i] : i \in DOMAIN orderedPeers'}
                          /\ Cardinality(Bucket(votes, winning)') >= Q'
                          /\ document' \subseteq ChangesOf(winning)'
  BY <1>2, <1>9, <1>13 DEF LoadInv
<1>16. /\ IsSequence(votes') /\ Len(votes') <= Len(peers') /\ IsInjective(peers')
       /\ pc' \notin {"idle", "probing"} /\ (pc' # "done" => outcome' = None)
       /\ config'.loadQuorumEnabled => winning' # None
  BY <1>2, <1>3, <1>10, Zenon DEF LoadInv
<1> QED
  BY <1>8, <1>11, <1>12, <1>14, <1>15, <1>16 DEF LoadInv

(* BindCheckFailed, SyncIncomplete, NotServed: the peer is given up on, or  *)
(* asked once more.                                                         *)
LEMMA GiveUpStep ==
  ASSUME LoadInv, BindCheckFailed \/ SyncIncomplete \/ NotServed
  PROVE  LoadInv'
<1>1. CASE BindCheckFailed
  BY <1>1, NextPeerStep DEF BindCheckFailed
<1>2. CASE SyncIncomplete
  <2>1. winning \in Hashes /\ winning # None
    <3>1. winning \in Hashes
      BY <1>2, AskedPeer DEF SyncIncomplete
    <3> QED
      BY <3>1, MarksAssumption, ConfigAssumption DEF Hashes, States
  <2>2. ChangesOf(winning) \subseteq Hashes
    BY <2>1, ConfigAssumption DEF ChangesOf, Hashes, States
  <2>3. document \subseteq ChangesOf(winning)
    BY <2>1 DEF LoadInv
  <2>4. document' \subseteq ChangesOf(winning) /\ document' \subseteq Hashes
    BY <1>2, <2>2, <2>3 DEF SyncIncomplete
  <2> QED
    BY <1>2, <2>1, <2>4, NextPeerStep DEF SyncIncomplete
<1>3. CASE NotServed /\ pc = "snapshot-load"
  <2>1. /\ UNCHANGED <<state, config, firstKey, faulty, peers, votes, orderedPeers, next,
                       winning, bindFailures, document, outcome>>
        /\ pc' = "doc-load"
    BY <1>3 DEF NotServed
  <2>2. Attempting
    BY <1>3 DEF Attempting
  <2>3. TypeOK'
    BY <2>1 DEF LoadInv, TypeOK
  <2> QED
    BY <1>3, <2>1, <2>2, <2>3 DEF LoadInv, Attempting, Q, effectiveQ, Bucket, ChangesOf,
                                  NewDocumentUncontested, BlameIsExact
<1>4. CASE NotServed /\ pc = "doc-load"
  <2>1. Attempting
    BY <1>4, ZenonT(30) DEF Attempting
  <2> QED
    BY <1>4, <2>1, NextPeerStep, Zenon DEF NotServed
<1> QED
  BY <1>1, <1>2, <1>3, <1>4 DEF NotServed

(* SyncLoaded: what was merged has the agreed frontier. *)
LEMMA SyncLoadedStep ==
  ASSUME LoadInv, SyncLoaded
  PROVE  LoadInv'
<1>1. PICK h \in Served(orderedPeers[next]) : /\ winning # None => winning = h
                                              /\ document' = document \cup ChangesOf(h)
  BY DEF SyncLoaded
<1>2. /\ UNCHANGED <<state, config, firstKey, faulty, peers, votes, orderedPeers, next,
                     winning, bindFailures>>
      /\ pc' = "done" /\ outcome' = "loaded" /\ Attempting
  BY DEF SyncLoaded, Return
<1>3. h \in Hashes
  BY <1>1, <1>2, AskedPeer
<1>4. ChangesOf(h) \subseteq Hashes
  BY <1>3, ConfigAssumption DEF ChangesOf, Hashes, States
<1>5. TypeOK'
  BY <1>1, <1>2, <1>4 DEF LoadInv, TypeOK
<1>6. NewDocumentUncontested' /\ BlameIsExact'
  BY <1>2, <1>5 DEF NewDocumentUncontested, BlameIsExact, Failures
<1>7. winning # None => document' \subseteq ChangesOf(winning)
  BY <1>1 DEF LoadInv
<1>8. config.loadQuorumEnabled => winning # None
  BY <1>2 DEF LoadInv
<1>9. Q' = Q /\ Bucket(votes, winning)' = Bucket(votes, winning)
      /\ ChangesOf(winning)' = ChangesOf(winning) /\ ~Attempting'
  BY <1>2 DEF Q, effectiveQ, Bucket, ChangesOf, Attempting
<1> QED
  BY <1>2, <1>5, <1>6, <1>7, <1>8, <1>9 DEF LoadInv

(* The invariant of the load holds in every state of every behaviour. *)
LEMMA LoadInvHolds == Spec => []LoadInv
<1>1. ASSUME LoadInv, [Next]_vars PROVE LoadInv'
  <2>1. CASE Next
    <3>1. CASE \E p \in Peers : Advance(p)
      BY <1>1, <3>1, AdvanceStep
    <3>2. CASE LoadAlone
      BY <1>1, <3>2, LoadAloneStep
    <3>3. CASE \E conns \in Connections : LoadUngated(conns) \/ LoadGated(conns)
      BY <1>1, <3>3, LoadUngatedStep, LoadGatedStep
    <3>4. CASE \E i \in DOMAIN votes : ProbeAnswered(i) \/ ProbeLost(i)
      BY <1>1, <3>4, ProbeStep
    <3>5. CASE Decide
      BY <1>1, <3>5, DecideStep
    <3>6. CASE SyncLoaded
      BY <1>1, <3>6, SyncLoadedStep
    <3>7. CASE BindCheckFailed \/ SyncIncomplete \/ NotServed
      BY <1>1, <3>7, GiveUpStep
    <3> QED
      BY <2>1, <3>1, <3>2, <3>3, <3>4, <3>5, <3>6, <3>7 DEF Next
  <2>2. CASE UNCHANGED vars
    BY <1>1, <2>2, ZenonT(30)
    DEF vars, LoadInv, TypeOK, Attempting, Q, effectiveQ, Bucket, ChangesOf,
                      NewDocumentUncontested, BlameIsExact
  <2> QED
    BY <1>1, <2>1, <2>2
<1> QED
  BY <1>1, LoadInvAtFirst, PTL DEF Spec

(* load() founds a new document only when no peer it probed advertised one: *)
(* for every number of peers, sample and threshold.                         *)
THEOREM NewDocumentsAreUncontested == Spec => []NewDocumentUncontested
<1>1. LoadInv => NewDocumentUncontested
  BY DEF LoadInv
<1> QED
  BY <1>1, LoadInvHolds, PTL

(* The reason load() gives when it runs out of agreeing peers is exact: all *)
(* of them failed the bind check, or one did not.                           *)
THEOREM BlameIsAlwaysExact == Spec => []BlameIsExact
<1>1. LoadInv => BlameIsExact
  BY Zenon DEF LoadInv
<1> QED
  BY <1>1, LoadInvHolds, PTL

(* When fewer than Q of the probed peers are faulty, whatever a gated load  *)
(* merged belongs to a state that a probed peer which is not faulty         *)
(* advertised: the winner has Q votes of as many different peers.           *)
THEOREM LoadedStatesAreAttested == Spec => []LoadedStateAttested
<1>1. LoadInv => LoadedStateAttested
  <2> SUFFICES ASSUME LoadInv, config.loadQuorumEnabled, document # {},
                      Cardinality(Probed \cap faulty) < Q
               PROVE  \E i \in DOMAIN votes : /\ peers[i] \notin faulty
                                              /\ votes[i] \in Hashes
                                              /\ document \subseteq ChangesOf(votes[i])
    BY DEF LoadedStateAttested
  <2> DEFINE B == Bucket(votes, winning)
             T == {peers[i] : i \in B}
             n == Len(votes)
  <2>1. /\ winning # None /\ winning \in Hashes /\ Cardinality(B) >= Q
        /\ document \subseteq ChangesOf(winning)
    BY DEF LoadInv, TypeOK
  <2>2. /\ IsInjective(peers) /\ n \in Nat /\ DOMAIN votes = 1..n /\ DOMAIN votes \subseteq DOMAIN peers
    <3>1. n \in Nat /\ DOMAIN votes = 1..n /\ n <= Len(peers)
      BY SequenceShape DEF LoadInv
    <3>2. Len(peers) \in Nat /\ DOMAIN peers = 1..Len(peers) /\ IsInjective(peers)
      BY DEF LoadInv, TypeOK
    <3> QED
      BY <3>1, <3>2
  <2>3. /\ B \in SUBSET (1..n) /\ B \in SUBSET DOMAIN peers /\ B \subseteq DOMAIN votes
        /\ \A i \in B : votes[i] = winning
    BY <2>2 DEF Bucket
  <2>4. IsFiniteSet(B) /\ Cardinality(B) \in Nat
    BY <2>2, <2>3, OneOfEachRank, Zenon
  <2> HIDE DEF B, n
  <2>5. IsFiniteSet(T) /\ Cardinality(T) = Cardinality(B)
    BY <2>2, <2>3, <2>4, AsManyElements, Zenon
  <2>6. Q \in Int
    <3>1. config \in Configs
      BY DEF LoadInv, TypeOK
    <3>2. config.loadQuorumQ \in Nat \/ config.loadQuorumQ = Default
      BY <3>1, ConfigAssumption
    <3> QED
      BY <2>2, <3>2 DEF Q, effectiveQ, defaultQuorumQ, n
  <2>7. ASSUME \A i \in B : peers[i] \in faulty
        PROVE  FALSE
    <3>1. IsFiniteSet(Probed)
      <4>1. IsFiniteSet(DOMAIN votes)
        BY <2>2, OneOfEachRank, Zenon
      <4> QED
        BY <2>2, <4>1, AsManyElements DEF Probed
    <3>2. IsFiniteSet(Probed \cap faulty)
      BY <3>1, FS_Subset
    <3>3. T \in SUBSET (Probed \cap faulty)
      BY <2>3, <2>7 DEF Probed
    <3>4. Cardinality(T) <= Cardinality(Probed \cap faulty) /\ Cardinality(Probed \cap faulty) \in Nat
      BY <3>2, <3>3, FS_Subset, FS_CardinalityType
    <3> HIDE DEF T
    <3> QED
      BY <2>1, <2>4, <2>5, <2>6, <3>4
  <2> QED
    BY <2>1, <2>3, <2>7
<1> QED
  BY <1>1, LoadInvHolds, PTL
=============================================================================
