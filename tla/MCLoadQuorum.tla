---------------------------- MODULE MCLoadQuorum ----------------------------
(***************************************************************************)
(* Three peers, each connected any number of times, in any order.          *)
(***************************************************************************)
EXTENDS LoadQuorum, TLC

CONSTANTS p1, p2, p3, MaxConnections

AnyConnections == UNION {[1..n -> Peers] : n \in 0..MaxConnections}

Config(enabled, q, single, compaction) ==
  [loadQuorumEnabled |-> enabled, loadQuorumK |-> 3, loadQuorumQ |-> q,
   loadQuorumAllowSinglePeer |-> single, compactionEnabled |-> compaction]

(* The default configuration, and every setting of the switches and of Q.  *)
DefaultConfig == {Config(TRUE, Default, FALSE, FALSE)}

AnyConfig == {Config(e, q, s, c) : e \in BOOLEAN, q \in {Default, 1, 2, 3},
                                   s \in BOOLEAN, c \in BOOLEAN}

SinglePeerConfig == {Config(TRUE, Default, s, FALSE) : s \in BOOLEAN}

PeerSymmetry == Permutations(Peers)
=============================================================================
