--------------------------- MODULE MCDocumentSync ---------------------------
(* Small instances of DocumentSync for TLC.                                *)
EXTENDS DocumentSync, TLC

CONSTANTS r1, r2, r3, g, c1, c2, c3, c4, c5, s1, s2, null

ReplicaSymmetry == Permutations({r1, r2, r3})
Symmetry == ReplicaSymmetry \cup Permutations({c1, c2, c3})
            \cup Permutations({s1, s2})

(* A subset of the behaviours, to reach a counterexample with the real     *)
(* link bounds: CIDs are used in one order, one change() runs at a time,   *)
(* no call rejects and no message is received twice.                       *)
Order == <<c1, c2, c3, c4, c5>>

Sequential ==
  /\ \A i, j \in DOMAIN Order :
       i < j /\ Order[j] \in Cids /\ change[Order[j]].pc # "unused"
         => change[Order[i]].pc = "published"
  /\ \A c \in Cids : change[c].pc # "failed"
  /\ \A r \in Replicas, s \in Slots :
       sync[r][s].pc = "merging" => sync[r][s].new # <<>>
=============================================================================
