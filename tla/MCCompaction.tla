---------------------------- MODULE MCCompaction ----------------------------
(* Small instances of Compaction.  Changes are numbers, in the order of    *)
(* their making; a peer's changes come after them.                         *)
EXTENDS Compaction, TLC

CallSymmetry == Permutations(Calls)

(* Violations are searched for among changes that are made one at a time.  *)
OneCall == Cardinality({x \in Calls : call[x] # Idle}) <= 1
=============================================================================
