---------------------------- MODULE MCMembership ----------------------------
(***************************************************************************)
(* The BeeKEM group, in two parts of which a behaviour runs one: "trees",  *)
(* the trees of members who all add, remove and update; "membership", the  *)
(* document's use of them, with two joiners whose keychain clients are     *)
(* alike: no client id lies between theirs, so a renaming of the joiners   *)
(* only renames them.                                                      *)
(***************************************************************************)
EXTENDS BeeKEMGroup, Membership, TLC

VARIABLE part
vars == <<part, treesVars, membershipVars>>

MCJoinerClient == 2 :> 6 @@ 3 :> 7

Init ==
  /\ part \in {"trees", "membership"}
  /\ TreesInit /\ ops = IF part = "trees" THEN 0 ELSE MaxOps
  /\ MembershipInit

Next ==
  /\ UNCHANGED part
  /\ \/ part = "trees" /\ TreesNext /\ UNCHANGED membershipVars
     \/ part = "membership" /\ MembershipNext /\ UNCHANGED treesVars

Spec == Init /\ [][Next]_vars

(* Members other than the founder are alike until their key is first put   *)
(* on a leaf: only the behaviours in which this happens in their order are *)
(* explored, every other one is a renaming of one of these.                *)
InOrder == \A y \in Members : (y > 2 /\ placed[y] # {}) => placed[y - 1] # {}

(* The first call is about joiner 2; the others are renamings.  Two        *)
(* instances in one: two calls of any kind with load requests, and three   *)
(* calls about readers without.                                            *)
Bounded ==
  /\ InOrder
  /\ calls = 1 => ~aclCheck(f.readers, 3) /\ ~aclCheck(f.writers, 3)
  /\ calls <= 2 \/ (f.writers.clock <= 1 /\ \A x \in Joiners : loads[x] = 0)
=============================================================================
