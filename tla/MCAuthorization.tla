-------------------------- MODULE MCAuthorization ---------------------------
(***************************************************************************)
(* The parts that decide who may do what: the chain of ACL entries, UCAN   *)
(* tokens, the replicated lists with their capabilities, and the epochs.   *)
(* They do not interact; each behaviour is one of one part.                *)
(***************************************************************************)
EXTENDS AclChain, UcanAcl, Epochs

CONSTANTS founder, writer

VARIABLE part

MCChanges ==
  {[adds |-> {founder, writer}, removes |-> {}], [adds |-> {}, removes |-> {writer}]}

allVars == <<part, vars, tokens, aclVars, epochVars>>

MCInit ==
  /\ part \in {"chain", "tokens", "lists", "epochs"}
  /\ ChainInit /\ UcanInit /\ AclInit /\ EpochInit

ChainStep == part = "chain" /\ ChainNext /\ UNCHANGED <<part, tokens, aclVars, epochVars>>
TokenStep == part = "tokens" /\ UcanNext /\ UNCHANGED <<part, vars, aclVars, epochVars>>
ListStep  == part = "lists" /\ AclNext /\ UNCHANGED <<part, vars, tokens, epochVars>>
EpochStep == part = "epochs" /\ EpochNext /\ UNCHANGED <<part, vars, tokens, aclVars>>

MCNext == ChainStep \/ TokenStep \/ ListStep \/ EpochStep

(* The awaited calls of the ACL chain answer or throw. *)
MCSpec ==
  /\ MCInit /\ [][MCNext]_allVars
  /\ \A p \in Replicas :
       WF_allVars(/\ part = "chain"
                  /\ \E k \in 1..MaxQueue : k <= Len(queue[p]) /\ Run(p, k)
                  /\ UNCHANGED <<part, tokens, aclVars, epochVars>>)
=============================================================================
