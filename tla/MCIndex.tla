------------------------------ MODULE MCIndex -------------------------------
(***************************************************************************)
(* The index package: the manager with its storage, what a query answers,  *)
(* the upgrade of the database's schema, and the gossip of term filters.   *)
(* Each behaviour is one of one part.                                      *)
(***************************************************************************)
EXTENDS IndexManager, IndexQuery, IdbSchema, BloomGossip, TLC

CONSTANT Parts

VARIABLE part

allVars == <<part, indexVars, queryVars, schemaVars, gossipVars>>

MCIndexes == <<"a", "b">>
MCCollection == [i \in {"a", "b"} |-> Paths]
MCDocuments == {[a |-> 0, b |-> 0], [a |-> 1, b |-> 1]}

MCStrings == {<<>>, <<1>>, <<1, 0>>, <<2>>, <<2, 1>>, <<2, 3>>, <<2, 3, 3>>, <<3>>, <<0, 2>>}
MCIsoTimestamp == <<0, 2>> :> 10

MCTab == <<"t1", "t2", "t1", "t2">>
MCIndexName == <<"a", "a", "b", "b">>
MCFields == <<{"x"}, {"y"}, {"x"}, {"x"}>>

MCPositions == 3 :> [t |-> {0, 2}] @@ 4 :> [t |-> {0, 3}]
MCFilterSize == [p |-> 4, q |-> 4, r |-> 3]

(* One record and query while another part runs. *)
idleQuery ==
  /\ record = [p |-> Undefined, q |-> Undefined] /\ indexed = {}
  /\ filters = <<Other>>

MCInit ==
  /\ part \in Parts
  /\ IndexInit /\ SchemaInit /\ GossipInit
  /\ IF part = "query" THEN QueryInit ELSE idleQuery
  /\ part # "manager" => \A path \in Paths : document[path].a = 0

ManagerStep == part = "manager" /\ IndexNext /\ UNCHANGED <<part, queryVars, schemaVars, gossipVars>>
SchemaStep == part = "schema" /\ SchemaNext /\ UNCHANGED <<part, indexVars, queryVars, gossipVars>>
GossipStep == part = "gossip" /\ GossipNext /\ UNCHANGED <<part, indexVars, queryVars, schemaVars>>

MCNext == ManagerStep \/ SchemaStep \/ GossipStep

MCSpec ==
  /\ MCInit /\ [][MCNext]_allVars
  /\ WF_allVars(part = "gossip" /\ OwnerPublishes
                /\ UNCHANGED <<part, indexVars, queryVars, schemaVars>>)
  /\ SF_allVars(part = "gossip" /\ ListenerReceives
                /\ UNCHANGED <<part, indexVars, queryVars, schemaVars>>)
=============================================================================
