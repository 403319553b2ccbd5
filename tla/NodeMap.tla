------------------------------ MODULE NodeMap ------------------------------
(***************************************************************************)
(* What a nodestore promises (ua_nodestore.h): a map from node ids to      *)
(* nodes.  Each operation is one step that leaves its answer.              *)
(***************************************************************************)
EXTENDS Naturals

CONSTANTS
    Ids,      \* node ids
    Values,   \* contents of a node
    None      \* no id or content

VARIABLES
    nodes,    \* the map
    answer    \* the last operation, its status and the node or id it is about

Answer(op, status, about) == [op |-> op, status |-> status, about |-> about]

Init ==
    /\ nodes = [id \in {} |-> None]
    /\ answer = Answer("new", "GOOD", None)

Insert(id, v) ==
    IF id \in DOMAIN nodes
    THEN /\ answer' = Answer("insert", "BADNODEIDEXISTS", id)
         /\ UNCHANGED nodes
    ELSE /\ answer' = Answer("insert", "GOOD", id)
         /\ nodes' = [i \in DOMAIN nodes \cup {id} |-> IF i = id THEN v ELSE nodes[i]]

\* A node without an id gets one that is free.
InsertFresh(v) == \E id \in Ids \ DOMAIN nodes : Insert(id, v)

\* The caller passes the version of the node it has seen last.
Replace(id, v) ==
    IF id \notin DOMAIN nodes
    THEN /\ answer' = Answer("replace", "BADNODEIDUNKNOWN", id)
         /\ UNCHANGED nodes
    ELSE \/ /\ answer' = Answer("replace", "BADINTERNALERROR", id)
            /\ UNCHANGED nodes
         \/ /\ answer' = Answer("replace", "GOOD", id)
            /\ nodes' = [nodes EXCEPT ![id] = v]

Get(id) ==
    /\ answer' = IF id \in DOMAIN nodes
                 THEN Answer("get", "GOOD", nodes[id])
                 ELSE Answer("get", "BADNODEIDUNKNOWN", id)
    /\ UNCHANGED nodes

Remove(id) ==
    IF id \in DOMAIN nodes
    THEN /\ answer' = Answer("remove", "GOOD", id)
         /\ nodes' = [i \in DOMAIN nodes \ {id} |-> nodes[i]]
    ELSE /\ answer' = Answer("remove", "BADNODEIDUNKNOWN", id)
         /\ UNCHANGED nodes

Next ==
    \/ \E v \in Values : InsertFresh(v) \/ \E id \in Ids : Insert(id, v) \/ Replace(id, v)
    \/ \E id \in Ids : Get(id) \/ Remove(id)

Spec == Init /\ [][Next]_<<nodes, answer>>
=============================================================================
