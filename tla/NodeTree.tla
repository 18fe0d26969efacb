------------------------------ MODULE NodeTree ------------------------------
(***************************************************************************)
(* The tree the interactive help of the storage promises (add, update,     *)
(* remove with all children): a node has a parent id, one text per STRING  *)
(* field and one number per scalar field.  Nothing of the file shows here. *)
(***************************************************************************)
EXTENDS Naturals

CONSTANTS TextFields, NumFields, Texts, Scalars, Parents

VARIABLES nodes, nextId
vars == <<nodes, nextId>>

Node == [parent : Parents, text : [TextFields -> Texts], num : [NumFields -> Scalars]]

Init == nodes = <<>> /\ nextId = 0

Insert(node) ==
    /\ nodes' = [id \in DOMAIN nodes \cup {nextId} |->
                   IF id = nextId THEN node ELSE nodes[id]]
    /\ nextId' = nextId + 1

UpdateNum(id, field, value) ==
    /\ nodes' = [nodes EXCEPT ![id].num[field] = value]
    /\ UNCHANGED nextId

UpdateText(id, field, value) ==
    /\ nodes' = [nodes EXCEPT ![id].text[field] = value]
    /\ UNCHANGED nextId

\* The ids of the subtree under id: what every set that holds id and is
\* closed under "child of" holds.
Subtree(id) ==
    LET Closed(S) == id \in S /\ \A n \in DOMAIN nodes : nodes[n].parent \in S => n \in S
    IN  {n \in DOMAIN nodes : \A S \in SUBSET DOMAIN nodes : Closed(S) => n \in S}

Remove(id) ==
    /\ nodes' = [n \in DOMAIN nodes \ Subtree(id) |-> nodes[n]]
    /\ nextId' \in 0 .. nextId
    /\ \A n \in DOMAIN nodes' : n < nextId'

Next ==
    \/ \E node \in Node : Insert(node)
    \/ \E id \in DOMAIN nodes, field \in NumFields, value \in Scalars :
          UpdateNum(id, field, value)
    \/ \E id \in DOMAIN nodes, field \in TextFields, value \in Texts :
          UpdateText(id, field, value)
    \/ \E id \in DOMAIN nodes : Remove(id)

Spec == Init /\ [][Next]_vars
=============================================================================
