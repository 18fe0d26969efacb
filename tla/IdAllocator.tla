---------------------------- MODULE IdAllocator ----------------------------
(***************************************************************************)
(* What the id array of a tree file promises to its users, whatever the    *)
(* file looks like underneath: `next` is the id the next node will get     *)
(* (treeMeta.curId) and `live` the ids whose entry is not zero.  An id is  *)
(* taken from the end and only the last one is ever given back; removing a *)
(* node may unlist others with it, one after another.                      *)
(***************************************************************************)
EXTENDS Naturals

VARIABLES live, next
vars == <<live, next>>

TypeOK == live \in SUBSET Nat /\ next \in Nat

Init == live = {} /\ next = 0

\* appendToIdArray: the new node takes the number `next`.
Append ==
    /\ live' = live \cup {next}
    /\ next' = next + 1

\* removeFromIdArray: the entry is zeroed; the number is free again only
\* when it is the last one given out.
After(id) == IF next - 1 = id THEN next - 1 ELSE next

\* removeNode: the id, then those of its children, in any order; of these the
\* ones that are last at their turn are given back, too.
Release(id, children) ==
    /\ live' = live \ ({id} \cup children)
    /\ next' \in {n \in 0 .. After(id) : n .. After(id) - 1 \subseteq children}

Next == Append \/ \E id \in live : \E children \in SUBSET (live \ {id}) : Release(id, children)

Spec == Init /\ [][Next]_vars
=============================================================================
