---------------------------- MODULE MCFieldIter ----------------------------
(***************************************************************************)
(* Descriptors of up to four fields, with gaps between their tags and with *)
(* tags that agree in their lowest six bits.                               *)
(***************************************************************************)
EXTENDS FieldIter, Sequences

TagSets == { {1}, {1, 2, 3}, {2, 66, 67}, {1, 3, 65, 129}, {5, 6} }
MCTargets == {0, 1, 2, 3, 4, 65, 66, 129, 130}

Ordered(S) == [i \in 0 .. Cardinality(S) - 1 |->
                 CHOOSE t \in S : Cardinality({u \in S : u < t}) = i]

WordRows == { [i \in 0 .. 3 |-> 4], [i \in 0 .. 3 |-> 2 ^ i] }

MCDescriptors ==
    { LET n == Cardinality(S)
          begin[i \in 0 .. n - 1] == IF i = 0 THEN 0 ELSE begin[i - 1] + w[i - 1]
      IN  [count |-> n, tags |-> Ordered(S), words |-> [i \in 0 .. n - 1 |-> w[i]],
           starts |-> begin, largest |-> Ordered(S)[n - 1],
           required |-> {i \in 0 .. n - 1 : i % 2 = 0},
           submessages |-> {i \in 0 .. n - 1 : i > 0}] :
      S \in TagSets, w \in WordRows }
=============================================================================
