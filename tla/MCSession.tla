----------------------------- MODULE MCSession -----------------------------
(* Statements of up to two parts, and one of three, which is too long to be  *)
(* encoded; answers around the bounds of one and two packets, of two         *)
(* characters each.                                                         *)
EXTENDS Session

MCEncodable == { <<>>, <<"f", "g">> }
MCQueries == MCEncodable \cup { <<"f", "g", "h">> }
FirstOnes(n) == [i \in 1 .. n |-> i]
MCTexts == {FirstOnes(n) : n \in {0, 1, 2, 3, 4, 5}}
=============================================================================
