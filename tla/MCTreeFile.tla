----------------------------- MODULE MCTreeFile -----------------------------
(* TreeFile on small files: units of two or three ids, up to seven nodes.  *)
EXTENDS TreeFile, TLC

CONSTANTS textA, textB, longText, cutText, junkText

MCTexts == {textA, textB, longText, cutText, junkText}
ShortTexts == {textA, textB}
OneText    == {textA}
LongTexts  == {longText}
MCCut == [t \in MCTexts |-> IF t = longText THEN cutText ELSE t]
OneParent == {0}
AParent == {1}
NoFields == {}
LastField == {NNum}
TwoNumbers == {0, 1}
OneNumber  == {0}
HeapWords == {0, 7}
=============================================================================
