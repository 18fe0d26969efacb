------------------------------ MODULE Service ------------------------------
(***************************************************************************)
(* What a client and a server with one connection promise: statements are  *)
(* asked one at a time; each that can be encoded is performed at most      *)
(* once, in the order asked and as it was asked; what is shown for it is   *)
(* its own answer, whole.  Of one that cannot nothing is ever performed.   *)
(* When the client is gone its last statement may be performed without its *)
(* last parts, or not at all.                                              *)
(***************************************************************************)
EXTENDS Naturals, Sequences, SequencesExt

CONSTANTS
    Queries,    \* a statement is the sequence of its filters and settings
    Encodable,  \* those that can be sent
    Texts       \* answers

VARIABLES
    asked,      \* the statements, in order
    performed,  \* what was performed: the statement's number, parts and answer
    shown,      \* answers shown to the end: the statement's number and text
    gone        \* the client does not run any more

vars == <<asked, performed, shown, gone>>

Init == asked = <<>> /\ performed = <<>> /\ shown = <<>> /\ gone = FALSE

Ask ==
    /\ ~gone
    /\ \E q \in Queries : asked' = Append(asked, q)
    /\ UNCHANGED <<performed, shown, gone>>

Performed(q, t) == [number |-> Len(asked), parts |-> q, text |-> t]

Perform ==
    /\ asked # <<>> /\ Last(asked) \in Encodable
    /\ performed # <<>> => Last(performed).number < Len(asked)
    /\ \E t \in Texts, n \in 0 .. Len(Last(asked)) :
          /\ ~gone => n = Len(Last(asked))
          /\ performed' = Append(performed, Performed(SubSeq(Last(asked), 1, n), t))
    /\ UNCHANGED <<asked, shown, gone>>

Show ==
    /\ ~gone
    /\ performed # <<>> /\ Last(performed).number = Len(asked)
    /\ shown # <<>> => Last(shown).number < Len(asked)
    /\ shown' = Append(shown, [number |-> Len(asked), text |-> Last(performed).text])
    /\ UNCHANGED <<asked, performed, gone>>

Leave == ~gone /\ gone' = TRUE /\ UNCHANGED <<asked, performed, shown>>

Next == Ask \/ Perform \/ Show \/ Leave

Spec == Init /\ [][Next]_vars
=============================================================================
