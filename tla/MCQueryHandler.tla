--------------------------- MODULE MCQueryHandler ---------------------------
(* QueryHandler on small files, for small sets of queries.                 *)
EXTENDS QueryHandler, TLC

CONSTANTS textA, textB, noText, junkText

MCTexts  == {textA, textB, noText, junkText}
MCGiven  == {textA, textB}
MCCut    == [t \in MCTexts |-> t]
NoFields == {}
MCScalars == 0 .. 2
MCParents == {0, 1}
HeapWords == {7}
IntAndBool == <<"INT", "BOOL">>
OneInt     == <<"INT">>

\* What the client puts into a message: a text with its address (any number
\* that is no other value here), a whole number or truth value, a fraction.
TextValue(t) == [type |-> "STRING", int |-> 9, text |-> t, real |-> 0]
IntValue(n)  == [type |-> "INT", int |-> n, text |-> noText, real |-> 0]
RealValue(n) == [type |-> "FLOAT", int |-> 0, text |-> noText, real |-> n]

T == <<"text", 1>>
N1 == <<"num", 1>>
N2 == <<"num", 2>>
Other == <<"other", 0>>

Asks(key, op, value) == [key |-> key, op |-> op, value |-> value]
Sets(key, value) == [key |-> key, value |-> value]
MCReceive(filters) == [command |-> "receive", filters |-> filters, settings |-> <<>>]
MCDelete(filters) == [command |-> "delete", filters |-> filters, settings |-> <<>>]
MCUpdate(filters, settings) == [command |-> "update", filters |-> filters, settings |-> settings]
MCInsert(parent, settings) ==
    [command |-> "insert", filters |-> << <<Asks(ParentKey, 0, IntValue(parent))>> >>,
     settings |-> settings]

\* One text, an INT and a BOOL field.
Searches ==
    { << <<Asks(T, 0, TextValue(textA))>> >>,
      << <<Asks(T, 5, TextValue(textA))>>, <<Asks(N1, 2, IntValue(1))>> >>,
      << <<Asks(N1, 0, IntValue(1)), Asks(N2, 0, IntValue(1))>> >>,
      << <<Asks(N1, 3, IntValue(0))>>, <<Asks(N2, 0, IntValue(1)), Asks(T, 0, TextValue(textB))>> >>,
      << <<Asks(N1, 4, IntValue(1))>>, <<Asks(Other, 0, IntValue(1))>> >>,
      << <<Asks(N2, 1, IntValue(1))>> >>,
      << <<Asks(ParentKey, 0, IntValue(0))>> >> }
Inserts ==
    { MCInsert(0, <<Sets(T, TextValue(textA)), Sets(N1, IntValue(1)), Sets(N2, IntValue(0))>>),
      MCInsert(1, <<Sets(N2, IntValue(1)), Sets(N1, IntValue(0)), Sets(T, TextValue(textB))>>),
      MCInsert(0, <<Sets(T, TextValue(textA)), Sets(N1, IntValue(2)), Sets(N1, IntValue(1))>>),
      MCInsert(0, <<Sets(T, TextValue(textA)), Sets(N1, IntValue(1))>>),
      MCInsert(0, <<Sets(T, TextValue(textA)), Sets(N1, RealValue(1)), Sets(N2, IntValue(0))>>) }
Updates ==
    { MCUpdate(<< <<Asks(N1, 4, IntValue(1))>> >>,
               <<Sets(N1, IntValue(0)), Sets(N2, IntValue(1))>>),
      MCUpdate(<< <<Asks(T, 0, TextValue(textA))>> >>,
               <<Sets(N2, RealValue(1)), Sets(N1, TextValue(textA)), Sets(N2, IntValue(1))>>),
      MCUpdate(<< <<Asks(ParentKey, 0, IntValue(0))>> >>,
               <<Sets(N1, IntValue(1)), Sets(N1, IntValue(2))>>) }
LoadQueries == {MCReceive(f) : f \in Searches} \cup Inserts \cup Updates

\* One text and one INT field.
SmallInserts(value) ==
    { MCInsert(0, <<Sets(T, TextValue(textA)), Sets(N1, value)>>),
      MCInsert(1, <<Sets(N1, value), Sets(T, TextValue(textB))>>) }
DamagingQueries ==
    SmallInserts(IntValue(1)) \cup
    { MCInsert(0, <<Sets(N1, IntValue(0)), Sets(N1, IntValue(1))>>),
      MCUpdate(<< <<Asks(N1, 0, IntValue(1))>> >>, <<Sets(T, TextValue(textB))>>),
      MCDelete(<< <<Asks(T, 0, TextValue(textA))>> >>),
      MCDelete(<< <<Asks(N1, 2, IntValue(1))>> >>),
      MCDelete(<< <<Asks(ParentKey, 0, IntValue(0))>> >>),
      MCDelete(<< <<Asks(IdKey, 0, IntValue(0))>> >>) }
IntQueries ==
    SmallInserts(IntValue(1)) \cup
    { MCReceive(<< <<Asks(T, 0, TextValue(textA))>> >>),
      MCUpdate(<< <<Asks(N1, 0, IntValue(1))>> >>,
               <<Sets(N1, RealValue(1)), Sets(N1, IntValue(2))>>) }
=============================================================================
