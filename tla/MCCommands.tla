----------------------------- MODULE MCCommands -----------------------------
(* Text files and typed lines.  The template has two STRINGs t and u, an INT *)
(* n and a BOOL b.  An int has three bits, a long and a word five.           *)
EXTENDS Commands, TLC

CONSTANTS textA, textB, noText, junkText

MCTexts == {textA, textB, noText, junkText}
MCCut == [t \in MCTexts |-> t]
MCNumType == <<"INT", "BOOL">>
NoFields == {}
MCScalars == {0, 1, 9, 15, 31}
HeapWords == {0}
MCParents == {0, 1, 15}

Lit(is, n, real, text) == [is |-> is, n |-> n, real |-> real, text |-> text]
Number(n) == Lit("digits", n, n, noText)
TextOf(t) == Lit("text", 0, 0, t)
NoLit     == Lit("absent", 0, 0, noText)

Plain(name)  == [parts |-> 1, key |-> <<name, 0>>, lit |-> TextOf(noText)]
Digits(n)    == [parts |-> 1, key |-> <<"digits", n>>, lit |-> Number(n)]
Empty        == [parts |-> 1, key |-> <<"empty", 0>>, lit |-> Number(0)]
Name(key)    == [parts |-> 1, key |-> key, lit |-> TextOf(noText)]
Set(key, lit) == [parts |-> 2, key |-> key, lit |-> lit]

T == <<"text", 1>>
U == <<"text", 2>>
N == <<"num", 1>>
B == <<"num", 2>>
Yes == Lit("True", 0, 0, noText)
No  == Lit("False", 0, 0, noText)
Unknown == <<"unknown", 0>>

AddWords(settings) == <<Plain("add"), Digits(0)>> \o settings

\* Right lines, one of them in another order and with a wide number, one that
\* is refused in the middle, one that names a field twice, one that is short.
Right1  == AddWords(<<Set(T, TextOf(textA)), Set(U, TextOf(textB)), Set(N, Number(1)), Set(B, Yes)>>)
Right2  == <<Plain("add"), Digits(1), Set(B, No), Set(N, Number(9)), Set(U, TextOf(textA)),
             Set(T, TextOf(textB))>>
TooWide == <<Plain("add"), Digits(40), Set(T, TextOf(textA)), Set(U, TextOf(textA)),
             Set(N, Number(40)), Set(B, Yes)>>
Refused == AddWords(<<Set(T, TextOf(textA)), Set(N, TextOf(noText)), Set(B, Yes),
                      Set(U, TextOf(textA))>>)
Twice   == AddWords(<<Set(T, TextOf(textA)), Set(T, TextOf(textB)), Set(U, TextOf(textA)),
                      Set(N, Number(1))>>)
NoText  == AddWords(<<Set(T, TextOf(textA)), Set(N, Number(1)), Set(N, Number(0)), Set(B, No)>>)
Short   == AddWords(<<Set(T, TextOf(textA))>>)

MCFiles ==
    { [lines |-> l, newline |-> e] :
        l \in {<<>>, <<Right1>>, <<Right2, Refused, Right1>>, <<Refused, Twice, Right2>>, <<TooWide, Right1>>,
               <<Right1, Short>>, <<Right2, NoText>>},
        e \in BOOLEAN }

Typed1(words) == [words |-> words, count |-> Len(words), lead |-> 0]
Indented(words, lead) == [words |-> words, count |-> Len(words) + lead, lead |-> lead]

MCLines ==
    { Typed1(Right1), Typed1(Right2), Typed1(Refused),
      Typed1(<<Plain("update"), Digits(0), Set(N, Number(1))>>),
      Typed1(<<Plain("update"), Digits(8), Set(B, No), Set(Unknown, Yes), Set(N, Number(1))>>),
      Typed1(<<Plain("update"), Digits(1), Set(N, Number(9)), Set(T, TextOf(textB))>>),
      Typed1(Short), Typed1(<<Plain("add"), Plain("x")>> \o SubSeq(Right1, 3, 6)),
      Typed1(<<Plain("update"), Digits(0), Set(N, NoLit)>>),
      Typed1(<<Plain("find_by"), Plain("field"), Name(N), Plain("x")>>),
      Typed1(<<Plain("remove"), Digits(1)>>),
      Typed1(<<Plain("remove"), Digits(0)>>),
      Typed1(<<Plain("find_by"), Plain("field"), Name(N), Digits(1)>>),
      Typed1(<<Plain("find_by"), Plain("field"), Name(T), [Plain("a") EXCEPT !.lit = TextOf(textB)]>>),
      Typed1(<<Plain("find_by"), Plain("field"), Name(B), [Plain("True") EXCEPT !.lit = Yes]>>),
      Typed1(<<Plain("find_by"), Plain("parent"), Digits(0)>>),
      Typed1(<<Plain("find_by"), Plain("id"), Digits(0)>>),
      Typed1(<<Plain("print"), Plain("nodes")>>),
      Typed1(<<Plain("update"), Digits(0), Set(N, Number(40))>>),
      [words |-> <<Plain("update"), Digits(0)>>, count |-> 3, lead |-> 0],
      Typed1(<<Empty>>), Indented(<<>>, 2),
      Indented(<<Plain("remove"), Digits(1)>>, 1), Indented(<<Plain("print"), Plain("x")>>, 1),
      Indented(<<Plain("add"), Digits(0)>>, 5),
      Typed1(<<Plain("exit")>>) }
=============================================================================
