--------------------------- MODULE Commands_proofs ---------------------------
(* Proofs about Commands: whatever the text file holds and whatever is typed, *)
(* the file below keeps its shape and its ids, what was typed is what a node  *)
(* shows and is found by, and a loaded file has the text file's right lines.  *)
EXTENDS Commands, TreeFile_proofs, FiniteSetTheorems

----------------------------------------------------------------------------
(* The words of a line *)

LEMMA SettingsAre == TemplateSize \in Nat /\ Settings \in SUBSET (0 .. TemplateSize + 2)
BY FieldAssumption DEF TemplateSize, Settings

\* A line that is inserted has every setting, and each one is accepted.
LEMMA InsertableIs ==
    ASSUME NEW words, Insertable(words)
    PROVE  \A i \in Settings : i \in DOMAIN words /\ Accepted(words[i])
<1> DEFINE B == {i \in Settings : i \notin DOMAIN words \/ ~ Accepted(words[i])}
           T == B \cup {TemplateSize + 3}
<1>1. T \in SUBSET Nat /\ T # {} /\ B \subseteq Settings
  <2>1. B \subseteq Settings
    OBVIOUS
  <2> HIDE DEF B
  <2>2. Settings \subseteq Nat /\ TemplateSize + 3 \in Nat
    BY SettingsAre DEF Settings
  <2> QED BY <2>1, <2>2
<1>2. StopsAt(words) = Min(T)
  BY DEF StopsAt
<1> HIDE DEF B
<1>3. \E x \in T : \A y \in T : x <= y
  BY <1>1, HasLeast
<1>4. Min(T) \in T /\ \A y \in T : Min(T) <= y
  BY <1>3 DEF Min
<1>5. Min(T) \notin Settings
  BY <1>2 DEF Insertable
<1>6. Min(T) = TemplateSize + 3
  BY <1>1, <1>4, <1>5
<1>7. \A y \in Settings : y < TemplateSize + 3
  BY SettingsAre DEF Settings
<1>8. B = {}
  BY <1>1, <1>4, <1>6, <1>7, SettingsAre
<1> QED BY <1>8 DEF B

\* The word that counts for a field is one of the settings, and it is for it.
LEMMA LastForIs ==
    ASSUME NEW words, NEW key, Named(words, key)
    PROVE  LastFor(words, key) \in Settings /\ words[LastFor(words, key)].key = key
<1> DEFINE S == {i \in Settings : words[i].key = key} \cup {0}
<1>1. S \in SUBSET (0 .. TemplateSize + 2) /\ S # {} /\ TemplateSize + 2 \in Nat
  <2>1. 0 \in 0 .. TemplateSize + 2 /\ Settings \subseteq 0 .. TemplateSize + 2
        /\ TemplateSize + 2 \in Nat
    BY SettingsAre
  <2> QED BY <2>1, Zenon
<1>2. Max(S) \in S
  <2>1. \E x \in S : \A y \in S : x >= y
    BY <1>1, HasGreatest
  <2> QED BY <2>1 DEF Max
<1>3. LastFor(words, key) = Max(S)
  BY DEF LastFor
<1>4. Max(S) > 0
  BY <1>3 DEF Named
<1> HIDE DEF S
<1>5. Max(S) # 0
  BY <1>4
<1> QED BY <1>2, <1>3, <1>5 DEF S

\* What a line that is inserted stores is a text, for each text field.
LEMMA InsertGives ==
    ASSUME NEW words, IsWords(words), Insertable(words), \A key \in TextKeys : Named(words, key)
    PROVE  [j \in TextFields |-> LitFor(words, <<"text", j>>).text] \in [TextFields -> Given]
<1>1. ASSUME NEW j \in TextFields PROVE LitFor(words, <<"text", j>>).text \in Given
  <2> DEFINE key == <<"text", j>>
             m   == LastFor(words, key)
  <2>1. key \in TextKeys
    BY DEF TextKeys
  <2>2. Named(words, key)
    BY <2>1
  <2> HIDE DEF key
  <2>3. m \in Settings /\ words[m].key = key
    BY <2>2, LastForIs
  <2> HIDE DEF m
  <2>4. m \in DOMAIN words /\ Accepted(words[m])
    BY <2>3, InsertableIs
  <2>5. words[m].lit.text \in Given
    BY <2>1, <2>3, <2>4 DEF IsWords
  <2> QED BY <2>5 DEF LitFor, m, key
<1> QED BY <1>1

\* A line whose second word was never written leads astray.
LEMMA InsertsAstray ==
    ASSUME NEW words, 2 \notin DOMAIN words, InsertNode(words)
    PROVE  GoWild /\ UNCHANGED given
BY DEF InsertNode, InsertAstray, Insertable

LEMMA InsertCalls == ASSUME NEW words, IsWords(words), InsertNode(words) PROVE FileCall
<1>1. CASE UNCHANGED vars \/ GoWild
  BY <1>1 DEF FileCall
<1>2. CASE ~ UNCHANGED vars /\ ~ GoWild
  <2>1. Insertable(words) /\ \A key \in TextKeys : Named(words, key)
    BY <1>2 DEF InsertNode
  <2> DEFINE text == [j \in TextFields |-> LitFor(words, <<"text", j>>).text]
             parent == Strtol(words[2].lit.n)
  <2>2. \E num \in [NumFields -> Scalars] : AddNode(parent, text, num)
    BY <1>2 DEF InsertNode
  <2>3. text \in [TextFields -> Given]
    BY <2>1, InsertGives
  <2>4. parent \in Parents
    BY <2>1 DEF IsWords
  <2> HIDE DEF text, parent
  <2>5. Adds
    BY <2>2, <2>3, <2>4 DEF Adds
  <2> QED BY <2>5 DEF FileCall
<1> QED BY <1>1, <1>2

----------------------------------------------------------------------------
(* What a step does to the file *)

\* The lines of the text file are read as they are; an update works off a line
\* that was typed.
CommandsInv ==
    /\ SafeInv
    /\ \E f \in Files, n \in Nat : from = [lines |-> f.lines, newline |-> f.newline, read |-> n]
    /\ mode = "updating" => line \in Lines

\* A line that add may insert has words the file allows for, or no second one.
Known(l) == l.count = TemplateSize + 2 => IsWords(l.words) \/ 2 \notin DOMAIN l.words

LEMMA CommandCalls == ASSUME NEW l, Command(l), Known(l) PROVE FileCall
<1>0. CASE l.words = <<>>
  BY <1>0 DEF Command, FileCall
<1>1. CASE Add(l)
  BY <1>1, InsertCalls, InsertsAstray DEF Add, FileCall, Known
<1>2. CASE Update(l)
  BY <1>2 DEF Update, FileCall
<1>3. CASE Remove(l)
  <2>1. UNCHANGED vars \/ GoWild \/ RemoveNode(Atoi(l.words[2].lit.n))
    BY <1>3 DEF Remove
  <2> QED BY <2>1 DEF FileCall
<1>4. CASE FindBy(l)
  <2>1. UNCHANGED vars \/ GoWild
    BY <1>4 DEF FindBy, Astray, NothingFound, FindById, FindByParent, FindByField
  <2> QED BY <2>1 DEF FileCall
<1>5. CASE ListNodes(l) \/ Exit(l)
  BY <1>5 DEF ListNodes, Exit, FileCall
<1> QED BY <1>0, <1>1, <1>2, <1>3, <1>4, <1>5 DEF Command

\* Behind the end of the input the line has one word at most, the one it began
\* with, and what was counted is one more than the spaces before it.
LEMMA LeftIs ==
    /\ 2 \notin DOMAIN Left.words /\ Left.count = 1 + line.lead
    /\ Left.words # <<>> => line.words # <<>> /\ Left.words[1] = line.words[1]
BY DEF Left

LEMMA LeftKnown == Known(Left)
BY LeftIs DEF Known

LEMMA UpdateCalls == ASSUME CommandsInv, UpdateField PROVE FileCall
<1> DEFINE w == line.words[at]
           id == Atoi(line.words[2].lit.n)
<1>1. CASE UNCHANGED vars \/ GoWild
  BY <1>1 DEF FileCall
<1>2. CASE ~ UNCHANGED vars /\ ~ GoWild
  <2>1. /\ mode = "updating" /\ at \in DOMAIN line.words /\ Accepted(w)
        /\ IF w.key \in TextKeys
           THEN UpdateText(id, w.key[2])
           ELSE UpdateNum(id, w.key[2], UpdateWord(w.key, w.lit))
    BY <1>2 DEF UpdateField
  <2>2. IsWords(line.words)
    BY <2>1, LineAssumption DEF CommandsInv
  <2> HIDE DEF w, id
  <2>3. CASE w.key \in TextKeys
    <3>1. w.key[2] \in TextFields /\ UpdateText(id, w.key[2])
      BY <2>1, <2>3 DEF TextKeys
    <3> QED BY <3>1 DEF FileCall
  <2>4. CASE w.key \notin TextKeys
    <3>1. w.key[2] \in NumFields
      BY <2>1, <2>4 DEF Accepted, TemplateKeys, NumKeys
    <3>2. UpdateWord(w.key, w.lit) \in Scalars
      BY <2>1, <2>2, <2>4 DEF IsWords, w
    <3>3. UpdateNum(id, w.key[2], UpdateWord(w.key, w.lit))
      BY <2>1, <2>4
    <3> QED BY <3>1, <3>2, <3>3 DEF FileCall
  <2> QED BY <2>3, <2>4
<1> QED BY <1>1, <1>2

LEMMA CommandsCalls == ASSUME CommandsInv, CommandsNext PROVE FileCall
<1>1. CASE LoadLine
  <2>1. InsertNode(from.lines[from.read + 1]) /\ Complete /\ mode = "loading"
    BY <1>1 DEF LoadLine
  <2>2. PICK f \in Files : from.lines = f.lines /\ from.read \in Nat
    BY DEF CommandsInv
  <2>3. Len(f.lines) \in Nat
    BY LineAssumption
  <2>4. from.read + 1 \in 1 .. Len(f.lines)
    BY <2>1, <2>2, <2>3 DEF Complete
  <2>5. IsWords(from.lines[from.read + 1])
    BY <2>2, <2>4, LineAssumption
  <2> QED BY <2>1, <2>5, InsertCalls
<1>2. CASE EndOfFile \/ EndUpdate
  BY <1>2 DEF EndOfFile, EndUpdate, FileCall
<1>3. CASE ReadLine
  <2>1. PICK l \in Lines : Command(l)
    BY <1>3 DEF ReadLine
  <2>2. IsWords(l.words)
    BY LineAssumption
  <2> QED BY <2>1, <2>2, CommandCalls DEF Known
<1>4. CASE ReadAgain
  <2>1. Command(Left)
    BY <1>4 DEF ReadAgain
  <2> QED BY <2>1, LeftKnown, CommandCalls
<1>5. CASE UpdateField
  BY <1>5, UpdateCalls
<1> QED BY <1>1, <1>2, <1>3, <1>4, <1>5 DEF CommandsNext

----------------------------------------------------------------------------
(* The invariant holds *)

\* Every command is one of six, or has no name.
LEMMA CommandModes ==
    ASSUME NEW l, Command(l)
    PROVE  \/ UNCHANGED <<mode, at>>
           \/ mode' = "closed"
           \/ /\ Update(l) /\ at' = 3 /\ UNCHANGED vars
              /\ mode' = "updating" /\ 2 \in DOMAIN l.words /\ IsNumeric(l.words[2])
           \/ at' = 3 /\ mode' = mode
BY DEF Command, Add, Update, Remove, FindBy, ListNodes, Exit

LEMMA CommandsKeep ==
    ASSUME CommandsInv, CommandsNext
    PROVE  /\ \E f \in Files, n \in Nat :
                 from' = [lines |-> f.lines, newline |-> f.newline, read |-> n]
           /\ mode' = "updating" => line' \in Lines
<1> USE DEF CommandsInv
<1>1. CASE LoadLine
  <2>1. from' = [from EXCEPT !.read = @ + 1] /\ mode = "loading" /\ UNCHANGED <<mode, line>>
    BY <1>1 DEF LoadLine
  <2>2. PICK f \in Files, n \in Nat : from = [lines |-> f.lines, newline |-> f.newline, read |-> n]
    OBVIOUS
  <2>3. from' = [lines |-> f.lines, newline |-> f.newline, read |-> n + 1] /\ n + 1 \in Nat
    BY <2>1, <2>2
  <2> QED BY <2>1, <2>3
<1>2. CASE EndOfFile \/ EndUpdate
  BY <1>2 DEF EndOfFile, EndUpdate
<1>3. CASE ReadLine
  BY <1>3 DEF ReadLine
<1>4. CASE ReadAgain
  <2>1. Command(Left) /\ mode = "reading" /\ UNCHANGED from
    BY <1>4 DEF ReadAgain
  <2>2. mode' # "updating" /\ mode' # "loading"
    BY <2>1, CommandModes, LeftIs
  <2> QED BY <2>1, <2>2
<1>5. CASE UpdateField
  BY <1>5 DEF UpdateField
<1> QED BY <1>1, <1>2, <1>3, <1>4, <1>5 DEF CommandsNext

LEMMA CommandsStep == CommandsInv /\ [CommandsNext]_allVars => CommandsInv' /\ [Ids!Next]_(Ids!vars)
<1> SUFFICES ASSUME CommandsInv, [CommandsNext]_allVars
             PROVE  CommandsInv' /\ [Ids!Next]_(Ids!vars)
  OBVIOUS
<1>1. CASE CommandsNext
  <2>1. FileCall
    BY <1>1, CommandsCalls
  <2>2. SafeInv' /\ [Ids!Next]_(Ids!vars)
    BY <2>1, CallSafe, CallRefines DEF CommandsInv
  <2> QED BY <1>1, <2>2, CommandsKeep DEF CommandsInv
<1>2. CASE UNCHANGED allVars
  <2>1. UNCHANGED <<vars, mode, from, line>>
    BY <1>2 DEF allVars, session
  <2>2. FileCall
    BY <2>1 DEF FileCall
  <2>3. SafeInv' /\ [Ids!Next]_(Ids!vars)
    BY <2>2, CallSafe, CallRefines DEF CommandsInv
  <2> QED BY <2>1, <2>3 DEF CommandsInv
<1> QED BY <1>1, <1>2

LEMMA CommandsStart == CommandsInit => CommandsInv /\ Ids!Init
<1> SUFFICES ASSUME CommandsInit PROVE CommandsInv /\ Ids!Init
  OBVIOUS
<1>1. SafeInv /\ Ids!Init
  BY SafeInit, IdsInit DEF CommandsInit
<1>2. /\ mode = "loading"
      /\ \E f \in Files : from = [lines |-> f.lines, newline |-> f.newline, read |-> 0]
  BY DEF CommandsInit
<1> QED BY <1>1, <1>2 DEF CommandsInv

\* Whatever a text file holds and whatever is typed, the id array readTreeSchema
\* asks for is inside the file (parseFile, start, storageFilePublic.c).
THEOREM CommandsKeepSchema == CommandsSpec => []SchemaInFile
<1>1. CommandsInv => SchemaInFile
  BY DEF CommandsInv, SafeInv
<1>2. CommandsSpec => []CommandsInv
  BY CommandsStart, CommandsStep, PTL DEF CommandsSpec
<1> QED BY <1>1, <1>2, PTL

\* Ids are given out in order, each once until it is given back, and remove takes
\* out the node's and those of the nodes taken for its children: the number of a
\* line of the text file can be the id of its node only because of this.
THEOREM CommandsKeepIds == CommandsSpec => IdsSpec
<1>1. CommandsSpec => Ids!Init /\ [][Ids!Next]_(Ids!vars)
  BY CommandsStart, CommandsStep, PTL DEF CommandsSpec
<1> QED BY <1>1 DEF IdsSpec, Ids!Spec

----------------------------------------------------------------------------
(* The types of the session's variables *)

\* What is worked off is a line that was typed before the end of the input; the
\* nodes that were ever given anything have the first numbers.
UpdatingInv ==
    mode = "updating" =>
        /\ ~ ended /\ typed # 0
        /\ Is(line, "update") /\ 2 \in DOMAIN line.words /\ IsNumeric(line.words[2])
        /\ at \in Nat /\ at >= 3 /\ (at = 3 \/ at <= line.count + 1)
GivenInv == \E c \in Nat : DOMAIN given = 0 .. c - 1 /\ curId <= c
ModeInv ==
    /\ CommandsInv
    /\ mode \in {"loading", "reading", "updating", "closed"}
    /\ 1 .. from.read \subseteq Whole
    /\ typed \in 0 .. MaxLines /\ ended \in BOOLEAN
    /\ mode = "loading" => typed = 0 /\ ~ ended
    /\ UpdatingInv
    /\ GivenInv

\* Nothing but a new node takes a number.
LEMMA RemoveCounts == ASSUME SafeInv, NEW id, RemoveNode(id) PROVE curId' <= curId
<1>1. CASE GoWild
  <2>1. curId' = curId /\ curId \in Nat
    BY <1>1 DEF GoWild, SafeInv, TypeOK
  <2> QED BY <2>1
<1>2. CASE ~ GoWild
  BY <1>2, RemoveNodeUnlists
<1> QED BY <1>1, <1>2

\* A command gives a new node something, or nothing to any.
LEMMA InsertGiven ==
    ASSUME NEW words, InsertNode(words)
    PROVE  \/ given' = given /\ curId' = curId
           \/ DOMAIN given' = DOMAIN given \cup {curId}
BY DEF InsertNode, GoWild, vars

LEMMA CommandGiven ==
    ASSUME SafeInv, NEW l, Command(l)
    PROVE  \/ given' = given /\ curId' <= curId
           \/ DOMAIN given' = DOMAIN given \cup {curId}
<1>1. curId \in Nat
  BY DEF SafeInv, TypeOK
<1>0. CASE l.words = <<>>
  BY <1>0, <1>1 DEF Command, GoWild
<1>2. CASE Add(l)
  BY <1>1, <1>2, InsertGiven DEF Add, vars
<1>3. CASE Remove(l)
  <2>1. given' = given /\ (curId' = curId \/ RemoveNode(Atoi(l.words[2].lit.n)))
    BY <1>3 DEF Remove, GoWild, vars
  <2> QED BY <1>1, <2>1, RemoveCounts
<1>4. CASE Update(l) \/ ListNodes(l) \/ Exit(l)
  BY <1>1, <1>4 DEF Update, ListNodes, Exit, GoWild, vars
<1>5. CASE FindBy(l)
  <2>1. given' = given /\ (UNCHANGED vars \/ GoWild)
    BY <1>5 DEF FindBy, Astray, NothingFound, FindById, FindByParent, FindByField
  <2> QED BY <1>1, <2>1 DEF GoWild, vars
<1> QED BY <1>0, <1>2, <1>3, <1>4, <1>5 DEF Command

\* The numbers of nodes, whatever is done to them.
LEMMA GivenGrows ==
    ASSUME SafeInv, SafeInv', GivenInv, [Ids!Next]_(Ids!vars),
           \/ curId' <= curId /\ DOMAIN given' = DOMAIN given
           \/ DOMAIN given' = DOMAIN given \cup {curId}
    PROVE  GivenInv'
<1>1. curId \in Nat /\ curId' \in Nat
  BY DEF SafeInv, TypeOK
<1>2. PICK c \in Nat : DOMAIN given = 0 .. c - 1 /\ curId <= c
  BY DEF GivenInv
<1>3. CASE curId' <= curId /\ DOMAIN given' = DOMAIN given
  <2>1. DOMAIN given' = 0 .. c - 1 /\ curId' <= c
    BY <1>1, <1>2, <1>3
  <2> QED BY <2>1 DEF GivenInv
<1>4. CASE DOMAIN given' = DOMAIN given \cup {curId}
  <2>1. curId' <= curId + 1
    BY <1>1 DEF Ids!Next, Ids!vars, Ids!Append, Ids!Release, Ids!After
  <2>2. CASE curId = c
    <3>1. DOMAIN given' = 0 .. (c + 1) - 1 /\ curId' <= c + 1 /\ c + 1 \in Nat
      BY <1>1, <1>2, <1>4, <2>1, <2>2
    <3> QED BY <3>1 DEF GivenInv
  <2>3. CASE curId # c
    <3>1. DOMAIN given' = 0 .. c - 1 /\ curId' <= c
      BY <1>1, <1>2, <1>4, <2>1, <2>3
    <3> QED BY <3>1 DEF GivenInv
  <2> QED BY <2>2, <2>3
<1> QED BY <1>3, <1>4

\* The lines that are looked at: all, or all but the last one.
LEMMA WholeIs ==
    ASSUME CommandsInv
    PROVE  /\ from.read \in Nat /\ Len(from.lines) \in Nat
           /\ \E n \in Int : /\ Whole = 1 .. n /\ n <= Len(from.lines)
                            /\ n = IF from.newline THEN Len(from.lines) ELSE Len(from.lines) - 1
<1>1. PICK f \in Files, n \in Nat : from = [lines |-> f.lines, newline |-> f.newline, read |-> n]
  BY DEF CommandsInv
<1>2. from.read \in Nat /\ Len(from.lines) \in Nat
  BY <1>1, LineAssumption
<1>3. CASE from.newline
  <2>1. Whole = 1 .. Len(from.lines)
    BY <1>2, <1>3 DEF Whole
  <2> QED BY <1>2, <1>3, <2>1
<1>4. CASE ~ from.newline
  <2>1. Whole = 1 .. Len(from.lines) - 1
    BY <1>2, <1>4 DEF Whole
  <2>2. Len(from.lines) - 1 \in Int /\ Len(from.lines) - 1 <= Len(from.lines)
    BY <1>2
  <2> QED BY <1>2, <1>4, <2>1, <2>2
<1> QED BY <1>3, <1>4

\* The next line to look at is one of them.
LEMMA CompleteIs ==
    ASSUME CommandsInv, Complete, 1 .. from.read \subseteq Whole
    PROVE  from.read + 1 \in Whole /\ 1 .. from.read + 1 \subseteq Whole
<1>1. PICK n \in Int : /\ Whole = 1 .. n
                       /\ n = IF from.newline THEN Len(from.lines) ELSE Len(from.lines) - 1
  BY WholeIs
<1>2. from.read \in Nat /\ Len(from.lines) \in Nat
  BY WholeIs
<1>3. from.read + 1 <= n
  BY <1>1, <1>2 DEF Complete
<1> QED BY <1>1, <1>2, <1>3

LEMMA ModeStart == CommandsInit => ModeInv
<1> SUFFICES ASSUME CommandsInit PROVE ModeInv
  OBVIOUS
<1>1. CommandsInv
  BY CommandsStart
<1>2. /\ mode = "loading" /\ typed = 0 /\ ~ ended /\ ended = FALSE /\ given = <<>> /\ curId = 0
      /\ from.read = 0
  BY DEF CommandsInit, Init
<1>3. DOMAIN given = 0 .. 0 - 1
  BY <1>2
<1>4. GivenInv
  BY <1>2, <1>3 DEF GivenInv
<1>5. 1 .. from.read \subseteq Whole /\ typed \in 0 .. MaxLines
  BY <1>2, LineAssumption
<1> QED BY <1>1, <1>2, <1>4, <1>5 DEF ModeInv, UpdatingInv

LEMMA ModeStep == ModeInv /\ [CommandsNext]_allVars => ModeInv'
<1> SUFFICES ASSUME ModeInv, [CommandsNext]_allVars PROVE ModeInv'
  OBVIOUS
<1>1. /\ CommandsInv /\ SafeInv /\ UpdatingInv /\ GivenInv
      /\ mode \in {"loading", "reading", "updating", "closed"}
      /\ 1 .. from.read \subseteq Whole
      /\ typed \in 0 .. MaxLines /\ ended \in BOOLEAN
      /\ mode = "loading" => typed = 0 /\ ~ ended
  BY DEF ModeInv, CommandsInv
<1>2. CommandsInv' /\ [Ids!Next]_(Ids!vars) /\ SafeInv' /\ curId \in Nat
  BY <1>1, CommandsStep DEF CommandsInv, SafeInv, TypeOK
<1>3. CASE UNCHANGED allVars
  <2>1. UNCHANGED <<mode, from, line, at, ended, typed, given, curId>>
    BY <1>3 DEF allVars, vars, session
  <2> QED BY <1>1, <1>2, <2>1 DEF ModeInv, UpdatingInv, GivenInv, Whole, Is
<1>4. CASE LoadLine
  <2>1. /\ mode = "loading" /\ Complete /\ InsertNode(from.lines[from.read + 1])
        /\ UNCHANGED <<mode, line, at, ended, typed>>
        /\ from' = [from EXCEPT !.read = @ + 1]
    BY <1>4 DEF LoadLine
  <2>2. GivenInv'
    <3>1. \/ curId' <= curId /\ DOMAIN given' = DOMAIN given
          \/ DOMAIN given' = DOMAIN given \cup {curId}
      BY <1>2, <2>1, InsertGiven
    <3> QED BY <1>1, <1>2, <3>1, GivenGrows
  <2>3. 1 .. from'.read \subseteq Whole'
    <3>1. from'.read = from.read + 1 /\ from'.lines = from.lines /\ from'.newline = from.newline
      BY <1>1, <2>1 DEF CommandsInv
    <3>2. Whole' = Whole
      BY <3>1 DEF Whole
    <3> QED BY <1>1, <2>1, <3>1, <3>2, CompleteIs
  <2> QED BY <1>1, <1>2, <2>1, <2>2, <2>3 DEF ModeInv, UpdatingInv
<1>5. CASE EndOfFile \/ EndUpdate
  <2>1. mode' = "reading" /\ UNCHANGED <<from, at, ended, typed, given, curId>>
    BY <1>5 DEF EndOfFile, EndUpdate, vars
  <2> QED BY <1>1, <1>2, <2>1 DEF ModeInv, UpdatingInv, GivenInv, Whole
<1>6. ASSUME NEW l, Command(l) PROVE GivenInv'
  <2>1. \/ curId' <= curId /\ DOMAIN given' = DOMAIN given
        \/ DOMAIN given' = DOMAIN given \cup {curId}
    BY <1>1, <1>6, CommandGiven
  <2> QED BY <1>1, <1>2, <2>1, GivenGrows
<1>7. CASE ReadLine
  <2>1. PICK l \in Lines : line' = l /\ Command(l)
    BY <1>7 DEF ReadLine
  <2>2. mode = "reading" /\ ~ ended /\ typed < MaxLines /\ typed' = typed + 1 /\ UNCHANGED <<from, ended>>
    BY <1>7 DEF ReadLine
  <2>3. typed' \in 0 .. MaxLines /\ typed' # 0
    BY <1>1, <2>2, LineAssumption
  <2>4. mode' \in {"reading", "updating", "closed"} /\ UpdatingInv'
    BY <2>1, <2>2, <2>3, CommandModes DEF UpdatingInv, Update, Is
  <2>5. 1 .. from'.read \subseteq Whole'
    BY <1>1, <2>2 DEF Whole
  <2> QED BY <1>1, <1>2, <1>6, <2>1, <2>2, <2>3, <2>4, <2>5 DEF ModeInv
<1>8. CASE ReadAgain
  <2>1. mode = "reading" /\ ended' = TRUE /\ Command(Left) /\ UNCHANGED <<from, typed>>
    BY <1>8 DEF ReadAgain
  <2>2. mode' \in {"reading", "closed"}
    BY <2>1, CommandModes, LeftIs
  <2>3. 1 .. from'.read \subseteq Whole'
    BY <1>1, <2>1 DEF Whole
  <2> QED BY <1>1, <1>2, <1>6, <2>1, <2>2, <2>3 DEF ModeInv, UpdatingInv
<1>9. CASE UpdateField
  <2>1. /\ mode = "updating" /\ at <= line.count /\ UNCHANGED <<from, line, ended, typed>>
        /\ \/ UNCHANGED <<mode, at>>
           \/ mode' = "reading"
           \/ mode' = mode /\ at' = at + 1
        /\ DOMAIN given' = DOMAIN given /\ curId' = curId
    BY <1>9 DEF UpdateField, UpdateText, UpdateNum, GoWild, vars
  <2>2. GivenInv'
    BY <2>1, <1>1 DEF GivenInv
  <2>3. UpdatingInv'
    <3>1. /\ ~ ended /\ typed # 0 /\ Is(line, "update") /\ 2 \in DOMAIN line.words
          /\ IsNumeric(line.words[2]) /\ at \in Nat /\ at >= 3
          /\ (at = 3 \/ at <= line.count + 1)
      BY <1>1, <2>1 DEF UpdatingInv
    <3>2. line.count \in Nat
      BY <1>1, <2>1, LineAssumption DEF CommandsInv
    <3>3. at' = at + 1 => at' \in Nat /\ at' >= 3 /\ at' <= line.count + 1
      BY <2>1, <3>1, <3>2
    <3> QED BY <2>1, <3>1, <3>3 DEF UpdatingInv, Is
  <2>4. 1 .. from'.read \subseteq Whole'
    BY <1>1, <2>1 DEF Whole
  <2> QED BY <1>1, <1>2, <2>1, <2>2, <2>3, <2>4 DEF ModeInv
<1> QED BY <1>3, <1>4, <1>5, <1>7, <1>8, <1>9 DEF CommandsNext

LEMMA ModeAlways == CommandsSpec => []ModeInv
BY ModeStart, ModeStep, PTL DEF CommandsSpec

\* Whatever a text file holds and whatever is typed, the session's variables
\* keep their types: an update works off a line that was typed and names a
\* number, and is at a word that was counted, or behind them (start,
\* storageUpdateNode).
THEOREM CommandsTypeCorrect == CommandsSpec => []CommandsTypeOK
<1>1. ModeInv => CommandsTypeOK
  <2> SUFFICES ASSUME ModeInv PROVE CommandsTypeOK
    OBVIOUS
  <2>1. TypeOK
    BY DEF ModeInv, CommandsInv, SafeInv
  <2>2. from.read \in 0 .. Len(from.lines)
    <3>1. PICK n \in Int : Whole = 1 .. n /\ n <= Len(from.lines)
      BY WholeIs DEF ModeInv
    <3>2. from.read \in Nat /\ Len(from.lines) \in Nat
      BY WholeIs DEF ModeInv
    <3>3. from.read # 0 => from.read \in 1 .. n
      BY <3>1, <3>2 DEF ModeInv
    <3> QED BY <3>1, <3>2, <3>3
  <2>3. DOMAIN given = 0 .. Cardinality(DOMAIN given) - 1 /\ curId <= Cardinality(DOMAIN given)
    <3>1. PICK c \in Nat : DOMAIN given = 0 .. c - 1 /\ curId <= c
      BY DEF ModeInv, GivenInv
    <3>2. 0 \in Int /\ c - 1 \in Int
      OBVIOUS
    <3>3. Cardinality(0 .. c - 1) = IF 0 > c - 1 THEN 0 ELSE c - 1 - 0 + 1
      BY <3>2, FS_Interval
    <3>4. Cardinality(0 .. c - 1) = c
      BY <3>3
    <3> QED BY <3>1, <3>4
  <2>4. mode = "updating" => at \in 3 .. Max({line.count, 2}) + 1
    <3> SUFFICES ASSUME mode = "updating" PROVE at \in 3 .. Max({line.count, 2}) + 1
      OBVIOUS
    <3>1. at \in Nat /\ at >= 3 /\ (at = 3 \/ at <= line.count + 1) /\ line.count \in Nat
      BY LineAssumption DEF ModeInv, UpdatingInv, CommandsInv
    <3> DEFINE S == {line.count, 2}
    <3>2. \E x \in S : \A y \in S : x >= y
      BY <3>1
    <3>3. Max(S) \in S /\ \A y \in S : Max(S) >= y
      BY <3>2 DEF Max
    <3>4. Max(S) \in Nat /\ Max(S) >= line.count /\ Max(S) >= 2
      BY <3>1, <3>3
    <3> QED BY <3>1, <3>4
  <2> QED BY <2>1, <2>2, <2>3, <2>4 DEF ModeInv, UpdatingInv, CommandsTypeOK
<1> QED BY <1>1, ModeAlways, PTL

----------------------------------------------------------------------------
(* Behind the end of the input nothing is changed *)

\* Once getline has met the end of the input behind a line that begins with the
\* name of its command, and that is neither update nor find_by, the command is
\* obeyed again and again, cut to its first word: none of that touches the file,
\* or leads astray (start, split).
THEOREM EndedInputChangesNothing == CommandsSpec => InputEndsQuietly
<1>1. ModeInv /\ [CommandsNext]_allVars => [ended' /\ EndsWell => UNCHANGED vars]_allVars
  <2> SUFFICES ASSUME ModeInv, CommandsNext, ended', EndsWell PROVE UNCHANGED vars
    OBVIOUS
  <2>1. CASE LoadLine \/ EndOfFile \/ ReadLine \/ UpdateField \/ EndUpdate
    BY <2>1 DEF ModeInv, UpdatingInv, LoadLine, EndOfFile, ReadLine, UpdateField, EndUpdate
  <2>2. CASE ReadAgain
    <3>1. Command(Left)
      BY <2>2 DEF ReadAgain
    <3>2. /\ Left.words = <<line.words[1]>> /\ Left.words # <<>> /\ Left.count = 1
          /\ line.words[1].key[1] \notin {"update", "find_by"}
      BY DEF Left, EndsWell
    <3>3. CASE Add(Left)
      <4>1. Left.count # TemplateSize + 2
        BY <3>2, SettingsAre
      <4> QED BY <3>3, <4>1 DEF Add
    <3>4. CASE Remove(Left)
      BY <3>2, <3>4 DEF Remove
    <3>5. CASE ListNodes(Left) \/ Exit(Left)
      BY <3>2, <3>5 DEF ListNodes, Exit
    <3>6. CASE Update(Left) \/ FindBy(Left)
      BY <3>2, <3>6 DEF Update, FindBy, Is
    <3> QED BY <3>1, <3>2, <3>3, <3>4, <3>5, <3>6 DEF Command
  <2> QED BY <2>1, <2>2 DEF CommandsNext
<1>2. CommandsSpec => [][ended' /\ EndsWell => UNCHANGED vars]_allVars
  BY <1>1, ModeAlways, PTL DEF CommandsSpec
<1> QED BY <1>2 DEF InputEndsQuietly

----------------------------------------------------------------------------
(* What was typed is stored *)

\* What a node shows for a field.
ShownFor(node, key) == IF key \in TextKeys THEN node.text[key[2]] ELSE node.num[key[2]]

\* A node has the parent and the values it was given, of those it was given any.
KeptAsTyped(node, gave) ==
    /\ node.parent = AsLong(gave.parent)
    /\ \A key \in DOMAIN gave.lits :
          key \in TemplateKeys /\ ShownFor(node, key) = Value(key, gave.lits[key])

\* While nothing with a known fault was used the file is as loading leaves it,
\* and every node was given what it shows.
TypedInv ==
    ~ wild /\ sound =>
        /\ Loaded /\ DOMAIN given = Live
        /\ \A i \in Live : KeptAsTyped(NodeOf(i), given[i])

\* A key is the kind of field and its number.
LEMMA KeyIs ==
    ASSUME NEW key \in TemplateKeys
    PROVE  \/ key \in TextKeys /\ key \notin NumKeys /\ key[2] \in TextFields /\ key = <<"text", key[2]>>
           \/ key \in NumKeys /\ key \notin TextKeys /\ key[2] \in NumFields /\ key = <<"num", key[2]>>
BY DEF TemplateKeys, TextKeys, NumKeys

\* The word of a field stands for the value, if the number did not change.
LEMMA WordIsValue ==
    ASSUME NEW key \in NumKeys, NEW lit, NEW number,
           TypeOf(key) = "INT" => number = AsLong(lit.n)
    PROVE  WordOf(key, lit, number) = Value(key, lit)
<1>1. key \notin TextKeys /\ key[2] \in NumFields
  BY KeyIs DEF TemplateKeys, TextKeys, NumKeys
<1>2. TypeOf(key) \in {"INT", "FLOAT", "BOOL"}
  BY <1>1, TypeAssumption DEF TypeOf
<1>3. CASE TypeOf(key) = "INT"
  BY <1>3 DEF WordOf, Value
<1>4. CASE TypeOf(key) = "FLOAT"
  BY <1>4 DEF WordOf, Value
<1>5. CASE TypeOf(key) = "BOOL"
  BY <1>5 DEF WordOf, Value
<1> QED BY <1>2, <1>3, <1>4, <1>5

\* strtol keeps a number as far as a long goes.
LEMMA StrtolIs == ASSUME NEW n \in Nat PROVE Strtol(n) = AsLong(n)
<1>1. WordSize \div 2 \in Int
  BY WidthAssumption
<1> QED BY <1>1 DEF Strtol, LongMax, AsLong

\* A narrow number is what atoi makes of it.
LEMMA NarrowStays == ASSUME NEW n \in Nat, Narrow(n) PROVE Atoi(n) = n /\ AsLong(n) = n
<1>1. HalfInt \in Nat /\ n < HalfInt /\ WordSize \div 2 \in Int /\ 2 * HalfInt <= WordSize \div 2
  BY WidthAssumption DEF Narrow
<1>2. AsLong(n) = n
  BY <1>1 DEF AsLong
<1>3. n % (2 * HalfInt) = n
  BY <1>1
<1> QED BY <1>1, <1>2, <1>3, StrtolIs DEF Atoi

LEMMA DigitsAre ==
    ASSUME NEW words, IsWords(words), NEW i \in DOMAIN words, Accepted(words[i]),
           TypeOf(words[i].key) = "INT"
    PROVE  words[i].lit.n \in Nat
<1>1. words[i].lit.is = "digits"
  BY DEF Accepted, Converts
<1> QED BY <1>1 DEF IsWords

\* A new node has what the words of its line say.
LEMMA InsertKeeps ==
    ASSUME NEW words, IsWords(words), Insertable(words), NEW num,
           \A key \in NumKeys : Named(words, key) => num[key[2]] = InsertWord(key, LitFor(words, key))
    PROVE  KeptAsTyped([parent |-> Strtol(words[2].lit.n),
                        text |-> [j \in TextFields |-> LitFor(words, <<"text", j>>).text],
                        num |-> num], Typed(words))
<1> DEFINE text == [j \in TextFields |-> LitFor(words, <<"text", j>>).text]
           node == [parent |-> Strtol(words[2].lit.n), text |-> text, num |-> num]
           lits == Typed(words).lits
<1>0. Strtol(words[2].lit.n) = AsLong(words[2].lit.n)
  <2>1. words[2].lit.n \in Nat
    BY DEF Insertable, IsNumeric, IsWords
  <2> QED BY <2>1, StrtolIs
<1>1. /\ node.parent = AsLong(Typed(words).parent)
      /\ DOMAIN lits = {key \in TemplateKeys : Named(words, key)}
      /\ \A key \in DOMAIN lits : lits[key] = LitFor(words, key)
  BY <1>0 DEF Typed
<1>2. node.text = text /\ node.num = num
  OBVIOUS
<1> HIDE DEF node, lits
<1>3. ASSUME NEW key \in TemplateKeys, Named(words, key)
      PROVE  ShownFor(node, key) = Value(key, LitFor(words, key))
  <2>1. CASE key \in TextKeys
    <3>1. key[2] \in TextFields /\ key = <<"text", key[2]>>
      BY <2>1, KeyIs DEF TextKeys, NumKeys
    <3>2. node.text[key[2]] = LitFor(words, key).text
      BY <1>2, <3>1
    <3>3. Value(key, LitFor(words, key)) = LitFor(words, key).text
      BY <2>1 DEF Value, TypeOf
    <3> QED BY <2>1, <3>2, <3>3 DEF ShownFor
  <2>2. CASE key \notin TextKeys
    <3>1. key \in NumKeys
      BY <2>2 DEF TemplateKeys
    <3>2. node.num[key[2]] = InsertWord(key, LitFor(words, key))
      BY <1>2, <1>3, <3>1
    <3>3. InsertWord(key, LitFor(words, key)) = Value(key, LitFor(words, key))
      <4>1. PICK m : m = LastFor(words, key)
        OBVIOUS
      <4>2. m \in DOMAIN words /\ Accepted(words[m]) /\ words[m].key = key
        BY <1>3, <4>1, LastForIs, InsertableIs
      <4>3. LitFor(words, key) = words[m].lit
        BY <4>1 DEF LitFor
      <4>4. TypeOf(key) = "INT" => Strtol(LitFor(words, key).n) = AsLong(LitFor(words, key).n)
        BY <4>2, <4>3, DigitsAre, StrtolIs
      <4> QED BY <3>1, <4>4, WordIsValue DEF InsertWord
    <3> QED BY <2>2, <3>2, <3>3 DEF ShownFor
  <2> QED BY <2>1, <2>2
<1>4. KeptAsTyped(node, Typed(words))
  BY <1>1, <1>3 DEF KeptAsTyped, lits
<1> QED BY <1>4 DEF node

\* A scalar update changes the field it is for, and the node keeps the others.
LEMMA UpdateKeeps ==
    ASSUME NEW node, NEW gave, KeptAsTyped(node, gave), NEW key \in NumKeys, NEW lit, NEW word,
           word = Value(key, lit), node.num \in [NumFields -> Scalars],
           NEW node2, node2.parent = node.parent, node2.text = node.text,
           node2.num = [node.num EXCEPT ![key[2]] = word],
           NEW gave2, gave2.parent = gave.parent,
           gave2.lits = [k \in DOMAIN gave.lits \cup {key} |-> IF k = key THEN lit ELSE gave.lits[k]]
    PROVE  KeptAsTyped(node2, gave2)
<1>1. key \in TemplateKeys /\ key[2] \in NumFields /\ key \notin TextKeys /\ key = <<"num", key[2]>>
  BY KeyIs DEF TemplateKeys, TextKeys, NumKeys
<1>2. node2.num[key[2]] = word
  BY <1>1
<1>3. DOMAIN gave2.lits = DOMAIN gave.lits \cup {key}
      /\ \A k \in DOMAIN gave2.lits : gave2.lits[k] = IF k = key THEN lit ELSE gave.lits[k]
  OBVIOUS
<1> SUFFICES ASSUME NEW k \in DOMAIN gave2.lits
             PROVE  k \in TemplateKeys /\ ShownFor(node2, k) = Value(k, gave2.lits[k])
  BY DEF KeptAsTyped
<1>4. CASE k = key
  BY <1>1, <1>2, <1>3, <1>4 DEF ShownFor
<1>5. CASE k # key
  <2>1. /\ gave2.lits[k] = gave.lits[k] /\ k \in TemplateKeys
        /\ ShownFor(node, k) = Value(k, gave.lits[k])
    BY <1>3, <1>5 DEF KeptAsTyped
  <2>2. CASE k \in TextKeys
    BY <2>1, <2>2 DEF ShownFor
  <2>3. CASE k \notin TextKeys
    <3>1. k = <<"num", k[2]>> /\ k[2] \in NumFields
      BY <2>1, <2>3, KeyIs
    <3>2. k[2] # key[2]
      BY <1>1, <1>5, <3>1
    <3>3. node2.num[k[2]] = node.num[k[2]]
      BY <1>1, <3>1, <3>2
    <3> QED BY <2>1, <2>3, <3>3 DEF ShownFor
  <2> QED BY <2>2, <2>3
<1> QED BY <1>4, <1>5

\* What a line that is right adds to a file that was only loaded.
LEMMA LineIsAdded ==
    ASSUME NothingCut, Loaded, NEW words, IsWords(words), Insertable(words), InsertNode(words), ~ wild'
    PROVE  /\ Loaded' /\ curId' = curId + 1 /\ Live' = Live \cup {curId} /\ curId \notin Live
           /\ \A i \in Live : NodeOf(i)' = NodeOf(i)
           /\ KeptAsTyped(NodeAt(file', root'[curId]), Typed(words))
           /\ given' = [i \in DOMAIN given \cup {curId} |->
                          IF i = curId THEN Typed(words) ELSE given[i]]
<1> DEFINE text == [j \in TextFields |-> LitFor(words, <<"text", j>>).text]
           parent == Strtol(words[2].lit.n)
<1>1. ~ InsertAstray(words)
  <2>1. 2 \in DOMAIN words /\ StopsAt(words) \notin Settings
    BY DEF Insertable
  <2> QED BY <2>1 DEF InsertAstray
<1>2. /\ \A key \in TextKeys : Named(words, key)
      /\ \E num \in [NumFields -> Scalars] :
            /\ \A key \in NumKeys :
                  Named(words, key) => num[key[2]] = InsertWord(key, LitFor(words, key))
            /\ AddNode(parent, text, num)
      /\ given' = [i \in DOMAIN given \cup {curId} |-> IF i = curId THEN Typed(words) ELSE given[i]]
  BY <1>1 DEF InsertNode, GoWild
<1>3. PICK num \in [NumFields -> Scalars] :
         /\ \A key \in NumKeys :
               Named(words, key) => num[key[2]] = InsertWord(key, LitFor(words, key))
         /\ AddNode(parent, text, num)
  BY <1>2
<1>4. text \in [TextFields -> Given] /\ parent \in Parents
  <2>1. text \in [TextFields -> Given]
    BY <1>2, InsertGives
  <2> QED BY <2>1 DEF IsWords
<1> DEFINE node == [parent |-> parent, text |-> text, num |-> num]
<1>5. KeptAsTyped(node, Typed(words))
  BY <1>3, InsertKeeps
<1> HIDE DEF text, parent
<1>6. /\ curId' = curId + 1 /\ Live' = Live \cup {curId} /\ curId \notin Live
      /\ \A i \in Live : NodeOf(i)' = NodeOf(i)
      /\ NodeAt(file', root'[curId]) = node
  BY <1>3, <1>4, AddNodeGives
<1>7. Loaded'
  BY <1>3, <1>4, AddNodeLoaded DEF NothingCut, LinksKept
<1> HIDE DEF node
<1> QED BY <1>2, <1>5, <1>6, <1>7

\* A file, and what its nodes were given, after a line.
LEMMA LineKeeps ==
    ASSUME NothingCut, ~ wild, sound, TypedInv, NEW words, IsWords(words), InsertNode(words),
           ~ wild', sound'
    PROVE  TypedInv'
<1>1. /\ Loaded /\ DOMAIN given = Live
      /\ \A i \in Live : KeptAsTyped(NodeOf(i), given[i])
  BY DEF TypedInv
<1>2. CASE ~ Insertable(words)
  <2>1. UNCHANGED <<vars, given>>
    BY <1>2 DEF InsertNode, GoWild
  <2>2. Loaded' /\ Live' = Live /\ \A i \in Live : NodeOf(i)' = NodeOf(i)
    BY <1>1, <2>1 DEF vars, Loaded, TypeOK, SchemaInFile, NeverWild, Full, Hole, Live, NodeOf
  <2> QED BY <1>1, <2>1, <2>2 DEF TypedInv
<1>3. CASE Insertable(words)
  <2> DEFINE gave == Typed(words)
  <2>1. /\ Loaded' /\ Live' = Live \cup {curId} /\ curId \notin Live
        /\ \A i \in Live : NodeOf(i)' = NodeOf(i)
        /\ KeptAsTyped(NodeAt(file', root'[curId]), gave)
        /\ given' = [i \in DOMAIN given \cup {curId} |-> IF i = curId THEN gave ELSE given[i]]
    BY <1>1, <1>3, LineIsAdded
  <2> HIDE DEF gave
  <2>2. /\ DOMAIN given' = Live' /\ given'[curId] = gave
        /\ \A i \in Live : given'[i] = given[i]
    BY <1>1, <2>1
  <2>3. ASSUME NEW i \in Live' PROVE KeptAsTyped(NodeOf(i)', given'[i])
    <3>1. CASE i = curId
      <4>1. NodeOf(i)' = NodeAt(file', root'[curId])
        BY <3>1 DEF NodeOf, NodeAt
      <4> QED BY <2>1, <2>2, <3>1, <4>1
    <3>2. CASE i # curId
      BY <1>1, <2>1, <2>2, <3>2
    <3> QED BY <3>1, <3>2
  <2> QED BY <2>1, <2>2, <2>3 DEF TypedInv
<1> QED BY <1>2, <1>3

\* One word of an update, of a number in both senses.
LEMMA WordKeeps ==
    ASSUME ModeInv, TypedInv, UpdateField, ~ wild', sound'
    PROVE  TypedInv'
<1> DEFINE w == line.words[at]
           id == Atoi(line.words[2].lit.n)
           word == UpdateWord(w.key, w.lit)
<1>1. /\ mode = "updating" /\ ~ wild
      /\ \/ UNCHANGED <<vars, given, sound>>
         \/ /\ at \in DOMAIN line.words /\ Accepted(w) /\ sound
            /\ w.key \in NumKeys /\ Narrow(line.words[2].lit.n)
            /\ TypeOf(w.key) = "INT" => Narrow(w.lit.n)
            /\ w.key \in TextKeys \/ UpdateNum(id, w.key[2], word)
            /\ given' = IF id \in DOMAIN given
                        THEN [given EXCEPT ![id].lits =
                                [key \in DOMAIN @ \cup {w.key} |->
                                   IF key = w.key THEN w.lit ELSE @[key]]]
                        ELSE given
  BY DEF UpdateField, GoWild
<1>2. CASE UNCHANGED <<vars, given, sound>>
  <2>1. TypedInv' <=> TypedInv
    BY <1>2 DEF vars, TypedInv, Loaded, TypeOK, SchemaInFile, NeverWild, Full, Hole, Live, NodeOf
  <2> QED BY <2>1
<1>3. CASE ~ UNCHANGED <<vars, given, sound>>
  <2>1. /\ line \in Lines /\ IsWords(line.words) /\ 2 \in DOMAIN line.words
        /\ IsNumeric(line.words[2])
    BY <1>1, LineAssumption DEF ModeInv, CommandsInv, UpdatingInv
  <2>2. line.words[2].lit.n \in Nat
    BY <2>1 DEF IsWords, IsNumeric
  <2>3. w.key \in NumKeys /\ w.key \in TemplateKeys /\ w.key[2] \in NumFields /\ w.key \notin TextKeys
    BY <1>1, <1>3, KeyIs DEF TemplateKeys, TextKeys, NumKeys
  <2>4. word = Value(w.key, w.lit)
    <3>1. TypeOf(w.key) = "INT" => Atoi(w.lit.n) = AsLong(w.lit.n)
      BY <1>1, <1>3, <2>1, DigitsAre, NarrowStays
    <3> QED BY <2>3, <3>1, WordIsValue DEF UpdateWord
  <2>5. word \in Scalars
    BY <1>1, <1>3, <2>1, <2>3 DEF IsWords
  <2>6. /\ Loaded /\ DOMAIN given = Live /\ \A i \in Live : KeptAsTyped(NodeOf(i), given[i])
    BY <1>1, <1>3 DEF TypedInv
  <2>7. PICK i, key, lit : i = id /\ key = w.key /\ lit = w.lit
    OBVIOUS
  <2>8. PICK v : v = word
    OBVIOUS
  <2>9. /\ UpdateNum(i, key[2], v) /\ v = Value(key, lit) /\ v \in Scalars
        /\ key \in NumKeys /\ key[2] \in NumFields
        /\ given' = IF i \in DOMAIN given
                    THEN [given EXCEPT ![i].lits =
                            [k \in DOMAIN @ \cup {key} |-> IF k = key THEN lit ELSE @[k]]]
                    ELSE given
    BY <1>1, <1>3, <2>3, <2>4, <2>5, <2>7, <2>8
  <2> HIDE DEF w, id, word
  <2>10. i \in Live
    BY <2>9 DEF UpdateNum, GoWild
  <2>11. /\ Loaded' /\ Live' = Live /\ \A h \in Live : h # i => NodeOf(h)' = NodeOf(h)
         /\ NodeOf(i).num \in [NumFields -> Scalars]
         /\ NodeOf(i)' = [NodeOf(i) EXCEPT !.num = [@ EXCEPT ![key[2]] = v]]
    BY <2>6, <2>9, <2>10, UpdateNumNodes, UpdateNumLoaded
  <2>12. PICK node2 : node2 = NodeOf(i)'
    OBVIOUS
  <2>13. /\ node2.parent = NodeOf(i).parent /\ node2.text = NodeOf(i).text
         /\ node2.num = [NodeOf(i).num EXCEPT ![key[2]] = v]
    BY <2>11, <2>12 DEF NodeOf
  <2>14. /\ DOMAIN given' = Live /\ \A h \in Live : h # i => given'[h] = given[h]
         /\ given'[i].parent = given[i].parent
         /\ given'[i].lits = [k \in DOMAIN given[i].lits \cup {key} |->
                                IF k = key THEN lit ELSE given[i].lits[k]]
    BY <2>6, <2>9, <2>10
  <2>15. KeptAsTyped(node2, given'[i])
    <3>1. PICK node, gave, gave2 : node = NodeOf(i) /\ gave = given[i] /\ gave2 = given'[i]
      OBVIOUS
    <3>2. KeptAsTyped(node, gave) /\ node.num \in [NumFields -> Scalars]
      BY <2>6, <2>10, <2>11, <3>1
    <3>3. /\ node2.parent = node.parent /\ node2.text = node.text
          /\ node2.num = [node.num EXCEPT ![key[2]] = v]
          /\ gave2.parent = gave.parent
          /\ gave2.lits = [k \in DOMAIN gave.lits \cup {key} |->
                             IF k = key THEN lit ELSE gave.lits[k]]
      BY <2>13, <2>14, <3>1
    <3>4. key \in NumKeys /\ v = Value(key, lit)
      BY <2>9
    <3>5. KeptAsTyped(node2, gave2)
      BY <3>2, <3>3, <3>4, UpdateKeeps
    <3> QED BY <3>1, <3>5
  <2> QED BY <2>6, <2>11, <2>12, <2>14, <2>15 DEF TypedInv
<1> QED BY <1>2, <1>3

LEMMA SameKeeps == ASSUME TypedInv, UNCHANGED <<vars, given, sound>> PROVE TypedInv'
BY DEF vars, TypedInv, Loaded, TypeOK, SchemaInFile, NeverWild, Full, Hole, Live, NodeOf

LEMMA CommandKeeps ==
    ASSUME NothingCut, TypedInv, ~ wild, ~ wild', sound', NEW l, Command(l), Known(l)
    PROVE  TypedInv'
<1>1. CASE UNCHANGED <<vars, given, sound>>
  BY <1>1, SameKeeps
<1>0. CASE l.words = <<>>
  BY <1>0 DEF Command, GoWild
<1>2. CASE Add(l)
  BY <1>1, <1>2, LineKeeps, InsertsAstray DEF Add, Known, GoWild
<1>3. CASE Update(l) \/ ListNodes(l) \/ Exit(l)
  <2>1. UNCHANGED <<vars, given, sound>>
    BY <1>3 DEF Update, ListNodes, Exit, GoWild
  <2> QED BY <1>1, <2>1
<1>4. CASE Remove(l)
  <2>1. UNCHANGED <<vars, given, sound>>
    BY <1>4 DEF Remove, GoWild
  <2> QED BY <1>1, <2>1
<1>5. CASE FindBy(l)
  <2>1. (UNCHANGED vars \/ GoWild) /\ UNCHANGED <<given, sound>>
    BY <1>5 DEF FindBy, Astray, NothingFound, FindById, FindByParent, FindByField
  <2> QED BY <1>1, <2>1 DEF GoWild
<1> QED BY <1>0, <1>2, <1>3, <1>4, <1>5 DEF Command

\* The line that parseFile looks at next.
LEMMA LineIsWords ==
    ASSUME CommandsInv, Complete
    PROVE  IsWords(from.lines[from.read + 1])
<1>1. PICK f \in Files, n \in Nat : from = [lines |-> f.lines, newline |-> f.newline, read |-> n]
  BY DEF CommandsInv
<1>2. from.lines = f.lines /\ from.read = n /\ Len(f.lines) \in Nat
  BY <1>1, LineAssumption
<1>3. n + 1 \in 1 .. Len(f.lines)
  BY <1>2 DEF Complete
<1> QED BY <1>2, <1>3, LineAssumption

LEMMA TypedStep ==
    ASSUME NothingCut PROVE ModeInv /\ TypedInv /\ [CommandsNext]_allVars => TypedInv'
<1> SUFFICES ASSUME ModeInv, TypedInv, [CommandsNext]_allVars, ~ wild', sound'
             PROVE  TypedInv'
  BY DEF TypedInv
<1>1. CASE UNCHANGED allVars \/ EndOfFile \/ EndUpdate
  <2>1. UNCHANGED <<vars, given, sound>>
    BY <1>1 DEF allVars, EndOfFile, EndUpdate
  <2> QED BY <2>1, SameKeeps
<1>2. CASE LoadLine
  <2>1. /\ ~ wild /\ Complete /\ InsertNode(from.lines[from.read + 1]) /\ sound
    BY <1>2 DEF LoadLine
  <2> QED BY <2>1, LineIsWords, LineKeeps DEF ModeInv
<1>3. CASE ReadLine
  <2>1. PICK l \in Lines : ~ wild /\ Command(l)
    BY <1>3 DEF ReadLine
  <2> QED BY <2>1, LineAssumption, CommandKeeps DEF Known
<1>4. CASE ReadAgain
  <2>1. ~ wild /\ Command(Left)
    BY <1>4 DEF ReadAgain
  <2> QED BY <2>1, LeftKnown, CommandKeeps
<1>5. CASE UpdateField
  BY <1>5, WordKeeps
<1> QED BY <1>1, <1>2, <1>3, <1>4, <1>5 DEF CommandsNext

LEMMA TypedAlways == ASSUME NothingCut PROVE CommandsSpec => []TypedInv
<1>1. CommandsInit => TypedInv
  <2> SUFFICES ASSUME CommandsInit PROVE TypedInv
    OBVIOUS
  <2>1. Loaded /\ Live = {} /\ DOMAIN given = {}
    BY LoadedInit DEF CommandsInit, Init, Live
  <2> QED BY <2>1 DEF TypedInv
<1> QED BY <1>1, ModeAlways, TypedStep, PTL DEF CommandsSpec

\* With nothing in the last bytes of units: while nothing was removed, no text
\* updated and no number too big for an int used in an update, each field of
\* each node holds what was last typed for it, in the text file, with add or
\* with update, however the id array grew; a parent or an INT larger than the
\* largest long is that one (storageInsertNode, storageUpdateNode, strtol).
THEOREM TypedIsStored == ASSUME NothingCut PROVE CommandsSpec => []StoredAsTyped
<1>1. TypedInv => StoredAsTyped
  <2> SUFFICES ASSUME TypedInv, ~ wild, sound PROVE StoredAsTyped
    BY DEF StoredAsTyped
  <2>1. Live = 0 .. curId - 1 /\ \A i \in Live : KeptAsTyped(NodeOf(i), given[i])
    BY LoadedLive DEF TypedInv
  <2> QED BY <2>1 DEF StoredAsTyped, KeptAsTyped, ShownFor, StoredValue
<1> QED BY <1>1, TypedAlways, PTL

----------------------------------------------------------------------------
(* What was typed is found *)

\* A search by field lists what has the value, if it is one an int holds.
LEMMA SearchLists ==
    ASSUME NEW key \in TemplateKeys, NEW lit, FindByField(key, lit), ~ Astray,
           TypeOf(key) # "BOOL", TypeOf(key) = "INT" => lit.n \in Nat /\ Narrow(lit.n)
    PROVE  shown' = [key |-> key, lit |-> lit,
                     ids |-> {i \in Live : ShownFor(NodeOf(i), key) = Value(key, lit)}]
<1>1. CASE key \in TextKeys
  <2>1. key[2] \in TextFields /\ key \notin NumKeys
    BY <1>1, KeyIs DEF TextKeys, NumKeys
  <2>2. shown' = [key |-> key, lit |-> lit, ids |-> TextMatches(key[2], lit)]
    BY <1>1, <2>1 DEF FindByField, Lists
  <2>3. Value(key, lit) = lit.text
    BY <1>1 DEF Value, TypeOf
  <2>4. \A i \in Live : ShownFor(NodeOf(i), key) = file[file[root[i]].text[key[2]]].text
    BY <1>1, <2>1 DEF ShownFor, NodeOf
  <2> QED BY <2>2, <2>3, <2>4 DEF TextMatches
<1>2. CASE key \notin TextKeys
  <2>1. key \in NumKeys
    BY <1>2 DEF TemplateKeys
  <2>2. shown' = [key |-> key, lit |-> lit, ids |-> WordMatches(key[2], UpdateWord(key, lit))]
    BY <1>2, <2>1 DEF FindByField, Lists
  <2>3. UpdateWord(key, lit) = Value(key, lit)
    BY <2>1, NarrowStays, WordIsValue DEF UpdateWord
  <2>4. \A i \in Live : ShownFor(NodeOf(i), key) = file[root[i]].num[key[2]]
    BY <1>2 DEF ShownFor, NodeOf
  <2> QED BY <2>2, <2>3, <2>4 DEF WordMatches
<1> QED BY <1>1, <1>2

\* ... and of those that were given a value the ones that were given this one.
LEMMA SearchIsAsGiven ==
    ASSUME TypedInv, ~ wild, sound, NEW l, FindBy(l), IsWords(l.words), shown' # shown,
           shown'.key \in TemplateKeys, TypeOf(shown'.key) # "BOOL",
           TypeOf(shown'.key) = "INT" => Narrow(shown'.lit.n)
    PROVE  \A i \in Live : shown'.key \in DOMAIN given[i].lits =>
              (i \in shown'.ids <=>
                 Value(shown'.key, given[i].lits[shown'.key]) = Value(shown'.key, shown'.lit))
<1>1. ~ Astray /\ ~ NothingFound
  BY DEF Astray, NothingFound
<1>2. \A lit, ids : Lists(<<"parent", 0>>, lit, ids) \/ Lists(<<"id", 0>>, lit, ids) => FALSE
  BY DEF Lists, TemplateKeys, TextKeys, NumKeys
<1>3. /\ 3 \in DOMAIN l.words /\ 4 \in DOMAIN l.words /\ l.words[3].key \in TemplateKeys
      /\ Converts(l.words[3].key, l.words[4].lit)
      /\ FindByField(l.words[3].key, l.words[4].lit)
  BY <1>1, <1>2 DEF FindBy, FindById, FindByParent
<1>4. PICK key, lit : key = l.words[3].key /\ lit = l.words[4].lit
  OBVIOUS
<1>5. /\ key \in TemplateKeys /\ FindByField(key, lit) /\ Converts(key, lit)
      /\ lit.is = "digits" => lit.n \in Nat
  BY <1>3, <1>4 DEF IsWords
<1>6. shown'.key = key /\ shown'.lit = lit
  BY <1>1, <1>5 DEF FindByField, Lists
<1>7. TypeOf(key) = "INT" => lit.n \in Nat /\ Narrow(lit.n)
  BY <1>5, <1>6 DEF Converts
<1>8. shown'.ids = {i \in Live : ShownFor(NodeOf(i), key) = Value(key, lit)}
  BY <1>1, <1>5, <1>6, <1>7, SearchLists
<1>9. \A i \in Live : key \in DOMAIN given[i].lits =>
         ShownFor(NodeOf(i), key) = Value(key, given[i].lits[key])
  BY DEF TypedInv, KeptAsTyped
<1> QED BY <1>6, <1>8, <1>9

\* With nothing in the last bytes of units: a search for a value lists, of the
\* nodes that were given one, those that were given this one, and no other
\* (storageRetriveNode, findByField).
THEOREM TypedIsFound == ASSUME NothingCut PROVE CommandsSpec => FoundAsGiven
<1> DEFINE P == shown' # shown /\ sound /\ shown'.key \in TemplateKeys
                  /\ (TypeOf(shown'.key) = "INT" => Narrow(shown'.lit.n))
                  /\ TypeOf(shown'.key) # "BOOL" =>
                   \A i \in Live : shown'.key \in DOMAIN given[i].lits =>
                      (i \in shown'.ids <=>
                         Value(shown'.key, given[i].lits[shown'.key])
                           = Value(shown'.key, shown'.lit))
<1>1. ModeInv /\ TypedInv /\ [CommandsNext]_allVars => [P]_allVars
  <2> SUFFICES ASSUME ModeInv, TypedInv, CommandsNext, shown' # shown, sound,
                      shown'.key \in TemplateKeys, TypeOf(shown'.key) # "BOOL",
                      TypeOf(shown'.key) = "INT" => Narrow(shown'.lit.n)
               PROVE  \A i \in Live : shown'.key \in DOMAIN given[i].lits =>
                         (i \in shown'.ids <=>
                            Value(shown'.key, given[i].lits[shown'.key])
                              = Value(shown'.key, shown'.lit))
    OBVIOUS
  <2>1. ReadLine \/ ReadAgain
    BY DEF CommandsNext, LoadLine, EndOfFile, UpdateField, EndUpdate
  <2>2. CASE ReadLine
    <3>1. PICK l \in Lines : ~ wild /\ Command(l)
      BY <2>2 DEF ReadLine
    <3>2. FindBy(l)
      BY <3>1, <2>2 DEF Command, Add, Update, Remove, ListNodes, Exit
    <3>3. IsWords(l.words)
      BY LineAssumption
    <3> QED BY <3>1, <3>2, <3>3, SearchIsAsGiven
  <2>3. ASSUME ReadAgain PROVE FALSE
    <3>1. FindBy(Left)
      BY <2>3 DEF ReadAgain, Command, Add, Update, Remove, ListNodes, Exit
    <3> QED BY <3>1, LeftIs DEF FindBy, Astray
  <2> QED BY <2>1, <2>2, <2>3
<1> HIDE DEF P
<1>2. CommandsSpec => [][P]_allVars
  BY <1>1, ModeAlways, TypedAlways, PTL DEF CommandsSpec
<1> QED BY <1>2 DEF P, FoundAsGiven

----------------------------------------------------------------------------
(* A loaded file has the lines that are right *)

\* The right ones of the lines before the n-th.
Before(n) == {m \in 1 .. n - 1 : Right(from.lines[m])}

\* While the text file is read: the nodes are its right lines, in their order.
Loading == mode = "loading" \/ (mode = "reading" /\ typed = 0 /\ ~ ended)
LinesInv ==
    ~ wild /\ Loading =>
        /\ sound
        /\ mode = "reading" => Whole = 1 .. from.read
        /\ curId = Cardinality(Before(from.read + 1))
        /\ \A n \in Before(from.read + 1) : given[Cardinality(Before(n))] = Typed(from.lines[n])

\* A line is right if parseFile inserts it.
LEMMA RightIsInsertable ==
    ASSUME NEW words, IsWords(words) PROVE Right(words) <=> Insertable(words)
<1>1. /\ Len(words) \in Nat /\ DOMAIN words = 1 .. Len(words) /\ TemplateSize \in Nat
      /\ Settings = 3 .. TemplateSize + 2
  BY SettingsAre DEF IsWords, Settings
<1>2. ASSUME Right(words) PROVE Insertable(words)
  <2>1. /\ 2 \in DOMAIN words /\ IsNumeric(words[2])
        /\ \A i \in Settings : i \in DOMAIN words /\ Accepted(words[i])
    BY <1>1, <1>2 DEF Right
  <2> DEFINE B == {i \in Settings : i \notin DOMAIN words \/ ~ Accepted(words[i])}
  <2>2. B \cup {TemplateSize + 3} = {TemplateSize + 3}
    BY <2>1
  <2>3. \A x \in {TemplateSize + 3} : \A y \in {TemplateSize + 3} : x <= y
    BY <1>1
  <2>4. Min({TemplateSize + 3}) = TemplateSize + 3
    BY <2>3 DEF Min
  <2>5. StopsAt(words) = TemplateSize + 3
    BY <2>2, <2>4 DEF StopsAt
  <2> QED BY <1>1, <2>1, <2>5 DEF Insertable
<1>3. ASSUME Insertable(words) PROVE Right(words)
  <2>1. /\ 2 \in DOMAIN words /\ IsNumeric(words[2])
        /\ \A i \in Settings : i \in DOMAIN words /\ Accepted(words[i])
    BY <1>3, InsertableIs DEF Insertable
  <2>2. Len(words) >= TemplateSize + 2
    <3>1. CASE TemplateSize = 0
      BY <1>1, <2>1, <3>1
    <3>2. CASE TemplateSize # 0
      <4>1. TemplateSize + 2 \in Settings
        BY <1>1, <3>2
      <4> QED BY <1>1, <2>1, <4>1
    <3> QED BY <3>1, <3>2
  <2> QED BY <2>1, <2>2 DEF Right
<1> QED BY <1>2, <1>3

\* How many are right, up to a line and with it.
LEMMA BeforeCounts ==
    ASSUME NEW n \in Nat
    PROVE  /\ IsFiniteSet(Before(n)) /\ Cardinality(Before(n)) \in Nat
           /\ \A m \in Before(n) : m \in Nat /\ Cardinality(Before(m)) < Cardinality(Before(n))
<1>1. IsFiniteSet(1 .. n - 1)
  BY FS_Interval
<1>2. \A m \in Nat : m <= n => IsFiniteSet(Before(m))
  <2> TAKE m \in Nat
  <2>1. IsFiniteSet(1 .. m - 1) /\ Before(m) \subseteq 1 .. m - 1
    BY FS_Interval DEF Before
  <2> QED BY <2>1, FS_Subset
<1>3. IsFiniteSet(Before(n)) /\ Cardinality(Before(n)) \in Nat
  BY <1>2, FS_CardinalityType
<1>4. ASSUME NEW m \in Before(n) PROVE m \in Nat /\ Cardinality(Before(m)) < Cardinality(Before(n))
  <2>1. m \in 1 .. n - 1 /\ m \in Nat /\ m <= n
    BY DEF Before
  <2>2. Before(m) \subseteq Before(n) /\ m \notin Before(m)
    BY <2>1 DEF Before
  <2>3. Cardinality(Before(m)) <= Cardinality(Before(n))
        /\ (Cardinality(Before(n)) = Cardinality(Before(m)) => Before(n) = Before(m))
    BY <1>3, <2>2, FS_Subset
  <2>4. Cardinality(Before(m)) \in Nat
    BY <1>2, <2>1, FS_CardinalityType
  <2> QED BY <1>3, <1>4, <2>1, <2>2, <2>3, <2>4
<1> QED BY <1>3, <1>4

LEMMA BeforeNext ==
    ASSUME NEW n \in Nat \ {0}
    PROVE  /\ Right(from.lines[n]) => /\ Before(n + 1) = Before(n) \cup {n}
                                      /\ Cardinality(Before(n + 1)) = Cardinality(Before(n)) + 1
           /\ ~ Right(from.lines[n]) => Before(n + 1) = Before(n)
<1>1. 1 .. (n + 1) - 1 = (1 .. n - 1) \cup {n} /\ n \notin 1 .. n - 1
  OBVIOUS
<1>2. /\ Right(from.lines[n]) => Before(n + 1) = Before(n) \cup {n}
      /\ ~ Right(from.lines[n]) => Before(n + 1) = Before(n)
      /\ n \notin Before(n)
  BY <1>1 DEF Before
<1>3. IsFiniteSet(Before(n))
  BY BeforeCounts
<1>4. Cardinality(Before(n) \cup {n}) = Cardinality(Before(n)) + 1
  BY <1>2, <1>3, FS_AddElement
<1> QED BY <1>2, <1>4

\* One more line was looked at.
LEMMA LineIsCounted ==
    ASSUME NothingCut, ModeInv, TypedInv, LinesInv, LoadLine, ~ wild'
    PROVE  LinesInv'
<1> DEFINE r == from.read
           words == from.lines[r + 1]
<1>1. /\ ~ wild /\ mode = "loading" /\ Complete /\ InsertNode(words) /\ mode' = "loading"
      /\ sound' = sound /\ from' = [from EXCEPT !.read = @ + 1]
  BY DEF LoadLine
<1>2. /\ sound /\ curId = Cardinality(Before(r + 1))
      /\ \A n \in Before(r + 1) : given[Cardinality(Before(n))] = Typed(from.lines[n])
  BY <1>1 DEF LinesInv, Loading
<1>3. IsWords(words) /\ r \in Nat /\ r + 1 \in Nat \ {0}
  BY <1>1, LineIsWords, WholeIs DEF ModeInv
<1>4. from'.read = r + 1 /\ from'.lines = from.lines
  BY <1>1 DEF ModeInv, CommandsInv
<1>5. \A n : Before(n)' = Before(n)
  BY <1>4 DEF Before
<1>6. Loaded /\ DOMAIN given = Live
  BY <1>1, <1>2 DEF TypedInv
<1> HIDE DEF words
<1>7. CASE Right(words)
  <2>1. Before((r + 1) + 1) = Before(r + 1) \cup {r + 1}
        /\ Cardinality(Before((r + 1) + 1)) = Cardinality(Before(r + 1)) + 1
    BY <1>3, <1>7, BeforeNext DEF words
  <2>2. /\ curId' = curId + 1
        /\ given' = [i \in DOMAIN given \cup {curId} |->
                       IF i = curId THEN Typed(words) ELSE given[i]]
    BY <1>1, <1>3, <1>6, <1>7, RightIsInsertable, LineIsAdded
  <2>3. ASSUME NEW n \in Before((r + 1) + 1)
        PROVE  given'[Cardinality(Before(n))] = Typed(from.lines[n])
    <3>1. CASE n = r + 1
      <4>1. given'[curId] = Typed(words)
        BY <2>2
      <4> QED BY <1>2, <3>1, <4>1 DEF words
    <3>2. CASE n # r + 1
      <4>1. n \in Before(r + 1)
        BY <2>1, <3>2
      <4>2. Cardinality(Before(n)) < curId /\ Cardinality(Before(n)) \in Nat /\ curId \in Nat
        BY <1>2, <1>3, <4>1, BeforeCounts
      <4>3. Cardinality(Before(n)) \in Live /\ Cardinality(Before(n)) # curId
        BY <1>6, <4>2, LoadedLive
      <4>4. given'[Cardinality(Before(n))] = given[Cardinality(Before(n))]
        BY <1>6, <2>2, <4>3
      <4> QED BY <1>2, <4>1, <4>4
    <3> QED BY <3>1, <3>2
  <2> QED BY <1>1, <1>2, <1>4, <1>5, <2>1, <2>2, <2>3 DEF LinesInv
<1>8. CASE ~ Right(words)
  <2>1. Before((r + 1) + 1) = Before(r + 1)
    BY <1>3, <1>8, BeforeNext DEF words
  <2>2. UNCHANGED <<vars, given>>
    BY <1>1, <1>3, <1>8, RightIsInsertable DEF InsertNode, GoWild
  <2> QED BY <1>1, <1>2, <1>4, <1>5, <2>1, <2>2 DEF LinesInv, vars
<1> QED BY <1>7, <1>8

LEMMA LinesStep ==
    ASSUME NothingCut PROVE ModeInv /\ TypedInv /\ LinesInv /\ [CommandsNext]_allVars => LinesInv'
<1> SUFFICES ASSUME ModeInv, TypedInv, LinesInv, [CommandsNext]_allVars, ~ wild', Loading'
             PROVE  LinesInv'
  BY DEF LinesInv
<1>1. CASE UNCHANGED allVars
  <2>1. UNCHANGED <<curId, wild, mode, from, typed, ended, given, sound>>
    BY <1>1 DEF allVars, vars, session
  <2> QED BY <2>1 DEF LinesInv, Loading, Before, Whole
<1>2. CASE LoadLine
  BY <1>2, LineIsCounted
<1>3. CASE EndOfFile
  <2>1. /\ ~ wild /\ mode = "loading" /\ ~ Complete /\ mode' = "reading"
        /\ UNCHANGED <<curId, from, typed, ended, given, sound>>
    BY <1>3 DEF EndOfFile, vars
  <2>2. Whole = 1 .. from.read
    <3>1. PICK n \in Int : /\ Whole = 1 .. n
                           /\ n = IF from.newline THEN Len(from.lines) ELSE Len(from.lines) - 1
      BY WholeIs DEF ModeInv
    <3>2. from.read \in Nat /\ Len(from.lines) \in Nat
      BY WholeIs DEF ModeInv
    <3>3. n <= from.read
      BY <2>1, <3>1, <3>2 DEF Complete
    <3>4. 1 .. from.read \subseteq 1 .. n
      BY <3>1 DEF ModeInv
    <3> QED BY <3>1, <3>2, <3>3, <3>4
  <2> QED BY <2>1, <2>2 DEF LinesInv, Loading, Before, Whole
<1>4. CASE ReadLine
  <2>1. typed' # 0 /\ mode' # "loading"
    <3>1. typed \in Nat /\ typed' = typed + 1 /\ mode = "reading"
      BY <1>4, LineAssumption DEF ReadLine, ModeInv
    <3>2. PICK l : Command(l)
      BY <1>4 DEF ReadLine
    <3> QED BY <3>1, <3>2, CommandModes
  <2> QED BY <2>1 DEF Loading
<1>5. CASE ReadAgain
  <2>1. ended' = TRUE /\ mode = "reading" /\ Command(Left)
    BY <1>5 DEF ReadAgain
  <2>2. mode' # "loading"
    BY <2>1, CommandModes
  <2> QED BY <2>1, <2>2 DEF Loading
<1>6. CASE UpdateField \/ EndUpdate
  <2>1. mode = "updating" /\ typed # 0 /\ typed' = typed /\ mode' # "loading"
    BY <1>6 DEF UpdateField, EndUpdate, ModeInv, UpdatingInv
  <2> QED BY <2>1 DEF Loading
<1> QED BY <1>1, <1>2, <1>3, <1>4, <1>5, <1>6 DEF CommandsNext

\* With nothing in the last bytes of units a loaded file has the whole lines of
\* the text file that are right, in their order, and no other; of a number too
\* large for a long it has the largest long (parseFile, storageInsertNode).
THEOREM RightLinesAreLoaded == ASSUME NothingCut PROVE CommandsSpec => []LoadedLinesAreNodes
<1>1. CommandsInit => LinesInv
  <2> SUFFICES ASSUME CommandsInit PROVE LinesInv
    OBVIOUS
  <2>1. mode = "loading" /\ sound /\ curId = 0 /\ from.read = 0
    BY DEF CommandsInit, Init
  <2>2. Before(from.read + 1) = {}
    BY <2>1 DEF Before
  <2> QED BY <2>1, <2>2, FS_EmptySet DEF LinesInv
<1>2. ModeInv /\ TypedInv /\ LinesInv => LoadedLinesAreNodes
  <2> SUFFICES ASSUME ModeInv, TypedInv, LinesInv, mode = "reading", typed = 0, ~ ended, ~ wild
               PROVE  /\ curId = Cardinality(Good)
                      /\ \A n \in Good :
                            LET id == Cardinality({m \in Good : m < n})
                                words == from.lines[n]
                            IN  /\ NodeOf(id).parent = AsLong(words[2].lit.n)
                                /\ \A i \in Settings :
                                      (\A j \in Settings : j > i => words[j].key # words[i].key) =>
                                          StoredValue(id, words[i].key)
                                            = Value(words[i].key, words[i].lit)
    BY DEF LoadedLinesAreNodes
  <2>1. /\ sound /\ Whole = 1 .. from.read /\ curId = Cardinality(Before(from.read + 1))
        /\ \A n \in Before(from.read + 1) : given[Cardinality(Before(n))] = Typed(from.lines[n])
        /\ from.read \in Nat
    BY WholeIs DEF LinesInv, Loading, ModeInv
  <2>2. Good = Before(from.read + 1)
    BY <2>1 DEF Good, Before
  <2>3. Live = 0 .. curId - 1 /\ \A i \in Live : KeptAsTyped(NodeOf(i), given[i])
    BY <2>1, LoadedLive DEF TypedInv
  <2> SUFFICES ASSUME NEW n \in Good
               PROVE  LET id == Cardinality({m \in Good : m < n})
                          words == from.lines[n]
                      IN  /\ NodeOf(id).parent = AsLong(words[2].lit.n)
                          /\ \A i \in Settings :
                                (\A j \in Settings : j > i => words[j].key # words[i].key) =>
                                    StoredValue(id, words[i].key)
                                      = Value(words[i].key, words[i].lit)
    BY <2>1, <2>2
  <2> DEFINE id == Cardinality({m \in Good : m < n})
             words == from.lines[n]
  <2>4. {m \in Good : m < n} = Before(n)
    BY <2>1, <2>2 DEF Before
  <2>5. id \in Live /\ given[id] = Typed(words)
    <3>1. from.read + 1 \in Nat /\ n \in Before(from.read + 1)
      BY <2>1, <2>2
    <3>2. n \in Nat /\ Cardinality(Before(n)) < curId /\ curId \in Nat
      BY <2>1, <3>1, BeforeCounts
    <3>3. Cardinality(Before(n)) \in Nat
      BY <3>2, BeforeCounts
    <3>4. id = Cardinality(Before(n))
      BY <2>4
    <3>5. id \in Live
      BY <2>3, <3>2, <3>3, <3>4
    <3>6. given[Cardinality(Before(n))] = Typed(from.lines[n])
      BY <2>1, <3>1
    <3> QED BY <3>4, <3>5, <3>6
  <2>6. /\ NodeOf(id).parent = AsLong(words[2].lit.n)
        /\ \A key \in TemplateKeys : Named(words, key) =>
              ShownFor(NodeOf(id), key) = Value(key, LitFor(words, key))
    <3> HIDE DEF id, words
    <3>1. KeptAsTyped(NodeOf(id), Typed(words))
      BY <2>3, <2>5
    <3>2. /\ Typed(words).parent = words[2].lit.n
          /\ DOMAIN Typed(words).lits = {key \in TemplateKeys : Named(words, key)}
          /\ \A key \in DOMAIN Typed(words).lits : Typed(words).lits[key] = LitFor(words, key)
      BY DEF Typed
    <3> QED BY <3>1, <3>2 DEF KeptAsTyped
  <2>7. Right(words)
    BY <2>1 DEF Good
  <2> HIDE DEF id, words
  <2>8. ASSUME NEW i \in Settings, \A j \in Settings : j > i => words[j].key # words[i].key
        PROVE  StoredValue(id, words[i].key) = Value(words[i].key, words[i].lit)
    <3> DEFINE key == words[i].key
    <3>1. key \in TemplateKeys
      BY <2>7 DEF Right, Accepted
    <3>2. LastFor(words, key) = i
      <4> DEFINE S == {j \in Settings : words[j].key = key} \cup {0}
      <4>1. \A j \in Settings : j \in Nat /\ j > 0
        BY SettingsAre DEF Settings
      <4>2. i \in S /\ i \in Nat /\ \A j \in S : i >= j
        BY <2>8, <4>1
      <4>3. \A j \in S : (\A h \in S : j >= h) => j = i
        BY <4>1, <4>2
      <4> HIDE DEF S
      <4>4. Max(S) = i
        BY <4>2, <4>3 DEF Max
      <4> QED BY <4>4 DEF LastFor, S
    <3>3. i > 0
      BY SettingsAre DEF Settings
    <3>4. Named(words, key) /\ LitFor(words, key) = words[i].lit
      BY <3>2, <3>3 DEF Named, LitFor
    <3>5. StoredValue(id, key) = ShownFor(NodeOf(id), key)
      BY DEF StoredValue, ShownFor
    <3> QED BY <2>6, <3>1, <3>4, <3>5
  <2> QED BY <2>6, <2>8 DEF id, words
<1> QED BY <1>1, <1>2, ModeAlways, TypedAlways, LinesStep, PTL DEF CommandsSpec
====
