------------------------------ MODULE Commands ------------------------------
(***************************************************************************)
(* The text commands: parseFile, which fills a new file from a text file   *)
(* (flag -p), and start, the interactive mode, with the storage functions  *)
(* they call, on the file of TreeFile.  A step is one call into the file,  *)
(* so an update takes one for each field.                                  *)
(*                                                                         *)
(* A line is the words strtok finds in it, and `count`, what split returns:*)
(* one more than the spaces, whether or not there are words between them;  *)
(* `lead` of these spaces are before the first word.  A word has the       *)
(* number of parts split makes of it at "=", a key (the first part) and a  *)
(* literal: what the conversions make of the second part, or of the whole  *)
(* word if it is the only one.  An empty word has only digits, and is 0;   *)
(* an empty line has one.  The newline is part of the last word unless     *)
(* that is word number `count`.                                            *)
(***************************************************************************)
EXTENDS TreeFile, FiniteSetsExt

CONSTANTS
    NumType,    \* the type of each scalar field: INT, FLOAT or BOOL
    HalfInt,    \* half as many numbers as an int holds, which atoi returns (2^31)
    WordSize,   \* as many numbers as the word of a scalar field holds (2^64)
    Files,      \* text files: their lines, and whether the last one ends in a newline
    Lines,      \* what may be typed
    MaxLines    \* bound: lines typed

TextKeys == {"text"} \X TextFields
NumKeys  == {"num"} \X NumFields
TemplateKeys == TextKeys \cup NumKeys
TemplateSize == NText + NNum

ASSUME TypeAssumption  == NumType \in [NumFields -> {"INT", "FLOAT", "BOOL"}]
ASSUME WidthAssumption == HalfInt \in Nat \ {0} /\ WordSize \in Nat
                                      /\ 2 * HalfInt <= WordSize \div 2

VARIABLES
    mode,       \* "loading", "reading", "updating", "closed"
    from,       \* the text file, and how many of its lines were looked at
    line,       \* the line last read, as split left it
    at,         \* the next word of an update
    ended,      \* TRUE once getline has met the end of the input
    typed,      \* how many lines were typed
    shown,      \* the search last made, and the ids it listed
    given,      \* history: per id what was last typed for the node's fields
    sound       \* history: FALSE once an operation with a known fault was used
session == <<mode, from, line, at, ended, typed>>
allVars == <<vars, session, shown, given, sound>>

NothingShown == [key |-> <<"none", 0>>, lit |-> 0, ids |-> {}]

----------------------------------------------------------------------------
(* Conversions *)

\* isNumeric
IsNumeric(w) == w.parts = 1 /\ w.lit.is = "digits"

\* The largest long, and strtol: it stands for every number that is larger.
LongMax == WordSize \div 2 - 1
Strtol(n) == IF n > LongMax THEN LongMax ELSE n

\* atoi, stored in a word: strtol cut to an int, with its sign.
Atoi(n) ==
    LET low == Strtol(n) % (2 * HalfInt)
    IN  IF low < HalfInt THEN low ELSE low - 2 * HalfInt + WordSize

\* A number that atoi keeps.
Narrow(n) == n < HalfInt

TypeOf(key) == IF key \in TextKeys THEN "STRING" ELSE NumType[key[2]]

\* What the fields of each type take; a STRING takes anything.
Converts(key, lit) ==
    CASE TypeOf(key) = "STRING" -> TRUE
      [] TypeOf(key) = "INT"    -> lit.is = "digits"
      [] TypeOf(key) = "FLOAT"  -> lit.real # 0
      [] TypeOf(key) = "BOOL"   -> lit.is \in {"True", "False"}

\* The word of a scalar field.
WordOf(key, lit, number) ==
    CASE TypeOf(key) = "INT"   -> number
      [] TypeOf(key) = "FLOAT" -> lit.real
      [] TypeOf(key) = "BOOL"  -> IF lit.is = "True" THEN 1 ELSE 0

\* Mutant of InsertWord: an INT is converted as update does.
InsertWordInt(key, lit) == WordOf(key, lit, Atoi(lit.n))

\* storageInsertNode converts an INT with strtol, storageUpdateNode and
\* storageRetriveNode with atoi.
InsertWord(key, lit) == WordOf(key, lit, Strtol(lit.n))
UpdateWord(key, lit) == WordOf(key, lit, Atoi(lit.n))

\* "name=": the second part was never written.
Absent(w) == w.parts = 2 /\ w.key \in TemplateKeys /\ w.lit.is = "absent"

Accepted(w) ==
    /\ w.parts = 2 /\ w.key \in TemplateKeys
    /\ ~ Absent(w)
    /\ Converts(w.key, w.lit)

----------------------------------------------------------------------------
(* storageInsertNode *)

Settings == 3 .. TemplateSize + 2

\* The first word that is not accepted, or not there, ends the loop.
StopsAt(words) ==
    Min({i \in Settings : i \notin DOMAIN words \/ ~ Accepted(words[i])} \cup {TemplateSize + 3})

\* A word, or a part of one, that is not there is memory never written.
InsertAstray(words) ==
    \/ 2 \notin DOMAIN words
    \/ /\ 2 \in DOMAIN words /\ IsNumeric(words[2])
       /\ StopsAt(words) \in Settings
       /\ StopsAt(words) \in DOMAIN words => Absent(words[StopsAt(words)])

Insertable(words) ==
    2 \in DOMAIN words /\ IsNumeric(words[2]) /\ StopsAt(words) \notin Settings

\* The lines the bounds of TreeFile allow for: what is stored is a parent, a
\* text or a word of its sets.
IsWords(words) ==
    /\ Len(words) \in Nat /\ DOMAIN words = 1 .. Len(words)
    /\ \A i \in DOMAIN words : words[i].lit.is = "digits" => words[i].lit.n \in Nat
    /\ Insertable(words) => Strtol(words[2].lit.n) \in Parents
    /\ \A i \in DOMAIN words : Accepted(words[i]) =>
          IF words[i].key \in TextKeys
          THEN words[i].lit.text \in Given
          ELSE {UpdateWord(words[i].key, words[i].lit), InsertWord(words[i].key, words[i].lit)}
                 \subseteq Scalars

ASSUME LineAssumption ==
    /\ \A f \in Files : \A i \in 1 .. Len(f.lines) : IsWords(f.lines[i])
    /\ \A f \in Files : Len(f.lines) \in Nat
    /\ \A l \in Lines : IsWords(l.words) /\ l.count \in Nat /\ l.lead \in Nat
    /\ MaxLines \in Nat

\* Words may come in any order; of two for one field the later one counts.
LastFor(words, key) == Max({i \in Settings : words[i].key = key} \cup {0})
Named(words, key) == LastFor(words, key) > 0
LitFor(words, key) == words[LastFor(words, key)].lit

\* What a node was given: no value for a field that no word named.
Typed(words) ==
    [parent |-> words[2].lit.n,
     lits |-> [key \in {key \in TemplateKeys : Named(words, key)} |-> LitFor(words, key)]]

\* A field that no word names, because another one is named twice, keeps what
\* the stack held; for a text that is no address.
InsertNode(words) ==
    \/ /\ InsertAstray(words)
       /\ GoWild /\ UNCHANGED given
    \/ /\ ~ InsertAstray(words) /\ ~ Insertable(words)
       /\ UNCHANGED <<vars, given>>
    \/ /\ Insertable(words)
       /\ \E key \in TextKeys : ~ Named(words, key)
       /\ GoWild /\ UNCHANGED given
    \/ /\ Insertable(words)
       /\ \A key \in TextKeys : Named(words, key)
       /\ \E num \in [NumFields -> Scalars] :
             /\ \A key \in NumKeys :
                   Named(words, key) => num[key[2]] = InsertWord(key, LitFor(words, key))
             /\ AddNode(Strtol(words[2].lit.n),
                        [j \in TextFields |-> LitFor(words, <<"text", j>>).text], num)
       /\ given' = [i \in DOMAIN given \cup {curId} |->
                      IF i = curId THEN Typed(words) ELSE given[i]]

----------------------------------------------------------------------------
(* parseFile *)

\* Mutant of Complete: the last line is always one.
CompleteAlways == from.read < Len(from.lines)

\* feof is asked after fgets: a last line without a newline is not looked at.
Complete ==
    from.read + 1 < Len(from.lines) \/ (from.read + 1 = Len(from.lines) /\ from.newline)

\* Nothing counts the words of a line, and a line that is refused is left out.
LoadLine ==
    /\ ~ wild /\ mode = "loading" /\ Complete
    /\ InsertNode(from.lines[from.read + 1])
    /\ from' = [from EXCEPT !.read = @ + 1]
    /\ UNCHANGED <<mode, line, at, ended, typed, shown, sound>>

EndOfFile ==
    /\ ~ wild /\ mode = "loading" /\ ~ Complete
    /\ mode' = "reading"
    /\ UNCHANGED <<vars, from, line, at, ended, typed, shown, given, sound>>

----------------------------------------------------------------------------
(* The commands of start; l is the line that was read *)

Is(l, name) == l.words[1].key = <<name, 0>>

Add(l) ==
    /\ Is(l, "add")
    /\ IF l.count = TemplateSize + 2
       THEN InsertNode(l.words)
       ELSE UNCHANGED <<vars, given>>
    /\ UNCHANGED <<mode, at, shown, sound>>

\* storageUpdateNode: the words are taken one by one, from the third.
Update(l) ==
    /\ Is(l, "update")
    /\ \/ 2 \notin DOMAIN l.words /\ GoWild /\ UNCHANGED <<mode, at>>
       \/ /\ 2 \in DOMAIN l.words
          /\ mode' = IF IsNumeric(l.words[2]) THEN "updating" ELSE mode
          /\ at' = 3
          /\ UNCHANGED vars
    /\ UNCHANGED <<shown, given, sound>>

\* storageDeleteNode.  An entry of zero is a failure that nobody reports.
Remove(l) ==
    /\ Is(l, "remove")
    /\ LET id == Atoi(l.words[2].lit.n)
       IN  IF l.count # 2 \/ (2 \in DOMAIN l.words /\ ~ IsNumeric(l.words[2]))
           THEN UNCHANGED <<vars, sound>>
           ELSE IF 2 \notin DOMAIN l.words THEN GoWild /\ UNCHANGED sound
           ELSE /\ IF id \in DOMAIN root /\ root[id] = 0 THEN UNCHANGED vars ELSE RemoveNode(id)
                /\ sound' = FALSE
    /\ UNCHANGED <<mode, at, shown, given>>

\* Every listed node is read.
Readable == \A i \in Live : IsTuple(file, root[i])
TextsReadable == Readable /\ \A i \in Live : \A j \in TextFields :
                    LET b == file[root[i]].text[j]
                    IN  IsBlock(file, b) /\ (file[b].next = 0 \/ IsBlock(file, file[b].next))

Lists(key, lit, ids) == shown' = [key |-> key, lit |-> lit, ids |-> ids]
Astray == GoWild /\ UNCHANGED shown
NothingFound == UNCHANGED <<vars, shown>>

\* find_by parent converts the word "parent", which is 0, not the id.
FindByParent ==
    IF Readable
    THEN UNCHANGED vars
         /\ Lists(<<"parent", 0>>, 0, {i \in Live : file[root[i]].parent = 0})
    ELSE Astray

\* Mutant of TextMatches: strcmp is taken for equality.
TextMatchesNot(j, lit) == {i \in Live : file[file[root[i]].text[j]].text # lit.text}

TextMatches(j, lit) == {i \in Live : file[file[root[i]].text[j]].text = lit.text}
WordMatches(k, word) == {i \in Live : file[root[i]].num[k] = word}

\* findByField reads a whole word where a BOOL has one byte: the stack bytes
\* behind it are part of the condition.
FindByField(key, lit) ==
    \/ /\ key \in TextKeys /\ TextsReadable
       /\ Lists(key, lit, TextMatches(key[2], lit)) /\ UNCHANGED vars
    \/ /\ key \in NumKeys /\ Readable
       /\ \/ Lists(key, lit, WordMatches(key[2], UpdateWord(key, lit)))
          \/ TypeOf(key) = "BOOL" /\ Lists(key, lit, {})
       /\ UNCHANGED vars
    \/ ~ (IF key \in TextKeys THEN TextsReadable ELSE Readable) /\ Astray

\* find_by id: what it says for an id that is not there it says after it has
\* freed the schema, and goes on with it; a FLOAT is shown as a text, too.
FindById(id) ==
    IF /\ id \in Live /\ TextsReadable
       /\ \A k \in NumFields : NumType[k] # "FLOAT"
    THEN UNCHANGED vars /\ Lists(<<"id", 0>>, 0, {id})
    ELSE Astray

\* storageRetriveNode.  A word too few, or one that cannot be converted, is
\* reported, unless split has counted a word that is not there.
FindBy(l) ==
    LET topic == l.words[2].key
        third == 3 \in DOMAIN l.words
        field == third /\ l.words[3].key \in TemplateKeys
    IN  /\ Is(l, "find_by")
        /\ IF 2 \notin DOMAIN l.words THEN Astray
           ELSE IF topic \in {<<"parent", 0>>, <<"id", 0>>} /\ l.count = 3
           THEN IF ~ third THEN Astray
                ELSE IF ~ IsNumeric(l.words[3]) THEN NothingFound
                ELSE IF topic = <<"id", 0>> THEN FindById(Atoi(l.words[3].lit.n))
                ELSE FindByParent
           ELSE IF topic = <<"field", 0>> /\ l.count = 4
           THEN IF ~ third \/ (field /\ 4 \notin DOMAIN l.words) THEN Astray
                ELSE IF field /\ Converts(l.words[3].key, l.words[4].lit)
                THEN FindByField(l.words[3].key, l.words[4].lit)
                ELSE NothingFound
           ELSE NothingFound
        /\ UNCHANGED <<mode, at, given, sound>>

\* print nodes; everything else that is typed reads nothing of the file.
ListNodes(l) ==
    /\ l.words[1].key[1] \notin {"add", "update", "remove", "find_by", "exit"}
    /\ IF /\ Is(l, "print") /\ l.count = 2
          /\ 2 \in DOMAIN l.words => l.words[2].key = <<"nodes", 0>> /\ ~ TextsReadable
       THEN GoWild ELSE UNCHANGED vars
    /\ UNCHANGED <<mode, at, shown, given, sound>>

\* storageCloseFile
Exit(l) ==
    /\ Is(l, "exit")
    /\ mode' = "closed"
    /\ UNCHANGED <<vars, at, shown, given, sound>>

\* The name of the command is the first word: of a line without one it is
\* memory never written.
Command(l) ==
    IF l.words = <<>>
    THEN GoWild /\ UNCHANGED <<mode, at, shown, given, sound>>
    ELSE Add(l) \/ Update(l) \/ Remove(l) \/ FindBy(l) \/ ListNodes(l) \/ Exit(l)

\* getline, and what the line asks for.
ReadLine ==
    /\ ~ wild /\ mode = "reading" /\ ~ ended
    /\ typed < MaxLines
    /\ typed' = typed + 1
    /\ \E l \in Lines : line' = l /\ Command(l)
    /\ UNCHANGED <<from, ended>>

\* Mutant of Left: the line is there again as it was typed.
LeftWhole == line

\* strtok has cut the line behind its first word; the spaces before it are
\* still there and are counted again.  Of an empty line nothing is left.
Left == [words |-> IF line.words = <<>> \/ line.words[1].key = <<"empty", 0>>
                   THEN <<>> ELSE <<line.words[1]>>,
         count |-> 1 + line.lead, lead |-> line.lead]

\* Behind the end of the input getline leaves the line as it is, and it is
\* obeyed once more, for ever.  (A first line that is empty is skipped, so it
\* is obeyed first as it was read, which does nothing.)
ReadAgain ==
    /\ ~ wild /\ mode = "reading"
    /\ ended' = TRUE
    /\ line' = Left
    /\ Command(Left)
    /\ UNCHANGED <<from, typed>>

\* One word of an update: it is stored, or ends the update, and the words
\* before it stay stored.  The answer of updateNode is ignored.
UpdateField ==
    /\ ~ wild /\ mode = "updating" /\ at <= line.count
    /\ LET id == Atoi(line.words[2].lit.n)
           w  == line.words[at]
       IN  IF at \notin DOMAIN line.words THEN GoWild /\ UNCHANGED <<mode, at, given, sound>>
           ELSE IF Absent(w) THEN GoWild /\ UNCHANGED <<mode, at, given, sound>>
           ELSE IF ~ Accepted(w)
           THEN mode' = "reading" /\ UNCHANGED <<vars, at, given, sound>>
           ELSE /\ IF w.key \in TextKeys
                   THEN UpdateText(id, w.key[2])
                   ELSE UpdateNum(id, w.key[2], UpdateWord(w.key, w.lit))
                /\ given' = IF id \in DOMAIN given
                            THEN [given EXCEPT ![id].lits =
                                    [key \in DOMAIN @ \cup {w.key} |->
                                       IF key = w.key THEN w.lit ELSE @[key]]]
                            ELSE given
                /\ sound' = (sound /\ w.key \in NumKeys /\ Narrow(line.words[2].lit.n)
                                   /\ (TypeOf(w.key) = "INT" => Narrow(w.lit.n)))
                /\ at' = at + 1
                /\ UNCHANGED mode
    /\ UNCHANGED <<from, line, ended, typed, shown>>

EndUpdate ==
    /\ ~ wild /\ mode = "updating" /\ at > line.count
    /\ mode' = "reading"
    /\ UNCHANGED <<vars, from, line, at, ended, typed, shown, given, sound>>

CommandsInit ==
    /\ Init
    /\ mode = "loading"
    /\ \E f \in Files : from = [lines |-> f.lines, newline |-> f.newline, read |-> 0]
    /\ line = [words |-> <<>>, count |-> 0, lead |-> 0] /\ at = 3
    /\ ended = FALSE /\ typed = 0
    /\ shown = NothingShown /\ given = <<>> /\ sound = TRUE

CommandsNext ==
    LoadLine \/ EndOfFile \/ ReadLine \/ ReadAgain \/ UpdateField \/ EndUpdate

CommandsSpec == CommandsInit /\ [][CommandsNext]_allVars

----------------------------------------------------------------------------
(* Properties *)

CommandsTypeOK ==
    /\ TypeOK
    /\ mode \in {"loading", "reading", "updating", "closed"}
    /\ from.read \in 0 .. Len(from.lines)
    /\ typed \in 0 .. MaxLines
    /\ mode = "loading" => typed = 0 /\ ~ ended
    /\ mode = "updating" => Is(line, "update") /\ 2 \in DOMAIN line.words
    /\ at \in 3 .. Max({line.count, 2}) + 1 \/ mode # "updating"
    /\ DOMAIN given = 0 .. Cardinality(DOMAIN given) - 1
    /\ curId <= Cardinality(DOMAIN given)

\* A number as a node keeps it: itself, as far as a long goes.
AsLong(n) == IF n < WordSize \div 2 THEN n ELSE WordSize \div 2 - 1

Value(key, lit) ==
    CASE TypeOf(key) = "STRING" -> lit.text
      [] TypeOf(key) = "INT"    -> AsLong(lit.n)
      [] TypeOf(key) = "FLOAT"  -> lit.real
      [] TypeOf(key) = "BOOL"   -> IF lit.is = "True" THEN 1 ELSE 0

StoredValue(i, key) ==
    IF key \in TextKeys THEN NodeOf(i).text[key[2]] ELSE NodeOf(i).num[key[2]]

\* A parent and a field hold what was last typed for them, in the text file,
\* with add or with update, or the largest long if that was a larger number,
\* through all that was done to other nodes: unless something was removed, a
\* text was updated, or a number was too big for an int in an update
\* (storageInsertNode, storageUpdateNode, addNode, updateNode).
StoredAsTyped ==
    ~ wild /\ sound => \A i \in 0 .. curId - 1 :
        /\ NodeOf(i).parent = AsLong(given[i].parent)
        /\ \A key \in DOMAIN given[i].lits :
              StoredValue(i, key) = Value(key, given[i].lits[key])

\* A loaded file has the lines of the text file that are right, in their
\* order, and no other: so a line's number is the id of its node, for lines
\* that name it as their parent, exactly if no line before was refused
\* (parseFile, storageInsertNode).
Right(words) ==
    /\ Len(words) >= TemplateSize + 2
    /\ IsNumeric(words[2])
    /\ \A i \in Settings : Accepted(words[i])
Whole == 1 .. Len(from.lines) - IF from.newline THEN 0 ELSE 1
Good  == {n \in Whole : Right(from.lines[n])}
LoadedLinesAreNodes ==
    mode = "reading" /\ typed = 0 /\ ~ ended /\ ~ wild =>
        /\ curId = Cardinality(Good)
        /\ \A n \in Good :
              LET id == Cardinality({m \in Good : m < n})
                  words == from.lines[n]
              IN  /\ NodeOf(id).parent = AsLong(words[2].lit.n)
                  /\ \A i \in Settings :
                        (\A j \in Settings : j > i => words[j].key # words[i].key) =>
                            StoredValue(id, words[i].key) = Value(words[i].key, words[i].lit)

\* A search by field lists the nodes that were given this value, and of those
\* that were given one no other, for numbers an int holds
\* (storageRetriveNode, findByField).
FoundAsGiven ==
    [][shown' # shown /\ sound /\ shown'.key \in TemplateKeys
         /\ (TypeOf(shown'.key) = "INT" => Narrow(shown'.lit.n)) /\ TypeOf(shown'.key) # "BOOL" =>
         \A i \in Live : shown'.key \in DOMAIN given[i].lits =>
            (i \in shown'.ids <=>
               Value(shown'.key, given[i].lits[shown'.key]) = Value(shown'.key, shown'.lit))]_allVars

\* The input may end after a line that starts with its first word, if that is
\* there and is neither update nor find_by: the command that is obeyed again
\* and again then changes nothing and uses no word that is not there, however
\* often the loop turns (start, split, storageDeleteNode, storageInsertNode).
EndsWell ==
    /\ line.lead = 0 /\ line.words # <<>>
    /\ line.words[1].key[1] \notin {"empty", "update", "find_by"}
InputEndsQuietly == [][ended' /\ EndsWell => UNCHANGED vars]_allVars
=============================================================================
