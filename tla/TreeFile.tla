------------------------------ MODULE TreeFile ------------------------------
(***************************************************************************)
(* The storage file: dataFile.c, storageBaseApi.c and storageFileInner.c.  *)
(*                                                                         *)
(* After its head (meta and attribute template) the file is a sequence of  *)
(* units of one size, getRealNodeSize + NODE_HEAD_SIZE bytes.  The first   *)
(* ArrUnits(curId) units hold the id array `root`, K entries each; every   *)
(* other unit is a tuple (a node) or a block (the text of a STRING field). *)
(* A file offset is the number of its unit, from 1; 0 is the offset 0 that *)
(* the code uses for "none".                                               *)
(*                                                                         *)
(* The STRING fields of the template are TextFields, the others NumFields. *)
(* A text fits one block.  LastNums and LastTexts hold the fields whose    *)
(* words are in the last NODE_HEAD_SIZE bytes of a tuple (there are such   *)
(* fields in templates of 31 and more), Cut the text a block is left with  *)
(* when it loses those bytes.                                              *)
(***************************************************************************)
EXTENDS Integers, Sequences, FiniteSets

CONSTANTS
    K,          \* entries of the id array per unit (34 for up to 32 fields)
    NText,      \* STRING fields of the template
    NNum,       \* INT, FLOAT and BOOL fields of the template
    LastNums,   \* scalar fields stored in the last 16 bytes of a tuple
    LastTexts,  \* STRING fields whose blocks are named there
    Texts,      \* what a block may hold
    Given,      \* the texts users store
    Cut,        \* a text without its last 16 bytes
    Junk,       \* stack bytes written in place of a text
    Scalars,    \* values of the scalar fields, 0 among them
    Parents,    \* parent ids users give
    Garbage,    \* heap words that can land in the id array
    MaxIds      \* bound: ids ever given out

TextFields == 1 .. NText
NumFields  == 1 .. NNum

ASSUME KAssumption      == K \in Nat \ {0, 1}
ASSUME FieldAssumption  == /\ NText \in Nat /\ NNum \in Nat
                           /\ LastNums \subseteq NumFields /\ LastTexts \subseteq TextFields
ASSUME TextAssumption   == Given \subseteq Texts /\ Junk \in Texts /\ Cut \in [Texts -> Texts]
ASSUME ScalarAssumption == 0 \in Scalars /\ Parents \subseteq Nat /\ Garbage \subseteq Nat
ASSUME BoundAssumption  == MaxIds \in Nat \ {0}

VARIABLES
    file,       \* the units of the file, without the head
    root,       \* the id array, read again from the file by every call
    curId,      \* treeMeta.curId: the next id
    wild        \* TRUE once an offset led the program to a unit it did not mean,
                \* or it used memory it never wrote; nothing after that is modelled
vars == <<file, root, curId, wild>>

----------------------------------------------------------------------------
(* Units *)

IdsUnit == [kind |-> "ids"]

\* The second header word of a tuple is its id (allocNode), that of a block
\* the offset of the next block; the first one the parent id or the offset
\* of the previous block, the tuple for a first block.
Tuple == [kind : {"tuple"}, parent : Nat, id : Nat,
          text : [TextFields -> Nat], num : [NumFields -> Scalars]]
Block == [kind : {"block"}, prev : Nat, next : Nat, text : Texts]
Unit  == {IdsUnit} \cup Tuple \cup Block

IsTuple(f, p) == p \in DOMAIN f /\ f[p].kind = "tuple"
IsBlock(f, p) == p \in DOMAIN f /\ f[p].kind = "block"

\* getIdArraySize, in units: whole units, one more for a fraction, never none.
ArrUnits(c) ==
    LET n == IF c = 0 THEN 1 ELSE c
    IN  n \div K + (IF n % K # 0 THEN 1 ELSE 0)

Entries(c) == 0 .. K * ArrUnits(c) - 1

\* The unit after the id array: where readTreeSchema leaves the file position.
FirstNode(c) == ArrUnits(c) + 1

\* The ids printNodesFrom, findByParent and findByField visit.
Live == {i \in 0 .. curId - 1 : root[i] # 0}

TypeOK ==
    /\ file \in Seq(Unit)
    /\ curId \in Nat
    /\ root \in [Entries(curId) -> Nat]
    /\ wild \in BOOLEAN

----------------------------------------------------------------------------
(* Adding a node *)

\* insertNodeStr for each STRING field, insertNode for the tuple and linkSton:
\* the blocks go to the end of the file, the tuple after them.
TuplePos(f) == Len(f) + NText + 1

\* Mutant of NewBlock: linkSton is forgotten.
NewBlockUnlinked(owner, t) == [kind |-> "block", prev |-> 0, next |-> 0, text |-> t]

NewBlock(owner, t) == [kind |-> "block", prev |-> owner, next |-> 0, text |-> t]

\* Mutant of Appended: the header is made without the parent.
AppendedOrphan(f, id, parent, text, num) ==
    [p \in 1 .. TuplePos(f) |->
       IF p <= Len(f) THEN f[p]
       ELSE IF p < TuplePos(f) THEN NewBlock(TuplePos(f), text[p - Len(f)])
       ELSE [kind |-> "tuple", parent |-> 0, id |-> id,
             text |-> [j \in TextFields |-> Len(f) + j], num |-> num]]

Appended(f, id, parent, text, num) ==
    [p \in 1 .. TuplePos(f) |->
       IF p <= Len(f) THEN f[p]
       ELSE IF p < TuplePos(f) THEN NewBlock(TuplePos(f), text[p - Len(f)])
       ELSE [kind |-> "tuple", parent |-> parent, id |-> id,
             text |-> [j \in TextFields |-> Len(f) + j], num |-> num]]

\* Mutants of GrowDue: room is made one entry too early, or too late.
GrowDueEarly == (curId + 2) % (K * ArrUnits(curId)) = 0
GrowDueLate  == curId > 0 /\ curId % (K * ArrUnits(curId)) = 0

\* appendToIdArray makes room for one more unit of ids before the last entry
\* of the array is taken.
GrowDue == (curId + 1) % (K * ArrUnits(curId)) = 0

\* getIdOffset: a unit is taken for a tuple when the entry its second header
\* word names holds its offset.
TakenForTuple(r, u, p) ==
    LET word == IF u.kind = "tuple" THEN u.id ELSE u.next
    IN  word \in DOMAIN r /\ r[word] = p

\* swapNode copies getRealNodeSize bytes: a unit without its last
\* NODE_HEAD_SIZE bytes, over a unit ftruncate filled with zeros.
Moved(u) ==
    IF u.kind = "tuple"
    THEN [u EXCEPT !.num  = [k \in NumFields |-> IF k \in LastNums THEN 0 ELSE u.num[k]],
                   !.text = [j \in TextFields |-> IF j \in LastTexts THEN 0 ELSE u.text[j]]]
    ELSE [u EXCEPT !.text = Cut[u.text]]

\* Mutants of Redirected: the tuple is not told, or in its first field always.
NotRedirected(text, src, dest) == text
FirstRedirected(text, src, dest) ==
    [j \in TextFields |-> IF j = 1 THEN dest ELSE text[j]]

\* The first STRING field of a tuple that holds src now holds dest.
Redirected(text, src, dest) ==
    [j \in TextFields |->
       IF text[j] = src /\ \A h \in 1 .. j - 1 : text[h] # src THEN dest ELSE text[j]]

\* swapNode(fp, end of file, src) when src is a tuple: linkSton points its
\* blocks back at the new place.
TupleMoved(f, src) ==
    LET dest == Len(f) + 1
    IN  [p \in 1 .. dest |->
           IF p = dest THEN Moved(f[src])
           ELSE IF \E j \in TextFields : f[src].text[j] = p
                THEN [f[p] EXCEPT !.prev = dest] ELSE f[p]]

\* ... and when it is the only block of a text: its tuple is told.
BlockMoved(f, src) ==
    LET dest == Len(f) + 1
    IN  [p \in 1 .. dest |->
           IF p = dest THEN Moved(f[src])
           ELSE IF p = f[src].prev
                THEN [f[p] EXCEPT !.text = Redirected(f[p].text, src, dest)] ELSE f[p]]

TupleCanMove(f, r, src) ==
    /\ IsTuple(f, src)
    /\ TakenForTuple(r, f[src], src)
    /\ \A j \in TextFields : IsBlock(f, f[src].text[j])

BlockCanMove(f, r, src) ==
    /\ IsBlock(f, src)
    /\ f[src].next = 0
    /\ ~ TakenForTuple(r, f[src], src)
    /\ IsTuple(f, f[src].prev)

\* Mutant of Relinked: the id array keeps the old place of a moved tuple.
NotRelinked(r, id, dest) == r

\* The id array after the tuple of id moved to dest.
Relinked(r, id, dest) == [r EXCEPT ![id] = dest]

GoWild == wild' = TRUE /\ UNCHANGED <<file, root, curId>>

\* appendToIdArray, the entry of the new node is in the array read from the file.
AddInPlace(f) ==
    /\ ~ GrowDue
    /\ curId < K * ArrUnits(curId)
    /\ file' = f
    /\ root' = [root EXCEPT ![curId] = Len(f)]
    /\ curId' = curId + 1
    /\ UNCHANGED wild

\* appendToIdArray, the last entry is taken: the first node unit moves to the
\* end of the file; its old place stays as it is until the array grows over it.
AddGrowing(f) ==
    /\ GrowDue
    /\ LET src  == FirstNode(curId)
           dest == Len(f) + 1
       IN  \/ /\ TupleCanMove(f, root, src)
              /\ file' = TupleMoved(f, src)
              /\ root' = [Relinked(root, f[src].id, dest) EXCEPT ![curId] = Len(f)]
              /\ curId' = curId + 1
              /\ UNCHANGED wild
           \/ /\ BlockCanMove(f, root, src)
              /\ file' = BlockMoved(f, src)
              /\ root' = [root EXCEPT ![curId] = Len(f)]
              /\ curId' = curId + 1
              /\ UNCHANGED wild
           \/ /\ ~ TupleCanMove(f, root, src)
              /\ ~ BlockCanMove(f, root, src)
              /\ GoWild

\* appendToIdArray, the array read from the file is full: the entry is written
\* past it, and writeTreeSchema stores one unit more, whatever lies there: over
\* the unit after the array, and with heap words after the new entry.
AddCrossing(f) ==
    /\ curId = K * ArrUnits(curId)
    /\ \E heap \in [curId + 1 .. K * ArrUnits(curId + 1) - 1 -> Garbage] :
          root' = [i \in Entries(curId + 1) |->
                     IF i < curId THEN root[i] ELSE IF i = curId THEN Len(f) ELSE heap[i]]
    /\ file' = [f EXCEPT ![FirstNode(curId)] = IdsUnit]
    /\ curId' = curId + 1
    /\ UNCHANGED wild

\* addNode.  Nothing looks whether the parent exists.
AddNode(parent, text, num) ==
    /\ ~ wild
    /\ curId < MaxIds
    /\ LET f == Appended(file, curId, parent, text, num)
       IN  AddInPlace(f) \/ AddGrowing(f) \/ AddCrossing(f)

----------------------------------------------------------------------------
(* Updating a node *)

\* updateNode, scalar field: the tuple is written again with the new value.
\* The answer of convItoO is ignored: an id that is not listed, or an entry
\* that leads to no tuple, leaves the offset or the tuple unset.
UpdateNum(id, field, value) ==
    /\ ~ wild
    /\ \/ /\ id \in Live
          /\ IsTuple(file, root[id])
          /\ file' = [file EXCEPT ![root[id]].num[field] = value]
          /\ UNCHANGED <<root, curId, wild>>
       \/ /\ ~ (id \in Live /\ IsTuple(file, root[id]))
          /\ GoWild

\* The first block of a listed node's text.
TextBlock(id, field) == file[root[id]].text[field]
HasTextBlock(id, field) ==
    /\ id \in Live
    /\ IsTuple(file, root[id])
    /\ IsBlock(file, TextBlock(id, field))

\* updateNode, STRING field: changeStrNode gets the address of the pointer to
\* the text, not the text, so what it writes is stack bytes; its remaining
\* length wraps below zero, so it always appends the rest of the stack bytes,
\* more blocks or none, at the end of the file and links to that place.
\* Bound: a text is updated once (its block has no next one yet).
UpdateText(id, field) ==
    /\ ~ wild
    /\ \/ /\ HasTextBlock(id, field)
          /\ LET p == TextBlock(id, field)
             IN  /\ file[p].next = 0
                 /\ \E more \in 0 .. 1 :
                      file' = [q \in 1 .. Len(file) + more |->
                                 IF q > Len(file)
                                 THEN [kind |-> "block", prev |-> 0, next |-> 0, text |-> Junk]
                                 ELSE IF q = p
                                      THEN [file[p] EXCEPT !.text = Junk, !.next = Len(file) + 1]
                                      ELSE file[q]]
          /\ UNCHANGED <<root, curId, wild>>
       \/ /\ ~ HasTextBlock(id, field)
          /\ GoWild

----------------------------------------------------------------------------
(* Removing a node *)

\* swapNode(fp, dest, src) before ftruncate cuts every unit from src on: what
\* it leaves is the entry of the tuple that was at src.
RootAfterSwap(f, r, src, dest) ==
    IF dest # src /\ IsTuple(f, src) /\ TakenForTuple(r, f[src], src)
    THEN Relinked(r, f[src].id, dest)
    ELSE r

SwapIsSound(f, r, src, dest) ==
    \/ dest = src
    \/ /\ IsTuple(f, src)
       /\ TakenForTuple(r, f[src], src)
       /\ \A j \in TextFields : f[src].text[j] >= src
    \/ /\ IsTuple(f, src)                   \* no block either: both header words are 0
       /\ ~ TakenForTuple(r, f[src], src)
       /\ f[src].id = 0 /\ f[src].parent = 0
    \/ /\ IsBlock(f, src)
       /\ f[src].next = 0
       /\ ~ TakenForTuple(r, f[src], src)
       /\ f[src].prev >= src /\ f[src].prev \in DOMAIN f

\* swapNode once nothing is left at src: the unit reads as zeros, so only the
\* entry of id 0 can be taken for its owner.
RootAfterEmptySwap(r, src, dest) ==
    IF dest # src /\ r[0] = src THEN [r EXCEPT ![0] = dest] ELSE r

\* removeFromIdArray: only the last id is given back ...
CurIdAfter(id) == IF curId - 1 = id THEN curId - 1 ELSE curId

\* ... and the entry is zeroed; the array is as long as the new curId asks.
Cleared(id, c) == [i \in Entries(c) |-> IF i = id THEN 0 ELSE root[i]]

\* Mutant of CutAt: the file is cut before the last unit of the id array.
CutAtArray(c) == SubSeq(file, 1, ArrUnits(c) - 1)

\* ftruncate at the first node unit.
CutAt(c) == SubSeq(file, 1, ArrUnits(c))

\* removeNode of a listed id, its own units.  swapLastNode asks fseek for a
\* negative offset, which fails and leaves the position at the first node unit,
\* src: that unit, not the last, is copied over the removed one, and the file
\* is cut there.  What is read past the end of the file is memory never written.
Src(id) == FirstNode(CurIdAfter(id))

ReadsTexts(id) == NText > 0 /\ root[id] \in DOMAIN file
FirstUnit(id)  == IF ReadsTexts(id) THEN file[root[id]].text[1] ELSE root[id]

FindsUnits(id) ==
    /\ ReadsTexts(id) => /\ IsTuple(file, root[id])
                         /\ IsBlock(file, FirstUnit(id)) /\ file[FirstUnit(id)].next = 0
    /\ FirstUnit(id) >= Src(id)
    /\ Src(id) \in DOMAIN file =>
          SwapIsSound(file, Cleared(id, CurIdAfter(id)), Src(id), FirstUnit(id))

\* The id array after the swap that cuts the file, and after all of them.
RootAfterCut(id) ==
    LET r == Cleared(id, CurIdAfter(id))
    IN  IF Src(id) \in DOMAIN file
        THEN RootAfterSwap(file, r, Src(id), FirstUnit(id))
        ELSE RootAfterEmptySwap(r, Src(id), FirstUnit(id))
RootAfterOwn(id) ==
    IF ReadsTexts(id)
    THEN RootAfterEmptySwap(RootAfterCut(id), Src(id), root[id])
    ELSE RootAfterCut(id)

\* Mutant of CurIdsAfter: each child removed gives an id back.
CurIdsCounted(c, gone) == {c - Cardinality(gone)}

\* curId after the nodes of gone, too, are removed in some order: each of them
\* that is the last at its turn is given back.
CurIdsAfter(c, gone) == {n \in 0 .. c : n .. c - 1 \subseteq gone}

\* The children.  findByParent reads every listed node past the end of the
\* file: any of them may seem to be a child, and is removed in the same way,
\* its text pointers read as 0 or lead astray.  The first swap of them that
\* moves anything can take the entry of id 0 with it.
RemoveChildren(gone, r, src, c) ==
    LET moved == {r[n] : n \in gone} \ {src}
    IN  /\ \A n \in gone : r[n] >= src
        /\ curId' \in CurIdsAfter(c, gone)
        /\ ArrUnits(curId') = ArrUnits(c)
        /\ \E dest \in IF moved = {} THEN {src} ELSE moved :
              root' = [i \in DOMAIN r |->
                         IF i \in gone THEN 0 ELSE IF i = 0 /\ r[i] = src THEN dest ELSE r[i]]

\* A unit not meant is met: a text pointer read from nowhere, an entry that
\* leads into the id array, or a unit the array gave up when it became shorter.
RemovesAstray(id) ==
    LET c    == CurIdAfter(id)
        rest == Live \ {id}
    IN  \/ ~ FindsUnits(id)
        \/ NText > 1 \/ (NText = 1 /\ ~ ReadsTexts(id))
        \/ rest # {} /\ NText > 0
        \/ FindsUnits(id) /\ \E n \in rest : RootAfterOwn(id)[n] < Src(id)
        \/ \E n \in CurIdsAfter(c, rest) : ArrUnits(n) < ArrUnits(c)

\* removeFromIdArray zeroes the entry of the id and gives it back when it is
\* the last; the units and the children follow.
RemoveListed(id) ==
    \/ /\ FindsUnits(id)
       /\ file' = CutAt(CurIdAfter(id))
       /\ \E gone \in SUBSET (Live \ {id}) :
             RemoveChildren(gone, RootAfterOwn(id), Src(id), CurIdAfter(id))
       /\ UNCHANGED wild
    \/ RemovesAstray(id) /\ GoWild

\* removeNode.  An entry of zero is reported as a failure.  Nothing compares
\* the id with curId: past it the entry is a heap word, past the array there
\* is none.
RemoveNode(id) ==
    /\ ~ wild
    /\ \/ id \in Live /\ RemoveListed(id)
       \/ id \notin Live /\ (id \in DOMAIN root => root[id] # 0) /\ GoWild

----------------------------------------------------------------------------

Init ==
    /\ file = <<IdsUnit>>
    /\ root = [i \in Entries(0) |-> 0]
    /\ curId = 0
    /\ wild = FALSE

Adds == \E parent \in Parents, text \in [TextFields -> Given], num \in [NumFields -> Scalars] :
            AddNode(parent, text, num)

\* Loading a file, adding nodes and updating scalar fields of listed nodes.
LoadNext ==
    \/ Adds
    \/ \E id \in Live, field \in NumFields, value \in Scalars : UpdateNum(id, field, value)

\* Every operation, with any id.
Next ==
    \/ Adds
    \/ \E id \in 0 .. MaxIds, field \in NumFields, value \in Scalars : UpdateNum(id, field, value)
    \/ \E id \in 0 .. MaxIds, field \in TextFields : UpdateText(id, field)
    \/ \E id \in 0 .. MaxIds : RemoveNode(id)

LoadSpec == Init /\ [][LoadNext]_vars
Spec     == Init /\ [][Next]_vars

----------------------------------------------------------------------------
(* Properties *)

\* The next node's array unit exists: readTreeSchema never reads the id array
\* past the end of the file, whatever was removed before.
SchemaInFile == Len(file) >= ArrUnits(curId)

\* Where the array is full the unit after it is there to be overwritten.
Reserved(p) == curId = K * ArrUnits(curId) /\ p = FirstNode(curId)

NodeUnits == FirstNode(curId) .. Len(file)

\* Every id given out leads to a tuple that carries this id (addNode,
\* appendToIdArray, swapNode), even after that tuple moved.
RootLeadsHome ==
    \A i \in 0 .. curId - 1 :
        /\ root[i] \in NodeUnits
        /\ file[root[i]].kind = "tuple" /\ file[root[i]].id = i

\* A tuple's texts lead to blocks of its own, each linked back to the tuple:
\* what swapNode relies on to move either (linkSton, swapNode).
TextsLinkBack ==
    \A i \in 0 .. curId - 1 : \A j \in TextFields :
        LET b == file[root[i]].text[j]
        IN  /\ b \in NodeUnits
            /\ file[b].kind = "block" /\ file[b].prev = root[i] /\ file[b].next = 0
            /\ \A h \in TextFields : file[root[i]].text[h] = b => h = j

\* The unit the array grows over next holds nothing of a node, and it exists.
ReservedIsFree ==
    curId = K * ArrUnits(curId) =>
        /\ FirstNode(curId) \in NodeUnits
        /\ \A i \in 0 .. curId - 1 :
              /\ root[i] # FirstNode(curId)
              /\ \A j \in TextFields : file[root[i]].text[j] # FirstNode(curId)

\* No unit is lost: after the id array each one but the reserved one is the
\* tuple of a listed node or a text of one.
NoUnitLost ==
    \A p \in NodeUnits : ~ Reserved(p) =>
        \E i \in 0 .. curId - 1 : root[i] = p \/ \E j \in TextFields : file[root[i]].text[j] = p

\* No offset followed while loading leads astray.
NeverWild == ~ wild

LoadInv == TypeOK /\ SchemaInFile /\ RootLeadsHome /\ TextsLinkBack /\ ReservedIsFree
             /\ NoUnitLost /\ NeverWild

\* What getNode reads of a listed node (readStringFromNode for its texts).
Stored(i) == root[i] \in DOMAIN file /\ file[root[i]].kind = "tuple" /\ file[root[i]].id = i
NodeOf(i) ==
    LET t == file[root[i]]
    IN  [parent |-> t.parent,
         text   |-> [j \in TextFields |-> file[t.text[j]].text],
         num    |-> t.num]

\* The file as the tree the help text promises, and its ids as the allocator.
Tree == INSTANCE NodeTree WITH nodes <- [i \in Live |-> NodeOf(i)], nextId <- curId
Ids  == INSTANCE IdAllocator WITH live <- Live, next <- curId

\* What each call does to the tree, for the arguments it was given.
CallsDoTheSame ==
    \/ \E parent \in Parents, text \in [TextFields -> Given], num \in [NumFields -> Scalars] :
          /\ AddNode(parent, text, num)
          /\ Tree!Insert([parent |-> parent, text |-> text, num |-> num])
    \/ \E id \in Live, field \in NumFields, value \in Scalars :
          UpdateNum(id, field, value) /\ Tree!UpdateNum(id, field, value)

\* Loading implements the tree of the help text, call by call: a new node is
\* there under the next id with the parent, texts and scalars of that call, a
\* scalar update changes that value alone and to what was asked, and no growth
\* of the id array changes any node (addNode, updateNode, appendToIdArray).
TreeSpec == Tree!Spec /\ [][CallsDoTheSame]_vars

\* As long as no offset leads astray the id array gives ids out and takes them
\* back as IdAllocator says: a removal lists nothing, and of the ids it unlists,
\* the node's and those of its children, it gives back the ones that are last
\* at their turn and no other (appendToIdArray, removeFromIdArray, removeNode,
\* swapNode).
IdsSpec == Ids!Spec

\* "Remove node recursively (with all node's children)": the nodes outside the
\* removed subtree stay as they are (removeNode, swapLastNode).
RemoveTakesOnlySubtree ==
    [][(\A n \in Live : Stored(n)) /\ ~ wild' /\ ~ Live \subseteq Live' =>
         \E id \in Live \ Live' :
            \A n \in Live \ Tree!Subtree(id) : Stored(n)' /\ (NodeOf(n))' = NodeOf(n)]_vars

\* "Add node to tree": adding a node changes no other one (appendToIdArray,
\* swapNode).
AddKeepsOthers ==
    [][curId' = curId + 1 => \A n \in Live : (NodeOf(n))' = NodeOf(n)]_vars
=============================================================================
