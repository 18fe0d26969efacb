# A verification model of the tree storage

The repository (LLP_base3) is a small database for trees of nodes. A client
parses statements in the style of the Mongo shell, turns each into a protobuf
message and sends it over one TCP connection; the server finds, inserts, updates
or deletes nodes in one file and answers with text. The server program can also
fill a new file from a text file, and has an interactive mode with text commands.
This directory holds TLA+ modules translated from that code, TLC configurations
that check them on small instances, and proofs checked by TLAPS.

Paths below are relative to `src/`.

## 1. The system

| Part | Code | State | Operations | Modelled by |
|---|---|---|---|---|
| Tree file | `storage/StorageFileInnerAPI`, `storage/DataFileAPI`, `storage/OSFileAPI`, `storage/tree_node`, `storage/tree_schema` | the file; the id array and `curId`, read again from it by every call | `addNode`, `updateNode`, `removeNode`, `getNode`, and below them `appendToIdArray`, `removeFromIdArray`, `swapNode`, `swapLastNode`, `changeStrNode` | `TreeFile` |
| Query handler | `storage/handler.c`, the first half of `storage/StorageFilePublicAPI/storageFilePublic.c` | the result list being worked off, the response text | `handleQuery`: receive, delete, insert, update | `QueryHandler` |
| Query builder | `analyzer/main.y`, `analyzer/rules.lex`, `analyzer/include/query.h` | the globals `query` (two lists), `cmp` (a list used as a stack), the parser's own state | the grammar's actions, `parseQuery`, `sendData` | `QueryBuilder` |
| Session | `server.c`, `sendData` in `analyzer/main.y`, `analyzer/common.c` | the connection, what of a message was read, what of an answer is still to be sent | send a query, receive it, send the packets of an answer, show them | `Session`, `Service` |
| Message format | `pblib/message.proto`, `message.pb.h` | none | the fields, rules, types and sizes of the messages | `Message`, `Talk` |
| nanopb | `pblib/nanopb/pb_encode.c`, `pb_decode.c`, `pb_common.c` (vendored) | streams inside streams; the iterator over a message's fields | `pb_encode_delimited`, `pb_decode_delimited`, `pb_field_iter_*` | `Encoder`, `Wire`, `FieldIter` |
| Text commands | second half of `storageFilePublic.c`, `UserAPI/InteractiveMode`, `storage/Utils/sstring.c` | the words of the line last read; the update being made | `start`, `storageInsertNode`, `storageUpdateNode`, `storageDeleteNode`, `storageRetriveNode` | `Commands` |
| Loader | `storage/Utils/parser.c` | the line being read | `parseFile`: one `storageInsertNode` per line | `Commands` |
| File creation | `initialize`, `initFile`, `storage/Utils/initializer.c` | none | write the head and an empty id array | `TreeFile!Init`; the dialogue is input and output only |
| Build files and data | CMake, generated code, reports | none | none | nothing that runs |

How they interact. The client's parser calls the builder's functions as it reduces
rules; the last bracket of a statement calls `sendData`, which sends one message
and waits for the whole answer. The server handles one connection and one query
at a time; `handleQuery` calls the search and then, node by node, the file
functions. The text commands and the loader call the same file functions; the
server fills a file before it listens, and never calls `start`. Nothing runs
concurrently inside either program: the hard behaviour is in long sequences of
calls, in pointers (file offsets) that must follow what they point to, in
operations made of many steps, in state that survives a statement which failed,
and, between the two programs, in a connection that fills up, is cut or ends.

### The file, and what is hard about it

After a head, the file is a row of equal *units*. The first ones hold the id
array (entry *i* is the offset of node *i*'s tuple, 0 when it was removed); all
others hold a *tuple* (a node, with one word per field) or a *block* (the text of
a STRING field). A tuple points to its blocks, and a block back to its tuple.
When the id array needs one more unit, the first unit behind it is moved to the
end of the file, whatever it holds, and everybody that points to it must be told.
To recognise what the unit holds, the code looks whether the id array leads back
to it. Room is made one entry *before* the array is full, and for exactly one id
after that the program writes behind the array it has read.

What makes it correct:
- every id given out leads to the tuple with that id; a tuple's texts lead to
  blocks of its own and these back to it; no unit is lost; the unit the array
  grows over holds nothing of a node;
- a node reads as it was given, whatever is added afterwards;
- ids are given out in order, and only the last one is given back;
- the id array never reaches past the end of the file;
- a removal takes the node and its children, nothing else (it does not: section 5),
  and gives back only ids that are last when their turn comes.

### The query handler, and what is hard about it

A search counts points: each filter has one for every comparator and loses one
for each that fails; a node is found when every filter keeps one. An update or
delete first makes the result list and then changes one node after another, so
what it finds must not depend on what it changes, and a setting that is refused
half way leaves nodes partly changed. What makes it correct: an answer names
exactly the nodes that are meant; a field holds what it was last given; an update
of several nodes is one update; a delete answers for each node; a loop over a
result list ends.

### The query builder, and what is hard about it

The grammar is right-recursive, so the filters of a statement are reduced from the
last to the first, out of a stack (`cmp`) that `$or` also uses. A statement that
breaks off leaves what it had built in `query` and `cmp`; `main` calls the parser
again, which drops tokens up to the next `STORAGE`. What makes it correct: a
message is what was typed, in that order, and nothing else.

### The session, and what is hard about it

An answer of any length goes out in packets of 1023 characters, and only the last
one is marked; the client prints packets until the mark. Nothing numbers
statements, answers or packets. A full connection makes the sender wait; either
program can be killed between any two packets; a client that fails to decode
goes on to the next statement on the same connection. What makes it correct: an
answer is shown whole and for its own statement; no packet of one answer is left
to be read as another's; a statement is performed once and as it was asked;
neither side waits for ever (both do after a statement that cannot be encoded: section 5).

### Messages and their decoder, and what is hard about them

A message announces its length, and so does every submessage in it. The decoder
keeps a stream inside a stream for each, with its own `bytes_left`, and an error
must close all of them in order, so that the connection is at the start of the
next message. Numbers come in groups of seven bits into 32 or 64, which are no
multiple of seven: the last group may hold less. Repeated fields and strings have
fixed places in a struct. The program's own stream callback plays a part in all
that: at the end of the input it sets `bytes_left` of the stream it was called
with to 0. What makes it correct: what fits is accepted as it was meant, what does
not is refused, no array or string of a struct is overrun, each frame ends where
the next begins, and a message broken off is not performed (it may be: section 5).

The decoder looks up each field's tag with an iterator which goes around the
descriptor from where it stands, counting words, required fields and submessages
on the way; each count is an index into another table. What makes it correct:
the counts always belong to the field; a search finds the field with the tag if
there is one, and ends.

### Text commands and the loader, and what is hard about them

Words are counted by spaces but taken by `strtok`, which skips empty ones, so
the count can name words that are not there. A number goes through `atoi` in some
commands and through `strtol` in others. A line that is refused takes no id, so all
later lines of a text file have smaller ids than their numbers, while the file
names parents by id. An update takes one word after the other and stops at the
first it cannot use. At the end of the input the loop of `start` goes on with the
line it has, of which `strtok` has left the first word, and `split` counts the spaces
before that word again. What makes it correct: a file's right lines are its nodes, in
order; a field holds what was last typed for it; a search finds what was given; the end
of the input does nothing (behind some lines it does: section 5).

## 2. The modules

```
IdAllocator   NodeTree            abstract: ids; a tree of nodes
     \           /
      TreeFile                    the file (implements both)
      /        \
QueryHandler  Commands            the server's queries; text commands and loader

QueryBuilder                      the client's parser and lists
Service <- Session                a client and a server on one connection
Message <- Encoder, Wire <- Talk  bytes of a message, what is made of them, and both
FieldIter                         the iterator the decoder uses
```

`QueryHandler` and `Commands` EXTEND `TreeFile` and take its actions as their
calls. The others meet at the message: `QueryBuilder` sends it, `Wire` says what
the server makes of its bytes, `Session` moves it part by part, `QueryHandler`
performs it.

### `IdAllocator`, `NodeTree`: what the file promises

`IdAllocator` is the abstract id array: `Append` gives out the next id; `Release`
unlists a node and others with it (its children, as far as the code finds them), one
after another, and gives back each that is the last at its turn. `NodeTree` is the tree
of the interactive help (`add`, `update`, `remove` with all children): nodes with a
parent, texts and scalars. That its `Insert` and `UpdateNum` happen with the values of
the *call* is the second half of `TreeSpec` (`CallsDoTheSame`).

### `TreeFile`: the tree file

| TLA+ | Code |
|---|---|
| `file` | the units; an offset is a unit's number from 1, and 0 the offset 0 used for "none" |
| `root`, `curId` | `treeSchema.id` and `treeMeta.curId`, as `readTreeSchema` would read them now |
| `wild` | not in the code, see below |
| `AddNode` | `addNode`: `insertNodeStr` for each text, `insertNode`, `linkSton`, `appendToIdArray`, in its three cases `AddInPlace`, `AddGrowing` (the array makes room and `swapNode` moves a unit), `AddCrossing` (the entry behind the array is written) |
| `UpdateNum`, `UpdateText` | `updateNode` with `updateTuple` or `changeStrNode` |
| `RemoveNode` | `removeNode`: `removeFromIdArray`, then `swapLastNode` and `ftruncate` for the texts and the tuple (`FindsUnits`, `RootAfterOwn`, `CutAt`) and, recursively, the children (`RemoveChildren`) |
| `Init` | `createEmptyTreeSchema` |

`wild` becomes TRUE when the program follows an offset to a unit it did not mean,
or uses memory it never wrote. What happens then depends on bytes the model does
not have (often a crash or an endless loop), so no action is enabled after it. It is
not a way to hide errors: `NeverWild` says that loading never gets there, and the
proofs about removal hold up to and including that step.

In a removal both outcomes are possible more often than not. After its first `ftruncate`
the file has no node unit left, and `findByParent` reads every listed node behind the end
of the file, so what it sees is memory that was never written: any set of the listed nodes
may be taken for children. Each is removed in the same way, and one that is the last at its
turn gives its id back (`CurIdsAfter`); the text offsets read for it may be 0, which ends the
loop over its blocks, or lead anywhere (`RemovesAstray`). Queries that delete several nodes
do both: in the run `damage` some removals of a second node come to their end, some find it
already removed with the first, and some go astray.

`LoadSpec` has the operations that are sound together: adding nodes and updating
scalar fields of listed nodes. `Spec` has all of them, with any id.

### `QueryHandler`: the query handler, on top of `TreeFile`

One step is one call into the file. `query`, `left` (ids of the result list),
`at` (next setting) and `reply` are `handleQuery`'s locals; `asked` and `before`
are history variables for the properties. `Receive`, `Search` and `Insert` take a
query; `ApplySetting`, `RefuseSetting`, `FinishUpdate` and `DeleteNode` are the
turns of the loops. The response is kept as the set of its lines, each with
the node and the verdict it names; order, wording and field values in it are left
out (that they are the stored ones is `StoredAsAsked`).

### `Commands`: text commands and the loader, on top of `TreeFile`

`mode` says which loop runs: `parseFile` ("loading"), `start` ("reading"), the
loop of `storageUpdateNode` ("updating"). A line is the words `strtok` finds and
the number `split` returns, which may be larger. A word is its number of parts
at `=`, its key, and its literal: what `atoi`, `strtol`, `strtod` and the
comparison with "True" make of it. `LoadLine` and `EndOfFile` are `parseFile`;
`ReadLine` obeys one line (`Add`, `Update`, `Remove`, `FindBy`, `ListNodes`,
`Exit`), `UpdateField` and `EndUpdate` are the turns of an update. `ReadAgain` is
the turn of the loop behind the end of the input: the line has been cut behind its
first word by then, but spaces before that word (`lead`) are counted once more. A number
goes through `Strtol`, which stops at the largest long, in an insert, and is cut to an int
in an update. `given` (what was typed for each node) and `sound` (no command
with a known fault was used) are history.

### `QueryBuilder`: the client's parser and lists

A step is what the parser does between two tokens it has to wait for. `filters`,
`settings` and `cmp` are the globals; `at`, `commas` and `ors` are the parser's
own stack, as far as it matters. `SyntaxError` may happen at every point; after a
complete filter the parser's default reduction takes the filters off `cmp` before
it reports the error, elsewhere it does not. `typed` and `stale` are history
variables: what this statement said, and what was left when it began.

### `Service`, `Session`: one client, one server, one connection

`Service` is the promise: statements are asked one at a time, each is performed
at most once and as it was asked, and what is shown is its own answer, whole; only
a client that is gone may have its last statement performed without its last parts.

`Session` has the client (`client`, `unsent`, `printed`), the two directions of the
connection, and the server (`server`, `taken`, `res`). `Ask` is a statement typed; when
it cannot be encoded (not in `Encodable`: more than 20 filters or settings, or a text
without its end) nothing is sent and the client waits all the same. `Send` is
a call of nanopb's encoder to `send`, `ShowPacket` a turn of `sendData`'s
loop, `GiveUp` its return when decoding fails, which it does when the server has died
and nothing is left on the connection. `Receive` and `InputEnds` are
`pb_decode_delimited` in `server.c`; `Answer` is a turn of the loop that cuts
`res` into packets. `ClientDies` and `ServerDies` may come between any two. A
statement is a sequence of parts behind a head with their number, an answer a
sequence of characters; what single bytes do is `Wire`'s.

### `Message`, `Encoder`, `Wire`, `Talk`: the bytes of a message

`Message` is `message.proto`: for each message the rule and type of its fields, and
the sizes generated for them. `Encoder` makes the bytes (`Delimited`): messages nest four
deep, so `InQuery`, `InFilter` and `InComparator` stand for the calls of
`pb_encode_submessage` inside each other, and a pair has only scalars (`InPair`). `Talk` says what this program's sender puts on a
connection: messages that fit their structs (`ValuesOf`), each sent by
`pb_encode_delimited`, one behind the other, up to any byte (`IsTalk`). `Encoder` and
`Wire` use no recursive operator (a number is taken apart and put together by recursive
functions), so both can be proved about. `Wire` is the server decoding: `stack` is the
nest of streams with what each may still read (`left`), which required fields it has seen
and the struct being filled; a step reads one field or closes one stream. Reading a varint, a
string, a length or skipping an unknown field are functions of the stream, with the
end of the input as the program's own callback treats it. The actions are
disjuncts of `pb_decode_inner`: `ReadField`, `OpenSubmessage`, `EndMessage`,
`SkipUnknown`, and the refusals `BadTag`, `BadField`; `Unwind` closes the streams
around an error.

### `FieldIter`: the iterator over a message's fields

`index`, `info`, `required`, `submessage` and `tag` are `pb_field_iter_t`'s
counters; `Step` is `pb_field_iter_next`, `Find` the beginning of
`pb_field_iter_find` and `Look` a turn of its loop.

### Modules for TLC and for proofs

`MCTreeFile`, `MCQueryHandler`, `MCQueryBuilder`, `MCCommands`, `MCSession`, `MCWire`
and `MCFieldIter` give the constants values: texts, comparators and settings as
model values, the queries, lines, files, talks and descriptors of each run.
`MCWire` also has TLC check that its own talks are `IsTalk` (`OwnTalks`), so that the
theorems with that hypothesis speak of them.
`*_proofs` hold theorems: `TreeFile_proofs` (types, the array inside the file, refinement
of `IdAllocator`, loading is sound and implements `NodeTree`), `QueryHandler_proofs`,
`Commands_proofs`, `QueryBuilder_proofs`, `Session_proofs`, `Wire_proofs` (the decoder,
whatever arrives), `Talk_proofs` (the encoder and the decoder together), `FieldIter_proofs`.

## 3. The runs

"pass" runs finish without an error; "violation" runs check one statement of the
repository which the code does not keep (section 5).

| Run | Question | Bounds |
|---|---|---|
| `load` | Do offsets, links and values survive growths of the id array? Does loading implement `NodeTree`, call by call? | one text, one scalar; parent 1; K = 3, 7 nodes: two growths and two crossings |
| `queries` | Are answers, updates and inserts right on a file that grows? Does every query end? | one text, an INT and a BOOL; 7 searches, 5 inserts, 3 updates; 4 nodes, K = 3 |
| `damage` | Deletes, text updates, search by id and unset fields, up to where an offset leads astray: ids and answers | one text, one INT; deletes of one, two and three nodes; 4 nodes, K = 3 |
| `commands` | Do a text file and typed lines, right and wrong, become the nodes they say? | two texts, an INT and a BOOL; K = 2, 4 nodes; 14 files of up to 3 lines, 4 typed lines of 26; an int has 8 values, a long and a word 32 |
| `broken` | Statements that break off anywhere: what does a message hold, and what stays behind? | 2 comparators, 2 settings (symmetric); 2 filters with one level of `$or`, 2 settings; 2 leftovers per list |
| `wire` | What does the server make of bytes: right, foreign, broken off? | 2 places per array, strings of 2 bytes, an int of 11 bits, a long of 22 |
| `fields` | Do the iterator's counts belong to its field; are searches right and do they end? | descriptors of up to 4 fields of 1 to 8 words, tags that agree in their low six bits |
| `session` | Is every answer whole and its statement's own, does nobody wait for ever? | 3 statements of 0 or 2 parts, or of 3, which is too many to be encoded; answers of 0 to 5 characters, packets of 2, room for 2 |
| `remove`, `cut_units`, `no_results`, `eof` | section 5 | as small as the case allows |

Why the bounds are enough. `K` is 34 in the program for templates of up to 32
fields (unit size / 8); all the code does with it is compare `curId` with multiples of
it. K = 2 is the smallest size for which "one entry left" and "array full" differ,
and K = 3 the smallest for which a unit also sees an ordinary insert in between.
In `load` the growths move a text of node 0 and then its tuple, in `commands` a text
of a node with two: the right field must follow. More nodes repeat this, and for
`LoadSpec` the proofs cover every size and template. No run has a template without
STRING fields; the proofs include it. `Garbage` holds the heap words that may land
in the id array behind the entry just written: 0, which hides nothing, and 7, which
looks like an offset; `commands` has only 0.

`MaxStale` bounds what broken statements leave: two entries are enough for one
that is taken by mistake and one below it; the proofs have no such bound. In
`broken` comparators and settings are symmetric sets: no property of that run names
one of them, none is a liveness property.

In `commands` 9 is a number that fits a long and not an int, so every place
where the two conversions differ is met; 40 is larger than the largest long, 15, and is given
as a value and as a parent. Lines have up to five spaces before their first word, or are empty, or
nothing but spaces. `queries` and `damage` have no numbers wider
than an int: a message's integer is 64 bits, as a field is.

In `wire` the widths are scaled so that they end at the same place in a group of
seven bits as 32 and 64 do (4 bits into the second group, 1 bit into the fourth); the
numbers are those around the ends of groups and widths, of both signs. Every talk is
broken off after every byte. Foreign messages are all sequences of up to three of 17
parts: known, unknown, repeated, missing, oversized, of a wrong type. Three parts
are one more than an array has places.

In `session` answers have 0, 1 or 2 full packets and one character more or less; a
packet more than the room makes the server wait while the client shows.
Statements of no and of two parts suffice for a message to be cut behind its head and
between parts. The proofs have neither bound.

What the models leave out on purpose:
- A text fills at most one block and is not empty. A text is updated at most once
  in `UpdateText` (`file[p].next = 0`).
- `LastNums` and `LastTexts` are the fields in the last 16 bytes of a unit; with fewer than
  31 fields there are none. `Cut` says what a text loses with its last 16 bytes:
  nothing, if it is short. Only `cut_units` has such scalars and texts; no run has a
  STRING field there, and the theorems about loading exclude it.
- `MaxIds`, `MaxQueries` and `MaxLines` bound how many ids are given out, statements
  asked and lines typed.
- `QueryHandler` has one query at a time, as `server.c` does.

Deadlock is not checked where the system may stop: where a `wild` state ends the
model (`queries`, `damage`, `remove`), after `exit` or MaxLines lines (`commands`),
when the server has refused a message or the input has ended (`wire`, `eof`), and
when both programs are gone (`session`).

### Fairness

- `HandlerSpec`: weak fairness of `Proceed`, the turns of the loops over a result
  list. `handleQuery` runs to its end without waiting for anybody. Queries need not
  come. `QueryEnds` rests on it.
- `Session`: weak fairness of `ClientStep` and `ServerStep`: a program that can go on
  does. A call of `send` waits only for room, one of `recv` only for bytes or the
  end of the connection; the operating system delivers both. Nobody has to ask, and
  nobody has to die, so `StatementsEnd` and `ServerEnds` hold with and without.
- `FieldIter`: weak fairness of `Look`, a turn of a loop without calls that wait.

All other specifications are checked for safety only.

## 4. What is proved

All theorems hold for every value of the constants that satisfies the named
ASSUMEs of the modules: every unit size `K >= 2`, template, set of texts, scalars
and heap words; every set of queries, text files and lines; every length of
statements, depth of `$or` and number of leftovers; every packet size and room;
every descriptor. The bounds named above are constants too and may be any number.

**The tree file.**
- `TypeCorrect`, `SchemaAlwaysInFile` (`TreeFile_proofs`): `Spec => []TypeOK` and
  `Spec => []SchemaInFile`, for all operations with any id. The two need each
  other: `removeNode` cuts the file at the end of the array that the *new* curId
  asks for, which keeps the file a sequence of units only if that array lies in
  it; and the array lies in it after `addNode` only because the units appended
  are at least as many as it grows by. So `SafeInv == TypeOK /\ SchemaInFile` is
  the inductive invariant, with one lemma per operation. `UnitsBound`,
  `UnitsStep` and `GrowDueExactly` are the arithmetic of `getIdArraySize`.
- `LoadingIsSafe` (`TreeFile_proofs`): `LoadSpec => []LoadInv`, the
  conjunction of `RootLeadsHome`, `TextsLinkBack`, `ReservedIsFree`, `NoUnitLost`
  and `NeverWild` with `SafeInv`; a theorem for each follows. All assume `LinksKept`: no
  STRING field of the template lies in the last 16 bytes of a unit, which is so for every
  template of up to 30 fields, and for longer ones that end in two scalars. `swapNode` does not
  copy these bytes, so a tuple with a STRING there loses its text when it moves, and all five
  properties fail. An `addNode` that grows the
  array passes through files that satisfy none of these as they stand, because the unit
  that was moved is still there. The proof therefore speaks of the *shape* of a
  file from a unit `lo` on with some units (`hole`) left out: appending, moving a
  tuple, moving a block, and growing over a hole each keep a shape
  (`AppendedShape`, `TupleMovedShape`, `BlockMovedShape`, `CrossedShape`), and
  `AddNodeLoaded` chains them. `LoadedIsLoadInv` says that the shape of the
  current file is `LoadInv`.
- `LoadingIsATree` (`TreeFile_proofs`): `LoadSpec => TreeSpec`, assuming
  `NothingCut` (the last bytes of units, which `swapNode` does not copy, hold
  nothing; the run `cut_units` shows what happens otherwise). `TreeSpec` is two things: the file
  refines `NodeTree`, and each call of `AddNode` or `UpdateNum` is `NodeTree`'s operation
  *with the arguments of that call* (`CallsDoTheSame`), so what a new node holds is stated.
  Each of the file operations above, besides keeping a shape, keeps what every node reads as (`NodeAt`):
  `AppendedNodes`, `TupleMovedNodes`, `BlockMovedNodes`, `CrossedNodes`. `GrowingMoves`
  says that the unit `appendToIdArray` moves is always a listed node's tuple or text.
- `IdsRefined` (`TreeFile_proofs`): `Spec => IdsSpec`. Whatever a removal does
  to the rest of the file and whichever nodes it takes for children, it lists none, unlists
  the node it was asked for, and gives back only ids that are last at their turn. The step
  that goes astray leaves the ids as they are in the model, so the theorem says nothing of what
  the program does from there on. `SafeInv` is enough.

**What is built on it, whatever is sent and typed.** `QueriesKeepSchema`,
`QueriesKeepIds`, `HandlerTypeCorrect` (`QueryHandler_proofs`), `CommandsKeepSchema`,
`CommandsKeepIds`, `CommandsTypeCorrect` (`Commands_proofs`): under all queries, and
under all text files and typed lines, `SchemaInFile` and `IdsSpec` still hold, and the
loops keep to ids that were given out and to words and settings that are there. Every
step of either specification either leaves the file alone, goes astray, or is one call of
`AddNode`, `UpdateNum`, `UpdateText` or `RemoveNode` with arguments of the right sets
(`FileCall`); for the latter the lemmas of the tree file are used again. The work is in
showing that the arguments have the right sets: for an insert that takes the *last* setting
for each field, that a last one exists (`HasGreatest`); and `QueryAssumption` and
`LineAssumption` say that queries and lines are finite and hold nothing the template's sets
do not. Three more properties need nothing of what was done to the file before:
- `ReceivesAnswerWhatIsMeant`: the search counts points and leaves a filter list at the
  first filter without one; `Answer`, the reference, is stated on the tree of nodes. That a
  filter keeps a point exactly if not all of its comparators fail is `ValidIs`, for
  filters of any length; the search compares units and the reference nodes, which
  agree because every unit looked at is a tuple when nothing goes astray.
- `DeletesAnswerForAll`: `DeletedSoFar` is the loop invariant, that every chosen node
  is either left to be done or both reported, as removed or as already removed and
  never as both, and not listed.
- `EndedInputChangesNothing`: what the line has become behind the end of the input is
  too short for every command that changes the file. It speaks of lines that begin with their
  first word (`EndsWell`): behind leading spaces the count is larger and `remove`
  takes a word nobody wrote. It also excludes `update` and `find_by`, which use such words
  even so.

**What is built on it, while files are only loaded.** `LoadsAreStoredAsAsked`,
`LoadsAreFoundAgain`, `UpdatesAreOne`, `TypedIsStored`, `TypedIsFound`,
`RightLinesAreLoaded`. These say that fields hold, and searches find, what was given; that
is false after a removal or an update of a text (section 5), so they have hypotheses, each
of which the run that checks the property satisfies:
- `NothingCut`, as above: what the growth of the id array does not copy is empty. `UpdatesAreOne`
  needs only `LinksKept`, because an update moves no unit.
- `OnlyLoads` (`QueryHandler_proofs`): no query is a delete, none updates a text.
  For `Commands` no such hypothesis is needed, the properties themselves speak of the time
  before the first such command (`sound`).
- No FLOAT field, in `LoadsAreFoundAgain` alone: a FLOAT is compared with the wrong member
  of the message (section 5).

The inductive invariant is, for both, that the file is `Loaded` (the shape from
`TreeFile_proofs`) until something goes astray, and that each node's fields show what
was last given (`AskedInv`, `TypedInv`). `AddNodeGives` and `UpdateNumNodes` say what
either call leaves of all other nodes, whichever unit moved. In `UpdatesAreOne` the loop
invariant `UpdatedSoFar` splits the chosen nodes into those done, which have all settings up
to the first refused one, the one being worked on, which has those before `at`, and those left,
which are as they were when the update arrived. `RightLinesAreLoaded` counts: `curId` is the
number of right lines read, so a line's id is the number of right ones before it.
What was typed is compared with what is stored as a long keeps it (`AsLong`): a number that
is too large is the largest long, in a field as in a parent.

**The query builder** (`QueryBuilder_proofs`).
- `TypeCorrect`, `CmpStaysStack`, `MessagesLeaveNothing`: at any depth of `$or`, the
  top of `cmp` is always this statement's comparators, in the order the parser will
  take them, and below them lies what broken statements left, untouched; a message
  takes everything else with it. `BuilderInv` adds to the three what the parser's place
  says about its own stack: without it `CloseOr` and `EndFilters` could take an entry
  too many.
- `SentIsTyped`: with `$or` not nested (`OrDepth` 0 or 1), a message is what was typed,
  in that order, followed by leftovers. `MeaningInv` says what each entry of `cmp` will
  become. With deeper nesting the property is false: section 5.

**The session** (`Session_proofs`).
- `TypeCorrect`, `NothingIsLeft`, `SessionServes`: `Spec => ServiceSpec`. The inductive
  invariant `SessionInv` says where the parts of a statement and the characters of an
  answer are. Until a statement is performed, what the server has taken, what is on the
  connection and what is unsent are, in this order, the message; afterwards, what is
  printed, the packets on the way and `res` are the answer, and only the packet with which
  it ends is marked. It is stated by where each packet begins and ends in the answer,
  so that no step of the proof has to unfold the fold that joins them.
- `AnswersAreWhole`: `PiecesMakeTheAnswer`, which does join packets. It follows from
  `SessionInv` by an argument along the packets: the first `i` of them, joined to what was
  printed, are the answer's characters up to where packet `i` ends (`JoinedOneByOne`,
  `EndComes`, `EndStep`).

**The decoder** (`Wire_proofs`), for every width, chunk and size. The fields of the
messages are those of `Message`.
- `WireTypeCorrect`, `DecodedFits`: nothing is assumed of what arrives but that it is
  bytes. `DecoderInv` says that each frame's message is the one its field in the frame
  around it announces and that its struct has that message's shape with arrays and strings
  within their bounds; so a value stored at `EndMessage` fits the place it is stored in,
  although its frame and the one around it were filled at different times.
- `MessagesStayApart`: `FramesMeetTheEnd`. It assumes that messages come as
  `pb_encode_delimited` sends them: `FramingAssumption` says of an input that is whole that
  where a message ends there is nothing, or a length that is readable and leads to the end
  of the next. What is inside the messages is arbitrary. `SyncInv` says that what is not yet
  read is the input behind some place, and that this place and the bytes the open streams own
  add up to where a message ends. The steps rest on what each reading function does to its
  stream, whether it fails or not: it takes as many bytes from the input as from `bytes_left`
  (`Moved`), which is so only as long as the stream ends before the input (`Fed`). That no
  stream meets the end of the input before its own end follows from the sum.

**Encoder and decoder together** (`Talk_proofs`), for every width, chunk, size of arrays
and strings, number and length of messages, and every byte after which the sender may die.
- `TakesVarint`: what `pb_encode_varint` makes of a number, `pb_decode_varint32` or
  `pb_decode_varint` reads as that number, and takes no byte behind it. A long is sent
  from two halves of 32 bits with one group across both; the proof brings it into the
  same form as a number sent in one go (`HalvesAre`, `FormOf`): the groups of seven bits
  that are left when the lower ones are shifted out. The decoder's check of the last group
  never fires on such a form (`NotTooBig`), a negative number included, which is sent as a
  long whatever its type (`SignedIs`).
- `TalkIsReceived`: `Spec => [](IsTalk(input) => GotWhatWasSent)`. The hypothesis is a
  predicate on the bytes of this connection, not an assumption on `Inputs`; other
  connections may carry anything. It holds of every list of messages that fit
  their structs and whose encodings are shorter than an announced length can say. It
  includes messages with no entries in a repeated field, full ones, and every value of
  the numbers.
- `TalkIsCutAtTheEnd`: the same for `CutAtTheEnd`, for the server's side
  (`Root = "Query"`; the property speaks of queries).
- The invariant is `TalkInv`: *the reader is where the sender was*. While a message is
  read there is, for each open frame, a value the sender was sending and a number of fields
  already sent (`Planned`), such that the frame's struct is what was sent so far
  (`ReadTo`), its stream owns the bytes of the fields that follow (`Rest`), and what is
  still to come is those bytes, then what the enclosing messages still have, then
  the later messages (`Coming`), or a prefix of all that when the sender died. A frame with
  an open submessage is one field behind, so its struct is described apart (`Waits`). When
  the input ends inside a message, `LastCut` takes over: the decoder believes that
  each open message ended, and what it closes is the message the sender was at, without its
  last parts (`Cut`). The steps rest on one lemma for each reading function, that it
  takes exactly what was sent for a field (`TookNumber`, `TookString`, `TookScalar`,
  `TookLength`), and on `FieldsAt` and `EncodedIs`, which say that an encoding is its
  entries in order. There is one lemma per action (`TagTalks`, `ReadFieldTalks`, `OpenTalks`,
  `EndMessageTalks`, ...); `BadTag`, `SkipUnknown` and `BadField` are shown to need a
  sender that died.
- `PowerAssumption` states a fact of arithmetic, that 2 to the power of a sum is a product;
  the provers do not know the power operator. TLC evaluates it for the widths of the runs.

**The field iterator** (`FieldIter_proofs`): `TypeCorrect`, `IndexesAlwaysAgree`,
`SearchesAreRight`, for descriptors of every size. The last needs that the part of
the circle not yet searched shrinks to nothing: `SearchIsRight` is strengthened by "no
field between `start` and `index`, going around, has the tag".

Checked by TLC only:
- what `GotWhatWasSent` says of *other* encoders' messages (`Foreign` in `MCWire`): fields in
  any order, unknown, repeated or oversized ones. What such bytes mean is said there by
  enumeration, and the theorems assume the order and the fields of this encoder;
- liveness (`QueryEnds`, `StatementsEnd`, `ServerEnds`, `SearchEnds`): out of the
  prover's reach.

## 5. Where code and words differ

Each is a run that TLC must find violated; `PROJECT.json` quotes the lines.

- `remove`: `swapLastNode` seeks to a negative offset from the *start*; the seek
  fails, and the file is cut at its first node. A removal destroys all nodes.
- `cut_units`: `swapNode` copies 16 bytes less than a unit, so adding a node can cut
  another node's text, or zero its last two fields.
- `no_results`: the search looks at as many ids as the template has fields.
- `eof`: a message that breaks off inside a filter is accepted without the rest.

Met on the way and not in a run of their own, because no line of the repository says
otherwise or because the models take them as they are:

- An update of a text stores the bytes of a pointer
  (`storageFilePublic.c:498`, `storageBaseApi.c:301`): `UpdateText` stores `Junk`.
- A FLOAT field is compared with the integer part of the message
  (`storageFilePublic.c:89`).
- Nothing stops a message at its 20 places (`main.y:170`): a statement with more
  filters or settings writes behind the array. `pb_encode_delimited` then refuses the message
  before it sends anything (`pb_encode.c:140`), `sendData` prints that and waits for an
  answer all the same (`main.y:206`-`:213`), while the server waits for a message: both for
  ever. `StatementsEnd` is therefore stated for statements in `Encodable`; `ServiceSpec` says
  that a statement outside it is never performed.
- The decoder counts an entry of a repeated field before it looks whether there is room
  (`pb_decode.c:515`), so in a message that is refused for this the count is one more than
  the array has. `Wire` leaves the count as it was; the programs do not use a refused struct.
- An update of a node that is refused half way is reported with an error code and also
  as `Updated id` (`handler.c:138`; `RefuseSetting` does so).
- `$or` inside `$or` loses a comparator, because `setComp` has one place for a connected
  one: with `OrDepth = 2` the run `broken` finds `SentIsTypedThenStale` violated.
- `find_by parent` converts the word "parent", not the id (`storageFilePublic.c:234`);
  `find_by id` goes on after it has freed the schema (`:307`-`:317`); a query's search
  by an update may compare through a pointer that was never set (`:35`).
- The loop of `start` never ends once the input has (`interactiveMode.c:183`):
  `ReadAgain`. An empty word passes for the number 0 (`sstring.c:27`), so `remove` with
  a space and nothing behind it removes node 0. A last line with a space before its first word
  is counted with that space each time (`sstring.c:10`), so ` remove 1` goes on as a `remove`
  whose second word was never written: `ReadAgain` goes astray there. Of an empty line
  nothing is left once it was obeyed, and the next turn compares a first word nobody wrote.
- A number too large for a long is stored as the largest long by an insert
  (`storageFilePublic.c:417`, the parent at `:431`) and cut to an int by an update.
- A program that sends to the other one after it has ended may be stopped by SIGPIPE.
- The report shipped with the repository ends its insert example with `)`, while the
  rule at `main.y:43` ends with `}`. `parent` is a keyword of the lexer, so no filter of
  this client can name it (the handler's search by parent is reached by other clients
  only). The server never calls `start`.

## 6. How the code was read

Some lines do not compile or plainly name the wrong thing as they stand. They are
read as what their surroundings need:
- `storageFilePublic.c:20,26,69`, `handler.c:43,84,150`, `common.c` (the include of
  `sys.socket.h`), `main.y:11,118` (`socket` is a variable and a function), `:149`,
  `:194`, `:220`, `:237` (members that are named otherwise in `query.h`), and values
  returned from void functions.
- `server.c:74,82` call `pb_decode_delimited` to send; read as encoding.
- `split` hands `strtok` the address of a single `char`; read as that separator.
- The client's memory comes from `malloc` and is never freed: taken as zero.
- On a token that does not fit, a bison parser performs default reductions
  first: so the filters read so far are reduced after a complete one.

## 7. Not modelled, and why

- Crashes of the server inside an operation on the file. The id array, the head and the
  node are written apart through a buffered stream, and `ftruncate` goes around the
  buffer (`dataFile.c:141`). What a restart meets depends on where the buffer was
  flushed; a faithful model needs the buffer, byte by byte, below `TreeFile`.
- Texts of several blocks, whose next offsets `insertNodeStr` computes from the wrong
  position (`storageBaseApi.c:175`), and a second update of a text: what they do
  depends on bytes of units, which `TreeFile` does not have.
- Of nanopb what no message of the programs has: optional and oneof fields, callbacks,
  extensions, pointers, packed arrays, bytes, bool, fixed64, signed varints.
- Lines of a text file longer than `INPUT_SIZE`, which `fgets` cuts in two (`parser.c:20`).
- Negative numbers in a search, which it compares as unsigned ones
  (`storageFilePublic.c:89`).
- Lengths of texts in C buffers (`handler.c:45`, `storageFilePublic.c:216`), the lexer,
  printing, `help`, the dialogue of `initFile`, setting up the connection.
- How many bytes a call of `send` takes: `Wire` shows that only what arrived before the
  end matters, `Session` takes whole parts.

## 8. What is left

The order of work was: tree file, query handler, query builder, session,
message format, text commands and loader, then proofs. All of these are there. Next
would come:

1. A buffered file below `TreeFile`, with crashes and restarts.
2. Units as bytes: texts of several blocks, repeated updates.
3. Proofs: the round trip for messages of other encoders, from a definition of what a
   sequence of fields means that does not enumerate them.
