---------------------------- MODULE QueryHandler ----------------------------
(***************************************************************************)
(* The server's side of a query: handleQuery of handler.c and the storage  *)
(* functions it calls (storageFindNodeByFilters, storageInsertNodeNew and  *)
(* storageUpdateNodeNew of storageFilePublic.c), on the file of TreeFile.  *)
(* One query is handled at a time.  A step is one call into the file: a    *)
(* query that updates or removes several nodes takes several of them.      *)
(*                                                                         *)
(* A field is named by a key: <<"text", j>> or <<"num", k>> for a field of *)
(* the template, ParentKey and IdKey for the two names the search knows,   *)
(* any other pair for a name that is in no template.  A value is a record  *)
(* of what the message carries: its type, valueInt (the address of the     *)
(* text in the client for a STRING), valueReal and valueString.            *)
(***************************************************************************)
EXTENDS TreeFile, FiniteSetsExt

CONSTANTS
    NumType,    \* the type of each scalar field: INT, FLOAT or BOOL
    Queries     \* the queries clients send

ParentKey == <<"parent", 0>>
IdKey     == <<"id", 0>>
TextKeys  == {"text"} \X TextFields
NumKeys   == {"num"} \X NumFields
TemplateKeys == TextKeys \cup NumKeys
TemplateSize == NText + NNum

ASSUME TypeAssumption     == NumType \in [NumFields -> {"INT", "FLOAT", "BOOL"}]
ASSUME TemplateAssumption == TemplateSize <= K

VARIABLES
    query,      \* the query being handled, or the last one
    left,       \* the ids of the result list still to be updated or removed
    at,         \* the setting the current node is to get next
    reply,      \* what the response says so far
    asked,      \* history: per id and key, the value the node was last given
    before      \* history: the stored nodes when the query arrived
service == <<query, left, at, reply>>
history == <<asked, before>>
allVars == <<vars, service, history>>

----------------------------------------------------------------------------
(* Values *)

\* storageInsertNodeNew, storageUpdateNodeNew: the values a field takes.  A
\* BOOL field looks at the number alone, whatever the type of the value.
Fits(key, value) ==
    \/ key \in TextKeys /\ value.type = "STRING"
    \/ /\ key \in NumKeys
       /\ \/ NumType[key[2]] = "BOOL" /\ value.int \in {0, 1}
          \/ NumType[key[2]] \in {"INT", "FLOAT"} /\ value.type = NumType[key[2]]

Accepted(setting) == setting.key \in TemplateKeys /\ Fits(setting.key, setting.value)

\* Mutant of Word: valueReal is stored whatever the type.
WordReal(key, value) == value.real

\* The word a scalar field stores.
Word(key, value) == IF NumType[key[2]] = "FLOAT" THEN value.real ELSE value.int

\* The queries the bounds of TreeFile allow for: what is stored is a text, a
\* word or a parent of its sets.
StoresGiven(setting) ==
    Accepted(setting) => IF setting.key \in TextKeys
                         THEN setting.value.text \in Given
                         ELSE Word(setting.key, setting.value) \in Scalars
IsList(s) == Len(s) \in Nat /\ DOMAIN s = 1 .. Len(s)
IsQuery(q) ==
    /\ IsList(q.settings)
    /\ IsList(q.filters) /\ q.filters # <<>>
    /\ \A n \in DOMAIN q.filters : IsList(q.filters[n])
    /\ \A n \in DOMAIN q.settings : StoresGiven(q.settings[n])
    /\ q.command = "insert" => q.filters[1][1].value.int \in Parents

ASSUME QueryAssumption == \A q \in Queries : IsQuery(q)

----------------------------------------------------------------------------
(* storageFindNodeByFilters *)

\* Mutant of Scanned: the first node is skipped.
ScannedFromOne == {i \in 1 .. TemplateSize - 1 : root[i] # 0}

\* The ids the search looks at: as many as the template has fields.
Scanned == {i \in 0 .. TemplateSize - 1 : root[i] # 0}

\* A text is read along its blocks (getStringLenght).
ReadableText(i, j) ==
    LET b == file[root[i]].text[j]
    IN  IsBlock(file, b) /\ (file[b].next = 0 \/ IsBlock(file, file[b].next))
Readable(i) == IsTuple(file, root[i]) /\ \A j \in TextFields : ReadableText(i, j)

\* The operators on words: equal, lo_t, lo_eq_t, gr_t, gr_eq_t, no_eq.
Compares(op, a, b) ==
    CASE op = 0 -> a = b
      [] op = 1 -> a < b
      [] op = 2 -> a <= b
      [] op = 3 -> a > b
      [] op = 4 -> a >= b
      [] op = 5 -> a # b

\* A text is compared by the first and the last operator alone.
Fails(i, c) ==
    \/ /\ c.key \in TextKeys
       /\ LET text == file[file[root[i]].text[c.key[2]]].text
          IN  (c.op = 0 /\ text # c.value.text) \/ (c.op = 5 /\ text = c.value.text)
    \/ c.key \in NumKeys /\ ~ Compares(c.op, file[root[i]].num[c.key[2]], c.value.int)

\* `valid`: a filter starts with as many points as it has comparators and
\* loses one for each that fails.
Valid(i, filter) == Len(filter) - Cardinality({n \in DOMAIN filter : Fails(i, filter[n])})

\* The filters of a node are looked at until one is left without a point.
Reaches(i, filters, n) == \A m \in 1 .. n - 1 : Valid(i, filters[m]) # 0

\* Mutant of Matched: a node is in the result as soon as its last filter is valid.
MatchedLast(filters) ==
    {i \in Scanned : filters # <<>> /\ Valid(i, filters[Len(filters)]) # 0}

Matched(filters) ==
    {i \in Scanned : filters # <<>> /\ Reaches(i, filters, Len(filters) + 1)}

\* The keys of the comparators looked at for a node: those of the filters that
\* are reached, up to the first one that is in no template.
Known(filters, n, m) == filters[n][m].key \in TemplateKeys
KeysRead(i, filters) ==
    {filters[p[1]][p[2]].key : p \in
        {p \in UNION {{n} \X DOMAIN filters[n] : n \in DOMAIN filters} :
            /\ Reaches(i, filters, p[1])
            /\ \A n \in 1 .. p[1] - 1 : \A m \in DOMAIN filters[n] : Known(filters, n, m)
            /\ \A m \in 1 .. p[2] - 1 : Known(filters, p[1], m)}}

\* The search stops at the first node for which it meets an unknown name; up
\* to there it reads each node, and the texts it compares.
RefusedAt(i, filters) == ~ KeysRead(i, filters) \subseteq TemplateKeys
AstrayAt(i, filters) ==
    IsTuple(file, root[i]) =>
        \E key \in KeysRead(i, filters) \cap TextKeys : ~ ReadableText(i, key[2])

IsSearchBy(key, filters) == Len(filters) = 1 /\ Len(filters[1]) = 1 /\ filters[1][1].key = key

\* A search by id copies the fields through a pointer it never set, or frees
\* fields it never read; the others read what the id array leads to.
SearchesAstray(filters) ==
    \/ IsSearchBy(IdKey, filters)
    \/ IsSearchBy(ParentKey, filters) /\ \E i \in Live : ~ IsTuple(file, root[i])
    \/ /\ ~ IsSearchBy(ParentKey, filters)
       /\ \E i \in Scanned :
             /\ AstrayAt(i, filters)
             /\ \A h \in Scanned : h < i => ~ AstrayAt(h, filters) /\ ~ RefusedAt(h, filters)

Refuses(filters) ==
    ~ IsSearchBy(ParentKey, filters) /\ \E i \in Scanned : RefusedAt(i, filters)

Found(filters) ==
    IF IsSearchBy(ParentKey, filters)
    THEN {i \in Live : file[root[i]].parent = filters[1][1].value.int}
    ELSE Matched(filters)

----------------------------------------------------------------------------
(* handleQuery *)

Idle == ~ wild /\ left = {}

\* The lines of a response; their order and wording are left out.
Says(what, id) == [says |-> what, id |-> id]
NoResults == {Says("No Results", 0)}
NoField   == {Says("At least one of your fields doesn't exist", 0)}
Sayings == {"No Results", "At least one of your fields doesn't exist", "node", "error",
            "Error code", "Updated id", "Added successfully", "Already removed",
            "Removed successfully"}

\* Every query starts here; the nodes as they are stored now are remembered.
Arrives(q) ==
    /\ Idle
    /\ query' = q
    /\ at' = 1
    /\ before' = [i \in {n \in Live : Readable(n)} |-> NodeOf(i)]

SearchFinds(filters) ==
    ~ SearchesAstray(filters) /\ ~ Refuses(filters) /\ Found(filters) # {}

\* The search goes astray, refuses a name or finds nothing: that is the answer.
SearchEndsIt(filters) ==
    \/ /\ SearchesAstray(filters)
       /\ GoWild
       /\ UNCHANGED <<left, reply, asked>>
    \/ /\ ~ SearchesAstray(filters)
       /\ Refuses(filters) \/ Found(filters) = {}
       /\ reply' = IF Refuses(filters) THEN NoField ELSE NoResults
       /\ UNCHANGED <<vars, left, asked>>

\* Command 0.  The texts of a node found by its parent are first read here.
Receive(q) ==
    /\ q.command = "receive"
    /\ Arrives(q)
    /\ \/ SearchEndsIt(q.filters)
       \/ /\ SearchFinds(q.filters)
          /\ IF \A i \in Found(q.filters) : Readable(i)
             THEN reply' = {Says("node", i) : i \in Found(q.filters)} /\ UNCHANGED vars
             ELSE GoWild /\ UNCHANGED reply
          /\ UNCHANGED <<left, asked>>

\* Commands 1 and 3: the result list is worked off node by node.
Search(q) ==
    /\ q.command \in {"delete", "update"}
    /\ Arrives(q)
    /\ \/ SearchEndsIt(q.filters)
       \/ /\ SearchFinds(q.filters)
          /\ left' = Found(q.filters)
          /\ reply' = {}
          /\ UNCHANGED <<vars, asked>>

\* The result list starts with the node found last.
Current == Max(left)

\* Mutant of NodeDone: the result list is not moved on.
NodeStays == left' = left /\ at' = 1

\* Mutant of NodeDone: the loop ends after the first node.
FirstNodeOnly == left' = {} /\ at' = 1

NodeDone == left' = left \ {Current} /\ at' = 1

\* storageUpdateNodeNew: one setting is stored in the file.
ApplySetting ==
    /\ ~ wild /\ left # {} /\ query.command = "update"
    /\ at \in DOMAIN query.settings
    /\ LET s == query.settings[at]
       IN  /\ Accepted(s)
           /\ IF s.key \in TextKeys
              THEN UpdateText(Current, s.key[2])
              ELSE UpdateNum(Current, s.key[2], Word(s.key, s.value))
           /\ asked' = [asked EXCEPT ![Current] =
                          [k \in DOMAIN @ \cup {s.key} |-> IF k = s.key THEN s.value ELSE @[k]]]
    /\ at' = at + 1
    /\ UNCHANGED <<query, left, reply, before>>

\* Mutant of RefuseSetting: the setting is skipped and the next ones are stored.
SkipSetting ==
    /\ ~ wild /\ left # {} /\ query.command = "update"
    /\ at \in DOMAIN query.settings
    /\ ~ Accepted(query.settings[at])
    /\ reply' = reply \cup {Says("Error code", Current)}
    /\ at' = at + 1
    /\ UNCHANGED <<vars, query, left, history>>

\* ... the first one it does not accept ends the node's update, reported with
\* an error code and yet as an update.
RefuseSetting ==
    /\ ~ wild /\ left # {} /\ query.command = "update"
    /\ at \in DOMAIN query.settings
    /\ ~ Accepted(query.settings[at])
    /\ reply' = reply \cup {Says("Error code", Current), Says("Updated id", Current)}
    /\ NodeDone
    /\ UNCHANGED <<vars, query, history>>

FinishUpdate ==
    /\ ~ wild /\ left # {} /\ query.command = "update"
    /\ at \notin DOMAIN query.settings
    /\ reply' = reply \cup {Says("Updated id", Current)}
    /\ NodeDone
    /\ UNCHANGED <<vars, query, history>>

\* removeNode of the next node of the result list.
DeleteNode ==
    /\ ~ wild /\ left # {} /\ query.command = "delete"
    /\ IF Current \in DOMAIN root /\ root[Current] = 0
       THEN reply' = reply \cup {Says("Already removed", Current)} /\ UNCHANGED vars
       ELSE reply' = reply \cup {Says("Removed successfully", Current)} /\ RemoveNode(Current)
    /\ NodeDone
    /\ UNCHANGED <<query, history>>

\* storageInsertNodeNew: settings may come in any order.  A field no setting
\* names, because another one is named twice, keeps what the stack held.
LastFor(settings, key) == Max({n \in DOMAIN settings : settings[n].key = key} \cup {0})
ValueFor(settings, key) == settings[LastFor(settings, key)].value
Named(settings, key) == LastFor(settings, key) > 0

Insertable(settings) ==
    (\A n \in DOMAIN settings : Accepted(settings[n])) /\ Len(settings) = TemplateSize

\* Command 2; the parent is the number of the query's first comparator.
Insert(q) ==
    /\ q.command = "insert"
    /\ Arrives(q)
    /\ \/ /\ ~ Insertable(q.settings)
          /\ reply' = {Says("error", 0)}
          /\ UNCHANGED <<vars, asked>>
       \/ /\ Insertable(q.settings)
          /\ \E j \in TextKeys : ~ Named(q.settings, j)
          /\ GoWild
          /\ UNCHANGED <<reply, asked>>
       \/ /\ Insertable(q.settings)
          /\ \A j \in TextKeys : Named(q.settings, j)
          /\ \E num \in [NumFields -> Scalars] :
                /\ \A k \in NumKeys :
                      Named(q.settings, k) => num[k[2]] = Word(k, ValueFor(q.settings, k))
                /\ AddNode(q.filters[1][1].value.int,
                           [j \in TextFields |-> ValueFor(q.settings, <<"text", j>>).text], num)
          /\ reply' = {Says("Added successfully", curId)}
          /\ asked' = [i \in DOMAIN asked \cup {curId} |->
                         IF i = curId
                         THEN [k \in {k \in TemplateKeys : Named(q.settings, k)} |->
                                 ValueFor(q.settings, k)]
                         ELSE asked[i]]
    /\ UNCHANGED left

----------------------------------------------------------------------------

HandlerInit ==
    /\ Init
    /\ query = [command |-> "none", filters |-> <<>>, settings |-> <<>>]
    /\ left = {} /\ at = 1 /\ reply = {}
    /\ asked = <<>> /\ before = <<>>

\* What handleQuery still has to do for the query at hand.
Proceed == ApplySetting \/ RefuseSetting \/ FinishUpdate \/ DeleteNode

HandlerNext == Proceed \/ \E q \in Queries : Receive(q) \/ Search(q) \/ Insert(q)

\* handleQuery runs to its end by itself; queries need not come.
HandlerSpec == HandlerInit /\ [][HandlerNext]_allVars /\ WF_allVars(Proceed)

----------------------------------------------------------------------------
(* Properties *)

\* The reference for a search: a node is meant when each filter has a
\* comparator it satisfies.
Holds(node, c) ==
    CASE c.key \in TextKeys -> (c.op = 0 => node.text[c.key[2]] = c.value.text)
                                 /\ (c.op = 5 => node.text[c.key[2]] # c.value.text)
      [] c.key \in NumKeys  -> Compares(c.op, node.num[c.key[2]], c.value.int)
      [] c.key = ParentKey  -> node.parent = c.value.int
      [] OTHER -> FALSE
Meant(node, filters) ==
    \A n \in DOMAIN filters : \E m \in DOMAIN filters[n] : Holds(node, filters[n][m])

Names(what) == {line.id : line \in {l \in reply : l.says = what}}

\* The stored nodes a search over such nodes should name: all it looks at.
Answer(nodes, filters) ==
    {i \in DOMAIN nodes : (i < TemplateSize \/ IsSearchBy(ParentKey, filters))
                            /\ Meant(nodes[i], filters)}

\* The settings up to the first one that is not accepted, and what they make
\* of a node: of two for one field the later one counts.
AcceptedPart(settings) ==
    SubSeq(settings, 1, Min({n \in DOMAIN settings : ~ Accepted(settings[n])}
                              \cup {Len(settings) + 1}) - 1)
Applied(node, settings) ==
    [node EXCEPT
       !.num = [k \in NumFields |-> IF Named(settings, <<"num", k>>)
                                    THEN Word(<<"num", k>>, ValueFor(settings, <<"num", k>>))
                                    ELSE node.num[k]],
       !.text = [j \in TextFields |-> IF Named(settings, <<"text", j>>)
                                      THEN ValueFor(settings, <<"text", j>>).text
                                      ELSE node.text[j]]]

HandlerTypeOK ==
    /\ TypeOK
    /\ left \subseteq 0 .. MaxIds - 1
    /\ at \in 1 .. Len(query.settings) + 1
    /\ reply \subseteq [says : Sayings, id : 0 .. MaxIds - 1]
    /\ DOMAIN before \subseteq 0 .. MaxIds - 1
    /\ Live \subseteq DOMAIN asked

\* A response to receive names the nodes the filters mean, no other: all of
\* them among the ids the search looks at, or with that parent
\* (storageFindNodeByFilters, handleQuery command 0).
AnswersAreMeant ==
    query.command = "receive" /\ ~ wild /\ reply # NoField =>
        Names("node") = Answer([i \in Live |-> NodeOf(i)], query.filters)

\* Every field holds what the last insert or update of it gave, through all
\* that other queries did since, growths of the id array among them
\* (storageInsertNodeNew, storageUpdateNodeNew, addNode, updateNode).
StoredAsAsked ==
    ~ wild => \A i \in Live : \A key \in DOMAIN asked[i] :
        IF key \in TextKeys
        THEN NodeOf(i).text[key[2]] = asked[i][key].text
        ELSE NodeOf(i).num[key[2]] =
                IF asked[i][key].type = "FLOAT" /\ NumType[key[2]] = "FLOAT"
                THEN asked[i][key].real ELSE asked[i][key].int

\* A node is found again by the value a field of it was given: a receive that
\* asks for this value names it, or says that there is no such field
\* (storageInsertNodeNew and storageUpdateNodeNew against storageFindNodeByFilters).
FoundAgain ==
    query.command = "receive" /\ Len(query.filters) = 1 /\ Len(query.filters[1]) = 1 /\ ~ wild =>
        LET c == query.filters[1][1]
        IN  c.op = 0 => \A i \in Live : i < TemplateSize =>
                (c.key \in DOMAIN asked[i] /\ asked[i][c.key] = c.value => i \in Names("node"))

\* An update of many nodes is one update: it reaches the nodes that were meant
\* when it arrived, gives each of them the settings up to the first one that
\* is refused, and leaves every other node as it was (handleQuery command 3).
UpdatesAreUniform ==
    [][query.command = "update" /\ left # {} /\ left' = {} /\ ~ wild' =>
         LET chosen == Names("Updated id")'
         IN  /\ chosen = Answer(before, query.filters)
             /\ \A i \in DOMAIN before :
                   NodeOf(i)' = IF i \in chosen
                                THEN Applied(before[i], AcceptedPart(query.settings))
                                ELSE before[i]]_allVars

\* A query that found nodes is done with them some time (handleQuery's loops).
QueryEnds == left # {} ~> (left = {} \/ wild)

\* A delete answers for each node it found, once: when its loop ends without
\* going astray each one is reported either removed or already removed, the
\* latter when an earlier removal took it for a child, and none of them is
\* listed any more (handleQuery command 1, removeNode).
DeletesAreAnswered ==
    [][query.command = "delete" /\ left # {} /\ left' = {} /\ ~ wild' =>
         /\ Answer(before, query.filters)
              \subseteq (Names("Removed successfully") \cup Names("Already removed"))'
         /\ (Names("Removed successfully") \cap Names("Already removed"))' = {}
         /\ Answer(before, query.filters) \cap Live' = {}]_allVars

\* "<---- No Results ---->": no node is meant (storageFindNodeByFilters).
NoResultsMeansNone ==
    query.command = "receive" /\ reply = NoResults /\ ~ wild =>
        \A i \in Live : ~ Meant(NodeOf(i), query.filters)
=============================================================================
