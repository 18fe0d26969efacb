------------------------- MODULE QueryHandler_proofs -------------------------
(* Proofs about QueryHandler for templates, files and queries of every size: *)
(* whatever clients send, the file below keeps its shape and its ids.        *)
EXTENDS QueryHandler, TreeFile_proofs, FiniteSetTheorems

----------------------------------------------------------------------------
(* The setting that counts for a field *)

\* The setting that counts is one of the query's, and it is for the field.
LEMMA LastForIs ==
    ASSUME NEW n \in Nat, NEW settings, DOMAIN settings = 1 .. n, NEW key, Named(settings, key)
    PROVE  /\ LastFor(settings, key) \in DOMAIN settings
           /\ settings[LastFor(settings, key)].key = key
<1> DEFINE S == {m \in DOMAIN settings : settings[m].key = key} \cup {0}
<1>1. S \in SUBSET (0 .. n) /\ S # {}
  OBVIOUS
<1>2. Max(S) \in S
  <2>1. \E x \in S : \A y \in S : x >= y
    BY <1>1, HasGreatest
  <2> QED BY <2>1 DEF Max
<1>3. LastFor(settings, key) = Max(S)
  BY DEF LastFor
<1>4. Max(S) > 0
  BY <1>3 DEF Named
<1> HIDE DEF S
<1>5. Max(S) # 0
  BY <1>4
<1> QED BY <1>2, <1>3, <1>5 DEF S

\* What an insert that is accepted stores is a text, for each text field, and a
\* parent the file may hold.
LEMMA InsertGives ==
    ASSUME NEW q \in Queries, Insertable(q.settings), \A j \in TextKeys : Named(q.settings, j)
    PROVE  [j \in TextFields |-> ValueFor(q.settings, <<"text", j>>).text] \in [TextFields -> Given]
<1>1. IsQuery(q)
  BY QueryAssumption
<1>2. PICK n \in Nat : DOMAIN q.settings = 1 .. n
  BY <1>1 DEF IsQuery, IsList
<1> DEFINE settings == q.settings
<1>3. /\ \A m \in DOMAIN settings : StoresGiven(settings[m]) /\ Accepted(settings[m])
  BY <1>1 DEF IsQuery, Insertable
<1> HIDE DEF settings
<1>4. ASSUME NEW j \in TextFields PROVE ValueFor(settings, <<"text", j>>).text \in Given
  <2> DEFINE key == <<"text", j>>
             m   == LastFor(settings, key)
  <2>1. key \in TextKeys
    BY DEF TextKeys
  <2>2. Named(settings, key)
    BY <2>1 DEF settings
  <2> HIDE DEF key
  <2>3. m \in DOMAIN settings /\ settings[m].key = key
    BY <1>2, <2>2, LastForIs DEF settings
  <2> HIDE DEF m
  <2>4. StoresGiven(settings[m]) /\ Accepted(settings[m])
    BY <1>3, <2>3
  <2>5. settings[m].value.text \in Given
    BY <2>1, <2>3, <2>4 DEF StoresGiven
  <2> QED BY <2>5 DEF ValueFor, m, key
<1> QED BY <1>4 DEF settings

----------------------------------------------------------------------------
(* What a step of a query does to the file *)

\* The result list is worked off for a query a client sent.
HandlerInv == SafeInv /\ (left # {} => query \in Queries)

LEMMA InsertCalls == ASSUME NEW q \in Queries, Insert(q) PROVE FileCall
<1>1. CASE UNCHANGED vars \/ GoWild
  BY <1>1 DEF FileCall
<1>2. CASE ~ UNCHANGED vars /\ ~ GoWild
  <2>1. Insertable(q.settings) /\ \A j \in TextKeys : Named(q.settings, j)
    BY <1>2 DEF Insert
  <2> DEFINE text == [j \in TextFields |-> ValueFor(q.settings, <<"text", j>>).text]
             parent == q.filters[1][1].value.int
  <2>2. \E num \in [NumFields -> Scalars] : AddNode(parent, text, num)
    BY <1>2 DEF Insert
  <2>3. text \in [TextFields -> Given]
    BY <2>1, InsertGives
  <2>4. parent \in Parents
    BY QueryAssumption DEF IsQuery, Insert
  <2> HIDE DEF text, parent
  <2>5. Adds
    BY <2>2, <2>3, <2>4 DEF Adds
  <2> QED BY <2>5 DEF FileCall
<1> QED BY <1>1, <1>2

LEMMA ApplyCalls == ASSUME HandlerInv, ApplySetting PROVE FileCall
<1> DEFINE s == query.settings[at]
<1>1. /\ left # {} /\ at \in DOMAIN query.settings /\ Accepted(s)
      /\ IF s.key \in TextKeys
         THEN UpdateText(Current, s.key[2])
         ELSE UpdateNum(Current, s.key[2], Word(s.key, s.value))
  BY DEF ApplySetting
<1>2. StoresGiven(s)
  BY <1>1, QueryAssumption DEF HandlerInv, IsQuery
<1> HIDE DEF s
<1>3. CASE s.key \in TextKeys
  <2>1. s.key[2] \in TextFields
    BY <1>3 DEF TextKeys
  <2>2. UpdateText(Current, s.key[2])
    BY <1>1, <1>3
  <2> QED BY <2>1, <2>2 DEF FileCall
<1>4. CASE s.key \notin TextKeys
  <2>1. s.key \in NumKeys
    BY <1>1, <1>4 DEF Accepted, TemplateKeys
  <2>2. s.key[2] \in NumFields
    BY <2>1 DEF NumKeys
  <2>3. Word(s.key, s.value) \in Scalars
    BY <1>1, <1>2, <1>4 DEF StoresGiven
  <2>4. UpdateNum(Current, s.key[2], Word(s.key, s.value))
    BY <1>1, <1>4
  <2> QED BY <2>2, <2>3, <2>4 DEF FileCall
<1> QED BY <1>3, <1>4

LEMMA HandlerCalls == ASSUME HandlerInv, HandlerNext PROVE FileCall
<1>1. CASE ApplySetting
  BY <1>1, ApplyCalls
<1>2. CASE RefuseSetting \/ FinishUpdate
  BY <1>2 DEF RefuseSetting, FinishUpdate, FileCall
<1>3. CASE DeleteNode
  <2>1. UNCHANGED vars \/ RemoveNode(Current)
    BY <1>3 DEF DeleteNode
  <2> QED BY <2>1 DEF FileCall
<1>4. CASE \E q \in Queries : Receive(q)
  BY <1>4 DEF Receive, SearchEndsIt, FileCall
<1>5. CASE \E q \in Queries : Search(q)
  BY <1>5 DEF Search, SearchEndsIt, FileCall
<1>6. CASE \E q \in Queries : Insert(q)
  BY <1>6, InsertCalls
<1> QED BY <1>1, <1>2, <1>3, <1>4, <1>5, <1>6 DEF HandlerNext, Proceed

----------------------------------------------------------------------------
(* The invariant holds *)

LEMMA QueryStays == ASSUME HandlerInv, HandlerNext PROVE left' # {} => query' \in Queries
<1>1. CASE Proceed
  <2>1. left # {} /\ query' = query
    BY <1>1 DEF Proceed, ApplySetting, RefuseSetting, FinishUpdate, DeleteNode
  <2> QED BY <2>1 DEF HandlerInv
<1>2. CASE \E q \in Queries : Receive(q) \/ Search(q) \/ Insert(q)
  <2>1. \E q \in Queries : query' = q
    BY <1>2 DEF Receive, Search, Insert, Arrives
  <2> QED BY <2>1
<1> QED BY <1>1, <1>2 DEF HandlerNext

LEMMA HandlerStep == HandlerInv /\ [HandlerNext]_allVars => HandlerInv' /\ [Ids!Next]_(Ids!vars)
<1> SUFFICES ASSUME HandlerInv, [HandlerNext]_allVars
             PROVE  HandlerInv' /\ [Ids!Next]_(Ids!vars)
  OBVIOUS
<1>1. CASE HandlerNext
  <2>1. FileCall
    BY <1>1, HandlerCalls
  <2>2. SafeInv' /\ [Ids!Next]_(Ids!vars)
    BY <2>1, CallSafe, CallRefines DEF HandlerInv
  <2>3. left' # {} => query' \in Queries
    BY <1>1, QueryStays
  <2> QED BY <2>2, <2>3 DEF HandlerInv
<1>2. CASE UNCHANGED allVars
  <2>1. UNCHANGED <<vars, left, query>>
    BY <1>2 DEF allVars, service
  <2>2. FileCall
    BY <2>1 DEF FileCall
  <2>3. SafeInv' /\ [Ids!Next]_(Ids!vars)
    BY <2>2, CallSafe, CallRefines DEF HandlerInv
  <2> QED BY <2>1, <2>3 DEF HandlerInv
<1> QED BY <1>1, <1>2

LEMMA HandlerStart == HandlerInit => HandlerInv /\ Ids!Init
BY SafeInit, IdsInit DEF HandlerInit, HandlerInv

\* Whatever queries clients send, the id array readTreeSchema asks for is inside
\* the file (handleQuery, storageInsertNodeNew, storageUpdateNodeNew).
THEOREM QueriesKeepSchema == HandlerSpec => []SchemaInFile
<1>1. HandlerInv => SchemaInFile
  BY DEF HandlerInv, SafeInv
<1>2. HandlerSpec => []HandlerInv
  BY HandlerStart, HandlerStep, PTL DEF HandlerSpec
<1> QED BY <1>1, <1>2, PTL

\* Whatever queries clients send, ids are given out in order, each once until it
\* is given back.
THEOREM QueriesKeepIds == HandlerSpec => IdsSpec
<1>1. HandlerSpec => Ids!Init /\ [][Ids!Next]_(Ids!vars)
  BY HandlerStart, HandlerStep, PTL DEF HandlerSpec
<1> QED BY <1>1 DEF IdsSpec, Ids!Spec

----------------------------------------------------------------------------
(* The types of the handler's variables *)

SettingsSeq == Len(query.settings) \in Nat /\ DOMAIN query.settings = 1 .. Len(query.settings)

ServiceInv == HandlerInv /\ IdsInv /\ SettingsSeq /\ HandlerTypeOK

LEMMA ServiceInit == HandlerInit => ServiceInv
<1> SUFFICES ASSUME HandlerInit PROVE ServiceInv
  OBVIOUS
<1>1. HandlerInv /\ IdsInv
  BY HandlerStart, IdsInvInit DEF HandlerInit
<1>2. SettingsSeq /\ Len(query.settings) = 0
  BY DEF HandlerInit, SettingsSeq
<1>3. Live = {}
  BY DEF HandlerInit, Init, Live
<1>4. DOMAIN before = {}
  BY DEF HandlerInit
<1> QED BY <1>1, <1>2, <1>3, <1>4 DEF ServiceInv, HandlerInv, SafeInv, HandlerInit, HandlerTypeOK

\* Ids that were given out are below the bound.
LEMMA LiveBounded == ASSUME IdsInv PROVE Live \subseteq 0 .. MaxIds - 1 /\ 0 \in 0 .. MaxIds - 1
<1>1. curId \in Nat /\ MaxIds \in Nat \ {0} /\ curId <= MaxIds
  BY BoundAssumption DEF IdsInv, SafeInv, TypeOK
<1> QED BY <1>1 DEF Live

\* The search looks at listed ids only, though it goes by the template's size.
LEMMA ScannedListed == ASSUME IdsInv PROVE Scanned = {i \in Live : i < TemplateSize}
<1>1. curId \in Nat /\ TemplateSize \in Nat /\ TemplateSize <= K /\ K \in Nat
      /\ root \in [Entries(curId) -> Nat]
  BY FieldAssumption, TemplateAssumption, KAssumption DEF TemplateSize, IdsInv, SafeInv, TypeOK
<1>2. K <= K * ArrUnits(curId) /\ K * ArrUnits(curId) \in Nat
  <2>1. ArrUnits(curId) \in Nat \ {0}
    BY <1>1, UnitsBound
  <2> QED BY <1>1, <2>1
<1>3. ASSUME NEW i \in 0 .. TemplateSize - 1, root[i] # 0 PROVE i < curId
  <2>1. i \in DOMAIN root /\ i < K
    BY <1>1, <1>2 DEF Entries
  <2> QED BY <1>1, <1>3, <2>1 DEF IdsInv, Unlisted
<1> QED BY <1>1, <1>3 DEF Scanned, Live

LEMMA FoundListed == ASSUME IdsInv, NEW filters PROVE Found(filters) \subseteq Live
BY ScannedListed DEF Found, Matched

\* The node worked on is one of the result list.
LEMMA CurrentIs ==
    ASSUME left # {}, left \subseteq 0 .. MaxIds - 1
    PROVE  Current \in left /\ \A i \in left : i <= Current
<1>1. MaxIds - 1 \in Nat /\ left \in SUBSET (0 .. MaxIds - 1)
  BY BoundAssumption
<1>2. \E x \in left : \A y \in left : x >= y
  BY <1>1, HasGreatest
<1>3. Current \in left /\ \A i \in left : Current >= i
  BY <1>2 DEF Current, Max
<1> QED BY <1>1, <1>3

\* What a query of the right form starts with.
LEMMA QueryIsSeq ==
    ASSUME NEW q \in Queries
    PROVE  /\ Len(q.settings) \in Nat /\ DOMAIN q.settings = 1 .. Len(q.settings)
           /\ 1 \in 1 .. Len(q.settings) + 1
BY QueryAssumption DEF IsQuery, IsList

Lines == [says : Sayings, id : 0 .. MaxIds - 1]

LEMMA ServiceStep == ServiceInv /\ [HandlerNext]_allVars => ServiceInv'
<1> SUFFICES ASSUME ServiceInv, [HandlerNext]_allVars PROVE ServiceInv'
  OBVIOUS
<1>1. HandlerInv'
  BY HandlerStep DEF ServiceInv
<1>2. CASE UNCHANGED allVars
  <2>1. UNCHANGED <<file, root, curId, wild, query, left, at, reply, asked, before>>
    BY <1>2 DEF allVars, vars, service, history
  <2>2. IdsInv'
    BY <2>1 DEF ServiceInv, IdsInv, SafeInv, TypeOK, SchemaInFile, Unlisted
  <2> QED BY <1>1, <2>1, <2>2
      DEF ServiceInv, SettingsSeq, HandlerTypeOK, HandlerInv, SafeInv, Live
<1>3. CASE HandlerNext
  <2>1. FileCall
    BY <1>3, HandlerCalls DEF ServiceInv
  <2>2. IdsInv'
    BY <2>1, CallUnlisted DEF ServiceInv
  <2>3. Live \subseteq 0 .. MaxIds - 1 /\ 0 \in 0 .. MaxIds - 1 /\ Live' \subseteq 0 .. MaxIds - 1
    <3>1. (IdsInv => Live \subseteq 0 .. MaxIds - 1 /\ 0 \in 0 .. MaxIds - 1)'
      BY LiveBounded, PTL
    <3> QED BY <2>2, <3>1, LiveBounded DEF ServiceInv
  <2>4. TypeOK'
    BY <2>2 DEF IdsInv, SafeInv
  <2>5. /\ SettingsSeq /\ left \subseteq 0 .. MaxIds - 1 /\ at \in 1 .. Len(query.settings) + 1
        /\ reply \subseteq Lines /\ DOMAIN before \subseteq 0 .. MaxIds - 1
        /\ Live \subseteq DOMAIN asked /\ Len(query.settings) \in Nat
    BY DEF ServiceInv, SettingsSeq, HandlerTypeOK, Lines
  <2>6. \A what \in Sayings, i \in 0 .. MaxIds - 1 : Says(what, i) \in Lines
    BY DEF Says, Lines
  <2>a. {"No Results", "At least one of your fields doesn't exist", "node", "error",
         "Error code", "Updated id", "Added successfully", "Already removed",
         "Removed successfully"} = Sayings
    BY DEF Sayings
  <2>7. NoField \subseteq Lines /\ NoResults \subseteq Lines
    BY <2>3, <2>6, <2>a DEF NoField, NoResults
  <2>8. Live' \subseteq Live \/ (Ids!Append /\ Live' = Live \cup {curId})
    <3>1. [Ids!Next]_(Ids!vars)
      BY <2>1, CallRefines DEF ServiceInv, HandlerInv
    <3> QED BY <3>1 DEF Ids!Next, Ids!Append, Ids!Release, Ids!vars
  <2>9. \A filters : Found(filters) \subseteq Live
    BY FoundListed DEF ServiceInv
  <2> SUFFICES /\ SettingsSeq' /\ left' \subseteq 0 .. MaxIds - 1
               /\ at' \in 1 .. Len(query'.settings) + 1
               /\ reply' \subseteq Lines /\ DOMAIN before' \subseteq 0 .. MaxIds - 1
               /\ Live' \subseteq DOMAIN asked'
    BY <1>1, <2>2, <2>4 DEF ServiceInv, HandlerTypeOK, Lines
  <2>10. ASSUME NEW q \in Queries, Arrives(q)
         PROVE  /\ SettingsSeq' /\ at' \in 1 .. Len(query'.settings) + 1
                /\ DOMAIN before' \subseteq 0 .. MaxIds - 1
    <3>1. query' = q /\ at' = 1 /\ DOMAIN before' = {n \in Live : Readable(n)}
      BY <2>10 DEF Arrives
    <3> QED BY <2>3, <3>1, QueryIsSeq DEF SettingsSeq
  <2>11. ASSUME NEW filters, SearchEndsIt(filters)
         PROVE  /\ left' = left /\ reply' \subseteq Lines /\ Live' \subseteq DOMAIN asked'
    <3>1. left' = left /\ asked' = asked /\ (reply' = reply \/ reply' \in {NoField, NoResults})
      BY <2>11 DEF SearchEndsIt
    <3>2. Live' = Live
      BY <2>11 DEF SearchEndsIt, GoWild, vars, Live
    <3> QED BY <2>5, <2>7, <3>1, <3>2
  <2>12. CASE \E q \in Queries : Receive(q)
    <3>1. PICK q \in Queries : Receive(q)
      BY <2>12
    <3>2. Arrives(q)
      BY <3>1 DEF Receive
    <3>3. CASE SearchEndsIt(q.filters)
      BY <2>5, <2>10, <2>11, <3>2, <3>3
    <3>4. CASE ~ SearchEndsIt(q.filters)
      <4>1. /\ UNCHANGED <<left, asked>> /\ (UNCHANGED vars \/ GoWild)
            /\ reply' = {Says("node", i) : i \in Found(q.filters)} \/ reply' = reply
        BY <3>1, <3>4 DEF Receive
      <4>2. Live' = Live
        BY <4>1 DEF GoWild, vars, Live
      <4>3. {Says("node", i) : i \in Found(q.filters)} \subseteq Lines
        BY <2>3, <2>6, <2>9, <2>a
      <4> QED BY <2>5, <2>10, <3>2, <4>1, <4>2, <4>3
    <3> QED BY <3>3, <3>4
  <2>13. CASE \E q \in Queries : Search(q)
    <3>1. PICK q \in Queries : Search(q)
      BY <2>13
    <3>2. Arrives(q)
      BY <3>1 DEF Search
    <3>3. CASE SearchEndsIt(q.filters)
      BY <2>5, <2>10, <2>11, <3>2, <3>3
    <3>4. CASE ~ SearchEndsIt(q.filters)
      <4>1. left' = Found(q.filters) /\ reply' = {} /\ UNCHANGED vars /\ UNCHANGED asked
        BY <3>1, <3>4 DEF Search
      <4>2. Live' = Live
        BY <4>1 DEF vars, Live
      <4> QED BY <2>3, <2>5, <2>9, <2>10, <3>2, <4>1, <4>2
    <3> QED BY <3>3, <3>4
  <2>14. CASE \E q \in Queries : Insert(q)
    <3>1. PICK q \in Queries : Insert(q)
      BY <2>14
    <3>2. Arrives(q) /\ UNCHANGED left
      BY <3>1 DEF Insert
    <3>3. CASE (UNCHANGED vars \/ GoWild) /\ UNCHANGED asked
                /\ (reply' = reply \/ reply' = {Says("error", 0)})
      <4>1. Live' = Live
        BY <3>3 DEF GoWild, vars, Live
      <4>2. {Says("error", 0)} \subseteq Lines
        BY <2>3, <2>6, <2>a
      <4> QED BY <2>5, <2>10, <3>2, <3>3, <4>1, <4>2
    <3>4. CASE /\ reply' = {Says("Added successfully", curId)} /\ curId < MaxIds
               /\ DOMAIN asked' = DOMAIN asked \cup {curId}
      <4>1. Live' \subseteq Live \cup {curId}
        BY <2>8
      <4>2. curId \in 0 .. MaxIds - 1
        <5>1. curId \in Nat /\ MaxIds \in Nat
          BY BoundAssumption DEF ServiceInv, IdsInv, SafeInv, TypeOK
        <5>2. curId < MaxIds
          BY <3>4
        <5> QED BY <5>1, <5>2
      <4>3. reply' \subseteq Lines
        BY <2>6, <2>a, <3>4, <4>2
      <4> QED BY <2>5, <2>10, <3>2, <3>4, <4>1, <4>3
    <3> QED BY <3>1, <3>3, <3>4 DEF Insert, AddNode
  <2>15. ASSUME left # {} PROVE Current \in 0 .. MaxIds - 1
    BY <2>5, <2>15, CurrentIs
  <2>16. CASE ApplySetting
    <3>1. /\ at \in DOMAIN query.settings /\ at' = at + 1 /\ left # {}
          /\ UNCHANGED <<query, left, reply, before>>
          /\ DOMAIN asked' = DOMAIN asked
      BY <2>16 DEF ApplySetting
    <3>2. Live' = Live
      BY <2>16 DEF ApplySetting, UpdateText, UpdateNum, GoWild, Live
    <3>3. at' \in 1 .. Len(query.settings) + 1
      BY <2>5, <3>1 DEF SettingsSeq
    <3> QED BY <2>5, <3>1, <3>2, <3>3 DEF SettingsSeq
  <2>17. ASSUME NodeDone, left # {}, UNCHANGED <<query, history>>, Live' \subseteq Live,
                NEW L \in SUBSET Sayings, reply' = reply \cup {Says(what, Current) : what \in L}
         PROVE  /\ SettingsSeq' /\ left' \subseteq 0 .. MaxIds - 1
                /\ at' \in 1 .. Len(query'.settings) + 1
                /\ reply' \subseteq Lines /\ DOMAIN before' \subseteq 0 .. MaxIds - 1
                /\ Live' \subseteq DOMAIN asked'
    <3>1. at' = 1 /\ left' \subseteq left /\ UNCHANGED <<query, asked, before>>
      BY <2>17 DEF NodeDone, history
    <3>2. reply' \subseteq Lines
      BY <2>5, <2>6, <2>15, <2>17
    <3>3. 1 \in 1 .. Len(query.settings) + 1
      BY <2>5
    <3> QED BY <2>5, <2>17, <3>1, <3>2, <3>3 DEF SettingsSeq
  <2>18. CASE RefuseSetting \/ FinishUpdate
    <3>1. NodeDone /\ left # {} /\ UNCHANGED <<query, history>> /\ UNCHANGED vars
      BY <2>18 DEF RefuseSetting, FinishUpdate
    <3>2. Live' \subseteq Live
      BY <3>1 DEF vars, Live
    <3>3. CASE reply' = reply \cup {Says("Error code", Current), Says("Updated id", Current)}
      <4>1. reply' = reply \cup {Says(what, Current) : what \in {"Error code", "Updated id"}}
        BY <3>3
      <4> QED BY <2>17, <2>a, <3>1, <3>2, <4>1
    <3>4. CASE reply' = reply \cup {Says("Updated id", Current)}
      <4>1. reply' = reply \cup {Says(what, Current) : what \in {"Updated id"}}
        BY <3>4
      <4> QED BY <2>17, <2>a, <3>1, <3>2, <4>1
    <3> QED BY <2>18, <3>3, <3>4 DEF RefuseSetting, FinishUpdate
  <2>19. CASE DeleteNode
    <3>1. NodeDone /\ left # {} /\ UNCHANGED <<query, history>>
      BY <2>19 DEF DeleteNode
    <3>2. Live' \subseteq Live
      <4>1. UNCHANGED vars \/ RemoveNode(Current)
        BY <2>19 DEF DeleteNode
      <4>2. CASE UNCHANGED vars
        BY <4>2 DEF vars, Live
      <4>3. CASE RemoveNode(Current)
        <5>1. CASE GoWild
          BY <5>1 DEF GoWild, Live
        <5>2. CASE ~ GoWild
          BY <4>3, <5>2, RemoveNodeUnlists DEF ServiceInv, HandlerInv
        <5> QED BY <5>1, <5>2
      <4> QED BY <4>1, <4>2, <4>3
    <3>3. PICK what \in Sayings : reply' = reply \cup {Says(what, Current)}
      BY <2>19, <2>a DEF DeleteNode
    <3>4. reply' = reply \cup {Says(w, Current) : w \in {what}}
      BY <3>3
    <3> QED BY <2>17, <3>1, <3>2, <3>4
  <2> QED BY <1>3, <2>12, <2>13, <2>14, <2>16, <2>18, <2>19 DEF HandlerNext, Proceed
<1> QED BY <1>2, <1>3

LEMMA ServiceAlways == HandlerSpec => []ServiceInv
BY ServiceInit, ServiceStep, PTL DEF HandlerSpec

\* Whatever queries clients send, the handler's own state stays well-formed: what
\* is still to be done names ids that were given out, the setting at hand is one
\* of the query's or the one behind them (handleQuery).
THEOREM HandlerTypeCorrect == HandlerSpec => []HandlerTypeOK
<1>1. ServiceInv => HandlerTypeOK
  BY DEF ServiceInv
<1> QED BY <1>1, ServiceAlways, PTL

----------------------------------------------------------------------------
(* The search finds what is meant *)

\* A set of numbers has a least one of a kind.
LEMMA LeastOf ==
    ASSUME NEW T \in SUBSET Nat, NEW x \in T
    PROVE  \E y \in T : y <= x /\ \A z \in T : y <= z
<1>1. PICK y \in T : \A z \in T : y <= z
  BY HasLeast
<1> QED BY <1>1

\* A filter keeps a point exactly if one of its comparators does not fail.
LEMMA ValidIs ==
    ASSUME NEW i, NEW filter, IsList(filter)
    PROVE  Valid(i, filter) # 0 <=> \E m \in DOMAIN filter : ~ Fails(i, filter[m])
<1> DEFINE D == DOMAIN filter
           F == {m \in D : Fails(i, filter[m])}
<1>1. Len(filter) \in Nat /\ D = 1 .. Len(filter)
  BY DEF IsList
<1>2. IsFiniteSet(D) /\ Cardinality(D) = Len(filter)
  <2> DEFINE n == Len(filter)
  <2>1. n \in Nat /\ n \in Int /\ 1 \in Int /\ D = 1 .. n
    BY <1>1
  <2> HIDE DEF n, D
  <2>2. IsFiniteSet(1 .. n) /\ Cardinality(1 .. n) = IF 1 > n THEN 0 ELSE n - 1 + 1
    BY <2>1, FS_Interval
  <2>3. Cardinality(1 .. n) = n
    BY <2>1, <2>2
  <2> QED BY <2>1, <2>2, <2>3 DEF n
<1>3. /\ IsFiniteSet(F) /\ Cardinality(F) <= Cardinality(D)
      /\ (Cardinality(D) = Cardinality(F) => D = F)
  BY <1>2, FS_Subset
<1>4. Cardinality(F) \in Nat
  BY <1>3, FS_CardinalityType
<1>5. Valid(i, filter) = Len(filter) - Cardinality(F)
  BY DEF Valid
<1>6. Valid(i, filter) = 0 <=> Cardinality(F) = Cardinality(D)
  BY <1>1, <1>2, <1>4, <1>5
<1>7. Cardinality(F) = Cardinality(D) <=> F = D
  BY <1>3
<1> QED BY <1>6, <1>7

\* What a template knows is compared as it is meant.
LEMMA FailsIsMeant ==
    ASSUME NEW i, NEW c, c.key \in TemplateKeys
    PROVE  Fails(i, c) <=> ~ Holds(NodeOf(i), c)
<1>1. CASE c.key \in TextKeys
  <2>1. c.key \notin NumKeys /\ c.key # ParentKey /\ c.key[2] \in TextFields
    BY <1>1 DEF TextKeys, NumKeys, ParentKey
  <2>2. NodeOf(i).text[c.key[2]] = file[file[root[i]].text[c.key[2]]].text
    BY <2>1 DEF NodeOf
  <2> DEFINE stored == NodeOf(i).text[c.key[2]]
  <2>3. Fails(i, c) <=> (c.op = 0 /\ stored # c.value.text) \/ (c.op = 5 /\ stored = c.value.text)
    BY <1>1, <2>1, <2>2 DEF Fails
  <2>4. Holds(NodeOf(i), c) <=> (c.op = 0 => stored = c.value.text) /\ (c.op = 5 => stored # c.value.text)
    BY <1>1, <2>1 DEF Holds
  <2> QED BY <2>3, <2>4
<1>2. CASE c.key \in NumKeys
  <2>1. c.key \notin TextKeys /\ c.key # ParentKey
    BY <1>2 DEF TextKeys, NumKeys, ParentKey
  <2>2. NodeOf(i).num[c.key[2]] = file[root[i]].num[c.key[2]]
    BY DEF NodeOf
  <2>3. Fails(i, c) <=> ~ Compares(c.op, NodeOf(i).num[c.key[2]], c.value.int)
    BY <1>2, <2>1, <2>2 DEF Fails
  <2>4. Holds(NodeOf(i), c) <=> Compares(c.op, NodeOf(i).num[c.key[2]], c.value.int)
    BY <1>2, <2>1 DEF Holds
  <2> QED BY <2>3, <2>4
<1> QED BY <1>1, <1>2 DEF TemplateKeys

AreFilters(filters) ==
    IsList(filters) /\ filters # <<>> /\ \A n \in DOMAIN filters : IsList(filters[n])

\* Where the search refuses no name it knew all it met on the way to a filter.
LEMMA ReachedAreKnown ==
    ASSUME NEW i, NEW filters, AreFilters(filters), ~ RefusedAt(i, filters),
           NEW n \in DOMAIN filters, Reaches(i, filters, n), NEW m \in DOMAIN filters[n]
    PROVE  filters[n][m].key \in TemplateKeys
<1> SUFFICES ASSUME filters[n][m].key \notin TemplateKeys PROVE FALSE
  OBVIOUS
<1>1. DOMAIN filters = 1 .. Len(filters) /\ Len(filters) \in Nat
  BY DEF AreFilters, IsList
<1> DEFINE Bad(h) == \E k \in DOMAIN filters[h] : filters[h][k].key \notin TemplateKeys
           T == {h \in DOMAIN filters : Bad(h)}
<1>2. T \in SUBSET Nat /\ n \in T
  BY <1>1
<1>3. PICK h \in T : h <= n /\ \A z \in T : h <= z
  BY <1>2, LeastOf
<1>4. h \in DOMAIN filters /\ Bad(h) /\ h \in Nat /\ n \in Nat
  BY <1>1, <1>3
<1>5. DOMAIN filters[h] = 1 .. Len(filters[h]) /\ Len(filters[h]) \in Nat
  BY <1>4 DEF AreFilters, IsList
<1> DEFINE U == {k \in DOMAIN filters[h] : filters[h][k].key \notin TemplateKeys}
<1>6. U \in SUBSET Nat /\ U # {}
  BY <1>4, <1>5
<1>7. PICK k \in U : \A z \in U : k <= z
  BY <1>6, HasLeast
<1>8. k \in DOMAIN filters[h] /\ filters[h][k].key \notin TemplateKeys /\ k \in Nat
  BY <1>5, <1>7
<1>9. Reaches(i, filters, h)
  <2>1. \A g \in 1 .. h - 1 : g \in 1 .. n - 1
    BY <1>3, <1>4
  <2> QED BY <2>1 DEF Reaches
<1>10. \A g \in 1 .. h - 1 : \A z \in DOMAIN filters[g] : Known(filters, g, z)
  <2> SUFFICES ASSUME NEW g \in 1 .. h - 1, NEW z \in DOMAIN filters[g], ~ Known(filters, g, z)
               PROVE  FALSE
    OBVIOUS
  <2>1. g \in DOMAIN filters /\ ~ (h <= g)
    BY <1>1, <1>4
  <2>2. g \in T
    BY <2>1 DEF Known
  <2> QED BY <1>3, <2>1, <2>2
<1>11. \A z \in 1 .. k - 1 : Known(filters, h, z)
  <2> SUFFICES ASSUME NEW z \in 1 .. k - 1, ~ Known(filters, h, z) PROVE FALSE
    OBVIOUS
  <2>1. z \in DOMAIN filters[h] /\ ~ (k <= z)
    BY <1>5, <1>8
  <2>2. z \in U
    BY <2>1 DEF Known
  <2> QED BY <1>7, <2>1, <2>2
<1> DEFINE p == <<h, k>>
<1>12. p \in UNION {{g} \X DOMAIN filters[g] : g \in DOMAIN filters}
  <2>1. p \in {h} \X DOMAIN filters[h]
    BY <1>8
  <2> QED BY <1>4, <2>1
<1>13. filters[h][k].key \in KeysRead(i, filters)
  <2>1. p[1] = h /\ p[2] = k
    OBVIOUS
  <2> HIDE DEF p
  <2> QED BY <1>9, <1>10, <1>11, <1>12, <2>1 DEF KeysRead
<1> QED BY <1>8, <1>13 DEF RefusedAt

\* Of a node for which it refuses no name the search says what is meant.
LEMMA NodeIsMeant ==
    ASSUME NEW i, NEW filters, AreFilters(filters), ~ RefusedAt(i, filters)
    PROVE  Reaches(i, filters, Len(filters) + 1) <=> Meant(NodeOf(i), filters)
<1>1. DOMAIN filters = 1 .. Len(filters) /\ Len(filters) \in Nat
      /\ 1 .. Len(filters) + 1 - 1 = 1 .. Len(filters)
  BY DEF AreFilters, IsList
<1>2. ASSUME NEW n \in DOMAIN filters, Reaches(i, filters, n)
      PROVE  Valid(i, filters[n]) # 0 <=> \E m \in DOMAIN filters[n] : Holds(NodeOf(i), filters[n][m])
  <2>1. \A m \in DOMAIN filters[n] : Fails(i, filters[n][m]) <=> ~ Holds(NodeOf(i), filters[n][m])
    BY <1>2, ReachedAreKnown, FailsIsMeant
  <2>2. IsList(filters[n])
    BY DEF AreFilters
  <2> QED BY <2>1, <2>2, ValidIs
<1>3. ASSUME Reaches(i, filters, Len(filters) + 1) PROVE Meant(NodeOf(i), filters)
  <2> SUFFICES ASSUME NEW n \in DOMAIN filters
               PROVE  \E m \in DOMAIN filters[n] : Holds(NodeOf(i), filters[n][m])
    BY DEF Meant
  <2>1. \A h \in 1 .. n - 1 : h \in 1 .. Len(filters) + 1 - 1
    BY <1>1
  <2>2. Reaches(i, filters, n) /\ Valid(i, filters[n]) # 0
    BY <1>1, <1>3, <2>1 DEF Reaches
  <2> QED BY <1>2, <2>2
<1>4. ASSUME Meant(NodeOf(i), filters), ~ Reaches(i, filters, Len(filters) + 1) PROVE FALSE
  <2> DEFINE T == {n \in DOMAIN filters : Valid(i, filters[n]) = 0}
  <2>1. T \in SUBSET Nat /\ T # {}
    BY <1>1, <1>4 DEF Reaches
  <2>2. PICK n \in T : \A z \in T : n <= z
    BY <2>1, HasLeast
  <2>3. n \in DOMAIN filters /\ Valid(i, filters[n]) = 0 /\ n \in Nat
    BY <2>1, <2>2
  <2>4. Reaches(i, filters, n)
    <3> SUFFICES ASSUME NEW h \in 1 .. n - 1, Valid(i, filters[h]) = 0 PROVE FALSE
      BY DEF Reaches
    <3>1. h \in DOMAIN filters /\ ~ (n <= h)
      BY <1>1, <2>3
    <3> QED BY <2>2, <3>1
  <2> QED BY <1>2, <1>4, <2>3, <2>4 DEF Meant
<1> QED BY <1>3, <1>4

\* A search that neither goes astray nor refuses a name finds the nodes that
\* are meant, of those it looks at.
LEMMA SearchIsRight ==
    ASSUME IdsInv, NEW filters, AreFilters(filters), ~ Refuses(filters)
    PROVE  Found(filters) = Answer([i \in Live |-> NodeOf(i)], filters)
<1> DEFINE nodes == [i \in Live |-> NodeOf(i)]
<1>1. CASE IsSearchBy(ParentKey, filters)
  <2> DEFINE c == filters[1][1]
  <2>1. DOMAIN filters = {1} /\ DOMAIN filters[1] = {1} /\ c.key = ParentKey
    <3>1. DOMAIN filters = 1 .. 1
      BY <1>1 DEF AreFilters, IsList, IsSearchBy
    <3>2. DOMAIN filters[1] = 1 .. 1
      BY <1>1, <3>1 DEF AreFilters, IsList, IsSearchBy
    <3> QED BY <1>1, <3>1, <3>2 DEF IsSearchBy
  <2>2. ParentKey \notin TextKeys /\ ParentKey \notin NumKeys
    BY DEF ParentKey, TextKeys, NumKeys
  <2>3. ASSUME NEW i \in Live
        PROVE  Meant(nodes[i], filters) <=> file[root[i]].parent = c.value.int
    <3>1. nodes[i].parent = file[root[i]].parent
      BY DEF NodeOf
    <3> HIDE DEF nodes
    <3>2. Holds(nodes[i], c) <=> nodes[i].parent = c.value.int
      BY <2>1, <2>2 DEF Holds
    <3>3. Meant(nodes[i], filters) <=> Holds(nodes[i], c)
      BY <2>1 DEF Meant
    <3> QED BY <3>1, <3>2, <3>3
  <2>4. DOMAIN nodes = Live
    OBVIOUS
  <2> HIDE DEF nodes
  <2> QED BY <1>1, <2>3, <2>4 DEF Found, Answer, nodes
<1>2. CASE ~ IsSearchBy(ParentKey, filters)
  <2>1. Scanned = {i \in Live : i < TemplateSize}
    BY ScannedListed
  <2>2. \A i \in Scanned : Reaches(i, filters, Len(filters) + 1) <=> Meant(NodeOf(i), filters)
    BY <1>2, NodeIsMeant DEF Refuses
  <2>3. filters # <<>>
    BY DEF AreFilters
  <2>4. Found(filters) = {i \in Scanned : Reaches(i, filters, Len(filters) + 1)}
    BY <1>2, <2>3 DEF Found, Matched
  <2>5. Answer(nodes, filters) = {i \in Live : i < TemplateSize /\ Meant(NodeOf(i), filters)}
    BY <1>2 DEF Answer
  <2> QED BY <2>1, <2>2, <2>4, <2>5
<1> QED BY <1>1, <1>2

\* A query that was sent has filters.
LEMMA QueryHasFilters == ASSUME NEW q \in Queries PROVE AreFilters(q.filters)
BY QueryAssumption DEF IsQuery, AreFilters

----------------------------------------------------------------------------
(* A receive is answered with what is meant *)

\* A receive is answered in one step; what is answered is what is meant.
AnsweredInv == AnswersAreMeant /\ (query.command = "receive" => left = {})

LEMMA AnsweredStep == ServiceInv /\ AnsweredInv /\ [HandlerNext]_allVars => AnsweredInv'
<1> SUFFICES ASSUME ServiceInv, AnsweredInv, [HandlerNext]_allVars PROVE AnsweredInv'
  OBVIOUS
<1> DEFINE nodes == [i \in Live |-> NodeOf(i)]
<1>1. ASSUME UNCHANGED vars PROVE nodes' = nodes
  BY <1>1 DEF vars, Live, NodeOf
<1>2. CASE UNCHANGED allVars
  <2>1. UNCHANGED <<vars, wild, query, left, reply>>
    BY <1>2 DEF allVars, vars, service
  <2>2. nodes' = nodes
    BY <1>1, <2>1
  <2> HIDE DEF nodes
  <2>3. (nodes = [i \in Live |-> NodeOf(i)])'
    BY DEF nodes
  <2> QED BY <2>1, <2>2, <2>3 DEF AnsweredInv, AnswersAreMeant, Names, nodes
<1>3. CASE Proceed
  <2>1. query' = query /\ query.command # "receive"
    BY <1>3 DEF Proceed, ApplySetting, RefuseSetting, FinishUpdate, DeleteNode
  <2> QED BY <2>1 DEF AnsweredInv, AnswersAreMeant
<1>4. CASE \E q \in Queries : Search(q) \/ Insert(q)
  <2>1. query'.command # "receive"
    BY <1>4 DEF Search, Insert, Arrives
  <2> QED BY <2>1 DEF AnsweredInv, AnswersAreMeant
<1>5. CASE \E q \in Queries : Receive(q)
  <2>1. PICK q \in Queries : Receive(q)
    BY <1>5
  <2>2. query' = q /\ left' = {} /\ left = {}
    BY <2>1 DEF Receive, Arrives, Idle, SearchEndsIt
  <2>3. AreFilters(q.filters)
    BY QueryHasFilters
  <2>4. ~ Refuses(q.filters) => Found(q.filters) = Answer(nodes, q.filters)
    BY <2>3, SearchIsRight DEF ServiceInv
  <2> SUFFICES ASSUME ~ wild', reply' # NoField
               PROVE  Names("node")' = Answer(nodes', q.filters)
    BY <2>2 DEF AnsweredInv, AnswersAreMeant
  <2> HIDE DEF nodes
  <2>5. CASE SearchEndsIt(q.filters)
    <3>1. /\ ~ Refuses(q.filters) /\ Found(q.filters) = {} /\ reply' = NoResults
          /\ UNCHANGED vars
      BY <2>5 DEF SearchEndsIt, GoWild
    <3>2. {l \in reply' : l.says = "node"} = {}
      <4>1. Says("No Results", 0).says # "node"
        BY DEF Says
      <4>2. \A l \in reply' : l.says # "node"
        BY <3>1, <4>1 DEF NoResults
      <4> QED BY <4>2
    <3>3. Names("node")' = {}
      BY <3>2 DEF Names
    <3> QED BY <1>1, <2>4, <3>1, <3>3
  <2>6. CASE ~ SearchEndsIt(q.filters)
    <3>1. /\ ~ Refuses(q.filters) /\ reply' = {Says("node", i) : i \in Found(q.filters)}
          /\ UNCHANGED vars
      BY <2>1, <2>6 DEF Receive, SearchFinds, GoWild
    <3>2. Names("node")' = Found(q.filters)
      <4> DEFINE F == Found(q.filters)
      <4>1. reply' = {Says("node", i) : i \in F}
        BY <3>1
      <4> HIDE DEF F
      <4>2. \A i \in F : Says("node", i).says = "node" /\ Says("node", i).id = i
        BY DEF Says
      <4>3. Names("node")' = F
        BY <4>1, <4>2 DEF Names
      <4> QED BY <4>3 DEF F
    <3> QED BY <1>1, <2>4, <3>1, <3>2
  <2> QED BY <2>5, <2>6
<1> QED BY <1>2, <1>3, <1>4, <1>5 DEF HandlerNext

\* Whatever clients send, before or after, and whatever damage was done to the
\* file without leading astray: a response to receive names the nodes the
\* filters mean, of those the search looks at, and no other
\* (storageFindNodeByFilters).
THEOREM ReceivesAnswerWhatIsMeant == HandlerSpec => []AnswersAreMeant
<1>1. HandlerInit => AnsweredInv
  BY DEF HandlerInit, AnsweredInv, AnswersAreMeant
<1>2. AnsweredInv => AnswersAreMeant
  BY DEF AnsweredInv
<1> QED BY <1>1, <1>2, ServiceAlways, AnsweredStep, PTL DEF HandlerSpec

----------------------------------------------------------------------------
(* A delete answers for each node that was meant *)

\* Of the nodes that could be read when a query arrived the search finds all
\* that are meant.
LEMMA MeantAreFound ==
    ASSUME IdsInv, NEW q \in Queries, Arrives(q), ~ Refuses(q.filters)
    PROVE  /\ Answer(before', q.filters) \subseteq Found(q.filters)
           /\ (\A i \in Live : Readable(i)) => Answer(before', q.filters) = Found(q.filters)
<1> DEFINE nodes == [i \in Live |-> NodeOf(i)]
<1>1. Found(q.filters) = Answer(nodes, q.filters)
  BY QueryHasFilters, SearchIsRight
<1>2. /\ before' = [i \in {n \in Live : Readable(n)} |-> NodeOf(i)]
  BY DEF Arrives
<1>3. /\ DOMAIN before' = {n \in Live : Readable(n)} /\ DOMAIN nodes = Live
      /\ \A i \in DOMAIN before' : i \in Live /\ before'[i] = nodes[i]
  BY <1>2
<1> HIDE DEF nodes
<1> QED BY <1>1, <1>3 DEF Answer

DeletedSoFar ==
    query.command = "delete" /\ left # {} /\ ~ wild =>
        /\ Answer(before, query.filters)
             \subseteq left \cup Names("Removed successfully") \cup Names("Already removed")
        /\ Answer(before, query.filters) \cap Live \subseteq left
        /\ left \cap Names("Removed successfully") = {}
        /\ left \cap Names("Already removed") = {}
        /\ Names("Removed successfully") \cap Names("Already removed") = {}

\* The node at hand is off the list, is answered for and is not listed.
LEMMA NodeIsDeleted ==
    ASSUME ServiceInv, DeletedSoFar, DeleteNode, ~ wild'
    PROVE  /\ query' = query /\ before' = before /\ left' = left \ {Current}
           /\ Answer(before, query.filters)
                \subseteq left' \cup Names("Removed successfully")' \cup Names("Already removed")'
           /\ Answer(before, query.filters) \cap Live' \subseteq left'
           /\ left' \cap Names("Removed successfully")' = {}
           /\ left' \cap Names("Already removed")' = {}
           /\ Names("Removed successfully")' \cap Names("Already removed")' = {}
<1>1. /\ query' = query /\ before' = before /\ left' = left \ {Current}
      /\ left # {} /\ ~ wild /\ query.command = "delete"
  BY DEF DeleteNode, NodeDone, history
<1> DEFINE A == Answer(before, query.filters)
<1>2. /\ A \subseteq left \cup Names("Removed successfully") \cup Names("Already removed")
      /\ A \cap Live \subseteq left
  BY <1>1 DEF DeletedSoFar
<1>3. ASSUME NEW what, reply' = reply \cup {Says(what, Current)}
      PROVE  /\ Current \in Names(what)'
             /\ \A w : Names(w) \subseteq Names(w)'
  <2>1. Says(what, Current) \in reply' /\ Says(what, Current).says = what
        /\ Says(what, Current).id = Current
    BY <1>3 DEF Says
  <2> QED BY <1>3, <2>1 DEF Names
<1>4. /\ Current \in Names("Removed successfully")' \cup Names("Already removed")'
      /\ \A w : Names(w) \subseteq Names(w)'
  BY <1>3 DEF DeleteNode
<1>5. Live' \subseteq Live \ {Current}
  <2>1. CASE Current \in DOMAIN root /\ root[Current] = 0 /\ UNCHANGED vars
    BY <2>1 DEF vars, Live
  <2>2. CASE RemoveNode(Current)
    <3>1. ~ GoWild
      BY <1>1 DEF GoWild
    <3> QED BY <2>2, <3>1, RemoveNodeUnlists DEF ServiceInv, HandlerInv
  <2> QED BY <2>1, <2>2 DEF DeleteNode
<1>7. /\ left' \cap Names("Removed successfully")' = {}
      /\ left' \cap Names("Already removed")' = {}
      /\ Names("Removed successfully")' \cap Names("Already removed")' = {}
  <2>1. /\ left \cap Names("Removed successfully") = {}
        /\ left \cap Names("Already removed") = {}
        /\ Names("Removed successfully") \cap Names("Already removed") = {}
        /\ Current \in left
    BY <1>1, CurrentIs DEF DeletedSoFar, ServiceInv, HandlerInv, HandlerTypeOK
  <2>2. ASSUME NEW what, reply' = reply \cup {Says(what, Current)}
        PROVE  \A w : Names(w)' = IF w = what THEN Names(w) \cup {Current} ELSE Names(w)
    <3> DEFINE line == Says(what, Current)
    <3>1. line.says = what /\ line.id = Current
      BY DEF Says
    <3> HIDE DEF line
    <3> SUFFICES ASSUME NEW w
                 PROVE  Names(w)' = IF w = what THEN Names(w) \cup {Current} ELSE Names(w)
      OBVIOUS
    <3>2. reply' = reply \cup {line}
      BY <2>2 DEF line
    <3>3. CASE w = what
      <4>1. {l \in reply' : l.says = w} = {l \in reply : l.says = w} \cup {line}
        BY <3>1, <3>2, <3>3
      <4> QED BY <3>1, <3>3, <4>1 DEF Names
    <3>4. CASE w # what
      <4>1. {l \in reply' : l.says = w} = {l \in reply : l.says = w}
        BY <3>1, <3>2, <3>4
      <4> QED BY <3>4, <4>1 DEF Names
    <3> QED BY <3>3, <3>4
  <2>3. CASE reply' = reply \cup {Says("Removed successfully", Current)}
    <3>1. /\ Names("Removed successfully")' = Names("Removed successfully") \cup {Current}
          /\ Names("Already removed")' = Names("Already removed")
      BY <2>2, <2>3
    <3> QED BY <1>1, <2>1, <3>1
  <2>4. CASE reply' = reply \cup {Says("Already removed", Current)}
    <3>1. /\ Names("Removed successfully")' = Names("Removed successfully")
          /\ Names("Already removed")' = Names("Already removed") \cup {Current}
      BY <2>2, <2>4
    <3> QED BY <1>1, <2>1, <3>1
  <2> QED BY <2>3, <2>4 DEF DeleteNode
<1> HIDE DEF A
<1>6. /\ A \subseteq left' \cup Names("Removed successfully")' \cup Names("Already removed")'
      /\ A \cap Live' \subseteq left'
  BY <1>1, <1>2, <1>4, <1>5
<1> QED BY <1>1, <1>6, <1>7 DEF A

LEMMA DeletedStep == ServiceInv /\ DeletedSoFar /\ [HandlerNext]_allVars => DeletedSoFar'
<1> SUFFICES ASSUME ServiceInv, DeletedSoFar, [HandlerNext]_allVars PROVE DeletedSoFar'
  OBVIOUS
<1>1. CASE UNCHANGED allVars
  BY <1>1 DEF allVars, vars, service, history, DeletedSoFar, Names, Live
<1>2. CASE ApplySetting \/ RefuseSetting \/ FinishUpdate
  BY <1>2 DEF ApplySetting, RefuseSetting, FinishUpdate, DeletedSoFar
<1>3. CASE DeleteNode
  BY <1>3, NodeIsDeleted DEF DeletedSoFar
<1>4. CASE \E q \in Queries : Receive(q) \/ Insert(q)
  <2>1. query'.command # "delete"
    BY <1>4 DEF Receive, Insert, Arrives
  <2> QED BY <2>1 DEF DeletedSoFar
<1>5. CASE \E q \in Queries : Search(q)
  <2> SUFFICES ASSUME left' # {}, ~ wild' PROVE DeletedSoFar'
    BY DEF DeletedSoFar
  <2>1. PICK q \in Queries : Search(q)
    BY <1>5
  <2>2. Arrives(q) /\ query' = q /\ left = {}
    BY <2>1 DEF Search, Arrives, Idle
  <2>3. left' = Found(q.filters) /\ ~ Refuses(q.filters) /\ UNCHANGED vars
    BY <2>1, <2>2 DEF Search, SearchEndsIt, SearchFinds
  <2>4. Answer(before', q.filters) \subseteq left'
    BY <2>2, <2>3, MeantAreFound DEF ServiceInv
  <2>5. reply' = {}
    BY <2>1, <2>2 DEF Search, SearchEndsIt, SearchFinds
  <2>6. \A w : Names(w)' = {}
    BY <2>5 DEF Names
  <2> QED BY <2>2, <2>4, <2>6 DEF DeletedSoFar
<1> QED BY <1>1, <1>2, <1>3, <1>4, <1>5 DEF HandlerNext, Proceed

\* Whatever was done to the file before: when the loop of a delete ends without
\* going astray, each node that was meant when it arrived is reported removed or,
\* if an earlier removal took it along, already removed, never both, and none
\* of them is listed (handleQuery command 1, removeNode).
THEOREM DeletesAnswerForAll == HandlerSpec => DeletesAreAnswered
<1>1. HandlerInit => DeletedSoFar
  BY DEF HandlerInit, DeletedSoFar
<1>2. HandlerSpec => []DeletedSoFar
  BY <1>1, ServiceAlways, DeletedStep, PTL DEF HandlerSpec
<1> DEFINE P == query.command = "delete" /\ left # {} /\ left' = {} /\ ~ wild' =>
                  /\ Answer(before, query.filters)
                       \subseteq (Names("Removed successfully") \cup Names("Already removed"))'
                  /\ (Names("Removed successfully") \cap Names("Already removed"))' = {}
                  /\ Answer(before, query.filters) \cap Live' = {}
<1>3. ServiceInv /\ DeletedSoFar /\ [HandlerNext]_allVars => [P]_allVars
  <2> SUFFICES ASSUME ServiceInv, DeletedSoFar, HandlerNext,
                      query.command = "delete", left # {}, left' = {}, ~ wild'
               PROVE  P
    OBVIOUS
  <2>1. DeleteNode
    BY DEF HandlerNext, Proceed, Receive, Search, Insert, Arrives, Idle,
           ApplySetting, RefuseSetting, FinishUpdate
  <2>2. /\ Answer(before, query.filters)
             \subseteq left' \cup Names("Removed successfully")' \cup Names("Already removed")'
        /\ Answer(before, query.filters) \cap Live' \subseteq left'
        /\ Names("Removed successfully")' \cap Names("Already removed")' = {}
    BY <2>1, NodeIsDeleted
  <2> QED BY <2>2
<1> HIDE DEF P
<1>4. HandlerSpec => [][P]_allVars
  BY <1>2, <1>3, ServiceAlways, PTL DEF HandlerSpec
<1> QED BY <1>4 DEF P, DeletesAreAnswered

----------------------------------------------------------------------------
(* What was stored stays as it was asked for, while files are only loaded *)

\* Clients send no delete and update no text, whose storing is unsound.
OnlyLoads ==
    \A q \in Queries :
        /\ q.command # "delete"
        /\ q.command = "update" =>
              \A n \in DOMAIN q.settings : q.settings[n].key \notin TextKeys

Shows(node, key, value) ==
    IF key \in TextKeys THEN node.text[key[2]] = value.text
                        ELSE node.num[key[2]] = Word(key, value)

\* A node has what it was last given, of values that fit.
Kept(node, gave) ==
    \A key \in DOMAIN gave :
        key \in TemplateKeys /\ Fits(key, gave[key]) /\ Shows(node, key, gave[key])

\* The file keeps its shape, and what is worked off is listed.
LoadedFile == ~ wild => Loaded /\ left \subseteq Live

AskedInv == ~ wild => \A i \in Live : Kept(NodeOf(i), asked[i])

\* A key is the kind of field and its number.
LEMMA KeyIs ==
    ASSUME NEW key \in TemplateKeys
    PROVE  \/ key \in TextKeys /\ key \notin NumKeys /\ key[2] \in TextFields /\ key = <<"text", key[2]>>
           \/ key \in NumKeys /\ key \notin TextKeys /\ key[2] \in NumFields /\ key = <<"num", key[2]>>
BY DEF TemplateKeys, TextKeys, NumKeys

\* A new node has what the settings say.
LEMMA InsertKeeps ==
    ASSUME NEW q \in Queries, Insertable(q.settings), \A j \in TextKeys : Named(q.settings, j),
           NEW num \in [NumFields -> Scalars],
           \A k \in NumKeys : Named(q.settings, k) => num[k[2]] = Word(k, ValueFor(q.settings, k)),
           NEW parent
    PROVE  Kept([parent |-> parent,
                 text |-> [j \in TextFields |-> ValueFor(q.settings, <<"text", j>>).text],
                 num |-> num],
                [k \in {k \in TemplateKeys : Named(q.settings, k)} |-> ValueFor(q.settings, k)])
<1> DEFINE settings == q.settings
           text == [j \in TextFields |-> ValueFor(settings, <<"text", j>>).text]
           node == [parent |-> parent, text |-> text, num |-> num]
           gave == [k \in {k \in TemplateKeys : Named(settings, k)} |-> ValueFor(settings, k)]
<1>1. PICK n \in Nat : DOMAIN settings = 1 .. n
  BY QueryIsSeq
<1>2. \A m \in DOMAIN settings : Accepted(settings[m])
  BY DEF Insertable
<1>3. \A k \in NumKeys : Named(settings, k) => num[k[2]] = Word(k, ValueFor(settings, k))
  OBVIOUS
<1> HIDE DEF settings
<1>4. ASSUME NEW key \in TemplateKeys, Named(settings, key)
      PROVE  Fits(key, ValueFor(settings, key)) /\ Shows(node, key, ValueFor(settings, key))
  <2> DEFINE m == LastFor(settings, key)
  <2>1. m \in DOMAIN settings /\ settings[m].key = key
    BY <1>1, <1>4, LastForIs
  <2>2. Fits(key, settings[m].value)
    BY <1>2, <2>1 DEF Accepted
  <2>3. ValueFor(settings, key) = settings[m].value
    BY DEF ValueFor
  <2> HIDE DEF m
  <2>4. CASE key \in TextKeys
    <3>1. key[2] \in TextFields /\ key = <<"text", key[2]>>
      BY <2>4, KeyIs DEF TextKeys, NumKeys
    <3>2. node.text[key[2]] = ValueFor(settings, key).text
      BY <3>1
    <3> QED BY <2>2, <2>3, <2>4, <3>2 DEF Shows
  <2>5. CASE key \notin TextKeys
    <3>1. key \in NumKeys
      BY <2>5 DEF TemplateKeys
    <3>2. node.num[key[2]] = Word(key, ValueFor(settings, key))
      BY <1>3, <1>4, <3>1
    <3> QED BY <2>2, <2>3, <2>5, <3>2 DEF Shows
  <2> QED BY <2>4, <2>5
<1> HIDE DEF node
<1>5. DOMAIN gave = {k \in TemplateKeys : Named(settings, k)}
      /\ \A k \in DOMAIN gave : gave[k] = ValueFor(settings, k)
  OBVIOUS
<1> HIDE DEF gave
<1>6. Kept(node, gave)
  BY <1>4, <1>5 DEF Kept
<1> QED BY <1>6 DEF node, text, gave, settings

\* A scalar update changes the field it is for, and the node keeps the others.
LEMMA UpdateKeeps ==
    ASSUME NEW node, NEW gave, Kept(node, gave), NEW key \in NumKeys, NEW value, Fits(key, value),
           node.num \in [NumFields -> Scalars],
           NEW node2, node2.text = node.text,
           node2.num = [node.num EXCEPT ![key[2]] = Word(key, value)]
    PROVE  Kept(node2, [k \in DOMAIN gave \cup {key} |-> IF k = key THEN value ELSE gave[k]])
<1> DEFINE gave2 == [k \in DOMAIN gave \cup {key} |-> IF k = key THEN value ELSE gave[k]]
<1>1. key \in TemplateKeys /\ key[2] \in NumFields /\ key \notin TextKeys /\ key = <<"num", key[2]>>
  BY KeyIs DEF TemplateKeys, TextKeys, NumKeys
<1>2. node2.num[key[2]] = Word(key, value)
  BY <1>1
<1>3. DOMAIN gave2 = DOMAIN gave \cup {key}
      /\ \A k \in DOMAIN gave2 : gave2[k] = IF k = key THEN value ELSE gave[k]
  OBVIOUS
<1> HIDE DEF gave2
<1> SUFFICES ASSUME NEW k \in DOMAIN gave2
             PROVE  k \in TemplateKeys /\ Fits(k, gave2[k]) /\ Shows(node2, k, gave2[k])
  BY DEF Kept, gave2
<1>4. CASE k = key
  BY <1>1, <1>2, <1>3, <1>4 DEF Shows
<1>5. CASE k # key
  <2>1. gave2[k] = gave[k] /\ k \in TemplateKeys /\ Fits(k, gave[k]) /\ Shows(node, k, gave[k])
    BY <1>3, <1>5 DEF Kept
  <2>2. CASE k \in TextKeys
    BY <2>1, <2>2 DEF Shows
  <2>3. CASE k \notin TextKeys
    <3>1. k = <<"num", k[2]>> /\ k[2] \in NumFields
      BY <2>1, <2>3, KeyIs
    <3>2. k[2] # key[2]
      BY <1>1, <1>5, <3>1
    <3>3. node2.num[k[2]] = node.num[k[2]]
      BY <1>1, <3>1, <3>2
    <3> QED BY <2>1, <2>3, <3>3 DEF Shows
  <2> QED BY <2>2, <2>3
<1> QED BY <1>4, <1>5

\* While files are only loaded an update stores a number in a field of a node
\* of the file.
LEMMA ScalarIsStored ==
    ASSUME OnlyLoads, ServiceInv, LoadedFile, ApplySetting
    PROVE  LET s == query.settings[at]
           IN  /\ Current \in Live /\ left # {} /\ query \in Queries /\ query.command = "update"
               /\ s.key \in NumKeys /\ s.key[2] \in NumFields /\ Fits(s.key, s.value)
               /\ Word(s.key, s.value) \in Scalars
               /\ UpdateNum(Current, s.key[2], Word(s.key, s.value))
               /\ asked' = [asked EXCEPT ![Current] =
                              [k \in DOMAIN asked[Current] \cup {s.key} |->
                                 IF k = s.key THEN s.value ELSE asked[Current][k]]]
<1> DEFINE s == query.settings[at]
<1>1. /\ ~ wild /\ left # {} /\ query.command = "update"
      /\ at \in DOMAIN query.settings /\ Accepted(s)
      /\ IF s.key \in TextKeys
         THEN UpdateText(Current, s.key[2])
         ELSE UpdateNum(Current, s.key[2], Word(s.key, s.value))
      /\ asked' = [asked EXCEPT ![Current] =
                     [k \in DOMAIN asked[Current] \cup {s.key} |->
                        IF k = s.key THEN s.value ELSE asked[Current][k]]]
  BY DEF ApplySetting
<1>2. query \in Queries /\ s.key \notin TextKeys /\ StoresGiven(s)
  BY <1>1, QueryAssumption DEF ServiceInv, HandlerInv, OnlyLoads, IsQuery
<1>3. Current \in Live
  BY <1>1, CurrentIs DEF ServiceInv, HandlerTypeOK, LoadedFile
<1> HIDE DEF s
<1>4. s.key \in NumKeys /\ s.key[2] \in NumFields /\ Fits(s.key, s.value)
      /\ Word(s.key, s.value) \in Scalars
  BY <1>1, <1>2, KeyIs DEF Accepted, TemplateKeys, StoresGiven
<1> QED BY <1>1, <1>2, <1>3, <1>4 DEF s

\* An insert that changes anything adds a node with what the settings say.
LEMMA NodeIsAdded ==
    ASSUME NEW q \in Queries, Insert(q), ~ UNCHANGED <<vars, asked>>, ~ wild'
    PROVE  \E parent \in Parents, text \in [TextFields -> Given], num \in [NumFields -> Scalars] :
              LET gave == [k \in {k \in TemplateKeys : Named(q.settings, k)} |->
                             ValueFor(q.settings, k)]
              IN  /\ AddNode(parent, text, num)
                  /\ Kept([parent |-> parent, text |-> text, num |-> num], gave)
                  /\ asked' = [i \in DOMAIN asked \cup {curId} |->
                                 IF i = curId THEN gave ELSE asked[i]]
<1> DEFINE settings == q.settings
           parent == q.filters[1][1].value.int
           text == [j \in TextFields |-> ValueFor(settings, <<"text", j>>).text]
           gave == [k \in {k \in TemplateKeys : Named(settings, k)} |-> ValueFor(settings, k)]
<1>1. /\ q.command = "insert"
      /\ Insertable(settings) /\ \A j \in TextKeys : Named(settings, j)
      /\ \E num \in [NumFields -> Scalars] :
            /\ \A k \in NumKeys :
                  Named(settings, k) => num[k[2]] = Word(k, ValueFor(settings, k))
            /\ AddNode(parent, text, num)
      /\ asked' = [i \in DOMAIN asked \cup {curId} |-> IF i = curId THEN gave ELSE asked[i]]
  BY DEF Insert, GoWild
<1>2. PICK num \in [NumFields -> Scalars] :
         /\ \A k \in NumKeys :
               Named(settings, k) => num[k[2]] = Word(k, ValueFor(settings, k))
         /\ AddNode(parent, text, num)
  BY <1>1
<1>3. parent \in Parents
  BY <1>1, QueryAssumption DEF IsQuery
<1>4. text \in [TextFields -> Given]
  BY <1>1, InsertGives
<1>5. Kept([parent |-> parent, text |-> text, num |-> num], gave)
  BY <1>1, <1>2, InsertKeeps
<1> HIDE DEF parent, text, gave, settings
<1>6. \E p \in Parents, t \in [TextFields -> Given], n \in [NumFields -> Scalars] :
         /\ AddNode(p, t, n)
         /\ Kept([parent |-> p, text |-> t, num |-> n], gave)
         /\ asked' = [i \in DOMAIN asked \cup {curId} |-> IF i = curId THEN gave ELSE asked[i]]
  BY <1>1, <1>2, <1>3, <1>4, <1>5
<1> QED BY <1>6 DEF gave, settings

LEMMA LoadedFileStep ==
    ASSUME LinksKept, OnlyLoads
    PROVE  ServiceInv /\ LoadedFile /\ [HandlerNext]_allVars => LoadedFile'
<1> SUFFICES ASSUME ServiceInv, LoadedFile, [HandlerNext]_allVars, ~ wild' PROVE LoadedFile'
  BY DEF LoadedFile
<1>1. ~ wild
  BY DEF HandlerNext, Proceed, ApplySetting, RefuseSetting, FinishUpdate, DeleteNode,
         Receive, Search, Insert, Arrives, Idle, allVars, vars
<1>2. Loaded /\ left \subseteq Live
  BY <1>1 DEF LoadedFile
<1>3. ASSUME UNCHANGED vars, left' \subseteq Live PROVE LoadedFile'
  <2>1. Loaded' /\ Live' = Live
    BY <1>2, <1>3 DEF vars, Loaded, TypeOK, SchemaInFile, NeverWild, Full, Hole, Live
  <2> QED BY <1>3, <2>1 DEF LoadedFile
<1>4. CASE UNCHANGED allVars
  BY <1>2, <1>3, <1>4 DEF allVars, service
<1>5. CASE RefuseSetting \/ FinishUpdate
  BY <1>2, <1>3, <1>5 DEF RefuseSetting, FinishUpdate, NodeDone
<1>6. ASSUME DeleteNode PROVE FALSE
  BY <1>6 DEF DeleteNode, ServiceInv, HandlerInv, OnlyLoads
<1>7. CASE \E q \in Queries : Receive(q)
  <2>1. UNCHANGED <<vars, left>>
    BY <1>7 DEF Receive, SearchEndsIt, GoWild
  <2> QED BY <1>2, <1>3, <2>1
<1>8. CASE \E q \in Queries : Search(q)
  <2>1. PICK q \in Queries : UNCHANGED vars /\ (left' = left \/ left' = Found(q.filters))
    BY <1>8 DEF Search, SearchEndsIt, GoWild
  <2>2. Found(q.filters) \subseteq Live
    BY FoundListed DEF ServiceInv
  <2> QED BY <1>2, <1>3, <2>1, <2>2
<1>9. CASE ApplySetting
  <2>1. PICK id \in Live, field \in NumFields, value \in Scalars :
           UpdateNum(id, field, value) /\ left' = left
    BY <1>9, ScalarIsStored DEF ApplySetting
  <2>2. Loaded' /\ Live' = Live
    BY <1>2, <2>1, UpdateNumLoaded, UpdateNumNodes
  <2> QED BY <1>2, <2>1, <2>2 DEF LoadedFile
<1>10. CASE \E q \in Queries : Insert(q)
  <2>1. PICK q \in Queries : Insert(q)
    BY <1>10
  <2>2. left' = {} /\ left = {}
    BY <2>1 DEF Insert, Arrives, Idle
  <2>3. CASE UNCHANGED <<vars, asked>>
    BY <1>2, <1>3, <2>2, <2>3
  <2>4. CASE ~ UNCHANGED <<vars, asked>>
    <3>1. PICK parent \in Parents, text \in [TextFields -> Given], num \in [NumFields -> Scalars] :
             AddNode(parent, text, num)
      BY <2>1, <2>4, NodeIsAdded
    <3>2. Loaded'
      BY <1>2, <3>1, AddNodeLoaded
    <3> QED BY <2>2, <3>2 DEF LoadedFile
  <2> QED BY <2>3, <2>4
<1> QED BY <1>4, <1>5, <1>6, <1>7, <1>8, <1>9, <1>10 DEF HandlerNext, Proceed

LEMMA LoadedFileAlways == ASSUME LinksKept, OnlyLoads PROVE HandlerSpec => []LoadedFile
<1>1. HandlerInit => LoadedFile
  BY LoadedInit DEF HandlerInit, LoadedFile
<1> QED BY <1>1, ServiceAlways, LoadedFileStep, PTL DEF HandlerSpec

LEMMA AskedStep ==
    ASSUME NothingCut, OnlyLoads
    PROVE  ServiceInv /\ LoadedFile /\ AskedInv /\ [HandlerNext]_allVars => AskedInv'
<1> SUFFICES ASSUME ServiceInv, LoadedFile, AskedInv, [HandlerNext]_allVars, ~ wild'
             PROVE  AskedInv'
  BY DEF AskedInv
<1>1. ~ wild
  BY DEF HandlerNext, Proceed, ApplySetting, RefuseSetting, FinishUpdate, DeleteNode,
         Receive, Search, Insert, Arrives, Idle, allVars, vars
<1>2. Loaded /\ (\A i \in Live : Kept(NodeOf(i), asked[i])) /\ Live \subseteq DOMAIN asked
  BY <1>1 DEF LoadedFile, AskedInv, ServiceInv, HandlerTypeOK
<1>3. CASE UNCHANGED <<vars, asked>>
  <2>1. /\ Live' = Live /\ \A i \in Live : NodeOf(i)' = NodeOf(i) /\ asked'[i] = asked[i]
    BY <1>3 DEF vars, Live, NodeOf
  <2> QED BY <1>2, <2>1 DEF AskedInv
<1>4. CASE UNCHANGED allVars \/ RefuseSetting \/ FinishUpdate
  BY <1>3, <1>4 DEF allVars, history, RefuseSetting, FinishUpdate
<1>5. ASSUME DeleteNode PROVE FALSE
  BY <1>5 DEF DeleteNode, ServiceInv, HandlerInv, OnlyLoads
<1>6. CASE \E q \in Queries : Receive(q) \/ Search(q)
  BY <1>3, <1>6 DEF Receive, Search, SearchEndsIt, GoWild
<1>7. CASE ApplySetting
  <2>1. PICK id, key, value :
           /\ id \in Live /\ key \in NumKeys
           /\ key[2] \in NumFields /\ Fits(key, value) /\ Word(key, value) \in Scalars
           /\ UpdateNum(id, key[2], Word(key, value))
           /\ asked' = [asked EXCEPT ![id] = [k \in DOMAIN asked[id] \cup {key} |->
                                               IF k = key THEN value ELSE asked[id][k]]]
    <3> DEFINE s == query.settings[at]
    <3>1. /\ Current \in Live /\ s.key \in NumKeys
          /\ s.key[2] \in NumFields /\ Fits(s.key, s.value) /\ Word(s.key, s.value) \in Scalars
          /\ UpdateNum(Current, s.key[2], Word(s.key, s.value))
          /\ asked' = [asked EXCEPT ![Current] =
                         [k \in DOMAIN asked[Current] \cup {s.key} |->
                            IF k = s.key THEN s.value ELSE asked[Current][k]]]
      BY <1>7, ScalarIsStored
    <3> HIDE DEF s
    <3> QED BY <3>1
  <2> DEFINE node2 == [NodeOf(id) EXCEPT !.num = [@ EXCEPT ![key[2]] = Word(key, value)]]
             gave2 == [k \in DOMAIN asked[id] \cup {key} |-> IF k = key THEN value ELSE asked[id][k]]
  <2>2. /\ Live' = Live /\ \A i \in Live : i # id => NodeOf(i)' = NodeOf(i)
        /\ NodeOf(id).num \in [NumFields -> Scalars]
        /\ NodeOf(id)' = node2
    BY <1>2, <2>1, UpdateNumNodes
  <2>3. node2.text = NodeOf(id).text
        /\ node2.num = [NodeOf(id).num EXCEPT ![key[2]] = Word(key, value)]
    BY DEF NodeOf
  <2> HIDE DEF node2
  <2>4. Kept(node2, gave2)
    BY <1>2, <2>1, <2>2, <2>3, UpdateKeeps
  <2>5. asked'[id] = gave2 /\ \A i \in Live : i # id => asked'[i] = asked[i]
    BY <1>2, <2>1
  <2> HIDE DEF gave2
  <2> QED BY <1>2, <2>2, <2>4, <2>5 DEF AskedInv
<1>8. CASE \E q \in Queries : Insert(q)
  <2> SUFFICES ASSUME ~ UNCHANGED <<vars, asked>> PROVE AskedInv'
    BY <1>3
  <2>1. PICK parent, text, num, gave :
           /\ parent \in Parents /\ text \in [TextFields -> Given] /\ num \in [NumFields -> Scalars]
           /\ AddNode(parent, text, num)
           /\ Kept([parent |-> parent, text |-> text, num |-> num], gave)
           /\ asked' = [i \in DOMAIN asked \cup {curId} |-> IF i = curId THEN gave ELSE asked[i]]
    <3>1. PICK q \in Queries : Insert(q)
      BY <1>8
    <3> DEFINE given == [k \in {k \in TemplateKeys : Named(q.settings, k)} |->
                          ValueFor(q.settings, k)]
    <3>2. \E parent \in Parents, text \in [TextFields -> Given], num \in [NumFields -> Scalars] :
             /\ AddNode(parent, text, num)
             /\ Kept([parent |-> parent, text |-> text, num |-> num], given)
             /\ asked' = [i \in DOMAIN asked \cup {curId} |->
                            IF i = curId THEN given ELSE asked[i]]
      BY <3>1, NodeIsAdded
    <3> HIDE DEF given
    <3> QED BY <3>2
  <2> DEFINE node == [parent |-> parent, text |-> text, num |-> num]
  <2>2. /\ Live' = Live \cup {curId} /\ curId \notin Live
        /\ \A i \in Live : NodeOf(i)' = NodeOf(i)
        /\ NodeAt(file', root'[curId]) = node
    BY <1>2, <2>1, AddNodeGives
  <2>3. Kept(node, gave) /\ asked'[curId] = gave /\ \A i \in Live : asked'[i] = asked[i]
    BY <1>2, <2>1, <2>2
  <2> HIDE DEF node
  <2>4. ASSUME NEW i \in Live' PROVE Kept(NodeOf(i)', asked'[i])
    <3>1. CASE i = curId
      <4>1. NodeOf(i)' = node
        BY <2>2, <3>1 DEF NodeOf, NodeAt
      <4> QED BY <2>3, <3>1, <4>1
    <3>2. CASE i # curId
      BY <1>2, <2>2, <2>3, <3>2
    <3> QED BY <3>1, <3>2
  <2> QED BY <2>4 DEF AskedInv
<1> QED BY <1>4, <1>5, <1>6, <1>7, <1>8 DEF HandlerNext, Proceed

LEMMA AskedAlways ==
    ASSUME NothingCut, OnlyLoads PROVE HandlerSpec => [](LoadedFile /\ AskedInv)
<1>1. HandlerInit => AskedInv
  <2> SUFFICES ASSUME HandlerInit PROVE AskedInv
    OBVIOUS
  <2>1. Live = {}
    BY DEF HandlerInit, Init, Live
  <2> QED BY <2>1 DEF AskedInv
<1>2. HandlerSpec => []ServiceInv /\ []LoadedFile
  <2>1. LinksKept
    BY DEF NothingCut, LinksKept
  <2> QED BY <2>1, ServiceAlways, LoadedFileAlways
<1> QED BY <1>1, <1>2, AskedStep, PTL DEF HandlerSpec

\* Files that are only loaded, with nothing in the last bytes of units: whatever
\* inserts, scalar updates and searches come, and however the id array grows,
\* each field of each node has the value it was last given.
THEOREM LoadsAreStoredAsAsked ==
    ASSUME NothingCut, OnlyLoads PROVE HandlerSpec => []StoredAsAsked
<1>1. AskedInv => StoredAsAsked
  <2> SUFFICES ASSUME AskedInv, ~ wild, NEW i \in Live, NEW key \in DOMAIN asked[i]
               PROVE  IF key \in TextKeys
                      THEN NodeOf(i).text[key[2]] = asked[i][key].text
                      ELSE NodeOf(i).num[key[2]] =
                              IF asked[i][key].type = "FLOAT" /\ NumType[key[2]] = "FLOAT"
                              THEN asked[i][key].real ELSE asked[i][key].int
    BY DEF StoredAsAsked
  <2>1. key \in TemplateKeys /\ Fits(key, asked[i][key]) /\ Shows(NodeOf(i), key, asked[i][key])
    BY DEF AskedInv, Kept
  <2>2. key \in NumKeys /\ NumType[key[2]] = "FLOAT" => asked[i][key].type = "FLOAT"
    BY <2>1, KeyIs DEF Fits
  <2> QED BY <2>1, <2>2, KeyIs DEF Shows, Word
<1> QED BY <1>1, AskedAlways, PTL

----------------------------------------------------------------------------
(* What was stored is found *)

\* A receive is one that was sent, and it is refused for a name that is in no
\* template.
RefusedRightly ==
    query.command = "receive" =>
        /\ query \in Queries
        /\ ~ wild /\ reply = NoField =>
              \E n \in DOMAIN query.filters : \E m \in DOMAIN query.filters[n] :
                  query.filters[n][m].key \notin TemplateKeys

LEMMA RefusesUnknown ==
    ASSUME NEW filters, Refuses(filters)
    PROVE  \E n \in DOMAIN filters : \E m \in DOMAIN filters[n] : filters[n][m].key \notin TemplateKeys
<1>1. PICK i \in Scanned : RefusedAt(i, filters)
  BY DEF Refuses
<1>2. PICK key \in KeysRead(i, filters) : key \notin TemplateKeys
  BY <1>1 DEF RefusedAt
<1>3. PICK p \in UNION {{n} \X DOMAIN filters[n] : n \in DOMAIN filters} :
         key = filters[p[1]][p[2]].key
  BY <1>2 DEF KeysRead
<1>4. PICK n \in DOMAIN filters : p \in {n} \X DOMAIN filters[n]
  BY <1>3
<1>5. p[1] = n /\ p[2] \in DOMAIN filters[n]
  BY <1>4
<1> QED BY <1>2, <1>3, <1>5

LEMMA RefusedStep == AnsweredInv /\ RefusedRightly /\ [HandlerNext]_allVars => RefusedRightly'
<1> SUFFICES ASSUME AnsweredInv, RefusedRightly, [HandlerNext]_allVars PROVE RefusedRightly'
  OBVIOUS
<1>1. CASE UNCHANGED allVars
  BY <1>1 DEF allVars, vars, service, RefusedRightly
<1>2. CASE Proceed
  <2>1. query' = query /\ query.command # "receive"
    BY <1>2 DEF Proceed, ApplySetting, RefuseSetting, FinishUpdate, DeleteNode
  <2> QED BY <2>1 DEF RefusedRightly
<1>3. CASE \E q \in Queries : Search(q) \/ Insert(q)
  <2>1. query'.command # "receive"
    BY <1>3 DEF Search, Insert, Arrives
  <2> QED BY <2>1 DEF RefusedRightly
<1>4. CASE \E q \in Queries : Receive(q)
  <2>1. PICK q \in Queries : Receive(q) /\ query' = q
    BY <1>4 DEF Receive, Arrives
  <2> SUFFICES ASSUME ~ wild', reply' = NoField PROVE Refuses(q.filters)
    BY <2>1, RefusesUnknown DEF RefusedRightly
  <2>2. /\ Says("No Results", 0) # Says("At least one of your fields doesn't exist", 0)
        /\ \A i : Says("node", i) # Says("At least one of your fields doesn't exist", 0)
    <3>1. /\ Says("No Results", 0).says = "No Results"
          /\ Says("At least one of your fields doesn't exist", 0).says
               = "At least one of your fields doesn't exist"
          /\ \A i : Says("node", i).says = "node"
      BY DEF Says
    <3> QED BY <3>1
  <2>3. NoResults # NoField
    BY <2>2 DEF NoResults, NoField
  <2>4. CASE SearchEndsIt(q.filters)
    BY <2>3, <2>4 DEF SearchEndsIt, GoWild
  <2>5. CASE ~ SearchEndsIt(q.filters)
    <3>1. reply' = {Says("node", i) : i \in Found(q.filters)}
      BY <2>1, <2>5 DEF Receive, GoWild
    <3> QED BY <2>2, <3>1 DEF NoField
  <2> QED BY <2>4, <2>5
<1> QED BY <1>1, <1>2, <1>3, <1>4 DEF HandlerNext

\* With no FLOAT field, whose values are compared by their whole part: a receive
\* that asks for the value a field was given names the node, whatever came in
\* between (storageInsertNodeNew, storageUpdateNodeNew, storageFindNodeByFilters).
THEOREM LoadsAreFoundAgain ==
    ASSUME NothingCut, OnlyLoads, \A k \in NumFields : NumType[k] # "FLOAT"
    PROVE  HandlerSpec => []FoundAgain
<1>1. AskedInv /\ AnsweredInv /\ RefusedRightly /\ ServiceInv => FoundAgain
  <2> DEFINE c == query.filters[1][1]
             nodes == [i \in Live |-> NodeOf(i)]
  <2> SUFFICES ASSUME AskedInv, AnsweredInv, RefusedRightly, ServiceInv,
                      query.command = "receive", Len(query.filters) = 1,
                      Len(query.filters[1]) = 1, ~ wild, c.op = 0,
                      NEW i \in Live, i < TemplateSize,
                      c.key \in DOMAIN asked[i], asked[i][c.key] = c.value
               PROVE  i \in Names("node")
    BY DEF FoundAgain
  <2>0. c.key \in TemplateKeys /\ Fits(c.key, c.value) /\ Shows(NodeOf(i), c.key, c.value)
    BY DEF AskedInv, Kept
  <2>1. DOMAIN query.filters = {1} /\ DOMAIN query.filters[1] = {1}
    <3>1. AreFilters(query.filters)
      BY QueryHasFilters DEF RefusedRightly
    <3>2. DOMAIN query.filters = 1 .. 1
      BY <3>1 DEF AreFilters, IsList
    <3>3. DOMAIN query.filters[1] = 1 .. 1
      BY <3>1, <3>2 DEF AreFilters, IsList
    <3> QED BY <3>2, <3>3
  <2>2. reply # NoField
    BY <2>0, <2>1 DEF RefusedRightly
  <2>3. Names("node") = Answer(nodes, query.filters)
    BY <2>2 DEF AnsweredInv, AnswersAreMeant
  <2>4. Holds(NodeOf(i), c)
    <3>1. CASE c.key \in TextKeys
      <4>1. c.key \notin NumKeys /\ c.key # ParentKey
        BY <3>1 DEF TextKeys, NumKeys, ParentKey
      <4>2. NodeOf(i).text[c.key[2]] = c.value.text
        BY <2>0, <3>1 DEF Shows
      <4> QED BY <3>1, <4>1, <4>2 DEF Holds
    <3>2. CASE c.key \in NumKeys
      <4>1. c.key \notin TextKeys /\ c.key # ParentKey /\ c.key[2] \in NumFields
        BY <3>2 DEF TextKeys, NumKeys, ParentKey
      <4>2. NodeOf(i).num[c.key[2]] = c.value.int
        BY <2>0, <4>1 DEF Shows, Word
      <4>3. Compares(0, NodeOf(i).num[c.key[2]], c.value.int)
        BY <4>2 DEF Compares
      <4> QED BY <3>2, <4>1, <4>3 DEF Holds
    <3> QED BY <2>0, <3>1, <3>2 DEF TemplateKeys
  <2>5. Meant(nodes[i], query.filters)
    BY <2>1, <2>4 DEF Meant
  <2> QED BY <2>3, <2>5 DEF Answer
<1>2. HandlerInit => RefusedRightly /\ AnsweredInv
  BY DEF HandlerInit, RefusedRightly, AnsweredInv, AnswersAreMeant
<1> QED BY <1>1, <1>2, ServiceAlways, AskedAlways, AnsweredStep, RefusedStep, PTL DEF HandlerSpec

----------------------------------------------------------------------------
(* An update is one update *)

NodeRecord == [parent : Nat, text : [TextFields -> Texts], num : [NumFields -> Scalars]]

LEMMA MaxIs ==
    ASSUME NEW S \in SUBSET Nat, NEW x \in S, \A y \in S : x >= y
    PROVE  Max(S) = x
<1>1. \A z \in S : (\A y \in S : z >= y) => z = x
  OBVIOUS
<1> QED BY <1>1 DEF Max

LEMMA MinIs ==
    ASSUME NEW S \in SUBSET Nat, NEW x \in S, \A y \in S : x <= y
    PROVE  Min(S) = x
<1>1. \A z \in S : (\A y \in S : z <= y) => z = x
  OBVIOUS
<1> QED BY <1>1 DEF Min

\* The first settings of a list.
LEMMA PartIs ==
    ASSUME NEW s, IsList(s), NEW n \in 0 .. Len(s)
    PROVE  /\ DOMAIN SubSeq(s, 1, n) = 1 .. n
           /\ \A m \in 1 .. n : SubSeq(s, 1, n)[m] = s[m]
BY DEF IsList

\* One more setting counts for the field it is for, and for no other one.
LEMMA OneMore ==
    ASSUME NEW s, IsList(s), NEW n \in DOMAIN s, NEW key
    PROVE  LET p == SubSeq(s, 1, n - 1)
               q == SubSeq(s, 1, n)
           IN  /\ s[n].key = key => Named(q, key) /\ ValueFor(q, key) = s[n].value
               /\ s[n].key # key => /\ Named(q, key) <=> Named(p, key)
                                    /\ Named(p, key) => ValueFor(q, key) = ValueFor(p, key)
<1> DEFINE p == SubSeq(s, 1, n - 1)
           q == SubSeq(s, 1, n)
           P == {m \in DOMAIN p : p[m].key = key} \cup {0}
           Q == {m \in DOMAIN q : q[m].key = key} \cup {0}
<1>1. n \in Nat /\ n \in 1 .. Len(s) /\ n - 1 \in 0 .. Len(s) /\ n \in 0 .. Len(s) /\ n - 1 \in Nat
  BY DEF IsList
<1>2. /\ DOMAIN p = 1 .. n - 1 /\ \A m \in 1 .. n - 1 : p[m] = s[m]
      /\ DOMAIN q = 1 .. n /\ \A m \in 1 .. n : q[m] = s[m]
  BY <1>1, PartIs
<1> HIDE DEF p, q
<1>3. LastFor(p, key) = Max(P) /\ LastFor(q, key) = Max(Q)
  BY DEF LastFor
<1>4. CASE s[n].key = key
  <2>1. Q \in SUBSET Nat /\ n \in Q /\ \A m \in Q : n >= m
    BY <1>1, <1>2, <1>4
  <2> HIDE DEF Q
  <2>2. Max(Q) = n
    BY <2>1, MaxIs
  <2>3. LastFor(q, key) = n /\ n > 0 /\ q[n] = s[n]
    BY <1>1, <1>2, <1>3, <2>2
  <2>4. Named(q, key) /\ ValueFor(q, key) = s[n].value
    BY <2>3 DEF Named, ValueFor
  <2> QED BY <1>4, <2>4 DEF q
<1>5. CASE s[n].key # key
  <2>1. \A m \in 1 .. n : m # n => m \in 1 .. n - 1
    BY <1>1
  <2>2. 1 .. n - 1 \subseteq 1 .. n
    BY <1>1
  <2>3. Q = P
    BY <1>1, <1>2, <1>5, <2>1, <2>2
  <2>4. LastFor(q, key) = LastFor(p, key)
    BY <1>3, <2>3
  <2>5. ASSUME Named(p, key) PROVE ValueFor(q, key) = ValueFor(p, key)
    <3>1. LastFor(p, key) \in DOMAIN p
      BY <1>1, <1>2, <2>5, LastForIs
    <3> QED BY <1>2, <2>2, <2>4, <3>1 DEF ValueFor
  <2>6. Named(q, key) <=> Named(p, key)
    BY <2>4 DEF Named
  <2> QED BY <1>5, <2>5, <2>6 DEF p, q
<1> QED BY <1>4, <1>5

\* What settings make of a node.
LEMMA AppliedIs ==
    ASSUME NEW node \in NodeRecord, NEW settings
    PROVE  Applied(node, settings) =
             [parent |-> node.parent,
              text |-> [j \in TextFields |-> IF Named(settings, <<"text", j>>)
                                             THEN ValueFor(settings, <<"text", j>>).text
                                             ELSE node.text[j]],
              num |-> [k \in NumFields |-> IF Named(settings, <<"num", k>>)
                                           THEN Word(<<"num", k>>, ValueFor(settings, <<"num", k>>))
                                           ELSE node.num[k]]]
<1>1. ASSUME NEW num, NEW text, NEW r, r = [node EXCEPT !.num = num, !.text = text]
      PROVE  r = [parent |-> node.parent, text |-> text, num |-> num]
  <2>1. DOMAIN node = {"parent", "text", "num"}
    BY DEF NodeRecord
  <2>2. DOMAIN r = {"parent", "text", "num"} /\ r = [x \in DOMAIN r |-> r[x]]
    BY <1>1, <2>1
  <2>3. r.parent = node.parent /\ r.text = text /\ r.num = num
    BY <1>1, <2>1
  <2> QED BY <2>2, <2>3
<1> QED BY <1>1 DEF Applied

\* None make nothing of it.
LEMMA AppliedNone ==
    ASSUME NEW node \in NodeRecord, NEW s, IsList(s)
    PROVE  Applied(node, SubSeq(s, 1, 0)) = node
<1> DEFINE p == SubSeq(s, 1, 0)
<1>1. DOMAIN p = {}
  BY PartIs DEF IsList
<1> HIDE DEF p
<1>2. ASSUME NEW key PROVE ~ Named(p, key)
  <2>1. {m \in DOMAIN p : p[m].key = key} \cup {0} = {0}
    BY <1>1
  <2>2. Max({0}) = 0
    BY MaxIs
  <2> QED BY <2>1, <2>2 DEF Named, LastFor
<1> DEFINE text == [j \in TextFields |-> IF Named(p, <<"text", j>>)
                                         THEN ValueFor(p, <<"text", j>>).text
                                         ELSE node.text[j]]
           num  == [k \in NumFields |-> IF Named(p, <<"num", k>>)
                                        THEN Word(<<"num", k>>, ValueFor(p, <<"num", k>>))
                                        ELSE node.num[k]]
<1>3. text = node.text /\ num = node.num
  BY <1>2 DEF NodeRecord
<1>4. node = [parent |-> node.parent, text |-> node.text, num |-> node.num]
  BY DEF NodeRecord
<1>5. Applied(node, p) = [parent |-> node.parent, text |-> text, num |-> num]
  BY AppliedIs
<1> HIDE DEF text, num
<1> QED BY <1>3, <1>4, <1>5 DEF p

\* One more makes of it what updateNode does.
LEMMA AppliedNext ==
    ASSUME NEW node \in NodeRecord, NEW s, IsList(s), NEW n \in DOMAIN s, s[n].key \in NumKeys
    PROVE  Applied(node, SubSeq(s, 1, n)) =
             [Applied(node, SubSeq(s, 1, n - 1)) EXCEPT
                !.num = [@ EXCEPT ![s[n].key[2]] = Word(s[n].key, s[n].value)]]
<1> DEFINE p == SubSeq(s, 1, n - 1)
           q == SubSeq(s, 1, n)
           key == s[n].key
           Text(t) == [j \in TextFields |-> IF Named(t, <<"text", j>>)
                                            THEN ValueFor(t, <<"text", j>>).text
                                            ELSE node.text[j]]
           Num(t) == [k \in NumFields |-> IF Named(t, <<"num", k>>)
                                          THEN Word(<<"num", k>>, ValueFor(t, <<"num", k>>))
                                          ELSE node.num[k]]
<1>1. key[2] \in NumFields /\ key = <<"num", key[2]>> /\ key \notin TextKeys
  BY KeyIs DEF TemplateKeys, TextKeys, NumKeys
<1>2. /\ Named(q, key) /\ ValueFor(q, key) = s[n].value
      /\ \A k : k # key => /\ Named(q, k) <=> Named(p, k)
                           /\ Named(p, k) => ValueFor(q, k) = ValueFor(p, k)
  BY OneMore
<1> HIDE DEF p, q, key
<1>3. \A j \in TextFields : <<"text", j>> # key
  BY <1>1
<1>4. Text(q) = Text(p)
  BY <1>2, <1>3
<1>5. Num(q) = [Num(p) EXCEPT ![key[2]] = Word(key, s[n].value)]
  <2>1. \A k \in NumFields : k # key[2] => <<"num", k>> # key
    BY <1>1
  <2>2. \A k \in NumFields : k # key[2] => Num(q)[k] = Num(p)[k]
    BY <1>2, <2>1
  <2>3. Num(q)[key[2]] = Word(key, s[n].value)
    BY <1>1, <1>2
  <2> QED BY <1>1, <2>2, <2>3
<1>6. /\ Applied(node, p) = [parent |-> node.parent, text |-> Text(p), num |-> Num(p)]
      /\ Applied(node, q) = [parent |-> node.parent, text |-> Text(q), num |-> Num(q)]
  BY AppliedIs
<1> HIDE DEF Text, Num
<1>7. Applied(node, q) = [Applied(node, p) EXCEPT !.num = [@ EXCEPT ![key[2]] = Word(key, s[n].value)]]
  BY <1>4, <1>5, <1>6
<1> QED BY <1>7 DEF p, q, key

\* The nodes of a file that was only loaded can be read.
LEMMA LoadedReadable ==
    ASSUME Loaded, NEW i \in Live
    PROVE  Readable(i) /\ NodeOf(i) \in NodeRecord
<1> DEFINE t == file[root[i]]
<1>1. /\ curId \in Nat /\ i \in 0 .. curId - 1 /\ file \in Seq(Unit)
      /\ FirstNode(curId) \in Nat \ {0}
  <2>1. curId \in Nat
    BY DEF Loaded, TypeOK
  <2>2. FirstNode(curId) \in Nat \ {0}
    BY <2>1, UnitsBound DEF FirstNode
  <2> QED BY <2>1, <2>2, LoadedLive DEF Loaded, TypeOK
<1>2. /\ root[i] \in Place(file, FirstNode(curId), Hole) /\ t.kind = "tuple"
      /\ \A j \in TextFields : /\ t.text[j] \in Place(file, FirstNode(curId), Hole)
                               /\ file[t.text[j]].kind = "block" /\ file[t.text[j]].next = 0
  BY <1>1 DEF Loaded, Shape, Homes, Links, OwnBlock
<1>3. Place(file, FirstNode(curId), Hole) \subseteq DOMAIN file
  BY <1>1 DEF Place
<1>4. Readable(i)
  BY <1>2, <1>3 DEF Readable, ReadableText, IsTuple, IsBlock
<1>5. t \in Tuple
  BY <1>1, <1>2, <1>3, UnitKinds
<1>6. \A j \in TextFields : file[t.text[j]].text \in Texts
  <2> SUFFICES ASSUME NEW j \in TextFields PROVE file[t.text[j]].text \in Texts
    OBVIOUS
  <2>1. file[t.text[j]] \in Block
    BY <1>1, <1>2, <1>3, UnitKinds
  <2> QED BY <2>1 DEF Block
<1>7. NodeOf(i) = [parent |-> t.parent, text |-> [j \in TextFields |-> file[t.text[j]].text],
                   num |-> t.num]
  BY DEF NodeOf
<1>8. t.parent \in Nat /\ t.num \in [NumFields -> Scalars]
  BY <1>5 DEF Tuple
<1> HIDE DEF t
<1> QED BY <1>4, <1>6, <1>7, <1>8 DEF NodeRecord

\* The nodes an update is for, when it arrived, and those it is done with.
Due     == Answer(before, query.filters)
Updated == Names("Updated id")

\* The settings a node has got so far.
Done(i) ==
    IF i \in Updated THEN AcceptedPart(query.settings)
    ELSE IF i \in left /\ i = Current THEN SubSeq(query.settings, 1, at - 1)
    ELSE SubSeq(query.settings, 1, 0)

UpdatedSoFar ==
    query.command = "update" /\ left # {} /\ ~ wild =>
        /\ left \subseteq Due /\ Updated = Due \ left
        /\ DOMAIN before = Live
        /\ \A n \in 1 .. at - 1 : Accepted(query.settings[n])
        /\ \A i \in Live : before[i] \in NodeRecord /\ NodeOf(i) = Applied(before[i], Done(i))

\* A node is finished when the settings end or one is not accepted.
LEMMA PartIsAccepted ==
    ASSUME NEW s, IsList(s), NEW n \in 1 .. Len(s) + 1, \A m \in 1 .. n - 1 : Accepted(s[m]),
           n \notin DOMAIN s \/ ~ Accepted(s[n])
    PROVE  AcceptedPart(s) = SubSeq(s, 1, n - 1)
<1> DEFINE B == {m \in DOMAIN s : ~ Accepted(s[m])} \cup {Len(s) + 1}
<1>1. Len(s) \in Nat /\ DOMAIN s = 1 .. Len(s)
  BY DEF IsList
<1>2. n \in B /\ B \in SUBSET Nat /\ n \in Nat
  BY <1>1
<1>3. \A m \in B : n <= m
  <2> SUFFICES ASSUME NEW m \in B, ~ (n <= m) PROVE FALSE
    OBVIOUS
  <2>1. m \in 1 .. n - 1 /\ m \in DOMAIN s
    BY <1>1, <1>2
  <2>2. m # Len(s) + 1
    BY <1>1, <2>1
  <2> QED BY <2>1, <2>2
<1> HIDE DEF B
<1>4. Min(B) = n
  BY <1>2, <1>3, MinIs
<1> QED BY <1>4 DEF AcceptedPart, B

\* The node at hand is off the list and updated: it has what is accepted.
LEMMA NodeIsUpdated ==
    ASSUME ServiceInv, LoadedFile, UpdatedSoFar, RefuseSetting \/ FinishUpdate
    PROVE  /\ query' = query /\ before' = before /\ left' = left \ {Current} /\ at' = 1
           /\ UNCHANGED vars /\ left \subseteq Due /\ Updated' = Due \ left'
           /\ DOMAIN before = Live
           /\ \A i \in Live :
                 /\ before[i] \in NodeRecord
                 /\ i \in Updated' => NodeOf(i) = Applied(before[i], AcceptedPart(query.settings))
                 /\ i \notin Updated' => NodeOf(i) = before[i]
<1> DEFINE s == query.settings
<1>1. /\ query' = query /\ before' = before /\ left' = left \ {Current} /\ at' = 1
      /\ left # {} /\ ~ wild /\ query.command = "update" /\ UNCHANGED vars
      /\ at \notin DOMAIN s \/ ~ Accepted(s[at])
  BY DEF RefuseSetting, FinishUpdate, NodeDone, history
<1>2. /\ left \subseteq Due /\ Updated = Due \ left /\ DOMAIN before = Live
      /\ \A n \in 1 .. at - 1 : Accepted(s[n])
      /\ \A i \in Live : before[i] \in NodeRecord /\ NodeOf(i) = Applied(before[i], Done(i))
  BY <1>1 DEF UpdatedSoFar
<1>3. IsList(s) /\ at \in 1 .. Len(s) + 1 /\ Current \in left
  BY <1>1, CurrentIs DEF ServiceInv, HandlerTypeOK, SettingsSeq, IsList
<1> HIDE DEF s
<1>4. AcceptedPart(s) = SubSeq(s, 1, at - 1)
  BY <1>1, <1>2, <1>3, PartIsAccepted
<1>5. Updated' = Updated \cup {Current}
  <2>1. reply' = reply \cup {Says("Updated id", Current)}
          \/ reply' = reply \cup {Says("Error code", Current), Says("Updated id", Current)}
    BY DEF RefuseSetting, FinishUpdate
  <2>2. /\ \A w : Says(w, Current).says = w /\ Says(w, Current).id = Current
    BY DEF Says
  <2>3. {l \in reply' : l.says = "Updated id"}
          = {l \in reply : l.says = "Updated id"} \cup {Says("Updated id", Current)}
    BY <2>1, <2>2
  <2> DEFINE line == Says("Updated id", Current)
             S == {l \in reply : l.says = "Updated id"}
             T == {l \in reply' : l.says = "Updated id"}
  <2>4. Updated = {l.id : l \in S} /\ Updated' = {l.id : l \in T}
    BY DEF Updated, Names
  <2>5. T = S \cup {line} /\ line.id = Current
    BY <2>2, <2>3
  <2> HIDE DEF S, T, line
  <2> QED BY <2>4, <2>5
<1>6. Updated' = Due \ left'
  BY <1>1, <1>2, <1>3, <1>5
<1>7. ASSUME NEW i \in Live
      PROVE  /\ i \in Updated' => NodeOf(i) = Applied(before[i], AcceptedPart(s))
             /\ i \notin Updated' => NodeOf(i) = before[i]
  <2>1. NodeOf(i) = Applied(before[i], Done(i)) /\ before[i] \in NodeRecord
    BY <1>2
  <2>2. CASE i \in Updated
    BY <1>5, <2>1, <2>2 DEF Done, s
  <2>3. CASE i \notin Updated /\ i = Current
    BY <1>3, <1>4, <1>5, <2>1, <2>3 DEF Done, s
  <2>4. CASE i \notin Updated /\ i # Current
    <3>1. Done(i) = SubSeq(s, 1, 0)
      BY <2>4 DEF Done, s
    <3> QED BY <1>3, <1>5, <2>1, <2>4, <3>1, AppliedNone
  <2> QED BY <2>2, <2>3, <2>4
<1> QED BY <1>1, <1>2, <1>6, <1>7 DEF s

\* The setting at hand is the next one the node at hand got.
LEMMA SettingIsApplied ==
    ASSUME OnlyLoads, ServiceInv, LoadedFile, UpdatedSoFar, ApplySetting
    PROVE  UpdatedSoFar'
<1> DEFINE s == query.settings
<1>1. PICK id : id = Current
  OBVIOUS
<1>2. PICK n : n = at
  OBVIOUS
<1>3. /\ query' = query /\ before' = before /\ left' = left /\ reply' = reply /\ at' = n + 1
      /\ left # {} /\ ~ wild /\ query.command = "update"
      /\ n \in DOMAIN s /\ Accepted(s[n])
  BY <1>2 DEF ApplySetting
<1>4. /\ id \in Live /\ s[n].key \in NumKeys /\ s[n].key[2] \in NumFields
      /\ Word(s[n].key, s[n].value) \in Scalars
      /\ UpdateNum(id, s[n].key[2], Word(s[n].key, s[n].value))
  BY <1>1, <1>2, ScalarIsStored
<1>5. /\ left \subseteq Due /\ Updated = Due \ left /\ DOMAIN before = Live
      /\ \A m \in 1 .. n - 1 : Accepted(s[m])
      /\ \A i \in Live : before[i] \in NodeRecord /\ NodeOf(i) = Applied(before[i], Done(i))
  BY <1>2, <1>3 DEF UpdatedSoFar
<1>6. IsList(s) /\ n \in Nat /\ n \in 1 .. Len(s) /\ id \in left
  BY <1>1, <1>3, CurrentIs DEF ServiceInv, HandlerTypeOK, SettingsSeq, IsList
<1>7. Due' = Due /\ Updated' = Updated /\ s' = s /\ id = Current'
  BY <1>1, <1>3 DEF Due, Updated, Names, Current
<1> DEFINE key == s[n].key
           word == Word(s[n].key, s[n].value)
<1>8. /\ UNCHANGED wild /\ Live' = Live
      /\ \A i \in Live : i # id => NodeOf(i)' = NodeOf(i)
      /\ NodeOf(id)' = [NodeOf(id) EXCEPT !.num = [@ EXCEPT ![key[2]] = word]]
  BY <1>3, <1>4, UpdateNumNodes DEF LoadedFile
<1>9. \A m \in 1 .. n + 1 - 1 : Accepted(s[m])
  <2>1. \A m \in 1 .. n + 1 - 1 : m = n \/ m \in 1 .. n - 1
    BY <1>6
  <2> QED BY <1>3, <1>5, <2>1
<1>10. id \notin Updated
  BY <1>5, <1>6
<1>11. NodeOf(id)' = Applied(before[id], SubSeq(s, 1, n))
  <2>1. Done(id) = SubSeq(s, 1, n - 1)
    BY <1>1, <1>2, <1>6, <1>10 DEF Done
  <2>2. NodeOf(id) = Applied(before[id], SubSeq(s, 1, n - 1))
    BY <1>4, <1>5, <2>1
  <2>3. before[id] \in NodeRecord
    BY <1>4, <1>5
  <2> HIDE DEF s
  <2>4. Applied(before[id], SubSeq(s, 1, n)) =
          [Applied(before[id], SubSeq(s, 1, n - 1)) EXCEPT !.num = [@ EXCEPT ![key[2]] = word]]
    <3>1. IsList(s) /\ n \in DOMAIN s /\ s[n].key \in NumKeys
      BY <1>3, <1>4, <1>6
    <3> QED BY <2>3, <3>1, AppliedNext
  <2> QED BY <1>8, <2>2, <2>4
<1>12. ASSUME NEW i \in Live PROVE NodeOf(i)' = Applied(before[i], Done(i)')
  <2>1. CASE i = id
    <3>1. Done(i)' = SubSeq(s, 1, n + 1 - 1) /\ n + 1 - 1 = n
      BY <1>3, <1>6, <1>7, <1>10, <2>1 DEF Done
    <3> QED BY <1>11, <2>1, <3>1
  <2>2. CASE i # id
    <3>1. Done(i)' = Done(i)
      BY <1>1, <1>3, <1>7, <2>2 DEF Done
    <3> QED BY <1>5, <1>8, <2>2, <3>1
  <2> QED BY <2>1, <2>2
<1>13. /\ left' \subseteq Due' /\ Updated' = Due' \ left' /\ DOMAIN before' = Live'
       /\ \A m \in 1 .. at' - 1 : Accepted(query'.settings[m])
  <2>0. at' = n + 1 /\ query' = query
    BY <1>3
  <2>1. \A m : m \in 1 .. at' - 1 <=> m \in 1 .. n + 1 - 1
    BY <1>6, <2>0
  <2>2. \A m : query'.settings[m] = s[m]
    BY <2>0
  <2>3. \A m \in 1 .. at' - 1 : Accepted(s[m])
    BY <1>9, <2>1
  <2>4. \A m \in 1 .. at' - 1 : Accepted(query'.settings[m])
    BY <2>2, <2>3
  <2> QED BY <1>3, <1>5, <1>7, <1>8, <2>4
<1>14. \A i \in Live' : before'[i] \in NodeRecord /\ NodeOf(i)' = Applied(before'[i], Done(i)')
  BY <1>3, <1>5, <1>8, <1>12
<1> QED BY <1>13, <1>14 DEF UpdatedSoFar

LEMMA UpdatedStep ==
    ASSUME LinksKept, OnlyLoads
    PROVE  ServiceInv /\ LoadedFile /\ UpdatedSoFar /\ [HandlerNext]_allVars => UpdatedSoFar'
<1> SUFFICES ASSUME ServiceInv, LoadedFile, UpdatedSoFar, [HandlerNext]_allVars
             PROVE  UpdatedSoFar'
  OBVIOUS
<1>1. CASE UNCHANGED allVars
  <2>1. /\ query' = query /\ left' = left /\ at' = at /\ reply' = reply /\ before' = before
        /\ UNCHANGED vars
    BY <1>1 DEF allVars, service, history
  <2> QED BY <2>1 DEF vars, UpdatedSoFar, Due, Updated, Names, Live, NodeOf, Done, Current
<1>2. CASE ApplySetting
  BY <1>2, SettingIsApplied
<1>3. CASE RefuseSetting \/ FinishUpdate
  <2> SUFFICES ASSUME left' # {}, ~ wild', query'.command = "update" PROVE UpdatedSoFar'
    BY DEF UpdatedSoFar
  <2>1. /\ query' = query /\ before' = before /\ left' = left \ {Current} /\ at' = 1
        /\ UNCHANGED vars /\ left \subseteq Due /\ Updated' = Due \ left'
        /\ DOMAIN before = Live
        /\ \A i \in Live :
              /\ before[i] \in NodeRecord
              /\ i \in Updated' => NodeOf(i) = Applied(before[i], AcceptedPart(query.settings))
              /\ i \notin Updated' => NodeOf(i) = before[i]
    BY <1>3, NodeIsUpdated
  <2>2. Live' = Live /\ Due' = Due /\ \A i \in Live : NodeOf(i)' = NodeOf(i)
    BY <2>1 DEF vars, Live, Due, NodeOf
  <2>3. IsList(query.settings)
    BY DEF ServiceInv, SettingsSeq, IsList
  <2>4. ASSUME NEW i \in Live PROVE NodeOf(i)' = Applied(before'[i], Done(i)')
    <3>1. CASE i \in Updated'
      <4>1. Done(i)' = AcceptedPart(query.settings)
        BY <2>1, <3>1 DEF Done
      <4> QED BY <2>1, <2>2, <3>1, <4>1
    <3>2. CASE i \notin Updated'
      <4>1. Done(i)' = SubSeq(query.settings, 1, 0)
        BY <2>1, <3>2 DEF Done
      <4> QED BY <2>1, <2>2, <2>3, <3>2, <4>1, AppliedNone
    <3> QED BY <3>1, <3>2
  <2>5. \A m \in 1 .. at' - 1 : FALSE
    BY <2>1
  <2> QED BY <2>1, <2>2, <2>4, <2>5 DEF UpdatedSoFar
<1>4. CASE DeleteNode \/ \E q \in Queries : Receive(q) \/ Insert(q)
  <2>1. query'.command # "update"
    BY <1>4 DEF DeleteNode, Receive, Insert, Arrives
  <2> QED BY <2>1 DEF UpdatedSoFar
<1>5. CASE \E q \in Queries : Search(q)
  <2> SUFFICES ASSUME left' # {}, ~ wild' PROVE UpdatedSoFar'
    BY DEF UpdatedSoFar
  <2>1. PICK q \in Queries : Search(q)
    BY <1>5
  <2>2. /\ Arrives(q) /\ query' = q /\ left = {} /\ at' = 1 /\ ~ wild
        /\ before' = [i \in {n \in Live : Readable(n)} |-> NodeOf(i)]
    BY <2>1 DEF Search, Arrives, Idle
  <2>3. left' = Found(q.filters) /\ ~ Refuses(q.filters) /\ UNCHANGED vars /\ reply' = {}
    BY <2>1, <2>2 DEF Search, SearchEndsIt, SearchFinds
  <2>4. \A i \in Live : Readable(i) /\ NodeOf(i) \in NodeRecord
    BY <2>2, LoadedReadable DEF LoadedFile
  <2>5. Due' = left'
    BY <2>2, <2>3, <2>4, MeantAreFound DEF ServiceInv, Due
  <2>6. Updated' = {}
    BY <2>3 DEF Updated, Names
  <2>7. /\ Live' = Live /\ DOMAIN before' = Live
        /\ \A i \in Live : NodeOf(i)' = NodeOf(i) /\ before'[i] = NodeOf(i)
    BY <2>2, <2>3, <2>4 DEF vars, Live, NodeOf
  <2>8. IsList(q.settings)
    BY QueryAssumption DEF IsQuery
  <2>9. ASSUME NEW i \in Live PROVE NodeOf(i)' = Applied(before'[i], Done(i)')
    <3>1. Done(i)' = SubSeq(q.settings, 1, 0)
      BY <2>2, <2>6 DEF Done
    <3> QED BY <2>4, <2>7, <2>8, <3>1, AppliedNone
  <2>10. \A m \in 1 .. at' - 1 : FALSE
    BY <2>2
  <2> QED BY <2>4, <2>5, <2>6, <2>7, <2>9, <2>10 DEF UpdatedSoFar
<1> QED BY <1>1, <1>2, <1>3, <1>4, <1>5 DEF HandlerNext, Proceed

\* While files are only loaded an update of many nodes is one update: those that
\* were meant when it arrived get the settings up to the first refused one, and
\* every other node keeps what it had (handleQuery command 3).
THEOREM UpdatesAreOne == ASSUME LinksKept, OnlyLoads PROVE HandlerSpec => UpdatesAreUniform
<1>1. HandlerInit => UpdatedSoFar
  BY DEF HandlerInit, UpdatedSoFar
<1>2. HandlerSpec => []UpdatedSoFar
  BY <1>1, ServiceAlways, LoadedFileAlways, UpdatedStep, PTL DEF HandlerSpec
<1> DEFINE P == query.command = "update" /\ left # {} /\ left' = {} /\ ~ wild' =>
                  LET chosen == Names("Updated id")'
                  IN  /\ chosen = Answer(before, query.filters)
                      /\ \A i \in DOMAIN before :
                            NodeOf(i)' = IF i \in chosen
                                         THEN Applied(before[i], AcceptedPart(query.settings))
                                         ELSE before[i]
<1>3. ServiceInv /\ LoadedFile /\ UpdatedSoFar /\ [HandlerNext]_allVars => [P]_allVars
  <2> SUFFICES ASSUME ServiceInv, LoadedFile, UpdatedSoFar, HandlerNext,
                      query.command = "update", left # {}, left' = {}, ~ wild'
               PROVE  P
    OBVIOUS
  <2>1. RefuseSetting \/ FinishUpdate
    BY DEF HandlerNext, Proceed, Receive, Search, Insert, Arrives, Idle, ApplySetting, DeleteNode
  <2>2. /\ UNCHANGED vars /\ Updated' = Due \ left' /\ DOMAIN before = Live
        /\ \A i \in Live :
              /\ i \in Updated' => NodeOf(i) = Applied(before[i], AcceptedPart(query.settings))
              /\ i \notin Updated' => NodeOf(i) = before[i]
    BY <2>1, NodeIsUpdated
  <2>3. \A i \in Live : NodeOf(i)' = NodeOf(i)
    BY <2>2 DEF vars, NodeOf
  <2>4. Names("Updated id")' = Updated' /\ Updated' = Answer(before, query.filters)
    BY <2>2 DEF Updated, Due
  <2>5. \A i \in DOMAIN before :
           NodeOf(i)' = IF i \in Updated' THEN Applied(before[i], AcceptedPart(query.settings))
                                          ELSE before[i]
    BY <2>2, <2>3
  <2> QED BY <2>4, <2>5
<1> HIDE DEF P
<1>4. HandlerSpec => [][P]_allVars
  BY <1>2, <1>3, ServiceAlways, LoadedFileAlways, PTL DEF HandlerSpec
<1> QED BY <1>4 DEF P, UpdatesAreUniform
=============================================================================
