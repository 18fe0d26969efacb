---------------------------- MODULE QueryBuilder ----------------------------
(***************************************************************************)
(* The client's side of a query: the actions of the grammar in main.y      *)
(* build the global `query` while a statement is parsed, sendData turns it *)
(* into a message and empties it.  A step is what the parser does between  *)
(* two points where it needs the next token; `at` is the point it is at.   *)
(* A statement may break off at every one of them: yyparse returns, main   *)
(* calls it again, and it drops tokens up to the next STORAGE.             *)
(*                                                                         *)
(* A comparator or a setting is a value of its own here: what it says does *)
(* not matter, only where it ends up.                                      *)
(***************************************************************************)
EXTENDS Naturals, Sequences, FiniteSets, SequencesExt

CONSTANTS
    Comparators,    \* field, operator and value of a simple filter
    Settings,       \* field and value of $set or of an inserted node
    NoComparator,   \* no comparator is connected
    OrDepth,        \* bound: how deep $or is nested
    MaxFilters,     \* bound: filters of a statement
    MaxSettings,    \* bound: settings of a statement
    MaxStale        \* bound: what broken statements leave behind, per list

ASSUME NoComparatorAssumption == NoComparator \notin Comparators

VARIABLES
    at,         \* where the parser is in a statement
    command,    \* the statement's command
    filters,    \* query.filtersList, from its head, without the spare filter
    settings,   \* query.settingsList, from its head
    cmp,        \* the comparators read and not yet in a filter, the last one first
    commas,     \* filters of this statement that wait below the current one
    ors,        \* the $or brackets that are open: "first" or "second" filter
    sent,       \* the messages of the last sendData: none, one
    typed,      \* history: what the statement said so far
    stale       \* history: what `query` and cmp held when the statement began
building == <<filters, settings, cmp>>
parsing  == <<at, command, commas, ors>>
vars     == <<building, parsing, sent, typed, stale>>

Now   == [filters |-> filters, settings |-> settings, cmp |-> cmp]
None  == [filters |-> <<>>, settings |-> <<>>, cmp |-> <<>>]
Blank == [filters |-> << {} >>, settings |-> <<>>]

----------------------------------------------------------------------------
(* The functions the grammar calls *)

Entry(c) == [comparator |-> c, connected |-> NoComparator]

\* setCurOper and setCurVal.
Pushed(c) == <<Entry(c)>> \o cmp

\* Mutant of Connected: the second filter of $or keeps what is below both.
ConnectedKept == <<[cmp[1] EXCEPT !.connected = cmp[2].comparator]>> \o Tail(cmp)

\* setComp: the two comparators of $or become one entry.
Connected == <<[cmp[1] EXCEPT !.connected = cmp[2].comparator]>> \o Tail(Tail(cmp))

\* Mutant of FilterOf: `connected` is not looked at.
FilterOfBoth(entry) == <<entry.comparator, entry.connected>>

\* switchFilter: the filter an entry of cmp becomes.
FilterOf(entry) ==
    IF entry.connected = NoComparator
    THEN <<entry.comparator>> ELSE <<entry.comparator, entry.connected>>

\* Mutant of Switched: filters are appended to the list.
SwitchedBehind(n) == filters \o [i \in 1 .. n |-> FilterOf(cmp[n + 1 - i])]

\* switchFilter n times: each takes the head of cmp and puts its filter at the
\* head of the list (behind the spare one).
Switched(n) == [i \in 1 .. n |-> FilterOf(cmp[n + 1 - i])] \o filters

Unswitched(n) == SubSeq(cmp, n + 1, Len(cmp))

\* addValSetting: a setting goes to the head of the list.
Added(s) == <<s>> \o settings

\* `filters` is reduced from its last filter to its first, once it is known
\* that no comma follows; the parser does so before it reports an error.
FiltersReduced ==
    /\ filters' = Switched(commas + 1)
    /\ cmp' = Unswitched(commas + 1)
    /\ commas' = 0

----------------------------------------------------------------------------
(* Reading a statement *)

\* STORAGE, the command and the opening brackets.
Begin(c) ==
    /\ at = "start"
    /\ command' = c
    /\ at' = IF c = "insert" THEN "parent" ELSE "filter"
    /\ typed' = Blank
    /\ stale' = Now
    /\ sent' = <<>>
    /\ UNCHANGED <<building, commas, ors>>

\* STRING COLON value, STRING COLON operation.
ReadFilter(c) ==
    /\ at = "filter"
    /\ cmp' = Pushed(c)
    /\ at' = "filterRead"
    /\ typed' = [typed EXCEPT !.filters[Len(typed.filters)] = @ \cup {c}]
    /\ UNCHANGED <<filters, settings, command, commas, ors, sent, stale>>

\* DOLLAR OR OP_SQ_BRACE.
OpenOr ==
    /\ at = "filter"
    /\ Len(ors) < OrDepth
    /\ ors' = Append(ors, "first")
    /\ UNCHANGED <<building, at, command, commas, sent, typed, stale>>

\* COMMA, between the filters of $or or of the statement.
NextFilter ==
    /\ at = "filterRead"
    /\ at' = "filter"
    /\ \/ /\ ors # <<>> /\ Last(ors) = "first"
          /\ ors' = Append(Front(ors), "second")
          /\ UNCHANGED <<commas, typed>>
       \/ /\ ors = <<>>
          /\ Len(typed.filters) < MaxFilters
          /\ commas' = commas + 1
          /\ typed' = [typed EXCEPT !.filters = Append(@, {})]
          /\ UNCHANGED ors
    /\ UNCHANGED <<building, command, sent, stale>>

\* CL_SQ_BRACE.
CloseOr ==
    /\ at = "filterRead"
    /\ ors # <<>> /\ Last(ors) = "second"
    /\ cmp' = Connected
    /\ ors' = Front(ors)
    /\ UNCHANGED <<filters, settings, at, command, commas, sent, typed, stale>>

\* CL_C_BRACE after the filters; an update goes on with $set.
EndFilters ==
    /\ at = "filterRead" /\ ors = <<>>
    /\ FiltersReduced
    /\ at' = IF command = "update" THEN "setting" ELSE "end"
    /\ UNCHANGED <<settings, command, ors, sent, typed, stale>>

\* parent_def is reduced with its closing bracket.
ReadParent(c) ==
    /\ at = "parent"
    /\ filters' = <<FilterOf(Entry(c))>> \o filters
    /\ typed' = [typed EXCEPT !.filters = << {c} >>]
    /\ at' = "setting"
    /\ UNCHANGED <<settings, cmp, command, commas, ors, sent, stale>>

\* set_val.
ReadSetting(s) ==
    /\ at = "setting"
    /\ settings' = Added(s)
    /\ typed' = [typed EXCEPT !.settings = Append(@, s)]
    /\ at' = "settingRead"
    /\ UNCHANGED <<filters, cmp, command, commas, ors, sent, stale>>

\* COMMA, or the bracket that ends the settings.
AfterSetting ==
    /\ at = "settingRead"
    /\ \/ at' = "setting" /\ Len(typed.settings) < MaxSettings
       \/ at' = "end"
    /\ UNCHANGED <<building, command, commas, ors, sent, typed, stale>>

\* Mutant of Emptied: the filters of a query stay.
FiltersStay == filters' = filters /\ settings' = <<>>

\* parseQuery takes both lists apart while it copies them.
Emptied == filters' = <<>> /\ settings' = <<>>

\* The last bracket: setCommand, and sendData with the message of parseQuery.
\* Nothing counts what is copied to the places of the message.
Send ==
    /\ at = "end"
    /\ sent' = <<[command |-> command, filters |-> filters, settings |-> settings]>>
    /\ Emptied
    /\ at' = "start"
    /\ UNCHANGED <<cmp, command, commas, ors, typed, stale>>

\* A token that does not fit.  After a complete filter outside $or the parser
\* first reduces the filters read; nothing it built is taken back.
SyntaxError ==
    /\ at # "start"
    /\ \/ /\ at = "filterRead" /\ ors = <<>>
          /\ FiltersReduced
       \/ /\ at # "filterRead" \/ ors # <<>>
          /\ commas' = 0
          /\ UNCHANGED <<filters, cmp>>
    /\ Len(filters') <= MaxStale /\ Len(settings) <= MaxStale /\ Len(cmp') <= MaxStale
    /\ at' = "start"
    /\ ors' = <<>>
    /\ typed' = Blank /\ stale' = None
    /\ UNCHANGED <<settings, command, sent>>

----------------------------------------------------------------------------

Init ==
    /\ at = "start" /\ command = "receive"
    /\ filters = <<>> /\ settings = <<>> /\ cmp = <<>>
    /\ commas = 0 /\ ors = <<>> /\ sent = <<>>
    /\ typed = Blank /\ stale = None

\* The parser reads tokens of a statement that is well formed so far.
Reads ==
    \/ \E c \in {"receive", "delete", "insert", "update"} : Begin(c)
    \/ \E c \in Comparators : ReadFilter(c) \/ ReadParent(c)
    \/ \E s \in Settings : ReadSetting(s)
    \/ OpenOr \/ NextFilter \/ CloseOr \/ EndFilters \/ AfterSetting
    \/ Send

Next == Reads \/ SyntaxError

Spec == Init /\ [][Next]_vars

----------------------------------------------------------------------------
(* Properties *)

TypeOK ==
    /\ at \in {"start", "filter", "filterRead", "parent", "setting", "settingRead", "end"}
    /\ command \in {"receive", "delete", "insert", "update"}
    /\ filters \in Seq(Seq(Comparators))
    /\ settings \in Seq(Settings)
    /\ cmp \in Seq([comparator : Comparators, connected : Comparators \cup {NoComparator}])
    /\ commas \in Nat
    /\ ors \in Seq({"first", "second"})
    /\ Len(sent) <= 1

\* The comparators of a filter as a set: $or does not care for their order.
AsTyped(fs) == [n \in DOMAIN fs |-> ToSet(fs[n])]

\* The entries of cmp this statement still needs: the filters before the
\* current one, that one, and the first filters of open $or brackets.
Own == commas + Cardinality({n \in DOMAIN ors : ors[n] = "second"})
         + (IF at = "filterRead" THEN 1 ELSE 0)

\* cmp is this statement's entries on top of what broken statements left, which
\* no later statement takes or changes: setComp and switchFilter take heads of
\* cmp without looking whose they are.
CmpIsStack ==
    at # "start" => Len(cmp) >= Own /\ SubSeq(cmp, Own + 1, Len(cmp)) = stale.cmp

\* A message is what was typed, in the order it was typed (settings from the
\* last to the first), followed by what broken statements left in `query`
\* since the last message, and nothing else (the grammar's actions,
\* switchFilter, addValSetting, parseQuery).
SentIsTypedThenStale ==
    \A n \in DOMAIN sent :
        /\ AsTyped(sent[n].filters) = typed.filters \o AsTyped(stale.filters)
        /\ sent[n].settings = Reverse(typed.settings) \o stale.settings

\* A message takes everything with it: the lists it was made of are empty for
\* the next statement, and of the comparators only those of broken statements
\* are left (sendData, parseQuery, switchFilter).
SentLeavesNothing ==
    sent # <<>> => filters = <<>> /\ settings = <<>> /\ cmp = stale.cmp
=============================================================================
