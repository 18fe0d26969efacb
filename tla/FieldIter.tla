----------------------------- MODULE FieldIter -----------------------------
(***************************************************************************)
(* The iterator over the fields of a message (pb_common.c).  Encoder and   *)
(* decoder share it; the decoder keeps one while it reads a message and    *)
(* looks for each tag from where the last one left it.                     *)
(*                                                                         *)
(* A descriptor is a row of words: a field takes 1, 2, 4 or 8 of them, so  *)
(* the iterator carries, beside the field's number, how many words,        *)
(* required fields and submessages lie before it.                          *)
(***************************************************************************)
EXTENDS Naturals, FiniteSets

CONSTANTS
    Descriptors,    \* the messages' descriptors
    Targets         \* the tags that are looked for

\* Fields are numbered from 0, their tags ascend; `starts` is where a field's
\* words begin.
IsDescriptor(d) ==
    /\ d.count \in Nat \ {0}
    /\ d.tags \in [0 .. d.count - 1 -> Nat \ {0}]
    /\ d.words \in [0 .. d.count - 1 -> {1, 2, 4, 8}]
    /\ d.starts \in [0 .. d.count - 1 -> Nat]
    /\ d.starts[0] = 0
    /\ \A i \in 0 .. d.count - 2 : d.starts[i + 1] = d.starts[i] + d.words[i]
    /\ \A i, j \in 0 .. d.count - 1 : i < j => d.tags[i] < d.tags[j]
    /\ \A i \in 0 .. d.count - 1 : d.tags[i] <= d.largest
    /\ d.largest \in Nat
    /\ d.required \subseteq 0 .. d.count - 1
    /\ d.submessages \subseteq 0 .. d.count - 1

ASSUME DescriptorAssumption == \A d \in Descriptors : IsDescriptor(d)
ASSUME TargetAssumption == Targets \subseteq Nat

VARIABLES
    d,          \* the descriptor
    index,      \* number of the current field
    info,       \* field_info_index: words before it
    required,   \* required_field_index: required fields before it
    submessage, \* submessage_index: submessages before it
    tag,        \* the tag last loaded
    start,      \* where the search began
    target,     \* what it looks for
    mode        \* "idle", "searching", "found", "missing"

place  == <<index, info, required, submessage>>
search == <<start, target, mode>>
vars   == <<d, place, tag, search>>

Fields == 0 .. d.count - 1

\* Mutant of AtEnd: the restart is noticed one field late.
AtEndLate(i) == i > d.count

\* advance_iterator starts again behind the last field.
AtEnd(i) == i >= d.count

One(condition) == IF condition THEN 1 ELSE 0

\* Mutant of Restart: submessage_index is not set back.
RestartUncounted == info' = 0 /\ required' = 0 /\ UNCHANGED submessage

Restart == info' = 0 /\ required' = 0 /\ submessage' = 0

Advance ==
    IF AtEnd(index + 1)
    THEN index' = 0 /\ Restart
    ELSE /\ index' = index + 1
         /\ info' = info + d.words[index]
         /\ required' = required + One(index \in d.required)
         /\ submessage' = submessage + One(index \in d.submessages)

\* load_descriptor_values, of the field the iterator is at then; behind the last
\* one it loads nothing.
Loaded == IF index' < d.count THEN d.tags[index'] ELSE tag

\* pb_field_iter_begin.
Init ==
    /\ d \in Descriptors
    /\ index = 0 /\ info = 0 /\ required = 0 /\ submessage = 0
    /\ tag = d.tags[0]
    /\ start = 0 /\ target = 0 /\ mode = "idle"

\* pb_field_iter_next.
Step ==
    /\ mode # "searching"
    /\ Advance
    /\ tag' = Loaded
    /\ mode' = "idle"
    /\ UNCHANGED <<d, start, target>>

\* A smaller tag lies before: the next advance is to start again.
From(t) == IF t < tag THEN d.count ELSE index

\* pb_field_iter_find, up to its loop.
Find(t) ==
    /\ mode # "searching"
    /\ target' = t
    /\ start' = index
    /\ IF t = tag THEN mode' = "found" /\ UNCHANGED index
       ELSE IF t > d.largest THEN mode' = "missing" /\ UNCHANGED index
       ELSE mode' = "searching" /\ index' = From(t)
    /\ UNCHANGED <<d, info, required, submessage, tag>>

\* Mutant of Matches: the six bits of a tag that every format has are enough.
MatchesLow(t) == t % 64 = target % 64

\* Six bits of the tag are compared first, then all of it.
Matches(t) == t % 64 = target % 64 /\ t = target

\* Mutant of AtStart: the loop waits for the end of the row.
AtStartNever(i) == i = d.count

AtStart(i) == i = start

\* One turn of the loop.  Back at the start nothing was found; until then the
\* iterator holds the tag of the last candidate.
Look ==
    /\ mode = "searching"
    /\ Advance
    /\ IF Matches(Loaded)
       THEN mode' = "found" /\ tag' = Loaded
       ELSE IF AtStart(index')
       THEN mode' = "missing" /\ tag' = Loaded
       ELSE /\ mode' = "searching"
            /\ tag' = IF Loaded % 64 = target % 64 THEN Loaded ELSE tag
    /\ UNCHANGED <<d, start, target>>

Next == Step \/ Look \/ \E t \in Targets : Find(t)

\* The loop has nothing to wait for.
Spec == Init /\ [][Next]_vars /\ WF_vars(Look)

----------------------------------------------------------------------------
(* Properties *)

TypeOK ==
    /\ d \in Descriptors
    /\ index \in Nat /\ info \in Nat /\ required \in Nat /\ submessage \in Nat
    /\ tag \in Nat /\ target \in Nat
    /\ start \in Fields
    /\ mode \in {"idle", "searching", "found", "missing"}
    /\ mode # "searching" => index \in Fields
    /\ mode = "searching" => index \in 0 .. d.count

Before(S, i) == Cardinality({j \in S : j < i})

\* The three indexes always belong to the field the iterator is at: the words
\* that are read are that field's, the bit set for it in `fields_seen` is its
\* own, and the submessage descriptor taken is the one of its type.
IndexesAgree ==
    index \in Fields =>
        /\ info = d.starts[index]
        /\ required = Before(d.required, index)
        /\ submessage = Before(d.submessages, index)
        /\ mode # "searching" => tag = d.tags[index]

\* A search that ends has found the field of that tag, wherever the iterator
\* was before, or there is none; then it is back where it was.
SearchIsRight ==
    /\ mode = "found" => index \in Fields /\ d.tags[index] = target
    /\ mode = "missing" =>
         /\ \A i \in Fields : d.tags[i] # target
         /\ index = start

\* Every search ends.
SearchEnds == mode = "searching" ~> mode # "searching"

=============================================================================
