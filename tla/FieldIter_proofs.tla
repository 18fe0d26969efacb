-------------------------- MODULE FieldIter_proofs --------------------------
(* Proofs about FieldIter for descriptors of every shape.                   *)
EXTENDS FieldIter, FiniteSetTheorems, TLAPS

\* What a search has looked at: the fields from its start up to the current
\* one, or up to the last and again from the first.  None has the tag.
LookedAt(i) == IF start <= index THEN start <= i /\ i <= index ELSE start <= i \/ i <= index
NotYetFound ==
    mode = "searching" => \A i \in Fields : LookedAt(i) => d.tags[i] # target

IterInv == TypeOK /\ IndexesAgree /\ SearchIsRight /\ NotYetFound

\* One field further there is one more required field, or submessage, before
\* it, if the field that is left is one.
LEMMA BeforeNext ==
    ASSUME NEW n \in Nat, NEW S \in SUBSET (0 .. n - 1), NEW i \in Nat
    PROVE  /\ Before(S, 0) = 0
           /\ Before(S, i) \in Nat
           /\ Before(S, i + 1) = Before(S, i) + One(i \in S)
<1> DEFINE T == {j \in S : j < i}
<1>1. IsFiniteSet(0 .. n - 1)
  BY FS_Interval
<1>2. IsFiniteSet(T)
  <2>1. T \subseteq S /\ S \subseteq 0 .. n - 1
    OBVIOUS
  <2>2. T \in SUBSET (0 .. n - 1)
    BY <2>1
  <2> QED BY <1>1, <2>2, FS_Subset
<1>3. {j \in S : j < 0} = {}
  <2>1. ASSUME NEW j \in S PROVE ~ (j < 0)
    <3>1. j \in 0 .. n - 1
      OBVIOUS
    <3> QED BY <3>1
  <2> QED BY <2>1, Zenon
<1>4. i \notin T
  OBVIOUS
<1>5. {j \in S : j < i + 1} = IF i \in S THEN T \cup {i} ELSE T
  <2>1. ASSUME NEW j \in S PROVE j < i + 1 <=> j < i \/ j = i
    <3>1. j \in 0 .. n - 1
      OBVIOUS
    <3> QED BY <3>1
  <2>2. i < i + 1
    OBVIOUS
  <2>3. CASE i \in S
    <3>1. {j \in S : j < i + 1} = T \cup {i}
      BY <2>1, <2>2, <2>3, Zenon
    <3> QED BY <2>3, <3>1
  <2>4. CASE i \notin S
    <3>1. {j \in S : j < i + 1} = T
      BY <2>1, <2>4, Zenon
    <3> QED BY <2>4, <3>1
  <2> QED BY <2>3, <2>4
<1>6. Cardinality(T) \in Nat
  BY <1>2, FS_CardinalityType
<1>7. Cardinality(T \cup {i}) = Cardinality(T) + 1
  BY <1>2, <1>4, FS_AddElement
<1>8. Before(S, i) = Cardinality(T) /\ Before(S, i + 1) = Cardinality({j \in S : j < i + 1})
  BY DEF Before
<1>9. Before(S, 0) = 0
  BY <1>3, FS_EmptySet DEF Before
<1> HIDE DEF T
<1>10. CASE i \in S
  BY <1>5, <1>6, <1>7, <1>8, <1>9, <1>10 DEF One
<1>11. CASE i \notin S
  BY <1>5, <1>6, <1>8, <1>9, <1>11 DEF One
<1> QED BY <1>10, <1>11

\* The facts about the descriptor the steps rest on.
LEMMA Descriptor ==
    ASSUME d \in Descriptors
    PROVE  /\ d.count \in Nat \ {0}
           /\ d.tags \in [Fields -> Nat \ {0}]
           /\ d.words \in [Fields -> Nat]
           /\ d.starts \in [Fields -> Nat]
           /\ d.starts[0] = 0
           /\ \A i \in 0 .. d.count - 2 : d.starts[i + 1] = d.starts[i] + d.words[i]
           /\ \A i, j \in Fields : i < j => d.tags[i] < d.tags[j]
           /\ \A i \in Fields : d.tags[i] <= d.largest
           /\ d.largest \in Nat
           /\ d.required \in SUBSET Fields
           /\ d.submessages \in SUBSET Fields
<1>1. IsDescriptor(d)
  BY DescriptorAssumption
<1> QED BY SMTT(30), <1>1 DEF IsDescriptor, Fields

LEMMA IterInit == Init => IterInv
<1> SUFFICES ASSUME Init PROVE IterInv
  OBVIOUS
<1>1. d \in Descriptors
  BY DEF Init
<1>2. d.count \in Nat \ {0} /\ 0 \in Fields /\ d.tags[0] \in Nat /\ d.starts[0] = 0
  BY <1>1, Descriptor DEF Fields
<1>3. Before(d.required, 0) = 0 /\ Before(d.submessages, 0) = 0
  BY <1>1, Descriptor, BeforeNext DEF Fields
<1>4. TypeOK
  BY <1>2 DEF Init, TypeOK
<1>5. IndexesAgree
  BY <1>2, <1>3 DEF Init, IndexesAgree
<1>6. SearchIsRight /\ NotYetFound
  BY DEF Init, SearchIsRight, NotYetFound
<1> QED BY <1>4, <1>5, <1>6 DEF IterInv

\* advance_iterator, from a field or from behind the last one: the counts are
\* those of the field it comes to.
LEMMA AdvanceAgrees ==
    ASSUME IterInv, Advance, index \in 0 .. d.count
    PROVE  /\ index' = IF index + 1 >= d.count THEN 0 ELSE index + 1
           /\ index' \in Fields
           /\ info' = d.starts[index'] /\ info' \in Nat
           /\ required' = Before(d.required, index') /\ required' \in Nat
           /\ submessage' = Before(d.submessages, index') /\ submessage' \in Nat
<1>1. d \in Descriptors
  BY DEF IterInv, TypeOK
<1>2. d.count \in Nat \ {0} /\ index \in Nat
  BY <1>1, Descriptor
<1>3. \A i \in Nat : /\ Before(d.required, i) \in Nat
                     /\ Before(d.required, i + 1) = Before(d.required, i) + One(i \in d.required)
                     /\ Before(d.submessages, i) \in Nat
                     /\ Before(d.submessages, i + 1)
                          = Before(d.submessages, i) + One(i \in d.submessages)
  BY <1>1, Descriptor, BeforeNext DEF Fields
<1>4. CASE index + 1 >= d.count
  <2>1. index' = 0 /\ info' = 0 /\ required' = 0 /\ submessage' = 0
    BY <1>4 DEF Advance, AtEnd, Restart
  <2>2. Before(d.required, 0) = 0 /\ Before(d.submessages, 0) = 0
    BY <1>1, Descriptor, BeforeNext DEF Fields
  <2> QED BY <1>1, <1>2, <1>4, <2>1, <2>2, Descriptor DEF Fields
<1>5. CASE ~ (index + 1 >= d.count)
  <2>1. /\ index' = index + 1 /\ info' = info + d.words[index]
        /\ required' = required + One(index \in d.required)
        /\ submessage' = submessage + One(index \in d.submessages)
    BY <1>5 DEF Advance, AtEnd
  <2>2. index \in Fields /\ index + 1 \in Fields /\ index \in 0 .. d.count - 2
    BY <1>2, <1>5 DEF Fields
  <2>3. /\ info = d.starts[index]
        /\ required = Before(d.required, index)
        /\ submessage = Before(d.submessages, index)
    BY <2>2 DEF IterInv, IndexesAgree
  <2>4. d.starts[index + 1] = d.starts[index] + d.words[index] /\ d.starts[index + 1] \in Nat
    BY <1>1, <2>2, Descriptor
  <2> QED BY <1>2, <1>3, <1>5, <2>1, <2>2, <2>3, <2>4
<1> QED BY <1>4, <1>5

LEMMA StepKeeps == ASSUME IterInv, Step PROVE IterInv'
<1>1. d \in Descriptors /\ d' = d /\ Fields' = Fields
  BY DEF IterInv, TypeOK, Step, Fields
<1>2. index \in 0 .. d.count /\ d.count \in Nat
  BY <1>1, Descriptor DEF IterInv, TypeOK, Step, Fields
<1>3. /\ index' \in Fields /\ info' = d.starts[index'] /\ info' \in Nat
      /\ required' = Before(d.required, index') /\ required' \in Nat
      /\ submessage' = Before(d.submessages, index') /\ submessage' \in Nat
  BY <1>2, AdvanceAgrees DEF Step
<1>4. tag' = d.tags[index'] /\ tag' \in Nat /\ index' \in Nat
  BY <1>1, <1>2, <1>3, Descriptor DEF Step, Loaded, Fields
<1>5. mode' = "idle" /\ start' = start /\ target' = target
  BY DEF Step
<1>6. TypeOK'
  BY <1>1, <1>3, <1>4, <1>5 DEF TypeOK, IterInv
<1>7. IndexesAgree'
  BY <1>1, <1>3, <1>4 DEF IndexesAgree, Before
<1>8. SearchIsRight' /\ NotYetFound'
  BY <1>5 DEF SearchIsRight, NotYetFound
<1> QED BY <1>6, <1>7, <1>8 DEF IterInv

LEMMA FindKeeps == ASSUME IterInv, NEW t \in Targets, Find(t) PROVE IterInv'
<1>1. d \in Descriptors /\ d' = d /\ Fields' = Fields
  BY DEF IterInv, TypeOK, Find, Fields
<1>2. /\ mode # "searching" /\ target' = t /\ start' = index /\ t \in Nat
      /\ UNCHANGED <<info, required, submessage, tag>>
  BY TargetAssumption DEF Find
<1>3. /\ index \in Fields /\ tag = d.tags[index]
      /\ info = d.starts[index] /\ required = Before(d.required, index)
      /\ submessage = Before(d.submessages, index)
      /\ info \in Nat /\ required \in Nat /\ submessage \in Nat /\ tag \in Nat
      /\ index \in Nat
  BY <1>2 DEF IterInv, TypeOK, IndexesAgree
<1>4. d.count \in Nat \ {0} /\ d.count \notin Fields
  BY <1>1, Descriptor DEF Fields
<1>5. CASE t = tag
  <2>1. mode' = "found" /\ index' = index
    BY <1>5 DEF Find
  <2>2. TypeOK'
    BY <1>1, <1>2, <1>3, <2>1 DEF TypeOK
  <2>3. IndexesAgree'
    BY <1>1, <1>2, <1>3, <2>1 DEF IndexesAgree, Before
  <2>4. SearchIsRight' /\ NotYetFound'
    BY <1>1, <1>2, <1>3, <1>5, <2>1 DEF SearchIsRight, NotYetFound
  <2> QED BY <2>2, <2>3, <2>4 DEF IterInv
<1>6. CASE t # tag /\ t > d.largest
  <2>1. mode' = "missing" /\ index' = index
    BY <1>6 DEF Find
  <2>2. TypeOK'
    BY <1>1, <1>2, <1>3, <2>1 DEF TypeOK
  <2>3. IndexesAgree'
    BY <1>1, <1>2, <1>3, <2>1 DEF IndexesAgree, Before
  <2>4. \A i \in Fields : d.tags[i] # t
    <3>1. ASSUME NEW i \in Fields PROVE d.tags[i] # t
      <4>1. d.tags[i] <= d.largest /\ d.tags[i] \in Nat /\ d.largest \in Nat
        BY <1>1, Descriptor
      <4> QED BY <1>2, <1>6, <4>1
    <3> QED BY <3>1
  <2>5. SearchIsRight' /\ NotYetFound'
    BY <1>1, <1>2, <2>1, <2>4 DEF SearchIsRight, NotYetFound
  <2> QED BY <2>2, <2>3, <2>5 DEF IterInv
<1>7. CASE t # tag /\ ~ (t > d.largest)
  <2>1. mode' = "searching" /\ index' = IF t < tag THEN d.count ELSE index
    BY <1>7 DEF Find, From
  <2>2. TypeOK'
    BY <1>1, <1>2, <1>3, <1>4, <2>1 DEF TypeOK, Fields
  <2>3. IndexesAgree'
    BY <1>1, <1>2, <1>3, <1>4, <2>1 DEF IndexesAgree, Before
  <2>4. ASSUME NEW i \in Fields, LookedAt(i)' PROVE d.tags[i] # t
    <3>1. CASE t < tag
      <4>1. index <= i
        BY <1>2, <1>3, <1>4, <2>1, <2>4, <3>1 DEF LookedAt, Fields
      <4>2. d.tags[index] <= d.tags[i] /\ d.tags[i] \in Nat
        <5>1. d.tags[index] \in Nat /\ d.tags[i] \in Nat
          BY <1>1, <1>3, Descriptor
        <5>2. index < i => d.tags[index] < d.tags[i]
          BY <1>1, <1>3, Descriptor
        <5>3. index < i \/ index = i
          BY <1>3, <4>1 DEF Fields
        <5> QED BY <5>1, <5>2, <5>3
      <4> QED BY <1>2, <1>3, <3>1, <4>2
    <3>2. CASE ~ (t < tag)
      <4>1. i = index
        BY <1>2, <1>3, <2>1, <2>4, <3>2 DEF LookedAt, Fields
      <4> QED BY <1>3, <1>7, <4>1
    <3> QED BY <3>1, <3>2
  <2>5. NotYetFound'
    BY <1>1, <1>2, <2>4 DEF NotYetFound
  <2>6. SearchIsRight'
    BY <2>1 DEF SearchIsRight
  <2> QED BY <2>2, <2>3, <2>5, <2>6 DEF IterInv
<1> QED BY <1>5, <1>6, <1>7

LEMMA LookKeeps == ASSUME IterInv, Look PROVE IterInv'
<1>1. d \in Descriptors /\ d' = d /\ Fields' = Fields
  BY DEF IterInv, TypeOK, Look, Fields
<1>2. /\ mode = "searching" /\ start' = start /\ target' = target
      /\ start \in Fields /\ target \in Nat /\ tag \in Nat
      /\ index \in 0 .. d.count /\ d.count \in Nat \ {0}
  BY <1>1, Descriptor DEF IterInv, TypeOK, Look
<1>3. /\ index' = IF index + 1 >= d.count THEN 0 ELSE index + 1
      /\ index' \in Fields /\ info' = d.starts[index'] /\ info' \in Nat
      /\ required' = Before(d.required, index') /\ required' \in Nat
      /\ submessage' = Before(d.submessages, index') /\ submessage' \in Nat
  BY <1>2, AdvanceAgrees DEF Look
<1>4. Loaded = d.tags[index'] /\ Loaded \in Nat /\ index' \in Nat
  <2>1. index' \in Nat /\ index' < d.count
    BY <1>2, <1>3 DEF Fields
  <2>2. d.tags[index'] \in Nat
    BY <1>1, <1>3, Descriptor
  <2> QED BY <2>1, <2>2 DEF Loaded
<1>5. Matches(Loaded) <=> Loaded = target
  BY DEF Matches
<1>6. \A i \in Fields : LookedAt(i) => d.tags[i] # target
  BY <1>2 DEF IterInv, NotYetFound
<1>7. /\ mode' \in {"searching", "found", "missing"}
      /\ mode' # "searching" => tag' = Loaded
      /\ tag' \in Nat
  BY <1>2, <1>4 DEF Look
<1>8. TypeOK'
  BY <1>1, <1>2, <1>3, <1>4, <1>7 DEF TypeOK, Fields
<1>9. IndexesAgree'
  BY <1>1, <1>3, <1>4, <1>7 DEF IndexesAgree, Before
<1>10. mode' = "found" => d.tags[index'] = target
  BY <1>4, <1>5 DEF Look
<1>11. mode' = "missing" => index' = start /\ d.tags[index'] # target
  BY <1>4, <1>5 DEF Look, AtStart
<1>12. mode' = "searching" => index' # start /\ d.tags[index'] # target
  BY <1>4, <1>5 DEF Look, AtStart
<1>13. ASSUME mode' = "missing", NEW i \in Fields PROVE d.tags[i] # target
  <2>1. LookedAt(i) \/ i = index'
    BY <1>2, <1>3, <1>11, <1>13 DEF LookedAt, Fields
  <2> QED BY <1>6, <1>11, <1>13, <2>1
<1>14. ASSUME mode' = "searching", NEW i \in Fields, LookedAt(i)' PROVE d.tags[i] # target
  <2>1. LookedAt(i) \/ i = index'
    BY <1>2, <1>3, <1>12, <1>14 DEF LookedAt, Fields
  <2> QED BY <1>6, <1>12, <1>14, <2>1
<1>15. SearchIsRight'
  BY <1>1, <1>2, <1>3, <1>10, <1>11, <1>13 DEF SearchIsRight
<1>16. NotYetFound'
  BY <1>1, <1>2, <1>14 DEF NotYetFound
<1> QED BY <1>8, <1>9, <1>15, <1>16 DEF IterInv

LEMMA IterAlways == Spec => []IterInv
<1>1. IterInv /\ [Next]_vars => IterInv'
  <2> SUFFICES ASSUME IterInv, [Next]_vars PROVE IterInv'
    OBVIOUS
  <2>1. CASE Step
    BY <2>1, StepKeeps
  <2>2. CASE Look
    BY <2>2, LookKeeps
  <2>3. CASE \E t \in Targets : Find(t)
    BY <2>3, FindKeeps
  <2>4. CASE UNCHANGED vars
    BY <2>4 DEF vars, place, search, IterInv, TypeOK, IndexesAgree, SearchIsRight, NotYetFound,
                LookedAt, Fields, Before
  <2> QED BY <2>1, <2>2, <2>3, <2>4 DEF Next
<1> QED BY <1>1, IterInit, PTL DEF Spec

\* The iterator never leaves the row of the descriptor but in the one place
\* from which a search starts again (pb_field_iter_find).
THEOREM TypeCorrect == Spec => []TypeOK
<1>1. IterInv => TypeOK
  BY DEF IterInv
<1> QED BY <1>1, IterAlways, PTL

\* For every descriptor, whatever steps and searches were made before: the word,
\* required and submessage indexes are those of the field the iterator is at
\* (advance_iterator, pb_field_iter_find).
THEOREM IndexesAlwaysAgree == Spec => []IndexesAgree
<1>1. IterInv => IndexesAgree
  BY DEF IterInv
<1> QED BY <1>1, IterAlways, PTL

\* For every descriptor and tag: a search that succeeds is at the field of that
\* tag, and one that fails proves that there is none (pb_field_iter_find).
THEOREM SearchesAreRight == Spec => []SearchIsRight
<1>1. IterInv => SearchIsRight
  BY DEF IterInv
<1> QED BY <1>1, IterAlways, PTL
=============================================================================
