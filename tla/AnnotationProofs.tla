-------------------------- MODULE AnnotationProofs --------------------------
(***************************************************************************)
(* Proofs about Annotation, for any number of drafts, annotators, answers  *)
(* and imports in flight, and whether or not adjudicate runs again before  *)
(* the adjudicators answered.                                              *)
(***************************************************************************)
EXTENDS Annotation, FiniteSetTheorems, TLAPS

----------------------------------------------------------------------------
(* Queues *)

LEMMA MaxUpTo ==
    ASSUME NEW n \in Nat
    PROVE  Max((1 .. n) \cup {0}) = n
<1>1. n \in (1 .. n) \cup {0} /\ \A y \in (1 .. n) \cup {0} : n >= y
  OBVIOUS
<1>2. \A x \in (1 .. n) \cup {0} : (\A y \in (1 .. n) \cup {0} : x >= y) => x = n
  BY <1>1
<1> QED BY <1>1, <1>2, Zenon DEF Max

LEMMA ItemsFinite ==
    ASSUME NEW S \in SUBSET Drafts
    PROVE  IsFiniteSet(S) /\ Cardinality(S) \in Nat
BY AnnotationAssumption, FS_Subset, FS_CardinalityType

\* _next_positions answers one more than the number of items the annotator has.
LEMMA NextPositionIs ==
    ASSUME QueuesInOrder, NEW a \in Annotators
    PROVE  NextPosition(a) = Cardinality(ItemsOf(a)) + 1
<1>1. Cardinality(ItemsOf(a)) \in Nat
  BY ItemsFinite DEF ItemsOf
<1>2. PositionsOf(a) = 1 .. Cardinality(ItemsOf(a))
  BY DEF QueuesInOrder
<1> QED BY <1>1, <1>2, MaxUpTo DEF NextPosition

\* A script holds the positions it read: nobody else adds items meanwhile.
OffsetsAreNext ==
    script.kind # "idle" =>
        \A a \in Annotators : script.offset[a] = Cardinality(ItemsOf(a)) + 1

Numbered == TypeOK /\ QueuesInOrder /\ OffsetsAreNext

\* A step that moves no assignment between batches or positions moves no queue.
LEMMA SameQueues ==
    ASSUME \A p \in Pairs : /\ assignments'[p].batch = assignments[p].batch
                            /\ assignments'[p].position = assignments[p].position
    PROVE  \A a \in Annotators : ItemsOf(a)' = ItemsOf(a) /\ PositionsOf(a)' = PositionsOf(a)
<1> SUFFICES ASSUME NEW a \in Annotators
             PROVE  ItemsOf(a)' = ItemsOf(a) /\ PositionsOf(a)' = PositionsOf(a)
  OBVIOUS
<1>1. \A d \in Drafts : /\ assignments'[<<d, a>>].batch = assignments[<<d, a>>].batch
                        /\ assignments'[<<d, a>>].position = assignments[<<d, a>>].position
  BY DEF Pairs
<1>2. ItemsOf(a)' = ItemsOf(a)
  BY <1>1 DEF ItemsOf, InBatch
<1>3. \A d \in ItemsOf(a) : assignments'[<<d, a>>].position = assignments[<<d, a>>].position
  BY <1>1 DEF ItemsOf
<1> QED BY <1>2, <1>3 DEF PositionsOf

\* What a commit of labels does to an assignment.
LEMMA StoreRow ==
    ASSUME TypeOK, NEW w \in Writers, Store(w), NEW p \in Pairs
    PROVE  /\ assignments'[p] \in AssignmentRow
           /\ assignments'[p].batch = assignments[p].batch
           /\ assignments'[p].overlap = assignments[p].overlap
           /\ assignments'[p].position = assignments[p].position
<1>1. assignments'[p] = [assignments[p] EXCEPT !.completed = @ \/ writer[w][p] # "none"]
  BY DEF Store
<1>2. assignments[p] \in AssignmentRow
  BY DEF TypeOK
<1>3. (assignments[p].completed \/ writer[w][p] # "none") \in BOOLEAN
  BY <1>2 DEF AssignmentRow
<1> QED BY <1>1, <1>2, <1>3 DEF AssignmentRow

\* What Give does to the script's record.
LEMMA GiveScript ==
    ASSUME TypeOK, NEW d \in Drafts, NEW as \in SUBSET Annotators, Give(d, as)
    PROVE  /\ script' \in ScriptRow
           /\ script'.kind = script.kind
           /\ script'.todo = script.todo \ {d}
           /\ script'.overlap = script.overlap
           /\ script'.seen = script.seen
           /\ script'.offset = script.offset
           /\ script'.given = [script.given EXCEPT ![d] = as]
           /\ script'.load = [a \in Annotators |-> script.load[a] + (IF a \in as THEN 1 ELSE 0)]
           /\ UNCHANGED <<assignments, labels, writer>>
<1>1. script \in ScriptRow
  BY DEF TypeOK
<1>2. \A a \in Annotators : script.load[a] \in Nat
  BY <1>1 DEF ScriptRow
<1>3. [a \in Annotators |-> script.load[a] + (IF a \in as THEN 1 ELSE 0)] \in [Annotators -> Nat]
  <2>1. ASSUME NEW a \in Annotators
        PROVE  script.load[a] + (IF a \in as THEN 1 ELSE 0) \in Nat
    <3>1. CASE a \in as
      BY <1>2, <3>1
    <3>2. CASE a \notin as
      BY <1>2, <3>2
    <3> QED BY <3>1, <3>2
  <2> QED BY <2>1, Zenon
<1>4. [script.given EXCEPT ![d] = as] \in [Drafts -> SUBSET Annotators]
  BY <1>1 DEF ScriptRow
<1> QED BY <1>1, <1>3, <1>4 DEF Give, ScriptRow

LEMMA IdleScriptType == IdleScript \in ScriptRow
BY DEF IdleScript, ScriptRow, NoLoad, Nobody

----------------------------------------------------------------------------
(* Types *)

LEMMA NumberedInit == Init => Numbered
<1> SUFFICES ASSUME Init
             PROVE  Numbered
  OBVIOUS
<1>1. TypeOK
  BY IdleScriptType DEF Init, TypeOK, AssignmentRow, NoAssignment, LabelTable, NoLabels
<1>2. \A a \in Annotators : ItemsOf(a) = {}
  BY DEF Init, ItemsOf, InBatch, NoAssignment, Pairs
<1>3. QueuesInOrder
  <2>1. \A a \in Annotators : PositionsOf(a) = {}
    BY <1>2 DEF PositionsOf
  <2>2. 1 .. 0 = {}
    OBVIOUS
  <2> QED BY <1>2, <2>1, <2>2, FS_EmptySet DEF QueuesInOrder
<1> QED BY <1>1, <1>3 DEF Numbered, OffsetsAreNext, Init, IdleScript

\* Queues and what scripts know of them stay as they are while no item is added.
LEMMA QueuesKept ==
    ASSUME Numbered,
           \A p \in Pairs : /\ assignments'[p].batch = assignments[p].batch
                            /\ assignments'[p].position = assignments[p].position,
           script'.kind = "idle" \/ (script'.kind = script.kind /\ script'.offset = script.offset)
    PROVE  QueuesInOrder' /\ OffsetsAreNext'
<1>1. \A a \in Annotators : ItemsOf(a)' = ItemsOf(a) /\ PositionsOf(a)' = PositionsOf(a)
  BY SameQueues
<1> QED BY <1>1 DEF Numbered, QueuesInOrder, OffsetsAreNext

\* The positions a commit gives continue the annotator's queue.
LEMMA CommitQueues ==
    ASSUME Numbered, NEW order, CommitScript(order), NEW a \in Annotators
    PROVE  /\ ItemsOf(a)' = ItemsOf(a) \cup GivenTo(a)
           /\ PositionsOf(a)' = 1 .. Cardinality(ItemsOf(a)')
<1> DEFINE n == Cardinality(ItemsOf(a))
           k == Cardinality(GivenTo(a))
           row(d) == assignments'[<<d, a>>]
<1>1. n \in Nat /\ k \in Nat /\ IsFiniteSet(ItemsOf(a)) /\ IsFiniteSet(GivenTo(a))
  BY ItemsFinite DEF ItemsOf, GivenTo
<1>2. order[a] \in Bijection(GivenTo(a), 1 .. k) /\ GivenTo(a) \cap ItemsOf(a) = {}
  BY DEF CommitScript, Shuffles
<1>3. script.offset[a] = n + 1
  BY DEF Numbered, OffsetsAreNext, CommitScript
<1>4. \A d \in GivenTo(a) : row(d).batch # "none" /\ row(d).position = n + order[a][d]
  <2> SUFFICES ASSUME NEW d \in GivenTo(a)
               PROVE  row(d).batch # "none" /\ row(d).position = n + order[a][d]
    OBVIOUS
  <2>1. <<d, a>> \in Pairs /\ a \in script.given[d]
    BY DEF Pairs, GivenTo
  <2>2. row(d) = [batch |-> Batch(script.kind), overlap |-> d \in script.overlap,
                  position |-> script.offset[a] - 1 + order[a][d], completed |-> FALSE]
    BY <2>1 DEF CommitScript
  <2>3. order[a][d] \in Nat
    BY <1>1, <1>2 DEF Bijection, Injection
  <2> QED BY <1>1, <1>3, <2>2, <2>3 DEF Batch
<1>5. \A d \in Drafts \ GivenTo(a) : row(d) = assignments[<<d, a>>]
  BY DEF CommitScript, GivenTo, Pairs
<1>6. ItemsOf(a)' = ItemsOf(a) \cup GivenTo(a)
  <2>1. GivenTo(a) \subseteq Drafts
    BY DEF GivenTo
  <2> QED BY <1>4, <1>5, <2>1 DEF ItemsOf, InBatch
<1>7. Cardinality(ItemsOf(a)') = n + k
  <2>1. Cardinality(ItemsOf(a) \cup GivenTo(a)) = n + k - Cardinality(ItemsOf(a) \cap GivenTo(a))
    BY <1>1, FS_Union, Zenon
  <2>2. ItemsOf(a) \cap GivenTo(a) = {}
    BY <1>2
  <2>3. Cardinality(ItemsOf(a) \cap GivenTo(a)) = 0
    BY <2>2, FS_EmptySet, Zenon
  <2> HIDE DEF n, k
  <2>4. n + k - 0 = n + k
    BY <1>1
  <2> QED BY <1>6, <2>1, <2>3, <2>4, Zenon
<1>8. PositionsOf(a) = 1 .. n
  BY DEF Numbered, QueuesInOrder
<1>9. PositionsOf(a)' = PositionsOf(a) \cup {n + order[a][d] : d \in GivenTo(a)}
  <2>1. \A d \in ItemsOf(a) : row(d).position = assignments[<<d, a>>].position
    BY <1>2, <1>5 DEF ItemsOf
  <2>2. PositionsOf(a)' = {row(d).position : d \in ItemsOf(a) \cup GivenTo(a)}
    BY <1>6 DEF PositionsOf
  <2> QED BY <1>4, <2>1, <2>2, ZenonT(30) DEF PositionsOf
<1>10. {n + order[a][d] : d \in GivenTo(a)} = n + 1 .. n + k
  <2>1. \A d \in GivenTo(a) : order[a][d] \in 1 .. k
    BY <1>2 DEF Bijection, Injection
  <2>2. \A i \in 1 .. k : \E d \in GivenTo(a) : order[a][d] = i
    BY <1>2 DEF Bijection, Surjection
  <2>3. ASSUME NEW i \in n + 1 .. n + k
        PROVE  i \in {n + order[a][d] : d \in GivenTo(a)}
    <3>1. i - n \in 1 .. k
      BY <1>1
    <3>2. PICK d \in GivenTo(a) : order[a][d] = i - n
      BY <2>2, <3>1
    <3> QED BY <1>1, <3>2
  <2>4. ASSUME NEW d \in GivenTo(a)
        PROVE  n + order[a][d] \in n + 1 .. n + k
    BY <1>1, <2>1
  <2> QED BY <2>3, <2>4
<1> HIDE DEF n, k
<1>11. (1 .. n) \cup (n + 1 .. n + k) = 1 .. n + k
  BY <1>1
<1> QED BY <1>6, <1>7, <1>8, <1>9, <1>10, <1>11 DEF n, k

LEMMA CommitType ==
    ASSUME Numbered, NEW order, CommitScript(order)
    PROVE  TypeOK'
<1> USE DEF Numbered
<1>1. ASSUME NEW p \in Pairs
      PROVE  assignments'[p] \in AssignmentRow
  <2>1. CASE p[2] \in script.given[p[1]]
    <3> DEFINE a == p[2]
               d == p[1]
    <3>1. a \in Annotators /\ d \in Drafts /\ d \in GivenTo(a)
      BY <2>1 DEF Pairs, GivenTo
    <3>2. script.offset[a] = Cardinality(ItemsOf(a)) + 1 /\ Cardinality(ItemsOf(a)) \in Nat
      BY <3>1, ItemsFinite DEF OffsetsAreNext, CommitScript, ItemsOf
    <3>3. order[a][d] \in Nat
      <4>1. order[a] \in [GivenTo(a) -> 1 .. Cardinality(GivenTo(a))]
        BY <3>1 DEF CommitScript, Shuffles, Bijection, Injection
      <4>2. Cardinality(GivenTo(a)) \in Nat
        BY ItemsFinite DEF GivenTo
      <4> QED BY <3>1, <4>1, <4>2
    <3>4. script.offset[a] - 1 + order[a][d] \in Nat
      BY <3>2, <3>3
    <3>5. assignments'[p] = [batch |-> Batch(script.kind), overlap |-> d \in script.overlap,
                             position |-> script.offset[a] - 1 + order[a][d],
                             completed |-> FALSE]
      BY <2>1 DEF CommitScript
    <3>6. Batch(script.kind) \in {"sprint", "adjud"} /\ (d \in script.overlap) \in BOOLEAN
      BY DEF Batch
    <3> QED BY <3>4, <3>5, <3>6 DEF AssignmentRow
  <2>2. CASE p[2] \notin script.given[p[1]]
    BY <2>2 DEF CommitScript, TypeOK
  <2> QED BY <2>1, <2>2
<1>2. assignments' \in [Pairs -> AssignmentRow]
  BY <1>1 DEF CommitScript
<1> QED BY <1>2, IdleScriptType DEF CommitScript, TypeOK

LEMMA NumberedNext == Numbered /\ [Next]_vars => Numbered'
<1> SUFFICES ASSUME Numbered, [Next]_vars
             PROVE  Numbered'
  OBVIOUS
<1> USE DEF Numbered
<1>1. ASSUME UNCHANGED <<assignments, labels, script>>, writer' \in [Writers -> LabelTable]
      PROVE  Numbered'
  BY <1>1, QueuesKept DEF TypeOK
<1>2. ASSUME NEW w \in Writers, NEW a \in Annotators, NEW d \in Drafts, NEW answer \in Answers,
             Submit(w, a, d, answer)
      PROVE  Numbered'
  <2>1. [writer[w] EXCEPT ![<<d, a>>] = answer] \in LabelTable
    BY DEF TypeOK, LabelTable
  <2> QED BY <1>1, <1>2, <2>1 DEF Submit, TypeOK
<1>3. ASSUME NEW w \in Writers, NEW a \in Annotators,
             NEW file \in [Drafts -> Answers \cup {"none"}], Import(w, a, file)
      PROVE  Numbered'
  <2>1. [p \in Pairs |-> IF p[2] = a /\ ~ assignments[p].completed THEN file[p[1]] ELSE "none"]
           \in LabelTable
    BY DEF LabelTable, Pairs
  <2> QED BY <1>1, <1>3, <2>1 DEF Import, TypeOK
<1>4. ASSUME NEW w \in Writers, Store(w)
      PROVE  Numbered'
  <2>1. QueuesInOrder' /\ OffsetsAreNext'
    BY <1>4, StoreRow, QueuesKept DEF Store
  <2>2. assignments' \in [Pairs -> AssignmentRow]
    BY <1>4, StoreRow DEF Store
  <2>3. labels' \in LabelTable
    BY <1>4 DEF Store, TypeOK, LabelTable
  <2>4. NoLabels \in LabelTable
    BY DEF NoLabels, LabelTable
  <2> QED BY <1>4, <2>1, <2>2, <2>3, <2>4 DEF Store, TypeOK
<1>5. ASSUME NEW w \in Writers, FailStore(w)
      PROVE  Numbered'
  <2>1. NoLabels \in LabelTable
    BY DEF NoLabels, LabelTable
  <2> QED BY <1>1, <1>5, <2>1 DEF FailStore, TypeOK
<1>6. \A a \in Annotators : NextPosition(a) = Cardinality(ItemsOf(a)) + 1 /\ NextPosition(a) \in Nat
  BY NextPositionIs, ItemsFinite DEF ItemsOf
<1>7. ASSUME UNCHANGED <<assignments, labels, writer>>, script' \in ScriptRow,
             script'.offset = [a \in Annotators |-> NextPosition(a)]
      PROVE  Numbered'
  <2>1. \A a \in Annotators : ItemsOf(a)' = ItemsOf(a) /\ PositionsOf(a)' = PositionsOf(a)
    BY <1>7, SameQueues
  <2> QED BY <1>6, <1>7, <2>1 DEF TypeOK, QueuesInOrder, OffsetsAreNext
<1>8. ASSUME NEW drafts \in SUBSET Drafts, NEW overlap \in SUBSET drafts,
             StartPlan(drafts, overlap)
      PROVE  Numbered'
  <2>1. script' \in ScriptRow
    BY <1>6, <1>8, IdleScriptType DEF StartPlan, ScriptRow
  <2> QED BY <1>7, <1>8, <2>1 DEF StartPlan, IdleScript
<1>9. ASSUME NEW d \in Drafts, NEW as \in SUBSET Annotators, Give(d, as)
      PROVE  Numbered'
  BY <1>9, GiveScript, QueuesKept DEF TypeOK
<1>10. ASSUME NEW d \in Drafts, NEW a \in Annotators, NEW b \in Annotators, PickTwo(d, a, b)
       PROVE  Numbered'
  BY <1>9, <1>10 DEF PickTwo
<1>11. ASSUME NEW d \in Drafts, NEW a \in Annotators, PickOne(d, a) \/ PickAdjudicator(d, a)
       PROVE  Numbered'
  BY <1>9, <1>11 DEF PickOne, PickAdjudicator
<1>12. ASSUME StartAdjudication
       PROVE  Numbered'
  <2> DEFINE due == {d \in Drafts : Disagree(d)}
  <2>1. [a \in Annotators |-> Cardinality(ItemsOf(a))] \in [Annotators -> Nat]
    BY ItemsFinite DEF ItemsOf
  <2>2. [d \in Drafts |-> IF d \in due THEN OverlapLabels(d) ELSE {}] \in [Drafts -> SUBSET Annotators]
    BY DEF OverlapLabels
  <2>3. [a \in Annotators |-> NextPosition(a)] \in [Annotators -> Nat]
    BY <1>6
  <2>4. due \in SUBSET Drafts
    OBVIOUS
  <2>5. script' = [IdleScript EXCEPT
                     !.kind = "adjudicate", !.todo = due, !.overlap = due,
                     !.seen = [d \in Drafts |-> IF d \in due THEN OverlapLabels(d) ELSE {}],
                     !.load = [a \in Annotators |-> Cardinality(ItemsOf(a))],
                     !.offset = [a \in Annotators |-> NextPosition(a)]]
    BY <1>12 DEF StartAdjudication
  <2> HIDE DEF due
  <2>6. script' \in ScriptRow /\ script'.offset = [a \in Annotators |-> NextPosition(a)]
    BY <2>1, <2>2, <2>3, <2>4, <2>5, IdleScriptType DEF ScriptRow, IdleScript
  <2> QED BY <1>7, <1>12, <2>6 DEF StartAdjudication
<1>13. ASSUME NEW order, CommitScript(order)
       PROVE  Numbered'
  BY <1>13, CommitType, CommitQueues DEF CommitScript, QueuesInOrder, OffsetsAreNext, IdleScript
<1>14. CASE FailScript
  BY <1>14, IdleScriptType, QueuesKept DEF FailScript, TypeOK, IdleScript
<1>15. CASE UNCHANGED vars
  BY <1>15, <1>1 DEF vars, TypeOK
<1> QED BY <1>2, <1>3, <1>4, <1>5, <1>8, <1>10, <1>11, <1>12, <1>13, <1>14, <1>15 DEF Next

\* Types hold, queues are in order and what a script counted is still so when it commits (assignments.py).
THEOREM NumberedHolds == Spec => []Numbered
BY NumberedInit, NumberedNext, PTL DEF Spec

\* Every assignment, label, answer in flight and script keeps its type; the positions
\* are numbers because the queues they are taken from are in order.
THEOREM TypeCorrect == Spec => []TypeOK
BY NumberedHolds, PTL DEF Numbered

\* Each annotator's queue is numbered from 1 without a gap or a tie, over any number
\* of batches.
THEOREM QueuesOrdered == Spec => []QueuesInOrder
BY NumberedHolds, PTL DEF Numbered

----------------------------------------------------------------------------
(* Labels *)

LEMMA LabelsKept ==
    ASSUME TypeOK, [Next]_vars, NEW p \in Pairs, labels[p] # "none"
    PROVE  labels'[p] = labels[p]
<1>1. ASSUME NEW w \in Writers, Store(w)
      PROVE  labels'[p] = labels[p]
  BY <1>1 DEF Store, IsFree
<1>2. CASE UNCHANGED labels
  BY <1>2
<1> QED BY <1>1, <1>2 DEF Next, vars, Submit, Import, FailStore, StartPlan, PickTwo, PickOne,
                          PickAdjudicator, Give, StartAdjudication, CommitScript, FailScript

\* However answers and imports overlap, the first label stored for an assignment stays.
THEOREM LabelsFinal == Spec => LabelsAreFinal
<1>1. Numbered /\ [Next]_vars => [LabelsStay]_vars
  BY LabelsKept DEF Numbered, LabelsStay
<1> QED BY <1>1, NumberedHolds, PTL DEF Spec, LabelsAreFinal

----------------------------------------------------------------------------
(* Loads *)

LEMMA BalancedNext == TypeOK /\ LoadsBalanced /\ [Next]_vars => LoadsBalanced'
<1> SUFFICES ASSUME TypeOK, LoadsBalanced, [Next]_vars
             PROVE  LoadsBalanced'
  OBVIOUS
<1>1. script.kind = "plan" =>
        \A a, b \in Annotators : /\ script.load[a] \in Nat
                                 /\ script.load[a] <= script.load[b] + 1
  BY DEF TypeOK, ScriptRow, LoadsBalanced
<1>2. ASSUME NEW d \in Drafts, NEW a \in Annotators, NEW b \in Annotators, PickTwo(d, a, b)
      PROVE  LoadsBalanced'
  <2>1. \A x \in Annotators :
           script'.load[x] = script.load[x] + (IF x \in {a, b} THEN 1 ELSE 0)
    <3>1. {a, b} \in SUBSET Annotators /\ Give(d, {a, b})
      BY <1>2 DEF PickTwo
    <3>2. script'.load = [x \in Annotators |-> script.load[x] + (IF x \in {a, b} THEN 1 ELSE 0)]
      BY <3>1, GiveScript, Zenon
    <3> QED BY <3>2, Zenon
  <2>2. \A x \in Annotators : script.load[a] <= script.load[x]
    BY <1>2 DEF PickTwo, LeastLoaded
  <2>3. a # b /\ \A x \in Annotators \ {a} : script.load[b] <= script.load[x]
    <3>1. b \in LeastLoaded([script.load EXCEPT ![a] = @ + 1], {a})
      BY <1>2 DEF PickTwo, SecondChoice
    <3> QED BY <3>1 DEF LeastLoaded, TypeOK, ScriptRow
  <2>4. script.kind = "plan"
    BY <1>2 DEF PickTwo
  <2>5. \A x \in Annotators : x \in {a, b} => script'.load[x] = script.load[x] + 1
    BY <1>1, <2>1, <2>4
  <2>6. \A x \in Annotators : x \notin {a, b} => script'.load[x] = script.load[x]
    BY <1>1, <2>1, <2>4
  <2> QED BY <1>1, <2>2, <2>3, <2>4, <2>5, <2>6 DEF LoadsBalanced
<1>3. ASSUME NEW d \in Drafts, NEW a \in Annotators, PickOne(d, a)
      PROVE  LoadsBalanced'
  <2>1. \A x \in Annotators :
           script'.load[x] = script.load[x] + (IF x \in {a} THEN 1 ELSE 0)
    <3>1. {a} \in SUBSET Annotators /\ Give(d, {a})
      BY <1>3 DEF PickOne
    <3>2. script'.load = [x \in Annotators |-> script.load[x] + (IF x \in {a} THEN 1 ELSE 0)]
      BY <3>1, GiveScript, Zenon
    <3> QED BY <3>2, Zenon
  <2>2. \A x \in Annotators : script.load[a] <= script.load[x]
    BY <1>3 DEF PickOne, LeastLoaded
  <2>3. script.kind = "plan"
    BY <1>3 DEF PickOne
  <2>4. script'.load[a] = script.load[a] + 1
    BY <1>1, <2>1, <2>3
  <2>5. \A x \in Annotators : x # a => script'.load[x] = script.load[x]
    BY <1>1, <2>1, <2>3
  <2> QED BY <1>1, <2>2, <2>3, <2>4, <2>5 DEF LoadsBalanced
<1>4. ASSUME NEW d \in Drafts, NEW a \in Annotators, PickAdjudicator(d, a)
      PROVE  script'.kind # "plan"
  BY <1>4, GiveScript DEF PickAdjudicator
<1>5. ASSUME NEW drafts \in SUBSET Drafts, NEW overlap \in SUBSET drafts,
             StartPlan(drafts, overlap)
      PROVE  LoadsBalanced'
  BY <1>5 DEF StartPlan, IdleScript, NoLoad, LoadsBalanced
<1>6. ASSUME StartAdjudication
      PROVE  script'.kind # "plan"
  BY <1>6 DEF StartAdjudication, IdleScript
<1>7. CASE script'.kind # "plan"
  BY <1>7 DEF LoadsBalanced
<1>8. CASE UNCHANGED script
  BY <1>8 DEF LoadsBalanced
<1>9. ASSUME NEW w \in Writers, Store(w) \/ FailStore(w)
      PROVE  LoadsBalanced'
  BY <1>8, <1>9 DEF Store, FailStore
<1>10. ASSUME NEW w \in Writers, NEW a \in Annotators,
              \/ \E d \in Drafts, answer \in Answers : Submit(w, a, d, answer)
              \/ \E file \in [Drafts -> Answers \cup {"none"}] : Import(w, a, file)
       PROVE  LoadsBalanced'
  BY <1>8, <1>10 DEF Submit, Import
<1>11. ASSUME NEW order, CommitScript(order)
       PROVE  LoadsBalanced'
  BY <1>7, <1>11 DEF CommitScript, IdleScript
<1>12. CASE FailScript
  BY <1>7, <1>12 DEF FailScript, IdleScript
<1>13. CASE UNCHANGED vars
  BY <1>8, <1>13 DEF vars
<1> QED BY <1>2, <1>3, <1>4, <1>5, <1>6, <1>7, <1>9, <1>10, <1>11, <1>12, <1>13 DEF Next

\* For any number of drafts and annotators and any overlap set, a plan's loads never
\* differ by more than one item.
THEOREM PlansBalanced == Spec => []LoadsBalanced
<1>1. Init => LoadsBalanced
  BY DEF Init, IdleScript, LoadsBalanced
<1> QED BY <1>1, BalancedNext, TypeCorrect, PTL DEF Spec

----------------------------------------------------------------------------
(* The overlap set *)

SprintOf(d) == {a \in Annotators : InBatch(d, a, "sprint")}

\* Two different annotators if twice, one if not, or nobody yet.
Doubled(as, twice) ==
    \/ as = {}
    \/ ~ twice /\ \E a \in as : as = {a}
    \/ twice /\ \E a, b \in as : a # b /\ as = {a, b}

RowsDoubled ==
    \A d \in Drafts : \E twice \in BOOLEAN :
        /\ Doubled(SprintOf(d), twice)
        /\ \A a \in SprintOf(d) : assignments[<<d, a>>].overlap = twice

\* OverlapIsDoubled is not inductive: it rests on what a plan has given out so far, and
\* on its drafts being nobody's until it commits.
PlanDoubled ==
    script.kind = "plan" =>
        \A d \in Drafts :
            /\ d \in script.todo \/ script.given[d] # {} =>
                  \A a \in Annotators : InBatch(d, a, "none")
            /\ Doubled(script.given[d], d \in script.overlap)

DoubledInv == TypeOK /\ RowsDoubled /\ PlanDoubled

LEMMA DoubledKept ==
    ASSUME DoubledInv,
           \A p \in Pairs : /\ assignments'[p].batch = assignments[p].batch
                            /\ assignments'[p].overlap = assignments[p].overlap,
           script'.kind = "plan" => script' = script
    PROVE  RowsDoubled' /\ PlanDoubled'
<1>1. \A d \in Drafts, a \in Annotators :
         /\ assignments'[<<d, a>>].batch = assignments[<<d, a>>].batch
         /\ assignments'[<<d, a>>].overlap = assignments[<<d, a>>].overlap
  BY DEF Pairs
<1>2. \A d \in Drafts : SprintOf(d)' = SprintOf(d)
  BY <1>1 DEF SprintOf, InBatch
<1>3. \A d \in Drafts : \A a \in SprintOf(d) :
         assignments'[<<d, a>>].overlap = assignments[<<d, a>>].overlap
  BY <1>1 DEF SprintOf
<1>4. RowsDoubled'
  BY <1>2, <1>3 DEF DoubledInv, RowsDoubled
<1>5. PlanDoubled'
  BY <1>1 DEF DoubledInv, PlanDoubled, InBatch
<1> QED BY <1>4, <1>5

LEMMA DoubledGive ==
    ASSUME DoubledInv, NEW d \in Drafts, NEW as \in SUBSET Annotators, Give(d, as),
           d \in script.todo, Doubled(as, d \in script.overlap)
    PROVE  RowsDoubled' /\ PlanDoubled'
<1>1. /\ script'.kind = script.kind
      /\ script'.todo = script.todo \ {d}
      /\ script'.overlap = script.overlap
      /\ script'.given = [script.given EXCEPT ![d] = as]
      /\ UNCHANGED <<assignments, labels, writer>>
  BY GiveScript DEF DoubledInv
<1>2. script.given \in [Drafts -> SUBSET Annotators]
  BY DEF DoubledInv, TypeOK, ScriptRow
<1>3. RowsDoubled'
  BY <1>1, SMTT(30) DEF DoubledInv, RowsDoubled, SprintOf, InBatch
<1>4. PlanDoubled'
  <2> SUFFICES ASSUME script.kind = "plan", NEW e \in Drafts
               PROVE  /\ e \in script'.todo \/ script'.given[e] # {} =>
                            \A a \in Annotators : InBatch(e, a, "none")'
                      /\ Doubled(script'.given[e], e \in script'.overlap)
    BY <1>1 DEF PlanDoubled, Doubled
  <2>1. CASE e = d
    BY <1>1, <1>2, <2>1 DEF DoubledInv, PlanDoubled, InBatch
  <2>2. CASE e # d
    BY <1>1, <1>2, <2>2 DEF DoubledInv, PlanDoubled, InBatch
  <2> QED BY <2>1, <2>2
<1> QED BY <1>3, <1>4

LEMMA DoubledCommit ==
    ASSUME DoubledInv, NEW order, CommitScript(order)
    PROVE  RowsDoubled' /\ PlanDoubled'
<1>1. PlanDoubled'
  BY DEF CommitScript, IdleScript, PlanDoubled
<1>2. ASSUME NEW d \in Drafts
      PROVE  \E twice \in BOOLEAN :
                /\ Doubled(SprintOf(d)', twice)
                /\ \A a \in SprintOf(d)' : assignments'[<<d, a>>].overlap = twice
  <2>1. \A a \in Annotators :
           /\ a \in script.given[d] =>
                 /\ assignments'[<<d, a>>].batch = Batch(script.kind)
                 /\ assignments'[<<d, a>>].overlap = (d \in script.overlap)
           /\ a \notin script.given[d] => assignments'[<<d, a>>] = assignments[<<d, a>>]
    BY DEF CommitScript, Pairs
  <2>2. script.given[d] \subseteq Annotators
    BY DEF DoubledInv, TypeOK, ScriptRow
  <2>3. CASE script.kind = "plan" /\ script.given[d] # {}
    <3>1. \A a \in Annotators : InBatch(d, a, "none")
      BY <2>3 DEF DoubledInv, PlanDoubled
    <3>2. SprintOf(d)' = script.given[d]
      BY <2>1, <2>2, <2>3, <3>1 DEF SprintOf, InBatch, Batch
    <3>3. Doubled(SprintOf(d)', d \in script.overlap)
      BY <2>3, <3>2 DEF DoubledInv, PlanDoubled
    <3>4. \A a \in SprintOf(d)' : assignments'[<<d, a>>].overlap = (d \in script.overlap)
      BY <2>1, <2>2, <3>2
    <3>5. (d \in script.overlap) \in BOOLEAN
      OBVIOUS
    <3> QED BY <3>3, <3>4, <3>5, Zenon
  <2>4. CASE script.kind # "plan" \/ script.given[d] = {}
    <3>1. \A a \in script.given[d] : a \notin SprintOf(d)
      BY <2>2 DEF CommitScript, GivenTo, ItemsOf, SprintOf, InBatch
    <3>2. SprintOf(d)' = SprintOf(d)
      BY <2>1, <2>4, <3>1 DEF SprintOf, InBatch, Batch
    <3>3. \A a \in SprintOf(d) : assignments'[<<d, a>>] = assignments[<<d, a>>]
      BY <2>1, <3>1 DEF SprintOf
    <3> QED BY <3>2, <3>3 DEF DoubledInv, RowsDoubled
  <2> QED BY <2>3, <2>4
<1>3. RowsDoubled'
  BY <1>2 DEF RowsDoubled
<1> QED BY <1>1, <1>3

LEMMA DoubledNext == DoubledInv /\ [Next]_vars => RowsDoubled' /\ PlanDoubled'
<1> SUFFICES ASSUME DoubledInv, [Next]_vars
             PROVE  RowsDoubled' /\ PlanDoubled'
  OBVIOUS
<1>1. ASSUME UNCHANGED assignments, script'.kind = "plan" => script' = script
      PROVE  RowsDoubled' /\ PlanDoubled'
  BY <1>1, DoubledKept
<1>2. ASSUME NEW w \in Writers, NEW a \in Annotators,
             \/ \E d \in Drafts, answer \in Answers : Submit(w, a, d, answer)
             \/ \E file \in [Drafts -> Answers \cup {"none"}] : Import(w, a, file)
      PROVE  RowsDoubled' /\ PlanDoubled'
  BY <1>1, <1>2 DEF Submit, Import
<1>3. ASSUME NEW w \in Writers, Store(w)
      PROVE  RowsDoubled' /\ PlanDoubled'
  BY <1>3, StoreRow, DoubledKept DEF Store, DoubledInv
<1>4. ASSUME NEW w \in Writers, FailStore(w)
      PROVE  RowsDoubled' /\ PlanDoubled'
  BY <1>1, <1>4 DEF FailStore
<1>5. ASSUME NEW drafts \in SUBSET Drafts, NEW overlap \in SUBSET drafts,
             StartPlan(drafts, overlap)
      PROVE  RowsDoubled' /\ PlanDoubled'
  <2>1. RowsDoubled'
    BY <1>5 DEF StartPlan, DoubledInv, RowsDoubled, SprintOf, InBatch
  <2>2. script'.todo = drafts /\ script'.given = Nobody
    BY <1>5 DEF StartPlan, IdleScript
  <2>3. \A d \in drafts, a \in Annotators : InBatch(d, a, "none")'
    BY <1>5 DEF StartPlan, ItemsOf, InBatch
  <2>4. PlanDoubled'
    BY <2>2, <2>3 DEF PlanDoubled, Nobody, Doubled
  <2> QED BY <2>1, <2>4
<1>6. ASSUME NEW d \in Drafts, NEW a \in Annotators, NEW b \in Annotators, PickTwo(d, a, b)
      PROVE  RowsDoubled' /\ PlanDoubled'
  <2>1. a # b
    BY <1>6 DEF PickTwo, SecondChoice, LeastLoaded
  <2>2. Doubled({a, b}, d \in script.overlap)
    BY <1>6, <2>1 DEF PickTwo, Doubled
  <2> QED BY <1>6, <2>2, DoubledGive DEF PickTwo
<1>7. ASSUME NEW d \in Drafts, NEW a \in Annotators, PickOne(d, a)
      PROVE  RowsDoubled' /\ PlanDoubled'
  <2>1. Doubled({a}, d \in script.overlap)
    BY <1>7 DEF PickOne, Doubled
  <2> QED BY <1>7, <2>1, DoubledGive DEF PickOne
<1>8. ASSUME NEW d \in Drafts, NEW a \in Annotators, PickAdjudicator(d, a)
      PROVE  RowsDoubled' /\ PlanDoubled'
  <2>1. {a} \in SUBSET Annotators /\ Give(d, {a}) /\ script.kind = "adjudicate"
    BY <1>8 DEF PickAdjudicator
  <2> QED BY <1>1, <2>1, GiveScript DEF DoubledInv
<1>9. CASE StartAdjudication
  BY <1>1, <1>9 DEF StartAdjudication, IdleScript
<1>10. ASSUME NEW order, CommitScript(order)
       PROVE  RowsDoubled' /\ PlanDoubled'
  BY <1>10, DoubledCommit
<1>11. CASE FailScript
  BY <1>1, <1>11 DEF FailScript, IdleScript
<1>12. CASE UNCHANGED vars
  BY <1>1, <1>12 DEF vars
<1> QED BY <1>2, <1>3, <1>4, <1>5, <1>6, <1>7, <1>8, <1>9, <1>10, <1>11, <1>12 DEF Next

LEMMA DoubledInit == Init => RowsDoubled /\ PlanDoubled
<1> SUFFICES ASSUME Init
             PROVE  RowsDoubled /\ PlanDoubled
  OBVIOUS
<1>1. \A d \in Drafts : SprintOf(d) = {}
  BY DEF Init, SprintOf, InBatch, NoAssignment, Pairs
<1>2. RowsDoubled
  BY <1>1 DEF RowsDoubled, Doubled
<1> QED BY <1>2 DEF Init, PlanDoubled, IdleScript

LEMMA DoubledCounts == RowsDoubled => OverlapIsDoubled
<1> SUFFICES ASSUME RowsDoubled, NEW d \in Drafts, NEW a \in SprintOf(d)
             PROVE  Cardinality(SprintOf(d)) = (IF assignments[<<d, a>>].overlap THEN 2 ELSE 1)
  BY DEF OverlapIsDoubled, SprintOf
<1>1. PICK twice \in BOOLEAN : /\ Doubled(SprintOf(d), twice)
                               /\ \A b \in SprintOf(d) : assignments[<<d, b>>].overlap = twice
  BY DEF RowsDoubled
<1>2. CASE ~ twice
  <2>1. PICK b \in SprintOf(d) : SprintOf(d) = {b}
    BY <1>1, <1>2 DEF Doubled
  <2>2. Cardinality(SprintOf(d)) = 1
    BY <2>1, FS_Singleton
  <2> QED BY <1>1, <1>2, <2>2
<1>3. CASE twice
  <2>1. PICK b, c \in SprintOf(d) : b # c /\ SprintOf(d) = {b, c}
    BY <1>1, <1>3 DEF Doubled
  <2>2. Cardinality({b}) = 1 /\ IsFiniteSet({b})
    BY FS_Singleton
  <2>3. Cardinality({b} \cup {c}) = Cardinality({b}) + 1
    BY <2>1, <2>2, FS_AddElement
  <2>4. {b} \cup {c} = SprintOf(d)
    BY <2>1
  <2>5. Cardinality(SprintOf(d)) = 2
    BY <2>2, <2>3, <2>4
  <2> QED BY <1>1, <1>3, <2>5
<1> QED BY <1>2, <1>3

\* In every batch an overlap draft has exactly two annotators and any other draft one,
\* for any number of drafts and annotators.
THEOREM OverlapDoubled == Spec => []OverlapIsDoubled
<1>1. TypeOK' /\ DoubledInv /\ [Next]_vars => DoubledInv'
  BY DoubledNext DEF DoubledInv
<1>2. TypeOK /\ Init => DoubledInv
  BY DoubledInit DEF DoubledInv
<1>3. DoubledInv => OverlapIsDoubled
  BY DoubledCounts DEF DoubledInv
<1> QED BY <1>1, <1>2, <1>3, TypeCorrect, PTL DEF Spec

----------------------------------------------------------------------------
(* Adjudication *)

\* Only rows that exist are marked as overlap.
OverlapIsReal ==
    \A p \in Pairs : assignments[p].batch = "none" => ~ assignments[p].overlap

\* What the script read is still so when it commits: labels are final.
DisagreementsStand ==
    script.kind = "adjudicate" =>
        \A d \in Drafts :
            /\ script.given[d] \cap script.seen[d] = {}
            /\ d \in script.todo \/ script.given[d] # {} =>
                  Differ(d, OverlapLabels(d) \cap script.seen[d])

AdjudicationInv == TypeOK /\ OverlapIsReal /\ DisagreementsStand /\ AdjudicationIsDue

\* A label an overlap draft has stays one of its labels.
LEMMA OverlapLabelsKept ==
    ASSUME TypeOK, [Next]_vars, NEW d \in Drafts,
           \A a \in Annotators : assignments[<<d, a>>].overlap => assignments'[<<d, a>>].overlap
    PROVE  \A a \in OverlapLabels(d) :
              a \in OverlapLabels(d)' /\ labels'[<<d, a>>] = labels[<<d, a>>]
<1> SUFFICES ASSUME NEW a \in OverlapLabels(d)
             PROVE  a \in OverlapLabels(d)' /\ labels'[<<d, a>>] = labels[<<d, a>>]
  OBVIOUS
<1>1. /\ <<d, a>> \in Pairs
      /\ a \in Annotators
      /\ labels[<<d, a>>] \in Acceptable
      /\ assignments[<<d, a>>].overlap
  BY DEF Pairs, OverlapLabels
<1>2. labels'[<<d, a>>] = labels[<<d, a>>]
  BY <1>1, LabelsKept DEF Acceptable
<1> QED BY <1>1, <1>2 DEF OverlapLabels

LEMMA AdjudicationKept ==
    ASSUME AdjudicationInv, [Next]_vars,
           \A p \in Pairs : /\ assignments'[p].batch = assignments[p].batch
                            /\ assignments'[p].overlap = assignments[p].overlap
    PROVE  /\ OverlapIsReal'
           /\ AdjudicationIsDue'
           /\ (script'.kind = "adjudicate" => script' = script) => DisagreementsStand'
<1>1. \A d \in Drafts, a \in Annotators :
         /\ assignments'[<<d, a>>].batch = assignments[<<d, a>>].batch
         /\ assignments'[<<d, a>>].overlap = assignments[<<d, a>>].overlap
  BY DEF Pairs
<1>2. \A d \in Drafts : \A a \in OverlapLabels(d) :
         a \in OverlapLabels(d)' /\ labels'[<<d, a>>] = labels[<<d, a>>]
  BY <1>1, OverlapLabelsKept DEF AdjudicationInv
<1>3. OverlapIsReal'
  BY DEF OverlapIsReal, AdjudicationInv
<1>4. AdjudicationIsDue'
  <2> SUFFICES ASSUME NEW d \in Drafts, NEW a \in Annotators, InBatch(d, a, "adjud")'
               PROVE  Differ(d, OverlapLabels(d) \ {a})'
    BY DEF AdjudicationIsDue
  <2>1. Differ(d, OverlapLabels(d) \ {a})
    BY <1>1 DEF AdjudicationInv, AdjudicationIsDue, InBatch
  <2> QED BY <1>2, <2>1 DEF Differ
<1>5. ASSUME script'.kind = "adjudicate" => script' = script
      PROVE  DisagreementsStand'
  <2> SUFFICES ASSUME script'.kind = "adjudicate", NEW d \in Drafts,
                      d \in script.todo \/ script.given[d] # {}
               PROVE  Differ(d, OverlapLabels(d) \cap script.seen[d])'
    BY <1>5 DEF DisagreementsStand, AdjudicationInv
  <2>1. script' = script
    BY <1>5
  <2>2. Differ(d, OverlapLabels(d) \cap script.seen[d])
    BY <2>1 DEF DisagreementsStand, AdjudicationInv
  <2> QED BY <1>2, <2>1, <2>2 DEF Differ
<1> QED BY <1>3, <1>4, <1>5

LEMMA AdjudicationCommit ==
    ASSUME AdjudicationInv, [Next]_vars, NEW order, CommitScript(order)
    PROVE  OverlapIsReal' /\ AdjudicationIsDue' /\ DisagreementsStand'
<1>1. DisagreementsStand'
  BY DEF CommitScript, IdleScript, DisagreementsStand
<1>2. \A p \in Pairs :
         /\ p[2] \in script.given[p[1]] =>
               /\ assignments[p].batch = "none"
               /\ assignments'[p].batch = Batch(script.kind)
         /\ p[2] \notin script.given[p[1]] => assignments'[p] = assignments[p]
  BY DEF CommitScript, GivenTo, ItemsOf, InBatch, Pairs
<1>3. OverlapIsReal'
  BY <1>2 DEF OverlapIsReal, AdjudicationInv, Batch
<1>4. \A d \in Drafts : \A a \in OverlapLabels(d) :
         a \in OverlapLabels(d)' /\ labels'[<<d, a>>] = labels[<<d, a>>]
  <2> SUFFICES ASSUME NEW d \in Drafts, NEW a \in Annotators, assignments[<<d, a>>].overlap
               PROVE  assignments'[<<d, a>>].overlap
    BY OverlapLabelsKept DEF AdjudicationInv
  <2>1. <<d, a>> \in Pairs
    BY DEF Pairs
  <2> QED BY <1>2, <2>1 DEF AdjudicationInv, OverlapIsReal
<1>5. AdjudicationIsDue'
  <2> SUFFICES ASSUME NEW d \in Drafts, NEW a \in Annotators, InBatch(d, a, "adjud")'
               PROVE  Differ(d, OverlapLabels(d) \ {a})'
    BY DEF AdjudicationIsDue
  <2>1. <<d, a>> \in Pairs
    BY DEF Pairs
  <2>2. Differ(d, OverlapLabels(d) \ {a})
    <3>1. CASE a \in script.given[d]
      <4>1. script.kind = "adjudicate"
        BY <1>2, <2>1, <3>1 DEF InBatch, Batch, CommitScript, AdjudicationInv, TypeOK, ScriptRow
      <4>2. Differ(d, OverlapLabels(d) \cap script.seen[d]) /\ a \notin script.seen[d]
        BY <3>1, <4>1 DEF AdjudicationInv, DisagreementsStand
      <4> QED BY <4>2 DEF Differ
    <3>2. CASE a \notin script.given[d]
      BY <1>2, <2>1, <3>2 DEF InBatch, AdjudicationInv, AdjudicationIsDue
    <3> QED BY <3>1, <3>2
  <2> QED BY <1>4, <2>2 DEF Differ
<1> QED BY <1>1, <1>3, <1>5

LEMMA AdjudicationGive ==
    ASSUME AdjudicationInv, [Next]_vars, NEW d \in Drafts, NEW a \in Annotators, Give(d, {a}),
           script.kind = "adjudicate", d \in script.todo, a \notin script.seen[d]
    PROVE  OverlapIsReal' /\ AdjudicationIsDue' /\ DisagreementsStand'
<1>1. /\ script'.todo = script.todo \ {d}
      /\ script'.seen = script.seen
      /\ script'.given = [script.given EXCEPT ![d] = {a}]
      /\ UNCHANGED <<assignments, labels, writer>>
  <2>1. {a} \in SUBSET Annotators
    OBVIOUS
  <2> QED BY <2>1, GiveScript DEF AdjudicationInv
<1>2. OverlapIsReal' /\ AdjudicationIsDue'
  BY <1>1, AdjudicationKept
<1>3. \A e \in Drafts : OverlapLabels(e)' = OverlapLabels(e)
  BY <1>1 DEF OverlapLabels
<1>4. script.given \in [Drafts -> SUBSET Annotators]
  BY DEF AdjudicationInv, TypeOK, ScriptRow
<1>5. ASSUME NEW e \in Drafts
      PROVE  /\ script'.given[e] \cap script'.seen[e] = {}
             /\ e \in script'.todo \/ script'.given[e] # {} =>
                   Differ(e, OverlapLabels(e) \cap script.seen[e])
  <2>1. CASE e = d
    BY <1>1, <1>4, <2>1 DEF AdjudicationInv, DisagreementsStand
  <2>2. CASE e # d
    BY <1>1, <1>4, <2>2 DEF AdjudicationInv, DisagreementsStand
  <2> QED BY <2>1, <2>2
<1>6. DisagreementsStand'
  BY <1>1, <1>3, <1>5 DEF DisagreementsStand, Differ
<1> QED BY <1>2, <1>6

LEMMA AdjudicationNext ==
    AdjudicationInv /\ [Next]_vars => OverlapIsReal' /\ AdjudicationIsDue' /\ DisagreementsStand'
<1> SUFFICES ASSUME AdjudicationInv, [Next]_vars
             PROVE  OverlapIsReal' /\ AdjudicationIsDue' /\ DisagreementsStand'
  OBVIOUS
<1> DEFINE Goal == OverlapIsReal' /\ AdjudicationIsDue' /\ DisagreementsStand'
<1>1. ASSUME UNCHANGED assignments, script'.kind = "adjudicate" => script' = script
      PROVE  Goal
  BY <1>1, AdjudicationKept
<1>2. ASSUME NEW w \in Writers, NEW a \in Annotators,
             \/ \E d \in Drafts, answer \in Answers : Submit(w, a, d, answer)
             \/ \E file \in [Drafts -> Answers \cup {"none"}] : Import(w, a, file)
      PROVE  Goal
  BY <1>1, <1>2 DEF Submit, Import
<1>3. ASSUME NEW w \in Writers, Store(w)
      PROVE  Goal
  BY <1>3, StoreRow, AdjudicationKept DEF Store, AdjudicationInv
<1>4. ASSUME NEW w \in Writers, FailStore(w)
      PROVE  Goal
  BY <1>1, <1>4 DEF FailStore
<1>5. ASSUME NEW drafts \in SUBSET Drafts, NEW overlap \in SUBSET drafts,
             StartPlan(drafts, overlap)
      PROVE  Goal
  BY <1>1, <1>5 DEF StartPlan, IdleScript
<1>6. ASSUME NEW d \in Drafts, NEW as \in SUBSET Annotators, Give(d, as), script.kind = "plan"
      PROVE  Goal
  BY <1>1, <1>6, GiveScript DEF AdjudicationInv
<1>7. ASSUME NEW d \in Drafts, NEW a \in Annotators, NEW b \in Annotators, PickTwo(d, a, b)
      PROVE  Goal
  BY <1>6, <1>7 DEF PickTwo
<1>8. ASSUME NEW d \in Drafts, NEW a \in Annotators, PickOne(d, a)
      PROVE  Goal
  BY <1>6, <1>8 DEF PickOne
<1>9. ASSUME NEW d \in Drafts, NEW a \in Annotators, PickAdjudicator(d, a)
      PROVE  Goal
  BY <1>9, AdjudicationGive DEF PickAdjudicator, LeastLoaded
<1>10. CASE StartAdjudication
  <2>1. OverlapIsReal' /\ AdjudicationIsDue'
    BY <1>10, AdjudicationKept DEF StartAdjudication
  <2>2. /\ script'.todo = {d \in Drafts : Disagree(d)}
        /\ script'.given = Nobody
        /\ script'.seen = [d \in Drafts |-> IF Disagree(d) THEN OverlapLabels(d) ELSE {}]
    BY <1>10 DEF StartAdjudication, IdleScript
  <2>3. \A d \in Drafts : OverlapLabels(d)' = OverlapLabels(d)
    BY <1>10 DEF StartAdjudication, OverlapLabels
  <2>4. \A d \in Drafts : Disagree(d) => Differ(d, OverlapLabels(d) \cap script'.seen[d])
    BY <2>2 DEF Disagree, Differ
  <2>5. labels' = labels
    BY <1>10 DEF StartAdjudication
  <2>6. DisagreementsStand'
    BY <2>2, <2>3, <2>4, <2>5 DEF DisagreementsStand, Nobody, Differ
  <2> QED BY <2>1, <2>6
<1>11. ASSUME NEW order, CommitScript(order)
       PROVE  Goal
  BY <1>11, AdjudicationCommit
<1>12. CASE FailScript
  BY <1>1, <1>12 DEF FailScript, IdleScript
<1>13. CASE UNCHANGED vars
  BY <1>1, <1>13 DEF vars
<1> HIDE DEF Goal
<1> QED BY <1>2, <1>3, <1>4, <1>5, <1>7, <1>8, <1>9, <1>10, <1>11, <1>12, <1>13 DEF Next, Goal

LEMMA AdjudicationInit == Init => OverlapIsReal /\ AdjudicationIsDue /\ DisagreementsStand
BY DEF Init, OverlapIsReal, AdjudicationIsDue, DisagreementsStand, InBatch, NoAssignment, Pairs,
       IdleScript

\* Whoever adjudicates a draft has two other people's labels to decide between, however
\* many answers, imports and adjudications there are and whenever they come.
THEOREM AdjudicationsDue == Spec => []AdjudicationIsDue
<1>1. TypeOK' /\ AdjudicationInv /\ [Next]_vars => AdjudicationInv'
  BY AdjudicationNext DEF AdjudicationInv
<1>2. TypeOK /\ Init => AdjudicationInv
  BY AdjudicationInit DEF AdjudicationInv
<1>3. AdjudicationInv => AdjudicationIsDue
  BY DEF AdjudicationInv
<1> QED BY <1>1, <1>2, <1>3, TypeCorrect, PTL DEF Spec

----------------------------------------------------------------------------
(* The adjudicator decides *)

(***************************************************************************)
(* If adjudicate waits for the answers of the adjudicators it named, a     *)
(* draft has at most one who did not skip it.  The wait is not enough by   *)
(* itself: that an answered draft is not due again follows from            *)
(* AdjudicationsDue, because its adjudicator's label is then a third one.  *)
(***************************************************************************)
Adjudicates(d, a) == InBatch(d, a, "adjud") /\ labels[<<d, a>>] # "skip"

OneAdjudicator ==
    /\ \A p \in Pairs : /\ assignments[p].completed => labels[p] # "none"
                        /\ assignments[p].batch = "adjud" => assignments[p].overlap
    /\ \A d \in Drafts, a, b \in Annotators : Adjudicates(d, a) /\ Adjudicates(d, b) => a = b
    /\ script.kind = "adjudicate" =>
          \A d \in Drafts :
             d \in script.todo \/ script.given[d] # {} =>
                /\ d \in script.overlap
                /\ \A a \in Annotators : ~ Adjudicates(d, a)
                /\ \A a, b \in script.given[d] : a = b
                /\ d \in script.todo => script.given[d] = {}

ThirdInv == AdjudicationInv /\ OneAdjudicator

\* A draft whose adjudicator gave a label is not due again.
LEMMA AnsweredIsNotDue ==
    ASSUME AdjudicationInv, OneAdjudicator, NEW d \in Drafts, NEW a \in Annotators,
           InBatch(d, a, "adjud"), labels[<<d, a>>] \in Acceptable
    PROVE  ~ Disagree(d)
<1>1. a \in OverlapLabels(d)
  BY DEF OneAdjudicator, InBatch, OverlapLabels, Pairs
<1>2. PICK b, c \in OverlapLabels(d) \ {a} : labels[<<d, b>>] # labels[<<d, c>>]
  BY DEF AdjudicationInv, AdjudicationIsDue, Differ
<1>3. a # b /\ a # c /\ b # c
  BY <1>2
<1>4. IsFiniteSet({b}) /\ Cardinality({b}) = 1
  BY FS_Singleton
<1>5. IsFiniteSet({b} \cup {c}) /\ Cardinality({b} \cup {c}) = 2
  <2>1. c \notin {b}
    BY <1>3
  <2>2. IsFiniteSet({b} \cup {c}) /\ Cardinality({b} \cup {c}) = Cardinality({b}) + 1
    BY <1>4, <2>1, FS_AddElement, Zenon
  <2> QED BY <1>4, <2>2
<1>6. Cardinality(({b} \cup {c}) \cup {a}) = 3
  <2>1. a \notin {b} \cup {c}
    BY <1>3
  <2>2. Cardinality(({b} \cup {c}) \cup {a}) = Cardinality({b} \cup {c}) + 1
    BY <1>5, <2>1, FS_AddElement, Zenon
  <2> QED BY <1>5, <2>2
<1>7. ({b} \cup {c}) \cup {a} \in SUBSET OverlapLabels(d)
  BY <1>1, <1>2
<1>8. IsFiniteSet(OverlapLabels(d)) /\ Cardinality(OverlapLabels(d)) \in Nat
  <2>1. OverlapLabels(d) \in SUBSET Annotators
    BY DEF OverlapLabels
  <2> QED BY <2>1, AnnotationAssumption, FS_Subset, FS_CardinalityType
<1>9. Cardinality(({b} \cup {c}) \cup {a}) <= Cardinality(OverlapLabels(d))
  BY <1>7, <1>8, FS_Subset, Zenon
<1> QED BY <1>6, <1>8, <1>9 DEF Disagree

LEMMA OneAdjudicatorKept ==
    ASSUME ThirdInv, [Next]_vars,
           \A p \in Pairs : /\ assignments'[p].batch = assignments[p].batch
                            /\ assignments'[p].overlap = assignments[p].overlap
                            /\ assignments'[p].completed => labels'[p] # "none",
           script'.kind = "adjudicate" => script' = script
    PROVE  OneAdjudicator'
<1>1. ASSUME NEW d \in Drafts, NEW a \in Annotators, Adjudicates(d, a)'
      PROVE  Adjudicates(d, a)
  <2>1. <<d, a>> \in Pairs
    BY DEF Pairs
  <2>2. labels[<<d, a>>] # "skip"
    BY <1>1, <2>1, LabelsKept DEF Adjudicates, ThirdInv, AdjudicationInv
  <2> QED BY <1>1, <2>1, <2>2 DEF Adjudicates, InBatch
<1> QED BY <1>1 DEF OneAdjudicator, ThirdInv

LEMMA OneAdjudicatorGive ==
    ASSUME ThirdInv, NEW d \in Drafts, NEW a \in Annotators, Give(d, {a}), d \in script.todo,
           script.kind = "adjudicate"
    PROVE  OneAdjudicator'
<1>1. /\ script'.todo = script.todo \ {d}
      /\ script'.overlap = script.overlap
      /\ script'.given = [script.given EXCEPT ![d] = {a}]
      /\ UNCHANGED <<assignments, labels, writer>>
  <2>1. {a} \in SUBSET Annotators
    OBVIOUS
  <2> QED BY <2>1, GiveScript DEF ThirdInv, AdjudicationInv
<1>2. script.given \in [Drafts -> SUBSET Annotators]
  BY DEF ThirdInv, AdjudicationInv, TypeOK, ScriptRow
<1>3. \A e \in Drafts, b \in Annotators : Adjudicates(e, b)' = Adjudicates(e, b)
  BY <1>1 DEF Adjudicates, InBatch
<1>4. ASSUME NEW e \in Drafts, e \in script'.todo \/ script'.given[e] # {}
      PROVE  /\ e \in script'.overlap
             /\ \A b \in Annotators : ~ Adjudicates(e, b)
             /\ \A b, c \in script'.given[e] : b = c
             /\ e \in script'.todo => script'.given[e] = {}
  <2>1. CASE e = d
    BY <1>1, <1>2, <2>1 DEF ThirdInv, OneAdjudicator
  <2>2. CASE e # d
    BY <1>1, <1>2, <1>4, <2>2 DEF ThirdInv, OneAdjudicator
  <2> QED BY <2>1, <2>2
<1> QED BY <1>1, <1>3, <1>4 DEF ThirdInv, OneAdjudicator

LEMMA OneAdjudicatorCommit ==
    ASSUME ThirdInv, NEW order, CommitScript(order)
    PROVE  OneAdjudicator'
<1>1. \A p \in Pairs :
         /\ p[2] \in script.given[p[1]] =>
               /\ assignments[p].batch = "none"
               /\ assignments'[p].batch = Batch(script.kind)
               /\ assignments'[p].overlap = (p[1] \in script.overlap)
               /\ ~ assignments'[p].completed
         /\ p[2] \notin script.given[p[1]] => assignments'[p] = assignments[p]
  BY DEF CommitScript, GivenTo, ItemsOf, InBatch, Pairs
<1>2. labels' = labels /\ script'.kind = "idle" /\ script.kind \in {"plan", "adjudicate"}
  BY DEF CommitScript, IdleScript, ThirdInv, AdjudicationInv, TypeOK, ScriptRow
<1>3. ASSUME NEW p \in Pairs
      PROVE  /\ assignments'[p].completed => labels'[p] # "none"
             /\ assignments'[p].batch = "adjud" => assignments'[p].overlap
  <2>1. p[1] \in Drafts
    BY DEF Pairs
  <2>2. CASE p[2] \in script.given[p[1]]
    BY <1>1, <1>2, <2>1, <2>2 DEF ThirdInv, OneAdjudicator, Batch
  <2>3. CASE p[2] \notin script.given[p[1]]
    BY <1>1, <1>2, <2>3 DEF ThirdInv, OneAdjudicator
  <2> QED BY <2>2, <2>3
<1>4. ASSUME NEW d \in Drafts, NEW a \in Annotators, NEW b \in Annotators,
             Adjudicates(d, a)', Adjudicates(d, b)'
      PROVE  a = b
  <2>1. <<d, a>> \in Pairs /\ <<d, b>> \in Pairs
    BY DEF Pairs
  <2>2. \A x \in {a, b} :
           \/ Adjudicates(d, x) /\ x \notin script.given[d]
           \/ script.kind = "adjudicate" /\ x \in script.given[d]
    BY <1>1, <1>2, <1>4, <2>1 DEF Adjudicates, InBatch, Batch
  <2> QED BY <2>2 DEF ThirdInv, OneAdjudicator
<1> QED BY <1>2, <1>3, <1>4 DEF OneAdjudicator

LEMMA OneAdjudicatorStart ==
    ASSUME ThirdInv, ~ RerunEarly, StartAdjudication
    PROVE  OneAdjudicator'
<1>1. /\ script'.todo = {d \in Drafts : Disagree(d)}
      /\ script'.overlap = {d \in Drafts : Disagree(d)}
      /\ script'.given = Nobody
      /\ UNCHANGED <<assignments, labels, writer>>
  BY DEF StartAdjudication, IdleScript
<1>2. ASSUME NEW d \in Drafts, NEW a \in Annotators, Disagree(d), Adjudicates(d, a)
      PROVE  FALSE
  <2>1. <<d, a>> \in Pairs
    BY DEF Pairs
  <2>2. labels[<<d, a>>] # "none"
    BY <1>2, <2>1 DEF StartAdjudication, ThirdInv, OneAdjudicator, Adjudicates, InBatch
  <2>3. labels[<<d, a>>] \in Acceptable
    BY <1>2, <2>1, <2>2 DEF Adjudicates, ThirdInv, AdjudicationInv, TypeOK, LabelTable, Answers,
                            Acceptable
  <2> QED BY <1>2, <2>3, AnsweredIsNotDue DEF Adjudicates, ThirdInv
<1>3. \A d \in Drafts, a \in Annotators : Adjudicates(d, a)' = Adjudicates(d, a)
  BY <1>1 DEF Adjudicates, InBatch
<1> QED BY <1>1, <1>2, <1>3 DEF ThirdInv, OneAdjudicator, Nobody

LEMMA OneAdjudicatorNext == ~ RerunEarly /\ ThirdInv /\ [Next]_vars => OneAdjudicator'
<1> SUFFICES ASSUME ~ RerunEarly, ThirdInv, [Next]_vars
             PROVE  OneAdjudicator'
  OBVIOUS
<1>1. ASSUME UNCHANGED <<assignments, labels>>, script'.kind = "adjudicate" => script' = script
      PROVE  OneAdjudicator'
  BY <1>1, OneAdjudicatorKept DEF ThirdInv, OneAdjudicator
<1>2. ASSUME NEW w \in Writers, NEW a \in Annotators,
             \/ \E d \in Drafts, answer \in Answers : Submit(w, a, d, answer)
             \/ \E file \in [Drafts -> Answers \cup {"none"}] : Import(w, a, file)
      PROVE  OneAdjudicator'
  BY <1>1, <1>2 DEF Submit, Import
<1>3. ASSUME NEW w \in Writers, Store(w)
      PROVE  OneAdjudicator'
  <2>1. ASSUME NEW p \in Pairs, assignments'[p].completed
        PROVE  labels'[p] # "none"
    <3>1. assignments'[p] = [assignments[p] EXCEPT !.completed = @ \/ writer[w][p] # "none"]
      BY <1>3 DEF Store
    <3>2. assignments[p] \in AssignmentRow
      BY DEF ThirdInv, AdjudicationInv, TypeOK
    <3>3. assignments[p].completed \/ writer[w][p] # "none"
      BY <2>1, <3>1, <3>2 DEF AssignmentRow
    <3> QED BY <1>3, <3>3 DEF Store, ThirdInv, OneAdjudicator
  <2>2. script' = script
    BY <1>3 DEF Store
  <2> QED BY <1>3, <2>1, <2>2, StoreRow, OneAdjudicatorKept DEF ThirdInv, AdjudicationInv
<1>4. ASSUME NEW w \in Writers, FailStore(w)
      PROVE  OneAdjudicator'
  BY <1>1, <1>4 DEF FailStore
<1>5. ASSUME NEW drafts \in SUBSET Drafts, NEW overlap \in SUBSET drafts,
             StartPlan(drafts, overlap)
      PROVE  OneAdjudicator'
  BY <1>1, <1>5 DEF StartPlan, IdleScript
<1>6. ASSUME NEW d \in Drafts, NEW as \in SUBSET Annotators, Give(d, as), script.kind = "plan"
      PROVE  OneAdjudicator'
  BY <1>1, <1>6, GiveScript DEF ThirdInv, AdjudicationInv
<1>7. ASSUME NEW d \in Drafts, NEW a \in Annotators, NEW b \in Annotators, PickTwo(d, a, b)
      PROVE  OneAdjudicator'
  BY <1>6, <1>7 DEF PickTwo
<1>8. ASSUME NEW d \in Drafts, NEW a \in Annotators, PickOne(d, a)
      PROVE  OneAdjudicator'
  BY <1>6, <1>8 DEF PickOne
<1>9. ASSUME NEW d \in Drafts, NEW a \in Annotators, PickAdjudicator(d, a)
      PROVE  OneAdjudicator'
  BY <1>9, OneAdjudicatorGive DEF PickAdjudicator
<1>10. CASE StartAdjudication
  BY <1>10, OneAdjudicatorStart
<1>11. ASSUME NEW order, CommitScript(order)
       PROVE  OneAdjudicator'
  BY <1>11, OneAdjudicatorCommit
<1>12. CASE FailScript
  BY <1>1, <1>12 DEF FailScript, IdleScript
<1>13. CASE UNCHANGED vars
  BY <1>1, <1>13 DEF vars
<1> QED BY <1>2, <1>3, <1>4, <1>5, <1>7, <1>8, <1>9, <1>10, <1>11, <1>12, <1>13 DEF Next

LEMMA OneAdjudicatorInit == Init => OneAdjudicator
BY DEF Init, OneAdjudicator, Adjudicates, InBatch, NoAssignment, NoLabels, Pairs, IdleScript

\* A draft with an adjudicator has both labels from its first reviewers.
LEMMA AdjudicatedIsSplit ==
    ASSUME ThirdInv, NEW d \in Drafts, NEW a \in Annotators, InBatch(d, a, "adjud")
    PROVE  LabelsIn(d, "sprint") = Acceptable
<1>1. PICK e \in Annotators : /\ InBatch(d, e, "adjud")
                              /\ \A b \in Annotators \ {e} : ~ Adjudicates(d, b)
  <2>1. CASE \E e \in Annotators : Adjudicates(d, e)
    BY <2>1 DEF ThirdInv, OneAdjudicator, Adjudicates
  <2>2. CASE ~ \E e \in Annotators : Adjudicates(d, e)
    BY <2>2
  <2> QED BY <2>1, <2>2
<1>2. PICK b, c \in OverlapLabels(d) \ {e} : labels[<<d, b>>] # labels[<<d, c>>]
  BY <1>1 DEF ThirdInv, AdjudicationInv, AdjudicationIsDue, Differ
<1>3. \A x \in {b, c} : /\ x \in Annotators
                        /\ labels[<<d, x>>] \in Acceptable
                        /\ InBatch(d, x, "sprint")
  <2> SUFFICES ASSUME NEW x \in {b, c}
               PROVE  /\ x \in Annotators
                      /\ labels[<<d, x>>] \in Acceptable
                      /\ InBatch(d, x, "sprint")
    OBVIOUS
  <2>1. /\ <<d, x>> \in Pairs
        /\ x \in Annotators \ {e}
        /\ labels[<<d, x>>] \in Acceptable
        /\ assignments[<<d, x>>].overlap
    BY <1>2 DEF OverlapLabels, Pairs
  <2>2. ~ InBatch(d, x, "adjud")
    BY <1>1, <2>1 DEF Adjudicates, Acceptable
  <2>3. assignments[<<d, x>>].batch \in {"none", "sprint", "adjud"}
    BY <2>1 DEF ThirdInv, AdjudicationInv, TypeOK, AssignmentRow
  <2> QED BY <2>1, <2>2, <2>3 DEF ThirdInv, AdjudicationInv, OverlapIsReal, InBatch
<1> QED BY <1>2, <1>3 DEF LabelsIn, Acceptable

LEMMA ThirdDecides == ThirdInv => AdjudicatorDecides
<1> SUFFICES ASSUME ThirdInv, NEW d \in Drafts, NEW a \in Annotators,
                    InBatch(d, a, "adjud"), labels[<<d, a>>] \in Acceptable
             PROVE  Targets(d) = {labels[<<d, a>>]}
  BY DEF AdjudicatorDecides
<1>1. \A b \in Annotators \ {a} : ~ Adjudicates(d, b)
  BY DEF ThirdInv, OneAdjudicator, Adjudicates, Acceptable
<1>2. LabelsIn(d, "adjud") = {labels[<<d, a>>]}
  BY <1>1 DEF LabelsIn, Adjudicates, Acceptable
<1> QED BY <1>2, AdjudicatedIsSplit DEF Targets

LEMMA ThirdHolds == ASSUME ~ RerunEarly
                    PROVE  Spec => []ThirdInv
<1>1. TypeOK' /\ ThirdInv /\ [Next]_vars => ThirdInv'
  BY AdjudicationNext, OneAdjudicatorNext DEF ThirdInv, AdjudicationInv
<1>2. TypeOK /\ Init => ThirdInv
  BY AdjudicationInit, OneAdjudicatorInit DEF ThirdInv, AdjudicationInv
<1> QED BY <1>1, <1>2, TypeCorrect, PTL DEF Spec

\* If adjudicate is run again only after the adjudicators it named have answered, then,
\* for any number of drafts, annotators and overlapping answers, an adjudicator's label
\* is the draft's target.
THEOREM AdjudicatorsDecide == ASSUME ~ RerunEarly
                              PROVE  Spec => []AdjudicatorDecides
BY ThirdHolds, ThirdDecides, PTL

----------------------------------------------------------------------------
(* Targets *)

\* Nobody answers for an assignment they do not have.
AnswersAreAssigned ==
    \A p \in Pairs :
        labels[p] # "none" \/ (\E w \in Writers : writer[w][p] # "none") =>
            assignments[p].batch # "none"

\* An assignment stays in its batch.
LEMMA BatchKept ==
    ASSUME TypeOK, [Next]_vars, NEW p \in Pairs, assignments[p].batch # "none"
    PROVE  assignments'[p].batch = assignments[p].batch
<1>1. ASSUME NEW w \in Writers, Store(w)
      PROVE  assignments'[p].batch = assignments[p].batch
  BY <1>1, StoreRow
<1>2. ASSUME NEW order, CommitScript(order)
      PROVE  assignments'[p].batch = assignments[p].batch
  <2>1. p[1] \in Drafts /\ p[2] \in Annotators /\ p = <<p[1], p[2]>>
    BY DEF Pairs
  <2>2. p[1] \in ItemsOf(p[2])
    BY <2>1 DEF ItemsOf, InBatch
  <2>3. p[2] \notin script.given[p[1]]
    BY <1>2, <2>1, <2>2 DEF CommitScript, GivenTo
  <2> QED BY <1>2, <2>3 DEF CommitScript
<1>3. CASE UNCHANGED assignments
  BY <1>3
<1> QED BY <1>1, <1>2, <1>3
        DEF Next, vars, Submit, Import, FailStore, StartPlan, PickTwo, PickOne,
            PickAdjudicator, Give, StartAdjudication, FailScript

LEMMA AssignedNext == TypeOK /\ AnswersAreAssigned /\ [Next]_vars => AnswersAreAssigned'
<1> SUFFICES ASSUME TypeOK, AnswersAreAssigned, [Next]_vars, NEW p \in Pairs,
                    \/ labels'[p] # "none"
                    \/ \E w \in Writers : writer'[w][p] # "none"
             PROVE  assignments'[p].batch # "none"
  BY DEF AnswersAreAssigned
<1>1. SUFFICES ASSUME assignments[p].batch = "none"
               PROVE  FALSE
  BY BatchKept
<1>2. labels[p] = "none" /\ \A w \in Writers : writer[w][p] = "none"
  BY <1>1 DEF AnswersAreAssigned
<1> DEFINE Silent == labels'[p] = "none" /\ \A w \in Writers : writer'[w][p] = "none"
<1>3. NoLabels[p] = "none"
  BY DEF NoLabels
<1>4. ASSUME NEW w \in Writers, NEW a \in Annotators, NEW d \in Drafts, NEW answer \in Answers,
             Submit(w, a, d, answer)
      PROVE  Silent
  <2>1. p # <<d, a>>
    BY <1>1, <1>4 DEF Submit, ItemsOf, InBatch
  <2> QED BY <1>2, <1>4, <2>1 DEF Submit, TypeOK, LabelTable
<1>5. ASSUME NEW w \in Writers, NEW a \in Annotators,
             NEW file \in [Drafts -> Answers \cup {"none"}], Import(w, a, file)
      PROVE  Silent
  <2>1. p[1] \in Drafts /\ p = <<p[1], p[2]>>
    BY DEF Pairs
  <2>2. p[2] = a => file[p[1]] = "none"
    BY <1>1, <1>5, <2>1 DEF Import, ItemsOf, InBatch
  <2> QED BY <1>2, <1>5, <2>2 DEF Import, TypeOK
<1>6. ASSUME NEW w \in Writers, Store(w) \/ FailStore(w)
      PROVE  Silent
  BY <1>2, <1>3, <1>6 DEF Store, FailStore, TypeOK
<1>7. CASE UNCHANGED <<labels, writer>>
  BY <1>2, <1>7
<1>8. Silent
  BY <1>4, <1>5, <1>6, <1>7
     DEF Next, vars, StartPlan, PickTwo, PickOne, PickAdjudicator, Give, StartAdjudication,
         CommitScript, FailScript
<1> QED BY <1>8

\* A step that creates an assignment stores no label for it.
LEMMA NewIsUnlabelled ==
    ASSUME TypeOK, AnswersAreAssigned, [Next]_vars, NEW p \in Pairs,
           assignments[p].batch = "none", assignments'[p].batch # "none"
    PROVE  labels'[p] = "none"
<1>1. labels[p] = "none"
  BY DEF AnswersAreAssigned
<1>2. \A w \in Writers : ~ Store(w)
  BY StoreRow
<1>3. CASE UNCHANGED labels
  BY <1>1, <1>3
<1> QED BY <1>2, <1>3 DEF Next, vars, Submit, Import, FailStore, StartPlan, PickTwo, PickOne,
                          PickAdjudicator, Give, StartAdjudication, CommitScript, FailScript

\* Labels of a batch accumulate.
LEMMA LabelsInGrow ==
    ASSUME TypeOK, [Next]_vars, NEW d \in Drafts, NEW batch \in {"sprint", "adjud"}
    PROVE  LabelsIn(d, batch) \subseteq LabelsIn(d, batch)'
<1> SUFFICES ASSUME NEW a \in Annotators, InBatch(d, a, batch), labels[<<d, a>>] \in Acceptable
             PROVE  InBatch(d, a, batch)' /\ labels'[<<d, a>>] = labels[<<d, a>>]
  BY DEF LabelsIn
<1>1. <<d, a>> \in Pairs
  BY DEF Pairs
<1> QED BY <1>1, BatchKept, LabelsKept DEF InBatch, Acceptable

LEMMA AssignedInit == Init => AnswersAreAssigned
BY DEF Init, AnswersAreAssigned, NoLabels

LEMMA TargetKept ==
    ASSUME ThirdInv, ThirdInv', AnswersAreAssigned, [Next]_vars,
           NEW d \in Drafts, NEW x \in Acceptable, NEW y \in Acceptable,
           Targets(d) = {x}, y \in Targets(d)'
    PROVE  x = y
<1>1. /\ LabelsIn(d, "sprint") \subseteq LabelsIn(d, "sprint")'
      /\ LabelsIn(d, "adjud") \subseteq LabelsIn(d, "adjud")'
  BY LabelsInGrow DEF ThirdInv, AdjudicationInv
<1>2. LabelsIn(d, "sprint")' \subseteq Acceptable
  BY DEF LabelsIn
<1>3. CASE LabelsIn(d, "sprint") = Acceptable
  <2>1. LabelsIn(d, "sprint")' = Acceptable
    BY <1>1, <1>2, <1>3
  <2>2. x \in LabelsIn(d, "adjud")'
    BY <1>1, <1>3 DEF Targets
  <2>3. PICK a \in Annotators : InBatch(d, a, "adjud")' /\ labels'[<<d, a>>] = x
    BY <2>2 DEF LabelsIn
  <2>4. AdjudicatorDecides'
    BY ThirdDecides, PTL
  <2>5. Targets(d)' = {x}
    BY <2>3, <2>4 DEF AdjudicatorDecides
  <2> QED BY <2>5
<1>4. CASE LabelsIn(d, "sprint") # Acceptable
  <2>1. LabelsIn(d, "sprint") = {x}
    BY <1>4 DEF Targets
  <2>2. \A a \in Annotators : ~ InBatch(d, a, "adjud")
    BY <1>4, AdjudicatedIsSplit
  <2>3. CASE LabelsIn(d, "sprint")' # Acceptable
    <3>1. LabelsIn(d, "sprint")' = {x}
      BY <1>1, <1>2, <2>1, <2>3 DEF Acceptable
    <3> QED BY <2>3, <3>1 DEF Targets
  <2>4. CASE LabelsIn(d, "sprint")' = Acceptable
    <3>1. PICK a \in Annotators : InBatch(d, a, "adjud")' /\ labels'[<<d, a>>] \in Acceptable
      BY <2>4 DEF Targets, LabelsIn
    <3>2. <<d, a>> \in Pairs /\ assignments[<<d, a>>].batch = "none"
      BY <2>2, <3>1, BatchKept DEF InBatch, Pairs, ThirdInv, AdjudicationInv
    <3>3. labels'[<<d, a>>] = "none"
      BY <3>1, <3>2, NewIsUnlabelled DEF InBatch, ThirdInv, AdjudicationInv
    <3> QED BY <3>1, <3>3 DEF Acceptable
  <2> QED BY <2>3, <2>4
<1> QED BY <1>3, <1>4

\* If adjudicate waits for answers, no step turns the target of a draft around, for any
\* number of drafts, annotators, answers and imports.
THEOREM TargetsNeverFlip == ASSUME ~ RerunEarly
                            PROVE  Spec => TargetNeverFlips
<1>1. ThirdInv /\ ThirdInv' /\ AnswersAreAssigned /\ [Next]_vars => [TargetsStay]_vars
  BY TargetKept DEF TargetsStay
<1>2. ThirdInv /\ AnswersAreAssigned /\ [Next]_vars => AnswersAreAssigned'
  BY AssignedNext DEF ThirdInv, AdjudicationInv
<1> QED BY <1>1, <1>2, AssignedInit, ThirdHolds, PTL DEF Spec, TargetNeverFlips

----------------------------------------------------------------------------

\* All that is promised of plans, for any number of drafts and annotators.
THEOREM PlansFair == Spec => []PlansAreFair
BY PlansBalanced, OverlapDoubled, QueuesOrdered, PTL DEF PlansAreFair

\* If adjudicate waits for answers, neither an answer nor a verdict is ever turned.
THEOREM AnswersFinal == ASSUME ~ RerunEarly
                        PROVE  Spec => AnswersStand
<1>1. [LabelsStay]_vars /\ [TargetsStay]_vars => [LabelsStay /\ TargetsStay]_vars
  OBVIOUS
<1> QED BY <1>1, LabelsFinal, TargetsNeverFlip, PTL DEF LabelsAreFinal, TargetNeverFlips, AnswersStand
=============================================================================
