------------------------------ MODULE SideProofs ------------------------------
(***************************************************************************)
(* The properties of the parts around the pipeline, for the behaviours of  *)
(* SideSpec.  Every part keeps its own variables, which rest while another *)
(* part is explored: a step of SideNext is for each part a step of its own *)
(* next-state relation or none.                                            *)
(*                                                                         *)
(* Batches, both audits of drafts, the audit of the grounding check, the   *)
(* dashboards and the generator rest in an initial state of theirs, so     *)
(* that SideSpec implements their specifications and their theorems carry  *)
(* over.  Messages, the study and the experiment rest in a state that is   *)
(* none (nobody has an account, nobody takes part, nothing is frozen):     *)
(* their invariants hold while they are explored, and the state of rest    *)
(* satisfies what the invariants promise.                                  *)
(***************************************************************************)
EXTENDS MCSideBySide, WebProofs, ScriptProofs, AuditProofs

\* Each part takes a step of its own or rests.
LEMMA PartsStepAlone ==
    ASSUME [SideNext]_sideVars
    PROVE  /\ [BatchNext]_batchVars /\ [HumanNext]_humanVars /\ [AuthorNext]_authorVars
           /\ [GroundingNext]_groundingVars /\ [DashNext]_dashVars /\ [MakingNext]_makingVars
           /\ IF part = "messages" THEN [Next]_vars ELSE UNCHANGED vars
           /\ IF part = "study" THEN [StudyNext]_studyVars ELSE UNCHANGED studyVars
           /\ IF part = "experiment" THEN [ExperimentNext]_experimentVars ELSE UNCHANGED experimentVars
           /\ UNCHANGED part
<1> USE DEF Outside, webVars, scriptVars, auditVars, evidenceVars
<1>1. CASE UNCHANGED sideVars
    BY <1>1 DEF sideVars
<1>2. CASE People
    BY <1>2 DEF People
<1>3. CASE Batch
    BY <1>3 DEF Batch
<1>4. CASE Participants
    BY <1>4 DEF Participants
<1>5. CASE Evaluation
    BY <1>5 DEF Evaluation
<1>6. CASE Outsiders
    BY <1>6 DEF Outsiders
<1>7. CASE Insiders
    BY <1>7 DEF Insiders
<1>8. CASE Checkers
    BY <1>8 DEF Checkers
<1>9. CASE Analysts
    BY <1>9 DEF Analysts
<1>10. CASE Generator
    BY <1>10 DEF Generator
<1> QED BY <1>1, <1>2, <1>3, <1>4, <1>5, <1>6, <1>7, <1>8, <1>9, <1>10 DEF SideNext

\* What rests in an initial state begins in one.
LEMMA PartsBegin ==
    ASSUME SideInit
    PROVE  /\ BatchInit /\ HumanInit /\ AuthorInit /\ GroundingInit /\ DashInit /\ MakingInit
           /\ IF part = "messages" THEN Init ELSE Silent
           /\ IF part = "study" THEN StudyInit ELSE NoStudy
           /\ IF part = "experiment" THEN ExperimentInit ELSE NoExperiment
<1>1. NoReviewers => HumanInit
    BY DEF NoReviewers, HumanInit
<1>2. NoChecks => GroundingInit
    BY DEF NoChecks
<1>3. NoGenerator => MakingInit
    BY DEF NoGenerator
<1> QED BY <1>1, <1>2, <1>3 DEF SideInit

\* The parts that rest in an initial state do what their specifications say.
THEOREM PartsAreImplemented ==
    SideSpec => BatchSpec /\ HumanSpec /\ AuthorSpec /\ GroundingSpec /\ DashSpec /\ MakingSpec
<1>1. SideInit => /\ BatchInit /\ HumanInit /\ AuthorInit /\ GroundingInit /\ DashInit /\ MakingInit
    BY PartsBegin
<1>2. [SideNext]_sideVars =>
          /\ [BatchNext]_batchVars /\ [HumanNext]_humanVars /\ [AuthorNext]_authorVars
          /\ [GroundingNext]_groundingVars /\ [DashNext]_dashVars /\ [MakingNext]_makingVars
    BY PartsStepAlone
<1> QED
    BY <1>1, <1>2, PTL DEF SideSpec, BatchSpec, HumanSpec, AuthorSpec, GroundingSpec, DashSpec, MakingSpec

----------------------------------------------------------------------------
(* The parts that rest in a state of their own *)

\* Without accounts and requests, what Messages keeps true is true.
LEMMA SilenceIsSound ==
    ASSUME SaneConstants, Silent
    PROVE  Inv
<1>1. UsersOK
    BY DEF SaneConstants, Silent, UsersOK, OneEach
<1>2. RequestsOK
    <2>1. \A r \in Requests : req[r] = Idle
        BY DEF Silent
    <2>2. RequestOK(Idle, users, messages)
        BY DEF RequestOK, Idle
    <2> QED BY <2>1, <2>2 DEF RequestsOK, Silent
<1>3. MailOK
    <2>1. messages \in Seq(Mail) /\ DOMAIN messages = {} /\ opened = {}
        BY DEF Silent
    <2>2. \A r \in Requests : req[r].pc # "sending"
        BY DEF Silent, Idle
    <2> QED BY <2>1, <2>2 DEF SaneConstants, Silent, MailOK, Marks
<1> QED BY <1>1, <1>2, <1>3 DEF Inv

\* Whatever overlaps in the application, and while it rests, its tables fit each other.
LEMMA MessagesInSide ==
    ASSUME SaneConstants
    PROVE  SideSpec => []Inv
<1>1. SideInit => Inv
    BY PartsBegin, InitOK, SilenceIsSound
<1>2. Inv /\ [SideNext]_sideVars => Inv'
    <2> SUFFICES ASSUME Inv, [SideNext]_sideVars PROVE Inv'
        OBVIOUS
    <2>1. [Next]_vars
        BY PartsStepAlone
    <2> QED BY <2>1, StepKeeps
<1> QED BY <1>1, <1>2, PTL DEF SideSpec

\* Without participants, what the study keeps true is true.
LEMMA NobodyIsFair ==
    ASSUME NoStudy
    PROVE  StudyInv /\ OneAtATime /\ InTurn
<1>1. SetsInv
    BY DEF NoStudy, SetsInv
<1>2. PeopleInv /\ SetupsInv
    BY DEF NoStudy, PeopleInv, PeopleOK, SetupsInv
<1>3. RequestsInv /\ OneAtATime
    BY DEF NoStudy, RequestsInv, OneAtATime, NoCall
<1>4. InTurn
    BY DEF NoStudy, InTurn, NoCall
<1> QED BY <1>1, <1>2, <1>3, <1>4, StudyAssumptionHolds DEF StudyInv, NoStudy, StudyAssumption

\* Whatever requests participants have in flight, and while nobody takes part, the study's
\* tables fit each other.
LEMMA StudyInSide == SideSpec => [](StudyInv /\ OneAtATime /\ InTurn)
<1>1. SideInit => StudyInv /\ OneAtATime /\ InTurn
    BY PartsBegin, StudyInvInit, NobodyIsFair, StudyAssumptionHolds DEF StudyInit, InTurn, NoCall
<1>2. StudyInv /\ OneAtATime /\ InTurn /\ [SideNext]_sideVars => (StudyInv /\ OneAtATime /\ InTurn)'
    <2> SUFFICES ASSUME StudyInv, OneAtATime, InTurn, [SideNext]_sideVars PROVE (StudyInv /\ OneAtATime /\ InTurn)'
        OBVIOUS
    <2>1. [StudyNext]_studyVars
        BY PartsStepAlone
    <2> QED BY <2>1, StudyInvNext, InTimeNext, InTurnNext, StudyAssumptionHolds
<1> QED BY <1>1, <1>2, PTL DEF SideSpec

\* What holds of the experiment: its own invariants while it is explored, and otherwise that
\* nothing is frozen.
ExperimentOrNothing ==
    IF part = "experiment" THEN TypesInv /\ FrozenInv ELSE NoExperiment

LEMMA ExperimentInSide == SideSpec => []ExperimentOrNothing
<1>1. SideInit => ExperimentOrNothing
    BY PartsBegin, TypesInit, FrozenInit, ExperimentAssumption DEF ExperimentOrNothing
<1>2. ExperimentOrNothing /\ [SideNext]_sideVars => ExperimentOrNothing'
    <2> SUFFICES ASSUME ExperimentOrNothing, [SideNext]_sideVars PROVE ExperimentOrNothing'
        OBVIOUS
    <2>1. CASE part = "experiment"
        BY <2>1, PartsStepAlone, TypesNext, FrozenNext, ExperimentAssumption DEF ExperimentOrNothing
    <2>2. CASE part # "experiment"
        <3>1. UNCHANGED part /\ UNCHANGED experimentVars
            BY <2>2, PartsStepAlone
        <3> QED BY <2>2, <3>1 DEF ExperimentOrNothing, NoExperiment, experimentVars
    <2> QED BY <2>1, <2>2
<1> QED BY <1>1, <1>2, PTL DEF SideSpec

\* Where nothing is frozen, no number is there to be wrong.
LEMMA NothingIsSound ==
    ASSUME NoExperiment
    PROVE  ExperimentTypeOK /\ LockedTestIsUsedOnce /\ NumbersRestOnFrozenData
<1>1. \A p \in Processes : process[p].pc = "idle" /\ process[p].script = None
    BY IdleProcess DEF NoExperiment
<1>2. /\ \A k \in {"artifact", "table", "guard"}, s \in Sources : out[k][s] = None
      /\ \A s \in Sources : out.artifact[s] = None /\ out.result[s] = None
      /\ out.release = None
    BY DEF NoExperiment, Nothing
<1>3. Learned = {} /\ Outputs = {}
    BY <1>2 DEF Learned, Outputs
<1>4. MaxRuns \in Nat /\ MaxEdits \in Nat
    BY ExperimentAssumption DEF ModesAssumption
<1>5. ExperimentTypeOK
    BY <1>1, <1>2, <1>4 DEF ExperimentTypeOK, NoExperiment
<1>6. tested = 0 /\ Len(log) = 0
    BY DEF NoExperiment
<1> QED BY <1>3, <1>5, <1>6 DEF LockedTestIsUsedOnce, NumbersRestOnFrozenData

----------------------------------------------------------------------------
(* Thresholds *)

\* Cardinality means the same in every module.
LEMMA CountsAlike == \A Q : R!Cardinality(Q) = Cardinality(Q)
BY DEF R!Cardinality, Cardinality

\* The candidates that are stricter than t.
Stricter(t) == {u \in Grid : u > t}

\* The candidates in their order: each occurs once, the strictest first.
LEMMA CandidatesInOrder ==
    ASSUME CandidatesAssumption
    PROVE  /\ Cardinality(Grid) \in Nat
           /\ R!StrictToLenient \in [1 .. Cardinality(Grid) -> Grid]
           /\ \A i, j \in 1 .. Cardinality(Grid) : i < j => R!StrictToLenient[i] > R!StrictToLenient[j]
           /\ \A t \in Grid : \E i \in 1 .. Cardinality(Grid) : R!StrictToLenient[i] = t
<1> DEFINE n == Cardinality(Grid)
           place(t) == Cardinality(Stricter(t))
           seq == R!StrictToLenient
<1>1. IsFiniteSet(Grid) /\ Grid \subseteq Int /\ n \in Nat
    BY FS_CardinalityType DEF CandidatesAssumption
<1>2. ASSUME NEW t \in Grid PROVE IsFiniteSet(Stricter(t)) /\ place(t) \in 0 .. n - 1
    <2>1. Stricter(t) \in SUBSET Grid /\ t \notin Stricter(t)
        BY <1>1 DEF Stricter
    <2>2. /\ IsFiniteSet(Stricter(t)) /\ Cardinality(Stricter(t)) <= n
          /\ n = Cardinality(Stricter(t)) => Grid = Stricter(t)
        BY <1>1, <2>1, FS_Subset
    <2>3. Cardinality(Stricter(t)) \in Nat
        BY <2>2, FS_CardinalityType
    <2> QED BY <1>1, <2>1, <2>2, <2>3
<1>3. ASSUME NEW t \in Grid, NEW u \in Grid, t > u PROVE place(t) < place(u)
    <2>1. Stricter(t) \in SUBSET Stricter(u) /\ t \in Stricter(u) /\ t \notin Stricter(t)
        <3>1. t \in Int /\ u \in Int
            BY <1>1
        <3>2. ASSUME NEW v \in Stricter(t) PROVE v \in Stricter(u)
            <4>1. v \in Grid /\ v \in Int /\ v > t
                BY <1>1 DEF Stricter
            <4>2. v > u
                BY <1>3, <3>1, <4>1
            <4> QED BY <4>1, <4>2 DEF Stricter
        <3>3. t \in Stricter(u) /\ t \notin Stricter(t)
            BY <1>3, <3>1 DEF Stricter
        <3> QED BY <3>2, <3>3
    <2>2. /\ Cardinality(Stricter(t)) <= Cardinality(Stricter(u))
          /\ Cardinality(Stricter(u)) = Cardinality(Stricter(t)) => Stricter(u) = Stricter(t)
        BY <1>2, <2>1, FS_Subset
    <2> QED BY <1>2, <2>1, <2>2
<1>4. ASSUME NEW t \in Grid, NEW u \in Grid, place(t) = place(u) PROVE t = u
    <2>1. t > u \/ u > t \/ t = u
        BY <1>1
    <2>2. place(t) \in Int /\ place(u) \in Int
        BY <1>2
    <2> HIDE DEF place
    <2> QED BY <1>3, <1>4, <2>1, <2>2
<1>5. ASSUME NEW k \in 0 .. n - 1 PROVE \E t \in Grid : place(t) = k
    <2> DEFINE f == [t \in Grid |-> place(t)]
    <2>1. f \in Injection(Grid, 0 .. n - 1)
        BY <1>2, <1>4 DEF Injection, IsInjective
    <2>2. IsFiniteSet(0 .. n - 1) /\ Cardinality(0 .. n - 1) = n
        <3>1. 0 \in Int /\ n - 1 \in Int
            BY <1>1
        <3>2. /\ IsFiniteSet(0 .. n - 1)
              /\ Cardinality(0 .. n - 1) = IF 0 > n - 1 THEN 0 ELSE (n - 1) - 0 + 1
            BY <3>1, FS_Interval
        <3> QED BY <1>1, <3>2
    <2>3. f \in Surjection(Grid, 0 .. n - 1)
        <3> HIDE DEF f
        <3> QED BY <2>1, <2>2, FS_Injection
    <2>4. PICK t \in Grid : f[t] = k
        <3> HIDE DEF f
        <3> QED BY <2>3 DEF Surjection
    <2> QED BY <2>4
<1>6. seq = [i \in 1 .. n |-> CHOOSE t \in Grid : place(t) = i - 1]
    <2>1. seq = [i \in 1 .. R!Cardinality(Grid) |-> CHOOSE t \in Grid : R!Cardinality(Stricter(t)) = i - 1]
        BY DEF R!StrictToLenient, Stricter
    <2>2. R!Cardinality(Grid) = n /\ \A t \in Grid : R!Cardinality(Stricter(t)) = Cardinality(Stricter(t))
        BY CountsAlike
    <2>3. ASSUME NEW i \in 1 .. n
          PROVE  (CHOOSE t \in Grid : R!Cardinality(Stricter(t)) = i - 1)
                     = (CHOOSE t \in Grid : place(t) = i - 1)
        BY <2>2
    <2> HIDE DEF place, n
    <2> QED BY <2>1, <2>2, <2>3
<1>7. ASSUME NEW i \in 1 .. n PROVE seq[i] \in Grid /\ place(seq[i]) = i - 1
    <2>1. i - 1 \in 0 .. n - 1
        BY <1>1
    <2>2. \E t \in Grid : place(t) = i - 1
        BY <1>5, <2>1
    <2> HIDE DEF place
    <2>3. seq[i] = CHOOSE t \in Grid : place(t) = i - 1
        BY <1>6
    <2> QED BY <2>2, <2>3
<1>8. ASSUME NEW i \in 1 .. n, NEW j \in 1 .. n, i < j PROVE seq[i] > seq[j]
    <2>1. place(seq[i]) < place(seq[j])
        BY <1>1, <1>7, <1>8
    <2>2. seq[i] \in Int /\ seq[j] \in Int
        BY <1>1, <1>7
    <2>3. CASE seq[j] > seq[i]
        BY <1>2, <1>3, <1>7, <2>1, <2>3
    <2>4. CASE seq[j] = seq[i]
        BY <1>2, <1>7, <2>1, <2>4
    <2> QED BY <2>2, <2>3, <2>4
<1>9. ASSUME NEW t \in Grid PROVE \E i \in 1 .. n : seq[i] = t
    <2>1. place(t) + 1 \in 1 .. n /\ (place(t) + 1) - 1 = place(t)
        BY <1>1, <1>2
    <2>2. PICK i \in 1 .. n : i - 1 = place(t)
        BY <2>1
    <2>3. seq[i] \in Grid /\ place(seq[i]) = place(t)
        BY <1>7, <2>2
    <2>4. seq[i] = t
        BY <1>4, <2>3
    <2> QED BY <2>4
<1>10. seq \in [1 .. n -> Grid]
    <2> HIDE DEF place
    <2> QED BY <1>6, <1>7
<1> QED BY <1>1, <1>8, <1>9, <1>10

\* So does the greatest of a set.
LEMMA MaximaAlike == \A s : R!Max(s) = Max(s)
BY DEF R!Max, Max

\* How far a search for a threshold has come.
Searches == [best : Grid \cup {None}, stopped : BOOLEAN]

SearchBegins == [best |-> None, stopped |-> FALSE]

\* The tests of one search, in order.
SearchSteps(h, rows, alpha) ==
    /\ h \in [0 .. Cardinality(Grid) -> Searches]
    /\ h[0] = SearchBegins
    /\ \A k \in 1 .. Cardinality(Grid) : h[k] = R!Tested(rows, alpha, h[k - 1], R!StrictToLenient[k])

LEMMA TestedIs ==
    ASSUME NEW rows, NEW alpha, NEW acc \in Searches, NEW t \in Grid
    PROVE  R!Tested(rows, alpha, acc, t) \in Searches
BY DEF R!Tested, Searches

\* The search is its tests, one after another.
LEMMA SearchIsIterated ==
    ASSUME CandidatesAssumption, NEW rows, NEW alpha
    PROVE  \E h : SearchSteps(h, rows, alpha) /\ R!LearnThenTest(rows, alpha) = h[Cardinality(Grid)].best
<1> DEFINE n == Cardinality(Grid)
           seq == R!StrictToLenient
           Result(g, s) == IF s = {} THEN SearchBegins
                           ELSE R!Tested(rows, alpha, g[s \ {Max(s)}], seq[Max(s)])
           it == CHOOSE g : g = [s \in SUBSET DOMAIN seq |-> Result(g, s)]
           step == [x \in Searches \X Grid |-> R!Tested(rows, alpha, x[1], x[2])]
<1>1. n \in Nat /\ seq \in [1 .. n -> Grid] /\ DOMAIN seq = 1 .. n
    BY CandidatesInOrder
<1>2. step \in [Searches \X Grid -> Searches]
    BY TestedIs
<1>3. SearchBegins \in Searches
    BY DEF SearchBegins, Searches
<1>4. R!LearnThenTest(rows, alpha) = it[DOMAIN seq].best
    BY MaximaAlike DEF R!LearnThenTest, R!FoldLeft, R!MapThenFoldSet, SearchBegins
<1>5. \E g : g = [s \in SUBSET DOMAIN seq |-> Result(g, s)]
    <2> HIDE DEF n, step, seq
    <2>1. PICK g \in [SUBSET (1 .. n) -> Searches] : Folded(g, SUBSET (1 .. n), SearchBegins, step, seq)
        BY <1>1, <1>2, <1>3, FoldExists
    <2>2. ASSUME NEW s \in SUBSET (1 .. n) PROVE g[s] = Result(g, s)
        <3>1. CASE s = {}
            BY <2>1, <3>1 DEF Folded
        <3>2. CASE s # {}
            <4>1. Max(s) \in 1 .. n /\ s \ {Max(s)} \in SUBSET (1 .. n)
                BY <1>1, <3>2, DropMax
            <4>2. g[s \ {Max(s)}] \in Searches /\ seq[Max(s)] \in Grid
                BY <1>1, <2>1, <4>1
            <4>3. g[s] = step[<<g[s \ {Max(s)}], seq[Max(s)]>>]
                BY <2>1, <3>2 DEF Folded
            <4> QED BY <3>2, <4>2, <4>3 DEF step
        <3> QED BY <3>1, <3>2
    <2>3. g = [s \in SUBSET DOMAIN seq |-> Result(g, s)]
        <3> HIDE DEF Result
        <3> QED BY <1>1, <2>1, <2>2
    <2> HIDE DEF Result
    <2> QED BY <2>3
<1>6. it = [s \in SUBSET DOMAIN seq |-> Result(it, s)]
    <2> HIDE DEF Result
    <2> QED BY <1>5
<1>7. ASSUME NEW s \in SUBSET (1 .. n) PROVE it[s] = Result(it, s)
    <2> HIDE DEF it, Result, n, seq
    <2> QED BY <1>1, <1>6
<1>8. it[{}] = SearchBegins
    BY <1>7
<1> HIDE DEF it
<1>9. ASSUME NEW k \in 1 .. n PROVE it[1 .. k] = R!Tested(rows, alpha, it[1 .. k - 1], seq[k])
    <2>1. k \in Nat /\ k # 0 /\ 1 .. k \in SUBSET (1 .. n)
        BY <1>1
    <2>2. 1 .. k # {} /\ Max(1 .. k) = k /\ (1 .. k) \ {k} = 1 .. k - 1
        BY <2>1, LastOfInterval
    <2>3. it[1 .. k] = Result(it, 1 .. k)
        BY <1>7, <2>1
    <2> HIDE DEF n, seq
    <2> QED BY <2>2, <2>3
<1> DEFINE Fine == {k \in 0 .. n : it[1 .. k] \in Searches}
<1> HIDE DEF n, seq
<1>10. 0 \in Fine
    <2>1. 1 .. 0 = {}
        OBVIOUS
    <2> QED BY <1>1, <1>3, <1>8, <2>1
<1>11. ASSUME NEW k \in 1 .. n, k - 1 \in Fine PROVE k \in Fine
    <2>1. seq[k] \in Grid /\ k \in 0 .. n
        BY <1>1
    <2>2. it[1 .. k] \in Searches
        BY <1>9, <1>11, <2>1, TestedIs
    <2> QED BY <2>1, <2>2
<1>12. \A k \in 0 .. n : k \in Fine
    <2> HIDE DEF Fine
    <2> QED BY <1>1, <1>10, <1>11, CountingOn
<1> DEFINE h == [k \in 0 .. n |-> it[1 .. k]]
<1>13. h \in [0 .. n -> Searches]
    BY <1>12
<1>14. h[0] = SearchBegins
    <2>1. 1 .. 0 = {} /\ 0 \in 0 .. n
        BY <1>1
    <2> QED BY <1>8, <2>1
<1>15. ASSUME NEW k \in 1 .. n PROVE h[k] = R!Tested(rows, alpha, h[k - 1], seq[k])
    <2>1. k \in 0 .. n /\ k - 1 \in 0 .. n
        BY <1>1
    <2> QED BY <1>9, <2>1
<1>16. h[n] = it[DOMAIN seq]
    BY <1>1
<1> HIDE DEF h
<1>17. SearchSteps(h, rows, alpha)
    BY <1>13, <1>14, <1>15 DEF SearchSteps, n, seq
<1> QED BY <1>4, <1>16, <1>17 DEF n

\* After the first i candidates: m of them were tested or skipped, the next one failed if the
\* search has stopped, and best is the last that passed.
Searched(i, acc, rows, alpha) ==
    LET seq == R!StrictToLenient
        testable(t) == R!Testable(Len(R!Shown(rows, t)), alpha)
    IN  \E m \in 0 .. i :
            /\ IF acc.stopped THEN m < i /\ testable(seq[m + 1]) /\ ~ R!Passes(rows, seq[m + 1], alpha)
               ELSE m = i
            /\ \A j \in 1 .. m : testable(seq[j]) =>
                   R!Passes(rows, seq[j], alpha) /\ acc.best # None /\ acc.best <= seq[j]
            /\ acc.best # None => \E j \in 1 .. m : seq[j] = acc.best /\ testable(seq[j])

\* One more test.
LEMMA SearchGoesOn ==
    ASSUME CandidatesAssumption, NEW rows, NEW alpha, NEW i \in 1 .. Cardinality(Grid),
           NEW acc \in Searches, Searched(i - 1, acc, rows, alpha)
    PROVE  Searched(i, R!Tested(rows, alpha, acc, R!StrictToLenient[i]), rows, alpha)
<1> DEFINE n == Cardinality(Grid)
           seq == R!StrictToLenient
           testable(t) == R!Testable(Len(R!Shown(rows, t)), alpha)
           passes(t) == R!Passes(rows, t, alpha)
           next == R!Tested(rows, alpha, acc, seq[i])
<1>1. /\ n \in Nat /\ i \in 1 .. n
      /\ \A j \in 1 .. n : seq[j] \in Grid /\ seq[j] \in Int
      /\ \A j, k \in 1 .. n : j < k => seq[j] > seq[k]
    BY CandidatesInOrder DEF CandidatesAssumption
<1>2. PICK m \in 0 .. i - 1 :
          /\ IF acc.stopped THEN m < i - 1 /\ testable(seq[m + 1]) /\ ~ passes(seq[m + 1])
             ELSE m = i - 1
          /\ \A j \in 1 .. m : testable(seq[j]) =>
                 passes(seq[j]) /\ acc.best # None /\ acc.best <= seq[j]
          /\ acc.best # None => \E j \in 1 .. m : seq[j] = acc.best /\ testable(seq[j])
    BY DEF Searched
<1>3. /\ next = IF acc.stopped \/ ~ testable(seq[i]) THEN acc
                ELSE IF passes(seq[i]) THEN [acc EXCEPT !.best = seq[i]]
                ELSE [acc EXCEPT !.stopped = TRUE]
      /\ acc.stopped \in BOOLEAN /\ acc = [best |-> acc.best, stopped |-> acc.stopped]
    BY DEF R!Tested, Searches
<1> HIDE DEF testable, passes, next, seq, n
<1>4. SUFFICES \E k \in 0 .. i :
                   /\ IF next.stopped THEN k < i /\ testable(seq[k + 1]) /\ ~ passes(seq[k + 1])
                      ELSE k = i
                   /\ \A j \in 1 .. k : testable(seq[j]) =>
                          passes(seq[j]) /\ next.best # None /\ next.best <= seq[j]
                   /\ next.best # None => \E j \in 1 .. k : seq[j] = next.best /\ testable(seq[j])
    BY DEF Searched, testable, passes, next, seq
<1>5. CASE acc.stopped
    BY <1>1, <1>2, <1>3, <1>5
<1>6. CASE ~ acc.stopped /\ ~ testable(seq[i])
    <2>1. next = acc /\ m = i - 1 /\ i \in 0 .. i
        BY <1>1, <1>2, <1>3, <1>6
    <2>2. \A j \in 1 .. i : j \in 1 .. m \/ j = i
        BY <1>1, <2>1
    <2>3. \A j \in 1 .. m : j \in 1 .. i
        BY <1>1, <2>1
    <2> QED BY <1>2, <1>6, <2>1, <2>2, <2>3
<1>7. CASE ~ acc.stopped /\ testable(seq[i]) /\ ~ passes(seq[i])
    <2>1. next.stopped /\ next.best = acc.best /\ m = i - 1 /\ m \in 0 .. i /\ m < i /\ m + 1 = i
        BY <1>1, <1>2, <1>3, <1>7
    <2> QED BY <1>2, <1>7, <2>1
<1>8. CASE ~ acc.stopped /\ testable(seq[i]) /\ passes(seq[i])
    <2>1. ~ next.stopped /\ next.best = seq[i] /\ m = i - 1 /\ i \in 0 .. i /\ i \in 1 .. i
        BY <1>1, <1>2, <1>3, <1>8
    <2>2. ASSUME NEW j \in 1 .. i, testable(seq[j]) PROVE passes(seq[j]) /\ seq[i] <= seq[j]
        <3>1. CASE j = i
            BY <1>1, <1>8, <3>1
        <3>2. CASE j # i
            <4>1. j \in 1 .. m /\ j \in 1 .. n /\ j < i
                BY <1>1, <2>1, <3>2
            <4>2. seq[j] > seq[i] /\ seq[j] \in Int /\ seq[i] \in Int
                BY <1>1, <4>1
            <4> QED BY <1>2, <2>2, <4>1, <4>2
        <3> QED BY <3>1, <3>2
    <2>3. seq[i] # None
        BY <1>1 DEF CandidatesAssumption
    <2> QED BY <1>8, <2>1, <2>2, <2>3
<1> QED BY <1>3, <1>5, <1>6, <1>7, <1>8

\* No candidate of the grid is missed and none is taken out of order: a search ends with the last
\* candidate that passes before the first failure.
LEMMA SearchEndsWithLastPass ==
    ASSUME CandidatesAssumption, NEW rows, NEW alpha
    PROVE  R!IsLastPass(rows, R!LearnThenTest(rows, alpha), alpha)
<1> DEFINE n == Cardinality(Grid)
           seq == R!StrictToLenient
           testable(u) == R!Testable(Len(R!Shown(rows, u)), alpha)
           passes(u) == R!Passes(rows, u, alpha)
           downTo(u) == \A v \in Grid : v >= u /\ testable(v) => passes(v)
<1>1. PICK h : SearchSteps(h, rows, alpha) /\ R!LearnThenTest(rows, alpha) = h[n].best
    BY SearchIsIterated
<1>2. /\ n \in Nat
      /\ \A j \in 1 .. n : seq[j] \in Grid /\ seq[j] \in Int
      /\ \A j, k \in 1 .. n : j < k => seq[j] > seq[k]
      /\ \A u \in Grid : \E j \in 1 .. n : seq[j] = u
    BY CandidatesInOrder DEF CandidatesAssumption
<1> DEFINE Fine == {i \in 0 .. n : Searched(i, h[i], rows, alpha)}
<1>3. 0 \in Fine
    <2>1. Searched(0, SearchBegins, rows, alpha)
        <3>1. 0 \in 0 .. 0 /\ 1 .. 0 = {} /\ SearchBegins.best = None /\ SearchBegins.stopped = FALSE
            BY DEF SearchBegins
        <3> QED BY <3>1 DEF Searched
    <2> QED BY <1>1, <1>2, <2>1 DEF SearchSteps
<1>4. ASSUME NEW i \in 1 .. n, i - 1 \in Fine PROVE i \in Fine
    <2>1. i - 1 \in 0 .. n /\ i \in 0 .. n
        BY <1>2
    <2>2. h[i - 1] \in Searches /\ h[i] = R!Tested(rows, alpha, h[i - 1], seq[i])
        BY <1>1, <2>1 DEF SearchSteps
    <2>3. Searched(i, R!Tested(rows, alpha, h[i - 1], R!StrictToLenient[i]), rows, alpha)
        BY <1>4, <2>2, SearchGoesOn
    <2> QED BY <2>1, <2>2, <2>3
<1>5. Searched(n, h[n], rows, alpha) /\ h[n] \in Searches
    <2>1. \A i \in 0 .. n : i \in Fine
        <3> HIDE DEF Fine, n
        <3> QED BY <1>2, <1>3, <1>4, CountingOn
    <2>2. n \in 0 .. n
        BY <1>2
    <2> QED BY <1>1, <2>1, <2>2 DEF SearchSteps
<1> DEFINE t == h[n].best
           stopped == h[n].stopped
<1>6. PICK m \in 0 .. n :
          /\ IF stopped THEN m < n /\ testable(seq[m + 1]) /\ ~ passes(seq[m + 1]) ELSE m = n
          /\ \A j \in 1 .. m : testable(seq[j]) => passes(seq[j]) /\ t # None /\ t <= seq[j]
          /\ t # None => \E j \in 1 .. m : seq[j] = t /\ testable(seq[j])
    BY <1>5 DEF Searched
<1>7. SUFFICES /\ t # None => t \in Grid /\ testable(t) /\ downTo(t)
               /\ \A u \in Grid : testable(u) /\ (t = None \/ u < t) => ~ downTo(u)
    BY <1>1 DEF R!IsLastPass
<1> HIDE DEF n, seq, testable, passes, t, stopped
<1>8. ASSUME t # None PROVE t \in Grid /\ testable(t) /\ downTo(t)
    <2>1. PICK k \in 1 .. m : seq[k] = t /\ testable(seq[k])
        BY <1>6, <1>8
    <2>2. k \in 1 .. n /\ t \in Grid /\ t \in Int
        BY <1>2, <2>1
    <2>3. ASSUME NEW v \in Grid, v >= t, testable(v) PROVE passes(v)
        <3>1. PICK j \in 1 .. n : seq[j] = v
            BY <1>2
        <3>2. v \in Int
            BY <1>2, <3>1
        <3>3. j <= k
            BY <1>2, <2>1, <2>2, <2>3, <3>1, <3>2
        <3>4. j \in 1 .. m
            BY <1>2, <3>3
        <3> QED BY <1>6, <2>3, <3>1, <3>4
    <2> QED BY <2>1, <2>2, <2>3
<1>9. ASSUME NEW u \in Grid, testable(u), t = None \/ u < t PROVE ~ downTo(u)
    <2>1. PICK j \in 1 .. n : seq[j] = u
        BY <1>2
    <2>2. u \in Int
        BY <1>2, <2>1
    <2>3. j \notin 1 .. m
        <3>1. SUFFICES ASSUME j \in 1 .. m PROVE FALSE
            OBVIOUS
        <3>2. t # None /\ t <= u
            BY <1>6, <1>9, <2>1, <3>1
        <3>3. PICK k \in 1 .. m : seq[k] = t
            BY <1>6, <3>2
        <3>4. t \in Int
            BY <1>2, <3>3
        <3> QED BY <1>9, <2>2, <3>2, <3>4
    <2>4. m + 1 \in 1 .. n /\ m + 1 <= j /\ stopped
        BY <1>2, <1>6, <2>3
    <2>5. testable(seq[m + 1]) /\ ~ passes(seq[m + 1])
        BY <1>6, <2>4
    <2>6. seq[m + 1] \in Grid /\ seq[m + 1] >= u
        BY <1>2, <2>1, <2>2, <2>4
    <2> QED BY <2>5, <2>6
<1> QED BY <1>8, <1>9

----------------------------------------------------------------------------
(* The theorems *)

\* Every variable of every part keeps its type, for every value of the constants that satisfies
\* the assumptions of the parts: requests, rows, files, pages, reports and counters are what the
\* code can hold, whatever overlaps, dies or is lost.
THEOREM SideTypes ==
    ASSUME SaneConstants
    PROVE  SideSpec => []TypesOK
<1>1. Inv => TypeOK
    BY WellTyped
<1>2. StudyInv /\ OneAtATime /\ InTurn => StudyTypeOK
    BY TypesFollow, StudyAssumptionHolds
<1>3. ExperimentOrNothing => ExperimentTypeOK
    BY TypesImply, NothingIsSound, ExperimentAssumption DEF ExperimentOrNothing
<1>4. BatchSpec => []BatchTypeOK
    BY BatchTypes, BatchAssumptionHolds
<1>5. HumanSpec => []HumanTypeOK
    BY HumanTypes, HumanAssumptionHolds
<1>6. AuthorSpec => []AuthorTypeOK
    BY AuthorTypes, AuthorAssumptionHolds
<1>7. GroundingSpec => []GroundingTypeOK
    BY GroundingTypes, GroundingAssumptionHolds
<1>8. DashSpec => []DashTypeOK
    BY DashTypes, DashAssumptionHolds
<1>9. MakingSpec => []MakingTypeOK
    BY MakingTypes, MakingAssumptionHolds
<1>10. SideSpec => []Inv
    BY MessagesInSide
<1> QED
    BY <1>1, <1>2, <1>3, <1>4, <1>5, <1>6, <1>7, <1>8, <1>9, <1>10, StudyInSide, ExperimentInSide,
       PartsAreImplemented, PTL DEF TypesOK

\* What the application and the study promise holds while they run and while they rest: badges
\* count what no opening brought, accounts change as an admin asked, and the study stays
\* counterbalanced and its times true (routers/messages.py, routers/users.py, routers/study.py).
THEOREM SideServesTruly ==
    ASSUME SaneConstants
    PROVE  SideSpec => /\ [](BadgesAreTrue /\ StudyIsCounterbalanced /\ HandlingTimesAreTrue)
                       /\ AccountsAreKept
<1>1. StudyInv /\ OneAtATime /\ InTurn => StudyIsCounterbalanced /\ HandlingTimesAreTrue
    BY FairnessFollows, TimesFollow, StudyAssumptionHolds
<1>2. Inv => BadgesAreTrue
    BY BadgesFollow
<1>3. Inv /\ Inv' /\ [SideNext]_sideVars => [KeepsAccounts]_users
    <2> SUFFICES ASSUME Inv, Inv', [SideNext]_sideVars PROVE [KeepsAccounts]_users
        OBVIOUS
    <2>1. [Next]_vars
        BY PartsStepAlone
    <2> QED BY <2>1, StepIsKept
<1>4. SideSpec => []Inv
    BY MessagesInSide
<1> QED
    BY <1>1, <1>2, <1>3, <1>4, StudyInSide, PTL DEF SideSpec, AccountsAreKept

\* What the scripts and the audits promise: drafts stay replayable and what ended is stored, the
\* locked test is never reused and every number rests on frozen data, samples are sound, bounds
\* only close in, audits stand for the whole, pages add up and what is generated is sound.
THEOREM SideScriptsAreSound ==
    SideSpec => /\ [](DraftsAreReplayable /\ LockedTestIsUsedOnce /\ NumbersRestOnFrozenData)
                /\ [](SampleIsSound /\ AdjudicationStaysWithinBounds /\ GroundingAuditIsSound)
                /\ [](DashboardsAddUp /\ BenchmarkIsSound)
                /\ BoundsOnlyCloseIn
<1>1. ExperimentOrNothing => LockedTestIsUsedOnce /\ NumbersRestOnFrozenData
    <2>1. TypesInv /\ FrozenInv => LockedTestIsUsedOnce /\ NumbersRestOnFrozenData
        BY LockedTestImplies, ExperimentAssumption DEF TypesInv, FrozenInv
    <2> QED BY <2>1, NothingIsSound DEF ExperimentOrNothing
<1>2. BatchSpec => []DraftsAreReplayable
    BY DraftsStayReplayable, BatchAssumptionHolds
<1>3. HumanSpec => []SampleIsSound
    BY SampleStaysSound, HumanAssumptionHolds
<1>4. HumanSpec => BoundsOnlyCloseIn
    BY ReportsOnlyCloseIn, HumanAssumptionHolds
<1>5. AuthorSpec => []AdjudicationStaysWithinBounds
    BY AdjudicationKeepsUnanimity, AuthorAssumptionHolds
<1>6. GroundingSpec => []GroundingAuditIsSound
    BY AuditStandsForTheWhole, GroundingAssumptionHolds
<1>7. DashSpec => []DashboardsAddUp
    BY PagesAddUp, DashAssumptionHolds
<1>8. MakingSpec => []BenchmarkIsSound
    BY WhatIsGeneratedIsSound, MakingAssumptionHolds
<1> QED
    BY <1>1, <1>2, <1>3, <1>4, <1>5, <1>6, <1>7, <1>8, ExperimentInSide, PartsAreImplemented, PTL

\* Both lane thresholds end their sequences of tests: from the strictest candidate down to the
\* threshold nothing that could be tested failed, and below it no candidate could be reached
\* without passing over a failure (learn_then_test, select_lane_thresholds).
THEOREM ThresholdsEndTheirSequences ==
    ASSUME CandidatesAssumption, NEW rows
    PROVE  LET th == R!SelectLaneThresholds(rows)
           IN  /\ R!IsLastPass(R!Answered(rows), th.fast, AlphaFast)
               /\ R!IsLastPass(R!Answered(rows), th.assisted, AlphaAssisted)
<1>1. \A alpha : R!IsLastPass(R!Answered(rows), R!LearnThenTest(R!Answered(rows), alpha), alpha)
    BY SearchEndsWithLastPass
<1> QED BY <1>1 DEF R!SelectLaneThresholds
=============================================================================
