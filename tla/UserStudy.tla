------------------------------ MODULE UserStudy ------------------------------
(***************************************************************************)
(* The user study: two matched ticket sets (ai/study/study_sets.py),       *)
(* participants and their tasks (backend/app/scripts/setup_study.py,       *)
(* services/study.py), serving and answering tasks (routers/study.py),     *)
(* and what is exported and analysed (scripts/export_study.py,             *)
(* ai/study/analyse.py).                                                   *)
(*                                                                         *)
(* A request reads a row, decides on its copy and commits later; other     *)
(* requests of the same participant may run in between.  Signing up only   *)
(* inserts rows of new participants: it is explored before the clock       *)
(* starts, answering after that.                                           *)
(***************************************************************************)
EXTENDS Absent, Integers, Sequences, FiniteSets, SequencesExt, FiniteSetsExt

CONSTANTS
    StudyTickets,     \* usable benchmark tickets: [id, cell, group]; a cell is type x department
    Slots,            \* the cells both sets are filled from, one after another
    MaxParticipants,
    ThresholdSets,    \* threshold sets that may be active when the setup runs
    LaneUnder,        \* LaneUnder[thresholds][ticket id]: the gate's lane for its draft
    Calls,
    Answering,        \* bound: participants who send requests; they share no row
    StudyTime         \* bound on the clock

\* The columns are filled, and a ticket is found by its id.
StudyAssumption ==
    /\ IsFiniteSet(StudyTickets)
    /\ \A t, u \in StudyTickets : t.id = u.id => t = u
    /\ \A v \in ThresholdSets, t \in StudyTickets : LaneUnder[v][t.id] \in {"fast", "assisted", "escalate"}
    /\ Slots \in Seq(ToSet(Slots))
    /\ MaxParticipants \in Nat /\ StudyTime \in Nat /\ None \notin 0 .. StudyTime
    /\ None \notin {"accept", "edit", "write", "escalate"}

VARIABLES
    sets,      \* ticket-sets.json: the two sets, or None: not enough tickets
    active,    \* the active threshold set; changed by others
    people,    \* the participants in the order of their codes, with their tasks by position
    setups,    \* runs of setup_study in progress
    call,      \* requests in flight
    studyClock,
    overlap    \* whether a participant may have two requests in flight

studyVars == <<sets, active, people, setups, call, studyClock, overlap>>

----------------------------------------------------------------------------
(* study_sets.py *)

\* Where pool holds tickets of a cell, leaving out paraphrases of tickets already used.
Unused(pool, cell, groups) == {i \in DOMAIN pool : pool[i].cell = cell /\ pool[i].group \notin groups}

\* build: one ticket of the slot's cell for set A, then one for set B; pool is shuffled.
\* acc.ok turns FALSE when a cell runs out.
Pick(acc, pool, cell, target) ==
    LET left == Unused(pool, cell, acc.groups)
    IN  IF ~ acc.ok \/ left = {} THEN [acc EXCEPT !.ok = FALSE]
        ELSE LET t == pool[Min(left)]
             IN  [acc EXCEPT ![target] = Append(@, t.id), !.groups = @ \cup {t.group}]

Build(pool) ==
    FoldLeft(LAMBDA acc, cell : Pick(Pick(acc, pool, cell, "a"), pool, cell, "b"),
             [a |-> <<>>, b |-> <<>>, groups |-> {}, ok |-> TRUE], Slots)

----------------------------------------------------------------------------

Conditions == {"manual", "workbench"}

Actions == [manual |-> {"write", "escalate"}, workbench |-> {"accept", "edit", "write", "escalate"}]

Lanes == {"fast", "assisted", "escalate"}

IsTask(t) ==
    /\ t.set \in {"A", "B"} /\ t.condition \in Conditions /\ t.lane \in Lanes
    /\ t.served \in 0 .. StudyTime \cup {None}
    /\ t.submitted \in 0 .. StudyTime \cup {None}
    /\ t.action \in {None, "accept", "edit", "write", "escalate"}
    /\ t.submitted # None <=> t.action # None

NewTask(id, set, condition, thresholds) ==
    [ticket |-> id, set |-> set, condition |-> condition, lane |-> LaneUnder[thresholds][id],
     served |-> None, submitted |-> None, action |-> None, reply |-> FALSE, time |-> None]

NoCall == [pc |-> "idle", p |-> 0, i |-> 0, time |-> None, action |-> None, reply |-> FALSE]

StudyTypeOK ==
    /\ \A p \in DOMAIN people : \A i \in DOMAIN people[p].tasks : IsTask(people[p].tasks[i])
    /\ active \in ThresholdSets
    /\ \A r \in Calls : call[r].pc \in {"idle", "serving", "submitting"}
    /\ studyClock \in 0 .. StudyTime

StudyInit ==
    /\ \E pool \in SetToSeqs(StudyTickets) :
          sets = IF Build(pool).ok THEN [a |-> Build(pool).a, b |-> Build(pool).b] ELSE None
    /\ active \in ThresholdSets
    /\ people = <<>>
    /\ setups = {}
    /\ call = [r \in Calls |-> NoCall]
    /\ studyClock = 0
    /\ overlap \in BOOLEAN

----------------------------------------------------------------------------
(* setup_study.py *)

\* Mutant: the order does not alternate.
OrderFor_Fixed(index) == "manual_first"

\* order_for: index is 0 for the first participant.
OrderFor(index) == IF index % 2 = 0 THEN "manual_first" ELSE "workbench_first"

FirstCondition(order) == IF order = "manual_first" THEN "manual" ELSE "workbench"

SecondCondition(order) == IF order = "manual_first" THEN "workbench" ELSE "manual"

Half(ids, set, condition, thresholds) ==
    [i \in DOMAIN ids |-> NewTask(ids[i], set, condition, thresholds)]

\* plan: set A in the first condition, then set B in the other, each shuffled.
Plans(order, thresholds) ==
    {Half(a, "A", FirstCondition(order), thresholds) \o Half(b, "B", SecondCondition(order), thresholds) :
         a \in SetToSeqs(ToSet(sets.a)), b \in SetToSeqs(ToSet(sets.b))}

\* The run has counted the participants and fixed the lanes.
StartSetup(n) ==
    /\ studyClock = 0
    /\ sets # None
    /\ Len(people) < n
    /\ Cardinality(setups) < 2
    /\ setups' = setups \cup {[existing |-> Len(people), n |-> n, thresholds |-> active]}
    /\ UNCHANGED <<sets, active, people, call, studyClock, overlap>>

\* One transaction; a participant code, or an account, that exists by now refuses it.
\* A shuffle depends on the participant's code only.
EndSetup(s) ==
    /\ s \in setups
    /\ setups' = setups \ {s}
    /\ IF s.existing = Len(people)
       THEN \E tasks \in [1 .. s.n - s.existing -> Plans("manual_first", s.thresholds)
                                                   \cup Plans("workbench_first", s.thresholds)] :
               /\ \A k \in DOMAIN tasks : tasks[k] \in Plans(OrderFor(s.existing + k - 1), s.thresholds)
               /\ people' = people \o [k \in DOMAIN tasks |-> [order |-> OrderFor(s.existing + k - 1),
                                                               tasks |-> tasks[k]]]
       ELSE UNCHANGED people
    /\ UNCHANGED <<sets, active, call, studyClock, overlap>>

\* load_thresholds.py, elsewhere.
Activate(t) ==
    /\ studyClock = 0
    /\ active' = t
    /\ UNCHANGED <<sets, people, setups, call, studyClock, overlap>>

----------------------------------------------------------------------------
(* routers/study.py *)

MayStart(r, p) ==
    /\ studyClock > 0
    /\ call[r].pc = "idle"
    /\ overlap \/ \A q \in Calls : call[q].pc = "idle" \/ call[q].p # p

\* _item: the task comes with its draft.
ShowsDraft(t) == t.condition = "workbench" /\ t.lane # "escalate"

Open(tasks) == {i \in DOMAIN tasks : tasks[i].submitted = None}

\* GET /study/next: the open task of the lowest position; the first fetch starts its clock.
Fetch(r, p) ==
    /\ MayStart(r, p)
    /\ Open(people[p].tasks) # {}
    /\ LET i == Min(Open(people[p].tasks))
       IN  /\ people[p].tasks[i].served = None
           /\ call' = [call EXCEPT ![r] =
                          [NoCall EXCEPT !.pc = "serving", !.p = p, !.i = i, !.time = studyClock]]
    /\ UNCHANGED <<sets, active, people, setups, studyClock, overlap>>

\* The row that request q read, with the columns that it assigned.
WithTask(q, t) == [people EXCEPT ![q.p].tasks = [people[q.p].tasks EXCEPT ![q.i] = t]]

Served(r) ==
    /\ call[r].pc = "serving"
    /\ people' = WithTask(call[r], [people[call[r].p].tasks[call[r].i] EXCEPT !.served = call[r].time])
    /\ call' = [call EXCEPT ![r] = NoCall]
    /\ UNCHANGED <<sets, active, setups, studyClock, overlap>>

\* Mutant: a task that was never shown may be answered.
MayAnswer_Unserved(t, action, reply) ==
    /\ t.submitted = None
    /\ action \in Actions[t.condition]
    /\ action \in {"accept", "edit"} => t.lane # "escalate"
    /\ action # "escalate" => reply

MayAnswer(t, action, reply) ==
    /\ t.submitted = None
    /\ t.served # None
    /\ action \in Actions[t.condition]
    /\ action \in {"accept", "edit"} => t.lane # "escalate"
    /\ action # "escalate" => reply

\* POST /study/tasks/{id}: any task of the participant's own, by its id.
Submit(r, p, i, action, reply) ==
    /\ MayStart(r, p)
    /\ i \in DOMAIN people[p].tasks
    /\ MayAnswer(people[p].tasks[i], action, reply)
    /\ call' = [call EXCEPT ![r] = [pc |-> "submitting", p |-> p, i |-> i, action |-> action, reply |-> reply,
                                  time |-> [submitted |-> studyClock, served |-> people[p].tasks[i].served]]]
    /\ UNCHANGED <<sets, active, people, setups, studyClock, overlap>>

\* The update writes the columns the handler assigned; its time_ms comes from its own copy.
Stored(t, q) ==
    [t EXCEPT !.submitted = q.time.submitted, !.action = q.action, !.reply = q.reply,
              !.time = IF q.time.served = None THEN 0 ELSE q.time.submitted - q.time.served]

Submitted(r) ==
    /\ call[r].pc = "submitting"
    /\ people' = WithTask(call[r], Stored(people[call[r].p].tasks[call[r].i], call[r]))
    /\ call' = [call EXCEPT ![r] = NoCall]
    /\ UNCHANGED <<sets, active, setups, studyClock, overlap>>

\* The process stops, or the client goes away, before the commit.
CallLost(r) ==
    /\ call[r].pc # "idle"
    /\ call' = [call EXCEPT ![r] = NoCall]
    /\ UNCHANGED <<sets, active, people, setups, studyClock, overlap>>

StudyTick ==
    /\ people # <<>> /\ setups = {}
    /\ studyClock < StudyTime
    /\ studyClock' = studyClock + 1
    /\ UNCHANGED <<sets, active, people, setups, call, overlap>>

StudyNext ==
    \/ \E n \in 1 .. MaxParticipants : StartSetup(n)
    \/ \E s \in setups : EndSetup(s)
    \/ \E t \in ThresholdSets : Activate(t)
    \/ \E r \in Calls :
          \/ \E p \in Answering \cap DOMAIN people :
                \/ Fetch(r, p)
                \/ \E i \in DOMAIN people[p].tasks, action \in Actions.workbench, reply \in BOOLEAN :
                      Submit(r, p, i, action, reply)
          \/ Served(r)
          \/ Submitted(r)
          \/ CallLost(r)
    \/ StudyTick

StudySpec == StudyInit /\ [][StudyNext]_studyVars

----------------------------------------------------------------------------
(* export_study.py and analyse.py *)

Task(x) == people[x[1]].tasks[x[2]]

\* tasks.csv
Exported == {x \in (DOMAIN people) \X (1 .. 2 * Len(Slots)) : Task(x).submitted # None}

\* grading_sheet.csv: every reply, also one given with an escalation.
Sheet == {x \in Exported : Task(x).reply}

InCondition(p, c) == {x \in Exported : x[1] = p /\ Task(x).condition = c}

\* The participants analyse() compares with themselves.
Analysed == {p \in DOMAIN people : \A c \in Conditions : InCondition(p, c) # {}}

Escalated(p, c) == {x \in InCondition(p, c) : Task(x).action = "escalate"}

\* Replies whose grades count: those that were sent.
Graded(p, c) == (InCondition(p, c) \ Escalated(p, c)) \cap Sheet

----------------------------------------------------------------------------
(* Properties *)

CellOf(id) == (CHOOSE t \in StudyTickets : t.id = id).cell

GroupOf(id) == (CHOOSE t \in StudyTickets : t.id = id).group

Met(id, c) == {p \in DOMAIN people : \E i \in DOMAIN people[p].tasks :
                  people[p].tasks[i].ticket = id /\ people[p].tasks[i].condition = c}

\* The two sets have the same mix and no scenario twice; however often the setup is run,
\* and two runs at once, every ticket is met in each condition equally often, give or take
\* the last participant; and a participant sees set A before set B, a task only when all
\* earlier ones are answered, whatever the requests in flight.
StudyIsCounterbalanced ==
    /\ sets # None =>
          LET all == sets.a \o sets.b
          IN  /\ \A i \in DOMAIN Slots : CellOf(sets.a[i]) = Slots[i] /\ CellOf(sets.b[i]) = Slots[i]
              /\ \A i, j \in DOMAIN all : GroupOf(all[i]) = GroupOf(all[j]) => i = j
    /\ \A t \in StudyTickets :
          Cardinality(Met(t.id, "manual")) - Cardinality(Met(t.id, "workbench")) \in -1 .. 1
    /\ \A p \in DOMAIN people : \A i, j \in DOMAIN people[p].tasks :
          LET t == people[p].tasks[i]
              u == people[p].tasks[j]
          IN  i < j => /\ ~ (t.set = "B" /\ u.set = "A")
                       /\ (t.condition = u.condition) = (t.set = u.set)
                       /\ u.served # None => t.submitted # None

\* An exported task was shown before it was answered, and the handling time counted for it lies
\* between the answer to the task before and its own answer, also when fetches and submissions of
\* one participant overlap and the later one overwrites the showing or the answer; it is the time
\* from the showing on record if no requests overlap.  No draft that was withheld is accepted.
\* Exactly the replies that were sent count as graded: "Escalations have no reply and are not
\* graded" (export_study.py) is kept by the analysis only, the sheet holds also a reply that was
\* written and then escalated.
HandlingTimesAreTrue ==
    /\ \A x \in Exported : LET t == Task(x) IN
          /\ t.served # None /\ t.served <= t.submitted
          /\ t.time >= 0
          /\ ~ overlap => t.time = t.submitted - t.served
          /\ \A y \in Exported : x[1] = y[1] /\ x[2] < y[2] =>
                LET u == Task(y) IN t.submitted <= u.served /\ t.submitted <= u.submitted - u.time
          /\ t.action \in {"accept", "edit"} => ShowsDraft(t)
    /\ \A p \in Analysed, c \in Conditions : Graded(p, c) = InCondition(p, c) \ Escalated(p, c)
=============================================================================
