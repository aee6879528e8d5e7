----------------------------- MODULE Experiment -----------------------------
(***************************************************************************)
(* The benchmark after its generation: the freeze record and its           *)
(* amendments (ai/benchmark/freeze.py), the rows scripts may see           *)
(* (ai/confidence_model/dataset.py), training (train.py), the baseline     *)
(* table (ai/signals/report_baselines.py), the shift guard (shift.py), the *)
(* rehearsed and the final evaluation (ai/evaluation/locked_eval.py) and   *)
(* the release (ai/benchmark/release.py).                                  *)
(*                                                                         *)
(* Scripts are processes: each checks the frozen inputs, then reads rows   *)
(* and writes its output; files may be edited and a script may be killed   *)
(* in between.  What the statistics of a report are is left out; which     *)
(* rows they are about, and by which thresholds, is not.                   *)
(***************************************************************************)
EXTENDS Absent, Integers, Sequences, FiniteSets, SequencesExt, FiniteSetsExt

CONSTANTS
    Records,       \* benchmark tickets in the order of the file; see Splits; id is the index
    SeenTargets, C1Targets, TestQuota,
    Topic,         \* the topic of an article
    Reviews,       \* sets of human labels: id -> [votes, adjudicated]
    JudgeOk,       \* the judge's verdict: id -> BOOLEAN or None
    Signals,       \* id -> [answers, prob, margin]
    Scorings,      \* scores a model may give: id -> level
    Grid, AlphaFast, AlphaAssisted, Delta, ProbGrid, MarginGrid, MaxCost,
    MinRows,       \* least rows to train with: [train, val, calib]
    Processes,     \* process numbers
    Modes,         \* bound: what is explored together; see mode
    MaxRuns, MaxEdits, MaxFreezes    \* bounds

VARIABLES
    bench,     \* in the database, fixed: the splits, the sealed selection, the human labels
    file,      \* versions of the frozen files and of the selection
    record,    \* FREEZE_v1.json: the versions it pins, or None
    amended,   \* FREEZE_v1_amend<n>.json: knowledge-base versions
    log,       \* locked_test_access.log: its marks, by process
    out,       \* what scripts have written
    process,   \* the scripts
    spent,     \* scripts started, files edited and records written so far
    pins,      \* history: the versions ever frozen
    tested,    \* history: final runs that read the locked test
    mode       \* the scripts that run and the files that are edited; may final runs overlap;
               \* are files edited only while no script runs; offline: TS_EVAL_SOURCE=file;
               \* the label source: no output of one source is an input of the other

experimentVars == <<bench, file, record, amended, log, out, process, spent, pins, tested, mode>>

S == INSTANCE Splits
R == INSTANCE RiskControl

Ids == DOMAIN Records

Sources == {"human", "judge"}

\* What the generator writes: numbered tickets with at most one gold article, the same one in
\* a group of paraphrases (generate_tickets.py 336-370, validate_benchmark.py 75-77).
RecordsAssumption ==
    \A i, j \in Ids :
        /\ Records[i].id = i
        /\ \A a, b \in Records[i].gold : a = b
        /\ Records[i].group = Records[j].group => Records[i].gold = Records[j].gold

Frozen == {"tickets", "splits", "taxonomy", "kb"}

Files == Frozen \cup {"selection"}

Scripts == {"table", "train", "shift", "rehearse", "final", "release"}

\* The candidate thresholds are finitely many levels.
CandidatesAssumption == Grid \subseteq Int /\ IsFiniteSet(Grid) /\ None \notin Grid

ModesAssumption ==
    /\ MaxRuns \in Nat /\ MaxEdits \in Nat
    /\ \A m \in Modes : m.scripts \subseteq Scripts /\ m.edited \subseteq Files

Versions(f) == [n \in Frozen |-> f[n]]

NoScript == [script |-> None, source |-> None, pc |-> "idle", from |-> None]

Nothing == [s \in Sources |-> None]

IsRunning(p) == process[p].pc # "idle"

\* A new process takes the smallest free number.
Free(p) == ~ IsRunning(p) /\ \A q \in Processes : q < p => IsRunning(q)

ExperimentTypeOK ==
    /\ \A n \in Files : file[n] \in 0 .. MaxEdits
    /\ record # None => DOMAIN record = Frozen
    /\ \A p \in Processes :
        /\ process[p].pc \in {"idle", "verify", "read"}
        /\ process[p].script \in Scripts \cup {None}
    /\ \A s \in Sources : out.artifact[s] # None => out.artifact[s].rows \subseteq Ids
    /\ tested \in 0 .. MaxRuns

----------------------------------------------------------------------------
(* dataset.py *)

\* human_label: votes that agree, else the adjudicator's label; None without votes.
HumanLabel(l) ==
    LET votes == ToSet(l.votes)
    IN  IF votes = {} THEN None
        ELSE IF Cardinality(votes) = 1 THEN l.votes[1] ELSE l.adjudicated

Label(source, id) == IF source = "judge" THEN JudgeOk[id] ELSE HumanLabel(bench.labels[id])

Visible(includeTest) == {id \in Ids : includeTest \/ bench.assignment[id] # "test"}

\* load, then the scripts' own filter: the labelled rows of some splits, ordered by draft.
RowsOf(source, includeTest, splits) ==
    {id \in Visible(includeTest) : Label(source, id) # None /\ bench.assignment[id] \in splits}

Scored(source, scores, ids) ==
    LET order == SetToSortSeq(ids, <)
    IN  [i \in DOMAIN order |->
            [score |-> scores[order[i]], ok |-> Label(source, order[i]), answers |-> Signals[order[i]].answers,
             prob |-> Signals[order[i]].prob, margin |-> Signals[order[i]].margin]]

----------------------------------------------------------------------------
(* freeze.py *)

\* What verify compares the files with: the record, its kb replaced by the last amendment's.
Pinned(rec, amendments) ==
    IF amendments = <<>> THEN rec ELSE [rec EXCEPT !.kb = Last(amendments)]

\* Mutant: the knowledge base is not compared.
Problems_NoKB == {n \in Frozen \ {"kb"} : file[n] # Pinned(record, amended)[n]}

Problems == {n \in Frozen : file[n] # Pinned(record, amended)[n]}

SealBroken == file["selection"] # 0

----------------------------------------------------------------------------

ExperimentInit ==
    /\ \E a \in S!AssignSplits(Records), l \in Reviews :
       \E sel \in S!Selections(Records, {r \in ToSet(Records) : a[r.id] = "test"}, TestQuota) :
          bench = [assignment |-> a, selection |-> sel,
                   labels |-> [id \in Ids |-> IF a[id] # "test" \/ id \in sel THEN l[id]
                                              ELSE [votes |-> <<>>, adjudicated |-> None]]]
    /\ file = [n \in Files |-> 0]
    /\ record = None /\ amended = <<>>
    /\ log = <<>>
    /\ out = [artifact |-> Nothing, table |-> Nothing, guard |-> Nothing, result |-> Nothing,
              release |-> None, export |-> FALSE]
    /\ process = [p \in Processes |-> NoScript]
    /\ spent = [runs |-> 0, edits |-> 0, freezes |-> 0]
    /\ pins = {}
    /\ tested = 0
    /\ mode \in Modes

\* freeze.py write: also over an earlier record; amendments stay.
FreezeWrite ==
    /\ spent.freezes < MaxFreezes
    /\ record' = Versions(file)
    /\ pins' = pins \cup {Pinned(Versions(file), amended)}
    /\ spent' = [spent EXCEPT !.freezes = @ + 1]
    /\ UNCHANGED <<bench, file, amended, log, out, process, tested, mode>>

\* freeze.py amend
Amend ==
    /\ record # None
    /\ \A n \in {"tickets", "splits", "taxonomy"} : file[n] = record[n]
    /\ spent.freezes < MaxFreezes
    /\ amended' = Append(amended, file["kb"])
    /\ pins' = pins \cup {Pinned(record, amended')}
    /\ spent' = [spent EXCEPT !.freezes = @ + 1]
    /\ UNCHANGED <<bench, file, record, log, out, process, tested, mode>>

\* Somebody edits a frozen file, an article or the sealed selection.
Edit(n) ==
    /\ record # None /\ spent.edits < MaxEdits
    /\ mode.quiet => \A p \in Processes : ~ IsRunning(p)
    /\ file' = [file EXCEPT ![n] = @ + 1]
    /\ spent' = [spent EXCEPT !.edits = @ + 1]
    /\ UNCHANGED <<bench, record, amended, log, out, process, pins, tested, mode>>

\* dataset.py export: every row but the locked test's.
Export ==
    /\ mode.offline /\ ~ out.export
    /\ out' = [out EXCEPT !.export = TRUE]
    /\ UNCHANGED <<bench, file, record, amended, log, process, spent, pins, tested, mode>>

----------------------------------------------------------------------------

\* Mutant: the final run does not look at the log.
AlreadyFinal_Never == FALSE

\* _already_final
AlreadyFinal == log # <<>>

\* What a script opens before it loads rows; None: a file it needs is missing.
OpenedLog(script, s) ==
    CASE script = "shift" -> out.artifact[s]
      [] script \in {"rehearse", "final"} ->
            IF out.artifact[s] = None \/ out.table[s] = None THEN None
            ELSE [artifact |-> out.artifact[s], table |-> out.table[s],
                  guard |-> IF out.guard[s] = None THEN None ELSE out.guard[s].guard]
      [] OTHER -> Nothing

\* A script starts.
Launch(p, script, s) ==
    /\ Free(p) /\ record # None
    /\ spent.runs < MaxRuns
    /\ OpenedLog(script, s) # None
    /\ script = "rehearse" => s = "judge"
    /\ script = "final" => /\ s = "human"
                           /\ ~ AlreadyFinal
                           /\ mode.overlap \/ \A q \in Processes : IsRunning(q) => process[q].script # "final"
    /\ process' = [process EXCEPT ![p] =
                      [script |-> script, source |-> s, pc |-> "verify", from |-> OpenedLog(script, s)]]
    /\ spent' = [spent EXCEPT !.runs = @ + 1]
    /\ UNCHANGED <<bench, file, record, amended, log, out, pins, tested, mode>>

\* An exception, an early exit or a kill.
Stop(p) ==
    /\ IsRunning(p)
    /\ process' = [process EXCEPT ![p] = NoScript]
    /\ UNCHANGED <<bench, file, record, amended, log, out, spent, pins, tested, mode>>

\* verify_inputs (release: verify) finds nothing; the final run then marks the log.
Verify(p) ==
    /\ process[p].pc = "verify"
    /\ Problems = {}
    /\ process[p].script # "release" => ~ SealBroken
    /\ process' = [process EXCEPT ![p].pc = "read"]
    /\ log' = IF process[p].script = "final" THEN Append(log, p) ELSE log
    /\ UNCHANGED <<bench, file, record, amended, out, spent, pins, tested, mode>>

\* Rows come from the database, or from the export, which has no locked test.
CanRead(p) == mode.offline /\ process[p].script # "release" => out.export /\ process[p].script # "final"

\* A script ends with an output in out'.
Writes(p) ==
    /\ process[p].pc = "read"
    /\ CanRead(p)
    /\ process' = [process EXCEPT ![p] = NoScript]
    /\ UNCHANGED <<bench, file, record, amended, log, spent, pins, mode>>

\* report_baselines.py main
WriteTable(p) ==
    LET s == process[p].source
    IN  /\ process[p].script = "table"
        /\ Writes(p)
        /\ out' = [out EXCEPT !.table[s] = [rows |-> RowsOf(s, FALSE, {"train", "val", "unseen"}),
                                            versions |-> Versions(file)]]
        /\ UNCHANGED tested

Calibration(source) == RowsOf(source, FALSE, {"calib"})

\* train.py main
WriteArtifact(p) ==
    LET s == process[p].source
        n(split) == Cardinality(RowsOf(s, FALSE, {split}))
    IN  /\ process[p].script = "train"
        /\ \A split \in DOMAIN MinRows : n(split) >= MinRows[split]
        /\ Writes(p)
        /\ \E scores \in Scorings :
              out' = [out EXCEPT !.artifact[s] =
                        [rows     |-> RowsOf(s, FALSE, {"train", "val", "calib"}), scores |-> scores,
                         th       |-> R!SelectLaneThresholds(Scored(s, scores, Calibration(s))),
                         versions |-> Versions(file)]]
        /\ UNCHANGED tested

TopicOf(id) == IF Records[id].gold = {} THEN None ELSE Topic[CHOOSE a \in Records[id].gold : TRUE]

\* split_topics: half of the unseen topics tune the guard.
TuningTopics(ids) ==
    LET topics == {TopicOf(id) : id \in ids} IN kSubset(Cardinality(topics) \div 2, topics)

\* shift.py main
WriteGuard(p) ==
    LET s == process[p].source
        a == process[p].from
        unseen == RowsOf(s, FALSE, {"unseen"})
        val    == RowsOf(s, FALSE, {"val"})
    IN  /\ process[p].script = "shift"
        /\ a.th.fast # None => a.th.assisted # None   \* else min(fast, None) raises
        /\ Writes(p)
        /\ \E tuning \in TuningTopics(unseen) :
           \E g \in R!BestGuards(Scored(s, a.scores, {id \in unseen : TopicOf(id) \in tuning}),
                                 Scored(s, a.scores, val), a.th) :
              out' = [out EXCEPT !.guard[s] = [rows |-> unseen \cup val, guard |-> g, base |-> a,
                                               versions |-> Versions(file)]]
        /\ UNCHANGED tested

\* topic_block: the drafts of one kind of topic, without and with the shift guard.
TopicBlock(drafts, th, guard) ==
    [n |-> Len(drafts), unacceptable |-> R!Bad(drafts),
     withoutGuard |-> R!Exposure(drafts, th, R!NoGuard),
     withGuard    |-> IF guard = None THEN None ELSE R!Exposure(drafts, th, guard)]

\* evaluate: lanes and exposure on the evaluated split, and on the unseen topics if there are
\* labelled drafts of them.
Report(seen, unseen, th, guard) ==
    [lanes |-> R!LaneSizes(seen, th), seen |-> TopicBlock(seen, th, guard),
     unseen      |-> IF unseen = <<>> THEN None ELSE TopicBlock(unseen, th, guard),
     unseenLanes |-> IF unseen = <<>> THEN None ELSE R!LaneSizes(unseen, th)]

\* locked_eval.py main: the final run on the locked test, the rehearsal on validation.
Evaluate(p) ==
    LET s     == process[p].source
        final == process[p].script = "final"
        in    == process[p].from
        rows(split) == RowsOf(s, final, {split})
        drafts(ids) == Scored(s, in.artifact.scores, ids)
        evaluated   == rows(IF final THEN "test" ELSE "val")
    IN  /\ process[p].script \in {"rehearse", "final"}
        /\ evaluated # {}
        /\ Writes(p)
        /\ out' = [out EXCEPT !.result[s] =
                     [rows |-> evaluated \cup rows("unseen"), used |-> in.artifact.rows \cup in.table.rows,
                      report |-> Report(drafts(evaluated), drafts(rows("unseen")), in.artifact.th, in.guard),
                      versions |-> Versions(file)]]
        /\ tested' = IF final THEN tested + 1 ELSE tested

\* release.py build
Release(p) ==
    /\ process[p].script = "release"
    /\ Writes(p)
    /\ out' = [out EXCEPT !.release = [rows |-> {}, versions |-> Versions(file)]]
    /\ UNCHANGED tested

ExperimentNext ==
    \/ FreezeWrite \/ Amend \/ Export
    \/ \E n \in mode.edited : Edit(n)
    \/ \E p \in Processes : \/ \E script \in mode.scripts : Launch(p, script, mode.source)
                        \/ Stop(p) \/ Verify(p)
                        \/ WriteTable(p) \/ WriteArtifact(p) \/ WriteGuard(p) \/ Evaluate(p) \/ Release(p)

ExperimentSpec == ExperimentInit /\ [][ExperimentNext]_experimentVars

----------------------------------------------------------------------------

\* What a learning or tuning step has produced, and every output of a script.
Learned == {out[k][s] : k \in {"artifact", "table", "guard"}, s \in Sources} \ {None}

Outputs == (Learned \cup {out.result[s] : s \in Sources} \cup {out.release}) \ {None}

\* Every reading of the locked test is marked in the access log before it happens, and
\* unless two final runs are started at the same time there is one mark, ever: a killed or
\* refused final run uses the locked test up (locked_eval.py 341-370, dataset.py 161-171).
\* Nothing learned, tuned or certified has seen a ticket of a test ticket's leakage group,
\* whatever order the greedy split takes the groups in (splits.py 29-60, dataset.py 177).
LockedTestIsUsedOnce ==
    /\ tested <= Len(log)
    /\ ~ mode.overlap => Len(log) <= 1
    /\ \A o \in Learned : \A id \in o.rows, t \in Ids :
          bench.assignment[t] = "test" =>
             /\ Records[id].gold \cap Records[t].gold = {}
             /\ Records[id].group # Records[t].group

\* If files are edited only while no script runs, then every number and the release rest on
\* a state of the tickets, splits, taxonomy and knowledge base that a freeze record with
\* its amendments pinned (freeze.py 129-141, dataset.py 99-114, release.py 72-77).
NumbersRestOnFrozenData == mode.quiet => \A o \in Outputs : o.versions \in pins

=============================================================================
