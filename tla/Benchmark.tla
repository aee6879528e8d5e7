------------------------------- MODULE Benchmark -------------------------------
(***************************************************************************)
(* Making the benchmark: scenarios from the knowledge base and tickets     *)
(* from a language model (ai/benchmark/generate_tickets.py), the split     *)
(* manifest (splits.py), and the validation that both must pass before     *)
(* they are frozen (validate_benchmark.py).                                *)
(*                                                                         *)
(* The generator asks for one ticket at a time, discards what it cannot    *)
(* use and asks again; it may die at any request or while it writes its    *)
(* file, and may be run again over an existing file and manifest.  Seeded  *)
(* draws are arbitrary here.                                               *)
(***************************************************************************)
EXTENDS Absent, Integers, Sequences, FiniteSets, SequencesExt, FiniteSetsExt

CONSTANTS
    Articles,         \* of the second version of the knowledge base: [id, department, served]
    Depts,            \* the taxonomy's departments, sorted
    N,                \* tickets asked for
    Paraphrases,      \* per scenario
    MaxAttempts,      \* per paraphrase
    LlmModels,        \* language models
    ReplyOf,          \* what each of them answers to every seed
    Tolerance,        \* of the type shares, in percent
    TuningTargets, UnseenTargets,\* targets of the splits, of stratum C1: see Splits
    MaxGenerations    \* bound on runs of the generator

VARIABLES
    llm,              \* the language model
    gen,              \* the generator at work, or None
    ticketsFile,      \* the tickets file, or None
    splitManifest,    \* the split manifest with the file it was made from, or None
    generations

makingVars == <<llm, gen, ticketsFile, splitManifest, generations>>

MakingAssumption ==
    /\ N \in Nat /\ Paraphrases \in Nat \ {0} /\ MaxAttempts \in Nat \ {0} /\ MaxGenerations \in Nat
    /\ Depts \in Seq(STRING) /\ Depts # <<>>
    /\ IsFiniteSet(Articles) /\ None \notin Articles
    /\ \A a, b \in Articles : a.id = b.id => a = b
    /\ \A targets \in {TuningTargets, UnseenTargets} :
          targets \in Seq([split : STRING, share : Nat]) /\ targets # <<>>
    /\ \A i \in DOMAIN TuningTargets : TuningTargets[i].split # "unseen"
    /\ \A i \in DOMAIN UnseenTargets : UnseenTargets[i].split \in {"test", "unseen"}

Sides == INSTANCE Splits WITH SeenTargets <- TuningTargets, C1Targets <- UnseenTargets

Types == <<"A", "B", "C1", "C2">>

\* TYPE_SHARES, in percent.
TypeShare == [A |-> 55, B |-> 15, C1 |-> 20, C2 |-> 10]

TypeSet == DOMAIN TypeShare

----------------------------------------------------------------------------
(* Scenarios *)

CeilDiv(a, b) == (a + b - 1) \div b

\* type_quotas: largest remainder; sorted() keeps the order of equal remainders.
Quota ==
    LET rest(t) == (N * TypeShare[t]) % 100
        floor(t) == (N * TypeShare[t]) \div 100
        left == N - MapThenSumSet(floor, TypeSet)
        at(t) == CHOOSE i \in DOMAIN Types : Types[i] = t
        before(t) == {u \in TypeSet : rest(u) > rest(t) \/ (rest(u) = rest(t) /\ at(u) < at(t))}
    IN  [t \in TypeSet |-> IF Cardinality(before(t)) < left THEN floor(t) + 1 ELSE floor(t)]

Pool(t) ==
    CASE t \in {"A", "B"} -> {a \in Articles : a.served}
      [] t = "C1" -> {a \in Articles : ~ a.served}
      [] OTHER -> {}

\* The ceiling is taken of a product of floats, which may lie just above a whole quotient.
ScenarioCounts(t, order) ==
    LET total == N * TypeShare[t]
        each == 100 * Paraphrases
    IN  IF t # "C2" /\ order = <<>> THEN {0}
        ELSE {Max({1, n}) : n \in CeilDiv(total, each) .. (total \div each) + 1}

ScenariosOf(t, order, n) ==
    [i \in 1 .. n |->
        [type |-> t,
         article |-> IF order = <<>> THEN None ELSE order[((i - 1) % Len(order)) + 1],
         department |-> IF order = <<>> THEN Depts[((i - 1) % Len(Depts)) + 1]
                        ELSE order[((i - 1) % Len(order)) + 1].department]]

\* For every order rng.sample may give.
PlansFor(t) ==
    UNION {{ScenariosOf(t, order, n) : n \in ScenarioCounts(t, order)} : order \in SetToSeqs(Pool(t))}

\* plan_scenarios; a scenario's index is its group.
ScenarioPlans ==
    {a \o b \o c \o d : a \in PlansFor("A"), b \in PlansFor("B"), c \in PlansFor("C1"), d \in PlansFor("C2")}

----------------------------------------------------------------------------
(* generate *)

NoneMade == [t \in TypeSet |-> 0]

\* at: scenario; k: paraphrase; attempt: of this paraphrase.  asked, calls: history.
StartGenerator ==
    /\ gen = None
    /\ generations < MaxGenerations
    /\ \E p \in ScenarioPlans :
          gen' = [plan |-> p, at |-> 1, k |-> 0, attempt |-> 0, made |-> NoneMade, records |-> <<>>,
                  asked |-> {}, calls |-> 0]
    /\ generations' = generations + 1
    /\ UNCHANGED <<llm, ticketsFile, splitManifest>>

Scenario == gen.plan[gen.at]

\* Mutant: a retry repeats the request it retries.
SeedOf_SameForRetries(g, k, attempt) == g * 100 + k * 10

SeedOf(g, k, attempt) == g * 100 + k * 10 + attempt

\* _attempt: whether the reply becomes a ticket.
Usable(s, out) ==
    /\ out.json /\ out.subject /\ out.body
    /\ s.type = "B" => out.question
    /\ s.article # None => ~ out.copies /\ ~ (out.attachment /\ out.logCopies)

Record(s, out) ==
    [id |-> Len(gen.records) + 1, group |-> gen.at, type |-> s.type, department |-> s.department,
     gold |-> IF s.article = None THEN {} ELSE {s.article.id},
     uncovered |-> s.type = "B" /\ out.question,
     text |-> <<out.text, s.type = "B">>]

NextParaphrase(g) ==
    IF g.k + 1 < Paraphrases THEN [g EXCEPT !.k = @ + 1, !.attempt = 0]
    ELSE [g EXCEPT !.at = @ + 1, !.k = 0, !.attempt = 0]

Generating == gen # None /\ gen.at <= Len(gen.plan)

QuotaMet(g) == g.made[g.plan[g.at].type] >= Quota[g.plan[g.at].type]

\* The type has all its tickets: the scenario's other paraphrases are not made.
SkipScenario ==
    /\ Generating
    /\ gen.attempt = 0
    /\ QuotaMet(gen)
    /\ gen' = [gen EXCEPT !.at = @ + 1, !.k = 0]
    /\ UNCHANGED <<llm, ticketsFile, splitManifest, generations>>

\* One call of the model: a ticket, another attempt, or a paraphrase given up.
Attempt ==
    /\ Generating
    /\ gen.attempt = 0 => ~ QuotaMet(gen)
    /\ LET seed == SeedOf(gen.at, gen.k, gen.attempt)
           out == ReplyOf[llm][seed]
           g == [gen EXCEPT !.asked = @ \cup {<<gen.at, gen.k, seed>>}, !.calls = @ + 1]
       IN  gen' = IF Usable(Scenario, out)
                  THEN NextParaphrase([g EXCEPT !.made[Scenario.type] = @ + 1,
                                                !.records = Append(@, Record(Scenario, out))])
                  ELSE IF gen.attempt + 1 < MaxAttempts THEN [g EXCEPT !.attempt = @ + 1]
                  ELSE NextParaphrase(g)
    /\ UNCHANGED <<llm, ticketsFile, splitManifest, generations>>

\* The file is written at the end, over the one that is there.
WriteFile ==
    /\ gen # None
    /\ gen.at > Len(gen.plan)
    /\ ticketsFile' = gen.records
    /\ gen' = None
    /\ UNCHANGED <<llm, splitManifest, generations>>

\* A call fails for good, or the process ends.
Die ==
    /\ gen # None
    /\ gen' = None
    /\ UNCHANGED <<llm, ticketsFile, splitManifest, generations>>

\* It ends while it writes: the file is emptied first.
DieWriting(i) ==
    /\ gen # None
    /\ gen.at > Len(gen.plan)
    /\ i < Len(gen.records)
    /\ ticketsFile' = SubSeq(gen.records, 1, i)
    /\ gen' = None
    /\ UNCHANGED <<llm, splitManifest, generations>>

----------------------------------------------------------------------------
(* Splits and validation *)

\* write_manifest raises, and writes nothing, when check_manifest finds a problem.
WriteManifest ==
    /\ ticketsFile # None
    /\ ticketsFile # <<>>
    /\ \E a \in Sides!AssignSplits(ticketsFile) :
          /\ Sides!ValidManifest(ticketsFile, a)
          /\ splitManifest' = [of |-> ticketsFile, assignment |-> a]
    /\ UNCHANGED <<llm, gen, ticketsFile, generations>>

ArticleOf(id) == CHOOSE a \in Articles : a.id = id

Known(id) == \E a \in Articles : a.id = id

\* The problems of one record.
RecordProblems(r) ==
    IF r.type = "C2" THEN {x \in {"gold on C2"} : r.gold # {}}
    ELSE IF r.gold = {} THEN {"no gold"}
    ELSE {x \in {"unknown gold"} : \E id \in r.gold : ~ Known(id)} \cup
         {x \in {"department"} : \E id \in r.gold : Known(id) /\ ArticleOf(id).department # r.department} \cup
         {x \in {"withheld"} : r.type \in {"A", "B"} /\ \E id \in r.gold : Known(id) /\ ~ ArticleOf(id).served} \cup
         {x \in {"served"} : r.type = "C1" /\ \E id \in r.gold : Known(id) /\ ArticleOf(id).served} \cup
         {x \in {"no question"} : r.type = "B" /\ ~ r.uncovered}

Distance(a, b) == IF a < b THEN b - a ELSE a - b

\* validate, without a manifest: the kinds of problems it reports.
ProblemsOf(records) ==
    LET rs == ToSet(records)
        count(t) == Cardinality({i \in DOMAIN records : records[i].type = t})
        pairs == {p \in (DOMAIN records) \X (DOMAIN records) : p[1] # p[2]}
    IN  (UNION {RecordProblems(r) : r \in rs}) \cup
        {x \in {"duplicate id"} : \E p \in pairs : records[p[1]].id = records[p[2]].id} \cup
        {x \in {"duplicate text"} : \E p \in pairs : records[p[1]].text = records[p[2]].text} \cup
        {x \in {"mixed group"} : \E q, r \in rs :
            /\ q.group = r.group
            /\ <<q.type, q.department, q.gold>> # <<r.type, r.department, r.gold>>} \cup
        {x \in {"shares"} : \E t \in TypeSet :
            Distance(100 * count(t), TypeShare[t] * Len(records)) > Tolerance * Max({1, Len(records)})}

\* The rest of validate: the manifest against the file.
ManifestProblems(records, m) ==
    {x \in {"hash"} : m.of # records} \cup
    {x \in {"leakage"} : ~ Sides!ValidManifest(records, m.assignment)} \cup
    {x \in {"extra"} : ~ DOMAIN m.assignment \subseteq {r.id : r \in ToSet(records)}}

----------------------------------------------------------------------------

MakingInit ==
    /\ llm \in LlmModels
    /\ gen = None /\ ticketsFile = None /\ splitManifest = None
    /\ generations = 0

MakingNext ==
    \/ StartGenerator \/ SkipScenario \/ Attempt
    \/ WriteFile \/ Die
    \/ \E i \in 0 .. N : DieWriting(i)
    \/ WriteManifest

MakingSpec == MakingInit /\ [][MakingNext]_makingVars

MakingTypeOK ==
    /\ llm \in LlmModels
    /\ gen # None =>
          /\ gen.plan \in ScenarioPlans
          /\ gen.at \in 1 .. Len(gen.plan) + 1
          /\ gen.k \in 0 .. Paraphrases - 1
          /\ gen.attempt \in 0 .. MaxAttempts - 1
          /\ \A t \in TypeSet : gen.made[t] \in 0 .. N
    /\ ticketsFile # None => \A i \in DOMAIN ticketsFile : ticketsFile[i].type \in TypeSet
    /\ generations \in 0 .. MaxGenerations

\* Whatever the model answers and wherever the generator dies, the file keeps the
\* promises made by construction: validation can fault only repeated texts and, when
\* paraphrases were given up, the shares; no type exceeds its quota; and every call of a run
\* was a request of its own, so that no retry gets the cached answer it rejects.
RecordsKeepTheirPromises ==
    /\ ticketsFile # None =>
          /\ ProblemsOf(ticketsFile) \subseteq {"duplicate text", "shares"}
          /\ \A t \in TypeSet : Cardinality({i \in DOMAIN ticketsFile : ticketsFile[i].type = t}) <= Quota[t]
    /\ gen # None => Cardinality(gen.asked) = gen.calls

\* The split of a file, complete or truncated, never fails its own check; and a manifest that
\* validation accepts for the file keeps the tickets of one scenario, and those with an article
\* in common, on one side, so that no test ticket has a sibling among the tuning ones.
SidesShareNothing ==
    ticketsFile # None /\ ticketsFile # <<>> =>
        /\ \A a \in Sides!AssignSplits(ticketsFile) : Sides!ValidManifest(ticketsFile, a)
        /\ splitManifest # None /\ ManifestProblems(ticketsFile, splitManifest) = {} =>
              \A q, r \in ToSet(ticketsFile) :
                  q.group = r.group \/ q.gold \cap r.gold # {} =>
                      splitManifest.assignment[q.id] = splitManifest.assignment[r.id]

\* What the generator writes is what the validation and the split count on.
BenchmarkIsSound == RecordsKeepTheirPromises /\ SidesShareNothing
=============================================================================
