------------------------------- MODULE Batches -------------------------------
(***************************************************************************)
(* The offline batch scripts over the benchmark and the model client they  *)
(* share: drafting (ai/generation/batch_drafts.py), judging                *)
(* (ai/judge/batch_judge.py), feature vectors (ai/signals/                 *)
(* build_features.py) and the drafting model's own signals                 *)
(* (ai/signals/model_side.py), each a process that can be killed and       *)
(* starts again.                                                          *)
(*                                                                         *)
(* Every request goes through a SQLite cache keyed by the request          *)
(* (ai/generation/llm.py): look up, ask with retries, store.  Rows are     *)
(* committed every CommitEvery items and at the end; what a run has to do  *)
(* is read once, when it starts.                                           *)
(***************************************************************************)
EXTENDS Absent, Integers, Sequences, FiniteSets, SequencesExt

CONSTANTS
    Procs,         \* processes that run the scripts
    NTickets,      \* benchmark tickets 1 .. NTickets, in the order of their ids
    Replies,       \* what the drafting model may answer
    Ratings,       \* what the judge may answer: a label, critical or not
    Invalid,       \* a judge's answer that is not of the schema
    Retries,       \* OllamaClient.retries
    CommitEvery,   \* 25
    MayOverlap,    \* jobs that two processes may run at once
    MaxStarts,     \* bound: processes started
    MaxKB          \* bound: knowledge-base versions

\* One driver at a time drafts; a draft's reply is none of the answers a script leaves out.
BatchAssumption ==
    /\ NTickets \in Nat /\ Retries \in Nat /\ MaxStarts \in Nat /\ MaxKB \in Nat
    /\ CommitEvery \in Nat \ {0}
    /\ "draft" \notin MayOverlap
    /\ Invalid \notin Replies \cup {None}

VARIABLES
    cache,     \* llm_cache.sqlite: request -> answer
    db,        \* committed drafts, verdicts and vectors
    kb,        \* version of the knowledge base; not changed by these scripts
    proc,      \* the processes
    starts

batchVars == <<cache, db, kb, proc, starts>>

Jobs == {"draft", "judge", "features", "signals"}

BenchmarkTickets == 1 .. NTickets

\* A draft keeps the evidence it was written from: here the version of the knowledge base.
IsDraftRow(d) == d.ticket \in BenchmarkTickets /\ d.evidence \in 0 .. MaxKB /\ d.reply \in Replies

\* The requests of the jobs: the prompt holds the ticket, and the passages or the draft.
DraftKey(t, evidence) == <<"draft", t, evidence>>

JudgeKey(d) == <<"judge", d.ticket, d.reply>>

IsKey(k) == k[1] \in {"draft", "judge"} /\ k[2] \in BenchmarkTickets

PCs == {"idle", "next", "lookup", "asking", "storing", "answered", "commit", "failed", "done"}

NoRun == [pc |-> "idle", job |-> None, todo |-> <<>>, i |-> 0, key |-> None, answer |-> None,
          attempt |-> 0, pending |-> <<>>, skipped |-> {}]

BatchTypeOK ==
    /\ \A k \in DOMAIN cache : IsKey(k) /\ cache[k] \in Replies \cup Ratings \cup {Invalid}
    /\ \A id \in DOMAIN db.drafts : IsDraftRow(db.drafts[id])
    /\ DOMAIN db.verdicts \cup DOMAIN db.vectors \cup DOMAIN db.signals \subseteq DOMAIN db.drafts
    /\ kb \in 0 .. MaxKB
    /\ starts \in 0 .. MaxStarts
    /\ \A p \in Procs :
          /\ proc[p].pc \in PCs
          /\ proc[p].job \in Jobs \cup {None}
          /\ proc[p].i \in 0 .. Len(proc[p].todo)
          /\ proc[p].attempt \in 0 .. Retries

BatchInit ==
    /\ cache = << >>
    /\ db = [drafts |-> <<>>, verdicts |-> << >>, vectors |-> << >>, signals |-> << >>]
    /\ kb = 0
    /\ proc = [p \in Procs |-> NoRun]
    /\ starts = 0

\* The process ended with an error; its open transaction is lost.
Failed == [NoRun EXCEPT !.pc = "failed"]

Running(p) == proc[p].pc \notin {"idle", "failed", "done"}

Set(p, r) == proc' = [proc EXCEPT ![p] = r]

\* The rows of new, and those of old that they do not replace.
Upserted(old, new) ==
    [k \in DOMAIN old \cup DOMAIN new |-> IF k \in DOMAIN new THEN new[k] ELSE old[k]]

----------------------------------------------------------------------------
(* Starting a script *)

\* Mutant: the run starts from the beginning again.
TodoOf_Everything(job) ==
    IF job = "draft" THEN [t \in BenchmarkTickets |-> t] ELSE [id \in DOMAIN db.drafts |-> id]

\* The numbers of S in ascending order: ORDER BY an id.
Below(n, S) == {m \in S : m < n}

Ascending(S) == [k \in 1 .. Cardinality(S) |-> CHOOSE n \in S : Cardinality(Below(n, S)) = k - 1]

\* Tickets without a draft; drafts without a verdict or vector; or all drafts.
TodoOf(job) ==
    CASE job = "draft" ->
        Ascending({t \in BenchmarkTickets : \A id \in DOMAIN db.drafts : db.drafts[id].ticket # t})
      [] job = "judge" -> Ascending(DOMAIN db.drafts \ DOMAIN db.verdicts)
      [] job = "features" -> Ascending(DOMAIN db.drafts \ DOMAIN db.vectors)
      [] job = "signals" -> Ascending(DOMAIN db.drafts)

Start(p, job) ==
    /\ ~ Running(p)
    /\ starts < MaxStarts
    /\ job \in MayOverlap \/ \A q \in Procs : proc[q].job = job => ~ Running(q)
    /\ Set(p, [NoRun EXCEPT !.pc = "next", !.job = job, !.todo = TodoOf(job)])
    /\ starts' = starts + 1
    /\ UNCHANGED <<cache, db, kb>>

----------------------------------------------------------------------------
(* One item after another *)

Item(p) == proc[p].todo[proc[p].i + 1]

HasItem(p) == proc[p].i < Len(proc[p].todo)

\* The signals replay the drafter's request, with the evidence the draft has stored.
Request(p) ==
    CASE proc[p].job = "draft" -> DraftKey(Item(p), kb)
      [] proc[p].job = "judge" -> JudgeKey(db.drafts[Item(p)])
      [] proc[p].job = "signals" -> DraftKey(db.drafts[Item(p)].ticket, db.drafts[Item(p)].evidence)

\* A vector is computed from stored rows, without a request.
Take(p) ==
    /\ proc[p].pc = "next"
    /\ HasItem(p)
    /\ Set(p, IF proc[p].job = "features" THEN [proc[p] EXCEPT !.pc = "answered"]
              ELSE [proc[p] EXCEPT !.pc = "lookup", !.key = Request(p), !.attempt = 0])
    /\ UNCHANGED <<cache, db, kb, starts>>

\* CachedLLMClient.complete, up to the call of the wrapped client.
Lookup(p) ==
    /\ proc[p].pc = "lookup"
    /\ Set(p, IF proc[p].key \in DOMAIN cache
              THEN [proc[p] EXCEPT !.pc = "answered", !.answer = cache[proc[p].key]]
              ELSE [proc[p] EXCEPT !.pc = "asking"])
    /\ UNCHANGED <<cache, db, kb, starts>>

AnswersTo(key) == IF key[1] = "judge" THEN Ratings \cup {Invalid} ELSE Replies

Answered(p) ==
    /\ proc[p].pc = "asking"
    /\ \E a \in AnswersTo(proc[p].key) : Set(p, [proc[p] EXCEPT !.pc = "storing", !.answer = a])
    /\ UNCHANGED <<cache, db, kb, starts>>

\* Mutant: after the last attempt the count starts again.
AfterDrop_Forever(r) ==
    IF r.attempt = Retries THEN [r EXCEPT !.attempt = 0]
    ELSE [r EXCEPT !.attempt = @ + 1]

\* Mutant: one attempt too many.
AfterDrop_OneMore(r) ==
    IF r.attempt > Retries THEN Failed
    ELSE [r EXCEPT !.attempt = @ + 1]

\* A refused, dropped or timed-out connection: wait and ask again, at most Retries times;
\* the error after that is caught by no script.
AfterDrop(r) ==
    IF r.attempt = Retries THEN Failed
    ELSE [r EXCEPT !.attempt = @ + 1]

Dropped(p) ==
    /\ proc[p].pc = "asking"
    /\ Set(p, AfterDrop(proc[p]))
    /\ UNCHANGED <<cache, db, kb, starts>>

NextItem(r) == [r EXCEPT !.pc = "next", !.i = @ + 1, !.key = None, !.answer = None, !.attempt = 0]

Skipped(r) == [NextItem(r) EXCEPT !.skipped = @ \cup {r.todo[r.i + 1]}]

\* A reply whose body is not JSON: not retried; only the judge's script goes on.
Garbled(p) ==
    /\ proc[p].pc = "asking"
    /\ Set(p, IF proc[p].job = "judge" THEN Skipped(proc[p])
              ELSE Failed)
    /\ UNCHANGED <<cache, db, kb, starts>>

\* INSERT OR REPLACE, committed at once.
Store(p) ==
    /\ proc[p].pc = "storing"
    /\ cache' = Upserted(cache, [k \in {proc[p].key} |-> proc[p].answer])
    /\ Set(p, [proc[p] EXCEPT !.pc = "answered"])
    /\ UNCHANGED <<db, kb, starts>>

\* rubric: a critical problem forces R or W
VerdictLabel(rating) == IF rating.critical /\ rating.label \in {"A", "M"} THEN "R" ELSE rating.label

\* b2: log-probabilities of the stored draft's own text, or none.
LogprobsOf(draft, replay) == IF replay = draft.reply THEN replay ELSE None

\* What the job adds for its item.
RowFor(p) ==
    CASE proc[p].job = "draft" ->
            [ticket |-> Item(p), evidence |-> proc[p].key[3], reply |-> proc[p].answer]
      [] proc[p].job = "judge" -> [id |-> Item(p), value |-> VerdictLabel(proc[p].answer)]
      [] proc[p].job = "features" -> [id |-> Item(p), value |-> db.drafts[Item(p)].reply]
      [] proc[p].job = "signals" ->
            [id |-> Item(p), value |-> LogprobsOf(db.drafts[Item(p)], proc[p].answer)]

\* The upsert of a signal row waits for a process that has the row in its transaction.
UpsertWaits(p) ==
    /\ proc[p].job = "signals"
    /\ \E q \in Procs \ {p} :
          /\ proc[q].job = "signals"
          /\ \E i \in DOMAIN proc[q].pending : proc[q].pending[i].id = Item(p)

Rows(p) == {proc[p].pending[i] : i \in DOMAIN proc[p].pending}

WithValues(old, p) ==
    Upserted(old, [id \in {r.id : r \in Rows(p)} |-> (CHOOSE r \in Rows(p) : r.id = id).value])

\* Two transactions inserted a verdict, or a vector, for one draft: uq_judge_verdicts_...,
\* uq_signal_vectors_draft_version.
Collides(p) ==
    \/ proc[p].job = "judge" /\ \E r \in Rows(p) : r.id \in DOMAIN db.verdicts
    \/ proc[p].job = "features" /\ \E r \in Rows(p) : r.id \in DOMAIN db.vectors

Committed(p) ==
    CASE proc[p].job = "draft" -> [db EXCEPT !.drafts = @ \o proc[p].pending]
      [] proc[p].job = "judge" -> [db EXCEPT !.verdicts = WithValues(@, p)]
      [] proc[p].job = "features" -> [db EXCEPT !.vectors = WithValues(@, p)]
      [] proc[p].job = "signals" -> [db EXCEPT !.signals = WithValues(@, p)]

\* i % 25 == 0 or i == len(todo)
AfterRow(r) ==
    [NextItem(r) EXCEPT !.pc = IF (r.i + 1) % CommitEvery = 0 \/ r.i + 1 = Len(r.todo)
                               THEN "commit" ELSE "next"]

\* The item's row joins the transaction; an unusable rating is skipped.
AddRow(p) ==
    /\ proc[p].pc = "answered"
    /\ ~ UpsertWaits(p)
    /\ Set(p, IF proc[p].answer = Invalid THEN Skipped(proc[p])
              ELSE [AfterRow(proc[p]) EXCEPT !.pending = Append(@, RowFor(p))])
    /\ UNCHANGED <<cache, db, kb, starts>>

CommitRows(p, then) ==
    /\ IF Collides(p)
       THEN Set(p, Failed) /\ UNCHANGED db
       ELSE Set(p, [proc[p] EXCEPT !.pc = then, !.pending = <<>>]) /\ db' = Committed(p)
    /\ UNCHANGED <<cache, kb, starts>>

CommitBatch(p) == proc[p].pc = "commit" /\ CommitRows(p, "next")

\* The commit after the loop.
Finish(p) == proc[p].pc = "next" /\ ~ HasItem(p) /\ CommitRows(p, "done")

\* The process is killed, or anything else raises.
Kill(p) ==
    /\ Running(p)
    /\ Set(p, Failed)
    /\ UNCHANGED <<cache, db, kb, starts>>

\* The knowledge base is loaded again.
Reload ==
    /\ kb < MaxKB
    /\ kb' = kb + 1
    /\ UNCHANGED <<cache, db, proc, starts>>

RunStep(p) ==
    \/ Take(p)
    \/ Lookup(p)
    \/ Answered(p)
    \/ Dropped(p)
    \/ Garbled(p)
    \/ Store(p)
    \/ AddRow(p)
    \/ CommitBatch(p)
    \/ Finish(p)

BatchNext ==
    \/ \E p \in Procs : RunStep(p) \/ Kill(p) \/ \E job \in Jobs : Start(p, job)
    \/ Reload

BatchSpec == BatchInit /\ [][BatchNext]_batchVars

\* Each process is scheduled; a request is answered or times out.
BatchFairness == \A p \in Procs : WF_batchVars(RunStep(p))

BatchLiveSpec == BatchSpec /\ BatchFairness

----------------------------------------------------------------------------
(* Properties *)

\* As long as one driver at a time drafts, a run that is killed anywhere and starts again
\* drafts no ticket twice; every committed draft is what the cache answers to the request
\* that its stored evidence rebuilds, also after the knowledge base was reloaded; so the
\* token signals are those of the stored draft and never missing for a draft that has a row.
DraftsReplay ==
    /\ \A i, j \in DOMAIN db.drafts : db.drafts[i].ticket = db.drafts[j].ticket => i = j
    /\ \A id \in DOMAIN db.drafts :
          LET key == DraftKey(db.drafts[id].ticket, db.drafts[id].evidence)
          IN  key \in DOMAIN cache /\ cache[key] = db.drafts[id].reply
    /\ \A id \in DOMAIN db.signals : db.signals[id] = db.drafts[id].reply

\* A script that ended without an error left nothing undone: every item it started with
\* has its row in the database, or is a draft that it reported as badly rated, whatever
\* other processes wrote or lost in the meantime.
FinishedMeansStored ==
    \A p \in Procs : proc[p].pc = "done" =>
        \A item \in ToSet(proc[p].todo) :
            CASE proc[p].job = "draft" -> \E id \in DOMAIN db.drafts : db.drafts[id].ticket = item
              [] proc[p].job = "judge" -> item \in DOMAIN db.verdicts \cup proc[p].skipped
              [] proc[p].job = "features" -> item \in DOMAIN db.vectors
              [] proc[p].job = "signals" -> item \in DOMAIN db.signals

\* Both: batches draft nothing twice, keep drafts replayable and report nothing as done that
\* is not.
DraftsAreReplayable == DraftsReplay /\ FinishedMeansStored

\* Every script that is not killed ends, however often the model server drops or delays
\* its requests and whatever rows other processes hold: retries are bounded, and no two
\* processes wait for each other's rows.
EveryScriptEnds == \A p \in Procs : Running(p) ~> ~ Running(p)
=============================================================================
