----------------------------- MODULE ScriptProofs -----------------------------
(***************************************************************************)
(* Proofs about the evaluation's scripts: Batches, for any number of       *)
(* tickets, processes, kills, retries and reloads of the knowledge base,   *)
(* Experiment, for any benchmark whose groups share one article, any       *)
(* scripts that overlap, and any edits, freezes and kills; and Benchmark,  *)
(* for any answers of the language model and any number of tickets asked.  *)
(***************************************************************************)
EXTENDS Batches, Experiment, Benchmark, FiniteSetTheorems, SequenceTheorems, TLAPS

----------------------------------------------------------------------------
(* Lists of work *)

\* s lists the numbers of T, each once.
Lists(s, T) ==
    /\ s \in Seq(T)
    /\ \A i, j \in DOMAIN s : s[i] = s[j] => i = j
    /\ \A n \in T : \E i \in DOMAIN s : s[i] = n

\* Every place of an ascending list is taken by exactly one number, and every number has one.
LEMMA AscendingLists ==
    ASSUME NEW T \in SUBSET Nat, IsFiniteSet(T)
    PROVE  Lists(Ascending(T), T)
<1> DEFINE n == Cardinality(T)
           a == Ascending(T)
           F == [c \in T |-> Cardinality(Below(c, T))]
<1>1. n \in Nat
    BY FS_CardinalityType
<1>2. ASSUME NEW c \in T PROVE IsFiniteSet(Below(c, T)) /\ F[c] \in 0 .. n - 1
    <2>1. Below(c, T) \in SUBSET (T \ {c})
        BY DEF Below
    <2>2. IsFiniteSet(T \ {c}) /\ Cardinality(T \ {c}) = n - 1
        BY FS_RemoveElement
    <2>3. IsFiniteSet(Below(c, T)) /\ Cardinality(Below(c, T)) <= n - 1
        BY <2>1, <2>2, FS_Subset
    <2>4. Cardinality(Below(c, T)) \in Nat
        BY <2>3, FS_CardinalityType
    <2> QED BY <1>1, <2>3, <2>4
<1>3. ASSUME NEW c \in T, NEW d \in T, c < d PROVE F[c] # F[d]
    <2>1. Below(c, T) \in SUBSET Below(d, T)
        <3>1. ASSUME NEW m \in T, m < c PROVE m < d
            BY <1>3, <3>1
        <3> QED BY <3>1 DEF Below
    <2>2. c \in Below(d, T) /\ c \notin Below(c, T)
        BY <1>3 DEF Below
    <2> QED BY <1>2, <2>1, <2>2, FS_Subset
<1>4. F \in Injection(T, 0 .. n - 1)
    <2>1. F \in [T -> 0 .. n - 1]
        BY <1>2
    <2>2. ASSUME NEW c \in T, NEW d \in T, F[c] = F[d] PROVE c = d
        <3>1. ~ c < d /\ ~ d < c
            BY <1>3, <2>2
        <3> QED BY <3>1
    <2> HIDE DEF F
    <2> QED BY <2>1, <2>2 DEF Injection, IsInjective
<1>5. F \in Surjection(T, 0 .. n - 1)
    <2>1. IsFiniteSet(0 .. n - 1) /\ Cardinality(0 .. n - 1) = n
        <3>1. PICK m \in Int : m = n - 1
            BY <1>1
        <3>2. IsFiniteSet(0 .. m) /\ Cardinality(0 .. m) = IF 0 > m THEN 0 ELSE m - 0 + 1
            BY FS_Interval
        <3> QED BY <1>1, <3>1, <3>2
    <2> HIDE DEF F
    <2> QED BY <1>4, <2>1, FS_Injection
<1>6. ASSUME NEW k \in 1 .. n PROVE a[k] \in T /\ F[a[k]] = k - 1
    <2>1. PICK c \in T : F[c] = k - 1
        <3> HIDE DEF F, n
        <3>1. k - 1 \in 0 .. n - 1
            BY <1>1
        <3> QED BY <1>5, <3>1 DEF Surjection
    <2>2. a[k] = CHOOSE x \in T : Cardinality(Below(x, T)) = k - 1
        BY DEF Ascending
    <2> QED BY <2>1, <2>2
<1>7. a \in Seq(T) /\ DOMAIN a = 1 .. n
    <2>1. a = [k \in 1 .. n |-> a[k]]
        BY DEF Ascending
    <2> HIDE DEF a, F
    <2>2. a \in [1 .. n -> T]
        BY <1>6, <2>1
    <2> QED BY <1>1, <2>2
<1>8. ASSUME NEW c \in T PROVE \E k \in 1 .. n : a[k] = c
    <2>1. F[c] + 1 \in 1 .. n
        BY <1>1, <1>2
    <2>2. a[F[c] + 1] \in T /\ F[a[F[c] + 1]] = F[c]
        <3> HIDE DEF F, a, n
        <3> QED BY <1>1, <1>2, <1>6, <2>1
    <2>3. a[F[c] + 1] = c
        BY <1>4, <2>2 DEF Injection, IsInjective
    <2> QED BY <2>1, <2>3
<1>9. \A i, j \in 1 .. n : a[i] = a[j] => i = j
    <2> HIDE DEF F, a, n
    <2> QED BY <1>1, <1>6
<1> QED BY <1>7, <1>8, <1>9 DEF Lists

----------------------------------------------------------------------------
(* The rows: d is what is committed, c the cache *)

DraftRow == [ticket : BenchmarkTickets, evidence : 0 .. MaxKB, reply : Replies]

Values == Replies \cup {"R", None} \cup {rating.label : rating \in Ratings}

IdRow == [id : Nat, value : Values]

Keys == {DraftKey(t, e) : t \in BenchmarkTickets, e \in 0 .. MaxKB}
        \cup {<<"judge", t, reply>> : t \in BenchmarkTickets, reply \in Replies}

Answers == Replies \cup Ratings \cup {Invalid}

StoredRowsOK(d, c) ==
    /\ DOMAIN d = {"drafts", "verdicts", "vectors", "signals"}
    /\ d.drafts \in Seq(DraftRow)
    /\ DOMAIN d.verdicts \subseteq DOMAIN d.drafts
    /\ DOMAIN d.vectors \subseteq DOMAIN d.drafts
    /\ DOMAIN d.signals \subseteq DOMAIN d.drafts
    /\ DOMAIN c \subseteq Keys
    /\ \A k \in DOMAIN c : c[k] \in AnswersTo(k)

\* The cache answers a draft's own request with its reply.
Replayable(draft, c) ==
    LET key == DraftKey(draft.ticket, draft.evidence) IN key \in DOMAIN c /\ c[key] = draft.reply

----------------------------------------------------------------------------
(* A script at work *)

Run == [pc : PCs, job : Jobs \cup {None}, todo : Seq(Nat), i : Nat, key : Keys \cup {None},
        answer : Answers \cup {None}, attempt : 0 .. Retries,
        pending : Seq(DraftRow \cup IdRow), skipped : SUBSET Nat]

Live == PCs \ {"idle", "failed", "done"}

InHand == {"lookup", "asking", "storing", "answered"}

\* The request for an item, whatever the knowledge base was when it was made.
IsJobRequest(key, job, item, d) ==
    \/ job = "draft" /\ \E e \in 0 .. MaxKB : key = DraftKey(item, e)
    \/ job = "judge" /\ key = JudgeKey(d.drafts[item])
    \/ job = "signals" /\ key = DraftKey(d.drafts[item].ticket, d.drafts[item].evidence)

(***************************************************************************)
(* What a script has in hand.  Only the drafter asks for drafts, and only  *)
(* what the cache does not answer yet, so that no stored answer to a       *)
(* draft's request is ever replaced.                                       *)
(***************************************************************************)
AtItem(r, d, c) ==
    /\ r.pc \in InHand =>
          /\ r.i < Len(r.todo)
          /\ IF r.job = "features" THEN r.pc = "answered"
             ELSE IsJobRequest(r.key, r.job, r.todo[r.i + 1], d)
    /\ r.pc \in {"asking", "storing"} /\ r.job # "judge" => r.job = "draft" /\ r.key \notin DOMAIN c
    /\ r.pc = "storing" => r.answer \in AnswersTo(r.key)
    /\ r.pc = "answered" =>
          /\ r.job = "features" => r.answer = None
          /\ r.job = "judge" => r.answer \in AnswersTo(r.key)
          /\ r.job \in {"draft", "signals"} => r.key \in DOMAIN c /\ r.answer = c[r.key]
    /\ r.pc \in {"next", "commit"} => r.answer = None

\* Its list: a drafter's tickets ahead have no draft yet, the others' drafts exist.
TodoOK(r, d) ==
    IF r.job = "draft"
    THEN /\ \A m \in DOMAIN r.todo : r.todo[m] \in BenchmarkTickets
         /\ \A m, n \in DOMAIN r.todo : r.todo[m] = r.todo[n] => m = n
         /\ \A m \in DOMAIN r.todo, id \in DOMAIN d.drafts : m > r.i => d.drafts[id].ticket # r.todo[m]
    ELSE \A m \in DOMAIN r.todo : r.todo[m] \in DOMAIN d.drafts

\* Its rows that are not committed.
PendingOK(r, d, c) ==
    IF r.job = "draft"
    THEN /\ \A k \in DOMAIN r.pending :
               /\ r.pending[k] \in DraftRow /\ Replayable(r.pending[k], c)
               /\ \A id \in DOMAIN d.drafts : d.drafts[id].ticket # r.pending[k].ticket
               /\ \E m \in DOMAIN r.todo : m <= r.i /\ r.pending[k].ticket = r.todo[m]
         /\ \A k, l \in DOMAIN r.pending : r.pending[k].ticket = r.pending[l].ticket => k = l
    ELSE \A k \in DOMAIN r.pending :
            /\ r.pending[k] \in IdRow /\ r.pending[k].id \in DOMAIN d.drafts
            /\ r.job = "signals" => r.pending[k].value = d.drafts[r.pending[k].id].reply

\* An item is done with when it is about to be committed, stored or reported.
IsPending(r, item) ==
    \E k \in DOMAIN r.pending :
        item = IF r.job = "draft" THEN r.pending[k].ticket ELSE r.pending[k].id

IsStored(r, item, d) ==
    \/ r.job = "draft" /\ \E id \in DOMAIN d.drafts : d.drafts[id].ticket = item
    \/ r.job = "judge" /\ item \in DOMAIN d.verdicts \cup r.skipped
    \/ r.job = "features" /\ item \in DOMAIN d.vectors
    \/ r.job = "signals" /\ item \in DOMAIN d.signals

AllCovered(r, d) ==
    \A m \in DOMAIN r.todo : m <= r.i => IsPending(r, r.todo[m]) \/ IsStored(r, r.todo[m], d)

SoundRun(r, d, c) ==
    /\ r \in Run /\ r.i <= Len(r.todo)
    /\ r.pc \in Live \cup {"done"} => r.job \in Jobs /\ AllCovered(r, d)
    /\ r.pc \in Live => AtItem(r, d, c) /\ TodoOK(r, d) /\ PendingOK(r, d, c)
    /\ r.pc = "done" => r.i = Len(r.todo) /\ r.pending = <<>>

IsDrafter(r) == r.pc \in Live /\ r.job = "draft"

(***************************************************************************)
(* One driver drafts, so that nobody else stores a draft, or an answer to  *)
(* the request it is making.                                               *)
(***************************************************************************)
BatchInv ==
    /\ StoredRowsOK(db, cache) /\ kb \in 0 .. MaxKB
    /\ DOMAIN proc = Procs /\ \A p \in Procs : SoundRun(proc[p], db, cache)
    /\ \A p, q \in Procs : IsDrafter(proc[p]) /\ IsDrafter(proc[q]) => p = q
    /\ starts \in 0 .. MaxStarts
    /\ DraftsReplay

----------------------------------------------------------------------------
(* What other processes do *)

\* Rows are added, and the answers to drafts' requests stay.
AddsRows(d, c, d2, c2) ==
    /\ \A id \in DOMAIN d.drafts : id \in DOMAIN d2.drafts /\ d2.drafts[id] = d.drafts[id]
    /\ DOMAIN d.verdicts \subseteq DOMAIN d2.verdicts
    /\ DOMAIN d.vectors \subseteq DOMAIN d2.vectors
    /\ DOMAIN d.signals \subseteq DOMAIN d2.signals
    /\ \A k \in DOMAIN c : k[1] = "draft" => k \in DOMAIN c2 /\ c2[k] = c[k]

\* Nothing is drafted meanwhile.
SameDrafts(d, c, d2, c2) ==
    /\ DOMAIN d2.drafts = DOMAIN d.drafts
    /\ \A k \in DOMAIN c2 : k[1] = "draft" => k \in DOMAIN c

LEMMA StaysSound ==
    ASSUME NEW d, NEW c, NEW d2, NEW c2, AddsRows(d, c, d2, c2), NEW r, SoundRun(r, d, c),
           IsDrafter(r) => SameDrafts(d, c, d2, c2)
    PROVE  SoundRun(r, d2, c2)
<1>1. r \in Run /\ Len(r.todo) \in Nat /\ DOMAIN r.todo = 1 .. Len(r.todo)
    BY DEF SoundRun, Run
<1>2. \A id \in DOMAIN d.drafts : id \in DOMAIN d2.drafts /\ d2.drafts[id] = d.drafts[id]
    BY DEF AddsRows
<1>3. ASSUME AllCovered(r, d) PROVE AllCovered(r, d2)
    <2>1. ASSUME NEW item, IsStored(r, item, d) PROVE IsStored(r, item, d2)
        BY <2>1 DEF IsStored, AddsRows
    <2> QED BY <1>3, <2>1 DEF AllCovered
<1>4. ASSUME r.pc \in Live PROVE TodoOK(r, d2)
    <2>1. TodoOK(r, d)
        BY <1>4 DEF SoundRun
    <2>2. CASE r.job = "draft"
        <3>1. DOMAIN d2.drafts = DOMAIN d.drafts
            BY <1>4, <2>2 DEF IsDrafter, SameDrafts
        <3> QED BY <1>2, <2>1, <2>2, <3>1 DEF TodoOK
    <2>3. CASE r.job # "draft"
        BY <1>2, <2>1, <2>3 DEF TodoOK
    <2> QED BY <2>2, <2>3
<1>5. ASSUME r.pc \in Live PROVE PendingOK(r, d2, c2)
    <2>1. PendingOK(r, d, c)
        BY <1>5 DEF SoundRun
    <2>2. CASE r.job = "draft"
        <3>1. DOMAIN d2.drafts = DOMAIN d.drafts
            BY <1>5, <2>2 DEF IsDrafter, SameDrafts
        <3>2. ASSUME NEW k \in DOMAIN r.pending, Replayable(r.pending[k], c) PROVE Replayable(r.pending[k], c2)
            BY <3>2 DEF Replayable, AddsRows, DraftKey
        <3> QED BY <1>2, <2>1, <2>2, <3>1, <3>2 DEF PendingOK
    <2>3. CASE r.job # "draft"
        BY <1>2, <2>1, <2>3 DEF PendingOK
    <2> QED BY <2>2, <2>3
<1>6. ASSUME r.pc \in Live PROVE AtItem(r, d2, c2)
    <2>1. AtItem(r, d, c) /\ TodoOK(r, d) /\ r.job \in Jobs /\ r.i \in Nat
        BY <1>1, <1>6 DEF SoundRun, Run
    <2>2. ASSUME r.pc \in InHand, r.job # "features"
          PROVE  /\ IsJobRequest(r.key, r.job, r.todo[r.i + 1], d2)
                 /\ r.job \in {"draft", "signals"} => r.key[1] = "draft"
        <3>1. IsJobRequest(r.key, r.job, r.todo[r.i + 1], d) /\ r.i + 1 \in DOMAIN r.todo
            BY <1>1, <2>1, <2>2 DEF AtItem
        <3>2. CASE r.job = "draft"
            BY <3>1, <3>2 DEF IsJobRequest, DraftKey
        <3>3. CASE r.job # "draft"
            <4>1. r.todo[r.i + 1] \in DOMAIN d.drafts
                BY <2>1, <3>1, <3>3 DEF TodoOK
            <4> QED BY <1>2, <3>1, <3>3, <4>1 DEF IsJobRequest, DraftKey
        <3> QED BY <3>2, <3>3
    <2>3. ASSUME r.pc \in {"asking", "storing"}, r.job # "judge" PROVE r.job = "draft" /\ r.key \notin DOMAIN c2
        <3>1. r.job = "draft" /\ r.key \notin DOMAIN c
            BY <2>1, <2>3 DEF AtItem
        <3>2. r.key[1] = "draft"
            BY <2>2, <2>3, <3>1 DEF InHand
        <3> QED BY <1>6, <3>1, <3>2 DEF IsDrafter, SameDrafts
    <2>4. ASSUME r.pc = "answered", r.job \in {"draft", "signals"}
          PROVE  r.key \in DOMAIN c2 /\ r.answer = c2[r.key]
        <3>1. r.key \in DOMAIN c /\ r.answer = c[r.key]
            BY <2>1, <2>4 DEF AtItem
        <3>2. r.key[1] = "draft"
            BY <2>2, <2>4 DEF InHand
        <3> QED BY <3>1, <3>2 DEF AddsRows
    <2>5. r.pc \in InHand =>
            /\ r.i < Len(r.todo)
            /\ IF r.job = "features" THEN r.pc = "answered"
               ELSE IsJobRequest(r.key, r.job, r.todo[r.i + 1], d2)
        BY <2>1, <2>2 DEF AtItem
    <2>6. /\ r.pc = "storing" => r.answer \in AnswersTo(r.key)
          /\ r.pc \in {"next", "commit"} => r.answer = None
          /\ r.pc = "answered" => /\ r.job = "features" => r.answer = None
                                  /\ r.job = "judge" => r.answer \in AnswersTo(r.key)
        BY <2>1 DEF AtItem
    <2> HIDE DEF InHand
    <2> QED BY <2>3, <2>4, <2>5, <2>6 DEF AtItem
<1> QED BY <1>3, <1>4, <1>5, <1>6 DEF SoundRun

----------------------------------------------------------------------------
(* A step of one process *)

LEMMA Assemble ==
    ASSUME BatchInv, NEW p \in Procs, NEW r, Set(p, r), AddsRows(db, cache, db', cache'),
           SoundRun(r, db', cache'), StoredRowsOK(db', cache'), kb' \in 0 .. MaxKB,
           DraftsReplay', starts' \in 0 .. MaxStarts,
           \A q \in Procs \ {p} : IsDrafter(proc[q]) => SameDrafts(db, cache, db', cache') /\ ~ IsDrafter(r)
    PROVE  BatchInv'
<1>1. DOMAIN proc = Procs /\ proc' = [proc EXCEPT ![p] = r]
    BY DEF BatchInv, Set
<1>2. DOMAIN proc' = Procs /\ proc'[p] = r /\ \A q \in Procs \ {p} : proc'[q] = proc[q]
    BY <1>1
<1>3. ASSUME NEW q \in Procs \ {p} PROVE SoundRun(proc'[q], db', cache')
    <2>1. SoundRun(proc[q], db, cache) /\ (IsDrafter(proc[q]) => SameDrafts(db, cache, db', cache'))
        BY DEF BatchInv
    <2>2. SoundRun(proc[q], db', cache')
        BY <2>1, StaysSound
    <2> QED BY <1>2, <2>2
<1>4. \A q \in Procs : SoundRun(proc'[q], db', cache')
    BY <1>2, <1>3
<1>5. \A a, b \in Procs : IsDrafter(proc'[a]) /\ IsDrafter(proc'[b]) => a = b
    <2>1. \A a, b \in Procs : IsDrafter(proc[a]) /\ IsDrafter(proc[b]) => a = b
        BY DEF BatchInv
    <2>2. \A a \in Procs \ {p} : IsDrafter(proc'[a]) => IsDrafter(proc[a]) /\ ~ IsDrafter(r)
        BY <1>2
    <2> QED BY <1>2, <2>1, <2>2
<1> QED BY <1>2, <1>4, <1>5 DEF BatchInv

\* A step that writes nothing to disk.
LEMMA Locally ==
    ASSUME BatchInv, NEW p \in Procs, NEW r, Set(p, r), UNCHANGED <<cache, db, kb, starts>>,
           SoundRun(r, db, cache), IsDrafter(r) => IsDrafter(proc[p])
    PROVE  BatchInv'
<1>1. StoredRowsOK(db, cache) /\ DraftsReplay /\ starts \in 0 .. MaxStarts /\ kb \in 0 .. MaxKB
    BY DEF BatchInv
<1>2. AddsRows(db, cache, db', cache') /\ SameDrafts(db, cache, db', cache')
    BY DEF AddsRows, SameDrafts
<1>3. DraftsReplay'
    BY <1>1 DEF DraftsReplay
<1>4. StoredRowsOK(db', cache') /\ SoundRun(r, db', cache') /\ starts' \in 0 .. MaxStarts /\ kb' \in 0 .. MaxKB
    BY <1>1
<1>5. \A q \in Procs \ {p} : IsDrafter(proc[q]) => ~ IsDrafter(r)
    BY DEF BatchInv
<1> QED BY <1>2, <1>3, <1>4, <1>5, Assemble

\* What a process has to do, and what it has done, are the same.
LEMMA SameWork ==
    ASSUME NEW d, NEW c, NEW x, SoundRun(x, d, c), x.pc \in Live,
           NEW y \in Run, y.pc \in Live, AtItem(y, d, c),
           y.job = x.job, y.todo = x.todo, y.i = x.i, y.pending = x.pending, y.skipped = x.skipped
    PROVE  SoundRun(y, d, c)
<1>1. x.job \in Jobs /\ x.i <= Len(x.todo) /\ AllCovered(x, d) /\ TodoOK(x, d) /\ PendingOK(x, d, c)
    BY DEF SoundRun
<1>2. AllCovered(y, d)
    BY <1>1 DEF AllCovered, IsPending, IsStored
<1>3. TodoOK(y, d)
    BY <1>1 DEF TodoOK
<1>4. PendingOK(y, d, c)
    BY <1>1 DEF PendingOK
<1>5. y.pc # "done"
    BY DEF Live
<1> QED BY <1>1, <1>2, <1>3, <1>4, <1>5 DEF SoundRun

LEMMA EndedIsSound ==
    ASSUME BatchAssumption, NEW d, NEW c, NEW n, n = NoRun, NEW pc \in {"idle", "failed"},
           NEW y, y = [n EXCEPT !.pc = pc]
    PROVE  SoundRun(y, d, c) /\ ~ IsDrafter(y)
<1>1. n \in Run /\ n.i <= Len(n.todo)
    <2>1. 0 \in 0 .. Retries /\ "idle" \in PCs
        BY DEF BatchAssumption, PCs
    <2>2. <<>> \in Seq(Nat) /\ <<>> \in Seq(DraftRow \cup IdRow) /\ Len(<<>>) = 0
        OBVIOUS
    <2> QED BY <2>1, <2>2 DEF Run, NoRun
<1>2. pc \in PCs /\ pc \notin Live \cup {"done"}
    BY DEF PCs, Live
<1>3. y \in Run /\ y.pc = pc /\ y.i = n.i /\ y.todo = n.todo
    BY <1>1, <1>2 DEF Run
<1> QED BY <1>1, <1>2, <1>3 DEF SoundRun, IsDrafter

LEMMA BatchInvInit ==
    ASSUME BatchAssumption, BatchInit PROVE BatchInv
<1>1. PICK n : n = NoRun
    OBVIOUS
<1>2. n = [n EXCEPT !.pc = "idle"]
    <2>1. /\ n.pc = "idle"
          /\ n \in [pc : {"idle"}, job : {None}, todo : {<<>>}, i : {0}, key : {None}, answer : {None},
                    attempt : {0}, pending : {<<>>}, skipped : {{}}]
        BY <1>1 DEF NoRun
    <2> QED BY <2>1
<1>3. SoundRun(n, db, cache) /\ ~ IsDrafter(n)
    BY <1>1, <1>2, EndedIsSound
<1>4. DOMAIN proc = Procs /\ \A p \in Procs : proc[p] = n
    BY <1>1 DEF BatchInit
<1>5. /\ db.drafts = <<>> /\ DOMAIN db = {"drafts", "verdicts", "vectors", "signals"}
      /\ db.verdicts = <<>> /\ db.vectors = <<>> /\ db.signals = <<>> /\ cache = <<>>
    BY DEF BatchInit
<1>6. DOMAIN <<>> = {} /\ <<>> \in Seq(DraftRow)
    OBVIOUS
<1>7. StoredRowsOK(db, cache) /\ DraftsReplay
    BY <1>5, <1>6 DEF StoredRowsOK, DraftsReplay
<1>8. kb \in 0 .. MaxKB /\ starts \in 0 .. MaxStarts
    BY DEF BatchInit, BatchAssumption
<1> QED BY <1>3, <1>4, <1>7, <1>8 DEF BatchInv

----------------------------------------------------------------------------
(* Steps of one process that write nothing *)

LEMMA Fails ==
    ASSUME BatchAssumption, BatchInv, NEW p \in Procs, Set(p, Failed), UNCHANGED <<cache, db, kb, starts>>
    PROVE  BatchInv'
<1>1. PICK n : n = NoRun
    OBVIOUS
<1>2. Failed = [n EXCEPT !.pc = "failed"]
    BY <1>1 DEF Failed
<1>3. SoundRun(Failed, db, cache) /\ ~ IsDrafter(Failed)
    BY <1>1, <1>2, EndedIsSound
<1> QED BY <1>3, Locally

LEMMA StartStep ==
    ASSUME BatchAssumption, BatchInv, NEW p \in Procs, NEW job \in Jobs, Start(p, job)
    PROVE  BatchInv'
<1>1. PICK n : n = NoRun
    OBVIOUS
<1>2. PICK todo : todo = TodoOf(job)
    OBVIOUS
<1>3. PICK y : y = [n EXCEPT !.pc = "next", !.job = job, !.todo = todo]
    OBVIOUS
<1>4. Set(p, y)
    BY <1>1, <1>2, <1>3 DEF Start
<1>5. StoredRowsOK(db, cache)
    BY DEF BatchInv
<1>6. DOMAIN db.drafts \in SUBSET Nat /\ IsFiniteSet(DOMAIN db.drafts)
    <2>1. db.drafts \in Seq(DraftRow)
        BY <1>5 DEF StoredRowsOK
    <2>2. DOMAIN db.drafts = 1 .. Len(db.drafts) /\ Len(db.drafts) \in Nat
        BY <2>1
    <2> QED BY <2>2, FS_Interval
<1>7. todo \in Seq(Nat) /\ TodoOK([job |-> job, todo |-> todo, i |-> 0], db)
    <2> DEFINE Undrafted == {t \in BenchmarkTickets : \A id \in DOMAIN db.drafts : db.drafts[id].ticket # t}
    <2>1. CASE job = "draft"
        <3>1. todo = Ascending(Undrafted)
            BY <1>2, <2>1 DEF TodoOf
        <3>2. Undrafted \in SUBSET Nat /\ IsFiniteSet(Undrafted)
            <4>1. BenchmarkTickets \in SUBSET Nat /\ IsFiniteSet(BenchmarkTickets)
                BY FS_Interval DEF BenchmarkTickets, BatchAssumption
            <4>2. Undrafted \in SUBSET BenchmarkTickets
                OBVIOUS
            <4> QED BY <4>1, <4>2, FS_Subset
        <3>3. Lists(todo, Undrafted)
            BY <3>1, <3>2, AscendingLists
        <3>4. \A m \in DOMAIN todo : todo[m] \in Undrafted
            BY <3>3 DEF Lists
        <3>5. todo \in Seq(Nat)
            BY <3>2, <3>3 DEF Lists
        <3> QED BY <2>1, <3>3, <3>4, <3>5 DEF TodoOK, Lists
    <2>2. CASE job # "draft"
        <3>1. PICK T \in SUBSET DOMAIN db.drafts : todo = Ascending(T)
            <4>1. CASE job = "judge"
                BY <1>2, <4>1 DEF TodoOf
            <4>2. CASE job = "features"
                BY <1>2, <4>2 DEF TodoOf
            <4>3. CASE job = "signals"
                BY <1>2, <4>3 DEF TodoOf
            <4> QED BY <2>2, <4>1, <4>2, <4>3 DEF Jobs
        <3>2. T \in SUBSET Nat /\ IsFiniteSet(T)
            BY <1>6, FS_Subset
        <3>3. Lists(todo, T)
            BY <3>1, <3>2, AscendingLists
        <3>4. todo \in Seq(Nat) /\ \A m \in DOMAIN todo : todo[m] \in T
            BY <3>2, <3>3 DEF Lists
        <3> QED BY <2>2, <3>4 DEF TodoOK
    <2> QED BY <2>1, <2>2
<1>8. /\ y \in Run /\ y.pc = "next" /\ y.job = job /\ y.todo = todo /\ y.i = 0
      /\ y.answer = None /\ y.pending = <<>>
    <2>1. n \in Run /\ n.i = 0 /\ n.answer = None /\ n.pending = <<>>
        <3>1. 0 \in 0 .. Retries /\ "idle" \in PCs
            BY DEF BatchAssumption, PCs
        <3>2. <<>> \in Seq(Nat) /\ <<>> \in Seq(DraftRow \cup IdRow)
            OBVIOUS
        <3> QED BY <1>1, <3>1, <3>2 DEF Run, NoRun
    <2>2. "next" \in PCs
        BY DEF PCs
    <2> QED BY <1>3, <1>7, <2>1, <2>2 DEF Run
<1>9. TodoOK(y, db)
    BY <1>7, <1>8 DEF TodoOK
<1>10. DOMAIN <<>> = {} /\ 0 <= Len(todo) /\ DOMAIN todo = 1 .. Len(todo)
    BY <1>7
<1>11. AtItem(y, db, cache) /\ PendingOK(y, db, cache) /\ AllCovered(y, db)
    BY <1>8, <1>10 DEF AtItem, InHand, PendingOK, AllCovered
<1>12. SoundRun(y, db, cache)
    BY <1>8, <1>9, <1>10, <1>11 DEF SoundRun
<1>13. \A q \in Procs \ {p} : IsDrafter(proc[q]) => ~ IsDrafter(y)
    BY <1>8 DEF Start, IsDrafter, BatchAssumption, Running, Live
<1>14. AddsRows(db, cache, db', cache') /\ SameDrafts(db, cache, db', cache')
    BY DEF AddsRows, SameDrafts, Start
<1>15. DraftsReplay'
    BY DEF DraftsReplay, Start, BatchInv
<1>16. starts' \in 0 .. MaxStarts /\ kb' \in 0 .. MaxKB /\ db' = db /\ cache' = cache
    BY DEF Start, BatchInv, BatchAssumption
<1> QED BY <1>4, <1>5, <1>12, <1>13, <1>14, <1>15, <1>16, Assemble

\* A request is a key of the cache, and the one for the item.
LEMMA RequestIs ==
    ASSUME BatchInv, NEW p \in Procs, proc[p].pc = "next", HasItem(p), proc[p].job # "features"
    PROVE  Request(p) \in Keys /\ IsJobRequest(Request(p), proc[p].job, Item(p), db)
<1>1. PICK x : x = proc[p]
    OBVIOUS
<1>2. SoundRun(x, db, cache) /\ StoredRowsOK(db, cache) /\ kb \in 0 .. MaxKB /\ x.pc \in Live
    BY <1>1 DEF BatchInv, Live, PCs
<1>3. x \in Run /\ TodoOK(x, db) /\ x.job \in Jobs
    BY <1>2 DEF SoundRun
<1>4. x.i + 1 \in DOMAIN x.todo /\ Item(p) = x.todo[x.i + 1]
    BY <1>1, <1>3 DEF HasItem, Item, Run
<1>5. \A id \in DOMAIN db.drafts : db.drafts[id] \in DraftRow
    BY <1>2 DEF StoredRowsOK
<1>6. CASE x.job = "draft"
    <2>1. Item(p) \in BenchmarkTickets
        BY <1>3, <1>4, <1>6 DEF TodoOK
    <2>2. Request(p) = DraftKey(Item(p), kb)
        BY <1>1, <1>6 DEF Request
    <2> QED BY <1>1, <1>2, <1>6, <2>1, <2>2 DEF Keys, IsJobRequest
<1>7. ASSUME x.job # "draft" PROVE Item(p) \in DOMAIN db.drafts /\ db.drafts[Item(p)] \in DraftRow
    BY <1>3, <1>4, <1>5, <1>7 DEF TodoOK
<1>8. CASE x.job = "judge"
    <2>1. Request(p) = JudgeKey(db.drafts[Item(p)])
        BY <1>1, <1>8 DEF Request
    <2>2. Request(p) \in Keys
        BY <1>7, <1>8, <2>1 DEF Keys, JudgeKey, DraftRow
    <2> QED BY <1>1, <1>8, <2>1, <2>2 DEF IsJobRequest
<1>9. CASE x.job = "signals"
    <2>1. Request(p) = DraftKey(db.drafts[Item(p)].ticket, db.drafts[Item(p)].evidence)
        BY <1>1, <1>9 DEF Request
    <2>2. Request(p) \in Keys
        BY <1>7, <1>9, <2>1 DEF Keys, DraftRow
    <2> QED BY <1>1, <1>9, <2>1, <2>2 DEF IsJobRequest
<1> QED BY <1>1, <1>3, <1>6, <1>8, <1>9 DEF Jobs

LEMMA TakeStep ==
    ASSUME BatchAssumption, BatchInv, NEW p \in Procs, Take(p)
    PROVE  BatchInv'
<1>1. PICK x : x = proc[p]
    OBVIOUS
<1>2. SoundRun(x, db, cache) /\ x.pc = "next" /\ x.pc \in Live
    BY <1>1 DEF BatchInv, Take, Live, PCs
<1>3. x \in Run /\ AtItem(x, db, cache) /\ x.i < Len(x.todo) /\ x.answer = None
    BY <1>1, <1>2 DEF SoundRun, Take, HasItem, AtItem
<1>4. {"answered", "lookup"} \subseteq Live /\ Live \subseteq PCs
    BY DEF Live, PCs
<1>5. CASE x.job = "features"
    <2>1. PICK y : y = [x EXCEPT !.pc = "answered"]
        OBVIOUS
    <2>2. /\ y \in Run /\ y.pc = "answered" /\ y.answer = x.answer
          /\ y.job = x.job /\ y.todo = x.todo /\ y.i = x.i /\ y.pending = x.pending /\ y.skipped = x.skipped
        BY <1>3, <1>4, <2>1 DEF Run
    <2>3. AtItem(y, db, cache)
        BY <1>3, <1>5, <2>2 DEF AtItem, InHand
    <2>4. SoundRun(y, db, cache)
        BY <1>2, <1>4, <2>2, <2>3, SameWork
    <2>5. Set(p, y) /\ UNCHANGED <<cache, db, kb, starts>>
        BY <1>1, <1>5, <2>1 DEF Take
    <2> QED BY <1>1, <1>2, <2>2, <2>4, <2>5, Locally DEF IsDrafter
<1>6. CASE x.job # "features"
    <2>1. PICK key : key = Request(p)
        OBVIOUS
    <2>2. key \in Keys /\ IsJobRequest(key, x.job, x.todo[x.i + 1], db)
        BY <1>1, <1>6, <2>1, RequestIs DEF Take, Item
    <2>3. PICK y : y = [x EXCEPT !.pc = "lookup", !.key = key, !.attempt = 0]
        OBVIOUS
    <2>4. /\ y \in Run /\ y.pc = "lookup" /\ y.key = key
          /\ y.job = x.job /\ y.todo = x.todo /\ y.i = x.i /\ y.pending = x.pending /\ y.skipped = x.skipped
        <3>1. 0 \in 0 .. Retries
            BY DEF BatchAssumption
        <3> QED BY <1>3, <1>4, <2>2, <2>3, <3>1 DEF Run
    <2>5. AtItem(y, db, cache)
        BY <1>3, <1>6, <2>2, <2>4 DEF AtItem, InHand
    <2>6. SoundRun(y, db, cache)
        BY <1>2, <1>4, <2>4, <2>5, SameWork
    <2>7. Set(p, y) /\ UNCHANGED <<cache, db, kb, starts>>
        BY <1>1, <1>6, <2>1, <2>3 DEF Take
    <2> QED BY <1>1, <1>2, <2>4, <2>6, <2>7, Locally DEF IsDrafter
<1> QED BY <1>5, <1>6

\* The request of a script at an item, and what it makes of the script.
LEMMA InHandIs ==
    ASSUME BatchInv, NEW p \in Procs, NEW x, x = proc[p], x.pc \in InHand
    PROVE  /\ SoundRun(x, db, cache) /\ x.pc \in Live /\ x \in Run /\ AtItem(x, db, cache)
           /\ TodoOK(x, db) /\ PendingOK(x, db, cache) /\ x.job \in Jobs
           /\ x.i + 1 \in DOMAIN x.todo /\ StoredRowsOK(db, cache)
<1>1. SoundRun(x, db, cache) /\ x.pc \in Live /\ StoredRowsOK(db, cache)
    BY DEF BatchInv, InHand, Live, PCs
<1>2. x \in Run /\ AtItem(x, db, cache) /\ TodoOK(x, db) /\ PendingOK(x, db, cache) /\ x.job \in Jobs
    BY <1>1 DEF SoundRun
<1>3. x.i + 1 \in DOMAIN x.todo
    <2>1. x.i < Len(x.todo)
        BY <1>2 DEF AtItem
    <2> QED BY <1>2, <2>1 DEF Run
<1> QED BY <1>1, <1>2, <1>3

\* The signals' requests are those that the drafts of their items were made with.
LEMMA SignalsAreCached ==
    ASSUME BatchInv, NEW p \in Procs, NEW x, x = proc[p], x.pc \in InHand, x.job = "signals"
    PROVE  LET draft == db.drafts[x.todo[x.i + 1]]
           IN  x.key \in DOMAIN cache /\ cache[x.key] = draft.reply
<1>1. AtItem(x, db, cache) /\ TodoOK(x, db) /\ x.i + 1 \in DOMAIN x.todo
    BY InHandIs
<1>2. PICK id : id = x.todo[x.i + 1]
    OBVIOUS
<1>3. id \in DOMAIN db.drafts
    BY <1>1, <1>2 DEF TodoOK
<1>4. x.key = DraftKey(db.drafts[id].ticket, db.drafts[id].evidence)
    BY <1>1, <1>2 DEF AtItem, IsJobRequest
<1> QED BY <1>2, <1>3, <1>4 DEF BatchInv, DraftsReplay

LEMMA LookupStep ==
    ASSUME BatchInv, NEW p \in Procs, Lookup(p)
    PROVE  BatchInv'
<1>1. PICK x : x = proc[p]
    OBVIOUS
<1>2. x.pc = "lookup" /\ x.pc \in InHand
    BY <1>1 DEF Lookup, InHand
<1>3. /\ SoundRun(x, db, cache) /\ x.pc \in Live /\ x \in Run /\ AtItem(x, db, cache)
      /\ x.job \in Jobs /\ StoredRowsOK(db, cache)
    BY <1>1, <1>2, InHandIs
<1>4. {"answered", "asking"} \subseteq Live /\ Live \subseteq PCs
    BY DEF Live, PCs
<1>5. /\ x.i < Len(x.todo) /\ x.job # "features" /\ IsJobRequest(x.key, x.job, x.todo[x.i + 1], db)
    BY <1>2, <1>3 DEF AtItem
<1>6. CASE x.key \in DOMAIN cache
    <2>1. PICK y : y = [x EXCEPT !.pc = "answered", !.answer = cache[x.key]]
        OBVIOUS
    <2>2. cache[x.key] \in AnswersTo(x.key) /\ cache[x.key] \in Answers
        BY <1>3, <1>6 DEF StoredRowsOK, AnswersTo, Answers
    <2>3. /\ y \in Run /\ y.pc = "answered" /\ y.answer = cache[x.key] /\ y.key = x.key
          /\ y.job = x.job /\ y.todo = x.todo /\ y.i = x.i /\ y.pending = x.pending /\ y.skipped = x.skipped
        BY <1>3, <1>4, <2>1, <2>2 DEF Run
    <2>4. AtItem(y, db, cache)
        BY <1>5, <1>6, <2>2, <2>3 DEF AtItem
    <2>5. SoundRun(y, db, cache)
        BY <1>3, <1>4, <2>3, <2>4, SameWork
    <2>6. Set(p, y) /\ UNCHANGED <<cache, db, kb, starts>>
        BY <1>1, <1>6, <2>1 DEF Lookup
    <2> QED BY <1>1, <1>3, <2>3, <2>5, <2>6, Locally DEF IsDrafter
<1>7. CASE x.key \notin DOMAIN cache
    <2>1. PICK y : y = [x EXCEPT !.pc = "asking"]
        OBVIOUS
    <2>2. /\ y \in Run /\ y.pc = "asking" /\ y.key = x.key
          /\ y.job = x.job /\ y.todo = x.todo /\ y.i = x.i /\ y.pending = x.pending /\ y.skipped = x.skipped
        BY <1>3, <1>4, <2>1 DEF Run
    <2>3. x.job # "signals"
        BY <1>1, <1>2, <1>7, SignalsAreCached
    <2>4. AtItem(y, db, cache)
        BY <1>3, <1>5, <1>7, <2>2, <2>3 DEF AtItem, Jobs
    <2>5. SoundRun(y, db, cache)
        BY <1>3, <1>4, <2>2, <2>4, SameWork
    <2>6. Set(p, y) /\ UNCHANGED <<cache, db, kb, starts>>
        BY <1>1, <1>7, <2>1 DEF Lookup
    <2> QED BY <1>1, <1>3, <2>2, <2>5, <2>6, Locally DEF IsDrafter
<1> QED BY <1>6, <1>7

LEMMA AskedIs ==
    ASSUME BatchInv, NEW p \in Procs, NEW x, x = proc[p], x.pc \in {"asking", "storing"}
    PROVE  /\ x.job # "features" /\ (x.job # "judge" => x.job = "draft" /\ x.key \notin DOMAIN cache)
           /\ x.i < Len(x.todo) /\ x.key \in Keys /\ IsJobRequest(x.key, x.job, x.todo[x.i + 1], db)
           /\ x.pc = "storing" => x.answer \in AnswersTo(x.key)
<1>1. x.pc \in InHand
    BY DEF InHand
<1>2. AtItem(x, db, cache) /\ TodoOK(x, db) /\ x.job \in Jobs /\ x.i + 1 \in DOMAIN x.todo /\ StoredRowsOK(db, cache)
    BY <1>1, InHandIs
<1>3. /\ x.job # "features" /\ x.i < Len(x.todo) /\ IsJobRequest(x.key, x.job, x.todo[x.i + 1], db)
      /\ (x.job # "judge" => x.job = "draft" /\ x.key \notin DOMAIN cache)
      /\ x.pc = "storing" => x.answer \in AnswersTo(x.key)
    BY <1>1, <1>2 DEF AtItem
<1>4. ASSUME x.job = "draft" PROVE x.key \in Keys
    <2>1. x.todo[x.i + 1] \in BenchmarkTickets
        BY <1>2, <1>4 DEF TodoOK
    <2> QED BY <1>3, <1>4, <2>1 DEF IsJobRequest, Keys
<1>5. ASSUME x.job = "judge" PROVE x.key \in Keys
    <2>1. x.todo[x.i + 1] \in DOMAIN db.drafts
        BY <1>2, <1>5 DEF TodoOK
    <2>2. db.drafts[x.todo[x.i + 1]] \in DraftRow
        BY <1>2, <2>1 DEF StoredRowsOK
    <2>3. x.key = JudgeKey(db.drafts[x.todo[x.i + 1]])
        BY <1>3, <1>5 DEF IsJobRequest
    <2>4. JudgeKey(db.drafts[x.todo[x.i + 1]]) \in Keys
        BY <2>2 DEF Keys, JudgeKey, DraftRow
    <2> QED BY <2>3, <2>4
<1>6. x.key \in Keys
    BY <1>3, <1>4, <1>5
<1> QED BY <1>3, <1>6

LEMMA AnsweredStep ==
    ASSUME BatchInv, NEW p \in Procs, Answered(p)
    PROVE  BatchInv'
<1>1. PICK x : x = proc[p]
    OBVIOUS
<1>2. x.pc = "asking" /\ x.pc \in InHand
    BY <1>1 DEF Answered, InHand
<1>3. SoundRun(x, db, cache) /\ x.pc \in Live /\ x \in Run
    BY <1>1, <1>2, InHandIs
<1>4. PICK a \in AnswersTo(x.key) : Set(p, [x EXCEPT !.pc = "storing", !.answer = a])
    BY <1>1 DEF Answered
<1>5. PICK y : y = [x EXCEPT !.pc = "storing", !.answer = a]
    OBVIOUS
<1>6. "storing" \in Live /\ Live \subseteq PCs /\ a \in Answers
    BY DEF Live, PCs, Answers, AnswersTo
<1>7. /\ y \in Run /\ y.pc = "storing" /\ y.answer = a /\ y.key = x.key
      /\ y.job = x.job /\ y.todo = x.todo /\ y.i = x.i /\ y.pending = x.pending /\ y.skipped = x.skipped
    BY <1>3, <1>5, <1>6 DEF Run
<1>8. AtItem(y, db, cache)
    <2>1. /\ x.job # "features" /\ (x.job # "judge" => x.job = "draft" /\ x.key \notin DOMAIN cache)
          /\ x.i < Len(x.todo) /\ IsJobRequest(x.key, x.job, x.todo[x.i + 1], db)
        BY <1>1, <1>2, AskedIs
    <2> QED BY <1>4, <1>7, <2>1 DEF AtItem
<1>9. SoundRun(y, db, cache)
    BY <1>3, <1>6, <1>7, <1>8, SameWork
<1>10. Set(p, y) /\ UNCHANGED <<cache, db, kb, starts>>
    BY <1>4, <1>5 DEF Answered
<1> QED BY <1>1, <1>3, <1>7, <1>9, <1>10, Locally DEF IsDrafter

LEMMA DroppedStep ==
    ASSUME BatchAssumption, BatchInv, NEW p \in Procs, Dropped(p)
    PROVE  BatchInv'
<1>1. PICK x : x = proc[p]
    OBVIOUS
<1>2. x.pc = "asking" /\ x.pc \in InHand
    BY <1>1 DEF Dropped, InHand
<1>3. SoundRun(x, db, cache) /\ x.pc \in Live /\ x \in Run /\ AtItem(x, db, cache)
    BY <1>1, <1>2, InHandIs
<1>4. CASE x.attempt = Retries
    <2>1. Set(p, Failed) /\ UNCHANGED <<cache, db, kb, starts>>
        BY <1>1, <1>4 DEF Dropped, AfterDrop
    <2> QED BY <2>1, Fails
<1>5. CASE x.attempt # Retries
    <2>1. PICK y : y = [x EXCEPT !.attempt = x.attempt + 1]
        OBVIOUS
    <2>2. x.attempt + 1 \in 0 .. Retries
        BY <1>3, <1>5 DEF Run, BatchAssumption
    <2>3. /\ y \in Run /\ y.pc = x.pc /\ y.answer = x.answer /\ y.key = x.key
          /\ y.job = x.job /\ y.todo = x.todo /\ y.i = x.i /\ y.pending = x.pending /\ y.skipped = x.skipped
        BY <1>3, <2>1, <2>2 DEF Run
    <2>4. AtItem(y, db, cache)
        BY <1>3, <2>3 DEF AtItem
    <2>5. SoundRun(y, db, cache)
        BY <1>3, <2>3, <2>4, SameWork
    <2>6. Set(p, y) /\ UNCHANGED <<cache, db, kb, starts>>
        BY <1>1, <1>5, <2>1 DEF Dropped, AfterDrop
    <2> QED BY <1>1, <1>3, <2>3, <2>5, <2>6, Locally DEF IsDrafter
<1> QED BY <1>4, <1>5

\* A script that has dealt with its item, one way or the other.
LEMMA MovedOn ==
    ASSUME NEW d, NEW c, NEW x, SoundRun(x, d, c), x.pc \in InHand,
           NEW y \in Run, y.pc \in {"next", "commit"}, y.answer = None,
           y.job = x.job, y.todo = x.todo, y.i = x.i + 1, x.skipped \subseteq y.skipped,
           \A item : IsPending(x, item) => IsPending(y, item),
           IsPending(y, x.todo[x.i + 1]) \/ IsStored(y, x.todo[x.i + 1], d),
           PendingOK(y, d, c)
    PROVE  SoundRun(y, d, c)
<1>1. x.pc \in Live /\ y.pc \in Live /\ y.pc \notin InHand /\ y.pc \notin {"asking", "storing", "answered", "done"}
    BY DEF InHand, Live, PCs
<1>2. x \in Run /\ x.job \in Jobs /\ AllCovered(x, d) /\ AtItem(x, d, c) /\ TodoOK(x, d)
    BY <1>1 DEF SoundRun
<1>3. x.i \in Nat /\ x.i + 1 <= Len(x.todo) /\ DOMAIN x.todo = 1 .. Len(x.todo)
    BY <1>2 DEF AtItem, Run
<1>4. AllCovered(y, d)
    <2>1. ASSUME NEW m \in DOMAIN x.todo, m <= x.i + 1 PROVE IsPending(y, x.todo[m]) \/ IsStored(y, x.todo[m], d)
        <3>1. CASE m = x.i + 1
            BY <3>1
        <3>2. CASE m <= x.i
            <4>1. IsPending(x, x.todo[m]) \/ IsStored(x, x.todo[m], d)
                BY <1>2, <3>2 DEF AllCovered
            <4>2. IsStored(x, x.todo[m], d) => IsStored(y, x.todo[m], d)
                BY DEF IsStored
            <4> QED BY <4>1, <4>2
        <3> QED BY <1>3, <2>1, <3>1, <3>2
    <2> QED BY <2>1 DEF AllCovered
<1>5. TodoOK(y, d)
    <2>1. \A m \in DOMAIN x.todo : m > x.i + 1 => m > x.i
        BY <1>3
    <2> QED BY <1>2, <2>1 DEF TodoOK
<1>6. AtItem(y, d, c)
    BY <1>1 DEF AtItem
<1> QED BY <1>1, <1>2, <1>3, <1>4, <1>5, <1>6 DEF SoundRun

\* An item that a script leaves out: only the judge's does.
LEMMA SkippedIsSound ==
    ASSUME BatchAssumption, BatchInv, NEW p \in Procs, NEW x, x = proc[p], x.pc \in InHand, x.job = "judge",
           NEW y, y = Skipped(x)
    PROVE  SoundRun(y, db, cache) /\ ~ IsDrafter(y)
<1>1. /\ SoundRun(x, db, cache) /\ x.pc \in Live /\ x \in Run /\ x.i + 1 \in DOMAIN x.todo
      /\ PendingOK(x, db, cache)
    BY InHandIs
<1>2. PICK z : z = [x EXCEPT !.pc = "next", !.i = x.i + 1, !.key = None, !.answer = None, !.attempt = 0]
    OBVIOUS
<1>3. y = [z EXCEPT !.skipped = z.skipped \cup {x.todo[x.i + 1]}]
    BY <1>2 DEF Skipped, NextItem
<1>4. x.todo[x.i + 1] \in Nat /\ x.i + 1 \in Nat /\ 0 \in 0 .. Retries /\ "next" \in PCs
    BY <1>1 DEF Run, BatchAssumption, PCs
<1>5. /\ z \in Run /\ z.pc = "next" /\ z.answer = None
      /\ z.job = x.job /\ z.todo = x.todo /\ z.i = x.i + 1 /\ z.pending = x.pending /\ z.skipped = x.skipped
    BY <1>1, <1>2, <1>4 DEF Run
<1>6. /\ y \in Run /\ y.pc = "next" /\ y.answer = None /\ y.pending = x.pending
      /\ y.job = x.job /\ y.todo = x.todo /\ y.i = x.i + 1 /\ y.skipped = x.skipped \cup {x.todo[x.i + 1]}
    <2>1. PICK w : w = x.skipped \cup {x.todo[x.i + 1]}
        OBVIOUS
    <2>2. w \in SUBSET Nat
        BY <1>1, <1>4, <2>1 DEF Run
    <2>3. y = [z EXCEPT !.skipped = w]
        BY <1>3, <1>5, <2>1
    <2>4. /\ y \in Run /\ y.pc = z.pc /\ y.answer = z.answer /\ y.pending = z.pending
          /\ y.job = z.job /\ y.todo = z.todo /\ y.i = z.i /\ y.skipped = w
        BY <1>5, <2>2, <2>3 DEF Run
    <2> QED BY <1>5, <2>1, <2>4
<1>7. IsStored(y, x.todo[x.i + 1], db)
    BY <1>6 DEF IsStored
<1>8. PendingOK(y, db, cache) /\ \A item : IsPending(x, item) => IsPending(y, item)
    BY <1>1, <1>6 DEF PendingOK, IsPending
<1>9. SoundRun(y, db, cache)
    BY <1>1, <1>6, <1>7, <1>8, MovedOn
<1> QED BY <1>6, <1>9 DEF IsDrafter

LEMMA GarbledStep ==
    ASSUME BatchAssumption, BatchInv, NEW p \in Procs, Garbled(p)
    PROVE  BatchInv'
<1>1. PICK x : x = proc[p]
    OBVIOUS
<1>2. x.pc \in InHand
    BY <1>1 DEF Garbled, InHand
<1>3. CASE x.job = "judge"
    <2>1. PICK y : y = Skipped(x)
        OBVIOUS
    <2>2. Set(p, y) /\ UNCHANGED <<cache, db, kb, starts>>
        BY <1>1, <1>3, <2>1 DEF Garbled
    <2>3. SoundRun(y, db, cache) /\ ~ IsDrafter(y)
        BY <1>1, <1>2, <1>3, <2>1, SkippedIsSound
    <2> QED BY <2>2, <2>3, Locally
<1>4. CASE x.job # "judge"
    <2>1. Set(p, Failed) /\ UNCHANGED <<cache, db, kb, starts>>
        BY <1>1, <1>4 DEF Garbled
    <2> QED BY <2>1, Fails
<1> QED BY <1>3, <1>4

\* A script's row for its item, among its rows that are not committed.
LEMMA AppendedIsSound ==
    ASSUME NEW d, NEW c, NEW x, SoundRun(x, d, c), x.pc \in InHand,
           NEW y \in Run, y.pc \in {"next", "commit"}, y.answer = None,
           y.job = x.job, y.todo = x.todo, y.i = x.i + 1, y.skipped = x.skipped,
           NEW row, y.pending = Append(x.pending, row),
           IF x.job = "draft"
           THEN row \in DraftRow /\ row.ticket = x.todo[x.i + 1] /\ Replayable(row, c)
           ELSE /\ row \in IdRow /\ row.id = x.todo[x.i + 1]
                /\ x.job = "signals" => row.value = d.drafts[row.id].reply
    PROVE  SoundRun(y, d, c)
<1>1. x \in Run /\ x.pc \in Live /\ x.i < Len(x.todo) /\ TodoOK(x, d) /\ PendingOK(x, d, c)
    BY DEF SoundRun, AtItem, InHand, Live, PCs
<1>2. x.i \in Nat /\ x.i + 1 \in DOMAIN x.todo /\ x.pending \in Seq(DraftRow \cup IdRow)
    BY <1>1 DEF Run
<1>3. PICK n \in Nat : n = Len(x.pending)
    BY <1>2
<1>4. /\ DOMAIN x.pending = 1 .. n /\ DOMAIN y.pending = 1 .. n + 1
      /\ \A k \in 1 .. n : y.pending[k] = x.pending[k]
      /\ y.pending[n + 1] = row
    <2>1. PICK z : z = x.pending
        OBVIOUS
    <2>2. row \in DraftRow \cup IdRow /\ z \in Seq(DraftRow \cup IdRow) /\ Len(z) = n
        BY <1>2, <1>3, <2>1
    <2>3. /\ DOMAIN z = 1 .. n /\ DOMAIN Append(z, row) = 1 .. n + 1
          /\ \A k \in 1 .. n : Append(z, row)[k] = z[k]
          /\ Append(z, row)[n + 1] = row
        BY <2>2
    <2> QED BY <2>1, <2>3
<1>5. \A item : IsPending(x, item) => IsPending(y, item)
    <2>1. \A k \in 1 .. n : k \in 1 .. n + 1
        BY <1>3
    <2> QED BY <1>4, <2>1 DEF IsPending
<1>6. IsPending(y, x.todo[x.i + 1])
    <2>1. n + 1 \in 1 .. n + 1
        BY <1>3
    <2> QED BY <1>4, <2>1 DEF IsPending
<1>7. \A k \in 1 .. n + 1 : k \in 1 .. n \/ k = n + 1
    BY <1>3
<1>8. PendingOK(y, d, c)
    <2>1. CASE x.job = "draft"
        <3>1. ASSUME NEW k \in 1 .. n
              PROVE  /\ x.pending[k] \in DraftRow /\ Replayable(x.pending[k], c)
                     /\ \A id \in DOMAIN d.drafts : d.drafts[id].ticket # x.pending[k].ticket
                     /\ \E m \in DOMAIN x.todo : m <= x.i + 1 /\ x.pending[k].ticket = x.todo[m]
                     /\ x.pending[k].ticket # row.ticket
            <4>1. PICK m \in DOMAIN x.todo : m <= x.i /\ x.pending[k].ticket = x.todo[m]
                BY <1>1, <1>4, <2>1 DEF PendingOK
            <4>2. m <= x.i + 1 /\ m # x.i + 1
                BY <1>1, <1>2, <4>1 DEF Run
            <4>3. x.pending[k].ticket # row.ticket
                BY <1>1, <1>2, <2>1, <4>1, <4>2 DEF TodoOK
            <4>4. /\ x.pending[k] \in DraftRow /\ Replayable(x.pending[k], c)
                  /\ \A id \in DOMAIN d.drafts : d.drafts[id].ticket # x.pending[k].ticket
                BY <1>1, <1>4, <2>1 DEF PendingOK
            <4> QED BY <4>1, <4>2, <4>3, <4>4
        <3>2. /\ \A id \in DOMAIN d.drafts : d.drafts[id].ticket # row.ticket
              /\ \E m \in DOMAIN x.todo : m <= x.i + 1 /\ row.ticket = x.todo[m]
            BY <1>1, <1>2, <2>1 DEF TodoOK
        <3>3. \A k, l \in 1 .. n : x.pending[k].ticket = x.pending[l].ticket => k = l
            BY <1>1, <1>4, <2>1 DEF PendingOK
        <3>4. \A k \in 1 .. n + 1 :
                 /\ y.pending[k] \in DraftRow /\ Replayable(y.pending[k], c)
                 /\ \A id \in DOMAIN d.drafts : d.drafts[id].ticket # y.pending[k].ticket
                 /\ \E m \in DOMAIN y.todo : m <= y.i /\ y.pending[k].ticket = y.todo[m]
            BY <1>4, <1>7, <2>1, <3>1, <3>2
        <3>5. \A k, l \in 1 .. n + 1 : y.pending[k].ticket = y.pending[l].ticket => k = l
            BY <1>4, <1>7, <3>1, <3>3
        <3> QED BY <1>4, <2>1, <3>4, <3>5 DEF PendingOK
    <2>2. CASE x.job # "draft"
        <3>1. row.id \in DOMAIN d.drafts
            BY <1>1, <1>2, <2>2 DEF TodoOK
        <3>2. \A k \in 1 .. n :
                 /\ x.pending[k] \in IdRow /\ x.pending[k].id \in DOMAIN d.drafts
                 /\ x.job = "signals" => x.pending[k].value = d.drafts[x.pending[k].id].reply
            BY <1>1, <1>4, <2>2 DEF PendingOK
        <3>3. \A k \in 1 .. n + 1 :
                 /\ y.pending[k] \in IdRow /\ y.pending[k].id \in DOMAIN d.drafts
                 /\ y.job = "signals" => y.pending[k].value = d.drafts[y.pending[k].id].reply
            BY <1>4, <1>7, <2>2, <3>1, <3>2
        <3> QED BY <1>4, <2>2, <3>3 DEF PendingOK
    <2> QED BY <2>1, <2>2
<1> QED BY <1>5, <1>6, <1>8, MovedOn

\* What a script with an answer writes for its item.
LEMMA RowForIs ==
    ASSUME BatchAssumption, BatchInv, NEW p \in Procs, NEW x, x = proc[p], x.pc = "answered"
    PROVE  /\ x.answer = Invalid => x.job = "judge"
           /\ x.answer # Invalid =>
                 IF x.job = "draft"
                 THEN /\ RowFor(p) \in DraftRow /\ RowFor(p).ticket = x.todo[x.i + 1]
                      /\ Replayable(RowFor(p), cache)
                 ELSE /\ RowFor(p) \in IdRow /\ RowFor(p).id = x.todo[x.i + 1]
                      /\ x.job = "signals" => RowFor(p).value = db.drafts[RowFor(p).id].reply
<1>1. x.pc \in InHand
    BY DEF InHand
<1>2. /\ x \in Run /\ AtItem(x, db, cache) /\ TodoOK(x, db) /\ x.job \in Jobs
      /\ x.i + 1 \in DOMAIN x.todo /\ StoredRowsOK(db, cache)
    BY <1>1, InHandIs
<1>3. PICK item : item = x.todo[x.i + 1]
    OBVIOUS
<1>4. Item(p) = item /\ item \in Nat
    BY <1>2, <1>3 DEF Item, Run
<1>5. ASSUME x.job \in {"draft", "signals"} PROVE x.key \in DOMAIN cache /\ x.answer = cache[x.key] /\ x.answer \in Replies
    <2>1. x.key \in DOMAIN cache /\ x.answer = cache[x.key] /\ IsJobRequest(x.key, x.job, item, db)
        BY <1>1, <1>2, <1>3, <1>5 DEF AtItem
    <2>2. x.key[1] = "draft"
        BY <1>5, <2>1 DEF IsJobRequest, DraftKey
    <2>3. x.answer \in AnswersTo(x.key)
        BY <1>2, <2>1 DEF StoredRowsOK
    <2> QED BY <2>1, <2>2, <2>3 DEF AnswersTo
<1>6. ASSUME x.job # "draft" PROVE item \in DOMAIN db.drafts /\ db.drafts[item] \in DraftRow
    <2>1. item \in DOMAIN db.drafts
        BY <1>2, <1>3, <1>6 DEF TodoOK
    <2> QED BY <1>2, <2>1 DEF StoredRowsOK
<1>7. CASE x.job = "draft"
    <2>1. RowFor(p) = [ticket |-> item, evidence |-> x.key[3], reply |-> x.answer]
        BY <1>4, <1>7 DEF RowFor
    <2>2. IsJobRequest(x.key, x.job, item, db)
        BY <1>1, <1>2, <1>3, <1>7 DEF AtItem
    <2>3. PICK e \in 0 .. MaxKB : x.key = DraftKey(item, e)
        BY <1>7, <2>2 DEF IsJobRequest
    <2>4. x.key[3] = e /\ item \in BenchmarkTickets
        BY <1>2, <1>3, <1>7, <2>3 DEF DraftKey, TodoOK
    <2>5. PICK row : row = RowFor(p)
        OBVIOUS
    <2>6. row \in DraftRow /\ row.ticket = item /\ row.evidence = e /\ row.reply = x.answer
        BY <1>5, <1>7, <2>1, <2>4, <2>5 DEF DraftRow
    <2>7. Replayable(row, cache)
        BY <1>5, <1>7, <2>3, <2>6 DEF Replayable
    <2>8. x.answer # Invalid
        BY <1>5, <1>7 DEF BatchAssumption
    <2> QED BY <1>3, <1>7, <2>5, <2>6, <2>7, <2>8
<1>8. CASE x.job = "judge"
    <2>1. ASSUME x.answer # Invalid PROVE RowFor(p) \in IdRow /\ RowFor(p).id = item
        <3>1. RowFor(p) = [id |-> item, value |-> VerdictLabel(x.answer)]
            BY <1>4, <1>8 DEF RowFor
        <3>2. x.answer \in AnswersTo(x.key) /\ IsJobRequest(x.key, x.job, item, db)
            BY <1>1, <1>2, <1>3, <1>8 DEF AtItem
        <3>3. x.key[1] = "judge"
            BY <1>8, <3>2 DEF IsJobRequest, JudgeKey
        <3>4. x.answer \in Ratings
            BY <2>1, <3>2, <3>3 DEF AnswersTo
        <3>5. VerdictLabel(x.answer) \in Values
            BY <3>4 DEF VerdictLabel, Values
        <3> QED BY <1>4, <3>1, <3>5 DEF IdRow
    <2> QED BY <1>3, <1>8, <2>1
<1>9. CASE x.job = "features"
    <2>1. RowFor(p) = [id |-> item, value |-> db.drafts[item].reply]
        BY <1>4, <1>9 DEF RowFor
    <2>2. db.drafts[item].reply \in Values
        BY <1>6, <1>9 DEF DraftRow, Values
    <2>3. RowFor(p) \in IdRow /\ RowFor(p).id = item
        BY <1>4, <2>1, <2>2 DEF IdRow
    <2>4. x.answer # Invalid
        BY <1>2, <1>9 DEF AtItem, BatchAssumption
    <2> QED BY <1>3, <1>9, <2>3, <2>4
<1>10. CASE x.job = "signals"
    <2>1. x.answer = db.drafts[item].reply
        BY <1>1, <1>3, <1>5, <1>10, SignalsAreCached
    <2>2. RowFor(p) = [id |-> item, value |-> x.answer]
        BY <1>4, <1>10, <2>1 DEF RowFor, LogprobsOf
    <2>3. x.answer \in Replies /\ x.answer \in Values
        BY <1>5, <1>10 DEF Values
    <2>4. RowFor(p) \in IdRow /\ RowFor(p).id = item /\ RowFor(p).value = x.answer
        BY <1>4, <2>2, <2>3 DEF IdRow
    <2>5. x.answer # Invalid
        BY <2>3 DEF BatchAssumption
    <2> QED BY <1>3, <1>10, <2>1, <2>4, <2>5
<1> QED BY <1>2, <1>7, <1>8, <1>9, <1>10 DEF Jobs

LEMMA AddRowStep ==
    ASSUME BatchAssumption, BatchInv, NEW p \in Procs, AddRow(p)
    PROVE  BatchInv'
<1>1. PICK x : x = proc[p]
    OBVIOUS
<1>2. x.pc = "answered" /\ x.pc \in InHand
    BY <1>1 DEF AddRow, InHand
<1>3. CASE x.answer = Invalid
    <2>1. PICK y : y = Skipped(x)
        OBVIOUS
    <2>2. Set(p, y) /\ UNCHANGED <<cache, db, kb, starts>>
        BY <1>1, <1>3, <2>1 DEF AddRow
    <2>3. SoundRun(y, db, cache) /\ ~ IsDrafter(y)
        BY <1>1, <1>2, <1>3, <2>1, RowForIs, SkippedIsSound
    <2> QED BY <2>2, <2>3, Locally
<1>4. CASE x.answer # Invalid
    <2>1. PICK row : row = RowFor(p)
        OBVIOUS
    <2>2. IF x.job = "draft"
          THEN row \in DraftRow /\ row.ticket = x.todo[x.i + 1] /\ Replayable(row, cache)
          ELSE /\ row \in IdRow /\ row.id = x.todo[x.i + 1]
               /\ x.job = "signals" => row.value = db.drafts[row.id].reply
        BY <1>1, <1>2, <1>4, <2>1, RowForIs
    <2>3. SoundRun(x, db, cache) /\ x.pc \in Live /\ x \in Run /\ x.i + 1 \in DOMAIN x.todo
        BY <1>1, <1>2, InHandIs
    <2>4. PICK pc \in {"next", "commit"} :
             pc = IF (x.i + 1) % CommitEvery = 0 \/ x.i + 1 = Len(x.todo) THEN "commit" ELSE "next"
        OBVIOUS
    <2>5. PICK u : u = [x EXCEPT !.pc = "next", !.i = x.i + 1, !.key = None, !.answer = None, !.attempt = 0]
        OBVIOUS
    <2>6. x.i + 1 \in Nat /\ 0 \in 0 .. Retries /\ pc \in PCs /\ "next" \in PCs
        BY <2>3 DEF Run, BatchAssumption, PCs
    <2>7. /\ u \in Run /\ u.answer = None
          /\ u.job = x.job /\ u.todo = x.todo /\ u.i = x.i + 1 /\ u.pending = x.pending /\ u.skipped = x.skipped
        BY <2>3, <2>5, <2>6 DEF Run
    <2>8. PICK v : v = [u EXCEPT !.pc = pc]
        OBVIOUS
    <2>9. /\ v \in Run /\ v.answer = None /\ v.pc = pc
          /\ v.job = x.job /\ v.todo = x.todo /\ v.i = x.i + 1 /\ v.pending = x.pending /\ v.skipped = x.skipped
        BY <2>6, <2>7, <2>8 DEF Run
    <2>10. PICK pending : pending = Append(x.pending, row)
        OBVIOUS
    <2>11. pending \in Seq(DraftRow \cup IdRow)
        <3>1. row \in DraftRow \cup IdRow /\ x.pending \in Seq(DraftRow \cup IdRow)
            BY <2>2, <2>3 DEF Run
        <3> QED BY <2>10, <3>1
    <2>12. PICK y : y = [v EXCEPT !.pending = pending]
        OBVIOUS
    <2>13. /\ y \in Run /\ y.answer = None /\ y.pc = pc
           /\ y.job = x.job /\ y.todo = x.todo /\ y.i = x.i + 1 /\ y.pending = pending /\ y.skipped = x.skipped
        BY <2>9, <2>11, <2>12 DEF Run
    <2>14. AfterRow(x) = v
        BY <2>4, <2>5, <2>8 DEF AfterRow, NextItem
    <2>15. Set(p, y) /\ UNCHANGED <<cache, db, kb, starts>>
        BY <1>1, <1>4, <2>1, <2>9, <2>10, <2>12, <2>14 DEF AddRow
    <2>16. SoundRun(y, db, cache)
        BY <1>2, <2>2, <2>3, <2>10, <2>13, AppendedIsSound
    <2> QED BY <1>1, <2>3, <2>13, <2>15, <2>16, Locally DEF IsDrafter
<1> QED BY <1>3, <1>4

----------------------------------------------------------------------------
(* Steps that write *)

\* An answer that is stored is new, or it is a judge's.
LEMMA StoreStep ==
    ASSUME BatchInv, NEW p \in Procs, Store(p)
    PROVE  BatchInv'
<1>1. PICK x : x = proc[p]
    OBVIOUS
<1>2. x.pc = "storing" /\ x.pc \in InHand
    BY <1>1 DEF Store, InHand
<1>3. /\ SoundRun(x, db, cache) /\ x.pc \in Live /\ x \in Run /\ TodoOK(x, db)
      /\ PendingOK(x, db, cache) /\ x.job \in Jobs /\ StoredRowsOK(db, cache)
    BY <1>1, <1>2, InHandIs
<1>4. /\ x.job # "features" /\ (x.job # "judge" => x.job = "draft" /\ x.key \notin DOMAIN cache)
      /\ x.i < Len(x.todo) /\ x.key \in Keys /\ IsJobRequest(x.key, x.job, x.todo[x.i + 1], db)
      /\ x.answer \in AnswersTo(x.key)
    BY <1>1, <1>2, AskedIs
<1>5. x.key[1] = x.job
    BY <1>4 DEF IsJobRequest, DraftKey, JudgeKey
<1>6. PICK c : c = cache'
    OBVIOUS
<1>7. /\ DOMAIN c = DOMAIN cache \cup {x.key} /\ c[x.key] = x.answer
      /\ \A k \in DOMAIN cache : k # x.key => c[k] = cache[k]
    BY <1>1, <1>6 DEF Store, Upserted
<1>8. AddsRows(db, cache, db, c)
    <2>1. \A k \in DOMAIN cache : k[1] = "draft" => k \in DOMAIN c /\ c[k] = cache[k]
        BY <1>4, <1>5, <1>7
    <2> QED BY <2>1 DEF AddsRows
<1>9. StoredRowsOK(db, c)
    <2>1. DOMAIN c \subseteq Keys /\ \A k \in DOMAIN c : c[k] \in AnswersTo(k)
        BY <1>3, <1>4, <1>7 DEF StoredRowsOK
    <2> QED BY <1>3, <2>1 DEF StoredRowsOK
<1>10. PICK y : y = [x EXCEPT !.pc = "answered"]
    OBVIOUS
<1>11. "answered" \in Live /\ Live \subseteq PCs
    BY DEF Live, PCs
<1>12. /\ y \in Run /\ y.pc = "answered" /\ y.answer = x.answer /\ y.key = x.key
       /\ y.job = x.job /\ y.todo = x.todo /\ y.i = x.i /\ y.pending = x.pending /\ y.skipped = x.skipped
    BY <1>3, <1>10, <1>11 DEF Run
<1>13. AtItem(y, db, c)
    BY <1>4, <1>7, <1>12 DEF AtItem
<1>14. PendingOK(y, db, c)
    <2>1. \A k \in DOMAIN x.pending : Replayable(x.pending[k], cache) => Replayable(x.pending[k], c)
        BY <1>8 DEF Replayable, AddsRows, DraftKey
    <2> QED BY <1>3, <1>12, <2>1 DEF PendingOK
<1>15. TodoOK(y, db)
    BY <1>3, <1>12 DEF TodoOK
<1>16. AllCovered(y, db)
    <2>1. AllCovered(x, db)
        BY <1>3 DEF SoundRun
    <2> QED BY <1>12, <2>1 DEF AllCovered, IsPending, IsStored
<1>17. SoundRun(y, db, c)
    <2>1. y.pc # "done" /\ y.i <= Len(y.todo)
        BY <1>3, <1>12 DEF SoundRun
    <2> QED BY <1>3, <1>12, <1>13, <1>14, <1>15, <1>16, <2>1 DEF SoundRun
<1>18. ASSUME NEW q \in Procs \ {p}, IsDrafter(proc[q]) PROVE SameDrafts(db, cache, db, c) /\ ~ IsDrafter(y)
    <2>1. x.job # "draft"
        BY <1>1, <1>3, <1>18 DEF BatchInv, IsDrafter
    <2>2. \A k \in DOMAIN c : k[1] = "draft" => k \in DOMAIN cache
        BY <1>5, <1>7, <2>1
    <2> QED BY <1>12, <2>1, <2>2 DEF SameDrafts, IsDrafter
<1>19. Set(p, y) /\ db' = db /\ kb' = kb /\ starts' = starts
    BY <1>1, <1>10 DEF Store
<1>20. DraftsReplay'
    <2>1. \A t, e : DraftKey(t, e)[1] = "draft"
        BY DEF DraftKey
    <2>2. \A t, e : DraftKey(t, e) \in DOMAIN cache =>
                       DraftKey(t, e) \in DOMAIN c /\ c[DraftKey(t, e)] = cache[DraftKey(t, e)]
        BY <1>8, <2>1 DEF AddsRows
    <2> QED BY <1>6, <1>19, <2>2 DEF BatchInv, DraftsReplay
<1>21. starts' \in 0 .. MaxStarts /\ kb' \in 0 .. MaxKB
    BY <1>19 DEF BatchInv
<1> QED BY <1>6, <1>8, <1>9, <1>17, <1>18, <1>19, <1>20, <1>21, Assemble

\* A process whose rows were committed; d2 is the database afterwards.
LEMMA CommittedIsSound ==
    ASSUME NEW d, NEW d2, NEW c, NEW x, SoundRun(x, d, c), x.pc \in {"next", "commit"},
           NEW y \in Run, y.pc \in {"next", "done"}, y.pc = "done" => x.i = Len(x.todo),
           y.job = x.job, y.todo = x.todo, y.i = x.i, y.skipped = x.skipped, y.answer = x.answer,
           y.pending = <<>>,
           \A item : IsPending(x, item) \/ IsStored(x, item, d) => IsStored(x, item, d2),
           TodoOK(x, d2)
    PROVE  SoundRun(y, d2, c)
<1>1. x.pc \in Live /\ y.pc \notin InHand /\ y.pc \notin {"asking", "storing", "answered"}
    BY DEF InHand, Live, PCs
<1>2. x.job \in Jobs /\ AllCovered(x, d) /\ x.i <= Len(x.todo) /\ x.answer = None
    BY <1>1 DEF SoundRun, AtItem
<1>3. \A item : IsStored(x, item, d2) <=> IsStored(y, item, d2)
    BY DEF IsStored
<1>4. AllCovered(y, d2)
    BY <1>2, <1>3 DEF AllCovered
<1>5. AtItem(y, d2, c)
    BY <1>1, <1>2 DEF AtItem
<1>6. PendingOK(y, d2, c)
    <2>1. DOMAIN <<>> = {}
        OBVIOUS
    <2> QED BY <2>1 DEF PendingOK
<1>7. TodoOK(y, d2)
    BY DEF TodoOK
<1> QED BY <1>2, <1>4, <1>5, <1>6, <1>7 DEF SoundRun

\* What a commit of rows with ids adds.
LEMMA WrittenIs ==
    ASSUME BatchInv, NEW p \in Procs, NEW x, x = proc[p], x.pc \in {"next", "commit"}, x.job # "draft",
           NEW old
    PROVE  /\ DOMAIN WithValues(old, p) = DOMAIN old \cup {r.id : r \in Rows(p)}
           /\ \A item : IsPending(x, item) => item \in {r.id : r \in Rows(p)}
           /\ {r.id : r \in Rows(p)} \subseteq DOMAIN db.drafts
           /\ \A id \in DOMAIN WithValues(old, p) :
                 \/ id \in DOMAIN old /\ WithValues(old, p)[id] = old[id]
                 \/ x.job = "signals" /\ WithValues(old, p)[id] = db.drafts[id].reply
                 \/ x.job # "signals"
<1>1. SoundRun(x, db, cache) /\ x.pc \in Live
    BY DEF BatchInv, Live, PCs
<1>2. PendingOK(x, db, cache)
    BY <1>1 DEF SoundRun
<1>3. PICK Q : Q = Rows(p)
    OBVIOUS
<1>4. Q = {x.pending[k] : k \in DOMAIN x.pending}
    BY <1>3 DEF Rows
<1>5. PICK w : w = WithValues(old, p)
    OBVIOUS
<1>6. /\ DOMAIN w = DOMAIN old \cup {r.id : r \in Q}
      /\ \A id \in DOMAIN w :
            w[id] = IF id \in {r.id : r \in Q} THEN (CHOOSE r \in Q : r.id = id).value ELSE old[id]
    BY <1>3, <1>5 DEF WithValues, Upserted
<1>7. \A r \in Q : r.id \in DOMAIN db.drafts /\ (x.job = "signals" => r.value = db.drafts[r.id].reply)
    BY <1>2, <1>4 DEF PendingOK
<1>8. ASSUME NEW id \in {r.id : r \in Q}, x.job = "signals" PROVE w[id] = db.drafts[id].reply
    <2>1. PICK r : r = CHOOSE s \in Q : s.id = id
        OBVIOUS
    <2>2. r \in Q /\ r.id = id
        BY <2>1
    <2>3. w[id] = r.value
        BY <1>6, <2>1
    <2> QED BY <1>7, <1>8, <2>2, <2>3
<1>9. \A item : IsPending(x, item) => item \in {r.id : r \in Q}
    BY <1>4 DEF IsPending
<1> QED BY <1>3, <1>5, <1>6, <1>7, <1>8, <1>9

\* The end of a transaction: d2 is what it leaves.
LEMMA WritesSoundly ==
    ASSUME BatchInv, NEW p \in Procs, NEW x, x = proc[p], x.pc \in {"next", "commit"},
           NEW then \in {"next", "done"}, then = "done" => x.i = Len(x.todo),
           Set(p, [x EXCEPT !.pc = then, !.pending = <<>>]), UNCHANGED <<cache, kb, starts>>,
           NEW d2, db' = d2, StoredRowsOK(d2, cache), AddsRows(db, cache, d2, cache), TodoOK(x, d2),
           \A item : IsPending(x, item) => IsStored(x, item, d2),
           x.job # "draft" => DOMAIN d2.drafts = DOMAIN db.drafts,
           DraftsReplay'
    PROVE  BatchInv'
<1>1. SoundRun(x, db, cache) /\ x.pc \in Live /\ then \in PCs
    BY DEF BatchInv, Live, PCs
<1>2. x \in Run
    BY <1>1 DEF SoundRun
<1>3. PICK y : y = [x EXCEPT !.pc = then, !.pending = <<>>]
    OBVIOUS
<1>4. /\ y \in Run /\ y.pc = then /\ y.answer = x.answer /\ y.pending = <<>>
      /\ y.job = x.job /\ y.todo = x.todo /\ y.i = x.i /\ y.skipped = x.skipped
    <2>1. <<>> \in Seq(DraftRow \cup IdRow)
        OBVIOUS
    <2> QED BY <1>1, <1>2, <1>3, <2>1 DEF Run
<1>5. \A item : IsStored(x, item, db) => IsStored(x, item, d2)
    BY DEF IsStored, AddsRows
<1>6. SoundRun(y, d2, cache)
    BY <1>1, <1>4, <1>5, CommittedIsSound
<1>7. ASSUME NEW q \in Procs \ {p}, IsDrafter(proc[q]) PROVE SameDrafts(db, cache, d2, cache) /\ ~ IsDrafter(y)
    <2>1. x.job # "draft"
        BY <1>1, <1>7 DEF BatchInv, IsDrafter
    <2> QED BY <1>4, <2>1 DEF SameDrafts, IsDrafter
<1>8. cache' = cache /\ starts' \in 0 .. MaxStarts /\ kb' \in 0 .. MaxKB
    BY DEF BatchInv
<1> QED BY <1>3, <1>6, <1>7, <1>8, Assemble

LEMMA CommitDrafts ==
    ASSUME BatchInv, NEW p \in Procs, NEW x, x = proc[p], x.pc \in {"next", "commit"}, x.job = "draft",
           NEW d2, d2 = [db EXCEPT !.drafts = db.drafts \o x.pending], db' = d2, cache' = cache
    PROVE  /\ StoredRowsOK(d2, cache) /\ AddsRows(db, cache, d2, cache) /\ TodoOK(x, d2)
           /\ \A item : IsPending(x, item) => IsStored(x, item, d2)
           /\ DraftsReplay'
<1>1. SoundRun(x, db, cache) /\ x.pc \in Live /\ StoredRowsOK(db, cache) /\ DraftsReplay
    BY DEF BatchInv, Live, PCs
<1>2. x \in Run /\ TodoOK(x, db) /\ PendingOK(x, db, cache)
    BY <1>1 DEF SoundRun
<1>3. db.drafts \in Seq(DraftRow) /\ DOMAIN db = {"drafts", "verdicts", "vectors", "signals"}
    BY <1>1 DEF StoredRowsOK
<1>4. PICK old : old = db.drafts
    OBVIOUS
<1>5. PICK new : new = x.pending
    OBVIOUS
<1>6. PICK all : all = old \o new
    OBVIOUS
<1>7. /\ d2.drafts = all /\ d2.verdicts = db.verdicts /\ d2.vectors = db.vectors /\ d2.signals = db.signals
      /\ DOMAIN d2 = {"drafts", "verdicts", "vectors", "signals"}
    BY <1>3, <1>4, <1>5, <1>6
<1>8. new \in Seq(DraftRow)
    <2>1. new \in Seq(DraftRow \cup IdRow)
        BY <1>2, <1>5 DEF Run
    <2>2. \A k \in DOMAIN new : new[k] \in DraftRow
        BY <1>2, <1>5 DEF PendingOK
    <2> QED BY <2>1, <2>2
<1>9. PICK n \in Nat : n = Len(old)
    <2>1. old \in Seq(DraftRow)
        BY <1>3, <1>4
    <2> QED BY <2>1
<1>10. PICK k \in Nat : k = Len(new)
    BY <1>8
<1>11. /\ all \in Seq(DraftRow) /\ DOMAIN all = 1 .. n + k /\ DOMAIN old = 1 .. n /\ DOMAIN new = 1 .. k
       /\ \A j \in 1 .. n : all[j] = old[j]
       /\ \A j \in 1 .. k : all[n + j] = new[j]
    <2>1. old \in Seq(DraftRow)
        BY <1>3, <1>4
    <2> QED BY <1>6, <1>8, <1>9, <1>10, <2>1
<1>12. \A j \in 1 .. n + k : j \in 1 .. n \/ \E m \in 1 .. k : j = n + m
    <2>1. ASSUME NEW j \in 1 .. n + k, j \notin 1 .. n PROVE j - n \in 1 .. k /\ j = n + (j - n)
        BY <1>9, <1>10, <2>1
    <2> QED BY <2>1
<1>13. \A j \in 1 .. n : j \in 1 .. n + k
    BY <1>9, <1>10
<1>14. \A m \in 1 .. k : n + m \in 1 .. n + k
    BY <1>9, <1>10
<1>15. /\ \A m \in 1 .. k : Replayable(new[m], cache) /\ \A j \in 1 .. n : old[j].ticket # new[m].ticket
       /\ \A m \in 1 .. k : \E t \in DOMAIN x.todo : t <= x.i /\ new[m].ticket = x.todo[t]
       /\ \A l, m \in 1 .. k : new[l].ticket = new[m].ticket => l = m
    BY <1>2, <1>4, <1>5, <1>11 DEF PendingOK
<1>16. StoredRowsOK(d2, cache)
    <2>1. DOMAIN old \subseteq DOMAIN all
        BY <1>11, <1>13
    <2> QED BY <1>1, <1>4, <1>7, <1>11, <2>1 DEF StoredRowsOK
<1>17. AddsRows(db, cache, d2, cache)
    BY <1>4, <1>7, <1>11, <1>13 DEF AddsRows
<1>18. TodoOK(x, d2)
    <2>1. \A t \in DOMAIN x.todo : t > x.i => \A j \in 1 .. n : old[j].ticket # x.todo[t]
        BY <1>2, <1>4, <1>11 DEF TodoOK
    <2>2. ASSUME NEW t \in DOMAIN x.todo, t > x.i, NEW m \in 1 .. k PROVE new[m].ticket # x.todo[t]
        <3>1. PICK u \in DOMAIN x.todo : u <= x.i /\ new[m].ticket = x.todo[u]
            BY <1>15
        <3>2. u # t
            BY <1>2, <2>2, <3>1 DEF Run
        <3> QED BY <1>2, <3>1, <3>2 DEF TodoOK
    <2>3. \A t \in DOMAIN x.todo, j \in 1 .. n + k : t > x.i => all[j].ticket # x.todo[t]
        BY <1>11, <1>12, <2>1, <2>2
    <2> QED BY <1>2, <1>7, <1>11, <2>3 DEF TodoOK
<1>19. ASSUME NEW item, IsPending(x, item) PROVE IsStored(x, item, d2)
    <2>1. PICK m \in 1 .. k : new[m].ticket = item
        BY <1>5, <1>11, <1>19 DEF IsPending
    <2>2. n + m \in DOMAIN d2.drafts /\ d2.drafts[n + m].ticket = item
        BY <1>7, <1>11, <1>14, <2>1
    <2> QED BY <2>2 DEF IsStored
<1>20. /\ \A i, j \in 1 .. n : old[i].ticket = old[j].ticket => i = j
       /\ \A j \in 1 .. n : Replayable(old[j], cache)
       /\ \A id \in DOMAIN db.signals : db.signals[id] = old[id].reply /\ id \in 1 .. n
    BY <1>1, <1>4, <1>11 DEF DraftsReplay, Replayable, StoredRowsOK
<1>21. \A i, j \in 1 .. n + k : all[i].ticket = all[j].ticket => i = j
    BY <1>11, <1>12, <1>15, <1>20
<1>22. \A j \in 1 .. n + k : Replayable(all[j], cache)
    BY <1>11, <1>12, <1>15, <1>20
<1>23. \A id \in DOMAIN d2.signals : d2.signals[id] = all[id].reply
    BY <1>7, <1>11, <1>20
<1>24. DraftsReplay'
    <2>1. db'.drafts = all /\ db'.signals = d2.signals /\ DOMAIN all = 1 .. n + k
        BY <1>7, <1>11
    <2>2. \A j \in 1 .. n + k : LET key == DraftKey(all[j].ticket, all[j].evidence)
                                IN  key \in DOMAIN cache /\ cache[key] = all[j].reply
        BY <1>22 DEF Replayable
    <2>3. \A i, j \in DOMAIN db'.drafts : db'.drafts[i].ticket = db'.drafts[j].ticket => i = j
        <3> SUFFICES ASSUME NEW i \in DOMAIN db'.drafts, NEW j \in DOMAIN db'.drafts,
                            db'.drafts[i].ticket = db'.drafts[j].ticket
                     PROVE  i = j
            OBVIOUS
        <3>1. i \in 1 .. n + k /\ j \in 1 .. n + k
            BY <2>1
        <3>2. all[i].ticket = all[j].ticket
            BY <2>1
        <3> QED BY <1>21, <3>1, <3>2
    <2>4. \A id \in DOMAIN db'.drafts :
             LET key == DraftKey(db'.drafts[id].ticket, db'.drafts[id].evidence)
             IN  key \in DOMAIN cache' /\ cache'[key] = db'.drafts[id].reply
        BY <2>1, <2>2
    <2>5. \A id \in DOMAIN db'.signals : db'.signals[id] = db'.drafts[id].reply
        BY <1>23, <2>1
    <2> QED BY <2>3, <2>4, <2>5 DEF DraftsReplay
<1> QED BY <1>16, <1>17, <1>18, <1>19, <1>24

\* Rows with ids only add to verdicts, vectors or signals.
LEMMA CommitRatings ==
    ASSUME BatchInv, NEW p \in Procs, NEW x, x = proc[p], x.pc \in {"next", "commit"}, x.job # "draft",
           NEW d2, d2 = Committed(p), db' = d2, cache' = cache
    PROVE  /\ StoredRowsOK(d2, cache) /\ AddsRows(db, cache, d2, cache) /\ TodoOK(x, d2)
           /\ \A item : IsPending(x, item) => IsStored(x, item, d2)
           /\ DOMAIN d2.drafts = DOMAIN db.drafts
           /\ DraftsReplay'
<1>1. SoundRun(x, db, cache) /\ x.pc \in Live /\ StoredRowsOK(db, cache) /\ DraftsReplay
    BY DEF BatchInv, Live, PCs
<1>2. x.job \in Jobs /\ TodoOK(x, db)
    BY <1>1 DEF SoundRun
<1>3. PICK ids : ids = {r.id : r \in Rows(p)}
    OBVIOUS
<1>4. /\ \A old : DOMAIN WithValues(old, p) = DOMAIN old \cup ids
      /\ \A item : IsPending(x, item) => item \in ids
      /\ ids \subseteq DOMAIN db.drafts
    BY <1>3, WrittenIs
<1>5. DOMAIN db = {"drafts", "verdicts", "vectors", "signals"}
    BY <1>1 DEF StoredRowsOK
<1>6. CASE x.job = "judge"
    <2>1. PICK w : w = WithValues(db.verdicts, p)
        OBVIOUS
    <2>2. d2 = [db EXCEPT !.verdicts = w]
        BY <1>6, <2>1 DEF Committed
    <2>3. /\ DOMAIN d2 = {"drafts", "verdicts", "vectors", "signals"} /\ d2.drafts = db.drafts
          /\ d2.verdicts = w /\ d2.vectors = db.vectors /\ d2.signals = db.signals
        BY <1>5, <2>2
    <2>4. DOMAIN w = DOMAIN db.verdicts \cup ids
        BY <1>4, <2>1
    <2>5. \A item : IsPending(x, item) => IsStored(x, item, d2)
        BY <1>4, <1>6, <2>3, <2>4 DEF IsStored
    <2>6. StoredRowsOK(d2, cache) /\ AddsRows(db, cache, d2, cache)
        BY <1>1, <1>4, <2>3, <2>4 DEF StoredRowsOK, AddsRows
    <2>7. TodoOK(x, d2) /\ DraftsReplay'
        BY <1>1, <1>2, <2>3 DEF TodoOK, DraftsReplay
    <2> QED BY <2>3, <2>5, <2>6, <2>7
<1>7. CASE x.job = "features"
    <2>1. PICK w : w = WithValues(db.vectors, p)
        OBVIOUS
    <2>2. d2 = [db EXCEPT !.vectors = w]
        BY <1>7, <2>1 DEF Committed
    <2>3. /\ DOMAIN d2 = {"drafts", "verdicts", "vectors", "signals"} /\ d2.drafts = db.drafts
          /\ d2.vectors = w /\ d2.verdicts = db.verdicts /\ d2.signals = db.signals
        BY <1>5, <2>2
    <2>4. DOMAIN w = DOMAIN db.vectors \cup ids
        BY <1>4, <2>1
    <2>5. \A item : IsPending(x, item) => IsStored(x, item, d2)
        BY <1>4, <1>7, <2>3, <2>4 DEF IsStored
    <2>6. StoredRowsOK(d2, cache) /\ AddsRows(db, cache, d2, cache)
        BY <1>1, <1>4, <2>3, <2>4 DEF StoredRowsOK, AddsRows
    <2>7. TodoOK(x, d2) /\ DraftsReplay'
        BY <1>1, <1>2, <2>3 DEF TodoOK, DraftsReplay
    <2> QED BY <2>3, <2>5, <2>6, <2>7
<1>8. CASE x.job = "signals"
    <2>1. PICK w : w = WithValues(db.signals, p)
        OBVIOUS
    <2>2. d2 = [db EXCEPT !.signals = w]
        BY <1>8, <2>1 DEF Committed
    <2>3. /\ DOMAIN d2 = {"drafts", "verdicts", "vectors", "signals"} /\ d2.drafts = db.drafts
          /\ d2.signals = w /\ d2.verdicts = db.verdicts /\ d2.vectors = db.vectors
        BY <1>5, <2>2
    <2>4. DOMAIN w = DOMAIN db.signals \cup ids
        BY <1>4, <2>1
    <2>5. \A item : IsPending(x, item) => IsStored(x, item, d2)
        BY <1>4, <1>8, <2>3, <2>4 DEF IsStored
    <2>6. StoredRowsOK(d2, cache) /\ AddsRows(db, cache, d2, cache)
        BY <1>1, <1>4, <2>3, <2>4 DEF StoredRowsOK, AddsRows
    <2>7. \A id \in DOMAIN w : \/ id \in DOMAIN db.signals /\ w[id] = db.signals[id]
                               \/ w[id] = db.drafts[id].reply
        BY <1>8, <2>1, WrittenIs
    <2>8. \A id \in DOMAIN w : w[id] = db.drafts[id].reply
        BY <1>1, <2>7 DEF DraftsReplay
    <2>9. TodoOK(x, d2) /\ DraftsReplay'
        BY <1>1, <1>2, <2>3, <2>8 DEF TodoOK, DraftsReplay
    <2> QED BY <2>3, <2>5, <2>6, <2>9
<1> QED BY <1>2, <1>6, <1>7, <1>8 DEF Jobs

LEMMA CommitStep ==
    ASSUME BatchAssumption, BatchInv, NEW p \in Procs, NEW then \in {"next", "done"},
           proc[p].pc \in {"next", "commit"}, then = "done" => ~ HasItem(p), CommitRows(p, then)
    PROVE  BatchInv'
<1>1. CASE Collides(p)
    <2>1. Set(p, Failed) /\ UNCHANGED <<cache, db, kb, starts>>
        BY <1>1 DEF CommitRows
    <2> QED BY <2>1, Fails
<1>2. CASE ~ Collides(p)
    <2>1. PICK x : x = proc[p]
        OBVIOUS
    <2>2. PICK d2 : d2 = Committed(p)
        OBVIOUS
    <2>3. Set(p, [x EXCEPT !.pc = then, !.pending = <<>>]) /\ UNCHANGED <<cache, kb, starts>> /\ db' = d2
        BY <1>2, <2>1, <2>2 DEF CommitRows
    <2>4. SoundRun(x, db, cache) /\ x.pc \in Live
        BY <2>1 DEF BatchInv, Live, PCs
    <2>5. then = "done" => x.i = Len(x.todo)
        BY <2>1, <2>4 DEF HasItem, SoundRun, Run
    <2>6. x.job = "draft" => d2 = [db EXCEPT !.drafts = db.drafts \o x.pending]
        BY <2>1, <2>2 DEF Committed
    <2>7. /\ StoredRowsOK(d2, cache) /\ AddsRows(db, cache, d2, cache) /\ TodoOK(x, d2)
          /\ \A item : IsPending(x, item) => IsStored(x, item, d2)
          /\ x.job # "draft" => DOMAIN d2.drafts = DOMAIN db.drafts
          /\ DraftsReplay'
        <3>1. CASE x.job = "draft"
            BY <2>1, <2>3, <2>6, <3>1, CommitDrafts
        <3>2. CASE x.job # "draft"
            BY <2>1, <2>2, <2>3, <3>2, CommitRatings
        <3> QED BY <3>1, <3>2
    <2> QED BY <2>1, <2>3, <2>5, <2>7, WritesSoundly
<1> QED BY <1>1, <1>2

----------------------------------------------------------------------------
(* The theorems *)

LEMMA BatchInvNext ==
    ASSUME BatchAssumption, BatchInv, [BatchNext]_batchVars PROVE BatchInv'
<1>1. CASE UNCHANGED batchVars
    BY <1>1 DEF batchVars, BatchInv, DraftsReplay
<1>2. CASE Reload
    <2>1. kb' \in 0 .. MaxKB
        BY <1>2 DEF Reload, BatchInv, BatchAssumption
    <2>2. UNCHANGED <<cache, db, proc, starts>>
        BY <1>2 DEF Reload
    <2>3. DraftsReplay'
        BY <2>2 DEF BatchInv, DraftsReplay
    <2> QED BY <2>1, <2>2, <2>3 DEF BatchInv
<1>3. ASSUME NEW p \in Procs, RunStep(p) PROVE BatchInv'
    <2>1. CASE CommitBatch(p)
        BY <2>1, CommitStep DEF CommitBatch
    <2>2. CASE Finish(p)
        BY <2>2, CommitStep DEF Finish
    <2> QED BY <1>3, <2>1, <2>2, TakeStep, LookupStep, AnsweredStep, DroppedStep, GarbledStep, StoreStep,
               AddRowStep DEF RunStep
<1>4. ASSUME NEW p \in Procs, Kill(p) PROVE BatchInv'
    BY <1>4, Fails DEF Kill
<1>5. ASSUME NEW p \in Procs, NEW job \in Jobs, Start(p, job) PROVE BatchInv'
    BY <1>5, StartStep
<1> QED BY <1>1, <1>2, <1>3, <1>4, <1>5 DEF BatchNext

\* A script that ends without an error left nothing of its list undone, whatever others wrote,
\* replaced or lost meanwhile and wherever its batches were cut (batch_drafts.py 124-128,
\* batch_judge.py 85-108, build_features.py 98-103).
THEOREM FinishedIsStored ==
    ASSUME BatchAssumption PROVE BatchSpec => []FinishedMeansStored
<1>1. BatchInv /\ [BatchNext]_batchVars => BatchInv'
    BY BatchInvNext
<1>2. ASSUME BatchInv PROVE FinishedMeansStored
    <2> SUFFICES ASSUME NEW p \in Procs, proc[p].pc = "done", NEW item \in ToSet(proc[p].todo)
                 PROVE  CASE proc[p].job = "draft" -> \E id \in DOMAIN db.drafts : db.drafts[id].ticket = item
                          [] proc[p].job = "judge" -> item \in DOMAIN db.verdicts \cup proc[p].skipped
                          [] proc[p].job = "features" -> item \in DOMAIN db.vectors
                          [] proc[p].job = "signals" -> item \in DOMAIN db.signals
        BY DEF FinishedMeansStored
    <2>1. PICK x : x = proc[p]
        OBVIOUS
    <2>2. SoundRun(x, db, cache) /\ x.pc = "done"
        BY <1>2, <2>1 DEF BatchInv
    <2>3. x \in Run /\ x.job \in Jobs /\ AllCovered(x, db) /\ x.i = Len(x.todo) /\ x.pending = <<>>
        BY <2>2 DEF SoundRun
    <2>4. PICK m \in DOMAIN x.todo : x.todo[m] = item
        BY <2>1 DEF ToSet
    <2>5. m <= x.i
        BY <2>3, <2>4 DEF Run
    <2>6. ~ IsPending(x, item)
        <3>1. DOMAIN <<>> = {}
            OBVIOUS
        <3> QED BY <2>3, <3>1 DEF IsPending
    <2>7. IsStored(x, item, db)
        BY <2>3, <2>4, <2>5, <2>6 DEF AllCovered
    <2> QED BY <2>1, <2>3, <2>7 DEF IsStored, Jobs
<1> QED BY <1>1, <1>2, BatchInvInit, PTL DEF BatchSpec

\* While one driver at a time drafts, kills and restarts anywhere lead to one draft per ticket,
\* and each committed draft is what the cache answers to the request that its stored evidence
\* rebuilds, so that the signals replayed from it are its own; and what ended is stored
\* (batch_drafts.py 83-93, llm.py 227-247, model_side.py 107-118).
THEOREM DraftsStayReplayable ==
    ASSUME BatchAssumption PROVE BatchSpec => []DraftsAreReplayable
<1>1. BatchInv /\ [BatchNext]_batchVars => BatchInv'
    BY BatchInvNext
<1>2. BatchInv => DraftsReplay
    BY DEF BatchInv
<1>3. DraftsReplay /\ FinishedMeansStored => DraftsAreReplayable
    BY DEF DraftsAreReplayable
<1> QED BY <1>1, <1>2, <1>3, BatchInvInit, FinishedIsStored, PTL DEF BatchSpec

\* Requests, answers and rows keep their types; no request is tried more than Retries times after
\* the first, and what is judged or computed refers to a draft that exists (llm.py 131-140).
THEOREM BatchTypes ==
    ASSUME BatchAssumption PROVE BatchSpec => []BatchTypeOK
<1>1. BatchInv /\ [BatchNext]_batchVars => BatchInv'
    BY BatchInvNext
<1>2. ASSUME BatchInv PROVE BatchTypeOK
    <2>1. StoredRowsOK(db, cache)
        BY <1>2 DEF BatchInv
    <2>2. ASSUME NEW k \in DOMAIN cache PROVE IsKey(k) /\ cache[k] \in Replies \cup Ratings \cup {Invalid}
        <3>1. k \in Keys /\ cache[k] \in AnswersTo(k)
            BY <2>1, <2>2 DEF StoredRowsOK
        <3> QED BY <3>1 DEF Keys, DraftKey, IsKey, AnswersTo
    <2>3. ASSUME NEW id \in DOMAIN db.drafts PROVE IsDraftRow(db.drafts[id])
        <3>1. db.drafts[id] \in DraftRow
            BY <2>1, <2>3 DEF StoredRowsOK
        <3> QED BY <3>1 DEF DraftRow, IsDraftRow
    <2>4. ASSUME NEW p \in Procs
          PROVE  /\ proc[p].pc \in PCs /\ proc[p].job \in Jobs \cup {None}
                 /\ proc[p].i \in 0 .. Len(proc[p].todo) /\ proc[p].attempt \in 0 .. Retries
        <3>1. PICK x : x = proc[p]
            OBVIOUS
        <3>2. x \in Run /\ x.i <= Len(x.todo)
            BY <1>2, <3>1 DEF BatchInv, SoundRun
        <3>3. x.pc \in PCs /\ x.job \in Jobs \cup {None} /\ x.i \in 0 .. Len(x.todo) /\ x.attempt \in 0 .. Retries
            BY <3>2 DEF Run
        <3> QED BY <3>1, <3>3
    <2>5. DOMAIN db.verdicts \cup DOMAIN db.vectors \cup DOMAIN db.signals \subseteq DOMAIN db.drafts
        BY <2>1 DEF StoredRowsOK
    <2> QED BY <1>2, <2>2, <2>3, <2>4, <2>5 DEF BatchTypeOK, BatchInv
<1> QED BY <1>1, <1>2, BatchInvInit, PTL DEF BatchSpec

----------------------------------------------------------------------------
(* Splits *)

\* Whatever order the greedy split takes the groups in, a leakage group is not divided.
LEMMA GroupsAreNotDivided ==
    ASSUME RecordsAssumption, NEW a \in S!AssignSplits(Records), NEW i \in Ids, NEW j \in Ids,
           S!LeakageGroup(Records[i]) = S!LeakageGroup(Records[j])
    PROVE  a[i] = a[j]
<1> DEFINE all == S!ToSet(Records)
           of(id) == CHOOSE r \in all : r.id = id
           keys == {S!LeakageGroup(r) : r \in all}
           groups(s) == {k \in keys : S!Stratum(Records, k) = s}
           strata == {S!Stratum(Records, k) : k \in keys}
           fills == [s \in strata |-> {S!Fill(Records, S!TargetsOf(s), o) : o \in S!Orders(Records, groups(s))}]
           pick == {f \in [strata -> UNION S!Range(fills)] : \A s \in strata : f[s] \in fills[s]}
           split(f, r) == (CHOOSE e \in UNION S!Range(f) : e.key = S!LeakageGroup(r)).split
<1>1. all = {Records[k] : k \in Ids}
    BY DEF S!ToSet, Ids
<1>2. \A k \in Ids : Records[k] \in all /\ Records[k].id = k /\ of(k) = Records[k]
    <2>1. \A k \in Ids : Records[k] \in all /\ Records[k].id = k
        BY <1>1 DEF RecordsAssumption
    <2>2. ASSUME NEW k \in Ids PROVE of(k) = Records[k]
        <3>1. \A r \in all : r.id = k => r = Records[k]
            BY <1>1, <2>1
        <3> QED BY <3>1, <2>1
    <2> QED BY <2>1, <2>2
<1>3. PICK f : a = [id \in {r.id : r \in all} |-> split(f, of(id))]
    <2>1. S!AssignSplits(Records) = {[id \in {r.id : r \in all} |-> split(f, of(id))] : f \in pick}
        BY DEF S!AssignSplits
    <2> HIDE DEF pick, split, of, all
    <2>2. a \in {[id \in {r.id : r \in all} |-> split(f, of(id))] : f \in pick}
        BY <2>1
    <2> QED BY <2>2, Zenon
<1>4. \A k \in Ids : k \in {r.id : r \in all}
    BY <1>2
<1>5. \A k \in Ids : a[k] = split(f, of(k))
    BY <1>3, <1>4
<1>6. split(f, Records[i]) = split(f, Records[j])
    OBVIOUS
<1> HIDE DEF all, of, keys, groups, strata, fills, pick, split
<1>7. of(i) = Records[i] /\ of(j) = Records[j]
    BY <1>2
<1> QED BY <1>5, <1>6, <1>7, Zenon

\* Tickets with a common article, or in one group, are one leakage group.
LEMMA LeakageGroups ==
    ASSUME RecordsAssumption, NEW i \in Ids, NEW j \in Ids,
           Records[i].gold \cap Records[j].gold # {} \/ Records[i].group = Records[j].group
    PROVE  S!LeakageGroup(Records[i]) = S!LeakageGroup(Records[j])
<1>1. CASE Records[i].group = Records[j].group
    BY <1>1 DEF RecordsAssumption, S!LeakageGroup
<1>2. CASE Records[i].gold \cap Records[j].gold # {}
    <2>1. PICK x : x \in Records[i].gold /\ x \in Records[j].gold
        BY <1>2
    <2>2. Records[i].gold = {x} /\ Records[j].gold = {x}
        BY <2>1 DEF RecordsAssumption
    <2> QED BY <2>2 DEF S!LeakageGroup
<1> QED BY <1>1, <1>2

----------------------------------------------------------------------------
(* The scripts *)

\* What Launch puts into process has these fields; what is opened has no type.
ScriptsAreProcesses ==
    /\ DOMAIN process = Processes
    /\ \A p \in Processes : /\ DOMAIN process[p] = {"script", "source", "pc", "from"}
                        /\ process[p].pc \in {"idle", "verify", "read"}

LEMMA ProcSet ==
    ASSUME ScriptsAreProcesses, NEW p \in Processes, NEW x,
           DOMAIN x = {"script", "source", "pc", "from"}, x.pc \in {"idle", "verify", "read"},
           process' = [process EXCEPT ![p] = x]
    PROVE  /\ ScriptsAreProcesses'
           /\ process'[p] = x
           /\ \A q \in Processes \ {p} : process'[q] = process[q]
BY DEF ScriptsAreProcesses

LEMMA IdleProcess ==
    /\ DOMAIN NoScript = {"script", "source", "pc", "from"}
    /\ NoScript.pc = "idle" /\ NoScript.script = None
BY DEF NoScript

LEMMA StartScript ==
    ASSUME ScriptsAreProcesses, NEW p \in Processes, NEW script, NEW s, Launch(p, script, s)
    PROVE  /\ ScriptsAreProcesses'
           /\ ~ IsRunning(p)
           /\ process'[p] = [script |-> script, source |-> s, pc |-> "verify", from |-> OpenedLog(script, s)]
           /\ \A q \in Processes \ {p} : process'[q] = process[q]
<1> DEFINE x == [script |-> script, source |-> s, pc |-> "verify", from |-> OpenedLog(script, s)]
<1>1. DOMAIN x = {"script", "source", "pc", "from"} /\ x.pc = "verify"
    OBVIOUS
<1>2. process' = [process EXCEPT ![p] = x] /\ ~ IsRunning(p)
    BY DEF Launch, Free
<1> HIDE DEF x
<1>3. /\ ScriptsAreProcesses' /\ process'[p] = x
      /\ \A q \in Processes \ {p} : process'[q] = process[q]
    BY <1>1, <1>2, ProcSet
<1> QED BY <1>2, <1>3 DEF x

LEMMA EndScript ==
    ASSUME ScriptsAreProcesses, NEW p \in Processes, process' = [process EXCEPT ![p] = NoScript]
    PROVE  /\ ScriptsAreProcesses'
           /\ process'[p] = NoScript
           /\ \A q \in Processes \ {p} : process'[q] = process[q]
BY ProcSet, IdleProcess

LEMMA VerifyScript ==
    ASSUME ScriptsAreProcesses, NEW p \in Processes, Verify(p)
    PROVE  /\ ScriptsAreProcesses'
           /\ process'[p].pc = "read" /\ process'[p].script = process[p].script
           /\ process'[p].source = process[p].source
           /\ \A q \in Processes \ {p} : process'[q] = process[q]
<1> DEFINE x == [process[p] EXCEPT !.pc = "read"]
<1>1. DOMAIN process[p] = {"script", "source", "pc", "from"}
    BY DEF ScriptsAreProcesses
<1>2. /\ DOMAIN x = {"script", "source", "pc", "from"} /\ x.pc = "read"
      /\ x.script = process[p].script /\ x.source = process[p].source
    BY <1>1
<1>3. process' = [process EXCEPT ![p] = x]
    BY DEF Verify
<1> HIDE DEF x
<1>4. /\ ScriptsAreProcesses' /\ process'[p] = x
      /\ \A q \in Processes \ {p} : process'[q] = process[q]
    BY <1>2, <1>3, ProcSet
<1> QED BY <1>2, <1>4

\* The steps that end a script with an output.
Output(p) == WriteTable(p) \/ WriteArtifact(p) \/ WriteGuard(p) \/ Evaluate(p) \/ Release(p)

LEMMA OutputWrites ==
    ASSUME NEW p \in Processes, Output(p)
    PROVE  Writes(p)
BY Zenon DEF Output, WriteTable, WriteArtifact, WriteGuard, Evaluate, Release

LEMMA ScriptsInit ==
    ASSUME ExperimentInit PROVE ScriptsAreProcesses
BY IdleProcess DEF ExperimentInit, ScriptsAreProcesses

LEMMA ScriptsNext ==
    ASSUME ScriptsAreProcesses, [ExperimentNext]_experimentVars PROVE ScriptsAreProcesses'
<1>1. ASSUME UNCHANGED process PROVE ScriptsAreProcesses'
    BY <1>1 DEF ScriptsAreProcesses
<1>2. CASE FreezeWrite \/ Amend \/ Export \/ (\E n \in mode.edited : Edit(n)) \/ UNCHANGED experimentVars
    BY <1>1, <1>2 DEF FreezeWrite, Amend, Export, Edit, experimentVars
<1>3. ASSUME NEW p \in Processes, \E script \in mode.scripts : Launch(p, script, mode.source)
      PROVE ScriptsAreProcesses'
    BY <1>3, StartScript
<1>4. ASSUME NEW p \in Processes, Stop(p) PROVE ScriptsAreProcesses'
    BY <1>4, EndScript DEF Stop
<1>5. ASSUME NEW p \in Processes, Verify(p) PROVE ScriptsAreProcesses'
    BY <1>5, VerifyScript
<1>6. ASSUME NEW p \in Processes, Output(p) PROVE ScriptsAreProcesses'
    BY <1>6, OutputWrites, EndScript DEF Writes
<1> QED BY <1>2, <1>3, <1>4, <1>5, <1>6 DEF ExperimentNext, Output

----------------------------------------------------------------------------
(* The outputs *)

OutputsAreKept ==
    /\ DOMAIN out = {"artifact", "table", "guard", "result", "release", "export"}
    /\ DOMAIN out.artifact = Sources /\ DOMAIN out.table = Sources
    /\ DOMAIN out.guard = Sources /\ DOMAIN out.result = Sources

LEMMA OutputsInit ==
    ASSUME ExperimentInit PROVE OutputsAreKept
<1>1. out = [artifact |-> Nothing, table |-> Nothing, guard |-> Nothing, result |-> Nothing,
             release |-> None, export |-> FALSE]
    BY DEF ExperimentInit
<1> QED BY <1>1 DEF OutputsAreKept, Nothing

\* Tables, artifacts and guards are made of rows a script may see.
LEMMA RowsAreVisible ==
    ASSUME NEW source, NEW splits
    PROVE  RowsOf(source, FALSE, splits) \subseteq Visible(FALSE)
BY DEF RowsOf

LEMMA LearnedIs ==
    /\ \A o : o \in Learned <=> /\ o # None
                               /\ \E r \in Sources : o \in {out.artifact[r], out.table[r], out.guard[r]}
    /\ \A o : o \in Learned' <=> /\ o # None
                                /\ \E r \in Sources : o \in {out'.artifact[r], out'.table[r], out'.guard[r]}
<1>1. \A o : o \in Learned <=> /\ o # None
                              /\ \E r \in Sources : o \in {out.artifact[r], out.table[r], out.guard[r]}
    BY DEF Learned
<1>2. \A o : o \in Learned' <=> /\ o # None
                               /\ \E r \in Sources : o \in {out'.artifact[r], out'.table[r], out'.guard[r]}
    BY DEF Learned
<1> QED BY <1>1, <1>2

\* The new row of an output, and nothing else, is new.
NewOutput(o) == o \in Outputs' => o \in Outputs \/ o.versions = Versions(file)

NewLearned(o) == o \in Learned' => o \in Learned \/ o.rows \subseteq Visible(FALSE)

OutputsGrow == OutputsAreKept' /\ (\A o : NewOutput(o)) /\ \A o : NewLearned(o)

LEMMA TableGrows ==
    ASSUME OutputsAreKept, NEW p \in Processes, WriteTable(p)
    PROVE  OutputsGrow
<1> DEFINE s == process[p].source
           x == [rows |-> RowsOf(s, FALSE, {"train", "val", "unseen"}), versions |-> Versions(file)]
<1>1. out' = [out EXCEPT !.table = [out.table EXCEPT ![s] = x]]
    BY DEF WriteTable
<1>2. x.rows \subseteq Visible(FALSE) /\ x.versions = Versions(file)
    BY RowsAreVisible
<1> HIDE DEF x
<1>3. /\ out'.artifact = out.artifact /\ out'.guard = out.guard
      /\ out'.result = out.result /\ out'.release = out.release
      /\ out'.table = [out.table EXCEPT ![s] = x]
      /\ DOMAIN out' = DOMAIN out
    BY <1>1 DEF OutputsAreKept
<1>4. \A r \in Sources : out'.table[r] = x \/ out'.table[r] = out.table[r]
    BY <1>3 DEF OutputsAreKept
<1>5. OutputsAreKept'
    BY <1>3 DEF OutputsAreKept
<1>6. \A o : o \in Learned' => o \in Learned \/ o = x
    BY <1>3, <1>4, LearnedIs
<1>7. \A o : o \in Outputs' => o \in Outputs \/ o = x
    BY <1>3, <1>6 DEF Outputs
<1> QED BY <1>2, <1>5, <1>6, <1>7 DEF OutputsGrow, NewOutput, NewLearned

LEMMA ArtifactGrows ==
    ASSUME OutputsAreKept, NEW p \in Processes, WriteArtifact(p)
    PROVE  OutputsGrow
<1> DEFINE s == process[p].source
           x(scores) == [rows     |-> RowsOf(s, FALSE, {"train", "val", "calib"}), scores |-> scores,
                         th       |-> R!SelectLaneThresholds(Scored(s, scores, Calibration(s))),
                         versions |-> Versions(file)]
<1>1. PICK scores \in Scorings : out' = [out EXCEPT !.artifact = [out.artifact EXCEPT ![s] = x(scores)]]
    BY DEF WriteArtifact
<1>2. PICK y : y = x(scores)
    OBVIOUS
<1>3. y.rows \subseteq Visible(FALSE) /\ y.versions = Versions(file)
    BY <1>2, RowsAreVisible
<1>4. out' = [out EXCEPT !.artifact = [out.artifact EXCEPT ![s] = y]]
    BY <1>1, <1>2
<1> HIDE DEF x
<1>5. /\ out'.table = out.table /\ out'.guard = out.guard
      /\ out'.result = out.result /\ out'.release = out.release
      /\ out'.artifact = [out.artifact EXCEPT ![s] = y]
      /\ DOMAIN out' = DOMAIN out
    BY <1>4 DEF OutputsAreKept
<1>6. \A r \in Sources : out'.artifact[r] = y \/ out'.artifact[r] = out.artifact[r]
    BY <1>5 DEF OutputsAreKept
<1>7. OutputsAreKept'
    BY <1>5 DEF OutputsAreKept
<1>8. \A o : o \in Learned' => o \in Learned \/ o = y
    BY <1>5, <1>6, LearnedIs
<1>9. \A o : o \in Outputs' => o \in Outputs \/ o = y
    BY <1>5, <1>8 DEF Outputs
<1> QED BY <1>3, <1>7, <1>8, <1>9 DEF OutputsGrow, NewOutput, NewLearned

LEMMA GuardGrows ==
    ASSUME OutputsAreKept, NEW p \in Processes, WriteGuard(p)
    PROVE  OutputsGrow
<1> DEFINE s == process[p].source
           seen == RowsOf(s, FALSE, {"unseen"}) \cup RowsOf(s, FALSE, {"val"})
<1>1. PICK g : out' = [out EXCEPT !.guard = [out.guard EXCEPT ![s] =
                        [rows |-> seen, guard |-> g, base |-> process[p].from, versions |-> Versions(file)]]]
    BY Zenon DEF WriteGuard
<1>2. PICK y : y = [rows |-> seen, guard |-> g, base |-> process[p].from, versions |-> Versions(file)]
    OBVIOUS
<1>3. y.rows \subseteq Visible(FALSE) /\ y.versions = Versions(file)
    BY <1>2, RowsAreVisible
<1>4. out' = [out EXCEPT !.guard = [out.guard EXCEPT ![s] = y]]
    BY <1>1, <1>2
<1> HIDE DEF seen
<1>5. /\ out'.table = out.table /\ out'.artifact = out.artifact
      /\ out'.result = out.result /\ out'.release = out.release
      /\ out'.guard = [out.guard EXCEPT ![s] = y]
      /\ DOMAIN out' = DOMAIN out
    BY <1>4 DEF OutputsAreKept
<1>6. \A r \in Sources : out'.guard[r] = y \/ out'.guard[r] = out.guard[r]
    BY <1>5 DEF OutputsAreKept
<1>7. OutputsAreKept'
    BY <1>5 DEF OutputsAreKept
<1>8. \A o : o \in Learned' => o \in Learned \/ o = y
    BY <1>5, <1>6, LearnedIs
<1>9. \A o : o \in Outputs' => o \in Outputs \/ o = y
    BY <1>5, <1>8 DEF Outputs
<1> QED BY <1>3, <1>7, <1>8, <1>9 DEF OutputsGrow, NewOutput, NewLearned

LEMMA ResultGrows ==
    ASSUME OutputsAreKept, NEW p \in Processes, Evaluate(p)
    PROVE  OutputsGrow
<1> DEFINE s == process[p].source
<1>1. PICK rows, used, report :
          out' = [out EXCEPT !.result = [out.result EXCEPT ![s] =
                    [rows |-> rows, used |-> used, report |-> report, versions |-> Versions(file)]]]
    BY Zenon DEF Evaluate
<1>2. PICK y : y = [rows |-> rows, used |-> used, report |-> report, versions |-> Versions(file)]
    OBVIOUS
<1>3. y.versions = Versions(file)
    BY <1>2
<1>4. out' = [out EXCEPT !.result = [out.result EXCEPT ![s] = y]]
    BY <1>1, <1>2
<1>5. /\ out'.table = out.table /\ out'.artifact = out.artifact
      /\ out'.guard = out.guard /\ out'.release = out.release
      /\ out'.result = [out.result EXCEPT ![s] = y]
      /\ DOMAIN out' = DOMAIN out
    BY <1>4 DEF OutputsAreKept
<1>6. \A r \in Sources : out'.result[r] = y \/ out'.result[r] = out.result[r]
    BY <1>5 DEF OutputsAreKept
<1>7. OutputsAreKept'
    BY <1>5 DEF OutputsAreKept
<1>8. Learned' = Learned
    BY <1>5 DEF Learned
<1>9. \A o : o \in Outputs' => o \in Outputs \/ o = y
    BY <1>5, <1>6, <1>8 DEF Outputs
<1> QED BY <1>3, <1>7, <1>8, <1>9 DEF OutputsGrow, NewOutput, NewLearned

LEMMA ReleaseGrows ==
    ASSUME OutputsAreKept, NEW p \in Processes, Release(p)
    PROVE  OutputsGrow
<1> DEFINE y == [rows |-> {}, versions |-> Versions(file)]
<1>1. out' = [out EXCEPT !.release = y]
    BY DEF Release
<1>2. y.versions = Versions(file)
    OBVIOUS
<1> HIDE DEF y
<1>3. /\ out'.table = out.table /\ out'.artifact = out.artifact
      /\ out'.guard = out.guard /\ out'.result = out.result
      /\ out'.release = y
      /\ DOMAIN out' = DOMAIN out
    BY <1>1 DEF OutputsAreKept
<1>4. OutputsAreKept'
    BY <1>3 DEF OutputsAreKept
<1>5. Learned' = Learned
    BY <1>3 DEF Learned
<1>6. \A o : o \in Outputs' => o \in Outputs \/ o = y
    BY <1>3, <1>5 DEF Outputs
<1> QED BY <1>2, <1>4, <1>5, <1>6 DEF OutputsGrow, NewOutput, NewLearned

LEMMA OutputGrows ==
    ASSUME OutputsAreKept, NEW p \in Processes, Output(p)
    PROVE  OutputsGrow
BY TableGrows, ArtifactGrows, GuardGrows, ResultGrows, ReleaseGrows DEF Output

\* No other step touches them, but for the export.
LEMMA OutputsStay ==
    ASSUME OutputsAreKept, UNCHANGED out \/ Export
    PROVE  OutputsAreKept' /\ Outputs' = Outputs /\ Learned' = Learned
<1>1. /\ out'.table = out.table /\ out'.artifact = out.artifact
      /\ out'.guard = out.guard /\ out'.result = out.result
      /\ out'.release = out.release /\ DOMAIN out' = DOMAIN out
    BY DEF Export, OutputsAreKept
<1>2. Learned' = Learned
    BY <1>1 DEF Learned
<1> QED BY <1>1, <1>2 DEF OutputsAreKept, Outputs

----------------------------------------------------------------------------
(* The access log *)

IsFinal(p) == IsRunning(p) /\ process[p].script = "final"

\* Final runs that have marked the log and not yet read the locked test.
Readers == {p \in Processes : IsFinal(p) /\ process[p].pc = "read"}

(***************************************************************************)
(* Each reading to come has a mark of its own, besides those of the past.  *)
(***************************************************************************)
ReadingsAreMarked ==
    /\ log \in Seq(Processes) /\ tested \in Nat
    /\ IsFiniteSet(Readers)
    /\ tested + Cardinality(Readers) <= Len(log)

\* One final run at a time: it has not marked the log, or its mark is the only one.
OneFinalRun ==
    ~ mode.overlap =>
        /\ Len(log) <= 1
        /\ \A p, q \in Processes : IsFinal(p) /\ IsFinal(q) => p = q
        /\ \A p \in Processes : IsFinal(p) /\ process[p].pc = "verify" => log = <<>>

LEMMA MarksInit ==
    ASSUME ExperimentInit PROVE ReadingsAreMarked /\ OneFinalRun
<1>1. \A p \in Processes : ~ IsFinal(p)
    BY IdleProcess DEF ExperimentInit, IsFinal, IsRunning
<1>2. Readers = {}
    BY <1>1 DEF Readers
<1>3. log = <<>> /\ tested = 0 /\ Len(log) = 0
    BY DEF ExperimentInit
<1> QED BY <1>1, <1>2, <1>3, FS_EmptySet DEF ReadingsAreMarked, OneFinalRun

\* A step that leaves the scripts alone.
LEMMA MarksStay ==
    ASSUME ReadingsAreMarked, OneFinalRun, UNCHANGED <<log, process, tested, mode>>
    PROVE  ReadingsAreMarked' /\ OneFinalRun'
<1>1. Readers' = Readers /\ \A p \in Processes : IsFinal(p)' <=> IsFinal(p)
    BY DEF Readers, IsFinal, IsRunning
<1> QED BY <1>1 DEF ReadingsAreMarked, OneFinalRun

LEMMA MarksStart ==
    ASSUME ScriptsAreProcesses, ReadingsAreMarked, OneFinalRun,
           NEW p \in Processes, NEW script, NEW s, Launch(p, script, s)
    PROVE  ReadingsAreMarked' /\ OneFinalRun'
<1>1. /\ ~ IsRunning(p) /\ process'[p].script = script /\ process'[p].pc = "verify"
      /\ \A q \in Processes \ {p} : process'[q] = process[q]
    <2>1. /\ ~ IsRunning(p)
          /\ process'[p] = [script |-> script, source |-> s, pc |-> "verify", from |-> OpenedLog(script, s)]
          /\ \A q \in Processes \ {p} : process'[q] = process[q]
        BY StartScript, Zenon
    <2> QED BY <2>1
<1>2. UNCHANGED <<log, tested, mode>>
    BY DEF Launch
<1>3. \A q \in Processes \ {p} : (IsFinal(q)' <=> IsFinal(q)) /\ process'[q].pc = process[q].pc
    BY <1>1 DEF IsFinal, IsRunning
<1>4. ~ IsFinal(p) /\ (IsFinal(p)' => script = "final")
    BY <1>1 DEF IsFinal
<1>5. Readers' = Readers
    BY <1>1, <1>3, <1>4 DEF Readers
<1>6. ReadingsAreMarked'
    BY <1>2, <1>5 DEF ReadingsAreMarked
<1>7. ASSUME ~ mode.overlap, IsFinal(p)'
      PROVE  log = <<>> /\ \A q \in Processes : ~ IsFinal(q)
    BY <1>4, <1>7 DEF Launch, AlreadyFinal, IsFinal
<1>8. OneFinalRun'
    BY <1>2, <1>3, <1>7 DEF OneFinalRun
<1> QED BY <1>6, <1>8

\* The mark comes with the right to read.
LEMMA MarksVerify ==
    ASSUME ScriptsAreProcesses, ReadingsAreMarked, OneFinalRun, NEW p \in Processes, Verify(p)
    PROVE  ReadingsAreMarked' /\ OneFinalRun'
<1>1. /\ process[p].pc = "verify" /\ process'[p].pc = "read" /\ process'[p].script = process[p].script
      /\ \A q \in Processes \ {p} : process'[q] = process[q]
    BY VerifyScript DEF Verify
<1>2. UNCHANGED <<tested, mode>> /\ log' = IF process[p].script = "final" THEN Append(log, p) ELSE log
    BY DEF Verify
<1>3. \A q \in Processes : IsFinal(q)' <=> IsFinal(q)
    BY <1>1 DEF IsFinal, IsRunning
<1>4. \A q \in Processes \ {p} : process'[q].pc = process[q].pc
    BY <1>1
<1>5. IsFinal(p) <=> process[p].script = "final"
    BY <1>1 DEF IsFinal, IsRunning
<1>6. p \notin Readers
    BY <1>1 DEF Readers
<1>7. CASE process[p].script = "final"
    <2>1. log' = Append(log, p) /\ log' \in Seq(Processes) /\ Len(log') = Len(log) + 1
        BY <1>2, <1>7 DEF ReadingsAreMarked
    <2>2. Readers' = Readers \cup {p}
        BY <1>1, <1>3, <1>4, <1>5, <1>7 DEF Readers
    <2>3. IsFiniteSet(Readers') /\ Cardinality(Readers') = Cardinality(Readers) + 1
        BY <1>6, <2>2, FS_AddElement DEF ReadingsAreMarked
    <2>4. Cardinality(Readers) \in Nat /\ Len(log) \in Nat
        BY FS_CardinalityType DEF ReadingsAreMarked
    <2>5. ReadingsAreMarked'
        BY <1>2, <2>1, <2>3, <2>4 DEF ReadingsAreMarked
    <2>6. ASSUME ~ mode.overlap PROVE log = <<>> /\ \A q \in Processes : IsFinal(q) => q = p
        BY <1>1, <1>5, <1>7, <2>6 DEF OneFinalRun
    <2>7. OneFinalRun'
        BY <1>1, <1>2, <1>3, <2>1, <2>6 DEF OneFinalRun
    <2> QED BY <2>5, <2>7
<1>8. CASE process[p].script # "final"
    <2>1. log' = log /\ Readers' = Readers
        BY <1>2, <1>3, <1>4, <1>5, <1>6, <1>8 DEF Readers
    <2>2. OneFinalRun'
        BY <1>2, <1>3, <1>4, <1>5, <1>8, <2>1 DEF OneFinalRun
    <2> QED BY <1>2, <2>1, <2>2 DEF ReadingsAreMarked
<1> QED BY <1>7, <1>8

LEMMA MarksEnd ==
    ASSUME ScriptsAreProcesses, ReadingsAreMarked, OneFinalRun, NEW p \in Processes, Stop(p) \/ Output(p)
    PROVE  ReadingsAreMarked' /\ OneFinalRun'
<1>1. process' = [process EXCEPT ![p] = NoScript] /\ UNCHANGED <<log, mode>>
    BY OutputWrites DEF Stop, Writes
<1>2. process'[p] = NoScript /\ \A q \in Processes \ {p} : process'[q] = process[q]
    BY <1>1, EndScript
<1>3. ~ IsFinal(p)' /\ \A q \in Processes \ {p} : (IsFinal(q)' <=> IsFinal(q)) /\ process'[q].pc = process[q].pc
    BY <1>2, IdleProcess DEF IsFinal, IsRunning
<1>4. Readers' = Readers \ {p}
    BY <1>3 DEF Readers
<1>5. /\ IsFiniteSet(Readers') /\ Cardinality(Readers) \in Nat /\ Cardinality(Readers') \in Nat
      /\ Cardinality(Readers') = IF p \in Readers THEN Cardinality(Readers) - 1 ELSE Cardinality(Readers)
    BY <1>4, FS_RemoveElement, FS_CardinalityType DEF ReadingsAreMarked
<1>6. tested' = tested \/ (tested' = tested + 1 /\ p \in Readers)
    <2>1. CASE Stop(p) \/ WriteTable(p) \/ WriteArtifact(p) \/ WriteGuard(p) \/ Release(p)
        BY <2>1 DEF Stop, WriteTable, WriteArtifact, WriteGuard, Release
    <2>2. CASE Evaluate(p)
        <3>1. tested' = IF process[p].script = "final" THEN tested + 1 ELSE tested
            BY <2>2 DEF Evaluate
        <3>2. process[p].pc = "read"
            BY <2>2, OutputWrites DEF Output, Writes
        <3> QED BY <3>1, <3>2 DEF Readers, IsFinal, IsRunning
    <2> QED BY <2>1, <2>2 DEF Output
<1>7. ReadingsAreMarked'
    <2>1. tested \in Nat /\ Len(log) \in Nat /\ log' \in Seq(Processes)
        BY <1>1 DEF ReadingsAreMarked
    <2> QED BY <1>1, <1>5, <1>6, <2>1 DEF ReadingsAreMarked
<1>8. OneFinalRun'
    BY <1>1, <1>3 DEF OneFinalRun
<1> QED BY <1>7, <1>8

----------------------------------------------------------------------------

(***************************************************************************)
(* What LockedTestIsUsedOnce needs: nothing learned is about a row of the  *)
(* locked test, and groups are not divided.                                *)
(***************************************************************************)
LearnedIsVisible ==
    /\ bench.assignment \in S!AssignSplits(Records)
    /\ \A o \in Learned : o.rows \subseteq Visible(FALSE)

LockedTestInv ==
    /\ ScriptsAreProcesses /\ OutputsAreKept
    /\ ReadingsAreMarked /\ OneFinalRun
    /\ LearnedIsVisible

LEMMA LockedTestInit ==
    ASSUME ExperimentInit PROVE LockedTestInv
<1>1. bench.assignment \in S!AssignSplits(Records)
    <2>1. PICK a \in S!AssignSplits(Records) : \E sel, l : bench = [assignment |-> a, selection |-> sel, labels |-> l]
        BY Zenon DEF ExperimentInit
    <2> QED BY <2>1
<1>2. Learned = {}
    <2>1. \A k \in {"artifact", "table", "guard"}, s \in Sources : out[k][s] = None
        BY DEF ExperimentInit, Nothing
    <2> QED BY <2>1 DEF Learned
<1> QED BY <1>1, <1>2, ScriptsInit, OutputsInit, MarksInit DEF LockedTestInv, LearnedIsVisible

\* The splits are fixed.
LEMMA BenchStays ==
    ASSUME [ExperimentNext]_experimentVars PROVE UNCHANGED <<bench, mode>>
<1>1. ASSUME NEW p \in Processes, Output(p) PROVE UNCHANGED <<bench, mode>>
    BY <1>1, OutputWrites DEF Writes
<1>2. CASE UNCHANGED experimentVars
    BY <1>2 DEF experimentVars
<1>3. ASSUME NEW p \in Processes, (\E script \in mode.scripts : Launch(p, script, mode.source)) \/ Stop(p) \/ Verify(p)
      PROVE  UNCHANGED <<bench, mode>>
    BY <1>3 DEF Launch, Stop, Verify
<1>4. CASE FreezeWrite \/ Amend \/ Export \/ (\E n \in mode.edited : Edit(n))
    BY <1>4 DEF FreezeWrite, Amend, Export, Edit
<1> QED BY <1>1, <1>2, <1>3, <1>4 DEF ExperimentNext, Output

LEMMA LockedTestNext ==
    ASSUME LockedTestInv, [ExperimentNext]_experimentVars PROVE LockedTestInv'
<1> USE DEF LockedTestInv
<1>1. ScriptsAreProcesses'
    BY ScriptsNext
<1>2. bench' = bench /\ Visible(FALSE)' = Visible(FALSE)
    BY BenchStays DEF Visible
<1>3. ASSUME UNCHANGED out \/ Export PROVE OutputsAreKept' /\ LearnedIsVisible'
    BY <1>2, <1>3, OutputsStay DEF LearnedIsVisible
<1>4. CASE UNCHANGED experimentVars
    BY <1>1, <1>3, <1>4, MarksStay DEF experimentVars
<1>5. CASE FreezeWrite \/ Amend \/ Export \/ (\E n \in mode.edited : Edit(n))
    <2>1. UNCHANGED <<log, process, tested, mode>> /\ (UNCHANGED out \/ Export)
        BY <1>5 DEF FreezeWrite, Amend, Export, Edit
    <2> QED BY <1>1, <1>3, <2>1, MarksStay
<1>6. ASSUME NEW p \in Processes, \E script \in mode.scripts : Launch(p, script, mode.source)
      PROVE  LockedTestInv'
    <2>1. UNCHANGED out
        BY <1>6 DEF Launch
    <2> QED BY <1>1, <1>3, <1>6, <2>1, MarksStart
<1>7. ASSUME NEW p \in Processes, Verify(p) PROVE LockedTestInv'
    <2>1. UNCHANGED out
        BY <1>7 DEF Verify
    <2> QED BY <1>1, <1>3, <1>7, <2>1, MarksVerify
<1>8. ASSUME NEW p \in Processes, Stop(p) PROVE LockedTestInv'
    <2>1. UNCHANGED out
        BY <1>8 DEF Stop
    <2> QED BY <1>1, <1>3, <1>8, <2>1, MarksEnd
<1>9. ASSUME NEW p \in Processes, Output(p) PROVE LockedTestInv'
    <2>1. OutputsGrow
        BY <1>9, OutputGrows
    <2>2. LearnedIsVisible'
        BY <1>2, <2>1 DEF OutputsGrow, NewLearned, LearnedIsVisible
    <2> QED BY <1>1, <1>9, <2>1, <2>2, MarksEnd DEF OutputsGrow
<1> QED BY <1>4, <1>5, <1>6, <1>7, <1>8, <1>9 DEF ExperimentNext, Output

LEMMA LockedTestImplies ==
    ASSUME RecordsAssumption, LockedTestInv PROVE LockedTestIsUsedOnce
<1>1. tested <= Len(log)
    <2>1. Cardinality(Readers) \in Nat /\ tested \in Nat /\ Len(log) \in Nat
        BY FS_CardinalityType DEF LockedTestInv, ReadingsAreMarked
    <2> QED BY <2>1 DEF LockedTestInv, ReadingsAreMarked
<1>2. ~ mode.overlap => Len(log) <= 1
    BY DEF LockedTestInv, OneFinalRun
<1>3. ASSUME NEW o \in Learned, NEW id \in o.rows, NEW t \in Ids, bench.assignment[t] = "test"
      PROVE  /\ Records[id].gold \cap Records[t].gold = {}
             /\ Records[id].group # Records[t].group
    <2>1. id \in Ids /\ bench.assignment[id] # "test"
        BY <1>3 DEF LockedTestInv, LearnedIsVisible, Visible
    <2>2. S!LeakageGroup(Records[id]) # S!LeakageGroup(Records[t])
        BY <1>3, <2>1, GroupsAreNotDivided DEF LockedTestInv, LearnedIsVisible
    <2> QED BY <2>1, <2>2, LeakageGroups
<1> QED BY <1>1, <1>2, <1>3 DEF LockedTestIsUsedOnce

\* The locked test is read at most as often as the log is marked, once unless final runs
\* overlap, and nothing learned, tuned or certified shares an article or a paraphrase with it:
\* whatever is killed, edited or frozen again, and however many scripts run
\* (locked_eval.py 341-370, dataset.py 161-177, splits.py 29-60).
THEOREM LockedTestIsNeverReused ==
    ASSUME RecordsAssumption PROVE ExperimentSpec => []LockedTestIsUsedOnce
<1>1. LockedTestInv /\ [ExperimentNext]_experimentVars => LockedTestInv'
    BY LockedTestNext
<1> QED BY <1>1, LockedTestInit, LockedTestImplies, PTL DEF ExperimentSpec

----------------------------------------------------------------------------
(* Frozen data *)

IsFreeze(rec) == rec = [n \in Frozen |-> rec[n]]

(***************************************************************************)
(* No script runs before the first freeze record.  Afterwards what the     *)
(* last record and its amendments pin is in pins, and so is what a script  *)
(* reads, from its check of the files on: nobody edits them meanwhile.     *)
(***************************************************************************)
FrozenFirst ==
    \/ record = None /\ \A p \in Processes : ~ IsRunning(p)
    \/ IsFreeze(record) /\ Pinned(record, amended) \in pins

ReadsAreFrozen ==
    mode.quiet => \A p \in Processes : process[p].pc = "read" => Versions(file) \in pins

FrozenInv ==
    /\ ScriptsAreProcesses /\ OutputsAreKept
    /\ FrozenFirst /\ ReadsAreFrozen
    /\ NumbersRestOnFrozenData

LEMMA FrozenInit ==
    ASSUME ExperimentInit PROVE FrozenInv
<1>1. \A p \in Processes : process[p] = NoScript
    BY DEF ExperimentInit
<1>2. Outputs = {}
    <2>1. /\ \A k \in {"artifact", "table", "guard"}, s \in Sources : out[k][s] = None
          /\ \A s \in Sources : out.result[s] = None
          /\ out.release = None
        BY DEF ExperimentInit, Nothing
    <2> QED BY <2>1 DEF Outputs, Learned
<1>3. FrozenFirst /\ ReadsAreFrozen
    BY <1>1, IdleProcess DEF ExperimentInit, FrozenFirst, ReadsAreFrozen, IsRunning
<1> QED BY <1>2, <1>3, ScriptsInit, OutputsInit DEF FrozenInv, NumbersRestOnFrozenData

\* verify finds nothing: the files are as the record and its amendments say.
LEMMA VerifiedFiles ==
    ASSUME IsFreeze(record), Problems = {}
    PROVE  Versions(file) = Pinned(record, amended)
<1> DEFINE pinned == Pinned(record, amended)
<1>1. pinned = [n \in Frozen |-> pinned[n]]
    <2>1. CASE amended = <<>>
        BY <2>1 DEF Pinned, IsFreeze
    <2>2. CASE amended # <<>>
        <3>1. pinned = [record EXCEPT !.kb = Last(amended)]
            BY <2>2 DEF Pinned
        <3> QED BY <3>1 DEF IsFreeze
    <2> QED BY <2>1, <2>2
<1>2. \A n \in Frozen : file[n] = pinned[n]
    BY DEF Problems
<1> HIDE DEF pinned
<1>3. Versions(file) = pinned
    BY <1>1, <1>2 DEF Versions
<1> QED BY <1>3 DEF pinned

LEMMA FrozenFreeze ==
    ASSUME FrozenInv, FreezeWrite \/ Amend PROVE FrozenInv'
<1>1. UNCHANGED <<file, process, out, mode>> /\ pins \subseteq pins'
    BY DEF FreezeWrite, Amend
<1>2. ScriptsAreProcesses' /\ OutputsAreKept' /\ Outputs' = Outputs
    BY <1>1, OutputsStay DEF FrozenInv, ScriptsAreProcesses
<1>3. ReadsAreFrozen' /\ NumbersRestOnFrozenData'
    BY <1>1, <1>2 DEF FrozenInv, ReadsAreFrozen, NumbersRestOnFrozenData, Versions
<1>4. FrozenFirst'
    <2>1. CASE FreezeWrite
        <3>1. IsFreeze(record')
            BY <2>1 DEF FreezeWrite, IsFreeze, Versions
        <3>2. Pinned(record', amended') \in pins'
            BY <2>1 DEF FreezeWrite
        <3> QED BY <3>1, <3>2 DEF FrozenFirst
    <2>2. CASE Amend
        <3>1. IsFreeze(record) /\ record' = record
            BY <2>2 DEF Amend, FrozenInv, FrozenFirst
        <3>2. Pinned(record', amended') \in pins'
            BY <2>2 DEF Amend
        <3> QED BY <3>1, <3>2 DEF FrozenFirst
    <2> QED BY <2>1, <2>2
<1> QED BY <1>2, <1>3, <1>4 DEF FrozenInv

LEMMA FrozenEdit ==
    ASSUME FrozenInv, NEW n, Edit(n) PROVE FrozenInv'
<1>1. UNCHANGED <<record, amended, process, out, pins, mode>>
    BY DEF Edit
<1>2. ScriptsAreProcesses' /\ OutputsAreKept' /\ Outputs' = Outputs
    BY <1>1, OutputsStay DEF FrozenInv, ScriptsAreProcesses
<1>3. mode.quiet => \A p \in Processes : process[p].pc = "idle"
    BY DEF Edit, IsRunning
<1>4. ReadsAreFrozen' /\ NumbersRestOnFrozenData' /\ FrozenFirst'
    BY <1>1, <1>2, <1>3 DEF FrozenInv, ReadsAreFrozen, NumbersRestOnFrozenData, FrozenFirst, IsRunning
<1> QED BY <1>2, <1>4 DEF FrozenInv

LEMMA FrozenStart ==
    ASSUME FrozenInv, NEW p \in Processes, NEW script, NEW s, Launch(p, script, s) PROVE FrozenInv'
<1>1. ScriptsAreProcesses /\ OutputsAreKept /\ FrozenFirst /\ ReadsAreFrozen /\ NumbersRestOnFrozenData
    BY DEF FrozenInv
<1>2. UNCHANGED <<file, record, amended, out, pins, mode>> /\ record # None
    BY DEF Launch
<1>3. ScriptsAreProcesses' /\ process'[p].pc = "verify" /\ \A q \in Processes \ {p} : process'[q] = process[q]
    <2>1. /\ ScriptsAreProcesses'
          /\ process'[p] = [script |-> script, source |-> s, pc |-> "verify", from |-> OpenedLog(script, s)]
          /\ \A q \in Processes \ {p} : process'[q] = process[q]
        BY <1>1, StartScript, Zenon
    <2> QED BY <2>1
<1>4. OutputsAreKept' /\ Outputs' = Outputs
    BY <1>1, <1>2, OutputsStay
<1>5. FrozenFirst'
    BY <1>1, <1>2 DEF FrozenFirst
<1>6. ReadsAreFrozen' /\ NumbersRestOnFrozenData'
    BY <1>1, <1>2, <1>3, <1>4 DEF ReadsAreFrozen, NumbersRestOnFrozenData, Versions
<1> QED BY <1>3, <1>4, <1>5, <1>6 DEF FrozenInv

LEMMA FrozenVerify ==
    ASSUME FrozenInv, NEW p \in Processes, Verify(p) PROVE FrozenInv'
<1>1. ScriptsAreProcesses /\ OutputsAreKept /\ FrozenFirst /\ ReadsAreFrozen /\ NumbersRestOnFrozenData
    BY DEF FrozenInv
<1>2. UNCHANGED <<file, record, amended, out, pins, mode>> /\ IsRunning(p) /\ Problems = {}
    BY DEF Verify, IsRunning
<1>3. ScriptsAreProcesses' /\ \A q \in Processes \ {p} : process'[q] = process[q]
    BY <1>1, VerifyScript
<1>4. OutputsAreKept' /\ Outputs' = Outputs
    BY <1>1, <1>2, OutputsStay
<1>5. IsFreeze(record) /\ Pinned(record, amended) \in pins
    BY <1>1, <1>2 DEF FrozenFirst
<1>6. Versions(file) \in pins
    BY <1>2, <1>5, VerifiedFiles
<1>7. FrozenFirst' /\ ReadsAreFrozen' /\ NumbersRestOnFrozenData'
    BY <1>1, <1>2, <1>4, <1>5, <1>6 DEF FrozenFirst, ReadsAreFrozen, NumbersRestOnFrozenData, Versions
<1> QED BY <1>3, <1>4, <1>7 DEF FrozenInv

LEMMA FrozenEnd ==
    ASSUME FrozenInv, NEW p \in Processes, Stop(p) \/ Output(p) PROVE FrozenInv'
<1>1. ScriptsAreProcesses /\ OutputsAreKept /\ FrozenFirst /\ ReadsAreFrozen /\ NumbersRestOnFrozenData
    BY DEF FrozenInv
<1>2. /\ process' = [process EXCEPT ![p] = NoScript]
      /\ UNCHANGED <<file, record, amended, pins, mode>>
    BY OutputWrites DEF Stop, Writes
<1>3. ScriptsAreProcesses' /\ process'[p].pc = "idle" /\ \A q \in Processes \ {p} : process'[q] = process[q]
    BY <1>1, <1>2, EndScript, IdleProcess
<1>4. FrozenFirst'
    BY <1>1, <1>2, <1>3 DEF FrozenFirst, IsRunning
<1>5. ReadsAreFrozen'
    BY <1>1, <1>2, <1>3 DEF ReadsAreFrozen, Versions
<1>6. OutputsAreKept' /\ NumbersRestOnFrozenData'
    <2>1. CASE Stop(p)
        <3>1. UNCHANGED out
            BY <2>1 DEF Stop
        <3>2. OutputsAreKept' /\ Outputs' = Outputs
            BY <1>1, <3>1, OutputsStay
        <3> QED BY <1>1, <1>2, <3>2 DEF NumbersRestOnFrozenData
    <2>2. CASE Output(p)
        <3>1. OutputsGrow
            BY <1>1, <2>2, OutputGrows
        <3>2. mode.quiet => Versions(file) \in pins
            BY <1>1, <2>2, OutputWrites DEF ReadsAreFrozen, Writes
        <3>3. \A o \in Outputs' : o \in Outputs \/ o.versions = Versions(file)
            BY <3>1 DEF OutputsGrow, NewOutput
        <3> QED BY <1>1, <1>2, <3>1, <3>2, <3>3 DEF OutputsGrow, NumbersRestOnFrozenData
    <2> QED BY <2>1, <2>2
<1> QED BY <1>3, <1>4, <1>5, <1>6 DEF FrozenInv

LEMMA FrozenNext ==
    ASSUME FrozenInv, [ExperimentNext]_experimentVars PROVE FrozenInv'
<1>1. CASE UNCHANGED experimentVars \/ Export
    <2>1. UNCHANGED <<file, record, amended, process, pins, mode>> /\ (UNCHANGED out \/ Export)
        BY <1>1 DEF experimentVars, Export
    <2>2. ScriptsAreProcesses' /\ OutputsAreKept' /\ Outputs' = Outputs
        BY <2>1, OutputsStay DEF FrozenInv, ScriptsAreProcesses
    <2> QED BY <2>1, <2>2 DEF FrozenInv, FrozenFirst, ReadsAreFrozen, NumbersRestOnFrozenData, IsRunning, Versions
<1>2. CASE FreezeWrite \/ Amend \/ \E n \in mode.edited : Edit(n)
    BY <1>2, FrozenFreeze, FrozenEdit
<1>3. ASSUME NEW p \in Processes, \E script \in mode.scripts : Launch(p, script, mode.source) PROVE FrozenInv'
    BY <1>3, FrozenStart
<1>4. ASSUME NEW p \in Processes, Verify(p) PROVE FrozenInv'
    BY <1>4, FrozenVerify
<1>5. ASSUME NEW p \in Processes, Stop(p) \/ Output(p) PROVE FrozenInv'
    BY <1>5, FrozenEnd
<1> QED BY <1>1, <1>2, <1>3, <1>4, <1>5 DEF ExperimentNext, Output

\* If files are edited only while no script runs, every number and the release rest on a state
\* that a freeze record with its amendments pinned, however often the benchmark is frozen or
\* amended in between and whatever scripts overlap (freeze.py 129-141, dataset.py 99-114,
\* release.py 72-77).
THEOREM EveryNumberRestsOnFrozenData ==
    ExperimentSpec => []NumbersRestOnFrozenData
<1>1. FrozenInv /\ [ExperimentNext]_experimentVars => FrozenInv'
    BY FrozenNext
<1>2. FrozenInv => NumbersRestOnFrozenData
    BY DEF FrozenInv
<1> QED BY <1>1, <1>2, FrozenInit, PTL DEF ExperimentSpec

----------------------------------------------------------------------------
(* Types *)

Active == {p \in Processes : IsRunning(p)}

(***************************************************************************)
(* What bounds the counters: a version counts edits, and the readings of   *)
(* the locked test are scripts that were started and have ended.           *)
(***************************************************************************)
CountersAreBounded ==
    /\ DOMAIN spent = {"runs", "edits", "freezes"}
    /\ spent.runs \in 0 .. MaxRuns /\ spent.edits \in 0 .. MaxEdits
    /\ DOMAIN file = Files
    /\ \A n \in Files : file[n] \in 0 .. spent.edits
    /\ IsFiniteSet(Active) /\ tested \in Nat
    /\ tested + Cardinality(Active) <= spent.runs

NamesAreKnown ==
    /\ mode \in Modes
    /\ record # None => DOMAIN record = Frozen
    /\ \A p \in Processes : process[p].script \in Scripts \cup {None}

TypesInv == LockedTestInv /\ CountersAreBounded /\ NamesAreKnown

LEMMA TypesInit ==
    ASSUME ModesAssumption, ExperimentInit PROVE TypesInv
<1>1. \A p \in Processes : process[p] = NoScript
    BY DEF ExperimentInit
<1>2. Active = {}
    BY <1>1, IdleProcess DEF Active, IsRunning
<1>3. spent = [runs |-> 0, edits |-> 0, freezes |-> 0] /\ file = [n \in Files |-> 0] /\ tested = 0
    BY DEF ExperimentInit
<1>4. CountersAreBounded
    BY <1>2, <1>3, FS_EmptySet DEF CountersAreBounded, ModesAssumption
<1>5. NamesAreKnown
    BY <1>1, IdleProcess DEF ExperimentInit, NamesAreKnown
<1> QED BY <1>4, <1>5, LockedTestInit DEF TypesInv

LEMMA TypesStay ==
    ASSUME CountersAreBounded, NamesAreKnown, UNCHANGED <<file, process, tested, mode>>,
           spent' = spent \/ spent' = [spent EXCEPT !.freezes = spent.freezes + 1],
           record' = record \/ record' = Versions(file)
    PROVE  CountersAreBounded' /\ NamesAreKnown'
<1>1. DOMAIN spent' = DOMAIN spent /\ spent'.runs = spent.runs /\ spent'.edits = spent.edits
    BY DEF CountersAreBounded
<1>2. Active' = Active
    BY DEF Active, IsRunning
<1>3. CountersAreBounded'
    BY <1>1, <1>2 DEF CountersAreBounded
<1>4. NamesAreKnown'
    BY DEF NamesAreKnown, Versions
<1> QED BY <1>3, <1>4

LEMMA TypesEdit ==
    ASSUME ModesAssumption, CountersAreBounded, NamesAreKnown, NEW n \in mode.edited, Edit(n)
    PROVE  CountersAreBounded' /\ NamesAreKnown'
<1>1. n \in Files
    BY DEF ModesAssumption, NamesAreKnown
<1>2. /\ UNCHANGED <<record, process, tested, mode>>
      /\ spent' = [spent EXCEPT !.edits = @ + 1] /\ spent.edits < MaxEdits
      /\ file' = [file EXCEPT ![n] = @ + 1]
    BY DEF Edit
<1>3. /\ DOMAIN spent' = DOMAIN spent /\ spent'.runs = spent.runs
      /\ spent'.edits = spent.edits + 1 /\ spent'.edits \in 0 .. MaxEdits
    BY <1>2 DEF CountersAreBounded, ModesAssumption
<1>4. DOMAIN file' = Files /\ \A m \in Files : file'[m] = file[m] \/ file'[m] = file[m] + 1
    BY <1>1, <1>2 DEF CountersAreBounded
<1>5. \A m \in Files : file'[m] \in 0 .. spent'.edits
    BY <1>3, <1>4 DEF CountersAreBounded, ModesAssumption
<1>6. Active' = Active
    BY <1>2 DEF Active, IsRunning
<1>7. CountersAreBounded'
    BY <1>2, <1>3, <1>4, <1>5, <1>6 DEF CountersAreBounded
<1>8. NamesAreKnown'
    BY <1>2 DEF NamesAreKnown
<1> QED BY <1>7, <1>8

LEMMA TypesStart ==
    ASSUME ModesAssumption, ScriptsAreProcesses, CountersAreBounded, NamesAreKnown,
           NEW p \in Processes, NEW script \in mode.scripts, NEW s, Launch(p, script, s)
    PROVE  CountersAreBounded' /\ NamesAreKnown'
<1>1. /\ ~ IsRunning(p) /\ process'[p].script = script /\ process'[p].pc = "verify"
      /\ \A q \in Processes \ {p} : process'[q] = process[q]
    <2>1. /\ ~ IsRunning(p)
          /\ process'[p] = [script |-> script, source |-> s, pc |-> "verify", from |-> OpenedLog(script, s)]
          /\ \A q \in Processes \ {p} : process'[q] = process[q]
        BY StartScript, Zenon
    <2> QED BY <2>1
<1>2. /\ UNCHANGED <<file, record, tested, mode>>
      /\ spent' = [spent EXCEPT !.runs = @ + 1] /\ spent.runs < MaxRuns
    BY DEF Launch
<1>3. /\ DOMAIN spent' = DOMAIN spent /\ spent'.edits = spent.edits
      /\ spent'.runs = spent.runs + 1 /\ spent'.runs \in 0 .. MaxRuns
    BY <1>2 DEF CountersAreBounded, ModesAssumption
<1>4. Active' = Active \cup {p} /\ p \notin Active
    BY <1>1 DEF Active, IsRunning
<1>5. /\ IsFiniteSet(Active') /\ Cardinality(Active) \in Nat
      /\ Cardinality(Active') = Cardinality(Active) + 1
    BY <1>4, FS_AddElement, FS_CardinalityType DEF CountersAreBounded
<1>6. CountersAreBounded'
    BY <1>2, <1>3, <1>5 DEF CountersAreBounded
<1>7. script \in Scripts
    BY DEF ModesAssumption, NamesAreKnown
<1>8. NamesAreKnown'
    BY <1>1, <1>2, <1>7 DEF NamesAreKnown
<1> QED BY <1>6, <1>8

LEMMA TypesVerify ==
    ASSUME ScriptsAreProcesses, CountersAreBounded, NamesAreKnown, NEW p \in Processes, Verify(p)
    PROVE  CountersAreBounded' /\ NamesAreKnown'
<1>1. /\ process[p].pc = "verify" /\ process'[p].pc = "read" /\ process'[p].script = process[p].script
      /\ \A q \in Processes \ {p} : process'[q] = process[q]
    BY VerifyScript DEF Verify
<1>2. UNCHANGED <<file, record, tested, mode, spent>>
    BY DEF Verify
<1>3. Active' = Active
    BY <1>1 DEF Active, IsRunning
<1>4. CountersAreBounded'
    BY <1>2, <1>3 DEF CountersAreBounded
<1>5. NamesAreKnown'
    BY <1>1, <1>2 DEF NamesAreKnown
<1> QED BY <1>4, <1>5

LEMMA TypesEnd ==
    ASSUME ScriptsAreProcesses, CountersAreBounded, NamesAreKnown, NEW p \in Processes, Stop(p) \/ Output(p)
    PROVE  CountersAreBounded' /\ NamesAreKnown'
<1>1. /\ process' = [process EXCEPT ![p] = NoScript]
      /\ UNCHANGED <<file, record, spent, mode>>
    BY OutputWrites DEF Stop, Writes
<1>2. process'[p] = NoScript /\ \A q \in Processes \ {p} : process'[q] = process[q]
    BY <1>1, EndScript
<1>3. p \in Active
    BY OutputWrites DEF Stop, Writes, Active, IsRunning
<1>4. Active' = Active \ {p}
    BY <1>2, IdleProcess DEF Active, IsRunning
<1>5. /\ IsFiniteSet(Active') /\ Cardinality(Active) \in Nat
      /\ Cardinality(Active') = Cardinality(Active) - 1
    BY <1>3, <1>4, FS_RemoveElement, FS_CardinalityType DEF CountersAreBounded
<1>6. tested' = tested \/ tested' = tested + 1
    BY DEF Stop, Output, WriteTable, WriteArtifact, WriteGuard, Evaluate, Release
<1>7. CountersAreBounded'
    BY <1>1, <1>5, <1>6 DEF CountersAreBounded
<1>8. NamesAreKnown'
    BY <1>1, <1>2, IdleProcess DEF NamesAreKnown
<1> QED BY <1>7, <1>8

LEMMA TypesNext ==
    ASSUME ModesAssumption, TypesInv, [ExperimentNext]_experimentVars PROVE TypesInv'
<1>1. LockedTestInv' /\ ScriptsAreProcesses /\ CountersAreBounded /\ NamesAreKnown
    BY LockedTestNext DEF TypesInv, LockedTestInv
<1>2. CASE FreezeWrite \/ Amend \/ Export \/ UNCHANGED experimentVars
    <2>1. /\ UNCHANGED <<file, process, tested, mode>>
          /\ record' = record \/ record' = Versions(file)
          /\ spent' = spent \/ spent' = [spent EXCEPT !.freezes = spent.freezes + 1]
        BY <1>2 DEF FreezeWrite, Amend, Export, experimentVars
    <2> QED BY <1>1, <2>1, TypesStay DEF TypesInv
<1>3. ASSUME NEW n \in mode.edited, Edit(n) PROVE TypesInv'
    BY <1>1, <1>3, TypesEdit DEF TypesInv
<1>4. ASSUME NEW p \in Processes, \E script \in mode.scripts : Launch(p, script, mode.source) PROVE TypesInv'
    BY <1>1, <1>4, TypesStart DEF TypesInv
<1>5. ASSUME NEW p \in Processes, Verify(p) PROVE TypesInv'
    BY <1>1, <1>5, TypesVerify DEF TypesInv
<1>6. ASSUME NEW p \in Processes, Stop(p) \/ Output(p) PROVE TypesInv'
    BY <1>1, <1>6, TypesEnd DEF TypesInv
<1> QED BY <1>2, <1>3, <1>4, <1>5, <1>6 DEF ExperimentNext, Output

LEMMA TypesImply ==
    ASSUME ModesAssumption, TypesInv PROVE ExperimentTypeOK
<1>1. ScriptsAreProcesses /\ OutputsAreKept /\ LearnedIsVisible /\ CountersAreBounded /\ NamesAreKnown
    BY DEF TypesInv, LockedTestInv
<1>2. \A n \in Files : file[n] \in 0 .. MaxEdits
    BY <1>1 DEF CountersAreBounded, ModesAssumption
<1>3. tested \in 0 .. MaxRuns
    <2>1. Cardinality(Active) \in Nat
        BY <1>1, FS_CardinalityType DEF CountersAreBounded
    <2> QED BY <1>1, <2>1 DEF CountersAreBounded, ModesAssumption
<1>4. ASSUME NEW s \in Sources, out.artifact[s] # None PROVE out.artifact[s].rows \subseteq Ids
    BY <1>1, <1>4, LearnedIs DEF LearnedIsVisible, Visible
<1> QED BY <1>1, <1>2, <1>3, <1>4 DEF ExperimentTypeOK, ScriptsAreProcesses, NamesAreKnown

\* The types of the frozen files, the scripts and their outputs, and the bound of the readings.
THEOREM ExperimentTypes ==
    ASSUME ModesAssumption PROVE ExperimentSpec => []ExperimentTypeOK
<1>1. TypesInv /\ [ExperimentNext]_experimentVars => TypesInv'
    BY TypesNext
<1> QED BY <1>1, TypesInit, TypesImply, PTL DEF ExperimentSpec

----------------------------------------------------------------------------
(* Making the benchmark *)

Department == {a.department : a \in Articles} \cup {Depts[i] : i \in DOMAIN Depts}

\* Scenarios as they are planned: C2 has no article, A and B have one that is served, C1 one
\* that is withheld.
PlannedScenarios ==
    {s \in [type : TypeSet, article : Articles \cup {None}, department : Department] :
        /\ s.type = "C2" => s.article = None
        /\ s.type # "C2" => s.article \in Articles /\ s.department = s.article.department
        /\ s.type \in {"A", "B"} => s.article.served
        /\ s.type = "C1" => ~ s.article.served}

Texts == {<<ReplyOf[m][n].text, b>> : m \in LlmModels, n \in Nat, b \in BOOLEAN}

RecordSet ==
    [id : Nat, group : Nat, type : TypeSet, department : Department,
     gold : SUBSET {a.id : a \in Articles}, uncovered : BOOLEAN, text : Texts]

GoldOf(s) == IF s.article = None THEN {} ELSE {s.article.id}

\* The i-th record is a ticket of a scenario of the plan p.
FromPlan(r, i, p) ==
    /\ r.id = i
    /\ r.group \in 1 .. Len(p)
    /\ r.type = p[r.group].type
    /\ r.department = p[r.group].department
    /\ r.gold = GoldOf(p[r.group])
    /\ r.type = "B" => r.uncovered

FitsPlan(rs, p) ==
    /\ p \in Seq(PlannedScenarios)
    /\ rs \in Seq(RecordSet)
    /\ \A i \in 1 .. Len(rs) : FromPlan(rs[i], i, p)

RecordsOf(rs, t) == {i \in DOMAIN rs : rs[i].type = t}

GeneratorSet ==
    [plan : Seq(PlannedScenarios), at : Nat \ {0}, k : Nat, attempt : Nat, made : [TypeSet -> Nat],
     records : Seq(RecordSet), asked : SUBSET (Nat \X Nat \X Nat), calls : Nat]

\* The request q was made before the one for paraphrase k of scenario at with this seed.
Passed(q, at, k, seed) ==
    \/ q[1] < at
    \/ q[1] = at /\ q[2] < k
    \/ q[1] = at /\ q[2] = k /\ q[3] < seed

\* A generator at work: what it has made and asked, and that it may ask again.
GeneratorIsSound(g) ==
    /\ g \in GeneratorSet
    /\ FitsPlan(g.records, g.plan)
    /\ \A t \in TypeSet : Cardinality(RecordsOf(g.records, t)) = g.made[t] /\ g.made[t] <= Quota[t]
    /\ g.attempt > 0 => g.at <= Len(g.plan) /\ g.made[g.plan[g.at].type] < Quota[g.plan[g.at].type]
    /\ IsFiniteSet(g.asked) /\ Cardinality(g.asked) = g.calls
    /\ \A q \in g.asked : Passed(q, g.at, g.k, SeedOf(g.at, g.k, g.attempt))

FileIsSound(rs) ==
    /\ \E p \in Seq(PlannedScenarios) : FitsPlan(rs, p)
    /\ \A t \in TypeSet : Cardinality(RecordsOf(rs, t)) <= Quota[t]

MakingInv ==
    /\ llm \in LlmModels
    /\ gen # None => GeneratorIsSound(gen)
    /\ ticketsFile # None => FileIsSound(ticketsFile)

\* The ticket types.
LEMMA TypeSetIs == TypeSet = {"A", "B", "C1", "C2"} /\ \A t \in TypeSet : TypeShare[t] \in Nat
BY DEF TypeSet, TypeShare

\* Quotas are numbers.
LEMMA QuotasAreNumbers ==
    ASSUME MakingAssumption
    PROVE  \A t \in TypeSet : Quota[t] \in Nat
<1> SUFFICES ASSUME NEW t \in TypeSet PROVE Quota[t] \in Nat
    OBVIOUS
<1> DEFINE floor == (N * TypeShare[t]) \div 100
<1>1. floor \in Nat
    <2>1. PICK n \in Nat, m \in Nat : n = N /\ m = TypeShare[t]
        BY TypeSetIs DEF MakingAssumption
    <2>2. n * m \in Nat
        BY <2>1
    <2>3. PICK x \in Nat : x = n * m
        BY <2>2
    <2>4. x \div 100 \in Nat
        OBVIOUS
    <2> QED BY <2>1, <2>3, <2>4
<1>2. Quota[t] = floor \/ Quota[t] = floor + 1
    BY DEF Quota
<1> QED BY <1>1, <1>2

\* Going round a list stays in it.
LEMMA RoundAndRound ==
    ASSUME NEW l \in Nat \ {0}, NEW i \in Nat \ {0}
    PROVE  ((i - 1) % l) + 1 \in 1 .. l
<1>1. \A j \in Nat : j % l \in 0 .. l - 1
    OBVIOUS
<1>2. i - 1 \in Nat
    OBVIOUS
<1>3. (i - 1) % l \in 0 .. l - 1
    BY <1>1, <1>2
<1> QED BY <1>3

\* The scenarios of one type are planned ones.
LEMMA ScenariosArePlanned ==
    ASSUME MakingAssumption, NEW t \in TypeSet, NEW plan \in PlansFor(t)
    PROVE  plan \in Seq(PlannedScenarios)
<1> DEFINE c == CeilDiv(N * TypeShare[t], 100 * Paraphrases)
           f == (N * TypeShare[t]) \div (100 * Paraphrases)
<1>a. PICK order \in SetToSeqs(Pool(t)) : plan \in {ScenariosOf(t, order, n) : n \in ScenarioCounts(t, order)}
    BY DEF PlansFor
<1>0. PICK n \in ScenarioCounts(t, order) : plan = ScenariosOf(t, order, n)
    BY <1>a
<1>1. n \in Nat /\ (t # "C2" /\ order = <<>> => n = 0)
    <2>1. c \in Int /\ f \in Int
        <3>1. \A x, m \in Nat : x * m \in Nat
            OBVIOUS
        <3>2. N * TypeShare[t] \in Nat
            BY <3>1, TypeSetIs DEF MakingAssumption
        <3>3. 100 * Paraphrases \in Nat \ {0}
            BY DEF MakingAssumption
        <3>4. \A a \in Nat, b \in Nat \ {0} : (a + b - 1) \div b \in Int /\ a \div b \in Int
            OBVIOUS
        <3> QED BY <3>2, <3>3, <3>4 DEF CeilDiv
    <2>2. n \in IF t # "C2" /\ order = <<>> THEN {0} ELSE {Max({1, k}) : k \in c .. f + 1}
        BY DEF ScenarioCounts
    <2> HIDE DEF c, f
    <2>3. ASSUME NEW k \in c .. f + 1
          PROVE  Max({1, k}) \in Nat
        <3>1. k \in Int
            BY <2>1
        <3>2. \E m \in {1, k} : \A y \in {1, k} : m >= y
            BY <3>1
        <3>3. Max({1, k}) \in {1, k} /\ Max({1, k}) >= 1
            BY <3>1, <3>2 DEF Max
        <3> QED BY <3>1, <3>3
    <2>4. CASE t # "C2" /\ order = <<>>
        BY <2>2, <2>4
    <2>5. CASE ~ (t # "C2" /\ order = <<>>)
        <3>1. PICK k \in c .. f + 1 : n = Max({1, k})
            BY <2>2, <2>5
        <3> QED BY <2>3, <2>5, <3>1
    <2> QED BY <2>4, <2>5
<1> DEFINE at(i) == ((i - 1) % Len(order)) + 1
<1>2. order \in Seq(Pool(t))
    <2>1. Pool(t) \in SUBSET Articles
        BY DEF Pool
    <2>2. Cardinality(Pool(t)) \in Nat
        BY <2>1, FS_Subset, FS_CardinalityType DEF MakingAssumption
    <2> QED BY <2>2 DEF SetToSeqs
<1>3. ASSUME order # <<>>, NEW i \in Nat \ {0}
      PROVE  order[at(i)] \in Pool(t)
    <2>1. Len(order) \in Nat \ {0} /\ DOMAIN order = 1 .. Len(order)
        BY <1>2, <1>3, EmptySeq
    <2>2. at(i) \in 1 .. Len(order)
        BY <2>1, RoundAndRound
    <2> QED BY <1>2, <2>1, <2>2
<1>4. ASSUME NEW i \in Nat \ {0}
      PROVE  Depts[((i - 1) % Len(Depts)) + 1] \in Department
    <2>1. Len(Depts) \in Nat \ {0} /\ DOMAIN Depts = 1 .. Len(Depts)
        BY EmptySeq DEF MakingAssumption
    <2>2. ((i - 1) % Len(Depts)) + 1 \in 1 .. Len(Depts)
        BY <2>1, RoundAndRound
    <2> QED BY <2>1, <2>2 DEF Department
<1> DEFINE s(i) == [type |-> t,
                    article |-> IF order = <<>> THEN None ELSE order[at(i)],
                    department |-> IF order = <<>> THEN Depts[((i - 1) % Len(Depts)) + 1]
                                   ELSE order[at(i)].department]
<1>5. ASSUME NEW i \in 1 .. n PROVE s(i) \in PlannedScenarios
    <2>1. i \in Nat \ {0}
        BY <1>1
    <2>2. t # "C2" => order # <<>>
        BY <1>1
    <2>3. t = "C2" => order = <<>>
        <3>1. t = "C2" => Pool(t) = {}
            BY DEF Pool
        <3> QED BY <1>2, <3>1
    <2>4. CASE order = <<>>
        BY <1>4, <2>1, <2>2, <2>4 DEF PlannedScenarios
    <2>5. CASE order # <<>>
        <3>1. PICK a : a = order[at(i)] /\ a \in Pool(t)
            BY <1>3, <2>1, <2>5
        <3>2. t # "C2" /\ a \in Articles
            BY <2>3, <2>5, <3>1 DEF Pool
        <3>3. (t \in {"A", "B"} => a.served) /\ (t = "C1" => ~ a.served)
            BY <3>1, <3>2 DEF Pool
        <3>4. a.department \in Department
            BY <3>2 DEF Department
        <3>5. s(i) = [type |-> t, article |-> a, department |-> a.department]
            BY <2>5, <3>1
        <3> HIDE DEF s
        <3> QED BY <3>2, <3>3, <3>4, <3>5 DEF PlannedScenarios
    <2> QED BY <2>4, <2>5
<1>6. plan = [i \in 1 .. n |-> s(i)]
    BY <1>0 DEF ScenariosOf
<1> HIDE DEF s
<1> QED BY <1>1, <1>5, <1>6

\* So are those of a plan.
LEMMA PlansArePlanned ==
    ASSUME MakingAssumption, NEW p \in ScenarioPlans
    PROVE  p \in Seq(PlannedScenarios)
<1>1. PICK a \in PlansFor("A"), b \in PlansFor("B"), c \in PlansFor("C1"), d \in PlansFor("C2") :
          p = a \o b \o c \o d
    BY DEF ScenarioPlans
<1>2. /\ a \in Seq(PlannedScenarios) /\ b \in Seq(PlannedScenarios)
      /\ c \in Seq(PlannedScenarios) /\ d \in Seq(PlannedScenarios)
    BY TypeSetIs, ScenariosArePlanned
<1> QED BY <1>1, <1>2

\* What the records of a file have in common with the plan they were made for.
LEMMA RecordIs ==
    ASSUME MakingAssumption, NEW rs, NEW p, FitsPlan(rs, p), NEW i \in DOMAIN rs
    PROVE  /\ i \in Nat /\ DOMAIN rs = 1 .. Len(rs) /\ Len(rs) \in Nat
           /\ rs[i] \in RecordSet /\ FromPlan(rs[i], i, p)
           /\ p[rs[i].group] \in PlannedScenarios
           /\ rs[i].type = "C2" => rs[i].gold = {}
           /\ rs[i].type # "C2" =>
                 \E a \in Articles : /\ rs[i].gold = {a.id} /\ rs[i].department = a.department
                                     /\ rs[i].type \in {"A", "B"} => a.served
                                     /\ rs[i].type = "C1" => ~ a.served
<1>1. rs \in Seq(RecordSet) /\ p \in Seq(PlannedScenarios)
    BY DEF FitsPlan
<1>2. i \in Nat /\ DOMAIN rs = 1 .. Len(rs) /\ Len(rs) \in Nat /\ rs[i] \in RecordSet
    BY <1>1
<1>3. FromPlan(rs[i], i, p)
    BY <1>2 DEF FitsPlan
<1>4. PICK s \in PlannedScenarios : s = p[rs[i].group]
    BY <1>1, <1>3 DEF FromPlan
<1>5. rs[i].type = s.type /\ rs[i].department = s.department /\ rs[i].gold = GoldOf(s)
    BY <1>3, <1>4 DEF FromPlan
<1>6. s.type = "C2" => GoldOf(s) = {}
    BY <1>4 DEF PlannedScenarios, GoldOf
<1>7. ASSUME s.type # "C2"
      PROVE  \E a \in Articles : /\ GoldOf(s) = {a.id} /\ s.department = a.department
                                 /\ s.type \in {"A", "B"} => a.served
                                 /\ s.type = "C1" => ~ a.served
    <2>1. /\ s.article \in Articles /\ s.department = s.article.department
          /\ s.type \in {"A", "B"} => s.article.served
          /\ s.type = "C1" => ~ s.article.served
        BY <1>4, <1>7 DEF PlannedScenarios
    <2>2. s.article # None
        BY <2>1 DEF MakingAssumption
    <2>3. GoldOf(s) = {s.article.id}
        BY <2>2 DEF GoldOf
    <2> QED BY <2>1, <2>3
<1> QED BY <1>2, <1>3, <1>4, <1>5, <1>6, <1>7

\* Tickets of one scenario agree in type, department and gold articles.
LEMMA GroupIsOneScenario ==
    ASSUME MakingAssumption, NEW rs, NEW p, FitsPlan(rs, p), NEW i \in DOMAIN rs, NEW j \in DOMAIN rs,
           rs[i].group = rs[j].group
    PROVE  rs[i].type = rs[j].type /\ rs[i].department = rs[j].department /\ rs[i].gold = rs[j].gold
<1>1. FromPlan(rs[i], i, p) /\ FromPlan(rs[j], j, p)
    BY RecordIs
<1> QED BY <1>1 DEF FromPlan

\* Validation finds nothing in such a file but repeated texts and the shares.
LEMMA FewProblems ==
    ASSUME MakingAssumption, NEW rs, NEW p, FitsPlan(rs, p)
    PROVE  ProblemsOf(rs) \subseteq {"duplicate text", "shares"}
<1> DEFINE all == ToSet(rs)
           pairs == {q \in (DOMAIN rs) \X (DOMAIN rs) : q[1] # q[2]}
           count(t) == Cardinality({i \in DOMAIN rs : rs[i].type = t})
           sameText == \E q \in pairs : rs[q[1]].text = rs[q[2]].text
           badShares == \E t \in TypeSet :
               Distance(100 * count(t), TypeShare[t] * Len(rs)) > Tolerance * Max({1, Len(rs)})
           ofRecords == UNION {RecordProblems(r) : r \in all}
           ids == {x \in {"duplicate id"} : \E q \in pairs : rs[q[1]].id = rs[q[2]].id}
           mixed == {x \in {"mixed group"} : \E q, r \in all :
                        /\ q.group = r.group
                        /\ <<q.type, q.department, q.gold>> # <<r.type, r.department, r.gold>>}
           texts == {x \in {"duplicate text"} : sameText}
           shares == {x \in {"shares"} : badShares}
<1>1. ProblemsOf(rs) = ofRecords \cup ids \cup texts \cup mixed \cup shares
    BY DEF ProblemsOf
<1>2. all = {rs[i] : i \in DOMAIN rs}
    BY DEF ToSet
<1>3. ASSUME NEW i \in DOMAIN rs PROVE RecordProblems(rs[i]) = {}
    <2> DEFINE r == rs[i]
    <2>1. CASE r.type = "C2"
        <3>1. r.gold = {}
            BY <2>1, RecordIs
        <3> QED BY <2>1, <3>1 DEF RecordProblems
    <2>2. CASE r.type # "C2"
        <3>1. PICK a \in Articles : /\ r.gold = {a.id} /\ r.department = a.department
                                    /\ r.type \in {"A", "B"} => a.served
                                    /\ r.type = "C1" => ~ a.served
            BY <2>2, RecordIs
        <3>2. Known(a.id) /\ ArticleOf(a.id) = a
            BY DEF Known, ArticleOf, MakingAssumption
        <3>3. r.type = "B" => r.uncovered
            BY RecordIs DEF FromPlan
        <3>4. \A id : id \in r.gold <=> id = a.id
            BY <3>1
        <3> HIDE DEF r
        <3>5. r.gold # {}
            BY <3>4
        <3>6. {x \in {"unknown gold"} : \E id \in r.gold : ~ Known(id)} = {}
            BY <3>2, <3>4
        <3>7. {x \in {"department"} : \E id \in r.gold : Known(id) /\ ArticleOf(id).department # r.department} = {}
            BY <3>1, <3>2, <3>4
        <3>8. {x \in {"withheld"} : r.type \in {"A", "B"} /\ \E id \in r.gold : Known(id) /\ ~ ArticleOf(id).served} = {}
            BY <3>1, <3>2, <3>4
        <3>9. {x \in {"served"} : r.type = "C1" /\ \E id \in r.gold : Known(id) /\ ArticleOf(id).served} = {}
            BY <3>1, <3>2, <3>4
        <3>10. {x \in {"no question"} : r.type = "B" /\ ~ r.uncovered} = {}
            BY <3>3
        <3>11. RecordProblems(r) = {}
            BY <2>2, <3>5, <3>6, <3>7, <3>8, <3>9, <3>10 DEF RecordProblems
        <3> QED BY <3>11 DEF r
    <2> QED BY <2>1, <2>2
<1>4. ofRecords = {}
    <2> HIDE DEF all
    <2>1. \A r \in all : RecordProblems(r) = {}
        BY <1>2, <1>3
    <2> QED BY <2>1
<1>5. ids = {}
    <2>1. \A q \in pairs : q[1] \in DOMAIN rs /\ q[2] \in DOMAIN rs /\ q[1] # q[2]
        OBVIOUS
    <2>2. \A i \in DOMAIN rs : rs[i].id = i
        BY RecordIs DEF FromPlan
    <2> HIDE DEF pairs
    <2> QED BY <2>1, <2>2
<1>6. mixed = {}
    <2>1. \A q, r \in all : q.group = r.group => q.type = r.type /\ q.department = r.department /\ q.gold = r.gold
        <3> HIDE DEF all
        <3> QED BY <1>2, GroupIsOneScenario
    <2> HIDE DEF all
    <2>2. ~ \E q, r \in all : /\ q.group = r.group
                              /\ <<q.type, q.department, q.gold>> # <<r.type, r.department, r.gold>>
        BY <2>1
    <2> QED BY <2>2
<1> HIDE DEF ofRecords, ids, mixed, sameText, badShares
<1> QED BY <1>1, <1>4, <1>5, <1>6

----------------------------------------------------------------------------
(* The split of such a file *)

\* A set of numbers has a least one.
LEMMA SomeLeast ==
    ASSUME NEW Q \in SUBSET Nat, Q # {}
    PROVE  \E n \in Q : \A m \in Q : n <= m
<1> DEFINE T == {1 .. n : n \in Q}
<1>1. ASSUME NEW n \in Q
      PROVE  1 .. n \in FiniteSubsetsOf(Nat)
    <2>1. n \in Int /\ 1 .. n \in SUBSET Nat
        OBVIOUS
    <2>2. IsFiniteSet(1 .. n)
        BY <2>1, FS_Interval
    <2> QED BY <2>1, <2>2 DEF FiniteSubsetsOf
<1>2. PICK x \in T : \A y \in T : ~ (<<y, x>> \in StrictSubsetOrdering(Nat))
    <2>1. T # {}
        OBVIOUS
    <2>2. T \subseteq FiniteSubsetsOf(Nat)
        BY <1>1
    <2> HIDE DEF T
    <2> QED BY <2>1, <2>2, FS_StrictSubsetOrderingWellFounded, WFMin
<1>3. PICK n \in Q : x = 1 .. n
    OBVIOUS
<1>4. ASSUME NEW m \in Q, ~ (n <= m)
      PROVE  FALSE
    <2>1. 1 .. m \in T /\ 1 .. m \in SUBSET Nat /\ 1 .. n \in SUBSET Nat
        OBVIOUS
    <2>2. 1 .. m \subseteq 1 .. n /\ n \in 1 .. n /\ n \notin 1 .. m
        BY <1>4
    <2> QED BY <1>2, <1>3, <2>1, <2>2 DEF StrictSubsetOrdering
<1> QED BY <1>4

\* Induction up to n.
LEMMA CountsUp ==
    ASSUME NEW n \in Nat, NEW Q, 0 \in Q, \A k \in 1 .. n : k - 1 \in Q => k \in Q
    PROVE  \A k \in 0 .. n : k \in Q
<1> DEFINE Missed == {k \in 0 .. n : k \notin Q}
<1>1. Missed \in SUBSET Nat
    OBVIOUS
<1>2. SUFFICES ASSUME Missed # {} PROVE FALSE
    OBVIOUS
<1>3. PICK k \in Missed : \A m \in Missed : k <= m
    <2> HIDE DEF Missed
    <2> QED BY <1>1, <1>2, SomeLeast
<1>4. k \in 1 .. n /\ k - 1 \in 0 .. n /\ k - 1 \notin Missed
    BY <1>3
<1> QED BY <1>3, <1>4

\* Definitions by recursion: n steps on A, and what they lead to from base.
Repeated(A, n) == [(1 .. n) \X A -> A]

Repetitions(A, n, base, step) ==
    {g \in [0 .. n -> A] : g[0] = base /\ \A k \in 1 .. n : g[k] = step[<<k, g[k - 1]>>]}

\* What is defined step by step from the step before exists.
LEMMA Repeats ==
    ASSUME NEW A, NEW n \in Nat, NEW base \in A, NEW step \in Repeated(A, n)
    PROVE  Repetitions(A, n, base, step) # {}
<1> DEFINE Is(g, m) == g[0] = base /\ \A k \in 1 .. m : g[k] = step[<<k, g[k - 1]>>]
           Good == {m \in 0 .. n : \E g \in [0 .. m -> A] : Is(g, m)}
<1>1. 0 \in Good
    <2> DEFINE g == [k \in 0 .. 0 |-> base]
    <2>1. g \in [0 .. 0 -> A] /\ g[0] = base /\ 1 .. 0 = {}
        OBVIOUS
    <2> HIDE DEF g
    <2> QED BY <2>1
<1>2. ASSUME NEW m \in 1 .. n, m - 1 \in Good PROVE m \in Good
    <2>1. PICK g \in [0 .. m - 1 -> A] : Is(g, m - 1)
        BY <1>2
    <2> DEFINE h == [k \in 0 .. m |-> IF k = m THEN step[<<m, g[m - 1]>>] ELSE g[k]]
    <2>2. m - 1 \in 0 .. m - 1 /\ \A k \in 0 .. m : k # m => k \in 0 .. m - 1
        OBVIOUS
    <2>3. h \in [0 .. m -> A]
        BY <2>2 DEF Repeated
    <2>4. ASSUME NEW k \in 1 .. m PROVE h[k] = step[<<k, h[k - 1]>>]
        <3>1. k - 1 \in 0 .. m - 1 /\ k - 1 # m
            OBVIOUS
        <3>2. h[k - 1] = g[k - 1]
            BY <3>1
        <3>3. CASE k = m
            <4>1. h[k] = step[<<m, g[m - 1]>>]
                BY <3>3
            <4> HIDE DEF h
            <4> QED BY <3>2, <3>3, <4>1
        <3>4. CASE k # m
            <4>1. k \in 1 .. m - 1
                BY <3>4
            <4>2. g[k] = step[<<k, g[k - 1]>>]
                BY <2>1, <4>1
            <4>3. h[k] = g[k]
                BY <3>4
            <4> HIDE DEF h
            <4> QED BY <3>2, <4>2, <4>3
        <3> QED BY <3>3, <3>4
    <2>5. h[0] = base
        BY <2>1
    <2> HIDE DEF h
    <2> QED BY <2>3, <2>4, <2>5
<1>3. \A m \in 0 .. n : m \in Good
    <2> HIDE DEF Good
    <2> QED BY <1>1, <1>2, CountsUp
<1>4. n \in Good
    <2> HIDE DEF Good
    <2> QED BY <1>3
<1> QED BY <1>4 DEF Repetitions

\* Of finitely many numbers one is largest.
LEMMA LargestNumber ==
    ASSUME NEW n \in Nat \ {0}, NEW G \in [1 .. n -> Int]
    PROVE  \E i \in 1 .. n : \A j \in 1 .. n : G[i] >= G[j]
<1> DEFINE Has(k) == k = 0 \/ \E i \in 1 .. k : \A j \in 1 .. k : G[i] >= G[j]
           Q == {k \in 0 .. n : Has(k)}
<1>1. 0 \in Q
    OBVIOUS
<1>2. ASSUME NEW k \in 1 .. n, k - 1 \in Q PROVE k \in Q
    <2>1. k \in 0 .. n /\ 1 .. k = 1 .. k - 1 \cup {k} /\ \A j \in 1 .. k : G[j] \in Int
        OBVIOUS
    <2>2. CASE k = 1
        <3>1. 1 .. k = {k}
            BY <2>2
        <3>2. \A j \in 1 .. k : G[k] >= G[j]
            BY <2>1, <3>1
        <3> QED BY <2>1, <3>1, <3>2
    <2>3. CASE k # 1
        <3>1. PICK i \in 1 .. k - 1 : \A j \in 1 .. k - 1 : G[i] >= G[j]
            BY <1>2, <2>3
        <3>2. CASE G[i] >= G[k]
            <4>1. \A j \in 1 .. k : G[i] >= G[j]
                BY <2>1, <3>1, <3>2
            <4> QED BY <2>1, <4>1
        <3>3. CASE ~ G[i] >= G[k]
            <4>1. \A j \in 1 .. k : G[k] >= G[j]
                BY <2>1, <3>1, <3>3
            <4> QED BY <2>1, <4>1
        <3> QED BY <3>2, <3>3
    <2> QED BY <2>2, <2>3
<1>3. \A k \in 0 .. n : k \in Q
    <2> HIDE DEF Q
    <2> QED BY <1>1, <1>2, CountsUp
<1>4. n \in Q
    <2> HIDE DEF Q
    <2> QED BY <1>3
<1> QED BY <1>4

\* Splits counts as this module does.
LEMMA OneCardinality == \A Q : Sides!Cardinality(Q) = Cardinality(Q)
BY DEF Sides!Cardinality, Cardinality

TargetList(targets) == targets \in Seq([split : STRING, share : Nat]) /\ targets # <<>>

\* The greedy choice is one of the splits.
LEMMA EmptiestIs ==
    ASSUME NEW targets, TargetList(targets), NEW total \in Nat, NEW filled \in [DOMAIN targets -> Nat]
    PROVE  Sides!Emptiest(targets, total, filled) \in DOMAIN targets
<1> DEFINE l == Len(targets)
           gap(i) == targets[i].share * total - 1000 * filled[i]
           G == [i \in 1 .. l |-> gap(i)]
           T == {i \in DOMAIN targets : \A j \in DOMAIN targets : gap(i) >= gap(j)}
<1>1. l \in Nat \ {0} /\ DOMAIN targets = 1 .. l
    BY EmptySeq DEF TargetList
<1>2. ASSUME NEW i \in 1 .. l PROVE gap(i) \in Int
    <2>1. targets[i].share \in Nat /\ filled[i] \in Nat
        <3> DEFINE T0 == [split : STRING, share : Nat]
        <3>1. targets \in Seq(T0)
            BY DEF TargetList
        <3>2. targets[i] \in T0
            <4> HIDE DEF T0
            <4> QED BY <1>1, <3>1
        <3> QED BY <1>1, <3>2
    <2>2. \A x, y \in Nat : x * y \in Nat
        OBVIOUS
    <2>3. targets[i].share * total \in Nat
        BY <2>1, <2>2
    <2> QED BY <2>1, <2>3
<1>3. G \in [1 .. l -> Int]
    <2> HIDE DEF gap, l
    <2> QED BY <1>2
<1>4. PICK i \in 1 .. l : \A j \in 1 .. l : G[i] >= G[j]
    <2> HIDE DEF G, l
    <2> QED BY <1>1, <1>3, LargestNumber
<1>5. i \in T
    <2> HIDE DEF gap, l
    <2> QED BY <1>1, <1>4
<1>6. T \in SUBSET Nat /\ T # {} /\ T \subseteq DOMAIN targets
    <2> HIDE DEF gap, l
    <2>1. T \subseteq DOMAIN targets
        OBVIOUS
    <2>2. DOMAIN targets \subseteq Nat
        BY <1>1
    <2> QED BY <1>5, <2>1, <2>2
<1>7. Sides!Emptiest(targets, total, filled) = Sides!Min(T)
    BY DEF Sides!Emptiest
<1> HIDE DEF T
<1>8. \E m \in T : \A k \in T : m <= k
    BY <1>6, SomeLeast
<1>9. Sides!Min(T) \in T
    BY <1>8 DEF Sides!Min
<1> QED BY <1>6, <1>7, <1>9

Fills(F, targets, n, keys) ==
    /\ \A e \in F : (\E i \in 1 .. n : e.key = keys[i]) /\ (\E s \in DOMAIN targets : e.split = targets[s].split)
    /\ \A i \in 1 .. n : \E e \in F : e.key = keys[i]

\* Filling the splits gives every key one of the targets, and no other key.
LEMMA FillIs ==
    ASSUME NEW records, IsFiniteSet(DOMAIN records), NEW targets, TargetList(targets),
           NEW n \in Nat, NEW K, NEW keys \in [1 .. n -> K]
    PROVE  Fills(Sides!Fill(records, targets, keys), targets, n, keys)
<1> DEFINE total == Sides!Cardinality(UNION {Sides!Members(records, keys[i]) : i \in DOMAIN keys})
           size(i) == Sides!Size(records, keys[i])
           A == [DOMAIN targets -> Nat]
           base == [s \in DOMAIN targets |-> 0]
           put(f, i) == [f EXCEPT ![Sides!Emptiest(targets, total, f)] = @ + size(i)]
           filled[i \in 0 .. Len(keys)] == IF i = 0 THEN base ELSE put(filled[i - 1], i)
           step == [x \in (1 .. n) \X A |-> put(x[2], x[1])]
<1>1. DOMAIN keys = 1 .. n /\ Len(keys) = n
    OBVIOUS
<1>2. total \in Nat
    <2>1. UNION {Sides!Members(records, keys[i]) : i \in DOMAIN keys} \in SUBSET DOMAIN records
        BY DEF Sides!Members
    <2> QED BY <2>1, FS_Subset, FS_CardinalityType, OneCardinality
<1>3. ASSUME NEW i \in 1 .. n PROVE size(i) \in Nat
    <2>1. Sides!Members(records, keys[i]) \in SUBSET DOMAIN records
        BY DEF Sides!Members
    <2>2. Cardinality(Sides!Members(records, keys[i])) \in Nat
        BY <2>1, FS_Subset, FS_CardinalityType
    <2> QED BY <2>2, OneCardinality DEF Sides!Size
<1>4. ASSUME NEW f \in A, NEW i \in 1 .. n PROVE put(f, i) \in A
    <2>1. Sides!Emptiest(targets, total, f) \in DOMAIN targets
        <3> HIDE DEF total
        <3> QED BY <1>2, EmptiestIs
    <2> HIDE DEF total, size
    <2> QED BY <1>3, <2>1
<1>5. base \in A
    OBVIOUS
<1>6. PICK g \in [0 .. n -> A] : g[0] = base /\ \A k \in 1 .. n : g[k] = step[<<k, g[k - 1]>>]
    <2>1. step \in Repeated(A, n)
        <3> HIDE DEF A, put
        <3> QED BY <1>4 DEF Repeated
    <2> HIDE DEF A, base, step
    <2> QED BY <1>5, <2>1, Repeats DEF Repetitions
<1>7. \A k \in 1 .. n : g[k] = put(g[k - 1], k)
    <2>1. ASSUME NEW k \in 1 .. n PROVE g[k] = put(g[k - 1], k)
        <3>1. <<k, g[k - 1]>> \in (1 .. n) \X A
            <4> HIDE DEF A
            <4> QED BY <1>6
        <3> HIDE DEF A, put
        <3> QED BY <1>6, <3>1
    <2> QED BY <2>1
<1>8. g = [k \in 0 .. n |-> IF k = 0 THEN base ELSE put(g[k - 1], k)]
    <2> HIDE DEF A, base, put
    <2>1. \A k \in 0 .. n : k = 0 \/ k \in 1 .. n
        OBVIOUS
    <2> QED BY <1>6, <1>7, <2>1
<1>9. filled = [k \in 0 .. n |-> IF k = 0 THEN base ELSE put(filled[k - 1], k)]
    <2> DEFINE Is(f) == f = [k \in 0 .. Len(keys) |-> IF k = 0 THEN base ELSE put(f[k - 1], k)]
    <2>1. filled = CHOOSE f : Is(f)
        BY DEF filled
    <2>2. Is(g)
        BY <1>1, <1>8
    <2> HIDE DEF filled, Is
    <2>3. Is(filled)
        BY <2>1, <2>2
    <2> HIDE DEF base, put
    <2> QED BY <1>1, <2>3 DEF Is
<1>10. \A k \in 0 .. n : k \in {j \in 0 .. n : filled[j] \in A}
    <2> DEFINE Q == {j \in 0 .. n : filled[j] \in A}
    <2> HIDE DEF filled, A, base, put
    <2>1. 0 \in Q
        BY <1>5, <1>9
    <2>2. \A k \in 1 .. n : k - 1 \in Q => k \in Q
        BY <1>4, <1>9
    <2>3. \A k \in 0 .. n : k \in Q
        <3> HIDE DEF Q
        <3> QED BY <2>1, <2>2, CountsUp
    <2> QED BY <2>3
<1> DEFINE pick(i) == Sides!Emptiest(targets, total, filled[i - 1])
<1>11. Sides!Fill(records, targets, keys) = {[key |-> keys[i], split |-> targets[pick(i)].split] : i \in DOMAIN keys}
    BY DEF Sides!Fill
<1>12. \A i \in 1 .. n : pick(i) \in DOMAIN targets
    <2> HIDE DEF total, filled
    <2> QED BY <1>2, <1>10, EmptiestIs
<1> DEFINE reply(i) == [key |-> keys[i], split |-> targets[pick(i)].split]
<1>13. \A i \in 1 .. n : reply(i).key = keys[i] /\ reply(i).split = targets[pick(i)].split
    <2> HIDE DEF pick
    <2> QED OBVIOUS
<1>14. Sides!Fill(records, targets, keys) = {reply(i) : i \in 1 .. n}
    BY <1>1, <1>11
<1> HIDE DEF pick, reply
<1> QED BY <1>12, <1>13, <1>14 DEF Fills

\* The orders of a finite set of groups list all of it.
LEMMA OrdersList ==
    ASSUME NEW records, NEW K, IsFiniteSet(K), NEW o \in Sides!Orders(records, K)
    PROVE  /\ Cardinality(K) \in Nat /\ o \in [1 .. Cardinality(K) -> K]
           /\ \A k \in K : \E i \in 1 .. Cardinality(K) : o[i] = k
<1> DEFINE n == Cardinality(K)
<1>1. n \in Nat
    BY FS_CardinalityType
<1>2. o \in [1 .. n -> K] /\ \A i, j \in 1 .. n : i # j => o[i] # o[j]
    BY OneCardinality DEF Sides!Orders, Sides!SetToSeqs
<1>3. IsFiniteSet(1 .. n) /\ Cardinality(1 .. n) = n
    BY <1>1, FS_Interval
<1>4. o \in Injection(1 .. n, K)
    <2> HIDE DEF n
    <2> QED BY <1>2 DEF Injection, IsInjective
<1>5. o \in Surjection(1 .. n, K)
    BY <1>3, <1>4, FS_SameCardinalityBij, FS_Injection
<1> QED BY <1>1, <1>2, <1>5 DEF Surjection

\* Every group of a stratum is put into one of its splits, and no other group.
LEMMA StratumIsFilled ==
    ASSUME NEW records, IsFiniteSet(DOMAIN records), NEW targets, TargetList(targets),
           NEW K, IsFiniteSet(K), NEW o \in Sides!Orders(records, K)
    PROVE  /\ \A e \in Sides!Fill(records, targets, o) :
                 e.key \in K /\ (\E s \in DOMAIN targets : e.split = targets[s].split)
           /\ \A k \in K : \E e \in Sides!Fill(records, targets, o) : e.key = k
<1>1. PICK n \in Nat : o \in [1 .. n -> K] /\ \A k \in K : \E i \in 1 .. n : o[i] = k
    BY OrdersList
<1>2. Fills(Sides!Fill(records, targets, o), targets, n, o)
    BY <1>1, FillIs
<1>3. \A i \in 1 .. n : o[i] \in K
    BY <1>1
<1> DEFINE F == Sides!Fill(records, targets, o)
<1> HIDE DEF F
<1>4. /\ \A e \in F : (\E i \in 1 .. n : e.key = o[i]) /\ (\E s \in DOMAIN targets : e.split = targets[s].split)
      /\ \A i \in 1 .. n : \E e \in F : e.key = o[i]
    BY <1>2 DEF Fills, F
<1>5. \A e \in F : e.key \in K /\ (\E s \in DOMAIN targets : e.split = targets[s].split)
    BY <1>3, <1>4
<1>6. ASSUME NEW k \in K PROVE \E e \in F : e.key = k
    <2>1. PICK i \in 1 .. n : o[i] = k
        BY <1>1
    <2>2. PICK e \in F : e.key = o[i]
        BY <1>4
    <2> QED BY <2>1, <2>2
<1> QED BY <1>5, <1>6 DEF F

\* Tickets of one scenario, or with an article in common, are one group of the split.
LEMMA OneLeakageGroup ==
    ASSUME MakingAssumption, NEW rs, NEW p, FitsPlan(rs, p), NEW i \in DOMAIN rs, NEW j \in DOMAIN rs,
           rs[i].group = rs[j].group \/ rs[i].gold \cap rs[j].gold # {}
    PROVE  Sides!LeakageGroup(rs[i]) = Sides!LeakageGroup(rs[j])
<1>1. CASE rs[i].group = rs[j].group
    <2>1. rs[i].gold = rs[j].gold
        BY <1>1, GroupIsOneScenario
    <2> QED BY <1>1, <2>1 DEF Sides!LeakageGroup
<1>2. CASE rs[i].gold \cap rs[j].gold # {}
    <2>1. rs[i].type # "C2" /\ rs[j].type # "C2"
        BY <1>2, RecordIs
    <2>2. (\E x : rs[i].gold = {x}) /\ (\E y : rs[j].gold = {y})
        BY <2>1, RecordIs
    <2>3. rs[i].gold = rs[j].gold /\ rs[i].gold # {}
        BY <1>2, <2>2
    <2> QED BY <2>3 DEF Sides!LeakageGroup
<1> QED BY <1>1, <1>2

\* A group of the split has only C1 tickets, or none.
LEMMA GroupsAreOfAKind ==
    ASSUME MakingAssumption, NEW rs, NEW p, FitsPlan(rs, p), NEW i \in DOMAIN rs, NEW j \in DOMAIN rs,
           Sides!LeakageGroup(rs[i]) = Sides!LeakageGroup(rs[j])
    PROVE  rs[i].type = "C1" <=> rs[j].type = "C1"
<1>1. (rs[i].gold = {} <=> rs[j].gold = {}) /\ (rs[i].gold # {} => rs[i].gold = rs[j].gold)
    BY DEF Sides!LeakageGroup
<1>2. CASE rs[i].gold = {}
    <2>1. \A k \in DOMAIN rs : rs[k].gold = {} => rs[k].type = "C2"
        BY RecordIs
    <2> QED BY <1>1, <1>2, <2>1
<1>3. CASE rs[i].gold # {}
    <2>1. rs[i].type # "C2" /\ rs[j].type # "C2" /\ rs[i].type \in TypeSet /\ rs[j].type \in TypeSet
        <3>1. rs[i] \in RecordSet /\ rs[j] \in RecordSet
            BY RecordIs
        <3> QED BY <1>1, <1>3, <3>1, RecordIs DEF RecordSet
    <2>2. PICK a \in Articles : /\ rs[i].gold = {a.id}
                                /\ rs[i].type \in {"A", "B"} => a.served
                                /\ rs[i].type = "C1" => ~ a.served
        BY <2>1, RecordIs
    <2>3. PICK b \in Articles : /\ rs[j].gold = {b.id}
                                /\ rs[j].type \in {"A", "B"} => b.served
                                /\ rs[j].type = "C1" => ~ b.served
        BY <2>1, RecordIs
    <2>4. a.id = b.id
        BY <1>1, <1>3, <2>2, <2>3
    <2>5. a = b
        BY <2>4 DEF MakingAssumption
    <2> QED BY <2>1, <2>2, <2>3, <2>5, TypeSetIs
<1> QED BY <1>2, <1>3

\* A group's stratum is of the kind of its tickets.
LEMMA StratumIs ==
    ASSUME MakingAssumption, NEW rs, NEW p, FitsPlan(rs, p), NEW i \in DOMAIN rs
    PROVE  Sides!Stratum(rs, Sides!LeakageGroup(rs[i]))[1] = "C1" <=> rs[i].type = "C1"
<1> DEFINE key == Sides!LeakageGroup(rs[i])
           M == Sides!Members(rs, key)
<1>1. DOMAIN rs \in SUBSET Nat
    <2>1. DOMAIN rs = 1 .. Len(rs) /\ Len(rs) \in Nat
        BY RecordIs
    <2> QED BY <2>1
<1>2. M \in SUBSET Nat /\ i \in M /\ \A k \in M : k \in DOMAIN rs /\ Sides!LeakageGroup(rs[k]) = key
    BY <1>1 DEF Sides!Members
<1>3. Sides!Stratum(rs, key)[1] = rs[Sides!Min(M)].type
    BY DEF Sides!Stratum
<1> HIDE DEF M, key
<1>4. \E m \in M : \A k \in M : m <= k
    BY <1>2, SomeLeast
<1>5. Sides!Min(M) \in M
    BY <1>4 DEF Sides!Min
<1>6. rs[Sides!Min(M)].type = "C1" <=> rs[i].type = "C1"
    BY <1>2, <1>5, GroupsAreOfAKind DEF key
<1> QED BY <1>3, <1>6 DEF key

\* Whatever order the greedy split takes the groups in, the assignment passes its own check.
LEMMA AssignedIsValid ==
    ASSUME MakingAssumption, NEW rs, NEW p, FitsPlan(rs, p), NEW a \in Sides!AssignSplits(rs)
    PROVE  Sides!ValidManifest(rs, a)
<1> DEFINE all == Sides!ToSet(rs)
           of(id) == CHOOSE r \in all : r.id = id
           keys == {Sides!LeakageGroup(r) : r \in all}
           groups(s) == {k \in keys : Sides!Stratum(rs, k) = s}
           strata == {Sides!Stratum(rs, k) : k \in keys}
           fills == [s \in strata |-> {Sides!Fill(rs, Sides!TargetsOf(s), o) : o \in Sides!Orders(rs, groups(s))}]
           pick == {f \in [strata -> UNION Sides!Range(fills)] : \A s \in strata : f[s] \in fills[s]}
           split(f, r) == (CHOOSE e \in UNION Sides!Range(f) : e.key = Sides!LeakageGroup(r)).split
           key(i) == Sides!LeakageGroup(rs[i])
<1>1. all = {rs[i] : i \in DOMAIN rs} /\ IsFiniteSet(DOMAIN rs)
    <2>1. rs \in Seq(RecordSet)
        BY DEF FitsPlan
    <2>2. DOMAIN rs = 1 .. Len(rs) /\ Len(rs) \in Nat
        BY <2>1
    <2>3. IsFiniteSet(1 .. Len(rs))
        BY <2>2, FS_Interval
    <2>4. all = {rs[i] : i \in DOMAIN rs}
        BY DEF Sides!ToSet
    <2> HIDE DEF all
    <2> QED BY <2>2, <2>3, <2>4
<1>2. \A i \in DOMAIN rs : rs[i] \in all /\ rs[i].id = i /\ of(i) = rs[i]
    <2>1. \A i \in DOMAIN rs : rs[i] \in all /\ rs[i].id = i
        BY <1>1, RecordIs DEF FromPlan
    <2>2. ASSUME NEW i \in DOMAIN rs PROVE of(i) = rs[i]
        <3>1. \A r \in all : r.id = i => r = rs[i]
            BY <1>1, <2>1
        <3> QED BY <3>1, <2>1
    <2> QED BY <2>1, <2>2
<1>3. PICK f \in pick : a = [id \in {r.id : r \in all} |-> split(f, of(id))]
    <2>1. Sides!AssignSplits(rs) = {[id \in {r.id : r \in all} |-> split(f, of(id))] : f \in pick}
        BY DEF Sides!AssignSplits
    <2> HIDE DEF pick, split, of, all
    <2>2. a \in {[id \in {r.id : r \in all} |-> split(f, of(id))] : f \in pick}
        BY <2>1
    <2> QED BY <2>2, Zenon
<1>4. \A i \in DOMAIN rs : i \in DOMAIN a /\ a[i] = split(f, rs[i])
    <2>1. \A i \in DOMAIN rs : i \in {r.id : r \in all}
        BY <1>2
    <2> HIDE DEF all, of, split
    <2> QED BY <1>2, <1>3, <2>1
<1>5. DOMAIN f = strata /\ \A s \in strata : \E o \in Sides!Orders(rs, groups(s)) : f[s] = Sides!Fill(rs, Sides!TargetsOf(s), o)
    <2>1. DOMAIN f = strata /\ \A s \in strata : f[s] \in fills[s]
        BY <1>3
    <2> HIDE DEF groups, strata, pick
    <2> QED BY <2>1
<1>6. keys = {key(i) : i \in DOMAIN rs} /\ IsFiniteSet(keys)
    <2>1. keys = {key(i) : i \in DOMAIN rs}
        BY <1>1
    <2>2. [i \in DOMAIN rs |-> key(i)] \in Surjection(DOMAIN rs, keys)
        <3> HIDE DEF key, keys
        <3> QED BY <2>1 DEF Surjection
    <2> QED BY <1>1, <2>1, <2>2, FS_Surjection
<1>7. ASSUME NEW s \in strata
      PROVE  /\ \A e \in f[s] : /\ e.key \in groups(s)
                                /\ \E x \in DOMAIN Sides!TargetsOf(s) : e.split = Sides!TargetsOf(s)[x].split
             /\ \A k \in groups(s) : \E e \in f[s] : e.key = k
    <2>1. PICK o \in Sides!Orders(rs, groups(s)) : f[s] = Sides!Fill(rs, Sides!TargetsOf(s), o)
        BY <1>5
    <2>2. TargetList(Sides!TargetsOf(s))
        BY DEF MakingAssumption, TargetList, Sides!TargetsOf
    <2>3. groups(s) \in SUBSET keys
        OBVIOUS
    <2>4. IsFiniteSet(groups(s))
        BY <1>6, <2>3, FS_Subset
    <2> HIDE DEF all, of, keys, groups, strata, fills, pick, split, key
    <2> QED BY <1>1, <2>1, <2>2, <2>4, StratumIsFilled
<1>8. ASSUME NEW i \in DOMAIN rs
      PROVE  \E x \in DOMAIN Sides!TargetsOf(Sides!Stratum(rs, key(i))) :
                 a[i] = Sides!TargetsOf(Sides!Stratum(rs, key(i)))[x].split
    <2> DEFINE s == Sides!Stratum(rs, key(i))
               e == CHOOSE e \in UNION Sides!Range(f) : e.key = key(i)
    <2>1. key(i) \in keys
        BY <1>6
    <2>2. s \in strata /\ key(i) \in groups(s)
        BY <2>1
    <2>3. \A d : d \in UNION Sides!Range(f) <=> \E t \in strata : d \in f[t]
        <3> HIDE DEF strata
        <3> QED BY <1>5 DEF Sides!Range
    <2>4. a[i] = e.split
        BY <1>4
    <2>5. \E d \in UNION Sides!Range(f) : d.key = key(i)
        <3>1. \E d \in f[s] : d.key = key(i)
            <4> HIDE DEF s, key, groups, strata
            <4> QED BY <1>7, <2>2
        <3> HIDE DEF s, key, strata
        <3> QED BY <2>2, <2>3, <3>1
    <2>6. e \in UNION Sides!Range(f) /\ e.key = key(i)
        <3> HIDE DEF key
        <3> QED BY <2>5
    <2> HIDE DEF e
    <2>7. PICK t \in strata : e \in f[t]
        <3> HIDE DEF strata
        <3> QED BY <2>3, <2>6
    <2>8. e.key \in groups(t) /\ \E x \in DOMAIN Sides!TargetsOf(t) : e.split = Sides!TargetsOf(t)[x].split
        <3> HIDE DEF groups, strata
        <3> QED BY <1>7, <2>7
    <2>9. t = s
        BY <2>6, <2>8
    <2> QED BY <2>4, <2>8, <2>9
<1>9. ASSUME NEW i \in DOMAIN rs
      PROVE  (rs[i].type = "C1" => a[i] \in {"test", "unseen"}) /\ (rs[i].type # "C1" => a[i] # "unseen")
    <2> DEFINE s == Sides!Stratum(rs, key(i))
    <2>1. s[1] = "C1" <=> rs[i].type = "C1"
        BY StratumIs
    <2>2. PICK x \in DOMAIN Sides!TargetsOf(s) : a[i] = Sides!TargetsOf(s)[x].split
        BY <1>8
    <2> HIDE DEF s
    <2> QED BY <2>1, <2>2 DEF Sides!TargetsOf, MakingAssumption
<1>10. ASSUME NEW i \in DOMAIN rs, NEW j \in DOMAIN rs, key(i) = key(j)
       PROVE  a[i] = a[j]
    <2>1. split(f, rs[i]) = split(f, rs[j])
        BY <1>10
    <2> HIDE DEF split
    <2> QED BY <1>4, <2>1
<1> HIDE DEF all, of, keys, groups, strata, fills, pick, split
<1>11. \A r \in all : \E i \in DOMAIN rs : r = rs[i] /\ r.id = i
    BY <1>1, <1>2
<1> QED BY <1>4, <1>9, <1>10, <1>11 DEF Sides!ValidManifest, all

----------------------------------------------------------------------------
(* The generator *)

\* A new record of type u is counted once.
LEMMA OneMore ==
    ASSUME NEW rs \in Seq(RecordSet), NEW r \in RecordSet, NEW t
    PROVE  /\ IsFiniteSet(RecordsOf(rs, t)) /\ Cardinality(RecordsOf(rs, t)) \in Nat
           /\ Cardinality(RecordsOf(Append(rs, r), t)) = Cardinality(RecordsOf(rs, t)) + (IF r.type = t THEN 1 ELSE 0)
<1> DEFINE l == Len(rs)
           O == RecordsOf(rs, t)
           O2 == RecordsOf(Append(rs, r), t)
<1>1. l \in Nat /\ DOMAIN rs = 1 .. l
    OBVIOUS
<1>2. IsFiniteSet(O) /\ Cardinality(O) \in Nat /\ l + 1 \notin O
    <2>1. O \in SUBSET (1 .. l)
        BY <1>1 DEF RecordsOf
    <2>2. l + 1 \notin O
        BY <1>1, <2>1
    <2> HIDE DEF l, O
    <2>3. IsFiniteSet(1 .. l)
        BY <1>1, FS_Interval
    <2> QED BY <2>1, <2>2, <2>3, FS_Subset, FS_CardinalityType
<1>3. /\ DOMAIN Append(rs, r) = 1 .. l + 1 /\ Append(rs, r)[l + 1] = r
      /\ \A i \in 1 .. l : Append(rs, r)[i] = rs[i]
    OBVIOUS
<1>4. 1 .. l + 1 = 1 .. l \cup {l + 1}
    BY <1>1
<1>5. O2 = IF r.type = t THEN O \cup {l + 1} ELSE O
    <2> HIDE DEF l
    <2> QED BY <1>1, <1>3, <1>4 DEF RecordsOf
<1> HIDE DEF O, O2, l
<1>6. CASE r.type = t
    BY <1>2, <1>5, <1>6, FS_AddElement DEF O, O2
<1>7. CASE r.type # t
    BY <1>2, <1>5, <1>7 DEF O, O2
<1> QED BY <1>2, <1>6, <1>7 DEF O

\* A prefix has no more of any type.
LEMMA PrefixIsSound ==
    ASSUME MakingAssumption, NEW rs, FileIsSound(rs), NEW i \in Nat, i <= Len(rs)
    PROVE  FileIsSound(SubSeq(rs, 1, i))
<1> DEFINE s == SubSeq(rs, 1, i)
<1>1. PICK p \in Seq(PlannedScenarios) : FitsPlan(rs, p)
    BY DEF FileIsSound
<1>2. rs \in Seq(RecordSet) /\ Len(rs) \in Nat /\ DOMAIN rs = 1 .. Len(rs)
    BY <1>1 DEF FitsPlan
<1>3. s \in Seq(RecordSet) /\ Len(s) = i /\ DOMAIN s = 1 .. i /\ \A j \in 1 .. i : j \in 1 .. Len(rs) /\ s[j] = rs[j]
    <2>1. i <= Len(rs) /\ 1 <= i + 1
        BY <1>2
    <2>2. \A j \in 1 .. i : j \in 1 .. Len(rs) /\ rs[j] \in RecordSet
        BY <1>2, <2>1
    <2> QED BY <1>2, <2>1, <2>2, SubSeqProperties
<1> HIDE DEF s
<1>4. FitsPlan(s, p)
    BY <1>1, <1>3 DEF FitsPlan
<1>5. ASSUME NEW t \in TypeSet PROVE Cardinality(RecordsOf(s, t)) <= Quota[t]
    <2>1. RecordsOf(s, t) \in SUBSET RecordsOf(rs, t)
        BY <1>2, <1>3 DEF RecordsOf
    <2>2. IsFiniteSet(RecordsOf(rs, t))
        <3>1. RecordsOf(rs, t) \in SUBSET (1 .. Len(rs))
            BY <1>2 DEF RecordsOf
        <3>2. IsFiniteSet(1 .. Len(rs))
            BY <1>2, FS_Interval
        <3> QED BY <3>1, <3>2, FS_Subset
    <2>3. /\ Cardinality(RecordsOf(s, t)) <= Cardinality(RecordsOf(rs, t))
          /\ Cardinality(RecordsOf(s, t)) \in Nat /\ Cardinality(RecordsOf(rs, t)) \in Nat
        BY <2>1, <2>2, FS_Subset, FS_CardinalityType
    <2>4. Cardinality(RecordsOf(rs, t)) <= Quota[t] /\ Quota[t] \in Nat
        BY QuotasAreNumbers DEF FileIsSound
    <2> QED BY <2>3, <2>4
<1> QED BY <1>4, <1>5 DEF FileIsSound, s

\* What a sound generator has made is a sound file.
LEMMA MadeIsSound ==
    ASSUME NEW g, GeneratorIsSound(g)
    PROVE  FileIsSound(g.records) /\ g.records \in Seq(RecordSet)
<1>1. g.plan \in Seq(PlannedScenarios) /\ FitsPlan(g.records, g.plan) /\ g.records \in Seq(RecordSet)
    BY DEF GeneratorIsSound, GeneratorSet
<1>2. \A t \in TypeSet : Cardinality(RecordsOf(g.records, t)) <= Quota[t]
    BY DEF GeneratorIsSound
<1> QED BY <1>1, <1>2 DEF FileIsSound

\* A run begins soundly.
LEMMA StartsSoundly ==
    ASSUME MakingAssumption, MakingInv, StartGenerator
    PROVE  MakingInv'
<1>1. PICK p \in ScenarioPlans :
          gen' = [plan |-> p, at |-> 1, k |-> 0, attempt |-> 0, made |-> NoneMade, records |-> <<>>,
                  asked |-> {}, calls |-> 0]
    BY DEF StartGenerator
<1> DEFINE g == [plan |-> p, at |-> 1, k |-> 0, attempt |-> 0, made |-> NoneMade, records |-> <<>>,
                 asked |-> {}, calls |-> 0]
<1>2. g.plan = p /\ g.at = 1 /\ g.k = 0 /\ g.attempt = 0 /\ g.made = NoneMade /\ g.records = <<>> /\ g.asked = {} /\ g.calls = 0
    OBVIOUS
<1>3. p \in Seq(PlannedScenarios) /\ <<>> \in Seq(RecordSet) /\ Len(<<>>) = 0
    BY PlansArePlanned
<1>4. g \in GeneratorSet
    <2>1. NoneMade \in [TypeSet -> Nat]
        BY DEF NoneMade
    <2> QED BY <1>3, <2>1 DEF GeneratorSet
<1> HIDE DEF g
<1>5. FitsPlan(g.records, g.plan)
    BY <1>2, <1>3 DEF FitsPlan
<1>6. \A t \in TypeSet : Cardinality(RecordsOf(g.records, t)) = g.made[t] /\ g.made[t] <= Quota[t]
    <2>1. ASSUME NEW t \in TypeSet PROVE RecordsOf(<<>>, t) = {} /\ NoneMade[t] = 0
        BY DEF RecordsOf, NoneMade
    <2>2. Cardinality({}) = 0 /\ \A t \in TypeSet : Quota[t] \in Nat
        BY FS_EmptySet, QuotasAreNumbers
    <2>3. \A t \in TypeSet : Cardinality(RecordsOf(<<>>, t)) = NoneMade[t] /\ NoneMade[t] <= Quota[t]
        BY <2>1, <2>2
    <2> QED BY <1>2, <2>3
<1>7. GeneratorIsSound(g)
    BY <1>2, <1>4, <1>5, <1>6, FS_EmptySet DEF GeneratorIsSound
<1> QED BY <1>1, <1>7 DEF MakingInv, StartGenerator, g

\* A run goes on to the next scenario.
LEMMA SkipsSoundly ==
    ASSUME MakingAssumption, MakingInv, SkipScenario
    PROVE  MakingInv'
<1> DEFINE h == [gen EXCEPT !.at = @ + 1, !.k = 0]
<1>1. GeneratorIsSound(gen) /\ gen.attempt = 0 /\ gen' = h
    BY DEF MakingInv, SkipScenario, Generating
<1>2. gen \in GeneratorSet
    BY <1>1 DEF GeneratorIsSound
<1>3. /\ h \in GeneratorSet /\ h.at = gen.at + 1 /\ h.k = 0 /\ h.attempt = 0
      /\ h.plan = gen.plan /\ h.made = gen.made /\ h.records = gen.records /\ h.asked = gen.asked /\ h.calls = gen.calls
    <2>1. DOMAIN gen = {"plan", "at", "k", "attempt", "made", "records", "asked", "calls"} /\ gen.at \in Nat \ {0}
        BY <1>2 DEF GeneratorSet
    <2>2. /\ h.at = gen.at + 1 /\ h.k = 0 /\ h.attempt = gen.attempt /\ h.plan = gen.plan /\ h.made = gen.made
          /\ h.records = gen.records /\ h.asked = gen.asked /\ h.calls = gen.calls
        BY <2>1
    <2>3. gen.at + 1 \in Nat \ {0}
        BY <2>1
    <2>4. h \in GeneratorSet
        BY <1>2, <2>3 DEF GeneratorSet
    <2> QED BY <1>1, <2>2, <2>4
<1> HIDE DEF h
<1>4. ASSUME NEW q \in h.asked PROVE Passed(q, h.at, h.k, SeedOf(h.at, h.k, h.attempt))
    <2>1. q \in Nat \X Nat \X Nat /\ Passed(q, gen.at, gen.k, SeedOf(gen.at, gen.k, gen.attempt))
        BY <1>1, <1>2, <1>3 DEF GeneratorIsSound, GeneratorSet
    <2>2. gen.at \in Nat /\ q[1] \in Nat
        BY <1>2, <2>1 DEF GeneratorSet
    <2> QED BY <1>3, <2>1, <2>2 DEF Passed
<1>5. GeneratorIsSound(h)
    BY <1>1, <1>3, <1>4 DEF GeneratorIsSound
<1> QED BY <1>1, <1>5 DEF MakingInv, SkipScenario

GeneratorFields == {"plan", "at", "k", "attempt", "made", "records", "asked", "calls"}

\* A generator whose request has been answered.
IsAnswered(g) ==
    /\ g \in GeneratorSet
    /\ g.at <= Len(g.plan)
    /\ FitsPlan(g.records, g.plan)
    /\ \A t \in TypeSet : Cardinality(RecordsOf(g.records, t)) = g.made[t] /\ g.made[t] <= Quota[t]
    /\ IsFiniteSet(g.asked) /\ Cardinality(g.asked) = g.calls
    /\ \A q \in g.asked : Passed(q, g.at, g.k, SeedOf(g.at, g.k, g.attempt) + 1)

\* The request is one of its own.
LEMMA AsksAnew ==
    ASSUME NEW g, GeneratorIsSound(g), g.at <= Len(g.plan),
           NEW h, h = [g EXCEPT !.asked = @ \cup {<<g.at, g.k, SeedOf(g.at, g.k, g.attempt)>>}, !.calls = @ + 1]
    PROVE  /\ IsAnswered(h)
           /\ h.at = g.at /\ h.k = g.k /\ h.attempt = g.attempt /\ h.plan = g.plan /\ h.made = g.made /\ h.records = g.records
<1> DEFINE seed == SeedOf(g.at, g.k, g.attempt)
           q0 == <<g.at, g.k, seed>>
<1>1. g \in GeneratorSet
    BY DEF GeneratorIsSound
<1>2. /\ DOMAIN g = GeneratorFields /\ g.at \in Nat \ {0} /\ g.k \in Nat /\ g.attempt \in Nat /\ g.calls \in Nat
      /\ g.asked \in SUBSET (Nat \X Nat \X Nat)
    BY <1>1 DEF GeneratorSet, GeneratorFields
<1>3. seed \in Nat
    BY <1>2 DEF SeedOf
<1>4. /\ h.at = g.at /\ h.k = g.k /\ h.attempt = g.attempt /\ h.plan = g.plan /\ h.made = g.made /\ h.records = g.records
      /\ h.asked = g.asked \cup {q0} /\ h.calls = g.calls + 1
    BY <1>2 DEF GeneratorFields
<1>5. q0 \in Nat \X Nat \X Nat /\ q0[1] = g.at /\ q0[2] = g.k /\ q0[3] = seed
    BY <1>2, <1>3
<1> HIDE DEF seed, q0
<1>6. \A q \in g.asked : Passed(q, g.at, g.k, seed)
    BY DEF GeneratorIsSound, seed
<1>7. q0 \notin g.asked
    <2>1. ~ Passed(q0, g.at, g.k, seed)
        BY <1>2, <1>3, <1>5 DEF Passed
    <2> QED BY <1>6, <2>1
<1>8. IsFiniteSet(h.asked) /\ Cardinality(h.asked) = h.calls
    <2>1. IsFiniteSet(g.asked) /\ Cardinality(g.asked) = g.calls
        BY DEF GeneratorIsSound
    <2> QED BY <1>4, <1>7, <2>1, FS_AddElement
<1>9. ASSUME NEW q \in h.asked PROVE Passed(q, h.at, h.k, SeedOf(h.at, h.k, h.attempt) + 1)
    <2>1. SeedOf(h.at, h.k, h.attempt) = seed
        BY <1>4 DEF seed
    <2>2. CASE q = q0
        BY <1>3, <1>4, <1>5, <2>1, <2>2 DEF Passed
    <2>3. CASE q \in g.asked
        <3>1. q[1] \in Nat /\ q[2] \in Nat /\ q[3] \in Nat
            BY <1>2, <2>3
        <3>2. Passed(q, g.at, g.k, seed)
            BY <1>6, <2>3
        <3> QED BY <1>2, <1>3, <1>4, <2>1, <3>1, <3>2 DEF Passed
    <2> QED BY <1>4, <2>2, <2>3
<1>10. h \in GeneratorSet
    <2>1. h.asked \in SUBSET (Nat \X Nat \X Nat) /\ h.calls \in Nat
        BY <1>2, <1>4, <1>5
    <2>2. g.asked \cup {q0} \in SUBSET (Nat \X Nat \X Nat) /\ g.calls + 1 \in Nat
        BY <1>4, <2>1
    <2> QED BY <1>1, <2>2 DEF GeneratorSet, q0, seed
<1> QED BY <1>4, <1>8, <1>9, <1>10 DEF IsAnswered, GeneratorIsSound

\* After an answer, another attempt at a ticket whose type still lacks one.
LEMMA RetriesSoundly ==
    ASSUME NEW g, IsAnswered(g), g.made[g.plan[g.at].type] < Quota[g.plan[g.at].type],
           NEW h, h = [g EXCEPT !.attempt = @ + 1]
    PROVE  GeneratorIsSound(h)
<1>1. /\ g \in GeneratorSet /\ DOMAIN g = GeneratorFields /\ g.attempt \in Nat /\ g.at \in Nat /\ g.k \in Nat
    BY DEF IsAnswered, GeneratorSet, GeneratorFields
<1>2. /\ h.at = g.at /\ h.k = g.k /\ h.attempt = g.attempt + 1 /\ h.plan = g.plan /\ h.made = g.made
      /\ h.records = g.records /\ h.asked = g.asked /\ h.calls = g.calls
    BY <1>1 DEF GeneratorFields
<1>3. h \in GeneratorSet
    <2>1. g.attempt + 1 \in Nat
        BY <1>1
    <2> QED BY <1>1, <2>1 DEF GeneratorSet
<1>4. SeedOf(h.at, h.k, h.attempt) = SeedOf(g.at, g.k, g.attempt) + 1
    BY <1>1, <1>2 DEF SeedOf
<1>5. \A q \in h.asked : Passed(q, h.at, h.k, SeedOf(h.at, h.k, h.attempt))
    BY <1>2, <1>4 DEF IsAnswered
<1> QED BY <1>2, <1>3, <1>5 DEF IsAnswered, GeneratorIsSound

\* After an answer, the next paraphrase.
LEMMA GoesOnSoundly ==
    ASSUME NEW g, IsAnswered(g)
    PROVE  GeneratorIsSound(NextParaphrase(g))
<1> DEFINE h == NextParaphrase(g)
<1>1. /\ g \in GeneratorSet /\ DOMAIN g = GeneratorFields /\ g.at \in Nat \ {0} /\ g.k \in Nat
    BY DEF IsAnswered, GeneratorSet, GeneratorFields
<1>2. /\ h.attempt = 0 /\ h.plan = g.plan /\ h.made = g.made
      /\ h.records = g.records /\ h.asked = g.asked /\ h.calls = g.calls
      /\ (h.at = g.at /\ h.k = g.k + 1) \/ (h.at = g.at + 1 /\ h.k = 0)
    BY <1>1 DEF GeneratorFields, NextParaphrase
<1>3. h \in GeneratorSet
    <2>1. g.k + 1 \in Nat /\ g.at + 1 \in Nat \ {0}
        BY <1>1
    <2>2. [g EXCEPT !.k = @ + 1, !.attempt = 0] \in GeneratorSet
        BY <1>1, <2>1 DEF GeneratorSet
    <2>3. [g EXCEPT !.at = @ + 1, !.k = 0, !.attempt = 0] \in GeneratorSet
        BY <1>1, <2>1 DEF GeneratorSet
    <2> QED BY <2>2, <2>3 DEF NextParaphrase
<1> HIDE DEF h
<1>4. ASSUME NEW q \in h.asked PROVE Passed(q, h.at, h.k, SeedOf(h.at, h.k, h.attempt))
    <2>1. q \in Nat \X Nat \X Nat /\ Passed(q, g.at, g.k, SeedOf(g.at, g.k, g.attempt) + 1)
        BY <1>1, <1>2 DEF IsAnswered, GeneratorSet
    <2>2. q[1] \in Nat /\ q[2] \in Nat
        BY <2>1
    <2> QED BY <1>1, <1>2, <2>1, <2>2 DEF Passed
<1>5. GeneratorIsSound(h)
    BY <1>2, <1>3, <1>4 DEF IsAnswered, GeneratorIsSound
<1> QED BY <1>5 DEF h

\* A usable answer becomes a record of its scenario.
LEMMA RecordFits ==
    ASSUME MakingAssumption, llm \in LlmModels, GeneratorIsSound(gen), gen.at <= Len(gen.plan),
           NEW n \in Nat, NEW reply, reply = ReplyOf[llm][n], Usable(Scenario, reply),
           NEW r, r = Record(Scenario, reply)
    PROVE  /\ r \in RecordSet /\ FromPlan(r, Len(gen.records) + 1, gen.plan) /\ r.type = Scenario.type
<1> DEFINE s == Scenario
<1>1. gen.plan \in Seq(PlannedScenarios) /\ gen.at \in Nat \ {0} /\ gen.records \in Seq(RecordSet)
    BY DEF GeneratorIsSound, GeneratorSet
<1>2. gen.at \in 1 .. Len(gen.plan) /\ Len(gen.records) + 1 \in Nat
    BY <1>1
<1>3. s \in PlannedScenarios /\ s = gen.plan[gen.at]
    BY <1>1, <1>2 DEF Scenario
<1>4. /\ r.id = Len(gen.records) + 1 /\ r.group = gen.at /\ r.type = s.type /\ r.department = s.department
      /\ r.gold = GoldOf(s) /\ r.uncovered = (s.type = "B" /\ reply.question)
    BY DEF Record, GoldOf
<1>5. r.type = "B" => r.uncovered
    BY <1>4 DEF Usable
<1>6. GoldOf(s) \in SUBSET {a.id : a \in Articles}
    BY <1>3 DEF GoldOf, PlannedScenarios
<1>7. <<reply.text, s.type = "B">> \in Texts
    <2>1. ASSUME NEW b \in BOOLEAN PROVE <<ReplyOf[llm][n].text, b>> \in Texts
        BY DEF Texts
    <2>2. (s.type = "B") \in BOOLEAN
        OBVIOUS
    <2> HIDE DEF s
    <2> QED BY <2>1, <2>2
<1>8. s.type \in TypeSet /\ s.department \in Department
    BY <1>3 DEF PlannedScenarios
<1>9. r \in RecordSet
    <2>1. r = [id |-> Len(gen.records) + 1, group |-> gen.at, type |-> s.type, department |-> s.department,
               gold |-> GoldOf(s), uncovered |-> s.type = "B" /\ reply.question, text |-> <<reply.text, s.type = "B">>]
        BY DEF Record, GoldOf
    <2>2. (s.type = "B" /\ reply.question) \in BOOLEAN
        OBVIOUS
    <2> HIDE DEF s
    <2> QED BY <1>1, <1>2, <1>6, <1>7, <1>8, <2>1, <2>2 DEF RecordSet
<1> HIDE DEF s
<1>10. FromPlan(r, Len(gen.records) + 1, gen.plan)
    BY <1>2, <1>3, <1>4, <1>5 DEF FromPlan
<1> QED BY <1>4, <1>9, <1>10 DEF s

\* With it the generator is as sound as before.
LEMMA KeepsTicket ==
    ASSUME MakingAssumption, NEW g, IsAnswered(g), NEW r \in RecordSet, FromPlan(r, Len(g.records) + 1, g.plan),
           NEW t \in TypeSet, r.type = t, g.plan[g.at].type = t, g.made[t] < Quota[t],
           NEW h, h = [g EXCEPT !.made[t] = @ + 1, !.records = Append(@, r)]
    PROVE  IsAnswered(h)
<1>1. /\ g \in GeneratorSet /\ DOMAIN g = GeneratorFields /\ g.made \in [TypeSet -> Nat]
      /\ g.records \in Seq(RecordSet) /\ Len(g.records) \in Nat
    BY DEF IsAnswered, GeneratorSet, GeneratorFields
<1>2. /\ h.at = g.at /\ h.k = g.k /\ h.attempt = g.attempt /\ h.plan = g.plan
      /\ h.made = [g.made EXCEPT ![t] = @ + 1] /\ h.records = Append(g.records, r) /\ h.asked = g.asked /\ h.calls = g.calls
    BY <1>1 DEF GeneratorFields
<1>3. h.made \in [TypeSet -> Nat] /\ h.records \in Seq(RecordSet)
    BY <1>1, <1>2
<1>4. h \in GeneratorSet
    <2>1. [g.made EXCEPT ![t] = @ + 1] \in [TypeSet -> Nat] /\ Append(g.records, r) \in Seq(RecordSet)
        BY <1>2, <1>3
    <2> QED BY <1>1, <2>1 DEF GeneratorSet
<1>5. FitsPlan(h.records, h.plan)
    <2>1. /\ Len(h.records) = Len(g.records) + 1 /\ h.records[Len(g.records) + 1] = r
          /\ \A i \in 1 .. Len(g.records) : h.records[i] = g.records[i]
        BY <1>1, <1>2
    <2>2. \A i \in 1 .. Len(g.records) + 1 : i \in 1 .. Len(g.records) \/ i = Len(g.records) + 1
        BY <1>1
    <2>3. \A i \in 1 .. Len(g.records) : FromPlan(g.records[i], i, g.plan)
        BY DEF IsAnswered, FitsPlan
    <2>4. g.plan \in Seq(PlannedScenarios)
        BY DEF IsAnswered, FitsPlan
    <2> QED BY <1>2, <1>3, <2>1, <2>2, <2>3, <2>4 DEF FitsPlan
<1>6. ASSUME NEW u \in TypeSet
      PROVE  Cardinality(RecordsOf(h.records, u)) = h.made[u] /\ h.made[u] <= Quota[u]
    <2>1. Cardinality(RecordsOf(h.records, u)) = Cardinality(RecordsOf(g.records, u)) + (IF t = u THEN 1 ELSE 0)
        BY <1>1, <1>2, OneMore
    <2>2. Cardinality(RecordsOf(g.records, u)) = g.made[u] /\ g.made[u] <= Quota[u] /\ g.made[u] \in Nat /\ Quota[u] \in Nat
        BY <1>1, QuotasAreNumbers DEF IsAnswered
    <2>3. h.made[u] = g.made[u] + (IF t = u THEN 1 ELSE 0)
        BY <1>1, <1>2, <2>2
    <2> QED BY <2>1, <2>2, <2>3
<1> QED BY <1>2, <1>4, <1>5, <1>6 DEF IsAnswered

\* A call of the model keeps the run sound, whatever it answers.
LEMMA AttemptsSoundly ==
    ASSUME MakingAssumption, MakingInv, Attempt
    PROVE  MakingInv'
<1> DEFINE seed == SeedOf(gen.at, gen.k, gen.attempt)
           reply == ReplyOf[llm][seed]
           g == [gen EXCEPT !.asked = @ \cup {<<gen.at, gen.k, seed>>}, !.calls = @ + 1]
           t == Scenario.type
           h == [g EXCEPT !.made[t] = @ + 1, !.records = Append(@, Record(Scenario, reply))]
<1>1. GeneratorIsSound(gen) /\ gen.at <= Len(gen.plan) /\ llm \in LlmModels /\ (gen.attempt = 0 => ~ QuotaMet(gen))
    BY DEF MakingInv, Attempt, Generating
<1>2. /\ gen' = IF Usable(Scenario, reply) THEN NextParaphrase(h)
                 ELSE IF gen.attempt + 1 < MaxAttempts THEN [g EXCEPT !.attempt = @ + 1]
                 ELSE NextParaphrase(g)
      /\ UNCHANGED <<llm, ticketsFile>>
    BY DEF Attempt
<1>3. /\ gen \in GeneratorSet /\ gen.at \in Nat /\ gen.k \in Nat /\ gen.attempt \in Nat
      /\ gen.plan \in Seq(PlannedScenarios) /\ gen.at \in 1 .. Len(gen.plan) /\ gen.made \in [TypeSet -> Nat]
    BY <1>1 DEF GeneratorIsSound, GeneratorSet
<1>4. t \in TypeSet /\ t = gen.plan[gen.at].type /\ seed \in Nat
    <2>1. gen.plan[gen.at] \in PlannedScenarios
        BY <1>3
    <2> QED BY <1>3, <2>1 DEF Scenario, PlannedScenarios, SeedOf
<1>5. gen.made[t] < Quota[t]
    <2>1. gen.made[t] \in Nat /\ Quota[t] \in Nat
        BY <1>3, <1>4, QuotasAreNumbers
    <2>2. CASE gen.attempt = 0
        BY <1>1, <1>4, <2>1, <2>2 DEF QuotaMet
    <2>3. CASE gen.attempt > 0
        BY <1>1, <1>4, <2>3 DEF GeneratorIsSound
    <2> QED BY <1>3, <2>2, <2>3
<1>6. /\ IsAnswered(g)
      /\ g.at = gen.at /\ g.k = gen.k /\ g.attempt = gen.attempt /\ g.plan = gen.plan /\ g.made = gen.made /\ g.records = gen.records
    <2> HIDE DEF g
    <2> QED BY <1>1, AsksAnew DEF g
<1> HIDE DEF seed, g
<1>7. ASSUME Usable(Scenario, reply)
      PROVE  GeneratorIsSound(NextParaphrase(h))
    <2> DEFINE r == Record(Scenario, reply)
    <2>1. r \in RecordSet /\ FromPlan(r, Len(gen.records) + 1, gen.plan) /\ r.type = t
        BY <1>1, <1>4, <1>7, RecordFits
    <2> HIDE DEF r, reply, t
    <2>2. IsAnswered(h)
        BY <1>4, <1>5, <1>6, <2>1, KeepsTicket DEF r
    <2> QED BY <2>2, GoesOnSoundly
<1>8. GeneratorIsSound(NextParaphrase(g))
    BY <1>6, GoesOnSoundly
<1>9. GeneratorIsSound([g EXCEPT !.attempt = @ + 1])
    BY <1>4, <1>5, <1>6, RetriesSoundly
<1>10. GeneratorIsSound(gen')
    <2> HIDE DEF reply, h
    <2> QED BY <1>2, <1>7, <1>8, <1>9
<1> QED BY <1>1, <1>2, <1>10 DEF MakingInv

\* Writing the file, or dying while it is written, leaves a sound file.
LEMMA WritesSoundlyToo ==
    ASSUME MakingAssumption, MakingInv, WriteFile \/ Die \/ \E i \in 0 .. N : DieWriting(i)
    PROVE  MakingInv'
<1>1. CASE WriteFile
    BY <1>1, MadeIsSound DEF WriteFile, MakingInv
<1>2. CASE Die
    BY <1>2 DEF Die, MakingInv
<1>3. ASSUME NEW i \in 0 .. N, DieWriting(i) PROVE MakingInv'
    <2>1. i \in Nat /\ GeneratorIsSound(gen) /\ i < Len(gen.records)
        BY <1>3 DEF DieWriting, MakingInv, MakingAssumption
    <2>2. FileIsSound(gen.records) /\ Len(gen.records) \in Nat
        BY <2>1, MadeIsSound
    <2>3. FileIsSound(SubSeq(gen.records, 1, i))
        BY <2>1, <2>2, PrefixIsSound
    <2> QED BY <1>3, <2>3 DEF DieWriting, MakingInv
<1> QED BY <1>1, <1>2, <1>3

\* The invariant of the generator and its file.
LEMMA MakingInvHolds ==
    ASSUME MakingAssumption
    PROVE  MakingSpec => []MakingInv
<1>1. MakingInit => MakingInv
    BY DEF MakingInit, MakingInv
<1>2. MakingInv /\ [MakingNext]_makingVars => MakingInv'
    <2> SUFFICES ASSUME MakingInv, [MakingNext]_makingVars PROVE MakingInv'
        OBVIOUS
    <2>1. CASE StartGenerator
        BY <2>1, StartsSoundly
    <2>2. CASE SkipScenario
        BY <2>2, SkipsSoundly
    <2>3. CASE Attempt
        BY <2>3, AttemptsSoundly
    <2>4. CASE WriteFile \/ Die \/ \E i \in 0 .. N : DieWriting(i)
        BY <2>4, WritesSoundlyToo
    <2>5. CASE WriteManifest
        BY <2>5 DEF WriteManifest, MakingInv
    <2>6. CASE UNCHANGED makingVars
        BY <2>6 DEF makingVars, MakingInv
    <2> QED BY <2>1, <2>2, <2>3, <2>4, <2>5, <2>6 DEF MakingNext
<1> QED BY <1>1, <1>2, PTL DEF MakingSpec

\* Whatever the language model answers and wherever the generator dies (generate_tickets.py),
\* validation (validate_benchmark.py) finds no fault of construction in its file, no type has more
\* than its quota and no request is repeated; and the split (splits.py) divides no scenario and
\* no article, so that it never fails its own check.
THEOREM WhatIsGeneratedIsSound ==
    ASSUME MakingAssumption
    PROVE  MakingSpec => []BenchmarkIsSound
<1>1. ASSUME MakingInv PROVE RecordsKeepTheirPromises
    <2>1. ASSUME ticketsFile # None
          PROVE  /\ ProblemsOf(ticketsFile) \subseteq {"duplicate text", "shares"}
                 /\ \A t \in TypeSet : Cardinality({i \in DOMAIN ticketsFile : ticketsFile[i].type = t}) <= Quota[t]
        <3>1. PICK p \in Seq(PlannedScenarios) : FitsPlan(ticketsFile, p)
            BY <1>1, <2>1 DEF MakingInv, FileIsSound
        <3>2. ProblemsOf(ticketsFile) \subseteq {"duplicate text", "shares"}
            BY <3>1, FewProblems
        <3> QED BY <1>1, <2>1, <3>2 DEF MakingInv, FileIsSound, RecordsOf
    <2>2. gen # None => Cardinality(gen.asked) = gen.calls
        BY <1>1 DEF MakingInv, GeneratorIsSound
    <2> QED BY <2>1, <2>2 DEF RecordsKeepTheirPromises
<1>2. ASSUME MakingInv, ticketsFile # None PROVE SidesShareNothing
    <2>1. PICK p \in Seq(PlannedScenarios) : FitsPlan(ticketsFile, p)
        BY <1>2 DEF MakingInv, FileIsSound
    <2>2. \A a \in Sides!AssignSplits(ticketsFile) : Sides!ValidManifest(ticketsFile, a)
        BY <2>1, AssignedIsValid
    <2>3. ASSUME ManifestProblems(ticketsFile, splitManifest) = {},
                 NEW q \in ToSet(ticketsFile), NEW r \in ToSet(ticketsFile),
                 q.group = r.group \/ q.gold \cap r.gold # {}
          PROVE  splitManifest.assignment[q.id] = splitManifest.assignment[r.id]
        <3>1. PICK i \in DOMAIN ticketsFile, j \in DOMAIN ticketsFile : q = ticketsFile[i] /\ r = ticketsFile[j]
            BY DEF ToSet
        <3>2. Sides!LeakageGroup(q) = Sides!LeakageGroup(r)
            BY <2>1, <2>3, <3>1, OneLeakageGroup
        <3>3. Sides!ValidManifest(ticketsFile, splitManifest.assignment)
            <4>1. "leakage" \notin {x \in {"leakage"} : ~ Sides!ValidManifest(ticketsFile, splitManifest.assignment)}
                BY <2>3 DEF ManifestProblems
            <4> QED BY <4>1
        <3>4. q \in Sides!ToSet(ticketsFile) /\ r \in Sides!ToSet(ticketsFile)
            BY DEF ToSet, Sides!ToSet
        <3> QED BY <3>2, <3>3, <3>4 DEF Sides!ValidManifest
    <2> QED BY <2>2, <2>3 DEF SidesShareNothing
<1>3. MakingInv => BenchmarkIsSound
    <2>1. MakingInv /\ ticketsFile = None => SidesShareNothing
        BY DEF SidesShareNothing
    <2> QED BY <1>1, <1>2, <2>1 DEF BenchmarkIsSound
<1> QED BY <1>3, MakingInvHolds, PTL

\* Who is asked for no ticket plans none of any type.
LEMMA NothingOfNothing ==
    ASSUME N = 0, NEW t \in TypeSet
    PROVE  Quota[t] = 0
<1> DEFINE floor(u) == (N * TypeShare[u]) \div 100
           eq(h) == h = [s \in SUBSET TypeSet |->
                            IF s = {} THEN 0 ELSE LET x == CHOOSE y \in s : TRUE IN floor(x) + h[s \ {x}]]
           it == CHOOSE h : eq(h)
           left == N - it[TypeSet]
           rest(u) == (N * TypeShare[u]) % 100
           at(u) == CHOOSE i \in DOMAIN Types : Types[i] = u
           before(u) == {v \in TypeSet : rest(v) > rest(u) \/ (rest(v) = rest(u) /\ at(v) < at(u))}
<1>1. Quota[t] = IF Cardinality(before(t)) < left THEN floor(t) + 1 ELSE floor(t)
    BY DEF Quota, MapThenSumSet, MapThenFoldSet
<1>2. \A u \in TypeSet : floor(u) = 0
    <2>1. \A u \in TypeSet : N * TypeShare[u] = 0
        BY TypeSetIs
    <2>2. 0 \div 100 = 0
        OBVIOUS
    <2> QED BY <2>1, <2>2
<1> HIDE DEF floor
<1>3. eq([s \in SUBSET TypeSet |-> 0])
    <2> DEFINE zero == [s \in SUBSET TypeSet |-> 0]
    <2>1. ASSUME NEW s \in SUBSET TypeSet, s # {}
          PROVE  floor(CHOOSE y \in s : TRUE) + zero[s \ {CHOOSE y \in s : TRUE}] = 0
        <3>1. (CHOOSE y \in s : TRUE) \in TypeSet
            BY <2>1
        <3> QED BY <1>2, <3>1
    <2> QED BY <2>1
<1>4. eq(it)
    <2> HIDE DEF eq
    <2> QED BY <1>3
<1> HIDE DEF it
<1>5. IsFiniteSet(TypeSet) /\ Cardinality(TypeSet) \in Nat
    <2>1. IsFiniteSet({"A"})
        BY FS_Singleton
    <2>2. IsFiniteSet((({"A"} \cup {"B"}) \cup {"C1"}) \cup {"C2"})
        BY <2>1, FS_AddElement, Zenon
    <2>3. TypeSet = (({"A"} \cup {"B"}) \cup {"C1"}) \cup {"C2"}
        BY TypeSetIs
    <2> QED BY <2>2, <2>3, FS_CardinalityType
<1> DEFINE n == Cardinality(TypeSet)
           Good == {k \in 0 .. n : \A s \in SUBSET TypeSet : Cardinality(s) = k => it[s] = 0}
<1>6. 0 \in Good
    <2>1. ASSUME NEW s \in SUBSET TypeSet, Cardinality(s) = 0 PROVE it[s] = 0
        <3>1. IsFiniteSet(s)
            BY <1>5, FS_Subset
        <3>2. s = {}
            BY <2>1, <3>1, FS_EmptySet
        <3> QED BY <1>4, <3>2
    <2> QED BY <1>5, <2>1
<1>7. ASSUME NEW k \in 1 .. n, k - 1 \in Good PROVE k \in Good
    <2>1. ASSUME NEW s \in SUBSET TypeSet, Cardinality(s) = k PROVE it[s] = 0
        <3> DEFINE x == CHOOSE y \in s : TRUE
        <3>1. IsFiniteSet(s) /\ s # {}
            BY <1>5, <2>1, FS_Subset, FS_EmptySet
        <3>2. x \in s /\ x \in TypeSet
            BY <3>1
        <3>3. it[s] = floor(x) + it[s \ {x}]
            BY <1>4, <3>1
        <3> HIDE DEF x
        <3>4. Cardinality(s \ {x}) = k - 1
            BY <2>1, <3>1, <3>2, FS_RemoveElement
        <3>5. it[s \ {x}] = 0
            BY <1>7, <3>4
        <3> QED BY <1>2, <3>2, <3>3, <3>5
    <2> QED BY <2>1
<1> HIDE DEF Good
<1>8. \A k \in 0 .. n : k \in Good
    BY <1>5, <1>6, <1>7, CountsUp
<1>9. it[TypeSet] = 0
    <2>1. n \in Good
        BY <1>5, <1>8
    <2> QED BY <2>1 DEF Good
<1>10. Cardinality(before(t)) \in Nat
    <2>1. before(t) \in SUBSET TypeSet
        OBVIOUS
    <2> QED BY <1>5, <2>1, FS_Subset, FS_CardinalityType
<1> HIDE DEF before
<1>11. ~ (Cardinality(before(t)) < left)
    BY <1>9, <1>10
<1> HIDE DEF left
<1> QED BY <1>1, <1>2, <1>11

\* No type has more than all the tickets asked for.
LEMMA QuotasAreShares ==
    ASSUME MakingAssumption, NEW t \in TypeSet
    PROVE  Quota[t] <= N
<1>1. N \in Nat
    BY DEF MakingAssumption
<1>2. CASE N = 0
    BY <1>2, NothingOfNothing
<1>3. CASE N # 0
    <2> DEFINE floor == (N * TypeShare[t]) \div 100
    <2>1. Quota[t] = floor \/ Quota[t] = floor + 1
        BY DEF Quota
    <2>2. TypeShare[t] \in {55, 15, 20, 10}
        BY DEF TypeSet, TypeShare
    <2>3. \A n \in Nat \ {0}, share \in {55, 15, 20, 10} : (n * share) \div 100 < n /\ (n * share) \div 100 \in Nat
        OBVIOUS
    <2>4. floor < N /\ floor \in Nat
        BY <1>1, <1>3, <2>2, <2>3
    <2> QED BY <1>1, <2>1, <2>4
<1> QED BY <1>2, <1>3

\* A generator within its plan and its bounds.
InBounds(g) ==
    /\ g.plan \in ScenarioPlans
    /\ g.at \in 1 .. Len(g.plan) + 1
    /\ g.k \in 0 .. Paraphrases - 1
    /\ g.attempt \in 0 .. MaxAttempts - 1

\* The next paraphrase is one too.
LEMMA NextIsInBounds ==
    ASSUME MakingAssumption, NEW g, DOMAIN g = GeneratorFields, InBounds(g),
           g.at <= Len(g.plan), Len(g.plan) \in Nat
    PROVE  InBounds(NextParaphrase(g))
<1> DEFINE h == NextParaphrase(g)
<1>1. Paraphrases \in Nat \ {0} /\ MaxAttempts \in Nat \ {0}
    BY DEF MakingAssumption
<1>2. CASE g.k + 1 < Paraphrases
    <2>1. h.plan = g.plan /\ h.at = g.at /\ h.k = g.k + 1 /\ h.attempt = 0
        BY <1>2 DEF NextParaphrase, GeneratorFields
    <2> HIDE DEF h
    <2>2. g.k + 1 \in 0 .. Paraphrases - 1 /\ 0 \in 0 .. MaxAttempts - 1
        BY <1>1, <1>2 DEF InBounds
    <2>3. InBounds(h)
        BY <2>1, <2>2 DEF InBounds
    <2> QED BY <2>3 DEF h
<1>3. CASE ~ (g.k + 1 < Paraphrases)
    <2>1. h.plan = g.plan /\ h.at = g.at + 1 /\ h.k = 0 /\ h.attempt = 0
        BY <1>3 DEF NextParaphrase, GeneratorFields
    <2> HIDE DEF h
    <2>2. 0 \in 0 .. Paraphrases - 1 /\ 0 \in 0 .. MaxAttempts - 1
        BY <1>1
    <2>3. g.at + 1 \in 1 .. Len(g.plan) + 1
        <3>1. \A a \in Nat, l \in Nat : a <= l => a + 1 \in 1 .. l + 1
            OBVIOUS
        <3>2. g.at \in Nat
            BY DEF InBounds
        <3> QED BY <3>1, <3>2
    <2>4. InBounds(h)
        BY <2>1, <2>2, <2>3 DEF InBounds
    <2> QED BY <2>4 DEF h
<1> QED BY <1>2, <1>3

MakingBounds ==
    /\ gen # None => InBounds(gen)
    /\ generations \in 0 .. MaxGenerations

\* Every step stays within the plan and the bounds.
LEMMA MakingBoundsNext ==
    ASSUME MakingAssumption, MakingInv, MakingBounds, [MakingNext]_makingVars
    PROVE  MakingBounds'
<1>1. CASE UNCHANGED <<gen, generations>>
    BY <1>1 DEF MakingBounds, InBounds
<1>2. CASE gen' = None /\ UNCHANGED generations
    BY <1>2 DEF MakingBounds
<1>3. CASE StartGenerator
    <2>1. PICK p \in ScenarioPlans :
              gen' = [plan |-> p, at |-> 1, k |-> 0, attempt |-> 0, made |-> NoneMade, records |-> <<>>,
                      asked |-> {}, calls |-> 0]
        BY <1>3 DEF StartGenerator
    <2>2. gen'.plan = p /\ gen'.at = 1 /\ gen'.k = 0 /\ gen'.attempt = 0
        BY <2>1
    <2>3. Len(p) \in Nat
        BY PlansArePlanned
    <2>4. Paraphrases \in Nat \ {0} /\ MaxAttempts \in Nat \ {0} /\ MaxGenerations \in Nat
        BY DEF MakingAssumption
    <2>5. InBounds(gen')
        BY <2>2, <2>3, <2>4 DEF InBounds
    <2>6. generations' \in 0 .. MaxGenerations
        BY <1>3, <2>4 DEF StartGenerator, MakingBounds
    <2> QED BY <2>5, <2>6 DEF MakingBounds, InBounds
<1>4. ASSUME Generating
      PROVE  /\ gen # None /\ DOMAIN gen = GeneratorFields /\ InBounds(gen) /\ gen.at <= Len(gen.plan)
             /\ Len(gen.plan) \in Nat
    <2>1. gen \in GeneratorSet
        BY <1>4 DEF Generating, MakingInv, GeneratorIsSound
    <2> QED BY <1>4, <2>1 DEF Generating, MakingBounds, GeneratorSet, GeneratorFields
<1>5. CASE SkipScenario
    <2>1. /\ Generating /\ gen.attempt = 0 /\ generations' = generations
          /\ gen' = [gen EXCEPT !.at = @ + 1, !.k = 0]
        BY <1>5 DEF SkipScenario
    <2>2. gen'.plan = gen.plan /\ gen'.at = gen.at + 1 /\ gen'.k = 0 /\ gen'.attempt = gen.attempt
        BY <1>4, <2>1 DEF GeneratorFields
    <2>3. Paraphrases \in Nat \ {0}
        BY DEF MakingAssumption
    <2>4. InBounds(gen')
        BY <1>4, <2>1, <2>2, <2>3 DEF InBounds
    <2> QED BY <2>1, <2>4 DEF MakingBounds, InBounds
<1>6. CASE Attempt
    <2> DEFINE seed == SeedOf(gen.at, gen.k, gen.attempt)
               reply == ReplyOf[llm][seed]
               g == [gen EXCEPT !.asked = @ \cup {<<gen.at, gen.k, seed>>}, !.calls = @ + 1]
               h == [g EXCEPT !.made[Scenario.type] = @ + 1, !.records = Append(@, Record(Scenario, reply))]
    <2>1. Generating /\ generations' = generations
        BY <1>6 DEF Attempt
    <2>2. gen' = IF Usable(Scenario, reply) THEN NextParaphrase(h)
                 ELSE IF gen.attempt + 1 < MaxAttempts THEN [g EXCEPT !.attempt = @ + 1]
                 ELSE NextParaphrase(g)
        BY <1>6 DEF Attempt
    <2>3. DOMAIN g = GeneratorFields /\ g.plan = gen.plan /\ g.at = gen.at /\ g.k = gen.k /\ g.attempt = gen.attempt
        BY <1>4, <2>1 DEF GeneratorFields
    <2>4. DOMAIN h = GeneratorFields /\ h.plan = g.plan /\ h.at = g.at /\ h.k = g.k /\ h.attempt = g.attempt
        <3> HIDE DEF g
        <3> QED BY <2>3 DEF GeneratorFields
    <2> HIDE DEF g, h
    <2>5. InBounds(g) /\ InBounds(h) /\ g.at <= Len(g.plan) /\ h.at <= Len(h.plan)
        BY <1>4, <2>1, <2>3, <2>4 DEF InBounds
    <2>6. InBounds(NextParaphrase(g)) /\ InBounds(NextParaphrase(h))
        BY <1>4, <2>1, <2>3, <2>4, <2>5, NextIsInBounds
    <2>7. ASSUME gen.attempt + 1 < MaxAttempts PROVE InBounds([g EXCEPT !.attempt = @ + 1])
        <3>1. MaxAttempts \in Nat /\ gen.attempt \in Nat
            BY <1>4, <2>1 DEF MakingAssumption, InBounds
        <3>2. gen.attempt + 1 \in 0 .. MaxAttempts - 1
            BY <2>7, <3>1
        <3> QED BY <2>3, <2>5, <3>2 DEF InBounds, GeneratorFields
    <2>8. InBounds(gen')
        BY <2>2, <2>6, <2>7
    <2> QED BY <2>1, <2>8 DEF MakingBounds, InBounds
<1>7. ASSUME WriteFile \/ Die \/ \E i \in 0 .. N : DieWriting(i) PROVE MakingBounds'
    BY <1>2, <1>7 DEF WriteFile, Die, DieWriting
<1>8. CASE WriteManifest \/ UNCHANGED makingVars
    BY <1>1, <1>8 DEF WriteManifest, makingVars
<1> QED BY <1>3, <1>5, <1>6, <1>7, <1>8 DEF MakingNext

\* The generator keeps to its plan and its bounds and makes of no type more than there may be,
\* and its file has the ticket types, whatever the model answers and wherever it dies.
THEOREM MakingTypes ==
    ASSUME MakingAssumption
    PROVE  MakingSpec => []MakingTypeOK
<1>1. MakingInit => MakingBounds
    <2>1. MaxGenerations \in Nat
        BY DEF MakingAssumption
    <2>2. MakingInit => gen = None /\ generations = 0
        BY DEF MakingInit
    <2> QED BY <2>1, <2>2 DEF MakingBounds
<1>2. MakingInv /\ MakingBounds /\ [MakingNext]_makingVars => MakingBounds'
    BY MakingBoundsNext
<1>3. MakingInv /\ MakingBounds => MakingTypeOK
    <2> SUFFICES ASSUME MakingInv, MakingBounds PROVE MakingTypeOK
        OBVIOUS
    <2>1. ASSUME gen # None, NEW t \in TypeSet PROVE gen.made[t] \in 0 .. N
        <3>1. gen.made[t] \in Nat /\ gen.made[t] <= Quota[t]
            BY <2>1 DEF MakingInv, GeneratorIsSound, GeneratorSet
        <3>2. Quota[t] \in Nat /\ Quota[t] <= N /\ N \in Nat
            BY QuotasAreNumbers, QuotasAreShares DEF MakingAssumption
        <3> QED BY <3>1, <3>2
    <2>2. ASSUME ticketsFile # None, NEW i \in DOMAIN ticketsFile PROVE ticketsFile[i].type \in TypeSet
        <3>1. ticketsFile \in Seq(RecordSet)
            BY <2>2 DEF MakingInv, FileIsSound, FitsPlan
        <3>2. ticketsFile[i] \in RecordSet
            BY <2>2, <3>1
        <3> QED BY <3>2 DEF RecordSet
    <2> QED BY <2>1, <2>2 DEF MakingInv, MakingBounds, InBounds, MakingTypeOK
<1>4. MakingSpec => []MakingInv
    BY MakingInvHolds
<1> QED BY <1>1, <1>2, <1>3, <1>4, PTL DEF MakingSpec
=============================================================================
