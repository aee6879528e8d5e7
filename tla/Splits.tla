------------------------------- MODULE Splits -------------------------------
(***************************************************************************)
(* Assigning benchmark tickets to splits (ai/benchmark/splits.py) and      *)
(* choosing the drafts outside reviewers label                             *)
(* (ai/signals/select_for_labelling.py).                                   *)
(*                                                                         *)
(* A ticket is [id, group, type, department, gold]; gold is its set of     *)
(* gold articles.  Records are in the order of the file.                   *)
(***************************************************************************)
EXTENDS Integers, Sequences, FiniteSets, SequencesExt, FiniteSetsExt, Functions

CONSTANTS
    SeenTargets,    \* sequence of [split, share], in thousandths, in the order of the dictionary
    C1Targets

LeakageGroup(r) == IF r.gold # {} THEN <<"ART", r.gold>> ELSE <<"GRP", r.group>>

Members(records, key) == {i \in DOMAIN records : LeakageGroup(records[i]) = key}

Size(records, key) == Cardinality(Members(records, key))

\* The stratum of a group is that of its first ticket.
Stratum(records, key) ==
    LET first == records[Min(Members(records, key))] IN <<first.type, first.department>>

TargetsOf(stratum) == IF stratum[1] = "C1" THEN C1Targets ELSE SeenTargets

\* max(targets, key=...): the first of the largest gaps.
Emptiest(targets, total, filled) ==
    LET gap(i) == targets[i].share * total - 1000 * filled[i]
    IN  Min({i \in DOMAIN targets : \A j \in DOMAIN targets : gap(i) >= gap(j)})

\* The splits of one stratum's groups, taken in the order keys.
Fill(records, targets, keys) ==
    LET total == Cardinality(UNION {Members(records, keys[i]) : i \in DOMAIN keys})
        filled[i \in 0 .. Len(keys)] ==
            IF i = 0 THEN [s \in DOMAIN targets |-> 0]
            ELSE [filled[i - 1] EXCEPT ![Emptiest(targets, total, filled[i - 1])] = @ + Size(records, keys[i])]
    IN  {[key |-> keys[i], split |-> targets[Emptiest(targets, total, filled[i - 1])].split] : i \in DOMAIN keys}

\* The orders a shuffle and a stable sort, largest group first, can give.
Orders(records, keys) ==
    {o \in SetToSeqs(keys) :
        \A i, j \in DOMAIN o : i < j => Size(records, o[i]) >= Size(records, o[j])}

\* Every assignment assign_splits may return, over all seeds.
AssignSplits(records) ==
    LET keys   == {LeakageGroup(r) : r \in ToSet(records)}
        strata == {Stratum(records, k) : k \in keys}
        of(s)  == {k \in keys : Stratum(records, k) = s}
        fills  == [s \in strata |-> {Fill(records, TargetsOf(s), o) : o \in Orders(records, of(s))}]
        pick   == {f \in [strata -> UNION Range(fills)] : \A s \in strata : f[s] \in fills[s]}
        split(f, r) == (CHOOSE e \in UNION Range(f) : e.key = LeakageGroup(r)).split
    IN  {[id \in {r.id : r \in ToSet(records)} |->
             split(f, CHOOSE r \in ToSet(records) : r.id = id)] : f \in pick}

\* check_manifest finds no problem.
ValidManifest(records, assignment) ==
    \A r \in ToSet(records) :
        /\ \A q \in ToSet(records) : q.id \in DOMAIN assignment
        /\ \A q \in ToSet(records) :
              LeakageGroup(q) = LeakageGroup(r) => assignment[q.id] = assignment[r.id]
        /\ r.type = "C1" => assignment[r.id] \in {"test", "unseen"}
        /\ r.type # "C1" => assignment[r.id] # "unseen"

----------------------------------------------------------------------------

\* Largest-remainder allocation of total over cells of the given sizes; ties go to the
\* larger cell name.  Cells are numbered in the order of their names.
Allocate(sizes, total) ==
    LET size  == FoldFunction(+, 0, sizes)
        floor == [c \in DOMAIN sizes |-> (total * sizes[c]) \div size]
        rest  == [c \in DOMAIN sizes |-> (total * sizes[c]) % size]
        left  == total - FoldFunction(+, 0, floor)
        before(c, d) == rest[c] > rest[d] \/ (rest[c] = rest[d] /\ c > d)
        rank(c) == Cardinality({d \in DOMAIN sizes : before(d, c)})
    IN  IF total >= size THEN sizes
        ELSE [c \in DOMAIN sizes |-> IF rank(c) < left THEN floor[c] + 1 ELSE floor[c]]

\* select: the drafts of one pool that may be drawn, quota tickets spread over its cells.
Selections(records, pool, quota) ==
    LET cell(r) == <<r.type, r.department>>
        cells   == SetToSeq({cell(r) : r \in pool})
        of(c)   == {r.id : r \in {q \in pool : cell(q) = cells[c]}}
        alloc   == Allocate([c \in DOMAIN cells |-> Cardinality(of(c))], quota)
    IN  {UNION Range(f) : f \in {g \in [DOMAIN cells -> SUBSET {r.id : r \in pool}] :
            \A c \in DOMAIN cells : g[c] \subseteq of(c) /\ Cardinality(g[c]) = alloc[c]}}
=============================================================================
