----------------------------- MODULE AuditRules -----------------------------
(***************************************************************************)
(* The rules of the two human audits of drafts: drawing the sample         *)
(* (ai/evaluation/human_audit.py), what a finished rating must hold, and   *)
(* what the ratings of a case amount to (also ai/evaluation/               *)
(* author_audit.py).                                                       *)
(*                                                                         *)
(* A draft is [id, group, type, nli, judge, second]: its scenario, whether *)
(* its weakest claim passes the NLI check ("none": it has no claims) and   *)
(* two judges' labels.  A rating is [q1, q2, q3, reason].                  *)
(***************************************************************************)
EXTENDS Absent, Integers, Sequences, FiniteSets, SequencesExt, FiniteSetsExt

CONSTANT TypeOrder    \* the ticket types in alphabetical order

Accepts(label) == label \in {"A", "M"}

Rejects(label) == label \in {"R", "W"}

\* flags: the targeted groups.
Flagged(d, flag) ==
    CASE flag = "nli_pass_suspected_error" -> d.nli = "pass" /\ Rejects(d.judge)
      [] flag = "judge_disagreement" -> \/ Accepts(d.judge) /\ Rejects(d.second)
                                        \/ Rejects(d.judge) /\ Accepts(d.second)
      [] flag = "control_judge_accepted" -> d.nli = "fail" /\ Accepts(d.judge)
      [] flag = "control_judge_rejected" -> d.nli = "fail" /\ Rejects(d.judge)

\* sorted(): the types with most scenarios first, of equal ones the first in the alphabet.
Place(t) == CHOOSE i \in DOMAIN TypeOrder : TypeOrder[i] = t

Ahead(t, types, available) ==
    {u \in types : available[u] > available[t] \/ (available[u] = available[t] /\ Place(u) < Place(t))}

ByScenarios(types, available) ==
    [k \in 1 .. Cardinality(types) |->
        CHOOSE t \in types : Cardinality(Ahead(t, types, available)) = k - 1]

\* Mutant: the share is not looked at.
TakeShare_Greedy(acc, t, share, available) ==
    LET k == Min({available[t] - acc.quota[t], acc.left})
    IN  [quota |-> [acc.quota EXCEPT ![t] = @ + k], left |-> acc.left - k]

\* A type takes its share, as far as it has room and there is something left.
TakeShare(acc, t, share, available) ==
    LET k == Min({share, available[t] - acc.quota[t], acc.left})
    IN  [quota |-> [acc.quota EXCEPT ![t] = @ + k], left |-> acc.left - k]

\* One round of allocate_random: an equal share for every type that is not full.
Round(acc, available) ==
    LET order == ByScenarios({t \in DOMAIN available : acc.quota[t] < available[t]}, available)
        share == Max({acc.left \div Len(order), 1})
        after[k \in 0 .. Len(order)] ==
            IF k = 0 THEN acc ELSE TakeShare(after[k - 1], order[k], share, available)
    IN  IF acc.left = 0 THEN acc ELSE after[Len(order)]

\* allocate_random: every round but the last places at least one case.
AllocateRandom(total, available) ==
    LET rounds[k \in 0 .. total] ==
            IF k = 0 THEN [quota |-> [t \in DOMAIN available |-> 0], left |-> total]
            ELSE Round(rounds[k - 1], available)
    IN  rounds[total].quota

\* Mutant: a scenario may be drawn again for a later group.
Untaken_All(pool, taken) == pool

Untaken(pool, taken) == {d \in pool : d.group \notin taken}

\* _draw: k scenarios not taken yet and one draft of each; no draw: the selection raises.
Draws(pool, k, taken) ==
    LET left == Untaken(pool, taken)
        chosen(s) == {f \in [s -> left] : \A g \in s : f[g].group = g}
    IN  UNION {{{f[g] : g \in s} : f \in chosen(s)} : s \in kSubset(k, {d.group : d \in left})}

\* select: the random part by type, then the targeted groups; targeted is
\* <<suspected, disagreement, control>>.  place is that of the group's name in the alphabet:
\* control_..., judge_..., nli_..., then random_<type>.
Groups(drafts, total, targeted, available) ==
    LET quota   == AllocateRandom(total - (targeted[1] + targeted[2] + targeted[3]), available)
        control == (targeted[3] + 1) \div 2
        flagged(flag, place, k) ==
            [part |-> "II", place |-> place, pool |-> {d \in drafts : Flagged(d, flag)}, k |-> k]
    IN  [i \in DOMAIN TypeOrder |->
            [part |-> "I", place |-> i + 4, pool |-> {d \in drafts : d.type = TypeOrder[i]},
             k |-> quota[TypeOrder[i]]]]
        \o << flagged("nli_pass_suspected_error", 4, targeted[1]),
              flagged("judge_disagreement", 3, targeted[2]),
              flagged("control_judge_accepted", 1, control),
              flagged("control_judge_rejected", 2, targeted[3] - control) >>

\* The samples that a draw for a group makes of those drawn so far.
Extended(samples, g) ==
    UNION {{m \cup {[draft |-> d, part |-> g.part, place |-> g.place] : d \in drawn} :
                drawn \in Draws(g.pool, g.k, {c.draft.group : c \in m})} : m \in samples}

Scenarios(drafts) == {d.group : d \in drafts}

OfType(drafts, t) == {d \in drafts : d.type = t}

\* No sample if a scenario has drafts of two types, or too few are eligible.
Samples(drafts, total, targeted) ==
    LET available == [t \in ToSet(TypeOrder) |-> Cardinality(Scenarios(OfType(drafts, t)))]
        groups    == Groups(drafts, total, targeted, available)
        drawn[k \in 0 .. Len(groups)] ==
            IF k = 0 THEN {{}} ELSE Extended(drawn[k - 1], groups[k])
    IN  IF \/ \E d, e \in drafts : d.group = e.group /\ d.type # e.type
           \/ total - (targeted[1] + targeted[2] + targeted[3]) > Cardinality(Scenarios(drafts))
        THEN {}
        ELSE drawn[Len(groups)]

\* split_into_pairs: the cases dealt to pairs of reviewers, sorted by the names of their groups.
Deals(cases, pairs) ==
    {deal \in [cases -> 1 .. pairs] :
        \E o \in SetToSeqs(cases) :
            /\ \A i, j \in DOMAIN o : i < j => o[i].place <= o[j].place
            /\ \A i \in DOMAIN o : deal[o[i]] = 1 + ((i - 1) % pairs)}

----------------------------------------------------------------------------

\* check_rating (both audits) finds nothing wrong.
IsFinished(r) ==
    /\ r.q1 \in {"A", "M", "R", "W", "U"}
    /\ r.q2 \in {"Fully", "Partially", "Not supported", "Unclear"}
    /\ r.q3 \in {"Yes", "No", "Unclear"}
    /\ r.q1 \in {"R", "W", "U"} \/ r.q2 # "Fully" \/ r.q3 # "Yes" => r.reason

\* _supported_unacceptable, _grounded_unacceptable: "yes", "no" or "unclear".
GroundedUnacceptable(r) ==
    IF Accepts(r.q1) \/ r.q2 \in {"Partially", "Not supported"} THEN "no"
    ELSE IF r.q1 = "U" \/ r.q2 = "Unclear" THEN "unclear" ELSE "yes"

WrongTopic(r) ==
    LET base == GroundedUnacceptable(r)
    IN  IF base = "no" \/ r.q3 = "Yes" THEN "no"
        ELSE IF base = "unclear" \/ r.q3 = "Unclear" THEN "unclear" ELSE "yes"

Outcomes == {"grounded_unacceptable", "wrong_topic"}

Verdict(outcome, r) == IF outcome = "wrong_topic" THEN WrongTopic(r) ELSE GroundedUnacceptable(r)

\* outcome_status of the outside audit: two reviewers, and perhaps a third; None: no rating.
PairStatus(outcome, first, second, third) ==
    LET v == Verdict(outcome, first)
        w == Verdict(outcome, second)
        t == IF third = None THEN "unclear" ELSE Verdict(outcome, third)
    IN  IF None \in {first, second} THEN "incomplete"
        ELSE IF v = "yes" /\ w = "yes" THEN "confirmed"
        ELSE IF v = "no" /\ w = "no" THEN "negative"
        ELSE IF t # "unclear" /\ t \in {v, w}
        THEN IF t = "yes" THEN "confirmed_adjudicated" ELSE "negative_adjudicated"
        ELSE "unresolved"

\* outcome_status of the authors' audit: author -> rating or None.
AuthorStatus(outcome, ratings) ==
    LET voting(v) == {a \in DOMAIN ratings : Verdict(outcome, ratings[a]) = v}
    IN  IF \E a \in DOMAIN ratings : ratings[a] = None THEN "incomplete"
        ELSE IF voting("yes") = DOMAIN ratings THEN "unanimous_positive"
        ELSE IF voting("no") = DOMAIN ratings THEN "unanimous_negative"
        ELSE IF 2 * Cardinality(voting("yes")) > Cardinality(DOMAIN ratings) THEN "majority_positive"
        ELSE "unresolved"
=============================================================================
