----------------------------- MODULE HumanAudit -----------------------------
(***************************************************************************)
(* The audit by outside reviewers (backend/app/scripts/human_audit.py,     *)
(* ai/evaluation/human_audit.py): the sample is drawn and frozen, each     *)
(* case goes to a pair of reviewers on an offline page, the files they     *)
(* send back are collected as often as new ones arrive, and a third        *)
(* reviewer gets the cases the two split on.                               *)
(*                                                                         *)
(* Reviewers work at their own pace: a file holds the cases rated so far.  *)
(* In the procedure "planned" a later file of a reviewer only adds to the  *)
(* earlier one, the pages are exported once and there is one third         *)
(* reviewer, who is in no pair; the scripts ask for none of it.            *)
(*                                                                         *)
(* collect takes the files in the order in which they are named on its     *)
(* command line, the last one of a reviewer counting.  In "planned" that   *)
(* is the last one sent; in "free", where a later file may take ratings    *)
(* back or be an earlier one again, it may be any of them.                 *)
(***************************************************************************)
EXTENDS AuditRules

CONSTANTS
    Drafts,        \* the eligible drafts; see AuditRules
    TargetShare,   \* TARGET_SHARE: the sample sizes and their targeted parts
    Opinions,      \* what a page may hold for a case
    MaxPairs,      \* bound: pairs of reviewers
    MaxDealt,      \* bound: only samples up to this size go to reviewers
    MaxExports, MaxFiles    \* bounds

HumanAssumption ==
    /\ MaxPairs \in Nat /\ MaxExports \in Nat /\ MaxFiles \in Nat
    /\ None \notin Opinions
    /\ TypeOrder \in Seq(ToSet(TypeOrder))
    /\ \A i, j \in DOMAIN TypeOrder : TypeOrder[i] = TypeOrder[j] => i = j
    /\ IsFiniteSet(Drafts)
    /\ \A d \in Drafts : d.type \in ToSet(TypeOrder)
    /\ \A n \in DOMAIN TargetShare :
          LET targeted == TargetShare[n]
          IN  /\ n \in Nat /\ targeted \in Nat \X Nat \X Nat
              /\ targeted[1] + targeted[2] + targeted[3] <= n

VARIABLES
    manifest,     \* manifest_hidden.json: the cases, or None
    pairOf,       \* assignment_hidden.json: case -> pair, or None
    page,         \* reviewer -> the cases on the page with their name
    sent,         \* reviewer -> the last file sent: rated case -> rating
    tally,        \* collect_report.json, or None
    handled,      \* pages exported and files sent so far
    procedure     \* "planned" or "free"

humanVars == <<manifest, pairOf, page, sent, tally, handled, procedure>>

\* Reviewers HA-01, HA-02, ...
Reviewers == 1 .. 2 * MaxPairs + 1

Pair(k) == {2 * k - 1, 2 * k}

Cases == IF manifest = None THEN {} ELSE {c.draft : c \in manifest}

Statuses == {"incomplete", "confirmed", "negative", "confirmed_adjudicated", "negative_adjudicated", "unresolved"}

HumanTypeOK ==
    /\ manifest # None => \A c \in manifest : c.draft \in Drafts /\ c.part \in {"I", "II"}
    /\ pairOf # None => \A d \in DOMAIN pairOf : pairOf[d] \in 1 .. MaxPairs
    /\ tally # None => \A o \in Outcomes : \A d \in DOMAIN tally.status[o] : tally.status[o][d] \in Statuses
    /\ handled.files \in 0 .. MaxFiles

HumanInit ==
    /\ manifest = None /\ pairOf = None
    /\ page = [r \in Reviewers |-> {}]
    /\ sent = [r \in Reviewers |-> <<>>]
    /\ tally = None
    /\ handled = [exports |-> 0, files |-> 0]
    /\ procedure \in {"planned", "free"}

\* freeze: refused once there is a manifest; no sample: select raises.
FreezeSample(n) ==
    /\ manifest = None
    /\ manifest' \in Samples(Drafts, n, TargetShare[n])
    /\ UNCHANGED <<pairOf, page, sent, tally, handled, procedure>>

\* export: pages for pairs of reviewers; the assignment file is overwritten.
ExportPages(pairs) ==
    /\ manifest # None
    /\ Cardinality(Cases) <= MaxDealt
    /\ handled.exports < IF procedure = "planned" THEN 1 ELSE MaxExports
    /\ \E deal \in Deals(manifest, pairs) :
          LET of(d) == deal[CHOOSE c \in manifest : c.draft = d]
          IN  /\ pairOf' = [d \in Cases |-> of(d)]
              /\ page' = [r \in Reviewers |->
                            IF r > 2 * pairs THEN page[r] ELSE {d \in Cases : r \in Pair(of(d))}]
    /\ handled' = [handled EXCEPT !.exports = @ + 1]
    /\ UNCHANGED <<manifest, sent, tally, procedure>>

\* The ratings already sent are kept.
Adds(old, rows) == \A d \in DOMAIN old : d \in DOMAIN rows /\ rows[d] = old[d]

\* A reviewer sends a file: what is rated by now.
SendFile(r) ==
    /\ page[r] # {}
    /\ handled.files < MaxFiles
    /\ \E rated \in SUBSET page[r] : \E rows \in [rated -> Opinions] :
          /\ procedure = "planned" => Adds(sent[r], rows)
          /\ sent' = [sent EXCEPT ![r] = rows]
    /\ handled' = [handled EXCEPT !.files = @ + 1]
    /\ UNCHANGED <<manifest, pairOf, page, tally, procedure>>

\* _read: the finished rows of a file that break no rule; others are reported as problems.
Finished(r) == {d \in DOMAIN sent[r] \cap Cases : IsFinished(sent[r][d])}

OpinionOf(r, d) == IF d \in Finished(r) THEN sent[r][d] ELSE None

\* collect: a reviewer of a pair counts as one; anyone else's ratings are the third's.
InPairs(r) == \E d \in Cases : r \in Pair(pairOf[d])

ThirdOf(d) ==
    LET others == {r \in Reviewers : ~ InPairs(r) /\ d \in Finished(r)}
    IN  IF others = {} THEN None ELSE sent[Max(others)][d]

FirstOf(d) == OpinionOf(2 * pairOf[d] - 1, d)

SecondOf(d) == OpinionOf(2 * pairOf[d], d)

\* Two reviewers who both decided, and differ over whether the draft is acceptable.
IsSplit(d) ==
    /\ None \notin {FirstOf(d), SecondOf(d)}
    /\ "U" \notin {FirstOf(d).q1, SecondOf(d).q1}
    /\ Accepts(FirstOf(d).q1) # Accepts(SecondOf(d).q1)

\* The missing-label bounds of the share of a problem: what is confirmed, and what may still be.
\* Mutant: a case without two ratings is left out of the upper bound.
Upper_Unresolved(statuses) == {d \in DOMAIN statuses : statuses[d] \in {"confirmed", "confirmed_adjudicated", "unresolved"}}

Lower(statuses) == {d \in DOMAIN statuses : statuses[d] \in {"confirmed", "confirmed_adjudicated"}}

Upper(statuses) ==
    Lower(statuses) \cup {d \in DOMAIN statuses : statuses[d] \in {"unresolved", "incomplete"}}

StatusOf(o, d) == PairStatus(o, FirstOf(d), SecondOf(d), ThirdOf(d))

\* analyse: how far the reviewers of a case are, the disputes over acceptability, the outcome of
\* every case and the bounds.
Tally ==
    LET status == [o \in Outcomes |-> [d \in Cases |-> StatusOf(o, d)]]
    IN  [finished |-> [r \in Reviewers |-> Finished(r)],
         disputed |-> {d \in Cases : IsSplit(d)},
         status   |-> status,
         lower    |-> [o \in Outcomes |-> Lower(status[o])],
         upper    |-> [o \in Outcomes |-> Upper(status[o])]]

\* collect: of the files that have arrived.
CollectFiles ==
    /\ pairOf # None
    /\ handled.files > 0
    /\ tally' = Tally
    /\ UNCHANGED <<manifest, pairOf, page, sent, handled, procedure>>

\* adjudication: a page with the disputed cases of the last report, for whoever is named; it
\* replaces a page that reviewer has.
ThirdPage(r) ==
    /\ tally # None
    /\ tally.disputed # {}
    /\ procedure = "planned" =>
          /\ ~ InPairs(r)
          /\ \A s \in Reviewers \ {r} : InPairs(s) \/ page[s] = {}
    /\ page' = [page EXCEPT ![r] = tally.disputed]
    /\ UNCHANGED <<manifest, pairOf, sent, tally, handled, procedure>>

HumanNext ==
    \/ \E n \in DOMAIN TargetShare : FreezeSample(n)
    \/ \E k \in 1 .. MaxPairs : ExportPages(k)
    \/ \E r \in Reviewers : SendFile(r)
    \/ CollectFiles
    \/ \E r \in Reviewers : ThirdPage(r)

HumanSpec == HumanInit /\ [][HumanNext]_humanVars

----------------------------------------------------------------------------

\* However the files trickle in, a further report never takes a finding back and never lets
\* one in that an earlier report had ruled out: the bounds published from Part I only close
\* in.  Not so if the procedure is "free": pages exported for other pairs, ratings changed, a
\* page for the disputed cases made out to a member of a pair, whose other ratings it then
\* replaces, or two third reviewers, of whom collect lets the last overrule the other
\* (ai/evaluation/human_audit.py 187-199, 257-281, scripts/human_audit.py 182-217).
BoundsOnlyCloseIn ==
    [][tally # None /\ procedure = "planned" =>
          \A o \in Outcomes :
              /\ tally.lower[o] \subseteq tally'.lower[o]
              /\ tally'.upper[o] \subseteq tally.upper[o]]_tally

\* The sample has the promised size, no scenario twice, as many random cases of each type as
\* of any other unless that type has no more scenarios, and no case of it is rated by one
\* reviewer of a pair alone: two different reviewers stand behind every finding, and a third
\* only where they differ (ai/evaluation/human_audit.py 36-50, 73-114).
SampleIsSound ==
    /\ manifest # None =>
          /\ Cardinality(manifest) \in DOMAIN TargetShare
          /\ \A c, d \in manifest : c # d => c.draft.group # d.draft.group
          /\ LET n(t) == Cardinality({c \in manifest : c.part = "I" /\ c.draft.type = t})
                 all(t) == Cardinality({d.group : d \in {e \in Drafts : e.type = t}})
             IN  \A s, t \in ToSet(TypeOrder) : n(s) < n(t) - 1 => n(s) = all(s)
    /\ tally # None /\ procedure = "planned" =>
          \A o \in Outcomes : \A d \in DOMAIN tally.status[o] :
              tally.status[o][d] \in {"confirmed", "negative"} =>
                  Cardinality({r \in Reviewers : InPairs(r) /\ d \in Finished(r)}) >= 2
=============================================================================
