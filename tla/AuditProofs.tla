----------------------------- MODULE AuditProofs -----------------------------
(***************************************************************************)
(* Theorems about the three audits of drafts: the reports of the outside   *)
(* audit only close in and its sample is sound (HumanAudit), the authors'  *)
(* adjudication stays within what their ratings allow (AuthorAudit), and   *)
(* what the grounding audit samples stands for what it left out            *)
(* (GroundingAudit).                                                       *)
(***************************************************************************)
EXTENDS HumanAudit, AuthorAudit, GroundingAudit, FiniteSetTheorems, SequenceTheorems, TLAPS

----------------------------------------------------------------------------
(* The outside audit.  A report settles a case when no later file may change its outcome. *)

Settled == {"confirmed", "negative", "confirmed_adjudicated", "negative_adjudicated"}

\* An outcome that two reviewers and a third have settled stays when what was missing arrives.
LEMMA SettledOutcomesStay ==
    ASSUME NEW o, NEW first, NEW second, NEW third, NEW first2, NEW second2, NEW third2,
           first # None => first2 = first,
           second # None => second2 = second,
           third # None => third2 = third,
           PairStatus(o, first, second, third) \in Settled
    PROVE  PairStatus(o, first2, second2, third2) = PairStatus(o, first, second, third)
<1>1. first # None /\ second # None
    BY DEF PairStatus, Settled
<1>2. first2 = first /\ second2 = second
    BY <1>1
<1>3. CASE Verdict(o, first) = "yes" /\ Verdict(o, second) = "yes"
    BY <1>2, <1>3 DEF PairStatus
<1>4. CASE Verdict(o, first) = "no" /\ Verdict(o, second) = "no"
    BY <1>2, <1>4 DEF PairStatus
<1>5. CASE /\ ~ (Verdict(o, first) = "yes" /\ Verdict(o, second) = "yes")
           /\ ~ (Verdict(o, first) = "no" /\ Verdict(o, second) = "no")
    <2>1. third # None
        BY <1>1, <1>5 DEF PairStatus, Settled
    <2> QED
        BY <1>2, <2>1
<1> QED
    BY <1>3, <1>4, <1>5

\* The statuses of a case.
LEMMA PairStatusIsStatus ==
    ASSUME NEW o, NEW first, NEW second, NEW third
    PROVE  PairStatus(o, first, second, third) \in Settled \cup {"unresolved", "incomplete"}
BY DEF PairStatus, Settled

\* The files hold ratings, and nothing happens before the pages are exported.
ReviewOK ==
    /\ DOMAIN sent = Reviewers /\ DOMAIN page = Reviewers
    /\ sent = [r \in Reviewers |-> sent[r]] /\ page = [r \in Reviewers |-> page[r]]
    /\ \A r \in Reviewers : \A d \in DOMAIN sent[r] : sent[r][d] \in Opinions
    /\ handled \in [exports : Nat, files : Nat]
    /\ procedure \in {"planned", "free"}
    /\ handled.exports = 0 => /\ tally = None /\ handled.files = 0
                              /\ \A r \in Reviewers : page[r] = {}
    /\ handled.exports > 0 =>
          /\ manifest # None
          /\ \A d \in Cases : pairOf[d] \in 1 .. MaxPairs

\* As planned, there is one third reviewer, and who sent a file has a page.
OneThird ==
    procedure = "planned" =>
        /\ \A r \in Reviewers : DOMAIN sent[r] # {} => page[r] # {}
        /\ \A r, s \in Reviewers :
              page[r] # {} /\ page[s] # {} /\ ~ InPairs(r) /\ ~ InPairs(s) => r = s

\* The last report is of these cases, and what it settled is so still.
ReportHolds ==
    procedure = "planned" /\ tally # None =>
        \A o \in Outcomes :
            /\ DOMAIN tally.status[o] = Cases
            /\ \A d \in Cases : /\ tally.status[o][d] \in Settled \cup {"unresolved", "incomplete"}
                                /\ tally.status[o][d] \in Settled => StatusOf(o, d) = tally.status[o][d]
            /\ tally.lower[o] = Lower(tally.status[o])
            /\ tally.upper[o] = Upper(tally.status[o])

HumanInv == ReviewOK /\ OneThird /\ ReportHolds

\* Initially nothing is drawn, exported, sent or reported.
LEMMA HumanInvInit ==
    ASSUME HumanAssumption, HumanInit
    PROVE  HumanInv
<1>1. ReviewOK
    BY DEF HumanInit, ReviewOK, HumanAssumption, Reviewers
<1>2. OneThird
    BY DEF HumanInit, OneThird
<1>3. ReportHolds
    BY DEF HumanInit, ReportHolds
<1> QED
    BY <1>1, <1>2, <1>3 DEF HumanInv

\* A report is what the files say when it is made.
LEMMA TallyIs ==
    ASSUME NEW o \in Outcomes
    PROVE  /\ DOMAIN Tally.status[o] = Cases
           /\ \A d \in Cases : Tally.status[o][d] = StatusOf(o, d)
           /\ Tally.lower[o] = Lower(Tally.status[o])
           /\ Tally.upper[o] = Upper(Tally.status[o])
BY DEF Tally

\* What a reviewer has rated, a later file as planned still says.
LEMMA OpinionsStay ==
    ASSUME HumanAssumption, HumanInv, procedure = "planned", NEW r \in Reviewers, SendFile(r),
           NEW s \in Reviewers, NEW d, OpinionOf(s, d) # None
    PROVE  OpinionOf(s, d)' = OpinionOf(s, d)
<1>1. d \in Finished(s)
    BY DEF OpinionOf
<1>2. d \in DOMAIN sent[s] /\ d \in Cases /\ IsFinished(sent[s][d])
    BY <1>1 DEF Finished
<1>3. PICK rows : sent' = [sent EXCEPT ![r] = rows] /\ Adds(sent[r], rows)
    BY DEF SendFile
<1>4. d \in DOMAIN sent'[s] /\ sent'[s][d] = sent[s][d]
    BY <1>2, <1>3 DEF Adds, HumanInv, ReviewOK
<1>5. Cases' = Cases
    BY DEF SendFile, Cases
<1>6. d \in Finished(s)'
    BY <1>2, <1>4, <1>5 DEF Finished
<1> QED
    BY <1>1, <1>4, <1>6 DEF OpinionOf

\* The third reviewer of a case is the only one there is.
LEMMA ThirdIs ==
    ASSUME HumanInv, procedure = "planned",
           NEW t \in Reviewers, NEW d, ~ InPairs(t), d \in Finished(t)
    PROVE  ThirdOf(d) = sent[t][d]
<1> DEFINE others == {r \in Reviewers : ~ InPairs(r) /\ d \in Finished(r)}
<1>1. ASSUME NEW s \in others PROVE s = t
    <2>1. DOMAIN sent[s] # {} /\ DOMAIN sent[t] # {}
        BY <1>1 DEF Finished
    <2> QED
        BY <1>1, <2>1 DEF HumanInv, OneThird
<1>2. others = {t}
    BY <1>1
<1>3. t \in Nat
    BY DEF Reviewers
<1>4. Max(others) = t
    BY <1>2, <1>3 DEF Max
<1> QED
    BY <1>2, <1>4 DEF ThirdOf

\* A file that arrives leaves the one third reviewer the only one.
LEMMA SendKeepsOneThird ==
    ASSUME HumanAssumption, HumanInv, NEW r \in Reviewers, SendFile(r)
    PROVE  OneThird'
<1> SUFFICES ASSUME procedure = "planned" PROVE OneThird'
    BY DEF OneThird, SendFile
<1>1. PICK rows : sent' = [sent EXCEPT ![r] = rows]
    BY DEF SendFile
<1>2. \A s \in Reviewers : InPairs(s)' <=> InPairs(s)
    BY DEF SendFile, InPairs, Cases
<1>3. ASSUME NEW s \in Reviewers, DOMAIN sent'[s] # {} PROVE page'[s] # {}
    <2>1. CASE s = r
        BY <2>1 DEF SendFile
    <2>2. CASE s # r
        <3>1. sent'[s] = sent[s]
            BY <1>1, <2>2
        <3> QED
            BY <1>3, <3>1 DEF SendFile, HumanInv, OneThird
    <2> QED
        BY <2>1, <2>2
<1>4. page' = page
    BY DEF SendFile
<1> QED
    BY <1>2, <1>3, <1>4 DEF OneThird, HumanInv

\* A file that arrives holds ratings of what is on the page.
LEMMA SendKeepsReview ==
    ASSUME HumanAssumption, HumanInv, NEW r \in Reviewers, SendFile(r)
    PROVE  ReviewOK'
<1>1. PICK rated \in SUBSET page[r] : \E rows \in [rated -> Opinions] : sent' = [sent EXCEPT ![r] = rows]
    BY DEF SendFile
<1>2. handled.exports > 0
    BY DEF SendFile, HumanInv, ReviewOK
<1>3. /\ DOMAIN sent' = Reviewers /\ sent' = [s \in Reviewers |-> sent'[s]]
      /\ \A s \in Reviewers : \A d \in DOMAIN sent'[s] : sent'[s][d] \in Opinions
    BY <1>1 DEF HumanInv, ReviewOK
<1>4. handled' \in [exports : Nat, files : Nat] /\ handled'.exports = handled.exports
    BY DEF SendFile, HumanInv, ReviewOK
<1>5. Cases' = Cases
    BY DEF SendFile, Cases
<1>6. UNCHANGED <<manifest, pairOf, page, tally, procedure>>
    BY DEF SendFile
<1> QED
    BY <1>2, <1>3, <1>4, <1>5, <1>6 DEF HumanInv, ReviewOK

\* What the last report settled is so still when another file arrives.
LEMMA SendKeepsReport ==
    ASSUME HumanAssumption, HumanInv, NEW r \in Reviewers, SendFile(r)
    PROVE  ReportHolds'
<1> SUFFICES ASSUME procedure = "planned", tally # None PROVE ReportHolds'
    BY DEF ReportHolds, SendFile
<1>1. UNCHANGED <<manifest, pairOf, page, tally, procedure>> /\ Cases' = Cases
    BY DEF SendFile, Cases
<1>2. handled.exports > 0
    BY DEF SendFile, HumanInv, ReviewOK
<1>3. ASSUME NEW o \in Outcomes, NEW d \in Cases, tally.status[o][d] \in Settled
      PROVE  StatusOf(o, d)' = tally.status[o][d]
    <2> DEFINE k == pairOf[d]
    <2>1. k \in 1 .. MaxPairs
        BY <1>2 DEF HumanInv, ReviewOK
    <2>2. 2 * k - 1 \in Reviewers /\ 2 * k \in Reviewers
        BY <2>1 DEF Reviewers, HumanAssumption
    <2>3. StatusOf(o, d) = tally.status[o][d]
        BY <1>3 DEF HumanInv, ReportHolds
    <2>4. FirstOf(d) # None => FirstOf(d)' = FirstOf(d)
        BY <1>1, <2>2, OpinionsStay DEF FirstOf, OpinionOf, Finished
    <2>5. SecondOf(d) # None => SecondOf(d)' = SecondOf(d)
        BY <1>1, <2>2, OpinionsStay DEF SecondOf, OpinionOf, Finished
    <2>6. ThirdOf(d) # None => ThirdOf(d)' = ThirdOf(d)
        <3> SUFFICES ASSUME ThirdOf(d) # None PROVE ThirdOf(d)' = ThirdOf(d)
            OBVIOUS
        <3>1. PICK t \in Reviewers : ~ InPairs(t) /\ d \in Finished(t)
            BY DEF ThirdOf
        <3>2. ThirdOf(d) = sent[t][d]
            BY <3>1, ThirdIs
        <3>3. sent[t][d] # None
            BY <3>1 DEF Finished, HumanInv, ReviewOK, HumanAssumption
        <3>4. OpinionOf(t, d)' = OpinionOf(t, d) /\ OpinionOf(t, d) = sent[t][d]
            BY <3>1, <3>3, OpinionsStay DEF OpinionOf
        <3>5. d \in Finished(t)' /\ sent'[t][d] = sent[t][d]
            BY <3>3, <3>4 DEF OpinionOf
        <3> DEFINE others == {s \in Reviewers : ~ InPairs(s)' /\ d \in Finished(s)'}
        <3>6. ~ InPairs(t)'
            BY <1>1, <3>1 DEF InPairs
        <3>7. ASSUME NEW s \in others PROVE s = t
            <4>1. DOMAIN sent'[s] # {} /\ DOMAIN sent'[t] # {}
                BY <3>5, <3>7 DEF Finished
            <4> QED
                BY <3>6, <3>7, <4>1, <1>1, SendKeepsOneThird DEF OneThird
        <3>8. others = {t}
            BY <3>5, <3>6, <3>7
        <3>9. Max(others) = t
            BY <3>8 DEF Max, Reviewers
        <3> QED
            BY <3>2, <3>5, <3>8, <3>9 DEF ThirdOf
    <2> HIDE DEF k
    <2>7. PairStatus(o, FirstOf(d)', SecondOf(d)', ThirdOf(d)') =
              PairStatus(o, FirstOf(d), SecondOf(d), ThirdOf(d))
        BY <1>3, <2>3, <2>4, <2>5, <2>6, SettledOutcomesStay DEF StatusOf
    <2> QED
        BY <2>3, <2>7 DEF StatusOf
<1> QED
    BY <1>1, <1>3 DEF HumanInv, ReportHolds

\* A case goes to the pair it is dealt to.
LEMMA DealtPairs ==
    ASSUME HumanAssumption, manifest # None, NEW pairs \in 1 .. MaxPairs,
           NEW deal \in Deals(manifest, pairs), NEW d \in Cases
    PROVE  deal[CHOOSE c \in manifest : c.draft = d] \in 1 .. pairs
<1>1. \E c \in manifest : c.draft = d
    BY DEF Cases
<1>2. (CHOOSE c \in manifest : c.draft = d) \in manifest
    BY <1>1
<1>3. deal \in [manifest -> 1 .. pairs]
    BY DEF Deals
<1> QED
    BY <1>2, <1>3

\* Pages are made once, before anything else, if all goes as planned.
LEMMA ExportKeepsInv ==
    ASSUME HumanAssumption, HumanInv, NEW pairs \in 1 .. MaxPairs, ExportPages(pairs)
    PROVE  HumanInv'
<1> DEFINE of(deal, d) == deal[CHOOSE c \in manifest : c.draft = d]
<1>1. PICK deal \in Deals(manifest, pairs) :
          /\ pairOf' = [d \in Cases |-> of(deal, d)]
          /\ page' = [r \in Reviewers |->
                        IF r > 2 * pairs THEN page[r] ELSE {d \in Cases : r \in Pair(of(deal, d))}]
    BY DEF ExportPages
<1>2. manifest # None /\ UNCHANGED <<manifest, sent, tally, procedure>> /\ Cases' = Cases
    BY DEF ExportPages, Cases
<1>3. \A d \in Cases : of(deal, d) \in 1 .. pairs
    BY <1>2, DealtPairs
<1>4. handled' \in [exports : Nat, files : Nat] /\ handled'.exports = handled.exports + 1
    BY DEF ExportPages, HumanInv, ReviewOK
<1>5. pairs \in Nat /\ pairs <= MaxPairs
    BY DEF HumanAssumption
<1> HIDE DEF of
<1>6. ReviewOK'
    <2>1. \A d \in Cases' : pairOf'[d] \in 1 .. MaxPairs
        BY <1>1, <1>2, <1>3, <1>5 DEF HumanAssumption
    <2>2. DOMAIN page' = Reviewers /\ page' = [r \in Reviewers |-> page'[r]]
        BY <1>1
    <2> QED
        BY <1>2, <1>4, <2>1, <2>2 DEF HumanInv, ReviewOK
<1>7. ASSUME procedure = "planned" PROVE handled.exports = 0
    BY <1>7 DEF ExportPages, HumanInv, ReviewOK
<1>8. OneThird'
    <2> SUFFICES ASSUME procedure = "planned" PROVE OneThird'
        BY <1>2 DEF OneThird
    <2>1. \A r \in Reviewers : page[r] = {} /\ DOMAIN sent[r] = {}
        BY <1>7 DEF HumanInv, ReviewOK, OneThird
    <2>2. ASSUME NEW r \in Reviewers, page'[r] # {} PROVE InPairs(r)'
        <3>1. page'[r] = {d \in Cases : r \in Pair(of(deal, d))}
            BY <1>1, <2>1, <2>2
        <3>2. PICK d \in Cases : r \in Pair(of(deal, d))
            BY <2>2, <3>1
        <3> QED
            BY <1>1, <1>2, <3>2 DEF InPairs, Pair
    <2> QED
        BY <1>2, <2>1, <2>2 DEF OneThird
<1>9. ReportHolds'
    BY <1>2, <1>7 DEF ReportHolds, HumanInv, ReviewOK
<1> QED
    BY <1>6, <1>8, <1>9 DEF HumanInv

\* The sample is drawn before anything is exported.
LEMMA FreezeKeepsInv ==
    ASSUME HumanAssumption, HumanInv, NEW n, FreezeSample(n)
    PROVE  HumanInv'
<1>1. UNCHANGED <<pairOf, page, sent, tally, handled, procedure>> /\ manifest = None
    BY DEF FreezeSample
<1>2. handled.exports = 0
    BY <1>1 DEF HumanInv, ReviewOK
<1>3. ReviewOK'
    BY <1>1, <1>2 DEF HumanInv, ReviewOK
<1>4. OneThird'
    BY <1>1, <1>2 DEF HumanInv, ReviewOK, OneThird
<1>5. ReportHolds'
    BY <1>1, <1>2 DEF HumanInv, ReviewOK, ReportHolds
<1> QED
    BY <1>3, <1>4, <1>5 DEF HumanInv

\* A report holds when it is made.
LEMMA CollectKeepsInv ==
    ASSUME HumanAssumption, HumanInv, CollectFiles
    PROVE  HumanInv'
<1>1. UNCHANGED <<manifest, pairOf, page, sent, handled, procedure>> /\ tally' = Tally
    BY DEF CollectFiles
<1>2. handled.exports > 0
    BY DEF CollectFiles, HumanInv, ReviewOK
<1>3. /\ Cases' = Cases /\ \A r : InPairs(r)' <=> InPairs(r)
      /\ \A o, d : StatusOf(o, d)' = StatusOf(o, d)
    BY <1>1 DEF Cases, InPairs, StatusOf, FirstOf, SecondOf, ThirdOf, OpinionOf, Finished
<1>4. ReviewOK'
    BY <1>1, <1>2, <1>3 DEF HumanInv, ReviewOK
<1>5. OneThird'
    BY <1>1, <1>3 DEF HumanInv, OneThird
<1>6. ASSUME NEW o \in Outcomes, NEW d \in Cases
      PROVE  StatusOf(o, d) \in Settled \cup {"unresolved", "incomplete"}
    BY PairStatusIsStatus DEF StatusOf
<1>7. ReportHolds'
    BY <1>1, <1>3, <1>6, TallyIs DEF ReportHolds
<1> QED
    BY <1>4, <1>5, <1>7 DEF HumanInv

\* The page for a third reviewer goes, as planned, to nobody else than the one there is.
LEMMA ThirdPageKeepsInv ==
    ASSUME HumanAssumption, HumanInv, NEW r \in Reviewers, ThirdPage(r)
    PROVE  HumanInv'
<1>1. /\ UNCHANGED <<manifest, pairOf, sent, tally, handled, procedure>>
      /\ page' = [page EXCEPT ![r] = tally.disputed] /\ tally # None /\ tally.disputed # {}
    BY DEF ThirdPage
<1>2. handled.exports > 0
    BY <1>1 DEF HumanInv, ReviewOK
<1>3. /\ Cases' = Cases /\ \A s : InPairs(s)' <=> InPairs(s)
      /\ \A o, d : StatusOf(o, d)' = StatusOf(o, d)
    BY <1>1 DEF Cases, InPairs, StatusOf, FirstOf, SecondOf, ThirdOf, OpinionOf, Finished
<1>4. ReviewOK'
    BY <1>1, <1>2, <1>3 DEF HumanInv, ReviewOK
<1>5. OneThird'
    <2> SUFFICES ASSUME procedure = "planned" PROVE OneThird'
        BY <1>1 DEF OneThird
    <2>1. \A s \in Reviewers \ {r} : InPairs(s) \/ page[s] = {}
        BY DEF ThirdPage
    <2>2. \A s \in Reviewers : page'[s] = IF s = r THEN tally.disputed ELSE page[s]
        BY <1>1 DEF HumanInv, ReviewOK
    <2> QED
        BY <1>1, <1>3, <2>1, <2>2 DEF HumanInv, OneThird
<1>6. ReportHolds'
    BY <1>1, <1>3 DEF HumanInv, ReportHolds
<1> QED
    BY <1>4, <1>5, <1>6 DEF HumanInv

\* Every step keeps the invariant.
LEMMA HumanInvNext ==
    ASSUME HumanAssumption, HumanInv, [HumanNext]_humanVars
    PROVE  HumanInv'
<1>1. CASE \E n \in DOMAIN TargetShare : FreezeSample(n)
    BY <1>1, FreezeKeepsInv
<1>2. CASE \E k \in 1 .. MaxPairs : ExportPages(k)
    BY <1>2, ExportKeepsInv
<1>3. CASE \E r \in Reviewers : SendFile(r)
    BY <1>3, SendKeepsReview, SendKeepsOneThird, SendKeepsReport DEF HumanInv
<1>4. CASE CollectFiles
    BY <1>4, CollectKeepsInv
<1>5. CASE \E r \in Reviewers : ThirdPage(r)
    BY <1>5, ThirdPageKeepsInv
<1>6. CASE UNCHANGED humanVars
    <2>1. /\ Cases' = Cases /\ \A s : InPairs(s)' <=> InPairs(s)
          /\ \A o, d : StatusOf(o, d)' = StatusOf(o, d)
        BY <1>6 DEF humanVars, Cases, InPairs, StatusOf, FirstOf, SecondOf, ThirdOf, OpinionOf, Finished
    <2> QED
        BY <1>6, <2>1 DEF humanVars, HumanInv, ReviewOK, OneThird, ReportHolds
<1> QED
    BY <1>1, <1>2, <1>3, <1>4, <1>5, <1>6 DEF HumanNext

\* A new report keeps what the last one settled, so its bounds lie within the last one's.
LEMMA ReportsCloseIn ==
    ASSUME HumanAssumption, HumanInv, [HumanNext]_humanVars, tally # None, procedure = "planned",
           tally' # tally, NEW o \in Outcomes
    PROVE  tally.lower[o] \subseteq tally'.lower[o] /\ tally'.upper[o] \subseteq tally.upper[o]
<1>1. tally' = Tally
    BY DEF HumanNext, humanVars, FreezeSample, ExportPages, SendFile, CollectFiles, ThirdPage
<1>2. /\ DOMAIN tally.status[o] = Cases
      /\ tally.lower[o] = Lower(tally.status[o]) /\ tally.upper[o] = Upper(tally.status[o])
      /\ \A d \in Cases : /\ tally.status[o][d] \in Settled \cup {"unresolved", "incomplete"}
                          /\ tally.status[o][d] \in Settled => Tally.status[o][d] = tally.status[o][d]
    BY TallyIs DEF HumanInv, ReportHolds
<1>3. /\ DOMAIN Tally.status[o] = Cases
      /\ Tally.lower[o] = Lower(Tally.status[o]) /\ Tally.upper[o] = Upper(Tally.status[o])
    BY TallyIs
<1> HIDE DEF Tally
<1>4. ASSUME NEW d \in tally.lower[o] PROVE d \in Tally.lower[o]
    BY <1>2, <1>3, <1>4 DEF Lower, Settled
<1>5. ASSUME NEW d \in Tally.upper[o] PROVE d \in tally.upper[o]
    BY <1>2, <1>3, <1>5 DEF Lower, Upper, Settled
<1> QED
    BY <1>1, <1>4, <1>5

\* However many reviewers there are and however their files trickle in: if all goes as planned,
\* no later report takes a finding back or lets one in that an earlier one had ruled out.
THEOREM ReportsOnlyCloseIn ==
    ASSUME HumanAssumption
    PROVE  HumanSpec => BoundsOnlyCloseIn
<1>1. HumanInit => HumanInv
    BY HumanInvInit
<1>2. HumanInv /\ [HumanNext]_humanVars => HumanInv'
    BY HumanInvNext
<1>3. HumanInv /\ [HumanNext]_humanVars =>
          [tally # None /\ procedure = "planned" =>
              \A o \in Outcomes :
                  /\ tally.lower[o] \subseteq tally'.lower[o]
                  /\ tally'.upper[o] \subseteq tally.upper[o]]_tally
    BY ReportsCloseIn
<1> QED
    BY <1>1, <1>2, <1>3, PTL DEF HumanSpec, BoundsOnlyCloseIn

----------------------------------------------------------------------------
(* The sample: definitions by recursion *)

\* A set of numbers has a least one.
LEMMA LeastNumber ==
    ASSUME NEW S \in SUBSET Nat, S # {}
    PROVE  \E n \in S : \A m \in S : n <= m
<1> DEFINE T == {1 .. n : n \in S}
<1>1. ASSUME NEW n \in S
      PROVE  1 .. n \in FiniteSubsetsOf(Nat)
    <2>1. n \in Int /\ 1 .. n \in SUBSET Nat
        OBVIOUS
    <2>2. IsFiniteSet(1 .. n)
        BY <2>1, FS_Interval
    <2> QED BY <2>1, <2>2 DEF FiniteSubsetsOf
<1>2. PICK x \in T : \A y \in T : ~ (<<y, x>> \in StrictSubsetOrdering(Nat))
    <2>1. T # {}
        OBVIOUS
    <2>2. T \subseteq FiniteSubsetsOf(Nat)
        BY <1>1
    <2> HIDE DEF T
    <2> QED BY <2>1, <2>2, FS_StrictSubsetOrderingWellFounded, WFMin
<1>3. PICK n \in S : x = 1 .. n
    OBVIOUS
<1>4. ASSUME NEW m \in S, ~ (n <= m)
      PROVE  FALSE
    <2>1. 1 .. m \in T /\ 1 .. m \in SUBSET Nat /\ 1 .. n \in SUBSET Nat
        OBVIOUS
    <2>2. 1 .. m \subseteq 1 .. n /\ n \in 1 .. n /\ n \notin 1 .. m
        BY <1>4
    <2> QED BY <1>2, <1>3, <2>1, <2>2 DEF StrictSubsetOrdering
<1> QED BY <1>4

\* Induction up to n.
LEMMA CountingUp ==
    ASSUME NEW n \in Nat, NEW S, 0 \in S, \A k \in 1 .. n : k - 1 \in S => k \in S
    PROVE  \A k \in 0 .. n : k \in S
<1> DEFINE Missed == {k \in 0 .. n : k \notin S}
<1>1. Missed \in SUBSET Nat
    OBVIOUS
<1>2. SUFFICES ASSUME Missed # {} PROVE FALSE
    OBVIOUS
<1>3. PICK k \in Missed : \A m \in Missed : k <= m
    <2> HIDE DEF Missed
    <2> QED BY <1>1, <1>2, LeastNumber
<1>4. k \in 1 .. n /\ k - 1 \in 0 .. n /\ k - 1 \notin Missed
    BY <1>3
<1> QED BY <1>3, <1>4

\* Definitions by recursion: n steps on A, and what they lead to from base.
Steps(A, n) == [(1 .. n) \X A -> A]

Iterations(A, n, base, step) ==
    {g \in [0 .. n -> A] : g[0] = base /\ \A k \in 1 .. n : g[k] = step[<<k, g[k - 1]>>]}

\* What is defined step by step from the step before exists.
LEMMA Iterates ==
    ASSUME NEW A, NEW n \in Nat, NEW base \in A, NEW step \in Steps(A, n)
    PROVE  Iterations(A, n, base, step) # {}
<1> DEFINE Is(g, m) == g[0] = base /\ \A k \in 1 .. m : g[k] = step[<<k, g[k - 1]>>]
           Good == {m \in 0 .. n : \E g \in [0 .. m -> A] : Is(g, m)}
<1>1. 0 \in Good
    <2> DEFINE g == [k \in 0 .. 0 |-> base]
    <2>1. g \in [0 .. 0 -> A] /\ g[0] = base /\ 1 .. 0 = {}
        OBVIOUS
    <2> HIDE DEF g
    <2> QED BY <2>1
<1>2. ASSUME NEW m \in 1 .. n, m - 1 \in Good PROVE m \in Good
    <2>1. PICK g \in [0 .. m - 1 -> A] : Is(g, m - 1)
        BY <1>2
    <2> DEFINE h == [k \in 0 .. m |-> IF k = m THEN step[<<m, g[m - 1]>>] ELSE g[k]]
    <2>2. m - 1 \in 0 .. m - 1 /\ \A k \in 0 .. m : k # m => k \in 0 .. m - 1
        OBVIOUS
    <2>3. h \in [0 .. m -> A]
        BY <2>2 DEF Steps
    <2>4. ASSUME NEW k \in 1 .. m PROVE h[k] = step[<<k, h[k - 1]>>]
        <3>1. k - 1 \in 0 .. m - 1 /\ k - 1 # m
            OBVIOUS
        <3>2. h[k - 1] = g[k - 1]
            BY <3>1
        <3>3. CASE k = m
            <4>1. h[k] = step[<<m, g[m - 1]>>]
                BY <3>3
            <4> HIDE DEF h
            <4> QED BY <3>2, <3>3, <4>1
        <3>4. CASE k # m
            <4>1. k \in 1 .. m - 1
                BY <3>4
            <4>2. g[k] = step[<<k, g[k - 1]>>]
                BY <2>1, <4>1
            <4>3. h[k] = g[k]
                BY <3>4
            <4> HIDE DEF h
            <4> QED BY <3>2, <4>2, <4>3
        <3> QED BY <3>3, <3>4
    <2>5. h[0] = base
        BY <2>1
    <2> HIDE DEF h
    <2> QED BY <2>3, <2>4, <2>5
<1>3. \A m \in 0 .. n : m \in Good
    <2> HIDE DEF Good
    <2> QED BY <1>1, <1>2, CountingUp
<1>4. n \in Good
    <2> HIDE DEF Good
    <2> QED BY <1>3
<1> QED BY <1>4 DEF Iterations

TicketTypes == ToSet(TypeOrder)

\* The types are listed once each.
OrderOK ==
    /\ TypeOrder \in Seq(TicketTypes)
    /\ \A i, j \in DOMAIN TypeOrder : TypeOrder[i] = TypeOrder[j] => i = j

\* The list of types, read both ways.
LEMMA TypesAre ==
    ASSUME OrderOK
    PROVE  /\ Len(TypeOrder) \in Nat /\ DOMAIN TypeOrder = 1 .. Len(TypeOrder)
           /\ \A k \in 1 .. Len(TypeOrder) : TypeOrder[k] \in TicketTypes /\ Place(TypeOrder[k]) = k
           /\ \A t \in TicketTypes : Place(t) \in 1 .. Len(TypeOrder) /\ TypeOrder[Place(t)] = t
           /\ IsFiniteSet(TicketTypes)
<1>1. Len(TypeOrder) \in Nat /\ DOMAIN TypeOrder = 1 .. Len(TypeOrder)
    BY DEF OrderOK
<1>2. TicketTypes = {TypeOrder[k] : k \in 1 .. Len(TypeOrder)}
    BY <1>1 DEF TicketTypes, ToSet
<1>3. IsFiniteSet(1 .. Len(TypeOrder))
    BY <1>1, FS_Interval
<1>4. IsFiniteSet(TicketTypes)
    <2>1. TypeOrder \in Surjection(1 .. Len(TypeOrder), TicketTypes)
        BY <1>1, <1>2 DEF OrderOK, Surjection
    <2> QED BY <1>3, <2>1, FS_Surjection
<1>5. ASSUME NEW k \in 1 .. Len(TypeOrder) PROVE Place(TypeOrder[k]) = k
    BY <1>1 DEF OrderOK, Place
<1> QED BY <1>1, <1>2, <1>4, <1>5

\* The open types are listed once each.
LEMMA ListsTypes ==
    ASSUME OrderOK, NEW available \in [TicketTypes -> Nat], NEW T \in SUBSET TicketTypes
    PROVE  LET order == ByScenarios(T, available)
               n == Cardinality(T)
           IN  /\ n \in Nat /\ order \in [1 .. n -> T] /\ Len(order) = n
               /\ \A t \in T : \E k \in 1 .. n : order[k] = t
               /\ \A i, j \in 1 .. n : order[i] = order[j] => i = j
<1> DEFINE order == ByScenarios(T, available)
           n == Cardinality(T)
           F == [t \in T |-> Cardinality(Ahead(t, T, available))]
<1>1. IsFiniteSet(T) /\ n \in Nat
    BY TypesAre, FS_Subset, FS_CardinalityType
<1>2. \A t \in T : available[t] \in Nat /\ Place(t) \in Nat
    BY TypesAre
<1>3. \A t, u \in T : Place(t) = Place(u) => t = u
    BY TypesAre
<1>4. ASSUME NEW t \in T PROVE IsFiniteSet(Ahead(t, T, available)) /\ F[t] \in 0 .. n - 1
    <2>1. Ahead(t, T, available) \in SUBSET (T \ {t})
        BY <1>2 DEF Ahead
    <2>2. IsFiniteSet(T \ {t}) /\ Cardinality(T \ {t}) = n - 1
        BY <1>1, FS_RemoveElement
    <2>3. /\ IsFiniteSet(Ahead(t, T, available))
          /\ Cardinality(Ahead(t, T, available)) <= n - 1
        BY <2>1, <2>2, FS_Subset
    <2>4. Cardinality(Ahead(t, T, available)) \in Nat
        BY <2>3, FS_CardinalityType
    <2> QED BY <1>1, <2>3, <2>4
<1>5. ASSUME NEW t \in T, NEW u \in T, t \in Ahead(u, T, available) PROVE F[t] # F[u]
    <2>1. Ahead(t, T, available) \in SUBSET Ahead(u, T, available)
        <3>1. \A v \in T : v \in Ahead(t, T, available) => v \in Ahead(u, T, available)
            BY <1>2, <1>5 DEF Ahead
        <3>2. Ahead(t, T, available) \subseteq T
            BY DEF Ahead
        <3> QED BY <3>1, <3>2
    <2>2. t \notin Ahead(t, T, available)
        BY <1>2 DEF Ahead
    <2> QED BY <1>4, <1>5, <2>1, <2>2, FS_Subset
<1>6. \A t, u \in T : t = u \/ t \in Ahead(u, T, available) \/ u \in Ahead(t, T, available)
    BY <1>2, <1>3 DEF Ahead
<1>7. F \in Injection(T, 0 .. n - 1)
    <2>1. F \in [T -> 0 .. n - 1]
        BY <1>4
    <2> HIDE DEF F
    <2> QED BY <1>5, <1>6, <2>1 DEF Injection, IsInjective
<1>8. F \in Surjection(T, 0 .. n - 1)
    <2>1. IsFiniteSet(0 .. n - 1) /\ Cardinality(0 .. n - 1) = n
        <3>1. PICK m \in Int : m = n - 1
            BY <1>1
        <3>2. IsFiniteSet(0 .. m) /\ Cardinality(0 .. m) = IF 0 > m THEN 0 ELSE m - 0 + 1
            BY FS_Interval
        <3> QED BY <1>1, <3>1, <3>2
    <2> HIDE DEF F
    <2> QED BY <1>7, <2>1, FS_Injection
<1>9. ASSUME NEW k \in 1 .. n PROVE order[k] \in T /\ F[order[k]] = k - 1
    <2>1. PICK u \in T : F[u] = k - 1
        <3> HIDE DEF F, n
        <3>1. k - 1 \in 0 .. n - 1
            BY <1>1
        <3> QED BY <1>8, <3>1 DEF Surjection
    <2>2. order[k] = CHOOSE t \in T : Cardinality(Ahead(t, T, available)) = k - 1
        BY DEF ByScenarios
    <2> QED BY <2>1, <2>2
<1>10. order \in [1 .. n -> T] /\ Len(order) = n
    <2>1. order = [k \in 1 .. n |-> order[k]]
        BY DEF ByScenarios
    <2> HIDE DEF order, F
    <2>2. order \in [1 .. n -> T]
        BY <1>9, <2>1
    <2> QED BY <1>1, <2>2
<1>11. ASSUME NEW t \in T PROVE \E k \in 1 .. n : order[k] = t
    <2>1. F[t] + 1 \in 1 .. n
        BY <1>1, <1>4
    <2>2. order[F[t] + 1] \in T /\ F[order[F[t] + 1]] = F[t]
        <3> HIDE DEF F, order, n
        <3> QED BY <1>1, <1>4, <1>9, <2>1
    <2>3. order[F[t] + 1] = t
        BY <1>7, <2>2 DEF Injection, IsInjective
    <2> QED BY <2>1, <2>3
<1>12. \A i, j \in 1 .. n : order[i] = order[j] => i = j
    <2> HIDE DEF F, order, n
    <2> QED BY <1>1, <1>9
<1> QED BY <1>1, <1>10, <1>11, <1>12

----------------------------------------------------------------------------
(* The sample: the random cases, counted as slots <<type, number>> *)

SlotsOf(q) == {p \in TicketTypes \X Nat : 1 <= p[2] /\ p[2] <= q[p[1]]}

\* Two disjoint finite sets.
LEMMA DisjointSum ==
    ASSUME NEW S, NEW T, IsFiniteSet(S), IsFiniteSet(T), S \cap T = {}
    PROVE  IsFiniteSet(S \cup T) /\ Cardinality(S \cup T) = Cardinality(S) + Cardinality(T)
<1>1. Cardinality(S) \in Nat /\ Cardinality(T) \in Nat
    BY FS_CardinalityType
<1> QED BY <1>1, FS_Union, FS_EmptySet

\* k consecutive slots of a type.
LEMMA SlotsOfType ==
    ASSUME NEW t \in TicketTypes, NEW a \in Nat, NEW k \in Nat
    PROVE  IsFiniteSet({t} \X (a + 1 .. a + k)) /\ Cardinality({t} \X (a + 1 .. a + k)) = k
<1>1. PICK b \in Int, c \in Int : b = a + 1 /\ c = a + k
    OBVIOUS
<1>2. IsFiniteSet(b .. c) /\ Cardinality(b .. c) = IF b > c THEN 0 ELSE c - b + 1
    BY FS_Interval
<1>3. Cardinality(b .. c) = k
    BY <1>1, <1>2
<1>4. IsFiniteSet({t}) /\ Cardinality({t}) = 1
    BY FS_Singleton
<1>5. /\ IsFiniteSet({t} \X (b .. c))
      /\ Cardinality({t} \X (b .. c)) = Cardinality({t}) * Cardinality(b .. c)
    BY <1>2, <1>4, FS_Product
<1> QED BY <1>1, <1>3, <1>4, <1>5

\* A type that gets k more cases has k more slots.
LEMMA MoreSlots ==
    ASSUME NEW q \in [TicketTypes -> Nat], IsFiniteSet(SlotsOf(q)), NEW t \in TicketTypes, NEW k \in Nat
    PROVE  LET r == [q EXCEPT ![t] = @ + k]
           IN  /\ r \in [TicketTypes -> Nat]
               /\ IsFiniteSet(SlotsOf(r)) /\ Cardinality(SlotsOf(r)) = Cardinality(SlotsOf(q)) + k
<1> DEFINE r == [q EXCEPT ![t] = @ + k]
           new == {t} \X (q[t] + 1 .. q[t] + k)
<1>1. q[t] \in Nat /\ r \in [TicketTypes -> Nat] /\ r[t] = q[t] + k /\ \A u \in TicketTypes \ {t} : r[u] = q[u]
    OBVIOUS
<1>2. SlotsOf(r) = SlotsOf(q) \cup new
    <2>1. ASSUME NEW p \in SlotsOf(r) PROVE p \in SlotsOf(q) \cup new
        <3>1. PICK u \in TicketTypes, m \in Nat : p = <<u, m>> /\ 1 <= m /\ m <= r[u]
            BY DEF SlotsOf
        <3>2. CASE m <= q[u]
            BY <3>1, <3>2 DEF SlotsOf
        <3>3. CASE ~ (m <= q[u])
            <4>1. u = t
                BY <1>1, <3>1, <3>3
            <4>2. m \in q[t] + 1 .. q[t] + k
                BY <1>1, <3>1, <3>3, <4>1
            <4> QED BY <3>1, <4>1, <4>2
        <3> QED BY <3>2, <3>3
    <2>2. ASSUME NEW p \in SlotsOf(q) PROVE p \in SlotsOf(r)
        <3>1. PICK u \in TicketTypes, m \in Nat : p = <<u, m>> /\ 1 <= m /\ m <= q[u]
            BY DEF SlotsOf
        <3>2. m <= r[u]
            BY <1>1, <3>1
        <3> QED BY <3>1, <3>2 DEF SlotsOf
    <2>3. ASSUME NEW p \in new PROVE p \in SlotsOf(r)
        <3>1. PICK m \in q[t] + 1 .. q[t] + k : p = <<t, m>>
            OBVIOUS
        <3>2. m \in Nat /\ 1 <= m /\ m <= r[t]
            BY <1>1, <3>1
        <3> QED BY <3>1, <3>2 DEF SlotsOf
    <2> QED BY <2>1, <2>2, <2>3
<1>3. SlotsOf(q) \cap new = {}
    <2>1. ASSUME NEW p \in SlotsOf(q), p \in new PROVE FALSE
        <3>1. PICK m \in q[t] + 1 .. q[t] + k : p = <<t, m>>
            BY <2>1
        <3>2. m <= q[t]
            BY <2>1, <3>1 DEF SlotsOf
        <3> QED BY <1>1, <3>1, <3>2
    <2> QED BY <2>1
<1>4. IsFiniteSet(new) /\ Cardinality(new) = k
    <2>1. PICK a \in Nat : a = q[t]
        BY <1>1
    <2>2. IsFiniteSet({t} \X (a + 1 .. a + k)) /\ Cardinality({t} \X (a + 1 .. a + k)) = k
        <3> HIDE DEF r, new
        <3> QED BY SlotsOfType
    <2> QED BY <2>1, <2>2
<1>5. IsFiniteSet(SlotsOf(r)) /\ Cardinality(SlotsOf(r)) = Cardinality(SlotsOf(q)) + k
    <2> HIDE DEF new, r
    <2> QED BY <1>2, <1>3, <1>4, DisjointSum
<1> QED BY <1>1, <1>5

\* What allocate_random has given out and has left, of total.
Shares(total, available) ==
    {acc \in [quota : [TicketTypes -> Nat], left : Nat] :
        /\ \A t \in TicketTypes : acc.quota[t] <= available[t]
        /\ IsFiniteSet(SlotsOf(acc.quota))
        /\ Cardinality(SlotsOf(acc.quota)) + acc.left = total}

\* got is acc after t took k of its share.
Took(acc, got, t, share, available) ==
    \E k \in Nat :
        /\ k <= share /\ acc.quota[t] + k <= available[t] /\ k <= acc.left
        /\ k = share \/ acc.quota[t] + k = available[t] \/ k = acc.left
        /\ got = [quota |-> [acc.quota EXCEPT ![t] = @ + k], left |-> acc.left - k]

\* A type takes its share: all of it, what it has room for, or what is left.
LEMMA TakesShare ==
    ASSUME NEW available \in [TicketTypes -> Nat], NEW total \in Nat, NEW acc \in Shares(total, available),
           NEW share \in Nat, NEW t \in TicketTypes
    PROVE  /\ TakeShare(acc, t, share, available) \in Shares(total, available)
           /\ Took(acc, TakeShare(acc, t, share, available), t, share, available)
<1> DEFINE room == available[t] - acc.quota[t]
           k == Min({share, room, acc.left})
<1>1. /\ acc.quota \in [TicketTypes -> Nat] /\ acc.left \in Nat
      /\ \A u \in TicketTypes : acc.quota[u] <= available[u]
      /\ IsFiniteSet(SlotsOf(acc.quota)) /\ Cardinality(SlotsOf(acc.quota)) + acc.left = total
    BY DEF Shares
<1>2. room \in Nat
    BY <1>1
<1>3. k \in {share, room, acc.left} /\ k <= share /\ k <= room /\ k <= acc.left
    <2>1. \E x \in {share, room, acc.left} : \A y \in {share, room, acc.left} : x <= y
        <3> HIDE DEF room
        <3> QED BY <1>1, <1>2
    <2> HIDE DEF room
    <2> QED BY <2>1 DEF Min
<1>4. k \in Nat
    BY <1>1, <1>2, <1>3
<1> DEFINE q == [acc.quota EXCEPT ![t] = @ + k]
<1>5. TakeShare(acc, t, share, available) = [quota |-> q, left |-> acc.left - k]
    BY DEF TakeShare
<1> HIDE DEF k
<1>6. /\ q \in [TicketTypes -> Nat]
      /\ IsFiniteSet(SlotsOf(q)) /\ Cardinality(SlotsOf(q)) = Cardinality(SlotsOf(acc.quota)) + k
    BY <1>1, <1>4, MoreSlots
<1>7. \A u \in TicketTypes : q[u] <= available[u]
    BY <1>1, <1>3, <1>4
<1>8. Cardinality(SlotsOf(acc.quota)) \in Nat
    BY <1>1, FS_CardinalityType
<1>9. acc.left - k \in Nat /\ Cardinality(SlotsOf(q)) + (acc.left - k) = total
    BY <1>1, <1>3, <1>4, <1>6, <1>8
<1>10. TakeShare(acc, t, share, available) \in Shares(total, available)
    <2> HIDE DEF q
    <2> QED BY <1>5, <1>6, <1>7, <1>9 DEF Shares
<1>11. /\ acc.quota[t] + k <= available[t]
       /\ k = share \/ acc.quota[t] + k = available[t] \/ k = acc.left
    BY <1>1, <1>3, <1>4
<1> QED BY <1>3, <1>4, <1>5, <1>10, <1>11 DEF Took

\* An equal share of what is left, and at least one.
LEMMA EqualShare ==
    ASSUME NEW left \in Nat, NEW n \in Nat, n > 0
    PROVE  LET share == Max({left \div n, 1})
           IN  /\ share \in Nat /\ share >= 1
               /\ left >= n => n * share <= left
               /\ left < n => share = 1
<1> DEFINE d == left \div n
           share == Max({d, 1})
<1>1. d \in Nat /\ n * d <= left /\ left < n * (d + 1)
    OBVIOUS
<1>2. left >= n => d >= 1
    BY <1>1
<1>3. left < n => d = 0
    <2>1. SUFFICES ASSUME left < n, d >= 1 PROVE FALSE
        BY <1>1
    <2>2. n * d >= n
        BY <1>1, <2>1
    <2> QED BY <1>1, <2>1, <2>2
<1> HIDE DEF d
<1>4. share \in {d, 1} /\ share >= d /\ share >= 1
    <2>1. \E x \in {d, 1} : \A y \in {d, 1} : x >= y
        BY <1>1
    <2> QED BY <2>1 DEF Max
<1>5. share \in Nat /\ (left >= n => share = d) /\ (left < n => share = 1)
    BY <1>1, <1>2, <1>3, <1>4
<1> HIDE DEF share
<1>6. share >= 1 /\ (left >= n => n * share <= left)
    BY <1>1, <1>4, <1>5
<1> QED BY <1>5, <1>6 DEF d, share

OpenTypes(acc, available) == {t \in TicketTypes : acc.quota[t] < available[t]}

\* A round goes through the open types once.
LEMMA RoundIs ==
    ASSUME OrderOK, NEW total \in Nat, NEW available \in [TicketTypes -> Nat],
           NEW acc \in Shares(total, available), acc.left # 0, OpenTypes(acc, available) # {}
    PROVE  LET order == ByScenarios(OpenTypes(acc, available), available)
               n == Len(order)
               share == Max({acc.left \div n, 1})
           IN  \E g \in [0 .. n -> Shares(total, available)] :
                  /\ g[0] = acc
                  /\ \A k \in 1 .. n : g[k] = TakeShare(g[k - 1], order[k], share, available)
                  /\ Round(acc, available) = g[n]
<1> DEFINE order == ByScenarios(OpenTypes(acc, available), available)
           n == Len(order)
           share == Max({acc.left \div n, 1})
           A == Shares(total, available)
           after[k \in 0 .. n] == IF k = 0 THEN acc ELSE TakeShare(after[k - 1], order[k], share, available)
           step == [p \in (1 .. n) \X A |-> TakeShare(p[2], order[p[1]], share, available)]
<1>1. n \in Nat /\ n > 0 /\ \A k \in 1 .. n : order[k] \in TicketTypes
    <2>1. OpenTypes(acc, available) \in SUBSET TicketTypes
        BY DEF OpenTypes
    <2> QED BY <2>1, ListsTypes
<1>2. share \in Nat
    <2>1. acc.left \in Nat
        BY DEF Shares
    <2> HIDE DEF n
    <2> QED BY <1>1, <2>1, EqualShare
<1>3. step \in [(1 .. n) \X A -> A]
    <2>1. ASSUME NEW p \in (1 .. n) \X A PROVE TakeShare(p[2], order[p[1]], share, available) \in A
        <3> HIDE DEF order, n, share
        <3> QED BY <1>1, <1>2, <2>1, TakesShare
    <2> HIDE DEF A, order, n, share
    <2> QED BY <2>1
<1>4. PICK g \in [0 .. n -> A] : g[0] = acc /\ \A k \in 1 .. n : g[k] = step[<<k, g[k - 1]>>]
    <2>1. acc \in A
        OBVIOUS
    <2>2. step \in Steps(A, n)
        BY <1>3 DEF Steps
    <2> HIDE DEF A, order, n, share, step
    <2> QED BY <1>1, <2>1, <2>2, Iterates DEF Iterations
<1>5. \A k \in 1 .. n : g[k] = TakeShare(g[k - 1], order[k], share, available)
    <2>1. ASSUME NEW k \in 1 .. n PROVE g[k] = TakeShare(g[k - 1], order[k], share, available)
        <3>1. k - 1 \in 0 .. n
            BY <1>1
        <3>2. <<k, g[k - 1]>> \in (1 .. n) \X A
            BY <3>1
        <3> HIDE DEF A, order, n, share
        <3> QED BY <1>4, <3>2
    <2> QED BY <2>1
<1>6. g = [k \in 0 .. n |-> IF k = 0 THEN acc ELSE TakeShare(g[k - 1], order[k], share, available)]
    <2> HIDE DEF A, order, n, share
    <2>1. \A k \in 0 .. n : k = 0 \/ k \in 1 .. n
        BY <1>1
    <2> QED BY <1>4, <1>5, <2>1
<1>7. after = [k \in 0 .. n |-> IF k = 0 THEN acc ELSE TakeShare(after[k - 1], order[k], share, available)]
    <2> DEFINE Is(f) == f = [k \in 0 .. n |-> IF k = 0 THEN acc ELSE TakeShare(f[k - 1], order[k], share, available)]
    <2>1. after = CHOOSE f : Is(f)
        BY DEF after
    <2>2. Is(g)
        BY <1>6
    <2> HIDE DEF after, Is
    <2>3. Is(after)
        BY <2>1, <2>2
    <2> QED BY <2>3 DEF Is
<1> HIDE DEF after, order
<1>8. after = g
    <2>1. \A k \in 0 .. n : k \in {j \in 0 .. n : after[j] = g[j]}
        <3> DEFINE S == {j \in 0 .. n : after[j] = g[j]}
        <3> HIDE DEF A, share, n
        <3>1. 0 \in S
            BY <1>1, <1>4, <1>7
        <3>2. \A k \in 1 .. n : k - 1 \in S => k \in S
            BY <1>1, <1>5, <1>7
        <3>3. \A k \in 0 .. n : k \in S
            <4> HIDE DEF S
            <4> QED BY <1>1, <3>1, <3>2, CountingUp
        <3> QED BY <3>3
    <2> HIDE DEF A, share, n
    <2> QED BY <1>4, <1>7, <2>1
<1>9. Round(acc, available) = after[n]
    <2>1. {t \in DOMAIN available : acc.quota[t] < available[t]} = OpenTypes(acc, available)
        BY DEF OpenTypes
    <2> QED BY <2>1 DEF Round, after, order
<1> HIDE DEF step
<1> QED BY <1>4, <1>5, <1>8, <1>9 DEF order

\* A type that may still get more has as many as any other, or one fewer if nothing is left.
Level(acc, available) ==
    \A s, t \in TicketTypes :
        acc.quota[s] < available[s] => acc.quota[t] <= acc.quota[s] + (IF acc.left > 0 THEN 0 ELSE 1)

\* After k types of a round: those got their share if there is enough for all, and one each as
\* far as it goes if not.
AfterTypes(k, acc, got, order, share, available) ==
    /\ \A t \in TicketTypes : /\ acc.quota[t] <= got.quota[t] /\ got.quota[t] <= acc.quota[t] + share
                              /\ (\A j \in 1 .. k : order[j] # t) => got.quota[t] = acc.quota[t]
    /\ got.left <= acc.left /\ (k > 0 => got.left < acc.left)
    /\ acc.left >= Len(order) =>
          /\ got.left >= (Len(order) - k) * share
          /\ \A j \in 1 .. k : \/ got.quota[order[j]] = acc.quota[order[j]] + share
                               \/ got.quota[order[j]] = available[order[j]]
    /\ acc.left < Len(order) => got.left = 0 \/ got.left + k <= acc.left

\* The next type of a round takes its share.
LEMMA NextType ==
    ASSUME NEW total \in Nat, NEW available \in [TicketTypes -> Nat],
           NEW acc \in Shares(total, available), acc.left # 0, NEW order, Len(order) \in Nat,
           NEW share \in Nat, share >= 1, acc.left < Len(order) => share = 1,
           NEW k \in 1 .. Len(order), \A j \in 1 .. Len(order) : order[j] \in OpenTypes(acc, available),
           \A i, j \in 1 .. Len(order) : order[i] = order[j] => i = j,
           NEW old \in Shares(total, available), AfterTypes(k - 1, acc, old, order, share, available)
    PROVE  AfterTypes(k, acc, TakeShare(old, order[k], share, available), order, share, available)
<1> DEFINE n == Len(order)
           t == order[k]
           got == TakeShare(old, t, share, available)
<1>1. /\ acc.quota \in [TicketTypes -> Nat] /\ acc.left \in Nat /\ acc.left >= 1
      /\ old.quota \in [TicketTypes -> Nat] /\ old.left \in Nat
    BY DEF Shares
<1>2. t \in TicketTypes /\ acc.quota[t] < available[t]
    BY DEF OpenTypes
<1>3. PICK x \in Nat :
          /\ x <= share /\ old.quota[t] + x <= available[t] /\ x <= old.left
          /\ x = share \/ old.quota[t] + x = available[t] \/ x = old.left
          /\ got = [quota |-> [old.quota EXCEPT ![t] = @ + x], left |-> old.left - x]
    <2>1. Took(old, got, t, share, available)
        <3> HIDE DEF t, n
        <3> QED BY <1>2, TakesShare
    <2> HIDE DEF got, t
    <2> QED BY <2>1 DEF Took
<1>4. got.left = old.left - x /\ got.quota[t] = old.quota[t] + x /\ \A u \in TicketTypes \ {t} : got.quota[u] = old.quota[u]
    BY <1>1, <1>2, <1>3
<1>5. old.quota[t] = acc.quota[t]
    <2>1. \A j \in 1 .. k - 1 : order[j] # t
        OBVIOUS
    <2> QED BY <1>2, <2>1 DEF AfterTypes
<1> HIDE DEF got
<1>6. \A u \in TicketTypes : /\ acc.quota[u] <= got.quota[u] /\ got.quota[u] <= acc.quota[u] + share
                             /\ (\A j \in 1 .. k : order[j] # u) => got.quota[u] = acc.quota[u]
    <2>1. ASSUME NEW u \in TicketTypes
          PROVE  /\ acc.quota[u] <= got.quota[u] /\ got.quota[u] <= acc.quota[u] + share
                 /\ (\A j \in 1 .. k : order[j] # u) => got.quota[u] = acc.quota[u]
        <3>1. CASE u = t
            BY <1>1, <1>2, <1>3, <1>4, <1>5, <3>1
        <3>2. CASE u # t
            <4>1. /\ acc.quota[u] <= old.quota[u] /\ old.quota[u] <= acc.quota[u] + share
                  /\ (\A j \in 1 .. k - 1 : order[j] # u) => old.quota[u] = acc.quota[u]
                BY DEF AfterTypes
            <4>2. got.quota[u] = old.quota[u]
                BY <1>4, <3>2
            <4> QED BY <4>1, <4>2
        <3> QED BY <3>1, <3>2
    <2> QED BY <2>1
<1>7. got.left <= acc.left /\ got.left < acc.left
    <2>1. old.left <= acc.left /\ (k - 1 > 0 => old.left < acc.left)
        BY DEF AfterTypes
    <2>2. CASE old.left < acc.left
        BY <1>1, <1>3, <1>4, <2>2
    <2>3. CASE old.left = acc.left
        <3>1. x >= 1
            BY <1>1, <1>2, <1>3, <1>5, <2>3
        <3> QED BY <1>1, <1>3, <1>4, <2>3, <3>1
    <2> QED BY <1>1, <2>1, <2>2, <2>3
<1>8. ASSUME acc.left >= n
      PROVE  /\ got.left >= (n - k) * share
             /\ \A j \in 1 .. k : \/ got.quota[order[j]] = acc.quota[order[j]] + share
                                  \/ got.quota[order[j]] = available[order[j]]
    <2>1. old.left >= (n - (k - 1)) * share
        BY <1>8 DEF AfterTypes
    <2>2. (n - (k - 1)) * share = (n - k) * share + share /\ (n - k) * share >= 0
        OBVIOUS
    <2>3. got.left >= (n - k) * share
        <3> DEFINE rest == (n - k) * share
        <3>1. rest \in Nat
            OBVIOUS
        <3> HIDE DEF rest, n
        <3>2. old.left >= rest + share
            BY <2>1, <2>2 DEF rest
        <3> QED BY <1>1, <1>3, <1>4, <3>1, <3>2 DEF rest
    <2>4. old.left >= share
        <3> DEFINE rest == (n - k) * share
        <3>1. rest \in Nat
            OBVIOUS
        <3> HIDE DEF rest, n
        <3>2. old.left >= rest + share
            BY <2>1, <2>2 DEF rest
        <3> QED BY <1>1, <3>1, <3>2
    <2>5. got.quota[t] = acc.quota[t] + share \/ got.quota[t] = available[t]
        BY <1>1, <1>3, <1>4, <1>5, <2>4
    <2>6. ASSUME NEW j \in 1 .. k - 1
          PROVE  got.quota[order[j]] = acc.quota[order[j]] + share \/ got.quota[order[j]] = available[order[j]]
        <3>1. order[j] \in TicketTypes \ {t}
            BY DEF OpenTypes
        <3>2. got.quota[order[j]] = old.quota[order[j]]
            BY <1>4, <3>1
        <3> QED BY <1>8, <3>2 DEF AfterTypes
    <2>7. \A j \in 1 .. k : j = k \/ j \in 1 .. k - 1
        OBVIOUS
    <2> QED BY <2>3, <2>5, <2>6, <2>7
<1>9. ASSUME acc.left < n PROVE got.left = 0 \/ got.left + k <= acc.left
    <2>1. share = 1 /\ (old.left = 0 \/ old.left + (k - 1) <= acc.left)
        BY <1>9 DEF AfterTypes
    <2>2. CASE x = old.left
        BY <1>1, <1>3, <1>4, <2>2
    <2>3. CASE x # old.left
        <3>1. x = 1 /\ old.left # 0
            BY <1>1, <1>2, <1>3, <1>5, <2>1, <2>3
        <3> QED BY <1>1, <1>4, <2>1, <3>1
    <2> QED BY <2>2, <2>3
<1>10. got = TakeShare(old, order[k], share, available)
    BY DEF got
<1> HIDE DEF t
<1> QED BY <1>6, <1>7, <1>8, <1>9, <1>10 DEF AfterTypes

\* A round places something and leaves the types level.
LEMMA RoundLevels ==
    ASSUME OrderOK, NEW total \in Nat, NEW available \in [TicketTypes -> Nat],
           NEW acc \in Shares(total, available), Level(acc, available),
           acc.left # 0, OpenTypes(acc, available) # {}
    PROVE  /\ Round(acc, available) \in Shares(total, available)
           /\ Level(Round(acc, available), available)
           /\ Round(acc, available).left < acc.left
<1> DEFINE T == OpenTypes(acc, available)
           order == ByScenarios(T, available)
           n == Len(order)
           share == Max({acc.left \div n, 1})
<1>1. /\ n \in Nat /\ n > 0
      /\ \A j \in 1 .. n : order[j] \in T
      /\ \A t \in T : \E j \in 1 .. n : order[j] = t
      /\ \A i, j \in 1 .. n : order[i] = order[j] => i = j
    <2>1. T \in SUBSET TicketTypes
        BY DEF OpenTypes
    <2> HIDE DEF T
    <2> QED BY <2>1, ListsTypes DEF T
<1>2. acc.quota \in [TicketTypes -> Nat] /\ acc.left \in Nat
    BY DEF Shares
<1> HIDE DEF n
<1>3. /\ share \in Nat /\ share >= 1
      /\ acc.left >= n => n * share <= acc.left
      /\ acc.left < n => share = 1
    BY <1>1, <1>2, EqualShare
<1>4. PICK g \in [0 .. n -> Shares(total, available)] :
          /\ g[0] = acc
          /\ \A k \in 1 .. n : g[k] = TakeShare(g[k - 1], order[k], share, available)
          /\ Round(acc, available) = g[n]
    BY RoundIs DEF n
<1> DEFINE Met(k) == AfterTypes(k, acc, g[k], order, share, available)
           S == {k \in 0 .. n : Met(k)}
<1>5. 0 \in S
    <2>1. Met(0)
        <3> HIDE DEF order, share
        <3>1. (Len(order) - 0) * share = n * share
            BY <1>1 DEF n
        <3>2. AfterTypes(0, acc, acc, order, share, available)
            <4> USE DEF n
            <4> QED BY <1>1, <1>2, <1>3, <3>1 DEF AfterTypes
        <3> QED BY <1>4, <3>2
    <2> QED BY <1>1, <2>1
<1>6. ASSUME NEW k \in 1 .. n, k - 1 \in S PROVE k \in S
    <2>1. k - 1 \in 0 .. n /\ k \in 0 .. n
        BY <1>1
    <2>2. g[k - 1] \in Shares(total, available) /\ AfterTypes(k - 1, acc, g[k - 1], order, share, available)
        BY <1>6, <2>1
    <2>3. Len(order) = n
        BY DEF n
    <2> HIDE DEF order, share, T
    <2>4. AfterTypes(k, acc, TakeShare(g[k - 1], order[k], share, available), order, share, available)
        <3>1. /\ Len(order) \in Nat /\ k \in 1 .. Len(order)
              /\ \A j \in 1 .. Len(order) : order[j] \in OpenTypes(acc, available)
              /\ \A i, j \in 1 .. Len(order) : order[i] = order[j] => i = j
              /\ share \in Nat /\ share >= 1 /\ (acc.left < Len(order) => share = 1)
            BY <1>1, <1>3, <2>3 DEF T
        <3>2. PICK old \in Shares(total, available) : old = g[k - 1]
            BY <2>2
        <3>3. AfterTypes(k, acc, TakeShare(old, order[k], share, available), order, share, available)
            BY <2>2, <3>1, <3>2, NextType
        <3> QED BY <3>2, <3>3
    <2> QED BY <1>4, <2>1, <2>4
<1>7. n \in S
    <2>1. \A k \in 0 .. n : k \in S
        <3> HIDE DEF S
        <3> QED BY <1>1, <1>5, <1>6, CountingUp
    <2>2. n \in 0 .. n
        BY <1>1
    <2> HIDE DEF S
    <2> QED BY <2>1, <2>2
<1> DEFINE got == g[n]
<1>8. AfterTypes(n, acc, got, order, share, available)
    BY <1>7
<1>9. got \in Shares(total, available) /\ got.quota \in [TicketTypes -> Nat] /\ got.left \in Nat
    <2>1. g[n] \in Shares(total, available)
        BY <1>1, <1>4
    <2> QED BY <2>1 DEF Shares
<1> HIDE DEF got, order, share, S
<1>10. got.left < acc.left
    BY <1>1, <1>8 DEF AfterTypes
<1>11. ASSUME NEW s \in TicketTypes, NEW t \in TicketTypes, got.quota[s] < available[s]
       PROVE  got.quota[t] <= got.quota[s] + (IF got.left > 0 THEN 0 ELSE 1)
    <2>1. /\ acc.quota[s] <= got.quota[s] /\ got.quota[t] <= acc.quota[t] + share
          /\ acc.quota[s] \in Nat /\ got.quota[s] \in Nat /\ got.quota[t] \in Nat /\ acc.quota[t] \in Nat
        BY <1>2, <1>8, <1>9 DEF AfterTypes
    <2>2. acc.quota[s] < available[s]
        BY <1>11, <2>1
    <2>3. acc.quota[t] <= acc.quota[s]
        BY <1>2, <2>2 DEF Level
    <2>4. PICK j \in 1 .. n : order[j] = s
        BY <1>1, <2>2 DEF OpenTypes
    <2>5. Len(order) = n
        BY DEF n, order
    <2>6. CASE acc.left >= n
        <3>1. got.quota[s] = acc.quota[s] + share
            BY <1>8, <1>11, <2>1, <2>4, <2>5, <2>6 DEF AfterTypes
        <3> QED BY <1>3, <2>1, <2>3, <3>1
    <2>7. CASE acc.left < n
        <3>1. got.left = 0 /\ share = 1
            BY <1>1, <1>2, <1>3, <1>8, <1>9, <2>5, <2>7 DEF AfterTypes
        <3> QED BY <2>1, <2>3, <3>1
    <2> QED BY <1>1, <1>2, <2>6, <2>7
<1>12. Level(got, available)
    BY <1>11 DEF Level
<1> QED BY <1>4, <1>9, <1>10, <1>12 DEF got

\* allocate_random: all cases are given out, none that a type has no scenario for, and a type
\* with scenarios left has as many as any other or one fewer.
Balanced(q, total, available) ==
    /\ q \in [TicketTypes -> Nat] /\ IsFiniteSet(SlotsOf(q)) /\ Cardinality(SlotsOf(q)) = total
    /\ \A t \in TicketTypes : q[t] <= available[t]
    /\ \A s, t \in TicketTypes : q[s] < available[s] => q[t] <= q[s] + 1

\* The rounds give everything out, and leave the types level.
LEMMA AllocatesEvenly ==
    ASSUME OrderOK, NEW total \in Nat, NEW available \in [TicketTypes -> Nat],
           IsFiniteSet(SlotsOf(available)) => total <= Cardinality(SlotsOf(available))
    PROVE  Balanced(AllocateRandom(total, available), total, available)
<1> DEFINE first == [quota |-> [t \in DOMAIN available |-> 0], left |-> total]
           A == {acc \in Shares(total, available) : Level(acc, available)}
           rounds[k \in 0 .. total] == IF k = 0 THEN first ELSE Round(rounds[k - 1], available)
           step == [p \in (1 .. total) \X A |-> Round(p[2], available)]
<1>1. first \in A
    <2>1. first.quota \in [TicketTypes -> Nat] /\ first.left = total /\ \A t \in TicketTypes : first.quota[t] = 0
        OBVIOUS
    <2>2. SlotsOf(first.quota) = {}
        BY <2>1 DEF SlotsOf
    <2>3. first \in [quota : [TicketTypes -> Nat], left : Nat]
        OBVIOUS
    <2> HIDE DEF first
    <2>4. first \in Shares(total, available)
        BY <2>1, <2>2, <2>3, FS_EmptySet DEF Shares
    <2>5. Level(first, available)
        BY <2>1 DEF Level
    <2> QED BY <2>4, <2>5
<1>2. ASSUME NEW acc \in A, acc.left # 0
      PROVE  Round(acc, available) \in A /\ Round(acc, available).left < acc.left
    <2>1. OpenTypes(acc, available) # {}
        <3>1. SUFFICES ASSUME OpenTypes(acc, available) = {} PROVE FALSE
            OBVIOUS
        <3>2. /\ acc.quota \in [TicketTypes -> Nat] /\ acc.left \in Nat
              /\ \A t \in TicketTypes : acc.quota[t] <= available[t]
              /\ IsFiniteSet(SlotsOf(acc.quota)) /\ Cardinality(SlotsOf(acc.quota)) + acc.left = total
            BY DEF Shares
        <3>3. ASSUME NEW t \in TicketTypes PROVE acc.quota[t] = available[t]
            BY <3>1, <3>2 DEF OpenTypes
        <3>4. acc.quota = available
            BY <3>2, <3>3
        <3>5. Cardinality(SlotsOf(acc.quota)) \in Nat
            BY <3>2, FS_CardinalityType
        <3> QED BY <1>2, <3>2, <3>4, <3>5
    <2> QED BY <1>2, <2>1, RoundLevels
<1>3. ASSUME NEW acc \in A PROVE Round(acc, available) \in A
    <2>1. CASE acc.left = 0
        BY <2>1 DEF Round
    <2>2. CASE acc.left # 0
        BY <1>2, <2>2
    <2> QED BY <2>1, <2>2
<1>4. PICK g \in [0 .. total -> A] : g[0] = first /\ \A k \in 1 .. total : g[k] = Round(g[k - 1], available)
    <2>1. step \in Steps(A, total)
        <3> HIDE DEF A
        <3> QED BY <1>3 DEF Steps
    <2>2. PICK g \in Iterations(A, total, first, step) : TRUE
        <3> HIDE DEF A, first, step
        <3> QED BY <1>1, <2>1, Iterates
    <2>3. g \in [0 .. total -> A] /\ g[0] = first /\ \A k \in 1 .. total : g[k] = step[<<k, g[k - 1]>>]
        BY <2>2 DEF Iterations
    <2>4. ASSUME NEW k \in 1 .. total PROVE g[k] = Round(g[k - 1], available)
        <3>1. k - 1 \in 0 .. total
            OBVIOUS
        <3>2. <<k, g[k - 1]>> \in (1 .. total) \X A
            BY <2>3, <3>1
        <3> HIDE DEF A
        <3> QED BY <2>3, <3>2
    <2> QED BY <2>3, <2>4
<1>5. rounds = [k \in 0 .. total |-> IF k = 0 THEN first ELSE Round(rounds[k - 1], available)]
    <2> DEFINE Is(f) == f = [k \in 0 .. total |-> IF k = 0 THEN first ELSE Round(f[k - 1], available)]
    <2>1. rounds = CHOOSE f : Is(f)
        BY DEF rounds
    <2>2. Is(g)
        <3> HIDE DEF A, first
        <3>1. \A k \in 0 .. total : k = 0 \/ k \in 1 .. total
            OBVIOUS
        <3> QED BY <1>4, <3>1
    <2> HIDE DEF rounds, Is
    <2>3. Is(rounds)
        BY <2>1, <2>2
    <2> QED BY <2>3 DEF Is
<1> HIDE DEF rounds
<1> DEFINE S == {k \in 0 .. total : rounds[k] \in A /\ (rounds[k].left = 0 \/ rounds[k].left + k <= total)}
<1>6. 0 \in S
    <2>1. 0 \in 0 .. total /\ first.left = total
        OBVIOUS
    <2>2. rounds[0] = first
        BY <1>5, <2>1
    <2> HIDE DEF A, first
    <2> QED BY <1>1, <2>1, <2>2
<1>7. ASSUME NEW k \in 1 .. total, k - 1 \in S PROVE k \in S
    <2>1. k \in 0 .. total /\ k - 1 \in 0 .. total /\ k # 0
        OBVIOUS
    <2>2. rounds[k] = Round(rounds[k - 1], available)
        <3> HIDE DEF first
        <3> QED BY <1>5, <2>1
    <2>3. PICK acc \in A : acc = rounds[k - 1] /\ (acc.left = 0 \/ acc.left + (k - 1) <= total)
        BY <1>7
    <2>4. acc.left \in Nat /\ Round(acc, available) \in A
        BY <1>3 DEF Shares
    <2>5. Round(acc, available).left \in Nat
        BY <2>4 DEF Shares
    <2> HIDE DEF A
    <2>6. CASE acc.left = 0
        BY <2>1, <2>2, <2>3, <2>4, <2>6 DEF Round
    <2>7. CASE acc.left # 0
        <3>1. Round(acc, available).left < acc.left
            BY <1>2, <2>7
        <3> QED BY <2>1, <2>2, <2>3, <2>4, <2>5, <2>7, <3>1
    <2> QED BY <2>6, <2>7
<1>8. total \in S
    <2>1. \A k \in 0 .. total : k \in S
        <3> HIDE DEF S
        <3> QED BY <1>6, <1>7, CountingUp
    <2>2. total \in 0 .. total
        OBVIOUS
    <2> HIDE DEF S
    <2> QED BY <2>1, <2>2
<1> DEFINE acc == rounds[total]
<1>9. /\ acc \in Shares(total, available) /\ Level(acc, available)
      /\ acc.left = 0 \/ acc.left + total <= total
    BY <1>8
<1> HIDE DEF acc
<1>10. /\ acc.quota \in [TicketTypes -> Nat] /\ acc.left \in Nat
       /\ \A t \in TicketTypes : acc.quota[t] <= available[t]
       /\ IsFiniteSet(SlotsOf(acc.quota)) /\ Cardinality(SlotsOf(acc.quota)) + acc.left = total
    BY <1>9 DEF Shares
<1>11. acc.left = 0
    BY <1>9, <1>10
<1>12. Cardinality(SlotsOf(acc.quota)) = total
    <2>1. Cardinality(SlotsOf(acc.quota)) \in Nat
        BY <1>10, FS_CardinalityType
    <2> QED BY <1>10, <1>11, <2>1
<1>13. \A s, t \in TicketTypes : acc.quota[s] < available[s] => acc.quota[t] <= acc.quota[s] + 1
    BY <1>9, <1>11 DEF Level
<1>14. AllocateRandom(total, available) = acc.quota
    BY DEF AllocateRandom, acc, rounds
<1> QED BY <1>10, <1>12, <1>13, <1>14 DEF Balanced

----------------------------------------------------------------------------
(* The sample: drawing the scenarios *)

AvailableIn(drafts) == [t \in TicketTypes |-> Cardinality(Scenarios(OfType(drafts, t)))]

\* Finitely many drafts are of finitely many scenarios.
LEMMA ScenariosFinite ==
    ASSUME NEW drafts, IsFiniteSet(drafts)
    PROVE  IsFiniteSet(Scenarios(drafts)) /\ Cardinality(Scenarios(drafts)) \in Nat
<1> DEFINE f == [d \in drafts |-> d.group]
<1>1. f \in Surjection(drafts, Scenarios(drafts))
    BY DEF Surjection, Scenarios
<1>2. IsFiniteSet(Scenarios(drafts))
    <2> HIDE DEF f
    <2> QED BY <1>1, FS_Surjection
<1> QED BY <1>2, FS_CardinalityType

\* There are as many slots as scenarios, at least.
LEMMA RoomForAll ==
    ASSUME OrderOK, NEW drafts, IsFiniteSet(drafts), \A d \in drafts : d.type \in TicketTypes
    PROVE  /\ AvailableIn(drafts) \in [TicketTypes -> Nat]
           /\ IsFiniteSet(SlotsOf(AvailableIn(drafts))) =>
                 Cardinality(Scenarios(drafts)) <= Cardinality(SlotsOf(AvailableIn(drafts)))
<1> DEFINE av == AvailableIn(drafts)
           of(t) == Scenarios(OfType(drafts, t))
           b == [t \in TicketTypes |-> CHOOSE f : f \in Surjection(1 .. av[t], of(t))]
           F == [p \in SlotsOf(av) |-> b[p[1]][p[2]]]
<1>1. ASSUME NEW t \in TicketTypes
      PROVE  /\ av[t] = Cardinality(of(t)) /\ av[t] \in Nat
             /\ b[t] \in Surjection(1 .. av[t], of(t))
    <2>1. OfType(drafts, t) \in SUBSET drafts
        BY DEF OfType
    <2>2. IsFiniteSet(OfType(drafts, t))
        BY <2>1, FS_Subset
    <2>3. IsFiniteSet(of(t)) /\ Cardinality(of(t)) \in Nat
        BY <2>2, ScenariosFinite
    <2>4. av[t] = Cardinality(of(t))
        BY DEF AvailableIn
    <2>5. ExistsBijection(1 .. Cardinality(of(t)), of(t))
        BY <2>3, FS_CardinalityType
    <2>6. \E f : f \in Surjection(1 .. av[t], of(t))
        BY <2>4, <2>5 DEF ExistsBijection, Bijection
    <2> HIDE DEF av
    <2>7. b[t] = CHOOSE f : f \in Surjection(1 .. av[t], of(t))
        OBVIOUS
    <2> QED BY <2>3, <2>4, <2>6, <2>7
<1>2. av \in [TicketTypes -> Nat]
    <2>1. av = [t \in TicketTypes |-> av[t]]
        BY DEF AvailableIn
    <2> HIDE DEF av
    <2> QED BY <1>1, <2>1
<1> HIDE DEF av, b
<1>3. F \in Surjection(SlotsOf(av), Scenarios(drafts))
    <2>1. ASSUME NEW p \in SlotsOf(av) PROVE F[p] \in Scenarios(drafts)
        <3>1. p[1] \in TicketTypes /\ p[2] \in 1 .. av[p[1]]
            BY DEF SlotsOf
        <3>2. F[p] \in of(p[1])
            BY <1>1, <3>1 DEF Surjection
        <3> QED BY <3>2 DEF Scenarios, OfType
    <2>2. ASSUME NEW g \in Scenarios(drafts) PROVE \E p \in SlotsOf(av) : F[p] = g
        <3>1. PICK d \in drafts : g = d.group
            BY DEF Scenarios
        <3>2. PICK t \in TicketTypes : d.type = t
            OBVIOUS
        <3>3. g \in of(t)
            BY <3>1, <3>2 DEF Scenarios, OfType
        <3>4. PICK i \in 1 .. av[t] : b[t][i] = g
            BY <1>1, <3>3 DEF Surjection
        <3>5. <<t, i>> \in SlotsOf(av)
            BY <1>1 DEF SlotsOf
        <3> QED BY <3>4, <3>5
    <2> QED BY <2>1, <2>2 DEF Surjection
<1>4. IsFiniteSet(SlotsOf(av)) => Cardinality(Scenarios(drafts)) <= Cardinality(SlotsOf(av))
    <2> HIDE DEF F
    <2> QED BY <1>3, FS_Surjection
<1> QED BY <1>2, <1>4 DEF av

\* A draw is of drafts of the pool.
LEMMA DrawnFromPool ==
    ASSUME NEW pool, NEW k, NEW taken, NEW drawn \in Draws(pool, k, taken)
    PROVE  drawn \subseteq pool
<1> DEFINE left == Untaken(pool, taken)
<1>1. PICK s \in kSubset(k, {d.group : d \in left}) :
          drawn \in {{f[g] : g \in s} : f \in {f \in [s -> left] : \A g \in s : f[g].group = g}}
    BY DEF Draws
<1>2. PICK f \in [s -> left] : drawn = {f[g] : g \in s}
    BY <1>1
<1> QED BY <1>2 DEF Untaken

\* A draw takes k drafts of k scenarios, none of them taken.
LEMMA DrawsAre ==
    ASSUME NEW pool, IsFiniteSet(pool), NEW k, NEW taken, NEW drawn \in Draws(pool, k, taken)
    PROVE  /\ drawn \subseteq pool /\ \A d \in drawn : d.group \notin taken
           /\ \A d, e \in drawn : d.group = e.group => d = e
           /\ IsFiniteSet(drawn) /\ Cardinality(drawn) = k /\ k \in Nat
<1> DEFINE left == Untaken(pool, taken)
<1>0. PICK s \in kSubset(k, {d.group : d \in left}) :
          drawn \in {{f[g] : g \in s} : f \in {f \in [s -> left] : \A g \in s : f[g].group = g}}
    BY DEF Draws
<1>1. PICK f \in [s -> left] :
          /\ \A g \in s : f[g].group = g
          /\ drawn = {f[g] : g \in s}
    BY <1>0
<1>2. left \in SUBSET pool /\ \A d \in left : d.group \notin taken
    BY DEF Untaken
<1>3. IsFiniteSet(s) /\ Cardinality(s) = k /\ k \in Nat
    <2>1. IsFiniteSet(left)
        BY <1>2, FS_Subset
    <2>2. IsFiniteSet(Scenarios(left))
        BY <2>1, ScenariosFinite
    <2>3. s \in SUBSET Scenarios(left) /\ Cardinality(s) = k
        BY DEF kSubset, Scenarios
    <2> HIDE DEF left
    <2> QED BY <2>2, <2>3, FS_Subset, FS_CardinalityType
<1>4. f \in Bijection(s, drawn)
    <2> HIDE DEF left
    <2> QED BY <1>1 DEF Bijection, Injection, IsInjective, Surjection
<1>5. IsFiniteSet(drawn) /\ Cardinality(drawn) = k
    BY <1>3, <1>4, FS_Bijection DEF ExistsBijection
<1>6. drawn \subseteq left
    BY <1>1
<1>7. \A d, e \in drawn : d.group = e.group => d = e
    <2> HIDE DEF left
    <2> QED BY <1>1
<1> HIDE DEF left
<1> QED BY <1>2, <1>3, <1>5, <1>6, <1>7

\* A sample, and a draw that extends it.
IsSample(m, drafts) ==
    /\ m \subseteq [draft : drafts, part : {"I", "II"}, place : Int] /\ IsFiniteSet(m)
    /\ \A c, d \in m : c # d => c.draft.group # d.draft.group

RandomOf(m, t) == {c \in m : c.part = "I" /\ c.draft.type = t}

Extends(old, m, g) ==
    \E drawn \in Draws(g.pool, g.k, {c.draft.group : c \in old}) :
        m = old \cup {[draft |-> d, part |-> g.part, place |-> g.place] : d \in drawn}

\* A draw adds as many cases as asked for, of further scenarios.
LEMMA Extending ==
    ASSUME NEW drafts, IsFiniteSet(drafts), NEW old, IsSample(old, drafts), NEW g,
           g.pool \subseteq drafts, g.part \in {"I", "II"}, g.place \in Int, NEW m, Extends(old, m, g)
    PROVE  /\ IsSample(m, drafts) /\ g.k \in Nat /\ Cardinality(m) = Cardinality(old) + g.k
           /\ g.part = "II" => \A t : RandomOf(m, t) = RandomOf(old, t)
           /\ \A u : g.part = "I" /\ g.pool = OfType(drafts, u) =>
                 /\ \A t : t # u => RandomOf(m, t) = RandomOf(old, t)
                 /\ RandomOf(old, u) = {} => Cardinality(RandomOf(m, u)) = g.k
<1> DEFINE taken == {c.draft.group : c \in old}
<1>1. PICK drawn \in Draws(g.pool, g.k, taken) : m = old \cup {[draft |-> d, part |-> g.part, place |-> g.place] : d \in drawn}
    BY DEF Extends
<1> DEFINE new == {[draft |-> d, part |-> g.part, place |-> g.place] : d \in drawn}
           F == [d \in drawn |-> [draft |-> d, part |-> g.part, place |-> g.place]]
<1>2. /\ drawn \subseteq g.pool /\ \A d \in drawn : d.group \notin taken
      /\ \A d, e \in drawn : d.group = e.group => d = e
      /\ IsFiniteSet(drawn) /\ Cardinality(drawn) = g.k /\ g.k \in Nat
    <2>1. g.pool \in SUBSET drafts
        OBVIOUS
    <2>2. IsFiniteSet(g.pool)
        BY <2>1, FS_Subset
    <2> HIDE DEF taken
    <2> QED BY <2>2, DrawsAre
<1>3. IsFiniteSet(new) /\ Cardinality(new) = g.k
    <2>1. F \in Bijection(drawn, new)
        BY DEF Bijection, Injection, IsInjective, Surjection
    <2> HIDE DEF F, new
    <2> QED BY <1>2, <2>1, FS_Bijection DEF ExistsBijection
<1>4. old \cap new = {}
    <2>1. ASSUME NEW c \in old, c \in new PROVE FALSE
        <3>1. PICK d \in drawn : c = [draft |-> d, part |-> g.part, place |-> g.place]
            BY <2>1
        <3>2. c.draft.group \in taken /\ c.draft = d
            BY <3>1
        <3> QED BY <1>2, <3>2
    <2> QED BY <2>1
<1>5. IsFiniteSet(m) /\ Cardinality(m) = Cardinality(old) + g.k
    <2> HIDE DEF new
    <2>1. m = old \cup new
        BY <1>1 DEF new
    <2> QED BY <1>3, <1>4, <2>1, DisjointSum DEF IsSample
<1>6. new \subseteq [draft : drafts, part : {"I", "II"}, place : Int]
    BY <1>2
<1>7. ASSUME NEW c \in m, NEW d \in m, c # d PROVE c.draft.group # d.draft.group
    <2>1. CASE c \in old /\ d \in old
        BY <1>7, <2>1 DEF IsSample
    <2>2. CASE c \in old /\ d \in new
        <3>1. c.draft.group \in taken /\ d.draft.group \notin taken
            BY <1>2, <2>2
        <3> QED BY <3>1
    <2>3. CASE c \in new /\ d \in old
        <3>1. d.draft.group \in taken /\ c.draft.group \notin taken
            BY <1>2, <2>3
        <3> QED BY <3>1
    <2>4. CASE c \in new /\ d \in new
        BY <1>2, <1>7, <2>4
    <2> QED BY <1>1, <2>1, <2>2, <2>3, <2>4
<1>8. IsSample(m, drafts)
    <2>1. m \subseteq [draft : drafts, part : {"I", "II"}, place : Int]
        BY <1>1, <1>6 DEF IsSample
    <2> QED BY <1>5, <1>7, <2>1 DEF IsSample
<1>9. ASSUME g.part = "II", NEW t PROVE RandomOf(m, t) = RandomOf(old, t)
    <2>1. \A c \in new : c.part # "I"
        BY <1>9
    <2> HIDE DEF new
    <2>2. m = old \cup new
        BY <1>1 DEF new
    <2> QED BY <2>1, <2>2 DEF RandomOf
<1>10. ASSUME NEW u, g.part = "I", g.pool = OfType(drafts, u)
       PROVE  /\ \A t : t # u => RandomOf(m, t) = RandomOf(old, t)
              /\ RandomOf(old, u) = {} => Cardinality(RandomOf(m, u)) = g.k
    <2>1. \A c \in new : c.part = "I" /\ c.draft.type = u
        BY <1>2, <1>10 DEF OfType
    <2> HIDE DEF new
    <2>2. m = old \cup new
        BY <1>1 DEF new
    <2>3. \A t : t # u => RandomOf(m, t) = RandomOf(old, t)
        BY <2>1, <2>2 DEF RandomOf
    <2>4. RandomOf(old, u) = {} => RandomOf(m, u) = new
        BY <2>1, <2>2 DEF RandomOf
    <2> QED BY <1>3, <2>3, <2>4
<1> HIDE DEF new, taken
<1> QED BY <1>2, <1>5, <1>8, <1>9, <1>10

\* A sample is extended by one draw.
LEMMA ExtendedIs ==
    ASSUME NEW samples, NEW g, NEW m
    PROVE  m \in Extended(samples, g) <=> \E old \in samples : Extends(old, m, g)
<1> DEFINE cases(drawn) == {[draft |-> d, part |-> g.part, place |-> g.place] : d \in drawn}
           draws(old) == Draws(g.pool, g.k, {c.draft.group : c \in old})
           from(old) == {old \cup cases(drawn) : drawn \in draws(old)}
<1>1. Extended(samples, g) = UNION {from(old) : old \in samples}
    BY DEF Extended
<1>2. \A old : Extends(old, m, g) <=> m \in from(old)
    <2> HIDE DEF draws
    <2>1. \A old : Extends(old, m, g) <=> \E drawn \in draws(old) : m = old \cup cases(drawn)
        BY DEF Extends, draws
    <2> HIDE DEF cases
    <2> QED BY <2>1
<1> HIDE DEF from
<1> QED BY <1>1, <1>2

\* The slots of the first k types.
SlotsTo(q, k) == {p \in SlotsOf(q) : Place(p[1]) <= k}

\* The next type adds its slots.
LEMMA SlotsUpTo ==
    ASSUME OrderOK, NEW q \in [TicketTypes -> Nat], IsFiniteSet(SlotsOf(q))
    PROVE  /\ Cardinality(SlotsTo(q, 0)) = 0 /\ SlotsTo(q, Len(TypeOrder)) = SlotsOf(q)
           /\ \A k \in 1 .. Len(TypeOrder) :
                 Cardinality(SlotsTo(q, k)) = Cardinality(SlotsTo(q, k - 1)) + q[TypeOrder[k]]
<1> DEFINE n == Len(TypeOrder)
<1>1. /\ n \in Nat
      /\ \A k \in 1 .. n : TypeOrder[k] \in TicketTypes /\ Place(TypeOrder[k]) = k
      /\ \A t \in TicketTypes : Place(t) \in 1 .. n /\ TypeOrder[Place(t)] = t
    BY TypesAre
<1> HIDE DEF n
<1>2. \A p \in SlotsOf(q) : p[1] \in TicketTypes
    BY DEF SlotsOf
<1>3. SlotsTo(q, 0) = {}
    BY <1>1, <1>2 DEF SlotsTo
<1>4. SlotsTo(q, n) = SlotsOf(q)
    BY <1>1, <1>2 DEF SlotsTo
<1>5. ASSUME NEW k \in 1 .. n
      PROVE  Cardinality(SlotsTo(q, k)) = Cardinality(SlotsTo(q, k - 1)) + q[TypeOrder[k]]
    <2> DEFINE t == TypeOrder[k]
               new == {t} \X (0 + 1 .. 0 + q[t])
    <2>1. t \in TicketTypes /\ Place(t) = k /\ q[t] \in Nat
        BY <1>1
    <2>2. \A u \in TicketTypes : Place(u) \in Int /\ (Place(u) = k => u = t)
        BY <1>1
    <2> HIDE DEF t
    <2>3. SlotsTo(q, k) = SlotsTo(q, k - 1) \cup new
        <3>1. ASSUME NEW p \in SlotsTo(q, k) PROVE p \in SlotsTo(q, k - 1) \cup new
            <4>1. PICK u \in TicketTypes, i \in Nat : p = <<u, i>> /\ 1 <= i /\ i <= q[u] /\ Place(u) <= k
                BY DEF SlotsTo, SlotsOf
            <4>2. CASE Place(u) = k
                <5>1. u = t /\ i \in 0 + 1 .. 0 + q[t]
                    BY <2>1, <2>2, <4>1, <4>2
                <5> QED BY <4>1, <5>1
            <4>3. CASE Place(u) # k
                <5>1. Place(u) <= k - 1
                    BY <2>2, <4>1, <4>3
                <5> QED BY <4>1, <5>1 DEF SlotsTo
            <4> QED BY <4>2, <4>3
        <3>2. ASSUME NEW p \in SlotsTo(q, k - 1) PROVE p \in SlotsTo(q, k)
            <4>1. Place(p[1]) \in Int
                BY <1>2, <2>2 DEF SlotsTo
            <4> QED BY <4>1 DEF SlotsTo
        <3>3. ASSUME NEW p \in new PROVE p \in SlotsTo(q, k)
            <4>1. PICK i \in 0 + 1 .. 0 + q[t] : p = <<t, i>>
                OBVIOUS
            <4>2. i \in Nat /\ 1 <= i /\ i <= q[t]
                BY <2>1, <4>1
            <4> QED BY <2>1, <4>1, <4>2 DEF SlotsTo, SlotsOf
        <3> QED BY <3>1, <3>2, <3>3
    <2>4. SlotsTo(q, k - 1) \cap new = {}
        <3>1. ASSUME NEW p \in new PROVE p \notin SlotsTo(q, k - 1)
            <4>1. p[1] = t
                OBVIOUS
            <4> QED BY <2>1, <4>1 DEF SlotsTo
        <3> QED BY <3>1
    <2>5. IsFiniteSet(new) /\ Cardinality(new) = q[t]
        <3>1. PICK x \in Nat, a \in Nat : x = q[t] /\ a = 0
            BY <2>1
        <3>2. IsFiniteSet({t} \X (a + 1 .. a + x)) /\ Cardinality({t} \X (a + 1 .. a + x)) = x
            BY <2>1, SlotsOfType
        <3> QED BY <3>1, <3>2
    <2>6. IsFiniteSet(SlotsTo(q, k - 1))
        <3>1. SlotsTo(q, k - 1) \in SUBSET SlotsOf(q)
            BY DEF SlotsTo
        <3> QED BY <3>1, FS_Subset
    <2> HIDE DEF new
    <2>7. Cardinality(SlotsTo(q, k)) = Cardinality(SlotsTo(q, k - 1)) + q[t]
        BY <2>3, <2>4, <2>5, <2>6, DisjointSum
    <2> QED BY <2>7 DEF t
<1>6. Cardinality(SlotsTo(q, 0)) = 0
    BY <1>3, FS_EmptySet
<1> QED BY <1>4, <1>5, <1>6 DEF n

\* One group for each type, and four targeted ones of the drafts flagged.
TheGroups(gs, drafts, targeted, q) ==
    LET n == Len(TypeOrder)
    IN  /\ Len(gs) = n + 4
        /\ \A i \in 1 .. n : gs[i] = [part |-> "I", place |-> i + 4, pool |-> OfType(drafts, TypeOrder[i]), k |-> q[TypeOrder[i]]]
        /\ \A i \in n + 1 .. n + 4 : gs[i].part = "II" /\ gs[i].place \in Int /\ gs[i].pool \subseteq drafts
        /\ gs[n + 1].k + gs[n + 2].k + gs[n + 3].k + gs[n + 4].k = targeted[1] + targeted[2] + targeted[3]

\* The groups of a selection.
LEMMA GroupsAre ==
    ASSUME OrderOK, NEW drafts, NEW total \in Nat, NEW targeted, NEW available,
           targeted[1] \in Nat, targeted[2] \in Nat, targeted[3] \in Nat
    PROVE  TheGroups(Groups(drafts, total, targeted, available), drafts, targeted,
                     AllocateRandom(total - (targeted[1] + targeted[2] + targeted[3]), available))
<1> DEFINE gs == Groups(drafts, total, targeted, available)
           n == Len(TypeOrder)
           q == AllocateRandom(total - (targeted[1] + targeted[2] + targeted[3]), available)
           control == (targeted[3] + 1) \div 2
           flagged(flag, place, k) == [part |-> "II", place |-> place, pool |-> {d \in drafts : Flagged(d, flag)}, k |-> k]
           byType == [i \in DOMAIN TypeOrder |-> [part |-> "I", place |-> i + 4, pool |-> OfType(drafts, TypeOrder[i]),
                                                  k |-> q[TypeOrder[i]]]]
           byFlag == << flagged("nli_pass_suspected_error", 4, targeted[1]),
                        flagged("judge_disagreement", 3, targeted[2]),
                        flagged("control_judge_accepted", 1, control),
                        flagged("control_judge_rejected", 2, targeted[3] - control) >>
<1>1. n \in Nat /\ DOMAIN TypeOrder = 1 .. n
    BY TypesAre
<1>2. gs = byType \o byFlag
    BY DEF Groups, OfType
<1>3. Len(byType) = n /\ Len(byFlag) = 4 /\ \A i \in 1 .. n : byType[i] = [part |-> "I", place |-> i + 4, pool |-> OfType(drafts, TypeOrder[i]), k |-> q[TypeOrder[i]]]
    <2> HIDE DEF q, n
    <2> QED BY <1>1
<1>4. /\ \A i \in 1 .. 4 : byFlag[i].part = "II" /\ byFlag[i].place \in Int /\ byFlag[i].pool \subseteq drafts
      /\ byFlag[1].k = targeted[1] /\ byFlag[2].k = targeted[2]
      /\ byFlag[3].k = control /\ byFlag[4].k = targeted[3] - control
    <2>1. \A i \in 1 .. 4 : i = 1 \/ i = 2 \/ i = 3 \/ i = 4
        OBVIOUS
    <2> HIDE DEF control
    <2> QED BY <2>1
<1> HIDE DEF gs, byType, byFlag
<1> DEFINE G == {byType[i] : i \in 1 .. n} \cup {byFlag[i] : i \in 1 .. 4}
<1>5. byType \in Seq(G) /\ byFlag \in Seq(G)
    <2> HIDE DEF n, q, control
    <2>1. byType = [i \in 1 .. n |-> byType[i]]
        BY <1>1 DEF byType
    <2>2. byFlag = [i \in 1 .. 4 |-> byFlag[i]]
        <3> USE DEF byFlag
        <3> QED OBVIOUS
    <2> QED BY <1>1, <2>1, <2>2
<1> HIDE DEF G
<1>6. /\ Len(gs) = n + 4
      /\ \A i \in 1 .. n + 4 : gs[i] = IF i <= n THEN byType[i] ELSE byFlag[i - n]
    <2> HIDE DEF n, q, control
    <2>1. /\ Len(byType \o byFlag) = Len(byType) + Len(byFlag)
          /\ \A i \in 1 .. Len(byType) + Len(byFlag) :
                (byType \o byFlag)[i] = IF i <= Len(byType) THEN byType[i] ELSE byFlag[i - Len(byType)]
        BY <1>5, ConcatProperties
    <2>2. Len(byType) = n /\ Len(byFlag) = 4
        BY <1>3
    <2> QED BY <1>2, <2>1, <2>2
<1>7. \A i \in 1 .. n : gs[i] = byType[i]
    <2> HIDE DEF n
    <2> QED BY <1>1, <1>6
<1>8. \A i \in n + 1 .. n + 4 : gs[i] = byFlag[i - n] /\ i - n \in 1 .. 4
    <2> HIDE DEF n
    <2> QED BY <1>1, <1>6
<1>9. /\ gs[n + 1] = byFlag[1] /\ gs[n + 2] = byFlag[2] /\ gs[n + 3] = byFlag[3] /\ gs[n + 4] = byFlag[4]
    <2> HIDE DEF n
    <2>1. /\ n + 1 \in n + 1 .. n + 4 /\ n + 2 \in n + 1 .. n + 4
          /\ n + 3 \in n + 1 .. n + 4 /\ n + 4 \in n + 1 .. n + 4
          /\ (n + 1) - n = 1 /\ (n + 2) - n = 2 /\ (n + 3) - n = 3 /\ (n + 4) - n = 4
        BY <1>1
    <2> QED BY <1>8, <2>1
<1>10. control \in Int
    OBVIOUS
<1>11. gs[n + 1].k + gs[n + 2].k + gs[n + 3].k + gs[n + 4].k = targeted[1] + targeted[2] + targeted[3]
    <2> HIDE DEF n, control
    <2> QED BY <1>4, <1>9, <1>10
<1>12. \A i \in n + 1 .. n + 4 : gs[i].part = "II" /\ gs[i].place \in Int /\ gs[i].pool \subseteq drafts
    <2> HIDE DEF n
    <2> QED BY <1>4, <1>8
<1> HIDE DEF n, q, control
<1>13. \A i \in 1 .. n : gs[i] = [part |-> "I", place |-> i + 4, pool |-> OfType(drafts, TypeOrder[i]), k |-> q[TypeOrder[i]]]
    BY <1>3, <1>7
<1>14. TheGroups(gs, drafts, targeted, q)
    BY <1>6, <1>11, <1>12, <1>13 DEF TheGroups, n
<1> QED BY <1>14 DEF gs, q

\* What is drawn for the first k types.
RandomPart(m, k, q, drafts) ==
    /\ IsSample(m, drafts) /\ Cardinality(m) = Cardinality(SlotsTo(q, k))
    /\ \A t \in TicketTypes : IF Place(t) <= k THEN Cardinality(RandomOf(m, t)) = q[t] ELSE RandomOf(m, t) = {}

\* The draw for the next type.
LEMMA NextTypeDrawn ==
    ASSUME OrderOK, NEW drafts, IsFiniteSet(drafts), NEW q \in [TicketTypes -> Nat], IsFiniteSet(SlotsOf(q)),
           NEW k \in 1 .. Len(TypeOrder), NEW old, RandomPart(old, k - 1, q, drafts), NEW m,
           Extends(old, m, [part |-> "I", place |-> k + 4, pool |-> OfType(drafts, TypeOrder[k]), k |-> q[TypeOrder[k]]])
    PROVE  RandomPart(m, k, q, drafts)
<1> DEFINE u == TypeOrder[k]
           g == [part |-> "I", place |-> k + 4, pool |-> OfType(drafts, u), k |-> q[u]]
<1>1. u \in TicketTypes /\ Place(u) = k /\ \A t \in TicketTypes : Place(t) \in Int /\ (Place(t) = k => t = u)
    BY TypesAre
<1>2. /\ IsSample(old, drafts) /\ g.pool \subseteq drafts /\ g.part = "I" /\ g.place \in Int
      /\ g.pool = OfType(drafts, u) /\ g.k = q[u]
    BY DEF RandomPart, OfType
<1>3. Cardinality(SlotsTo(q, k)) = Cardinality(SlotsTo(q, k - 1)) + q[u]
    BY SlotsUpTo
<1>4. Extends(old, m, g)
    OBVIOUS
<1> HIDE DEF g, u
<1>5. /\ IsSample(m, drafts) /\ Cardinality(m) = Cardinality(old) + q[u]
      /\ \A t : t # u => RandomOf(m, t) = RandomOf(old, t)
      /\ RandomOf(old, u) = {} => Cardinality(RandomOf(m, u)) = q[u]
    BY <1>2, <1>4, Extending
<1>6. RandomOf(old, u) = {}
    <2>1. ~ (Place(u) <= k - 1)
        BY <1>1
    <2> QED BY <1>1, <2>1 DEF RandomPart
<1>7. ASSUME NEW t \in TicketTypes
      PROVE  IF Place(t) <= k THEN Cardinality(RandomOf(m, t)) = q[t] ELSE RandomOf(m, t) = {}
    <2>1. CASE t = u
        BY <1>1, <1>5, <1>6, <2>1
    <2>2. CASE t # u
        <3>1. Place(t) <= k <=> Place(t) <= k - 1
            BY <1>1, <2>2
        <3>2. RandomOf(m, t) = RandomOf(old, t)
            BY <1>5, <2>2
        <3> QED BY <3>1, <3>2 DEF RandomPart
    <2> QED BY <2>1, <2>2
<1>8. Cardinality(m) = Cardinality(SlotsTo(q, k))
    BY <1>3, <1>5 DEF RandomPart
<1> QED BY <1>5, <1>7, <1>8 DEF RandomPart

\* Sets of samples of the drafts.
SamplesFrom(drafts) == SUBSET (SUBSET [draft : drafts, part : {"I", "II"}, place : Int])

\* What is drawn are cases.
LEMMA ExtendedType ==
    ASSUME NEW drafts, NEW samples \in SamplesFrom(drafts), NEW g, g.pool \subseteq drafts,
           g.part \in {"I", "II"}, g.place \in Int
    PROVE  Extended(samples, g) \in SamplesFrom(drafts)
<1> SUFFICES ASSUME NEW m \in Extended(samples, g), NEW c \in m
             PROVE  c \in [draft : drafts, part : {"I", "II"}, place : Int]
    BY DEF SamplesFrom
<1>1. PICK old \in samples : Extends(old, m, g)
    BY ExtendedIs
<1>2. PICK drawn \in Draws(g.pool, g.k, {e.draft.group : e \in old}) :
          m = old \cup {[draft |-> d, part |-> g.part, place |-> g.place] : d \in drawn}
    BY <1>1 DEF Extends
<1>3. drawn \subseteq g.pool
    BY DrawnFromPool
<1> QED BY <1>2, <1>3 DEF SamplesFrom

\* The samples are drawn group by group.
DrawnBy(m, drafts, groups) ==
    LET n == Len(TypeOrder)
    IN  \E drawn \in [0 .. n + 4 -> SamplesFrom(drafts)] :
            /\ drawn[0] = {{}} /\ m \in drawn[n + 4]
            /\ \A k \in 1 .. n + 4 : drawn[k] = Extended(drawn[k - 1], groups[k])

\* A sample is the outcome of the draws for all groups.
LEMMA SamplesAre ==
    ASSUME OrderOK, NEW drafts, IsFiniteSet(drafts), NEW total \in Nat, NEW targeted,
           targeted[1] \in Nat, targeted[2] \in Nat, targeted[3] \in Nat,
           NEW m \in Samples(drafts, total, targeted)
    PROVE  /\ total - (targeted[1] + targeted[2] + targeted[3]) <= Cardinality(Scenarios(drafts))
           /\ DrawnBy(m, drafts, Groups(drafts, total, targeted, AvailableIn(drafts)))
<1> DEFINE groups == Groups(drafts, total, targeted, AvailableIn(drafts))
           n == Len(TypeOrder)
           l == Len(groups)
           A == SamplesFrom(drafts)
           drawn[k \in 0 .. l] == IF k = 0 THEN {{}} ELSE Extended(drawn[k - 1], groups[k])
           step == [p \in (1 .. l) \X A |-> Extended(p[2], groups[p[1]])]
<1>1. n \in Nat /\ l = n + 4 /\ \A k \in 1 .. l : groups[k].pool \subseteq drafts /\ groups[k].part \in {"I", "II"} /\ groups[k].place \in Int
    <2>1. n \in Nat
        BY TypesAre
    <2>2. /\ l = n + 4
          /\ \A i \in 1 .. n : /\ groups[i].pool = OfType(drafts, TypeOrder[i]) /\ groups[i].part = "I"
                              /\ groups[i].place \in Int
          /\ \A i \in n + 1 .. n + 4 : groups[i].part = "II" /\ groups[i].place \in Int /\ groups[i].pool \subseteq drafts
        <3>1. TheGroups(groups, drafts, targeted,
                  AllocateRandom(total - (targeted[1] + targeted[2] + targeted[3]), AvailableIn(drafts)))
            BY GroupsAre
        <3>2. PICK q : TheGroups(groups, drafts, targeted, q)
            BY <3>1
        <3> HIDE DEF groups, drawn, step
        <3>3. l = n + 4
            BY <3>2 DEF TheGroups
        <3>4. \A i \in n + 1 .. n + 4 : groups[i].part = "II" /\ groups[i].place \in Int /\ groups[i].pool \subseteq drafts
            BY <3>2 DEF TheGroups
        <3>5. ASSUME NEW i \in 1 .. n
              PROVE  /\ groups[i].pool = OfType(drafts, TypeOrder[i]) /\ groups[i].part = "I"
                     /\ groups[i].place \in Int
            <4>1. groups[i] = [part |-> "I", place |-> i + 4, pool |-> OfType(drafts, TypeOrder[i]), k |-> q[TypeOrder[i]]]
                BY <3>2 DEF TheGroups
            <4> QED BY <4>1
        <3> HIDE DEF n, l
        <3> QED BY <3>3, <3>4, <3>5
    <2> HIDE DEF n, groups
    <2>3. \A i \in 1 .. l : i \in 1 .. n \/ i \in n + 1 .. n + 4
        BY <2>1, <2>2
    <2> QED BY <2>1, <2>2, <2>3 DEF OfType
<1>2. l \in Nat
    <2> HIDE DEF l, n
    <2> QED BY <1>1
<1> HIDE DEF groups, n, l
<1>3. step \in Steps(A, l)
    <2>1. ASSUME NEW p \in (1 .. l) \X A PROVE Extended(p[2], groups[p[1]]) \in A
        <3>1. p[1] \in 1 .. l /\ p[2] \in A
            BY <2>1
        <3> QED BY <1>1, <3>1, ExtendedType
    <2> HIDE DEF A
    <2> QED BY <2>1 DEF Steps
<1>4. {{}} \in A
    BY DEF SamplesFrom
<1>5. PICK g \in [0 .. l -> A] : g[0] = {{}} /\ \A k \in 1 .. l : g[k] = Extended(g[k - 1], groups[k])
    <2>1. PICK g \in Iterations(A, l, {{}}, step) : TRUE
        <3> HIDE DEF A, step
        <3> QED BY <1>2, <1>3, <1>4, Iterates
    <2>2. g \in [0 .. l -> A] /\ g[0] = {{}} /\ \A k \in 1 .. l : g[k] = step[<<k, g[k - 1]>>]
        BY <2>1 DEF Iterations
    <2>3. ASSUME NEW k \in 1 .. l PROVE g[k] = Extended(g[k - 1], groups[k])
        <3>1. k - 1 \in 0 .. l
            BY <1>2
        <3>2. <<k, g[k - 1]>> \in (1 .. l) \X A
            BY <2>2, <3>1
        <3> HIDE DEF A
        <3> QED BY <2>2, <3>2
    <2> QED BY <2>2, <2>3
<1>6. drawn = [k \in 0 .. l |-> IF k = 0 THEN {{}} ELSE Extended(drawn[k - 1], groups[k])]
    <2> DEFINE Is(f) == f = [k \in 0 .. l |-> IF k = 0 THEN {{}} ELSE Extended(f[k - 1], groups[k])]
    <2>1. drawn = CHOOSE f : Is(f)
        BY DEF drawn
    <2>2. Is(g)
        <3> HIDE DEF A
        <3>1. \A k \in 0 .. l : k = 0 \/ k \in 1 .. l
            BY <1>2
        <3> QED BY <1>5, <3>1
    <2> HIDE DEF drawn, Is
    <2>3. Is(drawn)
        BY <2>1, <2>2
    <2> QED BY <2>3 DEF Is
<1>7. total - (targeted[1] + targeted[2] + targeted[3]) <= Cardinality(Scenarios(drafts)) /\ m \in drawn[l]
    <2>1. [t \in ToSet(TypeOrder) |-> Cardinality(Scenarios(OfType(drafts, t)))] = AvailableIn(drafts)
        BY DEF AvailableIn, TicketTypes
    <2>2. m \in IF \/ \E d, e \in drafts : d.group = e.group /\ d.type # e.type
                   \/ total - (targeted[1] + targeted[2] + targeted[3]) > Cardinality(Scenarios(drafts))
                THEN {} ELSE drawn[l]
        BY <2>1 DEF Samples, drawn, l, groups
    <2>3. ~ (total - (targeted[1] + targeted[2] + targeted[3]) > Cardinality(Scenarios(drafts))) /\ m \in drawn[l]
        BY <2>2
    <2>4. Cardinality(Scenarios(drafts)) \in Nat
        BY ScenariosFinite
    <2> HIDE DEF drawn
    <2> QED BY <2>3, <2>4
<1> HIDE DEF drawn
<1>8. drawn = g
    <2> DEFINE S == {k \in 0 .. l : drawn[k] = g[k]}
    <2> HIDE DEF A
    <2>1. 0 \in S
        BY <1>2, <1>5, <1>6
    <2>2. ASSUME NEW k \in 1 .. l, k - 1 \in S PROVE k \in S
        <3>1. k \in 0 .. l /\ k # 0
            BY <1>2
        <3>2. drawn[k] = Extended(drawn[k - 1], groups[k])
            BY <1>6, <3>1
        <3> QED BY <1>5, <2>2, <3>1, <3>2
    <2>3. \A k \in 0 .. l : k \in S
        <3> HIDE DEF S
        <3> QED BY <1>2, <2>1, <2>2, CountingUp
    <2> QED BY <1>5, <1>6, <2>3
<1>9. g \in [0 .. n + 4 -> A] /\ m \in g[n + 4] /\ \A k \in 1 .. n + 4 : g[k] = Extended(g[k - 1], groups[k])
    BY <1>1, <1>5, <1>7, <1>8
<1> HIDE DEF step
<1>10. DrawnBy(m, drafts, groups)
    BY <1>5, <1>9 DEF DrawnBy, n
<1> QED BY <1>7, <1>10 DEF groups

\* The targeted cases of a group leave the random ones alone.
LEMMA NextTargeted ==
    ASSUME NEW drafts, IsFiniteSet(drafts), NEW old, IsSample(old, drafts), NEW g,
           g.pool \subseteq drafts, g.part = "II", g.place \in Int, NEW m, Extends(old, m, g)
    PROVE  /\ IsSample(m, drafts) /\ g.k \in Nat /\ Cardinality(m) = Cardinality(old) + g.k
           /\ \A t : RandomOf(m, t) = RandomOf(old, t)
BY Extending

\* A sample has the size asked for, and is as balanced as allocate_random made it.
Sound(m, drafts, total) ==
    /\ IsSample(m, drafts) /\ Cardinality(m) = total
    /\ \A s, t \in TicketTypes :
          Cardinality(RandomOf(m, s)) < Cardinality(RandomOf(m, t)) - 1 =>
              Cardinality(RandomOf(m, s)) = AvailableIn(drafts)[s]

\* Every sample that is drawn is sound.
LEMMA SamplesSound ==
    ASSUME OrderOK, NEW drafts, IsFiniteSet(drafts), \A d \in drafts : d.type \in TicketTypes,
           NEW total \in Nat, NEW targeted, targeted[1] \in Nat, targeted[2] \in Nat, targeted[3] \in Nat,
           targeted[1] + targeted[2] + targeted[3] <= total,
           NEW m \in Samples(drafts, total, targeted)
    PROVE  Sound(m, drafts, total)
<1> DEFINE n == Len(TypeOrder)
           extra == targeted[1] + targeted[2] + targeted[3]
           random == total - extra
           av == AvailableIn(drafts)
           groups == Groups(drafts, total, targeted, av)
           q == AllocateRandom(random, av)
<1>1. n \in Nat /\ random \in Nat /\ extra \in Nat
    BY TypesAre
<1>2. PICK drawn \in [0 .. n + 4 -> SamplesFrom(drafts)] :
          /\ drawn[0] = {{}} /\ m \in drawn[n + 4]
          /\ \A k \in 1 .. n + 4 : drawn[k] = Extended(drawn[k - 1], groups[k])
    <2>1. DrawnBy(m, drafts, groups)
        BY SamplesAre
    <2> HIDE DEF groups
    <2> QED BY <2>1 DEF DrawnBy
<1>3. Balanced(q, random, av)
    <2>1. random <= Cardinality(Scenarios(drafts))
        BY SamplesAre
    <2>2. /\ av \in [TicketTypes -> Nat]
          /\ IsFiniteSet(SlotsOf(av)) => Cardinality(Scenarios(drafts)) <= Cardinality(SlotsOf(av))
        BY RoomForAll
    <2>3. Cardinality(Scenarios(drafts)) \in Nat
        BY ScenariosFinite
    <2>4. IsFiniteSet(SlotsOf(av)) => Cardinality(SlotsOf(av)) \in Nat
        BY FS_CardinalityType
    <2> HIDE DEF random, av
    <2>5. IsFiniteSet(SlotsOf(av)) => random <= Cardinality(SlotsOf(av))
        BY <1>1, <2>1, <2>2, <2>3, <2>4
    <2> QED BY <1>1, <2>2, <2>5, AllocatesEvenly
<1>4. TheGroups(groups, drafts, targeted, q)
    BY GroupsAre
<1> HIDE DEF groups, q, av
<1>5. /\ q \in [TicketTypes -> Nat] /\ IsFiniteSet(SlotsOf(q)) /\ Cardinality(SlotsOf(q)) = random
      /\ \A t \in TicketTypes : q[t] <= av[t]
      /\ \A s, t \in TicketTypes : q[s] < av[s] => q[t] <= q[s] + 1
    BY <1>3 DEF Balanced
<1> HIDE DEF random
<1> DEFINE S == {k \in 0 .. n : \A x \in drawn[k] : RandomPart(x, k, q, drafts)}
<1>6. 0 \in S
    <2>1. IsSample({}, drafts) /\ Cardinality({}) = 0 /\ \A t : RandomOf({}, t) = {}
        BY FS_EmptySet DEF IsSample, RandomOf
    <2>2. \A t \in TicketTypes : ~ (Place(t) <= 0)
        BY TypesAre
    <2>3. RandomPart({}, 0, q, drafts)
        BY <1>5, <2>1, <2>2, SlotsUpTo DEF RandomPart
    <2>4. 0 \in 0 .. n
        BY <1>1
    <2>5. \A x \in drawn[0] : RandomPart(x, 0, q, drafts)
        BY <1>2, <2>3
    <2> HIDE DEF n
    <2> QED BY <2>4, <2>5
<1>7. ASSUME NEW k \in 1 .. n, k - 1 \in S PROVE k \in S
    <2>1. k \in 0 .. n /\ k \in 1 .. n + 4
        BY <1>1
    <2>2. groups[k] = [part |-> "I", place |-> k + 4, pool |-> OfType(drafts, TypeOrder[k]), k |-> q[TypeOrder[k]]]
        BY <1>4 DEF TheGroups
    <2>3. ASSUME NEW x \in drawn[k] PROVE RandomPart(x, k, q, drafts)
        <3>1. x \in Extended(drawn[k - 1], groups[k])
            BY <1>2, <2>1
        <3>2. PICK old \in drawn[k - 1] : Extends(old, x, groups[k])
            BY <3>1, ExtendedIs
        <3>3. RandomPart(old, k - 1, q, drafts)
            BY <1>7
        <3> QED BY <1>5, <2>2, <3>2, <3>3, NextTypeDrawn
    <2> HIDE DEF n
    <2> QED BY <2>1, <2>3
<1>8. \A x \in drawn[n] : RandomPart(x, n, q, drafts)
    <2>1. \A k \in 0 .. n : k \in S
        <3> HIDE DEF S, n
        <3> QED BY <1>1, <1>6, <1>7, CountingUp
    <2>2. n \in 0 .. n
        BY <1>1
    <2> HIDE DEF n
    <2>3. n \in S
        BY <2>1, <2>2
    <2> QED BY <2>3
<1>9. /\ \A i \in n + 1 .. n + 4 : groups[i].part = "II" /\ groups[i].place \in Int /\ groups[i].pool \subseteq drafts
      /\ groups[n + 1].k + groups[n + 2].k + groups[n + 3].k + groups[n + 4].k = extra
    BY <1>4 DEF TheGroups
<1> HIDE DEF n, extra, S
<1>10. ASSUME NEW j \in 1 .. 4, NEW x \in drawn[n + j]
       PROVE  \E old \in drawn[n + (j - 1)] : Extends(old, x, groups[n + j])
    <2>1. n + j \in 1 .. n + 4 /\ (n + j) - 1 = n + (j - 1)
        BY <1>1
    <2>2. x \in Extended(drawn[n + (j - 1)], groups[n + j])
        BY <1>2, <2>1
    <2> QED BY <2>2, ExtendedIs
<1>11. PICK m3 \in drawn[n + 3] : Extends(m3, m, groups[n + 4])
    <2>1. 4 \in 1 .. 4 /\ 4 - 1 = 3
        OBVIOUS
    <2> QED BY <1>2, <1>10, <2>1
<1>12. PICK m2 \in drawn[n + 2] : Extends(m2, m3, groups[n + 3])
    <2>1. 3 \in 1 .. 4 /\ 3 - 1 = 2
        OBVIOUS
    <2> QED BY <1>10, <2>1
<1>13. PICK m1 \in drawn[n + 1] : Extends(m1, m2, groups[n + 2])
    <2>1. 2 \in 1 .. 4 /\ 2 - 1 = 1
        OBVIOUS
    <2> QED BY <1>10, <2>1
<1>14. PICK m0 \in drawn[n] : Extends(m0, m1, groups[n + 1])
    <2>1. 1 \in 1 .. 4 /\ n + (1 - 1) = n
        BY <1>1
    <2> QED BY <1>10, <2>1
<1>15. \A j \in 1 .. 4 : groups[n + j].part = "II" /\ groups[n + j].place \in Int /\ groups[n + j].pool \subseteq drafts
    <2>1. \A j \in 1 .. 4 : n + j \in n + 1 .. n + 4
        BY <1>1
    <2> QED BY <1>9, <2>1
<1>16. RandomPart(m0, n, q, drafts)
    BY <1>8
<1>17. /\ IsSample(m1, drafts) /\ groups[n + 1].k \in Nat /\ Cardinality(m1) = Cardinality(m0) + groups[n + 1].k
       /\ \A t : RandomOf(m1, t) = RandomOf(m0, t)
    <2>1. IsSample(m0, drafts)
        BY <1>16 DEF RandomPart
    <2> QED BY <1>14, <1>15, <2>1, NextTargeted
<1>18. /\ IsSample(m2, drafts) /\ groups[n + 2].k \in Nat /\ Cardinality(m2) = Cardinality(m1) + groups[n + 2].k
       /\ \A t : RandomOf(m2, t) = RandomOf(m1, t)
    <2>1. 2 \in 1 .. 4
        OBVIOUS
    <2>2. /\ groups[n + 2].part = "II" /\ groups[n + 2].place \in Int
          /\ groups[n + 2].pool \subseteq drafts
        BY <1>15, <2>1
    <2> QED BY <1>13, <1>17, <2>2, NextTargeted
<1>19. /\ IsSample(m3, drafts) /\ groups[n + 3].k \in Nat /\ Cardinality(m3) = Cardinality(m2) + groups[n + 3].k
       /\ \A t : RandomOf(m3, t) = RandomOf(m2, t)
    BY <1>12, <1>15, <1>18, NextTargeted
<1>20. /\ IsSample(m, drafts) /\ groups[n + 4].k \in Nat /\ Cardinality(m) = Cardinality(m3) + groups[n + 4].k
       /\ \A t : RandomOf(m, t) = RandomOf(m3, t)
    <2>1. 4 \in 1 .. 4
        OBVIOUS
    <2>2. /\ groups[n + 4].part = "II" /\ groups[n + 4].place \in Int
          /\ groups[n + 4].pool \subseteq drafts
        BY <1>15, <2>1
    <2> QED BY <1>11, <1>19, <2>2, NextTargeted
<1>21. Cardinality(m0) = random
    <2>1. SlotsTo(q, n) = SlotsOf(q)
        BY <1>5, SlotsUpTo DEF n
    <2> QED BY <1>5, <1>16, <2>1 DEF RandomPart
<1>22. Cardinality(m) = total
    <2>1. random + extra = total
        BY <1>1 DEF random
    <2>2. PICK k1 \in Nat, k2 \in Nat, k3 \in Nat, k4 \in Nat :
              /\ k1 = groups[n + 1].k /\ k2 = groups[n + 2].k
              /\ k3 = groups[n + 3].k /\ k4 = groups[n + 4].k
        BY <1>17, <1>18, <1>19, <1>20
    <2>3. k1 + k2 + k3 + k4 = extra
        BY <1>9, <2>2
    <2>4. Cardinality(m) = (((random + k1) + k2) + k3) + k4
        BY <1>17, <1>18, <1>19, <1>20, <1>21, <2>2
    <2> QED BY <1>1, <2>1, <2>3, <2>4
<1>23. ASSUME NEW t \in TicketTypes PROVE Cardinality(RandomOf(m, t)) = q[t]
    <2>1. Place(t) <= n
        BY TypesAre DEF n
    <2>2. Cardinality(RandomOf(m0, t)) = q[t]
        BY <1>16, <2>1 DEF RandomPart
    <2> QED BY <1>17, <1>18, <1>19, <1>20, <2>2
<1>24. av \in [TicketTypes -> Nat]
    BY RoomForAll DEF av
<1>25. ASSUME NEW s \in TicketTypes, NEW t \in TicketTypes, q[s] < q[t] - 1 PROVE q[s] = av[s]
    <2>1. q[s] \in Nat /\ q[t] \in Nat /\ av[s] \in Nat /\ q[s] <= av[s]
        BY <1>5, <1>24
    <2>2. q[s] < av[s] => q[t] <= q[s] + 1
        BY <1>5
    <2> QED BY <1>25, <2>1, <2>2
<1> QED BY <1>20, <1>22, <1>23, <1>25 DEF Sound, av

----------------------------------------------------------------------------
(* The sample: once frozen it stays, and the reports rest on two reviewers *)

SampleInv == manifest # None => \E n \in DOMAIN TargetShare : Sound(manifest, Drafts, n)

\* The types of the outside audit are listed once each.
LEMMA OrderIs ==
    ASSUME HumanAssumption
    PROVE  OrderOK
BY DEF HumanAssumption, OrderOK, TicketTypes

\* The one step that sets the manifest draws a sound sample.
LEMMA SampleInvNext ==
    ASSUME HumanAssumption, SampleInv, [HumanNext]_humanVars
    PROVE  SampleInv'
<1>1. CASE manifest' = manifest
    BY <1>1 DEF SampleInv
<1>2. ASSUME NEW n \in DOMAIN TargetShare, FreezeSample(n)
      PROVE  SampleInv'
    <2>1. PICK targeted \in Nat \X Nat \X Nat :
              targeted = TargetShare[n] /\ targeted[1] + targeted[2] + targeted[3] <= n /\ n \in Nat
        BY DEF HumanAssumption
    <2>2. targeted[1] \in Nat /\ targeted[2] \in Nat /\ targeted[3] \in Nat
        OBVIOUS
    <2>3. IsFiniteSet(Drafts) /\ \A d \in Drafts : d.type \in TicketTypes
        BY DEF HumanAssumption, TicketTypes
    <2>4. PICK m \in Samples(Drafts, n, targeted) : m = manifest'
        BY <1>2, <2>1 DEF FreezeSample
    <2>5. Sound(m, Drafts, n)
        BY <2>1, <2>2, <2>3, OrderIs, SamplesSound
    <2> QED BY <2>4, <2>5 DEF SampleInv
<1>3. CASE UNCHANGED humanVars
    BY <1>1, <1>3 DEF humanVars
<1>4. ASSUME NEW k \in 1 .. MaxPairs, ExportPages(k) PROVE manifest' = manifest
    BY <1>4 DEF ExportPages
<1>5. ASSUME NEW r \in Reviewers, SendFile(r) PROVE manifest' = manifest
    BY <1>5 DEF SendFile
<1>6. CASE CollectFiles
    BY <1>1, <1>6 DEF CollectFiles
<1>7. ASSUME NEW r \in Reviewers, ThirdPage(r) PROVE manifest' = manifest
    BY <1>7 DEF ThirdPage
<1> QED BY <1>1, <1>2, <1>3, <1>4, <1>5, <1>6, <1>7 DEF HumanNext

\* What the two of a pair settled alone, both have rated.
LEMMA PairBehindOutcome ==
    ASSUME HumanAssumption, HumanInv, tally # None, procedure = "planned",
           NEW o \in Outcomes, NEW d \in DOMAIN tally.status[o],
           tally.status[o][d] \in {"confirmed", "negative"}
    PROVE  Cardinality({r \in Reviewers : InPairs(r) /\ d \in Finished(r)}) >= 2
<1> DEFINE p == pairOf[d]
           both == {2 * p - 1, 2 * p}
           S == {r \in Reviewers : InPairs(r) /\ d \in Finished(r)}
<1>1. d \in Cases /\ StatusOf(o, d) = tally.status[o][d]
    BY DEF HumanInv, ReportHolds, Settled
<1>2. p \in 1 .. MaxPairs /\ MaxPairs \in Nat
    BY <1>1 DEF HumanInv, ReviewOK, HumanAssumption
<1>3. FirstOf(d) # None /\ SecondOf(d) # None
    BY <1>1 DEF StatusOf, PairStatus
<1>4. d \in Finished(2 * p - 1) /\ d \in Finished(2 * p)
    BY <1>3 DEF FirstOf, SecondOf, OpinionOf
<1>5. both \subseteq Reviewers
    BY <1>2 DEF Reviewers
<1>6. \A r \in both : InPairs(r)
    BY <1>1 DEF InPairs, Pair
<1>7. both \in SUBSET S
    BY <1>4, <1>5, <1>6
<1>8. IsFiniteSet(Reviewers)
    <2>1. PICK n \in Int : n = 2 * MaxPairs + 1
        BY <1>2
    <2> QED BY <2>1, FS_Interval DEF Reviewers
<1>9. IsFiniteSet(S)
    <2>1. S \in SUBSET Reviewers
        OBVIOUS
    <2> QED BY <1>8, <2>1, FS_Subset
<1>10. Cardinality(both) = 2
    <2>1. IsFiniteSet({2 * p - 1}) /\ Cardinality({2 * p - 1}) = 1
        BY FS_Singleton
    <2>2. 2 * p \notin {2 * p - 1}
        BY <1>2
    <2>3. both = {2 * p - 1} \cup {2 * p}
        OBVIOUS
    <2> QED BY <2>1, <2>2, <2>3, FS_AddElement
<1>11. Cardinality(both) <= Cardinality(S)
    <2> HIDE DEF both, S
    <2> QED BY <1>7, <1>9, FS_Subset
<1>12. Cardinality(S) \in Nat
    BY <1>9, FS_CardinalityType
<1> QED BY <1>10, <1>11, <1>12

\* The invariants say what a sound sample is.
LEMMA SoundSample ==
    ASSUME HumanAssumption, HumanInv, SampleInv
    PROVE  SampleIsSound
<1>1. ASSUME manifest # None
      PROVE  /\ Cardinality(manifest) \in DOMAIN TargetShare
             /\ \A c, d \in manifest : c # d => c.draft.group # d.draft.group
             /\ \A s, t \in TicketTypes :
                   Cardinality(RandomOf(manifest, s)) < Cardinality(RandomOf(manifest, t)) - 1 =>
                       Cardinality(RandomOf(manifest, s)) = AvailableIn(Drafts)[s]
    BY <1>1 DEF SampleInv, Sound, IsSample
<1>2. \A t \in TicketTypes :
          AvailableIn(Drafts)[t] = Cardinality({d.group : d \in {e \in Drafts : e.type = t}})
    BY DEF AvailableIn, Scenarios, OfType
<1>3. ASSUME tally # None, procedure = "planned", NEW o \in Outcomes, NEW d \in DOMAIN tally.status[o],
             tally.status[o][d] \in {"confirmed", "negative"}
      PROVE  Cardinality({r \in Reviewers : InPairs(r) /\ d \in Finished(r)}) >= 2
    BY <1>3, PairBehindOutcome
<1>4. \A t : RandomOf(manifest, t) = {c \in manifest : c.part = "I" /\ c.draft.type = t}
    BY DEF RandomOf
<1> QED BY <1>1, <1>2, <1>3, <1>4 DEF SampleIsSound, TicketTypes

\* For any drafts, sample sizes, targeted parts and numbers of ticket types: the frozen sample has
\* the promised size, never two drafts of a scenario, and random cases spread over the types as
\* evenly as their scenarios allow; and two reviewers of a pair stand behind what they settle.
THEOREM SampleStaysSound ==
    ASSUME HumanAssumption
    PROVE  HumanSpec => []SampleIsSound
<1>1. HumanInit => HumanInv /\ SampleInv
    BY HumanInvInit DEF HumanInit, SampleInv
<1>2. HumanInv /\ SampleInv /\ [HumanNext]_humanVars => (HumanInv /\ SampleInv)'
    BY HumanInvNext, SampleInvNext
<1>3. HumanInv /\ SampleInv => SampleIsSound
    BY SoundSample
<1> QED
    BY <1>1, <1>2, <1>3, PTL DEF HumanSpec

\* The cases have pairs, a report has the statuses there are, and the files stay within bounds.
HumanValues ==
    /\ pairOf # None => \A d \in DOMAIN pairOf : pairOf[d] \in 1 .. MaxPairs
    /\ tally # None => \A o \in Outcomes : \A d \in DOMAIN tally.status[o] : tally.status[o][d] \in Statuses
    /\ handled.files \in 0 .. MaxFiles

\* Every step keeps these values.
LEMMA HumanValuesNext ==
    ASSUME HumanAssumption, HumanInv, HumanValues, [HumanNext]_humanVars
    PROVE  HumanValues'
<1>1. CASE UNCHANGED <<pairOf, tally, handled>>
    BY <1>1 DEF HumanValues
<1>2. ASSUME NEW n, FreezeSample(n) PROVE HumanValues'
    BY <1>1, <1>2 DEF FreezeSample
<1>3. ASSUME NEW k \in 1 .. MaxPairs, ExportPages(k) PROVE HumanValues'
    <2> DEFINE of(deal, d) == deal[CHOOSE c \in manifest : c.draft = d]
    <2>1. PICK deal \in Deals(manifest, k) : pairOf' = [d \in Cases |-> of(deal, d)]
        BY <1>3 DEF ExportPages
    <2>2. manifest # None
        BY <1>3 DEF ExportPages
    <2>3. \A d \in Cases : of(deal, d) \in 1 .. k
        BY <2>2, DealtPairs
    <2> HIDE DEF of
    <2>4. 1 .. k \subseteq 1 .. MaxPairs
        BY DEF HumanAssumption
    <2>5. tally' = tally /\ handled' = [handled EXCEPT !.exports = @ + 1]
        BY <1>3 DEF ExportPages
    <2>6. handled'.files = handled.files
        BY <2>5 DEF HumanInv, ReviewOK
    <2>7. \A d \in DOMAIN pairOf' : pairOf'[d] \in 1 .. MaxPairs
        BY <2>1, <2>3, <2>4
    <2> QED BY <2>5, <2>6, <2>7 DEF HumanValues
<1>4. ASSUME NEW r \in Reviewers, SendFile(r) PROVE HumanValues'
    <2>1. /\ pairOf' = pairOf /\ tally' = tally /\ handled.files < MaxFiles
          /\ handled' = [handled EXCEPT !.files = @ + 1]
        BY <1>4 DEF SendFile
    <2>2. handled'.files = handled.files + 1
        BY <2>1 DEF HumanInv, ReviewOK
    <2>3. handled.files + 1 \in 0 .. MaxFiles
        BY <2>1 DEF HumanValues, HumanAssumption
    <2> QED BY <2>1, <2>2, <2>3 DEF HumanValues
<1>5. CASE CollectFiles
    <2>1. tally' = Tally /\ UNCHANGED <<pairOf, handled>>
        BY <1>5 DEF CollectFiles
    <2>2. ASSUME NEW o \in Outcomes, NEW d \in DOMAIN Tally.status[o]
          PROVE  Tally.status[o][d] \in Statuses
        <3>1. Tally.status[o][d] = StatusOf(o, d)
            BY TallyIs
        <3>2. StatusOf(o, d) \in Settled \cup {"unresolved", "incomplete"}
            BY PairStatusIsStatus DEF StatusOf
        <3> QED BY <3>1, <3>2 DEF Settled, Statuses
    <2> HIDE DEF Tally
    <2> QED BY <2>1, <2>2 DEF HumanValues
<1>6. ASSUME NEW r \in Reviewers, ThirdPage(r) PROVE HumanValues'
    BY <1>1, <1>6 DEF ThirdPage
<1>7. CASE UNCHANGED humanVars
    BY <1>1, <1>7 DEF humanVars
<1> QED BY <1>2, <1>3, <1>4, <1>5, <1>6, <1>7 DEF HumanNext

\* What is frozen, dealt and reported has the values it may, whichever files come in when.
THEOREM HumanTypes ==
    ASSUME HumanAssumption
    PROVE  HumanSpec => []HumanTypeOK
<1>1. HumanInit => HumanInv /\ SampleInv /\ HumanValues
    <2> SUFFICES ASSUME HumanInit PROVE HumanInv /\ SampleInv /\ HumanValues
        OBVIOUS
    <2>1. SampleInv
        BY DEF HumanInit, SampleInv
    <2>2. MaxFiles \in Nat
        BY DEF HumanAssumption
    <2>3. pairOf = None /\ tally = None /\ handled.files = 0
        BY DEF HumanInit
    <2> QED BY <2>1, <2>2, <2>3, HumanInvInit DEF HumanValues
<1>2. HumanInv /\ SampleInv /\ HumanValues /\ [HumanNext]_humanVars => (HumanInv /\ SampleInv /\ HumanValues)'
    BY HumanInvNext, SampleInvNext, HumanValuesNext
<1>3. HumanInv /\ SampleInv /\ HumanValues => HumanTypeOK
    <2>1. SampleInv /\ manifest # None => \A c \in manifest : c.draft \in Drafts /\ c.part \in {"I", "II"}
        BY DEF SampleInv, Sound, IsSample
    <2> QED BY <2>1 DEF HumanValues, HumanTypeOK
<1> QED BY <1>1, <1>2, <1>3, PTL DEF HumanSpec

----------------------------------------------------------------------------
(* The authors' audit.  A rating is settled once no further file can change it. *)

RatingFiles == Seq([AuditCases -> AuthorRatings \cup {None}])

PagesOK ==
    /\ downloads \in [Authors \X AuditBatches -> RatingFiles]
    /\ answers \in [Authors -> [AuditCases -> AuthorRatings \cup {None}]]
    /\ exported \subseteq AuditBatches
    /\ joint = [b \in AuditBatches |-> joint[b]]
    /\ decided = [b \in AuditBatches |-> decided[b]]
    /\ batchOf # None => batchOf \in [AuditCases -> AuditBatches]
    /\ batchOf = None =>
          /\ exported = {} /\ locked = {} /\ agreement = None
          /\ \A f \in Authors \X AuditBatches : downloads[f] = <<>>
          /\ \A b \in AuditBatches : joint[b] = None /\ decided[b] = None

Rated(d) == \A a \in Authors : RatingOf(a, d) # None

AllStand(d) == \A a \in Authors : Stands(a, d)

Unanimous == {"unanimous_positive", "unanimous_negative"}

\* There is a joint page only of a batch that every author has rated.
JointOK == \A b \in AuditBatches : joint[b] # None => \A d \in InBatch(b) : Rated(d)

\* What the report found unanimous of a settled case is so still.
AgreementOK ==
    agreement # None =>
        \A o \in Outcomes : \A d \in DOMAIN agreement.outcomes[o] \cap AuditCases :
            /\ d \in agreement.lower[o] \/ d \notin agreement.upper[o] => Rated(d)
            /\ AllStand(d) =>
                  /\ d \in agreement.lower[o] => Status(o, d) = "unanimous_positive"
                  /\ d \notin agreement.upper[o] => Status(o, d) = "unanimous_negative"

\* The joint outcome of a settled case on which all agree is theirs.
DecidedOK ==
    \A b \in AuditBatches : decided[b] # None =>
        \A o \in Outcomes, d \in InBatch(b) :
            /\ Rated(d)
            /\ AllStand(d) /\ Status(o, d) \in Unanimous => decided[b][o][d] = Status(o, d)

AuthorInv == PagesOK /\ JointOK /\ AgreementOK /\ DecidedOK

\* Initially no page is exported and no file saved.
LEMMA AuthorInvInit ==
    ASSUME AuthorInit
    PROVE  AuthorInv
<1>1. \A f \in Authors \X AuditBatches : downloads[f] = <<>>
    BY DEF AuthorInit
<1>2. <<>> \in RatingFiles
    BY DEF RatingFiles
<1>3. PagesOK
    BY <1>1, <1>2 DEF AuthorInit, PagesOK
<1>5. JointOK /\ AgreementOK /\ DecidedOK
    BY DEF AuthorInit, JointOK, AgreementOK, DecidedOK
<1> QED
    BY <1>3, <1>5 DEF AuthorInv

\* A bounded set of numbers has a greatest one.
LEMMA GreatestNumber ==
    ASSUME NEW n \in Nat, NEW S \in SUBSET (1 .. n), S # {}
    PROVE  Max(S) \in S /\ \A m \in S : m <= Max(S)
<1> DEFINE T == {n - m : m \in S}
<1>0. \A m \in S : m \in 1 .. n /\ n - m \in Nat
    OBVIOUS
<1>1. T \in SUBSET Nat /\ T # {}
    BY <1>0
<1>2. PICK k \in T : \A j \in T : k <= j
    <2> HIDE DEF T
    <2> QED BY <1>1, LeastNumber
<1>3. PICK x \in S : k = n - x
    BY <1>2
<1>4. \A y \in S : x >= y
    <2> SUFFICES ASSUME NEW y \in S PROVE x >= y
        OBVIOUS
    <2>1. n - y \in T /\ x \in 1 .. n /\ y \in 1 .. n
        BY <1>0
    <2>2. k <= n - y
        BY <1>2, <2>1
    <2> HIDE DEF T
    <2> QED BY <1>3, <2>1, <2>2
<1>5. Max(S) \in S /\ \A y \in S : Max(S) >= y
    BY <1>4 DEF Max
<1> QED BY <1>5

\* A rating is what one of the files that hold the case says, the first one if it is among them.
LEMMA RatingIs ==
    ASSUME NEW a, NEW d, NEW n \in Nat, DOMAIN FilesOf(a, d) = 1 .. n
    PROVE  /\ Holding(a, d) = {} => RatingOf(a, d) = None
           /\ 1 \in Holding(a, d) => RatingOf(a, d) = FilesOf(a, d)[1][d]
           /\ Holding(a, d) # {} =>
                 \E i \in Holding(a, d) : RatingOf(a, d) = FilesOf(a, d)[i][d]
<1>1. CASE Holding(a, d) = {}
    BY <1>1 DEF RatingOf
<1>2. CASE 1 \in Holding(a, d)
    BY <1>2 DEF RatingOf
<1>3. CASE Holding(a, d) # {} /\ 1 \notin Holding(a, d)
    <2>1. Holding(a, d) \in SUBSET (1 .. n)
        BY DEF Holding
    <2>2. Max(Holding(a, d)) \in Holding(a, d)
        BY <1>3, <2>1, GreatestNumber
    <2>3. RatingOf(a, d) = FilesOf(a, d)[Max(Holding(a, d))][d]
        BY <1>3 DEF RatingOf
    <2> QED BY <1>3, <2>2, <2>3
<1> QED BY <1>1, <1>2, <1>3

\* What a step leaves of the files: no rating is lost, and none that is settled afterwards has
\* changed.
Carried ==
    /\ UNCHANGED batchOf
    /\ \A a \in Authors, d \in AuditCases : RatingOf(a, d) # None =>
          /\ RatingOf(a, d)' # None
          /\ Stands(a, d)' => Stands(a, d) /\ RatingOf(a, d)' = RatingOf(a, d)

\* Nothing changes while the files stay.
LEMMA SameFilesCarry ==
    ASSUME UNCHANGED <<batchOf, downloads>>
    PROVE  /\ Carried
           /\ \A a, d : Stands(a, d)' = Stands(a, d) /\ RatingOf(a, d)' = RatingOf(a, d)
           /\ \A o, d : Status(o, d)' = Status(o, d)
<1>1. \A a, d : FilesOf(a, d)' = FilesOf(a, d)
    BY DEF FilesOf
<1>2. \A a, d : Holding(a, d)' = Holding(a, d)
    BY <1>1 DEF Holding
<1>3. \A a, d : Stands(a, d)' = Stands(a, d) /\ RatingOf(a, d)' = RatingOf(a, d)
    BY <1>1, <1>2 DEF Stands, RatingOf
<1>4. \A o, d : Status(o, d)' = Status(o, d)
    BY <1>3 DEF Status, RatingsOf
<1> QED BY <1>3, <1>4 DEF Carried

\* A case that is settled after the step keeps its status.
LEMMA StatusStays ==
    ASSUME Carried, NEW o, NEW d \in AuditCases, Rated(d), AllStand(d)'
    PROVE  AllStand(d) /\ Status(o, d)' = Status(o, d)
<1>1. \A a \in Authors : RatingOf(a, d)' = RatingOf(a, d) /\ Stands(a, d)
    BY DEF Carried, Rated, AllStand
<1>2. RatingsOf(d)' = RatingsOf(d)
    BY <1>1 DEF RatingsOf
<1>3. Status(o, d)' = Status(o, d)
    BY <1>2 DEF Status
<1> QED BY <1>1, <1>3 DEF AllStand

\* What is rated stays rated, in the same batch.
LEMMA SameBatches ==
    ASSUME Carried
    PROVE  /\ \A b : InBatch(b)' = InBatch(b) /\ InBatch(b) \subseteq AuditCases
           /\ \A d \in AuditCases : Rated(d) => Rated(d)'
BY DEF Carried, InBatch, Rated

\* A joint page stays justified while ratings stay.
LEMMA CarriedKeepsJoint ==
    ASSUME AuthorInv, Carried, UNCHANGED joint
    PROVE  JointOK'
<1> SUFFICES ASSUME NEW b \in AuditBatches, joint[b] # None, NEW d \in InBatch(b)
             PROVE  Rated(d)'
    BY SameBatches DEF JointOK
<1> QED BY SameBatches DEF JointOK, AuthorInv

\* A case is unanimous only if every author has rated it.
LEMMA UnanimousIsRated ==
    ASSUME NEW o, NEW d, Status(o, d) \in Unanimous
    PROVE  Rated(d)
BY DEF Status, AuthorStatus, RatingsOf, Rated, Unanimous

\* So does the report: a case unanimous in it was rated by all before the step.
LEMMA CarriedKeepsAgreement ==
    ASSUME AuthorInv, Carried, UNCHANGED agreement
    PROVE  AgreementOK'
<1> SUFFICES ASSUME agreement # None, NEW o \in Outcomes,
                    NEW d \in DOMAIN agreement.outcomes[o] \cap AuditCases,
                    d \in agreement.lower[o] \/ d \notin agreement.upper[o]
             PROVE  /\ Rated(d)'
                    /\ AllStand(d)' =>
                          /\ d \in agreement.lower[o] => Status(o, d)' = "unanimous_positive"
                          /\ d \notin agreement.upper[o] => Status(o, d)' = "unanimous_negative"
    BY DEF AgreementOK
<1>1. Rated(d)
    BY DEF AuthorInv, AgreementOK
<1>2. AllStand(d)' => AllStand(d) /\ Status(o, d)' = Status(o, d)
    BY <1>1, StatusStays
<1>3. Rated(d)'
    BY <1>1, SameBatches
<1> QED BY <1>2, <1>3 DEF AuthorInv, AgreementOK

\* So do the joint outcomes.
LEMMA CarriedKeepsDecided ==
    ASSUME AuthorInv, Carried, UNCHANGED decided
    PROVE  DecidedOK'
<1> SUFFICES ASSUME NEW b \in AuditBatches, decided[b] # None, NEW o \in Outcomes, NEW d \in InBatch(b)
             PROVE  /\ Rated(d)'
                    /\ AllStand(d)' /\ Status(o, d)' \in Unanimous => decided[b][o][d] = Status(o, d)'
    BY SameBatches DEF DecidedOK
<1>1. Rated(d) /\ d \in AuditCases
    BY SameBatches DEF AuthorInv, DecidedOK
<1>2. AllStand(d)' => AllStand(d) /\ Status(o, d)' = Status(o, d)
    BY <1>1, StatusStays
<1>3. Rated(d)'
    BY <1>1, SameBatches
<1> QED BY <1>2, <1>3 DEF AuthorInv, DecidedOK

\* The batches are drawn before there is any page.
LEMMA FreezeKeepsAuthorInv ==
    ASSUME AuthorInv, FreezeBatches
    PROVE  AuthorInv'
<1>1. /\ batchOf = None /\ batchOf' \in [AuditCases -> AuditBatches]
      /\ UNCHANGED <<exported, answers, locked, downloads, agreement, joint, decided>>
    BY DEF FreezeBatches
<1>2. /\ locked = {} /\ agreement = None
      /\ \A f \in Authors \X AuditBatches : downloads[f] = <<>>
      /\ \A b \in AuditBatches : joint[b] = None /\ decided[b] = None
    BY <1>1 DEF AuthorInv, PagesOK
<1>3. PagesOK'
    BY <1>1 DEF AuthorInv, PagesOK
<1>5. JointOK' /\ AgreementOK' /\ DecidedOK'
    BY <1>1, <1>2 DEF JointOK, AgreementOK, DecidedOK
<1> QED
    BY <1>3, <1>5 DEF AuthorInv

\* Exporting a batch keeps the invariant.
LEMMA ExportKeepsAuthorInv ==
    ASSUME AuthorInv, NEW b \in AuditBatches, ExportBatch(b)
    PROVE  AuthorInv'
<1>1. /\ batchOf # None /\ exported' = exported \cup {b}
      /\ UNCHANGED <<batchOf, answers, locked, downloads, agreement, joint, decided>>
    BY DEF ExportBatch
<1>2. Carried
    BY <1>1, SameFilesCarry
<1>3. PagesOK'
    BY <1>1 DEF AuthorInv, PagesOK
<1> QED
    BY <1>1, <1>2, <1>3, CarriedKeepsJoint, CarriedKeepsAgreement, CarriedKeepsDecided DEF AuthorInv

\* An answer changes no file.
LEMMA AnswerKeepsAuthorInv ==
    ASSUME AuthorInv, NEW a \in Authors, NEW d \in AuditCases, Answer(a, d)
    PROVE  AuthorInv'
<1>1. /\ batchOf # None /\ <<a, batchOf[d]>> \notin locked
      /\ UNCHANGED <<batchOf, exported, locked, downloads, agreement, joint, decided>>
    BY DEF Answer
<1>2. PICK r \in AuthorRatings : answers' = [answers EXCEPT ![a][d] = r]
    BY DEF Answer
<1>4. Carried
    BY <1>1, SameFilesCarry
<1>5. answers \in [Authors -> [AuditCases -> AuthorRatings \cup {None}]]
    BY DEF AuthorInv, PagesOK
<1>6. PagesOK'
    BY <1>1, <1>2, <1>5 DEF AuthorInv, PagesOK
<1> QED
    BY <1>1, <1>4, <1>6, CarriedKeepsJoint, CarriedKeepsAgreement, CarriedKeepsDecided DEF AuthorInv

\* A file more takes no rating away, and replaces none of a case that is settled with it.
LEMMA FilesGrow ==
    ASSUME NEW a, NEW d, NEW S, NEW old \in Seq(S), NEW new \in S,
           FilesOf(a, d) = old, FilesOf(a, d)' = Append(old, new), RatingOf(a, d) # None
    PROVE  /\ RatingOf(a, d)' # None
           /\ Stands(a, d)' => Stands(a, d) /\ RatingOf(a, d)' = RatingOf(a, d)
<1> DEFINE n == Len(old)
           more == Append(old, new)
           H == Holding(a, d)
           I == {i \in 1 .. n + 1 : more[i][d] # None}
<1>1. /\ n \in Nat /\ DOMAIN old = 1 .. n /\ DOMAIN more = 1 .. n + 1
      /\ more[n + 1] = new /\ \A i \in 1 .. n : more[i] = old[i]
    OBVIOUS
<1> HIDE DEF n, more
<1>2. Holding(a, d) = {i \in 1 .. n : old[i][d] # None} /\ Holding(a, d)' = I
    BY <1>1 DEF Holding, more
<1>3. H \subseteq I /\ \A i \in H : i \in 1 .. n /\ more[i][d] = old[i][d] /\ old[i][d] # None
    BY <1>1, <1>2
<1>4. /\ 1 \in H => RatingOf(a, d) = old[1][d]
      /\ \E i \in H : RatingOf(a, d) = old[i][d]
    BY <1>1, RatingIs
<1>5. /\ 1 \in I => RatingOf(a, d)' = more[1][d]
      /\ I # {} => \E i \in I : RatingOf(a, d)' = more[i][d]
    <2> DEFINE k == Max(I)
    <2>1. RatingOf(a, d)' = IF I = {} THEN None ELSE more[IF 1 \in I THEN 1 ELSE k][d]
        BY <1>2 DEF RatingOf, more
    <2>2. I # {} => k \in I
        <3>1. I \in SUBSET (1 .. n + 1) /\ n + 1 \in Nat
            BY <1>1
        <3> HIDE DEF I
        <3> QED BY <3>1, GreatestNumber
    <2> HIDE DEF k, I
    <2> QED BY <2>1, <2>2
<1>6. RatingOf(a, d)' # None
    BY <1>3, <1>4, <1>5
<1>7. 1 \in I => 1 \in H
    BY <1>1, <1>2, <1>3, <1>4
<1>8. Stands(a, d)' <=> 1 \in I \/ \A i, j \in I : more[i][d] = more[j][d]
    BY <1>2 DEF Stands, more
<1>9. Stands(a, d) <=> 1 \in H \/ \A i, j \in H : old[i][d] = old[j][d]
    BY DEF Stands
<1>10. CASE 1 \in I
    BY <1>1, <1>3, <1>4, <1>5, <1>6, <1>7, <1>9, <1>10
<1>11. CASE 1 \notin I /\ \A i, j \in I : more[i][d] = more[j][d]
    <2>1. \A i, j \in H : old[i][d] = old[j][d]
        BY <1>3, <1>11
    <2>2. PICK i \in H : RatingOf(a, d) = old[i][d]
        BY <1>4
    <2>3. PICK j \in I : RatingOf(a, d)' = more[j][d]
        BY <1>3, <1>4, <1>5
    <2>4. more[j][d] = more[i][d] /\ more[i][d] = old[i][d]
        BY <1>3, <1>11, <2>2, <2>3
    <2> QED BY <1>6, <1>9, <2>1, <2>2, <2>3, <2>4
<1> QED BY <1>6, <1>8, <1>10, <1>11

\* A download adds a file.
LEMMA DownloadKeepsAuthorInv ==
    ASSUME AuthorInv, NEW a \in Authors, NEW b \in AuditBatches, NEW final \in BOOLEAN,
           Download(a, b, final)
    PROVE  AuthorInv'
<1> DEFINE S == [AuditCases -> AuthorRatings \cup {None}]
           old == downloads[<<a, b>>]
           new == answers[a]
<1>1. /\ b \in exported /\ UNCHANGED <<batchOf, exported, answers, agreement, joint, decided>>
      /\ downloads' = [downloads EXCEPT ![<<a, b>>] = Append(old, new)]
    BY DEF Download
<1>2. batchOf # None /\ batchOf \in [AuditCases -> AuditBatches]
    BY <1>1 DEF AuthorInv, PagesOK
<1>3. /\ downloads \in [Authors \X AuditBatches -> Seq(S)] /\ answers \in [Authors -> S]
    BY DEF AuthorInv, PagesOK, RatingFiles
<1>4. old \in Seq(S) /\ new \in S
    BY <1>3
<1>5. Append(old, new) \in Seq(S)
    BY <1>4
<1>6. \A c \in Authors, e \in AuditBatches :
          downloads'[<<c, e>>] = IF <<c, e>> = <<a, b>> THEN Append(old, new) ELSE downloads[<<c, e>>]
    BY <1>1, <1>3
<1> HIDE DEF old, new, S
<1>7. PagesOK'
    <2>1. downloads' \in [Authors \X AuditBatches -> Seq(S)]
        BY <1>1, <1>3, <1>5
    <2> QED
        BY <1>1, <1>2, <2>1 DEF AuthorInv, PagesOK, S, RatingFiles
<1>8. ASSUME NEW c \in Authors, NEW d \in AuditCases, RatingOf(c, d) # None
      PROVE  /\ RatingOf(c, d)' # None
             /\ Stands(c, d)' => Stands(c, d) /\ RatingOf(c, d)' = RatingOf(c, d)
    <2>1. batchOf[d] \in AuditBatches /\ batchOf' = batchOf
        BY <1>1, <1>2
    <2>2. CASE <<c, batchOf[d]>> # <<a, b>>
        <3>1. FilesOf(c, d)' = FilesOf(c, d)
            BY <1>6, <2>1, <2>2 DEF FilesOf
        <3>2. Holding(c, d)' = Holding(c, d)
            BY <3>1 DEF Holding
        <3> QED BY <1>8, <3>1, <3>2 DEF RatingOf, Stands
    <2>3. CASE <<c, batchOf[d]>> = <<a, b>>
        <3>1. FilesOf(c, d) = old /\ FilesOf(c, d)' = Append(old, new)
            BY <1>6, <2>1, <2>3 DEF FilesOf, old
        <3> QED BY <1>4, <1>8, <3>1, FilesGrow
    <2> QED BY <2>2, <2>3
<1>9. Carried
    BY <1>1, <1>8 DEF Carried
<1> QED
    BY <1>1, <1>7, <1>9, CarriedKeepsJoint, CarriedKeepsAgreement, CarriedKeepsDecided DEF AuthorInv

\* collect reports what the files say.
LEMMA CollectKeepsAuthorInv ==
    ASSUME AuthorInv, CollectRatings
    PROVE  AuthorInv'
<1> DEFINE cases == {d \in AuditCases : RatedBy(d) # {}}
<1>1. /\ batchOf # None /\ UNCHANGED <<batchOf, exported, answers, locked, downloads, joint, decided>>
      /\ agreement' = Analysis(cases)
    BY DEF CollectRatings
<1>2. Carried /\ \A o, d : Status(o, d)' = Status(o, d)
    BY <1>1, SameFilesCarry
<1>4. PagesOK'
    BY <1>1 DEF AuthorInv, PagesOK
<1>6. AgreementOK'
    <2> SUFFICES ASSUME NEW o \in Outcomes, NEW d \in DOMAIN agreement'.outcomes[o] \cap AuditCases
                 PROVE  /\ d \in agreement'.lower[o] \/ d \notin agreement'.upper[o] => Rated(d)'
                        /\ d \in agreement'.lower[o] => Status(o, d)' = "unanimous_positive"
                        /\ d \notin agreement'.upper[o] => Status(o, d)' = "unanimous_negative"
        BY DEF AgreementOK
    <2>2. d \in cases
        BY <1>1 DEF Analysis
    <2>3. d \in agreement'.lower[o] => Status(o, d) = "unanimous_positive"
        BY <1>1 DEF Analysis
    <2>4. d \notin agreement'.upper[o] => Status(o, d) = "unanimous_negative"
        BY <1>1, <2>2 DEF Analysis
    <2>5. Status(o, d) \in Unanimous => Rated(d)'
        BY <1>2, UnanimousIsRated, SameBatches
    <2> QED
        BY <1>2, <2>3, <2>4, <2>5 DEF Unanimous
<1> QED
    BY <1>1, <1>2, <1>4, <1>6, CarriedKeepsJoint, CarriedKeepsDecided DEF AuthorInv

\* A joint page is made when all have rated the batch.
LEMMA JointKeepsAuthorInv ==
    ASSUME AuthorInv, NEW b \in AuditBatches, JointPage(b)
    PROVE  AuthorInv'
<1>1. /\ batchOf # None /\ \A d \in InBatch(b) : RatedBy(d) = Authors
      /\ UNCHANGED <<batchOf, exported, answers, locked, downloads, agreement, decided>>
      /\ \E page_ : joint' = [joint EXCEPT ![b] = page_]
    BY DEF JointPage
<1>2. Carried
    BY <1>1, SameFilesCarry
<1>3. \A c : InBatch(c)' = InBatch(c) /\ InBatch(c) \subseteq AuditCases
    BY <1>2, SameBatches
<1>4. PagesOK'
    BY <1>1 DEF AuthorInv, PagesOK
<1>6. JointOK'
    <2> SUFFICES ASSUME NEW c \in AuditBatches, joint'[c] # None, NEW d \in InBatch(c)
                 PROVE  Rated(d)'
        BY <1>3 DEF JointOK
    <2>1. Rated(d)
        BY <1>1 DEF RatedBy, AuthorInv, JointOK, PagesOK, Rated
    <2> QED
        BY <1>2, <1>3, <2>1, SameBatches
<1> QED
    BY <1>1, <1>2, <1>4, <1>6, CarriedKeepsAgreement, CarriedKeepsDecided DEF AuthorInv

\* The decisions leave what is unanimous alone.
LEMMA AdjudicatedKeepsAuthorInv ==
    ASSUME AuthorInv, NEW b \in AuditBatches, Adjudicated(b)
    PROVE  AuthorInv'
<1>1. /\ joint[b] # None
      /\ UNCHANGED <<batchOf, exported, answers, locked, downloads, agreement, joint>>
    BY DEF Adjudicated
<1>2. PICK decisions : decided' = [decided EXCEPT ![b] = AdjudicatedOutcomes(b, decisions)]
    BY DEF Adjudicated
<1>3. /\ Carried
      /\ \A a, d : Stands(a, d)' = Stands(a, d) /\ RatingOf(a, d)' = RatingOf(a, d)
      /\ \A o, d : Status(o, d)' = Status(o, d)
    BY <1>1, SameFilesCarry
<1>4. \A c : InBatch(c)' = InBatch(c)
    BY <1>3, SameBatches
<1>5. PagesOK'
    BY <1>1, <1>2 DEF AuthorInv, PagesOK
<1>7. DecidedOK'
    <2> SUFFICES ASSUME NEW c \in AuditBatches, decided'[c] # None, NEW o \in Outcomes, NEW d \in InBatch(c)
                 PROVE  /\ Rated(d)
                        /\ AllStand(d) /\ Status(o, d) \in Unanimous => decided'[c][o][d] = Status(o, d)
        BY <1>3, <1>4 DEF DecidedOK, Rated, AllStand
    <2>1. CASE c # b
        <3>1. decided'[c] = decided[c]
            BY <1>2, <2>1 DEF AuthorInv, PagesOK
        <3> QED
            BY <3>1 DEF AuthorInv, DecidedOK
    <2>2. CASE c = b
        <3>1. decided'[b] = [p \in Outcomes |-> [e \in InBatch(b) |-> AdjudicatedStatus(p, e, decisions)]]
            BY <1>2 DEF AuthorInv, PagesOK, AdjudicatedOutcomes
        <3>2. Rated(d)
            BY <1>1, <2>2 DEF AuthorInv, JointOK
        <3>3. decided'[b][o][d] = AdjudicatedStatus(o, d, decisions)
            BY <2>2, <3>1
        <3>4. Status(o, d) \in Unanimous => AdjudicatedStatus(o, d, decisions) = Status(o, d)
            BY DEF AdjudicatedStatus, Final, Unanimous
        <3> QED
            BY <2>2, <3>2, <3>3, <3>4
    <2> QED
        BY <2>1, <2>2
<1> QED
    BY <1>1, <1>3, <1>5, <1>7, CarriedKeepsJoint, CarriedKeepsAgreement DEF AuthorInv

\* Every step keeps the invariant.
LEMMA AuthorInvNext ==
    ASSUME AuthorInv, [AuthorNext]_authorVars
    PROVE  AuthorInv'
<1>1. CASE FreezeBatches
    BY <1>1, FreezeKeepsAuthorInv
<1>2. CASE \E b \in AuditBatches : ExportBatch(b) \/ JointPage(b) \/ Adjudicated(b)
    BY <1>2, ExportKeepsAuthorInv, JointKeepsAuthorInv, AdjudicatedKeepsAuthorInv
<1>3. CASE \E a \in Authors : \E d \in AuditCases : Answer(a, d)
    BY <1>3, AnswerKeepsAuthorInv
<1>4. CASE \E a \in Authors, b \in AuditBatches, final \in BOOLEAN : Download(a, b, final)
    BY <1>4, DownloadKeepsAuthorInv
<1>5. CASE CollectRatings
    BY <1>5, CollectKeepsAuthorInv
<1>6. CASE UNCHANGED authorVars
    <2>1. UNCHANGED <<batchOf, exported, answers, locked, downloads, agreement, joint, decided>>
        BY <1>6 DEF authorVars
    <2>2. Carried
        BY <2>1, SameFilesCarry
    <2>3. PagesOK'
        BY <2>1 DEF AuthorInv, PagesOK
    <2> QED
        BY <2>1, <2>2, <2>3, CarriedKeepsJoint, CarriedKeepsAgreement, CarriedKeepsDecided DEF AuthorInv
<1> QED
    BY <1>1, <1>2, <1>3, <1>4, <1>5, <1>6 DEF AuthorNext

\* Whatever is saved, locked, collected and decided in whichever order, for any authors, cases
\* and batches: what the report says all authors found, and what all ruled out, the joint
\* discussion keeps, whichever files came between the two, for every case that no further
\* file can change.
THEOREM AdjudicationKeepsUnanimity ==
    AuthorSpec => []AdjudicationStaysWithinBounds
<1>1. AuthorInit => AuthorInv
    BY AuthorInvInit
<1>2. AuthorInv /\ [AuthorNext]_authorVars => AuthorInv'
    BY AuthorInvNext
<1>3. AuthorInv => AdjudicationStaysWithinBounds
    <2> SUFFICES ASSUME AuthorInv, NEW b \in AuditBatches, agreement # None, decided[b] # None,
                        NEW o \in Outcomes, NEW d \in DOMAIN agreement.outcomes[o] \cap InBatch(b),
                        AllStand(d)
                 PROVE  /\ d \in agreement.lower[o] => decided[b][o][d] \in Positive
                        /\ d \notin agreement.upper[o] => decided[b][o][d] \in Negative
        BY DEF AdjudicationStaysWithinBounds, AllStand
    <2>1. d \in AuditCases
        BY DEF InBatch
    <2>2. Status(o, d) \in Unanimous => decided[b][o][d] = Status(o, d)
        BY DEF AuthorInv, DecidedOK
    <2> QED BY <2>1, <2>2 DEF AuthorInv, AgreementOK, Unanimous, Positive, Negative
<1> QED
    BY <1>1, <1>2, <1>3, PTL DEF AuthorSpec

\* Pages are locked and downloaded as often as they can be, and what is decided has a status.
AuthorValues ==
    /\ locked \subseteq Authors \X AuditBatches
    /\ \A f \in DOMAIN downloads : Len(downloads[f]) <= MaxDownloads
    /\ rulings # None => DOMAIN rulings \subseteq AuditCases \X Questions
    /\ \A b \in AuditBatches : decided[b] # None =>
          \A o \in Outcomes : Range(decided[b][o]) \subseteq
              Final \cup {"unresolved", "adjudicated_positive", "adjudicated_negative"}

\* What the decisions make of a case.
LEMMA AdjudicatedStatusIs ==
    ASSUME NEW o, NEW d, NEW decisions
    PROVE  AdjudicatedStatus(o, d, decisions) \in
               Final \cup {"unresolved", "adjudicated_positive", "adjudicated_negative"}
BY DEF AdjudicatedStatus, Rejudged

\* Every step keeps these values.
LEMMA AuthorValuesNext ==
    ASSUME AuthorAssumption, AuthorInv, AuthorValues, [AuthorNext]_authorVars
    PROVE  AuthorValues'
<1>1. CASE UNCHANGED <<locked, downloads, rulings, decided>>
    BY <1>1 DEF AuthorValues
<1>2. CASE FreezeBatches
    BY <1>1, <1>2 DEF FreezeBatches
<1>3. ASSUME NEW b \in AuditBatches, ExportBatch(b) PROVE AuthorValues'
    BY <1>1, <1>3 DEF ExportBatch
<1>4. ASSUME NEW b \in AuditBatches, JointPage(b) PROVE AuthorValues'
    BY <1>1, <1>4 DEF JointPage
<1>5. ASSUME NEW a \in Authors, NEW d \in AuditCases, Answer(a, d) PROVE AuthorValues'
    BY <1>1, <1>5 DEF Answer
<1>6. CASE UNCHANGED authorVars
    BY <1>1, <1>6 DEF authorVars
<1>7. ASSUME NEW a \in Authors, NEW b \in AuditBatches, NEW final \in BOOLEAN, Download(a, b, final)
      PROVE  AuthorValues'
    <2>1. /\ Len(downloads[<<a, b>>]) < MaxDownloads /\ UNCHANGED <<rulings, decided>>
          /\ locked' = locked \/ locked' = locked \cup {<<a, b>>}
        BY <1>7 DEF Download
    <2>2. PICK new : downloads' = [downloads EXCEPT ![<<a, b>>] = Append(@, new)]
        BY <1>7 DEF Download
    <2>3. downloads \in [Authors \X AuditBatches -> RatingFiles]
        BY DEF AuthorInv, PagesOK
    <2>4. Len(Append(downloads[<<a, b>>], new)) <= MaxDownloads
        <3>1. PICK S : downloads[<<a, b>>] \in Seq(S)
            BY <2>3 DEF RatingFiles
        <3>2. Len(Append(downloads[<<a, b>>], new)) = Len(downloads[<<a, b>>]) + 1
            BY <3>1
        <3>3. Len(downloads[<<a, b>>]) \in Nat
            BY <3>1
        <3> QED BY <2>1, <3>2, <3>3 DEF AuthorAssumption
    <2>5. \A f \in DOMAIN downloads' : Len(downloads'[f]) <= MaxDownloads
        BY <2>2, <2>4 DEF AuthorValues
    <2> QED BY <2>1, <2>5 DEF AuthorValues
<1>8. CASE CollectRatings
    <2>1. UNCHANGED <<locked, downloads, decided>>
        BY <1>8 DEF CollectRatings
    <2>2. DOMAIN rulings' \subseteq AuditCases \X Questions
        <3> DEFINE cases == {d \in AuditCases : RatedBy(d) # {}}
                   dis == Analysis(cases).disagreements
                   open == UNION {{d} \X dis[d] : d \in DOMAIN dis}
        <3>1. rulings' = [p \in open |-> None]
            BY <1>8 DEF CollectRatings
        <3>2. dis = [d \in {c \in cases : RatedBy(c) = Authors} |-> Listed(d)]
            BY DEF Analysis
        <3>3. ASSUME NEW d \in DOMAIN dis PROVE d \in AuditCases /\ dis[d] \subseteq Questions
            BY <3>2 DEF Listed
        <3> HIDE DEF dis
        <3>4. open \subseteq AuditCases \X Questions
            BY <3>3
        <3> QED BY <3>1, <3>4
    <2> QED BY <2>1, <2>2 DEF AuthorValues
<1>9. ASSUME NEW b \in AuditBatches, Adjudicated(b) PROVE AuthorValues'
    <2>1. UNCHANGED <<locked, downloads>>
        BY <1>9 DEF Adjudicated
    <2>2. PICK decisions : decided' = [decided EXCEPT ![b] = AdjudicatedOutcomes(b, decisions)]
        BY <1>9 DEF Adjudicated
    <2>3. rulings' # None => DOMAIN rulings' \subseteq AuditCases \X Questions
        <3>1. rulings = None => rulings' = None
            BY <1>9 DEF Adjudicated
        <3>2. rulings # None => DOMAIN rulings' = DOMAIN rulings
            BY <1>9 DEF Adjudicated
        <3> QED BY <3>1, <3>2 DEF AuthorValues
    <2>4. ASSUME NEW o \in Outcomes
          PROVE  Range(AdjudicatedOutcomes(b, decisions)[o]) \subseteq
                     Final \cup {"unresolved", "adjudicated_positive", "adjudicated_negative"}
        <3>1. AdjudicatedOutcomes(b, decisions)[o] =
                  [d \in InBatch(b) |-> AdjudicatedStatus(o, d, decisions)]
            BY DEF AdjudicatedOutcomes
        <3> QED BY <3>1, AdjudicatedStatusIs DEF Range
    <2>5. decided = [c \in AuditBatches |-> decided[c]]
        BY DEF AuthorInv, PagesOK
    <2> HIDE DEF AdjudicatedOutcomes
    <2>6. ASSUME NEW c \in AuditBatches, decided'[c] # None, NEW o \in Outcomes
          PROVE  Range(decided'[c][o]) \subseteq
                     Final \cup {"unresolved", "adjudicated_positive", "adjudicated_negative"}
        <3>1. decided'[c] = IF c = b THEN AdjudicatedOutcomes(b, decisions) ELSE decided[c]
            BY <2>2, <2>5
        <3> QED BY <2>4, <2>6, <3>1 DEF AuthorValues
    <2> QED BY <2>1, <2>3, <2>6 DEF AuthorValues
<1> QED BY <1>2, <1>3, <1>4, <1>5, <1>6, <1>7, <1>8, <1>9 DEF AuthorNext

\* The batches, pages, files, reports and decisions of the authors' audit have the values they
\* may, whatever is saved, locked and decided in whichever order.
THEOREM AuthorTypes ==
    ASSUME AuthorAssumption
    PROVE  AuthorSpec => []AuthorTypeOK
<1>1. AuthorInit => AuthorInv /\ AuthorValues
    BY AuthorInvInit DEF AuthorInit, AuthorValues, AuthorAssumption
<1>2. AuthorInv /\ AuthorValues /\ [AuthorNext]_authorVars => (AuthorInv /\ AuthorValues)'
    BY AuthorInvNext, AuthorValuesNext
<1>3. AuthorInv /\ AuthorValues => AuthorTypeOK
    BY DEF AuthorInv, PagesOK, AuthorValues, AuthorTypeOK
<1> QED BY <1>1, <1>2, <1>3, PTL DEF AuthorSpec

----------------------------------------------------------------------------
(* The audit of the grounding check.  Sums of what the keys weigh. *)

\* As many things as the numbers w add up to over s.
Copies(w, s) == UNION {{x} \X (1 .. w[x]) : x \in s}

\* Sums of one, of none, and of two sets without common elements.
LEMMA CopiesAre ==
    ASSUME NEW S, IsFiniteSet(S), NEW w \in [S -> Nat]
    PROVE  /\ IsFiniteSet(Copies(w, S)) /\ Cardinality(Copies(w, S)) \in Nat
           /\ Copies(w, {}) = {}
           /\ \A x \in S : IsFiniteSet(Copies(w, {x})) /\ Cardinality(Copies(w, {x})) = w[x]
<1>1. ASSUME NEW x \in S
      PROVE  /\ Copies(w, {x}) = {x} \X (1 .. w[x])
             /\ IsFiniteSet({x} \X (1 .. w[x])) /\ Cardinality({x} \X (1 .. w[x])) = w[x]
    <2>1. Copies(w, {x}) = {x} \X (1 .. w[x])
        BY DEF Copies
    <2>2. w[x] \in Nat
        OBVIOUS
    <2>3. IsFiniteSet(1 .. w[x]) /\ Cardinality(1 .. w[x]) = w[x]
        BY <2>2, FS_Interval
    <2>4. IsFiniteSet({x}) /\ Cardinality({x}) = 1
        BY FS_Singleton
    <2>5. /\ IsFiniteSet({x} \X (1 .. w[x]))
          /\ Cardinality({x} \X (1 .. w[x])) = Cardinality({x}) * Cardinality(1 .. w[x])
        BY <2>3, <2>4, FS_Product, Zenon
    <2>6. Cardinality({x} \X (1 .. w[x])) = 1 * w[x]
        BY <2>3, <2>4, <2>5, Zenon
    <2>7. 1 * w[x] = w[x]
        BY <2>2
    <2> QED BY <2>1, <2>5, <2>6, <2>7, Zenon
<1>2. IsFiniteSet(Copies(w, S))
    <2> DEFINE blocks == {{x} \X (1 .. w[x]) : x \in S}
    <2>1. IsFiniteSet(blocks)
        <3> DEFINE f == [x \in S |-> {x} \X (1 .. w[x])]
        <3>1. f \in Surjection(S, blocks)
            BY DEF Surjection
        <3> QED BY <3>1, FS_Surjection
    <2>2. \A b \in blocks : IsFiniteSet(b)
        BY <1>1
    <2> HIDE DEF blocks
    <2>3. IsFiniteSet(UNION blocks)
        BY <2>1, <2>2, FS_UNION
    <2> QED BY <2>3 DEF Copies, blocks
<1>3. Cardinality(Copies(w, S)) \in Nat
    BY <1>2, FS_CardinalityType
<1>4. Copies(w, {}) = {}
    BY DEF Copies
<1> QED BY <1>1, <1>2, <1>3, <1>4

LEMMA CopiesOfBoth ==
    ASSUME NEW S, IsFiniteSet(S), NEW w \in [S -> Nat], NEW s \in SUBSET S, NEW t \in SUBSET S, s \cap t = {}
    PROVE  /\ Cardinality(Copies(w, s)) \in Nat /\ Cardinality(Copies(w, t)) \in Nat
           /\ Cardinality(Copies(w, s \cup t)) = Cardinality(Copies(w, s)) + Cardinality(Copies(w, t))
<1>1. IsFiniteSet(Copies(w, S))
    BY CopiesAre
<1>2. Copies(w, s) \subseteq Copies(w, S) /\ Copies(w, t) \subseteq Copies(w, S)
    BY DEF Copies
<1>3. Copies(w, s \cup t) = Copies(w, s) \cup Copies(w, t) /\ Copies(w, s) \cap Copies(w, t) = {}
    BY DEF Copies
<1>4. IsFiniteSet(Copies(w, s)) /\ IsFiniteSet(Copies(w, t))
    BY <1>1, <1>2, FS_Subset
<1>5. Cardinality(Copies(w, s)) \in Nat /\ Cardinality(Copies(w, t)) \in Nat /\ Cardinality({}) = 0
    BY <1>4, FS_CardinalityType, FS_EmptySet
<1>6. Cardinality(Copies(w, s) \cup Copies(w, t))
          = Cardinality(Copies(w, s)) + Cardinality(Copies(w, t)) - Cardinality(Copies(w, s) \cap Copies(w, t))
    BY <1>4, FS_Union, Zenon
<1>7. Cardinality(Copies(w, s \cup t)) = Cardinality(Copies(w, s)) + Cardinality(Copies(w, t)) - 0
    BY <1>3, <1>5, <1>6, Zenon
<1> QED BY <1>5, <1>7

\* The recursion by which a set is summed up: h is a solution of it.
Sums(h, w, S) ==
    h = [s \in SUBSET S |->
            IF s = {} THEN 0 ELSE LET x == CHOOSE y \in s : TRUE IN w[x] + h[s \ {x}]]

LEMMA SumExists ==
    ASSUME NEW S, IsFiniteSet(S), NEW w \in [S -> Nat]
    PROVE  \E h : Sums(h, w, S)
<1> DEFINE h == [s \in SUBSET S |-> Cardinality(Copies(w, s))]
<1>1. ASSUME NEW s \in SUBSET S, s # {}, NEW x \in s
      PROVE  h[s] = w[x] + h[s \ {x}]
    <2>1. {x} \in SUBSET S /\ s \ {x} \in SUBSET S /\ {x} \cap (s \ {x}) = {} /\ {x} \cup (s \ {x}) = s
        BY <1>1
    <2>2. Cardinality(Copies(w, s)) = Cardinality(Copies(w, {x})) + Cardinality(Copies(w, s \ {x}))
        BY <2>1, CopiesOfBoth
    <2>3. Cardinality(Copies(w, {x})) = w[x]
        BY CopiesAre
    <2> QED BY <2>1, <2>2, <2>3
<1>2. h[{}] = 0
    BY CopiesAre, FS_EmptySet
<1>3. ASSUME NEW s \in SUBSET S
      PROVE  h[s] = IF s = {} THEN 0 ELSE LET x == CHOOSE y \in s : TRUE IN w[x] + h[s \ {x}]
    <2>1. CASE s = {}
        BY <1>2, <2>1
    <2>2. CASE s # {}
        <3>1. (CHOOSE y \in s : TRUE) \in s
            BY <2>2
        <3> HIDE DEF h
        <3> QED BY <1>1, <2>2, <3>1
    <2> QED BY <2>1, <2>2
<1>4. h = [s \in SUBSET S |-> h[s]]
    OBVIOUS
<1> HIDE DEF h
<1>5. Sums(h, w, S)
    BY <1>3, <1>4 DEF Sums
<1> QED BY <1>5

LEMMA SumIs ==
    ASSUME NEW S, IsFiniteSet(S), NEW w \in [S -> Nat], NEW h, Sums(h, w, S)
    PROVE  h[S] = Cardinality(Copies(w, S))
<1> DEFINE n == Cardinality(S)
           Good == {k \in 0 .. n : \A s \in SUBSET S : Cardinality(s) = k => h[s] = Cardinality(Copies(w, s))}
<1>1. n \in Nat /\ \A s \in SUBSET S : IsFiniteSet(s) /\ Cardinality(s) \in Nat
    BY FS_CardinalityType, FS_Subset
<1>2. h[{}] = 0 /\ Cardinality(Copies(w, {})) = 0
    BY CopiesAre, FS_EmptySet DEF Sums
<1>3. 0 \in Good
    <2>1. ASSUME NEW s \in SUBSET S, Cardinality(s) = 0 PROVE s = {}
        BY <1>1, <2>1, FS_EmptySet
    <2> QED BY <1>1, <1>2, <2>1
<1>4. ASSUME NEW k \in 1 .. n, k - 1 \in Good PROVE k \in Good
    <2>1. ASSUME NEW s \in SUBSET S, Cardinality(s) = k PROVE h[s] = Cardinality(Copies(w, s))
        <3> DEFINE x == CHOOSE y \in s : TRUE
        <3>1. s # {}
            BY <2>1, FS_EmptySet
        <3>2. x \in s
            BY <3>1
        <3>3. h[s] = w[x] + h[s \ {x}]
            BY <3>1 DEF Sums
        <3> HIDE DEF x
        <3>4. Cardinality(s \ {x}) = k - 1 /\ s \ {x} \in SUBSET S
            BY <1>1, <2>1, <3>2, FS_RemoveElement
        <3>5. h[s \ {x}] = Cardinality(Copies(w, s \ {x}))
            BY <1>4, <3>4
        <3>6. {x} \in SUBSET S /\ {x} \cap (s \ {x}) = {} /\ {x} \cup (s \ {x}) = s
            BY <3>2
        <3>7. Cardinality(Copies(w, s)) = Cardinality(Copies(w, {x})) + Cardinality(Copies(w, s \ {x}))
            BY <3>4, <3>6, CopiesOfBoth
        <3>8. Cardinality(Copies(w, {x})) = w[x]
            BY <3>2, CopiesAre
        <3> QED BY <3>3, <3>5, <3>7, <3>8
    <2> QED BY <2>1
<1> HIDE DEF Good
<1>5. \A k \in 0 .. n : k \in Good
    BY <1>1, <1>3, <1>4, CountingUp
<1>6. n \in Good
    BY <1>1, <1>5
<1> QED BY <1>6 DEF Good

\* As many as there are, counted kind by kind.
LEMMA SumOfKinds ==
    ASSUME NEW K, IsFiniteSet(K), NEW X, IsFiniteSet(X), NEW f \in [X -> K],
           NEW w, w = [k \in K |-> Cardinality({x \in X : f[x] = k})]
    PROVE  w \in [K -> Nat] /\ Cardinality(Copies(w, K)) = Cardinality(X)
<1> DEFINE of(k) == {x \in X : f[x] = k}
<1>1. ASSUME NEW k \in K
      PROVE  IsFiniteSet(of(k)) /\ w[k] = Cardinality(of(k)) /\ w[k] \in Nat /\ ExistsBijection(of(k), 1 .. w[k])
    <2>1. of(k) \in SUBSET X
        OBVIOUS
    <2>2. IsFiniteSet(of(k)) /\ w[k] = Cardinality(of(k)) /\ w[k] \in Nat
        BY <2>1, FS_Subset, FS_CardinalityType
    <2>3. IsFiniteSet(1 .. w[k]) /\ Cardinality(1 .. w[k]) = w[k]
        BY <2>2, FS_Interval
    <2> HIDE DEF of
    <2> QED BY <2>2, <2>3, FS_SameCardinalityBij
<1> DEFINE b(k) == CHOOSE g : g \in Bijection(of(k), 1 .. w[k])
           h == [x \in X |-> <<f[x], b(f[x])[x]>>]
<1>2. ASSUME NEW k \in K PROVE b(k) \in Bijection(of(k), 1 .. w[k])
    BY <1>1 DEF ExistsBijection
<1>3. ASSUME NEW x \in X PROVE f[x] \in K /\ x \in of(f[x]) /\ h[x] \in Copies(w, K)
    <2>1. f[x] \in K /\ x \in of(f[x])
        OBVIOUS
    <2>2. b(f[x])[x] \in 1 .. w[f[x]]
        BY <1>2, <2>1 DEF Bijection, Injection
    <2>3. h[x] = <<f[x], b(f[x])[x]>>
        OBVIOUS
    <2> HIDE DEF b, of, h
    <2>4. h[x] \in Copies(w, K)
        BY <2>1, <2>2, <2>3 DEF Copies
    <2> QED BY <2>1, <2>4
<1>4. ASSUME NEW x \in X, NEW y \in X, h[x] = h[y] PROVE x = y
    <2>1. f[x] = f[y] /\ b(f[x])[x] = b(f[x])[y]
        <3>1. h[x] = <<f[x], b(f[x])[x]>> /\ h[y] = <<f[y], b(f[y])[y]>>
            OBVIOUS
        <3> HIDE DEF b, of, h
        <3>2. <<f[x], b(f[x])[x]>> = <<f[y], b(f[y])[y]>>
            BY <1>4, <3>1, Zenon
        <3>3. f[x] = f[y] /\ b(f[x])[x] = b(f[y])[y]
            BY <3>2
        <3>4. b(f[x]) = b(f[y])
            BY <3>3, Zenon
        <3> QED BY <3>3, <3>4, Zenon
    <2>2. x \in of(f[x]) /\ y \in of(f[x])
        BY <2>1
    <2>3. b(f[x]) \in Injection(of(f[x]), 1 .. w[f[x]])
        BY <1>2, <1>3 DEF Bijection
    <2> HIDE DEF b, of
    <2> QED BY <2>1, <2>2, <2>3 DEF Injection, IsInjective
<1>5. ASSUME NEW e \in Copies(w, K) PROVE \E x \in X : h[x] = e
    <2>1. PICK k \in K : e \in {k} \X (1 .. w[k])
        BY DEF Copies
    <2>2. PICK i \in 1 .. w[k] : e = <<k, i>>
        BY <2>1
    <2>3. PICK x \in of(k) : b(k)[x] = i
        BY <1>2 DEF Bijection, Surjection
    <2> QED BY <2>2, <2>3
<1>6. h \in Bijection(X, Copies(w, K))
    <2>1. h \in [X -> Copies(w, K)]
        BY <1>3
    <2> HIDE DEF h
    <2> QED BY <1>4, <1>5, <2>1 DEF Bijection, Injection, Surjection, IsInjective
<1>7. w \in [K -> Nat]
    BY <1>1
<1> HIDE DEF h
<1>8. ExistsBijection(X, Copies(w, K))
    BY <1>6 DEF ExistsBijection
<1> QED BY <1>7, <1>8, FS_Bijection

\* A sum of numbers that are the values of a function.
LEMMA ValuesAre ==
    ASSUME NEW S, IsFiniteSet(S), NEW w \in [S -> Nat]
    PROVE  MapThenSumSet(LAMBDA k : w[k], S) = Cardinality(Copies(w, S))
<1> DEFINE it == CHOOSE h : Sums(h, w, S)
<1>1. MapThenSumSet(LAMBDA k : w[k], S) = it[S]
    BY DEF MapThenSumSet, MapThenFoldSet, Sums
<1>2. PICK h : Sums(h, w, S)
    BY SumExists
<1>3. Sums(it, w, S)
    BY <1>2
<1> HIDE DEF it
<1> QED BY <1>1, <1>3, SumIs

\* The same of the bands and the members of a report.
LEMMA ReportSumsAre ==
    ASSUME NEW r, r.bands \in [0 .. 3 -> Nat], r.perMember \in [MemberSet -> Nat], IsFiniteSet(MemberSet)
    PROVE  /\ MapThenSumSet(LAMBDA b : r.bands[b], 0 .. 3) = Cardinality(Copies(r.bands, 0 .. 3))
           /\ MapThenSumSet(LAMBDA m : r.perMember[m], MemberSet) = Cardinality(Copies(r.perMember, MemberSet))
<1>1. IsFiniteSet(0 .. 3)
    <2>1. 0 \in Int /\ 3 \in Int
        OBVIOUS
    <2> QED BY <2>1, FS_Interval, Zenon
<1>2. ASSUME NEW w \in [0 .. 3 -> Nat]
      PROVE  MapThenSumSet(LAMBDA b : w[b], 0 .. 3) = Cardinality(Copies(w, 0 .. 3))
    BY <1>1, ValuesAre
<1> QED BY <1>1, ValuesAre

----------------------------------------------------------------------------
(* The weights *)

LEMMA NearestIsNear ==
    ASSUME NEW a \in Nat, NEW b \in Nat \ {0}
    PROVE  2 * (a - Nearest(a, b) * b) \in - b .. b
<1> DEFINE q == a \div b
           r == a % b
<1>1. q \in Nat /\ r \in 0 .. b - 1 /\ a = b * q + r
    BY SMT
<1>2. q * b = b * q /\ (q + 1) * b = b * q + b /\ b * q \in Nat
    BY <1>1, SMT
<1>3. CASE 2 * r > b \/ (2 * r = b /\ q % 2 = 1)
    <2>1. Nearest(a, b) = q + 1
        BY <1>3 DEF Nearest
    <2> HIDE DEF q, r
    <2>2. Nearest(a, b) * b = b * q + b
        BY <1>2, <2>1
    <2>3. PICK x \in Nat : x = b * q
        BY <1>2
    <2> QED BY <1>1, <1>3, <2>2, <2>3
<1>4. CASE ~ (2 * r > b \/ (2 * r = b /\ q % 2 = 1))
    <2>1. Nearest(a, b) = q
        BY <1>4 DEF Nearest
    <2>2. 2 * r <= b
        BY <1>1, <1>4
    <2> HIDE DEF q, r
    <2>3. Nearest(a, b) * b = b * q
        BY <1>2, <2>1
    <2>4. PICK x \in Nat : x = b * q
        BY <1>2
    <2> QED BY <1>1, <2>2, <2>3, <2>4
<1> QED BY <1>3, <1>4

Doubtful(rows, m) == {i \in Mine(rows, m) : Disagree(rows[i])}

Agreeing(rows, m) == Mine(rows, m) \ Doubtful(rows, m)

\* The key's rows of member m: the doubtful claims and a sample of the others, if there are any.
IsWeighted(rows, m, ws) ==
    \E s \in SUBSET Agreeing(rows, m) :
        /\ ws = Weighted(rows, m, s)
        /\ s = {} => Agreeing(rows, m) = {}

\* What the rows of member m stand for.
StandForAll(rows, m, ws) ==
    LET doubtful == {w \in ws : w.stratum = "disagree"}
        sampled == {w \in ws : w.stratum = "agree"}
        agreed == Cardinality(Mine(rows, m)) - Cardinality(doubtful)
    IN  /\ \A w \in doubtful : w.p = Certain
        /\ agreed > 0 => sampled # {}
        /\ \A w \in sampled : 2 * (Certain * Cardinality(sampled) - w.p * agreed) \in - agreed .. agreed

\* One row of the key for each of I.
LEMMA ClaimRowsOf ==
    ASSUME NEW I, IsFiniteSet(I), NEW t, NEW p
    PROVE  IsFiniteSet({KeyRow(i, t, p) : i \in I}) /\ Cardinality({KeyRow(i, t, p) : i \in I}) = Cardinality(I)
<1> DEFINE f == [i \in I |-> KeyRow(i, t, p)]
           R == {KeyRow(i, t, p) : i \in I}
<1>1. f \in [I -> R] /\ (\A x \in R : \E i \in I : f[i] = x) /\ \A i \in I : f[i] = KeyRow(i, t, p)
    OBVIOUS
<1>2. \A i \in I : f[i].row = i
    BY <1>1 DEF KeyRow
<1> HIDE DEF f, R
<1>3. \A i, j \in I : f[i] = f[j] => i = j
    BY <1>2
<1>4. f \in Bijection(I, R)
    BY <1>1, <1>3 DEF Bijection, Injection, Surjection, IsInjective
<1>5. ExistsBijection(I, R)
    BY <1>4 DEF ExistsBijection
<1> QED BY <1>5, FS_Bijection DEF R

LEMMA KeyRows ==
    ASSUME NEW rows, NEW m, NEW s \in SUBSET Agreeing(rows, m)
    PROVE  Weighted(rows, m, s) =
               {KeyRow(i, "disagree", Certain) : i \in Doubtful(rows, m)} \cup
               {KeyRow(i, "agree", Nearest(Certain * Cardinality(s), Cardinality(Agreeing(rows, m)))) : i \in s}
<1> DEFINE A == {i \in Mine(rows, m) : ~ Disagree(rows[i])}
<1>1. A = Agreeing(rows, m) /\ Mine(rows, m) \ A = Doubtful(rows, m)
    BY DEF Agreeing, Doubtful
<1>2. Weighted(rows, m, s) = {KeyRow(i, "disagree", Certain) : i \in Mine(rows, m) \ A} \cup
                             {KeyRow(i, "agree", Nearest(Certain * Cardinality(s), Cardinality(A))) : i \in s}
    BY DEF Weighted
<1> HIDE DEF A
<1> QED BY <1>1, <1>2

LEMMA WeightsStandForAll ==
    ASSUME NEW rows, IsFiniteSet(DOMAIN rows), NEW m, NEW ws, IsWeighted(rows, m, ws)
    PROVE  IsFiniteSet(ws) /\ StandForAll(rows, m, ws)
<1> DEFINE D == Doubtful(rows, m)
           A == Agreeing(rows, m)
           a == Cardinality(A)
<1>1. PICK s \in SUBSET A : ws = Weighted(rows, m, s) /\ (s = {} => A = {})
    BY DEF IsWeighted
<1> DEFINE n == Cardinality(s)
           p == Nearest(Certain * n, a)
           DD == {KeyRow(i, "disagree", Certain) : i \in D}
           AA == {KeyRow(i, "agree", p) : i \in s}
<1>2. ws = DD \cup AA
    BY <1>1, KeyRows
<1>3. IsFiniteSet(D) /\ IsFiniteSet(A) /\ IsFiniteSet(s) /\ Cardinality(D) \in Nat /\ a \in Nat /\ n \in Nat
      /\ Cardinality(Mine(rows, m)) = Cardinality(D) + a /\ (a = 0 => A = {})
    <2>1. Mine(rows, m) \subseteq DOMAIN rows /\ D \subseteq Mine(rows, m) /\ A \subseteq Mine(rows, m)
          /\ D \cap A = {} /\ D \cup A = Mine(rows, m)
        BY DEF Mine, Doubtful, Agreeing
    <2>2. IsFiniteSet(Mine(rows, m))
        BY <2>1, FS_Subset
    <2>3. IsFiniteSet(D) /\ IsFiniteSet(A)
        BY <2>1, <2>2, FS_Subset
    <2>4. IsFiniteSet(s)
        BY <2>3, FS_Subset
    <2>5. Cardinality(D \cup A) = Cardinality(D) + Cardinality(A) - Cardinality(D \cap A)
        BY <2>3, FS_Union, Zenon
    <2>6. Cardinality(D) \in Nat /\ a \in Nat /\ n \in Nat /\ Cardinality(D \cap A) = 0 /\ (a = 0 => A = {})
        BY <2>1, <2>3, <2>4, FS_EmptySet, FS_CardinalityType
    <2> HIDE DEF D, A
    <2>7. Cardinality(Mine(rows, m)) = Cardinality(D) + a - 0
        BY <2>1, <2>5, <2>6, Zenon
    <2>8. Cardinality(Mine(rows, m)) = Cardinality(D) + a
        BY <2>6, <2>7
    <2> QED BY <2>3, <2>4, <2>6, <2>8, Zenon
<1>4. IsFiniteSet(DD) /\ Cardinality(DD) = Cardinality(D) /\ IsFiniteSet(AA) /\ Cardinality(AA) = n
    <2> HIDE DEF D, p
    <2> QED BY <1>3, ClaimRowsOf
<1>5. /\ \A x \in DD : x.stratum = "disagree" /\ x.p = Certain
      /\ \A x \in AA : x.stratum = "agree" /\ x.p = p
    BY DEF KeyRow
<1>6. s # {} => AA # {}
    OBVIOUS
<1> HIDE DEF DD, AA, D, A
<1>7. {w \in ws : w.stratum = "disagree"} = DD /\ {w \in ws : w.stratum = "agree"} = AA
    BY <1>2, <1>5
<1>8. Cardinality(Mine(rows, m)) - Cardinality(DD) = a
    BY <1>3, <1>4
<1>9. a > 0 => AA # {}
    <2>1. a > 0 => A # {}
        BY <1>3, FS_EmptySet
    <2> QED BY <1>1, <1>6, <2>1
<1>10. ASSUME NEW x \in AA PROVE 2 * (Certain * Cardinality(AA) - x.p * a) \in - a .. a
    <2>1. s # {}
        BY DEF AA
    <2>2. A # {}
        BY <2>1
    <2>3. a \in Nat \ {0}
        BY <1>3, <2>2
    <2>4. Certain * n \in Nat
        BY <1>3 DEF Certain
    <2>5. 2 * (Certain * n - Nearest(Certain * n, a) * a) \in - a .. a
        <3> HIDE DEF a, n
        <3> QED BY <2>3, <2>4, NearestIsNear
    <2>6. x.p = Nearest(Certain * n, a) /\ Cardinality(AA) = n
        BY <1>4, <1>5
    <2> HIDE DEF a, n, p
    <2> QED BY <2>5, <2>6, Zenon
<1>11. IsFiniteSet(ws)
    BY <1>2, <1>4, FS_Union
<1> HIDE DEF a
<1> QED BY <1>5, <1>7, <1>8, <1>9, <1>10, <1>11, Zenon DEF StandForAll

----------------------------------------------------------------------------
(* The key and the report *)

\* What check_claim's rows look like.
CheckedRows ==
    {[draft |-> d.id, step |-> c.step, text |-> c.text, support |-> c.support, llm |-> v] :
        d \in AuditedDrafts, c \in UNION {ToSet(e.claims) : e \in AuditedDrafts}, v \in BOOLEAN \cup {None}}

LEMMA RowIsChecked ==
    ASSUME GroundingAssumption, NEW r \in CheckedRows
    PROVE  r.support \in Nat /\ r.llm \in BOOLEAN \cup {None}
<1>1. PICK d \in AuditedDrafts, c \in UNION {ToSet(e.claims) : e \in AuditedDrafts}, v \in BOOLEAN \cup {None} :
          r = [draft |-> d.id, step |-> c.step, text |-> c.text, support |-> c.support, llm |-> v]
    BY DEF CheckedRows
<1>2. c.support \in 0 .. 10
    BY DEF GroundingAssumption
<1> QED BY <1>1, <1>2

LEMMA MembersAre ==
    /\ MemberSet = {"R", "A", "S"} /\ Len(Members) = 3 /\ IsFiniteSet(MemberSet)
    /\ \A i \in 1 .. 3 : Members[i] \in MemberSet
<1>1. DOMAIN Members = 1 .. 3 /\ Len(Members) = 3 /\ Members[1] = "R" /\ Members[2] = "A" /\ Members[3] = "S"
    BY DEF Members
<1>2. 1 .. 3 = {1, 2, 3}
    OBVIOUS
<1>3. MemberSet = {"R", "A", "S"}
    BY <1>1, <1>2 DEF MemberSet, ToSet
<1>4. IsFiniteSet({"R", "A", "S"})
    <2>1. IsFiniteSet({"R"})
        BY FS_Singleton
    <2>2. IsFiniteSet({"R"} \cup {"A"})
        BY <2>1, FS_AddElement
    <2>3. IsFiniteSet(({"R"} \cup {"A"}) \cup {"S"})
        BY <2>2, FS_AddElement
    <2>4. ({"R"} \cup {"A"}) \cup {"S"} = {"R", "A", "S"}
        OBVIOUS
    <2> QED BY <2>3, <2>4
<1> QED BY <1>1, <1>2, <1>3, <1>4

LEMMA MinIs ==
    ASSUME NEW s \in SUBSET Nat, s # {}
    PROVE  Min(s) \in s /\ \A x \in s : Min(s) <= x
<1>1. \E x \in s : \A y \in s : x <= y
    BY LeastNumber
<1> QED BY <1>1 DEF Min

\* The drafts of the rows before the n-th.
LEMMA EarlierDrafts ==
    ASSUME NEW R, NEW rows \in Seq(R), NEW n \in Nat
    PROVE  IsFiniteSet({rows[j].draft : j \in 1 .. n}) /\ Cardinality({rows[j].draft : j \in 1 .. n}) \in Nat
<1> DEFINE T == {rows[j].draft : j \in 1 .. n}
           f == [j \in 1 .. n |-> rows[j].draft]
<1>1. f \in Surjection(1 .. n, T)
    BY DEF Surjection
<1>2. IsFiniteSet(1 .. n)
    BY FS_Interval
<1> HIDE DEF T, f
<1>3. IsFiniteSet(T)
    BY <1>1, <1>2, FS_Surjection
<1>4. Cardinality(T) \in Nat
    BY <1>3, FS_CardinalityType
<1> QED BY <1>3, <1>4 DEF T

\* Every row has an owner.
LEMMA OwnerIs ==
    ASSUME NEW R, NEW rows \in Seq(R), NEW i \in DOMAIN rows
    PROVE  Owner(rows, rows[i].draft) \in MemberSet
<1> DEFINE same == {j \in DOMAIN rows : rows[j].draft = rows[i].draft}
           n == Min(same) - 1
           e == {rows[j].draft : j \in 1 .. n}
<1>1. DOMAIN rows = 1 .. Len(rows) /\ Len(rows) \in Nat
    OBVIOUS
<1>2. same \in SUBSET Nat /\ same # {} /\ same \subseteq 1 .. Len(rows)
    BY <1>1
<1>3. n \in Nat
    <2> HIDE DEF same
    <2>1. Min(same) \in same
        BY <1>2, MinIs
    <2>2. Min(same) \in 1 .. Len(rows)
        BY <1>2, <2>1
    <2> QED BY <1>1, <2>2
<1>4. Cardinality(e) \in Nat
    <2> HIDE DEF n
    <2> QED BY <1>3, EarlierDrafts
<1>5. Owner(rows, rows[i].draft) = Members[(Cardinality(e) % Len(Members)) + 1]
    BY DEF Owner
<1> HIDE DEF e
<1>6. (Cardinality(e) % 3) + 1 \in 1 .. 3
    BY <1>4
<1> QED BY <1>5, <1>6, MembersAre

KeyIsSound(k) ==
    k.from \in Seq(CheckedRows) /\ \A m \in MemberSet : IsWeighted(k.from, m, k.rows[m])

\* Every claim the checkers disagree on is in the key, and the weights stand for all of them.
LEMMA KeyCovers ==
    ASSUME GroundingAssumption, NEW k, KeyIsSound(k)
    PROVE  /\ \A i \in UsableRows(k.from) : Disagree(k.from[i]) => i \in Selected(k)
           /\ \A m \in MemberSet : IsFiniteSet(k.rows[m]) /\ StandForAll(k.from, m, k.rows[m])
<1>1. IsFiniteSet(DOMAIN k.from) /\ k.from \in Seq(CheckedRows)
    <2>1. DOMAIN k.from = 1 .. Len(k.from) /\ Len(k.from) \in Nat
        BY DEF KeyIsSound
    <2>2. IsFiniteSet(1 .. Len(k.from))
        BY <2>1, FS_Interval
    <2> QED BY <2>1, <2>2 DEF KeyIsSound
<1>2. ASSUME NEW i \in UsableRows(k.from), Disagree(k.from[i]) PROVE i \in Selected(k)
    <2>1. i \in DOMAIN k.from /\ k.from[i].llm # None
        BY DEF UsableRows
    <2>2. PICK m \in MemberSet : Owner(k.from, k.from[i].draft) = m
        BY <1>1, <2>1, OwnerIs
    <2>3. i \in Doubtful(k.from, m)
        BY <1>2, <2>1, <2>2 DEF Doubtful, Mine
    <2>4. IsWeighted(k.from, m, k.rows[m])
        BY DEF KeyIsSound
    <2>5. PICK s \in SUBSET Agreeing(k.from, m) : k.rows[m] = Weighted(k.from, m, s)
        BY <2>4 DEF IsWeighted
    <2>6. KeyRow(i, "disagree", Certain) \in k.rows[m]
        BY <2>3, <2>5, KeyRows
    <2>7. KeyRow(i, "disagree", Certain).row = i
        BY DEF KeyRow
    <2> QED BY <2>6, <2>7 DEF Selected
<1>3. ASSUME NEW m \in MemberSet
      PROVE  IsFiniteSet(k.rows[m]) /\ StandForAll(k.from, m, k.rows[m])
    <2>1. IsWeighted(k.from, m, k.rows[m])
        BY DEF KeyIsSound
    <2> QED BY <1>1, <2>1, WeightsStandForAll
<1> QED BY <1>2, <1>3

\* The labels joined to the key.
JoinedSoundly(xs) ==
    /\ IsFiniteSet(xs)
    /\ \A x \in xs :
          /\ x.member \in MemberSet
          /\ x.claim.support \in Nat
          /\ x.w.stratum = "disagree" => x.claim.llm \in BOOLEAN /\ Disagree(x.claim)

LEMMA JoinedIsSound ==
    ASSUME GroundingAssumption, KeyIsSound(key)
    PROVE  JoinedSoundly(Joined)
<1> DEFINE human(m, w) == LET c == ClaimOf(key.from[w.row])
                          IN  IF c \in DOMAIN sheets[m] THEN sheets[m][c] ELSE ""
           one(m, w) == [member |-> m, w |-> w, claim |-> key.from[w.row], human |-> human(m, w)]
           part(m) == {one(m, w) : w \in key.rows[m]}
<1>1. Joined = UNION {part(m) : m \in MemberSet}
    BY DEF Joined
<1>2. ASSUME NEW m \in MemberSet PROVE IsFiniteSet(part(m))
    <2> DEFINE f == [w \in key.rows[m] |-> one(m, w)]
    <2>1. f \in Surjection(key.rows[m], part(m))
        BY DEF Surjection
    <2>2. IsFiniteSet(key.rows[m])
        BY KeyCovers
    <2> HIDE DEF f, part
    <2> QED BY <2>1, <2>2, FS_Surjection
<1>3. IsFiniteSet(Joined)
    <2> DEFINE parts == {part(m) : m \in MemberSet}
               f == [m \in MemberSet |-> part(m)]
    <2>1. f \in Surjection(MemberSet, parts)
        BY DEF Surjection
    <2> HIDE DEF f
    <2>2. IsFiniteSet(parts)
        BY <2>1, MembersAre, FS_Surjection
    <2>3. \A p \in parts : IsFiniteSet(p)
        BY <1>2
    <2> HIDE DEF parts
    <2>4. IsFiniteSet(UNION parts)
        BY <2>2, <2>3, FS_UNION
    <2> QED BY <1>1, <2>4 DEF parts
<1>4. ASSUME NEW x \in Joined
      PROVE  /\ x.member \in MemberSet
             /\ x.claim.support \in Nat
             /\ x.w.stratum = "disagree" => x.claim.llm \in BOOLEAN /\ Disagree(x.claim)
    <2>0. PICK m \in MemberSet : x \in part(m)
        BY <1>1
    <2>1. PICK w \in key.rows[m] : x = one(m, w)
        BY <2>0
    <2>2. x.member = m /\ x.w = w /\ x.claim = key.from[w.row]
        BY <2>1
    <2> HIDE DEF one, human, part
    <2>3. PICK s \in SUBSET Agreeing(key.from, m) : key.rows[m] = Weighted(key.from, m, s)
        BY DEF KeyIsSound, IsWeighted
    <2>4. (\E i \in Doubtful(key.from, m) : w = KeyRow(i, "disagree", Certain)) \/
          (\E i \in s : \E p : w = KeyRow(i, "agree", p))
        BY <2>3, KeyRows
    <2>5. w.row \in Mine(key.from, m) /\ (w.stratum = "disagree" => w.row \in Doubtful(key.from, m))
        <3>1. CASE \E i \in Doubtful(key.from, m) : w = KeyRow(i, "disagree", Certain)
            BY <3>1 DEF Doubtful, KeyRow
        <3>2. CASE \E i \in s : \E p : w = KeyRow(i, "agree", p)
            BY <3>2 DEF Agreeing, KeyRow
        <3> QED BY <2>4, <3>1, <3>2
    <2>6. w.row \in DOMAIN key.from /\ key.from[w.row].llm # None /\ (w.stratum = "disagree" => Disagree(key.from[w.row]))
        BY <2>5 DEF Mine, Doubtful
    <2>7. key.from[w.row] \in CheckedRows
        <3>1. key.from \in Seq(CheckedRows)
            BY DEF KeyIsSound
        <3> QED BY <2>6, <3>1
    <2>8. key.from[w.row].support \in Nat /\ key.from[w.row].llm \in BOOLEAN
        BY <2>6, <2>7, RowIsChecked
    <2> QED BY <2>2, <2>6, <2>8
<1> QED BY <1>3, <1>4 DEF JoinedSoundly

\* The parts of a report.
ReportParts(r) ==
    /\ r.doubtful.nliRight + r.doubtful.llmRight = r.doubtful.n
    /\ r.doubtful.n + r.agreed.n = r.labelled - r.unclear
    /\ MapThenSumSet(LAMBDA b : r.bands[b], 0 .. 3) = r.labelled - r.unclear
    /\ MapThenSumSet(LAMBDA m : r.perMember[m], MemberSet) = r.labelled
    /\ r.nli.of = r.llm.of
    /\ r.nli.ofNo (+) r.nli.ofYes = r.nli.of

\* A set in two parts.
LEMMA TwoParts ==
    ASSUME NEW X, IsFiniteSet(X), NEW Y, NEW Z, Y \cup Z = X, Y \cap Z = {}
    PROVE  /\ Cardinality(X) \in Nat /\ Cardinality(Y) \in Nat /\ Cardinality(Z) \in Nat
           /\ Cardinality(Y) + Cardinality(Z) = Cardinality(X)
<1>1. IsFiniteSet(Y) /\ IsFiniteSet(Z)
    <2>1. Y \in SUBSET X /\ Z \in SUBSET X
        OBVIOUS
    <2> QED BY <2>1, FS_Subset
<1>2. Cardinality(X) \in Nat /\ Cardinality(Y) \in Nat /\ Cardinality(Z) \in Nat
    BY <1>1, FS_CardinalityType
<1>3. Cardinality(Y \cup Z) = Cardinality(Y) + Cardinality(Z) - Cardinality(Y \cap Z)
    BY <1>1, FS_Union, Zenon
<1>4. Cardinality(Y \cap Z) = 0
    BY FS_EmptySet
<1>5. Cardinality(X) = Cardinality(Y) + Cardinality(Z) - 0
    BY <1>3, <1>4, Zenon
<1> QED BY <1>2, <1>5

LEMMA BandIs ==
    ASSUME NEW n \in Nat
    PROVE  ReportBand(n) \in 0 .. 3
<1> DEFINE T == {cut \in {2, 5, 8} : n >= cut}
<1>1. IsFiniteSet({2, 5, 8}) /\ Cardinality({2, 5, 8}) = 3
    <2>1. IsFiniteSet({2}) /\ Cardinality({2}) = 1
        BY FS_Singleton
    <2>2. IsFiniteSet({2} \cup {5}) /\ Cardinality({2} \cup {5}) = 2
        BY <2>1, FS_AddElement
    <2>3. IsFiniteSet(({2} \cup {5}) \cup {8}) /\ Cardinality(({2} \cup {5}) \cup {8}) = 3
        BY <2>2, FS_AddElement
    <2>4. ({2} \cup {5}) \cup {8} = {2, 5, 8}
        OBVIOUS
    <2> QED BY <2>3, <2>4
<1>2. T \in SUBSET {2, 5, 8}
    OBVIOUS
<1> HIDE DEF T
<1>3. IsFiniteSet(T) /\ Cardinality(T) <= Cardinality({2, 5, 8})
    BY <1>1, <1>2, FS_Subset, Zenon
<1>4. Cardinality(T) \in 0 .. 3
    BY <1>1, <1>3, FS_CardinalityType
<1> QED BY <1>4 DEF T, ReportBand

\* The weights of two disjoint sets of labels.
LEMMA TotalWeightOfBoth ==
    ASSUME NEW Y, NEW Z, IsFiniteSet(Y \cup Z), Y \cap Z = {}
    PROVE  TotalWeight(Y) (+) TotalWeight(Z) = TotalWeight(Y \cup Z)
<1> DEFINE of(X, p) == {x \in X : x.w.p = p}
           ps(X) == {x.w.p : x \in X}
           f == TotalWeight(Y)
           g == TotalWeight(Z)
           h == TotalWeight(Y \cup Z)
<1>1. /\ f = [p \in ps(Y) |-> Cardinality(of(Y, p))] /\ g = [p \in ps(Z) |-> Cardinality(of(Z, p))]
      /\ h = [p \in ps(Y \cup Z) |-> Cardinality(of(Y \cup Z, p))]
    BY DEF TotalWeight
<1>2. ps(Y \cup Z) = ps(Y) \cup ps(Z)
    OBVIOUS
<1>3. ASSUME NEW p PROVE Cardinality(of(Y \cup Z, p)) = Cardinality(of(Y, p)) + Cardinality(of(Z, p))
                         /\ (p \notin ps(Y) => Cardinality(of(Y, p)) = 0)
                         /\ (p \notin ps(Z) => Cardinality(of(Z, p)) = 0)
    <2>1. of(Y \cup Z, p) = of(Y, p) \cup of(Z, p) /\ of(Y, p) \cap of(Z, p) = {}
        OBVIOUS
    <2>2. IsFiniteSet(of(Y \cup Z, p))
        <3>1. of(Y \cup Z, p) \in SUBSET (Y \cup Z)
            OBVIOUS
        <3> QED BY <3>1, FS_Subset
    <2>3. (p \notin ps(Y) => of(Y, p) = {}) /\ (p \notin ps(Z) => of(Z, p) = {})
        OBVIOUS
    <2> HIDE DEF of, ps
    <2>4. Cardinality(of(Y, p)) + Cardinality(of(Z, p)) = Cardinality(of(Y \cup Z, p))
        BY <2>1, <2>2, TwoParts
    <2> QED BY <2>3, <2>4, FS_EmptySet
<1>4. ASSUME NEW p \in ps(Y) \cup ps(Z)
      PROVE  (IF p \in DOMAIN f THEN f[p] ELSE 0) + (IF p \in DOMAIN g THEN g[p] ELSE 0) = h[p]
    <2>1. (IF p \in DOMAIN f THEN f[p] ELSE 0) = Cardinality(of(Y, p))
        <3> HIDE DEF of, ps, f
        <3> QED BY <1>1, <1>3
    <2>2. (IF p \in DOMAIN g THEN g[p] ELSE 0) = Cardinality(of(Z, p))
        <3> HIDE DEF of, ps, g
        <3> QED BY <1>1, <1>3
    <2>3. h[p] = Cardinality(of(Y \cup Z, p))
        <3> HIDE DEF of, ps, h
        <3> QED BY <1>1, <1>2
    <2> HIDE DEF of, ps, f, g, h
    <2> QED BY <1>3, <2>1, <2>2, <2>3, Zenon
<1>5. DOMAIN f = ps(Y) /\ DOMAIN g = ps(Z) /\ h = [p \in ps(Y) \cup ps(Z) |-> h[p]]
    <2> HIDE DEF of, ps, f, g, h
    <2> QED BY <1>1, <1>2
<1> HIDE DEF of, ps, f, g, h
<1>6. f (+) g = [p \in DOMAIN f \cup DOMAIN g |->
                    (IF p \in DOMAIN f THEN f[p] ELSE 0) + (IF p \in DOMAIN g THEN g[p] ELSE 0)]
    BY Zenon DEF (+)
<1>7. f (+) g = h
    BY <1>4, <1>5, <1>6
<1> QED BY <1>7 DEF f, g, h

\* Of two that disagree exactly one is right.
LEMMA OneIsRight ==
    ASSUME NEW n \in BOOLEAN, NEW l \in BOOLEAN, NEW h \in BOOLEAN, n # l
    PROVE  (n = h) # (l = h)
<1>1. CASE h = TRUE
    BY <1>1
<1>2. CASE h = FALSE
    BY <1>2
<1> QED BY <1>1, <1>2

LEMMA ReportAdds ==
    ASSUME NEW xs, JoinedSoundly(xs)
    PROVE  ReportParts(ReportOn(xs))
<1> DEFINE labelled == {x \in xs : x.human # ""}
           judged == {x \in labelled : x.human # "unclear"}
           doubtful == {x \in judged : x.w.stratum = "disagree"}
           agreed == judged \ doubtful
           nliRight == {x \in doubtful : NliSays(x) = HumanSays(x)}
           llmRight == {x \in doubtful : LlmSays(x) = HumanSays(x)}
           bands == [b \in 0 .. 3 |-> Cardinality({x \in judged : ReportBand(x.claim.support) = b})]
           perMember == [m \in MemberSet |-> Cardinality({x \in labelled : x.member = m})]
           wrong == {x \in judged : x.human = "not_supported"}
           right == {x \in judged : HumanSays(x)}
           r == ReportOn(xs)
<1>1. /\ r.labelled = Cardinality(labelled) /\ r.unclear = Cardinality(labelled) - Cardinality(judged)
      /\ r.doubtful.n = Cardinality(doubtful) /\ r.doubtful.nliRight = Cardinality(nliRight)
      /\ r.doubtful.llmRight = Cardinality(llmRight) /\ r.agreed.n = Cardinality(agreed)
      /\ r.bands = bands /\ r.perMember = perMember
    BY DEF ReportOn
<1>2. /\ r.nli.of = TotalWeight(right \cup wrong) /\ r.llm.of = TotalWeight(right \cup wrong)
      /\ r.nli.ofNo = TotalWeight(wrong) /\ r.nli.ofYes = TotalWeight(right)
    BY DEF ReportOn, CheckerScores
<1>3. labelled \subseteq xs /\ judged \subseteq labelled /\ doubtful \subseteq judged /\ right \cup wrong \subseteq judged
    OBVIOUS
<1>4. /\ IsFiniteSet(labelled) /\ IsFiniteSet(judged) /\ IsFiniteSet(doubtful) /\ IsFiniteSet(right \cup wrong)
      /\ Cardinality(labelled) \in Nat /\ Cardinality(judged) \in Nat
    <2>1. IsFiniteSet(xs)
        BY DEF JoinedSoundly
    <2> HIDE DEF labelled, judged, doubtful, right, wrong
    <2>2. IsFiniteSet(labelled)
        BY <1>3, <2>1, FS_Subset
    <2>3. IsFiniteSet(judged)
        BY <1>3, <2>2, FS_Subset
    <2>4. IsFiniteSet(doubtful) /\ IsFiniteSet(right \cup wrong)
        BY <1>3, <2>3, FS_Subset
    <2> QED BY <2>2, <2>3, <2>4, FS_CardinalityType
<1>5. Cardinality(nliRight) + Cardinality(llmRight) = Cardinality(doubtful)
    <2>0. \A x \in doubtful : x \in xs /\ x.w.stratum = "disagree"
        OBVIOUS
    <2> HIDE DEF doubtful
    <2>1. ASSUME NEW x \in doubtful PROVE (NliSays(x) = HumanSays(x)) # (LlmSays(x) = HumanSays(x))
        <3>1. x \in xs /\ x.w.stratum = "disagree"
            BY <2>0
        <3>2. x.claim.llm \in BOOLEAN /\ Disagree(x.claim)
            BY <3>1 DEF JoinedSoundly
        <3>3. (NliSays(x) = HumanSays(x)) \in BOOLEAN /\ (LlmSays(x) = HumanSays(x)) \in BOOLEAN
            OBVIOUS
        <3>4. NliSays(x) # LlmSays(x) /\ LlmSays(x) \in BOOLEAN
            BY <3>2 DEF Disagree, SaysSupported, NliSays, LlmSays
        <3>5. NliSays(x) \in BOOLEAN
            BY DEF NliSays
        <3>6. HumanSays(x) \in BOOLEAN
            BY DEF HumanSays
        <3> QED BY <3>4, <3>5, <3>6, OneIsRight
    <2>2. nliRight \cup llmRight = doubtful /\ nliRight \cap llmRight = {}
        BY <2>1
    <2> HIDE DEF nliRight, llmRight
    <2> QED BY <1>4, <2>2, TwoParts
<1>6. Cardinality(doubtful) + Cardinality(agreed) = Cardinality(judged)
    <2>1. doubtful \cup agreed = judged /\ doubtful \cap agreed = {}
        OBVIOUS
    <2> HIDE DEF doubtful, agreed, judged
    <2> QED BY <1>4, <2>1, TwoParts
<1>7. bands \in [0 .. 3 -> Nat] /\ Cardinality(Copies(bands, 0 .. 3)) = Cardinality(judged)
    <2> DEFINE f == [x \in judged |-> ReportBand(x.claim.support)]
    <2>1. \A x \in judged : ReportBand(x.claim.support) \in 0 .. 3
        BY BandIs DEF JoinedSoundly
    <2> HIDE DEF judged, doubtful, right, wrong, labelled
    <2>2. f \in [judged -> 0 .. 3] /\ \A x \in judged : f[x] = ReportBand(x.claim.support)
        BY <2>1
    <2> HIDE DEF f
    <2>3. bands = [b \in 0 .. 3 |-> Cardinality({x \in judged : f[x] = b})]
        <3>1. ASSUME NEW b PROVE {x \in judged : f[x] = b} = {x \in judged : ReportBand(x.claim.support) = b}
            BY <2>2
        <3> QED BY <3>1
    <2>4. IsFiniteSet(0 .. 3)
        <3>1. 0 \in Int /\ 3 \in Int
            OBVIOUS
        <3> QED BY <3>1, FS_Interval, Zenon
    <2>5. PICK K : K = 0 .. 3
        OBVIOUS
    <2> HIDE DEF bands
    <2>6. IsFiniteSet(K) /\ f \in [judged -> K] /\ bands = [b \in K |-> Cardinality({x \in judged : f[x] = b})]
        BY <2>2, <2>3, <2>4, <2>5
    <2>7. bands \in [K -> Nat] /\ Cardinality(Copies(bands, K)) = Cardinality(judged)
        BY <1>4, <2>6, SumOfKinds
    <2> QED BY <2>5, <2>7
<1>8. perMember \in [MemberSet -> Nat] /\ Cardinality(Copies(perMember, MemberSet)) = Cardinality(labelled)
    <2> DEFINE f == [x \in labelled |-> x.member]
    <2>1. \A x \in labelled : x.member \in MemberSet
        BY DEF JoinedSoundly
    <2> HIDE DEF labelled, judged, doubtful, right, wrong
    <2>2. f \in [labelled -> MemberSet] /\ \A x \in labelled : f[x] = x.member
        BY <2>1
    <2> HIDE DEF f
    <2>3. perMember = [m \in MemberSet |-> Cardinality({x \in labelled : f[x] = m})]
        <3>1. ASSUME NEW m PROVE {x \in labelled : f[x] = m} = {x \in labelled : x.member = m}
            BY <2>2
        <3> QED BY <3>1
    <2> HIDE DEF perMember
    <2>4. PICK K : K = MemberSet
        OBVIOUS
    <2>5. IsFiniteSet(K) /\ IsFiniteSet(labelled)
        BY <1>4, <2>4, MembersAre
    <2>6. f \in [labelled -> K] /\ perMember = [m \in K |-> Cardinality({x \in labelled : f[x] = m})]
        BY <2>2, <2>3, <2>4
    <2>7. perMember \in [K -> Nat] /\ Cardinality(Copies(perMember, K)) = Cardinality(labelled)
        BY <2>5, <2>6, SumOfKinds
    <2> QED BY <2>4, <2>7
<1>9. TotalWeight(wrong) (+) TotalWeight(right) = TotalWeight(right \cup wrong)
    <2>1. wrong \cap right = {} /\ right \cup wrong = wrong \cup right
        BY DEF HumanSays
    <2> HIDE DEF wrong, right
    <2> QED BY <1>4, <2>1, TotalWeightOfBoth
<1> HIDE DEF labelled, judged, doubtful, agreed, nliRight, llmRight, bands, perMember, wrong, right, r
<1>10. Cardinality(labelled) - (Cardinality(labelled) - Cardinality(judged)) = Cardinality(judged)
    BY <1>4
<1>11. /\ MapThenSumSet(LAMBDA b : r.bands[b], 0 .. 3) = Cardinality(judged)
       /\ MapThenSumSet(LAMBDA m : r.perMember[m], MemberSet) = Cardinality(labelled)
    BY <1>1, <1>7, <1>8, MembersAre, ReportSumsAre
<1>12. ReportParts(r)
    <2>1. r.doubtful.nliRight + r.doubtful.llmRight = r.doubtful.n
        BY <1>1, <1>5
    <2>2. r.doubtful.n + r.agreed.n = r.labelled - r.unclear
        BY <1>1, <1>6, <1>10
    <2>3. MapThenSumSet(LAMBDA b : r.bands[b], 0 .. 3) = r.labelled - r.unclear
        BY <1>1, <1>10, <1>11
    <2>4. r.nli.of = r.llm.of /\ r.nli.ofNo (+) r.nli.ofYes = r.nli.of
        BY <1>2, <1>9
    <2> QED BY <1>1, <1>11, <2>1, <2>2, <2>3, <2>4 DEF ReportParts
<1> QED BY <1>12 DEF r

----------------------------------------------------------------------------
(* The sample *)

AheadOf(T, t) == {u \in T : u[1] < t[1] \/ (u[1] = t[1] /\ u[2] < t[2])}

TurnOf(T, k) == CHOOSE t \in T : Cardinality(AheadOf(T, t)) = k - 1

\* Turns are numbered without gaps.
LEMMA TurnsAreNumbered ==
    ASSUME NEW T \in SUBSET (Nat \X Nat), IsFiniteSet(T)
    PROVE  /\ Cardinality(T) \in Nat
           /\ \A t \in T : /\ Cardinality(AheadOf(T, t)) + 1 \in 1 .. Cardinality(T)
                           /\ TurnOf(T, Cardinality(AheadOf(T, t)) + 1) = t
           /\ \A k \in 1 .. Cardinality(T) : TurnOf(T, k) \in T
           /\ \A k, l \in 1 .. Cardinality(T) : TurnOf(T, k) = TurnOf(T, l) => k = l
<1> DEFINE n == Cardinality(T)
           rank(t) == Cardinality(AheadOf(T, t))
<1>1. n \in Nat
    BY FS_CardinalityType
<1>2. ASSUME NEW t \in T
      PROVE  /\ AheadOf(T, t) \subseteq T /\ t \notin AheadOf(T, t)
             /\ IsFiniteSet(AheadOf(T, t)) /\ rank(t) \in 0 .. n - 1
    <2>1. t[1] \in Nat /\ t[2] \in Nat
        OBVIOUS
    <2>2. AheadOf(T, t) \in SUBSET T /\ t \notin AheadOf(T, t)
        BY <2>1 DEF AheadOf
    <2>3. IsFiniteSet(AheadOf(T, t)) /\ rank(t) <= n /\ (n = rank(t) => T = AheadOf(T, t))
        BY <2>2, FS_Subset
    <2>4. rank(t) \in Nat /\ rank(t) # n
        BY <2>2, <2>3, FS_CardinalityType
    <2> QED BY <1>1, <2>2, <2>3, <2>4
<1>3. ASSUME NEW t \in T, NEW u \in AheadOf(T, t) PROVE rank(u) < rank(t)
    <2>1. u \in T /\ u[1] \in Nat /\ u[2] \in Nat /\ t[1] \in Nat /\ t[2] \in Nat
        BY DEF AheadOf
    <2>2. AheadOf(T, u) \subseteq AheadOf(T, t)
        <3>1. ASSUME NEW v \in AheadOf(T, u) PROVE v \in AheadOf(T, t)
            <4>1. v \in T /\ v[1] \in Nat /\ v[2] \in Nat
                BY DEF AheadOf
            <4> QED BY <2>1, <4>1 DEF AheadOf
        <3> QED BY <3>1
    <2>3. u \notin AheadOf(T, u)
        BY <1>2, <2>1
    <2>4. rank(u) <= rank(t) /\ (rank(t) = rank(u) => AheadOf(T, t) = AheadOf(T, u))
        BY <1>2, <2>2, FS_Subset
    <2>5. rank(u) # rank(t)
        BY <2>3, <2>4
    <2> QED BY <1>2, <2>1, <2>4, <2>5
<1>4. ASSUME NEW t \in T, NEW u \in T, rank(t) = rank(u) PROVE t = u
    <2>1. t[1] \in Nat /\ t[2] \in Nat /\ u[1] \in Nat /\ u[2] \in Nat /\ t = <<t[1], t[2]>> /\ u = <<u[1], u[2]>>
        OBVIOUS
    <2>2. t \notin AheadOf(T, u) /\ u \notin AheadOf(T, t)
        BY <1>2, <1>3, <1>4
    <2>3. t[1] = u[1] /\ t[2] = u[2]
        BY <2>1, <2>2 DEF AheadOf
    <2> QED BY <2>1, <2>3
<1>5. ASSUME NEW k \in 1 .. n PROVE \E t \in T : rank(t) = k - 1
    <2> DEFINE f == [t \in T |-> rank(t)]
               R == 0 .. n - 1
    <2>1. f \in Injection(T, R)
        BY <1>2, <1>4 DEF Injection, IsInjective
    <2>2. IsFiniteSet(R) /\ Cardinality(R) = n
        <3>1. 0 \in Int /\ n - 1 \in Int
            BY <1>1
        <3>2. IsFiniteSet(R) /\ Cardinality(R) = IF 0 > n - 1 THEN 0 ELSE (n - 1) - 0 + 1
            BY <3>1, FS_Interval, Zenon
        <3> QED BY <1>1, <3>2
    <2>3. k - 1 \in R
        BY <1>1
    <2>4. \A t \in T : f[t] = rank(t)
        OBVIOUS
    <2> HIDE DEF f, R
    <2>5. f \in Surjection(T, R)
        BY <2>1, <2>2, FS_Injection
    <2> QED BY <2>3, <2>4, <2>5 DEF Surjection
<1>6. ASSUME NEW k \in 1 .. n PROVE TurnOf(T, k) \in T /\ rank(TurnOf(T, k)) = k - 1
    BY <1>5 DEF TurnOf
<1>7. ASSUME NEW t \in T PROVE rank(t) + 1 \in 1 .. n /\ TurnOf(T, rank(t) + 1) = t
    <2>1. rank(t) + 1 \in 1 .. n /\ (rank(t) + 1) - 1 = rank(t)
        BY <1>1, <1>2
    <2>2. TurnOf(T, rank(t) + 1) \in T /\ rank(TurnOf(T, rank(t) + 1)) = rank(t)
        BY <1>6, <2>1
    <2> QED BY <1>4, <2>1, <2>2
<1>8. ASSUME NEW k \in 1 .. n, NEW l \in 1 .. n, TurnOf(T, k) = TurnOf(T, l) PROVE k = l
    <2>1. k - 1 = l - 1
        BY <1>6, <1>8
    <2> QED BY <2>1
<1> QED BY <1>1, <1>6, <1>7, <1>8

\* A sequence of all of a set: of k of them, none twice, none left out.
LEMMA ListsAll ==
    ASSUME NEW S, IsFiniteSet(S), NEW o \in [1 .. Cardinality(S) -> S],
           \A i, j \in 1 .. Cardinality(S) : i # j => o[i] # o[j]
    PROVE  Cardinality(S) \in Nat /\ \A x \in S : \E i \in 1 .. Cardinality(S) : o[i] = x
<1>1. Cardinality(S) \in Nat
    BY FS_CardinalityType
<1>2. IsFiniteSet(1 .. Cardinality(S)) /\ Cardinality(1 .. Cardinality(S)) = Cardinality(S)
    BY <1>1, FS_Interval
<1>3. o \in Injection(1 .. Cardinality(S), S)
    BY DEF Injection, IsInjective
<1>4. o \in Surjection(1 .. Cardinality(S), S)
    BY <1>2, <1>3, FS_Injection
<1> QED BY <1>1, <1>4 DEF Surjection

\* SetToSeq lists a finite set.
LEMMA ListIs ==
    ASSUME NEW S, IsFiniteSet(S)
    PROVE  /\ SetToSeq(S) \in [1 .. Cardinality(S) -> S]
           /\ \A i, j \in 1 .. Cardinality(S) : i # j => SetToSeq(S)[i] # SetToSeq(S)[j]
<1>1. \E f \in [1 .. Cardinality(S) -> S] : IsInjective(f)
    BY FS_CardinalityType DEF ExistsBijection, Bijection, Injection
<1>2. SetToSeq(S) \in [1 .. Cardinality(S) -> S] /\ IsInjective(SetToSeq(S))
    BY <1>1 DEF SetToSeq
<1> QED BY <1>2 DEF IsInjective

SampleIsFair(smp) ==
    /\ smp \in Seq(Loaded) /\ Len(smp) <= NAudit
    /\ \A i, j \in DOMAIN smp : smp[i] = smp[j] => i = j
    /\ (smp # <<>> /\ NAudit >= Cardinality({Cell(d) : d \in Loaded})) =>
          \A d \in Loaded : \E e \in ToSet(smp) : Cell(e) = Cell(d)

LEMMA CellsAre ==
    ASSUME GroundingAssumption
    PROVE  /\ IsFiniteSet(Loaded) /\ Cardinality(Loaded) \in Nat
           /\ IsFiniteSet({Cell(d) : d \in Loaded}) /\ Cardinality({Cell(d) : d \in Loaded}) \in Nat
<1> DEFINE C == {Cell(d) : d \in Loaded}
           f == [d \in Loaded |-> Cell(d)]
<1>1. IsFiniteSet(Loaded)
    <2>1. Loaded \in SUBSET AuditedDrafts
        BY DEF Loaded
    <2> QED BY <2>1, FS_Subset DEF GroundingAssumption
<1>2. f \in Surjection(Loaded, C)
    BY DEF Surjection
<1> HIDE DEF f, C
<1>3. IsFiniteSet(C)
    BY <1>1, <1>2, FS_Surjection
<1>4. Cardinality(Loaded) \in Nat /\ Cardinality(C) \in Nat
    BY <1>1, <1>3, FS_CardinalityType
<1> QED BY <1>1, <1>3, <1>4 DEF C

\* What the queues hold: n cells, and every loaded draft in the queue of its cell.
QueuesHold(qs, cells, n) ==
    /\ DOMAIN qs = 1 .. n /\ n = Cardinality({Cell(d) : d \in Loaded})
    /\ \A i, j \in 1 .. n : cells[i] = cells[j] => i = j
    /\ \A d \in Loaded : \E i \in 1 .. n : cells[i] = Cell(d)
    /\ \A i \in 1 .. n :
          /\ Len(qs[i]) \in Nat /\ DOMAIN qs[i] = 1 .. Len(qs[i])
          /\ (\E d \in Loaded : Cell(d) = cells[i]) => Len(qs[i]) > 0
          /\ \A r \in 1 .. Len(qs[i]) : qs[i][r] \in Loaded /\ Cell(qs[i][r]) = cells[i]
          /\ \A r, s \in 1 .. Len(qs[i]) : qs[i][r] = qs[i][s] => r = s

LEMMA ShufflesAre ==
    ASSUME GroundingAssumption, NEW qs \in Shuffles
    PROVE  QueuesHold(qs, SetToSeq({Cell(d) : d \in Loaded}), Cardinality({Cell(d) : d \in Loaded}))
<1> DEFINE C == {Cell(d) : d \in Loaded}
           cells == SetToSeq(C)
           n == Cardinality(C)
           of(i) == {d \in Loaded : Cell(d) = cells[i]}
           orders(i) == SetToSeqs(of(i))
<1>1. IsFiniteSet(Loaded) /\ Cardinality(Loaded) \in Nat /\ IsFiniteSet(C) /\ n \in Nat
    BY CellsAre
<1>2. cells \in [1 .. n -> C] /\ \A i, j \in 1 .. n : i # j => cells[i] # cells[j]
    <2> HIDE DEF C
    <2> QED BY <1>1, ListIs
<1>3. \A c \in C : \E i \in 1 .. n : cells[i] = c
    <2> HIDE DEF C, cells
    <2> QED BY <1>1, <1>2, ListsAll
<1>4. qs \in [DOMAIN cells -> UNION {orders(i) : i \in DOMAIN cells}] /\ \A i \in DOMAIN cells : qs[i] \in orders(i)
    BY DEF Shuffles
<1>5. DOMAIN qs = 1 .. n /\ \A i \in 1 .. n : qs[i] \in orders(i)
    <2>1. DOMAIN cells = 1 .. n
        BY <1>2
    <2> HIDE DEF cells, orders, n
    <2> QED BY <1>4, <2>1
<1>6. ASSUME NEW d \in Loaded PROVE \E i \in 1 .. n : cells[i] = Cell(d)
    <2>1. Cell(d) \in C
        OBVIOUS
    <2> HIDE DEF C, cells, n
    <2> QED BY <1>3, <2>1
<1>7. ASSUME NEW i \in 1 .. n
      PROVE  /\ Len(qs[i]) \in Nat /\ DOMAIN qs[i] = 1 .. Len(qs[i])
             /\ (\E d \in Loaded : Cell(d) = cells[i]) => Len(qs[i]) > 0
             /\ \A r \in 1 .. Len(qs[i]) : qs[i][r] \in Loaded /\ Cell(qs[i][r]) = cells[i]
             /\ \A r, s \in 1 .. Len(qs[i]) : qs[i][r] = qs[i][s] => r = s
    <2> DEFINE k == Cardinality(of(i))
    <2>1. qs[i] \in orders(i)
        BY <1>5
    <2>2. of(i) \in SUBSET Loaded
        OBVIOUS
    <2>3. IsFiniteSet(of(i)) /\ k \in Nat /\ (k = 0 <=> of(i) = {})
        <3> HIDE DEF of
        <3> QED BY <1>1, <2>2, FS_Subset, FS_CardinalityType, FS_EmptySet
    <2>4. qs[i] \in [1 .. k -> of(i)] /\ \A r, s \in 1 .. k : r # s => qs[i][r] # qs[i][s]
        BY <2>1 DEF SetToSeqs
    <2>5. Len(qs[i]) = k /\ DOMAIN qs[i] = 1 .. k
        <3> HIDE DEF of, k
        <3>1. qs[i] \in Seq(of(i))
            BY <2>3, <2>4
        <3> QED BY <2>3, <2>4, <3>1
    <2>6. \A d \in of(i) : d \in Loaded /\ Cell(d) = cells[i]
        OBVIOUS
    <2>7. (\E d \in Loaded : Cell(d) = cells[i]) => of(i) # {}
        OBVIOUS
    <2> HIDE DEF of, k, cells, C, n
    <2>8. ASSUME NEW r \in 1 .. k PROVE qs[i][r] \in Loaded /\ Cell(qs[i][r]) = cells[i]
        <3>1. qs[i][r] \in of(i)
            BY <2>4
        <3> QED BY <2>6, <3>1
    <2> QED BY <2>3, <2>4, <2>5, <2>7, <2>8
<1> HIDE DEF cells, of
<1>8. QueuesHold(qs, cells, n)
    BY <1>2, <1>5, <1>6, <1>7 DEF QueuesHold
<1> QED BY <1>8 DEF cells

Turns(qs) == {t \in (1 .. Cardinality(Loaded)) \X DOMAIN qs : t[1] <= Len(qs[t[2]])}

LEMMA TurnsAre ==
    ASSUME GroundingAssumption, NEW qs, NEW cells, NEW n, QueuesHold(qs, cells, n)
    PROVE  /\ Turns(qs) \in SUBSET (Nat \X Nat) /\ IsFiniteSet(Turns(qs))
           /\ \A t \in Turns(qs) : t = <<t[1], t[2]>> /\ t[2] \in 1 .. n /\ t[1] \in 1 .. Len(qs[t[2]])
           /\ n \in Nat /\ Cardinality(Turns(qs)) \in Nat
<1> DEFINE L == Cardinality(Loaded)
<1>1. L \in Nat /\ n \in Nat /\ DOMAIN qs = 1 .. n
    BY CellsAre DEF QueuesHold
<1>2. Turns(qs) \subseteq (1 .. L) \X (1 .. n)
    BY <1>1 DEF Turns
<1>3. IsFiniteSet(1 .. L) /\ IsFiniteSet(1 .. n)
    BY <1>1, FS_Interval
<1>4. IsFiniteSet((1 .. L) \X (1 .. n))
    <2> HIDE DEF L
    <2> QED BY <1>3, FS_Product, Zenon
<1>5. IsFiniteSet(Turns(qs)) /\ Cardinality(Turns(qs)) \in Nat
    <2> HIDE DEF L
    <2> QED BY <1>2, <1>4, FS_Subset, FS_CardinalityType
<1>6. (1 .. L) \X (1 .. n) \subseteq Nat \X Nat
    BY <1>1
<1>7. ASSUME NEW t \in Turns(qs) PROVE t = <<t[1], t[2]>> /\ t[2] \in 1 .. n /\ t[1] \in 1 .. Len(qs[t[2]])
    <2>1. t \in (1 .. L) \X (1 .. n) /\ t[1] <= Len(qs[t[2]])
        BY <1>1 DEF Turns
    <2>2. t = <<t[1], t[2]>> /\ t[1] \in 1 .. L /\ t[2] \in 1 .. n
        BY <2>1
    <2>3. Len(qs[t[2]]) \in Nat
        BY <2>2 DEF QueuesHold
    <2> QED BY <1>1, <2>1, <2>2, <2>3
<1> QED BY <1>1, <1>2, <1>5, <1>6, <1>7

\* Every cell that has drafts is in a sample that has room for all cells.
LEMMA RoundRobinIsFair ==
    ASSUME GroundingAssumption, NEW qs \in Shuffles
    PROVE  SampleIsFair(RoundRobin(qs, NAudit))
<1> DEFINE cells == SetToSeq({Cell(d) : d \in Loaded})
           n == Cardinality({Cell(d) : d \in Loaded})
           T == Turns(qs)
           m == Smaller(NAudit, Cardinality(T))
           smp == RoundRobin(qs, NAudit)
           turn(k) == TurnOf(T, k)
<1>1. QueuesHold(qs, cells, n)
    BY ShufflesAre
<1>2. smp = [k \in 1 .. m |-> qs[turn(k)[2]][turn(k)[1]]]
    BY DEF RoundRobin, Turns, TurnOf, AheadOf
<1> HIDE DEF cells, n, T, smp
<1>3. /\ T \in SUBSET (Nat \X Nat) /\ IsFiniteSet(T)
      /\ \A t \in T : t = <<t[1], t[2]>> /\ t[2] \in 1 .. n /\ t[1] \in 1 .. Len(qs[t[2]])
      /\ n \in Nat /\ Cardinality(T) \in Nat
    BY <1>1, TurnsAre DEF T
<1>4. m \in Nat /\ m <= NAudit /\ m <= Cardinality(T) /\ (m = NAudit \/ m = Cardinality(T)) /\ NAudit \in Nat
    BY <1>3 DEF Smaller, GroundingAssumption
<1> HIDE DEF m
<1>5. ASSUME NEW k \in 1 .. m
      PROVE  /\ turn(k) \in T /\ smp[k] = qs[turn(k)[2]][turn(k)[1]]
             /\ turn(k)[2] \in 1 .. n /\ turn(k)[1] \in 1 .. Len(qs[turn(k)[2]]) /\ turn(k) = <<turn(k)[1], turn(k)[2]>>
             /\ smp[k] \in Loaded /\ Cell(smp[k]) = cells[turn(k)[2]]
    <2>1. k \in 1 .. Cardinality(T)
        BY <1>3, <1>4
    <2>2. turn(k) \in T
        BY <1>3, <2>1, TurnsAreNumbered
    <2>3. smp[k] = qs[turn(k)[2]][turn(k)[1]]
        BY <1>2
    <2>4. turn(k)[2] \in 1 .. n /\ turn(k)[1] \in 1 .. Len(qs[turn(k)[2]]) /\ turn(k) = <<turn(k)[1], turn(k)[2]>>
        BY <1>3, <2>2
    <2> HIDE DEF turn
    <2>5. smp[k] \in Loaded /\ Cell(smp[k]) = cells[turn(k)[2]]
        BY <1>1, <2>3, <2>4 DEF QueuesHold
    <2> QED BY <2>2, <2>3, <2>4, <2>5
<1>6. smp \in Seq(Loaded) /\ DOMAIN smp = 1 .. m /\ Len(smp) <= NAudit
    <2>1. DOMAIN smp = 1 .. m
        BY <1>2
    <2>2. smp \in [1 .. m -> Loaded]
        BY <1>2, <1>5
    <2>3. smp \in Seq(Loaded) /\ Len(smp) = m
        BY <1>4, <2>1, <2>2
    <2> QED BY <1>4, <2>1, <2>3
<1>7. ASSUME NEW k \in 1 .. m, NEW l \in 1 .. m, smp[k] = smp[l] PROVE k = l
    <2>1. turn(k)[2] = turn(l)[2]
        <3>1. cells[turn(k)[2]] = cells[turn(l)[2]] /\ turn(k)[2] \in 1 .. n /\ turn(l)[2] \in 1 .. n
            BY <1>5, <1>7
        <3> HIDE DEF turn
        <3> QED BY <1>1, <3>1 DEF QueuesHold
    <2>2. turn(k)[1] = turn(l)[1]
        <3>1. /\ qs[turn(k)[2]][turn(k)[1]] = qs[turn(k)[2]][turn(l)[1]] /\ turn(k)[2] \in 1 .. n
              /\ turn(k)[1] \in 1 .. Len(qs[turn(k)[2]]) /\ turn(l)[1] \in 1 .. Len(qs[turn(k)[2]])
            BY <1>5, <1>7, <2>1
        <3> HIDE DEF turn
        <3> QED BY <1>1, <3>1 DEF QueuesHold
    <2>3. turn(k) = turn(l)
        BY <1>5, <2>1, <2>2
    <2>4. k \in 1 .. Cardinality(T) /\ l \in 1 .. Cardinality(T)
        BY <1>3, <1>4
    <2> QED BY <1>3, <2>3, <2>4, TurnsAreNumbered
<1>8. ASSUME NAudit >= n, NEW d \in Loaded PROVE \E e \in ToSet(smp) : Cell(e) = Cell(d)
    <2>1. PICK i \in 1 .. n : cells[i] = Cell(d)
        BY <1>1 DEF QueuesHold
    <2>2. Len(qs[i]) \in Nat /\ Len(qs[i]) > 0
        BY <1>1, <2>1 DEF QueuesHold
    <2>3. 1 \in 1 .. Cardinality(Loaded)
        <3>1. Cardinality(Loaded) \in Nat /\ Cardinality(Loaded) # 0
            BY CellsAre, FS_EmptySet
        <3> QED BY <3>1
    <2> DEFINE t == <<1, i>>
    <2>4. t \in T /\ t[1] = 1 /\ t[2] = i
        <3>1. DOMAIN qs = 1 .. n
            BY <1>1 DEF QueuesHold
        <3> QED BY <2>2, <2>3, <3>1 DEF T, Turns
    <2> HIDE DEF t
    <2> DEFINE k == Cardinality(AheadOf(T, t)) + 1
    <2>5. k \in 1 .. Cardinality(T) /\ turn(k) = t
        BY <1>3, <2>4, TurnsAreNumbered
    <2>6. k <= n
        <3> DEFINE A == AheadOf(T, t)
                   f == [u \in A |-> u[2]]
        <3>1. ASSUME NEW u \in A PROVE u[1] = 1 /\ u[2] \in 1 .. i - 1 /\ u = <<u[1], u[2]>>
            <4>1. u \in T /\ (u[1] < 1 \/ (u[1] = 1 /\ u[2] < i))
                BY <2>4 DEF AheadOf
            <4>2. u = <<u[1], u[2]>> /\ u[2] \in 1 .. n /\ u[1] \in 1 .. Len(qs[u[2]])
                BY <1>3, <4>1
            <4>3. u[1] >= 1 /\ u[1] \in Int
                BY <4>2
            <4> QED BY <4>1, <4>2, <4>3
        <3> HIDE DEF A
        <3>2. f \in Injection(A, 1 .. i - 1)
            BY <3>1 DEF Injection, IsInjective
        <3> HIDE DEF f
        <3>3. IsFiniteSet(1 .. i - 1) /\ Cardinality(1 .. i - 1) = i - 1
            <4>1. 1 \in Int /\ i - 1 \in Int
                OBVIOUS
            <4>2. IsFiniteSet(1 .. i - 1) /\ Cardinality(1 .. i - 1) = IF 1 > i - 1 THEN 0 ELSE (i - 1) - 1 + 1
                BY <4>1, FS_Interval, Zenon
            <4> QED BY <4>2
        <3>4. IsFiniteSet(A) /\ Cardinality(A) <= i - 1
            BY <3>2, <3>3, FS_Injection
        <3>5. Cardinality(A) \in Nat
            BY <3>4, FS_CardinalityType
        <3>6. Cardinality(A) + 1 <= n
            BY <1>3, <3>4, <3>5
        <3> QED BY <3>6 DEF A
    <2>7. k \in 1 .. m
        BY <1>3, <1>4, <1>8, <2>5, <2>6
    <2> HIDE DEF k
    <2>8. smp[k] \in ToSet(smp) /\ Cell(smp[k]) = cells[i]
        BY <1>5, <1>6, <2>4, <2>5, <2>7 DEF ToSet
    <2> QED BY <2>1, <2>8
<1>9. SampleIsFair(smp)
    BY <1>6, <1>7, <1>8 DEF SampleIsFair, n
<1> QED BY <1>9 DEF smp

----------------------------------------------------------------------------
(* The checks, and the members they are dealt to *)

\* Blocks of rows put one after the other: g[k] is the first k of them.
Joins(g, R, bs) ==
    /\ g \in [0 .. Len(bs) -> Seq(R)]
    /\ g[0] = <<>>
    /\ \A k \in 1 .. Len(bs) : g[k] = g[k - 1] \o bs[k]

LEMMA FlattenJoins ==
    ASSUME NEW R, NEW bs \in Seq(Seq(R)), bs # <<>>
    PROVE  \E g : Joins(g, R, bs) /\ FlattenSeq(bs) = g[Len(bs)]
<1> DEFINE n == Len(bs)
           A == Seq(R)
           step == [x \in (1 .. n) \X A |-> x[2] \o bs[x[1]]]
           Next1(h, i) == IF i = 1 THEN bs[i] ELSE h[i - 1] \o bs[i]
           it == CHOOSE h : h = [i \in 1 .. n |-> Next1(h, i)]
<1>1. n \in Nat /\ n # 0 /\ \A k \in 1 .. n : bs[k] \in A
    OBVIOUS
<1>2. step \in Steps(A, n)
    <2>1. ASSUME NEW x \in (1 .. n) \X A PROVE x[2] \o bs[x[1]] \in A
        <3>1. x[2] \in A /\ bs[x[1]] \in A
            BY <1>1
        <3> QED BY <3>1
    <2> HIDE DEF A
    <2> QED BY <2>1 DEF Steps
<1>3. <<>> \in A
    OBVIOUS
<1>4. PICK g \in Iterations(A, n, <<>>, step) : TRUE
    <2> HIDE DEF step, A, n
    <2> QED BY <1>1, <1>2, <1>3, Iterates
<1>5. g \in [0 .. n -> A] /\ g[0] = <<>> /\ \A k \in 1 .. n : g[k] = g[k - 1] \o bs[k]
    <2>1. g \in [0 .. n -> A] /\ g[0] = <<>> /\ \A k \in 1 .. n : g[k] = step[<<k, g[k - 1]>>]
        BY DEF Iterations
    <2>2. ASSUME NEW k \in 1 .. n PROVE g[k] = g[k - 1] \o bs[k]
        <3>1. k - 1 \in 0 .. n
            OBVIOUS
        <3>2. <<k, g[k - 1]>> \in (1 .. n) \X A
            BY <2>1, <3>1
        <3> QED BY <2>1, <3>2
    <2> QED BY <2>1, <2>2
<1>6. g[1] = bs[1]
    <2>1. 1 \in 1 .. n /\ 1 - 1 = 0
        BY <1>1
    <2>2. g[1] = g[1 - 1] \o bs[1] /\ bs[1] \in A
        BY <1>1, <1>5, <2>1
    <2>3. g[1] = <<>> \o bs[1]
        BY <1>5, <2>1, <2>2
    <2> QED BY <2>2, <2>3
<1>7. FlattenSeq(bs) = it[n]
    BY <1>1 DEF FlattenSeq
<1> DEFINE h == [i \in 1 .. n |-> g[i]]
<1>8. ASSUME NEW i \in 1 .. n PROVE h[i] = Next1(h, i)
    <2>1. CASE i = 1
        BY <1>6, <2>1
    <2>2. CASE i # 1
        <3>1. i - 1 \in 1 .. n
            BY <2>2
        <3> QED BY <1>5, <2>2, <3>1
    <2> QED BY <2>1, <2>2
<1>9. h = [i \in 1 .. n |-> Next1(h, i)]
    <2> HIDE DEF Next1
    <2> QED BY <1>8
<1>10. it = [i \in 1 .. n |-> Next1(it, i)]
    <2> HIDE DEF Next1, h
    <2> QED BY <1>9
<1>11. \A k \in 0 .. n : k \in {j \in 0 .. n : j # 0 => it[j] = g[j]}
    <2> DEFINE Good == {j \in 0 .. n : j # 0 => it[j] = g[j]}
    <2>1. 0 \in Good
        BY <1>1
    <2>2. ASSUME NEW k \in 1 .. n, k - 1 \in Good PROVE k \in Good
        <3>1. it[k] = Next1(it, k)
            <4> HIDE DEF it, Next1
            <4> QED BY <1>10
        <3> HIDE DEF it
        <3>2. CASE k = 1
            BY <1>6, <3>1, <3>2
        <3>3. CASE k # 1
            <4>1. it[k] = it[k - 1] \o bs[k]
                BY <3>1, <3>3
            <4>2. k - 1 # 0 /\ it[k - 1] = g[k - 1]
                BY <2>2, <3>3
            <4>3. it[k] = g[k]
                BY <1>5, <4>1, <4>2
            <4> QED BY <4>3
        <3> QED BY <3>2, <3>3
    <2> HIDE DEF Good
    <2>3. \A k \in 0 .. n : k \in Good
        BY <1>1, <2>1, <2>2, CountingUp
    <2> QED BY <2>3 DEF Good
<1>12. it[n] = g[n]
    <2>1. n \in 0 .. n
        BY <1>1
    <2> HIDE DEF it
    <2> QED BY <1>1, <1>11, <2>1
<1>13. Joins(g, R, bs)
    BY <1>5 DEF Joins
<1> QED BY <1>7, <1>12, <1>13

LEMMA Within ==
    ASSUME NEW a \in Nat, NEW b \in Nat, a <= b
    PROVE  \A j \in 1 .. a : j \in 1 .. b
OBVIOUS

\* One more block: what was joined stays in front of it.
NextJoin(g, R, bs, k) ==
    /\ g[k] \in Seq(R) /\ g[k - 1] \in Seq(R) /\ bs[k] \in Seq(R)
    /\ Len(g[k]) \in Nat /\ Len(g[k - 1]) \in Nat /\ Len(bs[k]) \in Nat
    /\ Len(g[k]) = Len(g[k - 1]) + Len(bs[k])
    /\ \A j \in 1 .. Len(g[k - 1]) : g[k][j] = g[k - 1][j]
    /\ \A j \in 1 .. Len(bs[k]) : g[k][Len(g[k - 1]) + j] = bs[k][j]
    /\ \A j \in 1 .. Len(g[k]) : j \notin 1 .. Len(g[k - 1]) =>
           j - Len(g[k - 1]) \in 1 .. Len(bs[k]) /\ g[k][j] = bs[k][j - Len(g[k - 1])]

LEMMA JoinsNext ==
    ASSUME NEW R, NEW bs \in Seq(Seq(R)), NEW g, Joins(g, R, bs), NEW k \in 1 .. Len(bs)
    PROVE  NextJoin(g, R, bs, k)
<1>1. Len(bs) \in Nat /\ k \in Int
    OBVIOUS
<1>2. k \in 0 .. Len(bs) /\ k - 1 \in 0 .. Len(bs)
    BY <1>1
<1>3. g \in [0 .. Len(bs) -> Seq(R)] /\ g[k] = g[k - 1] \o bs[k]
    BY DEF Joins
<1>4. g[k] \in Seq(R) /\ g[k - 1] \in Seq(R)
    BY <1>2, <1>3
<1>5. bs[k] \in Seq(R)
    OBVIOUS
<1>6. ASSUME NEW a \in Seq(R), NEW b \in Seq(R)
      PROVE  /\ Len(a) \in Nat /\ Len(b) \in Nat /\ Len(a \o b) = Len(a) + Len(b)
             /\ \A j \in 1 .. Len(a) : (a \o b)[j] = a[j]
             /\ \A j \in 1 .. Len(b) : (a \o b)[Len(a) + j] = b[j]
             /\ \A j \in 1 .. Len(a \o b) : j \notin 1 .. Len(a) =>
                    j - Len(a) \in 1 .. Len(b) /\ (a \o b)[j] = b[j - Len(a)]
    <2>1. Len(a) \in Nat /\ Len(b) \in Nat /\ Len(a \o b) = Len(a) + Len(b)
        OBVIOUS
    <2>2. ASSUME NEW j \in 1 .. Len(a) PROVE (a \o b)[j] = a[j]
        BY <2>1
    <2>3. ASSUME NEW j \in 1 .. Len(b) PROVE (a \o b)[Len(a) + j] = b[j]
        BY <2>1
    <2>4. ASSUME NEW j \in 1 .. Len(a \o b), j \notin 1 .. Len(a)
          PROVE  j - Len(a) \in 1 .. Len(b) /\ (a \o b)[j] = b[j - Len(a)]
        <3>1. j - Len(a) \in 1 .. Len(b)
            BY <2>1, <2>4
        <3>2. j = Len(a) + (j - Len(a))
            BY <2>1
        <3> QED BY <2>3, <3>1, <3>2
    <2> QED BY <2>1, <2>2, <2>3, <2>4
<1> DEFINE c == g[k - 1]
           d == bs[k]
<1>7. c \in Seq(R) /\ d \in Seq(R) /\ g[k] = c \o d
    BY <1>3, <1>4, <1>5
<1> HIDE DEF c, d
<1>8. /\ Len(c) \in Nat /\ Len(d) \in Nat /\ Len(g[k]) = Len(c) + Len(d)
      /\ \A j \in 1 .. Len(c) : g[k][j] = c[j]
      /\ \A j \in 1 .. Len(d) : g[k][Len(c) + j] = d[j]
      /\ \A j \in 1 .. Len(g[k]) : j \notin 1 .. Len(c) =>
             j - Len(c) \in 1 .. Len(d) /\ g[k][j] = d[j - Len(c)]
    BY <1>6, <1>7
<1>9. Len(g[k]) \in Nat
    BY <1>8
<1> QED BY <1>4, <1>5, <1>8, <1>9 DEF NextJoin, c, d

\* What is joined stays where it is.
LEMMA JoinsKeep ==
    ASSUME NEW R, NEW bs \in Seq(Seq(R)), NEW g, Joins(g, R, bs), NEW i \in 0 .. Len(bs)
    PROVE  /\ Len(g[i]) \in Nat /\ Len(g[Len(bs)]) \in Nat /\ Len(g[i]) <= Len(g[Len(bs)])
           /\ \A j \in 1 .. Len(g[i]) : g[Len(bs)][j] = g[i][j]
<1> DEFINE n == Len(bs)
           Kept(k) == /\ Len(g[k]) \in Nat /\ Len(g[i]) \in Nat /\ Len(g[i]) <= Len(g[k])
                      /\ \A j \in 1 .. Len(g[i]) : g[k][j] = g[i][j]
           Good == {e \in 0 .. n - i : Kept(i + e)}
<1>1. n \in Nat /\ i \in Nat /\ n - i \in Nat
    OBVIOUS
<1>2. 0 \in Good
    <2>1. g[i] \in Seq(R)
        BY DEF Joins
    <2>2. Len(g[i]) \in Nat /\ i + 0 = i /\ 0 \in 0 .. n - i
        BY <1>1, <2>1
    <2>3. Kept(i)
        BY <2>2
    <2> HIDE DEF Kept
    <2> QED BY <2>2, <2>3
<1>3. ASSUME NEW e \in 1 .. n - i, e - 1 \in Good PROVE e \in Good
    <2> DEFINE k == i + e
    <2>1. k \in 1 .. n /\ i + (e - 1) = k - 1 /\ e \in 0 .. n - i
        BY <1>1
    <2>2. Kept(k - 1)
        BY <1>3, <2>1
    <2>3. NextJoin(g, R, bs, k)
        <3> HIDE DEF k
        <3> QED BY <2>1, JoinsNext
    <2> HIDE DEF k
    <2>4. /\ Len(g[k]) \in Nat /\ Len(g[k - 1]) \in Nat /\ Len(bs[k]) \in Nat
          /\ Len(g[k]) = Len(g[k - 1]) + Len(bs[k])
          /\ \A j \in 1 .. Len(g[k - 1]) : g[k][j] = g[k - 1][j]
        BY <2>3 DEF NextJoin
    <2>5. Len(g[i]) \in Nat /\ Len(g[i]) <= Len(g[k - 1]) /\ \A j \in 1 .. Len(g[i]) : g[k - 1][j] = g[i][j]
        BY <2>2
    <2>6. Len(g[i]) <= Len(g[k])
        <3>1. ASSUME NEW a \in Nat, NEW b \in Nat, NEW c \in Nat, NEW d \in Nat, a = b + c, d <= b PROVE d <= a
            BY <3>1
        <3>2. /\ Len(g[k]) \in Nat /\ Len(g[k - 1]) \in Nat /\ Len(bs[k]) \in Nat /\ Len(g[i]) \in Nat
              /\ Len(g[k]) = Len(g[k - 1]) + Len(bs[k]) /\ Len(g[i]) <= Len(g[k - 1])
            BY <2>4, <2>5
        <3> QED BY <3>1, <3>2
    <2>7. ASSUME NEW j \in 1 .. Len(g[i]) PROVE g[k][j] = g[i][j]
        <3>1. Len(g[k - 1]) \in Nat /\ Len(g[i]) \in Nat /\ Len(g[i]) <= Len(g[k - 1])
            BY <2>4, <2>5
        <3>2. j \in 1 .. Len(g[k - 1])
            BY <3>1, Within
        <3> QED BY <2>4, <2>5, <3>2
    <2>8. Kept(k)
        BY <2>4, <2>5, <2>6, <2>7
    <2> HIDE DEF Kept
    <2> QED BY <2>1, <2>8 DEF k
<1> HIDE DEF Good, Kept
<1>4. \A e \in 0 .. n - i : e \in Good
    BY <1>1, <1>2, <1>3, CountingUp
<1>5. n - i \in 0 .. n - i /\ i + (n - i) = n
    BY <1>1
<1>6. Kept(n)
    <2>1. n - i \in Good
        BY <1>4, <1>5
    <2> QED BY <1>5, <2>1 DEF Good
<1> QED BY <1>6 DEF Kept

DraftsOf(rows) == {rows[j].draft : j \in 1 .. Len(rows)}

FirstIds(id, i) == {id[k] : k \in 1 .. i}

\* Blocks that are each of one draft.
BlocksOf(bs, id) ==
    \A k \in 1 .. Len(bs) : Len(bs[k]) > 0 /\ \A j \in 1 .. Len(bs[k]) : bs[k][j].draft = id[k]

\* The drafts of the first k blocks.
LEMMA JoinsDrafts ==
    ASSUME NEW R, NEW bs \in Seq(Seq(R)), NEW g, Joins(g, R, bs), NEW id, BlocksOf(bs, id), NEW i \in 0 .. Len(bs)
    PROVE  DraftsOf(g[i]) = FirstIds(id, i)
<1> DEFINE n == Len(bs)
           of(k) == {g[k][j].draft : j \in 1 .. Len(g[k])}
           ids(k) == {id[l] : l \in 1 .. k}
           Good == {k \in 0 .. n : of(k) = ids(k)}
<1>1. n \in Nat /\ g[0] = <<>>
    BY DEF Joins
<1>2. 0 \in Good
    <2>1. of(0) = {} /\ ids(0) = {}
        BY <1>1
    <2> QED BY <1>1, <2>1
<1>3. ASSUME NEW k \in 1 .. n, k - 1 \in Good PROVE k \in Good
    <2>1. NextJoin(g, R, bs, k)
        BY JoinsNext
    <2>2. /\ Len(g[k]) \in Nat /\ Len(g[k - 1]) \in Nat /\ Len(bs[k]) \in Nat
          /\ Len(g[k]) = Len(g[k - 1]) + Len(bs[k])
          /\ \A j \in 1 .. Len(g[k - 1]) : g[k][j] = g[k - 1][j]
          /\ \A j \in 1 .. Len(bs[k]) : g[k][Len(g[k - 1]) + j] = bs[k][j]
          /\ \A j \in 1 .. Len(g[k]) : j \notin 1 .. Len(g[k - 1]) =>
                 j - Len(g[k - 1]) \in 1 .. Len(bs[k]) /\ g[k][j] = bs[k][j - Len(g[k - 1])]
        BY <2>1 DEF NextJoin
    <2>3. of(k - 1) = ids(k - 1)
        BY <1>3
    <2>4. Len(bs[k]) > 0 /\ \A j \in 1 .. Len(bs[k]) : bs[k][j].draft = id[k]
        BY DEF BlocksOf
    <2>5. ASSUME NEW j \in 1 .. Len(g[k]) PROVE g[k][j].draft \in ids(k)
        <3>1. CASE j \in 1 .. Len(g[k - 1])
            <4>1. g[k][j].draft \in of(k - 1)
                BY <2>2, <3>1
            <4>2. PICK l \in 1 .. k - 1 : g[k][j].draft = id[l]
                <5> HIDE DEF of
                <5> QED BY <2>3, <4>1
            <4>3. l \in 1 .. k
                BY <1>1
            <4> QED BY <4>2, <4>3
        <3>2. CASE j \notin 1 .. Len(g[k - 1])
            <4>1. g[k][j].draft = id[k]
                BY <2>2, <2>4, <3>2
            <4>2. k \in 1 .. k
                BY <1>1
            <4> QED BY <4>1, <4>2
        <3> QED BY <3>1, <3>2
    <2>6. ASSUME NEW l \in 1 .. k PROVE id[l] \in of(k)
        <3>1. CASE l = k
            <4>1. 1 \in 1 .. Len(bs[k]) /\ Len(g[k - 1]) + 1 \in 1 .. Len(g[k])
                <5>1. /\ Len(g[k]) \in Nat /\ Len(g[k - 1]) \in Nat /\ Len(bs[k]) \in Nat
                      /\ Len(g[k]) = Len(g[k - 1]) + Len(bs[k]) /\ Len(bs[k]) > 0
                    BY <2>2, <2>4
                <5>2. ASSUME NEW a \in Nat, NEW b \in Nat, NEW c \in Nat, a = b + c, c > 0
                      PROVE  1 \in 1 .. c /\ b + 1 \in 1 .. a
                    BY <5>2
                <5> QED BY <5>1, <5>2
            <4>2. g[k][Len(g[k - 1]) + 1].draft = id[k]
                <5>1. g[k][Len(g[k - 1]) + 1] = bs[k][1]
                    BY <2>2, <4>1
                <5>2. bs[k][1].draft = id[k]
                    BY <2>4, <4>1
                <5> QED BY <5>1, <5>2
            <4> QED BY <3>1, <4>1, <4>2
        <3>2. CASE l # k
            <4>1. l \in 1 .. k - 1
                BY <1>1, <3>2
            <4>2. id[l] \in of(k - 1)
                <5>1. id[l] \in ids(k - 1)
                    BY <4>1
                <5> HIDE DEF of, ids
                <5> QED BY <2>3, <5>1
            <4>3. PICK j \in 1 .. Len(g[k - 1]) : g[k - 1][j].draft = id[l]
                BY <4>2
            <4>4. j \in 1 .. Len(g[k]) /\ g[k][j] = g[k - 1][j]
                <5>1. /\ Len(g[k]) \in Nat /\ Len(g[k - 1]) \in Nat /\ Len(bs[k]) \in Nat
                      /\ Len(g[k]) = Len(g[k - 1]) + Len(bs[k])
                    BY <2>2
                <5>2. Len(g[k - 1]) <= Len(g[k])
                    <6>1. ASSUME NEW a \in Nat, NEW b \in Nat, NEW c \in Nat, a = b + c PROVE b <= a
                        BY <6>1
                    <6> QED BY <5>1, <6>1
                <5>3. j \in 1 .. Len(g[k])
                    BY <5>1, <5>2, Within
                <5> QED BY <2>2, <5>3
            <4> QED BY <4>3, <4>4
        <3> QED BY <3>1, <3>2
    <2>7. of(k) \subseteq ids(k)
        <3> HIDE DEF ids
        <3> QED BY <2>5
    <2>8. ids(k) \subseteq of(k)
        <3> HIDE DEF of
        <3> QED BY <2>6
    <2>9. of(k) = ids(k) /\ k \in 0 .. n
        <3>1. of(k) = ids(k)
            <4> HIDE DEF of, ids
            <4> QED BY <2>7, <2>8
        <3>2. k \in 0 .. n
            BY <1>1
        <3> QED BY <3>1, <3>2
    <2> HIDE DEF of, ids
    <2> QED BY <2>9
<1> HIDE DEF Good
<1>4. \A k \in 0 .. n : k \in Good
    BY <1>1, <1>2, <1>3, CountingUp
<1>5. of(i) = ids(i)
    BY <1>4 DEF Good
<1> QED BY <1>5 DEF DraftsOf, FirstIds


\* The check rows, draft by draft.
Blocks(smp) ==
    [i \in DOMAIN smp |->
        [j \in DOMAIN smp[i].claims |->
            LET c == smp[i].claims[j]
            IN  [draft |-> smp[i].id, step |-> c.step, text |-> c.text,
                 support |-> c.support, llm |-> LlmVerdict(c)]]]

LEMMA BlocksAre ==
    ASSUME GroundingAssumption, secondChecker \in Judges, NEW smp \in Seq(Loaded)
    PROVE  /\ Blocks(smp) \in Seq(Seq(CheckedRows)) /\ Len(Blocks(smp)) = Len(smp)
           /\ DOMAIN smp = 1 .. Len(smp) /\ Len(smp) \in Nat
           /\ \A i \in 1 .. Len(smp) :
                 /\ Len(Blocks(smp)[i]) > 0
                 /\ \A j \in 1 .. Len(Blocks(smp)[i]) : Blocks(smp)[i][j].draft = smp[i].id
<1> DEFINE n == Len(smp)
           R == CheckedRows
           bs == Blocks(smp)
<1>1. n \in Nat /\ DOMAIN smp = 1 .. n
    OBVIOUS
<1>2. secondChecker \in [LlmRequests -> BOOLEAN \cup {None}]
    BY DEF GroundingAssumption
<1>3. ASSUME NEW i \in 1 .. n
      PROVE  /\ bs[i] \in Seq(R) /\ Len(bs[i]) > 0
             /\ \A j \in 1 .. Len(bs[i]) : bs[i][j].draft = smp[i].id
    <2> DEFINE d == smp[i]
               q == Len(d.claims)
               row(c) == [draft |-> d.id, step |-> c.step, text |-> c.text,
                          support |-> c.support, llm |-> LlmVerdict(c)]
    <2>1. d \in AuditedDrafts /\ d.claims # <<>>
        <3>1. d \in Loaded
            BY <1>1
        <3> HIDE DEF d
        <3> QED BY <3>1 DEF Loaded
    <2>2. d.claims \in Seq(ToSet(d.claims))
        <3> HIDE DEF d
        <3> QED BY <2>1 DEF GroundingAssumption
    <2>3. bs[i] = [j \in DOMAIN d.claims |-> row(d.claims[j])]
        BY <1>1 DEF Blocks
    <2> HIDE DEF d, bs
    <2>4. q \in Nat /\ DOMAIN d.claims = 1 .. q /\ q > 0
        BY <2>1, <2>2
    <2>5. ASSUME NEW j \in 1 .. q PROVE row(d.claims[j]) \in R
        <3> DEFINE c == d.claims[j]
        <3>1. c \in ToSet(d.claims)
            BY <2>2, <2>4
        <3> HIDE DEF c
        <3>2. LlmRequest(c) \in LlmRequests /\ c \in UNION {ToSet(e.claims) : e \in AuditedDrafts}
            BY <2>1, <3>1 DEF LlmRequests
        <3>3. LlmVerdict(c) \in BOOLEAN \cup {None}
            <4> DEFINE x == LlmRequest(c)
            <4>1. x \in LlmRequests
                BY <3>2
            <4> HIDE DEF x
            <4>2. secondChecker[x] \in BOOLEAN \cup {None}
                BY <1>2, <4>1
            <4> QED BY <4>2 DEF LlmVerdict, x
        <3>4. row(c) \in CheckedRows
            <4> DEFINE v == LlmVerdict(c)
            <4> HIDE DEF v
            <4>1. v \in BOOLEAN \cup {None}
                BY <3>3 DEF v
            <4>2. [draft |-> d.id, step |-> c.step, text |-> c.text, support |-> c.support, llm |-> v] \in CheckedRows
                BY <2>1, <3>2, <4>1 DEF CheckedRows
            <4> QED BY <4>2 DEF v
        <3> QED BY <3>4 DEF c
    <2>6. bs[i] \in [1 .. q -> R]
        <3> HIDE DEF row, R, q
        <3> QED BY <2>3, <2>4, <2>5
    <2>7. bs[i] \in Seq(R) /\ Len(bs[i]) = q
        <3> HIDE DEF row, R, q
        <3>1. bs[i] \in Seq(R)
            BY <2>4, <2>6
        <3> QED BY <2>4, <2>6, <3>1
    <2>8. \A j \in 1 .. q : bs[i][j].draft = d.id
        BY <2>3, <2>4
    <2> QED BY <2>4, <2>7, <2>8 DEF d
<1>4. bs \in [1 .. n -> Seq(R)]
    <2>1. DOMAIN bs = 1 .. n /\ bs = [i \in 1 .. n |-> bs[i]]
        BY <1>1 DEF Blocks
    <2> HIDE DEF bs, R
    <2> QED BY <1>3, <2>1
<1> HIDE DEF bs, R
<1>5. bs \in Seq(Seq(R)) /\ Len(bs) = n
    <2>1. bs \in Seq(Seq(R))
        BY <1>1, <1>4
    <2> QED BY <1>1, <1>4, <2>1
<1> QED BY <1>1, <1>3, <1>5 DEF bs, R

\* Of n different ids there are n.
LEMMA ManyIds ==
    ASSUME NEW n \in Nat, NEW id, \A k, l \in 1 .. n : id[k] = id[l] => k = l
    PROVE  Cardinality(FirstIds(id, n)) = n
<1> DEFINE S == FirstIds(id, n)
           f == [k \in 1 .. n |-> id[k]]
<1>1. f \in Surjection(1 .. n, S)
    BY DEF Surjection, FirstIds
<1>2. IsFiniteSet(1 .. n) /\ Cardinality(1 .. n) = n
    BY FS_Interval
<1>3. \A k, l \in 1 .. n : f[k] = f[l] => k = l
    OBVIOUS
<1> HIDE DEF S, f
<1>4. Cardinality(S) = n
    <2>1. \A k, l \in 1 .. n : f[k] = f[l] => k = l
        BY <1>3
    <2>2. IsFiniteSet(S) /\ Cardinality(S) <= Cardinality(1 .. n)
          /\ (Cardinality(S) = Cardinality(1 .. n) <=> f \in Injection(1 .. n, S))
        BY <1>1, <1>2, FS_Surjection
    <2>3. f \in Injection(1 .. n, S)
        BY <1>1, <2>1 DEF Injection, IsInjective, Surjection
    <2> QED BY <1>2, <2>2, <2>3
<1> QED BY <1>4 DEF S

\* The i-th draft of the sample is dealt to the i-th member in turn.
LEMMA ChecksAre ==
    ASSUME GroundingAssumption, secondChecker \in Judges, NEW smp, SampleIsFair(smp), smp # <<>>
    PROVE  /\ CheckRows(smp) \in Seq(CheckedRows)
           /\ \A i \in DOMAIN smp : Owner(CheckRows(smp), smp[i].id) = Members[((i - 1) % 3) + 1]
<1> DEFINE n == Len(smp)
           R == CheckedRows
           bs == Blocks(smp)
           rows == CheckRows(smp)
           id == [i \in 1 .. n |-> smp[i].id]
<1>1. smp \in Seq(Loaded) /\ n \in Nat /\ n # 0 /\ DOMAIN smp = 1 .. n
    BY DEF SampleIsFair
<1>2. /\ bs \in Seq(Seq(R)) /\ Len(bs) = n
      /\ \A i \in 1 .. n : Len(bs[i]) > 0 /\ \A j \in 1 .. Len(bs[i]) : bs[i][j].draft = id[i]
    BY <1>1, BlocksAre
<1>3. rows = FlattenSeq(bs)
    BY DEF CheckRows, Blocks
<1>4. \A k, l \in 1 .. n : id[k] = id[l] => k = l
    <2>1. ASSUME NEW k \in 1 .. n, NEW l \in 1 .. n, id[k] = id[l] PROVE k = l
        <3>1. smp[k].id = smp[l].id /\ smp[k] \in Loaded /\ smp[l] \in Loaded
            BY <1>1, <2>1
        <3>2. smp[k] \in AuditedDrafts /\ smp[l] \in AuditedDrafts
            BY <3>1 DEF Loaded
        <3>3. smp[k] = smp[l]
            BY <3>1, <3>2 DEF GroundingAssumption
        <3> QED BY <1>1, <3>3 DEF SampleIsFair
    <2> HIDE DEF id
    <2> QED BY <2>1
<1>5. \A i \in DOMAIN smp : smp[i].id = id[i]
    BY <1>1
<1> HIDE DEF R, bs, rows, id
<1>6. PICK g : Joins(g, R, bs) /\ FlattenSeq(bs) = g[Len(bs)]
    <2>1. bs # <<>>
        BY <1>1, <1>2
    <2> QED BY <1>2, <2>1, FlattenJoins
<1>7. rows = g[n] /\ rows \in Seq(R)
    <2>1. g[n] \in Seq(R)
        BY <1>1, <1>2, <1>6 DEF Joins
    <2> QED BY <1>2, <1>3, <1>6, <2>1
<1>8. ASSUME NEW i \in 1 .. n PROVE Owner(rows, id[i]) = Members[((i - 1) % 3) + 1]
    <2> DEFINE p == Len(g[i - 1])
               same == {j \in DOMAIN rows : rows[j].draft = id[i]}
               e == {rows[j].draft : j \in 1 .. p}
    <2>1. i \in 1 .. Len(bs) /\ i \in 0 .. Len(bs) /\ i - 1 \in 0 .. Len(bs)
        BY <1>1, <1>2
    <2>2. NextJoin(g, R, bs, i)
        BY <1>2, <1>6, <2>1, JoinsNext
    <2>3. /\ p \in Nat /\ Len(g[i]) \in Nat /\ Len(bs[i]) \in Nat /\ Len(g[i]) = p + Len(bs[i])
          /\ \A j \in 1 .. Len(bs[i]) : g[i][p + j] = bs[i][j]
        BY <2>2 DEF NextJoin
    <2>4. /\ Len(rows) \in Nat /\ Len(g[i]) <= Len(rows)
          /\ \A j \in 1 .. Len(g[i]) : rows[j] = g[i][j]
        BY <1>2, <1>6, <1>7, <2>1, JoinsKeep
    <2>5. p <= Len(rows) /\ \A j \in 1 .. p : rows[j] = g[i - 1][j]
        BY <1>2, <1>6, <1>7, <2>1, JoinsKeep
    <2>6. DraftsOf(g[i - 1]) = FirstIds(id, i - 1)
        <3>1. BlocksOf(bs, id)
            BY <1>2 DEF BlocksOf
        <3>2. Joins(g, R, bs)
            BY <1>6
        <3>3. bs \in Seq(Seq(R))
            BY <1>2
        <3> QED BY <2>1, <3>1, <3>2, <3>3, JoinsDrafts
    <2>7. e = FirstIds(id, i - 1)
        <3>1. e = DraftsOf(g[i - 1])
            BY <2>5 DEF DraftsOf
        <3> QED BY <2>6, <3>1
    <2>8. Len(bs[i]) > 0 /\ bs[i][1].draft = id[i]
        BY <1>2, <2>3
    <2> HIDE DEF p, e
    <2>9. rows[p + 1].draft = id[i] /\ p + 1 \in 1 .. Len(rows)
        <3>1. 1 \in 1 .. Len(bs[i]) /\ p + 1 \in 1 .. Len(g[i])
            BY <2>3, <2>8
        <3>2. p + 1 \in 1 .. Len(rows)
            BY <2>3, <2>4, <3>1
        <3>3. rows[p + 1] = g[i][p + 1] /\ g[i][p + 1] = bs[i][1]
            BY <2>3, <2>4, <3>1
        <3> QED BY <2>8, <3>2, <3>3
    <2>10. ASSUME NEW j \in 1 .. p PROVE rows[j].draft # id[i]
        <3>1. rows[j].draft \in e
            BY DEF e
        <3>2. PICK k \in 1 .. i - 1 : rows[j].draft = id[k]
            BY <2>7, <3>1 DEF FirstIds
        <3>3. k \in 1 .. n /\ k # i
            BY <1>1
        <3> QED BY <1>4, <3>2, <3>3
    <2>11. Min(same) = p + 1
        <3>1. DOMAIN rows = 1 .. Len(rows)
            BY <1>7
        <3>2. same \in SUBSET Nat /\ p + 1 \in same
            BY <2>4, <2>9, <3>1
        <3>3. Min(same) \in same /\ \A x \in same : Min(same) <= x
            <4> HIDE DEF same
            <4> QED BY <3>2, MinIs
        <3>4. Min(same) \in 1 .. Len(rows) /\ rows[Min(same)].draft = id[i]
            BY <3>1, <3>3
        <3> DEFINE x == Min(same)
        <3>5. x \in Nat /\ x >= 1 /\ x <= p + 1
            <4>1. x <= p + 1
                BY <3>2, <3>3
            <4> HIDE DEF x
            <4>2. x \in 1 .. Len(rows)
                BY <3>4 DEF x
            <4> QED BY <2>4, <4>1, <4>2
        <3>6. ~ (x \in 1 .. p)
            BY <2>10, <3>4
        <3> HIDE DEF x
        <3>7. x = p + 1
            BY <2>3, <3>5, <3>6
        <3> QED BY <3>7 DEF x
    <2>12. Owner(rows, id[i]) = Members[(Cardinality({rows[j].draft : j \in 1 .. Min(same) - 1}) % Len(Members)) + 1]
        BY DEF Owner
    <2> HIDE DEF same
    <2>13. Min(same) - 1 = p
        BY <2>3, <2>11
    <2>14. Owner(rows, id[i]) = Members[(Cardinality(e) % 3) + 1]
        BY <2>12, <2>13, MembersAre DEF e
    <2>15. Cardinality(e) = i - 1
        <3>1. i - 1 \in Nat /\ \A k, l \in 1 .. i - 1 : id[k] = id[l] => k = l
            BY <1>1, <1>4
        <3>2. Cardinality(FirstIds(id, i - 1)) = i - 1
            BY <3>1, ManyIds
        <3> QED BY <2>7, <3>2
    <2> QED BY <2>14, <2>15
<1>9. \A i \in DOMAIN smp : Owner(rows, smp[i].id) = Members[((i - 1) % 3) + 1]
    BY <1>1, <1>5, <1>8
<1> QED BY <1>7, <1>9 DEF rows, R


\* What select_doubtful draws stands for the rest.
LEMMA DrawsAreWeighted ==
    ASSUME GroundingAssumption, NEW rows \in Seq(CheckedRows), NEW n \in PerMember,
           NEW s \in AgreeingSamples(rows, n), NEW m \in MemberSet
    PROVE  IsWeighted(rows, m, Weighted(rows, m, s \cap Mine(rows, m)))
<1> DEFINE agreed(o) == {i \in Mine(rows, o) : ~ Disagree(rows[i])}
           mine == [o \in MemberSet |-> agreed(o)]
           t == s \cap Mine(rows, m)
           A == Agreeing(rows, m)
<1>1. s \in SUBSET UNION {mine[o] : o \in MemberSet}
      /\ \A o \in MemberSet : Cardinality(s \cap mine[o]) = Smaller(n, Cardinality(mine[o]))
    BY DEF AgreeingSamples
<1>2. A = agreed(m)
    BY DEF Agreeing, Doubtful
<1>3. s \cap mine[m] = t
    <2>1. ASSUME NEW i \in t PROVE i \in agreed(m)
        <3>1. PICK o \in MemberSet : i \in agreed(o)
            BY <1>1
        <3> QED BY <3>1 DEF Mine
    <2> QED BY <2>1
<1>4. t \in SUBSET A
    <2>1. mine[m] = A
        BY <1>2
    <2> HIDE DEF mine, A, t
    <2> QED BY <1>3, <2>1
<1>5. Cardinality(t) = Smaller(n, Cardinality(A))
    <2>1. mine[m] = A
        BY <1>2
    <2> HIDE DEF mine, A, t
    <2> QED BY <1>1, <1>3, <2>1
<1> HIDE DEF t, A, mine
<1>6. IsFiniteSet(A)
    <2>1. DOMAIN rows = 1 .. Len(rows) /\ Len(rows) \in Nat
        OBVIOUS
    <2>2. IsFiniteSet(1 .. Len(rows))
        BY <2>1, FS_Interval
    <2>3. A \in SUBSET (1 .. Len(rows))
        BY <2>1 DEF A, Agreeing, Mine
    <2> QED BY <2>2, <2>3, FS_Subset
<1>7. Cardinality(A) \in Nat /\ (Cardinality(A) = 0 <=> A = {})
      /\ Cardinality(t) \in Nat /\ (Cardinality(t) = 0 <=> t = {})
    <2>1. IsFiniteSet(t)
        BY <1>4, <1>6, FS_Subset
    <2> QED BY <1>6, <2>1, FS_CardinalityType, FS_EmptySet
<1>8. n \in Nat /\ n > 0
    BY DEF GroundingAssumption
<1>9. t = {} => A = {}
    BY <1>5, <1>7, <1>8 DEF Smaller
<1>10. IsWeighted(rows, m, Weighted(rows, m, t))
    BY <1>4, <1>9 DEF IsWeighted, A
<1> QED BY <1>10 DEF t

----------------------------------------------------------------------------
(* The invariant *)

\* What select_doubtful is about to write.
WorkIsSound(w) ==
    \E left, from, rows : /\ w = [left |-> left, from |-> from, rows |-> rows]
                          /\ KeyIsSound([from |-> from, rows |-> rows])

\* What every file holds, select_doubtful at work or not.
GroundingInv ==
    /\ secondChecker \in Judges
    /\ SampleIsFair(sample)
    /\ checks \in Seq(CheckedRows)
    /\ writing # None => WorkIsSound(writing)
    /\ key # None => KeyIsSound(key)
    /\ report # None => ReportParts(report)

LEMMA GroundingInvInit == GroundingAssumption /\ GroundingInit => GroundingInv
<1> SUFFICES ASSUME GroundingAssumption, GroundingInit PROVE GroundingInv
    OBVIOUS
<1>1. sample = <<>> /\ checks = <<>> /\ writing = None /\ key = None /\ report = None /\ secondChecker \in Judges
    BY DEF GroundingInit
<1>2. SampleIsFair(<<>>)
    <2>1. Len(<<>>) = 0 /\ 0 <= NAudit
        BY DEF GroundingAssumption
    <2> QED BY <2>1 DEF SampleIsFair
<1>3. <<>> \in Seq(CheckedRows)
    OBVIOUS
<1> QED BY <1>1, <1>2, <1>3 DEF GroundingInv

LEMMA GroundingInvNext ==
    ASSUME GroundingAssumption, GroundingInv, [GroundingNext]_groundingVars
    PROVE  GroundingInv'
<1>1. CASE SelectAudit
    <2>1. PICK qs \in Shuffles : sample' = RoundRobin(qs, NAudit)
        BY <1>1 DEF SelectAudit
    <2>2. SampleIsFair(RoundRobin(qs, NAudit))
        BY RoundRobinIsFair
    <2>3. SampleIsFair(sample')
        BY <2>1, <2>2
    <2> QED BY <1>1, <2>3 DEF SelectAudit, GroundingInv
<1>2. CASE CheckClaims
    <2>1. sample # <<>> /\ SampleIsFair(sample) /\ secondChecker \in Judges
        BY <1>2 DEF CheckClaims, GroundingInv
    <2>2. CheckRows(sample) \in Seq(CheckedRows)
        BY <2>1, ChecksAre
    <2>3. checks' \in Seq(CheckedRows)
        BY <1>2, <2>2 DEF CheckClaims
    <2> QED BY <1>2, <2>3 DEF CheckClaims, GroundingInv
<1>3. ASSUME NEW n \in PerMember, SelectDoubtful(n) PROVE GroundingInv'
    <2>1. PICK s \in AgreeingSamples(checks, n) :
              writing' = [left |-> Members, from |-> checks,
                          rows |-> [m \in MemberSet |-> Weighted(checks, m, s \cap Mine(checks, m))]]
        BY <1>3 DEF SelectDoubtful
    <2> DEFINE rows == [m \in MemberSet |-> Weighted(checks, m, s \cap Mine(checks, m))]
               k == [from |-> checks, rows |-> rows]
    <2>2. checks \in Seq(CheckedRows)
        BY DEF GroundingInv
    <2>3. ASSUME NEW m \in MemberSet PROVE IsWeighted(checks, m, rows[m])
        <3>1. IsWeighted(checks, m, Weighted(checks, m, s \cap Mine(checks, m)))
            BY <2>2, DrawsAreWeighted
        <3> QED BY <3>1
    <2>4. writing' = [left |-> Members, from |-> checks, rows |-> rows]
        BY <2>1
    <2> HIDE DEF rows
    <2>5. KeyIsSound(k)
        BY <2>2, <2>3 DEF KeyIsSound
    <2>6. WorkIsSound(writing')
        BY <2>4, <2>5 DEF WorkIsSound
    <2> QED BY <1>3, <2>6 DEF SelectDoubtful, GroundingInv
<1>4. CASE WriteSheet
    <2>1. PICK left, from, rows : /\ writing = [left |-> left, from |-> from, rows |-> rows]
                                  /\ KeyIsSound([from |-> from, rows |-> rows])
        BY <1>4 DEF WriteSheet, GroundingInv, WorkIsSound
    <2>2. writing' = [left |-> Tail(left), from |-> from, rows |-> rows]
        BY <1>4, <2>1 DEF WriteSheet
    <2>3. WorkIsSound(writing')
        BY <2>1, <2>2 DEF WorkIsSound
    <2> QED BY <1>4, <2>3 DEF WriteSheet, GroundingInv
<1>5. CASE WriteKey
    <2>1. PICK left, from, rows : /\ writing = [left |-> left, from |-> from, rows |-> rows]
                                  /\ KeyIsSound([from |-> from, rows |-> rows])
        BY <1>5 DEF WriteKey, GroundingInv, WorkIsSound
    <2>2. key' = [from |-> from, rows |-> rows]
        BY <1>5, <2>1 DEF WriteKey
    <2>3. KeyIsSound(key')
        BY <2>1, <2>2
    <2> QED BY <1>5, <2>3 DEF WriteKey, GroundingInv
<1>6. CASE DieSelecting
    BY <1>6 DEF DieSelecting, GroundingInv
<1>7. ASSUME NEW m \in MemberSet, FillSheet(m) PROVE GroundingInv'
    BY <1>7 DEF FillSheet, GroundingInv
<1>8. CASE ReportGrounding
    <2>1. KeyIsSound(key)
        BY <1>8 DEF ReportGrounding, GroundingInv
    <2>2. JoinedSoundly(Joined)
        BY <2>1, JoinedIsSound
    <2>3. ReportParts(ReportOn(Joined))
        BY <2>2, ReportAdds
    <2>4. ReportParts(report')
        BY <1>8, <2>3 DEF ReportGrounding
    <2> QED BY <1>8, <2>4 DEF ReportGrounding, GroundingInv
<1>9. CASE UNCHANGED groundingVars
    BY <1>9 DEF groundingVars, GroundingInv
<1> QED BY <1>1, <1>2, <1>3, <1>4, <1>5, <1>6, <1>7, <1>8, <1>9 DEF GroundingNext

\* What the files hold makes the audit sound.
LEMMA GroundingInvIsSound == GroundingAssumption /\ GroundingInv => GroundingAuditIsSound
<1> SUFFICES ASSUME GroundingAssumption, GroundingInv PROVE GroundingAuditIsSound
    OBVIOUS
<1>1. WeightsCoverTheAudit
    <2>1. CASE key = None
        BY <2>1 DEF WeightsCoverTheAudit
    <2>2. CASE key # None
        <3>1. KeyIsSound(key)
            BY <2>2 DEF GroundingInv
        <3>2. \A m \in MemberSet : StandForAll(key.from, m, key.rows[m])
            BY <3>1, KeyCovers
        <3> QED BY <3>1, <3>2, KeyCovers DEF WeightsCoverTheAudit, StandForAll, InStratum
    <2> QED BY <2>1, <2>2
<1>2. ReportAddsUp
    BY DEF GroundingInv, ReportParts, ReportAddsUp
<1>3. AuditIsStratified
    <2>1. SampleIsFair(sample) /\ secondChecker \in Judges
        BY DEF GroundingInv
    <2>2. CASE sample = <<>>
        <3>1. DOMAIN sample = {}
            BY <2>2
        <3> QED BY <2>2, <3>1 DEF AuditIsStratified
    <2>3. CASE sample # <<>>
        <3>1. \A i \in DOMAIN sample : Owner(CheckRows(sample), sample[i].id) = Members[((i - 1) % 3) + 1]
            BY <2>1, <2>3, ChecksAre
        <3>2. NAudit >= Cardinality({Cell(d) : d \in Loaded}) =>
                  \A d \in Loaded : \E e \in ToSet(sample) : Cell(e) = Cell(d)
            BY <2>1, <2>3 DEF SampleIsFair
        <3> QED BY <3>1, <3>2 DEF AuditIsStratified
    <2> QED BY <2>2, <2>3
<1> QED BY <1>1, <1>2, <1>3 DEF GroundingAuditIsSound

\* The audit draws from every kind of draft when there is room, deals the drafts over the
\* members in turn, loses no doubtful claim, and what it draws counts for all it was drawn from but for
\* the rounding of its weights; the report's parts add up whichever scripts ran, died or were run again, and whichever labels
\* are missing: for any drafts, any sizes of samples and any answers of the second checker.
THEOREM AuditStandsForTheWhole ==
    ASSUME GroundingAssumption
    PROVE  GroundingSpec => []GroundingAuditIsSound
<1>1. GroundingInit => GroundingInv
    BY GroundingInvInit
<1>2. GroundingInv /\ [GroundingNext]_groundingVars => GroundingInv'
    BY GroundingInvNext
<1>3. GroundingInv => GroundingAuditIsSound
    BY GroundingInvIsSound
<1> QED BY <1>1, <1>2, <1>3, PTL DEF GroundingSpec

\* A counter under its bound may go up by one.
LEMMA CountsOnce ==
    ASSUME NEW b \in Nat, NEW a \in 0 .. b, a < b
    PROVE  a + 1 \in 0 .. b
OBVIOUS

\* What a sequence holds, position by position and as a set.
LEMMA HoldsOf ==
    ASSUME NEW R, NEW s \in Seq(R)
    PROVE  /\ ToSet(s) \subseteq R
           /\ \A i \in DOMAIN s : s[i] \in R
<1>1. \A i \in DOMAIN s : s[i] \in R
    OBVIOUS
<1> QED BY <1>1 DEF ToSet

\* The scripts' files, the worksheets and the second checker's answers have the values they may,
\* and the runs stay within their bounds.
THEOREM GroundingTypes ==
    ASSUME GroundingAssumption
    PROVE  GroundingSpec => []GroundingTypeOK
<1> DEFINE SheetsOK == \A m \in MemberSet :
                           /\ sheets[m] \in [DOMAIN sheets[m] -> Labels \cup {""}]
           Bounded == auditRuns \in 0 .. MaxAuditRuns /\ fills \in 0 .. MaxFills
           TypesInv == GroundingInv /\ DOMAIN sheets = MemberSet /\ SheetsOK /\ Bounded
<1>1. GroundingInit => TypesInv
    <2> SUFFICES ASSUME GroundingInit PROVE TypesInv
        OBVIOUS
    <2>1. SheetsOK /\ DOMAIN sheets = MemberSet
        BY DEF GroundingInit, NoSheet
    <2>2. Bounded
        BY DEF GroundingInit, GroundingAssumption
    <2> QED BY <2>1, <2>2, GroundingInvInit
<1>2. TypesInv /\ [GroundingNext]_groundingVars => TypesInv'
    <2> SUFFICES ASSUME TypesInv, [GroundingNext]_groundingVars PROVE TypesInv'
        OBVIOUS
    <2>1. GroundingInv'
        BY GroundingInvNext
    <2>2. MaxAuditRuns \in Nat /\ MaxFills \in Nat
        BY DEF GroundingAssumption
    <2>3. Bounded'
        <3>1. CASE UNCHANGED <<auditRuns, fills>>
            BY <3>1
        <3>2. CASE auditRuns < MaxAuditRuns /\ auditRuns' = auditRuns + 1 /\ fills' = fills
            <4>1. auditRuns + 1 \in 0 .. MaxAuditRuns
                BY <2>2, <3>2, CountsOnce
            <4> QED BY <3>2, <4>1
        <3>3. CASE fills < MaxFills /\ fills' = fills + 1 /\ auditRuns' = auditRuns
            <4>1. fills + 1 \in 0 .. MaxFills
                BY <2>2, <3>3, CountsOnce
            <4> QED BY <3>3, <4>1
        <3>4. CASE SelectAudit
            BY <3>2, <3>4 DEF SelectAudit
        <3>5. CASE CheckClaims
            BY <3>2, <3>5 DEF CheckClaims
        <3>6. ASSUME NEW n \in PerMember, SelectDoubtful(n) PROVE Bounded'
            BY <3>2, <3>6 DEF SelectDoubtful
        <3>7. CASE WriteSheet
            BY <3>1, <3>7 DEF WriteSheet
        <3>8. CASE WriteKey
            BY <3>1, <3>8 DEF WriteKey
        <3>9. CASE DieSelecting
            BY <3>1, <3>9 DEF DieSelecting
        <3>10. ASSUME NEW m \in MemberSet, FillSheet(m) PROVE Bounded'
            BY <3>3, <3>10 DEF FillSheet
        <3>11. CASE ReportGrounding
            BY <3>2, <3>11 DEF ReportGrounding
        <3>12. CASE UNCHANGED groundingVars
            BY <3>1, <3>12 DEF groundingVars
        <3> QED BY <3>4, <3>5, <3>6, <3>7, <3>8, <3>9, <3>10, <3>11, <3>12 DEF GroundingNext
    <2>4. CASE UNCHANGED sheets
        BY <2>1, <2>3, <2>4
    <2>5. CASE WriteSheet
        <3> DEFINE h == Head(writing.left)
        <3>1. PICK X : sheets' = [sheets EXCEPT ![h] = [c \in X |-> ""]]
            BY <2>5 DEF WriteSheet
        <3>2. SheetsOK' /\ DOMAIN sheets' = MemberSet
            BY <3>1
        <3> QED BY <2>1, <2>3, <3>2
    <2>6. ASSUME NEW n \in MemberSet, FillSheet(n) PROVE TypesInv'
        <3>1. PICK ls \in [DOMAIN sheets[n] -> Labels \cup {""}] : sheets' = [sheets EXCEPT ![n] = ls]
            BY <2>6 DEF FillSheet
        <3>2. SheetsOK' /\ DOMAIN sheets' = MemberSet
            BY <3>1
        <3> QED BY <2>1, <2>3, <3>2
    <2>7. UNCHANGED sheets \/ WriteSheet \/ \E n \in MemberSet : FillSheet(n)
        BY DEF GroundingNext, groundingVars, SelectAudit, CheckClaims, SelectDoubtful, WriteKey,
               DieSelecting, ReportGrounding
    <2> QED BY <2>4, <2>5, <2>6, <2>7
<1>3. TypesInv => GroundingTypeOK
    <2> SUFFICES ASSUME TypesInv PROVE GroundingTypeOK
        OBVIOUS
    <2>1. secondChecker \in [LlmRequests -> BOOLEAN \cup {None}]
        BY DEF GroundingInv, GroundingAssumption
    <2>2. ToSet(sample) \subseteq Loaded /\ Len(sample) <= NAudit
        <3>1. sample \in Seq(Loaded) /\ Len(sample) <= NAudit
            BY DEF GroundingInv, SampleIsFair
        <3> QED BY <3>1, HoldsOf
    <2>3. ASSUME NEW r \in ToSet(checks) PROVE r.llm \in BOOLEAN \cup {None}
        <3>1. r \in CheckedRows
            <4>1. checks \in Seq(CheckedRows)
                BY DEF GroundingInv
            <4>2. ToSet(checks) \subseteq CheckedRows
                BY <4>1, HoldsOf
            <4> QED BY <2>3, <4>2
        <3> QED BY <3>1, RowIsChecked
    <2>4. \A m \in MemberSet : \A c \in DOMAIN sheets[m] : sheets[m][c] \in Labels \cup {""}
        OBVIOUS
    <2> QED BY <2>1, <2>2, <2>3, <2>4 DEF GroundingTypeOK
<1> HIDE DEF TypesInv
<1> QED BY <1>1, <1>2, <1>3, PTL DEF GroundingSpec
=============================================================================
