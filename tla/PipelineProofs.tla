---------------------------- MODULE PipelineProofs ----------------------------
(***************************************************************************)
(* What is proved of Pipeline, of the operators of Retrieval (first part)  *)
(* and of Redaction (second part).                                         *)
(*                                                                         *)
(* Redaction's operators are folds.  A fold is unfolded once into the      *)
(* sequence of its intermediate results (Iterated), and what holds of all  *)
(* of them is shown by counting up (CountingUp).  What redaction gives a   *)
(* run, and the pipeline's types, come last.                               *)
(***************************************************************************)
EXTENDS Pipeline, FiniteSetTheorems, SequenceTheorems, TLAPS

----------------------------------------------------------------------------
(* Rankings *)

\* s lists elements of S, none of them twice.
DrawnFrom(s, S) ==
    /\ Len(s) \in Nat /\ s \in [1 .. Len(s) -> S]
    /\ \A i, j \in 1 .. Len(s) : s[i] = s[j] => i = j

\* And every one of them.
Enumerates(s, S) ==
    /\ DrawnFrom(s, S)
    /\ \A c \in S : \E k \in 1 .. Len(s) : s[k] = c

\* Precedes is a strict total order, whatever the scores.
LEMMA PrecedesIsTotal ==
    ASSUME NEW S \in SUBSET Nat, NEW score, \A c \in S : score[c] \in Nat
    PROVE  /\ \A c \in S : ~ Precedes(c, c, score)
           /\ \A c, d \in S : c # d => Precedes(c, d, score) \/ Precedes(d, c, score)
           /\ \A c, d, e \in S : Precedes(c, d, score) /\ Precedes(d, e, score) => Precedes(c, e, score)
<1>1. \A c \in S : ~ Precedes(c, c, score)
    BY DEF Precedes
<1>2. \A c, d \in S : c # d => Precedes(c, d, score) \/ Precedes(d, c, score)
    BY DEF Precedes
<1>3. \A c, d, e \in S : Precedes(c, d, score) /\ Precedes(d, e, score) => Precedes(c, e, score)
    BY DEF Precedes
<1> QED BY <1>1, <1>2, <1>3

LEMMA CountUpTo ==
    ASSUME NEW n \in Nat
    PROVE  IsFiniteSet(0 .. n - 1) /\ Cardinality(0 .. n - 1) = n
<1>1. PICK m \in Int : m = n - 1
    OBVIOUS
<1>2. IsFiniteSet(0 .. m) /\ Cardinality(0 .. m) = IF 0 > m THEN 0 ELSE m - 0 + 1
    BY FS_Interval
<1> QED BY <1>1, <1>2

\* Every place of a ranking is taken by exactly one candidate, and every candidate has one.
LEMMA RankedEnumerates ==
    ASSUME NEW S \in SUBSET Nat, IsFiniteSet(S), NEW score, \A c \in S : score[c] \in Nat
    PROVE  Enumerates(Ranked(S, score), S) /\ Len(Ranked(S, score)) = Cardinality(S)
<1> DEFINE n == Cardinality(S)
           r == Ranked(S, score)
           F == [c \in S |-> Cardinality(Ahead(c, S, score))]
<1>1. n \in Nat
    BY FS_CardinalityType
<1>2. ASSUME NEW c \in S
      PROVE  IsFiniteSet(Ahead(c, S, score)) /\ F[c] \in 0 .. n - 1
    <2>1. Ahead(c, S, score) \in SUBSET (S \ {c})
        BY PrecedesIsTotal DEF Ahead
    <2>2. IsFiniteSet(S \ {c}) /\ Cardinality(S \ {c}) = n - 1
        BY FS_RemoveElement
    <2>3. IsFiniteSet(Ahead(c, S, score)) /\ Cardinality(Ahead(c, S, score)) <= n - 1
        BY <2>1, <2>2, FS_Subset
    <2> QED BY <1>1, <2>3, FS_CardinalityType
<1>3. ASSUME NEW c \in S, NEW d \in S, Precedes(c, d, score)
      PROVE  F[c] # F[d]
    <2>1. Ahead(c, S, score) \in SUBSET Ahead(d, S, score)
        BY <1>3, PrecedesIsTotal DEF Ahead
    <2>2. c \in Ahead(d, S, score) /\ c \notin Ahead(c, S, score)
        BY <1>3, PrecedesIsTotal DEF Ahead
    <2> QED BY <1>2, <2>1, <2>2, FS_Subset
<1>4. F \in Injection(S, 0 .. n - 1)
    <2>1. F \in [S -> 0 .. n - 1]
        BY <1>2
    <2>2. ASSUME NEW c \in S, NEW d \in S, F[c] = F[d] PROVE c = d
        <3>1. ~ Precedes(c, d, score) /\ ~ Precedes(d, c, score)
            BY <1>3, <2>2
        <3> QED BY <3>1, PrecedesIsTotal
    <2> HIDE DEF F
    <2> QED BY <2>1, <2>2 DEF Injection, IsInjective
<1>5. F \in Surjection(S, 0 .. n - 1)
    <2>1. IsFiniteSet(0 .. n - 1) /\ Cardinality(0 .. n - 1) = n
        BY <1>1, CountUpTo
    <2> HIDE DEF F
    <2> QED BY <1>4, <2>1, FS_Injection
<1>6. ASSUME NEW k \in 1 .. n
      PROVE  r[k] \in S /\ F[r[k]] = k - 1
    <2>1. PICK c \in S : F[c] = k - 1
        <3> HIDE DEF F, n
        <3>1. k - 1 \in 0 .. n - 1
            BY <1>1
        <3> QED BY <1>5, <3>1 DEF Surjection
    <2>2. r[k] = CHOOSE x \in S : Cardinality(Ahead(x, S, score)) = k - 1
        BY DEF Ranked
    <2> QED BY <2>1, <2>2
<1>7. r \in [1 .. n -> S] /\ Len(r) = n
    <2>1. r = [k \in 1 .. n |-> r[k]]
        BY DEF Ranked
    <2> HIDE DEF r, F
    <2>2. r \in [1 .. n -> S]
        BY <1>6, <2>1
    <2> QED BY <1>1, <2>2
<1>8. \A c \in S : \E k \in 1 .. n : r[k] = c
    <2> SUFFICES ASSUME NEW c \in S PROVE \E k \in 1 .. n : r[k] = c
        OBVIOUS
    <2>1. F[c] + 1 \in 1 .. n
        BY <1>1, <1>2
    <2>2. r[F[c] + 1] \in S /\ F[r[F[c] + 1]] = F[c]
        BY <1>1, <1>2, <1>6, <2>1
    <2>3. r[F[c] + 1] = c
        BY <1>4, <2>2 DEF Injection, IsInjective
    <2> QED BY <2>1, <2>3
<1>9. \A i, j \in 1 .. n : r[i] = r[j] => i = j
    <2> HIDE DEF F, r, n
    <2> QED BY <1>1, <1>6
<1> QED BY <1>1, <1>7, <1>8, <1>9 DEF Enumerates, DrawnFrom

LEMMA FirstIsDrawn ==
    ASSUME NEW S, NEW s, DrawnFrom(s, S), NEW n \in Nat
    PROVE  DrawnFrom(First(n, s), S)
<1> DEFINE m == IF Len(s) < n THEN Len(s) ELSE n
           f == SubSeq(s, 1, m)
<1>1. m \in Nat /\ m <= Len(s) /\ f = First(n, s)
    BY DEF DrawnFrom, First
<1> HIDE DEF m
<1>2. \A i \in 1 .. m : s[i] \in S
    BY <1>1 DEF DrawnFrom
<1>3. Len(f) = m /\ \A i \in 1 .. m : f[i] = s[i]
    <2>1. /\ Len(f) = IF 1 <= m THEN m - 1 + 1 ELSE 0
          /\ \A i \in 1 .. m - 1 + 1 : f[i] = s[1 + i - 1]
        BY <1>1, <1>2, SubSeqProperties
    <2> QED BY <1>1, <2>1
<1>4. f \in Seq(S)
    BY <1>1, <1>2, SubSeqProperties
<1>5. f \in [1 .. m -> S]
    BY <1>3, <1>4, LenProperties
<1> HIDE DEF f
<1> QED BY <1>1, <1>3, <1>5 DEF DrawnFrom

LEMMA ListedIsFinite ==
    ASSUME NEW S, NEW s, DrawnFrom(s, S)
    PROVE  IsFiniteSet(ToSet(s)) /\ ToSet(s) \in SUBSET S /\ DOMAIN s = 1 .. Len(s)
<1>1. ToSet(s) \in SUBSET S /\ DOMAIN s = 1 .. Len(s) /\ Len(s) \in Nat
    BY DEF DrawnFrom, ToSet
<1>2. s \in Surjection(DOMAIN s, ToSet(s))
    BY <1>1 DEF DrawnFrom, ToSet, Surjection
<1>3. IsFiniteSet(DOMAIN s)
    BY <1>1, FS_Interval
<1> QED BY <1>1, <1>2, <1>3, FS_Surjection

LEMMA RankInIs ==
    ASSUME NEW S, NEW s, DrawnFrom(s, S), NEW c
    PROVE  /\ RankIn(s, c) \in {0} \cup 1 .. Len(s)
           /\ c \in ToSet(s) <=> RankIn(s, c) # 0
           /\ RankIn(s, c) # 0 => s[RankIn(s, c)] = c
<1>1. DOMAIN s = 1 .. Len(s) /\ Len(s) \in Nat
    BY DEF DrawnFrom
<1>2. CASE c \in ToSet(s)
    <2>1. \E i \in DOMAIN s : s[i] = c
        BY <1>2 DEF ToSet
    <2>2. RankIn(s, c) = CHOOSE i \in DOMAIN s : s[i] = c
        BY <1>2 DEF RankIn
    <2>3. RankIn(s, c) \in DOMAIN s /\ s[RankIn(s, c)] = c
        BY <2>1, <2>2
    <2> QED BY <1>1, <1>2, <2>3
<1>3. CASE c \notin ToSet(s)
    BY <1>3 DEF RankIn
<1> QED BY <1>2, <1>3

LEMMA ShareIsNat ==
    ASSUME NEW S, NEW s, DrawnFrom(s, S), NEW c
    PROVE  Share(s, c) \in Nat
<1>1. RankIn(s, c) \in Nat
    BY RankInIs DEF DrawnFrom
<1>2. PICK r \in Nat : r = RankIn(s, c)
    BY <1>1
<1>3. CASE r = 0
    BY <1>2, <1>3 DEF Share
<1>4. CASE r # 0
    <2>1. Share(s, c) = Unit \div (RrfK + r)
        BY <1>2, <1>4 DEF Share
    <2>2. RrfK + r \in Nat \ {0} /\ Unit \in Nat
        BY <1>4, RetrievalAssumption
    <2> QED BY <2>1, <2>2
<1> QED BY <1>3, <1>4

LEMMA RankingIsDrawn ==
    ASSUME NEW S \in SUBSET Nat, NEW R \in SUBSET S, IsFiniteSet(R), NEW score,
           \A c \in R : score[c] \in Nat, NEW n \in Nat
    PROVE  DrawnFrom(First(n, Ranked(R, score)), S)
<1>1. DrawnFrom(Ranked(R, score), R)
    BY RankedEnumerates DEF Enumerates
<1>2. DrawnFrom(Ranked(R, score), S)
    BY <1>1 DEF DrawnFrom
<1> QED BY <1>2, FirstIsDrawn

\* The numbered passages, and the log that says where each of them came from.
ArePassages(hits, rows, S) ==
    /\ DrawnFrom(hits, S)
    /\ Len(rows) \in Nat /\ DOMAIN rows = 1 .. Len(rows)
    /\ \A i \in DOMAIN rows :
          /\ rows[i].chunk \in S
          /\ rows[i].final \in {0} \cup DOMAIN hits
          /\ rows[i].final # 0 => rows[i].chunk = hits[rows[i].final]
    /\ \A n \in DOMAIN hits : \E i \in DOMAIN rows : rows[i].final = n
    /\ \A i, j \in DOMAIN rows : rows[i].chunk = rows[j].chunk => i = j

LEMMA LogOfPassages ==
    ASSUME NEW S, NEW cs, DrawnFrom(cs, S), NEW hits, DrawnFrom(hits, ToSet(cs)), NEW kw, NEW dn
    PROVE  ArePassages(hits, HitRows(kw, dn, cs, hits), S)
<1> DEFINE rows == HitRows(kw, dn, cs, hits)
<1>1. /\ DOMAIN cs = 1 .. Len(cs) /\ Len(cs) \in Nat /\ ToSet(cs) \in SUBSET S
      /\ DOMAIN hits = 1 .. Len(hits) /\ Len(hits) \in Nat
    BY DEF DrawnFrom, ToSet
<1>2. /\ DOMAIN rows = DOMAIN cs /\ Len(rows) = Len(cs)
      /\ \A i \in DOMAIN cs : rows[i].chunk = cs[i] /\ rows[i].final = RankIn(hits, cs[i])
    BY <1>1 DEF HitRows
<1>3. DrawnFrom(hits, S)
    BY <1>1 DEF DrawnFrom
<1> HIDE DEF rows
<1>4. ASSUME NEW i \in DOMAIN rows
      PROVE  /\ rows[i].chunk \in S
             /\ rows[i].final \in {0} \cup DOMAIN hits
             /\ rows[i].final # 0 => rows[i].chunk = hits[rows[i].final]
    <2>1. rows[i].chunk = cs[i] /\ rows[i].final = RankIn(hits, cs[i]) /\ cs[i] \in S
        BY <1>1, <1>2 DEF DrawnFrom
    <2> QED BY <1>1, <2>1, RankInIs
<1>5. ASSUME NEW n \in DOMAIN hits
      PROVE  \E i \in DOMAIN rows : rows[i].final = n
    <2>1. hits[n] \in ToSet(cs)
        BY <1>1 DEF DrawnFrom
    <2>2. PICK i \in DOMAIN cs : cs[i] = hits[n]
        BY <2>1 DEF ToSet
    <2>3. hits[n] \in ToSet(hits)
        BY DEF ToSet
    <2>4. RankIn(hits, hits[n]) \in 1 .. Len(hits) /\ hits[RankIn(hits, hits[n])] = hits[n]
        BY <2>3, RankInIs
    <2>5. RankIn(hits, hits[n]) = n
        BY <1>1, <2>4 DEF DrawnFrom
    <2> QED BY <1>2, <2>2, <2>5
<1>6. \A i, j \in DOMAIN rows : rows[i].chunk = rows[j].chunk => i = j
    BY <1>1, <1>2 DEF DrawnFrom
<1>7. ArePassages(hits, rows, S)
    BY <1>1, <1>2, <1>3, <1>4, <1>5, <1>6 DEF ArePassages
<1> QED BY <1>7 DEF rows

LEMMA PassagesAreFound ==
    ASSUME NEW S \in SUBSET DOMAIN Chunks, NEW kw, DrawnFrom(kw, S), NEW dn, DrawnFrom(dn, S),
           NEW rerank \in [DOMAIN Chunks -> Nat], NEW cs, cs = Candidates(kw, dn)
    PROVE  ArePassages(Hits(cs, rerank), HitRows(kw, dn, cs, Hits(cs, rerank)), S)
<1> DEFINE R == ToSet(kw) \cup ToSet(dn)
<1>1. S \in SUBSET Nat
    BY KnowledgeBaseAssumption
<1>2. R \in SUBSET S /\ IsFiniteSet(R)
    BY ListedIsFinite, FS_Union
<1>3. \A c \in R : Fused(kw, dn)[c] \in Nat
    <2>1. \A c \in R : Share(kw, c) \in Nat /\ Share(dn, c) \in Nat
        BY ShareIsNat
    <2> QED BY <2>1 DEF Fused
<1>4. DrawnFrom(cs, S)
    <2> HIDE DEF R
    <2>1. DrawnFrom(First(NCandidates, Ranked(R, Fused(kw, dn))), S)
        BY <1>1, <1>2, <1>3, RankingIsDrawn, RetrievalAssumption
    <2> QED BY <2>1 DEF Candidates, R
<1>5. ToSet(cs) \in SUBSET S /\ IsFiniteSet(ToSet(cs))
    BY <1>4, ListedIsFinite
<1>6. \A c \in ToSet(cs) : rerank[c] \in Nat
    BY <1>5
<1>7. ToSet(cs) \in SUBSET Nat
    BY <1>1, <1>5
<1>8. DrawnFrom(Hits(cs, rerank), ToSet(cs))
    BY <1>5, <1>6, <1>7, RankingIsDrawn, RetrievalAssumption DEF Hits
<1> QED BY <1>4, <1>8, LogOfPassages

----------------------------------------------------------------------------
(* The knowledge base *)

\* What embed_knowledge_base.py does not enforce: a file that is moved to the folder of
\* another department keeps its row, and its row the old department.
FilesKeepTheirDepartment ==
    \A a \in Articles, l \in Loads : HasFile(l, a) => FileOf[l][a].dept = InitialKB[a].dept

LEMMA LoadsAreNumbers ==
    /\ \A l \in Loads : l \in Nat /\ l # 0
    /\ \A l \in Loads : FileOf[l] \in [Articles -> ArticleRow]
    /\ DOMAIN PathOrder = 1 .. Len(PathOrder) /\ Len(PathOrder) \in Nat
    /\ \A k \in DOMAIN PathOrder : PathOrder[k] \in Articles
<1>1. /\ Len(FileOf) \in Nat /\ DOMAIN FileOf = 1 .. Len(FileOf)
      /\ FileOf \in [1 .. Len(FileOf) -> [Articles -> ArticleRow]]
    BY KnowledgeBaseAssumption, LenProperties
<1>2. /\ Len(PathOrder) \in Nat /\ DOMAIN PathOrder = 1 .. Len(PathOrder)
      /\ PathOrder \in [1 .. Len(PathOrder) -> Articles]
    BY KnowledgeBaseAssumption, LenProperties
<1> QED BY <1>1, <1>2 DEF Loads

\* A row is the one of the load it names, or that of load 0.
RowIsSound(row, a) ==
    /\ row.state = "absent" => row = InitialKB[a]
    /\ row.state = "present" =>
          /\ FilesKeepTheirDepartment => row.dept = InitialKB[a].dept
          /\ row.load = 0 /\ a \in ToSet(PathOrder) => row.served = InitialKB[a].served
          /\ row.load # 0 => HasFile(row.load, a) /\ row.served = FileOf[row.load][a].served

\* The articles whose files the load in progress has read.
Visited ==
    IF ingest.pc = "loading" THEN {PathOrder[k] : k \in {i \in DOMAIN PathOrder : i < ingest.next}}
    ELSE IF ingest.pc = "pruning" THEN Articles
    ELSE {}

\* No row is older than a committed load that had a file for it.
NoneIsOutdated ==
    \A a, b \in Articles :
        Exists(a) /\ Exists(b) /\ kb[a].load < kb[b].load => ~ HasFile(kb[b].load, a)

LoadIsComplete ==
    /\ ingest.next # 0
    /\ \A a \in Visited :
          Present(a) => /\ ingest.pending[a].load = ingest.load /\ ingest.pending[a].state = "present"
                        /\ Exists(a) => a \in ingest.deleted
    /\ \A a \in ingest.deleted : ~ Present(a) => ingest.pending[a].state = "pruned"
    /\ \A a \in ingest.stale \cup ingest.row : ~ Present(a)
    /\ ingest.pc = "idle" => ingest.deleted = {}
    /\ ingest.pc # "idle" => ingest.load \in Loads

KBTyped == kb \in [Articles -> ArticleRow] /\ ingest \in IngestRow

KBInv ==
    /\ KBTyped
    /\ \A a \in Articles : RowIsSound(kb[a], a) /\ RowIsSound(ingest.pending[a], a)
    /\ \A a \in Articles : Exists(a) => kb[a].load <= ingest.load
    /\ NoneIsOutdated
    /\ LoadIsComplete

\* What the run references is there, and the load has not deleted it.
HeldInv ==
    /\ held \in SUBSET Articles
    /\ \A a \in held : Exists(a) /\ a \notin ingest.deleted

LEMMA KBStarts == KBInit => KBInv /\ HeldInv
<1> SUFFICES ASSUME KBInit PROVE KBInv /\ HeldInv
    OBVIOUS
<1> USE DEF KBInit
<1>1. KBTyped
    BY KnowledgeBaseAssumption DEF KBTyped, IngestRow
<1>2. \A a \in Articles : InitialKB[a].load = 0 /\ InitialKB[a].state # "pruned" /\ kb[a] = InitialKB[a]
    BY KnowledgeBaseAssumption
<1>3. \A a \in Articles : RowIsSound(kb[a], a) /\ RowIsSound(ingest.pending[a], a)
    BY <1>2 DEF RowIsSound
<1>4. (\A a \in Articles : Exists(a) => kb[a].load <= ingest.load) /\ NoneIsOutdated
    BY <1>2 DEF NoneIsOutdated
<1>5. LoadIsComplete
    BY DEF LoadIsComplete, Visited
<1> QED BY <1>1, <1>3, <1>4, <1>5 DEF KBInv, HeldInv

LEMMA CreateKeepsKB ==
    ASSUME KBInv, NEW a \in Articles, NEW source \in Sources, CreateArticle(a, source)
    PROVE  KBInv' /\ \A b \in Articles : Exists(b) => kb'[b] = kb[b]
<1> DEFINE row == [kb[a] EXCEPT !.state = "present", !.served = TRUE, !.source = source]
<1>1. /\ kb[a] = InitialKB[a] /\ kb[a].state = "absent" /\ kb[a].load = 0 /\ kb[a] \in ArticleRow
      /\ a \notin ToSet(PathOrder) /\ \A l \in Loads : ~ HasFile(l, a)
    <2>1. kb[a] = InitialKB[a] /\ kb[a].state = "absent" /\ \A l \in Loads : ~ HasFile(l, a)
        BY DEF KBInv, RowIsSound, CreateArticle
    <2> QED BY <2>1, KnowledgeBaseAssumption DEF ToSet
<1>2. /\ row \in ArticleRow /\ row.state = "present" /\ row.load = 0 /\ row.dept = InitialKB[a].dept
      /\ RowIsSound(row, a)
    <2>1. row \in ArticleRow
        BY <1>1, KnowledgeBaseAssumption DEF ArticleRow
    <2>2. row.state = "present" /\ row.load = 0 /\ row.dept = InitialKB[a].dept
        BY <1>1 DEF ArticleRow
    <2> QED BY <1>1, <2>1, <2>2 DEF RowIsSound
<1>3. kb' = [kb EXCEPT ![a] = row] /\ ingest' = ingest
    BY DEF CreateArticle
<1> HIDE DEF row
<1>4. KBTyped'
    BY <1>2, <1>3 DEF KBInv, KBTyped
<1>5. kb'[a] = row /\ \A b \in Articles \ {a} : kb'[b] = kb[b]
    BY <1>3 DEF KBInv, KBTyped
<1>6. \A b \in Articles : RowIsSound(kb'[b], b) /\ RowIsSound(ingest'.pending[b], b)
    BY <1>2, <1>3, <1>5 DEF KBInv
<1>7. ingest.load \in Nat
    <2>1. ingest.load \in Loads \cup {0}
        BY DEF KBInv, KBTyped, IngestRow
    <2> QED BY <2>1, LoadsAreNumbers
<1>8. \A b \in Articles : kb'[b].state = "present" => kb'[b].load <= ingest'.load
    BY <1>2, <1>3, <1>5, <1>7 DEF KBInv, Exists
<1>9. NoneIsOutdated'
    <2> SUFFICES ASSUME NEW b \in Articles, NEW d \in Articles, kb'[b].state = "present",
                        kb'[d].state = "present", kb'[b].load < kb'[d].load
                 PROVE  ~ HasFile(kb'[d].load, b)
        BY DEF NoneIsOutdated, Exists
    <2>1. kb'[b] \in ArticleRow /\ kb'[d] \in ArticleRow
        BY <1>4 DEF KBTyped
    <2>2. kb'[b].load \in Loads \cup {0} /\ kb'[d].load \in Loads \cup {0}
        BY <2>1 DEF ArticleRow
    <2>3. kb'[b].load \in Nat /\ kb'[d].load \in Loads
        BY <2>2, LoadsAreNumbers
    <2>4. d # a
        BY <1>2, <1>5, <2>3
    <2>5. CASE b = a
        BY <1>1, <2>3, <2>5
    <2>6. CASE b # a
        BY <1>5, <2>4, <2>6 DEF KBInv, NoneIsOutdated, Exists
    <2> QED BY <2>5, <2>6
<1>10. LoadIsComplete'
    <2>1. \A b \in Articles : Present(b)' <=> Present(b)
        BY <1>3 DEF Present
    <2>2. Visited' = Visited /\ Visited \in SUBSET Articles
        BY <1>3, LoadsAreNumbers DEF Visited
    <2>3. ingest.load \in Loads \/ ingest.pc = "idle"
        BY DEF KBInv, LoadIsComplete
    <2>4. \A b \in Visited : Present(b) => b # a
        <3>1. CASE ingest.pc = "idle"
            BY <3>1 DEF Visited
        <3>2. CASE ingest.load \in Loads
            BY <1>1, <3>2 DEF Present
        <3> QED BY <2>3, <3>1, <3>2
    <2>5. /\ ingest.deleted \in SUBSET Articles /\ ingest.stale \in SUBSET Articles
          /\ ingest.row \in SUBSET Articles
        BY DEF KBInv, KBTyped, IngestRow
    <2> QED BY <1>3, <1>5, <2>1, <2>2, <2>4, <2>5 DEF KBInv, LoadIsComplete, Exists
<1>11. \A b \in Articles : Exists(b) => kb'[b] = kb[b]
    BY <1>1, <1>5 DEF Exists
<1> QED BY <1>4, <1>6, <1>8, <1>9, <1>10, <1>11 DEF KBInv, Exists

LEMMA LoadNumbers ==
    ASSUME KBTyped
    PROVE  ingest.load \in Nat /\ \A a \in Articles : kb[a].load \in Nat /\ ingest.pending[a].load \in Nat
<1>1. ingest.load \in Loads \cup {0} /\ ingest.pending \in [Articles -> ArticleRow]
    BY DEF KBTyped, IngestRow
<1>2. \A a \in Articles : kb[a].load \in Loads \cup {0} /\ ingest.pending[a].load \in Loads \cup {0}
    BY <1>1 DEF KBTyped, ArticleRow
<1> QED BY <1>1, <1>2, LoadsAreNumbers

\* A step of the load before it commits: nothing of it is in kb.
LEMMA KBIsUntouched ==
    ASSUME KBInv, kb' = kb, ingest' \in IngestRow, ingest.load <= ingest'.load,
           \A a \in Articles : RowIsSound(ingest'.pending[a], a), LoadIsComplete'
    PROVE  KBInv'
<1>1. KBTyped' /\ NoneIsOutdated'
    BY DEF KBInv, KBTyped, NoneIsOutdated, Exists
<1>2. ingest'.load \in Nat
    BY <1>1, LoadsAreNumbers DEF KBTyped, IngestRow
<1>3. \A a \in Articles : kb[a].load \in Nat /\ ingest.load \in Nat
    BY LoadNumbers DEF KBInv
<1>4. \A a \in Articles : Exists(a)' => kb'[a].load <= ingest'.load
    BY <1>2, <1>3 DEF KBInv, Exists
<1>5. \A a \in Articles : RowIsSound(kb'[a], a)
    BY DEF KBInv
<1> QED BY <1>1, <1>4, <1>5 DEF KBInv

LEMMA StartKeepsKB ==
    ASSUME KBInv, NEW prune \in BOOLEAN, StartIngest(prune)
    PROVE  KBInv'
<1>1. /\ kb' = kb /\ ingest \in IngestRow /\ kb \in [Articles -> ArticleRow] /\ ingest.load \in Nat
      /\ ingest.load + 1 \in Loads
    BY LoadNumbers DEF KBInv, KBTyped, StartIngest
<1>2. /\ ingest'.pc = "loading" /\ ingest'.load = ingest.load + 1 /\ ingest'.next = 1
      /\ ingest'.pending = kb /\ ingest'.deleted = {} /\ ingest'.stale = {} /\ ingest'.row = {}
      /\ ingest' \in IngestRow
    BY <1>1 DEF StartIngest, IngestRow
<1>3. Visited' = {}
    BY <1>2, LoadsAreNumbers DEF Visited
<1>4. LoadIsComplete'
    BY <1>1, <1>2, <1>3 DEF LoadIsComplete
<1> QED BY <1>1, <1>2, <1>4, KBIsUntouched DEF KBInv

LEMMA LoadArticleKeepsKB ==
    ASSUME KBInv, NEW a \in Articles, LoadArticle(a)
    PROVE  KBInv'
<1> DEFINE row == Upserted(a)
           L == ingest.load
<1>1. /\ kb' = kb /\ ingest \in IngestRow /\ kb \in [Articles -> ArticleRow]
      /\ ingest.pending \in [Articles -> ArticleRow] /\ ingest.next \in Nat
      /\ ingest.pc = "loading" /\ L \in Loads /\ L \in Nat /\ ingest.deleted \in SUBSET Articles
    BY LoadNumbers DEF KBInv, KBTyped, LoadArticle, IngestRow, LoadIsComplete
<1>2. ingest.next \in DOMAIN PathOrder /\ PathOrder[ingest.next] = a
    BY DEF LoadArticle, AtArticle
<1>3. /\ ingest'.pc = "loading" /\ ingest'.load = L /\ ingest'.next = ingest.next + 1
      /\ ingest'.stale = ingest.stale /\ ingest'.row = ingest.row /\ ingest' \in IngestRow
      /\ ingest'.pending = IF Present(a) THEN [ingest.pending EXCEPT ![a] = row] ELSE ingest.pending
      /\ ingest'.deleted = ingest.deleted \cup {b \in {a} : Present(a) /\ Exists(b)}
    <2>1. FileOf[L] \in [Articles -> ArticleRow]
        BY <1>1, LoadsAreNumbers
    <2>2. row \in ArticleRow
        BY <1>1, <2>1 DEF Upserted, ArticleRow
    <2> HIDE DEF row
    <2>3. CASE Present(a)
        <3> DEFINE rows == [ingest.pending EXCEPT ![a] = row]
                   gone == ingest.deleted \cup {b \in {a} : Exists(b)}
        <3>1. ingest' = [ingest EXCEPT !.next = @ + 1, !.pending = rows, !.deleted = gone]
            BY <2>3 DEF LoadArticle, row
        <3>2. rows \in [Articles -> ArticleRow] /\ gone \in SUBSET Articles
            BY <1>1, <2>2
        <3>3. gone = ingest.deleted \cup {b \in {a} : Present(a) /\ Exists(b)}
            BY <2>3
        <3> HIDE DEF rows, gone
        <3>4. /\ ingest'.pc = "loading" /\ ingest'.load = L /\ ingest'.next = ingest.next + 1
              /\ ingest'.stale = ingest.stale /\ ingest'.row = ingest.row /\ ingest' \in IngestRow
              /\ ingest'.pending = rows /\ ingest'.deleted = gone
            <4>1. ingest.next + 1 \in Nat
                BY <1>1
            <4>2. ingest' \in IngestRow
                BY ONLY <1>1, <3>1, <3>2, <4>1 DEF IngestRow
            <4> QED BY ONLY <1>1, <3>1, <4>2 DEF IngestRow
        <3> QED BY <2>3, <3>3, <3>4 DEF rows
    <2>4. CASE ~ Present(a)
        BY <1>1, <2>4 DEF LoadArticle, IngestRow
    <2> QED BY <2>3, <2>4
<1>4. Present(a) => row.state = "present" /\ row.load = L /\ RowIsSound(row, a)
    <2> SUFFICES ASSUME Present(a) PROVE row.state = "present" /\ row.load = L /\ RowIsSound(row, a)
        OBVIOUS
    <2>1. /\ FileOf[L][a] \in ArticleRow /\ FileOf[L][a].state = "present" /\ HasFile(L, a)
          /\ FileOf[L][a].load = L
        BY <1>1, LoadsAreNumbers, KnowledgeBaseAssumption DEF Present, HasFile
    <2>2. /\ row.state = "present" /\ row.load = L /\ row.served = FileOf[L][a].served
          /\ row.dept = IF Exists(a) THEN kb[a].dept ELSE FileOf[L][a].dept
        BY <2>1 DEF Upserted, ArticleRow
    <2> HIDE DEF row
    <2>3. FilesKeepTheirDepartment => row.dept = InitialKB[a].dept
        BY <1>1, <2>1, <2>2 DEF FilesKeepTheirDepartment, KBInv, RowIsSound, Exists
    <2> QED BY <1>1, <2>1, <2>2, <2>3, LoadsAreNumbers DEF RowIsSound
<1> HIDE DEF row
<1>5. \A b \in Articles : RowIsSound(ingest'.pending[b], b)
    BY <1>1, <1>3, <1>4 DEF KBInv
<1>6. \A b \in Articles : (Present(b)' <=> Present(b)) /\ (Exists(b)' <=> Exists(b))
    BY <1>1, <1>3 DEF Present, Exists
<1>7. \A b \in Visited' : b \in Articles /\ (b = a \/ b \in Visited)
    BY <1>1, <1>2, <1>3, LoadsAreNumbers DEF Visited
<1>8. LoadIsComplete'
    <2>1. ingest'.next # 0
        BY <1>1, <1>3
    <2>2. ASSUME NEW b \in Visited', Present(b)
          PROVE  /\ ingest'.pending[b].load = L /\ ingest'.pending[b].state = "present"
                 /\ Exists(b) => b \in ingest'.deleted
        <3>1. CASE b = a
            <4>1. ingest'.pending = [ingest.pending EXCEPT ![a] = row] /\ (Exists(a) => a \in ingest'.deleted)
                BY <1>3, <2>2, <3>1
            <4>2. ingest'.pending[a] = row
                BY <1>1, <4>1
            <4> QED BY <1>4, <2>2, <3>1, <4>1, <4>2
        <3>2. CASE b # a
            BY <1>1, <1>3, <1>7, <2>2, <3>2 DEF KBInv, LoadIsComplete
        <3> QED BY <3>1, <3>2
    <2>3. \A b \in ingest'.deleted : ~ Present(b) => ingest'.pending[b].state = "pruned"
        BY <1>1, <1>3 DEF KBInv, LoadIsComplete
    <2>4. \A b \in ingest'.stale \cup ingest'.row : b \in Articles /\ ~ Present(b)
        BY <1>1, <1>3 DEF KBInv, LoadIsComplete, IngestRow
    <2>5. ingest'.deleted \in SUBSET Articles
        BY <1>3 DEF IngestRow
    <2> QED BY <1>1, <1>3, <1>6, <1>7, <2>1, <2>2, <2>3, <2>4, <2>5 DEF LoadIsComplete
<1> QED BY <1>1, <1>3, <1>5, <1>8, KBIsUntouched

LEMMA FindStaleKeepsKB ==
    ASSUME KBInv, FindStale
    PROVE  KBInv'
<1> DEFINE found == IF ingest.prune THEN Stale ELSE {}
<1>1. /\ kb' = kb /\ ingest \in IngestRow /\ ingest.load \in Nat /\ ingest.next \in Nat
      /\ ingest.pc = "loading" /\ ingest.next \notin DOMAIN PathOrder /\ ingest.next # 0
      /\ found \in SUBSET Articles /\ \A a \in found : ~ Present(a)
    BY LoadNumbers DEF KBInv, KBTyped, FindStale, IngestRow, LoadIsComplete, Stale
<1>2. PICK row \in NextRows(found) :
          ingest' = [ingest EXCEPT !.pc = "pruning", !.stale = found, !.row = row]
    BY DEF FindStale
<1>0. row \in SUBSET found
    BY DEF NextRows
<1> HIDE DEF found
<1>3. /\ ingest'.pc = "pruning" /\ ingest'.load = ingest.load /\ ingest'.next = ingest.next
      /\ ingest'.pending = ingest.pending /\ ingest'.deleted = ingest.deleted /\ ingest'.stale = found /\ ingest'.row = row
      /\ ingest' \in IngestRow
    BY <1>0, <1>1, <1>2 DEF IngestRow
<1>4. \A a \in Articles : Present(a) => a \in Visited
    <2> SUFFICES ASSUME NEW a \in Articles, Present(a) PROVE a \in Visited
        OBVIOUS
    <2>1. ingest.load \in Loads
        BY <1>1 DEF KBInv, LoadIsComplete
    <2>2. PICK k \in DOMAIN PathOrder : PathOrder[k] = a
        BY <2>1, KnowledgeBaseAssumption DEF Present
    <2>3. k < ingest.next
        BY <1>1, LoadsAreNumbers
    <2> QED BY <1>1, <2>2, <2>3 DEF Visited
<1>5. \A a \in Articles : (Present(a)' <=> Present(a)) /\ (Exists(a)' <=> Exists(a))
    BY <1>1, <1>3 DEF Present, Exists
<1>6. Visited' = Articles
    BY <1>3 DEF Visited
<1>7. ingest'.deleted \in SUBSET Articles
    BY <1>3 DEF IngestRow
<1>8. LoadIsComplete'
    BY <1>0, <1>1, <1>3, <1>4, <1>5, <1>6, <1>7 DEF KBInv, LoadIsComplete
<1> QED BY <1>1, <1>3, <1>8, KBIsUntouched DEF KBInv

LEMMA PruneKeepsKB ==
    ASSUME KBInv, PruneArticle
    PROVE  KBInv'
<1> DEFINE rows == [a \in Articles |-> IF a \in ingest.row THEN [ingest.pending[a] EXCEPT !.state = "pruned"]
                                       ELSE ingest.pending[a]]
           gone == ingest.deleted \cup ingest.row
           left == ingest.stale \ ingest.row
<1>1. /\ kb' = kb /\ ingest \in IngestRow /\ ingest.load \in Nat /\ ingest.pc = "pruning"
      /\ ingest.pending \in [Articles -> ArticleRow]
      /\ ingest.deleted \in SUBSET Articles /\ ingest.stale \in SUBSET Articles
      /\ ingest.row \in SUBSET Articles
    BY LoadNumbers DEF KBInv, KBTyped, PruneArticle, IngestRow
<1>2. PICK row \in NextRows(left) :
          ingest' = [ingest EXCEPT !.stale = left, !.row = row, !.deleted = gone, !.pending = rows]
    BY DEF PruneArticle
<1>0. left \in SUBSET ingest.stale /\ row \in SUBSET left
    BY DEF NextRows
<1> HIDE DEF left
<1>3. \A a \in Articles :
          /\ rows[a] \in ArticleRow
          /\ a \in ingest.row => rows[a].state = "pruned"
          /\ a \notin ingest.row => rows[a] = ingest.pending[a]
    BY <1>1 DEF ArticleRow
<1>4. rows \in [Articles -> ArticleRow] /\ gone \in SUBSET Articles
    BY <1>1, <1>3
<1> HIDE DEF rows
<1>5. \A a \in Articles : RowIsSound(rows[a], a)
    BY <1>3 DEF KBInv, RowIsSound
<1> HIDE DEF gone
<1>6. ingest' \in IngestRow
    BY ONLY <1>0, <1>1, <1>2, <1>4 DEF IngestRow
<1>7. /\ ingest'.pc = "pruning" /\ ingest'.load = ingest.load /\ ingest'.next = ingest.next
      /\ ingest'.pending = rows /\ ingest'.deleted = gone /\ ingest'.stale = left /\ ingest'.row = row
    BY <1>1, <1>2 DEF IngestRow
<1>8. \A a \in Articles : (Present(a)' <=> Present(a)) /\ (Exists(a)' <=> Exists(a))
    BY <1>1, <1>7 DEF Present, Exists
<1>9. Visited' = Articles /\ Visited = Articles
    BY <1>1, <1>7 DEF Visited
<1>10. LoadIsComplete'
    <2>1. \A a \in Articles : Present(a) => a \notin ingest.row
        BY DEF KBInv, LoadIsComplete
    <2>2. \A a \in Articles : Present(a) => /\ rows[a].load = ingest.load /\ rows[a].state = "present"
                                            /\ Exists(a) => a \in gone
        BY <1>3, <1>9, <2>1 DEF KBInv, LoadIsComplete, gone
    <2>3. \A a \in gone : ~ Present(a) => rows[a].state = "pruned"
        BY <1>1, <1>3 DEF KBInv, LoadIsComplete, gone
    <2>4. ingest.next # 0 /\ ingest.load \in Loads
        BY <1>1 DEF KBInv, LoadIsComplete
    <2>5. \A a \in Visited' : Present(a)' => /\ ingest'.pending[a].load = ingest'.load
                                             /\ ingest'.pending[a].state = "present"
                                             /\ Exists(a)' => a \in ingest'.deleted
        BY <1>7, <1>8, <1>9, <2>2
    <2>6. \A a \in ingest'.deleted : ~ Present(a)' => ingest'.pending[a].state = "pruned"
        BY <1>4, <1>7, <1>8, <2>3
    <2>7. /\ ingest'.next # 0
          /\ \A a \in ingest'.stale \cup ingest'.row : ~ Present(a)'
          /\ ingest'.pc = "idle" => ingest'.deleted = {}
          /\ ingest'.pc # "idle" => ingest'.load \in Loads
        BY <1>0, <1>1, <1>7, <1>8, <2>4 DEF KBInv, LoadIsComplete
    <2> QED BY ONLY <2>5, <2>6, <2>7 DEF LoadIsComplete
<1> QED BY <1>1, <1>5, <1>6, <1>7, <1>10, KBIsUntouched

LEMMA FailKeepsKB ==
    ASSUME KBInv, FailIngest
    PROVE  KBInv'
<1>1. /\ kb' = kb /\ ingest \in IngestRow /\ ingest.load \in Nat
    BY LoadNumbers DEF KBInv, KBTyped, FailIngest
<1>2. /\ ingest'.pc = "idle" /\ ingest'.load = ingest.load /\ ingest'.next = ingest.next
      /\ ingest'.pending = ingest.pending /\ ingest'.deleted = {} /\ ingest'.stale = {}
      /\ ingest'.row = {}
      /\ ingest' \in IngestRow
    BY <1>1 DEF FailIngest, IngestRow
<1>3. Visited' = {}
    BY <1>2 DEF Visited
<1>4. LoadIsComplete'
    BY <1>2, <1>3 DEF KBInv, LoadIsComplete
<1> QED BY <1>1, <1>2, <1>4, KBIsUntouched DEF KBInv

\* What a commit leaves of the rows: the load's own, or what was there.
LEMMA CommittedRows ==
    ASSUME KBInv, CommitIngest, NEW a \in Articles
    PROVE  /\ kb'[a] \in {kb[a], ingest.pending[a]}
           /\ Present(a) => kb'[a].load = ingest.load /\ kb'[a].state = "present"
           /\ ~ Present(a) /\ kb'[a].state = "present" => kb'[a] = kb[a]
<1>1. kb'[a] = IF Present(a) \/ a \in ingest.deleted THEN ingest.pending[a] ELSE kb[a]
    BY DEF CommitIngest
<1>2. Present(a) => ingest.pending[a].load = ingest.load /\ ingest.pending[a].state = "present"
    BY DEF KBInv, LoadIsComplete, Visited, CommitIngest
<1>3. ~ Present(a) /\ a \in ingest.deleted => ingest.pending[a].state = "pruned"
    BY DEF KBInv, LoadIsComplete
<1> QED BY <1>1, <1>2, <1>3

LEMMA CommitKeepsKB ==
    ASSUME KBInv, CommitIngest
    PROVE  KBInv'
<1>1. /\ ingest \in IngestRow /\ ingest.load \in Nat /\ kb \in [Articles -> ArticleRow]
      /\ ingest.pending \in [Articles -> ArticleRow]
      /\ \A a \in Articles : kb[a].load \in Nat /\ ingest.pending[a].load \in Nat
    BY LoadNumbers DEF KBInv, KBTyped, IngestRow
<1>2. /\ ingest'.pc = "idle" /\ ingest'.load = ingest.load /\ ingest'.next = ingest.next
      /\ ingest'.pending = ingest.pending /\ ingest'.deleted = {} /\ ingest'.stale = {}
      /\ ingest'.row = ingest.row
      /\ ingest' \in IngestRow
    BY <1>1 DEF CommitIngest, IngestRow
<1>3. \A a \in Articles : kb'[a] \in ArticleRow /\ RowIsSound(kb'[a], a)
    BY <1>1, CommittedRows DEF KBInv
<1>4. KBTyped'
    <2>1. kb' = [a \in Articles |-> IF Present(a) \/ a \in ingest.deleted THEN ingest.pending[a] ELSE kb[a]]
        BY DEF CommitIngest
    <2>2. kb' \in [Articles -> ArticleRow]
        BY <1>1, <2>1
    <2> QED BY <1>2, <2>2 DEF KBTyped
<1>5. \A a \in Articles : kb'[a].state = "present" => kb'[a].load <= ingest.load
    BY <1>1, CommittedRows DEF KBInv, Exists
<1>6. NoneIsOutdated'
    <2> SUFFICES ASSUME NEW a \in Articles, NEW b \in Articles, kb'[a].state = "present",
                        kb'[b].state = "present", kb'[a].load < kb'[b].load
                 PROVE  ~ HasFile(kb'[b].load, a)
        BY DEF NoneIsOutdated, Exists
    <2>1. ~ Present(a) /\ kb'[a] = kb[a] /\ Exists(a)
        <3>1. kb'[b] \in {kb[b], ingest.pending[b]}
            BY CommittedRows
        <3>2. kb'[b].load <= ingest.load /\ kb'[b].load \in Nat
            BY <1>1, <1>5, <3>1
        <3>3. Present(a) => kb'[a].load = ingest.load
            BY CommittedRows
        <3>4. ~ Present(a)
            BY <1>1, <3>2, <3>3
        <3> QED BY <3>4, CommittedRows DEF Exists
    <2>2. CASE Present(b)
        BY <2>1, <2>2, CommittedRows DEF Present
    <2>3. CASE ~ Present(b)
        <3>1. kb'[b] = kb[b] /\ Exists(b)
            BY <2>3, CommittedRows DEF Exists
        <3> QED BY <2>1, <3>1 DEF KBInv, NoneIsOutdated
    <2> QED BY <2>2, <2>3
<1>7. LoadIsComplete'
    <2>1. \A a : Present(a)' <=> Present(a)
        BY <1>2 DEF Present
    <2>2. Visited' = {} /\ ingest.next # 0 /\ \A a \in ingest.row : ~ Present(a)
        BY <1>2 DEF KBInv, LoadIsComplete, Visited
    <2> QED BY <1>2, <2>1, <2>2 DEF LoadIsComplete
<1> QED BY <1>2, <1>3, <1>4, <1>5, <1>6, <1>7 DEF KBInv, Exists

LEMMA KBStays ==
    ASSUME KBInv, KBNext
    PROVE  KBInv'
BY CreateKeepsKB, StartKeepsKB, LoadArticleKeepsKB, FindStaleKeepsKB, PruneKeepsKB, CommitKeepsKB, FailKeepsKB
   DEF KBNext, IngestStep

\* No load deletes or replaces a row that the run references before the run ends.
LEMMA HeldRowsStay ==
    ASSUME KBInv, HeldInv, KBNext
    PROVE  HeldInv' /\ \A a \in held : kb'[a] = kb[a]
<1> DEFINE Same == held' = held /\ \A a \in held : kb'[a] = kb[a] /\ a \notin ingest'.deleted
<1>1. Same => HeldInv' /\ \A a \in held : kb'[a] = kb[a]
    BY DEF HeldInv, Exists
<1>2. ingest \in IngestRow
    BY DEF KBInv, KBTyped
<1>3. ASSUME NEW a \in Articles, NEW source \in Sources, CreateArticle(a, source)
      PROVE  Same
    BY <1>3, CreateKeepsKB DEF HeldInv, CreateArticle
<1>4. ASSUME NEW prune \in BOOLEAN, StartIngest(prune)
      PROVE  Same
    <2>1. ingest'.deleted = {}
        BY <1>2, <1>4 DEF StartIngest, IngestRow
    <2> QED BY <1>4, <2>1 DEF StartIngest
<1>5. ASSUME NEW a \in Articles, LoadArticle(a)
      PROVE  Same
    <2>1. Present(a) /\ Exists(a) => a \notin held
        BY <1>5 DEF LoadArticle, IngestWaits
    <2>2. \A b \in ingest'.deleted : b \in ingest.deleted \/ (b = a /\ Present(a) /\ Exists(a))
        <3>1. CASE Present(a)
            <4> DEFINE rows == [ingest.pending EXCEPT ![a] = Upserted(a)]
                       gone == ingest.deleted \cup {b \in {a} : Exists(b)}
            <4>1. ingest' = [ingest EXCEPT !.next = @ + 1, !.pending = rows, !.deleted = gone]
                BY <1>5, <3>1 DEF LoadArticle
            <4> HIDE DEF rows, gone
            <4>2. ingest'.deleted = gone
                BY <1>2, <4>1 DEF IngestRow
            <4> QED BY <3>1, <4>2 DEF gone
        <3>2. CASE ~ Present(a)
            <4>1. ingest'.deleted = ingest.deleted
                BY <1>2, <1>5, <3>2 DEF LoadArticle, IngestRow
            <4> QED BY <4>1
        <3> QED BY <3>1, <3>2
    <2> QED BY <1>5, <2>1, <2>2 DEF HeldInv, LoadArticle
<1>6. ASSUME FindStale
      PROVE  Same
    <2>1. ingest'.deleted = ingest.deleted
        BY <1>2, <1>6 DEF FindStale, IngestRow
    <2> QED BY <1>6, <2>1 DEF FindStale, HeldInv
<1>7. ASSUME PruneArticle
      PROVE  Same
    <2> DEFINE rows == [a \in Articles |->
                            IF a \in ingest.row THEN [ingest.pending[a] EXCEPT !.state = "pruned"]
                            ELSE ingest.pending[a]]
    <2>1. \E row : ingest' = [ingest EXCEPT !.stale = @ \ ingest.row, !.row = row,
                                            !.deleted = @ \cup ingest.row, !.pending = rows]
        BY <1>7 DEF PruneArticle
    <2> HIDE DEF rows
    <2>2. ingest'.deleted = ingest.deleted \cup ingest.row
        BY <1>2, <2>1 DEF IngestRow
    <2>3. \A a \in held : a \notin ingest.row
        BY <1>7 DEF PruneArticle, IngestWaits
    <2> QED BY <1>7, <2>2, <2>3 DEF PruneArticle, HeldInv
<1>8. ASSUME CommitIngest
      PROVE  Same
    <2>1. ingest'.deleted = {}
        BY <1>2, <1>8 DEF CommitIngest, IngestRow
    <2>2. ASSUME NEW a \in held PROVE kb'[a] = kb[a]
        <3>1. a \in Articles /\ Exists(a) /\ a \notin ingest.deleted
            BY DEF HeldInv
        <3>2. a \in Visited
            BY <1>8, <3>1 DEF CommitIngest, Visited
        <3>3. ~ Present(a)
            BY <3>1, <3>2 DEF KBInv, LoadIsComplete
        <3> QED BY <1>8, <3>1, <3>3 DEF CommitIngest
    <2> QED BY <1>8, <2>1, <2>2 DEF CommitIngest
<1>9. ASSUME FailIngest
      PROVE  Same
    <2>1. ingest'.deleted = {}
        BY <1>2, <1>9 DEF FailIngest, IngestRow
    <2> QED BY <1>9, <2>1 DEF FailIngest
<1> HIDE DEF Same
<1> QED BY <1>1, <1>3, <1>4, <1>5, <1>6, <1>7, <1>8, <1>9 DEF KBNext, IngestStep

\* Every article that is there has a chunk of its own.
LEMMA ChunkOfIs ==
    ASSUME KBInv, NEW a \in Articles, Exists(a)
    PROVE  /\ ChunkOf(a) \in DOMAIN Chunks
           /\ Chunks[ChunkOf(a)].article = a /\ Chunks[ChunkOf(a)].load = kb[a].load
<1>1. kb[a].load = 0 \/ HasFile(kb[a].load, a)
    BY DEF KBInv, RowIsSound, Exists
<1>2. kb[a].load \in Loads \cup {0}
    BY DEF KBInv, KBTyped, ArticleRow
<1>3. \A l \in Loads \cup {0} : l = 0 \/ HasFile(l, a) =>
          \E c \in DOMAIN Chunks : Chunks[c].article = a /\ Chunks[c].load = l
    BY KnowledgeBaseAssumption, Zenon
<1>4. \E c \in DOMAIN Chunks : Chunks[c].article = a /\ Chunks[c].load = kb[a].load
    BY ONLY <1>1, <1>2, <1>3
<1> QED BY <1>4 DEF ChunkOf

\* A chunk of a file's article was served in department d.
WasServedIn(c, d) ==
    IsFromFile(c) => /\ FilesKeepTheirDepartment => FileRow(c).dept = d
                     /\ FileRow(c).served = TRUE

ServedChunks(d) == {c \in DOMAIN Chunks : WasServedIn(c, d)}

LEMMA ScopeWasServed ==
    ASSUME KBInv, NEW d
    PROVE  Scope(d) \in SUBSET ServedChunks(d)
<1> SUFFICES ASSUME NEW a \in Articles, Exists(a), kb[a].dept = d, kb[a].served
             PROVE  ChunkOf(a) \in ServedChunks(d)
    BY DEF Scope
<1> DEFINE c == ChunkOf(a)
<1>1. c \in DOMAIN Chunks /\ Chunks[c].article = a /\ Chunks[c].load = kb[a].load
    BY ChunkOfIs
<1> HIDE DEF c
<1>2. kb[a].load \in Loads \cup {0} /\ kb[a].served = TRUE
    BY DEF KBInv, KBTyped, ArticleRow
<1>3. ASSUME kb[a].load = 0 PROVE c \in ServedChunks(d)
    <2>1. FileRow(c) = InitialKB[a]
        BY <1>1, <1>3 DEF FileRow
    <2>2. RowIsSound(kb[a], a) /\ kb[a].state = "present"
        BY DEF KBInv, Exists
    <2>3. a \in ToSet(PathOrder) => InitialKB[a].served = kb[a].served
        BY <1>3, <2>2 DEF RowIsSound
    <2>4. FilesKeepTheirDepartment => InitialKB[a].dept = d
        BY <2>2 DEF RowIsSound
    <2>5. IsFromFile(c) => FileRow(c).served = TRUE
        BY ONLY <1>1, <1>2, <2>1, <2>3 DEF IsFromFile
    <2>6. FilesKeepTheirDepartment => FileRow(c).dept = d
        BY <2>1, <2>4
    <2> QED BY <1>1, <2>5, <2>6 DEF WasServedIn, ServedChunks
<1>4. ASSUME kb[a].load # 0 PROVE c \in ServedChunks(d)
    <2>1. HasFile(kb[a].load, a) /\ kb[a].served = FileOf[kb[a].load][a].served
        BY <1>4 DEF KBInv, RowIsSound, Exists
    <2>2. FileRow(c) = FileOf[kb[a].load][a]
        BY <1>1, <1>4 DEF FileRow
    <2>3. FilesKeepTheirDepartment => FileOf[kb[a].load][a].dept = d
        BY <1>2, <1>4, <2>1 DEF KBInv, RowIsSound, Exists, FilesKeepTheirDepartment
    <2>4. FileRow(c).served = TRUE
        BY ONLY <1>2, <2>1, <2>2
    <2>5. FilesKeepTheirDepartment => FileRow(c).dept = d
        BY <2>2, <2>3
    <2> QED BY <1>1, <2>4, <2>5 DEF WasServedIn, ServedChunks
<1> QED BY <1>3, <1>4 DEF c

----------------------------------------------------------------------------
(* Drafts *)

\* Induction: a set of numbers has a least one.
LEMMA LeastNumber ==
    ASSUME NEW S \in SUBSET Nat, S # {}
    PROVE  \E n \in S : \A m \in S : n <= m
<1> DEFINE T == {1 .. n : n \in S}
<1>1. ASSUME NEW n \in S
      PROVE  1 .. n \in FiniteSubsetsOf(Nat)
    <2>1. n \in Int /\ 1 .. n \in SUBSET Nat
        OBVIOUS
    <2>2. IsFiniteSet(1 .. n)
        BY <2>1, FS_Interval
    <2> QED BY <2>1, <2>2 DEF FiniteSubsetsOf
<1>2. PICK x \in T : \A y \in T : ~ (<<y, x>> \in StrictSubsetOrdering(Nat))
    <2>1. T # {}
        OBVIOUS
    <2>2. T \subseteq FiniteSubsetsOf(Nat)
        BY <1>1
    <2> HIDE DEF T
    <2> QED BY <2>1, <2>2, FS_StrictSubsetOrderingWellFounded, WFMin
<1>3. PICK n \in S : x = 1 .. n
    OBVIOUS
<1>4. ASSUME NEW m \in S, ~ (n <= m)
      PROVE  FALSE
    <2>1. 1 .. m \in T /\ 1 .. m \in SUBSET Nat /\ 1 .. n \in SUBSET Nat
        OBVIOUS
    <2>2. 1 .. m \subseteq 1 .. n /\ n \in 1 .. n /\ n \notin 1 .. m
        BY <1>4
    <2> QED BY <1>2, <1>3, <2>1, <2>2 DEF StrictSubsetOrdering
<1> QED BY <1>4

LEMMA FirstOfIs ==
    ASSUME NEW S \in SUBSET Nat, S # {}
    PROVE  FirstOf(S) \in S
BY LeastNumber DEF FirstOf

LEMMA MaxOfIs ==
    ASSUME NEW c \in Nat, NEW S \in SUBSET (0 .. c), S # {}
    PROVE  MaxOf(S) \in S
<1> DEFINE T == {c - x : x \in S}
<1>1. T \in SUBSET Nat /\ T # {}
    <2>1. \A x \in S : x \in 0 .. c /\ c - x \in Nat
        OBVIOUS
    <2> QED BY <2>1
<1>2. PICK n \in T : \A m \in T : n <= m
    <2> HIDE DEF T
    <2> QED BY <1>1, LeastNumber
<1>3. PICK x \in S : n = c - x
    OBVIOUS
<1>4. \A y \in S : y <= x
    BY <1>2, <1>3
<1> QED BY <1>4 DEF MaxOf

\* What a validated draft may rely on: every step cites, and only passages there are.
LEMMA ValidatedIs ==
    ASSUME NEW r \in Replies, NEW n \in Nat, NEW v, v = Validated(r, n)
    PROVE  /\ v.rejection # "none" => v.steps = <<>>
           /\ v.rejection = "none" =>
                 /\ v.steps = r.steps /\ v.canAnswer \in {"yes", "no"}
                 /\ v.canAnswer = "yes" => v.steps # <<>>
                 /\ \A i \in DOMAIN v.steps : v.steps[i].cites # {} /\ v.steps[i].cites \subseteq 1 .. n
<1>1. CASE r.form = "text"
    BY <1>1 DEF Validated
<1>2. CASE r.form # "text"
    <2>1. /\ v.rejection = Rejection(r, n) /\ v.canAnswer = IF r.canAnswer THEN "yes" ELSE "no"
          /\ v.steps = IF Rejection(r, n) = "none" THEN r.steps ELSE <<>>
        BY <1>2 DEF Validated
    <2>2. CASE Faulty(r.steps, n) # {}
        <3>1. Faulty(r.steps, n) \in SUBSET Nat
            BY PipelineAssumption DEF Faulty
        <3>2. FirstOf(Faulty(r.steps, n)) \in Faulty(r.steps, n)
            BY <2>2, <3>1, FirstOfIs
        <3>3. Rejection(r, n) # "none"
            BY <2>2, <3>2 DEF Rejection, Faulty
        <3> QED BY <2>1, <3>3
    <2>3. CASE Faulty(r.steps, n) = {}
        <3>1. Rejection(r, n) = ReplyProblem(r.canAnswer, r.steps, n)
            BY <2>3 DEF Rejection
        <3>2. Rejection(r, n) = "none" /\ r.canAnswer => r.steps # <<>>
            BY <3>1 DEF ReplyProblem
        <3>3. \A i \in DOMAIN r.steps : StepProblem(r.steps[i], n) = "none"
            BY <2>3 DEF Faulty
        <3>4. \A i \in DOMAIN r.steps : r.steps[i].cites # {} /\ r.steps[i].cites \subseteq 1 .. n
            BY <3>3 DEF StepProblem
        <3> QED BY <2>1, <3>2, <3>4
    <2> QED BY <2>2, <2>3
<1> QED BY <1>1, <1>2

Cites(steps) == UNION {steps[i].cites : i \in DOMAIN steps}

\* What the rest of the run relies on, of a draft made from these passages or of no draft.
DraftFacts(d, hits) ==
    /\ d.generated \in BOOLEAN /\ d.valid \in BOOLEAN /\ d.shown \in BOOLEAN
    /\ ~ d.generated => d.rejection # "none"
    /\ d.rejection = "none" => d.valid /\ (d.canAnswer # "no" => d.canAnswer = "yes" /\ d.shown)
    /\ d.rejection # "none" => ~ d.shown /\ (~ d.generated \/ ~ d.valid \/ IsBlocked(d.steps, Texts(hits)))
    /\ d.shown => /\ d.canAnswer = "yes" /\ d.steps # <<>>
                  /\ ~ IsBlocked(d.steps, Texts(hits))
    /\ Len(d.steps) \in Nat /\ DOMAIN d.steps = 1 .. Len(d.steps)
    /\ \A i \in DOMAIN d.steps : d.steps[i].cites # {} /\ d.steps[i].cites \subseteq DOMAIN hits

LEMMA NoDraftHasFacts ==
    ASSUME NEW hits
    PROVE  DraftFacts(NoDraft, hits)
BY DEF DraftFacts, NoDraft

LEMMA DraftedHasFacts ==
    ASSUME NEW r \in Replies, NEW S, NEW hits, DrawnFrom(hits, S)
    PROVE  DraftFacts(Drafted(r, hits), hits)
<1> DEFINE n == Len(hits)
           v == Validated(r, n)
           d == Drafted(r, hits)
           blocked == IsShowable(v) /\ IsBlocked(v.steps, Texts(hits))
<1>1. n \in Nat /\ DOMAIN hits = 1 .. n
    BY DEF DrawnFrom
<1>2. PICK w : w = v
    OBVIOUS
<1>3. /\ w.rejection # "none" => w.steps = <<>>
      /\ w.rejection = "none" =>
            /\ Len(w.steps) \in Nat /\ DOMAIN w.steps = 1 .. Len(w.steps)
            /\ w.canAnswer \in {"yes", "no"}
            /\ w.canAnswer = "yes" => w.steps # <<>>
            /\ \A i \in DOMAIN w.steps : w.steps[i].cites # {} /\ w.steps[i].cites \subseteq DOMAIN hits
    <2> HIDE DEF v, n
    <2>1. w = Validated(r, n)
        BY <1>2 DEF v
    <2> QED BY <1>1, <2>1, ValidatedIs, PipelineAssumption
<1>4. PICK b : b = (IsShowable(w) /\ IsBlocked(w.steps, Texts(hits)))
    OBVIOUS
<1>5. /\ d.generated = TRUE /\ d.valid = (w.rejection = "none")
      /\ d.rejection = IF b THEN "screen" ELSE IF w.rejection = "none" THEN "none" ELSE "schema"
      /\ d.canAnswer = w.canAnswer /\ d.steps = w.steps /\ d.shown = (IsShowable(w) /\ ~ b)
    BY <1>2, <1>4 DEF Drafted
<1> HIDE DEF d
<1>6. IsShowable(w) <=> w.rejection = "none" /\ w.canAnswer = "yes" /\ w.steps # <<>>
    BY DEF IsShowable
<1>7. /\ Len(d.steps) \in Nat /\ DOMAIN d.steps = 1 .. Len(d.steps)
      /\ \A i \in DOMAIN d.steps : d.steps[i].cites # {} /\ d.steps[i].cites \subseteq DOMAIN hits
    <2>1. CASE w.rejection = "none"
        BY <1>3, <1>5, <2>1
    <2>2. CASE w.rejection # "none"
        BY <1>3, <1>5, <2>2
    <2> QED BY <2>1, <2>2
<1>8. CASE IsShowable(w) /\ IsBlocked(w.steps, Texts(hits))
    BY <1>4, <1>5, <1>6, <1>7, <1>8 DEF DraftFacts, d
<1>9. CASE ~ (IsShowable(w) /\ IsBlocked(w.steps, Texts(hits)))
    BY <1>3, <1>4, <1>5, <1>6, <1>7, <1>9 DEF DraftFacts, d
<1> QED BY <1>8, <1>9

\* The claims that were checked are those of the steps that are shown.
ClaimFacts(claims, d) ==
    IF d.shown
    THEN /\ DOMAIN claims = DOMAIN d.steps
         /\ \A i \in DOMAIN claims :
               claims[i].step = i /\ claims[i].cited = d.steps[i].cites /\ claims[i].support \in Nat
    ELSE claims = <<>>

LEMMA CheckedHasFacts ==
    ASSUME NEW d, NEW hits, DraftFacts(d, hits), d.shown,
           NEW entails \in [DOMAIN hits -> 0 .. Certain], NEW quotes \in SUBSET DOMAIN hits
    PROVE  ClaimFacts(Checked(d.steps, entails, quotes), d)
<1> DEFINE claims == Checked(d.steps, entails, quotes)
<1>1. /\ DOMAIN claims = DOMAIN d.steps
      /\ \A i \in DOMAIN d.steps : /\ claims[i].step = i /\ claims[i].cited = d.steps[i].cites
                                   /\ claims[i].support = Support(d.steps[i].cites, entails, quotes)
    BY DEF Checked
<1>2. ASSUME NEW i \in DOMAIN d.steps
      PROVE  Support(d.steps[i].cites, entails, quotes) \in Nat
    <2> DEFINE S == {entails[n] : n \in d.steps[i].cites} \cup {0}
    <2>1. Certain \in Nat
        BY PipelineAssumption
    <2>2. S \in SUBSET (0 .. Certain) /\ S # {}
        BY <2>1 DEF DraftFacts
    <2>3. MaxOf(S) \in 0 .. Certain
        <3> HIDE DEF S
        <3> QED BY <2>1, <2>2, MaxOfIs
    <2> QED BY <2>1, <2>3 DEF Support
<1> HIDE DEF claims
<1>3. ClaimFacts(claims, d)
    BY <1>1, <1>2 DEF ClaimFacts
<1> QED BY <1>3 DEF claims

\* The passages the score was computed from are the cited ones.
SignalFacts(signals, d, hits) == signals.evidence = {hits[n] : n \in Cites(d.steps)}

LEMMA SignalsHaveFacts ==
    ASSUME NEW d, NEW hits, DraftFacts(d, hits), NEW rows, NEW S, ArePassages(hits, rows, S),
           NEW claims, NEW dense, NEW probe, NEW prob
    PROVE  SignalFacts(SignalsOf(d, claims, rows, dense, probe, prob, None), d, hits)
<1> DEFINE E == {rows[i].chunk : i \in {j \in DOMAIN rows : rows[j].final \in Cites(d.steps)}}
<1>1. SignalsOf(d, claims, rows, dense, probe, prob, None).evidence = E
    BY DEF SignalsOf, Cites
<1>2. Cites(d.steps) \in SUBSET DOMAIN hits
    BY DEF DraftFacts, Cites
<1>3. DOMAIN hits \in SUBSET (Nat \ {0})
    BY DEF ArePassages, DrawnFrom
<1>4. \A i \in DOMAIN rows : rows[i].final \in Cites(d.steps) => rows[i].chunk = hits[rows[i].final]
    BY <1>2, <1>3 DEF ArePassages
<1>5. \A n \in Cites(d.steps) : \E i \in DOMAIN rows : rows[i].final = n
    BY <1>2 DEF ArePassages
<1>6. E = {hits[n] : n \in Cites(d.steps)}
    BY <1>4, <1>5
<1> QED BY <1>1, <1>6 DEF SignalFacts

\* A lane other than escalate has a draft that is shown and a threshold the score reaches;
\* the reasons for the lane escalate are the ones the decision names.
GateFacts(g, d, signals) ==
    /\ g.first = "guard" => Guarded(signals, g.thresholds)
    /\ IF g.lane = "escalate"
       THEN d.shown /\ g.thresholds # None /\ g.first # "guard" /\ g.score # None =>
                /\ ~ Guarded(signals, g.thresholds)
                /\ ~ Exceeds(g.score, g.thresholds.fast) /\ ~ Exceeds(g.score, g.thresholds.assisted)
       ELSE /\ d.shown /\ g.thresholds # None
            /\ IF g.lane = "fast" THEN Reaches(g.score, g.thresholds.fast)
               ELSE g.lane = "assisted" /\ Reaches(g.score, g.thresholds.assisted)

\* Rounded, a score keeps its side of every multiple of the grain, or equals it.
LEMMA RoundingKeepsSides ==
    ASSUME NEW s \in Nat, NEW g \in Nat \ {0}
    PROVE  /\ RoundedTo(s, g) \in Nat
           /\ \A k \in Nat : s >= k * g => RoundedTo(s, g) >= k * g
           /\ \A k \in Nat : s < k * g => RoundedTo(s, g) <= k * g
<1> DEFINE q == s \div g
           r == s % g
           n == Nearest(s, g)
<1>1. q \in Nat /\ r \in Nat /\ r < g /\ s = g * q + r
    OBVIOUS
<1>2. n = IF 2 * r > g \/ (2 * r = g /\ q % 2 = 1) THEN q + 1 ELSE q
    BY DEF Nearest
<1> HIDE DEF q, r, n
<1>3. n \in Nat /\ q <= n /\ n <= q + 1 /\ (r = 0 => n = q)
    BY <1>1, <1>2
<1>4. \A a, b \in Nat : a <= b => a * g <= b * g
    OBVIOUS
<1>5. \A k \in Nat : s >= k * g => k <= q
    <2> SUFFICES ASSUME NEW k \in Nat, s >= k * g, q + 1 <= k PROVE FALSE
        BY <1>1
    <2>1. (q + 1) * g <= k * g
        BY <1>1, <1>4
    <2>2. (q + 1) * g = g * q + g
        BY <1>1
    <2> QED BY <1>1, <2>1, <2>2
<1>6. \A k \in Nat : s < k * g => q + 1 <= k
    <2> SUFFICES ASSUME NEW k \in Nat, s < k * g, k <= q PROVE FALSE
        BY <1>1
    <2>1. k * g <= q * g
        BY <1>1, <1>4
    <2>2. q * g = g * q
        BY <1>1
    <2> QED BY <1>1, <2>1, <2>2
<1>7. RoundedTo(s, g) = n * g
    BY DEF RoundedTo, n
<1>8. n * g \in Nat
    BY <1>3
<1>9. ASSUME NEW k \in Nat, s >= k * g PROVE n * g >= k * g
    <2>1. k <= n
        BY <1>1, <1>3, <1>5, <1>9
    <2> QED BY <1>3, <1>4, <1>8, <2>1
<1>10. ASSUME NEW k \in Nat, s < k * g PROVE n * g <= k * g
    <2>1. n <= k
        BY <1>1, <1>3, <1>6, <1>10
    <2> QED BY <1>3, <1>4, <1>8, <2>1
<1> QED BY <1>7, <1>8, <1>9, <1>10

LEMMA MultiplesDivide ==
    ASSUME NEW k \in Nat, NEW g \in Nat \ {0}
    PROVE  (k * g) % g = 0 /\ (k * g) \div g = k
<1> DEFINE n == k * g
           q == n \div g
           r == n % g
<1>1. n \in Nat
    OBVIOUS
<1>2. q \in Nat /\ r \in Nat /\ r < g /\ n = g * q + r
    BY <1>1
<1>3. n = k * g
    OBVIOUS
<1> HIDE DEF n, q, r
<1>4. ~ k > q
    <2> SUFFICES ASSUME k >= q + 1 PROVE FALSE
        BY <1>2
    <2>1. PICK i \in Nat : k = q + 1 + i
        <3>1. k - q - 1 \in Nat /\ k = q + 1 + (k - q - 1)
            BY <1>2
        <3> QED BY <3>1
    <2>2. k * g = q * g + g + i * g
        BY <1>2, <2>1
    <2>3. i * g \in Nat /\ q * g = g * q /\ q * g \in Nat
        BY <1>2, <2>1
    <2> QED BY <1>2, <1>3, <2>2, <2>3
<1>5. ~ k < q
    <2> SUFFICES ASSUME q >= k + 1 PROVE FALSE
        BY <1>2
    <2>1. PICK i \in Nat : q = k + 1 + i
        <3>1. q - k - 1 \in Nat /\ q = k + 1 + (q - k - 1)
            BY <1>2
        <3> QED BY <3>1
    <2>2. g * q = k * g + g + i * g
        BY <1>2, <2>1
    <2>3. i * g \in Nat /\ k * g \in Nat
        BY <1>2, <2>1
    <2> QED BY <1>2, <1>3, <2>2, <2>3
<1>6. q = k
    BY <1>2, <1>4, <1>5
<1>7. g * q = k * g
    BY <1>6
<1>8. r = 0
    BY <1>2, <1>3, <1>7
<1> QED BY <1>6, <1>8 DEF q, r, n

\* What is kept of a score reaches each threshold the score reaches, and exceeds no other.
LEMMA KeptScoreFits ==
    ASSUME NEW score \in 0 .. MaxScore, NEW least, least # None => OnGrid(least), score # None
    PROVE  /\ Rounded(score) \in Nat
           /\ Reaches(score, least) => Reaches(Rounded(score), least)
           /\ ~ Reaches(score, least) => ~ Exceeds(Rounded(score), least)
<1>1. Rounded(score) = RoundedTo(score, Grain) /\ Grain \in Nat \ {0} /\ score \in Nat
    BY PipelineAssumption DEF Rounded
<1>2. CASE least = None
    BY <1>1, <1>2, RoundingKeepsSides DEF Reaches, Exceeds
<1>3. CASE least # None
    <2>1. PICK k \in 0 .. MaxScore : least = k * Grain
        BY <1>3 DEF OnGrid
    <2>2. k \in Nat
        OBVIOUS
    <2>3. k * Grain \in Nat
        BY <1>1, <2>2
    <2>4. /\ Rounded(score) \in Nat
          /\ score >= k * Grain => Rounded(score) >= k * Grain
          /\ score < k * Grain => Rounded(score) <= k * Grain
        BY <1>1, <2>2, RoundingKeepsSides
    <2> QED BY <1>1, <1>3, <2>1, <2>3, <2>4 DEF Reaches, Exceeds
<1> QED BY <1>2, <1>3

LEMMA DecisionHasFacts ==
    ASSUME NEW score \in 0 .. MaxScore \cup {None}, NEW t \in Thresholds \cup {None}, NEW d, NEW signals
    PROVE  GateFacts(Decision(score, d.shown, signals, t), d, signals)
<1> DEFINE g == Decision(score, d.shown, signals, t)
<1>1. /\ g.score = Rounded(score) /\ g.thresholds = t
      /\ g.first = IF score = None THEN "no model" ELSE IF Guarded(signals, t) THEN "guard" ELSE "model"
      /\ g.lane = IF score = None \/ ~ d.shown \/ t = None \/ Guarded(signals, t) THEN "escalate"
                  ELSE IF Reaches(score, t.fast) THEN "fast"
                  ELSE IF Reaches(score, t.assisted) THEN "assisted"
                  ELSE "escalate"
    BY DEF Decision
<1> HIDE DEF g
<1>2. GateFacts(g, d, signals)
    <2>1. CASE score = None \/ ~ d.shown \/ t = None \/ Guarded(signals, t)
        <3>1. score = None => g.score = None
            BY <1>1 DEF Rounded
        <3> QED BY <1>1, <2>1, <3>1 DEF GateFacts
    <2>2. CASE ~ (score = None \/ ~ d.shown \/ t = None \/ Guarded(signals, t))
        <3>1. (t.fast # None => OnGrid(t.fast)) /\ (t.assisted # None => OnGrid(t.assisted))
            BY <2>2, PipelineAssumption
        <3>2. /\ Reaches(score, t.fast) => Reaches(g.score, t.fast)
              /\ ~ Reaches(score, t.fast) => ~ Exceeds(g.score, t.fast)
            BY <1>1, <2>2, <3>1, KeptScoreFits
        <3>3. /\ Reaches(score, t.assisted) => Reaches(g.score, t.assisted)
              /\ ~ Reaches(score, t.assisted) => ~ Exceeds(g.score, t.assisted)
            BY <1>1, <2>2, <3>1, KeptScoreFits
        <3> QED BY <1>1, <2>2, <3>2, <3>3 DEF GateFacts
    <2> QED BY <2>1, <2>2
<1> QED BY <1>2 DEF g

\* No claim outside the ones that stand out has less support than one of them.
LEMMA TheWeakestStandOut ==
    ASSUME NEW claims, NEW n \in Nat, DOMAIN claims = 1 .. n, \A i \in 1 .. n : claims[i].support \in Nat,
           NEW c \in ToSet(claims) \ Weakest(claims), NEW w \in Weakest(claims)
    PROVE  w.support <= c.support
<1> DEFINE D == DOMAIN claims
           Above(j) == {k \in D : StandsOutMore(claims, k, j)}
<1>1. PICK i \in D : claims[i] = c
    BY DEF ToSet
<1>2. PICK j \in D : claims[j] = w /\ Cardinality(Above(j)) < WeakestClaims
    BY DEF Weakest
<1>3. ~ (Cardinality(Above(i)) < WeakestClaims)
    BY <1>1 DEF Weakest
<1> SUFFICES ASSUME ~ (w.support <= c.support) PROVE FALSE
    OBVIOUS
<1>4. claims[i].support < claims[j].support
    BY <1>1, <1>2
<1>5. Above(i) \in SUBSET Above(j)
    BY <1>4 DEF StandsOutMore
<1>6. IsFiniteSet(Above(j))
    <2>1. IsFiniteSet(D) /\ Above(j) \in SUBSET D
        BY FS_Interval
    <2> HIDE DEF Above, D
    <2> QED BY <2>1, FS_Subset
<1> HIDE DEF Above
<1>7. Cardinality(Above(i)) <= Cardinality(Above(j)) /\ Cardinality(Above(j)) \in Nat
      /\ Cardinality(Above(i)) \in Nat
    BY <1>5, <1>6, FS_Subset, FS_CardinalityType
<1> QED BY <1>2, <1>3, <1>7 DEF WeakestClaims

----------------------------------------------------------------------------
(* What is stored *)

\* The reason of an escalation to the department, in what is stored with it.
ReasonHolds(row) ==
    row.tier = "senior" =>
        /\ row.reason \in {"rejected", "unanswered", "no thresholds", "guard", "below"}
        /\ row.reason = "rejected" => \/ row.draft = None
                                      \/ ~ row.draft.valid
                                      \/ IsBlocked(row.draft.steps, Texts(row.evidence))
        /\ row.reason = "unanswered" => row.draft.valid /\ row.draft.canAnswer = "no"
        /\ row.reason = "no thresholds" => row.gate.thresholds = None
        /\ row.reason = "guard" => Guarded(row.signals, row.gate.thresholds)
        /\ row.reason = "below" =>
              /\ row.draft.canAnswer = "yes"
              /\ row.gate.score # None =>
                    /\ ~ Guarded(row.signals, row.gate.thresholds)
                    /\ ~ Exceeds(row.gate.score, row.gate.thresholds.assisted)
                    /\ ~ Exceeds(row.gate.score, row.gate.thresholds.fast)

\* A draft without a reply is one that was withheld; one with a reply was vetted.
ReplyIsVetted(row) ==
    IF row.reply = <<>> THEN row.status = "escalated" /\ row.lane = "escalate"
    ELSE /\ row.status = "drafted" /\ row.draft.valid /\ row.draft.canAnswer = "yes"
         /\ row.draft.steps # <<>> /\ ~ IsBlocked(row.draft.steps, Texts(row.evidence))
         /\ Len(row.draft.steps) \in Nat /\ DOMAIN row.draft.steps = 1 .. Len(row.draft.steps)
         /\ DOMAIN row.claims = DOMAIN row.draft.steps
         /\ \A i \in DOMAIN row.claims : row.claims[i].step = i /\ row.claims[i].support \in Nat
         /\ row.lane = row.gate.lane /\ row.lane # "none" /\ row.gate.thresholds # None
         /\ IF row.gate.lane = "fast" THEN Reaches(row.gate.score, row.gate.thresholds.fast)
            ELSE row.gate.lane = "assisted" /\ Reaches(row.gate.score, row.gate.thresholds.assisted)

\* No passage of the log is of a load that replaced another one's article.
OfOneTime(rows) ==
    \A i, j \in DOMAIN rows :
        Chunks[rows[i].chunk].load < Chunks[rows[j].chunk].load =>
            ~ HasFile(Chunks[rows[j].chunk].load, Chunks[rows[i].chunk].article)

PassagesAreOnes(row) ==
    /\ row.dept # None
    /\ ArePassages(row.evidence, row.hits, ServedChunks(row.dept))
    /\ \A i \in DOMAIN row.draft.steps :
          row.draft.steps[i].cites # {} /\ row.draft.steps[i].cites \subseteq DOMAIN row.evidence
    /\ \A c \in row.citations : c.article = Chunks[row.evidence[c.n]].article
    /\ SignalFacts(row.signals, row.draft, row.evidence)
    /\ \A i \in DOMAIN row.claims : row.claims[i].cited \subseteq DOMAIN row.evidence
    /\ OfOneTime(row.hits)

StoredFacts(row) ==
    /\ ReasonHolds(row)
    /\ row.draft # None => ReplyIsVetted(row) /\ PassagesAreOnes(row)

\* The chunk is there, and the run references its article.
Referenced(c) == ChunkExists(c) /\ Chunks[c].article \in held

\* Chunks that are there at one time are of one time.
LEMMA ReferencedAreOfOneTime ==
    ASSUME KBInv, NEW S \in SUBSET DOMAIN Chunks, NEW hits, NEW rows, ArePassages(hits, rows, S),
           \A i \in DOMAIN rows : Referenced(rows[i].chunk)
    PROVE  OfOneTime(rows)
<1> SUFFICES ASSUME NEW i \in DOMAIN rows, NEW j \in DOMAIN rows,
                    Chunks[rows[i].chunk].load < Chunks[rows[j].chunk].load
             PROVE  ~ HasFile(Chunks[rows[j].chunk].load, Chunks[rows[i].chunk].article)
    BY DEF OfOneTime
<1> DEFINE Art(k) == Chunks[rows[k].chunk].article
<1>1. \A k \in DOMAIN rows :
          Art(k) \in Articles /\ Exists(Art(k)) /\ Chunks[rows[k].chunk].load = kb[Art(k)].load
    <2> SUFFICES ASSUME NEW k \in DOMAIN rows
                 PROVE  Art(k) \in Articles /\ Exists(Art(k)) /\ Chunks[rows[k].chunk].load = kb[Art(k)].load
        OBVIOUS
    <2>1. Art(k) \in Articles
        BY KnowledgeBaseAssumption DEF ArePassages
    <2>2. Exists(Art(k)) /\ ChunkOf(Art(k)) = rows[k].chunk
        BY DEF Referenced, ChunkExists
    <2> HIDE DEF Art
    <2>3. Chunks[ChunkOf(Art(k))].load = kb[Art(k)].load
        BY <2>1, <2>2, ChunkOfIs
    <2> QED BY <2>1, <2>2, <2>3
<1>2. kb[Art(i)].load < kb[Art(j)].load
    BY <1>1
<1>3. ~ HasFile(kb[Art(j)].load, Art(i))
    BY <1>1, <1>2 DEF KBInv, NoneIsOutdated
<1> QED BY <1>1, <1>3

----------------------------------------------------------------------------
(* The run *)

Slots == DOMAIN Start

\* Before the searches have found anything, and after.
Early == {"queued", "extracted", "redacted", "routed", "keyword"}

Late == {"logging", "retrieved", "drafted", "checked", "signalled", "gated"}

Written == {"drafted", "checked", "signalled", "gated"}

StoreInv ==
    /\ mem.pc # "done" => db = NothingStored
    /\ mem.pc = "done" => StoredFacts(db)

SearchInv ==
    /\ mem.pc \in Early => mem.hits = <<>> /\ mem.rows = <<>> /\ mem.logged = 0
    /\ mem.pc = "keyword" => mem.scores \in Scorings /\ DrawnFrom(mem.kw, ServedChunks(mem.dept))
    /\ mem.pc \in Late => ArePassages(mem.hits, mem.rows, ServedChunks(mem.dept))

\* What is logged is referenced, and so it stays what it was until the run ends.
LogInv ==
    mem.pc \in Late =>
        /\ mem.logged \in 0 .. Len(mem.rows)
        /\ mem.pc # "logging" => mem.logged = Len(mem.rows)
        /\ \A i \in 1 .. mem.logged : Referenced(mem.rows[i].chunk)

DraftInv ==
    /\ mem.pc \in Early \cup {"logging", "retrieved"} => mem.draft = NoDraft
    /\ mem.pc \in Early \cup {"logging", "retrieved", "drafted"} => mem.claims = <<>>
    /\ mem.pc \in Written => DraftFacts(mem.draft, mem.hits)
    /\ mem.pc \in Written \ {"drafted"} => ClaimFacts(mem.claims, mem.draft)
    /\ mem.pc \in {"signalled", "gated"} => SignalFacts(mem.signals, mem.draft, mem.hits)
    /\ mem.pc = "gated" => GateFacts(mem.gate, mem.draft, mem.signals)

RunTyped == DOMAIN mem = Slots /\ mem.pc \in Early \cup Late \cup {"failed", "done"}

RunInv == RunTyped /\ StoreInv /\ SearchInv /\ LogInv /\ DraftInv

\* The inductive invariant: the knowledge base's, what the run references, and the run's.
PipelineInv == KBInv /\ HeldInv /\ RunInv

LEMMA RunStarts == Init => PipelineInv
<1> SUFFICES ASSUME Init PROVE PipelineInv
    OBVIOUS
<1>1. mem = Start /\ db = NothingStored
    BY DEF Init
<1>2. RunInv
    BY <1>1 DEF RunInv, RunTyped, Slots, Early, Late, Written, StoreInv, SearchInv, LogInv, DraftInv, Start
<1> QED BY <1>2, KBStarts DEF Init, PipelineInv

\* A step of the run alone changes nothing of what the log references.
LEMMA NothingElseMoves ==
    ASSUME KBInv, HeldInv, UNCHANGED <<kb, ingest, held>>
    PROVE  KBInv' /\ HeldInv' /\ \A c : Referenced(c) => Referenced(c)'
<1>1. KBInv'
    BY DEF KBInv, KBTyped, Exists, NoneIsOutdated, LoadIsComplete, Visited, Present
<1>2. HeldInv'
    BY DEF HeldInv, Exists
<1>3. \A c : Referenced(c) => Referenced(c)'
    BY DEF Referenced, ChunkExists, Exists, ChunkOf
<1> QED BY <1>1, <1>2, <1>3

LEMMA BeforeTheSearch ==
    ASSUME PipelineInv, Extract \/ RedactFields \/ ClassifyAndRoute
    PROVE  PipelineInv'
<1>1. KBInv' /\ HeldInv'
    BY NothingElseMoves DEF PipelineInv, Extract, RedactFields, ClassifyAndRoute, Quietly, Step
<1>2. /\ db' = db /\ mem.pc \in Early \ {"keyword"} /\ mem'.pc \in Early \ {"keyword"} /\ DOMAIN mem' = DOMAIN mem
      /\ mem'.hits = mem.hits /\ mem'.rows = mem.rows /\ mem'.logged = mem.logged
      /\ mem'.draft = mem.draft /\ mem'.claims = mem.claims
    <2> USE DEF PipelineInv, RunInv, RunTyped, Slots, Start, Quietly, Step, At, Early
    <2>1. CASE Extract
        BY <2>1 DEF Extract
    <2>2. CASE RedactFields
        BY <2>2 DEF RedactFields
    <2>3. CASE ClassifyAndRoute
        BY <2>3 DEF ClassifyAndRoute
    <2> QED BY <2>1, <2>2, <2>3
<1>3. RunInv'
    BY <1>2 DEF PipelineInv, RunInv, RunTyped, StoreInv, SearchInv, LogInv, DraftInv, Early, Late, Written
<1> QED BY <1>1, <1>3 DEF PipelineInv

\* Both searches list chunks that were served when they ran.
LEMMA SearchesDraw ==
    ASSUME KBInv, NEW s \in Scorings, NEW d
    PROVE  /\ DrawnFrom(KeywordRows(Scope(d), s.keyword), ServedChunks(d))
           /\ DrawnFrom(DenseRows(Scope(d), s.dense), ServedChunks(d))
<1>1. PICK S : S = Scope(d)
    OBVIOUS
<1>2. S \in SUBSET ServedChunks(d) /\ ServedChunks(d) \in SUBSET DOMAIN Chunks
    BY <1>1, ScopeWasServed DEF ServedChunks
<1>3. DOMAIN Chunks \in SUBSET Nat /\ IsFiniteSet(DOMAIN Chunks)
    BY KnowledgeBaseAssumption, FS_Interval
<1>4. /\ ServedChunks(d) \in SUBSET Nat /\ IsFiniteSet(S)
      /\ \A c \in S : s.keyword[c] \in Nat /\ s.dense[c] \in Nat
    BY <1>2, <1>3, FS_Subset, PipelineAssumption
<1>5. {c \in S : s.keyword[c] > 0} \in SUBSET S
    OBVIOUS
<1>6. IsFiniteSet({c \in S : s.keyword[c] > 0})
    BY <1>4, <1>5, FS_Subset
<1>7. DrawnFrom(KeywordRows(S, s.keyword), ServedChunks(d))
    BY <1>2, <1>4, <1>6, RankingIsDrawn, RetrievalAssumption DEF KeywordRows
<1>8. DrawnFrom(DenseRows(S, s.dense), ServedChunks(d))
    BY <1>2, <1>4, RankingIsDrawn, RetrievalAssumption DEF DenseRows
<1> QED BY <1>1, <1>7, <1>8

LEMMA WithoutASearch ==
    ASSUME PipelineInv, SkipRetrieval
    PROVE  PipelineInv'
<1>1. KBInv' /\ HeldInv'
    BY NothingElseMoves DEF PipelineInv, SkipRetrieval, Quietly, Step
<1>2. /\ db' = db /\ mem.pc = "routed" /\ mem'.pc = "retrieved" /\ DOMAIN mem' = DOMAIN mem
      /\ mem'.hits = mem.hits /\ mem'.rows = mem.rows /\ mem'.logged = mem.logged
      /\ mem'.draft = mem.draft /\ mem'.claims = mem.claims
    BY DEF PipelineInv, RunInv, RunTyped, Slots, Start, Quietly, Step, At, SkipRetrieval
<1>3. mem.hits = <<>> /\ mem.rows = <<>> /\ mem.logged = 0
    BY <1>2 DEF PipelineInv, RunInv, SearchInv, Early
<1>4. \A S : ArePassages(<<>>, <<>>, S)
    BY DEF ArePassages, DrawnFrom
<1>5. SearchInv' /\ LogInv'
    BY <1>2, <1>3, <1>4 DEF SearchInv, LogInv, Early, Late
<1>6. RunInv'
    BY <1>2, <1>5 DEF PipelineInv, RunInv, RunTyped, StoreInv, DraftInv, Early, Late, Written
<1> QED BY <1>1, <1>6 DEF PipelineInv

LEMMA KeywordSearch ==
    ASSUME PipelineInv, NEW s \in Scorings, SearchKeyword(s)
    PROVE  PipelineInv'
<1>1. KBInv' /\ HeldInv'
    BY NothingElseMoves DEF PipelineInv, SearchKeyword, Quietly, Step
<1>2. /\ db' = db /\ mem.pc = "routed" /\ mem'.pc = "keyword" /\ DOMAIN mem' = DOMAIN mem
      /\ mem'.hits = mem.hits /\ mem'.rows = mem.rows /\ mem'.logged = mem.logged
      /\ mem'.draft = mem.draft /\ mem'.claims = mem.claims /\ mem'.dept = mem.dept
      /\ mem'.scores = s /\ mem'.kw = KeywordRows(Scope(mem.dept), s.keyword)
    BY DEF PipelineInv, RunInv, RunTyped, Slots, Start, Quietly, Step, At, SearchKeyword
<1>3. PICK d : d = mem.dept
    OBVIOUS
<1>4. DrawnFrom(mem'.kw, ServedChunks(d))
    BY <1>2, <1>3, SearchesDraw DEF PipelineInv
<1>5. SearchInv'
    BY <1>2, <1>3, <1>4 DEF PipelineInv, RunInv, SearchInv, Early, Late
<1>6. RunInv'
    BY <1>2, <1>5 DEF PipelineInv, RunInv, RunTyped, StoreInv, LogInv, DraftInv, Early, Late, Written
<1> QED BY <1>1, <1>6 DEF PipelineInv

LEMMA DenseSearch ==
    ASSUME PipelineInv, SearchDense
    PROVE  PipelineInv'
<1>1. KBInv' /\ HeldInv'
    BY NothingElseMoves DEF PipelineInv, SearchDense, Quietly, Step
<1>2. PICK dn, cs, hits :
          /\ At("keyword") /\ dn = DenseRows(Scope(mem.dept), mem.scores.dense)
          /\ cs = Candidates(mem.kw, dn) /\ hits = Hits(cs, mem.scores.rerank)
          /\ Quietly([mem EXCEPT !.pc = "logging", !.dn = dn, !.hits = hits,
                                 !.rows = HitRows(mem.kw, dn, cs, hits)])
    BY DEF SearchDense
<1>3. PICK d, s, kw : d = mem.dept /\ s = mem.scores /\ kw = mem.kw
    OBVIOUS
<1>4. s \in Scorings /\ DrawnFrom(kw, ServedChunks(d)) /\ mem.pc = "keyword"
    BY <1>2, <1>3 DEF PipelineInv, RunInv, SearchInv, At
<1>5. DrawnFrom(dn, ServedChunks(d))
    BY <1>2, <1>3, <1>4, SearchesDraw DEF PipelineInv
<1>6. s.rerank \in [DOMAIN Chunks -> Nat] /\ ServedChunks(d) \in SUBSET DOMAIN Chunks
    BY <1>4, PipelineAssumption DEF ServedChunks
<1>7. ArePassages(hits, HitRows(kw, dn, cs, hits), ServedChunks(d))
    BY <1>2, <1>3, <1>4, <1>5, <1>6, PassagesAreFound
<1>8. /\ db' = db /\ mem'.pc = "logging" /\ DOMAIN mem' = DOMAIN mem
      /\ mem'.hits = hits /\ mem'.rows = HitRows(kw, dn, cs, hits) /\ mem'.logged = mem.logged
      /\ mem'.draft = mem.draft /\ mem'.claims = mem.claims /\ mem'.dept = d
    BY <1>2, <1>3 DEF PipelineInv, RunInv, RunTyped, Slots, Start, Quietly, Step
<1>9. mem.logged = 0 /\ mem'.rows = HitRows(kw, dn, cs, hits)
    BY <1>4, <1>8 DEF PipelineInv, RunInv, SearchInv, Early
<1>10. SearchInv' /\ LogInv'
    <2>1. Len(mem'.rows) \in Nat
        BY <1>7, <1>9 DEF ArePassages
    <2> QED BY <1>7, <1>8, <1>9, <2>1 DEF SearchInv, LogInv, Early, Late
<1>11. RunInv'
    BY <1>4, <1>8, <1>10 DEF PipelineInv, RunInv, RunTyped, StoreInv, DraftInv, Early, Late, Written
<1> QED BY <1>1, <1>11 DEF PipelineInv

\* A logged row is referenced: its article is there, and no load that has deleted it waits.
LEMMA LoggingReferences ==
    ASSUME PipelineInv, LogHit
    PROVE  PipelineInv'
<1>1. PICK c : c = NextChunk
    OBVIOUS
<1>2. PICK k, rows : k = mem.logged + 1 /\ rows = mem.rows
    OBVIOUS
<1>3. /\ kb' = kb /\ ingest' = ingest /\ held' = held \cup {Chunks[c].article}
      /\ db' = db /\ mem.pc = "logging" /\ mem'.pc = "logging" /\ DOMAIN mem' = DOMAIN mem
      /\ mem'.hits = mem.hits /\ mem'.rows = mem.rows /\ mem'.logged = mem.logged + 1
      /\ mem'.draft = mem.draft /\ mem'.claims = mem.claims /\ mem'.dept = mem.dept
      /\ ChunkExists(c) /\ mem.logged < Len(mem.rows) /\ ~ LogWaits
    BY <1>1 DEF PipelineInv, RunInv, RunTyped, Slots, Start, Step, At, LogHit
<1>4. ArePassages(mem.hits, mem.rows, ServedChunks(mem.dept)) /\ mem.logged \in 0 .. Len(mem.rows)
      /\ \A i \in 1 .. mem.logged : Referenced(mem.rows[i].chunk)
    BY <1>3 DEF PipelineInv, RunInv, SearchInv, LogInv, Late
<1>5. k \in DOMAIN rows /\ c = rows[k].chunk /\ Len(rows) \in Nat
    BY <1>1, <1>2, <1>3, <1>4 DEF ArePassages, NextChunk
<1>6. c \in DOMAIN Chunks
    BY <1>2, <1>4, <1>5 DEF ArePassages, ServedChunks
<1>7. Chunks[c].article \in Articles /\ Exists(Chunks[c].article) /\ Chunks[c].article \notin ingest.deleted
    BY <1>1, <1>3, <1>6, KnowledgeBaseAssumption DEF ChunkExists, LogWaits, At
<1>8. HeldInv'
    BY <1>3, <1>7 DEF PipelineInv, HeldInv, Exists
<1>9. KBInv'
    BY <1>3 DEF PipelineInv, KBInv, KBTyped, Exists, NoneIsOutdated, LoadIsComplete, Visited, Present
<1>10. Referenced(c)' /\ \A x : Referenced(x) => Referenced(x)'
    BY <1>3 DEF Referenced, ChunkExists, Exists, ChunkOf
<1>11. SearchInv'
    BY <1>3, <1>4 DEF SearchInv, Early, Late
<1>12. LogInv'
    <2>1. mem'.logged \in 0 .. Len(rows) /\ mem'.rows = rows /\ mem'.pc = "logging"
        BY <1>2, <1>3, <1>4, <1>5
    <2>2. ASSUME NEW i \in 1 .. mem'.logged PROVE Referenced(rows[i].chunk)'
        <3>1. CASE i = k
            BY <1>5, <1>10, <3>1
        <3>2. CASE i # k
            <4>1. i \in 1 .. mem.logged
                BY <1>2, <1>3, <1>4, <3>2
            <4> QED BY <1>2, <1>4, <1>10, <4>1
        <3> QED BY <3>1, <3>2
    <2> QED BY <2>1, <2>2 DEF LogInv
<1>13. RunInv'
    BY <1>3, <1>11, <1>12 DEF PipelineInv, RunInv, RunTyped, StoreInv, DraftInv, Early, Late, Written
<1> QED BY <1>8, <1>9, <1>13 DEF PipelineInv

\* A step that takes the found passages further changes neither them nor the log.
LEMMA PassagesStay ==
    ASSUME PipelineInv, mem.pc \in Late, mem.pc # "logging" \/ mem.logged = Len(mem.rows),
           UNCHANGED <<kb, ingest, held, db>>, DOMAIN mem' = DOMAIN mem, mem'.pc \in Late \ {"logging"},
           mem'.hits = mem.hits, mem'.rows = mem.rows, mem'.logged = mem.logged, mem'.dept = mem.dept,
           DraftInv'
    PROVE  PipelineInv'
<1>1. KBInv' /\ HeldInv' /\ \A c : Referenced(c) => Referenced(c)'
    BY NothingElseMoves DEF PipelineInv
<1>2. SearchInv' /\ RunTyped' /\ StoreInv'
    BY DEF PipelineInv, RunInv, RunTyped, StoreInv, SearchInv, Early, Late
<1>3. LogInv'
    <2>1. PICK rows, n : rows = mem.rows /\ n = mem.logged
        OBVIOUS
    <2>2. n \in 0 .. Len(rows) /\ n = Len(rows) /\ \A i \in 1 .. n : Referenced(rows[i].chunk)
        BY <2>1 DEF PipelineInv, RunInv, LogInv
    <2>3. \A i \in 1 .. n : Referenced(rows[i].chunk)'
        BY <1>1, <2>2
    <2> QED BY <2>1, <2>2, <2>3 DEF LogInv
<1> QED BY <1>1, <1>2, <1>3 DEF PipelineInv, RunInv

LEMMA LogEnds ==
    ASSUME PipelineInv, LogComplete
    PROVE  PipelineInv'
<1>1. /\ UNCHANGED <<kb, ingest, held, db>> /\ mem.pc = "logging" /\ mem'.pc = "retrieved"
      /\ mem.logged = Len(mem.rows) /\ DOMAIN mem' = DOMAIN mem
      /\ mem'.hits = mem.hits /\ mem'.rows = mem.rows /\ mem'.logged = mem.logged
      /\ mem'.draft = mem.draft /\ mem'.claims = mem.claims /\ mem'.dept = mem.dept
    BY DEF PipelineInv, RunInv, RunTyped, Slots, Start, Step, Quietly, At, LogComplete
<1>2. DraftInv'
    BY <1>1 DEF PipelineInv, RunInv, DraftInv, Early, Written
<1> QED BY <1>1, <1>2, PassagesStay DEF Late

LEMMA Answering ==
    ASSUME PipelineInv, DraftUnavailable \/ \E reply \in Replies : Draft(reply)
    PROVE  PipelineInv'
<1>1. /\ UNCHANGED <<kb, ingest, held, db>> /\ mem.pc = "retrieved" /\ mem'.pc = "drafted"
      /\ DOMAIN mem' = DOMAIN mem
      /\ mem'.hits = mem.hits /\ mem'.rows = mem.rows /\ mem'.logged = mem.logged
      /\ mem'.claims = mem.claims /\ mem'.dept = mem.dept
      /\ mem'.draft = mem.draft \/ \E reply \in Replies : mem'.draft = Drafted(reply, mem.hits)
    BY DEF PipelineInv, RunInv, RunTyped, Slots, Start, Step, Quietly, At, Draft, DraftUnavailable
<1>2. PICK hits : hits = mem.hits
    OBVIOUS
<1>3. DrawnFrom(hits, ServedChunks(mem.dept)) /\ mem.draft = NoDraft /\ mem.claims = <<>>
    BY <1>1, <1>2 DEF PipelineInv, RunInv, SearchInv, DraftInv, ArePassages, Late
<1>4. DraftFacts(mem'.draft, hits)
    BY <1>1, <1>2, <1>3, DraftedHasFacts, NoDraftHasFacts
<1>5. DraftInv'
    BY <1>1, <1>2, <1>3, <1>4 DEF DraftInv, Early, Written
<1> QED BY <1>1, <1>5, PassagesStay DEF Late

LEMMA Checking ==
    ASSUME PipelineInv, Check
    PROVE  PipelineInv'
<1>1. PICK hits, d : hits = mem.hits /\ d = mem.draft
    OBVIOUS
<1>2. /\ UNCHANGED <<kb, ingest, held, db>> /\ mem.pc = "drafted" /\ mem'.pc = "checked"
      /\ DOMAIN mem' = DOMAIN mem
      /\ mem'.hits = hits /\ mem'.rows = mem.rows /\ mem'.logged = mem.logged
      /\ mem'.draft = d /\ mem'.dept = mem.dept
      /\ IF d.shown
         THEN \E entails \in [DOMAIN hits -> 0 .. Certain], quotes \in SUBSET DOMAIN hits :
                 mem'.claims = Checked(d.steps, entails, quotes)
         ELSE mem'.claims = mem.claims
    BY <1>1 DEF PipelineInv, RunInv, RunTyped, Slots, Start, Step, Quietly, At, Check
<1>3. DraftFacts(d, hits) /\ mem.claims = <<>>
    BY <1>1, <1>2 DEF PipelineInv, RunInv, DraftInv, Written
<1>4. ClaimFacts(mem'.claims, d)
    <2>1. CASE d.shown
        <3>1. PICK entails \in [DOMAIN hits -> 0 .. Certain], quotes \in SUBSET DOMAIN hits :
                  mem'.claims = Checked(d.steps, entails, quotes)
            BY <1>2, <2>1
        <3>2. ClaimFacts(Checked(d.steps, entails, quotes), d)
            BY <1>3, <2>1, CheckedHasFacts
        <3> QED BY <3>1, <3>2
    <2>2. CASE ~ d.shown
        BY <1>2, <1>3, <2>2 DEF ClaimFacts
    <2> QED BY <2>1, <2>2
<1>5. DraftInv'
    BY <1>2, <1>3, <1>4 DEF DraftInv, Early, Written
<1> QED BY <1>1, <1>2, <1>5, PassagesStay DEF Late

LEMMA Measuring ==
    ASSUME PipelineInv, Signals
    PROVE  PipelineInv'
<1>1. PICK hits, rows, d, S : hits = mem.hits /\ rows = mem.rows /\ d = mem.draft /\ S = ServedChunks(mem.dept)
    OBVIOUS
<1>2. /\ UNCHANGED <<kb, ingest, held, db>> /\ mem.pc = "checked" /\ mem'.pc = "signalled"
      /\ DOMAIN mem' = DOMAIN mem
      /\ mem'.hits = hits /\ mem'.rows = rows /\ mem'.logged = mem.logged
      /\ mem'.draft = d /\ mem'.dept = mem.dept /\ mem'.claims = mem.claims
      /\ mem'.signals = SignalsOf(d, mem.claims, rows, mem.scores.dense, mem.scores.probe, mem.prob, None)
    BY <1>1 DEF PipelineInv, RunInv, RunTyped, Slots, Start, Step, Quietly, At, Signals
<1>3. DraftFacts(d, hits) /\ ClaimFacts(mem.claims, d) /\ ArePassages(hits, rows, S)
    BY <1>1, <1>2 DEF PipelineInv, RunInv, SearchInv, DraftInv, Written, Late
<1>4. SignalFacts(mem'.signals, d, hits)
    BY <1>2, <1>3, SignalsHaveFacts
<1>5. DraftInv'
    BY <1>2, <1>3, <1>4 DEF DraftInv, Early, Written
<1> QED BY <1>1, <1>2, <1>5, PassagesStay DEF Late

LEMMA Deciding ==
    ASSUME PipelineInv, Gate
    PROVE  PipelineInv'
<1>1. PICK d, signals : d = mem.draft /\ signals = mem.signals
    OBVIOUS
<1>2. /\ UNCHANGED <<kb, ingest, held, db>> /\ mem.pc = "signalled" /\ mem'.pc = "gated"
      /\ DOMAIN mem' = DOMAIN mem
      /\ mem'.hits = mem.hits /\ mem'.rows = mem.rows /\ mem'.logged = mem.logged
      /\ mem'.draft = d /\ mem'.dept = mem.dept /\ mem'.claims = mem.claims /\ mem'.signals = signals
      /\ \E score \in 0 .. MaxScore \cup {None}, t \in Thresholds \cup {None} :
            mem'.gate = Decision(score, d.shown, signals, t)
    BY <1>1 DEF PipelineInv, RunInv, RunTyped, Slots, Start, Step, Quietly, At, Gate
<1>3. DraftFacts(d, mem.hits) /\ ClaimFacts(mem.claims, d) /\ SignalFacts(signals, d, mem.hits)
    BY <1>1, <1>2 DEF PipelineInv, RunInv, DraftInv, Written
<1>4. GateFacts(mem'.gate, d, signals)
    BY <1>2, DecisionHasFacts
<1>5. DraftInv'
    BY <1>2, <1>3, <1>4 DEF DraftInv, Early, Written
<1> QED BY <1>2, <1>5, PassagesStay DEF Late

\* What the commit stores, from what the run holds.
LEMMA OutcomeHasFacts ==
    ASSUME PipelineInv, At("gated")
    PROVE  StoredFacts(Outcome)
<1>1. PICK d, hits, rows, claims, signals, g, dept, map :
          /\ d = mem.draft /\ hits = mem.hits /\ rows = mem.rows /\ claims = mem.claims
          /\ signals = mem.signals /\ g = mem.gate /\ dept = mem.dept /\ map = mem.map
    OBVIOUS
<1>2. db = NothingStored /\ mem.pc = "gated"
    BY DEF PipelineInv, RunInv, StoreInv, At
<1>3. /\ ArePassages(hits, rows, ServedChunks(dept)) /\ DraftFacts(d, hits) /\ ClaimFacts(claims, d)
      /\ SignalFacts(signals, d, hits) /\ GateFacts(g, d, signals)
      /\ mem.logged = Len(rows) /\ \A i \in 1 .. mem.logged : Referenced(rows[i].chunk)
    BY <1>1, <1>2 DEF PipelineInv, RunInv, SearchInv, LogInv, DraftInv, Written, Late
<1>4. OfOneTime(rows)
    <2>1. \A i \in DOMAIN rows : Referenced(rows[i].chunk)
        BY <1>3 DEF ArePassages
    <2>2. ServedChunks(dept) \in SUBSET DOMAIN Chunks
        BY DEF ServedChunks
    <2> QED BY <1>3, <2>1, <2>2, ReferencedAreOfOneTime DEF PipelineInv
<1>5. g.lane # "escalate" => d.shown /\ d.generated
    BY <1>3 DEF GateFacts, DraftFacts
<1>6. ASSUME dept = None
      PROVE  StoredFacts(Outcome)
    <2>1. Outcome = ToAdmin(WithLog(db), "unroutable")
        BY <1>1, <1>6 DEF Outcome
    <2>2. Outcome.tier = "admin" /\ Outcome.draft = None
        BY <1>2, <2>1 DEF ToAdmin, WithLog, NothingStored
    <2> QED BY <2>2 DEF StoredFacts, ReasonHolds
<1>7. ASSUME dept # None, g.lane = "escalate"
      PROVE  StoredFacts(Outcome)
    <2>1. PICK row : row = Outcome
        OBVIOUS
    <2>2. /\ row.status = "escalated" /\ row.lane = "escalate" /\ row.tier = "senior" /\ row.reason = Reason
          /\ row.dept = dept /\ row.reply = <<>> /\ row.citations = {} /\ row.hits = rows
          /\ IF d.generated
             THEN /\ row.draft = [valid |-> d.valid, canAnswer |-> d.canAnswer, steps |-> d.steps]
                  /\ row.evidence = hits /\ row.claims = claims /\ row.gate = g /\ row.signals = signals
             ELSE row.draft = None
        BY <1>1, <1>2, <1>7, <2>1 DEF Outcome, Withheld, WithDraft, WithLog, NothingStored
    <2>3. Reason = IF d.rejection # "none" THEN "rejected"
                   ELSE IF d.canAnswer = "no" THEN "unanswered"
                   ELSE IF g.thresholds = None THEN "no thresholds"
                   ELSE IF g.first = "guard" THEN "guard"
                   ELSE "below"
        BY <1>1 DEF Reason
    <2>4. ReasonHolds(row)
        <3>1. CASE d.rejection # "none"
            BY <1>3, <2>2, <2>3, <3>1 DEF ReasonHolds, DraftFacts
        <3>2. CASE d.rejection = "none"
            <4>1. d.generated /\ d.valid /\ (d.canAnswer # "no" => d.canAnswer = "yes" /\ d.shown)
                BY <1>3, <3>2 DEF DraftFacts
            <4>2. /\ row.draft.valid /\ row.draft.canAnswer = d.canAnswer
                  /\ row.gate = g /\ row.signals = signals
                BY <2>2, <4>1
            <4>3. /\ g.first = "guard" => Guarded(signals, g.thresholds)
                  /\ d.shown /\ g.thresholds # None /\ g.first # "guard" /\ g.score # None =>
                        /\ ~ Guarded(signals, g.thresholds)
                        /\ ~ Exceeds(g.score, g.thresholds.fast) /\ ~ Exceeds(g.score, g.thresholds.assisted)
                BY <1>3, <1>7 DEF GateFacts
            <4>4. row.reason = Reason
                BY <2>2
            <4>5. CASE d.canAnswer = "no"
                BY <2>3, <3>2, <4>2, <4>4, <4>5 DEF ReasonHolds
            <4>6. CASE d.canAnswer # "no" /\ g.thresholds = None
                BY <2>3, <3>2, <4>2, <4>4, <4>6 DEF ReasonHolds
            <4>7. CASE d.canAnswer # "no" /\ g.thresholds # None /\ g.first = "guard"
                BY <2>3, <3>2, <4>2, <4>3, <4>4, <4>7 DEF ReasonHolds
            <4>8. CASE d.canAnswer # "no" /\ g.thresholds # None /\ g.first # "guard"
                <5>1. row.reason = "below"
                    BY <2>3, <3>2, <4>4, <4>8
                <5> QED BY <4>1, <4>2, <4>3, <4>8, <5>1 DEF ReasonHolds
            <4> QED BY <4>5, <4>6, <4>7, <4>8
        <3> QED BY <3>1, <3>2
    <2>5. ASSUME d.generated
          PROVE  ReplyIsVetted(row) /\ PassagesAreOnes(row)
        <3>1. ReplyIsVetted(row)
            BY <2>2 DEF ReplyIsVetted
        <3>2. row.draft.steps = d.steps
            BY <2>2, <2>5
        <3>3. \A i \in DOMAIN claims : claims[i].cited \subseteq DOMAIN hits
            BY <1>3 DEF ClaimFacts, DraftFacts
        <3>4. SignalFacts(signals, row.draft, hits)
            BY <1>3, <3>2 DEF SignalFacts
        <3>5. \A i \in DOMAIN d.steps : d.steps[i].cites # {} /\ d.steps[i].cites \subseteq DOMAIN hits
            BY <1>3 DEF DraftFacts
        <3>6. PassagesAreOnes(row)
            BY <1>3, <1>4, <1>7, <2>2, <2>5, <3>2, <3>3, <3>4, <3>5 DEF PassagesAreOnes
        <3> QED BY <3>1, <3>6
    <2> QED BY <2>1, <2>2, <2>4, <2>5 DEF StoredFacts
<1>8. ASSUME dept # None, g.lane # "escalate"
      PROVE  StoredFacts(Outcome)
    <2>1. PICK row : row = Outcome
        OBVIOUS
    <2>2. /\ row.status = "drafted" /\ row.lane = g.lane /\ row.tier = "none"
          /\ row.dept = dept /\ row.reply # <<>> /\ row.citations = Citations(d.steps) /\ row.hits = rows
          /\ row.draft = [valid |-> d.valid, canAnswer |-> d.canAnswer, steps |-> d.steps]
          /\ row.evidence = hits /\ row.claims = claims /\ row.gate = g /\ row.signals = signals
        BY <1>1, <1>2, <1>5, <1>8, <2>1 DEF Outcome, Shown, WithDraft, WithLog, NothingStored
    <2>3. /\ d.shown /\ d.rejection = "none" /\ d.valid /\ d.canAnswer = "yes" /\ d.steps # <<>>
          /\ ~ IsBlocked(d.steps, Texts(hits))
          /\ Len(d.steps) \in Nat /\ DOMAIN d.steps = 1 .. Len(d.steps)
          /\ \A i \in DOMAIN d.steps : d.steps[i].cites # {} /\ d.steps[i].cites \subseteq DOMAIN hits
        BY <1>3, <1>5, <1>8 DEF DraftFacts
    <2>4. row.draft.steps = d.steps /\ row.draft.valid /\ row.draft.canAnswer = "yes"
        BY <2>2, <2>3
    <2>5. /\ DOMAIN claims = DOMAIN d.steps
          /\ \A i \in DOMAIN claims :
                claims[i].step = i /\ claims[i].cited = d.steps[i].cites /\ claims[i].support \in Nat
        BY <1>3, <2>3 DEF ClaimFacts
    <2>6. /\ g.thresholds # None
          /\ IF g.lane = "fast" THEN Reaches(g.score, g.thresholds.fast)
             ELSE g.lane = "assisted" /\ Reaches(g.score, g.thresholds.assisted)
        BY <1>3, <1>8 DEF GateFacts
    <2>7. ReplyIsVetted(row)
        BY <2>2, <2>3, <2>4, <2>5, <2>6 DEF ReplyIsVetted
    <2>8. \A c \in row.citations : c.article = Chunks[hits[c.n]].article
        BY <1>1, <2>2 DEF Citations
    <2>9. SignalFacts(signals, row.draft, hits)
        BY <1>3, <2>4 DEF SignalFacts
    <2>10. PassagesAreOnes(row)
        BY <1>3, <1>4, <1>8, <2>2, <2>3, <2>4, <2>5, <2>8, <2>9 DEF PassagesAreOnes
    <2> QED BY <2>1, <2>2, <2>7, <2>10 DEF StoredFacts, ReasonHolds
<1> QED BY <1>6, <1>7, <1>8

LEMMA Committing ==
    ASSUME PipelineInv, Commit
    PROVE  PipelineInv'
<1>1. /\ UNCHANGED <<kb, ingest>> /\ held' = {} /\ db' = Outcome
      /\ mem'.pc = "done" /\ DOMAIN mem' = Slots /\ StoredFacts(Outcome)
    BY OutcomeHasFacts DEF Commit, Slots, Start
<1>2. KBInv' /\ HeldInv'
    BY <1>1 DEF PipelineInv, KBInv, KBTyped, Exists, NoneIsOutdated, LoadIsComplete, Visited, Present, HeldInv
<1>3. RunInv'
    BY <1>1 DEF RunInv, RunTyped, StoreInv, SearchInv, LogInv, DraftInv, Early, Late, Written
<1> QED BY <1>2, <1>3 DEF PipelineInv

LEMMA Failing ==
    ASSUME PipelineInv, Fail \/ LogRefused
    PROVE  PipelineInv'
<1>1. /\ UNCHANGED <<kb, ingest, db>> /\ held' = {} /\ mem.pc # "done"
      /\ mem'.pc = "failed" /\ DOMAIN mem' = Slots
    BY DEF PipelineInv, RunInv, RunTyped, Slots, Start, Fail, LogRefused, At, Step
<1>2. KBInv' /\ HeldInv'
    BY <1>1 DEF PipelineInv, KBInv, KBTyped, Exists, NoneIsOutdated, LoadIsComplete, Visited, Present, HeldInv
<1>3. RunInv'
    BY <1>1 DEF PipelineInv, RunInv, RunTyped, StoreInv, SearchInv, LogInv, DraftInv, Early, Late, Written
<1> QED BY <1>2, <1>3 DEF PipelineInv

LEMMA Recovering ==
    ASSUME PipelineInv, Recover
    PROVE  PipelineInv'
<1>1. /\ UNCHANGED <<kb, ingest, held>> /\ db = NothingStored /\ db' = ToAdmin(db, "error")
      /\ mem'.pc = "done" /\ DOMAIN mem' = Slots
    BY DEF PipelineInv, RunInv, RunTyped, StoreInv, Slots, Start, Recover, At
<1>2. db'.tier = "admin" /\ db'.draft = None
    BY <1>1 DEF ToAdmin, NothingStored
<1>3. StoredFacts(db')
    BY <1>2 DEF StoredFacts, ReasonHolds
<1>4. RunInv'
    BY <1>1, <1>3 DEF RunInv, RunTyped, StoreInv, SearchInv, LogInv, DraftInv, Early, Late, Written
<1> QED BY <1>1, <1>4, NothingElseMoves DEF PipelineInv

\* A load changes nothing of what the run references.
LEMMA Loading ==
    ASSUME PipelineInv, KBNext, UNCHANGED <<mem, db>>
    PROVE  PipelineInv'
<1>1. KBInv' /\ HeldInv' /\ held' = held /\ \A a \in held : kb'[a] = kb[a]
    BY KBStays, HeldRowsStay DEF PipelineInv, KBNext, IngestStep, CreateArticle, StartIngest, LoadArticle, FindStale,
       PruneArticle, CommitIngest, FailIngest
<1>2. \A c : Referenced(c) => Referenced(c)'
    BY <1>1 DEF Referenced, ChunkExists, Exists, ChunkOf
<1>3. LogInv'
    <2>1. PICK m : m = mem
        OBVIOUS
    <2>2. \A i : Referenced(m.rows[i].chunk) => Referenced(m.rows[i].chunk)'
        BY <1>2
    <2>3. mem' = m /\ LogInv
        BY <2>1 DEF PipelineInv, RunInv
    <2> QED BY <2>1, <2>2, <2>3 DEF LogInv
<1>4. RunTyped' /\ StoreInv' /\ SearchInv' /\ DraftInv'
    BY DEF PipelineInv, RunInv, RunTyped, StoreInv, SearchInv, DraftInv
<1> QED BY <1>1, <1>3, <1>4 DEF PipelineInv, RunInv

LEMMA PipelineStays == PipelineInv /\ [Next]_vars => PipelineInv'
<1> SUFFICES ASSUME PipelineInv, [Next]_vars PROVE PipelineInv'
    OBVIOUS
<1>1. ASSUME RunStep PROVE PipelineInv'
    BY <1>1, BeforeTheSearch, WithoutASearch, KeywordSearch, DenseSearch, LoggingReferences, Failing, LogEnds,
       Answering, Checking, Measuring, Deciding, Committing, Recovering DEF RunStep
<1>2. ASSUME Fail PROVE PipelineInv'
    BY <1>2, Failing
<1>3. ASSUME LoadStep PROVE PipelineInv'
    BY <1>3, Loading DEF LoadStep
<1>4. ASSUME AbortOne PROVE PipelineInv'
    BY <1>4, Loading, Failing DEF AbortOne, KBNext
<1>5. ASSUME UNCHANGED vars PROVE PipelineInv'
    <2>1. UNCHANGED <<kb, ingest, held, mem, db>>
        BY <1>5 DEF vars
    <2>2. KBInv' /\ HeldInv' /\ \A c : Referenced(c) => Referenced(c)'
        BY <2>1, NothingElseMoves DEF PipelineInv
    <2>3. LogInv'
        BY <2>1, <2>2 DEF PipelineInv, RunInv, LogInv
    <2>4. RunTyped' /\ StoreInv' /\ SearchInv' /\ DraftInv'
        BY <2>1 DEF PipelineInv, RunInv, RunTyped, StoreInv, SearchInv, DraftInv
    <2> QED BY <2>2, <2>3, <2>4 DEF PipelineInv, RunInv
<1> QED BY <1>1, <1>2, <1>3, <1>4, <1>5 DEF Next

LEMMA StoredWasVetted ==
    ASSUME PipelineInv
    PROVE  /\ db.tier = "senior" => StoredFacts(db)
           /\ db.draft # None => StoredFacts(db)
<1>1. mem.pc # "done" => db.tier = "none" /\ db.draft = None
    BY DEF PipelineInv, RunInv, StoreInv, NothingStored
<1> QED BY <1>1 DEF PipelineInv, RunInv, StoreInv

\* The reason stored with an escalation to the department is the case: a rejected draft is
\* absent, invalid or blocked, an unanswered one is valid and does not answer, a guard that
\* is named is one the signals break, and below a threshold is below every threshold.
THEOREM EveryReasonIsTrue == Spec => []ReasonIsTrue
<1>1. Init => PipelineInv
    BY RunStarts
<1>2. PipelineInv /\ [Next]_vars => PipelineInv'
    BY PipelineStays
<1>3. PipelineInv => ReasonIsTrue
    <2> SUFFICES ASSUME PipelineInv, db.tier = "senior" PROVE ReasonIsTrue
        BY DEF ReasonIsTrue, EscalationView
    <2>1. ReasonHolds(db)
        BY StoredWasVetted DEF StoredFacts
    <2> QED BY <2>1 DEF ReasonIsTrue, ReasonHolds, EscalationView
<1> QED BY <1>1, <1>2, <1>3, PTL DEF Spec

LEMMA TheShownWasVetted ==
    ASSUME PipelineInv, FilesKeepTheirDepartment
    PROVE  ShownDraftIsVetted
<1> SUFFICES ASSUME db.draft # None PROVE ShownDraftIsVetted
    BY DEF ShownDraftIsVetted
<1>1. ReplyIsVetted(db) /\ PassagesAreOnes(db)
    BY StoredWasVetted DEF StoredFacts
<1>2. ASSUME db.reply = <<>> PROVE ShownDraftIsVetted
    <2>1. /\ DraftView.shown = FALSE /\ DraftView.lane = "escalate" /\ DraftView.steps = <<>>
          /\ DraftView.claims = <<>> /\ DraftView.weakest = Weakest(<<>>)
        BY <1>1, <1>2 DEF DraftView, ReplyIsVetted
    <2>2. Weakest(<<>>) = {}
        BY DEF Weakest
    <2> QED BY <1>1, <1>2, <2>1, <2>2 DEF ShownDraftIsVetted, ReplyIsVetted
<1>3. ASSUME db.reply # <<>> PROVE ShownDraftIsVetted
    <2>1. PICK steps, evidence, claims, gate :
              steps = db.draft.steps /\ evidence = db.evidence /\ claims = db.claims /\ gate = db.gate
        OBVIOUS
    <2>2. /\ db.status = "drafted" /\ db.draft.valid /\ db.draft.canAnswer = "yes"
          /\ steps # <<>> /\ ~ IsBlocked(steps, Texts(evidence))
          /\ Len(steps) \in Nat /\ DOMAIN steps = 1 .. Len(steps) /\ DOMAIN claims = DOMAIN steps
          /\ \A i \in DOMAIN claims : claims[i].step = i /\ claims[i].support \in Nat
          /\ db.lane = gate.lane /\ db.lane # "none" /\ gate.thresholds # None
          /\ IF gate.lane = "fast" THEN Reaches(gate.score, gate.thresholds.fast)
             ELSE gate.lane = "assisted" /\ Reaches(gate.score, gate.thresholds.assisted)
        BY <1>1, <1>3, <2>1 DEF ReplyIsVetted
    <2>3. /\ DraftView.shown = TRUE /\ DraftView.lane = gate.lane /\ DraftView.steps = steps
          /\ DraftView.evidence = evidence /\ DraftView.claims = claims
          /\ DraftView.weakest = Weakest(claims)
        BY <1>3, <2>1, <2>2 DEF DraftView
    <2>4. /\ DecisionView.lane = gate.lane /\ DecisionView.score = gate.score
          /\ DecisionView.fast = gate.thresholds.fast /\ DecisionView.assisted = gate.thresholds.assisted
        BY <2>1, <2>2 DEF DecisionView
    <2>5. ASSUME NEW i \in DOMAIN steps
          PROVE  /\ steps[i].cites # {} /\ steps[i].cites \subseteq DOMAIN evidence
                 /\ \A x \in steps[i].runs \ BareUrls :
                       \E n \in steps[i].cites : x \in Chunks[evidence[n]].says
        <3>1. steps[i].cites # {} /\ steps[i].cites \subseteq DOMAIN evidence
            BY <1>1, <2>1 DEF PassagesAreOnes
        <3>2. ~ Blocked(steps[i], Texts(evidence))
            BY <2>2 DEF IsBlocked
        <3>3. \A n \in DOMAIN evidence : Texts(evidence)[n] = Chunks[evidence[n]]
            BY DEF Texts
        <3>4. steps[i].runs \ BareUrls \subseteq UNION {Texts(evidence)[n].says : n \in steps[i].cites}
            BY <3>2 DEF Blocked
        <3> QED BY <3>1, <3>3, <3>4
    <2>6. ASSUME NEW n \in DOMAIN evidence, IsFromFile(evidence[n])
          PROVE  FileRow(evidence[n]).dept = db.dept /\ FileRow(evidence[n]).served = TRUE
        <3>1. evidence[n] \in ServedChunks(db.dept)
            BY <1>1, <2>1 DEF PassagesAreOnes, ArePassages, DrawnFrom
        <3> QED BY <2>6, <3>1 DEF ServedChunks, WasServedIn
    <2>7. {c.step : c \in ToSet(claims)} = DOMAIN steps
        BY <2>2 DEF ToSet
    <2>8. \A c \in ToSet(claims) \ Weakest(claims), w \in Weakest(claims) : w.support <= c.support
        BY <2>2, TheWeakestStandOut
    <2> HIDE DEF ShownDraftIsVetted
    <2> QED BY <2>2, <2>3, <2>4, <2>5, <2>6, <2>7, <2>8 DEF ShownDraftIsVetted
<1> QED BY <1>2, <1>3

\* An engineer sees no draft but one that was vetted: each step cites retrieved passages and
\* runs nothing they do not say, the passages are served articles of the ticket's department,
\* the claims are the steps', and the lane is one whose threshold the score reaches.  It is
\* assumed that no article file moves to another department's folder.
THEOREM EveryShownDraftIsVetted ==
    ASSUME FilesKeepTheirDepartment
    PROVE  Spec => []ShownDraftIsVetted
<1>1. Init => PipelineInv
    BY RunStarts
<1>2. PipelineInv /\ [Next]_vars => PipelineInv'
    BY PipelineStays
<1>3. PipelineInv => ShownDraftIsVetted
    BY TheShownWasVetted
<1> QED BY <1>1, <1>2, <1>3, PTL DEF Spec

\* The log's numbered rows are as many as the passages, and number n is passage n.
LEMMA LogListsThePassages ==
    ASSUME PipelineInv, db.draft # None
    PROVE  LoggedEvidence = StillThere(db.evidence)
<1>1. PICK hits, evidence, S : hits = db.hits /\ evidence = db.evidence /\ S = ServedChunks(db.dept)
    OBVIOUS
<1>2. ArePassages(evidence, hits, S)
    BY <1>1, StoredWasVetted DEF StoredFacts, PassagesAreOnes
<1> DEFINE I == {i \in DOMAIN hits : hits[i].final # 0}
           f == [i \in I |-> hits[i].final]
           Hit(n) == hits[CHOOSE i \in DOMAIN hits : hits[i].final = n].chunk
<1>3. /\ Len(evidence) \in Nat /\ DOMAIN evidence = 1 .. Len(evidence)
      /\ evidence = [n \in 1 .. Len(evidence) |-> evidence[n]]
    BY <1>2 DEF ArePassages, DrawnFrom
<1>4. f \in Bijection(I, DOMAIN evidence)
    <2>1. f \in [I -> DOMAIN evidence]
        BY <1>2 DEF ArePassages
    <2>2. \A i, j \in I : f[i] = f[j] => i = j
        BY <1>2 DEF ArePassages
    <2>3. \A n \in DOMAIN evidence : \E i \in I : f[i] = n
        BY <1>2, <1>3 DEF ArePassages
    <2> HIDE DEF f, I
    <2> QED BY <2>1, <2>2, <2>3 DEF Bijection, Injection, Surjection, IsInjective
<1>5. Cardinality(I) = Len(evidence)
    <2>1. IsFiniteSet(DOMAIN evidence) /\ Cardinality(DOMAIN evidence) = Len(evidence)
        BY <1>3, FS_Interval
    <2>2. IsFiniteSet(DOMAIN hits) /\ I \in SUBSET DOMAIN hits
        BY <1>2, FS_Interval DEF ArePassages
    <2>3. IsFiniteSet(I)
        BY <2>2, FS_Subset
    <2> HIDE DEF f, I
    <2> QED BY <1>4, <2>1, <2>3, FS_Bijection DEF ExistsBijection
<1>6. \A n \in 1 .. Len(evidence) : Hit(n) = evidence[n]
    BY <1>2, <1>3 DEF ArePassages
<1> HIDE DEF Hit, I
<1>7. [n \in 1 .. Cardinality(I) |-> Hit(n)] = evidence
    BY <1>3, <1>5, <1>6
<1>8. StillThere([n \in 1 .. Cardinality(I) |-> Hit(n)]) = StillThere(evidence)
    BY <1>7
<1> QED BY <1>1, <1>8 DEF LoggedEvidence, I, Hit

LEMMA StoredPassagesAgree ==
    ASSUME PipelineInv
    PROVE  PassagesAgree
<1> SUFFICES ASSUME db.draft # None PROVE PassagesAgree
    BY DEF PassagesAgree
<1>1. PassagesAreOnes(db)
    BY StoredWasVetted DEF StoredFacts
<1>2. PICK hits, evidence, S : hits = db.hits /\ evidence = db.evidence /\ S = ServedChunks(db.dept)
    OBVIOUS
<1>3. ArePassages(evidence, hits, S) /\ OfOneTime(hits)
    BY <1>1, <1>2 DEF PassagesAreOnes
<1>4. \A n \in DOMAIN evidence : \E i \in DOMAIN hits : hits[i].final = n /\ hits[i].chunk = evidence[n]
    BY <1>3 DEF ArePassages, DrawnFrom
<1>5. ASSUME NEW i \in DOMAIN hits, NEW j \in DOMAIN hits,
             Chunks[hits[i].chunk].load < Chunks[hits[j].chunk].load
      PROVE  FileOf[Chunks[hits[j].chunk].load][Chunks[hits[i].chunk].article].state = "absent"
    <2>1. hits[i].chunk \in DOMAIN Chunks /\ hits[j].chunk \in DOMAIN Chunks
        BY <1>2, <1>3 DEF ArePassages, ServedChunks
    <2>2. PICK a, l, k : a = Chunks[hits[i].chunk].article /\ l = Chunks[hits[j].chunk].load
                         /\ k = Chunks[hits[i].chunk].load
        OBVIOUS
    <2>3. a \in Articles /\ l \in Loads \cup {0} /\ k \in Loads \cup {0} /\ k < l
        BY <1>5, <2>1, <2>2, KnowledgeBaseAssumption
    <2>4. l \in Loads
        BY <2>3, LoadsAreNumbers
    <2>5. ~ HasFile(l, a)
        BY <1>3, <1>5, <2>2 DEF OfOneTime
    <2>6. FileOf[l][a].state \in {"absent", "present", "pruned"} /\ FileOf[l][a].state # "pruned"
        BY <2>3, <2>4, LoadsAreNumbers, KnowledgeBaseAssumption DEF ArticleRow
    <2> QED BY <2>2, <2>5, <2>6 DEF HasFile
<1>6. db.signals.evidence = {evidence[n] : n \in UNION {db.draft.steps[i].cites : i \in DOMAIN db.draft.steps}}
    BY <1>1, <1>2 DEF PassagesAreOnes, SignalFacts, Cites
<1>7. EvidenceView = StillThere(db.evidence)
    BY <1>1, LogListsThePassages DEF EvidenceView, PassagesAreOnes
<1>8. /\ \A c \in db.citations : c.article = Chunks[db.evidence[c.n]].article
      /\ \A i \in DOMAIN db.claims : db.claims[i].cited \subseteq DOMAIN db.evidence
    BY <1>1 DEF PassagesAreOnes
<1>9. \A n \in DOMAIN db.evidence :
         \E i \in DOMAIN db.hits : db.hits[i].final = n /\ db.hits[i].chunk = db.evidence[n]
    BY <1>2, <1>4
<1>10. \A i, j \in DOMAIN db.hits :
          Chunks[db.hits[i].chunk].load < Chunks[db.hits[j].chunk].load =>
              FileOf[Chunks[db.hits[j].chunk].load][Chunks[db.hits[i].chunk].article].state = "absent"
    BY <1>2, <1>5
<1>11. db.signals.evidence =
          {db.evidence[n] : n \in UNION {db.draft.steps[i].cites : i \in DOMAIN db.draft.steps}}
    BY <1>2, <1>6
<1> QED BY ONLY <1>7, <1>8, <1>9, <1>10, <1>11 DEF PassagesAgree

\* Passage n is one chunk in the evidence, the log, the citations and the signals, and no
\* log mixes a passage with one of the load that replaced it: the run's references keep a
\* load from committing over what is logged, and what was replaced before is not logged.
THEOREM AllPassagesAgree == Spec => []PassagesAgree
<1>1. Init => PipelineInv
    BY RunStarts
<1>2. PipelineInv /\ [Next]_vars => PipelineInv'
    BY PipelineStays
<1>3. PipelineInv => PassagesAgree
    BY StoredPassagesAgree
<1> QED BY <1>1, <1>2, <1>3, PTL DEF Spec

\* While the run references a row of the knowledge base, no load deletes or replaces it:
\* what is logged is there until the run ends.
THEOREM LoggedRowsStay ==
    Spec => [][\A a \in held : kb'[a] = kb[a]]_vars
<1>1. Init => PipelineInv
    BY RunStarts
<1>2. PipelineInv /\ [Next]_vars => PipelineInv'
    BY PipelineStays
<1>3. PipelineInv /\ [Next]_vars => [\A a \in held : kb'[a] = kb[a]]_vars
    <2> SUFFICES ASSUME PipelineInv, Next PROVE \A a \in held : kb'[a] = kb[a]
        BY DEF vars
    <2>1. ASSUME KBNext PROVE \A a \in held : kb'[a] = kb[a]
        BY <2>1, HeldRowsStay DEF PipelineInv
    <2>2. ASSUME RunStep \/ Fail PROVE kb' = kb
        BY <2>2 DEF RunStep, Fail, Extract, RedactFields, ClassifyAndRoute, SkipRetrieval, SearchKeyword, SearchDense,
           LogHit, LogRefused, LogComplete, Draft, DraftUnavailable, Check, Signals, Gate, Commit, Recover, Quietly, Step
    <2> QED BY <2>1, <2>2 DEF Next, LoadStep, AbortOne, KBNext
<1> QED BY <1>1, <1>2, <1>3, PTL DEF Spec

----------------------------------------------------------------------------
(* Folds *)

\* Induction up to n.
LEMMA CountingUp ==
    ASSUME NEW n \in Nat, NEW S, 0 \in S, \A k \in 1 .. n : k - 1 \in S => k \in S
    PROVE  \A k \in 0 .. n : k \in S
<1> DEFINE Missed == {k \in 0 .. n : k \notin S}
<1>1. Missed \in SUBSET Nat
    OBVIOUS
<1>2. SUFFICES ASSUME Missed # {} PROVE FALSE
    OBVIOUS
<1>3. PICK k \in Missed : \A m \in Missed : k <= m
    <2> HIDE DEF Missed
    <2> QED BY <1>1, <1>2, LeastNumber
<1>4. k \in 1 .. n /\ k - 1 \in 0 .. n /\ k - 1 \notin Missed
    BY <1>3
<1> QED BY <1>3, <1>4

LEMMA MaxIs ==
    ASSUME NEW k \in Nat, NEW s \in SUBSET (1 .. k), s # {}
    PROVE  Max(s) \in s /\ \A x \in s : x <= Max(s)
<1>1. \E y \in s : \A x \in s : x <= y
    <2> DEFINE T == {k - x : x \in s}
    <2>1. T \in SUBSET Nat /\ T # {}
        <3>1. \A x \in s : k - x \in Nat
            OBVIOUS
        <3> QED BY <3>1
    <2>2. PICK t \in T : \A u \in T : t <= u
        <3> HIDE DEF T
        <3> QED BY <2>1, LeastNumber
    <2>3. PICK y \in s : t = k - y
        OBVIOUS
    <2>4. ASSUME NEW x \in s PROVE x <= y
        <3>1. k - y <= k - x /\ x \in Int /\ y \in Int
            BY <2>2, <2>3
        <3> QED BY <3>1
    <2> QED BY <2>4
<1>2. \E y \in s : \A x \in s : y >= x
    BY <1>1
<1>3. Max(s) \in s /\ \A x \in s : Max(s) >= x
    BY <1>2 DEF Max
<1> QED BY <1>3

LEMMA DropMax ==
    ASSUME NEW k \in Nat, NEW s \in SUBSET (1 .. k), s # {}
    PROVE  Max(s) \in 1 .. k /\ s \ {Max(s)} \in SUBSET (1 .. k - 1)
<1>1. Max(s) \in s /\ \A x \in s : x <= Max(s)
    BY MaxIs
<1>2. Max(s) \in 1 .. k
    BY <1>1
<1>3. ASSUME NEW x \in s, x # Max(s) PROVE x \in 1 .. k - 1
    <2>1. x \in 1 .. k /\ x <= Max(s)
        BY <1>1
    <2> QED BY <1>2, <1>3, <2>1
<1> QED BY <1>2, <1>3

\* What the elements of a sequence do to an accumulator, one after another.
Folded(g, D, base, step, seq) ==
    \A s \in D : g[s] = IF s = {} THEN base ELSE step[<<g[s \ {Max(s)}], seq[Max(s)]>>]

\* The recursion in which folds are defined has a solution, whatever the step.
LEMMA FoldExists ==
    ASSUME NEW A, NEW E, NEW step \in [A \X E -> A], NEW base \in A,
           NEW n \in Nat, NEW seq \in [1 .. n -> E]
    PROVE  \E g \in [SUBSET (1 .. n) -> A] : Folded(g, SUBSET (1 .. n), base, step, seq)
<1> DEFINE Good == {k \in 0 .. n : \E g \in [SUBSET (1 .. k) -> A] : Folded(g, SUBSET (1 .. k), base, step, seq)}
<1>1. 0 \in Good
    <2>1. SUBSET (1 .. 0) = {{}}
        OBVIOUS
    <2> DEFINE g == [s \in SUBSET (1 .. 0) |-> base]
    <2>2. g \in [SUBSET (1 .. 0) -> A] /\ Folded(g, SUBSET (1 .. 0), base, step, seq)
        BY <2>1 DEF Folded
    <2> QED BY <2>2
<1>2. ASSUME NEW k \in 1 .. n, k - 1 \in Good PROVE k \in Good
    <2> DEFINE below == SUBSET (1 .. k - 1)
    <2>1. PICK g \in [below -> A] : Folded(g, below, base, step, seq)
        BY <1>2
    <2> DEFINE next(s) == IF s = {} THEN base ELSE step[<<g[s \ {Max(s)}], seq[Max(s)]>>]
               h == [s \in SUBSET (1 .. k) |-> next(s)]
    <2>2. ASSUME NEW s \in SUBSET (1 .. k), s # {}
          PROVE  s \ {Max(s)} \in below /\ Max(s) \in 1 .. n
        <3>1. k \in Nat /\ 1 .. k \subseteq 1 .. n
            OBVIOUS
        <3>2. Max(s) \in 1 .. k /\ s \ {Max(s)} \in below
            BY ONLY <2>2, <3>1, DropMax
        <3> QED BY <3>1, <3>2
    <2>3. ASSUME NEW s \in below PROVE next(s) = g[s] /\ s \in SUBSET (1 .. k)
        <3>1. next(s) = g[s]
            BY <2>1 DEF Folded
        <3>2. 1 .. k - 1 \subseteq 1 .. k
            OBVIOUS
        <3> QED BY <3>1, <3>2
    <2>4. ASSUME NEW s \in SUBSET (1 .. k) PROVE next(s) \in A
        <3>1. CASE s = {}
            BY <3>1
        <3>2. CASE s # {}
            <4>1. g[s \ {Max(s)}] \in A /\ seq[Max(s)] \in E
                BY <2>2, <3>2
            <4> QED BY <3>2, <4>1
        <3> QED BY <3>1, <3>2
    <2>5. ASSUME NEW s \in SUBSET (1 .. k)
          PROVE  h[s] = IF s = {} THEN base ELSE step[<<h[s \ {Max(s)}], seq[Max(s)]>>]
        <3>1. h[s] = next(s)
            OBVIOUS
        <3>2. CASE s = {}
            BY <3>1, <3>2
        <3>3. CASE s # {}
            <4>1. s \ {Max(s)} \in below
                BY <2>2, <3>3
            <4>2. h[s \ {Max(s)}] = g[s \ {Max(s)}]
                BY <2>3, <4>1
            <4> QED BY <3>1, <3>3, <4>2
        <3> QED BY <3>2, <3>3
    <2>6. h \in [SUBSET (1 .. k) -> A]
        BY <2>4
    <2>7. Folded(h, SUBSET (1 .. k), base, step, seq)
        BY <2>5 DEF Folded
    <2> HIDE DEF h
    <2>8. \E f \in [SUBSET (1 .. k) -> A] : Folded(f, SUBSET (1 .. k), base, step, seq)
        BY <2>6, <2>7
    <2> QED BY <2>8
<1>3. \A k \in 0 .. n : k \in Good
    <2> HIDE DEF Good
    <2> QED BY <1>1, <1>2, CountingUp
<1>4. n \in Good
    <2> HIDE DEF Good
    <2> QED BY <1>3
<1> QED BY <1>4

LEMMA LastOfInterval ==
    ASSUME NEW k \in Nat, k # 0
    PROVE  1 .. k # {} /\ Max(1 .. k) = k /\ (1 .. k) \ {k} = 1 .. k - 1
<1>1. k \in 1 .. k
    OBVIOUS
<1>2. Max(1 .. k) \in 1 .. k /\ k <= Max(1 .. k)
    BY <1>1, MaxIs
<1>3. (1 .. k) \ {k} = 1 .. k - 1
    OBVIOUS
<1> QED BY <1>1, <1>2, <1>3

----------------------------------------------------------------------------
(* A pass, step by step *)

Acc == [words : Seq(Word), map : Seq(Entry)]

\* The intermediate results of folding s with Substitute.
PassSteps(h, pass, acc) ==
    /\ h \in [0 .. Len(acc.words) -> Acc]
    /\ h[0] = [acc EXCEPT !.words = <<>>]
    /\ \A k \in 1 .. Len(acc.words) : h[k] = Substitute(pass, h[k - 1], acc.words[k])

LEMMA PlaceholderTyped ==
    ASSUME NEW map \in Seq(Entry), NEW kind \in PassKinds, NEW original
    PROVE  PlaceholderFor(map, kind, original) \in [raw : {FALSE}, kind : PassKinds, n : Nat]
<1>1. CASE Known(map, original)
    <2>1. PICK i \in DOMAIN map : map[i].original = original
        BY <1>1 DEF Known
    <2>2. \A j \in DOMAIN map : map[j] \in Entry
        OBVIOUS
    <2> QED BY <1>1, <2>1, <2>2 DEF PlaceholderFor, Entry
<1>2. CASE ~ Known(map, original)
    <2>1. DOMAIN map = 1 .. Len(map) /\ Len(map) \in Nat
        OBVIOUS
    <2>2. IsFiniteSet(1 .. Len(map))
        BY <2>1, FS_Interval
    <2>3. Numbered(map, kind) \in SUBSET (1 .. Len(map))
        BY <2>1 DEF Numbered
    <2>4. Cardinality(Numbered(map, kind)) \in Nat
        BY <2>2, <2>3, FS_Subset, FS_CardinalityType
    <2> QED BY <1>2, <2>4 DEF PlaceholderFor, Placeholder
<1> QED BY <1>1, <1>2

LEMMA SubstituteTyped ==
    ASSUME NEW acc \in Acc, NEW w \in Word, NEW pass \in PassKinds
    PROVE  Substitute(pass, acc, w) \in Acc
<1>1. acc.words \in Seq(Word) /\ acc.map \in Seq(Entry) /\ acc = [words |-> acc.words, map |-> acc.map]
    BY DEF Acc
<1>2. CASE ~ Matches(pass, w)
    <2>1. Append(acc.words, w) \in Seq(Word)
        BY <1>1
    <2>2. Substitute(pass, acc, w) = [words |-> Append(acc.words, w), map |-> acc.map]
        BY <1>1, <1>2 DEF Substitute
    <2> QED BY <1>1, <2>1, <2>2 DEF Acc
<1>3. CASE Matches(pass, w)
    <2> DEFINE p == PlaceholderFor(acc.map, pass, w.text)
    <2>1. p \in [raw : {FALSE}, kind : PassKinds, n : Nat]
        BY <1>1, PlaceholderTyped
    <2>2. Substitute(pass, acc, w) =
              [words |-> Append(acc.words, [w EXCEPT !.text = p]), map |-> Remember(acc.map, p, w.text)]
        BY <1>3 DEF Substitute
    <2> HIDE DEF p
    <2>3. p \in Text /\ [w EXCEPT !.text = p] \in Word /\ w.text \in Text
        BY <2>1 DEF Text, Word
    <2>4. Remember(acc.map, p, w.text) \in Seq(Entry)
        <3>1. [placeholder |-> p, original |-> w.text] \in Entry
            BY <2>1, <2>3 DEF Entry
        <3> QED BY <1>1, <3>1 DEF Remember
    <2>5. Append(acc.words, [w EXCEPT !.text = p]) \in Seq(Word)
        BY <1>1, <2>3
    <2> QED BY <2>2, <2>4, <2>5 DEF Acc
<1> QED BY <1>2, <1>3

LEMMA PassIsIterated ==
    ASSUME NEW acc \in Acc, NEW pass \in PassKinds
    PROVE  \E h : PassSteps(h, pass, acc) /\ RunPass(acc, pass) = h[Len(acc.words)]
<1> DEFINE ws == acc.words
           n == Len(ws)
           base == [acc EXCEPT !.words = <<>>]
           Result(g, s) == IF s = {} THEN base ELSE Substitute(pass, g[s \ {Max(s)}], ws[Max(s)])
           it == CHOOSE g : g = [s \in SUBSET DOMAIN ws |-> Result(g, s)]
           step == [x \in Acc \X Word |-> Substitute(pass, x[1], x[2])]
<1>1. /\ n \in Nat /\ DOMAIN ws = 1 .. n /\ ws \in [1 .. n -> Word]
      /\ base \in Acc
    <2>1. acc.words \in Seq(Word) /\ acc.map \in Seq(Entry) /\ acc = [words |-> acc.words, map |-> acc.map]
        BY DEF Acc
    <2>2. base = [words |-> <<>>, map |-> acc.map] /\ <<>> \in Seq(Word)
        BY <2>1
    <2>3. base \in Acc
        BY <2>1, <2>2 DEF Acc
    <2> QED BY <2>1, <2>3
<1>2. step \in [Acc \X Word -> Acc]
    BY SubstituteTyped
<1>3. RunPass(acc, pass) = it[DOMAIN ws]
    BY DEF RunPass, FoldLeft, MapThenFoldSet
<1>4. \E g : g = [s \in SUBSET DOMAIN ws |-> Result(g, s)]
    <2> HIDE DEF n, base, ws, step
    <2>1. PICK g \in [SUBSET (1 .. n) -> Acc] : Folded(g, SUBSET (1 .. n), base, step, ws)
        BY <1>1, <1>2, FoldExists
    <2>2. ASSUME NEW s \in SUBSET (1 .. n) PROVE g[s] = Result(g, s)
        <3>1. CASE s = {}
            BY <2>1, <3>1 DEF Folded
        <3>2. CASE s # {}
            <4>1. Max(s) \in 1 .. n /\ s \ {Max(s)} \in SUBSET (1 .. n)
                BY <1>1, <3>2, DropMax
            <4>2. g[s \ {Max(s)}] \in Acc /\ ws[Max(s)] \in Word
                BY <1>1, <2>1, <4>1
            <4>3. g[s] = step[<<g[s \ {Max(s)}], ws[Max(s)]>>]
                BY <2>1, <3>2 DEF Folded
            <4> QED BY <3>2, <4>2, <4>3 DEF step
        <3> QED BY <3>1, <3>2
    <2>3. g = [s \in SUBSET DOMAIN ws |-> Result(g, s)]
        <3> HIDE DEF Result
        <3> QED BY <1>1, <2>1, <2>2
    <2> HIDE DEF Result
    <2> QED BY <2>3
<1>5. it = [s \in SUBSET DOMAIN ws |-> Result(it, s)]
    <2> HIDE DEF Result
    <2> QED BY <1>4
<1>6. ASSUME NEW s \in SUBSET (1 .. n) PROVE it[s] = Result(it, s)
    <2> HIDE DEF it, Result, n, ws
    <2> QED BY <1>1, <1>5
<1>7. it[{}] = base
    BY <1>6
<1> HIDE DEF it
<1>8. ASSUME NEW k \in 1 .. n PROVE it[1 .. k] = Substitute(pass, it[1 .. k - 1], ws[k])
    <2>1. k \in Nat /\ k # 0 /\ 1 .. k \in SUBSET (1 .. n)
        BY <1>1
    <2>2. 1 .. k # {} /\ Max(1 .. k) = k /\ (1 .. k) \ {k} = 1 .. k - 1
        BY <2>1, LastOfInterval
    <2>3. it[1 .. k] = Result(it, 1 .. k)
        BY <1>6, <2>1
    <2> HIDE DEF n, ws, base
    <2> QED BY <2>2, <2>3
<1> DEFINE S == {k \in 0 .. n : it[1 .. k] \in Acc}
<1> HIDE DEF n, ws, base
<1>9. 0 \in S
    <2>1. 1 .. 0 = {}
        OBVIOUS
    <2> QED BY <1>1, <1>7, <2>1
<1>10. ASSUME NEW k \in 1 .. n, k - 1 \in S PROVE k \in S
    <2>1. ws[k] \in Word /\ k \in 0 .. n
        BY <1>1
    <2>2. it[1 .. k] \in Acc
        BY <1>8, <1>10, <2>1, SubstituteTyped
    <2> QED BY <2>1, <2>2
<1>11. \A k \in 0 .. n : k \in S
    <2> HIDE DEF S
    <2> QED BY <1>1, <1>9, <1>10, CountingUp
<1> DEFINE h == [k \in 0 .. n |-> it[1 .. k]]
<1>12. h \in [0 .. n -> Acc]
    BY <1>11
<1>13. h[0] = base
    <2>1. 1 .. 0 = {} /\ 0 \in 0 .. n
        BY <1>1
    <2> QED BY <1>7, <2>1
<1>14. ASSUME NEW k \in 1 .. n PROVE h[k] = Substitute(pass, h[k - 1], ws[k])
    <2>1. k \in 0 .. n /\ k - 1 \in 0 .. n
        BY <1>1
    <2> QED BY <1>8, <2>1
<1>15. h[n] = it[DOMAIN ws]
    <2>1. n \in 0 .. n
        BY <1>1
    <2> QED BY <1>1, <2>1
<1> HIDE DEF h
<1>16. PassSteps(h, pass, acc)
    BY <1>12, <1>13, <1>14 DEF PassSteps, n, ws, base
<1> QED BY <1>3, <1>15, <1>16 DEF n, ws

----------------------------------------------------------------------------
(* The map *)

\* Every value has one placeholder and every placeholder one value; the numbers of a kind
\* are those of its entries so far.
MapIsSound(map) ==
    /\ map \in Seq(Entry)
    /\ \A i, j \in DOMAIN map :
          map[i].placeholder = map[j].placeholder \/ map[i].original = map[j].original => i = j
    /\ \A i \in DOMAIN map :
          map[i].placeholder.n <= Cardinality(Numbered(map, map[i].placeholder.kind))

Continues(map, new) ==
    /\ Len(map) <= Len(new)
    /\ \A i \in 1 .. Len(map) : new[i] = map[i]

Recorded(p, text, map) == \E i \in DOMAIN map : map[i].placeholder = p /\ map[i].original = text

LEMMA NumberedIsFinite ==
    ASSUME NEW map \in Seq(Entry), NEW kind
    PROVE  IsFiniteSet(Numbered(map, kind)) /\ Cardinality(Numbered(map, kind)) \in Nat
<1>1. DOMAIN map = 1 .. Len(map) /\ Len(map) \in Nat
    OBVIOUS
<1>2. IsFiniteSet(1 .. Len(map))
    BY <1>1, FS_Interval
<1>3. Numbered(map, kind) \in SUBSET (1 .. Len(map))
    BY <1>1 DEF Numbered
<1> QED BY <1>2, <1>3, FS_Subset, FS_CardinalityType

\* A value is looked up or entered: the map stays sound and keeps what it had.
LEMMA OneSubstitution ==
    ASSUME NEW map, MapIsSound(map), NEW kind \in PassKinds, NEW text \in Text,
           NEW p, p = PlaceholderFor(map, kind, text),
           NEW new, new = Remember(map, p, text)
    PROVE  MapIsSound(new) /\ Continues(map, new) /\ Recorded(p, text, new)
<1> USE DEF MapIsSound
<1>1. DOMAIN map = 1 .. Len(map) /\ Len(map) \in Nat /\ map \in Seq(Entry)
    OBVIOUS
<1>2. CASE Known(map, text)
    <2>1. new = map
        BY <1>2 DEF Remember
    <2>2. PICK i \in DOMAIN map : map[i].original = text /\ p = map[i].placeholder
        BY <1>2 DEF Known, PlaceholderFor
    <2> QED BY <1>1, <2>1, <2>2 DEF Continues, Recorded
<1>3. CASE ~ Known(map, text)
    <2> DEFINE n == Len(map) + 1
               e == [placeholder |-> p, original |-> text]
    <2>1. new = Append(map, e)
        BY <1>3 DEF Remember
    <2>2. p \in [raw : {FALSE}, kind : PassKinds, n : Nat] /\ e \in Entry
        BY <1>1, PlaceholderTyped DEF Entry
    <2>3. p = [raw |-> FALSE, kind |-> kind, n |-> 1 + Cardinality(Numbered(map, kind))]
        BY <1>3 DEF PlaceholderFor, Placeholder
    <2>4. new \in Seq(Entry) /\ DOMAIN new = 1 .. n /\ new[n] = e /\ \A i \in DOMAIN map : new[i] = map[i]
        BY <1>1, <2>1, <2>2
    <2>5. n \in Nat /\ n \notin DOMAIN map /\ DOMAIN new = DOMAIN map \cup {n}
        BY <1>1, <2>4
    <2>6. ASSUME NEW k
          PROVE  Numbered(new, k) = IF k = kind THEN Numbered(map, k) \cup {n} ELSE Numbered(map, k)
        <3>1. new[n].placeholder.kind = kind
            BY <2>3, <2>4
        <3> HIDE DEF e, n
        <3> QED BY <2>4, <2>5, <3>1 DEF Numbered
    <2>7. ASSUME NEW k
          PROVE  /\ Cardinality(Numbered(map, k)) \in Nat
                 /\ Cardinality(Numbered(new, k)) =
                       IF k = kind THEN Cardinality(Numbered(map, k)) + 1 ELSE Cardinality(Numbered(map, k))
        <3>1. IsFiniteSet(Numbered(map, k)) /\ Cardinality(Numbered(map, k)) \in Nat /\ n \notin Numbered(map, k)
            BY <1>1, <2>5, NumberedIsFinite DEF Numbered
        <3>2. Cardinality(Numbered(map, k) \cup {n}) = Cardinality(Numbered(map, k)) + 1
            BY <3>1, FS_AddElement
        <3> HIDE DEF n
        <3> QED BY <2>6, <3>1, <3>2
    <2>8. ASSUME NEW i \in DOMAIN map PROVE map[i].placeholder # p /\ map[i].original # text
        <3>1. map[i].original # text
            BY <1>3 DEF Known
        <3>2. map[i].placeholder.n <= Cardinality(Numbered(map, map[i].placeholder.kind))
            OBVIOUS
        <3>3. p.kind = kind /\ p.n = 1 + Cardinality(Numbered(map, kind)) /\ Cardinality(Numbered(map, kind)) \in Nat
            BY <2>3, <2>7
        <3> QED BY <3>1, <3>2, <3>3
    <2>9. ASSUME NEW i \in DOMAIN new, NEW j \in DOMAIN new,
                 new[i].placeholder = new[j].placeholder \/ new[i].original = new[j].original
          PROVE  i = j
        <3>1. new[n].placeholder = p /\ new[n].original = text
            BY <2>4
        <3>2. i \in DOMAIN map \/ i = n
            BY <2>5
        <3>3. j \in DOMAIN map \/ j = n
            BY <2>5
        <3>4. CASE i \in DOMAIN map /\ j \in DOMAIN map
            BY <2>4, <2>9, <3>4
        <3>5. CASE i \in DOMAIN map /\ j = n
            BY <2>4, <2>8, <2>9, <3>1, <3>5
        <3>6. CASE i = n /\ j \in DOMAIN map
            BY <2>4, <2>8, <2>9, <3>1, <3>6
        <3> QED BY <3>2, <3>3, <3>4, <3>5, <3>6
    <2>10. ASSUME NEW i \in DOMAIN new
           PROVE  new[i].placeholder.n <= Cardinality(Numbered(new, new[i].placeholder.kind))
        <3>1. CASE i = n
            <4>1. new[i].placeholder.n = 1 + Cardinality(Numbered(map, kind)) /\ new[i].placeholder.kind = kind
                BY <2>3, <2>4, <3>1
            <4> QED BY <2>7, <4>1
        <3>2. CASE i \in DOMAIN map
            <4>0. map[i] \in Entry
                BY <1>1, <3>2
            <4>1. new[i] = map[i] /\ map[i].placeholder.n \in Nat
                BY <2>4, <3>2, <4>0 DEF Entry
            <4>2. map[i].placeholder.n <= Cardinality(Numbered(map, map[i].placeholder.kind))
                BY <3>2
            <4> QED BY <2>7, <4>1, <4>2
        <3> QED BY <2>5, <3>1, <3>2
    <2>11. MapIsSound(new)
        BY <2>4, <2>9, <2>10
    <2>12. Continues(map, new)
        BY <1>1, <2>4, <2>1 DEF Continues
    <2>13. Recorded(p, text, new)
        BY <2>4, <2>5 DEF Recorded
    <2> QED BY <2>11, <2>12, <2>13
<1> QED BY <1>2, <1>3

\* What is on record stays on record.
LEMMA RecordsStay ==
    ASSUME NEW map, NEW new, MapIsSound(map), MapIsSound(new), Continues(map, new)
    PROVE  \A p, text : Recorded(p, text, map) => Recorded(p, text, new)
<1> SUFFICES ASSUME NEW p, NEW text, Recorded(p, text, map) PROVE Recorded(p, text, new)
    OBVIOUS
<1>1. /\ DOMAIN map = 1 .. Len(map) /\ Len(map) \in Nat
      /\ DOMAIN new = 1 .. Len(new) /\ Len(new) \in Nat
    BY DEF MapIsSound
<1>2. PICK i \in DOMAIN map : map[i].placeholder = p /\ map[i].original = text
    BY DEF Recorded
<1>3. i \in DOMAIN new /\ new[i] = map[i]
    BY <1>1, <1>2 DEF Continues
<1> QED BY <1>2, <1>3 DEF Recorded

LEMMA ContinuesIsTransitive ==
    ASSUME NEW a, NEW b, NEW c, MapIsSound(a), MapIsSound(b), MapIsSound(c), Continues(a, b), Continues(b, c)
    PROVE  Continues(a, c)
<1>1. Len(a) \in Nat /\ Len(b) \in Nat /\ Len(c) \in Nat
    BY DEF MapIsSound
<1>2. 1 .. Len(a) \subseteq 1 .. Len(b)
    BY <1>1 DEF Continues
<1> QED BY <1>1, <1>2 DEF Continues

----------------------------------------------------------------------------
(* One pass over a text *)

\* What a pass makes of its first k words: those it matches are replaced and on record.
Passed(pass, ws, map, r, k) ==
    /\ r \in Acc /\ Len(r.words) = k
    /\ MapIsSound(r.map) /\ Continues(map, r.map)
    /\ \A i \in 1 .. k :
          /\ r.words[i].secret = ws[i].secret
          /\ IF Matches(pass, ws[i]) THEN Recorded(r.words[i].text, ws[i].text, r.map) ELSE r.words[i] = ws[i]

LEMMA PassAdvances ==
    ASSUME NEW pass \in PassKinds, NEW ws \in Seq(Word), NEW map, MapIsSound(map),
           NEW k \in 1 .. Len(ws), NEW r, Passed(pass, ws, map, r, k - 1)
    PROVE  Passed(pass, ws, map, Substitute(pass, r, ws[k]), k)
<1> DEFINE w == ws[k]
           new == Substitute(pass, r, w)
<1>1. /\ k \in Nat /\ k - 1 \in Nat /\ w \in Word /\ w.text \in Text
      /\ r \in Acc /\ Len(r.words) = k - 1 /\ MapIsSound(r.map) /\ Continues(map, r.map)
      /\ r.words \in Seq(Word) /\ r = [words |-> r.words, map |-> r.map]
    <2>1. k \in Nat /\ k - 1 \in Nat /\ w \in Word
        OBVIOUS
    <2>2. w.text \in Text
        BY <2>1 DEF Word
    <2>3. r \in Acc /\ Len(r.words) = k - 1 /\ MapIsSound(r.map) /\ Continues(map, r.map)
        BY DEF Passed
    <2>4. r.words \in Seq(Word) /\ r = [words |-> r.words, map |-> r.map]
        BY <2>3 DEF Acc
    <2> QED BY <2>1, <2>2, <2>3, <2>4
<1>2. new \in Acc
    BY <1>1, SubstituteTyped
<1>3. 1 .. k = (1 .. k - 1) \cup {k}
    BY <1>1
<1>4. CASE ~ Matches(pass, w)
    <2>1. new = [words |-> Append(r.words, w), map |-> r.map]
        BY <1>1, <1>4 DEF Substitute
    <2> HIDE DEF new, w
    <2>2. new.words = Append(r.words, w) /\ new.map = r.map
        BY <2>1
    <2>3. Len(new.words) = k /\ new.words[k] = w /\ \A i \in 1 .. k - 1 : new.words[i] = r.words[i]
        BY <1>1, <2>2
    <2>4. ASSUME NEW i \in 1 .. k
          PROVE  /\ new.words[i].secret = ws[i].secret
                 /\ IF Matches(pass, ws[i]) THEN Recorded(new.words[i].text, ws[i].text, new.map)
                                            ELSE new.words[i] = ws[i]
        <3>1. CASE i = k
            BY <1>4, <2>3, <3>1 DEF w
        <3>2. CASE i \in 1 .. k - 1
            BY <2>2, <2>3, <3>2 DEF Passed
        <3> QED BY <1>3, <3>1, <3>2
    <2> QED BY <1>1, <1>2, <2>2, <2>3, <2>4 DEF Passed, new, w
<1>5. CASE Matches(pass, w)
    <2> DEFINE p == PlaceholderFor(r.map, pass, w.text)
               v == [w EXCEPT !.text = p]
    <2>1. new = [words |-> Append(r.words, v), map |-> Remember(r.map, p, w.text)]
        BY <1>5 DEF Substitute
    <2>2. new.words = Append(r.words, v) /\ new.map = Remember(r.map, p, w.text)
        BY <2>1
    <2>3. v.text = p /\ v.secret = w.secret
        BY <1>1 DEF Word
    <2> HIDE DEF new, w, p, v
    <2>4. MapIsSound(new.map) /\ Continues(r.map, new.map) /\ Recorded(p, w.text, new.map)
        BY <1>1, <2>2, OneSubstitution DEF p
    <2>5. Len(new.words) = k /\ new.words[k] = v /\ \A i \in 1 .. k - 1 : new.words[i] = r.words[i]
        <3>1. v \in Word
            <4>1. p \in [raw : {FALSE}, kind : PassKinds, n : Nat]
                BY <1>1, PlaceholderTyped DEF MapIsSound, p
            <4> QED BY <1>1, <4>1 DEF Word, Text, v
        <3> QED BY <1>1, <2>2, <3>1
    <2>6. ASSUME NEW i \in 1 .. k
          PROVE  /\ new.words[i].secret = ws[i].secret
                 /\ IF Matches(pass, ws[i]) THEN Recorded(new.words[i].text, ws[i].text, new.map)
                                            ELSE new.words[i] = ws[i]
        <3>1. CASE i = k
            BY <1>5, <2>3, <2>4, <2>5, <3>1 DEF w
        <3>2. CASE i \in 1 .. k - 1
            <4>1. new.words[i] = r.words[i]
                BY <2>5, <3>2
            <4>2. Recorded(r.words[i].text, ws[i].text, r.map) => Recorded(r.words[i].text, ws[i].text, new.map)
                BY <1>1, <2>4, RecordsStay
            <4> QED BY <3>2, <4>1, <4>2 DEF Passed
        <3> QED BY <1>3, <3>1, <3>2
    <2>7. Continues(map, new.map)
        BY <1>1, <2>4, ContinuesIsTransitive
    <2> QED BY <1>2, <2>4, <2>5, <2>6, <2>7 DEF Passed, new, w
<1> QED BY <1>4, <1>5

LEMMA PassIs ==
    ASSUME NEW acc \in Acc, NEW pass \in PassKinds, MapIsSound(acc.map)
    PROVE  Passed(pass, acc.words, acc.map, RunPass(acc, pass), Len(acc.words))
<1> DEFINE ws == acc.words
           map == acc.map
           n == Len(ws)
<1>1. PICK h : PassSteps(h, pass, acc) /\ RunPass(acc, pass) = h[n]
    BY PassIsIterated
<1>2. acc = [words |-> ws, map |-> map] /\ ws \in Seq(Word) /\ n \in Nat
    BY DEF Acc
<1> DEFINE S == {k \in 0 .. n : Passed(pass, ws, map, h[k], k)}
<1>3. 0 \in S
    <2>1. h[0] = [words |-> <<>>, map |-> map] /\ h[0] \in Acc
        <3>1. h[0] = [acc EXCEPT !.words = <<>>] /\ h[0] \in Acc
            BY <1>1, <1>2 DEF PassSteps
        <3> QED BY <1>2, <3>1
    <2>2. h[0].words = <<>> /\ h[0].map = map
        BY <2>1
    <2>3. DOMAIN map = 1 .. Len(map) /\ Len(map) \in Nat
        BY DEF MapIsSound
    <2> HIDE DEF ws, map
    <2>4. Continues(map, map)
        BY <2>3 DEF Continues
    <2>5. Passed(pass, ws, map, h[0], 0)
        BY <2>1, <2>2, <2>3, <2>4 DEF Passed, map
    <2> QED BY <1>2, <2>5
<1>4. ASSUME NEW k \in 1 .. n, k - 1 \in S PROVE k \in S
    <2>1. h[k] = Substitute(pass, h[k - 1], ws[k])
        BY <1>1 DEF PassSteps
    <2>2. Passed(pass, ws, map, h[k - 1], k - 1)
        BY <1>4
    <2>3. Passed(pass, ws, map, Substitute(pass, h[k - 1], ws[k]), k)
        <3> HIDE DEF map, ws
        <3> QED BY <1>2, <2>2, PassAdvances DEF map
    <2> QED BY <2>1, <2>3
<1>5. \A k \in 0 .. n : k \in S
    <2> HIDE DEF S
    <2> QED BY <1>2, <1>3, <1>4, CountingUp
<1>6. n \in S
    <2> HIDE DEF S
    <2> QED BY <1>2, <1>5
<1> QED BY <1>1, <1>6

----------------------------------------------------------------------------
(* All passes *)

LEMMA PassIsTyped ==
    ASSUME NEW acc \in Acc, NEW pass \in PassKinds
    PROVE  RunPass(acc, pass) \in Acc
<1>1. PICK h : PassSteps(h, pass, acc) /\ RunPass(acc, pass) = h[Len(acc.words)]
    BY PassIsIterated
<1>2. Len(acc.words) \in Nat
    BY DEF Acc
<1>3. Len(acc.words) \in 0 .. Len(acc.words)
    BY <1>2
<1> QED BY <1>1, <1>3 DEF PassSteps

LEMMA PassesAre ==
    /\ DOMAIN Passes = 1 .. 6 /\ Passes \in [1 .. 6 -> PassKinds]
    /\ \A k \in 1 .. 6 : Passes[k] = "SECRET" <=> k = 1
    /\ PassKinds = {"SECRET", "EMAIL", "PAN", "CARD", "AADHAAR", "PHONE"}
    /\ \A kind \in PassKinds : \E k \in 1 .. 6 : Passes[k] = kind
<1>1. DOMAIN Passes = 1 .. 6
    BY DEF Passes
<1>2. /\ Passes[1] = "SECRET" /\ Passes[2] = "EMAIL" /\ Passes[3] = "PAN"
      /\ Passes[4] = "CARD" /\ Passes[5] = "AADHAAR" /\ Passes[6] = "PHONE"
    BY DEF Passes
<1>3. \A k \in 1 .. 6 : k = 1 \/ k = 2 \/ k = 3 \/ k = 4 \/ k = 5 \/ k = 6
    OBVIOUS
<1>4. PassKinds = {Passes[k] : k \in 1 .. 6}
    BY <1>1 DEF PassKinds
<1>5. \A k \in 1 .. 6 : Passes[k] = "SECRET" <=> k = 1
    BY <1>2, <1>3
<1>6. PassKinds = {"SECRET", "EMAIL", "PAN", "CARD", "AADHAAR", "PHONE"}
    BY <1>2, <1>3, <1>4
<1>7. Passes = [k \in 1 .. 6 |-> Passes[k]]
    BY DEF Passes
<1>8. Passes \in [1 .. 6 -> PassKinds]
    BY <1>4, <1>7
<1> QED BY <1>1, <1>4, <1>5, <1>6, <1>8

LEMMA RedactIsIterated ==
    ASSUME NEW words \in Seq(Word), NEW map \in Seq(Entry)
    PROVE  \E h \in [0 .. 6 -> Acc] :
              /\ h[0] = [words |-> words, map |-> map]
              /\ \A k \in 1 .. 6 : h[k] = RunPass(h[k - 1], Passes[k])
              /\ Redact(words, map) = h[6]
<1> DEFINE base == [words |-> words, map |-> map]
           Result(g, s) == IF s = {} THEN base ELSE RunPass(g[s \ {Max(s)}], Passes[Max(s)])
           it == CHOOSE g : g = [s \in SUBSET DOMAIN Passes |-> Result(g, s)]
           step == [x \in Acc \X PassKinds |-> RunPass(x[1], x[2])]
<1>1. base \in Acc
    BY DEF Acc
<1>2. step \in [Acc \X PassKinds -> Acc]
    BY PassIsTyped
<1>3. Redact(words, map) = it[DOMAIN Passes]
    BY DEF Redact, FoldLeft, MapThenFoldSet
<1>4. \E g : g = [s \in SUBSET DOMAIN Passes |-> Result(g, s)]
    <2> HIDE DEF base, step
    <2>1. PICK g \in [SUBSET (1 .. 6) -> Acc] : Folded(g, SUBSET (1 .. 6), base, step, Passes)
        BY <1>1, <1>2, PassesAre, FoldExists
    <2>2. ASSUME NEW s \in SUBSET (1 .. 6) PROVE g[s] = Result(g, s)
        <3>1. CASE s = {}
            BY <2>1, <3>1 DEF Folded
        <3>2. CASE s # {}
            <4>1. Max(s) \in 1 .. 6 /\ s \ {Max(s)} \in SUBSET (1 .. 6)
                BY <3>2, DropMax
            <4>2. g[s \ {Max(s)}] \in Acc /\ Passes[Max(s)] \in PassKinds
                BY <2>1, <4>1, PassesAre
            <4>3. g[s] = step[<<g[s \ {Max(s)}], Passes[Max(s)]>>]
                BY <2>1, <3>2 DEF Folded
            <4> QED BY <3>2, <4>2, <4>3 DEF step
        <3> QED BY <3>1, <3>2
    <2>3. g = [s \in SUBSET DOMAIN Passes |-> Result(g, s)]
        <3> HIDE DEF Result
        <3> QED BY <2>1, <2>2, PassesAre
    <2> HIDE DEF Result
    <2> QED BY <2>3
<1>5. it = [s \in SUBSET DOMAIN Passes |-> Result(it, s)]
    <2> HIDE DEF Result
    <2> QED BY <1>4
<1>6. ASSUME NEW s \in SUBSET (1 .. 6) PROVE it[s] = Result(it, s)
    <2> HIDE DEF it, Result
    <2> QED BY <1>5, PassesAre
<1>7. it[{}] = base
    BY <1>6
<1> HIDE DEF it
<1>8. ASSUME NEW k \in 1 .. 6 PROVE it[1 .. k] = RunPass(it[1 .. k - 1], Passes[k])
    <2>1. k \in Nat /\ k # 0 /\ 1 .. k \in SUBSET (1 .. 6)
        OBVIOUS
    <2>2. 1 .. k # {} /\ Max(1 .. k) = k /\ (1 .. k) \ {k} = 1 .. k - 1
        BY <2>1, LastOfInterval
    <2>3. it[1 .. k] = Result(it, 1 .. k)
        BY <1>6, <2>1
    <2> HIDE DEF base
    <2> QED BY <2>2, <2>3
<1> DEFINE S == {k \in 0 .. 6 : it[1 .. k] \in Acc}
<1> HIDE DEF base
<1>9. 0 \in S
    <2>1. 1 .. 0 = {}
        OBVIOUS
    <2> QED BY <1>1, <1>7, <2>1
<1>10. ASSUME NEW k \in 1 .. 6, k - 1 \in S PROVE k \in S
    <2>1. Passes[k] \in PassKinds /\ k \in 0 .. 6
        BY PassesAre
    <2>2. it[1 .. k] \in Acc
        BY <1>8, <1>10, <2>1, PassIsTyped
    <2> QED BY <2>1, <2>2
<1>11. \A k \in 0 .. 6 : k \in S
    <2> HIDE DEF S
    <2> QED BY <1>9, <1>10, CountingUp
<1> DEFINE h == [k \in 0 .. 6 |-> it[1 .. k]]
<1>12. h \in [0 .. 6 -> Acc]
    BY <1>11
<1>13. h[0] = base
    <2>1. 1 .. 0 = {} /\ 0 \in 0 .. 6
        OBVIOUS
    <2> QED BY <1>7, <2>1
<1>14. ASSUME NEW k \in 1 .. 6 PROVE h[k] = RunPass(h[k - 1], Passes[k])
    <2>1. k \in 0 .. 6 /\ k - 1 \in 0 .. 6
        OBVIOUS
    <2> QED BY <1>8, <2>1
<1>15. h[6] = it[DOMAIN Passes]
    BY PassesAre
<1> HIDE DEF h
<1> QED BY <1>3, <1>12, <1>13, <1>14, <1>15 DEF base

\* v is w, or a placeholder that is on record for what is written in w.
StandsFor(v, w, map) == v = w \/ (v.secret = w.secret /\ Recorded(v.text, w.text, map))

\* A pass has nothing to do on v any more.
Hides(pass, v) == v.text.raw => IF pass = "SECRET" THEN ~ v.secret ELSE v.text.kind # pass

\* Nobody typed a placeholder.
AllRaw(ws) == \A i \in DOMAIN ws : ws[i].text.raw

\* What the first k passes make of a text.
Stage(words, map, r, k) ==
    /\ r \in Acc /\ MapIsSound(r.map) /\ Continues(map, r.map)
    /\ Len(r.words) = Len(words)
    /\ k = 0 => r.words = words
    /\ \A i \in 1 .. Len(words) :
          StandsFor(r.words[i], words[i], r.map) /\ \A q \in 1 .. k : Hides(Passes[q], r.words[i])

LEMMA RecordedIsPlaceholder ==
    ASSUME NEW map, MapIsSound(map), NEW p, NEW text, Recorded(p, text, map)
    PROVE  p.raw = FALSE /\ p \in Text /\ text \in Text
<1>1. PICK i \in DOMAIN map : map[i].placeholder = p /\ map[i].original = text
    BY DEF Recorded
<1>2. map[i] \in Entry
    BY DEF MapIsSound
<1> QED BY <1>1, <1>2 DEF Entry, Text

LEMMA StageAdvances ==
    ASSUME NEW words \in Seq(Word), NEW map, MapIsSound(map), NEW k \in 1 .. 6, NEW r,
           Stage(words, map, r, k - 1)
    PROVE  Stage(words, map, RunPass(r, Passes[k]), k)
<1> DEFINE pass == Passes[k]
           new == RunPass(r, pass)
           n == Len(words)
<1>1. /\ pass \in PassKinds /\ (pass = "SECRET" <=> k = 1)
      /\ r \in Acc /\ MapIsSound(r.map) /\ Continues(map, r.map) /\ Len(r.words) = n
      /\ n \in Nat
    BY PassesAre DEF Stage
<1>2. Passed(pass, r.words, r.map, new, n)
    BY <1>1, PassIs
<1> HIDE DEF new, pass
<1>3. /\ new \in Acc /\ Len(new.words) = n /\ MapIsSound(new.map) /\ Continues(r.map, new.map)
    BY <1>2 DEF Passed
<1>4. Continues(map, new.map)
    BY <1>1, <1>3, ContinuesIsTransitive
<1>5. \A p, text : Recorded(p, text, r.map) => Recorded(p, text, new.map)
    BY <1>1, <1>3, RecordsStay
<1>6. ASSUME NEW i \in 1 .. n, Matches(pass, r.words[i])
      PROVE  r.words[i] = words[i]
    <2>1. CASE k = 1
        BY <1>1, <2>1 DEF Stage
    <2>2. CASE k # 1
        <3>1. r.words[i].text.raw
            BY <1>1, <1>6, <2>2 DEF Matches
        <3>2. StandsFor(r.words[i], words[i], r.map)
            BY DEF Stage
        <3>3. ~ Recorded(r.words[i].text, words[i].text, r.map)
            BY <1>1, <3>1, RecordedIsPlaceholder
        <3> QED BY <3>2, <3>3 DEF StandsFor
    <2> QED BY <2>1, <2>2
<1>7. ASSUME NEW i \in 1 .. n
      PROVE  StandsFor(new.words[i], words[i], new.map) /\ \A q \in 1 .. k : Hides(Passes[q], new.words[i])
    <2>1. CASE Matches(pass, r.words[i])
        <3>1. new.words[i].secret = words[i].secret /\ Recorded(new.words[i].text, words[i].text, new.map)
            BY <1>2, <1>6, <2>1 DEF Passed
        <3>2. new.words[i].text.raw = FALSE
            BY <1>3, <3>1, RecordedIsPlaceholder
        <3> QED BY <3>1, <3>2 DEF StandsFor, Hides
    <2>2. CASE ~ Matches(pass, r.words[i])
        <3>1. new.words[i] = r.words[i]
            BY <1>2, <2>2 DEF Passed
        <3>2. StandsFor(r.words[i], words[i], r.map) /\ \A q \in 1 .. k - 1 : Hides(Passes[q], r.words[i])
            BY DEF Stage
        <3>3. Hides(pass, r.words[i])
            BY <2>2 DEF Hides, Matches
        <3>4. \A q \in 1 .. k : q \in 1 .. k - 1 \/ q = k
            OBVIOUS
        <3>5. StandsFor(r.words[i], words[i], new.map)
            BY <1>5, <3>2 DEF StandsFor
        <3> QED BY <3>1, <3>2, <3>3, <3>4, <3>5 DEF pass
    <2> QED BY <2>1, <2>2
<1>8. k # 0
    OBVIOUS
<1> QED BY <1>3, <1>4, <1>7, <1>8 DEF Stage, new, pass

\* A redacted text: as long as the text, nothing sensitive in it, every word itself or a
\* placeholder on record for it.
IsRedacted(vs, ws, map) ==
    /\ vs \in Seq(Word) /\ Len(vs) = Len(ws)
    /\ \A i \in 1 .. Len(ws) : StandsFor(vs[i], ws[i], map) /\ ~ IsSensitive(vs[i])

LEMMA RedactIs ==
    ASSUME NEW words \in Seq(Word), NEW map, MapIsSound(map)
    PROVE  LET r == Redact(words, map)
           IN  /\ IsRedacted(r.words, words, r.map)
               /\ MapIsSound(r.map) /\ Continues(map, r.map)
<1>1. map \in Seq(Entry) /\ DOMAIN map = 1 .. Len(map) /\ Len(map) \in Nat
    BY DEF MapIsSound
<1>2. PICK h \in [0 .. 6 -> Acc] :
          /\ h[0] = [words |-> words, map |-> map]
          /\ \A k \in 1 .. 6 : h[k] = RunPass(h[k - 1], Passes[k])
          /\ Redact(words, map) = h[6]
    BY <1>1, RedactIsIterated
<1> DEFINE S == {k \in 0 .. 6 : Stage(words, map, h[k], k)}
<1>3. 0 \in S
    <2>1. h[0] \in Acc /\ h[0].words = words /\ h[0].map = map
        BY <1>2
    <2>2. Continues(map, map)
        BY <1>1 DEF Continues
    <2>3. Stage(words, map, h[0], 0)
        BY <1>1, <2>1, <2>2 DEF Stage, StandsFor
    <2> QED BY <2>3
<1>4. ASSUME NEW k \in 1 .. 6, k - 1 \in S PROVE k \in S
    <2>1. Stage(words, map, h[k - 1], k - 1)
        BY <1>4
    <2>2. Stage(words, map, RunPass(h[k - 1], Passes[k]), k)
        BY <2>1, StageAdvances
    <2> QED BY <1>2, <2>2
<1>5. \A k \in 0 .. 6 : k \in S
    <2> HIDE DEF S
    <2> QED BY <1>3, <1>4, CountingUp
<1> DEFINE r == h[6]
<1>6. Stage(words, map, r, 6)
    BY <1>5
<1> HIDE DEF r, S
<1>7. r \in Acc /\ r.words \in Seq(Word) /\ Len(r.words) = Len(words) /\ Len(words) \in Nat
    BY <1>6 DEF Stage, Acc
<1>8. ASSUME NEW i \in 1 .. Len(words)
      PROVE  StandsFor(r.words[i], words[i], r.map) /\ ~ IsSensitive(r.words[i])
    <2> DEFINE v == r.words[i]
    <2>1. v \in Word
        BY <1>7
    <2>2. StandsFor(v, words[i], r.map) /\ \A q \in 1 .. 6 : Hides(Passes[q], v)
        BY <1>6 DEF Stage
    <2> HIDE DEF v
    <2>3. \A kind \in PassKinds : Hides(kind, v)
        BY <2>2, PassesAre
    <2>4. ~ IsSensitive(v)
        <3> SUFFICES ASSUME v.text.raw PROVE ~ v.secret /\ v.text.kind = "none"
            BY DEF IsSensitive
        <3>1. v.text.kind \in RawKinds
            BY <2>1 DEF Word, Text
        <3>2. ~ v.secret
            BY <2>3, PassesAre DEF Hides
        <3>3. \A kind \in PassKinds : kind # "SECRET" => v.text.kind # kind
            BY <2>3 DEF Hides
        <3> QED BY <3>1, <3>2, <3>3, PassesAre DEF RawKinds
    <2> QED BY <2>2, <2>4 DEF v
<1>9. IsRedacted(r.words, words, r.map)
    BY <1>7, <1>8 DEF IsRedacted
<1> QED BY <1>2, <1>6, <1>9 DEF Stage, r

----------------------------------------------------------------------------
(* Restoring *)

\* One placeholder put back wherever it stands.
PutBack(ws, e) ==
    [i \in DOMAIN ws |-> IF ws[i].text = e.placeholder THEN [ws[i] EXCEPT !.text = e.original] ELSE ws[i]]

LEMMA PutBackTyped ==
    ASSUME NEW ws \in Seq(Word), NEW e \in Entry
    PROVE  PutBack(ws, e) \in Seq(Word) /\ Len(PutBack(ws, e)) = Len(ws)
<1>1. DOMAIN ws = 1 .. Len(ws) /\ Len(ws) \in Nat
    OBVIOUS
<1>2. e.original \in Text
    BY DEF Entry
<1>3. ASSUME NEW i \in DOMAIN ws
      PROVE  (IF ws[i].text = e.placeholder THEN [ws[i] EXCEPT !.text = e.original] ELSE ws[i]) \in Word
    <2>1. ws[i] \in Word
        OBVIOUS
    <2>2. [ws[i] EXCEPT !.text = e.original] \in Word
        BY <1>2, <2>1 DEF Word
    <2> QED BY <2>1, <2>2
<1>4. PutBack(ws, e) \in [1 .. Len(ws) -> Word]
    BY <1>1, <1>3 DEF PutBack
<1> QED BY <1>1, <1>4

LEMMA RestoreIsIterated ==
    ASSUME NEW words \in Seq(Word), NEW map \in Seq(Entry)
    PROVE  \E h \in [0 .. Len(map) -> Seq(Word)] :
              /\ h[0] = words
              /\ \A k \in 1 .. Len(map) : h[k] = PutBack(h[k - 1], map[k])
              /\ Restore(words, map) = h[Len(map)]
<1> DEFINE n == Len(map)
           Put(ws, e) == [i \in DOMAIN ws |->
                             IF ws[i].text = e.placeholder THEN [ws[i] EXCEPT !.text = e.original] ELSE ws[i]]
           Result(g, s) == IF s = {} THEN words ELSE Put(g[s \ {Max(s)}], map[Max(s)])
           it == CHOOSE g : g = [s \in SUBSET DOMAIN map |-> Result(g, s)]
           step == [x \in Seq(Word) \X Entry |-> PutBack(x[1], x[2])]
<1>1. n \in Nat /\ DOMAIN map = 1 .. n /\ map \in [1 .. n -> Entry]
    OBVIOUS
<1>2. step \in [Seq(Word) \X Entry -> Seq(Word)]
    BY PutBackTyped
<1>3. Restore(words, map) = it[DOMAIN map]
    BY DEF Restore, FoldLeft, MapThenFoldSet
<1>0. \A ws, e : Put(ws, e) = PutBack(ws, e)
    BY DEF PutBack
<1> HIDE DEF Put
<1>4. \E g : g = [s \in SUBSET DOMAIN map |-> Result(g, s)]
    <2> HIDE DEF step, n
    <2>1. PICK g \in [SUBSET (1 .. n) -> Seq(Word)] : Folded(g, SUBSET (1 .. n), words, step, map)
        BY <1>1, <1>2, FoldExists
    <2>2. ASSUME NEW s \in SUBSET (1 .. n) PROVE g[s] = Result(g, s)
        <3>1. CASE s = {}
            BY <2>1, <3>1 DEF Folded
        <3>2. CASE s # {}
            <4>1. Max(s) \in 1 .. n /\ s \ {Max(s)} \in SUBSET (1 .. n)
                BY <1>1, <3>2, DropMax
            <4>2. g[s \ {Max(s)}] \in Seq(Word) /\ map[Max(s)] \in Entry
                BY <1>1, <2>1, <4>1
            <4>3. g[s] = step[<<g[s \ {Max(s)}], map[Max(s)]>>]
                BY <2>1, <3>2 DEF Folded
            <4>4. g[s] = PutBack(g[s \ {Max(s)}], map[Max(s)])
                BY <4>2, <4>3 DEF step
            <4> QED BY <1>0, <3>2, <4>4
        <3> QED BY <3>1, <3>2
    <2>3. g = [s \in SUBSET DOMAIN map |-> Result(g, s)]
        <3> HIDE DEF Result
        <3> QED BY <1>1, <2>1, <2>2
    <2> HIDE DEF Result
    <2> QED BY <2>3
<1>5. it = [s \in SUBSET DOMAIN map |-> Result(it, s)]
    <2> HIDE DEF Result
    <2> QED BY <1>4
<1>6. ASSUME NEW s \in SUBSET (1 .. n) PROVE it[s] = Result(it, s)
    <2> HIDE DEF it, Result, n
    <2> QED BY <1>1, <1>5
<1>7. it[{}] = words
    BY <1>6
<1> HIDE DEF it, n
<1>8. ASSUME NEW k \in 1 .. n PROVE it[1 .. k] = PutBack(it[1 .. k - 1], map[k])
    <2>1. k \in Nat /\ k # 0 /\ 1 .. k \in SUBSET (1 .. n)
        BY <1>1
    <2>2. 1 .. k # {} /\ Max(1 .. k) = k /\ (1 .. k) \ {k} = 1 .. k - 1
        BY <2>1, LastOfInterval
    <2>3. it[1 .. k] = Result(it, 1 .. k)
        BY <1>6, <2>1
    <2> QED BY <1>0, <2>2, <2>3
<1> DEFINE S == {k \in 0 .. n : it[1 .. k] \in Seq(Word)}
<1>9. 0 \in S
    <2>1. 1 .. 0 = {} /\ 0 \in 0 .. n
        BY <1>1
    <2> QED BY <1>7, <2>1
<1>10. ASSUME NEW k \in 1 .. n, k - 1 \in S PROVE k \in S
    <2>1. map[k] \in Entry /\ k \in 0 .. n
        BY <1>1
    <2>2. it[1 .. k] \in Seq(Word)
        BY <1>8, <1>10, <2>1, PutBackTyped
    <2> QED BY <2>1, <2>2
<1>11. \A k \in 0 .. n : k \in S
    <2> HIDE DEF S
    <2> QED BY <1>1, <1>9, <1>10, CountingUp
<1> DEFINE h == [k \in 0 .. n |-> it[1 .. k]]
<1>12. h \in [0 .. n -> Seq(Word)]
    BY <1>11
<1>13. h[0] = words
    <2>1. 1 .. 0 = {} /\ 0 \in 0 .. n
        BY <1>1
    <2> QED BY <1>7, <2>1
<1>14. ASSUME NEW k \in 1 .. n PROVE h[k] = PutBack(h[k - 1], map[k])
    <2>1. k \in 0 .. n /\ k - 1 \in 0 .. n
        BY <1>1
    <2> QED BY <1>8, <2>1
<1>15. h[n] = it[DOMAIN map]
    <2>1. n \in 0 .. n
        BY <1>1
    <2> QED BY <1>1, <2>1
<1> HIDE DEF h
<1> QED BY <1>3, <1>12, <1>13, <1>14, <1>15 DEF n

\* The first k entries are put back: a word is what it was, or one of the others stands for it.
Restored(rs, vs, ws, map, k) ==
    /\ rs \in Seq(Word) /\ Len(rs) = Len(ws)
    /\ \A i \in 1 .. Len(ws) :
          \/ rs[i] = ws[i]
          \/ /\ rs[i] = vs[i] /\ vs[i].secret = ws[i].secret
             /\ \E j \in k + 1 .. Len(map) : map[j].placeholder = vs[i].text /\ map[j].original = ws[i].text

LEMMA RestoredAdvances ==
    ASSUME NEW map, MapIsSound(map), NEW vs, NEW ws \in Seq(Word), AllRaw(ws),
           NEW k \in 1 .. Len(map), NEW rs, Restored(rs, vs, ws, map, k - 1)
    PROVE  Restored(PutBack(rs, map[k]), vs, ws, map, k)
<1> DEFINE e == map[k]
           new == PutBack(rs, e)
<1>1. DOMAIN map = 1 .. Len(map) /\ Len(map) \in Nat /\ e \in Entry /\ k \in Nat
    BY DEF MapIsSound
<1>2. e.placeholder.raw = FALSE /\ e.original \in Text
    BY <1>1 DEF Entry
<1>3. rs \in Seq(Word) /\ Len(rs) = Len(ws) /\ DOMAIN rs = 1 .. Len(ws) /\ DOMAIN ws = 1 .. Len(ws)
    BY DEF Restored
<1>4. new \in Seq(Word) /\ Len(new) = Len(ws)
    BY <1>1, <1>3, PutBackTyped
<1>5. ASSUME NEW i \in 1 .. Len(ws)
      PROVE  new[i] = IF rs[i].text = e.placeholder THEN [rs[i] EXCEPT !.text = e.original] ELSE rs[i]
    BY <1>3 DEF PutBack
<1> HIDE DEF new, e
<1>6. ASSUME NEW i \in 1 .. Len(ws)
      PROVE  \/ new[i] = ws[i]
             \/ /\ new[i] = vs[i] /\ vs[i].secret = ws[i].secret
                /\ \E j \in k + 1 .. Len(map) : map[j].placeholder = vs[i].text /\ map[j].original = ws[i].text
    <2>1. rs[i] \in Word /\ ws[i] \in Word
        BY <1>3
    <2>2. CASE rs[i] = ws[i]
        <3>1. ws[i].text.raw
            BY <1>3 DEF AllRaw
        <3>2. rs[i].text # e.placeholder
            BY <1>2, <2>2, <3>1
        <3> QED BY <1>5, <2>2, <3>2
    <2>3. CASE rs[i] # ws[i]
        <3>1. /\ rs[i] = vs[i] /\ vs[i].secret = ws[i].secret
              /\ \E j \in k - 1 + 1 .. Len(map) : map[j].placeholder = vs[i].text /\ map[j].original = ws[i].text
            BY <2>3 DEF Restored
        <3>2. PICK j \in k .. Len(map) : map[j].placeholder = vs[i].text /\ map[j].original = ws[i].text
            BY <1>1, <3>1
        <3>3. CASE j = k
            <4>1. rs[i].text = e.placeholder /\ e.original = ws[i].text
                BY <3>1, <3>2, <3>3 DEF e
            <4>2. new[i] = [rs[i] EXCEPT !.text = ws[i].text] /\ rs[i].secret = ws[i].secret
                BY <1>5, <3>1, <4>1
            <4>3. rs[i] = [text |-> rs[i].text, secret |-> rs[i].secret]
                BY <2>1 DEF Word
            <4>4. ws[i] = [text |-> ws[i].text, secret |-> ws[i].secret]
                BY <2>1 DEF Word
            <4>5. new[i] = [text |-> ws[i].text, secret |-> ws[i].secret]
                BY <4>2, <4>3
            <4> QED BY <4>4, <4>5
        <3>4. CASE j # k
            <4>1. j \in k + 1 .. Len(map) /\ j \in DOMAIN map /\ k \in DOMAIN map
                BY <1>1, <3>2, <3>4
            <4>2. map[j].placeholder # e.placeholder
                BY <3>4, <4>1 DEF MapIsSound, e
            <4>3. new[i] = rs[i]
                BY <1>5, <3>1, <3>2, <4>2
            <4> QED BY <3>1, <3>2, <4>1, <4>3
        <3> QED BY <3>3, <3>4
    <2> QED BY <2>2, <2>3
<1> QED BY <1>4, <1>6 DEF Restored, new, e

\* Restoring a redacted text gives the text, if nobody typed a placeholder.
LEMMA RestoreIs ==
    ASSUME NEW map, MapIsSound(map), NEW vs, NEW ws \in Seq(Word), AllRaw(ws), IsRedacted(vs, ws, map)
    PROVE  Restore(vs, map) = ws
<1>1. DOMAIN map = 1 .. Len(map) /\ Len(map) \in Nat /\ map \in Seq(Entry)
    BY DEF MapIsSound
<1>2. vs \in Seq(Word) /\ Len(vs) = Len(ws)
    BY DEF IsRedacted
<1>3. PICK h \in [0 .. Len(map) -> Seq(Word)] :
          /\ h[0] = vs
          /\ \A k \in 1 .. Len(map) : h[k] = PutBack(h[k - 1], map[k])
          /\ Restore(vs, map) = h[Len(map)]
    BY <1>1, <1>2, RestoreIsIterated
<1> DEFINE S == {k \in 0 .. Len(map) : Restored(h[k], vs, ws, map, k)}
<1>4. 0 \in S
    <2>1. ASSUME NEW i \in 1 .. Len(ws)
          PROVE  \/ vs[i] = ws[i]
                 \/ /\ vs[i].secret = ws[i].secret
                    /\ \E j \in 0 + 1 .. Len(map) : map[j].placeholder = vs[i].text /\ map[j].original = ws[i].text
        <3>1. StandsFor(vs[i], ws[i], map)
            BY DEF IsRedacted
        <3> QED BY <1>1, <3>1 DEF StandsFor, Recorded
    <2>2. Restored(vs, vs, ws, map, 0)
        BY <1>2, <2>1 DEF Restored
    <2> QED BY <1>1, <1>3, <2>2
<1>5. ASSUME NEW k \in 1 .. Len(map), k - 1 \in S PROVE k \in S
    <2>1. Restored(h[k - 1], vs, ws, map, k - 1)
        BY <1>5
    <2>2. Restored(PutBack(h[k - 1], map[k]), vs, ws, map, k)
        BY <2>1, RestoredAdvances
    <2> QED BY <1>3, <2>2
<1>6. \A k \in 0 .. Len(map) : k \in S
    <2> HIDE DEF S
    <2> QED BY <1>1, <1>4, <1>5, CountingUp
<1>7. Len(map) \in 0 .. Len(map)
    BY <1>1
<1>8. Restored(h[Len(map)], vs, ws, map, Len(map))
    BY <1>6, <1>7
<1> DEFINE rs == h[Len(map)]
<1> HIDE DEF rs, S
<1>9. rs \in Seq(Word) /\ Len(rs) = Len(ws)
    BY <1>8 DEF Restored, rs
<1>10. \A i \in 1 .. Len(ws) : rs[i] = ws[i]
    <2>1. Len(map) + 1 .. Len(map) = {}
        BY <1>1
    <2> QED BY <1>8, <2>1 DEF Restored, rs
<1>11. rs = ws
    BY <1>9, <1>10, SeqEqual
<1> QED BY <1>3, <1>11 DEF rs

----------------------------------------------------------------------------
(* A ticket *)

\* A field stays redacted while later fields extend the map.
LEMMA RedactedStays ==
    ASSUME NEW vs, NEW ws, NEW map, NEW new, MapIsSound(map), MapIsSound(new), Continues(map, new),
           IsRedacted(vs, ws, map)
    PROVE  IsRedacted(vs, ws, new)
<1>1. \A p, text : Recorded(p, text, map) => Recorded(p, text, new)
    BY RecordsStay
<1> QED BY <1>1 DEF IsRedacted, StandsFor

\* What RedactFields makes of a ticket.
IsRedaction(r, t) ==
    /\ MapIsSound(r.map)
    /\ r.fields \in [subject : Seq(Word), description : Seq(Word), attachment : Seq(Word)]
    /\ IsRedacted(r.fields.subject, t.subject, r.map)
    /\ IsRedacted(r.fields.description, t.description, r.map)
    /\ IsRedacted(r.fields.attachment, t.attachment, r.map)

LEMMA TicketIsRedacted ==
    ASSUME NEW t \in Tickets
    PROVE  IsRedaction(Redacted[t], t)
<1> DEFINE s == Redact(t.subject, <<>>)
           d == Redact(t.description, s.map)
           a == Redact(t.attachment, d.map)
<1>1. t.subject \in Seq(Word) /\ t.description \in Seq(Word) /\ t.attachment \in Seq(Word)
    BY PipelineAssumption
<1>2. MapIsSound(<<>>)
    BY DEF MapIsSound
<1>3. IsRedacted(s.words, t.subject, s.map) /\ MapIsSound(s.map)
    BY <1>1, <1>2, RedactIs
<1>4. IsRedacted(d.words, t.description, d.map) /\ MapIsSound(d.map) /\ Continues(s.map, d.map)
    <2> HIDE DEF s
    <2> QED BY <1>1, <1>3, RedactIs
<1>5. IsRedacted(a.words, t.attachment, a.map) /\ MapIsSound(a.map) /\ Continues(d.map, a.map)
    <2> HIDE DEF d
    <2> QED BY <1>1, <1>4, RedactIs
<1>6. Redacted[t] = [fields |-> [subject |-> s.words, description |-> d.words, attachment |-> a.words],
                     map |-> a.map]
    BY DEF Redacted
<1> HIDE DEF s, d, a
<1>7. Continues(s.map, a.map)
    BY <1>3, <1>4, <1>5, ContinuesIsTransitive
<1>8. IsRedacted(s.words, t.subject, a.map) /\ IsRedacted(d.words, t.description, a.map)
    BY <1>3, <1>4, <1>5, <1>7, RedactedStays
<1>9. s.words \in Seq(Word) /\ d.words \in Seq(Word) /\ a.words \in Seq(Word)
    BY <1>3, <1>4, <1>5 DEF IsRedacted
<1> QED BY <1>5, <1>6, <1>8, <1>9 DEF IsRedaction

LEMMA NothingSensitiveIsGiven ==
    ASSUME NEW r, NEW t, IsRedaction(r, t)
    PROVE  \A w \in ToSet(r.fields.subject) \cup ToSet(r.fields.description) \cup ToSet(r.fields.attachment) :
              ~ IsSensitive(w)
<1>1. ASSUME NEW vs, NEW ws, IsRedacted(vs, ws, r.map), NEW w \in ToSet(vs) PROVE ~ IsSensitive(w)
    <2>1. DOMAIN vs = 1 .. Len(ws)
        BY <1>1 DEF IsRedacted
    <2>2. PICK i \in DOMAIN vs : w = vs[i]
        BY <1>1 DEF ToSet
    <2> QED BY <1>1, <2>1, <2>2 DEF IsRedacted
<1>2. IsRedacted(r.fields.subject, t.subject, r.map) /\ IsRedacted(r.fields.description, t.description, r.map)
      /\ IsRedacted(r.fields.attachment, t.attachment, r.map)
    BY DEF IsRedaction
<1> QED BY <1>1, <1>2

LEMMA RawParts ==
    ASSUME NEW x \in Seq(Word), NEW y \in Seq(Word), AllRaw(x \o y)
    PROVE  AllRaw(x) /\ AllRaw(y)
<1>1. Len(x) \in Nat /\ Len(y) \in Nat /\ DOMAIN x = 1 .. Len(x) /\ DOMAIN y = 1 .. Len(y)
      /\ DOMAIN (x \o y) = 1 .. Len(x) + Len(y)
    OBVIOUS
<1>2. ASSUME NEW i \in DOMAIN x PROVE x[i].text.raw
    <2>1. (x \o y)[i] = x[i] /\ i \in DOMAIN (x \o y)
        BY <1>1
    <2> QED BY <2>1 DEF AllRaw
<1>3. ASSUME NEW i \in DOMAIN y PROVE y[i].text.raw
    <2>1. (x \o y)[Len(x) + i] = y[i] /\ Len(x) + i \in DOMAIN (x \o y)
        BY <1>1
    <2> QED BY <2>1 DEF AllRaw
<1> QED BY <1>2, <1>3 DEF AllRaw

LEMMA TicketIsRestored ==
    ASSUME NEW t \in Tickets, AllRaw(t.subject \o t.description \o t.attachment), NEW r, IsRedaction(r, t)
    PROVE  /\ Restore(r.fields.subject, r.map) = t.subject
           /\ Restore(r.fields.description, r.map) = t.description
           /\ Restore(r.fields.attachment, r.map) = t.attachment
<1>1. t.subject \in Seq(Word) /\ t.description \in Seq(Word) /\ t.attachment \in Seq(Word)
    BY PipelineAssumption
<1>2. t.subject \o t.description \in Seq(Word)
    BY <1>1
<1>3. AllRaw(t.subject \o t.description) /\ AllRaw(t.attachment)
    BY <1>1, <1>2, RawParts
<1>4. AllRaw(t.subject) /\ AllRaw(t.description)
    BY <1>1, <1>3, RawParts
<1>5. /\ MapIsSound(r.map)
      /\ IsRedacted(r.fields.subject, t.subject, r.map)
      /\ IsRedacted(r.fields.description, t.description, r.map)
      /\ IsRedacted(r.fields.attachment, t.attachment, r.map)
    BY DEF IsRedaction
<1>6. Restore(r.fields.subject, r.map) = t.subject
    BY <1>1, <1>4, <1>5, RestoreIs
<1>7. Restore(r.fields.description, r.map) = t.description
    BY <1>1, <1>4, <1>5, RestoreIs
<1>8. Restore(r.fields.attachment, r.map) = t.attachment
    BY <1>1, <1>3, <1>5, RestoreIs
<1> QED BY <1>6, <1>7, <1>8

----------------------------------------------------------------------------
(* The run *)

\* The run holds nothing of the ticket, or its redaction, and gave models no more than that.
Empty(m) == m.fields = NoFields /\ m.map = <<>> /\ m.sent = {}

Filled(m, r) ==
    /\ m.fields = r.fields /\ m.map = r.map
    /\ m.sent \subseteq ToSet(r.fields.subject) \cup ToSet(r.fields.description) \cup ToSet(r.fields.attachment)

RedactInv ==
    /\ ticket \in Tickets
    /\ DOMAIN mem = Slots
    /\ Empty(mem) \/ Filled(mem, Redacted[ticket])
    /\ mem.pc \in {"queued", "extracted"} => Empty(mem)
    /\ mem.pc \notin {"queued", "extracted", "failed", "done"} => Filled(mem, Redacted[ticket])

LEMMA RedactionStarts == Init => RedactInv
    BY DEF Init, RedactInv, Empty, Start, Slots

\* What a step that leaves the redaction alone leaves alone.
LEMMA RedactionIsKept ==
    ASSUME RedactInv, ticket' = ticket, DOMAIN mem' = DOMAIN mem,
           mem'.fields = mem.fields, mem'.map = mem.map, mem'.sent = mem.sent,
           mem'.pc \in {"queued", "extracted"} => mem.pc \in {"queued", "extracted"},
           mem'.pc \notin {"queued", "extracted", "failed", "done"} =>
              mem.pc \notin {"queued", "extracted", "failed", "done"}
    PROVE  RedactInv'
    BY DEF RedactInv, Empty, Filled

LEMMA RedactionStays == RedactInv /\ [Next]_vars => RedactInv'
<1> SUFFICES ASSUME RedactInv, [Next]_vars PROVE RedactInv'
    OBVIOUS
<1>0. DOMAIN mem = Slots /\ ticket \in Tickets
    BY DEF RedactInv
<1>1. ASSUME RedactFields PROVE RedactInv'
    <2>1. /\ ticket' = ticket /\ DOMAIN mem' = Slots /\ mem.pc = "extracted" /\ mem'.pc = "redacted"
          /\ mem'.fields = Redacted[ticket].fields /\ mem'.map = Redacted[ticket].map /\ mem'.sent = mem.sent
        BY <1>0, <1>1 DEF RedactFields, Quietly, Step, At, Slots, Start
    <2>2. mem.sent = {}
        BY <2>1 DEF RedactInv, Empty
    <2>3. Filled(mem', Redacted[ticket])
        BY <2>1, <2>2 DEF Filled
    <2> QED BY <1>0, <2>1, <2>3 DEF RedactInv
<1>2. ASSUME ClassifyAndRoute PROVE RedactInv'
    <2>1. /\ ticket' = ticket /\ DOMAIN mem' = Slots /\ mem.pc = "redacted" /\ mem'.pc = "routed"
          /\ mem'.fields = mem.fields /\ mem'.map = mem.map /\ mem'.sent = mem.sent \cup Given
        BY <1>0, <1>2 DEF ClassifyAndRoute, Quietly, Step, At, Slots, Start
    <2>2. PICK r : r = Redacted[ticket]
        OBVIOUS
    <2>3. Filled(mem, r)
        BY <2>1, <2>2 DEF RedactInv
    <2>4. Filled(mem', r)
        BY <2>1, <2>3 DEF Filled, Given
    <2> QED BY <1>0, <2>1, <2>2, <2>4 DEF RedactInv
<1>3. ASSUME Commit \/ Recover PROVE RedactInv'
    <2>1. ticket' = ticket /\ mem' = [Start EXCEPT !.pc = "done"]
        BY <1>3 DEF Commit, Recover
    <2>2. Empty(mem') /\ DOMAIN mem' = Slots /\ mem'.pc = "done"
        BY <2>1 DEF Empty, Slots, Start
    <2> QED BY <1>0, <2>1, <2>2 DEF RedactInv
<1>4. ASSUME Extract \/ SkipRetrieval \/ (\E s \in Scorings : SearchKeyword(s)) \/ SearchDense \/ LogHit
                \/ LogComplete
      PROVE  RedactInv'
    <2>1. /\ ticket' = ticket /\ DOMAIN mem' = DOMAIN mem
          /\ mem'.fields = mem.fields /\ mem'.map = mem.map /\ mem'.sent = mem.sent
          /\ mem'.pc \in {"queued", "extracted"} => mem.pc \in {"queued", "extracted"}
          /\ mem'.pc \notin {"queued", "extracted", "failed", "done"} =>
                mem.pc \notin {"queued", "extracted", "failed", "done"}
        BY <1>0, <1>4 DEF Extract, SkipRetrieval, SearchKeyword, SearchDense, LogHit, LogComplete,
           Quietly, Step, At, Slots, Start
    <2> QED BY <2>1, RedactionIsKept
<1>5. ASSUME (\E reply \in Replies : Draft(reply)) \/ DraftUnavailable \/ Check \/ Signals \/ Gate
      PROVE  RedactInv'
    <2>1. /\ ticket' = ticket /\ DOMAIN mem' = DOMAIN mem
          /\ mem'.fields = mem.fields /\ mem'.map = mem.map /\ mem'.sent = mem.sent
          /\ mem'.pc \in {"queued", "extracted"} => mem.pc \in {"queued", "extracted"}
          /\ mem'.pc \notin {"queued", "extracted", "failed", "done"} =>
                mem.pc \notin {"queued", "extracted", "failed", "done"}
        BY <1>0, <1>5 DEF Draft, DraftUnavailable, Check, Signals, Gate, Quietly, Step, At, Slots, Start
    <2> QED BY <2>1, RedactionIsKept
<1>6. ASSUME Fail \/ LogRefused PROVE RedactInv'
    <2>1. /\ ticket' = ticket /\ DOMAIN mem' = DOMAIN mem /\ mem'.pc = "failed"
          /\ mem'.fields = mem.fields /\ mem'.map = mem.map /\ mem'.sent = mem.sent
        BY <1>0, <1>6 DEF Fail, LogRefused, Step, Slots, Start
    <2> QED BY <2>1, RedactionIsKept
<1>7. ASSUME UNCHANGED <<ticket, mem>> PROVE RedactInv'
    BY <1>7 DEF RedactInv
<1>8. ASSUME RunStep PROVE RedactInv'
    BY <1>1, <1>2, <1>3, <1>4, <1>5, <1>6, <1>8 DEF RunStep
<1>9. Next \/ UNCHANGED vars
    OBVIOUS
<1> QED BY <1>6, <1>7, <1>8, <1>9 DEF Next, LoadStep, AbortOne, vars

LEMMA RedactionWasSafe == RedactInv => RedactionIsReversible
<1> SUFFICES ASSUME RedactInv PROVE RedactionIsReversible
    OBVIOUS
<1>1. PICK r, t : r = Redacted[ticket] /\ t = ticket
    OBVIOUS
<1>2. t \in Tickets /\ IsRedaction(r, t)
    BY <1>1, TicketIsRedacted DEF RedactInv
<1>3. Empty(mem) \/ Filled(mem, r)
    BY <1>1 DEF RedactInv
<1>4. \A w \in mem.sent : ~ IsSensitive(w)
    BY <1>2, <1>3, NothingSensitiveIsGiven DEF Empty, Filled
<1>5. \A i, j \in DOMAIN mem.map :
         mem.map[i].placeholder = mem.map[j].placeholder \/ mem.map[i].original = mem.map[j].original => i = j
    <2>1. CASE Empty(mem)
        BY <2>1 DEF Empty
    <2>2. CASE Filled(mem, r)
        BY <1>2, <2>2 DEF Filled, IsRedaction, MapIsSound
    <2> QED BY <1>3, <2>1, <2>2
<1>6. ASSUME mem.pc \notin {"queued", "extracted", "failed", "done"}, \A i \in DOMAIN Typed : ~ IsLiteral(Typed[i])
      PROVE  /\ Restore(mem.fields.subject, mem.map) = ticket.subject
             /\ Restore(mem.fields.description, mem.map) = ticket.description
             /\ Restore(mem.fields.attachment, mem.map) = ticket.attachment
    <2>1. mem.fields = r.fields /\ mem.map = r.map
        BY <1>1, <1>6 DEF RedactInv, Filled
    <2>2. AllRaw(t.subject \o t.description \o t.attachment)
        BY <1>1, <1>6 DEF AllRaw, Typed, IsLiteral
    <2> QED BY <1>1, <1>2, <2>1, <2>2, TicketIsRestored
<1> QED BY <1>4, <1>5, <1>6 DEF RedactionIsReversible

\* Whatever a ticket contains: no model and no log is given a value a pattern recognises or
\* one written as a secret; no two values share a placeholder; and unless somebody typed a
\* placeholder, restoring the three fields gives back what was submitted.
THEOREM RedactionIsSafe == Spec => []RedactionIsReversible
<1>1. Init => RedactInv
    BY RedactionStarts
<1>2. RedactInv /\ [Next]_vars => RedactInv'
    BY RedactionStays
<1>3. RedactInv => RedactionIsReversible
    BY RedactionWasSafe
<1> QED BY <1>1, <1>2, <1>3, PTL DEF Spec

----------------------------------------------------------------------------
(* Types *)

\* The row the run stores has the columns' values.
IsRow(row) ==
    /\ row.status \in {"submitted", "drafted", "escalated"}
    /\ row.lane \in {"none", "fast", "assisted", "escalate"}
    /\ row.tier \in {"none", "senior", "admin"}
    /\ row.dept \in Departments \cup {None}
    /\ row.draft # None => IsDraft(row.draft)
    /\ row.gate # None => IsDecision(row.gate)

FormInv ==
    /\ mem.dept \in Departments \cup {None}
    /\ mem.logged \in 0 .. Len(mem.rows)
    /\ IsDraft(mem.draft)
    /\ IsDecision(mem.gate)
    /\ IsRow(db)

\* A draft that is rejected proposes nothing, one that is not has at most MaxSteps steps.
LEMMA DraftedIsDraft ==
    ASSUME NEW r \in Replies, NEW hits, Len(hits) \in Nat
    PROVE  IsDraft(Drafted(r, hits))
<1> DEFINE n == Len(hits)
           d == Drafted(r, hits)
<1>1. PICK v : v = Validated(r, n)
    OBVIOUS
<1>2. v.canAnswer \in {"yes", "no", "unknown"}
    BY <1>1 DEF Validated
<1>3. /\ v.rejection # "none" => v.steps = <<>>
      /\ v.rejection = "none" => v.steps = r.steps /\ Rejection(r, n) = "none"
    BY <1>1 DEF Validated
<1>4. v.rejection = "none" => Len(v.steps) <= MaxSteps
    <2> SUFFICES ASSUME v.rejection = "none" PROVE Len(r.steps) <= MaxSteps
        BY <1>3
    <2>1. Faulty(r.steps, n) = {}
        <3> SUFFICES ASSUME Faulty(r.steps, n) # {} PROVE FALSE
            OBVIOUS
        <3>1. Faulty(r.steps, n) \in SUBSET Nat
            BY PipelineAssumption DEF Faulty
        <3>2. FirstOf(Faulty(r.steps, n)) \in Faulty(r.steps, n)
            BY <3>1, FirstOfIs
        <3> QED BY <1>3, <3>2 DEF Rejection, Faulty
    <2>2. ReplyProblem(r.canAnswer, r.steps, n) = "none"
        BY <1>3, <2>1 DEF Rejection
    <2>3. ~ Len(r.steps) > MaxSteps
        BY <2>2 DEF ReplyProblem
    <2> QED BY <2>3, PipelineAssumption
<1>5. d.valid = (v.rejection = "none") /\ d.canAnswer = v.canAnswer /\ d.steps = v.steps
    BY <1>1 DEF Drafted
<1> HIDE DEF d
<1>6. Len(d.steps) <= MaxSteps
    <2>1. CASE v.rejection = "none"
        BY <1>4, <1>5, <2>1
    <2>2. CASE v.rejection # "none"
        <3>1. d.steps = <<>>
            BY <1>3, <1>5, <2>2
        <3> QED BY <3>1, PipelineAssumption
    <2> QED BY <2>1, <2>2
<1>7. d.steps # <<>> => d.valid
    BY <1>3, <1>5
<1>8. d.valid \in BOOLEAN
    BY <1>5
<1>9. IsDraft(d)
    BY <1>2, <1>5, <1>6, <1>7, <1>8 DEF IsDraft
<1> QED BY <1>9 DEF d

LEMMA DecisionIsDecision ==
    ASSUME NEW score \in 0 .. MaxScore \cup {None}, NEW t \in Thresholds \cup {None}, NEW shown, NEW signals
    PROVE  IsDecision(Decision(score, shown, signals, t))
<1> DEFINE g == Decision(score, shown, signals, t)
<1>1. g.score \in 0 .. MaxScore \cup {None} /\ g.thresholds = t
    <2>1. g.score = Rounded(score) /\ g.thresholds = t
        BY DEF Decision
    <2> HIDE DEF g
    <2>2. CASE score = None
        BY <2>1, <2>2 DEF Rounded
    <2>3. CASE score # None
        <3>1. score \in Nat /\ score <= MaxScore /\ Grain \in Nat \ {0} /\ Rounded(score) = RoundedTo(score, Grain)
            BY <2>3, PipelineAssumption DEF Rounded
        <3>2. PICK k \in Nat : MaxScore = k * Grain
            BY PipelineAssumption DEF OnGrid
        <3>3. RoundedTo(score, Grain) \in Nat /\ (score < MaxScore => RoundedTo(score, Grain) <= MaxScore)
            BY <3>1, <3>2, RoundingKeepsSides
        <3>4. RoundedTo(MaxScore, Grain) = MaxScore
            <4>1. /\ MaxScore \in Nat /\ MaxScore % Grain = 0 /\ MaxScore \div Grain = k
                BY <3>1, <3>2, PipelineAssumption, MultiplesDivide
            <4> QED BY <3>1, <3>2, <4>1 DEF RoundedTo, Nearest
        <3>5. MaxScore \in Nat
            BY PipelineAssumption
        <3> QED BY <2>1, <3>1, <3>3, <3>4, <3>5
    <2> QED BY <2>2, <2>3
<1>2. g.first \in {"no model", "guard", "model"}
    BY DEF Decision
<1>3. g.lane \in {"fast", "assisted", "escalate"}
    BY DEF Decision
<1> HIDE DEF g
<1>4. IsDecision(g)
    BY <1>1, <1>2, <1>3 DEF IsDecision
<1> QED BY <1>4 DEF g

LEMMA FormStarts == Init => FormInv
<1> SUFFICES ASSUME Init PROVE FormInv
    OBVIOUS
<1>1. mem = Start /\ db = NothingStored
    BY DEF Init
<1>2. mem.dept = None /\ mem.logged = 0 /\ mem.rows = <<>> /\ mem.draft = NoDraft /\ mem.gate = NoDecision
    BY <1>1 DEF Start
<1>3. IsDraft(NoDraft) /\ IsDecision(NoDecision)
    BY PipelineAssumption DEF IsDraft, IsDecision, NoDraft, NoDecision
<1>4. IsRow(db)
    BY <1>1 DEF IsRow, NothingStored
<1> QED BY <1>2, <1>3, <1>4 DEF FormInv

\* What the commit stores is a row.
LEMMA OutcomeIsRow ==
    ASSUME FormInv, db = NothingStored
    PROVE  IsRow(Outcome)
<1>1. PICK d, g, dept, row : d = mem.draft /\ g = mem.gate /\ dept = mem.dept /\ row = Outcome
    OBVIOUS
<1>2. dept \in Departments \cup {None} /\ IsDraft(d) /\ IsDecision(g)
    BY <1>1 DEF FormInv
<1>3. CASE dept = None
    <2>1. row = ToAdmin(WithLog(db), "unroutable")
        BY <1>1, <1>3 DEF Outcome
    <2>2. /\ row.status = "escalated" /\ row.lane = "escalate" /\ row.tier = "admin" /\ row.dept = None
          /\ row.draft = None /\ row.gate = None
        BY <2>1 DEF ToAdmin, WithLog, NothingStored
    <2> QED BY <1>1, <2>2 DEF IsRow
<1>4. CASE dept # None
    <2>1. /\ row.dept = dept /\ row.lane \in {g.lane, "escalate"}
          /\ row.status \in {"drafted", "escalated"} /\ row.tier \in {"none", "senior"}
          /\ IF d.generated
             THEN row.draft = [valid |-> d.valid, canAnswer |-> d.canAnswer, steps |-> d.steps] /\ row.gate = g
             ELSE row.draft = None /\ row.gate = None
        <3>1. CASE g.lane # "escalate"
            BY <1>1, <1>4, <3>1 DEF Outcome, Shown, WithDraft, WithLog, NothingStored
        <3>2. CASE g.lane = "escalate"
            BY <1>1, <1>4, <3>2 DEF Outcome, Withheld, WithDraft, WithLog, NothingStored
        <3> QED BY <3>1, <3>2
    <2>2. g.lane \in {"fast", "assisted", "escalate"}
        BY <1>2 DEF IsDecision
    <2>3. row.draft # None => IsDraft(row.draft)
        <3> DEFINE e == [valid |-> d.valid, canAnswer |-> d.canAnswer, steps |-> d.steps]
        <3>1. e.valid = d.valid /\ e.canAnswer = d.canAnswer /\ e.steps = d.steps
            OBVIOUS
        <3> HIDE DEF e
        <3>2. IsDraft(e)
            BY <1>2, <3>1 DEF IsDraft
        <3> QED BY <2>1, <3>2 DEF e
    <2>4. row.gate # None => IsDecision(row.gate)
        BY <1>2, <2>1
    <2> QED BY <1>1, <1>2, <2>1, <2>2, <2>3, <2>4 DEF IsRow
<1> QED BY <1>3, <1>4

\* A step that changes neither the route nor the log nor what is decided.
LEMMA FormIsKept ==
    ASSUME FormInv, mem'.dept = mem.dept, mem'.logged = mem.logged, mem'.rows = mem.rows,
           mem'.draft = mem.draft, mem'.gate = mem.gate, db' = db
    PROVE  FormInv'
    BY DEF FormInv

LEMMA FormStays == PipelineInv /\ FormInv /\ [Next]_vars => FormInv'
<1> SUFFICES ASSUME PipelineInv, FormInv, [Next]_vars PROVE FormInv'
    OBVIOUS
<1>0. DOMAIN mem = Slots
    BY DEF PipelineInv, RunInv, RunTyped
<1>1. ASSUME ClassifyAndRoute PROVE FormInv'
    <2>1. /\ db' = db /\ mem'.dept \in Departments \cup {None} /\ mem'.logged = mem.logged /\ mem'.rows = mem.rows
          /\ mem'.draft = mem.draft /\ mem'.gate = mem.gate
        BY <1>0, <1>1 DEF ClassifyAndRoute, Quietly, Step, Slots, Start
    <2> QED BY <2>1 DEF FormInv
<1>2. ASSUME SearchDense PROVE FormInv'
    <2>1. /\ db' = db /\ mem'.dept = mem.dept /\ mem'.logged = mem.logged
          /\ mem'.draft = mem.draft /\ mem'.gate = mem.gate /\ mem.pc = "keyword" /\ mem'.pc = "logging"
        BY <1>0, <1>2 DEF SearchDense, Quietly, Step, At, Slots, Start
    <2>2. mem'.logged \in 0 .. Len(mem'.rows)
        <3>1. PipelineInv'
            BY <1>2, DenseSearch
        <3> QED BY <2>1, <3>1 DEF PipelineInv, RunInv, LogInv, Late
    <2> QED BY <2>1, <2>2 DEF FormInv
<1>3. ASSUME LogHit PROVE FormInv'
    <2>1. /\ db' = db /\ mem'.dept = mem.dept /\ mem'.pc = "logging"
          /\ mem'.draft = mem.draft /\ mem'.gate = mem.gate
        BY <1>0, <1>3 DEF LogHit, Step, At, Slots, Start
    <2>2. mem'.logged \in 0 .. Len(mem'.rows)
        <3>1. PipelineInv'
            BY <1>3, LoggingReferences
        <3> QED BY <2>1, <3>1 DEF PipelineInv, RunInv, LogInv, Late
    <2> QED BY <2>1, <2>2 DEF FormInv
<1>4. ASSUME NEW r \in Replies, Draft(r) PROVE FormInv'
    <2>1. PICK hits : hits = mem.hits
        OBVIOUS
    <2>2. /\ db' = db /\ mem'.dept = mem.dept /\ mem'.logged = mem.logged /\ mem'.rows = mem.rows
          /\ mem'.draft = Drafted(r, hits) /\ mem'.gate = mem.gate /\ mem.pc = "retrieved"
        BY <1>0, <1>4, <2>1 DEF Draft, Quietly, Step, At, Slots, Start
    <2>3. Len(hits) \in Nat
        BY <2>1, <2>2 DEF PipelineInv, RunInv, SearchInv, Late, ArePassages, DrawnFrom
    <2>4. IsDraft(mem'.draft)
        BY <2>2, <2>3, DraftedIsDraft
    <2> QED BY <2>2, <2>4 DEF FormInv
<1>5. ASSUME Gate PROVE FormInv'
    <2>1. PICK d, signals : d = mem.draft /\ signals = mem.signals
        OBVIOUS
    <2>2. PICK score \in 0 .. MaxScore \cup {None}, t \in Thresholds \cup {None} :
              Quietly([mem EXCEPT !.pc = "gated", !.gate = Decision(score, d.shown, signals, t)])
        BY <1>5, <2>1 DEF Gate
    <2>3. /\ db' = db /\ mem'.dept = mem.dept /\ mem'.logged = mem.logged /\ mem'.rows = mem.rows
          /\ mem'.draft = mem.draft /\ mem'.gate = Decision(score, d.shown, signals, t)
        BY <1>0, <2>2 DEF Quietly, Step, Slots, Start
    <2>4. IsDecision(mem'.gate)
        BY <2>3, DecisionIsDecision
    <2> QED BY <2>3, <2>4 DEF FormInv
<1>6. ASSUME Commit \/ Recover PROVE FormInv'
    <2>1. mem' = [Start EXCEPT !.pc = "done"] /\ db = NothingStored
        BY <1>6 DEF Commit, Recover, At, PipelineInv, RunInv, StoreInv
    <2>2. mem'.dept = None /\ mem'.logged = 0 /\ mem'.rows = <<>> /\ mem'.draft = NoDraft /\ mem'.gate = NoDecision
        BY <2>1 DEF Start
    <2>3. IsDraft(NoDraft) /\ IsDecision(NoDecision)
        BY PipelineAssumption DEF IsDraft, IsDecision, NoDraft, NoDecision
    <2>4. IsRow(db')
        <3>1. CASE Commit
            <4>1. db' = Outcome
                BY <3>1 DEF Commit
            <4> QED BY <2>1, <4>1, OutcomeIsRow
        <3>2. CASE Recover
            <4>1. db' = ToAdmin(NothingStored, "error")
                BY <2>1, <3>2 DEF Recover
            <4> QED BY <4>1 DEF IsRow, ToAdmin, NothingStored
        <3> QED BY <1>6, <3>1, <3>2
    <2> QED BY <2>2, <2>3, <2>4 DEF FormInv
<1>7. ASSUME Extract \/ RedactFields \/ SkipRetrieval \/ (\E s \in Scorings : SearchKeyword(s)) \/ LogComplete
      PROVE  FormInv'
    <2>1. /\ mem'.dept = mem.dept /\ mem'.logged = mem.logged /\ mem'.rows = mem.rows
          /\ mem'.draft = mem.draft /\ mem'.gate = mem.gate /\ db' = db
        BY <1>0, <1>7 DEF Extract, RedactFields, SkipRetrieval, SearchKeyword, LogComplete, Quietly, Step, Slots, Start
    <2> QED BY <2>1, FormIsKept
<1>8. ASSUME DraftUnavailable \/ Check \/ Signals \/ Fail \/ LogRefused PROVE FormInv'
    <2>1. /\ mem'.dept = mem.dept /\ mem'.logged = mem.logged /\ mem'.rows = mem.rows
          /\ mem'.draft = mem.draft /\ mem'.gate = mem.gate /\ db' = db
        BY <1>0, <1>8 DEF DraftUnavailable, Check, Signals, Fail, LogRefused, Quietly, Step, Slots, Start
    <2> QED BY <2>1, FormIsKept
<1>9. ASSUME UNCHANGED <<mem, db>> PROVE FormInv'
    BY <1>9, FormIsKept
<1>10. ASSUME RunStep PROVE FormInv'
    BY <1>1, <1>2, <1>3, <1>4, <1>5, <1>6, <1>7, <1>8, <1>10 DEF RunStep
<1>11. Next \/ UNCHANGED vars
    OBVIOUS
<1> QED BY <1>8, <1>9, <1>10, <1>11 DEF Next, LoadStep, AbortOne, vars

LEMMA AllIsTyped == PipelineInv /\ RedactInv /\ FormInv => TypeOK
<1> SUFFICES ASSUME PipelineInv, RedactInv, FormInv PROVE TypeOK
    OBVIOUS
<1>1. KBTypeOK
    BY DEF PipelineInv, KBInv, KBTyped, HeldInv, KBTypeOK
<1>2. ticket \in Tickets /\ mem.pc \in PCs
    BY DEF RedactInv, PipelineInv, RunInv, RunTyped, Early, Late, PCs
<1>3. /\ mem.fields \in [subject : Seq(Word), description : Seq(Word), attachment : Seq(Word)]
      /\ mem.map \in Seq(Entry)
    <2>1. CASE Empty(mem)
        BY <2>1 DEF Empty, NoFields
    <2>2. CASE Filled(mem, Redacted[ticket])
        <3>1. IsRedaction(Redacted[ticket], ticket)
            BY <1>2, TicketIsRedacted
        <3> QED BY <2>2, <3>1 DEF Filled, IsRedaction, MapIsSound
    <2> QED BY <2>1, <2>2 DEF RedactInv
<1> QED BY <1>1, <1>2, <1>3 DEF TypeOK, FormInv, IsRow

\* The pipeline's types: what is kept of the knowledge base, of the run and of the ticket's
\* row is what the columns and the code's types allow; a stored draft that was rejected
\* proposes no steps, and none proposes more than MAX_STEPS.
THEOREM PipelineTypes == Spec => []TypeOK
<1>1. Init => PipelineInv /\ RedactInv /\ FormInv
    BY RunStarts, RedactionStarts, FormStarts
<1>2. (PipelineInv /\ RedactInv /\ FormInv) /\ [Next]_vars => (PipelineInv /\ RedactInv /\ FormInv)'
    BY PipelineStays, RedactionStays, FormStays
<1>3. PipelineInv /\ RedactInv /\ FormInv => TypeOK
    BY AllIsTyped
<1> QED BY <1>1, <1>2, <1>3, PTL DEF Spec
=============================================================================
