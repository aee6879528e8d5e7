------------------------------ MODULE Retrieval ------------------------------
(***************************************************************************)
(* Hybrid retrieval (ai/retrieval/hybrid.py): keyword and dense rankings   *)
(* of one department's served chunks, reciprocal rank fusion, reranking,   *)
(* and the numbered rows the run logs.  Chunks are numbered in the order   *)
(* of their ids.  The scores of full-text search, embeddings and           *)
(* cross-encoder are inputs; a keyword score of 0 is no match.             *)
(***************************************************************************)
EXTENDS Naturals, Sequences, FiniteSets, SequencesExt

CONSTANTS
    NCandidates,   \* N_CANDIDATES
    RrfK,          \* RRF_K
    TopK,          \* k of hybrid_search
    Unit           \* a common denominator of 1 / (RrfK + 1), ..., 1 / (RrfK + NCandidates)

ASSUME RetrievalAssumption ==
    /\ NCandidates \in Nat \ {0} /\ RrfK \in Nat /\ TopK \in Nat \ {0}
    /\ Unit \in Nat \ {0}
    /\ \A i \in 1 .. NCandidates : Unit % (RrfK + i) = 0

\* ORDER BY score DESC, id
Precedes(c, d, score) == score[c] > score[d] \/ (score[c] = score[d] /\ c < d)

Ahead(c, S, score) == {d \in S : Precedes(d, c, score)}

Ranked(S, score) ==
    [k \in 1 .. Cardinality(S) |-> CHOOSE c \in S : Cardinality(Ahead(c, S, score)) = k - 1]

First(n, s) == SubSeq(s, 1, IF Len(s) < n THEN Len(s) ELSE n)

\* _KEYWORD_SQL and _DENSE_SQL over the chunks in scope.
KeywordRows(scope, score) == First(NCandidates, Ranked({c \in scope : score[c] > 0}, score))

DenseRows(scope, score) == First(NCandidates, Ranked(scope, score))

RankIn(s, c) == IF c \in ToSet(s) THEN CHOOSE i \in DOMAIN s : s[i] = c ELSE 0

Share(s, c) == IF RankIn(s, c) = 0 THEN 0 ELSE Unit \div (RrfK + RankIn(s, c))

\* rrf
Fused(kw, dn) == [c \in ToSet(kw) \cup ToSet(dn) |-> Share(kw, c) + Share(dn, c)]

Candidates(kw, dn) == First(NCandidates, Ranked(ToSet(kw) \cup ToSet(dn), Fused(kw, dn)))

\* The passages, numbered from 1 in this order.
Hits(candidates, rerank) == First(TopK, Ranked(ToSet(candidates), rerank))

\* Mutant: a passage's number in the log is its place before reranking.
HitRows_FusedOrder(kw, dn, cs, hits) ==
    [i \in DOMAIN cs |-> [chunk |-> cs[i], keyword |-> RankIn(kw, cs[i]), dense |-> RankIn(dn, cs[i]),
                          final |-> IF RankIn(hits, cs[i]) = 0 THEN 0 ELSE i]]

\* The retrieval_hits rows of a run; final 0 is NULL: a candidate that did not make it.
HitRows(kw, dn, cs, hits) ==
    [i \in DOMAIN cs |-> [chunk |-> cs[i], keyword |-> RankIn(kw, cs[i]),
                          dense |-> RankIn(dn, cs[i]), final |-> RankIn(hits, cs[i])]]
=============================================================================
