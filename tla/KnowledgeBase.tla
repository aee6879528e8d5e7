---------------------------- MODULE KnowledgeBase ----------------------------
(***************************************************************************)
(* The knowledge base that retrieval reads: articles an admin adds through *)
(* the API (backend/app/routers/knowledge_base.py), and the script that    *)
(* loads the article files, replaces their chunks and prunes rows no file  *)
(* produces any more (ai/embeddings/embed_knowledge_base.py).              *)
(*                                                                         *)
(* A load is one transaction over every article, in path order.  A chunk   *)
(* it deletes stays locked until it commits; a row that another            *)
(* transaction references with a foreign key (held) cannot be deleted      *)
(* before that transaction ends.  An article has one chunk, with an id of  *)
(* its own in every load.                                                  *)
(***************************************************************************)
EXTENDS Naturals, Sequences, FiniteSets

CONSTANTS
    Departments,
    Articles,
    PathOrder,      \* the articles' files, sorted by path
    FileOf,         \* FileOf[load][a]: the file of article a when that load reads it
    Sources,        \* the source_url an admin may give: "none" (NULL) or "url"
    InitialKB,      \* the rows of load 0
    Chunks          \* Chunks[c]: the article and load of chunk c, and what its text says

Loads == DOMAIN FileOf

\* state "absent": there is no such row yet; no file brings a pruned article back.
ArticleRow == [state : {"absent", "present", "pruned"}, dept : Departments, served : BOOLEAN,
               load : Loads \cup {0},
               source : {"file", "none", "url"}]   \* source_url: "kb:...", NULL, another

HasFile(l, a) == FileOf[l][a].state = "present"

\* Every file is in PathOrder and says which load it is for, every article in PathOrder has a
\* file at some time, and there is a chunk for every text an article may have.
ASSUME KnowledgeBaseAssumption ==
    /\ PathOrder \in Seq(Articles)
    /\ FileOf \in Seq([Articles -> ArticleRow])
    /\ InitialKB \in [Articles -> ArticleRow]
    /\ Sources \subseteq {"none", "url"}
    /\ \A a \in Articles :
          /\ InitialKB[a].state # "pruned" /\ InitialKB[a].load = 0
          /\ \A l \in Loads : FileOf[l][a].state # "pruned"
          /\ \A l \in Loads : HasFile(l, a) =>
                /\ FileOf[l][a].load = l
                /\ \E i \in DOMAIN PathOrder : PathOrder[i] = a
          /\ \A l \in Loads \cup {0} : l = 0 \/ HasFile(l, a) =>
                \E c \in DOMAIN Chunks : Chunks[c].article = a /\ Chunks[c].load = l
    /\ \A i \in DOMAIN PathOrder :
          \/ InitialKB[PathOrder[i]].state = "present"
          \/ \E l \in Loads : HasFile(l, PathOrder[i])
    /\ Len(Chunks) \in Nat /\ DOMAIN Chunks = 1 .. Len(Chunks)
    /\ \A c \in DOMAIN Chunks : Chunks[c].article \in Articles /\ Chunks[c].load \in Loads \cup {0}

VARIABLES
    kb,        \* committed rows of knowledge_base, with the chunk each one has
    ingest,    \* the load in progress
    held       \* articles whose rows the ticket's transaction references

kbVars == <<kb, ingest, held>>

IngestRow == [pc : {"idle", "loading", "pruning"},
              load : Loads \cup {0},          \* the load in progress, or the last one
              prune : BOOLEAN,
              next : Nat,                     \* position in PathOrder
              pending : [Articles -> ArticleRow],
              deleted : SUBSET Articles,      \* articles whose committed chunk it deleted
              stale : SUBSET Articles,        \* rows it still has to prune
              row : SUBSET Articles]          \* the one of them it is at

KBTypeOK ==
    /\ kb \in [Articles -> ArticleRow]
    /\ ingest \in IngestRow
    /\ held \in SUBSET Articles

KBInit ==
    /\ kb = InitialKB
    /\ ingest = [pc |-> "idle", load |-> 0, prune |-> FALSE, next |-> 1,
                 pending |-> InitialKB, deleted |-> {}, stale |-> {}, row |-> {}]
    /\ held = {}

Exists(a) == kb[a].state = "present"

ChunkOf(a) == CHOOSE c \in DOMAIN Chunks : Chunks[c].article = a /\ Chunks[c].load = kb[a].load

\* The chunks a search in department d may see.
Scope(d) == {ChunkOf(a) : a \in {b \in Articles : Exists(b) /\ kb[b].dept = d /\ kb[b].served}}

ChunkExists(c) == Exists(Chunks[c].article) /\ ChunkOf(Chunks[c].article) = c

----------------------------------------------------------------------------

\* POST /knowledge-base: row, embedding and chunks in one commit, served, without a key.
CreateArticle(a, source) ==
    /\ kb[a].state = "absent"
    /\ \A l \in Loads : ~ HasFile(l, a)
    /\ kb' = [kb EXCEPT ![a] = [@ EXCEPT !.state = "present", !.served = TRUE, !.source = source]]
    /\ UNCHANGED <<ingest, held>>

StartIngest(prune) ==
    /\ ingest.pc = "idle"
    /\ ingest.load + 1 \in Loads
    /\ ingest' = [ingest EXCEPT !.pc = "loading", !.load = @ + 1, !.prune = prune, !.next = 1,
                                !.pending = kb, !.deleted = {}, !.stale = {}, !.row = {}]
    /\ UNCHANGED <<kb, held>>

Present(a) == HasFile(ingest.load, a)

\* The article the load is at; its old chunk cannot be deleted while it is held, nor a row
\* that is to be pruned.
AtArticle(a) == ingest.next \in DOMAIN PathOrder /\ PathOrder[ingest.next] = a

IngestWaits ==
    \/ ingest.pc = "loading" /\ \E a \in held : AtArticle(a) /\ Present(a) /\ Exists(a)
    \/ ingest.pc = "pruning" /\ ingest.row \cap held # {}

\* The row as the file has it; an existing row keeps its department.
Upserted(a) ==
    IF Exists(a) THEN [FileOf[ingest.load][a] EXCEPT !.dept = kb[a].dept] ELSE FileOf[ingest.load][a]

\* Upsert of one file's row and replacement of its chunks.
LoadArticle(a) ==
    /\ ingest.pc = "loading"
    /\ AtArticle(a)
    /\ ~ IngestWaits
    /\ ingest' = IF Present(a)
                 THEN [ingest EXCEPT !.next = @ + 1, !.pending = [@ EXCEPT ![a] = Upserted(a)],
                                     !.deleted = @ \cup {b \in {a} : Exists(b)}]
                 ELSE [ingest EXCEPT !.next = @ + 1]
    /\ UNCHANGED <<kb, held>>

\* Rows of the seeded departments that no file produced: files that are gone, and
\* articles created through the API without a source of their own.
Stale == {a \in Articles : Exists(a) /\ ~ Present(a) /\ kb[a].source # "url"}

\* The row to be pruned next, in whatever order the SELECT returned them.
NextRows(left) == IF left = {} THEN {{}} ELSE {{a} : a \in left}

FindStale ==
    /\ ingest.pc = "loading"
    /\ ingest.next \notin DOMAIN PathOrder
    /\ LET found == IF ingest.prune THEN Stale ELSE {}
       IN  \E row \in NextRows(found) :
              ingest' = [ingest EXCEPT !.pc = "pruning", !.stale = found, !.row = row]
    /\ UNCHANGED <<kb, held>>

\* Deleting a row deletes its chunks and sets the logged hits' references to NULL.
PruneArticle ==
    /\ ingest.pc = "pruning"
    /\ ingest.row # {}
    /\ ~ IngestWaits
    /\ \E row \in NextRows(ingest.stale \ ingest.row) :
          ingest' = [ingest EXCEPT !.stale = @ \ ingest.row, !.row = row,
                                   !.deleted = @ \cup ingest.row,
                                   !.pending = [a \in Articles |->
                                       IF a \in ingest.row THEN [@[a] EXCEPT !.state = "pruned"] ELSE @[a]]]
    /\ UNCHANGED <<kb, held>>

CommitIngest ==
    /\ ingest.pc = "pruning"
    /\ ingest.stale = {}
    /\ kb' = [a \in Articles |-> IF Present(a) \/ a \in ingest.deleted THEN ingest.pending[a] ELSE kb[a]]
    /\ ingest' = [ingest EXCEPT !.pc = "idle", !.deleted = {}]
    /\ UNCHANGED held

\* An unreadable file, a lost connection, or a deadlock: nothing of the load remains.
FailIngest ==
    /\ ingest.pc # "idle"
    /\ ingest' = [ingest EXCEPT !.pc = "idle", !.deleted = {}, !.stale = {}, !.row = {}]
    /\ UNCHANGED <<kb, held>>

\* The load in progress goes on.
IngestStep ==
    \/ \E a \in Articles : LoadArticle(a)
    \/ FindStale
    \/ PruneArticle
    \/ CommitIngest

KBNext ==
    \/ \E a \in Articles, source \in Sources : CreateArticle(a, source)
    \/ \E prune \in BOOLEAN : StartIngest(prune)
    \/ IngestStep
    \/ FailIngest
=============================================================================
