------------------------------ MODULE Knowledge ------------------------------
(***************************************************************************)
(* The knowledge import, `python -m app.rag.ingest`: rag/ingestion.py with *)
(* rag/metadata.py and the rows of models/knowledge.py.                    *)
(*                                                                         *)
(* An importer checks the corpus in the working tree, then in one          *)
(* transaction looks every article up in index order, inserts the new      *)
(* ones, retires what the corpus no longer has, and commits.  It reads     *)
(* committed rows, one query per article; an insert is flushed by the next *)
(* query and waits for the uncommitted row of another importer that has    *)
(* the same article or path.                                               *)
(*                                                                         *)
(* An article already stored that must be rewritten never is: the session  *)
(* flushes the INSERT of its new chunk 0 before the DELETE of its old one, *)
(* and uq_knowledge_chunks_document_index is not deferrable.               *)
(*                                                                         *)
(* Abstracted: an article's text is its checksum, its slug is its path,    *)
(* its chunks (never none) are the embedding model that made them.         *)
(***************************************************************************)
EXTENDS Integers

CONSTANTS
  Articles,     \* article ids, numbered in the order of index.json
  Paths,        \* source files
  Sums,         \* checksums of texts
  Models,       \* embedding models
  Releases,     \* what the working tree can hold
  Corpus,       \* the entries of index.json and the manifest, per release
  Embedder,     \* the embedding model of each release
  Importers,    \* importing processes
  Watched,      \* those whose result somebody waits for
  NoEntry, NoRow, Unlisted

Entries == [path : Paths, sum : Sums, listed : Sums \cup {Unlisted}]

ASSUME KnowledgeAssumption ==
  /\ Articles \subseteq Nat
  /\ Corpus \in [Releases -> [Articles -> Entries \cup {NoEntry}]]
  /\ Embedder \in [Releases -> Models]
  /\ NoEntry \notin Entries
  /\ NoRow \notin [path : Paths, sum : Sums, model : Models, active : BOOLEAN]
  /\ 0 \notin Articles

VARIABLES
  release,      \* the release in the working tree
  documents,    \* the committed knowledge_documents rows with their chunks
  importer      \* what each importer has done in its transaction

knowledgeVars == <<release, documents, importer>>

---------------------------------------------------------------------------
(* Corpora and rows *)

Row(path, sum, model, active) ==
  [path |-> path, sum |-> sum, model |-> model, active |-> active]

Rows == [path : Paths, sum : Sums, model : Models, active : BOOLEAN]

Listed(r) == {a \in Articles : Corpus[r][a] # NoEntry}
Stored    == {a \in Articles : documents[a] # NoRow}
Active    == {a \in Stored : documents[a].active}

\* load_index, resolve_source, manifest_details and _load_sources: paths are
\* distinct and, where the manifest lists checksums, each text has its own.
Sound(r) ==
  /\ Listed(r) # {}
  /\ \A a, b \in Listed(r) : Corpus[r][a].path = Corpus[r][b].path => a = b
  /\ \/ \A a \in Listed(r) : Corpus[r][a].listed = Unlisted
     \/ \A a \in Listed(r) : Corpus[r][a].listed = Corpus[r][a].sum

\* The stored article is the one of release r, so the import skips it.
Unchanged(r, a) ==
  /\ documents[a] # NoRow
  /\ documents[a].sum = Corpus[r][a].sum
  /\ documents[a].model = Embedder[r]
  /\ documents[a].active

---------------------------------------------------------------------------
(* Importers *)

Idle == [pc |-> "idle", todo |-> {}, pending |-> 0, wrote |-> {},
         retired |-> {}]

Ended(i, pc) == [Idle EXCEPT !.pc = IF i \in Watched THEN pc ELSE "idle"]

At(i, pc) == importer[i].pc = pc
Importing(i) == importer[i].pc \in {"reading", "flushing", "retired"}
First(todo) == CHOOSE a \in todo : \A b \in todo : a <= b
NewRow(a) == Row(Corpus[release][a].path, Corpus[release][a].sum,
                 Embedder[release], TRUE)

\* Another importer's uncommitted row has the article id or the path of a.
Held(i, a) ==
  \E j \in Importers \ {i} : \E b \in importer[j].wrote :
    b = a \/ Corpus[release][b].path = Corpus[release][a].path

\* A committed row has them.
Taken(a) ==
  \E b \in Stored : b = a \/ documents[b].path = Corpus[release][a].path

ImportStart(i) ==
  /\ importer[i].pc \in {"idle", "done", "failed"}
  /\ importer' = [importer EXCEPT ![i] =
       IF Sound(release)
       THEN [Idle EXCEPT !.pc = "reading", !.todo = Listed(release)]
       ELSE Ended(i, "failed")]
  /\ UNCHANGED <<release, documents>>

\* ingest, one article: skip it, or hand it to the session.
Look(i) ==
  LET a == First(importer[i].todo) IN
  /\ At(i, "reading")
  /\ importer[i].todo # {}
  /\ importer' = [importer EXCEPT
       ![i].todo = @ \ {a},
       ![i].pc = IF Unchanged(release, a) THEN "reading" ELSE "flushing",
       ![i].pending = IF Unchanged(release, a) THEN 0 ELSE a]
  /\ UNCHANGED <<release, documents>>

\* The next query flushes the article: a new one is inserted.
Insert(i) ==
  LET a == importer[i].pending IN
  /\ At(i, "flushing")
  /\ ~Held(i, a) /\ ~Taken(a)
  /\ importer' = [importer EXCEPT
       ![i].pc = "reading", ![i].pending = 0, ![i].wrote = @ \cup {a}]
  /\ UNCHANGED <<release, documents>>

\* Its id or path is taken: by a row of another article or importer, or by
\* the very row and chunks that the import meant to replace.
Conflict(i) ==
  /\ At(i, "flushing")
  /\ ~Held(i, importer[i].pending) /\ Taken(importer[i].pending)
  /\ importer' = [importer EXCEPT ![i] = Ended(i, "failed")]
  /\ UNCHANGED <<release, documents>>

\* deactivate_absent; it waits for rows another importer has retired.
Retire(i) ==
  LET absent == Active \ Listed(release) IN
  /\ At(i, "reading")
  /\ importer[i].todo = {}
  /\ \A j \in Importers \ {i} : importer[j].retired \cap absent = {}
  /\ importer' = [importer EXCEPT ![i].pc = "retired", ![i].retired = absent]
  /\ UNCHANGED <<release, documents>>

\* Mutant: articles the corpus no longer has stay active.
CommitKept(i) ==
  /\ At(i, "retired")
  /\ documents' = [a \in Articles |->
       IF a \in importer[i].wrote THEN NewRow(a) ELSE documents[a]]
  /\ importer' = [importer EXCEPT ![i] = Ended(i, "done")]
  /\ UNCHANGED release

ImportCommit(i) ==
  /\ At(i, "retired")
  /\ documents' = [a \in Articles |->
       IF a \in importer[i].wrote THEN NewRow(a)
       ELSE IF a \in importer[i].retired
            THEN [documents[a] EXCEPT !.active = FALSE]
            ELSE documents[a]]
  /\ importer' = [importer EXCEPT ![i] = Ended(i, "done")]
  /\ UNCHANGED release

\* Mutant: a failed import keeps its rows locked.
FailLocked(i) ==
  /\ Importing(i)
  /\ importer' = [importer EXCEPT ![i].pc = "failed"]
  /\ UNCHANGED <<release, documents>>

\* The process ends, or the database refuses it: the transaction rolls back.
ImportFail(i) ==
  /\ Importing(i)
  /\ importer' = [importer EXCEPT ![i] = Ended(i, "failed")]
  /\ UNCHANGED <<release, documents>>

ImportStep(i) ==
  \/ Look(i)
  \/ Insert(i)
  \/ Conflict(i)
  \/ Retire(i)
  \/ ImportCommit(i)

\* A release is put in the working tree while nothing imports from it.
CheckOut(r) ==
  /\ \A i \in Importers : ~Importing(i)
  /\ r # release
  /\ release' = r
  /\ importer' = [i \in Importers |-> Idle]
  /\ UNCHANGED documents

KnowledgeInit ==
  /\ release \in Releases
  /\ documents = [a \in Articles |-> NoRow]
  /\ importer = [i \in Importers |-> Idle]

---------------------------------------------------------------------------
(* One operator who imports, waits, and imports again: nothing interferes *)

KnowledgeNext ==
  \/ \E i \in Importers : ImportStart(i) \/ ImportStep(i)
  \/ \E r \in Releases : CheckOut(r)

KnowledgeSpec == KnowledgeInit /\ [][KnowledgeNext]_knowledgeVars

---------------------------------------------------------------------------
(* Properties *)

\* Importers and rows keep their types; an importer holds rows and articles
\* only inside its transaction.
KnowledgeTypeOK ==
  /\ release \in Releases
  /\ documents \in [Articles -> Rows \cup {NoRow}]
  /\ importer \in [Importers ->
       [pc : {"idle", "reading", "flushing", "retired", "done", "failed"},
        todo : SUBSET Articles, pending : Articles \cup {0},
        wrote : SUBSET Articles, retired : SUBSET Articles]]
  /\ \A i \in Importers : ~Importing(i) =>
       importer[i] = [Idle EXCEPT !.pc = importer[i].pc]

\* The active documents are the articles of release r, each with its text
\* and chunks of the release's model.
OfRelease(r) ==
  /\ Active = Listed(r)
  /\ \A a \in Active : Unchanged(r, a)

\* A search never sees part of an import or a mix of two: the active
\* documents are none, or exactly the articles of one sound release, whatever
\* importers run at once and wherever one of them stops.
KnowledgeOfRelease == Stored = {} \/ \E r \in Releases : Sound(r) /\ OfRelease(r)

\* "Changed checksum or embedding model: update metadata and replace chunks":
\* an import of a sound corpus that nobody else interferes with succeeds
\* when all it has to do is rewrite an article already active.
ChangedArticlesReplaced ==
  \A i \in Importers :
    /\ At(i, "failed")
    /\ Sound(release)
    => \E j \in Importers \ {i} : ~At(j, "idle")
=============================================================================
