--------------------------- MODULE DeploymentProofs ---------------------------
(***************************************************************************)
(* Proofs about Deployment for any releases, articles, importers and       *)
(* loaders, and a database of any earlier revision.                        *)
(***************************************************************************)
EXTENDS Deployment, WellFoundedInduction, TLAPS

---------------------------------------------------------------------------
(* What a step may do to the knowledge base                                *)

\* The importer that compose runs is a new container's.
ImporterReset ==
  /\ ~ Importing(Compose)
  /\ importer' = [importer EXCEPT ![Compose] = Idle]
  /\ UNCHANGED <<release, documents>>

\* The table is dropped while nobody imports.
DocumentsDropped ==
  /\ \A i \in Importers : ~ Importing(i)
  /\ documents' = [a \in Articles |-> NoRow]
  /\ UNCHANGED <<release, importer>>

KnowledgeStep ==
  \/ \E i \in Importers : ImportStart(i) \/ ImportStep(i) \/ ImportFail(i)
  \/ \E r \in Releases : CheckOut(r)
  \/ ImporterReset
  \/ DocumentsDropped
  \/ UNCHANGED knowledgeVars

LEMMA NothingRuns ==
  ASSUME \A service \in OneShots : ~ Running(service)
  PROVE  ~ Importing(Compose) /\ ~ Loading(Compose)
<1>1. /\ State("ingest") = importer[Compose].pc
      /\ State("operational-ingest") = loader[Compose].pc
  BY DEF State
<1>2. ~ Running("ingest") /\ ~ Running("operational-ingest")
  BY DEF OneShots
<1> QED BY <1>1, <1>2 DEF Running, Importing, Loading

LEMMA KnowledgeEffect ==
  ASSUME [Next]_vars
  PROVE  KnowledgeStep
<1>1. CASE UNCHANGED vars
  BY <1>1 DEF vars, KnowledgeStep
<1>2. CASE Proceed
  BY <1>2, DeploymentAssumption
     DEF Proceed, Migrate, Ingest, Load, EvaluationStart, EvaluateCase,
         EvaluationComplete, BackendStart, ComposeAbort, KnowledgeStep
<1>3. CASE \/ \E i \in Importers : IngestStep(i)
           \/ \E l \in Loaders : LoaderStep(l)
  BY <1>3 DEF IngestStep, LoaderStep, KnowledgeStep
<1>4. CASE Fails
  BY <1>4 DEF Fails, MigrateFails, IngestFails, LoaderFails, EvaluationFails,
              KnowledgeStep
<1>5. CASE ComposeUp \/ ComposeDown
  BY <1>5, NothingRuns
     DEF ComposeUp, ComposeDown, Containers, KnowledgeStep, ImporterReset
<1>6. CASE \/ \E i \in Importers \ {Compose} : Ingest(i)
           \/ \E l \in Loaders \ {Compose} : Load(l)
           \/ \E r \in Releases : NewRelease(r)
  BY <1>6 DEF Ingest, Load, NewRelease, KnowledgeStep
<1>7. CASE \E to \in 0..HeadRevision : Alembic(to)
  BY <1>7 DEF Alembic, Stopped, Quiet, KnowledgeStep, DocumentsDropped,
              knowledgeVars
<1> QED BY <1>1, <1>2, <1>3, <1>4, <1>5, <1>6, <1>7 DEF Next, Chosen

---------------------------------------------------------------------------
(* The knowledge import                                                    *)

\* What an importer has of its corpus: every article is still to be looked up
\* or written, written, or stored as it should be; what it has written nobody
\* else has; what it has retired is not in the corpus.
ImportInv(i) ==
  LET mine == importer[i] IN
  Importing(i) =>
    /\ Sound(release)
    /\ mine.todo \subseteq Listed(release)
    /\ mine.wrote \subseteq Listed(release)
    /\ mine.pc = "flushing" => mine.pending \in Listed(release)
    /\ mine.pc # "flushing" => mine.pending = 0
    /\ \A a \in Listed(release) :
         \/ a \in mine.todo \/ a = mine.pending \/ a \in mine.wrote
         \/ Unchanged(release, a)
    /\ \A a \in mine.wrote : documents[a] = NoRow
    /\ mine.retired \subseteq Stored \ Listed(release)
    /\ mine.pc = "retired" =>
         mine.todo = {} /\ Active \ Listed(release) \subseteq mine.retired

Apart ==
  \A i, j \in Importers :
    i # j => importer[i].wrote \cap importer[j].wrote = {}

ImporterType ==
  [pc : {"idle", "reading", "flushing", "retired", "done", "failed"},
   todo : SUBSET Articles, pending : Articles \cup {0},
   wrote : SUBSET Articles, retired : SUBSET Articles]

KInv ==
  /\ KnowledgeTypeOK
  /\ \A i \in Importers : ImportInv(i)
  /\ Apart
  /\ KnowledgeOfRelease

LEMMA Basics ==
  /\ Articles \subseteq Nat /\ 0 \notin Articles
  /\ NoRow \notin Rows /\ NoEntry \notin Entries
  /\ \A r \in Releases, a \in Articles : Corpus[r][a] \in Entries \cup {NoEntry}
  /\ \A r \in Releases : Embedder[r] \in Models
  /\ \A r \in Releases : \A a \in Listed(r) :
       a \in Articles /\ Corpus[r][a] \in Entries
BY KnowledgeAssumption DEF Rows, Listed

LEMMA LeastArticle ==
  ASSUME NEW T, T \subseteq Articles, T # {}
  PROVE  First(T) \in T
<1>1. T \subseteq Nat
  BY Basics
<1>2. PICK m \in T : \A n \in T : ~ (<<n, m>> \in OpToRel(<, Nat))
  BY <1>1, NatLessThanWellFounded, WFMin
<1>3. ASSUME NEW n \in T
      PROVE  m <= n
  <2>1. m \in Nat /\ n \in Nat
    BY <1>1
  <2>2. ~ (n < m)
    BY <1>2, <2>1 DEF OpToRel
  <2> QED BY <2>1, <2>2
<1> QED BY <1>3 DEF First

\* The row that an import writes is typed and as it should be.
LEMMA NewRowType ==
  ASSUME release \in Releases, NEW a \in Listed(release)
  PROVE  /\ NewRow(a) \in Rows
         /\ NewRow(a).sum = Corpus[release][a].sum
         /\ NewRow(a).model = Embedder[release]
         /\ NewRow(a).active
BY Basics DEF NewRow, Row, Rows, Entries

\* Once an importer has retired what the corpus does not have, every article of
\* the corpus is its own or stored as it should be.
LEMMA AllHandled ==
  ASSUME KInv, NEW i \in Importers, At(i, "retired")
  PROVE  /\ Sound(release)
         /\ \A a \in Listed(release) :
              a \in importer[i].wrote \/ Unchanged(release, a)
         /\ importer[i].wrote \subseteq Listed(release)
         /\ importer[i].retired \subseteq Stored \ Listed(release)
         /\ Active \ Listed(release) \subseteq importer[i].retired
<1>1. Importing(i) /\ importer[i].pc = "retired"
  BY DEF At, Importing
<1>2. importer[i].pending = 0 /\ importer[i].todo = {}
  BY <1>1 DEF KInv, ImportInv
<1>3. 0 \notin Listed(release)
  BY Basics DEF Listed
<1> QED BY <1>1, <1>2, <1>3 DEF KInv, ImportInv

\* What a commit leaves of each article.
LEMMA Committed ==
  ASSUME KInv, NEW i \in Importers, ImportCommit(i)
  PROVE  /\ documents' \in [Articles -> Rows \cup {NoRow}]
         /\ \A a \in importer[i].wrote :
              documents[a] = NoRow /\ documents'[a] = NewRow(a)
         /\ \A a \in Articles \ importer[i].wrote :
              /\ a \in importer[i].retired =>
                   documents'[a] = [documents[a] EXCEPT !.active = FALSE]
              /\ a \notin importer[i].retired => documents'[a] = documents[a]
         /\ release' = release
<1>1. /\ At(i, "retired")
      /\ release' = release
      /\ documents' = [a \in Articles |->
           IF a \in importer[i].wrote THEN NewRow(a)
           ELSE IF a \in importer[i].retired
                THEN [documents[a] EXCEPT !.active = FALSE]
                ELSE documents[a]]
  BY DEF ImportCommit
<1>2. /\ importer[i].wrote \subseteq Listed(release)
      /\ importer[i].retired \subseteq Stored \ Listed(release)
  BY <1>1, AllHandled
<1>3. \A a \in importer[i].wrote : documents[a] = NoRow
  BY <1>1 DEF KInv, ImportInv, Importing, At
<1>4. release \in Releases /\ documents \in [Articles -> Rows \cup {NoRow}]
  BY DEF KInv, KnowledgeTypeOK, ImporterType
<1>5. \A a \in importer[i].wrote : NewRow(a) \in Rows /\ a \in Articles
  BY <1>2, <1>4, NewRowType, Basics
<1>6. \A a \in importer[i].retired :
        [documents[a] EXCEPT !.active = FALSE] \in Rows
  <2> SUFFICES ASSUME NEW a \in importer[i].retired
               PROVE  [documents[a] EXCEPT !.active = FALSE] \in Rows
    OBVIOUS
  <2>1. documents[a] \in Rows
    BY <1>2, <1>4 DEF Stored
  <2> QED BY <2>1 DEF Rows
<1>7. documents' \in [Articles -> Rows \cup {NoRow}]
  BY <1>1, <1>4, <1>5, <1>6
<1> QED BY <1>1, <1>3, <1>5, <1>7

\* After a commit the active documents are those of the release.
LEMMA CommitOfRelease ==
  ASSUME KInv, NEW i \in Importers, ImportCommit(i)
  PROVE  /\ OfRelease(release)' /\ Sound(release)
         /\ \A a \in Listed(release) :
              Unchanged(release, a) => Unchanged(release, a)'
         /\ Active' = Listed(release)
<1>1. At(i, "retired")
  BY DEF ImportCommit
<1>2. release' = release /\ release \in Releases
  BY Committed DEF KInv, KnowledgeTypeOK, ImporterType
<1>3. ASSUME NEW a \in Listed(release)
      PROVE  /\ a \in Articles /\ Unchanged(release, a)'
             /\ documents'[a] # NoRow /\ documents'[a].active
  <2>1. a \in Articles /\ a \notin importer[i].retired
    BY <1>1, AllHandled, Basics DEF Listed
  <2>2. CASE a \in importer[i].wrote
    <3>1. documents'[a] = NewRow(a)
      BY <2>2, Committed
    <3>2. NewRow(a) # NoRow
      BY <1>2, NewRowType, Basics
    <3> QED BY <1>2, <2>1, <3>1, <3>2, NewRowType DEF Unchanged
  <2>3. CASE a \notin importer[i].wrote
    <3>1. Unchanged(release, a)
      BY <1>1, <2>3, AllHandled
    <3>2. documents'[a] = documents[a]
      BY <2>1, <2>3, Committed
    <3> QED BY <1>2, <2>1, <3>1, <3>2 DEF Unchanged
  <2> QED BY <2>2, <2>3
<1>4. ASSUME NEW a \in Active'
      PROVE  a \in Listed(release)
  <2> SUFFICES ASSUME a \notin Listed(release)
               PROVE  FALSE
    OBVIOUS
  <2>1. a \in Articles /\ documents'[a] # NoRow /\ documents'[a].active
    BY DEF Active, Stored
  <2>2. a \notin importer[i].wrote
    BY <1>1, AllHandled
  <2>3. CASE a \in importer[i].retired
    <3>1. documents'[a] = [documents[a] EXCEPT !.active = FALSE]
      BY <2>1, <2>2, <2>3, Committed
    <3>2. documents[a] \in Rows
      BY <1>1, <2>1, <2>3, AllHandled DEF Stored, KInv, KnowledgeTypeOK, ImporterType
    <3> QED BY <2>1, <3>1, <3>2 DEF Rows
  <2>4. CASE a \notin importer[i].retired
    <3>1. documents'[a] = documents[a]
      BY <2>1, <2>2, <2>4, Committed
    <3>2. a \in Active
      BY <2>1, <3>1 DEF Active, Stored
    <3> QED BY <1>1, <2>4, <3>2, AllHandled
  <2> QED BY <2>3, <2>4
<1>5. Active' = Listed(release)
  BY <1>3, <1>4 DEF Active, Stored
<1>6. Sound(release)
  BY <1>1, AllHandled
<1>7. OfRelease(release)'
  BY <1>2, <1>3, <1>5 DEF OfRelease
<1> QED BY <1>3, <1>5, <1>6, <1>7
---------------------------------------------------------------------------
(* Every knowledge step keeps the invariant                                *)

\* An importer that is not importing owes nothing, and has no rows.
LEMMA Resting ==
  ASSUME KInv, NEW i \in Importers, ~ Importing(i)
  PROVE  importer[i].wrote = {} /\ importer[i].retired = {}
<1>1. importer[i] = [Idle EXCEPT !.pc = importer[i].pc]
  BY DEF KInv, KnowledgeTypeOK, ImporterType
<1> QED BY <1>1 DEF Idle

\* How an importer may change when neither the documents nor the release do:
\* it keeps its type and what it has of the corpus, and has written nothing
\* that another one has.
OneMoves(i) ==
  /\ UNCHANGED <<release, documents>>
  /\ importer' \in [Importers -> ImporterType]
  /\ \A j \in Importers \ {i} : importer'[j] = importer[j]
  /\ ~ Importing(i)' => importer'[i] = [Idle EXCEPT !.pc = importer'[i].pc]
  /\ ImportInv(i)'
  /\ \A j \in Importers \ {i} : importer'[i].wrote \cap importer[j].wrote = {}

LEMMA OneMovesKeeps ==
  ASSUME KInv, NEW i \in Importers, OneMoves(i)
  PROVE  KInv'
<1>1. release' = release /\ documents' = documents
  BY DEF OneMoves
<1>2. ASSUME NEW j \in Importers
      PROVE  /\ ~ Importing(j)' =>
                  importer'[j] = [Idle EXCEPT !.pc = importer'[j].pc]
             /\ ImportInv(j)'
  <2>1. CASE j = i
    BY <2>1 DEF OneMoves
  <2>2. CASE j # i
    <3>1. importer'[j] = importer[j]
      BY <2>2 DEF OneMoves
    <3>2. ImportInv(j)'
      BY <1>1, <3>1
         DEF KInv, ImportInv, Importing, Unchanged, Sound, Listed, Stored, Active
    <3> QED BY <3>1, <3>2 DEF KInv, KnowledgeTypeOK, ImporterType, Importing
  <2> QED BY <2>1, <2>2
<1>3. KnowledgeTypeOK'
  BY <1>1, <1>2 DEF KInv, KnowledgeTypeOK, ImporterType, OneMoves
<1>4. Apart'
  <2> SUFFICES ASSUME NEW j \in Importers, NEW k \in Importers, j # k
               PROVE  importer'[j].wrote \cap importer'[k].wrote = {}
    BY DEF Apart
  <2>1. CASE j # i /\ k # i
    BY <2>1 DEF OneMoves, KInv, Apart
  <2>2. CASE j = i \/ k = i
    BY <2>2 DEF OneMoves
  <2> QED BY <2>1, <2>2
<1>5. KnowledgeOfRelease'
  BY <1>1 DEF KInv, KnowledgeOfRelease, OfRelease, Stored, Active, Unchanged,
              Sound, Listed
<1> QED BY <1>2, <1>3, <1>4, <1>5 DEF KInv

\* To end is to owe nothing.
LEMMA EndKeeps ==
  ASSUME KInv, NEW i \in Importers, NEW pc \in {"done", "failed"},
         UNCHANGED <<release, documents>>,
         importer' = [importer EXCEPT ![i] = Ended(i, pc)]
  PROVE  KInv'
<1>1. /\ importer'[i] = Ended(i, pc)
      /\ \A j \in Importers \ {i} : importer'[j] = importer[j]
  BY DEF KInv, KnowledgeTypeOK, ImporterType
<1>2. /\ Ended(i, pc).pc \in {"idle", "done", "failed"}
      /\ Ended(i, pc) = [Idle EXCEPT !.pc = Ended(i, pc).pc]
      /\ Ended(i, pc).wrote = {}
      /\ Ended(i, pc) \in ImporterType
  BY DEF Ended, Idle, ImporterType
<1>3. ~ Importing(i)'
  BY <1>1, <1>2 DEF Importing
<1>4. ImportInv(i)'
  BY <1>3 DEF ImportInv
<1>5. OneMoves(i)
  BY <1>1, <1>2, <1>3, <1>4 DEF OneMoves, KInv, KnowledgeTypeOK, ImporterType
<1> QED BY <1>5, OneMovesKeeps

LEMMA StartKeeps ==
  ASSUME KInv, NEW i \in Importers, ImportStart(i)
  PROVE  KInv'
<1>1. CASE ~ Sound(release)
  BY <1>1, EndKeeps DEF ImportStart
<1>2. CASE Sound(release)
  <2>1. /\ importer'[i] = [Idle EXCEPT !.pc = "reading", !.todo = Listed(release)]
        /\ UNCHANGED <<release, documents>>
        /\ \A j \in Importers \ {i} : importer'[j] = importer[j]
        /\ importer' = [importer EXCEPT ![i] =
             [Idle EXCEPT !.pc = "reading", !.todo = Listed(release)]]
    BY <1>2 DEF ImportStart, KInv, KnowledgeTypeOK, ImporterType
  <2>2. /\ importer'[i].pc = "reading" /\ importer'[i].todo = Listed(release)
        /\ importer'[i].pending = 0
        /\ importer'[i].wrote = {} /\ importer'[i].retired = {}
    BY <2>1 DEF Idle
  <2>3. ImportInv(i)'
    BY <1>2, <2>1, <2>2 DEF ImportInv, Sound, Listed
  <2>4. [Idle EXCEPT !.pc = "reading", !.todo = Listed(release)] \in ImporterType
    BY DEF Idle, Listed, ImporterType
  <2>5. OneMoves(i)
    BY <2>1, <2>2, <2>3, <2>4 DEF OneMoves, KInv, KnowledgeTypeOK, ImporterType, Importing
  <2> QED BY <2>5, OneMovesKeeps
<1> QED BY <1>1, <1>2

LEMMA LookKeeps ==
  ASSUME KInv, NEW i \in Importers, Look(i)
  PROVE  KInv'
<1> DEFINE mine == importer[i]
           a == First(mine.todo)
<1>1. /\ mine.pc = "reading" /\ mine.todo # {} /\ Importing(i)
      /\ UNCHANGED <<release, documents>>
  BY DEF Look, At, Importing
<1>2. mine.todo \subseteq Listed(release) /\ mine.todo \subseteq Articles
  BY <1>1 DEF KInv, ImportInv, Listed
<1>3. a \in mine.todo
  BY <1>1, <1>2, LeastArticle
<1>4. /\ importer'[i].todo = mine.todo \ {a}
      /\ importer'[i].pc = IF Unchanged(release, a) THEN "reading" ELSE "flushing"
      /\ importer'[i].pending = IF Unchanged(release, a) THEN 0 ELSE a
      /\ importer'[i].wrote = mine.wrote /\ importer'[i].retired = mine.retired
      /\ \A j \in Importers \ {i} : importer'[j] = importer[j]
      /\ importer' \in [Importers -> ImporterType]
  <2> DEFINE pc == IF Unchanged(release, a) THEN "reading" ELSE "flushing"
             pending == IF Unchanged(release, a) THEN 0 ELSE a
             left == mine.todo \ {a}
  <2>1. importer' = [importer EXCEPT ![i].todo = left, ![i].pc = pc,
                                     ![i].pending = pending]
    BY DEF Look
  <2>2. /\ pc \in {"reading", "flushing"}
        /\ pending \in Articles \cup {0}
        /\ left \in SUBSET Articles
    BY <1>2, <1>3
  <2> HIDE DEF pc, pending, left
  <2>3. /\ importer'[i].todo = left
        /\ importer'[i].pc = pc
        /\ importer'[i].pending = pending
        /\ importer'[i].wrote = mine.wrote
        /\ importer'[i].retired = mine.retired
        /\ \A j \in Importers \ {i} : importer'[j] = importer[j]
    BY <2>1 DEF KInv, KnowledgeTypeOK
  <2>4. importer' \in [Importers -> ImporterType]
    <3>1. importer \in [Importers -> ImporterType]
      BY DEF KInv, KnowledgeTypeOK, ImporterType
    <3> DEFINE first == [importer EXCEPT ![i].todo = left, ![i].pc = pc]
    <3>2. first \in [Importers -> ImporterType]
      BY <2>2, <3>1 DEF ImporterType
    <3>3. importer' = [first EXCEPT ![i].pending = pending]
      BY <2>1
    <3> HIDE DEF first
    <3> QED BY <2>2, <3>2, <3>3 DEF ImporterType
  <2> QED BY <2>3, <2>4 DEF pc, pending, left
<1> HIDE DEF a
<1>5. ImportInv(i)'
  <2>1. \A b \in Listed(release) : Unchanged(release, b)' <=> Unchanged(release, b)
    BY <1>1 DEF Unchanged
  <2>2. /\ Sound(release) /\ mine.wrote \subseteq Listed(release)
        /\ mine.pending = 0
        /\ \A b \in Listed(release) :
             \/ b \in mine.todo \/ b = mine.pending
             \/ b \in mine.wrote \/ Unchanged(release, b)
        /\ \A b \in mine.wrote : documents[b] = NoRow
        /\ mine.retired \subseteq Stored \ Listed(release)
    BY <1>1 DEF KInv, ImportInv
  <2>3. 0 \notin Listed(release)
    BY Basics DEF Listed
  <2>4. \A b \in Listed(release) :
          \/ b \in importer'[i].todo \/ b = importer'[i].pending
          \/ b \in importer'[i].wrote \/ Unchanged(release, b)
    BY <1>3, <1>4, <2>2, <2>3
  <2>5. /\ Listed(release)' = Listed(release) /\ Stored' = Stored
        /\ Sound(release)' <=> Sound(release)
    BY <1>1 DEF Listed, Stored, Sound
  <2> QED BY <1>1, <1>2, <1>3, <1>4, <2>1, <2>2, <2>4, <2>5 DEF ImportInv
<1>6. OneMoves(i)
  BY <1>1, <1>4, <1>5 DEF OneMoves, KInv,
         KnowledgeTypeOK, ImporterType, Importing, Apart
<1> QED BY <1>6, OneMovesKeeps

LEMMA InsertKeeps ==
  ASSUME KInv, NEW i \in Importers, Insert(i)
  PROVE  KInv'
<1> DEFINE mine == importer[i]
           a == mine.pending
<1>1. /\ mine.pc = "flushing" /\ Importing(i)
      /\ ~ Held(i, a) /\ ~ Taken(a)
      /\ UNCHANGED <<release, documents>>
  BY DEF Insert, At, Importing
<1>2. a \in Listed(release) /\ a \in Articles /\ a # 0
  BY <1>1, Basics DEF KInv, ImportInv, Listed
<1>3. /\ importer'[i].todo = mine.todo
      /\ importer'[i].pc = "reading"
      /\ importer'[i].pending = 0
      /\ importer'[i].wrote = mine.wrote \cup {a}
      /\ importer'[i].retired = mine.retired
      /\ \A j \in Importers \ {i} : importer'[j] = importer[j]
      /\ importer' \in [Importers -> ImporterType]
  BY <1>2 DEF Insert, KInv, KnowledgeTypeOK, ImporterType
<1>4. documents[a] = NoRow
  BY <1>1, <1>2 DEF Taken, Stored
<1>5. \A j \in Importers \ {i} : a \notin importer[j].wrote
  BY <1>1 DEF Held
<1>6. ImportInv(i)'
  <2>1. \A b \in Listed(release) : Unchanged(release, b)' <=> Unchanged(release, b)
    BY <1>1 DEF Unchanged
  <2>2. /\ Sound(release) /\ mine.wrote \subseteq Listed(release)
        /\ mine.todo \subseteq Listed(release)
        /\ \A b \in Listed(release) :
             \/ b \in mine.todo \/ b = a
             \/ b \in mine.wrote \/ Unchanged(release, b)
        /\ \A b \in mine.wrote : documents[b] = NoRow
        /\ mine.retired \subseteq Stored \ Listed(release)
    BY <1>1 DEF KInv, ImportInv
  <2>3. /\ Listed(release)' = Listed(release) /\ Stored' = Stored
        /\ Sound(release)' <=> Sound(release)
    BY <1>1 DEF Listed, Stored, Sound
  <2> QED BY <1>1, <1>2, <1>3, <1>4, <2>1, <2>2, <2>3 DEF ImportInv
<1>7. OneMoves(i)
  BY <1>1, <1>3, <1>5, <1>6 DEF OneMoves, KInv,
         KnowledgeTypeOK, ImporterType, Importing, Apart
<1> QED BY <1>7, OneMovesKeeps

LEMMA RetireKeeps ==
  ASSUME KInv, NEW i \in Importers, Retire(i)
  PROVE  KInv'
<1> DEFINE mine == importer[i]
           absent == Active \ Listed(release)
<1>1. /\ mine.pc = "reading" /\ mine.todo = {} /\ Importing(i)
      /\ UNCHANGED <<release, documents>>
  BY DEF Retire, At, Importing
<1>2. absent \subseteq Articles
  BY DEF Active, Stored
<1>3. /\ importer'[i].todo = mine.todo
      /\ importer'[i].pc = "retired"
      /\ importer'[i].pending = mine.pending
      /\ importer'[i].wrote = mine.wrote
      /\ importer'[i].retired = absent
      /\ \A j \in Importers \ {i} : importer'[j] = importer[j]
      /\ importer' \in [Importers -> ImporterType]
  <2> DEFINE gone == absent
  <2>1. importer' = [importer EXCEPT ![i].pc = "retired", ![i].retired = gone]
    BY DEF Retire
  <2>2. gone \in SUBSET Articles
    BY <1>2
  <2> HIDE DEF gone
  <2>3. /\ importer'[i].todo = mine.todo
        /\ importer'[i].pc = "retired"
        /\ importer'[i].pending = mine.pending
        /\ importer'[i].wrote = mine.wrote
        /\ importer'[i].retired = gone
        /\ \A j \in Importers \ {i} : importer'[j] = importer[j]
    BY <2>1 DEF KInv, KnowledgeTypeOK
  <2>4. importer' \in [Importers -> ImporterType]
    <3>1. importer \in [Importers -> ImporterType]
      BY DEF KInv, KnowledgeTypeOK, ImporterType
    <3> QED BY <2>1, <2>2, <3>1 DEF ImporterType
  <2> QED BY <2>3, <2>4 DEF gone
<1>4. ImportInv(i)'
  <2>1. \A b \in Listed(release) : Unchanged(release, b)' <=> Unchanged(release, b)
    BY <1>1 DEF Unchanged
  <2>2. /\ Sound(release) /\ mine.wrote \subseteq Listed(release)
        /\ mine.pending = 0
        /\ \A b \in Listed(release) :
             \/ b \in mine.todo \/ b = mine.pending
             \/ b \in mine.wrote \/ Unchanged(release, b)
        /\ \A b \in mine.wrote : documents[b] = NoRow
    BY <1>1 DEF KInv, ImportInv
  <2>3. /\ Listed(release)' = Listed(release) /\ Stored' = Stored
        /\ Active' = Active /\ Active \subseteq Stored
        /\ Sound(release)' <=> Sound(release)
    BY <1>1 DEF Listed, Stored, Sound, Active
  <2> QED BY <1>1, <1>3, <2>1, <2>2, <2>3 DEF ImportInv
<1>5. OneMoves(i)
  BY <1>1, <1>3, <1>4 DEF OneMoves, KInv,
         KnowledgeTypeOK, ImporterType, Importing, Apart
<1> QED BY <1>5, OneMovesKeeps

\* A commit leaves the other importers what they had: what they have written
\* is not in it, what they found unchanged is still, and nothing active is left
\* for them to retire.
LEMMA CommitKeeps ==
  ASSUME KInv, NEW i \in Importers, ImportCommit(i)
  PROVE  KInv'
<1>1. /\ At(i, "retired") /\ release' = release
      /\ importer'[i] = Ended(i, "done")
      /\ \A j \in Importers \ {i} : importer'[j] = importer[j]
      /\ importer' = [importer EXCEPT ![i] = Ended(i, "done")]
  BY DEF ImportCommit, KInv, KnowledgeTypeOK, ImporterType
<1>2. /\ Ended(i, "done").pc \in {"idle", "done"}
      /\ Ended(i, "done") = [Idle EXCEPT !.pc = Ended(i, "done").pc]
      /\ Ended(i, "done").wrote = {}
      /\ Ended(i, "done") \in ImporterType
  BY DEF Ended, Idle, ImporterType
<1>3. KnowledgeTypeOK'
  <2>1. documents' \in [Articles -> Rows \cup {NoRow}]
    BY Committed
  <2>2. importer' \in [Importers -> ImporterType]
    BY <1>1, <1>2 DEF KInv, KnowledgeTypeOK, ImporterType
  <2>3. ASSUME NEW j \in Importers, ~ Importing(j)'
        PROVE  importer'[j] = [Idle EXCEPT !.pc = importer'[j].pc]
    <3>1. CASE j = i
      BY <1>1, <1>2, <3>1
    <3>2. CASE j # i
      BY <1>1, <2>3, <3>2 DEF KInv, KnowledgeTypeOK, ImporterType, Importing
    <3> QED BY <3>1, <3>2
  <2> QED BY <1>1, <2>1, <2>2, <2>3 DEF KInv, KnowledgeTypeOK, ImporterType
<1>4. ASSUME NEW j \in Importers
      PROVE  ImportInv(j)'
  <2>1. CASE j = i
    BY <1>1, <1>2, <2>1 DEF ImportInv, Importing
  <2>2. CASE j # i
    <3> SUFFICES ASSUME Importing(j)
                 PROVE  ImportInv(j)'
      BY <1>1, <2>2 DEF ImportInv, Importing
    <3>1. ImportInv(j)
      BY DEF KInv
    <3>2. importer'[j] = importer[j]
      BY <1>1, <2>2
    <3>3. /\ importer[j].wrote \subseteq Listed(release)
          /\ \A a \in importer[j].wrote : documents[a] = NoRow
      BY <3>1 DEF ImportInv
    <3>4. ASSUME NEW a \in importer[j].wrote
          PROVE  documents'[a] = NoRow
      <4>1. a \in Articles /\ a \in Listed(release) /\ documents[a] = NoRow
        BY <3>3 DEF Listed
      <4>2. a \notin importer[i].wrote
        BY <2>2 DEF KInv, Apart
      <4>3. a \notin importer[i].retired
        BY <1>1, <4>1, AllHandled
      <4> QED BY <4>1, <4>2, <4>3, Committed
    <3>5. \A a \in Listed(release) :
            Unchanged(release, a) => Unchanged(release, a)'
      BY CommitOfRelease
    <3>6. Stored \subseteq Stored'
      <4> SUFFICES ASSUME NEW a \in Stored
                   PROVE  documents'[a] # NoRow
        BY DEF Stored
      <4>1. a \in Articles /\ documents[a] # NoRow
        BY DEF Stored
      <4>2. a \notin importer[i].wrote
        BY <4>1, Committed
      <4>3. CASE a \in importer[i].retired
        <5>1. documents'[a] = [documents[a] EXCEPT !.active = FALSE]
          BY <4>1, <4>2, <4>3, Committed
        <5>2. documents[a] \in Rows
          BY <4>1 DEF KInv, KnowledgeTypeOK, ImporterType
        <5>3. [documents[a] EXCEPT !.active = FALSE] \in Rows
          BY <5>2 DEF Rows
        <5> QED BY <5>1, <5>3, Basics
      <4>4. CASE a \notin importer[i].retired
        BY <4>1, <4>2, <4>4, Committed
      <4> QED BY <4>3, <4>4
    <3>7. Active' = Listed(release)
      BY CommitOfRelease
    <3>8. Listed(release)' = Listed(release) /\ (Sound(release)' <=> Sound(release))
      BY <1>1 DEF Listed, Sound
    <3>9. release' = release
      BY <1>1
    <3> QED BY <3>1, <3>2, <3>3, <3>4, <3>5, <3>6, <3>7, <3>8, <3>9
            DEF ImportInv, Importing
  <2> QED BY <2>1, <2>2
<1>5. Apart'
  BY <1>1, <1>2 DEF KInv, Apart
<1>6. KnowledgeOfRelease'
  <2>1. release \in Releases
    BY DEF KInv, KnowledgeTypeOK, ImporterType
  <2>2. OfRelease(release)' /\ Sound(release)
    BY CommitOfRelease
  <2>3. Sound(release)'
    BY <1>1, <2>2 DEF Sound, Listed
  <2> QED BY <1>1, <2>1, <2>2, <2>3 DEF KnowledgeOfRelease
<1> QED BY <1>3, <1>4, <1>5, <1>6 DEF KInv
\* Nobody imports: every importer keeps a state without a transaction.
LEMMA AllRestKeeps ==
  ASSUME KInv, KnowledgeTypeOK', \A i \in Importers : ~ Importing(i)',
         KnowledgeOfRelease'
  PROVE  KInv'
<1>1. \A i \in Importers : ImportInv(i)'
  BY DEF ImportInv
<1>2. \A i \in Importers : importer'[i].wrote = {}
  <2> SUFFICES ASSUME NEW i \in Importers
               PROVE  importer'[i].wrote = {}
    OBVIOUS
  <2>1. importer'[i] = [Idle EXCEPT !.pc = importer'[i].pc]
    BY DEF KnowledgeTypeOK
  <2> QED BY <2>1 DEF Idle
<1>3. Apart'
  BY <1>2 DEF Apart
<1> QED BY <1>1, <1>3 DEF KInv

LEMMA KnowledgeKept ==
  ASSUME KInv, KnowledgeStep
  PROVE  KInv'
<1> DEFINE idle == [Idle EXCEPT !.pc = "idle"]
<1>0. Idle \in ImporterType /\ Idle.pc = "idle" /\ Idle = idle
  BY DEF Idle, ImporterType
<1>1. CASE \E i \in Importers : ImportStart(i)
  BY <1>1, StartKeeps
<1>2. CASE \E i \in Importers : ImportStep(i)
  BY <1>2, LookKeeps, InsertKeeps, RetireKeeps, CommitKeeps, EndKeeps
     DEF ImportStep, Conflict
<1>3. CASE \E i \in Importers : ImportFail(i)
  BY <1>3, EndKeeps DEF ImportFail
<1>4. CASE \E r \in Releases : CheckOut(r)
  <2>1. PICK r \in Releases : CheckOut(r)
    BY <1>4
  <2>2. /\ release' \in Releases /\ documents' = documents
        /\ importer' = [i \in Importers |-> Idle]
    BY <2>1 DEF CheckOut
  <2>3. KnowledgeTypeOK'
    BY <1>0, <2>2 DEF KInv, KnowledgeTypeOK, ImporterType
  <2>4. \A i \in Importers : ~ Importing(i)'
    BY <1>0, <2>2 DEF Importing
  <2>5. KnowledgeOfRelease'
    BY <2>2 DEF KInv, KnowledgeOfRelease, OfRelease, Stored, Active, Unchanged,
                Sound, Listed
  <2> QED BY <2>3, <2>4, <2>5, AllRestKeeps
<1>5. CASE ImporterReset
  <2>1. /\ importer' = [importer EXCEPT ![Compose] = Idle]
        /\ UNCHANGED <<release, documents>>
    BY <1>5 DEF ImporterReset
  <2>2. Compose \in Importers
    BY DeploymentAssumption
  <2>3. /\ importer'[Compose] = Idle
        /\ \A j \in Importers \ {Compose} : importer'[j] = importer[j]
        /\ importer' \in [Importers -> ImporterType]
    BY <1>0, <2>1, <2>2 DEF KInv, KnowledgeTypeOK, ImporterType
  <2>4. ~ Importing(Compose)' /\ importer'[Compose].wrote = {}
    BY <1>0, <2>3 DEF Importing, Idle
  <2>5. ImportInv(Compose)'
    BY <2>4 DEF ImportInv
  <2>6. OneMoves(Compose)
    BY <1>0, <2>1, <2>3, <2>4, <2>5 DEF OneMoves, ImporterType
  <2> QED BY <2>2, <2>6, OneMovesKeeps
<1>6. CASE DocumentsDropped
  <2>1. /\ documents' = [a \in Articles |-> NoRow]
        /\ UNCHANGED <<release, importer>>
        /\ \A i \in Importers : ~ Importing(i)
    BY <1>6 DEF DocumentsDropped
  <2>2. KnowledgeTypeOK'
    BY <2>1 DEF KInv, KnowledgeTypeOK, Importing
  <2>3. \A i \in Importers : ~ Importing(i)'
    BY <2>1 DEF Importing
  <2>4. KnowledgeOfRelease'
    BY <2>1 DEF KnowledgeOfRelease, Stored
  <2> QED BY <2>2, <2>3, <2>4, AllRestKeeps
<1>7. CASE UNCHANGED knowledgeVars
  BY <1>7 DEF knowledgeVars, KInv, KnowledgeTypeOK, ImportInv, Apart,
     KnowledgeOfRelease, OfRelease, Stored, Active, Unchanged, Sound, Listed,
     Importing
<1> QED BY <1>1, <1>2, <1>3, <1>4, <1>5, <1>6, <1>7 DEF KnowledgeStep

LEMMA KnowledgeBegins ==
  ASSUME KnowledgeInit
  PROVE  KInv
<1>1. /\ release \in Releases
      /\ documents = [a \in Articles |-> NoRow]
      /\ importer = [i \in Importers |-> Idle]
  BY DEF KnowledgeInit
<1>2. Idle.pc = "idle" /\ Idle = [Idle EXCEPT !.pc = "idle"] /\ Idle.wrote = {}
      /\ Idle \in ImporterType
  BY DEF Idle, ImporterType
<1>3. KnowledgeTypeOK
  BY <1>1, <1>2 DEF KnowledgeTypeOK, ImporterType
<1>4. \A i \in Importers : ImportInv(i)
  BY <1>1, <1>2 DEF ImportInv, Importing
<1>5. Apart
  BY <1>1, <1>2 DEF Apart
<1>6. KnowledgeOfRelease
  BY <1>1 DEF KnowledgeOfRelease, Stored
<1> QED BY <1>3, <1>4, <1>5, <1>6 DEF KInv

\* A search never sees part of a knowledge import or a mix of two: the active
\* documents are none, or exactly the articles of one sound release, however
\* many importers run at once, wherever one of them stops, and whatever
\* compose and alembic do meanwhile.
THEOREM KnowledgeWhole == Spec => []KnowledgeOfRelease
<1>1. Init => KInv
  BY KnowledgeBegins DEF Init
<1>2. KInv /\ [Next]_vars => KInv'
  BY KnowledgeEffect, KnowledgeKept
<1>3. KInv => KnowledgeOfRelease
  BY DEF KInv
<1> QED BY <1>1, <1>2, <1>3, PTL DEF Spec
---------------------------------------------------------------------------
(* The operational import                                                  *)

\* The loader that compose runs is a new container's.
LoaderReset ==
  /\ ~ Loading(Compose)
  /\ loader' = [loader EXCEPT ![Compose] = NotLoading]
  /\ UNCHANGED <<release, imports>>

\* The release changes, or the table is dropped, while nobody loads.
DataMoved ==
  /\ \A l \in Loaders : ~ Loading(l)
  /\ imports' \in {imports, {}}
  /\ UNCHANGED loader

DatasetStep ==
  \/ /\ UNCHANGED release
     /\ \E l \in Loaders : LoadStart(l, release) \/ LoadStep(l) \/ LoadFail(l)
  \/ LoaderReset
  \/ DataMoved
  \/ UNCHANGED <<release, imports, loader>>

LEMMA DatasetEffect ==
  ASSUME [Next]_vars
  PROVE  DatasetStep
<1>1. CASE UNCHANGED vars
  BY <1>1 DEF vars, knowledgeVars, datasetVars, DatasetStep
<1>2. CASE Proceed
  BY <1>2, DeploymentAssumption
     DEF Proceed, Migrate, Ingest, ImportStart, Load, EvaluationStart,
         EvaluateCase, EvaluationComplete, BackendStart, ComposeAbort,
         knowledgeVars, datasetVars, DatasetStep
<1>3. CASE \E i \in Importers : IngestStep(i)
  BY <1>3 DEF IngestStep, ImportStep, Look, Insert, Conflict, Retire,
              ImportCommit, datasetVars, DatasetStep
<1>4. CASE \E l \in Loaders : LoaderStep(l)
  BY <1>4 DEF LoaderStep, knowledgeVars, DatasetStep
<1>5. CASE Fails
  BY <1>5 DEF Fails, MigrateFails, IngestFails, ImportFail, LoaderFails,
              EvaluationFails, knowledgeVars, datasetVars, DatasetStep
<1>6. CASE ComposeUp \/ ComposeDown
  BY <1>6, NothingRuns
     DEF ComposeUp, ComposeDown, Containers, DatasetStep, LoaderReset
<1>7. CASE \/ \E i \in Importers \ {Compose} : Ingest(i)
           \/ \E l \in Loaders \ {Compose} : Load(l)
  BY <1>7 DEF Ingest, ImportStart, Load, knowledgeVars, datasetVars, DatasetStep
<1>8. CASE \E r \in Releases : NewRelease(r)
  BY <1>8 DEF NewRelease, Quiet, datasetVars, DatasetStep, DataMoved
<1>9. CASE \E to \in 0..HeadRevision : Alembic(to)
  BY <1>9 DEF Alembic, Stopped, Quiet, DatasetStep, DataMoved
<1> QED BY <1>1, <1>2, <1>3, <1>4, <1>5, <1>6, <1>7, <1>8, <1>9 DEF Next, Chosen

LoaderType ==
  [pc : {"idle", "checked", "writing", "done", "failed"},
   bundle : Bundles \cup {NoBundle}, existed : BOOLEAN, kept : {{}}]

\* A loader inside its transaction loads the valid corpus of the working tree,
\* and any other loads none.
DatasetInv ==
  /\ loader \in [Loaders -> LoaderType]
  /\ \A l \in Loaders : Loading(l) =>
       loader[l].bundle = release /\ release \in Valid
  /\ \A l \in Loaders : ~ Loading(l) => loader[l].bundle = NoBundle
  /\ DatasetWhole

LEMMA LoaderEnds ==
  ASSUME DatasetInv, NEW l \in Loaders, NEW pc \in {"done", "failed"},
         End(l, pc)
  PROVE  /\ loader' \in [Loaders -> LoaderType]
         /\ ~ Loading(l)' /\ loader'[l].bundle = NoBundle
         /\ \A m \in Loaders \ {l} : loader'[m] = loader[m]
         /\ loader'[l].pc \in {"idle", pc}
<1> DEFINE end == [NotLoading EXCEPT !.pc = IF l \in Awaited THEN pc ELSE "idle"]
<1>1. /\ end \in LoaderType /\ end.pc \in {"idle", pc}
      /\ end.pc \notin {"checked", "writing"} /\ end.bundle = NoBundle
  BY DEF NotLoading, LoaderType
<1>2. loader' = [loader EXCEPT ![l] = end]
  BY DEF End
<1> HIDE DEF end
<1>3. loader'[l] = end /\ loader' \in [Loaders -> LoaderType]
      /\ \A m \in Loaders \ {l} : loader'[m] = loader[m]
  BY <1>1, <1>2 DEF DatasetInv
<1> QED BY <1>1, <1>3 DEF Loading

\* A commit leaves the rows of the release's corpus, and of no other one under
\* its version.
LEMMA LoadCommitted ==
  ASSUME DatasetInv, NEW l \in Loaders, LoadCommit(l), release' = release
  PROVE  DatasetWhole' /\ Whole(release)' /\ release \in Valid
<1> DEFINE b == Bundle[release]
           new == Import(b.version, b.sum, {b.sum})
<1>1. loader[l].bundle = release /\ release \in Valid /\ loader[l].kept = {}
  BY DEF DatasetInv, LoadCommit, LoaderAt, Loading, LoaderType
<1>2. imports' = (imports \ ImportsOf(b.version)) \cup {new}
  BY <1>1 DEF LoadCommit
<1>3. new.version = b.version /\ new.sum = b.sum /\ new.rows = {b.sum}
  BY DEF Import
<1>4. \A x \in imports' : x = new \/ (x \in imports /\ x.version # b.version)
  BY <1>2 DEF ImportsOf
<1> HIDE DEF new, b
<1>5. ASSUME NEW x \in imports', NEW y \in imports', x.version = y.version
      PROVE  x = y
  BY <1>3, <1>4, <1>5 DEF DatasetInv, DatasetWhole
<1>6. ASSUME NEW x \in imports'
      PROVE  /\ x.rows = {x.sum}
             /\ \E v \in Valid : /\ Bundle[v].version = x.version
                                /\ Bundle[v].sum = x.sum
  <2>1. CASE x = new
    BY <1>1, <1>3, <2>1 DEF b
  <2>2. CASE x \in imports
    BY <2>2 DEF DatasetInv, DatasetWhole
  <2> QED BY <1>4, <2>1, <2>2
<1>7. new \in imports'
  BY <1>2
<1>8. Whole(release)'
  BY <1>7 DEF Whole, new, b
<1> QED BY <1>1, <1>5, <1>6, <1>8 DEF DatasetWhole

LEMMA DatasetKept ==
  ASSUME DatasetInv, DatasetStep
  PROVE  DatasetInv'
<1>1. ASSUME release' = release, NEW l \in Loaders, NEW pc \in {"done", "failed"},
             End(l, pc), DatasetWhole'
      PROVE  DatasetInv'
  BY <1>1, LoaderEnds DEF DatasetInv, Loading
<1>2. ASSUME UNCHANGED imports
      PROVE  DatasetWhole'
  BY <1>2 DEF DatasetInv, DatasetWhole
<1>3. ASSUME release' = release, NEW l \in Loaders, LoadStart(l, release)
      PROVE  DatasetInv'
  <2>1. DatasetWhole'
    BY <1>2, <1>3 DEF LoadStart
  <2>2. CASE release \notin Valid \/ Whole(release)
    BY <1>1, <1>3, <2>1, <2>2 DEF LoadStart
  <2>3. CASE release \in Valid /\ ~ Whole(release)
    <3> DEFINE begun == [pc |-> "checked", bundle |-> release, kept |-> {},
                         existed |-> Imported(Bundle[release].version)]
    <3>1. /\ begun \in LoaderType /\ begun.bundle = release
          /\ begun.pc = "checked"
      BY <2>3 DEF LoaderType, Imported, Valid
    <3>2. loader' = [loader EXCEPT ![l] = begun]
      BY <1>3, <2>3 DEF LoadStart
    <3> HIDE DEF begun
    <3>3. /\ loader'[l] = begun /\ loader' \in [Loaders -> LoaderType]
          /\ \A m \in Loaders \ {l} : loader'[m] = loader[m]
      BY <3>1, <3>2 DEF DatasetInv
    <3>4. \A m \in Loaders : /\ Loading(m)' => loader'[m].bundle = release
                             /\ ~ Loading(m)' => loader'[m].bundle = NoBundle
      BY <3>1, <3>3 DEF DatasetInv, Loading
    <3> QED BY <1>3, <2>1, <2>3, <3>3, <3>4 DEF DatasetInv
  <2> QED BY <2>2, <2>3
<1>4. ASSUME release' = release, NEW l \in Loaders, LoadWrite(l)
      PROVE  DatasetInv'
  <2>1. DatasetWhole'
    BY <1>2, <1>4 DEF LoadWrite
  <2>2. CASE loader' = [loader EXCEPT ![l].pc = "writing"]
    <3>1. LoaderAt(l, "checked")
      BY <1>4 DEF LoadWrite
    <3>2. /\ loader'[l].pc = "writing" /\ loader'[l].bundle = loader[l].bundle
          /\ \A m \in Loaders \ {l} : loader'[m] = loader[m]
      BY <2>2 DEF DatasetInv, LoaderType
    <3>3. loader' \in [Loaders -> LoaderType]
      BY <2>2 DEF DatasetInv, LoaderType
    <3> QED BY <1>4, <2>1, <3>1, <3>2, <3>3 DEF DatasetInv, Loading, LoaderAt
  <2>3. CASE End(l, "failed")
    BY <1>1, <1>4, <2>1, <2>3
  <2> QED BY <1>4, <2>2, <2>3 DEF LoadWrite
<1>5. ASSUME release' = release, NEW l \in Loaders, LoadCommit(l)
      PROVE  DatasetInv'
  <2>1. End(l, "done")
    BY <1>5 DEF LoadCommit
  <2> QED BY <1>1, <1>5, <2>1, LoadCommitted
<1>6. ASSUME release' = release, NEW l \in Loaders, LoadFail(l)
      PROVE  DatasetInv'
  <2>1. End(l, "failed") /\ UNCHANGED imports
    BY <1>6 DEF LoadFail
  <2> QED BY <1>1, <1>2, <1>6, <2>1
<1>7. CASE LoaderReset
  <2>1. /\ NotLoading \in LoaderType /\ NotLoading.pc = "idle"
        /\ NotLoading.bundle = NoBundle
    BY DEF NotLoading, LoaderType
  <2>2. /\ loader' = [loader EXCEPT ![Compose] = NotLoading]
        /\ UNCHANGED <<release, imports>>
        /\ Compose \in Loaders
    BY <1>7, DeploymentAssumption DEF LoaderReset
  <2>3. /\ loader'[Compose] = NotLoading /\ loader' \in [Loaders -> LoaderType]
        /\ \A m \in Loaders \ {Compose} : loader'[m] = loader[m]
    BY <2>1, <2>2 DEF DatasetInv
  <2> QED BY <1>2, <2>1, <2>2, <2>3 DEF DatasetInv, Loading
<1>8. CASE DataMoved
  BY <1>8 DEF DataMoved, DatasetInv, DatasetWhole, Loading
<1>9. CASE UNCHANGED <<release, imports, loader>>
  BY <1>9 DEF DatasetInv, DatasetWhole, Loading
<1> QED BY <1>3, <1>4, <1>5, <1>6, <1>7, <1>8, <1>9 DEF DatasetStep, LoadStep

LEMMA DatasetBegins ==
  ASSUME DatasetInit
  PROVE  DatasetInv
<1>1. imports = {} /\ loader = [l \in Loaders |-> NotLoading]
  BY DEF DatasetInit
<1>2. /\ NotLoading \in LoaderType /\ NotLoading.pc = "idle"
      /\ NotLoading.bundle = NoBundle
  BY DEF NotLoading, LoaderType
<1> QED BY <1>1, <1>2 DEF DatasetInv, DatasetWhole, Loading

\* A completed operational import is whole: each version is stored once, with
\* the rows of a valid corpus of its manifest and no others, whatever ran
\* before or beside the import.
THEOREM DataWhole == Spec => []DatasetWhole
<1>1. Init => DatasetInv
  BY DatasetBegins DEF Init
<1>2. DatasetInv /\ [Next]_vars => DatasetInv'
  BY DatasetEffect, DatasetKept
<1>3. DatasetInv => DatasetWhole
  BY DEF DatasetInv
<1> QED BY <1>1, <1>2, <1>3, PTL DEF Spec
---------------------------------------------------------------------------
(* Startup                                                                 *)

\* What each service that compose has seen end well has left, and what the
\* evaluation has searched so far.
StartInv ==
  /\ DOMAIN evaluation = {"pc", "seen"}
  /\ compose = "starting" =>
       /\ migration = "done" => revision = HeadRevision
       /\ At(Compose, "done") => OfRelease(release)
       /\ LoaderAt(Compose, "done") => Whole(release)
       /\ evaluation.pc \in {"running", "done"} =>
            At(Compose, "done") /\ release \in Judged
       /\ evaluation.pc = "running" => evaluation.seen \subseteq {Texts}
       /\ evaluation.pc = "done" => evaluated = {Texts}

LEMMA Gates ==
  /\ State("migrate") = migration
  /\ State("ingest") = importer[Compose].pc
  /\ State("operational-ingest") = loader[Compose].pc
  /\ State("evaluation-run") = evaluation.pc
  /\ DependsOn("backend") = OneShots
  /\ "ingest" \in DependsOn("evaluation-run")
<1>1. State("migrate") = migration /\ State("ingest") = importer[Compose].pc
  BY DEF State
<1>2. State("operational-ingest") = loader[Compose].pc
  BY DEF State
<1>3. State("evaluation-run") = evaluation.pc
  BY DEF State
<1>4. DependsOn("backend") = OneShots
  BY DEF DependsOn
<1>5. "ingest" \in DependsOn("evaluation-run")
  BY DEF DependsOn
<1> QED BY <1>1, <1>2, <1>3, <1>4, <1>5

\* What a search reads while the release's articles are stored.
LEMMA TextsOfRelease ==
  ASSUME OfRelease(release)
  PROVE  Texts = {<<a, Corpus[release][a].sum, Embedder[release]>> :
                    a \in Listed(release)}
BY DEF OfRelease, Unchanged, Texts

LEMMA TextsKept ==
  ASSUME KInv, OfRelease(release), NEW i \in Importers, ImportCommit(i)
  PROVE  OfRelease(release)' /\ Texts' = Texts
<1> DEFINE texts == {<<a, Corpus[release][a].sum, Embedder[release]>> :
                       a \in Listed(release)}
<1>1. release' = release /\ OfRelease(release)'
  BY Committed, CommitOfRelease
<1>2. texts' = texts
  BY <1>1 DEF Listed
<1>3. Texts = texts
  BY TextsOfRelease
<1>4. Texts' = texts'
  BY <1>1 DEF OfRelease, Unchanged, Texts
<1> QED BY <1>1, <1>2, <1>3, <1>4

LEMMA StoresKept ==
  ASSUME UNCHANGED <<release, documents>>
  PROVE  /\ OfRelease(release)' <=> OfRelease(release)
         /\ Texts' = Texts
BY DEF OfRelease, Texts, Active, Stored, Listed, Unchanged

\* A step that leaves the knowledge base as it is, compose's import running or
\* ended as before, and the startup alone.
LEMMA ImportLeaves ==
  ASSUME StartInv, UNCHANGED <<release, documents, datasetVars, deployVars>>,
         At(Compose, "done")' <=> At(Compose, "done")
  PROVE  StartInv'
BY StoresKept DEF StartInv, datasetVars, deployVars, Whole, LoaderAt

\* Only a commit brings compose's import to its end, and a commit leaves the
\* articles of the release.
LEMMA IngestSteps ==
  ASSUME KInv, StartInv, NEW i \in Importers, ImportStep(i) \/ ImportFail(i),
         UNCHANGED <<datasetVars, deployVars>>
  PROVE  StartInv'
<1>0. Compose \in Importers /\ Watched = {Compose}
  BY DeploymentAssumption
<1>1. CASE ImportCommit(i)
  <2>1. OfRelease(release)' /\ release' = release
    BY <1>1, Committed, CommitOfRelease
  <2>2. /\ At(i, "retired")
        /\ \A j \in Importers \ {i} : importer'[j] = importer[j]
    BY <1>1 DEF ImportCommit, KInv, KnowledgeTypeOK
  <2>3. compose = "starting" /\ At(Compose, "done") =>
          At(Compose, "done")' /\ Texts' = Texts
    BY <1>0, <1>1, <2>2, TextsKept DEF At, StartInv
  <2> QED BY <2>1, <2>3 DEF StartInv, datasetVars, deployVars, Whole, LoaderAt
<1>2. CASE Look(i) \/ Insert(i) \/ Conflict(i) \/ Retire(i) \/ ImportFail(i)
  <2>1. UNCHANGED <<release, documents>>
    BY <1>2 DEF Look, Insert, Conflict, Retire, ImportFail
  <2>2. /\ importer[i].pc # "done" /\ importer'[i].pc # "done"
        /\ \A j \in Importers \ {i} : importer'[j] = importer[j]
    BY <1>2 DEF Look, Insert, Conflict, Retire, ImportFail, Ended, Idle,
                Importing, At, KInv, KnowledgeTypeOK
  <2>3. At(Compose, "done")' <=> At(Compose, "done")
    BY <1>0, <2>2 DEF At
  <2> QED BY <2>1, <2>3, ImportLeaves
<1> QED BY <1>1, <1>2 DEF ImportStep

LEMMA IngestStarts ==
  ASSUME KInv, StartInv, NEW i \in Importers, Ingest(i)
  PROVE  StartInv'
<1>0. Compose \in Importers
  BY DeploymentAssumption
<1>1. /\ UNCHANGED <<release, documents, datasetVars, deployVars>>
      /\ importer'[i].pc # "done"
      /\ \A j \in Importers \ {i} : importer'[j] = importer[j]
  BY DEF Ingest, ImportStart, Ended, Idle, KInv, KnowledgeTypeOK
<1>2. i = Compose => importer[i].pc # "done"
  BY DEF Ingest, At
<1>3. At(Compose, "done")' <=> At(Compose, "done")
  BY <1>0, <1>1, <1>2 DEF At
<1> QED BY <1>1, <1>3, ImportLeaves

\* A step of a loader while the startup stands as it is.
LEMMA LoaderSteps ==
  ASSUME DatasetInv, StartInv, NEW l \in Loaders, LoadStep(l) \/ LoadFail(l),
         UNCHANGED <<knowledgeVars, deployVars>>
  PROVE  StartInv'
<1>0. Compose \in Loaders /\ Awaited = {Compose} /\ release' = release
  BY DeploymentAssumption DEF knowledgeVars
<1>1. OfRelease(release)' <=> OfRelease(release)
  BY StoresKept DEF knowledgeVars
<1>2. Texts' = Texts
  BY StoresKept DEF knowledgeVars
<1>3. LoaderAt(Compose, "done")' =>
        Whole(release)' \/ (LoaderAt(Compose, "done") /\ UNCHANGED imports)
  <2>1. CASE LoadCommit(l)
    BY <1>0, <2>1, LoadCommitted
  <2>2. CASE LoadWrite(l) \/ LoadFail(l)
    <3>1. UNCHANGED imports
      BY <2>2 DEF LoadWrite, LoadFail
    <3>2. /\ loader'[l].pc # "done"
          /\ \A m \in Loaders \ {l} : loader'[m] = loader[m]
      <4>1. CASE End(l, "failed")
        BY <4>1, LoaderEnds
      <4>2. CASE loader' = [loader EXCEPT ![l].pc = "writing"]
        BY <4>2 DEF DatasetInv, LoaderType
      <4> QED BY <2>2, <4>1, <4>2 DEF LoadWrite, LoadFail
    <3> QED BY <1>0, <3>1, <3>2 DEF LoaderAt
  <2> QED BY <2>1, <2>2 DEF LoadStep
<1>4. UNCHANGED <<revision, compose, migration, evaluation, evaluated, importer>>
  BY DEF knowledgeVars, deployVars
<1>5. UNCHANGED imports => (Whole(release)' <=> Whole(release))
  BY <1>0 DEF Whole
<1> QED BY <1>0, <1>1, <1>2, <1>3, <1>4, <1>5 DEF StartInv, At

LEMMA LoadStarts ==
  ASSUME DatasetInv, StartInv, NEW l \in Loaders, Load(l)
  PROVE  StartInv'
<1>0. Compose \in Loaders /\ UNCHANGED <<knowledgeVars, deployVars, imports>>
  BY DeploymentAssumption DEF Load, LoadStart
<1>1. /\ UNCHANGED <<release, documents, importer>>
      /\ UNCHANGED <<revision, compose, migration, evaluation, evaluated>>
  BY <1>0 DEF knowledgeVars, deployVars
<1>2. /\ OfRelease(release)' <=> OfRelease(release)
      /\ Texts' = Texts
      /\ Whole(release)' <=> Whole(release)
  BY <1>0, <1>1, StoresKept DEF Whole
<1>3. LoaderAt(Compose, "done")' => LoaderAt(Compose, "done") \/ Whole(release)
  <2>1. CASE End(l, "failed")
    BY <1>0, <2>1, LoaderEnds DEF LoaderAt
  <2>2. CASE Whole(release)
    BY <2>2
  <2>3. CASE loader' = [loader EXCEPT ![l] =
               [pc |-> "checked", bundle |-> release, kept |-> {},
                existed |-> Imported(Bundle[release].version)]]
    BY <1>0, <2>3 DEF LoaderAt, DatasetInv
  <2> QED BY <2>1, <2>2, <2>3 DEF Load, LoadStart
<1> QED BY <1>1, <1>2, <1>3 DEF StartInv, At

LEMMA EvaluationMoves ==
  ASSUME StartInv,
         EvaluationStart \/ EvaluateCase \/ EvaluationComplete \/ EvaluationFails
  PROVE  StartInv'
<1>1. UNCHANGED <<release, documents, importer, imports, loader, revision,
                  compose, migration>>
  BY DEF EvaluationStart, EvaluateCase, EvaluationComplete, EvaluationFails,
         knowledgeVars, datasetVars
<1>2. /\ OfRelease(release)' <=> OfRelease(release)
      /\ Texts' = Texts
      /\ Whole(release)' <=> Whole(release)
  BY <1>1, StoresKept DEF Whole
<1>3. /\ At(Compose, "done")' <=> At(Compose, "done")
      /\ LoaderAt(Compose, "done")' <=> LoaderAt(Compose, "done")
  BY <1>1 DEF At, LoaderAt
<1>4. CASE EvaluationStart
  <2>1. At(Compose, "done")
    BY <1>4, Gates DEF EvaluationStart, Due, At
  <2>2. /\ DOMAIN evaluation' = {"pc", "seen"} /\ evaluation'.seen = {}
        /\ evaluation'.pc = "running" => release \in Judged
        /\ evaluation'.pc # "done"
    BY <1>4 DEF EvaluationStart
  <2> QED BY <1>1, <1>2, <1>3, <2>1, <2>2 DEF StartInv
<1>5. CASE EvaluateCase
  <2>1. /\ DOMAIN evaluation' = {"pc", "seen"} /\ evaluation.pc = "running"
        /\ evaluation'.pc = "running"
        /\ evaluation'.seen = evaluation.seen \cup {Texts}
    BY <1>5 DEF EvaluateCase, StartInv
  <2> QED BY <1>1, <1>2, <1>3, <2>1 DEF StartInv
<1>6. CASE EvaluationComplete
  <2>1. /\ DOMAIN evaluation' = {"pc", "seen"} /\ evaluation.pc = "running"
        /\ evaluation'.pc = "done"
        /\ evaluated' = evaluation.seen /\ evaluation.seen # {}
    BY <1>6 DEF EvaluationComplete
  <2> QED BY <1>1, <1>2, <1>3, <2>1 DEF StartInv
<1>7. CASE EvaluationFails
  <2>1. DOMAIN evaluation' = {"pc", "seen"} /\ evaluation'.pc = "failed"
    BY <1>7 DEF EvaluationFails
  <2> QED BY <1>1, <1>2, <1>3, <2>1 DEF StartInv
<1> QED BY <1>4, <1>5, <1>6, <1>7

LEMMA StartKept ==
  ASSUME KInv, DatasetInv, StartInv, [Next]_vars
  PROVE  StartInv'
<1>1. CASE UNCHANGED vars
  <2>1. UNCHANGED <<release, documents, importer, imports, loader, revision,
                    compose, migration, evaluation, evaluated>>
    BY <1>1 DEF vars, knowledgeVars, datasetVars, deployVars
  <2> QED BY <2>1, StoresKept DEF StartInv, At, LoaderAt, Whole
<1>2. CASE Migrate \/ MigrateFails
  <2>1. /\ UNCHANGED <<release, documents, importer, imports, loader, compose,
                       evaluation, evaluated>>
        /\ migration' = "done" => revision' = HeadRevision
    BY <1>2 DEF Migrate, MigrateFails, knowledgeVars, datasetVars
  <2> QED BY <2>1, StoresKept DEF StartInv, At, LoaderAt, Whole
<1>3. CASE EvaluationStart \/ EvaluateCase \/ EvaluationComplete \/ EvaluationFails
  BY <1>3, EvaluationMoves
<1>4. CASE BackendStart \/ ComposeAbort
  <2>1. compose' # "starting" /\ UNCHANGED evaluation
    BY <1>4 DEF BackendStart, ComposeAbort
  <2> QED BY <2>1 DEF StartInv
<1>5. CASE \E i \in Importers : Ingest(i)
  BY <1>5, IngestStarts
<1>6. CASE \E i \in Importers : IngestStep(i) \/ IngestFails(i)
  BY <1>6, IngestSteps DEF IngestStep, IngestFails
<1>7. CASE \E l \in Loaders : Load(l)
  BY <1>7, LoadStarts
<1>8. CASE \E l \in Loaders : LoaderStep(l) \/ LoaderFails(l)
  BY <1>8, LoaderSteps DEF LoaderStep, LoaderFails
<1>9. CASE ComposeUp \/ ComposeDown
  <2>1. /\ migration' = "idle" /\ evaluation' = [pc |-> "idle", seen |-> {}]
        /\ importer'[Compose] = Idle /\ loader'[Compose] = NotLoading
    BY <1>9, DeploymentAssumption
       DEF ComposeUp, ComposeDown, Containers, NotEvaluating, KInv,
           KnowledgeTypeOK, DatasetInv
  <2> QED BY <2>1 DEF StartInv, At, LoaderAt, Idle, NotLoading
<1>10. CASE \/ \E r \in Releases : NewRelease(r)
            \/ \E to \in 0..HeadRevision : Alembic(to)
  <2>1. compose # "starting" /\ UNCHANGED <<compose, evaluation>>
    BY <1>10 DEF NewRelease, Alembic, Stopped, Quiet, deployVars
  <2> QED BY <2>1 DEF StartInv
<1> QED
  BY <1>1, <1>2, <1>3, <1>4, <1>5, <1>6, <1>7, <1>8, <1>9, <1>10,
     DeploymentAssumption DEF Next, Proceed, Fails, Chosen

LEMMA ReadyAtStart ==
  ASSUME StartInv, BackendStart
  PROVE  /\ revision' = HeadRevision /\ OfRelease(release)' /\ Whole(release)'
         /\ release' \in Judged /\ evaluated' = {Texts'}
<1>1. /\ compose = "starting" /\ migration = "done" /\ At(Compose, "done")
      /\ LoaderAt(Compose, "done") /\ evaluation.pc = "done"
  BY Gates DEF BackendStart, Due, OneShots, At, LoaderAt
<1>2. UNCHANGED <<release, documents, imports, revision, evaluated>>
  BY DEF BackendStart, knowledgeVars, datasetVars
<1> QED BY <1>1, <1>2, StoresKept DEF StartInv, Whole

\* When compose reports success, whatever startups, imports, migrations and
\* releases came before and whatever an operator imports beside it, the schema
\* is the last one, the release's articles and data are stored, and an
\* evaluation of exactly those articles, by cases of tickets there are, is
\* complete.
THEOREM ReadyBackend == Spec => BackendReady
<1> DEFINE Inv == KInv /\ DatasetInv /\ StartInv
           Ready == compose' = "up" /\ compose # "up" =>
                      /\ revision' = HeadRevision
                      /\ OfRelease(release)' /\ Whole(release)'
                      /\ release' \in Judged /\ evaluated' = {Texts'}
<1>1. Init => Inv
  <2> SUFFICES ASSUME Init
               PROVE  Inv
    OBVIOUS
  <2>1. StartInv
    BY DEF Init, NotEvaluating, StartInv
  <2> QED BY <2>1, KnowledgeBegins, DatasetBegins DEF Init
<1>2. Inv /\ [Next]_vars => Inv'
  BY KnowledgeEffect, KnowledgeKept, DatasetEffect, DatasetKept, StartKept
<1>3. Inv /\ [Next]_vars => [Ready]_vars
  <2> SUFFICES ASSUME Inv, [Next]_vars, compose' = "up", compose # "up"
               PROVE  BackendStart
    BY ReadyAtStart
  <2>1. ~ UNCHANGED vars
    BY DEF vars, deployVars
  <2>2. CASE Migrate \/ MigrateFails \/ EvaluationStart \/ EvaluateCase
             \/ EvaluationComplete \/ EvaluationFails \/ ComposeAbort
             \/ ComposeUp \/ ComposeDown
    BY <2>2 DEF Migrate, MigrateFails, EvaluationStart, EvaluateCase,
         EvaluationComplete, EvaluationFails, ComposeAbort, ComposeUp, ComposeDown
  <2>3. CASE \/ \E i \in Importers : Ingest(i) \/ IngestStep(i) \/ IngestFails(i)
             \/ \E l \in Loaders : Load(l) \/ LoaderStep(l) \/ LoaderFails(l)
             \/ \E r \in Releases : NewRelease(r)
             \/ \E to \in 0..HeadRevision : Alembic(to)
    BY <2>3 DEF Ingest, IngestStep, IngestFails, Load, LoaderStep, LoaderFails,
                NewRelease, Alembic, deployVars
  <2> QED BY <2>1, <2>2, <2>3, DeploymentAssumption DEF Next, Proceed, Fails, Chosen
<1> HIDE DEF Inv
<1> QED BY <1>1, <1>2, <1>3, PTL DEF Spec, BackendReady
=============================================================================
