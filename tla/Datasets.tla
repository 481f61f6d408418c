------------------------------ MODULE Datasets -------------------------------
(***************************************************************************)
(* The operational import, `python -m app.demo.ingest`: demo/ingestion.py  *)
(* with demo/corpus.py.  A loader checks the corpus in the working tree,   *)
(* skips it when the same one is stored whole, and otherwise replaces the  *)
(* rows of its version in one transaction.  The investigation tools read   *)
(* the version whose import completed last; as any may be it, the order in *)
(* which imports completed is left out.                                    *)
(*                                                                         *)
(* Abstracted: a row of a file is its key and the rows that it refers to;  *)
(* the six tables of a version are the set of corpora, named by manifest   *)
(* checksum, that have rows in them.                                       *)
(***************************************************************************)
EXTENDS Integers, Sequences, FiniteSets

CONSTANTS
  Bundles,      \* what the data directory can hold
  Bundle,       \* the manifest of each, and its files as they are
  Loaders,      \* importing processes
  Awaited,      \* those whose result somebody waits for
  NoBundle      \* no bundle chosen

ASSUME DatasetAssumption == NoBundle \notin Bundles

VARIABLES
  imports,      \* the completed dataset_imports rows, with their rows
  loader        \* what each loader has done in its transaction

datasetVars == <<imports, loader>>

---------------------------------------------------------------------------

Files == {"locations", "applications", "tickets", "incidents", "telemetry",
          "logs"}

Keys(file) == {file.rows[n].key : n \in DOMAIN file.rows}

\* load_operational_corpus: every file is the one of the manifest, with as
\* many rows, no two of one key, that refer to rows there are.
Valid ==
  {bundle \in Bundles :
     LET files == Bundle[bundle].files IN
     \A f \in Files :
       /\ files[f].sum = files[f].listed
       /\ Len(files[f].rows) = files[f].count
       /\ Cardinality(Keys(files[f])) = Len(files[f].rows)
       /\ \A n \in DOMAIN files[f].rows :
            \A ref \in files[f].rows[n].refs : ref[2] \in Keys(files[ref[1]])}

Import(version, sum, rows) ==
  [version |-> version, sum |-> sum, rows |-> rows]

Imported(version) ==
  \E import \in imports : import.version = version

ImportsOf(version) == {import \in imports : import.version = version}
RowsOf(version) == UNION {import.rows : import \in ImportsOf(version)}

\* existing is completed, of this manifest, and its row counts are right.
Whole(bundle) ==
  Import(Bundle[bundle].version, Bundle[bundle].sum, {Bundle[bundle].sum})
    \in imports

NotLoading == [pc |-> "idle", bundle |-> NoBundle, existed |-> FALSE,
               kept |-> {}]

LoaderAt(l, pc) == loader[l].pc = pc
Loading(l) == loader[l].pc \in {"checked", "writing"}
Version(l) == Bundle[loader[l].bundle].version

End(l, pc) ==
  loader' = [loader EXCEPT ![l] =
    [NotLoading EXCEPT !.pc = IF l \in Awaited THEN pc ELSE "idle"]]

---------------------------------------------------------------------------
(* OperationalIngestionService.ingest *)

\* load_operational_corpus, then the look at what is stored.
LoadStart(l, bundle) ==
  /\ loader[l].pc \in {"idle", "done", "failed"}
  /\ IF bundle \notin Valid THEN End(l, "failed")
     ELSE IF Whole(bundle) THEN End(l, "done")
     ELSE loader' = [loader EXCEPT ![l] =
            [pc |-> "checked", bundle |-> bundle, kept |-> {},
             existed |-> Imported(Bundle[bundle].version)]]
  /\ UNCHANGED imports

\* Mutant: the rows of an earlier import of the version are not deleted.
WriteOver(l) ==
  /\ LoaderAt(l, "checked")
  /\ \A other \in Loaders : LoaderAt(other, "writing") =>
       Version(other) # Version(l)
  /\ loader' = [loader EXCEPT ![l].pc = "writing",
                              ![l].kept = RowsOf(Version(l))]
  /\ UNCHANGED imports

\* Delete the version's rows, insert the import row if there was none, and
\* insert the new rows.  Another loader's uncommitted row makes this one
\* wait; its committed one ends it, for dataset_version is unique.
LoadWrite(l) ==
  /\ LoaderAt(l, "checked")
  /\ \A other \in Loaders : LoaderAt(other, "writing") =>
       Version(other) # Version(l)
  /\ IF loader[l].existed \/ ~Imported(Version(l))
     THEN loader' = [loader EXCEPT ![l].pc = "writing"]
     ELSE End(l, "failed")
  /\ UNCHANGED imports

LoadCommit(l) ==
  LET b == Bundle[loader[l].bundle] IN
  /\ LoaderAt(l, "writing")
  /\ imports' = (imports \ ImportsOf(b.version)) \cup
                {Import(b.version, b.sum, loader[l].kept \cup {b.sum})}
  /\ End(l, "done")

\* The process ends, or the database refuses a row: the rows stay as before.
LoadFail(l) ==
  /\ Loading(l)
  /\ End(l, "failed")
  /\ UNCHANGED imports

LoadStep(l) == LoadWrite(l) \/ LoadCommit(l)

DatasetInit ==
  /\ imports = {}
  /\ loader = [l \in Loaders |-> NotLoading]

---------------------------------------------------------------------------
(* Properties *)

DatasetTypeOK ==
  \A l \in Loaders : /\ loader[l].pc \in {"idle", "checked", "writing", "done",
                                           "failed"}
                     /\ loader[l].bundle \in Bundles \cup {NoBundle}
                     /\ Loading(l) <=> loader[l].bundle # NoBundle

\* A completed import is whole: each version is listed once, and its tables
\* hold the rows of a valid corpus with the manifest it names and no others,
\* whatever ran before or beside it, so that no investigation reads a mixture.
DatasetWhole ==
  /\ \A x, y \in imports : x.version = y.version => x = y
  /\ \A x \in imports :
       /\ x.rows = {x.sum}
       /\ \E b \in Valid : /\ Bundle[b].version = x.version
                          /\ Bundle[b].sum = x.sum
=============================================================================
