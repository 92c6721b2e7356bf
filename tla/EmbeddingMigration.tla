------------------------- MODULE EmbeddingMigration -------------------------
(***************************************************************************)
(* The migration of the memories to another embedding model (backend       *)
(* main.go, handleMemoryMigrateEmbeddings): each statement of it may fail, *)
(* the process may end after any of them, and the migration may be asked   *)
(* for again.  A vector is named by the model that made it, which is the   *)
(* one the backend is configured with, whatever label the request asks     *)
(* for.  The batches only cut the loop over the rows and are left out.     *)
(***************************************************************************)
EXTENDS Naturals, Sequences, FiniteSetsExt

CONSTANTS
    Model,          \* embedding models, and the labels of rows
    DefaultLabel,   \* what AddMemory labels a row without one
    NoModel,        \* no vector; no filter
    MaxRows,        \* bound: rows made
    MaxMigrations   \* bound: migrations asked for

ASSUME ModelAssumption ==
    /\ DefaultLabel \in Model
    /\ NoModel \notin Model
    /\ MaxMigrations \in Nat

VARIABLES
    embeddings,     \* of a row: embedding, embedding_model, the legacy vector, is_archived
    original,       \* of a row: its vector when a backup first came by
    migration,      \* the migration that runs
    embedder,       \* the model the backend is configured with
    migrations      \* migrations asked for

migrationVars == <<embeddings, original, migration, embedder, migrations>>

NoMigration == [at |-> "none"]

MigrationInit ==
    /\ embeddings = <<>>
    /\ original = <<>>
    /\ migration = NoMigration
    /\ embedder \in Model
    /\ migrations = 0

-----------------------------------------------------------------------------
(* Rows: made with a vector, or without one by the extraction.             *)

Insert(vector) ==
    /\ migration = NoMigration
    /\ Len(embeddings) < MaxRows
    /\ vector \in {embedder, NoModel}
    /\ embeddings' = Append(embeddings,
          [vector |-> vector, label |-> DefaultLabel, legacy |-> NoModel, archived |-> FALSE])
    /\ original' = Append(original, NoModel)
    /\ UNCHANGED <<migration, embedder, migrations>>

\* The decay scheduler archives rows while a migration runs; so does a deletion.
ArchiveRow(i) ==
    /\ ~embeddings[i].archived
    /\ embeddings' = [embeddings EXCEPT ![i].archived = TRUE]
    /\ UNCHANGED <<original, migration, embedder, migrations>>

-----------------------------------------------------------------------------
(* One migration.                                                          *)

Begin(to, from, backup, dryRun) ==
    /\ migration = NoMigration
    /\ migrations < MaxMigrations
    /\ migrations' = migrations + 1
    /\ migration' = [at     |-> IF backup /\ ~dryRun THEN "columns" ELSE "select",
                     to     |-> to,
                     from   |-> from,
                     dryRun |-> dryRun,
                     todo   |-> <<>>]
    /\ UNCHANGED <<embeddings, original, embedder>>

\* ALTER TABLE ... ADD COLUMN IF NOT EXISTS; a failure ends the migration.
AddColumns ==
    /\ migration.at = "columns"
    /\ \/ migration' = [migration EXCEPT !.at = "copy"]
       \/ migration' = NoMigration
    /\ UNCHANGED <<embeddings, original, embedder, migrations>>

\* A slip: the vectors an earlier backup has copied are copied again.
LegacyAgain(row) == [row EXCEPT !.legacy = row.vector]

Legacy(row) ==
    IF row.legacy = NoModel /\ row.vector # NoModel
    THEN [row EXCEPT !.legacy = row.vector]
    ELSE row

CopyLegacy ==
    /\ migration.at = "copy"
    /\ embeddings' = [i \in DOMAIN embeddings |-> Legacy(embeddings[i])]
    /\ original' = [i \in DOMAIN original |->
                       IF original[i] = NoModel THEN embeddings[i].vector ELSE original[i]]
    /\ migration' = [migration EXCEPT !.at = "select"]
    /\ UNCHANGED <<embedder, migrations>>

CopyFails ==
    /\ migration.at = "copy"
    /\ migration' = NoMigration
    /\ UNCHANGED <<embeddings, original, embedder, migrations>>

Selected ==
    {i \in DOMAIN embeddings : /\ ~embeddings[i].archived
                               /\ migration.from \in {NoModel, embeddings[i].label}}

\* The labels are read here, once.  Without a row, dry, or if the statement
\* fails, the answer is given at once.
SelectRows ==
    /\ migration.at = "select"
    /\ \/ /\ Selected # {}
          /\ ~migration.dryRun
          /\ migration' = [migration EXCEPT
                             !.at = "rows",
                             !.todo = [i \in Selected |-> embeddings[i].label]]
       \/ migration' = NoMigration
    /\ UNCHANGED <<embeddings, original, embedder, migrations>>

\* The next row, oldest first; after the last one the answer is given.
Upcoming == Min(DOMAIN migration.todo)

NextRow ==
    LET rest == DOMAIN migration.todo \ {Upcoming}
    IN migration' = IF rest = {} THEN NoMigration
                    ELSE [migration EXCEPT !.todo = [i \in rest |-> migration.todo[i]]]

\* A row that has the label already is skipped; one whose text cannot be
\* embedded, or whose update fails, is left as it is.
LeaveRow ==
    /\ migration.at = "rows"
    /\ NextRow
    /\ UNCHANGED <<embeddings, original, embedder, migrations>>

UpdateRow ==
    /\ migration.at = "rows"
    /\ migration.todo[Upcoming] # migration.to
    /\ embeddings' = [embeddings EXCEPT ![Upcoming].vector = embedder,
                                        ![Upcoming].label = migration.to]
    /\ NextRow
    /\ UNCHANGED <<original, embedder, migrations>>

handleMemoryMigrateEmbeddings ==
    \/ \E to \in Model, from \in Model \cup {NoModel}, backup, dryRun \in BOOLEAN :
          Begin(to, from, backup, dryRun)
    \/ AddColumns
    \/ CopyLegacy
    \/ CopyFails
    \/ SelectRows
    \/ LeaveRow
    \/ UpdateRow

\* The process ends, in a migration or out of one, and starts again, perhaps
\* with another model.
RestartBackend ==
    /\ migration' = NoMigration
    /\ embedder' \in Model
    /\ UNCHANGED <<embeddings, original, migrations>>

MigrationNext ==
    \/ \E vector \in Model \cup {NoModel} : Insert(vector)
    \/ \E i \in DOMAIN embeddings : ArchiveRow(i)
    \/ handleMemoryMigrateEmbeddings
    \/ RestartBackend

MigrationSpec == MigrationInit /\ [][MigrationNext]_migrationVars

-----------------------------------------------------------------------------
MigrationTypeOK ==
    /\ embeddings \in Seq([vector : Model \cup {NoModel}, label : Model,
                           legacy : Model \cup {NoModel}, archived : BOOLEAN])
    /\ original \in [DOMAIN embeddings -> Model \cup {NoModel}]
    /\ migration.at \in {"none", "columns", "copy", "select", "rows"}
    /\ migration.at = "rows" => DOMAIN migration.todo # {}
    /\ embedder \in Model
    /\ migrations \in 0..MaxMigrations

(* The vector a row had when a backup first came by is kept, in the row or *)
(* in its legacy column, whatever migrations follow, are cut short by a    *)
(* failure or a crash and are asked for again (main.go:2800-2806).         *)
OriginalKept ==
    \A i \in DOMAIN embeddings :
        original[i] # NoModel => original[i] \in {embeddings[i].vector, embeddings[i].legacy}

=============================================================================
