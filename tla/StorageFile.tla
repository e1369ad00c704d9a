------------------------------ MODULE StorageFile ------------------------------
(***************************************************************************)
(* One SQLite file shared by connections of several processes (storage.py, *)
(* the constructors of SQLiteRegistry and SQLiteRunTraceStore): judging    *)
(* the format of the file, creating a component, stamping a legacy one,    *)
(* the migration command with its backup, and the write transactions all   *)
(* of them use.  BEGIN IMMEDIATE takes the one writer lock and a private   *)
(* copy of the committed file; COMMIT installs the copy, ROLLBACK, a crash *)
(* or closing the connection drops it.  A SELECT outside a transaction     *)
(* reads the committed file as it is at that moment.                       *)
(*                                                                         *)
(* What the two components store is in SQLiteRegistry and TraceStore.      *)
(***************************************************************************)
EXTENDS Integers, Sequences, FiniteSets

CONSTANTS
    Conns,      \* connections, each in a process of its own
    None,
    Worlds      \* initial file and what the connections are for, see MC

Components == {"registry", "trace"}
Formats == {None, "current", "future"}   \* a format version row: missing, 1, above 1

\* A file: per component its tables, format rows and whether every stored document
\* is valid; the metadata table; the components migrated so far (history).
IsFile(d) ==
    /\ d = [tables |-> d.tables, meta |-> d.meta, storageFormat |-> d.storageFormat,
            documentFormat |-> d.documentFormat, valid |-> d.valid, migrated |-> d.migrated,
            registry |-> d.registry, trace |-> d.trace]
    /\ d.tables \in [Components -> {"absent", "partial", "complete"}]
    /\ d.storageFormat \in [Components -> Formats]
    /\ d.documentFormat \in [Components -> Formats]
    /\ d.valid \in [Components -> BOOLEAN]
    /\ d.migrated \subseteq Components

ASSUME FileAssumption ==
    /\ None \notin Conns
    /\ \A w \in Worlds : /\ w.kind \in [Conns -> Components \cup {"migrator"}]
                         /\ IsFile(w.file)
                         /\ w.file.migrated = {}

VARIABLES
    world,      \* chosen once: [kind, env, retention], see the MC module
    db,         \* the committed file
    writer,     \* the connection holding the writer lock
    tx,         \* private copies: what the writer's transaction would commit
    pc,
    view,       \* what an opener or the migration command has read
    target      \* the file at the backup destination, {} if there is none

fileVars == <<world, db, writer, tx, pc, view, target>>

Kind(c) == world.kind[c]
Env == world.env

Moves(c, from, to) == pc[c] \in from /\ pc' = [pc EXCEPT ![c] = to]
Sees(c, v) == view' = [view EXCEPT ![c] = v]

\* Mutant: a plain BEGIN, which does not take the writer lock.
BeginsDeferred(c, new) ==
    /\ writer' = c
    /\ tx' = [tx EXCEPT ![c] = new]

\* BEGIN IMMEDIATE, and the statements of the transaction up to COMMIT.
Begins(c, new) ==
    /\ writer = None
    /\ writer' = c
    /\ tx' = [tx EXCEPT ![c] = new]

\* The transaction is gone: committed, rolled back, or its connection closed.
Ends(c) ==
    /\ writer' = IF writer = c THEN None ELSE writer
    /\ tx' = [tx EXCEPT ![c] = None]

NoTx == UNCHANGED <<writer, tx>>

-----------------------------------------------------------------------------
(* The format of a component *)

\* stamp_current_component_format
Stamped(d, comp) ==
    [d EXCEPT !.meta = TRUE, !.storageFormat[comp] = "current",
              !.documentFormat[comp] = "current"]

\* The journal table, which files of older releases lack.  Its history starts here.
WithJournal(d, comp) ==
    IF comp = "registry" /\ ~d.registry.journalled
    THEN [d EXCEPT !.registry.journalled = TRUE,
                   !.registry.attested = d.registry.version]
    ELSE d

\* Mutant: the version row is written again (OR REPLACE).
CreatedAnew(d, comp) ==
    LET e == Stamped(WithJournal([d EXCEPT !.tables[comp] = "complete"], comp), comp)
    IN IF comp = "registry" THEN [e EXCEPT !.registry.version = 0] ELSE e

\* _create_component_tables: IF NOT EXISTS, OR IGNORE.
Created(d, comp) ==
    Stamped(WithJournal([d EXCEPT !.tables[comp] = "complete"], comp), comp)

Migrated(d, comp) == [Stamped(d, comp) EXCEPT !.migrated = @ \cup {comp}]

\* component_status, with the documents validated (_inspect_sqlite_connection)
Status(d, comp) ==
    LET s == d.storageFormat[comp]  f == d.documentFormat[comp] IN
    CASE d.tables[comp] # "complete"            -> "corrupt"
      [] s = None /\ f = None                   -> IF d.valid[comp] THEN "legacy" ELSE "corrupt"
      [] (s = None) # (f = None)                -> "corrupt"
      [] "future" \in {s, f}                    -> "future"
      [] OTHER                                  -> IF d.valid[comp] THEN "current" ELSE "corrupt"

-----------------------------------------------------------------------------
(* Opening a store: _initialize.  It judges the file by several SELECTs,   *)
(* each on the file as it is then, before it begins its transaction.       *)

Stores == {"registry", "trace"}

\* component_presence: the table names
OpenTables(c) ==
    /\ Kind(c) \in Stores
    /\ LET t == db.tables[Kind(c)]
       IN Moves(c, {"closed"}, CASE t = "complete" -> "complete"
                                 [] t = "partial"  -> "refused"
                                 [] OTHER          -> IF db.meta THEN "uncertain" ELSE "absent")
    /\ NoTx
    /\ UNCHANGED <<world, db, view, target>>

\* component_presence: no table, but the metadata of the file may name the component
OpenUncertain(c) ==
    /\ pc[c] = "uncertain"
    /\ LET comp == Kind(c)
       IN Moves(c, {"uncertain"},
                IF db.storageFormat[comp] # None \/ db.documentFormat[comp] # None
                THEN "refused" ELSE "absent")
    /\ NoTx
    /\ UNCHANGED <<world, db, view, target>>

\* component_versions: the first of its two rows
OpenStorageFormat(c) ==
    /\ Moves(c, {"complete"}, "halfread")
    /\ Sees(c, [storageFormat |-> db.storageFormat[Kind(c)]])
    /\ NoTx
    /\ UNCHANGED <<world, db, target>>

\* component_versions: the second row; validate_component_openable decides
OpenDocumentFormat(c) ==
    /\ pc[c] = "halfread"
    /\ LET s == view[c].storageFormat  f == db.documentFormat[Kind(c)]
       IN Moves(c, {"halfread"}, CASE s = None /\ f = None     -> "legacy"
                                   [] (s = None) # (f = None)  -> "refused"
                                   [] "future" \in {s, f}      -> "refused"
                                   [] OTHER                    -> "current")
    /\ Sees(c, None)
    /\ NoTx
    /\ UNCHANGED <<world, db, target>>

OpenCreate(c) ==
    /\ Moves(c, {"absent"}, "opening")
    /\ Begins(c, Created(db, Kind(c)))
    /\ UNCHANGED <<world, db, view, target>>

\* A current file: only what older releases of the same format left out.
OpenCurrent(c) ==
    /\ Moves(c, {"current"}, "opening")
    /\ Begins(c, WithJournal(db, Kind(c)))
    /\ UNCHANGED <<world, db, view, target>>

\* Mutant: an invalid document is migrated too.
OpenLegacyUnchecked(c) ==
    /\ Moves(c, {"legacy"}, "opening")
    /\ Begins(c, Migrated(WithJournal(db, Kind(c)), Kind(c)))
    /\ UNCHANGED <<world, db, view, target>>

\* A legacy file: every stored document is validated before the stamp.
OpenLegacy(c) ==
    /\ pc[c] = "legacy" /\ db.valid[Kind(c)]
    /\ Moves(c, {"legacy"}, "opening")
    /\ Begins(c, Migrated(WithJournal(db, Kind(c)), Kind(c)))
    /\ UNCHANGED <<world, db, view, target>>

OpenLegacyInvalid(c) ==
    /\ pc[c] = "legacy" /\ ~db.valid[Kind(c)]
    /\ writer = None
    /\ Moves(c, {"legacy"}, "refused")
    /\ NoTx
    /\ UNCHANGED <<world, db, view, target>>

\* `database is locked': the busy timeout of BEGIN IMMEDIATE ran out.  An open
\* store answers its caller with that error and stays as it was.
OpenLocked(c) ==
    /\ writer # None
    /\ Moves(c, {"absent", "current", "legacy"}, "closed")
    /\ NoTx
    /\ UNCHANGED <<world, db, view, target>>

-----------------------------------------------------------------------------
(* How a write transaction of an opener or an open store ends *)

Commit(c) ==
    /\ writer = c
    /\ Moves(c, {"opening", "writing"}, "open")
    /\ db' = tx[c]
    /\ Ends(c)
    /\ UNCHANGED <<world, view, target>>

\* A statement fails: except Exception: rollback.  A constructor also closes.
RollBack(c) ==
    /\ "failures" \in Env
    /\ Moves(c, {"opening", "writing"}, IF pc[c] = "opening" THEN "closed" ELSE "open")
    /\ Ends(c)
    /\ UNCHANGED <<world, db, view, target>>

\* KeyboardInterrupt inside the try block of a write, or COMMIT itself fails:
\* neither is an Exception of that block, so nothing rolls back.  Every later
\* BEGIN on the connection fails and the writer lock stays taken.
Interrupted(c) ==
    /\ "interrupts" \in Env
    /\ Moves(c, {"writing"}, "wedged")
    /\ NoTx
    /\ UNCHANGED <<world, db, view, target>>

\* close(), also __exit__
Close(c) ==
    /\ Kind(c) \in Stores
    /\ Moves(c, {"open", "wedged"}, "closed")
    /\ Ends(c)
    /\ UNCHANGED <<world, db, view, target>>

\* The process dies; the operating system closes its connection.
Crash(c) ==
    /\ "crashes" \in Env
    /\ pc[c] \notin {"closed", "done", "refused"}
    /\ pc' = [pc EXCEPT ![c] = "closed"]
    /\ Sees(c, None)
    /\ Ends(c)
    /\ UNCHANGED <<world, db, target>>

-----------------------------------------------------------------------------
(* migrate_sqlite_storage *)

Present(d) == {comp \in Components : d.tables[comp] # "absent"}
Legacy(d) == {comp \in Present(d) : Status(d, comp) = "legacy"}

MigrateBegin(c) ==
    /\ Kind(c) = "migrator"
    /\ Moves(c, {"closed"}, "inspect")
    /\ Begins(c, db)
    /\ UNCHANGED <<world, db, view, target>>

MigrateInspect(c) ==
    /\ pc[c] = "inspect"
    /\ LET statuses == {Status(tx[c], comp) : comp \in Present(tx[c])}
       IN IF statuses = {} \/ statuses \cap {"future", "corrupt"} # {}
          THEN Moves(c, {"inspect"}, "refused") /\ Ends(c)
          ELSE IF "legacy" \notin statuses
               THEN Moves(c, {"inspect"}, "done") /\ Ends(c)
               ELSE \E backup \in BOOLEAN :
                       /\ Moves(c, {"inspect"}, IF backup THEN "resolve" ELSE "stamp")
                       /\ NoTx
    /\ UNCHANGED <<world, db, view, target>>

\* _resolve_backup_target
MigrateResolve(c) ==
    /\ IF target # {}
       THEN Moves(c, {"resolve"}, "refused") /\ Ends(c)
       ELSE Moves(c, {"resolve"}, "copy") /\ NoTx
    /\ UNCHANGED <<world, db, view, target>>

\* _backup_sqlite_connection: a second connection reads the committed file
MigrateCopy(c) ==
    /\ Moves(c, {"copy"}, "publish")
    /\ Sees(c, [copy |-> db])
    /\ NoTx
    /\ UNCHANGED <<world, db, target>>

\* Mutant: the copy is renamed over whatever is at the destination.
MigratePublishOver(c) ==
    /\ Moves(c, {"publish"}, "stamp")
    /\ target' = {view[c].copy}
    /\ NoTx
    /\ UNCHANGED <<world, db, view>>

\* _publish_backup_destination: a hard link is never made over an existing file
MigratePublish(c) ==
    /\ pc[c] = "publish"
    /\ IF target # {}
       THEN Moves(c, {"publish"}, "refused") /\ Ends(c) /\ Sees(c, None) /\ UNCHANGED target
       ELSE Moves(c, {"publish"}, "stamp") /\ NoTx /\ target' = {view[c].copy} /\ UNCHANGED view
    /\ UNCHANGED <<world, db>>

AllMigrated(d, comps) ==
    LET one(e, comp) == IF comp \in comps THEN Migrated(e, comp) ELSE e
    IN one(one(d, "registry"), "trace")

MigrateStamp(c) ==
    /\ Moves(c, {"stamp"}, "stamped")
    /\ tx' = [tx EXCEPT ![c] = AllMigrated(@, Legacy(@))]
    /\ UNCHANGED <<world, db, writer, view, target>>

MigrateCommit(c) ==
    /\ Moves(c, {"stamped"}, "done")
    /\ db' = tx[c]
    /\ Sees(c, None)
    /\ Ends(c)
    /\ UNCHANGED <<world, target>>

ForeignFile == [foreign |-> TRUE]

\* Any other program creates the destination.
ForeignTarget ==
    /\ "target" \in Env
    /\ target = {}
    /\ target' = {ForeignFile}
    /\ UNCHANGED <<world, db, writer, tx, pc, view>>

\* A newer release migrates the file to its format.
NewerRelease ==
    /\ "newer" \in Env
    /\ writer = None
    /\ \E comp \in Components :
          /\ Status(db, comp) \in {"legacy", "current"}
          /\ db' = [db EXCEPT !.meta = TRUE, !.storageFormat[comp] = "future"]
    /\ UNCHANGED <<world, writer, tx, pc, view, target>>

-----------------------------------------------------------------------------
FileInit ==
    /\ world \in Worlds
    /\ db = world.file
    /\ writer = None
    /\ tx = [c \in Conns |-> None]
    /\ pc = [c \in Conns |-> "closed"]
    /\ view = [c \in Conns |-> None]
    /\ target = {}

Open(c) ==
    \/ OpenTables(c) \/ OpenUncertain(c) \/ OpenStorageFormat(c) \/ OpenDocumentFormat(c)
    \/ OpenCreate(c) \/ OpenCurrent(c) \/ OpenLegacy(c) \/ OpenLegacyInvalid(c) \/ OpenLocked(c)

Migrate(c) ==
    \/ MigrateBegin(c) \/ MigrateInspect(c) \/ MigrateResolve(c) \/ MigrateCopy(c)
    \/ MigratePublish(c) \/ MigrateStamp(c) \/ MigrateCommit(c)

FileNext ==
    \/ \E c \in Conns :
          \/ Open(c) \/ Migrate(c)
          \/ Commit(c) \/ RollBack(c) \/ Interrupted(c) \/ Close(c) \/ Crash(c)
    \/ ForeignTarget
    \/ NewerRelease

-----------------------------------------------------------------------------
(* Properties *)

InTransaction == {"opening", "writing", "wedged", "inspect", "resolve", "copy", "publish",
                  "stamp", "stamped"}

\* The writer lock is held exactly by the connection with a write transaction
\* under way, so there is never more than one private copy to install.
FileTypeOK ==
    /\ pc \in [Conns -> InTransaction \cup
                  {"closed", "uncertain", "complete", "halfread", "absent", "legacy", "current",
                   "open", "receipt", "reading", "refused", "done"}]
    /\ writer \in Conns \cup {None}
    /\ \A c \in Conns : (pc[c] \in InTransaction) <=> (writer = c)

\* A store is open only on a file it may read (docs/getting-started/
\* storage-migrations.md, `Fail-closed cases'): its tables are there, both
\* format rows are current, and the documents it took over were valid.  Nobody
\* but a newer release (excluded here) changes that under an open store.
OpenMeansCurrent ==
    "newer" \notin Env => \A c \in Conns :
        pc[c] \in {"open", "writing", "receipt", "reading"} =>
            /\ db.tables[Kind(c)] = "complete"
            /\ db.storageFormat[Kind(c)] = "current"
            /\ db.documentFormat[Kind(c)] = "current"
            /\ Kind(c) \in db.migrated => db.valid[Kind(c)]
            /\ Kind(c) = "registry" => db.registry.journalled

\* The backup is the file as it was right before the migration, whoever else
\* was using it, and an existing destination is never overwritten.
BackupIsWhatWasMigrated ==
    [][/\ target # {} => target' = target
       /\ \A c \in Conns :
             pc[c] = "stamped" /\ pc'[c] = "done" /\ view[c] # None => target = {db}]_fileVars

\* What opening promises (docs/getting-started/storage-migrations.md:62): a
\* valid v0 or current file opens, whoever opens or migrates it at the same time.
SoundFile(d) == \A comp \in Present(d) : Status(d, comp) \in {"legacy", "current"}
ValidStorageOpens ==
    SoundFile(world.file) => \A c \in Conns : Kind(c) \in Stores => pc[c] # "refused"

\* A format of a newer release is refused, never stamped over.
FutureUntouched ==
    [][\A comp \in Components :
          db.storageFormat[comp] = "future" => db'.storageFormat[comp] = "future"]_fileVars

\* The writer lock is given back without closing the connection.
LockReturned == \A c \in Conns : pc[c] # "wedged"

=============================================================================
