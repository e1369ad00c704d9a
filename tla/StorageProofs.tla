----------------------------- MODULE StorageProofs -----------------------------
(***************************************************************************)
(* Proofs about SQLiteStorage, for any number of processes, keys, runs,    *)
(* contracts and initial files: one transaction at a time has the file,    *)
(* what is committed is the abstract registry write by write, receipts are *)
(* exact, traces replay, and stores are open on current files only.        *)
(*                                                                         *)
(* The argument is about the private copy of the one transaction: for as   *)
(* long as the transaction lasts it is the committed file with at most one *)
(* call applied, because nobody else can commit meanwhile.  What openers,  *)
(* receipts and the migration command have read before is related to the   *)
(* file as it is now: it only grew.                                        *)
(***************************************************************************)
EXTENDS SQLiteStorage, FiniteSetTheorems, TLAPS

Stable == "newer" \notin Env

Opened == {"open", "writing", "receipt", "reading"}
Migrating == {"inspect", "resolve", "copy", "publish", "stamp", "stamped"}

-----------------------------------------------------------------------------
(* What relates two contents of the file *)

\* Both format rows of a component are the current ones.
CurrentIn(d, comp) ==
    d.storageFormat[comp] = "current" /\ d.documentFormat[comp] = "current"

\* A store may be open on the file.
Ready(d, comp) ==
    /\ d.tables[comp] = "complete"
    /\ Stable => CurrentIn(d, comp)
    /\ comp = "registry" => d.registry.journalled

\* Tables and current format rows of d are still there in e, documents as valid.
Keeps(d, e) ==
    /\ e.valid = d.valid
    /\ \A comp \in Components :
          /\ d.tables[comp] = "complete" => e.tables[comp] = "complete"
          /\ d.storageFormat[comp] = "current" => e.storageFormat[comp] = "current"
          /\ d.documentFormat[comp] = "current" => e.documentFormat[comp] = "current"

\* A file whose parts are sound, and whose migrated documents were valid.
GoodFile(d) ==
    /\ IsFile(d)
    /\ IsRegistry(d.registry)
    /\ IsTraces(d.trace)
    /\ \A comp \in d.migrated : d.valid[comp]

\* The registry as it was, or given the journal table that it lacked.
Upgraded(r, s) ==
    \/ s = r
    \/ ~r.journalled /\ s = [r EXCEPT !.journalled = TRUE, !.attested = r.version]

\* The call o, its checks passed, was carried out on r.
Effect(o, r, s) ==
    /\ r.version < MaxVersion
    /\ r.journalled
    /\ \/ \E k \in Keys, t \in Contracts, replace \in BOOLEAN :
             /\ o = [op |-> "register", key |-> k, tool |-> t, replace |-> replace]
             /\ replace \/ r.tools[k] = Absent
             /\ s = Bumped(r, {k}, [r.tools EXCEPT ![k] = t])
       \/ \E k \in Keys, t \in Contracts, fp \in Fps :
             /\ o = [op |-> "replace", key |-> k, tool |-> t, fp |-> fp, version |-> r.version]
             /\ r.tools[k] # Absent /\ FpOf[r.tools[k]] = fp
             /\ s = Bumped(r, {k}, [r.tools EXCEPT ![k] = t])
       \/ \E k \in Keys, fp \in Fps :
             /\ o = [op |-> "unregister_if", key |-> k, fp |-> fp, version |-> r.version]
             /\ r.tools[k] # Absent /\ FpOf[r.tools[k]] = fp
             /\ s = Bumped(r, {k}, [r.tools EXCEPT ![k] = Absent])
       \/ \E k \in Keys :
             /\ o = [op |-> "unregister", key |-> k]
             /\ r.tools[k] # Absent
             /\ s = Bumped(r, {k}, [r.tools EXCEPT ![k] = Absent])
       \/ \E ks \in SUBSET Keys : \E batch \in [ks -> Contracts], replace \in BOOLEAN :
             /\ \/ o = [op |-> "update_many", batch |-> batch, replace |-> replace]
                \/ o = [op |-> "update_many_if", batch |-> batch, version |-> r.version,
                        replace |-> replace]
             /\ ks # {} /\ (replace \/ ks \cap PresentIn(r.tools) = {})
             /\ s = Bumped(r, ks, Over(r.tools, batch))
       \/ \E ks \in SUBSET Keys : \E expected \in [ks -> Fps] :
             /\ ks # {} /\ \A k \in ks : r.tools[k] # Absent /\ FpOf[r.tools[k]] = expected[k]
             /\ \/ /\ o = [op |-> "unregister_many", expected |-> expected,
                            version |-> r.version]
                   /\ s = Bumped(r, ks, Over(r.tools, [k \in ks |-> Absent]))
                \/ \E previous \in [ks -> Contracts \cup {Absent}] :
                      /\ o = [op |-> "restore_many", previous |-> previous,
                              expected |-> expected, version |-> r.version]
                      /\ s = Bumped(r, ks, Over(r.tools, previous))

\* s is r some calls later.
Later(r, s) ==
    /\ r.version <= s.version
    /\ \A w \in 1 .. r.version : s.wrote[w] = r.wrote[w]
    /\ r.journalled => s.journalled /\ s.attested = r.attested

Grown(t, u) == \A r \in Runs : Extends(u.events[r], t.events[r])

-----------------------------------------------------------------------------
(* The inductive invariant, one part per actor *)

\* The private copy of c's transaction.
CopyOK(c) ==
    /\ GoodFile(tx[c])
    /\ Keeps(db, tx[c])
    /\ pc[c] = "opening" => Ready(tx[c], Kind(c))
    /\ IF pc[c] = "writing" /\ Kind(c) = "registry"
       THEN Effect(call[c], db.registry, tx[c].registry)
       ELSE Upgraded(db.registry, tx[c].registry)
    /\ IF pc[c] = "writing" /\ Kind(c) = "trace"
       THEN Grown(db.trace, tx[c].trace)
       ELSE tx[c].trace = db.trace

\* What an opener has found out about the file.
OpenerOK(c) ==
    /\ pc[c] \in {"complete", "halfread", "legacy", "current"} =>
          db.tables[Kind(c)] = "complete"
    /\ Stable /\ pc[c] = "halfread" /\ view[c].storageFormat = "current" =>
          db.storageFormat[Kind(c)] = "current"
    /\ pc[c] = "halfread" => view[c].storageFormat \in Formats
    /\ Stable /\ pc[c] = "current" => CurrentIn(db, Kind(c))
    /\ pc[c] \in Opened => Ready(db, Kind(c))

\* What the migration command has copied.
MigratorOK(c) ==
    /\ pc[c] \in Migrating <=> Kind(c) = "migrator" /\ pc[c] \notin {"closed", "refused", "done"}
    /\ Kind(c) = "migrator" /\ pc[c] \in {"closed", "inspect", "resolve", "copy"} => view[c] = None
    /\ pc[c] = "publish" => view[c] = [copy |-> db]
    /\ pc[c] \in {"stamp", "stamped"} /\ view[c] # None => target = {db}

\* The snapshot a receipt is computed from, and the last receipt.
ReceiptOK(c) ==
    /\ pc[c] = "receipt" =>
          /\ IsRegistry(view[c].snapshot) /\ view[c].snapshot.journalled
          /\ view[c].from \in 0 .. view[c].snapshot.version
          /\ Later(view[c].snapshot, db.registry)
    /\ receipt[c] # None =>
          /\ db.registry.journalled
          /\ receipt[c].from \in 0 .. receipt[c].to
          /\ receipt[c].to \in 0 .. db.registry.version

StorageTypes ==
    /\ world \in Worlds
    /\ FileTypeOK
    /\ DOMAIN tx = Conns /\ DOMAIN view = Conns
    /\ DOMAIN call = Conns /\ DOMAIN receipt = Conns
    /\ GoodFile(db)

StorageInv ==
    /\ StorageTypes
    /\ \A c \in Conns : writer = c /\ pc[c] # "wedged" => CopyOK(c)
    /\ \A c \in Conns : OpenerOK(c) /\ MigratorOK(c) /\ ReceiptOK(c)
    /\ ReceiptExact

-----------------------------------------------------------------------------
(* What the steps do to a file *)

FileFields == {"tables", "meta", "storageFormat", "documentFormat", "valid", "migrated",
               "registry", "trace"}

\* A file by its fields.
LEMMA FileByFields ==
    ASSUME NEW e, e = [x \in DOMAIN e |-> e[x]], DOMAIN e = FileFields,
           e.tables \in [Components -> {"absent", "partial", "complete"}],
           e.storageFormat \in [Components -> Formats],
           e.documentFormat \in [Components -> Formats],
           e.valid \in [Components -> BOOLEAN], e.migrated \subseteq Components
    PROVE  IsFile(e)
  BY DEF IsFile, FileFields

\* The domain of a file.
LEMMA FileDomain ==
    ASSUME NEW d, IsFile(d)
    PROVE  DOMAIN d = FileFields
  BY DEF IsFile, FileFields

\* Another registry or other traces in a file.
LEMMA FileWith ==
    ASSUME NEW d, IsFile(d), NEW g
    PROVE  /\ LET e == [d EXCEPT !.registry = g]
              IN /\ IsFile(e) /\ e.registry = g /\ e.trace = d.trace
                 /\ e.migrated = d.migrated /\ e.valid = d.valid /\ Keeps(d, e)
           /\ LET e == [d EXCEPT !.trace = g]
              IN /\ IsFile(e) /\ e.trace = g /\ e.registry = d.registry
                 /\ e.migrated = d.migrated /\ e.valid = d.valid /\ Keeps(d, e)
<1>1. LET e == [d EXCEPT !.registry = g]
      IN /\ IsFile(e) /\ e.registry = g /\ e.trace = d.trace
         /\ e.migrated = d.migrated /\ e.valid = d.valid /\ Keeps(d, e)
  BY FileDomain, FileByFields DEF IsFile, FileFields, Keeps
<1>2. LET e == [d EXCEPT !.trace = g]
      IN /\ IsFile(e) /\ e.trace = g /\ e.registry = d.registry
         /\ e.migrated = d.migrated /\ e.valid = d.valid /\ Keeps(d, e)
  BY FileDomain, FileByFields DEF IsFile, FileFields, Keeps
<1> QED
  BY <1>1, <1>2

\* Stamping a component touches its format rows only.
LEMMA StampedFile ==
    ASSUME NEW d, IsFile(d), NEW comp \in Components
    PROVE  LET e == Stamped(d, comp)
           IN /\ IsFile(e) /\ CurrentIn(e, comp) /\ Keeps(d, e) /\ e.tables = d.tables
              /\ e.valid = d.valid /\ e.migrated = d.migrated
              /\ e.registry = d.registry /\ e.trace = d.trace
<1> DEFINE e == Stamped(d, comp)
<1>1. /\ e.registry = d.registry /\ e.tables = d.tables /\ e.valid = d.valid
      /\ e.trace = d.trace
      /\ e.migrated = d.migrated /\ DOMAIN e = DOMAIN d /\ e = [x \in DOMAIN e |-> e[x]]
  BY DEF Stamped, IsFile
<1>2. /\ e.storageFormat = [d.storageFormat EXCEPT ![comp] = "current"]
      /\ e.documentFormat = [d.documentFormat EXCEPT ![comp] = "current"]
  BY DEF Stamped, IsFile
<1> HIDE DEF e
<1>3. "current" \in Formats
  BY DEF Formats
<1>4. IsFile(e)
  BY <1>1, <1>2, <1>3, FileDomain, FileByFields DEF IsFile
<1>5. CurrentIn(e, comp) /\ Keeps(d, e)
  BY <1>1, <1>2 DEF CurrentIn, Keeps, IsFile
<1> QED
  BY <1>1, <1>4, <1>5 DEF e

\* Migrating a component stamps it and records that.
LEMMA MigratedFile ==
    ASSUME NEW d, IsFile(d), NEW comp \in Components
    PROVE  LET e == Migrated(d, comp)
           IN /\ IsFile(e) /\ CurrentIn(e, comp) /\ Keeps(d, e) /\ e.tables = d.tables
              /\ e.valid = d.valid /\ e.migrated = d.migrated \cup {comp}
              /\ e.registry = d.registry /\ e.trace = d.trace
<1> DEFINE c == Stamped(d, comp)
           e == [c EXCEPT !.migrated = c.migrated \cup {comp}]
<1>1. /\ IsFile(c) /\ CurrentIn(c, comp) /\ Keeps(d, c) /\ c.tables = d.tables
      /\ c.valid = d.valid /\ c.migrated = d.migrated
      /\ c.registry = d.registry /\ c.trace = d.trace
  BY StampedFile
<1>2. Migrated(d, comp) = e
  BY DEF Migrated
<1> HIDE DEF c
<1>3. /\ e.registry = c.registry /\ e.tables = c.tables /\ e.valid = c.valid
      /\ e.trace = c.trace
      /\ e.migrated = c.migrated \cup {comp} /\ DOMAIN e = DOMAIN c
      /\ e = [x \in DOMAIN e |-> e[x]]
      /\ e.storageFormat = c.storageFormat /\ e.documentFormat = c.documentFormat
  BY <1>1 DEF IsFile
<1> HIDE DEF e
<1>4. IsFile(e)
  BY <1>1, <1>3, FileDomain, FileByFields DEF IsFile
<1>5. CurrentIn(e, comp) /\ Keeps(d, e)
  BY <1>1, <1>3 DEF CurrentIn, Keeps
<1> QED
  BY <1>1, <1>2, <1>3, <1>4, <1>5

\* Creating the tables of a component.
LEMMA CompleteFile ==
    ASSUME NEW d, IsFile(d), NEW comp \in Components
    PROVE  LET e == [d EXCEPT !.tables[comp] = "complete"]
           IN /\ IsFile(e) /\ Keeps(d, e) /\ e.tables[comp] = "complete"
              /\ e.valid = d.valid /\ e.migrated = d.migrated
              /\ e.registry = d.registry /\ e.trace = d.trace
<1> DEFINE e == [d EXCEPT !.tables[comp] = "complete"]
<1>1. /\ e.registry = d.registry /\ e.valid = d.valid /\ e.storageFormat = d.storageFormat
      /\ e.documentFormat = d.documentFormat /\ e.migrated = d.migrated
      /\ e.trace = d.trace
      /\ DOMAIN e = DOMAIN d /\ e = [x \in DOMAIN e |-> e[x]]
      /\ e.tables = [d.tables EXCEPT ![comp] = "complete"]
  BY DEF IsFile
<1> HIDE DEF e
<1>2. IsFile(e) /\ Keeps(d, e) /\ e.tables[comp] = "complete"
  BY <1>1, FileDomain, FileByFields DEF IsFile, Keeps
<1> QED
  BY <1>1, <1>2 DEF e

\* A newer release changes a format row and nothing that a store reads.
LEMMA FutureFile ==
    ASSUME NEW d, IsFile(d), NEW comp \in Components
    PROVE  LET e == [d EXCEPT !.meta = TRUE, !.storageFormat[comp] = "future"]
           IN /\ IsFile(e) /\ e.tables = d.tables
              /\ e.valid = d.valid /\ e.migrated = d.migrated
              /\ e.registry = d.registry /\ e.trace = d.trace
<1> DEFINE e == [d EXCEPT !.meta = TRUE, !.storageFormat[comp] = "future"]
<1>1. /\ e.registry = d.registry /\ e.valid = d.valid /\ e.tables = d.tables
      /\ e.documentFormat = d.documentFormat /\ e.migrated = d.migrated
      /\ e.trace = d.trace
      /\ DOMAIN e = DOMAIN d /\ e = [x \in DOMAIN e |-> e[x]]
      /\ e.storageFormat = [d.storageFormat EXCEPT ![comp] = "future"]
  BY DEF IsFile
<1> HIDE DEF e
<1>2. "future" \in Formats
  BY DEF Formats
<1>3. IsFile(e)
  BY <1>1, <1>2, FileDomain, FileByFields DEF IsFile
<1> QED
  BY <1>1, <1>3 DEF e

\* What is kept is kept in several steps.
LEMMA KeepsTwice ==
    ASSUME NEW d, NEW e, NEW f, Keeps(d, e), Keeps(e, f)
    PROVE  Keeps(d, f)
  BY DEF Keeps

LEMMA KeepsSame ==
    ASSUME NEW d
    PROVE  Keeps(d, d)
  BY DEF Keeps

\* Giving a registry its journal table leaves it a registry.
LEMMA UpgradedRegistry ==
    ASSUME NEW r, NEW s, IsRegistry(r), Upgraded(r, s)
    PROVE  /\ IsRegistry(s)
           /\ s.version = r.version /\ s.tools = r.tools /\ s.past = r.past /\ s.wrote = r.wrote
           /\ s.journal = r.journal
           /\ r.journalled => s = r
<1>1. CASE ~r.journalled /\ s = [r EXCEPT !.journalled = TRUE, !.attested = r.version]
  <2>1. s = [tools |-> r.tools, version |-> r.version, journalled |-> TRUE,
            journal |-> r.journal, past |-> r.past, wrote |-> r.wrote, attested |-> r.version]
    BY <1>1 DEF IsRegistry
  <2>2. {x \in 1 .. r.version : /\ r.journalled /\ x > r.attested
                               /\ x > r.version - JournalVersions} = {}
    BY <1>1
  <2>3. {x \in 1 .. s.version : /\ s.journalled /\ x > s.attested
                               /\ x > s.version - JournalVersions} = {}
    BY <2>1 DEF IsRegistry
  <2>4. r.journal = [w \in {} |-> Row(r.wrote[w])]
    BY <2>2 DEF IsRegistry
  <2>5. s.journal = [w \in {} |-> Row(s.wrote[w])]
    BY <2>1, <2>4
  <2>6. s.journal = [w \in {x \in 1 .. s.version : /\ s.journalled /\ x > s.attested
                                                 /\ x > s.version - JournalVersions}
                       |-> Row(s.wrote[w])]
    BY <2>3, <2>5
  <2>7. /\ s.version = r.version /\ s.tools = r.tools /\ s.past = r.past /\ s.wrote = r.wrote
        /\ s.journal = r.journal /\ s.journalled = TRUE /\ s.attested = r.version
    BY <2>1
  <2>8. s = [tools |-> s.tools, version |-> s.version, journalled |-> s.journalled,
            journal |-> s.journal, past |-> s.past, wrote |-> s.wrote, attested |-> s.attested]
    BY <2>1, <2>7
  <2> QED
    BY <1>1, <2>6, <2>7, <2>8 DEF IsRegistry
<1>2. CASE s = r
  BY <1>2
<1> QED
  BY <1>1, <1>2 DEF Upgraded

\* The journal table is created for a registry that has none.
LEMMA WithJournalFile ==
    ASSUME NEW d, GoodFile(d), NEW comp \in Components
    PROVE  LET e == WithJournal(d, comp)
           IN /\ GoodFile(e) /\ Keeps(d, e) /\ e.tables = d.tables
              /\ e.valid = d.valid /\ e.migrated = d.migrated /\ e.trace = d.trace
              /\ e.storageFormat = d.storageFormat /\ e.documentFormat = d.documentFormat
              /\ Upgraded(d.registry, e.registry)
              /\ comp = "registry" => e.registry.journalled
<1> DEFINE r == d.registry
           s == [r EXCEPT !.journalled = TRUE, !.attested = r.version]
<1>1. CASE comp = "registry" /\ ~r.journalled
  <2>1. WithJournal(d, comp) = [d EXCEPT !.registry.journalled = TRUE,
                                         !.registry.attested = d.registry.version]
    BY <1>1 DEF WithJournal
  <2>2. IsFile(d) /\ IsRegistry(r)
    BY DEF GoodFile
  <2>3. WithJournal(d, comp).registry = s
    BY <2>1, <2>2 DEF IsFile, IsRegistry
  <2>4. WithJournal(d, comp) = [d EXCEPT !.registry = s]
    BY <2>1, <2>2, <2>3 DEF IsFile
  <2>5. IsRegistry(s) /\ s.journalled /\ Upgraded(r, s)
    <3>1. Upgraded(r, s)
      BY <1>1 DEF Upgraded
    <3>2. s.journalled
      BY <2>2 DEF IsRegistry
    <3> QED
      BY <2>2, <3>1, <3>2, UpgradedRegistry
  <2> HIDE DEF s
  <2> DEFINE e == [d EXCEPT !.registry = s]
  <2>6. /\ IsFile(e) /\ e.registry = s /\ e.trace = d.trace
        /\ e.migrated = d.migrated /\ e.valid = d.valid /\ Keeps(d, e)
    BY <2>2, FileWith
  <2>7. e.tables = d.tables /\ e.storageFormat = d.storageFormat
        /\ e.documentFormat = d.documentFormat
    BY <2>2 DEF IsFile
  <2> HIDE DEF e
  <2> QED
    BY <2>4, <2>5, <2>6, <2>7 DEF GoodFile, e
<1>2. CASE ~(comp = "registry" /\ ~r.journalled)
  <2>1. WithJournal(d, comp) = d
    BY <1>2 DEF WithJournal
  <2> QED
    BY <1>2, <2>1, KeepsSame DEF Upgraded, GoodFile, IsRegistry
<1> QED
  BY <1>1, <1>2

\* What an opener commits: a new component, ...
LEMMA CreatedFile ==
    ASSUME NEW d, GoodFile(d), NEW comp \in Components
    PROVE  LET e == Created(d, comp)
           IN /\ GoodFile(e) /\ Keeps(d, e) /\ e.trace = d.trace /\ Ready(e, comp)
              /\ Upgraded(d.registry, e.registry)
<1> DEFINE t == [d EXCEPT !.tables[comp] = "complete"]
           j == WithJournal(t, comp)
           e == Stamped(j, comp)
<1>1. /\ IsFile(t) /\ Keeps(d, t) /\ t.tables[comp] = "complete" /\ t.valid = d.valid
      /\ t.migrated = d.migrated /\ t.registry = d.registry /\ t.trace = d.trace
  BY CompleteFile DEF GoodFile
<1>2. Created(d, comp) = e
  BY DEF Created
<1> HIDE DEF t
<1>3. GoodFile(t)
  BY <1>1 DEF GoodFile
<1>4. /\ GoodFile(j) /\ Keeps(t, j) /\ j.tables = t.tables /\ j.valid = t.valid
      /\ j.migrated = t.migrated /\ j.trace = t.trace /\ Upgraded(t.registry, j.registry)
      /\ comp = "registry" => j.registry.journalled
  BY <1>3, WithJournalFile
<1> HIDE DEF j
<1>5. /\ IsFile(e) /\ CurrentIn(e, comp) /\ Keeps(j, e) /\ e.tables = j.tables
      /\ e.valid = j.valid /\ e.migrated = j.migrated
      /\ e.registry = j.registry /\ e.trace = j.trace
  BY <1>4, StampedFile DEF GoodFile
<1> HIDE DEF e
<1>6. GoodFile(e)
  BY <1>4, <1>5 DEF GoodFile
<1>7. Keeps(d, e)
  BY <1>1, <1>4, <1>5, KeepsTwice
<1>8. Ready(e, comp)
  BY <1>1, <1>4, <1>5 DEF Ready
<1>9. Upgraded(d.registry, e.registry) /\ e.trace = d.trace
  BY <1>1, <1>4, <1>5
<1> QED
  BY <1>2, <1>6, <1>7, <1>8, <1>9

\* ... a current one, ...
LEMMA CurrentFile ==
    ASSUME NEW d, GoodFile(d), NEW comp \in Components,
           d.tables[comp] = "complete", Stable => CurrentIn(d, comp)
    PROVE  LET e == WithJournal(d, comp)
           IN /\ GoodFile(e) /\ Keeps(d, e) /\ e.trace = d.trace /\ Ready(e, comp)
              /\ Upgraded(d.registry, e.registry)
<1> DEFINE e == WithJournal(d, comp)
<1>1. /\ GoodFile(e) /\ Keeps(d, e) /\ e.tables = d.tables /\ e.trace = d.trace
      /\ e.storageFormat = d.storageFormat /\ e.documentFormat = d.documentFormat
      /\ Upgraded(d.registry, e.registry)
      /\ comp = "registry" => e.registry.journalled
  BY WithJournalFile
<1> HIDE DEF e
<1>2. Ready(e, comp)
  BY <1>1 DEF Ready, CurrentIn
<1> QED
  BY <1>1, <1>2 DEF e

\* ... or a legacy one whose documents are valid.
LEMMA LegacyFile ==
    ASSUME NEW d, GoodFile(d), NEW comp \in Components,
           d.tables[comp] = "complete", d.valid[comp]
    PROVE  LET e == Migrated(WithJournal(d, comp), comp)
           IN /\ GoodFile(e) /\ Keeps(d, e) /\ e.trace = d.trace /\ Ready(e, comp)
              /\ Upgraded(d.registry, e.registry)
<1> DEFINE j == WithJournal(d, comp)
           e == Migrated(j, comp)
<1>1. /\ GoodFile(j) /\ Keeps(d, j) /\ j.tables = d.tables /\ j.trace = d.trace
      /\ j.valid = d.valid /\ Upgraded(d.registry, j.registry)
      /\ comp = "registry" => j.registry.journalled
  BY WithJournalFile
<1> HIDE DEF j
<1>2. /\ IsFile(e) /\ CurrentIn(e, comp) /\ Keeps(j, e) /\ e.tables = j.tables
      /\ e.valid = j.valid /\ e.migrated = j.migrated \cup {comp}
      /\ e.registry = j.registry /\ e.trace = j.trace
  BY <1>1, MigratedFile DEF GoodFile
<1> HIDE DEF e
<1>3. GoodFile(e)
  BY <1>1, <1>2 DEF GoodFile
<1>4. Keeps(d, e)
  BY <1>1, <1>2, KeepsTwice
<1>5. Ready(e, comp) /\ Upgraded(d.registry, e.registry) /\ e.trace = d.trace
  BY <1>1, <1>2 DEF Ready
<1> QED
  BY <1>3, <1>4, <1>5 DEF e, j

\* The migration command stamps components with valid documents and touches
\* nothing else.
LEMMA AllMigratedFile ==
    ASSUME NEW d, GoodFile(d)
    PROVE  LET e == AllMigrated(d, Legacy(d))
           IN /\ GoodFile(e) /\ Keeps(d, e) /\ e.trace = d.trace /\ e.registry = d.registry
<1>1. \A comp \in Legacy(d) : comp \in Components /\ d.valid[comp]
  <2> SUFFICES ASSUME NEW comp \in Legacy(d)
               PROVE  comp \in Components /\ d.valid[comp]
    OBVIOUS
  <2>1. comp \in Components /\ Status(d, comp) = "legacy"
    BY DEF Legacy, Present
  <2> QED
    BY <2>1 DEF Status
<1> DEFINE one(a, comp) == IF comp \in Legacy(d) THEN Migrated(a, comp) ELSE a
<1>2. ASSUME NEW a, GoodFile(a), a.valid = d.valid, NEW comp \in Components
      PROVE  /\ GoodFile(one(a, comp)) /\ Keeps(a, one(a, comp))
             /\ one(a, comp).valid = d.valid
             /\ one(a, comp).trace = a.trace /\ one(a, comp).registry = a.registry
  <2>1. CASE comp \in Legacy(d)
    <3> DEFINE e == Migrated(a, comp)
    <3>1. /\ IsFile(e) /\ Keeps(a, e) /\ e.valid = a.valid
          /\ e.migrated = a.migrated \cup {comp}
          /\ e.registry = a.registry /\ e.trace = a.trace
      BY <1>2, MigratedFile DEF GoodFile
    <3> HIDE DEF e
    <3>2. GoodFile(e)
      BY <1>1, <1>2, <2>1, <3>1 DEF GoodFile
    <3> QED
      BY <1>2, <2>1, <3>1, <3>2 DEF e
  <2>2. CASE comp \notin Legacy(d)
    BY <1>2, <2>2, KeepsSame
  <2> QED
    BY <2>1, <2>2
<1> DEFINE b == one(d, "registry")
           e == one(b, "trace")
<1>3. AllMigrated(d, Legacy(d)) = e
  BY DEF AllMigrated
<1>4. /\ GoodFile(b) /\ Keeps(d, b) /\ b.valid = d.valid
      /\ b.trace = d.trace /\ b.registry = d.registry
  BY <1>2 DEF Components
<1> HIDE DEF b
<1>5. GoodFile(e) /\ Keeps(b, e) /\ e.trace = b.trace /\ e.registry = b.registry
  BY <1>2, <1>4 DEF Components
<1> HIDE DEF e
<1> QED
  BY <1>3, <1>4, <1>5, KeepsTwice

-----------------------------------------------------------------------------
(* What a call does to the registry *)

\* The versions the journal of r has a row for.
JournalOf(r) == {x \in 1 .. r.version : /\ r.journalled /\ x > r.attested
                                        /\ x > r.version - JournalVersions}

LEMMA JournalIsWindow ==
    ASSUME NEW r, IsRegistry(r)
    PROVE  /\ DOMAIN r.journal = JournalOf(r)
           /\ \A w \in JournalOf(r) : r.journal[w] = Row(r.wrote[w])
  BY DEF IsRegistry, JournalOf

\* What _bump_version leaves, field by field.
LEMMA BumpedFields ==
    ASSUME NEW r, IsRegistry(r), NEW ks, NEW cat
    PROVE  LET s == Bumped(r, ks, cat)  v == r.version + 1
               kept == {w \in DOMAIN r.journal : w > v - JournalVersions}
           IN s = [tools |-> cat, version |-> v, journalled |-> r.journalled,
                   journal |-> [w \in kept \cup {v} |-> IF w = v THEN Row(ks) ELSE r.journal[w]],
                   past |-> [w \in 0 .. v |-> IF w = v THEN cat ELSE r.past[w]],
                   wrote |-> [w \in 1 .. v |-> IF w = v THEN ks ELSE r.wrote[w]],
                   attested |-> r.attested]
<1> DEFINE v == r.version + 1
           kept == {w \in DOMAIN r.journal : w > v - JournalVersions}
           rows == [w \in kept \cup {v} |-> IF w = v THEN Row(ks) ELSE r.journal[w]]
           past == [w \in 0 .. v |-> IF w = v THEN cat ELSE r.past[w]]
           wrote == [w \in 1 .. v |-> IF w = v THEN ks ELSE r.wrote[w]]
<1> HIDE DEF rows, past, wrote
<1>1. r = [tools |-> r.tools, version |-> r.version, journalled |-> r.journalled,
          journal |-> r.journal, past |-> r.past, wrote |-> r.wrote, attested |-> r.attested]
  BY DEF IsRegistry
<1>2. Bumped(r, ks, cat) = [r EXCEPT !.tools = cat, !.version = v, !.journal = rows,
                                     !.past = past, !.wrote = wrote]
  BY DEF Bumped, rows, past, wrote
<1> QED
  BY <1>1, <1>2 DEF rows, past, wrote, kept, v

\* It is a registry whose journal is the window of its last versions.
LEMMA BumpedRegistry ==
    ASSUME NEW r, IsRegistry(r), r.journalled, NEW ks \in SUBSET Keys, NEW cat \in Catalogs
    PROVE  LET s == Bumped(r, ks, cat)
           IN /\ IsRegistry(s) /\ Later(r, s)
              /\ s.version = r.version + 1 /\ s.tools = cat
              /\ s.journalled /\ s.attested = r.attested
<1> DEFINE v == r.version + 1
           kept == {w \in DOMAIN r.journal : w > v - JournalVersions}
           rows == [w \in kept \cup {v} |-> IF w = v THEN Row(ks) ELSE r.journal[w]]
           past == [w \in 0 .. v |-> IF w = v THEN cat ELSE r.past[w]]
           wrote == [w \in 1 .. v |-> IF w = v THEN ks ELSE r.wrote[w]]
           s == [tools |-> cat, version |-> v, journalled |-> r.journalled,
                 journal |-> rows, past |-> past, wrote |-> wrote, attested |-> r.attested]
<1>1. Bumped(r, ks, cat) = s
  BY BumpedFields
<1>2. v \in Nat /\ r.version \in Nat /\ r.attested \in 0 .. r.version
  BY DEF IsRegistry
<1>3. JournalVersions \in Nat \ {0}
  BY SQLiteAssumption
<1>4. past \in [0 .. v -> Catalogs] /\ past[v] = cat
  BY <1>2 DEF IsRegistry
<1>5. wrote \in [1 .. v -> SUBSET Keys]
  BY <1>2 DEF IsRegistry
<1>6. kept \cup {v} = {x \in 1 .. v : x > r.attested /\ x > v - JournalVersions}
  BY <1>2, <1>3, JournalIsWindow DEF JournalOf
<1>7. \A w \in kept : w # v /\ r.journal[w] = Row(wrote[w])
  BY <1>2, JournalIsWindow DEF JournalOf
<1>8. rows = [w \in {x \in 1 .. v : r.journalled /\ x > r.attested /\ x > v - JournalVersions}
                |-> Row(wrote[w])]
  <2>1. wrote[v] = ks
    BY <1>2
  <2> HIDE DEF wrote, kept
  <2> QED
    BY <1>6, <1>7, <2>1
<1>9. Later(r, s)
  BY <1>2 DEF Later
<1> HIDE DEF rows, past, wrote
<1>10. IsRegistry(s)
  BY <1>2, <1>4, <1>5, <1>8 DEF IsRegistry
<1> QED
  BY <1>1, <1>9, <1>10

\* Every call writes some keys and leaves a catalog.
LEMMA EffectIsBump ==
    ASSUME NEW o, NEW r, NEW s, IsRegistry(r), Effect(o, r, s)
    PROVE  /\ r.journalled /\ r.version < MaxVersion
           /\ \E ks \in SUBSET Keys, cat \in Catalogs : s = Bumped(r, ks, cat)
<1> USE DEF Effect
<1>1. r.tools \in Catalogs /\ Absent \in Contracts \cup {Absent}
  BY DEF IsRegistry
<1>2. ASSUME NEW k \in Keys, NEW t \in Contracts \cup {Absent}
      PROVE  {k} \in SUBSET Keys /\ [r.tools EXCEPT ![k] = t] \in Catalogs
  BY <1>1 DEF Catalogs
<1>3. ASSUME NEW ks \in SUBSET Keys, NEW b \in [ks -> Contracts \cup {Absent}]
      PROVE  Over(r.tools, b) \in Catalogs
  BY <1>1 DEF Catalogs, Over
<1>4. ASSUME NEW ks \in SUBSET Keys
      PROVE  /\ [k \in ks |-> Absent] \in [ks -> Contracts \cup {Absent}]
             /\ [ks -> Contracts] \subseteq [ks -> Contracts \cup {Absent}]
  OBVIOUS
<1>5. ASSUME NEW k \in Keys, NEW t \in Contracts \cup {Absent},
             s = Bumped(r, {k}, [r.tools EXCEPT ![k] = t])
      PROVE  \E ks \in SUBSET Keys, cat \in Catalogs : s = Bumped(r, ks, cat)
  BY <1>2, <1>5
<1>6. ASSUME NEW ks \in SUBSET Keys, NEW b \in [ks -> Contracts \cup {Absent}],
             s = Bumped(r, ks, Over(r.tools, b))
      PROVE  \E ls \in SUBSET Keys, cat \in Catalogs : s = Bumped(r, ls, cat)
  BY <1>3, <1>6
<1>7. ASSUME NEW ks \in SUBSET Keys, s = Bumped(r, ks, Over(r.tools, [k \in ks |-> Absent]))
      PROVE  \E ls \in SUBSET Keys, cat \in Catalogs : s = Bumped(r, ls, cat)
  BY <1>4, <1>6, <1>7
<1>8. ASSUME NEW ks \in SUBSET Keys, NEW b \in [ks -> Contracts],
             s = Bumped(r, ks, Over(r.tools, b))
      PROVE  \E ls \in SUBSET Keys, cat \in Catalogs : s = Bumped(r, ls, cat)
  BY <1>4, <1>6, <1>8
<1> HIDE DEF Bumped
<1> QED
  BY <1>1, <1>5, <1>6, <1>7, <1>8

LEMMA EffectIsLater ==
    ASSUME NEW o, NEW r, NEW s, IsRegistry(r), Effect(o, r, s)
    PROVE  IsRegistry(s) /\ Later(r, s) /\ s.version = r.version + 1 /\ s.journalled
<1>1. PICK ks \in SUBSET Keys, cat \in Catalogs : s = Bumped(r, ks, cat)
  BY EffectIsBump
<1>2. r.journalled
  BY EffectIsBump
<1> DEFINE b == Bumped(r, ks, cat)
<1>3. IsRegistry(b) /\ Later(r, b) /\ b.version = r.version + 1 /\ b.journalled
  <2>1. r.journalled = TRUE
    BY <1>2 DEF IsRegistry
  <2> QED
    BY <1>2, <2>1, BumpedRegistry DEF Later
<1> QED
  BY <1>1, <1>3

LEMMA UpgradeIsLater ==
    ASSUME NEW r, NEW s, IsRegistry(r), Upgraded(r, s)
    PROVE  IsRegistry(s) /\ Later(r, s) /\ s.version = r.version
<1>1. IsRegistry(s) /\ s.version = r.version /\ s.wrote = r.wrote /\ (r.journalled => s = r)
  BY UpgradedRegistry
<1>2. r.version \in Nat
  BY DEF IsRegistry
<1> QED
  BY <1>1, <1>2 DEF Later

LEMMA LaterTwice ==
    ASSUME NEW r, NEW s, NEW t, r.version \in Nat, s.version \in Nat, t.version \in Nat,
           Later(r, s), Later(s, t)
    PROVE  Later(r, t)
  BY DEF Later

-----------------------------------------------------------------------------
(* What a transaction does to the traces *)

\* Dropping runs whole leaves sound traces, each as it was or gone.
LEMMA DroppedTraces ==
    ASSUME NEW t, IsTraces(t), NEW u, Grown(u, t), NEW gone
    PROVE  IsTraces(WithoutRuns(t, gone)) /\ Grown(u, WithoutRuns(t, gone))
<1> DEFINE s == WithoutRuns(t, gone)
<1>1. s = [runs   |-> [r \in Runs |-> IF r \in gone THEN None ELSE t.runs[r]],
           events |-> [r \in Runs |-> IF r \in gone THEN <<>> ELSE t.events[r]]]
  BY DEF WithoutRuns
<1> HIDE DEF s
<1>2. /\ t.runs \in [Runs -> Summaries \cup {None}]
      /\ t.events \in [Runs -> Seq(EventKinds)]
      /\ \A r \in Runs : TraceSound(t, r)
  BY DEF IsTraces
<1>3. /\ s.runs \in [Runs -> Summaries \cup {None}]
      /\ s.events \in [Runs -> Seq(EventKinds)]
  BY <1>1, <1>2
<1>4. \A r \in Runs : TraceSound(s, r)
  <2> SUFFICES ASSUME NEW r \in Runs PROVE TraceSound(s, r)
    OBVIOUS
  <2>1. CASE r \in gone
    BY <1>1, <2>1 DEF TraceSound
  <2>2. CASE r \notin gone
    <3>1. s.runs[r] = t.runs[r] /\ s.events[r] = t.events[r]
      BY <1>1, <2>2
    <3> QED
      BY <1>2, <3>1 DEF TraceSound
  <2> QED
    BY <2>1, <2>2
<1>5. s = [runs |-> s.runs, events |-> s.events]
  BY <1>1
<1>6. Grown(u, s)
  <2> SUFFICES ASSUME NEW r \in Runs PROVE Extends(s.events[r], u.events[r])
    BY DEF Grown
  <2>1. s.events[r] = <<>> \/ s.events[r] = t.events[r]
    BY <1>1
  <2> QED
    BY <2>1 DEF Grown, Extends
<1> QED
  BY <1>3, <1>4, <1>5, <1>6 DEF IsTraces, s

LEMMA GrownSame ==
    ASSUME NEW t
    PROVE  Grown(t, t)
  BY DEF Grown, Extends

\* A sequence after one more event.
LEMMA AppendedSequence ==
    ASSUME NEW s \in Seq(EventKinds), NEW kind \in EventKinds,
           IF s = <<>> THEN kind = "run.start"
           ELSE Replayable(s) /\ ~Terminal(s) /\ kind # "run.start"
    PROVE  /\ Append(s, kind) \in Seq(EventKinds) /\ Len(Append(s, kind)) = Len(s) + 1
           /\ Replayable(Append(s, kind))
           /\ Terminal(Append(s, kind)) <=> kind = "run.end"
           /\ Extends(Append(s, kind), s)
<1> DEFINE a == Append(s, kind)
<1>1. a \in Seq(EventKinds) /\ Len(a) = Len(s) + 1 /\ a[Len(a)] = kind /\ Len(s) \in Nat
  OBVIOUS
<1>2. \A i \in 1 .. Len(s) : a[i] = s[i]
  OBVIOUS
<1>3. a # <<>>
  BY <1>1
<1>4. SubSeq(a, 1, Len(s)) = s
  OBVIOUS
<1> HIDE DEF a
<1>5. Replayable(a)
  <2>1. CASE s = <<>>
    BY <1>1, <1>3, <2>1 DEF Replayable
  <2>2. CASE s # <<>>
    <3>1. Len(s) >= 1
      BY <1>1, <2>2
    <3>2. s[1] = "run.start" /\ \A i \in 1 .. Len(s) - 1 : s[i] # "run.end"
      BY <2>2 DEF Replayable
    <3>3. s[Len(s)] # "run.end"
      BY <2>2 DEF Terminal
    <3>4. \A i \in 1 .. Len(s) : a[i] # "run.end"
      BY <1>1, <1>2, <3>2, <3>3
    <3> QED
      BY <1>1, <1>2, <1>3, <3>1, <3>2, <3>4 DEF Replayable
  <2> QED
    BY <2>1, <2>2
<1>6. Terminal(a) <=> kind = "run.end"
  BY <1>1, <1>3 DEF Terminal
<1>7. Extends(a, s)
  BY <1>1, <1>4 DEF Extends
<1> QED
  BY <1>1, <1>5, <1>6, <1>7 DEF a

\* An event that may be appended leaves sound traces, one event longer.
LEMMA AppendedTraces ==
    ASSUME IsTraces(db.trace), NEW r \in Runs, NEW n \in Nat, NEW kind \in EventKinds,
           Appendable(r, n, kind)
    PROVE  IsTraces(Appended(r, n, kind)) /\ Grown(db.trace, Appended(r, n, kind))
<1> DEFINE t == db.trace
           s == t.events[r]
           u == Appended(r, n, kind)
<1>1. /\ t.runs \in [Runs -> Summaries \cup {None}]
      /\ t.events \in [Runs -> Seq(EventKinds)]
      /\ \A q \in Runs : TraceSound(t, q)
  BY DEF IsTraces
<1>2. u = [runs   |-> [t.runs EXCEPT ![r] = [last |-> n, terminal |-> kind = "run.end"]],
           events |-> [t.events EXCEPT ![r] = Append(s, kind)]]
  BY DEF Appended, runs, events
<1>3. s \in Seq(EventKinds) /\ TraceSound(t, r)
  BY <1>1
<1>4. /\ n = Len(s)
      /\ IF s = <<>> THEN kind = "run.start"
         ELSE Replayable(s) /\ ~Terminal(s) /\ kind # "run.start"
  <2>1. CASE t.runs[r] = None
    BY <1>3, <2>1 DEF TraceSound, Appendable, runs
  <2>2. CASE t.runs[r] # None
    <3>1. /\ Replayable(s) /\ t.runs[r].last = Len(s) - 1 /\ t.runs[r].terminal = Terminal(s)
      BY <1>3, <2>2 DEF TraceSound
    <3>2. ~t.runs[r].terminal /\ n = t.runs[r].last + 1 /\ (n > 0 => kind # "run.start")
      BY <2>2 DEF Appendable, runs
    <3>3. s # <<>> /\ Len(s) \in Nat /\ Len(s) # 0
      BY <1>3, <3>1 DEF Replayable
    <3> QED
      BY <3>1, <3>2, <3>3
  <2> QED
    BY <2>1, <2>2
<1> DEFINE a == Append(s, kind)
           sum == [last |-> n, terminal |-> kind = "run.end"]
<1>5. /\ a \in Seq(EventKinds) /\ Len(a) = Len(s) + 1 /\ Replayable(a)
      /\ Terminal(a) <=> kind = "run.end"
      /\ Extends(a, s)
  BY <1>3, <1>4, AppendedSequence
<1>6. sum \in Summaries /\ sum.last = n /\ sum.terminal = (kind = "run.end") /\ sum # None
  <2>1. sum \in [last : Nat, terminal : BOOLEAN]
    <3> DEFINE ends == kind = "run.end"
    <3>1. ends \in BOOLEAN
      OBVIOUS
    <3> HIDE DEF ends
    <3>2. [last |-> n, terminal |-> ends] \in [last : Nat, terminal : BOOLEAN]
      BY <3>1
    <3> QED
      BY <3>2 DEF ends
  <2>2. sum.last = n /\ sum.terminal = (kind = "run.end")
    OBVIOUS
  <2> QED
    BY <2>1, <2>2, TraceAssumption DEF Summaries
<1> HIDE DEF a, sum
<1>7. u = [runs |-> [t.runs EXCEPT ![r] = sum], events |-> [t.events EXCEPT ![r] = a]]
  BY <1>2 DEF a, sum
<1> HIDE DEF u
<1>8. /\ u.runs \in [Runs -> Summaries \cup {None}] /\ u.events \in [Runs -> Seq(EventKinds)]
      /\ u.runs[r] = sum /\ u.events[r] = a
      /\ \A q \in Runs \ {r} : u.runs[q] = t.runs[q] /\ u.events[q] = t.events[q]
      /\ u = [runs |-> u.runs, events |-> u.events]
  BY <1>1, <1>5, <1>6, <1>7
<1>9. TraceSound(u, r)
  <2>1. Len(s) \in Nat
    BY <1>3
  <2>2. u.runs[r].last = Len(u.events[r]) - 1
    BY <1>4, <1>5, <1>6, <1>8, <2>1
  <2>3. u.runs[r].terminal = Terminal(u.events[r])
    BY <1>5, <1>6, <1>8 DEF Terminal
  <2> QED
    BY <1>5, <1>6, <1>8, <2>2, <2>3 DEF TraceSound
<1>10. \A q \in Runs \ {r} : TraceSound(u, q)
  BY <1>1, <1>8 DEF TraceSound
<1>11. Grown(t, u)
  BY <1>5, <1>8 DEF Grown, Extends
<1> QED
  BY <1>8, <1>9, <1>10, <1>11 DEF IsTraces, u

-----------------------------------------------------------------------------
(* A step of one connection, as the others see it *)

PCs == InTransaction \cup
       {"closed", "uncertain", "complete", "halfread", "absent", "legacy", "current",
        "open", "receipt", "reading", "refused", "done"}

\* A step of connection c touches no other connection, and the file only by
\* committing the private copy that c holds.
Frame(c) ==
    /\ world' = world
    /\ pc' \in [Conns -> PCs]
    /\ writer' \in Conns \cup {None}
    /\ DOMAIN tx' = Conns /\ DOMAIN view' = Conns
    /\ DOMAIN call' = Conns /\ DOMAIN receipt' = Conns
    /\ \A x \in Conns \ {c} :
          /\ pc'[x] = pc[x] /\ view'[x] = view[x] /\ receipt'[x] = receipt[x]
          /\ writer' = x <=> writer = x
          /\ writer = x => tx'[x] = tx[x] /\ call'[x] = call[x] /\ target' = target
    /\ \/ db' = db
       \/ writer = c /\ pc[c] # "wedged" /\ db' = tx[c]

\* What c itself has to make sure of.
Own(c) ==
    /\ pc'[c] \in InTransaction <=> writer' = c
    /\ writer' = c /\ pc'[c] # "wedged" => CopyOK(c)'
    /\ OpenerOK(c)' /\ MigratorOK(c)' /\ ReceiptOK(c)'

\* c's last receipt is exact.
Exact(c) ==
    receipt[c] # None =>
        LET r == receipt[c]
            written == UNION {db.registry.wrote[w] : w \in r.from + 1 .. r.to}
        IN /\ r.served <=> /\ r.from >= db.registry.attested
                           /\ r.to - r.from <= JournalVersions
                           /\ Cardinality(written) <= ReceiptKeys
           /\ r.served => r.keys = written

LEMMA ExactEach ==
    /\ ReceiptExact <=> \A c \in Conns : Exact(c)
    /\ ReceiptExact' <=> \A c \in Conns : Exact(c)'
  BY DEF ReceiptExact, Exact

\* The kinds of connections never change.
LEMMA Kinds ==
    ASSUME StorageTypes, NEW c \in Conns
    PROVE  Kind(c) \in Components \cup {"migrator"}
  BY FileAssumption DEF StorageTypes, Kind

\* The private copy is a later file.
LEMMA CopyIsLater ==
    ASSUME GoodFile(db), NEW c \in Conns, CopyOK(c)
    PROVE  GoodFile(tx[c]) /\ Keeps(db, tx[c]) /\ Later(db.registry, tx[c].registry)
  BY EffectIsLater, UpgradeIsLater DEF CopyOK, GoodFile

LEMMA FileGrows ==
    ASSUME StorageInv, NEW c \in Conns, Frame(c)
    PROVE  /\ GoodFile(db') /\ Keeps(db, db') /\ Later(db.registry, db'.registry)
           /\ db.registry.version \in Nat /\ db'.registry.version \in Nat
<1>1. GoodFile(db)
  BY DEF StorageInv, StorageTypes
<1>2. CASE db' = db
  <2>1. db.registry.version \in Nat
    BY <1>1 DEF GoodFile, IsRegistry
  <2>2. Later(db.registry, db.registry)
    BY <2>1 DEF Later
  <2> QED
    BY <1>1, <1>2, <2>1, <2>2, KeepsSame
<1>3. CASE writer = c /\ pc[c] # "wedged" /\ db' = tx[c]
  <2>1. CopyOK(c)
    BY <1>3 DEF StorageInv
  <2>2. GoodFile(tx[c]) /\ Keeps(db, tx[c]) /\ Later(db.registry, tx[c].registry)
    BY <1>1, <2>1, CopyIsLater
  <2>3. db.registry.version \in Nat /\ tx[c].registry.version \in Nat
    BY <1>1, <2>2 DEF GoodFile, IsRegistry
  <2> QED
    BY <1>3, <2>2, <2>3
<1> QED
  BY <1>2, <1>3 DEF Frame

\* What the others have read or opened is still true.
LEMMA OthersOpen ==
    ASSUME StorageInv, NEW c \in Conns, Frame(c), NEW x \in Conns \ {c}
    PROVE  OpenerOK(x)'
<1>1. OpenerOK(x) /\ pc'[x] = pc[x] /\ view'[x] = view[x] /\ world' = world
  BY DEF StorageInv, Frame
<1>2. Keeps(db, db') /\ Later(db.registry, db'.registry)
  BY FileGrows
<1>3. Kind(x) \in Components \cup {"migrator"}
  BY Kinds DEF StorageInv
<1>4. Kind(x) = "migrator" => pc[x] \in Migrating \cup {"closed", "refused", "done"}
  BY DEF StorageInv, MigratorOK
<1>5. CASE Kind(x) = "migrator"
  BY <1>1, <1>4, <1>5 DEF OpenerOK, Kind, Migrating, Opened
<1>6. CASE Kind(x) \in Components
  <2>1. Kind(x)' = Kind(x) /\ (Stable' <=> Stable)
    BY <1>1 DEF Kind, Stable, Env
  <2>2. db.tables[Kind(x)] = "complete" => db'.tables[Kind(x)] = "complete"
    BY <1>2, <1>6 DEF Keeps
  <2>3. CurrentIn(db, Kind(x)) => CurrentIn(db', Kind(x))
    BY <1>2, <1>6 DEF Keeps, CurrentIn
  <2>4. db.storageFormat[Kind(x)] = "current" => db'.storageFormat[Kind(x)] = "current"
    BY <1>2, <1>6 DEF Keeps
  <2>5. Ready(db, Kind(x)) => Ready(db, Kind(x))'
    BY <1>1, <1>2, <2>1, <2>2, <2>3 DEF Ready, Later
  <2> QED
    BY <1>1, <2>1, <2>2, <2>3, <2>4, <2>5 DEF OpenerOK
<1> QED
  BY <1>3, <1>5, <1>6

LEMMA OthersMigrate ==
    ASSUME StorageInv, NEW c \in Conns, Frame(c), NEW x \in Conns \ {c}
    PROVE  MigratorOK(x)'
<1>1. /\ MigratorOK(x) /\ pc'[x] = pc[x] /\ view'[x] = view[x] /\ Kind(x)' = Kind(x)
      /\ writer = x => target' = target
  BY DEF StorageInv, Frame, Kind
<1>2. pc[x] \in {"publish", "stamp", "stamped"} => writer = x
  BY DEF StorageInv, StorageTypes, FileTypeOK, InTransaction
<1>3. writer = x => db' = db
  BY DEF Frame
<1> QED
  BY <1>1, <1>2, <1>3 DEF MigratorOK

LEMMA OthersReceipt ==
    ASSUME StorageInv, NEW c \in Conns, Frame(c), NEW x \in Conns \ {c}
    PROVE  ReceiptOK(x)'
<1>1. /\ ReceiptOK(x) /\ pc'[x] = pc[x] /\ view'[x] = view[x] /\ receipt'[x] = receipt[x]
  BY DEF StorageInv, Frame
<1>2. /\ Later(db.registry, db'.registry)
      /\ db.registry.version \in Nat /\ db'.registry.version \in Nat
  BY FileGrows
<1>3. pc[x] = "receipt" => Later(view[x].snapshot, db'.registry)
  <2>1. ASSUME pc[x] = "receipt"
        PROVE  Later(view[x].snapshot, db'.registry)
    <3>1. view[x].snapshot.version \in Nat /\ Later(view[x].snapshot, db.registry)
      BY <1>1, <2>1 DEF ReceiptOK, IsRegistry
    <3> QED
      BY <1>2, <3>1, LaterTwice
  <2> QED
    BY <2>1
<1>4. receipt[x] # None => /\ db'.registry.journalled
                           /\ receipt[x].to \in 0 .. db'.registry.version
  BY <1>1, <1>2 DEF ReceiptOK, Later
<1> QED
  BY <1>1, <1>3, <1>4 DEF ReceiptOK

\* A receipt stays exact when the file grows.
LEMMA ExactStays ==
    ASSUME NEW c \in Conns, Exact(c), ReceiptOK(c), receipt'[c] = receipt[c],
           db.registry.version \in Nat, Later(db.registry, db'.registry)
    PROVE  Exact(c)'
<1> SUFFICES ASSUME receipt[c] # None
             PROVE  Exact(c)'
  BY DEF Exact
<1> DEFINE r == receipt[c]
           W(d) == UNION {d.registry.wrote[w] : w \in r.from + 1 .. r.to}
<1>1. /\ db.registry.journalled /\ r.from \in 0 .. r.to /\ r.to \in 0 .. db.registry.version
  BY DEF ReceiptOK
<1>2. \A w \in r.from + 1 .. r.to : db'.registry.wrote[w] = db.registry.wrote[w]
  BY <1>1 DEF Later
<1>3. W(db') = W(db)
  BY <1>2
<1>4. db'.registry.attested = db.registry.attested
  BY <1>1 DEF Later
<1>5. /\ r.served <=> /\ r.from >= db.registry.attested
                      /\ r.to - r.from <= JournalVersions
                      /\ Cardinality(W(db)) <= ReceiptKeys
      /\ r.served => r.keys = W(db)
  BY DEF Exact
<1>6. /\ r.served <=> /\ r.from >= db'.registry.attested
                      /\ r.to - r.from <= JournalVersions
                      /\ Cardinality(W(db')) <= ReceiptKeys
      /\ r.served => r.keys = W(db')
  BY <1>3, <1>4, <1>5
<1>7. receipt'[c] = r
  OBVIOUS
<1> HIDE DEF r
<1> QED
  BY <1>6, <1>7 DEF Exact

\* A step that looks to the others like that, and is in order for its own
\* connection, keeps the invariant.
LEMMA FrameKeeps ==
    ASSUME StorageInv, NEW c \in Conns, Frame(c), Own(c), Exact(c)'
    PROVE  StorageInv'
<1>1. StorageTypes'
  <2>1. GoodFile(db)'
    BY FileGrows
  <2>2. FileTypeOK'
    <3>1. pc' \in [Conns -> PCs] /\ writer' \in Conns \cup {None}
      BY DEF Frame
    <3>2. \A x \in Conns : pc'[x] \in InTransaction <=> writer' = x
      <4>1. \A x \in Conns \ {c} : /\ pc'[x] = pc[x] /\ (writer' = x <=> writer = x)
        BY DEF Frame
      <4>2. \A x \in Conns : pc[x] \in InTransaction <=> writer = x
        BY DEF StorageInv, StorageTypes, FileTypeOK
      <4>3. pc'[c] \in InTransaction <=> writer' = c
        BY DEF Own
      <4> QED
        BY <4>1, <4>2, <4>3
    <3> QED
      BY <3>1, <3>2 DEF FileTypeOK, PCs
  <2>3. world' \in Worlds
    BY DEF StorageInv, StorageTypes, Frame
  <2> QED
    BY <2>1, <2>2, <2>3 DEF StorageTypes, Frame
<1>2. ASSUME NEW x \in Conns, writer' = x, pc'[x] # "wedged"
      PROVE  CopyOK(x)'
  <2>1. CASE x = c
    BY <1>2, <2>1 DEF Own
  <2>2. CASE x # c
    <3>1. /\ writer = x /\ pc'[x] = pc[x] /\ tx'[x] = tx[x] /\ call'[x] = call[x]
          /\ world' = world
      BY <1>2, <2>2 DEF Frame
    <3>2. db' = db
      BY <2>2, <3>1 DEF Frame
    <3>3. CopyOK(x)
      BY <1>2, <3>1 DEF StorageInv
    <3> QED
      BY <3>1, <3>2, <3>3 DEF CopyOK, Kind, Ready, Stable, Env, CurrentIn
  <2> QED
    BY <2>1, <2>2
<1>3. ASSUME NEW x \in Conns
      PROVE  OpenerOK(x)' /\ MigratorOK(x)' /\ ReceiptOK(x)'
  BY OthersOpen, OthersMigrate, OthersReceipt DEF Own
<1>4. ReceiptExact'
  <2>1. ASSUME NEW x \in Conns
        PROVE  Exact(x)'
    <3>1. CASE x = c
      BY <3>1
    <3>2. CASE x # c
      <4>1. Exact(x) /\ ReceiptOK(x)
        BY ExactEach DEF StorageInv
      <4>2. db.registry.version \in Nat /\ Later(db.registry, db'.registry)
        BY FileGrows
      <4>3. receipt'[x] = receipt[x]
        BY <3>2 DEF Frame
      <4> QED
        BY <4>1, <4>2, <4>3, ExactStays
    <3> QED
      BY <3>1, <3>2
  <2> QED
    BY <2>1, ExactEach
<1> QED
  BY <1>1, <1>2, <1>3, <1>4 DEF StorageInv

-----------------------------------------------------------------------------
(* Steps that open a store *)

\* What the other modules' variables do in a step of StorageFile.
FileContext == CallEnds /\ UNCHANGED <<receipt, trace>>

LEMMA OwnReceipt ==
    ASSUME StorageInv, NEW c \in Conns, Frame(c), pc'[c] # "receipt",
           receipt'[c] \in {receipt[c], None}
    PROVE  ReceiptOK(c)' /\ Exact(c)'
<1>1. CASE receipt'[c] = None
  BY <1>1 DEF ReceiptOK, Exact
<1>2. CASE receipt'[c] = receipt[c]
  <2>1. Exact(c) /\ ReceiptOK(c)
    BY ExactEach DEF StorageInv
  <2>2. /\ db.registry.version \in Nat /\ Later(db.registry, db'.registry)
        /\ db'.registry.version \in Nat
    BY FileGrows
  <2>3. Exact(c)'
    BY <1>2, <2>1, <2>2, ExactStays
  <2>4. receipt[c] # None => /\ db'.registry.journalled
                             /\ receipt[c].to \in 0 .. db'.registry.version
    BY <2>1, <2>2 DEF ReceiptOK, Later
  <2> QED
    BY <1>2, <2>1, <2>3, <2>4 DEF ReceiptOK
<1> QED
  BY <1>1, <1>2

\* A step outside transactions changes nothing but pc and view of its connection.
LEMMA OutsideFrame ==
    ASSUME StorageInv, NEW c \in Conns, NEW q \in PCs,
           pc' = [pc EXCEPT ![c] = q], pc[c] \notin InTransaction, q \notin InTransaction,
           view' = view \/ \E v : view' = [view EXCEPT ![c] = v],
           NoTx, UNCHANGED <<world, db, target>>,
           DOMAIN call' = Conns, \A x \in Conns : writer = x => call'[x] = call[x],
           DOMAIN receipt' = Conns, \A x \in Conns \ {c} : receipt'[x] = receipt[x]
    PROVE  /\ Frame(c) /\ pc'[c] = q /\ Kind(c)' = Kind(c)
           /\ pc'[c] \in InTransaction <=> writer' = c
           /\ ~(writer' = c /\ pc'[c] # "wedged")
<1>1. /\ pc \in [Conns -> PCs] /\ writer \in Conns \cup {None}
      /\ pc[c] \in InTransaction <=> writer = c
      /\ DOMAIN view = Conns /\ DOMAIN tx = Conns
  BY DEF StorageInv, StorageTypes, FileTypeOK, PCs
<1>2. pc' \in [Conns -> PCs] /\ \A x \in Conns \ {c} : pc'[x] = pc[x]
  BY <1>1
<1>3. DOMAIN view' = Conns /\ \A x \in Conns \ {c} : view'[x] = view[x]
  BY <1>1
<1>4. Frame(c)
  BY <1>1, <1>2, <1>3 DEF Frame, NoTx
<1> QED
  BY <1>1, <1>4 DEF NoTx, Kind

LEMMA ReadFrame ==
    ASSUME StorageInv, NEW c \in Conns, NEW q \in PCs,
           pc' = [pc EXCEPT ![c] = q], pc[c] \notin InTransaction, q \notin InTransaction,
           view' = view \/ \E v : view' = [view EXCEPT ![c] = v],
           NoTx, UNCHANGED <<world, db, target>>, FileContext
    PROVE  /\ Frame(c) /\ pc'[c] = q /\ Kind(c)' = Kind(c)
           /\ pc'[c] \in InTransaction <=> writer' = c
           /\ ~(writer' = c /\ pc'[c] # "wedged")
<1>1. /\ DOMAIN call' = Conns /\ DOMAIN receipt' = Conns
      /\ \A x \in Conns : writer = x => call'[x] = call[x]
      /\ \A x \in Conns \ {c} : receipt'[x] = receipt[x]
  BY DEF FileContext, CallEnds, NoTx, StorageInv, StorageTypes
<1> QED
  BY <1>1, OutsideFrame

\* Where an opener of c is before it begins its transaction, or c after it closed.
Judging == {"closed", "uncertain", "complete", "halfread", "absent", "legacy", "current", "refused"}

LEMMA OpenReads ==
    ASSUME StorageInv, NEW c \in Conns, FileContext,
           \/ OpenTables(c) \/ OpenUncertain(c) \/ OpenStorageFormat(c)
           \/ OpenDocumentFormat(c) \/ OpenLegacyInvalid(c) \/ OpenLocked(c)
    PROVE  Frame(c) /\ Own(c) /\ Exact(c)'
<1> DEFINE K == Kind(c)
<1>1. ASSUME NEW q \in Judging,
             pc' = [pc EXCEPT ![c] = q], pc[c] \in Judging, K # "migrator",
             view' = view \/ \E v : view' = [view EXCEPT ![c] = v],
             NoTx, UNCHANGED <<world, db, target>>,
             q \in {"complete", "halfread", "legacy", "current"} => db.tables[K] = "complete",
             Stable /\ q = "halfread" /\ view'[c].storageFormat = "current" =>
                db.storageFormat[K] = "current",
             q = "halfread" => view'[c].storageFormat \in Formats,
             Stable /\ q = "current" => CurrentIn(db, K)
      PROVE  Frame(c) /\ Own(c) /\ Exact(c)'
  <2>1. q \in PCs /\ q \notin InTransaction /\ pc[c] \notin InTransaction
        /\ q \notin Opened /\ q \notin Migrating
    BY <1>1 DEF Judging, PCs, InTransaction, Opened, Migrating
  <2>2. /\ Frame(c) /\ pc'[c] = q /\ Kind(c)' = K
        /\ pc'[c] \in InTransaction <=> writer' = c
        /\ ~(writer' = c /\ pc'[c] # "wedged")
    BY <1>1, <2>1, ReadFrame
  <2>3. ReceiptOK(c)' /\ Exact(c)'
    BY <1>1, <2>2, OwnReceipt DEF Judging, FileContext
  <2>4. MigratorOK(c)'
    BY <1>1, <2>1, <2>2 DEF MigratorOK, Judging
  <2>5. OpenerOK(c)'
    BY <1>1, <2>1, <2>2 DEF OpenerOK, Stable, Env, CurrentIn, Judging
  <2> QED
    BY <2>2, <2>3, <2>4, <2>5 DEF Own
<1>2. /\ OpenerOK(c) /\ MigratorOK(c) /\ GoodFile(db) /\ IsFile(db)
      /\ pc[c] \in InTransaction <=> writer = c
      /\ pc \in [Conns -> PCs] /\ DOMAIN view = Conns
  BY DEF StorageInv, StorageTypes, FileTypeOK, GoodFile, PCs
<1>3. K \in Components \cup {"migrator"}
  BY Kinds DEF StorageInv
<1>4. CASE OpenTables(c)
  <2> DEFINE t == db.tables[K]
             q == CASE t = "complete" -> "complete"
                    [] t = "partial"  -> "refused"
                    [] OTHER          -> IF db.meta THEN "uncertain" ELSE "absent"
  <2>1. /\ K # "migrator" /\ pc[c] = "closed" /\ pc' = [pc EXCEPT ![c] = q]
        /\ NoTx /\ UNCHANGED <<world, db, view, target>>
    BY <1>4 DEF OpenTables, Stores, Moves
  <2>2. q \in {"complete", "refused", "uncertain", "absent"} /\ (q = "complete" => t = "complete")
    OBVIOUS
  <2> HIDE DEF q
  <2> QED
    BY <1>1, <2>1, <2>2 DEF Judging
<1>5. CASE OpenUncertain(c)
  <2> DEFINE q == IF db.storageFormat[K] # None \/ db.documentFormat[K] # None
                  THEN "refused" ELSE "absent"
  <2>1. /\ pc[c] = "uncertain" /\ pc' = [pc EXCEPT ![c] = q]
        /\ NoTx /\ UNCHANGED <<world, db, view, target>>
    BY <1>5 DEF OpenUncertain, Moves
  <2>2. q \in {"refused", "absent"} /\ K # "migrator"
    BY <1>2, <2>1 DEF MigratorOK, Migrating
  <2> HIDE DEF q
  <2> QED
    BY <1>1, <2>1, <2>2 DEF Judging
<1>6. CASE OpenStorageFormat(c)
  <2>1. /\ pc[c] = "complete" /\ pc' = [pc EXCEPT ![c] = "halfread"]
        /\ view' = [view EXCEPT ![c] = [storageFormat |-> db.storageFormat[K]]]
        /\ NoTx /\ UNCHANGED <<world, db, target>>
    BY <1>6 DEF OpenStorageFormat, Moves, Sees
  <2>2. K # "migrator" /\ db.tables[K] = "complete"
    BY <1>2, <2>1 DEF MigratorOK, Migrating, OpenerOK
  <2>3. view'[c].storageFormat = db.storageFormat[K] /\ db.storageFormat[K] \in Formats
    BY <1>2, <1>3, <2>1, <2>2 DEF IsFile
  <2> QED
    BY <1>1, <2>1, <2>2, <2>3 DEF Judging
<1>7. CASE OpenDocumentFormat(c)
  <2> DEFINE s == view[c].storageFormat
             f == db.documentFormat[K]
             q == CASE s = None /\ f = None     -> "legacy"
                    [] (s = None) # (f = None)  -> "refused"
                    [] "future" \in {s, f}      -> "refused"
                    [] OTHER                    -> "current"
  <2>1. /\ pc[c] = "halfread" /\ pc' = [pc EXCEPT ![c] = q]
        /\ view' = [view EXCEPT ![c] = None]
        /\ NoTx /\ UNCHANGED <<world, db, target>>
    BY <1>7 DEF OpenDocumentFormat, Moves, Sees
  <2>2. K # "migrator" /\ db.tables[K] = "complete"
    BY <1>2, <2>1 DEF MigratorOK, Migrating, OpenerOK
  <2>3. s \in Formats /\ f \in Formats
    BY <1>2, <1>3, <2>1, <2>2 DEF OpenerOK, IsFile
  <2>4. q \in {"legacy", "refused", "current"}
    OBVIOUS
  <2>5. Stable /\ q = "current" => s = "current" /\ f = "current"
    BY <2>3 DEF Formats
  <2>6. Stable /\ q = "current" => CurrentIn(db, K)
    BY <1>2, <2>1, <2>5 DEF OpenerOK, CurrentIn
  <2> HIDE DEF q, s, f
  <2> QED
    BY <1>1, <2>1, <2>2, <2>4, <2>6 DEF Judging
<1>8. CASE OpenLegacyInvalid(c)
  <2>1. /\ pc[c] = "legacy" /\ pc' = [pc EXCEPT ![c] = "refused"]
        /\ NoTx /\ UNCHANGED <<world, db, view, target>>
    BY <1>8 DEF OpenLegacyInvalid, Moves
  <2>2. K # "migrator"
    BY <1>2, <2>1 DEF MigratorOK, Migrating
  <2> QED
    BY <1>1, <2>1, <2>2 DEF Judging
<1>9. CASE OpenLocked(c)
  <2>1. /\ pc[c] \in {"absent", "current", "legacy"} /\ pc' = [pc EXCEPT ![c] = "closed"]
        /\ NoTx /\ UNCHANGED <<world, db, view, target>>
    BY <1>9 DEF OpenLocked, Moves
  <2>2. K # "migrator"
    BY <1>2, <2>1 DEF MigratorOK, Migrating
  <2> QED
    BY <1>1, <2>1, <2>2 DEF Judging
<1> QED
  BY <1>4, <1>5, <1>6, <1>7, <1>8, <1>9

\* The step that begins a transaction.
LEMMA BeginFrame ==
    ASSUME StorageInv, NEW c \in Conns, NEW q \in InTransaction, q # "wedged", NEW n,
           Begins(c, n), pc' = [pc EXCEPT ![c] = q],
           view' = view, UNCHANGED <<world, db, target>>,
           DOMAIN call' = Conns, DOMAIN receipt' = Conns,
           \A x \in Conns \ {c} : receipt'[x] = receipt[x]
    PROVE  /\ Frame(c) /\ pc'[c] = q /\ writer' = c /\ tx'[c] = n /\ Kind(c)' = Kind(c)
           /\ pc[c] \notin InTransaction
<1>1. /\ pc \in [Conns -> PCs] /\ None \notin Conns
      /\ \A x \in Conns : pc[x] \in InTransaction <=> writer = x
      /\ DOMAIN view = Conns /\ DOMAIN tx = Conns
  BY FileAssumption DEF StorageInv, StorageTypes, FileTypeOK, PCs
<1>2. /\ writer = None /\ writer' = c /\ DOMAIN tx' = Conns /\ tx'[c] = n
  BY <1>1 DEF Begins
<1>3. pc' \in [Conns -> PCs] /\ pc'[c] = q /\ \A x \in Conns \ {c} : pc'[x] = pc[x]
  BY <1>1 DEF PCs
<1>4. Frame(c)
  BY <1>1, <1>2, <1>3 DEF Frame
<1> QED
  BY <1>1, <1>2, <1>3, <1>4 DEF Kind

LEMMA OpenBegins ==
    ASSUME StorageInv, NEW c \in Conns, FileContext,
           OpenCreate(c) \/ OpenCurrent(c) \/ OpenLegacy(c)
    PROVE  Frame(c) /\ Own(c) /\ Exact(c)'
<1> DEFINE K == Kind(c)
<1>1. /\ OpenerOK(c) /\ MigratorOK(c) /\ GoodFile(db)
      /\ DOMAIN receipt = Conns /\ DOMAIN call = Conns
  BY DEF StorageInv, StorageTypes
<1>2. ASSUME NEW n, K \in Components,
             pc' = [pc EXCEPT ![c] = "opening"], Begins(c, n),
             UNCHANGED <<world, db, view, target>>,
             GoodFile(n), Keeps(db, n), n.trace = db.trace, Ready(n, K),
             Upgraded(db.registry, n.registry)
      PROVE  Frame(c) /\ Own(c) /\ Exact(c)'
  <2>1. "opening" \in InTransaction /\ "opening" # "wedged"
    BY DEF InTransaction
  <2>2. DOMAIN call' = Conns /\ receipt' = receipt
    BY DEF FileContext, CallEnds
  <2>3. /\ Frame(c) /\ pc'[c] = "opening" /\ writer' = c /\ tx'[c] = n /\ Kind(c)' = Kind(c)
    BY <1>1, <1>2, <2>1, <2>2, BeginFrame
  <2>4. ReceiptOK(c)' /\ Exact(c)'
    BY <2>2, <2>3, OwnReceipt
  <2>5. K # "migrator"
    BY <1>2 DEF Components
  <2>6. MigratorOK(c)'
    BY <2>3, <2>5 DEF MigratorOK, Migrating
  <2>7. OpenerOK(c)'
    BY <2>3 DEF OpenerOK, Opened
  <2>8. CopyOK(c)'
    BY <1>2, <2>3 DEF CopyOK, Ready, Stable, Env, CurrentIn
  <2> QED
    BY <2>1, <2>3, <2>4, <2>6, <2>7, <2>8 DEF Own
<1>3. ASSUME pc[c] \in {"absent", "legacy", "current"}
      PROVE  K \in Components
  BY <1>1, <1>3, Kinds DEF MigratorOK, Migrating, StorageInv
<1>4. CASE OpenCreate(c)
  <2> DEFINE n == Created(db, K)
  <2>1. /\ pc[c] = "absent" /\ pc' = [pc EXCEPT ![c] = "opening"] /\ Begins(c, n)
        /\ UNCHANGED <<world, db, view, target>>
    BY <1>4 DEF OpenCreate, Moves
  <2>2. K \in Components
    BY <1>3, <2>1
  <2>3. /\ GoodFile(n) /\ Keeps(db, n) /\ n.trace = db.trace /\ Ready(n, K)
        /\ Upgraded(db.registry, n.registry)
    BY <1>1, <2>2, CreatedFile
  <2> HIDE DEF n
  <2> QED
    BY <1>2, <2>1, <2>2, <2>3
<1>5. CASE OpenCurrent(c)
  <2> DEFINE n == WithJournal(db, K)
  <2>1. /\ pc[c] = "current" /\ pc' = [pc EXCEPT ![c] = "opening"] /\ Begins(c, n)
        /\ UNCHANGED <<world, db, view, target>>
    BY <1>5 DEF OpenCurrent, Moves
  <2>2. K \in Components
    BY <1>3, <2>1
  <2>3. db.tables[K] = "complete" /\ (Stable => CurrentIn(db, K))
    BY <1>1, <2>1 DEF OpenerOK
  <2>4. /\ GoodFile(n) /\ Keeps(db, n) /\ n.trace = db.trace /\ Ready(n, K)
        /\ Upgraded(db.registry, n.registry)
    BY <1>1, <2>2, <2>3, CurrentFile
  <2> HIDE DEF n
  <2> QED
    BY <1>2, <2>1, <2>2, <2>4
<1>6. CASE OpenLegacy(c)
  <2> DEFINE n == Migrated(WithJournal(db, K), K)
  <2>1. /\ pc[c] = "legacy" /\ pc' = [pc EXCEPT ![c] = "opening"] /\ Begins(c, n)
        /\ db.valid[K] /\ UNCHANGED <<world, db, view, target>>
    BY <1>6 DEF OpenLegacy, Moves
  <2>2. K \in Components /\ db.tables[K] = "complete"
    BY <1>1, <1>3, <2>1 DEF OpenerOK
  <2>3. /\ GoodFile(n) /\ Keeps(db, n) /\ n.trace = db.trace /\ Ready(n, K)
        /\ Upgraded(db.registry, n.registry)
    BY <1>1, <2>1, <2>2, LegacyFile
  <2> HIDE DEF n
  <2> QED
    BY <1>2, <2>1, <2>2, <2>3
<1> QED
  BY <1>4, <1>5, <1>6

-----------------------------------------------------------------------------
(* Steps that end a transaction *)

\* The step that ends one, or closes a connection that has none.
LEMMA EndFrame ==
    ASSUME StorageInv, NEW c \in Conns, NEW q \in PCs \ InTransaction,
           Ends(c), pc' = [pc EXCEPT ![c] = q],
           view' = view \/ \E v : view' = [view EXCEPT ![c] = v],
           \/ db' = db
           \/ writer = c /\ pc[c] # "wedged" /\ db' = tx[c],
           UNCHANGED <<world, target>>, FileContext
    PROVE  /\ Frame(c) /\ pc'[c] = q /\ writer' # c /\ Kind(c)' = Kind(c)
           /\ pc'[c] \notin InTransaction
<1>1. /\ pc \in [Conns -> PCs] /\ writer \in Conns \cup {None} /\ None \notin Conns
      /\ DOMAIN view = Conns /\ DOMAIN tx = Conns /\ DOMAIN receipt = Conns
  BY FileAssumption DEF StorageInv, StorageTypes, FileTypeOK, PCs
<1>2. /\ writer' = (IF writer = c THEN None ELSE writer) /\ tx' = [tx EXCEPT ![c] = None]
  BY DEF Ends
<1>3. pc' \in [Conns -> PCs] /\ pc'[c] = q /\ \A x \in Conns \ {c} : pc'[x] = pc[x]
  BY <1>1
<1>4. DOMAIN view' = Conns /\ \A x \in Conns \ {c} : view'[x] = view[x]
  BY <1>1
<1>5. /\ DOMAIN call' = Conns
      /\ \A x \in Conns \ {c} : writer = x => call'[x] = call[x]
  BY <1>2 DEF FileContext, CallEnds
<1>6. DOMAIN tx' = Conns /\ \A x \in Conns \ {c} : tx'[x] = tx[x]
  BY <1>1, <1>2
<1>7. Frame(c)
  BY <1>1, <1>2, <1>3, <1>4, <1>5, <1>6 DEF Frame, FileContext
<1> QED
  BY <1>1, <1>2, <1>3, <1>7 DEF Kind

LEMMA StoreEnds ==
    ASSUME StorageInv, NEW c \in Conns, FileContext,
           Commit(c) \/ RollBack(c) \/ Close(c) \/ Crash(c)
    PROVE  Frame(c) /\ Own(c) /\ Exact(c)'
<1> DEFINE K == Kind(c)
<1>1. /\ OpenerOK(c) /\ MigratorOK(c) /\ GoodFile(db)
      /\ pc[c] \in InTransaction <=> writer = c
      /\ \A x \in Conns : writer = x /\ pc[x] # "wedged" => CopyOK(x)
      /\ pc \in [Conns -> PCs]
  BY DEF StorageInv, StorageTypes, FileTypeOK, PCs
<1>2. {"closed", "open"} \subseteq PCs \ InTransaction /\ receipt' = receipt
  BY DEF PCs, InTransaction, FileContext
<1>3. ASSUME Frame(c), pc'[c] = "closed", writer' # c, Kind(c)' = K,
             K = "migrator" => view'[c] = None
      PROVE  Own(c) /\ Exact(c)'
  <2>1. ReceiptOK(c)' /\ Exact(c)'
    BY <1>2, <1>3, OwnReceipt
  <2>2. MigratorOK(c)' /\ OpenerOK(c)'
    BY <1>3 DEF MigratorOK, Migrating, OpenerOK, Opened
  <2> QED
    BY <1>2, <1>3, <2>1, <2>2 DEF Own
<1>4. ASSUME Frame(c), pc'[c] = "open", writer' # c, Kind(c)' = K, K \in Components,
             Ready(db', K)
      PROVE  Own(c) /\ Exact(c)'
  <2>1. ReceiptOK(c)' /\ Exact(c)'
    BY <1>2, <1>4, OwnReceipt
  <2>2. MigratorOK(c)'
    BY <1>4 DEF MigratorOK, Migrating, Components
  <2>3. world' = world
    BY <1>4 DEF Frame
  <2>4. OpenerOK(c)'
    BY <1>4, <2>3 DEF OpenerOK, Ready, CurrentIn, Stable, Env
  <2> QED
    BY <1>2, <1>4, <2>1, <2>2, <2>4 DEF Own
<1>5. ASSUME pc[c] \in {"opening", "writing"}
      PROVE  K \in Components
  BY <1>1, <1>5, Kinds DEF MigratorOK, Migrating, StorageInv
<1>6. CASE Commit(c)
  <2>1. /\ writer = c /\ pc[c] \in {"opening", "writing"} /\ pc' = [pc EXCEPT ![c] = "open"]
        /\ db' = tx[c] /\ Ends(c) /\ UNCHANGED <<world, view, target>>
    BY <1>6 DEF Commit, Moves
  <2>2. Frame(c) /\ pc'[c] = "open" /\ writer' # c /\ Kind(c)' = K
    BY <1>2, <2>1, EndFrame
  <2>3. CopyOK(c) /\ K \in Components
    BY <1>1, <1>5, <2>1
  <2>4. Ready(tx[c], K)
    <3>1. CASE pc[c] = "opening"
      BY <2>3, <3>1 DEF CopyOK
    <3>2. CASE pc[c] = "writing"
      <4>1. Ready(db, K)
        BY <1>1, <3>2 DEF OpenerOK, Opened
      <4>2. Keeps(db, tx[c]) /\ Later(db.registry, tx[c].registry)
        BY <1>1, <2>3, CopyIsLater
      <4> QED
        BY <2>3, <4>1, <4>2 DEF Ready, Keeps, Later, CurrentIn
    <3> QED
      BY <2>1, <3>1, <3>2
  <2> QED
    BY <1>4, <2>1, <2>2, <2>3, <2>4
<1>7. CASE RollBack(c)
  <2>1. /\ pc[c] \in {"opening", "writing"} /\ Ends(c) /\ UNCHANGED <<world, db, view, target>>
        /\ pc' = [pc EXCEPT ![c] = IF pc[c] = "opening" THEN "closed" ELSE "open"]
    BY <1>7 DEF RollBack, Moves
  <2>2. K \in Components /\ K # "migrator"
    BY <1>5, <2>1 DEF Components
  <2>3. CASE pc[c] = "opening"
    <3>1. Frame(c) /\ pc'[c] = "closed" /\ writer' # c /\ Kind(c)' = K
      BY <1>2, <2>1, <2>3, EndFrame
    <3> QED
      BY <1>3, <2>2, <3>1
  <2>4. CASE pc[c] = "writing"
    <3>1. Frame(c) /\ pc'[c] = "open" /\ writer' # c /\ Kind(c)' = K
      BY <1>2, <2>1, <2>4, EndFrame
    <3>2. Ready(db', K)
      BY <1>1, <2>1, <2>4 DEF OpenerOK, Opened
    <3> QED
      BY <1>4, <2>2, <3>1, <3>2
  <2> QED
    BY <2>1, <2>3, <2>4
<1>8. CASE Close(c)
  <2>1. /\ K # "migrator" /\ Ends(c) /\ pc' = [pc EXCEPT ![c] = "closed"]
        /\ UNCHANGED <<world, db, view, target>>
    BY <1>8 DEF Close, Moves, Stores
  <2>2. Frame(c) /\ pc'[c] = "closed" /\ writer' # c /\ Kind(c)' = K
    BY <1>2, <2>1, EndFrame
  <2> QED
    BY <1>3, <2>1, <2>2
<1>9. CASE Crash(c)
  <2>1. /\ Ends(c) /\ pc' = [pc EXCEPT ![c] = "closed"] /\ view' = [view EXCEPT ![c] = None]
        /\ UNCHANGED <<world, db, target>>
    BY <1>9 DEF Crash, Sees
  <2>2. Frame(c) /\ pc'[c] = "closed" /\ writer' # c /\ Kind(c)' = K
    BY <1>2, <2>1, EndFrame
  <2>3. view'[c] = None
    BY <2>1 DEF StorageInv, StorageTypes
  <2> QED
    BY <1>3, <2>2, <2>3
<1> QED
  BY <1>6, <1>7, <1>8, <1>9

\* A connection whose transaction nobody ended.
LEMMA InterruptKeeps ==
    ASSUME StorageInv, NEW c \in Conns, FileContext, Interrupted(c)
    PROVE  Frame(c) /\ Own(c) /\ Exact(c)'
<1>1. /\ pc[c] = "writing" /\ pc' = [pc EXCEPT ![c] = "wedged"] /\ NoTx
      /\ UNCHANGED <<world, db, view, target>> /\ receipt' = receipt
  BY DEF Interrupted, Moves, FileContext
<1>2. /\ OpenerOK(c) /\ MigratorOK(c)
      /\ pc[c] \in InTransaction <=> writer = c
      /\ pc \in [Conns -> PCs] /\ writer \in Conns \cup {None}
      /\ DOMAIN view = Conns /\ DOMAIN tx = Conns /\ DOMAIN receipt = Conns
  BY DEF StorageInv, StorageTypes, FileTypeOK, PCs
<1>3. /\ pc' \in [Conns -> PCs] /\ pc'[c] = "wedged"
      /\ \A x \in Conns \ {c} : pc'[x] = pc[x]
  BY <1>1, <1>2 DEF PCs, InTransaction
<1>4. DOMAIN call' = Conns /\ \A x \in Conns : writer = x => call'[x] = call[x]
  BY <1>1 DEF FileContext, CallEnds, NoTx
<1>5. Frame(c)
  BY <1>1, <1>2, <1>3, <1>4 DEF Frame, NoTx
<1>6. ReceiptOK(c)' /\ Exact(c)'
  BY <1>1, <1>3, <1>5, OwnReceipt
<1>7. MigratorOK(c)' /\ OpenerOK(c)'
  BY <1>1, <1>2, <1>3 DEF MigratorOK, Migrating, OpenerOK, Opened, Kind
<1>8. pc'[c] \in InTransaction <=> writer' = c
  BY <1>1, <1>2, <1>3 DEF NoTx, InTransaction
<1> QED
  BY <1>3, <1>5, <1>6, <1>7, <1>8 DEF Own

-----------------------------------------------------------------------------
(* The migration command *)

\* A step inside its transaction.
LEMMA WithinFrame ==
    ASSUME StorageInv, NEW c \in Conns, NEW q \in Migrating, pc[c] \in Migrating,
           pc' = [pc EXCEPT ![c] = q], writer' = writer,
           tx' = tx \/ \E n : tx' = [tx EXCEPT ![c] = n],
           view' = view \/ \E v : view' = [view EXCEPT ![c] = v],
           UNCHANGED <<world, db>>, FileContext
    PROVE  /\ Frame(c) /\ pc'[c] = q /\ writer = c /\ writer' = c /\ Kind(c)' = Kind(c)
           /\ pc'[c] \in InTransaction
<1>1. /\ pc \in [Conns -> PCs] /\ writer \in Conns \cup {None}
      /\ pc[c] \in InTransaction <=> writer = c
      /\ DOMAIN view = Conns /\ DOMAIN tx = Conns /\ DOMAIN receipt = Conns
  BY DEF StorageInv, StorageTypes, FileTypeOK, PCs
<1>2. Migrating \subseteq InTransaction
  BY DEF Migrating, InTransaction
<1>3. pc' \in [Conns -> PCs] /\ pc'[c] = q /\ \A x \in Conns \ {c} : pc'[x] = pc[x]
  BY <1>1, <1>2 DEF PCs
<1>4. DOMAIN view' = Conns /\ \A x \in Conns \ {c} : view'[x] = view[x]
  BY <1>1
<1>5. DOMAIN tx' = Conns /\ \A x \in Conns \ {c} : tx'[x] = tx[x]
  BY <1>1
<1>6. DOMAIN call' = Conns
  BY DEF FileContext, CallEnds
<1>7. Frame(c)
  BY <1>1, <1>2, <1>3, <1>4, <1>5, <1>6 DEF Frame, FileContext
<1> QED
  BY <1>1, <1>2, <1>3, <1>7 DEF Kind

LEMMA MigrateKeeps ==
    ASSUME StorageInv, NEW c \in Conns, FileContext, Migrate(c)
    PROVE  Frame(c) /\ Own(c) /\ Exact(c)'
<1> DEFINE K == Kind(c)
<1>1. /\ OpenerOK(c) /\ MigratorOK(c) /\ GoodFile(db)
      /\ pc[c] \in InTransaction <=> writer = c
      /\ \A x \in Conns : writer = x /\ pc[x] # "wedged" => CopyOK(x)
      /\ pc \in [Conns -> PCs] /\ DOMAIN view = Conns /\ DOMAIN tx = Conns
      /\ DOMAIN receipt = Conns
  BY DEF StorageInv, StorageTypes, FileTypeOK, PCs
<1>2. /\ {"closed", "refused", "done"} \subseteq PCs \ InTransaction /\ receipt' = receipt
      /\ DOMAIN call' = Conns
  BY DEF PCs, InTransaction, FileContext, CallEnds
<1>3. pc[c] \in Migrating => /\ K = "migrator" /\ writer = c /\ pc[c] \in InTransaction
                             /\ CopyOK(c)
  BY <1>1 DEF MigratorOK, Migrating, InTransaction
\* It gives up or is done.
<1>4. ASSUME NEW q \in {"refused", "done"}, pc[c] \in Migrating,
             pc' = [pc EXCEPT ![c] = q], Ends(c), UNCHANGED <<world, target>>,
             view' = view \/ view' = [view EXCEPT ![c] = None],
             db' = db \/ db' = tx[c]
      PROVE  Frame(c) /\ Own(c) /\ Exact(c)'
  <2>1. q \in PCs \ InTransaction /\ pc[c] # "wedged"
    BY <1>2, <1>4 DEF Migrating
  <2>2. Frame(c) /\ pc'[c] = q /\ writer' # c /\ Kind(c)' = K /\ pc'[c] \notin InTransaction
    BY <1>3, <1>4, <2>1, EndFrame
  <2>3. ReceiptOK(c)' /\ Exact(c)'
    BY <1>2, <1>4, <2>2, OwnReceipt
  <2>4. MigratorOK(c)' /\ OpenerOK(c)'
    BY <1>3, <1>4, <2>2 DEF MigratorOK, Migrating, OpenerOK, Opened
  <2> QED
    BY <2>2, <2>3, <2>4 DEF Own
\* It goes on.
<1>5. ASSUME NEW q \in Migrating, pc[c] \in Migrating, pc' = [pc EXCEPT ![c] = q],
             writer' = writer, UNCHANGED <<world, db>>,
             view' = view \/ \E v : view' = [view EXCEPT ![c] = v],
             tx' = tx \/ \E n : tx' = [tx EXCEPT ![c] = n],
             tx'[c] = tx[c] \/ tx'[c] = AllMigrated(tx[c], Legacy(tx[c])),
             q \in {"inspect", "resolve", "copy"} => view'[c] = None,
             q = "publish" => view'[c] = [copy |-> db],
             q \in {"stamp", "stamped"} /\ view'[c] # None => target' = {db}
      PROVE  Frame(c) /\ Own(c) /\ Exact(c)'
  <2>1. /\ Frame(c) /\ pc'[c] = q /\ writer = c /\ writer' = c /\ Kind(c)' = K
        /\ pc'[c] \in InTransaction
    BY <1>5, WithinFrame
  <2>2. ReceiptOK(c)' /\ Exact(c)'
    BY <1>2, <1>5, <2>1, OwnReceipt DEF Migrating
  <2>3. MigratorOK(c)' /\ OpenerOK(c)'
    BY <1>3, <1>5, <2>1 DEF MigratorOK, Migrating, OpenerOK, Opened
  <2>4. GoodFile(tx[c]) /\ Keeps(db, tx[c]) /\ Upgraded(db.registry, tx[c].registry)
        /\ tx[c].trace = db.trace
    BY <1>3, <1>5 DEF CopyOK, Migrating
  <2>5. GoodFile(tx'[c]) /\ Keeps(db, tx'[c]) /\ tx'[c].registry = tx[c].registry
        /\ tx'[c].trace = tx[c].trace
    <3>1. CASE tx'[c] = tx[c]
      BY <2>4, <3>1
    <3>2. CASE tx'[c] = AllMigrated(tx[c], Legacy(tx[c]))
      BY <2>4, <3>2, AllMigratedFile, KeepsTwice
    <3> QED
      BY <1>5, <3>1, <3>2
  <2>6. CopyOK(c)'
    BY <1>5, <2>1, <2>4, <2>5 DEF CopyOK, Migrating
  <2> QED
    BY <2>1, <2>2, <2>3, <2>6 DEF Own
<1>6. CASE MigrateBegin(c)
  <2>1. /\ K = "migrator" /\ pc[c] = "closed" /\ pc' = [pc EXCEPT ![c] = "inspect"]
        /\ Begins(c, db) /\ UNCHANGED <<world, db, view, target>>
    BY <1>6 DEF MigrateBegin, Moves
  <2>2. "inspect" \in InTransaction /\ "inspect" # "wedged"
    BY DEF InTransaction
  <2>3. /\ Frame(c) /\ pc'[c] = "inspect" /\ writer' = c /\ tx'[c] = db /\ Kind(c)' = K
    BY <1>2, <2>1, <2>2, BeginFrame, <1>1
  <2>4. ReceiptOK(c)' /\ Exact(c)'
    BY <1>2, <2>3, OwnReceipt
  <2>5. MigratorOK(c)' /\ OpenerOK(c)'
    BY <1>1, <2>1, <2>3 DEF MigratorOK, Migrating, OpenerOK, Opened
  <2>6. CopyOK(c)'
    BY <1>1, <2>1, <2>3, KeepsSame DEF CopyOK, Upgraded
  <2> QED
    BY <2>2, <2>3, <2>4, <2>5, <2>6 DEF Own
<1>7. CASE MigrateInspect(c)
  <2>1. pc[c] = "inspect" /\ UNCHANGED <<world, db, view, target>>
    BY <1>7 DEF MigrateInspect
  <2>2. view[c] = None /\ pc[c] \in Migrating
    BY <1>1, <1>3, <2>1 DEF MigratorOK, Migrating
  <2>3. \/ \E q \in {"refused", "done"} : pc' = [pc EXCEPT ![c] = q] /\ Ends(c)
        \/ \E q \in {"resolve", "stamp"} : pc' = [pc EXCEPT ![c] = q] /\ NoTx
    BY <1>7 DEF MigrateInspect, Moves
  <2>4. ASSUME NEW q \in {"resolve", "stamp"}, pc' = [pc EXCEPT ![c] = q], NoTx
        PROVE  Frame(c) /\ Own(c) /\ Exact(c)'
    <3>1. q \in Migrating /\ q \notin {"publish", "inspect", "copy", "stamped"}
      BY DEF Migrating
    <3> QED
      BY <1>5, <2>1, <2>2, <2>4, <3>1 DEF NoTx
  <2> QED
    BY <1>4, <2>1, <2>2, <2>3, <2>4
<1>8. CASE MigrateResolve(c)
  <2>1. pc[c] = "resolve" /\ UNCHANGED <<world, db, view, target>>
    BY <1>8 DEF MigrateResolve, Moves
  <2>2. view[c] = None /\ pc[c] \in Migrating
    BY <1>1, <1>3, <2>1 DEF MigratorOK, Migrating
  <2>3. \/ pc' = [pc EXCEPT ![c] = "refused"] /\ Ends(c)
        \/ pc' = [pc EXCEPT ![c] = "copy"] /\ NoTx
    BY <1>8 DEF MigrateResolve, Moves
  <2>4. CASE pc' = [pc EXCEPT ![c] = "copy"] /\ NoTx
    <3>1. "copy" \in Migrating
      BY DEF Migrating
    <3> QED
      BY <1>5, <2>1, <2>2, <2>4, <3>1 DEF NoTx
  <2> QED
    BY <1>4, <2>1, <2>2, <2>3, <2>4
<1>9. CASE MigrateCopy(c)
  <2>1. /\ pc[c] = "copy" /\ pc' = [pc EXCEPT ![c] = "publish"]
        /\ view' = [view EXCEPT ![c] = [copy |-> db]] /\ NoTx /\ UNCHANGED <<world, db, target>>
    BY <1>9 DEF MigrateCopy, Moves, Sees
  <2>2. view'[c] = [copy |-> db] /\ "publish" \in Migrating /\ pc[c] \in Migrating
    BY <1>1, <2>1 DEF Migrating
  <2> QED
    BY <1>5, <2>1, <2>2 DEF NoTx
<1>10. CASE MigratePublish(c)
  <2>1. pc[c] = "publish" /\ view[c] = [copy |-> db] /\ UNCHANGED <<world, db>>
        /\ pc[c] \in Migrating /\ "stamp" \in Migrating
    BY <1>1, <1>10 DEF MigratePublish, MigratorOK, Migrating
  <2>2. \/ /\ pc' = [pc EXCEPT ![c] = "refused"] /\ Ends(c) /\ UNCHANGED target
           /\ view' = [view EXCEPT ![c] = None]
        \/ /\ pc' = [pc EXCEPT ![c] = "stamp"] /\ NoTx /\ UNCHANGED view
           /\ target' = {view[c].copy}
    BY <1>10 DEF MigratePublish, Moves, Sees
  <2>3. view[c].copy = db
    BY <2>1
  <2> QED
    BY <1>4, <1>5, <2>1, <2>2, <2>3 DEF NoTx
<1>11. CASE MigrateStamp(c)
  <2>1. /\ pc[c] = "stamp" /\ pc' = [pc EXCEPT ![c] = "stamped"]
        /\ tx' = [tx EXCEPT ![c] = AllMigrated(tx[c], Legacy(tx[c]))]
        /\ UNCHANGED <<world, db, writer, view, target>>
    BY <1>11 DEF MigrateStamp, Moves
  <2>2. /\ tx'[c] = AllMigrated(tx[c], Legacy(tx[c]))
        /\ "stamped" \in Migrating /\ pc[c] \in Migrating
        /\ view[c] # None => target = {db}
    BY <1>1, <2>1 DEF Migrating, MigratorOK
  <2> QED
    BY <1>5, <2>1, <2>2
<1>12. CASE MigrateCommit(c)
  <2>1. /\ pc[c] = "stamped" /\ pc' = [pc EXCEPT ![c] = "done"] /\ db' = tx[c] /\ Ends(c)
        /\ view' = [view EXCEPT ![c] = None] /\ UNCHANGED <<world, target>>
    BY <1>12 DEF MigrateCommit, Moves, Sees
  <2>2. pc[c] \in Migrating
    BY <2>1 DEF Migrating
  <2> QED
    BY <1>4, <2>1, <2>2
<1> QED
  BY <1>6, <1>7, <1>8, <1>9, <1>10, <1>11, <1>12 DEF Migrate

-----------------------------------------------------------------------------
(* Steps of other programs *)

\* Receipts stay exact when the registry does not change.
LEMMA ExactSame ==
    ASSUME StorageInv, receipt' = receipt, db'.registry = db.registry
    PROVE  ReceiptExact'
<1>1. db.registry.version \in Nat
  BY DEF StorageInv, StorageTypes, GoodFile, IsRegistry
<1>2. Later(db.registry, db'.registry)
  BY <1>1 DEF Later
<1>3. ASSUME NEW x \in Conns
      PROVE  Exact(x)'
  <2>1. Exact(x) /\ ReceiptOK(x)
    BY ExactEach DEF StorageInv
  <2> QED
    BY <1>1, <1>2, <2>1, ExactStays
<1> QED
  BY <1>3, ExactEach

\* Somebody creates the backup destination.
LEMMA ForeignKeeps ==
    ASSUME StorageInv, FileContext, ForeignTarget
    PROVE  StorageInv'
<1>1. /\ target = {} /\ UNCHANGED <<world, db, writer, tx, pc, view, receipt>>
      /\ DOMAIN call' = Conns /\ \A x \in Conns : writer = x => call'[x] = call[x]
  BY DEF ForeignTarget, FileContext, CallEnds
<1>2. StorageTypes'
  BY <1>1 DEF StorageInv, StorageTypes, FileTypeOK
<1>3. ASSUME NEW x \in Conns
      PROVE  /\ writer' = x /\ pc'[x] # "wedged" => CopyOK(x)'
             /\ OpenerOK(x)' /\ MigratorOK(x)' /\ ReceiptOK(x)'
  <2>1. /\ writer = x /\ pc[x] # "wedged" => CopyOK(x)
        /\ OpenerOK(x) /\ MigratorOK(x) /\ ReceiptOK(x)
    BY DEF StorageInv
  <2>2. Kind(x)' = Kind(x) /\ (Stable' <=> Stable)
    BY <1>1 DEF Kind, Stable, Env
  <2>3. MigratorOK(x)'
    <3>1. {db} # target
      BY <1>1
    <3> QED
      BY <1>1, <2>1, <2>2, <3>1 DEF MigratorOK
  <2>4. OpenerOK(x)' /\ ReceiptOK(x)'
    BY <1>1, <2>1, <2>2 DEF OpenerOK, ReceiptOK, Ready, CurrentIn
  <2>5. writer' = x /\ pc'[x] # "wedged" => CopyOK(x)'
    BY <1>1, <2>1, <2>2 DEF CopyOK, Ready, CurrentIn
  <2> QED
    BY <2>3, <2>4, <2>5
<1>4. ReceiptExact'
  BY <1>1, ExactSame
<1> QED
  BY <1>2, <1>3, <1>4 DEF StorageInv

\* A newer release takes the file over.
LEMMA NewerKeeps ==
    ASSUME StorageInv, FileContext, NewerRelease
    PROVE  StorageInv'
<1>1. /\ ~Stable /\ writer = None /\ UNCHANGED <<world, writer, tx, pc, view, target, receipt>>
      /\ DOMAIN call' = Conns
  BY DEF NewerRelease, FileContext, CallEnds, Stable
<1>2. /\ GoodFile(db) /\ None \notin Conns
      /\ \A x \in Conns : pc[x] \in InTransaction <=> writer = x
  BY FileAssumption DEF StorageInv, StorageTypes, FileTypeOK
<1>3. PICK comp \in Components :
         db' = [db EXCEPT !.meta = TRUE, !.storageFormat[comp] = "future"]
  BY DEF NewerRelease
<1> DEFINE e == [db EXCEPT !.meta = TRUE, !.storageFormat[comp] = "future"]
<1>4. /\ IsFile(e) /\ e.tables = db.tables /\ e.valid = db.valid /\ e.migrated = db.migrated
      /\ e.registry = db.registry /\ e.trace = db.trace
  BY <1>2, FutureFile DEF GoodFile
<1>5. db' = e
  BY <1>3
<1> HIDE DEF e
<1>6. GoodFile(db')
  BY <1>2, <1>4, <1>5 DEF GoodFile
<1>7. StorageTypes'
  BY <1>1, <1>6 DEF StorageInv, StorageTypes, FileTypeOK
<1>8. db'.registry = db.registry /\ db'.tables = db.tables
  BY <1>4, <1>5
<1>9. ASSUME NEW x \in Conns
      PROVE  /\ writer' = x /\ pc'[x] # "wedged" => CopyOK(x)'
             /\ OpenerOK(x)' /\ MigratorOK(x)' /\ ReceiptOK(x)'
  <2>1. OpenerOK(x) /\ MigratorOK(x) /\ ReceiptOK(x)
    BY DEF StorageInv
  <2>2. Kind(x)' = Kind(x) /\ ~Stable'
    BY <1>1 DEF Kind, Stable, Env
  <2>3. writer' # x
    BY <1>1, <1>2
  <2>4. pc[x] \notin {"publish", "stamp", "stamped"}
    BY <1>1, <1>2 DEF InTransaction
  <2>5. MigratorOK(x)'
    BY <1>1, <2>1, <2>2, <2>4 DEF MigratorOK
  <2>6. OpenerOK(x)'
    BY <1>1, <1>8, <2>1, <2>2 DEF OpenerOK, Ready
  <2>7. ReceiptOK(x)'
    BY <1>1, <1>8, <2>1 DEF ReceiptOK
  <2> QED
    BY <2>3, <2>5, <2>6, <2>7
<1>10. ReceiptExact'
  BY <1>1, <1>8, ExactSame
<1> QED
  BY <1>7, <1>9, <1>10 DEF StorageInv

-----------------------------------------------------------------------------
(* Writes of the registry *)

\* The transaction of a call whose checks passed.
LEMMA WriteBegins ==
    ASSUME StorageInv, NEW c \in Conns, NEW op, NEW ks, NEW cat,
           Writes(c, op, ks, cat), Effect(op, stored, Bumped(stored, ks, cat))
    PROVE  Frame(c) /\ Own(c) /\ Exact(c)'
<1> DEFINE s == Bumped(stored, ks, cat)
           n == [db EXCEPT !.registry = s]
<1>1. /\ Kind(c) = "registry" /\ pc[c] = "open" /\ pc' = [pc EXCEPT ![c] = "writing"]
      /\ Begins(c, n)
      /\ call' = [call EXCEPT ![c] = op] /\ receipt' = [receipt EXCEPT ![c] = None]
      /\ UNCHANGED <<world, db, view, target>>
  BY DEF Writes, Moves
<1>2. /\ OpenerOK(c) /\ GoodFile(db) /\ DOMAIN call = Conns /\ DOMAIN receipt = Conns
  BY DEF StorageInv, StorageTypes
<1>3. Effect(op, stored, s)
  OBVIOUS
<1> HIDE DEF s
<1>4. "writing" \in InTransaction /\ "writing" # "wedged"
  BY DEF InTransaction
<1>5. /\ DOMAIN call' = Conns /\ DOMAIN receipt' = Conns /\ call'[c] = op
      /\ receipt'[c] = None /\ \A x \in Conns \ {c} : receipt'[x] = receipt[x]
  BY <1>1, <1>2
<1>6. IsRegistry(s)
  <2>1. IsRegistry(stored)
    BY <1>2 DEF GoodFile, stored
  <2> QED
    BY <1>3, <2>1, EffectIsLater
<1>7. /\ IsFile(n) /\ n.registry = s /\ n.trace = db.trace
      /\ n.migrated = db.migrated /\ n.valid = db.valid /\ Keeps(db, n)
  <2>1. IsFile(db)
    BY <1>2 DEF GoodFile
  <2> QED
    BY <2>1, FileWith
<1> HIDE DEF n
<1>8. GoodFile(n)
  BY <1>2, <1>6, <1>7 DEF GoodFile
<1>9. /\ Frame(c) /\ pc'[c] = "writing" /\ writer' = c /\ tx'[c] = n /\ Kind(c)' = Kind(c)
  BY <1>1, <1>4, <1>5, BeginFrame
<1>10. ReceiptOK(c)' /\ Exact(c)'
  BY <1>5, <1>9, OwnReceipt
<1>11. MigratorOK(c)'
  BY <1>1, <1>9 DEF MigratorOK, Migrating
<1>12. OpenerOK(c)'
  <2>1. Ready(db, Kind(c))'
    BY <1>1, <1>2 DEF OpenerOK, Opened, Ready, CurrentIn, Stable, Env, Kind
  <2> QED
    BY <1>9, <2>1 DEF OpenerOK
<1>13. CopyOK(c)'
  <2>1. Effect(call'[c], db'.registry, tx'[c].registry)
    BY <1>1, <1>3, <1>5, <1>7, <1>9 DEF stored
  <2> QED
    BY <1>1, <1>7, <1>8, <1>9, <2>1 DEF CopyOK
<1> QED
  BY <1>4, <1>9, <1>10, <1>11, <1>12, <1>13 DEF Own

\* Every write is one.
LEMMA WriteKeeps ==
    ASSUME StorageInv, NEW c \in Conns, RegistryWrite(c)
    PROVE  Frame(c) /\ Own(c) /\ Exact(c)'
<1>1. ASSUME NEW op, NEW ks, NEW cat, Writes(c, op, ks, cat)
      PROVE  stored.journalled /\ stored.version < MaxVersion
  <2>1. OpenerOK(c)
    BY DEF StorageInv
  <2> QED
    BY <1>1, <2>1 DEF Writes, Moves, OpenerOK, Opened, Ready, stored
<1> USE WriteBegins
<1>2. ASSUME NEW k \in Keys, NEW t \in Contracts, NEW replace \in BOOLEAN,
             Register(c, k, t, replace)
      PROVE  Frame(c) /\ Own(c) /\ Exact(c)'
  <2> DEFINE op == [op |-> "register", key |-> k, tool |-> t, replace |-> replace]
             cat == [stored.tools EXCEPT ![k] = t]
  <2>1. Writes(c, op, {k}, cat) /\ (replace \/ stored.tools[k] = Absent)
    BY <1>2 DEF Register
  <2>2. Effect(op, stored, Bumped(stored, {k}, cat))
    BY <1>1, <2>1 DEF Effect
  <2> QED
    BY <2>1, <2>2
<1>3. ASSUME NEW k \in Keys, NEW t \in Contracts, NEW fp \in Fps, NEW v,
             ReplaceIfFingerprint(c, k, t, fp, v)
      PROVE  Frame(c) /\ Own(c) /\ Exact(c)'
  <2> DEFINE op == [op |-> "replace", key |-> k, tool |-> t, fp |-> fp,
                    version |-> stored.version]
             cat == [stored.tools EXCEPT ![k] = t]
  <2>1. Writes(c, op, {k}, cat) /\ stored.tools[k] # Absent /\ FpOf[stored.tools[k]] = fp
    BY <1>3 DEF ReplaceIfFingerprint, StoredFp
  <2>2. Effect(op, stored, Bumped(stored, {k}, cat))
    BY <1>1, <2>1 DEF Effect
  <2> QED
    BY <2>1, <2>2
<1>4. ASSUME NEW k \in Keys, NEW fp \in Fps, NEW v, UnregisterIfFingerprint(c, k, fp, v)
      PROVE  Frame(c) /\ Own(c) /\ Exact(c)'
  <2> DEFINE op == [op |-> "unregister_if", key |-> k, fp |-> fp, version |-> stored.version]
             cat == [stored.tools EXCEPT ![k] = Absent]
  <2>1. Writes(c, op, {k}, cat) /\ stored.tools[k] # Absent /\ FpOf[stored.tools[k]] = fp
    BY <1>4 DEF UnregisterIfFingerprint, StoredFp
  <2>2. Effect(op, stored, Bumped(stored, {k}, cat))
    BY <1>1, <2>1 DEF Effect
  <2> QED
    BY <2>1, <2>2
<1>5. ASSUME NEW k \in Keys, Unregister(c, k)
      PROVE  Frame(c) /\ Own(c) /\ Exact(c)'
  <2> DEFINE op == [op |-> "unregister", key |-> k]
             cat == [stored.tools EXCEPT ![k] = Absent]
  <2>1. Writes(c, op, {k}, cat) /\ stored.tools[k] # Absent
    BY <1>5 DEF Unregister
  <2>2. Effect(op, stored, Bumped(stored, {k}, cat))
    BY <1>1, <2>1 DEF Effect
  <2> QED
    BY <2>1, <2>2
<1>6. ASSUME NEW ks \in SUBSET Keys, NEW batch \in [ks -> Contracts], NEW replace \in BOOLEAN,
             UpdateMany(c, batch, replace)
      PROVE  Frame(c) /\ Own(c) /\ Exact(c)'
  <2> DEFINE op == [op |-> "update_many", batch |-> batch, replace |-> replace]
             cat == Over(stored.tools, batch)
  <2>1. /\ Writes(c, op, ks, cat)
        /\ ks # {} /\ (replace \/ ks \cap PresentIn(stored.tools) = {})
    BY <1>6 DEF UpdateMany
  <2>2. Effect(op, stored, Bumped(stored, ks, cat))
    BY <1>1, <2>1 DEF Effect
  <2> QED
    BY <2>1, <2>2
<1>7. ASSUME NEW ks \in SUBSET Keys, NEW batch \in [ks -> Contracts], NEW replace \in BOOLEAN,
             NEW v, UpdateManyIfVersion(c, batch, v, replace)
      PROVE  Frame(c) /\ Own(c) /\ Exact(c)'
  <2> DEFINE op == [op |-> "update_many_if", batch |-> batch, version |-> stored.version,
                    replace |-> replace]
             cat == Over(stored.tools, batch)
  <2>1. /\ Writes(c, op, ks, cat)
        /\ ks # {} /\ (replace \/ ks \cap PresentIn(stored.tools) = {})
    BY <1>7 DEF UpdateManyIfVersion
  <2>2. Effect(op, stored, Bumped(stored, ks, cat))
    BY <1>1, <2>1 DEF Effect
  <2> QED
    BY <2>1, <2>2
<1>8. ASSUME NEW ks \in SUBSET Keys, NEW expected \in [ks -> Fps], NEW v,
             UnregisterManyIfVersion(c, expected, v)
      PROVE  Frame(c) /\ Own(c) /\ Exact(c)'
  <2> DEFINE op == [op |-> "unregister_many", expected |-> expected,
                    version |-> stored.version]
             cat == Over(stored.tools, [k \in ks |-> Absent])
  <2>1. /\ Writes(c, op, ks, cat) /\ ks # {}
        /\ \A k \in ks : stored.tools[k] # Absent /\ FpOf[stored.tools[k]] = expected[k]
    BY <1>8 DEF UnregisterManyIfVersion, StoredFp
  <2>2. Effect(op, stored, Bumped(stored, ks, cat))
    BY <1>1, <2>1 DEF Effect
  <2> QED
    BY <2>1, <2>2
<1>9. ASSUME NEW ks \in SUBSET Keys, NEW expected \in [ks -> Fps], NEW v,
             NEW previous \in [ks -> Contracts \cup {Absent}],
             RestoreManyIfVersion(c, previous, expected, v)
      PROVE  Frame(c) /\ Own(c) /\ Exact(c)'
  <2> DEFINE op == [op |-> "restore_many", previous |-> previous,
                    expected |-> expected, version |-> stored.version]
             cat == Over(stored.tools, previous)
  <2>1. /\ Writes(c, op, ks, cat) /\ ks # {}
        /\ \A k \in ks : stored.tools[k] # Absent /\ FpOf[stored.tools[k]] = expected[k]
    BY <1>9 DEF RestoreManyIfVersion, StoredFp
  <2>2. Effect(op, stored, Bumped(stored, ks, cat))
    BY <1>1, <2>1 DEF Effect
  <2> QED
    BY <2>1, <2>2
<1> QED
  BY <1>2, <1>3, <1>4, <1>5, <1>6, <1>7, <1>8, <1>9 DEF RegistryWrite

-----------------------------------------------------------------------------
(* Receipts *)

\* The rows a receipt counts are those of versions the journal attests.
LEMMA RowsAttested ==
    ASSUME NEW r, IsRegistry(r), r.journalled, NEW from \in 0 .. r.version,
           r.version - from <= JournalVersions
    PROVE  /\ RowsOf(r, from) = {x \in from + 1 .. r.version : x > r.attested}
           /\ Cardinality(RowsOf(r, from)) = r.version - from <=> from >= r.attested
           /\ \A w \in RowsOf(r, from) : r.journal[w] = Row(r.wrote[w])
<1> DEFINE R == RowsOf(r, from)
           all == from + 1 .. r.version
<1>1. /\ r.version \in Nat /\ from \in Nat /\ from <= r.version
      /\ r.attested \in 0 .. r.version /\ JournalVersions \in Nat
  BY SQLiteAssumption DEF IsRegistry
<1>2. R = {x \in all : x > r.attested}
  BY <1>1, JournalIsWindow DEF RowsOf, JournalOf
<1>3. IsFiniteSet(all) /\ Cardinality(all) = r.version - from
  <2>1. from + 1 \in Int /\ r.version \in Int
    BY <1>1
  <2>2. /\ IsFiniteSet(all)
        /\ Cardinality(all) = IF from + 1 > r.version THEN 0 ELSE r.version - (from + 1) + 1
    BY <2>1, FS_Interval
  <2> QED
    BY <1>1, <2>2
<1>4. R \subseteq all
  BY <1>2
<1>5. Cardinality(R) = r.version - from <=> R = all
  BY <1>3, <1>4, FS_Subset
<1>6. R = all <=> from >= r.attested
  <2>1. CASE from >= r.attested
    BY <1>1, <1>2, <2>1
  <2>2. CASE ~(from >= r.attested)
    <3>1. from + 1 \in all /\ from + 1 \notin R
      BY <1>1, <1>2, <2>2
    <3> QED
      BY <2>2, <3>1
  <2> QED
    BY <2>1, <2>2
<1>7. \A w \in R : w \in JournalOf(r)
  BY JournalIsWindow DEF RowsOf
<1>8. \A w \in R : r.journal[w] = Row(r.wrote[w])
  BY <1>7, JournalIsWindow
<1> QED
  BY <1>2, <1>5, <1>6, <1>8

\* A receipt is served exactly when the journal attests every version asked for
\* and the keys fit, and then it is all of them.
LEMMA ServedExactly ==
    ASSUME NEW r, IsRegistry(r), r.journalled, NEW from \in 0 .. r.version
    PROVE  LET written == UNION {r.wrote[w] : w \in from + 1 .. r.version}
           IN /\ Served(r, from) <=> /\ from >= r.attested
                                     /\ r.version - from <= JournalVersions
                                     /\ Cardinality(written) <= ReceiptKeys
              /\ Served(r, from) => UNION {r.journal[w] : w \in RowsOf(r, from)} = written
<1> DEFINE R == RowsOf(r, from)
           all == from + 1 .. r.version
           written == UNION {r.wrote[w] : w \in all}
           listed == UNION {r.journal[w] : w \in R}
<1>1. /\ r.version \in Nat /\ from \in Nat /\ r.attested \in 0 .. r.version
      /\ r.wrote \in [1 .. r.version -> SUBSET Keys]
  BY DEF IsRegistry
<1>2. \A w \in all : r.wrote[w] \in SUBSET Keys
  BY <1>1
<1>3. IsFiniteSet(Keys) /\ ReceiptKeys \in Nat /\ \A ks \in SUBSET Keys : ks # None
  BY SQLiteAssumption
<1>4. written \in SUBSET Keys
  BY <1>2
<1>5. ASSUME r.version - from <= JournalVersions, from >= r.attested
      PROVE  R = all /\ \A w \in all : r.journal[w] = Row(r.wrote[w])
  <2>1. /\ R = {x \in all : x > r.attested}
        /\ \A w \in R : r.journal[w] = Row(r.wrote[w])
    BY <1>5, RowsAttested
  <2>2. \A x \in all : x > r.attested
    BY <1>1, <1>5
  <2>3. R = all
    BY <2>1, <2>2
  <2> QED
    BY <2>1, <2>3
<1>6. ASSUME NEW w \in all, Cardinality(r.wrote[w]) <= ReceiptKeys
      PROVE  Row(r.wrote[w]) = r.wrote[w] /\ Row(r.wrote[w]) # None
  BY <1>2, <1>3, <1>6 DEF Row
<1>7. ASSUME NEW w \in all, Row(r.wrote[w]) # None
      PROVE  Row(r.wrote[w]) = r.wrote[w]
  BY <1>7 DEF Row
<1>8. Served(r, from) => /\ r.version - from <= JournalVersions /\ from >= r.attested
  BY RowsAttested DEF Served
<1>9. ASSUME r.version - from <= JournalVersions, from >= r.attested,
             \A w \in R : r.journal[w] # None
      PROVE  listed = written
  <2>1. R = all /\ \A w \in all : r.journal[w] = Row(r.wrote[w])
    BY <1>5, <1>9
  <2>2. \A w \in all : r.journal[w] = r.wrote[w]
    BY <1>7, <1>9, <2>1
  <2> QED
    BY <2>1, <2>2
<1>10. ASSUME Served(r, from)
       PROVE  /\ from >= r.attested /\ r.version - from <= JournalVersions
              /\ Cardinality(written) <= ReceiptKeys /\ listed = written
  <2>1. listed = written
    BY <1>8, <1>9, <1>10 DEF Served
  <2>2. Cardinality(listed) <= ReceiptKeys
    BY <1>10 DEF Served
  <2> QED
    BY <1>8, <1>10, <2>1, <2>2
<1>11. ASSUME from >= r.attested, r.version - from <= JournalVersions,
              Cardinality(written) <= ReceiptKeys
       PROVE  Served(r, from)
  <2>1. R = all /\ \A w \in all : r.journal[w] = Row(r.wrote[w])
    BY <1>5, <1>11
  <2>2. \A w \in all : Cardinality(r.wrote[w]) <= ReceiptKeys
    <3> SUFFICES ASSUME NEW w \in all PROVE Cardinality(r.wrote[w]) <= ReceiptKeys
      OBVIOUS
    <3>1. r.wrote[w] \subseteq written
      OBVIOUS
    <3>2. IsFiniteSet(written)
      BY <1>3, <1>4, FS_Subset
    <3>3. IsFiniteSet(r.wrote[w]) /\ Cardinality(r.wrote[w]) <= Cardinality(written)
      BY <3>1, <3>2, FS_Subset
    <3>4. Cardinality(r.wrote[w]) \in Nat /\ Cardinality(written) \in Nat
      BY <3>2, <3>3, FS_CardinalityType
    <3> HIDE DEF written
    <3> QED
      BY <1>3, <1>11, <3>3, <3>4
  <2>3. \A w \in R : r.journal[w] # None
    BY <1>6, <2>1, <2>2
  <2>4. listed = written
    BY <1>9, <1>11, <2>3
  <2>5. Cardinality(R) = r.version - from
    BY <1>11, RowsAttested
  <2> QED
    BY <1>11, <2>3, <2>4, <2>5 DEF Served
<1> QED
  BY <1>10, <1>11

\* A receipt is begun and computed.
LEMMA ReceiptKeeps ==
    ASSUME StorageInv, NEW c \in Conns, RegistryReceipt(c)
    PROVE  Frame(c) /\ Own(c) /\ Exact(c)'
<1> DEFINE K == Kind(c)
<1>1. /\ OpenerOK(c) /\ MigratorOK(c) /\ ReceiptOK(c) /\ GoodFile(db)
      /\ DOMAIN receipt = Conns /\ DOMAIN view = Conns /\ DOMAIN call = Conns
  BY DEF StorageInv, StorageTypes
<1>2. "receipt" \in PCs \ InTransaction /\ "open" \in PCs \ InTransaction
  BY DEF PCs, InTransaction
<1>3. IsRegistry(db.registry) /\ db.registry.version \in Nat
  BY <1>1 DEF GoodFile, IsRegistry
\* It stays open meanwhile.
<1>4. ASSUME NEW q \in {"receipt", "open"}, pc[c] \in {"receipt", "open"},
             pc' = [pc EXCEPT ![c] = q],
             NoTx, UNCHANGED <<world, db, target, call>>,
             \E v : view' = [view EXCEPT ![c] = v],
             \E v : receipt' = [receipt EXCEPT ![c] = v],
             ReceiptOK(c)', Exact(c)'
      PROVE  Frame(c) /\ Own(c)
  <2>1. pc[c] \notin InTransaction /\ q \in PCs /\ q \notin InTransaction
    BY <1>2, <1>4 DEF InTransaction
  <2>2. DOMAIN receipt' = Conns /\ \A x \in Conns \ {c} : receipt'[x] = receipt[x]
    BY <1>1, <1>4
  <2>3. /\ Frame(c) /\ pc'[c] = q /\ Kind(c)' = Kind(c)
        /\ pc'[c] \in InTransaction <=> writer' = c
        /\ ~(writer' = c /\ pc'[c] # "wedged")
    BY <1>1, <1>4, <2>1, <2>2, OutsideFrame
  <2>4. MigratorOK(c)'
    BY <1>1, <1>4, <2>3 DEF MigratorOK, Migrating
  <2>5. OpenerOK(c)'
    <3>1. Ready(db, K)'
      BY <1>1, <1>4, <2>3 DEF OpenerOK, Opened, Ready, CurrentIn, Stable, Env, Kind
    <3> QED
      BY <1>4, <2>3, <3>1 DEF OpenerOK
  <2> QED
    BY <1>4, <2>3, <2>4, <2>5 DEF Own
<1>5. ASSUME NEW from \in 0 .. stored.version, ReceiptBegin(c, from)
      PROVE  Frame(c) /\ Own(c) /\ Exact(c)'
  <2>1. /\ K = "registry" /\ pc[c] = "open" /\ pc' = [pc EXCEPT ![c] = "receipt"]
        /\ view' = [view EXCEPT ![c] = [from |-> from, snapshot |-> stored]]
        /\ receipt' = [receipt EXCEPT ![c] = None]
        /\ NoTx /\ UNCHANGED <<world, db, target, call>>
    BY <1>5 DEF ReceiptBegin, Moves, Sees
  <2>2. receipt'[c] = None /\ view'[c] = [from |-> from, snapshot |-> stored]
    BY <1>1, <2>1
  <2>3. stored.journalled
    BY <1>1, <2>1 DEF OpenerOK, Opened, Ready, stored
  <2>4. Later(db.registry, db.registry)
    BY <1>3 DEF Later
  <2>5. ReceiptOK(c)'
    BY <1>3, <2>1, <2>2, <2>3, <2>4 DEF ReceiptOK, stored
  <2>6. Exact(c)'
    BY <2>2 DEF Exact
  <2> QED
    BY <1>4, <2>1, <2>5, <2>6
<1>6. CASE ReceiptRows(c)
  <2> DEFINE r == view[c].snapshot
             from == view[c].from
             written == UNION {r.wrote[w] : w \in from + 1 .. r.version}
             keys == UNION {r.journal[w] : w \in RowsOf(r, from)}
             a == [from |-> from, to |-> r.version, served |-> Served(r, from),
                   keys |-> IF Served(r, from) THEN keys ELSE {}]
  <2>1. /\ pc[c] = "receipt" /\ pc' = [pc EXCEPT ![c] = "open"]
        /\ view' = [view EXCEPT ![c] = None]
        /\ receipt' = [receipt EXCEPT ![c] = a]
        /\ NoTx /\ UNCHANGED <<world, db, target, call>>
    BY <1>6 DEF ReceiptRows, Moves, Sees
  <2>2. /\ IsRegistry(r) /\ r.journalled /\ from \in 0 .. r.version /\ Later(r, db.registry)
    BY <1>1, <2>1 DEF ReceiptOK
  <2>3. receipt'[c] = a /\ pc'[c] = "open" /\ view'[c] = None
    <3>1. pc \in [Conns -> PCs]
      BY DEF StorageInv, StorageTypes, FileTypeOK, PCs
    <3> QED
      BY <1>1, <2>1, <3>1
  <2>4. /\ Served(r, from) <=> /\ from >= r.attested
                               /\ r.version - from <= JournalVersions
                               /\ Cardinality(written) <= ReceiptKeys
        /\ Served(r, from) => keys = written
    BY <2>2, ServedExactly
  <2>5. /\ r.version \in Nat /\ r.version <= db.registry.version
        /\ db.registry.journalled /\ db.registry.attested = r.attested
        /\ \A w \in from + 1 .. r.version : db.registry.wrote[w] = r.wrote[w]
    BY <2>2 DEF Later, IsRegistry
  <2>6. written = UNION {db.registry.wrote[w] : w \in from + 1 .. r.version}
    BY <2>5
  <2> DEFINE ok == Served(r, from)
  <2>7. /\ a.from = from /\ a.to = r.version /\ (a.served <=> ok)
        /\ ok => a.keys = keys
    OBVIOUS
  <2> HIDE DEF ok, a, written, keys, r, from
  <2>8. ReceiptOK(c)'
    BY <1>3, <2>1, <2>2, <2>3, <2>5, <2>7 DEF ReceiptOK
  <2>9. /\ a.served <=> /\ a.from >= db'.registry.attested
                        /\ a.to - a.from <= JournalVersions
                        /\ Cardinality(UNION {db'.registry.wrote[w] : w \in a.from + 1 .. a.to})
                              <= ReceiptKeys
        /\ a.served => a.keys = UNION {db'.registry.wrote[w] : w \in a.from + 1 .. a.to}
    BY <2>1, <2>4, <2>5, <2>6, <2>7 DEF ok
  <2>10. Exact(c)'
    BY <2>3, <2>9 DEF Exact
  <2> QED
    BY <1>4, <2>1, <2>8, <2>10
<1> QED
  BY <1>5, <1>6 DEF RegistryReceipt

-----------------------------------------------------------------------------
(* Steps of a trace store *)

\* A transaction whose traces are sound and grew by whole runs or one event.
LEMMA TraceBegins ==
    ASSUME StorageInv, NEW c \in Conns, NEW t, TraceWrites(c, t), UNCHANGED <<call, receipt>>,
           IsTraces(t), Grown(db.trace, t)
    PROVE  Frame(c) /\ Own(c) /\ Exact(c)'
<1> DEFINE n == [db EXCEPT !.trace = t]
<1>1. /\ Kind(c) = "trace" /\ pc[c] = "open" /\ pc' = [pc EXCEPT ![c] = "writing"]
      /\ Begins(c, n) /\ UNCHANGED <<world, db, view, target>>
  BY DEF TraceWrites, Moves
<1>2. /\ OpenerOK(c) /\ GoodFile(db) /\ DOMAIN call = Conns /\ DOMAIN receipt = Conns
  BY DEF StorageInv, StorageTypes
<1>3. "writing" \in InTransaction /\ "writing" # "wedged"
  BY DEF InTransaction
<1>4. IsFile(db)
  BY <1>2 DEF GoodFile
<1>5. /\ IsFile(n) /\ n.trace = t /\ n.registry = db.registry
      /\ n.migrated = db.migrated /\ n.valid = db.valid /\ Keeps(db, n)
  BY <1>4, FileWith
<1> HIDE DEF n
<1>6. GoodFile(n)
  BY <1>2, <1>5 DEF GoodFile
<1>7. /\ Frame(c) /\ pc'[c] = "writing" /\ writer' = c /\ tx'[c] = n /\ Kind(c)' = Kind(c)
  BY <1>1, <1>2, <1>3, BeginFrame
<1>8. ReceiptOK(c)' /\ Exact(c)'
  BY <1>2, <1>7, OwnReceipt
<1>9. MigratorOK(c)'
  BY <1>1, <1>7 DEF MigratorOK, Migrating
<1>10. OpenerOK(c)'
  <2>1. Ready(db, Kind(c))'
    BY <1>1, <1>2 DEF OpenerOK, Opened, Ready, CurrentIn, Stable, Env, Kind
  <2> QED
    BY <1>7, <2>1 DEF OpenerOK
<1>11. CopyOK(c)'
  BY <1>1, <1>5, <1>6, <1>7 DEF CopyOK, Upgraded
<1> QED
  BY <1>3, <1>7, <1>8, <1>9, <1>10, <1>11 DEF Own

\* trace() reads a summary, then the events.
LEMMA TraceReads ==
    ASSUME StorageInv, NEW c \in Conns, UNCHANGED <<call, receipt>>,
           (\E r \in Runs : TraceSummary(c, r)) \/ TraceEvents(c)
    PROVE  Frame(c) /\ Own(c) /\ Exact(c)'
<1>1. \E q \in {"reading", "open"} :
         /\ pc[c] \in {"reading", "open"} /\ pc' = [pc EXCEPT ![c] = q]
         /\ \E v : view' = [view EXCEPT ![c] = v]
         /\ NoTx /\ UNCHANGED <<world, db, target>>
  BY DEF TraceSummary, TraceEvents, Moves, Sees
<1>2. PICK q \in {"reading", "open"} :
         /\ pc[c] \in {"reading", "open"} /\ pc' = [pc EXCEPT ![c] = q]
         /\ \E v : view' = [view EXCEPT ![c] = v]
         /\ NoTx /\ UNCHANGED <<world, db, target>>
  BY <1>1
<1>3. /\ OpenerOK(c) /\ MigratorOK(c) /\ DOMAIN call = Conns /\ DOMAIN receipt = Conns
  BY DEF StorageInv, StorageTypes
<1>4. q \in PCs /\ q \notin InTransaction /\ pc[c] \notin InTransaction
  BY <1>2 DEF PCs, InTransaction
<1>5. /\ Frame(c) /\ pc'[c] = q /\ Kind(c)' = Kind(c)
      /\ pc'[c] \in InTransaction <=> writer' = c
      /\ ~(writer' = c /\ pc'[c] # "wedged")
  BY <1>2, <1>3, <1>4, OutsideFrame
<1>6. ReceiptOK(c)' /\ Exact(c)'
  BY <1>5, OwnReceipt
<1>7. MigratorOK(c)'
  BY <1>2, <1>3, <1>5 DEF MigratorOK, Migrating
<1>8. OpenerOK(c)'
  <2>1. Ready(db, Kind(c))'
    BY <1>2, <1>3 DEF OpenerOK, Opened, Ready, CurrentIn, Stable, Env, Kind
  <2> QED
    BY <1>5, <2>1 DEF OpenerOK
<1> QED
  BY <1>5, <1>6, <1>7, <1>8 DEF Own

LEMMA TraceKeeps ==
    ASSUME StorageInv, NEW c \in Conns, UNCHANGED <<call, receipt>>, TraceStep(c)
    PROVE  Frame(c) /\ Own(c) /\ Exact(c)'
<1>1. IsTraces(db.trace) /\ Grown(db.trace, db.trace)
  BY GrownSame DEF StorageInv, StorageTypes, GoodFile
<1>2. ASSUME NEW t, IsTraces(t), Grown(db.trace, t), NEW kept \in Pruned(t)
      PROVE  IsTraces(kept) /\ Grown(db.trace, kept)
  <2>1. PICK gone : kept = WithoutRuns(t, gone)
    BY DEF Pruned
  <2> QED
    BY <1>2, <2>1, DroppedTraces
<1>3. ASSUME NEW r \in Runs, NEW n \in 0 .. MaxEvents - 1, NEW kind \in EventKinds,
             AppendEvent(c, r, n, kind)
      PROVE  Frame(c) /\ Own(c) /\ Exact(c)'
  <2> DEFINE t == Appended(r, n, kind)
  <2>1. n \in Nat /\ Appendable(r, n, kind)
    BY <1>3 DEF AppendEvent
  <2>2. IsTraces(t) /\ Grown(db.trace, t)
    BY <1>1, <2>1, AppendedTraces
  <2>3. (\E kept \in Pruned(t) : TraceWrites(c, kept)) \/ TraceWrites(c, t)
    BY <1>3 DEF AppendEvent
  <2> QED
    BY <1>2, <2>2, <2>3, TraceBegins
<1>4. CASE Prune(c)
  <2>1. PICK kept \in Pruned(db.trace) : TraceWrites(c, kept)
    BY <1>4 DEF Prune
  <2>2. IsTraces(kept) /\ Grown(db.trace, kept)
    BY <1>1, <1>2
  <2> QED
    BY <2>1, <2>2, TraceBegins
<1>5. ASSUME NEW r \in Runs, Delete(c, r)
      PROVE  Frame(c) /\ Own(c) /\ Exact(c)'
  <2>1. TraceWrites(c, WithoutRuns(db.trace, {r}))
    BY <1>5 DEF Delete
  <2>2. IsTraces(WithoutRuns(db.trace, {r})) /\ Grown(db.trace, WithoutRuns(db.trace, {r}))
    BY <1>1, DroppedTraces
  <2> QED
    BY <2>1, <2>2, TraceBegins
<1> QED
  BY <1>3, <1>4, <1>5, TraceReads DEF TraceStep

-----------------------------------------------------------------------------
(* The invariant *)

LEMMA StorageStarts ==
    ASSUME Init
    PROVE  StorageInv
<1>1. /\ world \in Worlds /\ db = world.file /\ writer = None
      /\ tx = [c \in Conns |-> None] /\ pc = [c \in Conns |-> "closed"]
      /\ view = [c \in Conns |-> None] /\ target = {}
      /\ call = [c \in Conns |-> None] /\ receipt = [c \in Conns |-> None]
  BY DEF Init, FileInit
<1>2. GoodFile(db)
  BY <1>1, FileAssumption, SQLiteAssumption, TraceAssumption DEF GoodFile
<1>3. FileTypeOK
  BY <1>1, FileAssumption DEF FileTypeOK, InTransaction
<1>4. StorageTypes
  BY <1>1, <1>2, <1>3 DEF StorageTypes
<1>5. ASSUME NEW c \in Conns
      PROVE  /\ writer # c
             /\ OpenerOK(c) /\ MigratorOK(c) /\ ReceiptOK(c)
  BY <1>1, FileAssumption DEF OpenerOK, MigratorOK, ReceiptOK, Opened, Migrating
<1>6. ReceiptExact
  BY <1>1 DEF ReceiptExact
<1> QED
  BY <1>4, <1>5, <1>6 DEF StorageInv

\* Every step is one connection's, another program's, or none.
LEMMA StorageSteps ==
    ASSUME StorageInv, [Next]_vars
    PROVE  \/ \E c \in Conns : Frame(c) /\ Own(c) /\ Exact(c)'
           \/ (ForeignTarget \/ NewerRelease) /\ FileContext
           \/ UNCHANGED vars
<1>1. ASSUME NEW c \in Conns, FileContext,
             \/ Open(c) \/ Migrate(c)
             \/ Commit(c) \/ RollBack(c) \/ Interrupted(c) \/ Close(c) \/ Crash(c)
      PROVE  Frame(c) /\ Own(c) /\ Exact(c)'
  BY <1>1, OpenReads, OpenBegins, MigrateKeeps, StoreEnds, InterruptKeeps DEF Open
<1>2. CASE FileNext /\ CallEnds /\ UNCHANGED <<receipt, trace>>
  BY <1>1, <1>2 DEF FileNext, FileContext
<1>3. CASE \E c \in Conns : (RegistryWrite(c) \/ RegistryReceipt(c)) /\ UNCHANGED trace
  BY <1>3, WriteKeeps, ReceiptKeeps
<1>4. CASE \E c \in Conns : TraceStep(c) /\ UNCHANGED <<call, receipt>>
  BY <1>4, TraceKeeps
<1> QED
  BY <1>2, <1>3, <1>4 DEF Next

LEMMA StorageStep ==
    ASSUME StorageInv, [Next]_vars
    PROVE  StorageInv'
<1>1. CASE \E c \in Conns : Frame(c) /\ Own(c) /\ Exact(c)'
  BY <1>1, FrameKeeps
<1>2. CASE (ForeignTarget \/ NewerRelease) /\ FileContext
  BY <1>2, ForeignKeeps, NewerKeeps
<1>3. CASE UNCHANGED vars
  <2>1. UNCHANGED <<world, db, writer, tx, pc, view, target, call, receipt>>
    BY <1>3 DEF vars, fileVars
  <2>2. StorageTypes'
    BY <2>1 DEF StorageInv, StorageTypes, FileTypeOK
  <2>3. ASSUME NEW c \in Conns
        PROVE  /\ writer' = c /\ pc'[c] # "wedged" => CopyOK(c)'
               /\ OpenerOK(c)' /\ MigratorOK(c)' /\ ReceiptOK(c)'
    <3>1. /\ writer = c /\ pc[c] # "wedged" => CopyOK(c)
          /\ OpenerOK(c) /\ MigratorOK(c) /\ ReceiptOK(c)
      BY DEF StorageInv
    <3> QED
      BY <2>1, <3>1 DEF CopyOK, OpenerOK, MigratorOK, ReceiptOK, Ready, CurrentIn, Kind,
                        Stable, Env
  <2>4. ReceiptExact'
    BY <2>1, ExactSame
  <2> QED
    BY <2>2, <2>3, <2>4 DEF StorageInv
<1> QED
  BY <1>1, <1>2, <1>3, StorageSteps

LEMMA StorageInvariant == Spec => []StorageInv
<1>1. Init => StorageInv
  BY StorageStarts
<1>2. StorageInv /\ [Next]_vars => StorageInv'
  BY StorageStep
<1> QED
  BY <1>1, <1>2, PTL DEF Spec

-----------------------------------------------------------------------------
(* What is committed *)

LEMMA WhoCommits ==
    ASSUME [Next]_vars
    PROVE  \/ db' = db
           \/ \E c \in Conns : Commit(c) \/ MigrateCommit(c)
           \/ NewerRelease
<1>1. ASSUME NEW c \in Conns, Open(c)
      PROVE  db' = db
  BY <1>1 DEF Open, OpenTables, OpenUncertain, OpenStorageFormat, OpenDocumentFormat,
              OpenCreate, OpenCurrent, OpenLegacy, OpenLegacyInvalid, OpenLocked
<1>2. ASSUME NEW c \in Conns, Migrate(c)
      PROVE  db' = db \/ MigrateCommit(c)
  BY <1>2 DEF Migrate, MigrateBegin, MigrateInspect, MigrateResolve, MigrateCopy,
              MigratePublish, MigrateStamp
<1>3. ASSUME NEW c \in Conns, RollBack(c) \/ Interrupted(c) \/ Close(c) \/ Crash(c)
      PROVE  db' = db
  BY <1>3 DEF RollBack, Interrupted, Close, Crash
<1>4. ASSUME NEW c \in Conns, RegistryWrite(c)
      PROVE  db' = db
  BY <1>4 DEF RegistryWrite, Register, ReplaceIfFingerprint, UnregisterIfFingerprint,
              Unregister, UpdateMany, UpdateManyIfVersion, UnregisterManyIfVersion,
              RestoreManyIfVersion, Writes
<1>5. ASSUME NEW c \in Conns, RegistryReceipt(c)
      PROVE  db' = db
  BY <1>5 DEF RegistryReceipt, ReceiptBegin, ReceiptRows
<1>6. ASSUME NEW c \in Conns, TraceStep(c)
      PROVE  db' = db
  BY <1>6 DEF TraceStep, AppendEvent, Prune, Delete, TraceSummary, TraceEvents, TraceWrites
<1>7. ForeignTarget => db' = db
  BY DEF ForeignTarget
<1>8. UNCHANGED vars => db' = db
  BY DEF vars, fileVars
<1> QED
  BY <1>1, <1>2, <1>3, <1>4, <1>5, <1>6, <1>7, <1>8 DEF Next, FileNext

\* A step leaves the registry as it was, gives it its journal, or commits one call.
LEMMA WhatCommits ==
    ASSUME StorageInv, [Next]_vars
    PROVE  \/ Upgraded(db.registry, db'.registry)
           \/ \E c \in Conns : /\ pc[c] = "writing" /\ pc'[c] = "open"
                               /\ Effect(call[c], db.registry, db'.registry)
<1>1. /\ pc \in [Conns -> PCs] /\ GoodFile(db)
      /\ \A c \in Conns : pc[c] \in InTransaction <=> writer = c
      /\ \A c \in Conns : writer = c /\ pc[c] # "wedged" => CopyOK(c)
  BY DEF StorageInv, StorageTypes, FileTypeOK, PCs
<1>2. CASE db' = db
  BY <1>2 DEF Upgraded
<1>3. ASSUME NEW c \in Conns, Commit(c)
      PROVE  \/ Upgraded(db.registry, db'.registry)
             \/ /\ pc[c] = "writing" /\ pc'[c] = "open"
                /\ Effect(call[c], db.registry, db'.registry)
  <2>1. /\ pc[c] \in {"opening", "writing"} /\ pc'[c] = "open" /\ writer = c /\ db' = tx[c]
    BY <1>1, <1>3 DEF Commit, Moves
  <2>2. CopyOK(c)
    BY <1>1, <2>1
  <2> QED
    BY <2>1, <2>2 DEF CopyOK
<1>4. ASSUME NEW c \in Conns, MigrateCommit(c)
      PROVE  Upgraded(db.registry, db'.registry)
  <2>1. pc[c] = "stamped" /\ db' = tx[c] /\ writer = c
    BY <1>1, <1>4 DEF MigrateCommit, Moves, InTransaction
  <2>2. CopyOK(c)
    BY <1>1, <2>1
  <2> QED
    BY <2>1, <2>2 DEF CopyOK
<1>5. CASE NewerRelease
  <2>1. PICK comp \in Components :
           db' = [db EXCEPT !.meta = TRUE, !.storageFormat[comp] = "future"]
    BY <1>5 DEF NewerRelease
  <2>2. db'.registry = db.registry
    BY <1>1, <2>1, FutureFile DEF GoodFile
  <2> QED
    BY <2>2 DEF Upgraded
<1> QED
  BY <1>2, <1>3, <1>4, <1>5, WhoCommits

-----------------------------------------------------------------------------
(* The file as the abstract registry *)

\* Both modules count with the same operator.
LEMMA SameCardinality ==
    ASSUME NEW S
    PROVE  Abs!Cardinality(S) = Cardinality(S)
  BY DEF Abs!Cardinality, Cardinality

\* The journal's trimmed window is what the in-memory journal evicts to.
LEMMA EvictsToWindow ==
    ASSUME NEW v \in Nat, NEW a \in 0 .. v
    PROVE  Abs!Evict({x \in 1 .. v : x > a /\ x > v - JournalVersions} \cup {v + 1}) =
               {x \in 1 .. v + 1 : x > a /\ x > v + 1 - JournalVersions}
<1> DEFINE J == JournalVersions
           lo == IF a >= v - J THEN a + 1 ELSE v - J + 1
           grown == {x \in 1 .. v : x > a /\ x > v - J} \cup {v + 1}
<1>1. J \in Nat \ {0} /\ a \in Nat /\ a <= v
  BY SQLiteAssumption
<1>2. lo \in 1 .. v + 1 /\ lo > a /\ lo > v - J
  BY <1>1
<1>3. grown = lo .. v + 1
  BY <1>1
<1>4. Cardinality(grown) = v + 1 - lo + 1
  <2>1. lo \in Int /\ v + 1 \in Int /\ ~(lo > v + 1)
    BY <1>2
  <2> HIDE DEF lo, grown
  <2>2. \A m, n \in Int : Cardinality(m .. n) = IF m > n THEN 0 ELSE n - m + 1
    BY FS_Interval
  <2> QED
    BY <1>3, <2>1, <2>2
<1>5. CASE lo = v - J + 1
  <2>1. Cardinality(grown) > J
    BY <1>1, <1>4, <1>5
  <2>2. lo \in grown /\ \A x \in grown : lo <= x
    BY <1>2, <1>3
  <2>3. Abs!Oldest(grown) = lo
    BY <1>2, <1>3, <2>2 DEF Abs!Oldest
  <2>4. Abs!Evict(grown) = grown \ {lo}
    <3>1. Abs!Cardinality(grown) > J
      BY <2>1, SameCardinality
    <3> HIDE DEF grown, lo
    <3> QED
      BY <2>3, <3>1 DEF Abs!Evict
  <2> QED
    BY <1>1, <1>2, <1>3, <1>5, <2>4
<1>6. CASE lo # v - J + 1
  <2>1. ~(Cardinality(grown) > J)
    BY <1>1, <1>2, <1>4, <1>6
  <2>2. Abs!Evict(grown) = grown
    <3>1. ~(Abs!Cardinality(grown) > J)
      BY <2>1, SameCardinality
    <3> HIDE DEF grown, lo
    <3> QED
      BY <3>1 DEF Abs!Evict
  <2> QED
    BY <1>1, <1>2, <1>3, <1>6, <2>2
<1> QED
  BY <1>5, <1>6

\* What a write of the abstract registry does, r before it and s after it.
Committed(r, s, ks, cat) ==
    LET M == [w \in DOMAIN r.journal |-> r.wrote[w]]
    IN /\ r.version < MaxVersion
       /\ s.tools = cat
       /\ s.version = r.version + 1
       /\ [w \in DOMAIN s.journal |-> s.wrote[w]] =
             [w \in Abs!Evict(DOMAIN M \cup {r.version + 1}) |->
                IF w = r.version + 1 THEN ks ELSE M[w]]
       /\ s.past = [w \in 0 .. r.version + 1 |-> IF w = r.version + 1 THEN cat ELSE r.past[w]]

LEMMA BumpIsWrite ==
    ASSUME NEW r, IsRegistry(r), r.journalled, r.version < MaxVersion,
           NEW ks \in SUBSET Keys, NEW cat \in Catalogs
    PROVE  Committed(r, Bumped(r, ks, cat), ks, cat)
<1> DEFINE s == Bumped(r, ks, cat)
           v == r.version
           a == r.attested
           D == {x \in 1 .. v : x > a /\ x > v - JournalVersions}
           E == {x \in 1 .. v + 1 : x > a /\ x > v + 1 - JournalVersions}
           M == [w \in DOMAIN r.journal |-> r.wrote[w]]
           W == [w \in 1 .. v + 1 |-> IF w = v + 1 THEN ks ELSE r.wrote[w]]
           P == [w \in 0 .. v + 1 |-> IF w = v + 1 THEN cat ELSE r.past[w]]
<1>1. /\ v \in Nat /\ a \in 0 .. v /\ JournalVersions \in Nat \ {0}
  BY SQLiteAssumption DEF IsRegistry
<1>2. /\ IsRegistry(s) /\ s.version = v + 1 /\ s.tools = cat /\ s.journalled
      /\ s.attested = a
  BY BumpedRegistry
<1>3. s.past = P /\ s.wrote = W
  <2> DEFINE kept == {w \in DOMAIN r.journal : w > (v + 1) - JournalVersions}
             rows == [w \in kept \cup {v + 1} |-> IF w = v + 1 THEN Row(ks) ELSE r.journal[w]]
  <2>1. s = [tools |-> cat, version |-> v + 1, journalled |-> r.journalled,
             journal |-> rows, past |-> P, wrote |-> W, attested |-> r.attested]
    BY BumpedFields
  <2> HIDE DEF s, rows, P, W
  <2> QED
    BY <2>1
<1>4. DOMAIN r.journal = D
  BY JournalIsWindow DEF JournalOf
<1> HIDE DEF s
<1>5. DOMAIN s.journal = E
  <2>1. DOMAIN s.journal = JournalOf(s)
    BY <1>2, JournalIsWindow
  <2>2. JournalOf(s) = E
    BY <1>1, <1>2 DEF JournalOf
  <2> QED
    BY <2>1, <2>2
<1>6. Abs!Evict(DOMAIN M \cup {v + 1}) = E
  BY <1>1, <1>4, EvictsToWindow
<1>7. \A w \in E : w = v + 1 \/ (w \in D /\ w # v + 1)
  BY <1>1
<1>8. \A w \in E : s.wrote[w] = IF w = v + 1 THEN ks ELSE M[w]
  <2> SUFFICES ASSUME NEW w \in E
               PROVE  s.wrote[w] = IF w = v + 1 THEN ks ELSE M[w]
    OBVIOUS
  <2>1. w \in 1 .. v + 1
    OBVIOUS
  <2>2. W[w] = IF w = v + 1 THEN ks ELSE r.wrote[w]
    BY <2>1
  <2>3. w # v + 1 => M[w] = r.wrote[w]
    BY <1>4, <1>7
  <2> HIDE DEF W, M
  <2> QED
    BY <1>3, <2>2, <2>3
<1> HIDE DEF D, E, M, W
<1>9. [w \in DOMAIN s.journal |-> s.wrote[w]] =
          [w \in Abs!Evict(DOMAIN M \cup {v + 1}) |-> IF w = v + 1 THEN ks ELSE M[w]]
  BY <1>5, <1>6, <1>8
<1> QED
  BY <1>2, <1>3, <1>9 DEF Committed, s, M

\* The abstract registry does what the call says, with arguments any caller may use.
LEMMA EffectPerforms ==
    ASSUME IsRegistry(db.registry), NEW o, Effect(o, db.registry, db'.registry)
    PROVE  Performs(o) /\ Abs!AnyWrite
<1> DEFINE r == db.registry
           s == db'.registry
<1>1. r.journalled /\ r.version < MaxVersion /\ r.tools \in Catalogs /\ r.version \in Nat
  BY DEF Effect, IsRegistry
<1>0. PICK v \in 0 .. r.version : v = r.version
  BY <1>1
<1> USE DEF Abs!CommitChangedToolKeys, Abs!Journalled
<1>2. ASSUME NEW k \in Keys, NEW t, t \in Contracts \cup {Absent},
             s = Bumped(r, {k}, [r.tools EXCEPT ![k] = t])
      PROVE  Committed(r, s, {k}, [r.tools EXCEPT ![k] = t])
  <2> DEFINE cat == [r.tools EXCEPT ![k] = t]
             ks == {k}
  <2>1. ks \in SUBSET Keys /\ cat \in Catalogs
    BY <1>1, <1>2 DEF Catalogs
  <2>2. s = Bumped(r, ks, cat)
    BY <1>2
  <2> HIDE DEF cat, ks
  <2>3. Committed(r, s, ks, cat)
    BY <1>1, <2>1, <2>2, BumpIsWrite
  <2> QED
    BY <2>3 DEF cat, ks
<1>3. ASSUME NEW ks \in SUBSET Keys, NEW b \in [ks -> Contracts \cup {Absent}],
             s = Bumped(r, ks, Over(r.tools, b))
      PROVE  Committed(r, s, ks, Over(r.tools, b))
  <2> DEFINE cat == Over(r.tools, b)
  <2>1. cat \in Catalogs
    BY <1>1 DEF Catalogs, Over
  <2>2. s = Bumped(r, ks, cat)
    BY <1>3
  <2> HIDE DEF cat
  <2>3. Committed(r, s, ks, cat)
    BY <1>1, <2>1, <2>2, BumpIsWrite
  <2> QED
    BY <2>3 DEF cat
<1>4. ASSUME NEW k \in Keys, NEW t \in Contracts, NEW replace \in BOOLEAN,
             o = [op |-> "register", key |-> k, tool |-> t, replace |-> replace],
             replace \/ r.tools[k] = Absent,
             s = Bumped(r, {k}, [r.tools EXCEPT ![k] = t])
      PROVE  Performs(o) /\ Abs!AnyWrite
  <2>1. Committed(r, s, {k}, [r.tools EXCEPT ![k] = t])
    BY <1>2, <1>4
  <2>2. Abs!Register(k, t, replace)
    BY <1>4, <2>1 DEF Abs!Register, Committed
  <2>3. Performs(o)
    BY <1>4, <2>2 DEF Performs
  <2> QED
    BY <2>2, <2>3 DEF Abs!AnyWrite
<1>5. ASSUME NEW k \in Keys, NEW t \in Contracts, NEW fp \in Fps,
             o = [op |-> "replace", key |-> k, tool |-> t, fp |-> fp, version |-> v],
             r.tools[k] # Absent, FpOf[r.tools[k]] = fp,
             s = Bumped(r, {k}, [r.tools EXCEPT ![k] = t])
      PROVE  Performs(o) /\ Abs!AnyWrite
  <2>1. Committed(r, s, {k}, [r.tools EXCEPT ![k] = t])
    BY <1>2, <1>5
  <2>2. Abs!ReplaceIfFingerprint(k, t, fp, v)
    BY <1>5, <1>0, <2>1 DEF Abs!ReplaceIfFingerprint, Abs!Holds, Committed
  <2>3. Performs(o)
    BY <1>5, <2>2 DEF Performs
  <2> QED
    BY <2>2, <2>3 DEF Abs!AnyWrite
<1>6. ASSUME NEW k \in Keys, NEW fp \in Fps,
             o = [op |-> "unregister_if", key |-> k, fp |-> fp, version |-> v],
             r.tools[k] # Absent, FpOf[r.tools[k]] = fp,
             s = Bumped(r, {k}, [r.tools EXCEPT ![k] = Absent])
      PROVE  Performs(o) /\ Abs!AnyWrite
  <2>1. Committed(r, s, {k}, [r.tools EXCEPT ![k] = Absent])
    BY <1>2, <1>6
  <2>2. Abs!UnregisterIfFingerprint(k, fp, v)
    BY <1>6, <1>0, <2>1 DEF Abs!UnregisterIfFingerprint, Abs!Holds, Committed
  <2>3. Performs(o)
    BY <1>6, <2>2 DEF Performs
  <2> QED
    BY <2>2, <2>3 DEF Abs!AnyWrite
<1>7. ASSUME NEW k \in Keys, o = [op |-> "unregister", key |-> k], r.tools[k] # Absent,
             s = Bumped(r, {k}, [r.tools EXCEPT ![k] = Absent])
      PROVE  Performs(o) /\ Abs!AnyWrite
  <2>1. Committed(r, s, {k}, [r.tools EXCEPT ![k] = Absent])
    BY <1>2, <1>7
  <2>2. Abs!Unregister(k)
    BY <1>7, <2>1 DEF Abs!Unregister, Committed
  <2>3. Performs(o)
    BY <1>7, <2>2 DEF Performs
  <2> QED
    BY <2>2, <2>3 DEF Abs!AnyWrite
<1>8. ASSUME NEW ks \in SUBSET Keys, NEW batch \in [ks -> Contracts], NEW replace \in BOOLEAN,
             \/ o = [op |-> "update_many", batch |-> batch, replace |-> replace]
             \/ o = [op |-> "update_many_if", batch |-> batch, version |-> v,
                     replace |-> replace],
             ks # {}, replace \/ ks \cap PresentIn(r.tools) = {},
             s = Bumped(r, ks, Over(r.tools, batch))
      PROVE  Performs(o) /\ Abs!AnyWrite
  <2>1. batch \in [ks -> Contracts \cup {Absent}] /\ DOMAIN batch = ks
    OBVIOUS
  <2>2. Committed(r, s, DOMAIN batch, Over(r.tools, batch))
    BY <1>3, <1>8, <2>1
  <2>3. Abs!UpdateMany(batch, replace)
    BY <1>8, <2>1, <2>2 DEF Abs!UpdateMany, Abs!Present, PresentIn, Committed, Over, Abs!Over
  <2>4. Abs!UpdateManyIfVersion(batch, v, replace)
    BY <1>0, <2>3 DEF Abs!UpdateManyIfVersion
  <2>5. CASE o = [op |-> "update_many", batch |-> batch, replace |-> replace]
    <3>1. Performs(o)
      BY <2>3, <2>5 DEF Performs
    <3> QED
      BY <2>3, <3>1 DEF Abs!AnyWrite
  <2>6. CASE o = [op |-> "update_many_if", batch |-> batch, version |-> v,
                  replace |-> replace]
    <3>1. Performs(o)
      BY <2>4, <2>6 DEF Performs
    <3> QED
      BY <2>3, <3>1 DEF Abs!AnyWrite
  <2> QED
    BY <1>8, <2>5, <2>6
<1>9. ASSUME NEW ks \in SUBSET Keys, NEW expected \in [ks -> Fps], ks # {},
             \A k \in ks : r.tools[k] # Absent /\ FpOf[r.tools[k]] = expected[k],
             o = [op |-> "unregister_many", expected |-> expected, version |-> v],
             s = Bumped(r, ks, Over(r.tools, [k \in ks |-> Absent]))
      PROVE  Performs(o) /\ Abs!AnyWrite
  <2> DEFINE gone == [k \in ks |-> Absent]
  <2>1. gone \in [ks -> Contracts \cup {Absent}] /\ DOMAIN expected = ks
    OBVIOUS
  <2>2. Committed(r, s, DOMAIN expected, Over(r.tools, [k \in DOMAIN expected |-> Absent]))
    BY <1>3, <1>9, <2>1
  <2>3. \A k \in DOMAIN expected : Abs!Holds(k, expected[k])
    BY <1>9 DEF Abs!Holds
  <2>4. Abs!UnregisterManyIfVersion(expected, v)
    BY <1>9, <2>1, <2>2, <2>3, <1>0 DEF Abs!UnregisterManyIfVersion, Committed, Over, Abs!Over
  <2>5. Performs(o)
    BY <1>9, <2>4 DEF Performs
  <2> QED
    BY <2>4, <2>5 DEF Abs!AnyWrite
<1>10. ASSUME NEW ks \in SUBSET Keys, NEW expected \in [ks -> Fps], ks # {},
              \A k \in ks : r.tools[k] # Absent /\ FpOf[r.tools[k]] = expected[k],
              NEW previous \in [ks -> Contracts \cup {Absent}],
              o = [op |-> "restore_many", previous |-> previous, expected |-> expected,
                   version |-> v],
              s = Bumped(r, ks, Over(r.tools, previous))
      PROVE  Performs(o) /\ Abs!AnyWrite
  <2>1. DOMAIN previous = ks /\ DOMAIN expected = ks
    OBVIOUS
  <2>2. Committed(r, s, DOMAIN previous, Over(r.tools, previous))
    BY <1>3, <1>10, <2>1
  <2>3. \A k \in DOMAIN expected : Abs!Holds(k, expected[k])
    BY <1>10 DEF Abs!Holds
  <2>4. Abs!RestoreManyIfVersion(previous, expected, v)
    BY <1>10, <2>1, <2>2, <2>3, <1>0 DEF Abs!RestoreManyIfVersion, Committed, Over, Abs!Over
  <2>5. Performs(o)
    BY <1>10, <2>4 DEF Performs
  <2> QED
    BY <2>4, <2>5 DEF Abs!AnyWrite
<1> HIDE DEF Performs, Bumped
<1> QED
  BY <1>4, <1>5, <1>6, <1>7, <1>8, <1>9, <1>10, <1>0 DEF Effect

-----------------------------------------------------------------------------
(* The theorems *)

\* The writer lock is held exactly by the connection with a write transaction under
\* way (storage.py, BEGIN IMMEDIATE ... COMMIT), whoever else opens, migrates,
\* crashes or closes meanwhile.
THEOREM OneTransactionAtATime == Spec => []FileTypeOK
<1>1. StorageInv => FileTypeOK
  BY DEF StorageInv, StorageTypes
<1> QED
  BY <1>1, StorageInvariant, PTL

\* A store is open on a file in the current format only, with its tables, its
\* journal and valid documents (SQLiteRegistry and SQLiteRunTraceStore
\* constructors), however the judgement, the creation and the migration of the
\* file by several processes interleave.
THEOREM OpenStoresAreCurrent == Spec => []OpenMeansCurrent
<1>1. StorageInv => OpenMeansCurrent
  <2> SUFFICES ASSUME StorageInv, Stable, NEW c \in Conns, pc[c] \in Opened
               PROVE  /\ db.tables[Kind(c)] = "complete"
                      /\ CurrentIn(db, Kind(c))
                      /\ Kind(c) \in db.migrated => db.valid[Kind(c)]
                      /\ Kind(c) = "registry" => db.registry.journalled
    BY DEF OpenMeansCurrent, Stable, Opened, CurrentIn
  <2>1. OpenerOK(c) /\ GoodFile(db)
    BY DEF StorageInv, StorageTypes
  <2>2. Ready(db, Kind(c))
    BY <2>1 DEF OpenerOK
  <2> QED
    BY <2>1, <2>2 DEF Ready, GoodFile
<1> QED
  BY <1>1, StorageInvariant, PTL

\* A receipt of changed_tool_keys_since is exactly what was written between its two
\* versions, served whenever the journal attests all of them and they fit.
THEOREM ReceiptsAreExact == Spec => []ReceiptExact
<1>1. StorageInv => ReceiptExact
  BY DEF StorageInv
<1> QED
  BY <1>1, StorageInvariant, PTL

\* A backup is the file as it was right before the migration, and is never written
\* over another one (migrate_sqlite_storage).
THEOREM BackupsAreExact == Spec => BackupIsWhatWasMigrated
<1>1. StorageInv /\ [Next]_vars =>
        [/\ target # {} => target' = target
         /\ \A c \in Conns :
               pc[c] = "stamped" /\ pc'[c] = "done" /\ view[c] # None => target = {db}]_fileVars
  <2> SUFFICES ASSUME StorageInv, [Next]_vars
               PROVE  /\ target # {} => target' = target
                      /\ \A c \in Conns :
                            pc[c] = "stamped" /\ pc'[c] = "done" /\ view[c] # None => target = {db}
    OBVIOUS
  <2>1. target # {} => target' = target
    <3>1. ASSUME NEW c \in Conns, Open(c)
          PROVE  target' = target
      BY <3>1 DEF Open, OpenTables, OpenUncertain, OpenStorageFormat, OpenDocumentFormat,
                  OpenCreate, OpenCurrent, OpenLegacy, OpenLegacyInvalid, OpenLocked
    <3>2. ASSUME NEW c \in Conns, Migrate(c), target # {}
          PROVE  target' = target
      BY <3>2 DEF Migrate, MigrateBegin, MigrateInspect, MigrateResolve, MigrateCopy,
                  MigratePublish, MigrateStamp, MigrateCommit
    <3>3. ASSUME NEW c \in Conns,
                 Commit(c) \/ RollBack(c) \/ Interrupted(c) \/ Close(c) \/ Crash(c)
          PROVE  target' = target
      BY <3>3 DEF Commit, RollBack, Interrupted, Close, Crash
    <3>4. ASSUME NEW c \in Conns, RegistryWrite(c)
          PROVE  target' = target
      BY <3>4 DEF RegistryWrite, Register, ReplaceIfFingerprint, UnregisterIfFingerprint,
                  Unregister, UpdateMany, UpdateManyIfVersion, UnregisterManyIfVersion,
                  RestoreManyIfVersion, Writes
    <3>5. ASSUME NEW c \in Conns, RegistryReceipt(c)
          PROVE  target' = target
      BY <3>5 DEF RegistryReceipt, ReceiptBegin, ReceiptRows
    <3>6. ASSUME NEW c \in Conns, TraceStep(c)
          PROVE  target' = target
      BY <3>6 DEF TraceStep, AppendEvent, Prune, Delete, TraceSummary, TraceEvents, TraceWrites
    <3>7. (ForeignTarget => target = {}) /\ (NewerRelease => target' = target)
          /\ (UNCHANGED vars => target' = target)
      BY DEF ForeignTarget, NewerRelease, vars, fileVars
    <3> QED
      BY <3>1, <3>2, <3>3, <3>4, <3>5, <3>6, <3>7 DEF Next, FileNext
  <2>2. ASSUME NEW c \in Conns, pc[c] = "stamped", view[c] # None
        PROVE  target = {db}
    BY <2>2 DEF StorageInv, MigratorOK
  <2> QED
    BY <2>1, <2>2
<1> QED
  BY <1>1, StorageInvariant, PTL DEF Spec, BackupIsWhatWasMigrated

\* A committed call did to the shared registry what the same call does to the
\* in-memory one at the moment of the commit.
THEOREM CommitsPerform == Spec => CommitsPerformTheirCall
<1>1. StorageInv /\ [Next]_vars =>
        [db'.registry.version # db.registry.version =>
           \E c \in Conns : /\ pc[c] = "writing" /\ pc'[c] = "open"
                            /\ Performs(call[c])]_sqlVars
  <2> SUFFICES ASSUME StorageInv, [Next]_vars, db'.registry.version # db.registry.version
               PROVE  \E c \in Conns : /\ pc[c] = "writing" /\ pc'[c] = "open"
                                       /\ Performs(call[c])
    OBVIOUS
  <2>1. IsRegistry(db.registry)
    BY DEF StorageInv, StorageTypes, GoodFile
  <2>2. ~Upgraded(db.registry, db'.registry)
    BY <2>1, UpgradedRegistry
  <2>3. PICK c \in Conns : /\ pc[c] = "writing" /\ pc'[c] = "open"
                           /\ Effect(call[c], db.registry, db'.registry)
    BY <2>2, WhatCommits
  <2>4. PICK o : o = call[c]
    OBVIOUS
  <2>5. Performs(o)
    BY <2>1, <2>3, <2>4, EffectPerforms
  <2>6. Performs(call[c])
    BY <2>4, <2>5 DEF Performs, Abs!Register, Abs!ReplaceIfFingerprint,
           Abs!UnregisterIfFingerprint, Abs!Unregister, Abs!UpdateMany, Abs!UpdateManyIfVersion,
           Abs!UnregisterManyIfVersion, Abs!RestoreManyIfVersion, Abs!CommitChangedToolKeys
  <2> QED
    BY <2>3, <2>6
<1> QED
  BY <1>1, StorageInvariant, PTL DEF Spec, CommitsPerformTheirCall

\* SQLiteRegistry implements the in-memory registry, its private copies, crashes,
\* roll backs and the openings and migrations of its file hidden.
THEOREM FileImplementsRegistry == Spec => ImplementsRegistry
<1>1. Init /\ NeverUsed => Abs!RegistryInit
  <2> SUFFICES ASSUME Init, NeverUsed PROVE Abs!RegistryInit
    OBVIOUS
  <2> DEFINE r == db.registry
  <2>1. /\ IsRegistry(r) /\ r.version = 0
        /\ r.tools = [k \in Keys |-> Absent]
    BY SQLiteAssumption DEF Init, FileInit, NeverUsed
  <2>2. /\ r.past \in [0 .. 0 -> Catalogs] /\ r.past[0] = r.tools
        /\ DOMAIN r.journal = JournalOf(r)
    BY <2>1, JournalIsWindow DEF IsRegistry
  <2>3. JournalOf(r) = {} /\ 0 .. 0 = {0}
    BY <2>1 DEF JournalOf
  <2>4. r.past = [v \in {0} |-> r.tools]
    BY <2>2, <2>3
  <2>5. [w \in DOMAIN r.journal |-> r.wrote[w]] = [w \in {} |-> {}]
    BY <2>2, <2>3
  <2> HIDE DEF r
  <2> QED
    BY <2>1, <2>4, <2>5 DEF Abs!RegistryInit, r
<1>2. StorageInv /\ [Next]_vars => [Abs!AnyWrite]_(Abs!registryVars)
  <2> SUFFICES ASSUME StorageInv, [Next]_vars
               PROVE  Abs!AnyWrite \/ UNCHANGED Abs!registryVars
    OBVIOUS
  <2>1. IsRegistry(db.registry)
    BY DEF StorageInv, StorageTypes, GoodFile
  <2>2. CASE Upgraded(db.registry, db'.registry)
    <3>1. /\ db'.registry.tools = db.registry.tools
          /\ db'.registry.version = db.registry.version
          /\ db'.registry.past = db.registry.past
          /\ db'.registry.wrote = db.registry.wrote
          /\ db'.registry.journal = db.registry.journal
      BY <2>1, <2>2, UpgradedRegistry
    <3> QED
      BY <3>1 DEF Abs!registryVars
  <2>3. CASE \E c \in Conns : Effect(call[c], db.registry, db'.registry)
    <3>1. PICK o : Effect(o, db.registry, db'.registry)
      BY <2>3
    <3> QED
      BY <2>1, <3>1, EffectPerforms
  <2> QED
    BY <2>2, <2>3, WhatCommits
<1>3. Spec => (NeverUsed => Abs!RegistryInit)
  BY <1>1 DEF Spec
<1>4. Spec => [][Abs!AnyWrite]_(Abs!registryVars)
  BY <1>2, StorageInvariant, PTL DEF Spec
<1> QED
  BY <1>3, <1>4 DEF ImplementsRegistry

\* The committed traces can be replayed, and each commit extends a trace by one
\* event or drops it whole (SQLiteRunTraceStore), with several processes appending,
\* pruning and deleting.
THEOREM TracesReplay == Spec => TracesReplayAndGrow
<1>1. StorageInv /\ [Next]_vars =>
        [\A r \in Runs : /\ TraceSound(db'.trace, r)
                         /\ Extends(db'.trace.events[r], events[r])]_traceVars
  <2> SUFFICES ASSUME StorageInv, [Next]_vars
               PROVE  \A r \in Runs : /\ TraceSound(db'.trace, r)
                                      /\ Extends(db'.trace.events[r], events[r])
    OBVIOUS
  <2>1. GoodFile(db')
    BY StorageStep DEF StorageInv, StorageTypes
  <2>2. Grown(db.trace, db'.trace)
    <3>1. /\ pc \in [Conns -> PCs] /\ GoodFile(db)
          /\ \A c \in Conns : pc[c] \in InTransaction <=> writer = c
          /\ \A c \in Conns : writer = c /\ pc[c] # "wedged" => CopyOK(c)
      BY DEF StorageInv, StorageTypes, FileTypeOK, PCs
    <3>2. CASE db' = db
      BY <3>2, GrownSame
    <3>3. ASSUME NEW c \in Conns, Commit(c) \/ MigrateCommit(c)
          PROVE  Grown(db.trace, db'.trace)
      <4>1. writer = c /\ pc[c] # "wedged" /\ db' = tx[c]
        BY <3>1, <3>3 DEF Commit, MigrateCommit, Moves, InTransaction
      <4>2. CopyOK(c)
        BY <3>1, <4>1
      <4> QED
        BY <4>1, <4>2, GrownSame DEF CopyOK
    <3>4. CASE NewerRelease
      <4>1. PICK comp \in Components :
               db' = [db EXCEPT !.meta = TRUE, !.storageFormat[comp] = "future"]
        BY <3>4 DEF NewerRelease
      <4>2. db'.trace = db.trace
        BY <3>1, <4>1, FutureFile DEF GoodFile
      <4> QED
        BY <4>2, GrownSame
    <3> QED
      BY <3>2, <3>3, <3>4, WhoCommits
  <2> QED
    BY <2>1, <2>2 DEF GoodFile, IsTraces, Grown, events
<1> QED
  BY <1>1, StorageInvariant, PTL DEF Spec, TracesReplayAndGrow

=============================================================================
