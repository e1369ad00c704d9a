----------------------------- MODULE SQLiteRegistry -----------------------------
(***************************************************************************)
(* SQLiteRegistry (registry.py): the catalog of Registry kept in a file    *)
(* that several processes open.  Each write is BEGIN IMMEDIATE, its checks *)
(* against the stored rows, its row statements, _bump_version (version row *)
(* and journal row) and COMMIT; a process may die anywhere in between.     *)
(* Mapped to Registry, every step is one of its writes or changes nothing. *)
(***************************************************************************)
EXTENDS StorageFile

CONSTANTS
    Keys, Contracts, Fps, FpOf, Absent,   \* as in Registry
    JournalVersions, ReceiptKeys, MaxVersion

Catalogs == [Keys -> Contracts \cup {Absent}]

\* The journal row of one write: too many keys are a barrier.
Row(keys) == IF Cardinality(keys) <= ReceiptKeys THEN keys ELSE None

\* The registry's part of a file: tools, version, journalled (the journal table
\* exists), journal (version -> row), and three history fields:
\* past (version -> catalog), wrote (version -> keys really written) and attested
\* (version the journal starts at).  The journal is a window of the last versions.
IsRegistry(r) ==
    /\ r = [tools |-> r.tools, version |-> r.version, journalled |-> r.journalled,
            journal |-> r.journal, past |-> r.past, wrote |-> r.wrote, attested |-> r.attested]
    /\ r.version \in Nat
    /\ r.tools \in Catalogs
    /\ r.journalled \in BOOLEAN
    /\ r.attested \in 0 .. r.version
    /\ r.past \in [0 .. r.version -> Catalogs] /\ r.past[r.version] = r.tools
    /\ r.wrote \in [1 .. r.version -> SUBSET Keys]
    /\ r.journal = [w \in {x \in 1 .. r.version : /\ r.journalled /\ x > r.attested
                                                /\ x > r.version - JournalVersions}
                       |-> Row(r.wrote[w])]

ASSUME SQLiteAssumption ==
    /\ IsFiniteSet(Keys)
    /\ FpOf \in [Contracts -> Fps]
    /\ Absent \notin Contracts
    /\ \A ks \in SUBSET Keys : ks # None
    /\ JournalVersions \in Nat \ {0}
    /\ ReceiptKeys \in Nat
    /\ MaxVersion \in Nat
    /\ \A w \in Worlds :
          LET r == w.file.registry
          IN /\ IsRegistry(r)
             /\ r.version = 0 => r.tools = [k \in Keys |-> Absent]

VARIABLES
    call,       \* each connection's write under way: operation and arguments
    receipt     \* each connection's last answer of changed_tool_keys_since

sqlVars == <<fileVars, call, receipt>>

stored == db.registry
PresentIn(cat) == {k \in Keys : cat[k] # Absent}
StoredFp(k, fp) == stored.tools[k] # Absent /\ FpOf[stored.tools[k]] = fp
Over(cat, batch) == [k \in Keys |-> IF k \in DOMAIN batch THEN batch[k] ELSE cat[k]]

-----------------------------------------------------------------------------
(* The journal *)

\* _bump_version after the row statements left the catalog `cat'
Bumped(r, keys, cat) ==
    LET v == r.version + 1
        kept == {w \in DOMAIN r.journal : w > v - JournalVersions}
    IN [r EXCEPT !.tools = cat, !.version = v,
                 !.journal = [w \in kept \cup {v} |-> IF w = v THEN Row(keys) ELSE r.journal[w]],
                 !.past = [w \in 0 .. v |-> IF w = v THEN cat ELSE r.past[w]],
                 !.wrote = [w \in 1 .. v |-> IF w = v THEN keys ELSE r.wrote[w]]]

Writes(c, op, keys, cat) ==
    /\ Kind(c) = "registry"
    /\ stored.version < MaxVersion
    /\ Moves(c, {"open"}, "writing")
    /\ Begins(c, [db EXCEPT !.registry = Bumped(stored, keys, cat)])
    /\ call' = [call EXCEPT ![c] = op]
    /\ receipt' = [receipt EXCEPT ![c] = None]
    /\ UNCHANGED <<world, db, view, target>>

-----------------------------------------------------------------------------
(* Writes; a check that fails rolls back and leaves everything as it was *)

Register(c, k, t, replace) ==
    /\ replace \/ stored.tools[k] = Absent
    /\ Writes(c, [op |-> "register", key |-> k, tool |-> t, replace |-> replace],
              {k}, [stored.tools EXCEPT ![k] = t])

\* Mutant: the expected version is not compared.
ReplaceIfFingerprintOnly(c, k, t, fp, v) ==
    /\ StoredFp(k, fp)
    /\ Writes(c, [op |-> "replace", key |-> k, tool |-> t, fp |-> fp, version |-> v],
              {k}, [stored.tools EXCEPT ![k] = t])

ReplaceIfFingerprint(c, k, t, fp, v) ==
    /\ stored.version = v
    /\ StoredFp(k, fp)
    /\ Writes(c, [op |-> "replace", key |-> k, tool |-> t, fp |-> fp, version |-> v],
              {k}, [stored.tools EXCEPT ![k] = t])

UnregisterIfFingerprint(c, k, fp, v) ==
    /\ stored.version = v
    /\ StoredFp(k, fp)
    /\ Writes(c, [op |-> "unregister_if", key |-> k, fp |-> fp, version |-> v],
              {k}, [stored.tools EXCEPT ![k] = Absent])

Unregister(c, k) ==
    /\ stored.tools[k] # Absent
    /\ Writes(c, [op |-> "unregister", key |-> k], {k}, [stored.tools EXCEPT ![k] = Absent])

UpdateMany(c, batch, replace) ==
    /\ DOMAIN batch # {}
    /\ replace \/ DOMAIN batch \cap PresentIn(stored.tools) = {}
    /\ Writes(c, [op |-> "update_many", batch |-> batch, replace |-> replace],
              DOMAIN batch, Over(stored.tools, batch))

UpdateManyIfVersion(c, batch, v, replace) ==
    /\ stored.version = v
    /\ DOMAIN batch # {}
    /\ replace \/ DOMAIN batch \cap PresentIn(stored.tools) = {}
    /\ Writes(c, [op |-> "update_many_if", batch |-> batch, version |-> v, replace |-> replace],
              DOMAIN batch, Over(stored.tools, batch))

UnregisterManyIfVersion(c, expected, v) ==
    /\ stored.version = v
    /\ DOMAIN expected # {}
    /\ \A k \in DOMAIN expected : StoredFp(k, expected[k])
    /\ Writes(c, [op |-> "unregister_many", expected |-> expected, version |-> v],
              DOMAIN expected, Over(stored.tools, [k \in DOMAIN expected |-> Absent]))

RestoreManyIfVersion(c, previous, expected, v) ==
    /\ DOMAIN previous = DOMAIN expected
    /\ DOMAIN previous # {}
    /\ stored.version = v
    /\ \A k \in DOMAIN expected : StoredFp(k, expected[k])
    /\ Writes(c, [op |-> "restore_many", previous |-> previous, expected |-> expected,
                  version |-> v],
              DOMAIN previous, Over(stored.tools, previous))

-----------------------------------------------------------------------------
(* changed_tool_keys_since: BEGIN and the version row, then the journal rows *)
(* of the same snapshot                                                      *)

ReceiptBegin(c, from) ==
    /\ Kind(c) = "registry"
    /\ from \in 0 .. stored.version
    /\ Moves(c, {"open"}, "receipt")
    /\ Sees(c, [from |-> from, snapshot |-> stored])
    /\ receipt' = [receipt EXCEPT ![c] = None]
    /\ NoTx
    /\ UNCHANGED <<world, db, target, call>>

RowsOf(r, from) == {w \in DOMAIN r.journal : w > from /\ w <= r.version}

\* Mutant: missing rows are not counted.
ServedWithGaps(r, from) ==
    /\ r.version - from <= JournalVersions
    /\ \A w \in RowsOf(r, from) : r.journal[w] # None
    /\ Cardinality(UNION {r.journal[w] : w \in RowsOf(r, from)}) <= ReceiptKeys

Served(r, from) ==
    /\ r.version - from <= JournalVersions
    /\ Cardinality(RowsOf(r, from)) = r.version - from
    /\ \A w \in RowsOf(r, from) : r.journal[w] # None
    /\ Cardinality(UNION {r.journal[w] : w \in RowsOf(r, from)}) <= ReceiptKeys

ReceiptRows(c) ==
    /\ Moves(c, {"receipt"}, "open")
    /\ LET r == view[c].snapshot  from == view[c].from IN
       receipt' = [receipt EXCEPT ![c] =
          [from |-> from, to |-> r.version, served |-> Served(r, from),
           keys |-> IF Served(r, from) THEN UNION {r.journal[w] : w \in RowsOf(r, from)} ELSE {}]]
    /\ Sees(c, None)
    /\ NoTx
    /\ UNCHANGED <<world, db, target, call>>

-----------------------------------------------------------------------------
RegistryWrite(c) ==
    \/ \E k \in Keys :
          \/ \E t \in Contracts, replace \in BOOLEAN : Register(c, k, t, replace)
          \/ \E t \in Contracts, fp \in Fps, v \in 0 .. stored.version :
                ReplaceIfFingerprint(c, k, t, fp, v)
          \/ \E fp \in Fps, v \in 0 .. stored.version : UnregisterIfFingerprint(c, k, fp, v)
          \/ Unregister(c, k)
    \/ \E ks \in SUBSET Keys :
          \/ \E batch \in [ks -> Contracts], replace \in BOOLEAN :
                \/ UpdateMany(c, batch, replace)
                \/ \E v \in 0 .. stored.version : UpdateManyIfVersion(c, batch, v, replace)
          \/ \E expected \in [ks -> Fps], v \in 0 .. stored.version :
                \/ UnregisterManyIfVersion(c, expected, v)
                \/ \E previous \in [ks -> Contracts \cup {Absent}] :
                      RestoreManyIfVersion(c, previous, expected, v)

RegistryReceipt(c) == (\E from \in 0 .. stored.version : ReceiptBegin(c, from)) \/ ReceiptRows(c)

-----------------------------------------------------------------------------
(* Properties *)

\* The abstract registry this file holds.  A barrier stands for the keys it hides.
Abs == INSTANCE Registry WITH
          tools <- db.registry.tools,
          version <- db.registry.version,
          mutations <- [w \in DOMAIN db.registry.journal |-> db.registry.wrote[w]],
          history <- db.registry.past

\* The registry of a file that was never used, whichever process creates it.
NeverUsed == db.registry.version = 0

\* SQLiteRegistry implements Registry: through crashes, rolled back writes and
\* several processes opening, creating or migrating the file, what is committed
\* is an empty registry (unless the file is older) and then one whole write of
\* the in-memory registry after the other.
ImplementsRegistry ==
    (NeverUsed => Abs!RegistryInit) /\ [][Abs!AnyWrite]_(Abs!registryVars)

Performs(o) ==
    CASE o.op = "register"        -> Abs!Register(o.key, o.tool, o.replace)
      [] o.op = "replace"         -> Abs!ReplaceIfFingerprint(o.key, o.tool, o.fp, o.version)
      [] o.op = "unregister_if"   -> Abs!UnregisterIfFingerprint(o.key, o.fp, o.version)
      [] o.op = "unregister"      -> Abs!Unregister(o.key)
      [] o.op = "update_many"     -> Abs!UpdateMany(o.batch, o.replace)
      [] o.op = "update_many_if"  -> Abs!UpdateManyIfVersion(o.batch, o.version, o.replace)
      [] o.op = "unregister_many" -> Abs!UnregisterManyIfVersion(o.expected, o.version)
      [] o.op = "restore_many"    -> Abs!RestoreManyIfVersion(o.previous, o.expected, o.version)

\* A committed call did to the shared registry exactly what the same call does
\* to the in-memory one at the moment of the commit: its expected version and
\* fingerprints still held, although another process may have written between
\* the caller's reads and the transaction.
CommitsPerformTheirCall ==
    [][db'.registry.version # db.registry.version =>
          \E c \in Conns : /\ pc[c] = "writing" /\ pc'[c] = "open"
                           /\ Performs(call[c])]_sqlVars

\* A receipt is the exact set of keys written between its two versions, and is
\* served whenever the journal attests all of them and they fit: an oversized
\* batch, a write before the journal existed or a trimmed version refuses it.
ReceiptExact ==
    \A c \in Conns :
        receipt[c] # None =>
            LET r == receipt[c]
                written == UNION {db.registry.wrote[w] : w \in r.from + 1 .. r.to}
            IN /\ r.served <=> /\ r.from >= db.registry.attested
                               /\ r.to - r.from <= JournalVersions
                               /\ Cardinality(written) <= ReceiptKeys
               /\ r.served => r.keys = written

=============================================================================
