------------------------------- MODULE Registry -------------------------------
(***************************************************************************)
(* The versioned tool catalog of registry.py (InMemoryRegistry): a map     *)
(* from tool keys to contracts, a logical version bumped by every write,   *)
(* and a bounded journal of the keys each version wrote.  Every public     *)
(* method takes the registry lock for its whole body, so each is one       *)
(* atomic action here.  Callers that need more than one method (read the   *)
(* version, read a tool, write if nothing moved) are modelled by the       *)
(* modules that EXTEND this one and use its actions.                       *)
(*                                                                         *)
(* `history' is a history variable: the catalog as it was at each version. *)
(* The program does not keep it; the properties need it to say what a      *)
(* mutation receipt, a compare-and-swap or a rollback promises.            *)
(***************************************************************************)
EXTENDS Integers, FiniteSets

CONSTANTS
    Keys,             \* tool keys
    Contracts,        \* whole ToolSpecs, metadata included
    Fps,              \* contract fingerprints
    FpOf,             \* Contracts -> Fps; metadata is not fingerprinted, so not injective
    Absent,           \* no tool under this key
    JournalVersions,  \* _MAX_MUTATION_JOURNAL_VERSIONS (256 in the code)
    ReceiptKeys,      \* _MAX_CHANGED_KEYS_PER_RECEIPT (64 in the code)
    MaxVersion        \* model bound on the number of writes

ASSUME RegistryAssumption ==
    /\ IsFiniteSet(Keys)
    /\ FpOf \in [Contracts -> Fps]
    /\ Absent \notin Contracts
    /\ Absent \notin Fps
    /\ JournalVersions \in Nat \ {0}
    /\ ReceiptKeys \in Nat
    /\ MaxVersion \in Nat

VARIABLES
    tools,      \* _tools
    version,    \* _version
    mutations,  \* _mutations: version -> keys written by it
    history     \* history variable: version -> catalog

registryVars == <<tools, version, mutations, history>>

Catalogs == [Keys -> Contracts \cup {Absent}]

Present(cat) == {k \in Keys : cat[k] # Absent}

\* The fingerprint stored under a key, Absent if there is none.
FpAt(cat, k) == IF cat[k] = Absent THEN Absent ELSE FpOf[cat[k]]

\* `current is not None and current.fingerprint == fp'
Holds(k, fp) == tools[k] # Absent /\ FpOf[tools[k]] = fp

-----------------------------------------------------------------------------
(* The journal *)

Oldest(S) == CHOOSE w \in S : \A x \in S : w <= x

\* Mutant: the journal is never trimmed.
EvictNothing(S) == S

Evict(S) == IF Cardinality(S) > JournalVersions THEN S \ {Oldest(S)} ELSE S

\* The journal after `version + 1' wrote `keys'.
Journalled(keys) ==
    [w \in Evict(DOMAIN mutations \cup {version + 1}) |->
        IF w = version + 1 THEN keys ELSE mutations[w]]

\* Every write ends here: install the catalog, bump the version, journal the keys.
CommitChangedToolKeys(keys, newTools) ==
    /\ version < MaxVersion
    /\ tools' = newTools
    /\ version' = version + 1
    /\ mutations' = Journalled(keys)
    /\ history' = [v \in 0 .. version + 1 |->
                      IF v = version + 1 THEN newTools ELSE history[v]]

\* The receipt changed_tool_keys_since returns: either every version after the
\* cursor is still journalled and the keys fit the receipt, or it refuses.
Since(from) == from + 1 .. version

\* Mutant: a version missing from the journal is read as one that wrote nothing.
NeverExpired(from) == FALSE

Expired(from) == \E w \in Since(from) : w \notin DOMAIN mutations

ChangedSince(from) == UNION {mutations[w] : w \in Since(from) \cap DOMAIN mutations}

ReceiptServed(from) ==
    /\ from \in 0 .. version
    /\ ~Expired(from)
    /\ Cardinality(ChangedSince(from)) <= ReceiptKeys

-----------------------------------------------------------------------------
(* Writes.  `batch' and `expected' are functions whose domain is the set of *)
(* keys the call names; an empty batch returns without a write.             *)

Over(cat, batch) == [k \in Keys |-> IF k \in DOMAIN batch THEN batch[k] ELSE cat[k]]

Register(k, c, replace) ==
    /\ replace \/ tools[k] = Absent
    /\ CommitChangedToolKeys({k}, [tools EXCEPT ![k] = c])

\* Mutant: an equal fingerprint alone lets the write through.
ReplaceIfSameFingerprint(k, c, fp, v) ==
    /\ Holds(k, fp)
    /\ CommitChangedToolKeys({k}, [tools EXCEPT ![k] = c])

ReplaceIfFingerprint(k, c, fp, v) ==
    /\ version = v
    /\ Holds(k, fp)
    /\ CommitChangedToolKeys({k}, [tools EXCEPT ![k] = c])

UnregisterIfFingerprint(k, fp, v) ==
    /\ version = v
    /\ Holds(k, fp)
    /\ CommitChangedToolKeys({k}, [tools EXCEPT ![k] = Absent])

Unregister(k) ==
    /\ tools[k] # Absent
    /\ CommitChangedToolKeys({k}, [tools EXCEPT ![k] = Absent])

UpdateMany(batch, replace) ==
    /\ DOMAIN batch # {}
    /\ replace \/ DOMAIN batch \cap Present(tools) = {}
    /\ CommitChangedToolKeys(DOMAIN batch, Over(tools, batch))

UpdateManyIfVersion(batch, v, replace) ==
    /\ version = v
    /\ UpdateMany(batch, replace)

UnregisterManyIfVersion(expected, v) ==
    /\ version = v
    /\ DOMAIN expected # {}
    /\ \A k \in DOMAIN expected : Holds(k, expected[k])
    /\ CommitChangedToolKeys(DOMAIN expected,
                             Over(tools, [k \in DOMAIN expected |-> Absent]))

\* `previous' maps each key to the contract to put back, Absent to remove it.
RestoreManyIfVersion(previous, expectedCurrent, v) ==
    /\ DOMAIN previous = DOMAIN expectedCurrent
    /\ DOMAIN previous # {}
    /\ version = v
    /\ \A k \in DOMAIN expectedCurrent : Holds(k, expectedCurrent[k])
    /\ CommitChangedToolKeys(DOMAIN previous, Over(tools, previous))

-----------------------------------------------------------------------------
RegistryInit ==
    /\ tools = [k \in Keys |-> Absent]
    /\ version = 0
    /\ mutations = [w \in {} |-> {}]
    /\ history = [v \in {0} |-> tools]

\* Any caller, any arguments.
AnyWrite ==
    \/ \E k \in Keys :
          \/ \E c \in Contracts : \E replace \in BOOLEAN : Register(k, c, replace)
          \/ \E c \in Contracts, fp \in Fps, v \in 0 .. version :
                ReplaceIfFingerprint(k, c, fp, v)
          \/ \E fp \in Fps, v \in 0 .. version : UnregisterIfFingerprint(k, fp, v)
          \/ Unregister(k)
    \/ \E ks \in SUBSET Keys :
          \/ \E batch \in [ks -> Contracts], replace \in BOOLEAN :
                \/ UpdateMany(batch, replace)
                \/ \E v \in 0 .. version : UpdateManyIfVersion(batch, v, replace)
          \/ \E expected \in [ks -> Fps], v \in 0 .. version :
                \/ UnregisterManyIfVersion(expected, v)
                \/ \E previous \in [ks -> Contracts \cup {Absent}] :
                      RestoreManyIfVersion(previous, expected, v)

RegistrySpec == RegistryInit /\ [][AnyWrite]_registryVars

-----------------------------------------------------------------------------
(* Properties *)

\* The journal holds exactly the last JournalVersions versions.
Window == {w \in 1 .. version : w > version - JournalVersions}

\* Types of the registry's state; the journal is the window of recent versions.
RegistryTypeOK ==
    /\ version \in 0 .. MaxVersion
    /\ tools \in Catalogs
    /\ mutations \in [Window -> SUBSET Keys]
    /\ history \in [0 .. version -> Catalogs]
    /\ history[version] = tools

\* What a served receipt promises (changed_tool_keys_since): every key whose
\* stored tool differs between the cursor's version and now is in the receipt,
\* however many single or batch writes, removals and restores lie in between.
\* A consumer that re-reads only those keys misses nothing.
ReceiptComplete ==
    \A from \in 0 .. version :
        ~Expired(from) =>
            {k \in Keys : history[from][k] # tools[k]} \subseteq ChangedSince(from)

\* The bounded journal refuses only when it must: a cursor at most
\* JournalVersions writes old is never told that history expired.
ReceiptWithinWindow ==
    \A from \in 0 .. version : version - from <= JournalVersions => ~Expired(from)

=============================================================================
