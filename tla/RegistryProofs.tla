---------------------------- MODULE RegistryProofs ----------------------------
(***************************************************************************)
(* Proofs about Registry, for every catalog size, journal length and       *)
(* number of writes: the journal is always the window of the last versions *)
(* and a served receipt covers every tool that changed since its cursor.   *)
(* The lemmas say what one committed write does, so that the modules which *)
(* compose the registry with its clients can cite them.                    *)
(***************************************************************************)
EXTENDS Registry, FiniteSetTheorems, TLAPS

\* What the proofs keep about the registry.
RegistryInv == RegistryTypeOK /\ ReceiptComplete

\* The shape of a write: some keys, and a catalog that differs nowhere else.
WriteOf(keys, newTools) ==
    /\ keys \in SUBSET Keys
    /\ newTools \in Catalogs
    /\ \A k \in Keys \ keys : newTools[k] = tools[k]
    /\ CommitChangedToolKeys(keys, newTools)

-----------------------------------------------------------------------------
\* Evicting the oldest entry keeps exactly the window of the next version
\* (_commit_changed_tool_keys pops the first key of an insertion-ordered dict).
LEMMA EvictKeepsWindow ==
    ASSUME version \in Nat
    PROVE  Evict(Window \cup {version + 1}) =
               {w \in 1 .. version + 1 : w > version + 1 - JournalVersions}
<1> DEFINE lo == IF version >= JournalVersions THEN version - JournalVersions + 1 ELSE 1
           grown == Window \cup {version + 1}
<1>1. JournalVersions \in Nat \ {0}
  BY RegistryAssumption
<1>2. lo \in 1 .. version + 1
  BY <1>1
<1>3. grown = lo .. version + 1
  BY <1>1 DEF Window
<1>4. Cardinality(grown) = version + 1 - lo + 1
  <2> HIDE DEF lo, grown
  <2>1. lo \in Int /\ version + 1 \in Int /\ ~(lo > version + 1)
    BY <1>2
  <2>2. Cardinality(lo .. version + 1) = version + 1 - lo + 1
    <3>1. \A a, b \in Int : Cardinality(a .. b) = IF a > b THEN 0 ELSE b - a + 1
      BY FS_Interval
    <3> QED
      BY <2>1, <3>1
  <2> QED
    BY <1>3, <2>2
<1>5. CASE version >= JournalVersions
  <2>1. Cardinality(grown) > JournalVersions
    BY <1>1, <1>4, <1>5
  <2>2. lo \in grown /\ \A x \in grown : lo <= x
    BY <1>2, <1>3
  <2>3. Oldest(grown) = lo
    BY <2>2, <1>2, <1>3 DEF Oldest
  <2>4. Evict(grown) = grown \ {lo}
    BY <2>1, <2>3 DEF Evict
  <2> QED
    BY <1>1, <1>3, <1>5, <2>4
<1>6. CASE ~(version >= JournalVersions)
  <2>1. ~(Cardinality(grown) > JournalVersions)
    BY <1>1, <1>4, <1>6
  <2>2. Evict(grown) = grown
    BY <2>1 DEF Evict
  <2> QED
    BY <1>1, <1>3, <1>6, <2>2
<1> QED
  BY <1>5, <1>6

\* A write keeps the registry's types and its journal a window.
LEMMA WriteType ==
    ASSUME RegistryTypeOK, NEW keys, NEW newTools, WriteOf(keys, newTools)
    PROVE  RegistryTypeOK'
<1>1. version \in Nat /\ MaxVersion \in Nat /\ version' = version + 1
  BY RegistryAssumption DEF RegistryTypeOK, WriteOf, CommitChangedToolKeys
<1>2. DOMAIN mutations = Window
  BY DEF RegistryTypeOK
<1>3. DOMAIN mutations' = Window'
  <2>1. DOMAIN mutations' = Evict(Window \cup {version + 1})
    BY <1>2 DEF WriteOf, CommitChangedToolKeys, Journalled
  <2>2. Window' = {w \in 1 .. version + 1 : w > version + 1 - JournalVersions}
    BY <1>1, RegistryAssumption DEF Window
  <2> QED
    BY <1>1, <2>1, <2>2, EvictKeepsWindow
<1>4. \A w \in Window' : w # version + 1 => w \in Window
  BY <1>1, RegistryAssumption DEF Window
<1>5. mutations' \in [Window' -> SUBSET Keys]
  BY <1>1, <1>2, <1>3, <1>4, EvictKeepsWindow
     DEF WriteOf, CommitChangedToolKeys, Journalled, Window, RegistryTypeOK
<1>6. history' \in [0 .. version' -> Catalogs] /\ history'[version'] = tools'
  BY <1>1 DEF WriteOf, CommitChangedToolKeys, RegistryTypeOK
<1> QED
  BY <1>1, <1>5, <1>6 DEF WriteOf, CommitChangedToolKeys, RegistryTypeOK

\* A write leaves the catalogs of earlier versions as they were.
LEMMA WriteKeepsHistory ==
    ASSUME RegistryTypeOK, NEW keys, NEW newTools, WriteOf(keys, newTools),
           NEW v \in 0 .. version
    PROVE  history'[v] = history[v] /\ v \in 0 .. version'
  BY RegistryAssumption DEF RegistryTypeOK, WriteOf, CommitChangedToolKeys

\* A write keeps every receipt complete.
LEMMA WriteReceipts ==
    ASSUME RegistryInv, NEW keys, NEW newTools, WriteOf(keys, newTools)
    PROVE  ReceiptComplete'
<1>1. RegistryTypeOK'
  BY WriteType DEF RegistryInv
<1>2. version \in Nat /\ version' = version + 1 /\ tools' = newTools
  BY RegistryAssumption DEF RegistryInv, RegistryTypeOK, WriteOf, CommitChangedToolKeys
<1> SUFFICES ASSUME NEW from \in 0 .. version', ~Expired(from)'
             PROVE  {k \in Keys : history'[from][k] # tools'[k]} \subseteq ChangedSince(from)'
  BY DEF ReceiptComplete
<1>3. CASE from = version + 1
  BY <1>1, <1>2, <1>3 DEF RegistryTypeOK
<1>4. CASE from \in 0 .. version
  <2>1. history'[from] = history[from]
    BY <1>4, WriteKeepsHistory DEF RegistryInv
  <2>2. Since(from)' = Since(from) \cup {version + 1}
    BY <1>2, <1>4 DEF Since
  <2>3. \A w \in Since(from)' : w \in DOMAIN mutations'
    BY DEF Expired
  <2>4. DOMAIN mutations = Window /\ DOMAIN mutations' = Window'
    BY <1>1 DEF RegistryInv, RegistryTypeOK
  <2>5. \A w \in Since(from) : w \in DOMAIN mutations /\ mutations'[w] = mutations[w]
    <3> SUFFICES ASSUME NEW w \in Since(from)
                 PROVE  w \in DOMAIN mutations /\ mutations'[w] = mutations[w]
      OBVIOUS
    <3>1. w \in Window' /\ w \in 1 .. version
      BY <1>2, <1>4, <2>2, <2>3, <2>4 DEF Since
    <3>2. w \in Window
      BY <1>2, <3>1, RegistryAssumption DEF Window
    <3>3. w \in DOMAIN mutations' /\ w # version + 1
      BY <1>2, <2>4, <3>1
    <3> QED
      BY <2>4, <3>2, <3>3 DEF WriteOf, CommitChangedToolKeys, Journalled
  <2>6. version + 1 \in DOMAIN mutations' /\ mutations'[version + 1] = keys
    BY <2>2, <2>3 DEF WriteOf, CommitChangedToolKeys, Journalled
  <2>7. ChangedSince(from)' = ChangedSince(from) \cup keys
    BY <2>2, <2>3, <2>5, <2>6 DEF ChangedSince
  <2>8. {k \in Keys : history[from][k] # tools[k]} \subseteq ChangedSince(from)
    BY <1>4, <2>5 DEF RegistryInv, ReceiptComplete, Expired
  <2> QED
    BY <1>2, <2>1, <2>7, <2>8 DEF WriteOf
<1> QED
  BY <1>2, <1>3, <1>4

-----------------------------------------------------------------------------
\* Every public write of the registry has that shape.
LEMMA EveryWriteIsAWrite ==
    ASSUME RegistryTypeOK, AnyWrite
    PROVE  \E keys, newTools : WriteOf(keys, newTools)
<1> USE DEF RegistryTypeOK, Catalogs
<1>1. ASSUME NEW k \in Keys, NEW c \in Contracts \cup {Absent},
             CommitChangedToolKeys({k}, [tools EXCEPT ![k] = c])
      PROVE  \E keys, newTools : WriteOf(keys, newTools)
  <2>1. WriteOf({k}, [tools EXCEPT ![k] = c])
    BY <1>1 DEF WriteOf
  <2> QED
    BY <2>1
<1>2. ASSUME NEW ks \in SUBSET Keys, NEW batch \in [ks -> Contracts \cup {Absent}],
             CommitChangedToolKeys(DOMAIN batch, Over(tools, batch))
      PROVE  \E keys, newTools : WriteOf(keys, newTools)
  <2>1. WriteOf(DOMAIN batch, Over(tools, batch))
    BY <1>2 DEF WriteOf, Over
  <2> QED
    BY <2>1
<1>3. ASSUME NEW k \in Keys,
             \/ \E c \in Contracts : \E replace \in BOOLEAN : Register(k, c, replace)
             \/ \E c \in Contracts, fp \in Fps, v \in 0 .. version :
                   ReplaceIfFingerprint(k, c, fp, v)
             \/ \E fp \in Fps, v \in 0 .. version : UnregisterIfFingerprint(k, fp, v)
             \/ Unregister(k)
      PROVE  \E keys, newTools : WriteOf(keys, newTools)
  <2>1. \E c \in Contracts \cup {Absent} :
            CommitChangedToolKeys({k}, [tools EXCEPT ![k] = c])
    BY <1>3 DEF Register, ReplaceIfFingerprint, UnregisterIfFingerprint, Unregister
  <2> QED
    BY <1>1, <2>1
<1>4. ASSUME NEW ks \in SUBSET Keys,
             NEW batch \in [ks -> Contracts], NEW replace \in BOOLEAN,
             \/ UpdateMany(batch, replace)
             \/ \E v \in 0 .. version : UpdateManyIfVersion(batch, v, replace)
      PROVE  \E keys, newTools : WriteOf(keys, newTools)
  <2>1. CommitChangedToolKeys(DOMAIN batch, Over(tools, batch))
    BY <1>4 DEF UpdateMany, UpdateManyIfVersion
  <2>2. batch \in [ks -> Contracts \cup {Absent}]
    OBVIOUS
  <2> QED
    BY <1>2, <2>1, <2>2
<1>5. ASSUME NEW ks \in SUBSET Keys,
             NEW expected \in [ks -> Fps], NEW v \in 0 .. version,
             \/ UnregisterManyIfVersion(expected, v)
             \/ \E previous \in [ks -> Contracts \cup {Absent}] :
                   RestoreManyIfVersion(previous, expected, v)
      PROVE  \E keys, newTools : WriteOf(keys, newTools)
  <2>1. CASE UnregisterManyIfVersion(expected, v)
    <3> DEFINE gone == [k \in ks |-> Absent]
    <3>1. gone \in [ks -> Contracts \cup {Absent}] /\ DOMAIN gone = ks
      OBVIOUS
    <3>2. CommitChangedToolKeys(DOMAIN gone, Over(tools, gone))
      BY <2>1 DEF UnregisterManyIfVersion
    <3> QED
      BY <1>2, <3>1, <3>2
  <2>2. CASE \E previous \in [ks -> Contracts \cup {Absent}] :
                RestoreManyIfVersion(previous, expected, v)
    <3>1. PICK previous \in [ks -> Contracts \cup {Absent}] :
              RestoreManyIfVersion(previous, expected, v)
      BY <2>2
    <3>2. CommitChangedToolKeys(DOMAIN previous, Over(tools, previous))
      BY <3>1 DEF RestoreManyIfVersion
    <3> QED
      BY <1>2, <3>2
  <2> QED
    BY <1>5, <2>1, <2>2
<1> QED
  BY <1>3, <1>4, <1>5 DEF AnyWrite

-----------------------------------------------------------------------------
LEMMA RegistryInitInv == RegistryInit => RegistryInv
<1> SUFFICES ASSUME RegistryInit PROVE RegistryInv
  OBVIOUS
<1> USE RegistryAssumption DEF RegistryInit
<1>1. Window = {}
  BY DEF Window
<1>2. RegistryTypeOK
  BY <1>1 DEF RegistryTypeOK, Catalogs
<1>3. ReceiptComplete
  BY DEF ReceiptComplete
<1> QED
  BY <1>2, <1>3 DEF RegistryInv

LEMMA RegistryStepInv == RegistryInv /\ [AnyWrite]_registryVars => RegistryInv'
<1> SUFFICES ASSUME RegistryInv, [AnyWrite]_registryVars PROVE RegistryInv'
  OBVIOUS
<1>1. CASE AnyWrite
  <2>1. PICK keys, newTools : WriteOf(keys, newTools)
    BY <1>1, EveryWriteIsAWrite DEF RegistryInv
  <2>2. RegistryTypeOK'
    BY <2>1, WriteType DEF RegistryInv
  <2>3. ReceiptComplete'
    BY <2>1, WriteReceipts
  <2> QED
    BY <2>2, <2>3 DEF RegistryInv
<1>2. CASE UNCHANGED registryVars
  BY <1>2 DEF registryVars, RegistryInv, RegistryTypeOK, ReceiptComplete, Window,
              Expired, ChangedSince, Since
<1> QED
  BY <1>1, <1>2

\* The registry's state always has its types, and its journal always holds
\* exactly the versions of the window (registry.py, InMemoryRegistry).
THEOREM RegistryTypes == RegistrySpec => []RegistryTypeOK
<1>1. RegistryInv => RegistryTypeOK
  BY DEF RegistryInv
<1> QED
  BY <1>1, RegistryInitInv, RegistryStepInv, PTL DEF RegistrySpec

\* A receipt never omits a key whose tool changed since its cursor
\* (changed_tool_keys_since), for any journal length and any writes.
THEOREM ReceiptsAreComplete == RegistrySpec => []ReceiptComplete
<1>1. RegistryInv => ReceiptComplete
  BY DEF RegistryInv
<1> QED
  BY <1>1, RegistryInitInv, RegistryStepInv, PTL DEF RegistrySpec

\* A cursor inside the window is never refused for its age.
THEOREM RecentCursorsAreServed == RegistrySpec => []ReceiptWithinWindow
<1>1. RegistryTypeOK => ReceiptWithinWindow
  <2> SUFFICES ASSUME RegistryTypeOK, NEW from \in 0 .. version,
                      version - from <= JournalVersions
               PROVE  ~Expired(from)
    BY DEF ReceiptWithinWindow
  <2>1. version \in Nat /\ JournalVersions \in Nat
    BY RegistryAssumption DEF RegistryTypeOK
  <2>2. DOMAIN mutations = Window
    BY DEF RegistryTypeOK
  <2> QED
    BY <2>1, <2>2 DEF Expired, Since, Window
<1> QED
  BY <1>1, RegistryTypes, PTL

=============================================================================
