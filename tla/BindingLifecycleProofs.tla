------------------------- MODULE BindingLifecycleProofs -------------------------
(***************************************************************************)
(* Proofs about BindingLifecycle, for any number of threads, tools,        *)
(* contracts, operations, writes and read failures.  The inductive         *)
(* invariant says for each place of an operation what the thread may still *)
(* rely on there: the tool it read, as long as the version is the one it   *)
(* started from; the catalog it wrote, as long as the version is the next  *)
(* one; the bindings it found and stored, as long as their generations     *)
(* are the current ones.                                                   *)
(***************************************************************************)
EXTENDS BindingLifecycle, RegistryProofs

-----------------------------------------------------------------------------
(* The inductive invariant *)

\* Places between one registry write and its rollback or its success.
PublishedPlaces == {"publish_bind", "publish_store", "publish_version", "publish_verify", "rollback"}
BatchedPlaces == {"batch_bind", "batch_store", "batch_version", "batch_unbind", "batch_rollback"}
RestampPlaces == {"restamp_get", "restamp_stamp", "restamp_check", "restamp_restore"}

\* Places whose operation is about one tool, the one its batch names.
OneToolPlaces == {"publish_get", "publish_snap", "publish_cas", "restore", "withdraw", "bind_store",
                  "amend_bound", "amend_cas", "restamp_snap", "add_write"}
                 \cup PublishedPlaces \cup RestampPlaces
StagedPlaces == {"batch_store", "existing_get", "existing_recheck", "existing_status",
                 "existing_unbind", "existing_bind", "existing_store"}
TodoPlaces == {"batch_empty", "batch_publish", "existing_next"} \cup BatchedPlaces \cup StagedPlaces
KeyPlaces == {"amend_get", "remove_get", "remove_cas", "purge"}

Places == {"idle"} \cup Outcomes \cup OneToolPlaces \cup TodoPlaces \cup KeyPlaces

ReadPlaces == {"publish_snap", "publish_cas", "amend_bound", "amend_cas", "remove_cas"}
SnapPlaces == {"publish_cas", "restore", "withdraw"} \cup PublishedPlaces \cup RestampPlaces \cup Outcomes
StoredPlaces == {"publish_version", "publish_verify", "rollback", "restore", "withdraw",
                 "restamp_check", "restamp_restore"} \cup BatchedPlaces \cup Outcomes

Validated(k, fp) ==
    \/ \E i \in Invokers : <<k, i, fp>> \in accepted
    \/ \E from \in Fps : <<k, from, fp>> \in amended

Bound(k) == binding[k] # NoBinding

\* Every live binding has a generation of its own that the counter gave out, and
\* serves a contract somebody validated.
BindingsOK ==
    /\ binding \in [Keys -> Bindings \cup {NoBinding}]
    /\ generation \in Nat
    /\ \A k \in Keys : Bound(k) =>
          /\ binding[k].gen \in 1 .. generation
          /\ Validated(k, binding[k].fp)
    /\ \A j, k \in Keys : (Bound(j) /\ Bound(k) /\ binding[j].gen = binding[k].gen) => j = k

\* What a thread at place p knows, l being its locals ...
LocalsOK(p, l) ==
    /\ p \in Places
    /\ l \in Locals
    /\ l.base <= version
    /\ p \in OneToolPlaces => DOMAIN l.batch = {l.key}
    /\ p \in StagedPlaces => l.key \in DOMAIN l.batch
    /\ p \in TodoPlaces => l.todo \subseteq DOMAIN l.batch

\* ... of the tool it read, unless the registry moved on ...
ReadOK(p, l) == (p \in ReadPlaces /\ version = l.base) => tools[l.key] = l.prev

\* ... of what it wrote there, until somebody else writes ...
CommittedOK(p, l) ==
    /\ p \in PublishedPlaces =>
          /\ l.base + 1 <= version
          /\ history[l.base][l.key] = l.prev
          /\ version = l.base + 1 => tools = Over(history[l.base], l.batch)
    /\ p \in BatchedPlaces =>
          /\ l.base + 1 <= version
          /\ \A k \in DOMAIN l.batch : history[l.base][k] = Absent
          /\ version = l.base + 1 => tools = Over(history[l.base], l.batch)

\* ... of the binding it found ...
SnapOK(p, l) ==
    /\ l.snap # NoBinding =>
          /\ p \in SnapPlaces
          /\ l.snap.gen \in 1 .. generation
          /\ Validated(l.key, l.snap.fp)
          /\ (Bound(l.key) /\ binding[l.key].gen = l.snap.gen) => binding[l.key] = l.snap
    /\ p \in RestampPlaces => l.snap # NoBinding

\* ... of those it stored, whether they are still its own, restored or restamped ...
StoredOK(p, l) ==
    \A k \in Keys : l.gens[k] # 0 =>
        /\ p \in StoredPlaces
        /\ l.gens[k] <= generation
        /\ k \in DOMAIN l.batch
        /\ (Bound(k) /\ binding[k].gen = l.gens[k]) =>
              /\ binding[k].fp = FpOf[l.batch[k]]
              /\ \/ binding[k].inv = l.inv
                 \/ l.snap # NoBinding /\ binding[k].inv = l.snap.inv

\* ... of those it took back ...
WithdrawnOK(p, l) ==
    \A k \in Keys :
        (/\ l.gens[k] # 0
         /\ p \in {"failed", "drift", "batch_rollback"} \/ (p = "batch_unbind" /\ k \notin l.todo))
          => GenAt(k) # l.gens[k]

\* ... and of the amendment it registered.
AmendedOK(p, l) ==
    (p \in {"restamp_snap"} \cup RestampPlaces) =>
        \E from \in Fps : <<l.key, from, FpOf[l.batch[l.key]]>> \in amended

ThreadOK(p, l) ==
    /\ LocalsOK(p, l) /\ ReadOK(p, l) /\ CommittedOK(p, l) /\ SnapOK(p, l)
    /\ StoredOK(p, l) /\ WithdrawnOK(p, l) /\ AmendedOK(p, l)

CountersOK ==
    /\ scenario \in Scenarios
    /\ started \in 0 .. scenario.starts /\ faults \in 0 .. scenario.faults
    /\ accepted \subseteq Keys \X Invokers \X Fps
    /\ amended \subseteq Keys \X Fps \X Fps

LifecycleInv ==
    /\ RegistryTypeOK /\ BindingsOK /\ CountersOK
    /\ pc \in [Threads -> Places] /\ loc \in [Threads -> Locals]
    /\ \A t \in Threads : ThreadOK(pc[t], loc[t])

-----------------------------------------------------------------------------
(* Steps, by what they do to the shared state *)

\* The registry stands still or performs one write.
RegistryStep == UNCHANGED registryVars \/ \E keys, newTools : WriteOf(keys, newTools)

\* The bindings stand still, one is dropped, or one is stored for a validated contract.
BindingStep ==
    \/ UNCHANGED bindingVars
    \/ \E k \in Keys : Purge(k)
    \/ \E k \in Keys, inv \in Invokers, fp \in Fps : Store(k, inv, fp) /\ Validated(k, fp)'

Grows == accepted \subseteq accepted' /\ amended \subseteq amended'

LEMMA RegistryStepOK ==
    ASSUME RegistryTypeOK, RegistryStep
    PROVE  /\ RegistryTypeOK' /\ version' \in Nat /\ version \in Nat
           /\ version' >= version
           /\ version' = version => tools' = tools
           /\ \A v \in 0 .. version : history'[v] = history[v]
<1>1. CASE UNCHANGED registryVars
  BY <1>1, RegistryAssumption DEF registryVars, RegistryTypeOK, Window
<1>2. ASSUME NEW keys, NEW newTools, WriteOf(keys, newTools)
      PROVE  /\ RegistryTypeOK' /\ version' \in Nat /\ version \in Nat
             /\ version' = version + 1
             /\ \A v \in 0 .. version : history'[v] = history[v]
  <2>1. RegistryTypeOK'
    BY <1>2, WriteType
  <2>2. \A v \in 0 .. version : history'[v] = history[v]
    BY <1>2, WriteKeepsHistory
  <2> QED
    BY <1>2, <2>1, <2>2, RegistryAssumption DEF RegistryTypeOK, WriteOf, CommitChangedToolKeys
<1> QED
  BY <1>1, <1>2 DEF RegistryStep

LEMMA ValidatedGrows ==
    ASSUME Grows, NEW k, NEW fp, Validated(k, fp)
    PROVE  Validated(k, fp)'
  BY DEF Grows, Validated

\* A binding is a record, never NoBinding.
LEMMA BindingIs ==
    ASSUME NEW b \in Bindings
    PROVE  b # NoBinding /\ b.inv \in Invokers /\ b.fp \in Fps /\ b.gen \in Nat
<1>1. Bindings \subseteq [inv : Nat, fp : Fps, gen : Nat]
  BY BindingAssumption DEF Bindings, Invokers
<1> QED
  BY <1>1, BindingAssumption DEF Bindings

\* What a step does to one binding: it stays, goes, or gets the next generation.
LEMMA BindingStepIs ==
    ASSUME BindingsOK, BindingStep
    PROVE  /\ generation \in Nat /\ generation' \in Nat /\ generation' >= generation
           /\ \A k \in Keys : \/ binding'[k] = binding[k]
                              \/ binding'[k] = NoBinding
                              \/ /\ binding'[k] \in Bindings /\ binding'[k] # NoBinding
                                 /\ binding'[k].gen = generation + 1
                                 /\ generation' = generation + 1
                                 /\ Validated(k, binding[k].fp)'
                                 /\ \A j \in Keys \ {k} : binding'[j] = binding[j]
           /\ binding' \in [Keys -> Bindings \cup {NoBinding}]
<1>1. CASE UNCHANGED bindingVars
  BY <1>1 DEF BindingsOK, bindingVars
<1>2. CASE \E k \in Keys : Purge(k)
  BY <1>2 DEF BindingsOK, Purge
<1>3. CASE \E k \in Keys, inv \in Invokers, fp \in Fps : Store(k, inv, fp) /\ Validated(k, fp)'
  <2>1. PICK k \in Keys, inv \in Invokers, fp \in Fps : Store(k, inv, fp) /\ Validated(k, fp)'
    BY <1>3
  <2>2. PICK b : b = [inv |-> inv, fp |-> fp, gen |-> generation + 1]
    OBVIOUS
  <2>3. b \in Bindings /\ b.fp = fp /\ b.gen = generation + 1
    BY <2>2 DEF Bindings, BindingsOK
  <2>4. b # NoBinding
    BY <2>3, BindingIs
  <2>5. binding' = [binding EXCEPT ![k] = b] /\ generation' = generation + 1
    BY <2>1, <2>2 DEF Store
  <2>6. binding' \in [Keys -> Bindings \cup {NoBinding}]
    BY <2>3, <2>5 DEF BindingsOK
  <2>7. \A j \in Keys \ {k} : binding'[j] = binding[j]
    BY <2>5 DEF BindingsOK
  <2>8. binding'[k] = b
    BY <2>5 DEF BindingsOK
  <2>9. Validated(k, b.fp)'
    BY <2>1, <2>3
  <2>10. generation \in Nat
    BY DEF BindingsOK
  <2> QED
    BY <2>3, <2>4, <2>5, <2>6, <2>7, <2>8, <2>9, <2>10
<1> QED
  BY <1>1, <1>2, <1>3 DEF BindingStep

LEMMA BindingStepOK ==
    ASSUME BindingsOK, BindingStep, Grows
    PROVE  BindingsOK'
<1>1. ASSUME NEW k \in Keys, Bound(k)'
      PROVE  /\ binding'[k].gen \in 1 .. generation'
             /\ Validated(k, binding[k].fp)'
  <2>1. CASE binding'[k] = binding[k]
    <3>1. Bound(k)
      BY <1>1, <2>1 DEF Bound
    <3>2. PICK fp : fp = binding[k].fp
      OBVIOUS
    <3>3. Validated(k, fp)'
      BY <3>1, <3>2, ValidatedGrows DEF BindingsOK
    <3>4. fp = binding'[k].fp
      BY <2>1, <3>2
    <3>5. Validated(k, binding[k].fp)'
      BY <3>3, <3>4 DEF Validated
    <3>6. binding[k].gen \in 1 .. generation
      BY <3>1 DEF BindingsOK
    <3> QED
      BY <2>1, <3>5, <3>6, BindingStepIs
  <2>2. CASE binding'[k] # binding[k]
    BY <1>1, <2>2, BindingStepIs DEF Bound
  <2> QED
    BY <2>1, <2>2
<1>3. \A k \in Keys : Bound(k) => binding[k].gen \in 1 .. generation
  BY DEF BindingsOK
<1>4. \A j, k \in Keys :
          (Bound(j)' /\ Bound(k)' /\ binding'[j].gen = binding'[k].gen) => j = k
  BY <1>3, BindingStepIs DEF BindingsOK, Bound
<1> QED
  BY <1>1, <1>4, BindingStepIs DEF BindingsOK

\* What a thread relies on survives the steps of the others.
LEMMA PassiveThread ==
    ASSUME RegistryTypeOK, BindingsOK, RegistryStep, BindingStep, Grows,
           NEW p, NEW l, ThreadOK(p, l)
    PROVE  ThreadOK(p, l)'
<1>1. LocalsOK(p, l) /\ l \in Locals /\ l.base \in Nat /\ l.base <= version /\ l.key \in Keys
  BY DEF ThreadOK, LocalsOK, Locals
<1>2. version \in Nat /\ version' \in Nat /\ version' >= version
  BY RegistryStepOK
<1>3. version' = version => tools' = tools
  BY RegistryStepOK
<1>4. \A v \in 0 .. version : history'[v] = history[v]
  BY RegistryStepOK
<1>5. LocalsOK(p, l)'
  BY <1>1, <1>2 DEF LocalsOK
<1>6. ReadOK(p, l)'
  BY <1>1, <1>2, <1>3 DEF ThreadOK, ReadOK
<1>7. CommittedOK(p, l)'
  <2>1. history'[l.base] = history[l.base]
    BY <1>1, <1>2, <1>4
  <2>2. Over(history[l.base], l.batch)' = Over(history[l.base], l.batch)
    BY <2>1 DEF Over
  <2> QED
    BY <1>1, <1>2, <1>3, <2>1, <2>2 DEF ThreadOK, CommittedOK
<1>8. \A k \in Keys : Bound(k) => binding[k].gen \in 1 .. generation
  BY DEF BindingsOK
<1>9. SnapOK(p, l)'
  <2>1. l.snap # NoBinding => Validated(l.key, l.snap.fp)'
    <3>1. PICK k : k = l.key
      OBVIOUS
    <3>2. PICK fp : fp = l.snap.fp
      OBVIOUS
    <3>3. l.snap # NoBinding => Validated(k, fp)
      BY <3>1, <3>2 DEF ThreadOK, SnapOK
    <3>4. l.snap # NoBinding => Validated(k, fp)'
      BY <3>3, ValidatedGrows
    <3> QED
      BY <3>1, <3>2, <3>4
  <2>2. \/ binding'[l.key] = binding[l.key]
        \/ binding'[l.key] = NoBinding
        \/ binding'[l.key].gen = generation + 1
    BY <1>1, BindingStepIs
  <2>3. generation \in Nat /\ generation' \in Nat /\ generation' >= generation
    BY BindingStepIs
  <2> QED
    BY <2>1, <2>2, <2>3 DEF ThreadOK, SnapOK, Bound
<1>10. StoredOK(p, l)'
  <2> SUFFICES ASSUME NEW k \in Keys, l.gens[k] # 0
               PROVE  /\ p \in StoredPlaces
                      /\ l.gens[k] <= generation'
                      /\ k \in DOMAIN l.batch
                      /\ (Bound(k)' /\ binding'[k].gen = l.gens[k]) =>
                            /\ binding'[k].fp = FpOf[l.batch[k]]
                            /\ \/ binding'[k].inv = l.inv
                               \/ l.snap # NoBinding /\ binding'[k].inv = l.snap.inv
    BY DEF StoredOK
  <2>1. l.gens[k] \in Nat
    BY <1>1 DEF Locals
  <2>2. \/ binding'[k] = binding[k]
        \/ binding'[k] = NoBinding
        \/ binding'[k].gen = generation + 1
    BY BindingStepIs
  <2>3. generation \in Nat /\ generation' \in Nat /\ generation' >= generation
    BY BindingStepIs
  <2> QED
    BY <2>1, <2>2, <2>3 DEF ThreadOK, StoredOK, Bound
<1>11. WithdrawnOK(p, l)'
  <2> SUFFICES ASSUME NEW k \in Keys, l.gens[k] # 0,
                      \/ p \in {"failed", "drift", "batch_rollback"}
                      \/ p = "batch_unbind" /\ k \notin l.todo
               PROVE  GenAt(k)' # l.gens[k]
    BY DEF WithdrawnOK
  <2>1. l.gens[k] \in Nat /\ l.gens[k] <= generation /\ GenAt(k) # l.gens[k]
    BY <1>1 DEF Locals, ThreadOK, StoredOK, WithdrawnOK
  <2>2. \/ binding'[k] = binding[k]
        \/ binding'[k] = NoBinding
        \/ binding'[k].gen = generation + 1
    BY BindingStepIs
  <2>3. generation \in Nat
    BY BindingStepIs
  <2> QED
    BY <2>1, <2>2, <2>3 DEF GenAt
<1>12. AmendedOK(p, l)'
  BY DEF ThreadOK, AmendedOK, Grows
<1> QED
  BY <1>5, <1>6, <1>7, <1>9, <1>10, <1>11, <1>12 DEF ThreadOK

-----------------------------------------------------------------------------
(* Steps of one thread *)

\* What the thread that moves shows of the action properties.
LostNothing(t) ==
    (/\ pc[t] \in {"publish_cas", "amend_cas", "remove_cas"}
     /\ pc'[t] \in {"publish_bind", "restamp_snap", "purge"}) => tools[Key(t)] = loc[t].prev

RolledBackExactly(t) ==
    (pc[t] \in {"rollback", "batch_rollback"} /\ version' # version /\ pc'[t] # pc[t])
        => tools' = history[loc[t].base]

\* A step of t that keeps the invariant and the action properties.
GoodStep(t) ==
    /\ LifecycleInv'
    /\ \A u \in Threads \ {t} : pc'[u] = pc[u]
    /\ LostNothing(t) /\ RolledBackExactly(t)

\* Thread t moves to place p with locals l.
MovesTo(t, p, l) ==
    /\ pc' = [pc EXCEPT ![t] = p]
    /\ loc' = [loc EXCEPT ![t] = l]

LEMMA GoodMove ==
    ASSUME LifecycleInv, NEW t \in Threads, NEW p, NEW l, MovesTo(t, p, l),
           RegistryStep, BindingStep, Grows, CountersOK', ThreadOK(p, l)',
           LostNothing(t), RolledBackExactly(t)
    PROVE  GoodStep(t)
<1>1. RegistryTypeOK'
  BY RegistryStepOK DEF LifecycleInv
<1>2. BindingsOK'
  BY BindingStepOK DEF LifecycleInv
<1>3. /\ pc' \in [Threads -> Places] /\ loc' \in [Threads -> Locals]
      /\ pc'[t] = p /\ loc'[t] = l
      /\ \A u \in Threads \ {t} : pc'[u] = pc[u] /\ loc'[u] = loc[u]
  BY DEF MovesTo, LifecycleInv, ThreadOK, LocalsOK
<1>4. ASSUME NEW u \in Threads
      PROVE  ThreadOK(pc[u], loc[u])'
  <2>1. CASE u = t
    BY <1>3, <2>1
  <2>2. CASE u # t
    <3>1. PICK q : q = pc[u]
      OBVIOUS
    <3>2. PICK m : m = loc[u]
      OBVIOUS
    <3>3. ThreadOK(q, m)
      BY <3>1, <3>2 DEF LifecycleInv
    <3>4. ThreadOK(q, m)'
      BY <3>3, PassiveThread DEF LifecycleInv
    <3> QED
      BY <1>3, <2>2, <3>1, <3>2, <3>4
  <2> QED
    BY <2>1, <2>2
<1> QED
  BY <1>1, <1>2, <1>3, <1>4 DEF LifecycleInv, GoodStep

LEMMA StandStill ==
    ASSUME UNCHANGED <<registryVars, bindingVars, accepted, amended>>
    PROVE  RegistryStep /\ BindingStep /\ Grows
  BY DEF RegistryStep, BindingStep, Grows, registryVars, bindingVars

\* A step that only reads.
LEMMA RememberIsGood ==
    ASSUME LifecycleInv, NEW t \in Threads, NEW p, NEW l, Remember(t, p, l),
           p \notin {"publish_bind", "restamp_snap", "purge"}, ThreadOK(p, l)
    PROVE  GoodStep(t)
<1>1. MovesTo(t, p, l)
  BY DEF Remember, Goto, MovesTo
<1>2. UNCHANGED <<registryVars, bindingVars, scenario, started, faults, accepted, amended>>
  BY DEF Remember
<1>3. RegistryStep /\ BindingStep /\ Grows
  BY <1>2, StandStill
<1>4. ThreadOK(p, l)'
  BY <1>3, PassiveThread DEF LifecycleInv
<1>5. CountersOK'
  BY <1>2 DEF LifecycleInv, CountersOK
<1>6. LostNothing(t)
  BY <1>1 DEF LostNothing, MovesTo, LifecycleInv
<1>7. RolledBackExactly(t)
  BY <1>2 DEF RolledBackExactly, registryVars
<1> QED
  BY <1>1, <1>3, <1>4, <1>5, <1>6, <1>7, GoodMove

Batches == UNION {[ks -> Contracts] : ks \in SUBSET Keys}

LEMMA BlankIs ==
    /\ Blank \in Locals
    /\ Blank.base = 0 /\ Blank.snap = NoBinding /\ Blank.todo = {}
    /\ \A k \in Keys : Blank.gens[k] = 0
    /\ DOMAIN Blank.batch = {}
<1>1. PICK no \in BOOLEAN : no = FALSE
  OBVIOUS
<1>2. PICK first \in Keys : first = CHOOSE k \in Keys : TRUE
  BY BindingAssumption
<1>3. PICK none \in Batches : none = [k \in {} |-> Absent]
  <2>1. [k \in {} |-> Absent] \in [{} -> Contracts]
    OBVIOUS
  <2> QED
    BY <2>1 DEF Batches
<1>4. Blank = [key |-> first, batch |-> none,
          replace |-> no, inv |-> 0, base |-> 0, prev |-> Absent,
          snap |-> NoBinding, was |-> no, gens |-> [k \in Keys |-> 0],
          todo |-> {}, conflict |-> no]
  BY <1>1, <1>2, <1>3, Zenon DEF Blank
<1>5. 0 \in Invokers
  BY BindingAssumption DEF Invokers
<1> QED
  BY <1>3, <1>4, <1>5 DEF Locals, Batches

\* Locals of a thread that has read no binding and stored none.
Fresh(l) == l.snap = NoBinding /\ \A k \in Keys : l.gens[k] = 0

\* Places where nothing is known but the locals' shape.
EntryPlaces == {"idle", "refused", "ok", "raised", "publish_get", "batch_empty", "batch_publish",
                "bind_store", "amend_get", "add_write", "remove_get", "purge"}
               \cup {"existing_next", "existing_get", "existing_recheck", "existing_status",
                     "existing_unbind", "existing_bind", "existing_store"}

LEMMA EntryIsOK ==
    ASSUME NEW p \in EntryPlaces, NEW l, LocalsOK(p, l), Fresh(l)
    PROVE  ThreadOK(p, l)
<1>1. p \notin ReadPlaces /\ p \notin RestampPlaces /\ p # "restamp_snap"
  BY DEF EntryPlaces, ReadPlaces, RestampPlaces
<1>2. p \notin PublishedPlaces /\ p \notin BatchedPlaces
  BY DEF EntryPlaces, PublishedPlaces, BatchedPlaces
<1> QED
  BY <1>1, <1>2 DEF ThreadOK, ReadOK, CommittedOK, SnapOK, StoredOK, WithdrawnOK, AmendedOK, Fresh

LEMMA IdleIsOK == version \in Nat => ThreadOK("idle", Blank)
<1> SUFFICES ASSUME version \in Nat PROVE ThreadOK("idle", Blank)
  OBVIOUS
<1>1. PICK b : b = Blank
  OBVIOUS
<1>2. PICK p : p = "idle"
  OBVIOUS
<1>3. p \in EntryPlaces
  BY <1>2 DEF EntryPlaces
<1>4. LocalsOK(p, b)
  BY <1>1, <1>2, BlankIs
     DEF LocalsOK, Places, OneToolPlaces, StagedPlaces, TodoPlaces, PublishedPlaces,
         BatchedPlaces, RestampPlaces
<1>5. Fresh(b)
  BY <1>1, BlankIs DEF Fresh
<1> QED
  BY <1>1, <1>2, <1>3, <1>4, <1>5, EntryIsOK

\* Scenarios stay within the constants.
LEMMA ScenarioIs ==
    ASSUME CountersOK
    PROVE  /\ scenario.keys \subseteq Keys /\ scenario.contracts \subseteq Contracts
           /\ scenario.starts \in 0 .. MaxOps /\ started \in Nat /\ MaxOps \in Nat
           /\ faults \in Nat /\ scenario.faults \in Nat
<1>1. scenario \in Scenario
  BY BindingAssumption DEF CountersOK
<1> QED
  BY <1>1, BindingAssumption DEF Scenario, CountersOK

\* An operation begins.
LEMMA BeginIsGood ==
    ASSUME LifecycleInv, NEW t \in Threads, NEW op, NEW p \in EntryPlaces \ {"purge"},
           NEW first, Begin(t, op, p, first),
           NEW l, l = [first EXCEPT !.inv = started + 1],
           started + 1 \in Invokers => LocalsOK(p, l) /\ Fresh(l)
    PROVE  GoodStep(t)
<1>1. MovesTo(t, p, l)
  BY DEF Begin, Goto, MovesTo
<1>2. UNCHANGED <<registryVars, bindingVars, scenario, faults, accepted, amended>>
  BY DEF Begin
<1>3. RegistryStep /\ BindingStep /\ Grows
  BY <1>2, StandStill
<1>4. started' = started + 1 /\ started < scenario.starts
  BY DEF Begin
<1>5. started + 1 \in Invokers
  BY <1>4, ScenarioIs DEF LifecycleInv, Invokers
<1>6. ThreadOK(p, l)
  BY <1>5, EntryIsOK
<1>7. ThreadOK(p, l)'
  BY <1>3, <1>6, PassiveThread DEF LifecycleInv
<1>8. CountersOK'
  BY <1>2, <1>4, ScenarioIs DEF LifecycleInv, CountersOK
<1>9. LostNothing(t) /\ RolledBackExactly(t)
  BY DEF Begin, LostNothing, RolledBackExactly
<1> QED
  BY <1>1, <1>3, <1>7, <1>8, <1>9, GoodMove

-----------------------------------------------------------------------------
(* publish_bound_tool *)

LEMMA OneIs ==
    ASSUME NEW k \in Keys, NEW c \in Contracts
    PROVE  One(k, c) \in Batches /\ DOMAIN One(k, c) = {k} /\ One(k, c)[k] = c
<1>1. One(k, c) \in [{k} -> Contracts]
  BY DEF One
<1> QED
  BY <1>1 DEF One, Batches

\* What the invariant says of thread t.
LEMMA ThreadIs ==
    ASSUME LifecycleInv, NEW t \in Threads
    PROVE  /\ ThreadOK(pc[t], loc[t])
           /\ loc[t] \in Locals /\ loc[t].base <= version
           /\ loc[t].key \in Keys /\ loc[t].batch \in Batches /\ loc[t].base \in Nat
           /\ version \in Nat /\ tools \in Catalogs /\ history[version] = tools
  BY RegistryAssumption
     DEF LifecycleInv, ThreadOK, LocalsOK, Locals, Batches, RegistryTypeOK

LEMMA PublishBeginIsGood ==
    ASSUME LifecycleInv, NEW t \in Threads, PublishBegin(t)
    PROVE  GoodStep(t)
<1>1. PICK k \in scenario.keys, c \in scenario.contracts, replace \in BOOLEAN :
          Begin(t, "publish", "publish_get",
                [Blank EXCEPT !.key = k, !.batch = One(k, c), !.replace = replace, !.base = version])
  BY DEF PublishBegin
<1>2. k \in Keys /\ c \in Contracts
  BY ScenarioIs DEF LifecycleInv
<1>3. PICK b : b = One(k, c)
  OBVIOUS
<1>4. b \in Batches /\ DOMAIN b = {k}
  BY <1>2, <1>3, OneIs
<1>5. PICK first : first = [Blank EXCEPT !.key = k, !.batch = b, !.replace = replace,
                                         !.base = version]
  OBVIOUS
<1>6. PICK l : l = [first EXCEPT !.inv = started + 1]
  OBVIOUS
<1>7. PICK p : p = "publish_get"
  OBVIOUS
<1>8. Begin(t, "publish", p, first)
  BY <1>1, <1>3, <1>5, <1>7
<1>9. version \in Nat
  BY ThreadIs
<1>10. ASSUME started + 1 \in Invokers
       PROVE  LocalsOK(p, l) /\ Fresh(l)
  <2>1. l \in Locals /\ l.base = version /\ l.key = k /\ l.batch = b /\ Fresh(l)
    BY <1>2, <1>4, <1>5, <1>6, <1>9, <1>10, BlankIs DEF Locals, Batches, Fresh
  <2> QED
    BY <1>4, <1>7, <1>9, <2>1
       DEF LocalsOK, Places, OneToolPlaces, StagedPlaces, TodoPlaces, PublishedPlaces,
           BatchedPlaces, RestampPlaces
<1>11. p \in EntryPlaces \ {"purge"}
  BY <1>7 DEF EntryPlaces
<1> QED
  BY <1>6, <1>8, <1>10, <1>11, BeginIsGood

LEMMA PublishGetIsGood ==
    ASSUME LifecycleInv, NEW t \in Threads, PublishGet(t)
    PROVE  GoodStep(t)
<1>1. PICK k : k = Key(t)
  OBVIOUS
<1>2. PICK m : m = loc[t]
  OBVIOUS
<1>3. PICK l : l = [m EXCEPT !.prev = tools[k]]
  OBVIOUS
<1>4. PICK p : p = "publish_snap"
  OBVIOUS
<1>5. Remember(t, p, l)
  BY <1>1, <1>2, <1>3, <1>4 DEF PublishGet
<1>6. PICK q : q = "publish_get"
  OBVIOUS
<1>7. ThreadOK(q, m)
  BY <1>2, <1>6, ThreadIs DEF PublishGet
<1>8. /\ m \in Locals /\ k = m.key /\ k \in Keys /\ tools[k] \in Contracts \cup {Absent}
      /\ m.base \in Nat /\ version \in Nat
  BY <1>1, <1>2, ThreadIs DEF Key, Catalogs
<1>9. /\ l \in Locals /\ l.key = k /\ l.batch = m.batch /\ l.base = m.base
      /\ l.prev = tools[k] /\ l.snap = m.snap /\ l.gens = m.gens /\ l.todo = m.todo
  BY <1>3, <1>8 DEF Locals
<1>10. ThreadOK(p, l)
  BY <1>4, <1>6, <1>7, <1>8, <1>9
     DEF ThreadOK, LocalsOK, ReadOK, CommittedOK, SnapOK, StoredOK, WithdrawnOK, AmendedOK,
         Places, OneToolPlaces, StagedPlaces, TodoPlaces, PublishedPlaces, BatchedPlaces,
         RestampPlaces, ReadPlaces, SnapPlaces, StoredPlaces, Outcomes
<1> QED
  BY <1>4, <1>5, <1>10, RememberIsGood

LEMMA PublishSnapshotIsGood ==
    ASSUME LifecycleInv, NEW t \in Threads, PublishSnapshot(t)
    PROVE  GoodStep(t)
<1>1. PICK k : k = Key(t)
  OBVIOUS
<1>2. PICK m : m = loc[t]
  OBVIOUS
<1>3. PICK q : q = "publish_snap"
  OBVIOUS
<1>4. PICK p, l : p \in {"publish_cas"} /\ l = [m EXCEPT !.snap = binding[k]] /\ Remember(t, p, l)
  BY <1>1, <1>2 DEF PublishSnapshot
<1>5. ThreadOK(q, m)
  BY <1>2, <1>3, ThreadIs DEF PublishSnapshot
<1>6. /\ m \in Locals /\ k = m.key /\ k \in Keys /\ m.base \in Nat /\ version \in Nat
      /\ binding[k] \in Bindings \cup {NoBinding}
      /\ Bound(k) => binding[k].gen \in 1 .. generation /\ Validated(k, binding[k].fp)
  BY <1>1, <1>2, ThreadIs DEF Key, Catalogs, LifecycleInv, BindingsOK
<1>7. /\ l \in Locals /\ l.key = k /\ l.batch = m.batch /\ l.base = m.base
      /\ l.snap = binding[k] /\ l.prev = m.prev /\ l.gens = m.gens /\ l.todo = m.todo
      /\ l.inv = m.inv
  BY <1>4, <1>6 DEF Locals
<1>8. ThreadOK(p, l)
  BY <1>3, <1>4, <1>5, <1>6, <1>7
     DEF ThreadOK, LocalsOK, ReadOK, CommittedOK, SnapOK, StoredOK, WithdrawnOK, AmendedOK, Bound,
         Places, OneToolPlaces, StagedPlaces, TodoPlaces, KeyPlaces, PublishedPlaces,
         BatchedPlaces, RestampPlaces, ReadPlaces, SnapPlaces, StoredPlaces, Outcomes
<1> QED
  BY <1>4, <1>8, RememberIsGood

LEMMA PublishBindGetIsGood ==
    ASSUME LifecycleInv, NEW t \in Threads, PublishBindGet(t)
    PROVE  GoodStep(t)
<1>1. PICK m : m = loc[t]
  OBVIOUS
<1>2. PICK q : q = "publish_bind"
  OBVIOUS
<1>3. PICK p \in {"publish_store", "rollback"} : Remember(t, p, m)
  BY <1>1 DEF PublishBindGet
<1>4. ThreadOK(q, m)
  BY <1>1, <1>2, ThreadIs DEF PublishBindGet
<1>5. ThreadOK(p, m)
  BY <1>2, <1>3, <1>4
     DEF ThreadOK, LocalsOK, ReadOK, CommittedOK, SnapOK, StoredOK, WithdrawnOK, AmendedOK,
         Places, OneToolPlaces, StagedPlaces, TodoPlaces, KeyPlaces, PublishedPlaces,
         BatchedPlaces, RestampPlaces, ReadPlaces, SnapPlaces, StoredPlaces, Outcomes
<1> QED
  BY <1>3, <1>5, RememberIsGood

LEMMA PublishVerifyVersionIsGood ==
    ASSUME LifecycleInv, NEW t \in Threads, PublishVerifyVersion(t)
    PROVE  GoodStep(t)
<1>1. PICK m : m = loc[t]
  OBVIOUS
<1>2. PICK q : q = "publish_version"
  OBVIOUS
<1>3. PICK p \in {"publish_verify", "rollback"} : Remember(t, p, m)
  BY <1>1 DEF PublishVerifyVersion
<1>4. ThreadOK(q, m)
  BY <1>1, <1>2, ThreadIs DEF PublishVerifyVersion
<1>5. ThreadOK(p, m)
  BY <1>2, <1>3, <1>4
     DEF ThreadOK, LocalsOK, ReadOK, CommittedOK, SnapOK, StoredOK, WithdrawnOK, AmendedOK,
         Places, OneToolPlaces, StagedPlaces, TodoPlaces, KeyPlaces, PublishedPlaces,
         BatchedPlaces, RestampPlaces, ReadPlaces, SnapPlaces, StoredPlaces, Outcomes
<1> QED
  BY <1>3, <1>5, RememberIsGood

LEMMA PublishVerifyToolIsGood ==
    ASSUME LifecycleInv, NEW t \in Threads, PublishVerifyTool(t)
    PROVE  GoodStep(t)
<1>1. PICK m : m = loc[t]
  OBVIOUS
<1>2. PICK q : q = "publish_verify"
  OBVIOUS
<1>3. PICK p \in {"ok", "rollback"} : Remember(t, p, m)
  BY <1>1 DEF PublishVerifyTool
<1>4. ThreadOK(q, m)
  BY <1>1, <1>2, ThreadIs DEF PublishVerifyTool
<1>5. ThreadOK(p, m)
  BY <1>2, <1>3, <1>4
     DEF ThreadOK, LocalsOK, ReadOK, CommittedOK, SnapOK, StoredOK, WithdrawnOK, AmendedOK,
         Places, OneToolPlaces, StagedPlaces, TodoPlaces, KeyPlaces, PublishedPlaces,
         BatchedPlaces, RestampPlaces, ReadPlaces, SnapPlaces, StoredPlaces, Outcomes
<1> QED
  BY <1>3, <1>5, RememberIsGood

\* The writes to the registry that operations make.
LEMMA OneKeyWrite ==
    ASSUME RegistryTypeOK, NEW k \in Keys, NEW c \in Contracts \cup {Absent},
           CommitChangedToolKeys({k}, [tools EXCEPT ![k] = c])
    PROVE  WriteOf({k}, [tools EXCEPT ![k] = c])
  BY DEF WriteOf, RegistryTypeOK, Catalogs

LEMMA BatchWrite ==
    ASSUME RegistryTypeOK, NEW ks \in SUBSET Keys, NEW batch \in [ks -> Contracts \cup {Absent}],
           CommitChangedToolKeys(ks, Over(tools, batch))
    PROVE  WriteOf(ks, Over(tools, batch))
  BY DEF WriteOf, Over, RegistryTypeOK, Catalogs

LEMMA WriteIs ==
    ASSUME RegistryTypeOK, NEW keys, NEW newTools, WriteOf(keys, newTools)
    PROVE  /\ RegistryStep /\ version \in Nat /\ version' = version + 1 /\ tools' = newTools
           /\ history'[version] = tools
<1>1. RegistryStep
  BY DEF RegistryStep
<1>2. version \in Nat /\ version' = version + 1 /\ tools' = newTools
  BY RegistryAssumption DEF RegistryTypeOK, WriteOf, CommitChangedToolKeys
<1>3. history'[version] = history[version]
  BY <1>2, WriteKeepsHistory
<1> QED
  BY <1>1, <1>2, <1>3 DEF RegistryTypeOK

\* A thread writes to the registry and moves on; m are its locals.
LEMMA WriteIsGood ==
    ASSUME LifecycleInv, NEW t \in Threads, NEW p, NEW keys, NEW newTools, WriteOf(keys, newTools),
           Goto(t, p), UNCHANGED <<loc, bindingVars, scenario, started, faults, accepted>>,
           amended \subseteq amended', amended' \subseteq Keys \X Fps \X Fps,
           NEW m, m = loc[t], ThreadOK(p, m)',
           LostNothing(t), RolledBackExactly(t)
    PROVE  GoodStep(t)
<1>1. MovesTo(t, p, m)
  BY DEF Goto, MovesTo, LifecycleInv
<1>2. RegistryStep
  BY DEF RegistryStep
<1>3. BindingStep /\ Grows
  BY DEF BindingStep, Grows
<1>4. CountersOK'
  BY DEF CountersOK, LifecycleInv
<1> QED
  BY <1>1, <1>2, <1>3, <1>4, GoodMove

LEMMA PublishCasIsGood ==
    ASSUME LifecycleInv, NEW t \in Threads, PublishCas(t)
    PROVE  GoodStep(t)
<1>1. PICK k : k = Key(t)
  OBVIOUS
<1>2. PICK m : m = loc[t]
  OBVIOUS
<1>3. PICK q : q = "publish_cas"
  OBVIOUS
<1>4. PICK p : p = "publish_bind"
  OBVIOUS
<1>5. PICK r : r = "refused"
  OBVIOUS
<1>6. pc[t] = q /\ ThreadOK(q, m)
  BY <1>2, <1>3, ThreadIs DEF PublishCas
<1>7. /\ m \in Locals /\ k = m.key /\ k \in Keys /\ m.base \in Nat /\ version \in Nat
      /\ m.batch \in Batches /\ DOMAIN m.batch = {k} /\ m.prev \in Contracts \cup {Absent}
      /\ tools \in Catalogs /\ RegistryTypeOK
  BY <1>1, <1>2, <1>3, <1>6, ThreadIs
     DEF Key, ThreadOK, LocalsOK, OneToolPlaces, LifecycleInv, Locals
<1>8. m.batch \in [{k} -> Contracts] /\ m.batch[k] \in Contracts
  BY <1>7 DEF Batches
<1>9. CASE Remember(t, r, m)
  <2>1. ThreadOK(r, m)
    BY <1>3, <1>5, <1>6
       DEF ThreadOK, LocalsOK, ReadOK, CommittedOK, SnapOK, StoredOK, WithdrawnOK, AmendedOK,
           Places, OneToolPlaces, StagedPlaces, TodoPlaces, KeyPlaces, PublishedPlaces,
           BatchedPlaces, RestampPlaces, ReadPlaces, SnapPlaces, StoredPlaces, Outcomes
  <2> QED
    BY <1>5, <1>9, <2>1, RememberIsGood
<1>10. CASE /\ version = m.base
            /\ CommitChangedToolKeys({k}, Over(tools, m.batch))
            /\ Goto(t, p)
            /\ UNCHANGED <<loc, bindingVars, scenario, started, faults, accepted, amended>>
  <2>1. PICK new : new = Over(tools, m.batch)
    OBVIOUS
  <2>2. WriteOf({k}, new)
    BY <1>7, <1>8, <1>10, <2>1, BatchWrite
  <2>3. /\ RegistryStep /\ version' = version + 1 /\ tools' = new
        /\ history'[version] = tools
    BY <1>7, <2>2, WriteIs
  <2>4. ThreadOK(q, m)'
    BY <1>6, <1>10, <2>3, PassiveThread DEF BindingStep, Grows, LifecycleInv
  <2>5. tools[k] = m.prev
    BY <1>3, <1>6, <1>7, <1>10 DEF ThreadOK, ReadOK, ReadPlaces
  <2>6. Over(history[m.base], m.batch)' = new
    BY <1>10, <2>1, <2>3 DEF Over
  <2>7. ThreadOK(p, m)'
    BY <1>3, <1>4, <1>7, <1>10, <2>3, <2>4, <2>5, <2>6
       DEF ThreadOK, LocalsOK, ReadOK, CommittedOK, SnapOK, StoredOK, WithdrawnOK, AmendedOK,
           Places, OneToolPlaces, StagedPlaces, TodoPlaces, KeyPlaces, PublishedPlaces,
           BatchedPlaces, RestampPlaces, ReadPlaces, SnapPlaces, StoredPlaces, Outcomes
  <2>8. LostNothing(t) /\ RolledBackExactly(t)
    BY <1>1, <1>2, <1>3, <1>6, <2>5 DEF LostNothing, RolledBackExactly
  <2>9. amended' \subseteq Keys \X Fps \X Fps
    BY <1>10 DEF LifecycleInv, CountersOK
  <2> QED
    BY <1>2, <1>10, <2>2, <2>7, <2>8, <2>9, WriteIsGood
<1>11. [tools EXCEPT ![k] = m.batch[k]] = Over(tools, m.batch)
  BY <1>7 DEF Over, Catalogs
<1>12. NewTool(t) = m.batch[k]
  BY <1>1, <1>2 DEF NewTool, Key
<1> QED
  BY <1>1, <1>2, <1>4, <1>5, <1>7, <1>9, <1>10, <1>11, <1>12
     DEF PublishCas, UpdateManyIfVersion, UpdateMany, ReplaceIfFingerprint, Key

\* A binding is stored, or taken back if its generation is the expected one.
LEMMA StoreIs ==
    ASSUME LifecycleInv, NEW k \in Keys, NEW inv \in Invokers, NEW fp \in Fps,
           Store(k, inv, fp), Validated(k, fp)'
    PROVE  /\ BindingStep
           /\ generation \in Nat /\ generation' = generation + 1
           /\ binding'[k] # NoBinding /\ binding'[k].gen = generation + 1
           /\ binding'[k].inv = inv /\ binding'[k].fp = fp
           /\ \A j \in Keys \ {k} : binding'[j] = binding[j]
<1>1. PICK b : b = [inv |-> inv, fp |-> fp, gen |-> generation + 1]
  OBVIOUS
<1>2. generation \in Nat /\ binding \in [Keys -> Bindings \cup {NoBinding}]
  BY DEF LifecycleInv, BindingsOK
<1>3. b \in Bindings /\ b.fp = fp /\ b.gen = generation + 1 /\ b.inv = inv
  BY <1>1, <1>2 DEF Bindings
<1>4. b # NoBinding
  BY <1>3, BindingIs
<1>5. binding' = [binding EXCEPT ![k] = b] /\ generation' = generation + 1
  BY <1>1 DEF Store
<1>6. BindingStep
  BY DEF BindingStep
<1> QED
  BY <1>2, <1>3, <1>4, <1>5, <1>6

LEMMA RemoveIs ==
    ASSUME LifecycleInv, NEW k \in Keys, NEW gen \in Nat, RemoveIfGeneration(k, gen)
    PROVE  /\ BindingStep /\ (gen # 0 => GenAt(k)' # gen) /\ generation' = generation
           /\ \A j \in Keys \ {k} : binding'[j] = binding[j]
<1>1. binding \in [Keys -> Bindings \cup {NoBinding}]
  BY DEF LifecycleInv, BindingsOK
<1>2. CASE GenAt(k) = gen
  <2>1. binding' = [binding EXCEPT ![k] = NoBinding] /\ UNCHANGED generation
    BY <1>2 DEF RemoveIfGeneration
  <2>2. Purge(k)
    BY <2>1 DEF Purge
  <2>3. GenAt(k)' = 0
    BY <1>1, <2>1 DEF GenAt
  <2> QED
    BY <1>1, <2>1, <2>2, <2>3 DEF BindingStep
<1>3. CASE GenAt(k) # gen
  <2>1. UNCHANGED bindingVars
    BY <1>3 DEF RemoveIfGeneration, bindingVars
  <2> QED
    BY <1>3, <2>1 DEF BindingStep, GenAt, bindingVars
<1> QED
  BY <1>2, <1>3

LEMMA RestoreIs ==
    ASSUME LifecycleInv, NEW k \in Keys, NEW gen \in Nat, gen <= generation,
           NEW snap \in Bindings \cup {NoBinding},
           snap # NoBinding => Validated(k, snap.fp)',
           RestoreIfGeneration(k, gen, snap)
    PROVE  /\ BindingStep /\ (gen # 0 => GenAt(k)' # gen)
           /\ \A j \in Keys \ {k} : binding'[j] = binding[j]
<1>1. CASE GenAt(k) # gen
  BY <1>1 DEF RestoreIfGeneration, BindingStep, GenAt, bindingVars
<1>2. CASE GenAt(k) = gen /\ snap = NoBinding
  BY <1>2, RemoveIs DEF RestoreIfGeneration
<1>3. CASE GenAt(k) = gen /\ snap # NoBinding
  <2>1. PICK inv \in Invokers, fp \in Fps : inv = snap.inv /\ fp = snap.fp
    BY <1>3, BindingIs
  <2>2. Store(k, inv, fp)
    BY <1>3, <2>1 DEF RestoreIfGeneration
  <2>3. Validated(k, fp)'
    BY <1>3, <2>1
  <2>4. GenAt(k)' = generation + 1 /\ generation \in Nat
    BY <2>2, <2>3, StoreIs DEF GenAt
  <2> QED
    BY <2>2, <2>3, <2>4, StoreIs
<1> QED
  BY <1>1, <1>2, <1>3

\* A thread moves a binding and goes on.
LEMMA BindIsGood ==
    ASSUME LifecycleInv, NEW t \in Threads, NEW p, NEW l, MovesTo(t, p, l),
           BindingStep, UNCHANGED <<registryVars, scenario, started, faults, amended>>,
           accepted \subseteq accepted', accepted' \subseteq Keys \X Invokers \X Fps,
           p \notin {"publish_bind", "restamp_snap", "purge"}, ThreadOK(p, l)'
    PROVE  GoodStep(t)
<1>1. RegistryStep /\ Grows
  BY DEF RegistryStep, Grows
<1>2. CountersOK'
  BY DEF CountersOK, LifecycleInv
<1>3. LostNothing(t)
  BY DEF LostNothing, MovesTo, LifecycleInv
<1>4. RolledBackExactly(t)
  BY DEF RolledBackExactly, registryVars
<1> QED
  BY <1>1, <1>2, <1>3, <1>4, GoodMove

\* The contract a thread binds was accepted with it.
LEMMA AcceptIs ==
    ASSUME LifecycleInv, NEW k \in Keys, NEW inv \in Invokers, NEW fp \in Fps,
           accepted' = accepted \cup {<<k, inv, fp>>}, UNCHANGED amended
    PROVE  /\ Validated(k, fp)' /\ Grows
           /\ accepted \subseteq accepted' /\ accepted' \subseteq Keys \X Invokers \X Fps
  BY DEF Validated, Grows, LifecycleInv, CountersOK

LEMMA PublishBindStoreIsGood ==
    ASSUME LifecycleInv, NEW t \in Threads, PublishBindStore(t)
    PROVE  GoodStep(t)
<1>1. PICK k : k = Key(t)
  OBVIOUS
<1>2. PICK m : m = loc[t]
  OBVIOUS
<1>3. PICK q : q = "publish_store"
  OBVIOUS
<1>4. PICK p : p = "publish_version"
  OBVIOUS
<1>5. pc[t] = q /\ ThreadOK(q, m)
  BY <1>2, <1>3, ThreadIs DEF PublishBindStore
<1>6. /\ m \in Locals /\ k = m.key /\ k \in Keys /\ m.inv \in Invokers
      /\ DOMAIN m.batch = {k} /\ m.batch \in Batches
      /\ m.gens \in [Keys -> Nat]
  BY <1>1, <1>2, <1>3, <1>5, ThreadIs
     DEF Key, ThreadOK, LocalsOK, OneToolPlaces, PublishedPlaces, Locals
<1>7. m.batch[k] \in Contracts
  BY <1>6 DEF Batches
<1>8. PICK fp \in Fps : fp = FpOf[m.batch[k]]
  BY <1>7, RegistryAssumption
<1>9. fp = NewFp(t)
  BY <1>1, <1>2, <1>8 DEF NewFp, NewTool, Key
<1>10. /\ Store(k, m.inv, fp) /\ accepted' = accepted \cup {<<k, m.inv, fp>>}
       /\ UNCHANGED <<registryVars, scenario, started, faults, amended>>
       /\ Goto(t, p)
  BY <1>1, <1>2, <1>4, <1>9 DEF PublishBindStore
<1>11. /\ Validated(k, fp)' /\ Grows
       /\ accepted \subseteq accepted' /\ accepted' \subseteq Keys \X Invokers \X Fps
  BY <1>6, <1>10, AcceptIs
<1>12. /\ BindingStep
       /\ generation \in Nat /\ generation' = generation + 1
       /\ binding'[k] # NoBinding /\ binding'[k].gen = generation + 1
       /\ binding'[k].inv = m.inv /\ binding'[k].fp = fp
  BY <1>6, <1>10, <1>11, StoreIs
<1>13. PICK l : l = [m EXCEPT !.gens[k] = generation + 1]
  OBVIOUS
<1>14. MovesTo(t, p, l)
  BY <1>1, <1>2, <1>10, <1>13 DEF MovesTo, Goto, PublishBindStore
<1>15. ThreadOK(q, m)'
  BY <1>5, <1>10, <1>11, <1>12, PassiveThread DEF LifecycleInv, RegistryStep
<1>16. /\ l \in Locals /\ l.key = k /\ l.batch = m.batch /\ l.base = m.base /\ l.prev = m.prev
       /\ l.snap = m.snap /\ l.todo = m.todo /\ l.inv = m.inv
       /\ l.gens[k] = generation + 1 /\ \A j \in Keys \ {k} : l.gens[j] = m.gens[j]
  BY <1>6, <1>12, <1>13 DEF Locals
<1>17. ThreadOK(p, l)'
  BY <1>3, <1>4, <1>6, <1>8, <1>12, <1>15, <1>16
     DEF ThreadOK, LocalsOK, ReadOK, CommittedOK, SnapOK, StoredOK, WithdrawnOK, AmendedOK, Bound,
         Places, OneToolPlaces, StagedPlaces, TodoPlaces, KeyPlaces, PublishedPlaces,
         BatchedPlaces, RestampPlaces, ReadPlaces, SnapPlaces, StoredPlaces, Outcomes
<1> QED
  BY <1>4, <1>10, <1>11, <1>12, <1>14, <1>17, BindIsGood

LEMMA PublishReadFaultIsGood ==
    ASSUME LifecycleInv, NEW t \in Threads, PublishReadFault(t)
    PROVE  GoodStep(t)
<1>1. PICK m : m = loc[t]
  OBVIOUS
<1>2. PICK q \in {"publish_bind", "publish_version", "publish_verify"} : q = pc[t]
  BY DEF PublishReadFault
<1>3. PICK p : p = "rollback"
  OBVIOUS
<1>4. ThreadOK(q, m)
  BY <1>1, <1>2, ThreadIs
<1>5. ThreadOK(p, m)
  BY <1>2, <1>3, <1>4
       DEF ThreadOK, LocalsOK, ReadOK, CommittedOK, SnapOK, StoredOK, WithdrawnOK, AmendedOK,
           Places, OneToolPlaces, StagedPlaces, TodoPlaces, KeyPlaces, PublishedPlaces,
           BatchedPlaces, RestampPlaces, ReadPlaces, SnapPlaces, StoredPlaces, Outcomes
<1>6. MovesTo(t, p, m)
  BY <1>1, <1>3 DEF PublishReadFault, Goto, MovesTo, LifecycleInv
<1>7. UNCHANGED <<registryVars, bindingVars, scenario, started, accepted, amended>>
  BY DEF PublishReadFault
<1>8. RegistryStep /\ BindingStep /\ Grows
  BY <1>7, StandStill
<1>9. ThreadOK(p, m)'
  BY <1>5, <1>8, PassiveThread DEF LifecycleInv
<1>10. CountersOK'
  BY <1>7, ScenarioIs DEF PublishReadFault, LifecycleInv, CountersOK
<1>11. LostNothing(t) /\ RolledBackExactly(t)
  BY <1>2 DEF LostNothing, RolledBackExactly
<1> QED
  BY <1>6, <1>8, <1>9, <1>10, <1>11, GoodMove

LEMMA PublishRollbackIsGood ==
    ASSUME LifecycleInv, NEW t \in Threads, PublishRollback(t)
    PROVE  GoodStep(t)
<1>1. PICK k : k = Key(t)
  OBVIOUS
<1>2. PICK m : m = loc[t]
  OBVIOUS
<1>3. PICK q : q = "rollback"
  OBVIOUS
<1>4. PICK p : p = "restore"
  OBVIOUS
<1>5. PICK r : r = "withdraw"
  OBVIOUS
<1>6. pc[t] = q /\ ThreadOK(q, m)
  BY <1>2, <1>3, ThreadIs DEF PublishRollback
<1>7. /\ m \in Locals /\ k = m.key /\ k \in Keys /\ m.base \in Nat /\ version \in Nat
      /\ m.base <= version /\ m.prev \in Contracts \cup {Absent}
      /\ DOMAIN m.batch = {k} /\ history[m.base][k] = m.prev
      /\ version = m.base + 1 => tools = Over(history[m.base], m.batch)
  BY <1>1, <1>2, <1>3, <1>6, ThreadIs
     DEF Key, ThreadOK, LocalsOK, CommittedOK, OneToolPlaces, PublishedPlaces, Locals
<1>8. CASE Remember(t, r, m)
  <2>1. ThreadOK(r, m)
    BY <1>3, <1>5, <1>6
       DEF ThreadOK, LocalsOK, ReadOK, CommittedOK, SnapOK, StoredOK, WithdrawnOK, AmendedOK,
           Places, OneToolPlaces, StagedPlaces, TodoPlaces, KeyPlaces, PublishedPlaces,
           BatchedPlaces, RestampPlaces, ReadPlaces, SnapPlaces, StoredPlaces, Outcomes
  <2> QED
    BY <1>5, <1>8, <2>1, RememberIsGood
<1>9. CASE /\ version = m.base + 1
           /\ CommitChangedToolKeys({k}, [tools EXCEPT ![k] = m.prev])
           /\ Goto(t, p)
           /\ UNCHANGED <<loc, bindingVars, scenario, started, faults, accepted, amended>>
  <2>1. PICK new : new = [tools EXCEPT ![k] = m.prev]
    OBVIOUS
  <2>2. WriteOf({k}, new)
    BY <1>7, <1>9, <2>1, OneKeyWrite DEF LifecycleInv
  <2>3. RegistryStep /\ version' = version + 1 /\ tools' = new
    BY <2>2, WriteIs DEF LifecycleInv
  <2>4. ThreadOK(q, m)'
    BY <1>6, <1>9, <2>3, PassiveThread DEF BindingStep, Grows, LifecycleInv
  <2>5. new = history[m.base]
    <3>1. history[m.base] \in Catalogs
      BY <1>7 DEF LifecycleInv, RegistryTypeOK
    <3> QED
      BY <1>7, <1>9, <2>1, <3>1 DEF Over, Catalogs
  <2>6. ThreadOK(p, m)'
    BY <1>3, <1>4, <2>4
       DEF ThreadOK, LocalsOK, ReadOK, CommittedOK, SnapOK, StoredOK, WithdrawnOK, AmendedOK,
           Places, OneToolPlaces, StagedPlaces, TodoPlaces, KeyPlaces, PublishedPlaces,
           BatchedPlaces, RestampPlaces, ReadPlaces, SnapPlaces, StoredPlaces, Outcomes
  <2>7. LostNothing(t) /\ RolledBackExactly(t)
    BY <1>2, <1>3, <1>6, <2>3, <2>5 DEF LostNothing, RolledBackExactly
  <2>8. amended' \subseteq Keys \X Fps \X Fps
    BY <1>9 DEF LifecycleInv, CountersOK
  <2> QED
    BY <1>2, <1>9, <2>2, <2>6, <2>7, <2>8, WriteIsGood
<1> QED
  BY <1>1, <1>2, <1>4, <1>5, <1>8, <1>9
     DEF PublishRollback, UnregisterIfFingerprint, ReplaceIfFingerprint, Key

LEMMA PublishRestoreIsGood ==
    ASSUME LifecycleInv, NEW t \in Threads, PublishRestore(t)
    PROVE  GoodStep(t)
<1>1. PICK k : k = Key(t)
  OBVIOUS
<1>2. PICK m : m = loc[t]
  OBVIOUS
<1>3. PICK q : q = "restore"
  OBVIOUS
<1>4. PICK p : p = "failed"
  OBVIOUS
<1>5. pc[t] = q /\ ThreadOK(q, m)
  BY <1>2, <1>3, ThreadIs DEF PublishRestore
<1>6. /\ m \in Locals /\ k = m.key /\ k \in Keys /\ DOMAIN m.batch = {k}
      /\ m.gens \in [Keys -> Nat] /\ m.snap \in Bindings \cup {NoBinding}
  BY <1>1, <1>2, <1>3, <1>5, ThreadIs
     DEF Key, ThreadOK, LocalsOK, OneToolPlaces, PublishedPlaces, Locals
<1>7. \A j \in Keys \ {k} : m.gens[j] = 0
  BY <1>5, <1>6 DEF ThreadOK, StoredOK
<1>8. UNCHANGED <<registryVars, loc, scenario, started, faults, accepted, amended>> /\ Goto(t, p)
  BY <1>4 DEF PublishRestore
<1>9. BindingStep /\ (m.gens[k] # 0 => GenAt(k)' # m.gens[k])
  <2>1. CASE m.gens[k] = 0
    BY <1>1, <1>2, <2>1 DEF PublishRestore, BindingStep
  <2>2. CASE m.gens[k] # 0
    <3>1. PICK gen \in Nat \ {0}, snap \in Bindings \cup {NoBinding} :
              gen = m.gens[k] /\ snap = m.snap
      BY <1>6, <2>2
    <3>2. RestoreIfGeneration(k, gen, snap)
      BY <1>1, <1>2, <2>2, <3>1 DEF PublishRestore
    <3>3. gen <= generation /\ (snap # NoBinding => Validated(k, snap.fp))
      BY <1>5, <1>6, <2>2, <3>1 DEF ThreadOK, StoredOK, SnapOK
    <3>4. snap # NoBinding => Validated(k, snap.fp)'
      BY <1>8, <3>3 DEF Validated
    <3> QED
      BY <1>6, <3>1, <3>2, <3>3, <3>4, RestoreIs
  <2> QED
    BY <2>1, <2>2
<1>10. ThreadOK(q, m)'
  BY <1>5, <1>8, <1>9, PassiveThread DEF LifecycleInv, RegistryStep, Grows
<1>11. ThreadOK(p, m)'
  BY <1>3, <1>4, <1>7, <1>9, <1>10
       DEF ThreadOK, LocalsOK, ReadOK, CommittedOK, SnapOK, StoredOK, WithdrawnOK, AmendedOK,
           Places, OneToolPlaces, StagedPlaces, TodoPlaces, KeyPlaces, PublishedPlaces,
           BatchedPlaces, RestampPlaces, ReadPlaces, SnapPlaces, StoredPlaces, Outcomes
<1>12. MovesTo(t, p, m)
  BY <1>2, <1>8 DEF Goto, MovesTo, LifecycleInv
<1>13. accepted' \subseteq Keys \X Invokers \X Fps
  BY <1>8 DEF LifecycleInv, CountersOK
<1> QED
  BY <1>4, <1>8, <1>9, <1>11, <1>12, <1>13, BindIsGood

LEMMA PublishWithdrawIsGood ==
    ASSUME LifecycleInv, NEW t \in Threads, PublishWithdraw(t)
    PROVE  GoodStep(t)
<1>1. PICK k : k = Key(t)
  OBVIOUS
<1>2. PICK m : m = loc[t]
  OBVIOUS
<1>3. PICK q : q = "withdraw"
  OBVIOUS
<1>4. PICK p : p = "drift"
  OBVIOUS
<1>5. pc[t] = q /\ ThreadOK(q, m)
  BY <1>2, <1>3, ThreadIs DEF PublishWithdraw
<1>6. /\ m \in Locals /\ k = m.key /\ k \in Keys /\ DOMAIN m.batch = {k}
      /\ m.gens \in [Keys -> Nat]
  BY <1>1, <1>2, <1>3, <1>5, ThreadIs
     DEF Key, ThreadOK, LocalsOK, OneToolPlaces, PublishedPlaces, Locals
<1>7. \A j \in Keys \ {k} : m.gens[j] = 0
  BY <1>5, <1>6 DEF ThreadOK, StoredOK
<1>8. UNCHANGED <<registryVars, loc, scenario, started, faults, accepted, amended>> /\ Goto(t, p)
  BY <1>4 DEF PublishWithdraw
<1>9. BindingStep /\ (m.gens[k] # 0 => GenAt(k)' # m.gens[k])
  <2>1. CASE m.gens[k] = 0
    BY <1>1, <1>2, <2>1 DEF PublishWithdraw, BindingStep
  <2>2. CASE m.gens[k] # 0
    <3>1. PICK gen \in Nat \ {0} : gen = m.gens[k]
      BY <1>6, <2>2
    <3>2. RemoveIfGeneration(k, gen)
      BY <1>1, <1>2, <2>2, <3>1 DEF PublishWithdraw
    <3> QED
      BY <1>6, <3>1, <3>2, RemoveIs
  <2> QED
    BY <2>1, <2>2
<1>10. ThreadOK(q, m)'
  BY <1>5, <1>8, <1>9, PassiveThread DEF LifecycleInv, RegistryStep, Grows
<1>11. ThreadOK(p, m)'
  BY <1>3, <1>4, <1>7, <1>9, <1>10
       DEF ThreadOK, LocalsOK, ReadOK, CommittedOK, SnapOK, StoredOK, WithdrawnOK, AmendedOK,
           Places, OneToolPlaces, StagedPlaces, TodoPlaces, KeyPlaces, PublishedPlaces,
           BatchedPlaces, RestampPlaces, ReadPlaces, SnapPlaces, StoredPlaces, Outcomes
<1>12. MovesTo(t, p, m)
  BY <1>2, <1>8 DEF Goto, MovesTo, LifecycleInv
<1>13. accepted' \subseteq Keys \X Invokers \X Fps
  BY <1>8 DEF LifecycleInv, CountersOK
<1> QED
  BY <1>4, <1>8, <1>9, <1>11, <1>12, <1>13, BindIsGood

LEMMA PublishIsGood ==
    ASSUME LifecycleInv, NEW t \in Threads, Publish(t)
    PROVE  GoodStep(t)
  BY PublishBeginIsGood, PublishGetIsGood, PublishSnapshotIsGood, PublishCasIsGood,
     PublishBindGetIsGood, PublishBindStoreIsGood, PublishVerifyVersionIsGood,
     PublishVerifyToolIsGood, PublishReadFaultIsGood, PublishRollbackIsGood,
     PublishRestoreIsGood, PublishWithdrawIsGood DEF Publish

-----------------------------------------------------------------------------
(* _register_bound_batch *)

LEMMA BatchBeginIsGood ==
    ASSUME LifecycleInv, NEW t \in Threads, BatchBegin(t)
    PROVE  GoodStep(t)
<1> PICK ks \in SUBSET scenario.keys : \E b \in [ks -> scenario.contracts] :
        Begin(t, "batch", "batch_empty",
              [Blank EXCEPT !.batch = b, !.base = version, !.todo = ks])
  BY DEF BatchBegin
<1>1. PICK b \in [ks -> scenario.contracts] :
          Begin(t, "batch", "batch_empty",
                [Blank EXCEPT !.batch = b, !.base = version, !.todo = ks])
  OBVIOUS
<1>2. ks \in SUBSET Keys /\ b \in Batches /\ DOMAIN b = ks
  BY ScenarioIs DEF LifecycleInv, Batches
<1>3. PICK first : first = [Blank EXCEPT !.batch = b, !.base = version, !.todo = ks]
  OBVIOUS
<1>4. PICK l : l = [first EXCEPT !.inv = started + 1]
  OBVIOUS
<1>5. PICK p : p = "batch_empty"
  OBVIOUS
<1>6. Begin(t, "batch", p, first)
  BY <1>1, <1>3, <1>5
<1>7. version \in Nat
  BY ThreadIs
<1>8. ASSUME started + 1 \in Invokers
      PROVE  LocalsOK(p, l) /\ Fresh(l)
  <2>1. l \in Locals /\ l.base = version /\ l.batch = b /\ l.todo = ks /\ Fresh(l)
    BY <1>2, <1>3, <1>4, <1>7, <1>8, BlankIs DEF Locals, Batches, Fresh
  <2> QED
    BY <1>2, <1>5, <1>7, <2>1
       DEF LocalsOK, Places, OneToolPlaces, StagedPlaces, TodoPlaces, PublishedPlaces,
           BatchedPlaces, RestampPlaces
<1>9. p \in EntryPlaces \ {"purge"}
  BY <1>5 DEF EntryPlaces
<1> QED
  BY <1>4, <1>6, <1>8, <1>9, BeginIsGood

LEMMA BatchEnsureEmptyIsGood ==
    ASSUME LifecycleInv, NEW t \in Threads, BatchEnsureEmpty(t)
    PROVE  GoodStep(t)
<1>1. PICK m : m = loc[t]
  OBVIOUS
<1>2. PICK q : q = "batch_empty"
  OBVIOUS
<1>3. PICK p \in {"batch_publish", "refused"} : Remember(t, p, m)
  BY <1>1 DEF BatchEnsureEmpty
<1>4. ThreadOK(q, m)
  BY <1>1, <1>2, ThreadIs DEF BatchEnsureEmpty
<1>5. ThreadOK(p, m)
  BY <1>2, <1>3, <1>4
     DEF ThreadOK, LocalsOK, ReadOK, CommittedOK, SnapOK, StoredOK, WithdrawnOK, AmendedOK,
         Places, OneToolPlaces, StagedPlaces, TodoPlaces, KeyPlaces, PublishedPlaces,
         BatchedPlaces, RestampPlaces, ReadPlaces, SnapPlaces, StoredPlaces, Outcomes
<1> QED
  BY <1>3, <1>5, RememberIsGood

LEMMA BatchPublishIsGood ==
    ASSUME LifecycleInv, NEW t \in Threads, BatchPublish(t)
    PROVE  GoodStep(t)
<1>1. PICK m : m = loc[t]
  OBVIOUS
<1>2. PICK q : q = "batch_publish"
  OBVIOUS
<1>3. PICK p : p = "batch_bind"
  OBVIOUS
<1>4. PICK r : r = "refused"
  OBVIOUS
<1>5. pc[t] = q /\ ThreadOK(q, m)
  BY <1>1, <1>2, ThreadIs DEF BatchPublish
<1>6. /\ m \in Locals /\ m.base \in Nat /\ version \in Nat /\ m.batch \in Batches
      /\ tools \in Catalogs /\ RegistryTypeOK
  BY <1>1, ThreadIs DEF LifecycleInv
<1>7. PICK ks \in SUBSET Keys : m.batch \in [ks -> Contracts] /\ DOMAIN m.batch = ks
  BY <1>6 DEF Batches
<1>8. CASE Remember(t, r, m)
  <2>1. ThreadOK(r, m)
    BY <1>2, <1>4, <1>5
       DEF ThreadOK, LocalsOK, ReadOK, CommittedOK, SnapOK, StoredOK, WithdrawnOK, AmendedOK,
           Places, OneToolPlaces, StagedPlaces, TodoPlaces, KeyPlaces, PublishedPlaces,
           BatchedPlaces, RestampPlaces, ReadPlaces, SnapPlaces, StoredPlaces, Outcomes
  <2> QED
    BY <1>4, <1>8, <2>1, RememberIsGood
<1>9. CASE /\ UpdateManyIfVersion(m.batch, m.base, FALSE)
           /\ Goto(t, p)
           /\ UNCHANGED <<loc, bindingVars, scenario, started, faults, accepted, amended>>
  <2>1. PICK new : new = Over(tools, m.batch)
    OBVIOUS
  <2>2. /\ version = m.base /\ CommitChangedToolKeys(ks, new)
        /\ \A k \in DOMAIN m.batch : tools[k] = Absent
    BY <1>7, <1>9, <2>1 DEF UpdateManyIfVersion, UpdateMany, Present
  <2>3. WriteOf(ks, new)
    BY <1>6, <1>7, <2>1, <2>2, BatchWrite
  <2>4. /\ RegistryStep /\ version' = version + 1 /\ tools' = new
        /\ history'[version] = tools
    BY <1>6, <2>3, WriteIs
  <2>5. ThreadOK(q, m)'
    BY <1>5, <1>9, <2>4, PassiveThread DEF BindingStep, Grows, LifecycleInv
  <2>6. Over(history[m.base], m.batch)' = new
    BY <2>1, <2>2, <2>4 DEF Over
  <2>7. ThreadOK(p, m)'
    BY <1>2, <1>3, <1>6, <2>2, <2>4, <2>5, <2>6
       DEF ThreadOK, LocalsOK, ReadOK, CommittedOK, SnapOK, StoredOK, WithdrawnOK, AmendedOK,
           Places, OneToolPlaces, StagedPlaces, TodoPlaces, KeyPlaces, PublishedPlaces,
           BatchedPlaces, RestampPlaces, ReadPlaces, SnapPlaces, StoredPlaces, Outcomes
  <2>8. LostNothing(t) /\ RolledBackExactly(t)
    BY <1>2, <1>5 DEF LostNothing, RolledBackExactly
  <2>9. amended' \subseteq Keys \X Fps \X Fps
    BY <1>9 DEF LifecycleInv, CountersOK
  <2> QED
    BY <1>1, <1>9, <2>3, <2>7, <2>8, <2>9, WriteIsGood
<1> QED
  BY <1>1, <1>3, <1>4, <1>8, <1>9 DEF BatchPublish

\* A batch gives up: it will take back whatever it bound.
LEMMA GivingUpIsOK ==
    ASSUME LifecycleInv, NEW q \in BatchedPlaces, NEW m, ThreadOK(q, m), NEW l,
           l = [m EXCEPT !.todo = DOMAIN m.batch], NEW p, p = "batch_unbind"
    PROVE  ThreadOK(p, l)
<1>1. m \in Locals /\ DOMAIN m.batch \in SUBSET Keys
  BY DEF ThreadOK, LocalsOK, Locals
<1>2. /\ l \in Locals /\ l.key = m.key /\ l.batch = m.batch /\ l.base = m.base
      /\ l.prev = m.prev /\ l.snap = m.snap /\ l.gens = m.gens /\ l.inv = m.inv
      /\ l.todo = DOMAIN m.batch
  BY <1>1 DEF Locals
<1> QED
  BY <1>1, <1>2
       DEF ThreadOK, LocalsOK, ReadOK, CommittedOK, SnapOK, StoredOK, WithdrawnOK, AmendedOK,
           Places, OneToolPlaces, StagedPlaces, TodoPlaces, KeyPlaces, PublishedPlaces,
           BatchedPlaces, RestampPlaces, ReadPlaces, SnapPlaces, StoredPlaces, Outcomes

LEMMA BatchBindGetIsGood ==
    ASSUME LifecycleInv, NEW t \in Threads, BatchBindGet(t)
    PROVE  GoodStep(t)
<1>1. PICK m : m = loc[t]
  OBVIOUS
<1>2. PICK q : q = "batch_bind"
  OBVIOUS
<1>3. PICK p : p = "batch_store"
  OBVIOUS
<1>4. PICK r : r = "batch_unbind"
  OBVIOUS
<1>5. ThreadOK(q, m) /\ m \in Locals
  BY <1>1, <1>2, ThreadIs DEF BatchBindGet
<1>6. q \in BatchedPlaces
  BY <1>2 DEF BatchedPlaces
<1>7. PICK k \in m.todo : \/ Remember(t, p, [m EXCEPT !.key = k])
                         \/ Remember(t, r, [m EXCEPT !.todo = DOMAIN m.batch])
  BY <1>1, <1>3, <1>4 DEF BatchBindGet
<1>8. k \in Keys
  BY <1>5 DEF Locals
<1>9. CASE Remember(t, p, [m EXCEPT !.key = k])
  <2>1. PICK l : l = [m EXCEPT !.key = k]
    OBVIOUS
  <2>2. /\ l \in Locals /\ l.key = k /\ l.batch = m.batch /\ l.base = m.base
        /\ l.prev = m.prev /\ l.snap = m.snap /\ l.gens = m.gens /\ l.inv = m.inv
        /\ l.todo = m.todo
    BY <1>5, <1>8, <2>1 DEF Locals
  <2>3. ThreadOK(p, l)
    BY <1>2, <1>3, <1>5, <1>7, <2>2
       DEF ThreadOK, LocalsOK, ReadOK, CommittedOK, SnapOK, StoredOK, WithdrawnOK, AmendedOK,
           Places, OneToolPlaces, StagedPlaces, TodoPlaces, KeyPlaces, PublishedPlaces,
           BatchedPlaces, RestampPlaces, ReadPlaces, SnapPlaces, StoredPlaces, Outcomes
  <2> QED
    BY <1>3, <1>9, <2>1, <2>3, RememberIsGood
<1>10. CASE Remember(t, r, [m EXCEPT !.todo = DOMAIN m.batch])
  <2>1. PICK l : l = [m EXCEPT !.todo = DOMAIN m.batch]
    OBVIOUS
  <2>2. ThreadOK(r, l)
    BY <1>4, <1>5, <1>6, <2>1, GivingUpIsOK
  <2> QED
    BY <1>4, <1>10, <2>1, <2>2, RememberIsGood
<1> QED
  BY <1>7, <1>9, <1>10

LEMMA BatchReadFaultIsGood ==
    ASSUME LifecycleInv, NEW t \in Threads, BatchReadFault(t)
    PROVE  GoodStep(t)
<1>1. PICK m : m = loc[t]
  OBVIOUS
<1>2. PICK q \in {"batch_bind", "batch_version"} : q = pc[t]
  BY DEF BatchReadFault
<1>3. PICK p : p = "batch_unbind"
  OBVIOUS
<1>4. PICK l : l = [m EXCEPT !.todo = DOMAIN m.batch]
  OBVIOUS
<1>5. ThreadOK(q, m)
  BY <1>1, <1>2, ThreadIs
<1>6. q \in BatchedPlaces
  BY <1>2 DEF BatchedPlaces
<1>7. ThreadOK(p, l)
  BY <1>3, <1>4, <1>5, <1>6, GivingUpIsOK
<1>8. MovesTo(t, p, l)
  BY <1>1, <1>3, <1>4 DEF BatchReadFault, Goto, MovesTo, LifecycleInv
<1>9. UNCHANGED <<registryVars, bindingVars, scenario, started, accepted, amended>>
  BY DEF BatchReadFault
<1>10. RegistryStep /\ BindingStep /\ Grows
  BY <1>9, StandStill
<1>11. ThreadOK(p, l)'
  BY <1>7, <1>10, PassiveThread DEF LifecycleInv
<1>12. CountersOK'
  BY <1>9, ScenarioIs DEF BatchReadFault, LifecycleInv, CountersOK
<1>13. LostNothing(t) /\ RolledBackExactly(t)
  BY <1>2 DEF LostNothing, RolledBackExactly
<1> QED
  BY <1>8, <1>10, <1>11, <1>12, <1>13, GoodMove

LEMMA BatchBindStoreIsGood ==
    ASSUME LifecycleInv, NEW t \in Threads, BatchBindStore(t)
    PROVE  GoodStep(t)
<1>1. PICK k : k = Key(t)
  OBVIOUS
<1>2. PICK m : m = loc[t]
  OBVIOUS
<1>3. PICK q : q = "batch_store"
  OBVIOUS
<1>4. PICK r : r = "batch_unbind"
  OBVIOUS
<1>5. ThreadOK(q, m)
  BY <1>2, <1>3, ThreadIs DEF BatchBindStore
<1>6. /\ m \in Locals /\ k = m.key /\ k \in Keys /\ m.inv \in Invokers
      /\ k \in DOMAIN m.batch /\ m.batch \in Batches
      /\ m.gens \in [Keys -> Nat] /\ m.todo \subseteq Keys
  BY <1>1, <1>2, <1>3, <1>5, ThreadIs
     DEF Key, ThreadOK, LocalsOK, StagedPlaces, Locals
<1>7. m.batch[k] \in Contracts
  BY <1>6 DEF Batches
<1>8. CASE binding[k] # NoBinding
  <2>1. PICK l : l = [m EXCEPT !.todo = DOMAIN m.batch]
    OBVIOUS
  <2>2. Remember(t, r, l)
    BY <1>1, <1>2, <1>4, <1>8, <2>1 DEF BatchBindStore
  <2>3. q \in BatchedPlaces
    BY <1>3 DEF BatchedPlaces
  <2>4. ThreadOK(r, l)
    BY <1>4, <1>5, <2>1, <2>3, GivingUpIsOK
  <2> QED
    BY <1>4, <2>2, <2>4, RememberIsGood
<1>9. CASE binding[k] = NoBinding
  <2>1. PICK fp \in Fps : fp = FpOf[m.batch[k]]
    BY <1>7, RegistryAssumption
  <2>2. fp = NewFp(t)
    BY <1>1, <1>2, <2>1 DEF NewFp, NewTool, Key
  <2>3. PICK p \in {"batch_version", "batch_bind"} :
            /\ Store(k, m.inv, fp) /\ accepted' = accepted \cup {<<k, m.inv, fp>>}
            /\ UNCHANGED <<registryVars, scenario, started, faults, amended>>
            /\ Goto(t, p)
            /\ loc' = [loc EXCEPT ![t].gens[k] = generation + 1, ![t].todo = m.todo \ {k}]
    BY <1>1, <1>2, <1>9, <2>2 DEF BatchBindStore
  <2>4. /\ Validated(k, fp)' /\ Grows
        /\ accepted \subseteq accepted' /\ accepted' \subseteq Keys \X Invokers \X Fps
    BY <1>6, <2>3, AcceptIs
  <2>5. /\ BindingStep
        /\ generation \in Nat /\ generation' = generation + 1
        /\ binding'[k] # NoBinding /\ binding'[k].gen = generation + 1
        /\ binding'[k].inv = m.inv /\ binding'[k].fp = fp
    BY <1>6, <2>3, <2>4, StoreIs
  <2>6. PICK l : l = [m EXCEPT !.gens[k] = generation + 1, !.todo = m.todo \ {k}]
    OBVIOUS
  <2>7. /\ l \in Locals /\ l.key = k /\ l.batch = m.batch /\ l.base = m.base /\ l.prev = m.prev
        /\ l.snap = m.snap /\ l.todo = m.todo \ {k} /\ l.inv = m.inv
        /\ l.gens[k] = generation + 1 /\ \A j \in Keys \ {k} : l.gens[j] = m.gens[j]
    <3>1. PICK gens : gens = [m.gens EXCEPT ![k] = generation + 1]
      OBVIOUS
    <3>2. PICK rest : rest = m.todo \ {k}
      OBVIOUS
    <3>3. /\ gens \in [Keys -> Nat] /\ gens[k] = generation + 1
          /\ \A j \in Keys \ {k} : gens[j] = m.gens[j]
      BY <1>6, <2>5, <3>1
    <3>4. l = [m EXCEPT !.gens = gens, !.todo = rest]
      BY <1>6, <2>6, <3>1, <3>2 DEF Locals
    <3>5. rest \in SUBSET Keys
      BY <1>6, <3>2
    <3>6. /\ l \in Locals /\ l.key = m.key /\ l.batch = m.batch /\ l.base = m.base
          /\ l.prev = m.prev /\ l.snap = m.snap /\ l.todo = rest /\ l.inv = m.inv
          /\ l.gens = gens
      BY <1>6, <3>3, <3>4, <3>5 DEF Locals
    <3> QED
      BY <1>6, <3>2, <3>3, <3>6
  <2>8. loc \in [Threads -> Locals]
    BY DEF LifecycleInv
  <2>9. loc' = [loc EXCEPT ![t] = l]
    BY <1>2, <2>3, <2>6, <2>8
  <2>10. MovesTo(t, p, l)
    BY <2>3, <2>9 DEF MovesTo, Goto
  <2>11. ThreadOK(q, m)'
    BY <1>5, <2>3, <2>4, <2>5, PassiveThread DEF LifecycleInv, RegistryStep
  <2>12. ThreadOK(p, l)'
    BY <1>3, <1>6, <2>1, <2>3, <2>5, <2>7, <2>11
       DEF ThreadOK, LocalsOK, ReadOK, CommittedOK, SnapOK, StoredOK, WithdrawnOK, AmendedOK, Bound,
           Places, OneToolPlaces, StagedPlaces, TodoPlaces, KeyPlaces, PublishedPlaces,
           BatchedPlaces, RestampPlaces, ReadPlaces, SnapPlaces, StoredPlaces, Outcomes
  <2> QED
    BY <2>3, <2>4, <2>5, <2>10, <2>12, BindIsGood
<1> QED
  BY <1>8, <1>9

LEMMA BatchVerifyIsGood ==
    ASSUME LifecycleInv, NEW t \in Threads, BatchVerify(t)
    PROVE  GoodStep(t)
<1>1. PICK m : m = loc[t]
  OBVIOUS
<1>2. PICK q : q = "batch_version"
  OBVIOUS
<1>3. PICK p : p = "ok"
  OBVIOUS
<1>4. PICK r : r = "batch_unbind"
  OBVIOUS
<1>5. PICK l : l = [m EXCEPT !.todo = DOMAIN m.batch]
  OBVIOUS
<1>6. ThreadOK(q, m) /\ q \in BatchedPlaces
  BY <1>1, <1>2, ThreadIs DEF BatchVerify, BatchedPlaces
<1>7. ThreadOK(p, m)
  BY <1>2, <1>3, <1>6
       DEF ThreadOK, LocalsOK, ReadOK, CommittedOK, SnapOK, StoredOK, WithdrawnOK, AmendedOK,
           Places, OneToolPlaces, StagedPlaces, TodoPlaces, KeyPlaces, PublishedPlaces,
           BatchedPlaces, RestampPlaces, ReadPlaces, SnapPlaces, StoredPlaces, Outcomes
<1>8. ThreadOK(r, l)
  BY <1>4, <1>5, <1>6, GivingUpIsOK
<1>9. Remember(t, p, m) \/ Remember(t, r, l)
  BY <1>1, <1>3, <1>4, <1>5 DEF BatchVerify
<1> QED
  BY <1>3, <1>4, <1>7, <1>8, <1>9, RememberIsGood

LEMMA BatchUnbindIsGood ==
    ASSUME LifecycleInv, NEW t \in Threads, BatchUnbind(t)
    PROVE  GoodStep(t)
<1>1. PICK m : m = loc[t]
  OBVIOUS
<1>2. PICK q : q = "batch_unbind"
  OBVIOUS
<1>3. ThreadOK(q, m) /\ m \in Locals
  BY <1>1, <1>2, ThreadIs DEF BatchUnbind
<1>4. PICK k \in m.todo, conflict \in BOOLEAN :
          /\ IF m.gens[k] = 0 THEN UNCHANGED bindingVars ELSE RemoveIfGeneration(k, m.gens[k])
          /\ loc' = [loc EXCEPT ![t].todo = m.todo \ {k}, ![t].conflict = conflict]
          /\ Goto(t, IF m.todo \ {k} = {} THEN "batch_rollback" ELSE "batch_unbind")
  <2>1. PICK k \in m.todo :
            /\ IF m.gens[k] = 0 THEN UNCHANGED bindingVars ELSE RemoveIfGeneration(k, m.gens[k])
            /\ loc' = [loc EXCEPT ![t].todo = m.todo \ {k},
                       ![t].conflict = @ \/ (m.gens[k] # 0 /\ GenAt(k) # m.gens[k])]
            /\ Goto(t, IF m.todo \ {k} = {} THEN "batch_rollback" ELSE "batch_unbind")
    BY <1>1 DEF BatchUnbind
  <2>2. PICK conflict \in BOOLEAN :
            conflict = (m.conflict \/ (m.gens[k] # 0 /\ GenAt(k) # m.gens[k]))
    OBVIOUS
  <2>3. loc' = [loc EXCEPT ![t].todo = m.todo \ {k}, ![t].conflict = conflict]
    BY <1>1, <2>1, <2>2, Zenon
  <2> QED
    BY <2>1, <2>3
<1>5. k \in Keys /\ m.gens \in [Keys -> Nat] /\ m.todo \subseteq DOMAIN m.batch
  BY <1>2, <1>3 DEF Locals, ThreadOK, LocalsOK, TodoPlaces, BatchedPlaces
<1>6. UNCHANGED <<registryVars, scenario, started, faults, accepted, amended>>
  BY DEF BatchUnbind
<1>7. BindingStep /\ (m.gens[k] # 0 => GenAt(k)' # m.gens[k])
  <2>1. CASE m.gens[k] = 0
    BY <1>4, <2>1 DEF BindingStep
  <2>2. CASE m.gens[k] # 0
    <3>1. PICK gen \in Nat \ {0} : gen = m.gens[k]
      BY <1>5, <2>2
    <3>2. RemoveIfGeneration(k, gen)
      BY <1>4, <2>2, <3>1
    <3> QED
      BY <1>5, <3>1, <3>2, RemoveIs
  <2> QED
    BY <2>1, <2>2
<1>8. PICK l : l = [m EXCEPT !.todo = m.todo \ {k}, !.conflict = conflict]
  OBVIOUS
<1>9. /\ l \in Locals /\ l.key = m.key /\ l.batch = m.batch /\ l.base = m.base
      /\ l.prev = m.prev /\ l.snap = m.snap /\ l.gens = m.gens /\ l.inv = m.inv
      /\ l.todo = m.todo \ {k}
  BY <1>3, <1>8 DEF Locals
<1>10. PICK p \in {"batch_rollback", "batch_unbind"} :
           Goto(t, p) /\ (p = "batch_rollback" => l.todo = {})
  BY <1>4, <1>9
<1>11. MovesTo(t, p, l)
  <2>1. loc \in [Threads -> Locals]
    BY DEF LifecycleInv
  <2>2. loc' = [loc EXCEPT ![t] = l]
    BY <1>1, <1>4, <1>8, <2>1
  <2> QED
    BY <1>10, <2>2 DEF MovesTo, Goto
<1>12. ThreadOK(q, m)'
  BY <1>3, <1>6, <1>7, PassiveThread DEF LifecycleInv, RegistryStep, Grows
<1>13. ThreadOK(p, l)'
  BY <1>2, <1>5, <1>7, <1>9, <1>10, <1>12
       DEF ThreadOK, LocalsOK, ReadOK, CommittedOK, SnapOK, StoredOK, WithdrawnOK, AmendedOK,
           Places, OneToolPlaces, StagedPlaces, TodoPlaces, KeyPlaces, PublishedPlaces,
           BatchedPlaces, RestampPlaces, ReadPlaces, SnapPlaces, StoredPlaces, Outcomes
<1>14. accepted' \subseteq Keys \X Invokers \X Fps
  BY <1>6 DEF LifecycleInv, CountersOK
<1> QED
  BY <1>6, <1>7, <1>10, <1>11, <1>13, <1>14, BindIsGood

LEMMA BatchRollbackIsGood ==
    ASSUME LifecycleInv, NEW t \in Threads, BatchRollback(t)
    PROVE  GoodStep(t)
<1>1. PICK m : m = loc[t]
  OBVIOUS
<1>2. PICK q : q = "batch_rollback"
  OBVIOUS
<1>3. pc[t] = q /\ ThreadOK(q, m)
  BY <1>1, <1>2, ThreadIs DEF BatchRollback
<1>4. /\ m \in Locals /\ m.base \in Nat /\ version \in Nat /\ m.base <= version
      /\ m.batch \in Batches
      /\ \A k \in DOMAIN m.batch : history[m.base][k] = Absent
      /\ version = m.base + 1 => tools = Over(history[m.base], m.batch)
  BY <1>1, <1>2, <1>3, ThreadIs DEF ThreadOK, CommittedOK, BatchedPlaces
<1>5. PICK ks \in SUBSET Keys : DOMAIN m.batch = ks
  BY <1>4 DEF Batches
<1>6. ASSUME NEW p \in {"drift", "failed"}
      PROVE  ThreadOK(p, m)
  BY <1>2, <1>3
       DEF ThreadOK, LocalsOK, ReadOK, CommittedOK, SnapOK, StoredOK, WithdrawnOK, AmendedOK,
           Places, OneToolPlaces, StagedPlaces, TodoPlaces, KeyPlaces, PublishedPlaces,
           BatchedPlaces, RestampPlaces, ReadPlaces, SnapPlaces, StoredPlaces, Outcomes
<1>7. PICK r : r = "drift"
  OBVIOUS
<1>8. CASE Remember(t, r, m)
  <2>1. ThreadOK(r, m)
    BY <1>6, <1>7
  <2> QED
    BY <1>7, <1>8, <2>1, RememberIsGood
<1>9. PICK staged : staged = [k \in DOMAIN m.batch |-> FpOf[m.batch[k]]]
  OBVIOUS
<1>10. CASE /\ UnregisterManyIfVersion(staged, m.base + 1)
            /\ \E p \in {"drift", "failed"} : Goto(t, p)
            /\ UNCHANGED <<loc, bindingVars, scenario, started, faults, accepted, amended>>
  <2>1. PICK p \in {"drift", "failed"} : Goto(t, p)
    BY <1>10
  <2>2. PICK gone : gone = [k \in ks |-> Absent]
    OBVIOUS
  <2>3. gone \in [ks -> Contracts \cup {Absent}] /\ DOMAIN gone = ks
    BY <2>2
  <2>4. PICK new : new = Over(tools, gone)
    OBVIOUS
  <2>5. version = m.base + 1 /\ CommitChangedToolKeys(ks, new)
    BY <1>5, <1>9, <1>10, <2>2, <2>4 DEF UnregisterManyIfVersion
  <2>6. WriteOf(ks, new)
    BY <2>3, <2>4, <2>5, BatchWrite DEF LifecycleInv
  <2>7. RegistryStep /\ version' = version + 1 /\ tools' = new
    BY <2>6, WriteIs DEF LifecycleInv
  <2>8. new = history[m.base]
    <3>1. history[m.base] \in Catalogs
      BY <1>4 DEF LifecycleInv, RegistryTypeOK
    <3>2. \A k \in Keys : new[k] = history[m.base][k]
      BY <1>4, <1>5, <2>2, <2>4, <2>5 DEF Over
    <3>3. new = [k \in Keys |-> new[k]]
      BY <2>4 DEF Over
    <3> QED
      BY <3>1, <3>2, <3>3 DEF Catalogs
  <2>9. ThreadOK(p, m)'
    BY <1>6, <1>10, <2>7, PassiveThread DEF BindingStep, Grows, LifecycleInv
  <2>10. LostNothing(t) /\ RolledBackExactly(t)
    BY <1>1, <1>2, <1>3, <2>7, <2>8 DEF LostNothing, RolledBackExactly
  <2>11. amended' \subseteq Keys \X Fps \X Fps
    BY <1>10 DEF LifecycleInv, CountersOK
  <2> QED
    BY <1>1, <1>10, <2>1, <2>6, <2>9, <2>10, <2>11, WriteIsGood
<1> QED
  BY <1>1, <1>7, <1>8, <1>9, <1>10 DEF BatchRollback

LEMMA BatchIsGood ==
    ASSUME LifecycleInv, NEW t \in Threads, Batch(t)
    PROVE  GoodStep(t)
  BY BatchBeginIsGood, BatchEnsureEmptyIsGood, BatchPublishIsGood, BatchBindGetIsGood,
     BatchBindStoreIsGood, BatchVerifyIsGood, BatchReadFaultIsGood, BatchUnbindIsGood,
     BatchRollbackIsGood DEF Batch

-----------------------------------------------------------------------------
(* bind *)

LEMMA BindGetIsGood ==
    ASSUME LifecycleInv, NEW t \in Threads, BindGet(t)
    PROVE  GoodStep(t)
<1>1. PICK k \in scenario.keys :
          /\ tools[k] # Absent
          /\ Begin(t, "bind", "bind_store", [Blank EXCEPT !.key = k, !.batch = One(k, tools[k])])
  BY DEF BindGet
<1>2. k \in Keys /\ tools[k] \in Contracts
  BY <1>1, ScenarioIs, ThreadIs DEF LifecycleInv, Catalogs
<1>3. PICK b : b = One(k, tools[k]) /\ b \in Batches /\ DOMAIN b = {k}
  BY <1>2, OneIs
<1>4. PICK first : first = [Blank EXCEPT !.key = k, !.batch = b]
  OBVIOUS
<1>5. PICK l : l = [first EXCEPT !.inv = started + 1]
  OBVIOUS
<1>6. PICK p : p = "bind_store"
  OBVIOUS
<1>7. Begin(t, "bind", p, first)
  BY <1>1, <1>3, <1>4, <1>6
<1>8. version \in Nat
  BY ThreadIs
<1>9. ASSUME started + 1 \in Invokers
      PROVE  LocalsOK(p, l) /\ Fresh(l)
  <2>1. l \in Locals /\ l.base = 0 /\ l.key = k /\ l.batch = b /\ Fresh(l)
    BY <1>2, <1>3, <1>4, <1>5, <1>8, <1>9, BlankIs DEF Locals, Batches, Fresh
  <2> QED
    BY <1>2, <1>3, <1>6, <1>8, <2>1
       DEF LocalsOK, Places, OneToolPlaces, StagedPlaces, TodoPlaces, KeyPlaces, PublishedPlaces,
           BatchedPlaces, RestampPlaces
<1>10. p \in EntryPlaces \ {"purge"}
  BY <1>6 DEF EntryPlaces
<1> QED
  BY <1>5, <1>7, <1>9, <1>10, BeginIsGood

LEMMA BindStoreIsGood ==
    ASSUME LifecycleInv, NEW t \in Threads, BindStore(t)
    PROVE  GoodStep(t)
<1>1. PICK k : k = Key(t)
  OBVIOUS
<1>2. PICK m : m = loc[t]
  OBVIOUS
<1>3. PICK q : q = "bind_store"
  OBVIOUS
<1>4. PICK p : p = "ok"
  OBVIOUS
<1>5. ThreadOK(q, m)
  BY <1>2, <1>3, ThreadIs DEF BindStore
<1>6. /\ m \in Locals /\ k = m.key /\ k \in Keys /\ m.inv \in Invokers
      /\ DOMAIN m.batch = {k} /\ m.batch \in Batches
  BY <1>1, <1>2, <1>3, <1>5, ThreadIs DEF Key, ThreadOK, LocalsOK, OneToolPlaces, Locals
<1>7. m.batch[k] \in Contracts
  BY <1>6 DEF Batches
<1>8. PICK fp \in Fps : fp = FpOf[m.batch[k]]
  BY <1>7, RegistryAssumption
<1>9. fp = NewFp(t)
  BY <1>1, <1>2, <1>8 DEF NewFp, NewTool, Key
<1>10. /\ Store(k, m.inv, fp) /\ accepted' = accepted \cup {<<k, m.inv, fp>>}
       /\ UNCHANGED <<registryVars, loc, scenario, started, faults, amended>>
       /\ Goto(t, p)
  BY <1>1, <1>2, <1>4, <1>9 DEF BindStore
<1>11. /\ Validated(k, fp)' /\ Grows
       /\ accepted \subseteq accepted' /\ accepted' \subseteq Keys \X Invokers \X Fps
  BY <1>6, <1>10, AcceptIs
<1>12. BindingStep
  BY <1>6, <1>10, <1>11, StoreIs
<1>13. MovesTo(t, p, m)
  BY <1>2, <1>10 DEF MovesTo, Goto, LifecycleInv
<1>14. ThreadOK(q, m)'
  BY <1>5, <1>10, <1>11, <1>12, PassiveThread DEF LifecycleInv, RegistryStep
<1>15. ThreadOK(p, m)'
  BY <1>3, <1>4, <1>14
       DEF ThreadOK, LocalsOK, ReadOK, CommittedOK, SnapOK, StoredOK, WithdrawnOK, AmendedOK,
           Places, OneToolPlaces, StagedPlaces, TodoPlaces, KeyPlaces, PublishedPlaces,
           BatchedPlaces, RestampPlaces, ReadPlaces, SnapPlaces, StoredPlaces, Outcomes
<1> QED
  BY <1>4, <1>10, <1>11, <1>12, <1>13, <1>15, BindIsGood

-----------------------------------------------------------------------------
(* amend_capability *)

LEMMA AmendBeginIsGood ==
    ASSUME LifecycleInv, NEW t \in Threads, AmendBegin(t)
    PROVE  GoodStep(t)
<1>1. PICK k \in scenario.keys :
          Begin(t, "amend", "amend_get", [Blank EXCEPT !.key = k, !.base = version])
  BY DEF AmendBegin
<1>2. k \in Keys
  BY <1>1, ScenarioIs DEF LifecycleInv
<1>4. PICK first : first = [Blank EXCEPT !.key = k, !.base = version]
  OBVIOUS
<1>5. PICK l : l = [first EXCEPT !.inv = started + 1]
  OBVIOUS
<1>6. PICK p : p = "amend_get"
  OBVIOUS
<1>7. Begin(t, "amend", p, first)
  BY <1>1, <1>4, <1>6
<1>8. version \in Nat
  BY ThreadIs
<1>9. ASSUME started + 1 \in Invokers
      PROVE  LocalsOK(p, l) /\ Fresh(l)
  <2>1. l \in Locals /\ l.base = version /\ l.key = k /\ Fresh(l)
    BY <1>2, <1>4, <1>5, <1>8, <1>9, BlankIs DEF Locals, Batches, Fresh
  <2> QED
    BY <1>2, <1>6, <1>8, <2>1
       DEF LocalsOK, Places, OneToolPlaces, StagedPlaces, TodoPlaces, KeyPlaces, PublishedPlaces,
           BatchedPlaces, RestampPlaces
<1>10. p \in EntryPlaces \ {"purge"}
  BY <1>6 DEF EntryPlaces
<1> QED
  BY <1>5, <1>7, <1>9, <1>10, BeginIsGood

LEMMA AmendGetIsGood ==
    ASSUME LifecycleInv, NEW t \in Threads, AmendGet(t)
    PROVE  GoodStep(t)
<1>1. PICK k : k = Key(t)
  OBVIOUS
<1>2. PICK m : m = loc[t]
  OBVIOUS
<1>3. PICK q : q = "amend_get"
  OBVIOUS
<1>4. PICK p : p = "amend_bound"
  OBVIOUS
<1>5. PICK r : r = "refused"
  OBVIOUS
<1>6. ThreadOK(q, m)
  BY <1>2, <1>3, ThreadIs DEF AmendGet
<1>7. CASE Remember(t, r, m)
  <2>1. ThreadOK(r, m)
    BY <1>3, <1>5, <1>6
       DEF ThreadOK, LocalsOK, ReadOK, CommittedOK, SnapOK, StoredOK, WithdrawnOK, AmendedOK,
           Places, OneToolPlaces, StagedPlaces, TodoPlaces, KeyPlaces, PublishedPlaces,
           BatchedPlaces, RestampPlaces, ReadPlaces, SnapPlaces, StoredPlaces, Outcomes
  <2> QED
    BY <1>5, <1>7, <2>1, RememberIsGood
<1>8. CASE \E c \in scenario.contracts :
             Remember(t, p, [m EXCEPT !.prev = tools[k], !.batch = One(k, c)])
  <2>1. PICK c \in scenario.contracts :
             Remember(t, p, [m EXCEPT !.prev = tools[k], !.batch = One(k, c)])
    BY <1>8
  <2>2. /\ m \in Locals /\ k = m.key /\ k \in Keys /\ tools[k] \in Contracts \cup {Absent}
        /\ c \in Contracts
    BY <1>1, <1>2, ThreadIs, ScenarioIs DEF Key, Catalogs, LifecycleInv
  <2>3. PICK b : b = One(k, c) /\ b \in Batches /\ DOMAIN b = {k}
    BY <2>2, OneIs
  <2>4. PICK l : l = [m EXCEPT !.prev = tools[k], !.batch = b]
    OBVIOUS
  <2>5. /\ l \in Locals /\ l.key = k /\ l.batch = b /\ l.base = m.base
        /\ l.prev = tools[k] /\ l.snap = m.snap /\ l.gens = m.gens /\ l.todo = m.todo
    BY <2>2, <2>3, <2>4 DEF Locals, Batches
  <2>6. ThreadOK(p, l)
    BY <1>3, <1>4, <1>6, <2>2, <2>3, <2>5
       DEF ThreadOK, LocalsOK, ReadOK, CommittedOK, SnapOK, StoredOK, WithdrawnOK, AmendedOK,
           Places, OneToolPlaces, StagedPlaces, TodoPlaces, KeyPlaces, PublishedPlaces,
           BatchedPlaces, RestampPlaces, ReadPlaces, SnapPlaces, StoredPlaces, Outcomes
  <2> QED
    BY <1>4, <2>1, <2>3, <2>4, <2>6, RememberIsGood
<1> QED
  BY <1>1, <1>2, <1>4, <1>5, <1>7, <1>8 DEF AmendGet

LEMMA AmendBoundIsGood ==
    ASSUME LifecycleInv, NEW t \in Threads, AmendBound(t)
    PROVE  GoodStep(t)
<1>1. PICK m : m = loc[t]
  OBVIOUS
<1>2. PICK q : q = "amend_bound"
  OBVIOUS
<1>3. PICK p : p = "amend_cas"
  OBVIOUS
<1>4. ThreadOK(q, m) /\ m \in Locals
  BY <1>1, <1>2, ThreadIs DEF AmendBound
<1>5. PICK was \in BOOLEAN : was = (binding[Key(t)] # NoBinding)
  OBVIOUS
<1>6. PICK l : l = [m EXCEPT !.was = was]
  OBVIOUS
<1>7. Remember(t, p, l)
  BY <1>1, <1>3, <1>5, <1>6 DEF AmendBound
<1>8. /\ l \in Locals /\ l.key = m.key /\ l.batch = m.batch /\ l.base = m.base
      /\ l.prev = m.prev /\ l.snap = m.snap /\ l.gens = m.gens /\ l.inv = m.inv
      /\ l.todo = m.todo
  BY <1>4, <1>6 DEF Locals
<1>9. ThreadOK(p, l)
  BY <1>2, <1>3, <1>4, <1>8
       DEF ThreadOK, LocalsOK, ReadOK, CommittedOK, SnapOK, StoredOK, WithdrawnOK, AmendedOK,
           Places, OneToolPlaces, StagedPlaces, TodoPlaces, KeyPlaces, PublishedPlaces,
           BatchedPlaces, RestampPlaces, ReadPlaces, SnapPlaces, StoredPlaces, Outcomes
<1> QED
  BY <1>3, <1>7, <1>9, RememberIsGood

LEMMA AmendCasIsGood ==
    ASSUME LifecycleInv, NEW t \in Threads, AmendCas(t)
    PROVE  GoodStep(t)
<1>1. PICK k : k = Key(t)
  OBVIOUS
<1>2. PICK m : m = loc[t]
  OBVIOUS
<1>3. PICK q : q = "amend_cas"
  OBVIOUS
<1>4. PICK p : p = "restamp_snap"
  OBVIOUS
<1>5. PICK r : r = "refused"
  OBVIOUS
<1>6. pc[t] = q /\ ThreadOK(q, m)
  BY <1>2, <1>3, ThreadIs DEF AmendCas
<1>7. /\ m \in Locals /\ k = m.key /\ k \in Keys /\ m.base \in Nat /\ version \in Nat
      /\ m.batch \in Batches /\ DOMAIN m.batch = {k}
      /\ tools \in Catalogs /\ RegistryTypeOK
  BY <1>1, <1>2, <1>3, <1>6, ThreadIs
     DEF Key, ThreadOK, LocalsOK, OneToolPlaces, LifecycleInv, Locals
<1>8. m.batch[k] \in Contracts
  BY <1>7 DEF Batches
<1>9. CASE Remember(t, r, m)
  <2>1. ThreadOK(r, m)
    BY <1>3, <1>5, <1>6
       DEF ThreadOK, LocalsOK, ReadOK, CommittedOK, SnapOK, StoredOK, WithdrawnOK, AmendedOK,
           Places, OneToolPlaces, StagedPlaces, TodoPlaces, KeyPlaces, PublishedPlaces,
           BatchedPlaces, RestampPlaces, ReadPlaces, SnapPlaces, StoredPlaces, Outcomes
  <2> QED
    BY <1>5, <1>9, <2>1, RememberIsGood
<1>10. CASE /\ ReplaceIfFingerprint(k, m.batch[k], FpOf[m.prev], m.base)
            /\ amended' = amended \cup {<<k, FpOf[m.prev], FpOf[m.batch[k]]>>}
            /\ Goto(t, p)
            /\ UNCHANGED <<loc, bindingVars, scenario, started, faults, accepted>>
  <2>1. PICK new : new = [tools EXCEPT ![k] = m.batch[k]]
    OBVIOUS
  <2>2. /\ version = m.base /\ tools[k] # Absent
        /\ CommitChangedToolKeys({k}, new)
    BY <1>10, <2>1 DEF ReplaceIfFingerprint, Holds
  <2>3. WriteOf({k}, new)
    BY <1>7, <1>8, <2>1, <2>2, OneKeyWrite
  <2>4. RegistryStep
    BY <1>7, <2>3, WriteIs
  <2>5. tools[k] = m.prev /\ m.prev \in Contracts
    BY <1>3, <1>6, <1>7, <2>2 DEF ThreadOK, ReadOK, ReadPlaces, Catalogs
  <2>6. FpOf[m.prev] \in Fps /\ FpOf[m.batch[k]] \in Fps
    BY <1>8, <2>5, RegistryAssumption
  <2>7. amended \subseteq amended' /\ amended' \subseteq Keys \X Fps \X Fps
    BY <1>7, <1>10, <2>6 DEF LifecycleInv, CountersOK
  <2>8. ThreadOK(q, m)'
    BY <1>6, <1>10, <2>4, <2>7, PassiveThread DEF BindingStep, Grows, LifecycleInv
  <2>9. AmendedOK(p, m)'
    BY <1>7, <1>10, <2>6 DEF AmendedOK
  <2>10. ThreadOK(p, m)'
    BY <1>3, <1>4, <1>7, <2>8, <2>9
       DEF ThreadOK, LocalsOK, ReadOK, CommittedOK, SnapOK, StoredOK, WithdrawnOK,
           Places, OneToolPlaces, StagedPlaces, TodoPlaces, KeyPlaces, PublishedPlaces,
           BatchedPlaces, RestampPlaces, ReadPlaces, SnapPlaces, StoredPlaces, Outcomes
  <2>11. LostNothing(t) /\ RolledBackExactly(t)
    BY <1>1, <1>2, <1>3, <1>6, <2>5 DEF LostNothing, RolledBackExactly
  <2> QED
    BY <1>2, <1>10, <2>3, <2>7, <2>10, <2>11, WriteIsGood
<1> QED
  BY <1>1, <1>2, <1>4, <1>5, <1>9, <1>10 DEF AmendCas, NewFp, NewTool, Key

LEMMA RestampSnapshotIsGood ==
    ASSUME LifecycleInv, NEW t \in Threads, RestampSnapshot(t)
    PROVE  GoodStep(t)
<1>1. PICK k : k = Key(t)
  OBVIOUS
<1>2. PICK m : m = loc[t]
  OBVIOUS
<1>3. PICK q : q = "restamp_snap"
  OBVIOUS
<1>4. PICK p : p = "restamp_get"
  OBVIOUS
<1>5. ThreadOK(q, m)
  BY <1>2, <1>3, ThreadIs DEF RestampSnapshot
<1>6. /\ m \in Locals /\ k = m.key /\ k \in Keys
      /\ binding[k] \in Bindings \cup {NoBinding}
      /\ Bound(k) => binding[k].gen \in 1 .. generation /\ Validated(k, binding[k].fp)
  BY <1>1, <1>2, ThreadIs DEF Key, LifecycleInv, BindingsOK
<1>7. CASE binding[k] = NoBinding
  <2>1. PICK r \in {"drift", "ok"} : Remember(t, r, m)
    BY <1>1, <1>2, <1>7 DEF RestampSnapshot, AmendEnd
  <2>2. ThreadOK(r, m)
    BY <1>3, <1>5, <2>1
       DEF ThreadOK, LocalsOK, ReadOK, CommittedOK, SnapOK, StoredOK, WithdrawnOK, AmendedOK,
           Places, OneToolPlaces, StagedPlaces, TodoPlaces, KeyPlaces, PublishedPlaces,
           BatchedPlaces, RestampPlaces, ReadPlaces, SnapPlaces, StoredPlaces, Outcomes
  <2> QED
    BY <2>1, <2>2, RememberIsGood
<1>8. CASE binding[k] # NoBinding
  <2>1. PICK l : l = [m EXCEPT !.snap = binding[k]]
    OBVIOUS
  <2>2. Remember(t, p, l)
    BY <1>1, <1>2, <1>4, <1>8, <2>1 DEF RestampSnapshot
  <2>3. /\ l \in Locals /\ l.key = k /\ l.batch = m.batch /\ l.base = m.base
        /\ l.prev = m.prev /\ l.snap = binding[k] /\ l.gens = m.gens /\ l.inv = m.inv
        /\ l.todo = m.todo
    BY <1>6, <2>1 DEF Locals
  <2>4. ThreadOK(p, l)
    BY <1>3, <1>4, <1>5, <1>6, <1>8, <2>3
       DEF ThreadOK, LocalsOK, ReadOK, CommittedOK, SnapOK, StoredOK, WithdrawnOK, AmendedOK, Bound,
           Places, OneToolPlaces, StagedPlaces, TodoPlaces, KeyPlaces, PublishedPlaces,
           BatchedPlaces, RestampPlaces, ReadPlaces, SnapPlaces, StoredPlaces, Outcomes
  <2> QED
    BY <1>4, <2>2, <2>4, RememberIsGood
<1> QED
  BY <1>7, <1>8

LEMMA RestampGetIsGood ==
    ASSUME LifecycleInv, NEW t \in Threads, RestampGet(t)
    PROVE  GoodStep(t)
<1>1. PICK m : m = loc[t]
  OBVIOUS
<1>2. PICK q : q = "restamp_get"
  OBVIOUS
<1>3. PICK p \in {"raised", "restamp_stamp", "drift", "ok"} : Remember(t, p, m)
  BY <1>1 DEF RestampGet, AmendEnd
<1>4. ThreadOK(q, m)
  BY <1>1, <1>2, ThreadIs DEF RestampGet
<1>5. ThreadOK(p, m)
  BY <1>2, <1>3, <1>4
     DEF ThreadOK, LocalsOK, ReadOK, CommittedOK, SnapOK, StoredOK, WithdrawnOK, AmendedOK,
         Places, OneToolPlaces, StagedPlaces, TodoPlaces, KeyPlaces, PublishedPlaces,
         BatchedPlaces, RestampPlaces, ReadPlaces, SnapPlaces, StoredPlaces, Outcomes
<1> QED
  BY <1>3, <1>5, RememberIsGood

LEMMA RestampStampIsGood ==
    ASSUME LifecycleInv, NEW t \in Threads, RestampStamp(t)
    PROVE  GoodStep(t)
<1>1. PICK k : k = Key(t)
  OBVIOUS
<1>2. PICK m : m = loc[t]
  OBVIOUS
<1>3. PICK q : q = "restamp_stamp"
  OBVIOUS
<1>4. PICK p : p = "restamp_check"
  OBVIOUS
<1>5. ThreadOK(q, m)
  BY <1>2, <1>3, ThreadIs DEF RestampStamp
<1>6. /\ m \in Locals /\ k = m.key /\ k \in Keys /\ DOMAIN m.batch = {k} /\ m.batch \in Batches
      /\ m.gens \in [Keys -> Nat] /\ m.snap \in Bindings
      /\ m.snap.gen \in 1 .. generation /\ (Bound(k) /\ binding[k].gen = m.snap.gen => binding[k] = m.snap)
  BY <1>1, <1>2, <1>3, <1>5, ThreadIs
     DEF Key, ThreadOK, LocalsOK, SnapOK, OneToolPlaces, RestampPlaces, Locals
<1>7. m.batch[k] \in Contracts
  BY <1>6 DEF Batches
<1>8. CASE GenAt(k) # m.snap.gen
  <2>1. PICK r \in {"drift", "ok"} : Remember(t, r, m)
    BY <1>1, <1>2, <1>8 DEF RestampStamp, AmendEnd
  <2>2. ThreadOK(r, m)
    BY <1>3, <1>5, <2>1
       DEF ThreadOK, LocalsOK, ReadOK, CommittedOK, SnapOK, StoredOK, WithdrawnOK, AmendedOK,
           Places, OneToolPlaces, StagedPlaces, TodoPlaces, KeyPlaces, PublishedPlaces,
           BatchedPlaces, RestampPlaces, ReadPlaces, SnapPlaces, StoredPlaces, Outcomes
  <2> QED
    BY <2>1, <2>2, RememberIsGood
<1>9. CASE GenAt(k) = m.snap.gen
  <2>1. binding[k] = m.snap /\ m.snap # NoBinding /\ m.snap.inv \in Invokers
    BY <1>6, <1>9, BindingIs DEF GenAt, Bound
  <2>2. PICK fp \in Fps : fp = FpOf[m.batch[k]]
    BY <1>7, RegistryAssumption
  <2>3. PICK inv \in Invokers : inv = m.snap.inv
    BY <2>1
  <2>4. fp = NewFp(t)
    BY <1>1, <1>2, <2>2 DEF NewFp, NewTool, Key
  <2>5. /\ Store(k, inv, fp)
        /\ UNCHANGED <<registryVars, scenario, started, faults, accepted, amended>>
        /\ Goto(t, p)
        /\ loc' = [loc EXCEPT ![t].gens[k] = generation + 1]
    BY <1>1, <1>2, <1>4, <1>9, <2>1, <2>3, <2>4 DEF RestampStamp, RestampTo
  <2>6. PICK from \in Fps : <<k, from, fp>> \in amended
    BY <1>3, <1>5, <1>6, <2>2 DEF ThreadOK, AmendedOK, RestampPlaces
  <2>7. Validated(k, fp)'
    BY <2>5, <2>6 DEF Validated
  <2>8. /\ BindingStep
        /\ generation \in Nat /\ generation' = generation + 1
        /\ binding'[k] # NoBinding /\ binding'[k].gen = generation + 1
        /\ binding'[k].inv = inv /\ binding'[k].fp = fp
    BY <1>6, <2>5, <2>7, StoreIs
  <2>9. PICK l : l = [m EXCEPT !.gens[k] = generation + 1]
    OBVIOUS
  <2>10. MovesTo(t, p, l)
    <3>1. loc \in [Threads -> Locals]
      BY DEF LifecycleInv
    <3>2. loc' = [loc EXCEPT ![t] = l]
      BY <1>2, <2>5, <2>9, <3>1
    <3> QED
      BY <2>5, <3>2 DEF MovesTo, Goto
  <2>11. ThreadOK(q, m)'
    BY <1>5, <2>5, <2>8, PassiveThread DEF LifecycleInv, RegistryStep, Grows
  <2>12. /\ l \in Locals /\ l.key = k /\ l.batch = m.batch /\ l.base = m.base /\ l.prev = m.prev
         /\ l.snap = m.snap /\ l.todo = m.todo /\ l.inv = m.inv
         /\ l.gens[k] = generation + 1 /\ \A j \in Keys \ {k} : l.gens[j] = m.gens[j]
    BY <1>6, <2>8, <2>9 DEF Locals
  <2>13. ThreadOK(p, l)'
    BY <1>3, <1>4, <1>6, <2>1, <2>2, <2>3, <2>8, <2>11, <2>12
       DEF ThreadOK, LocalsOK, ReadOK, CommittedOK, SnapOK, StoredOK, WithdrawnOK, AmendedOK, Bound,
           Places, OneToolPlaces, StagedPlaces, TodoPlaces, KeyPlaces, PublishedPlaces,
           BatchedPlaces, RestampPlaces, ReadPlaces, SnapPlaces, StoredPlaces, Outcomes
  <2>14. accepted' \subseteq Keys \X Invokers \X Fps
    BY <2>5 DEF LifecycleInv, CountersOK
  <2> QED
    BY <1>4, <2>5, <2>8, <2>10, <2>13, <2>14, BindIsGood
<1> QED
  BY <1>8, <1>9

LEMMA RestampCheckIsGood ==
    ASSUME LifecycleInv, NEW t \in Threads, RestampCheck(t)
    PROVE  GoodStep(t)
<1>1. PICK m : m = loc[t]
  OBVIOUS
<1>2. PICK q : q = "restamp_check"
  OBVIOUS
<1>3. PICK p \in {"raised", "ok", "restamp_restore"} : Remember(t, p, m)
  BY <1>1 DEF RestampCheck, AmendEnd
<1>4. ThreadOK(q, m)
  BY <1>1, <1>2, ThreadIs DEF RestampCheck
<1>5. ThreadOK(p, m)
  BY <1>2, <1>3, <1>4
     DEF ThreadOK, LocalsOK, ReadOK, CommittedOK, SnapOK, StoredOK, WithdrawnOK, AmendedOK,
         Places, OneToolPlaces, StagedPlaces, TodoPlaces, KeyPlaces, PublishedPlaces,
         BatchedPlaces, RestampPlaces, ReadPlaces, SnapPlaces, StoredPlaces, Outcomes
<1> QED
  BY <1>3, <1>5, RememberIsGood

LEMMA RestampRestoreIsGood ==
    ASSUME LifecycleInv, NEW t \in Threads, RestampRestore(t)
    PROVE  GoodStep(t)
<1>1. PICK k : k = Key(t)
  OBVIOUS
<1>2. PICK m : m = loc[t]
  OBVIOUS
<1>3. PICK q : q = "restamp_restore"
  OBVIOUS
<1>4. PICK p \in {"drift", "ok"} : Goto(t, p)
  BY DEF RestampRestore, AmendEnd
<1>5. ThreadOK(q, m)
  BY <1>2, <1>3, ThreadIs DEF RestampRestore
<1>6. /\ m \in Locals /\ k = m.key /\ k \in Keys /\ DOMAIN m.batch = {k}
      /\ m.gens \in [Keys -> Nat] /\ m.snap \in Bindings \cup {NoBinding}
  BY <1>1, <1>2, <1>3, <1>5, ThreadIs
     DEF Key, ThreadOK, LocalsOK, OneToolPlaces, RestampPlaces, Locals
<1>7. \A j \in Keys \ {k} : m.gens[j] = 0
  BY <1>5, <1>6 DEF ThreadOK, StoredOK
<1>8. UNCHANGED <<registryVars, loc, scenario, started, faults, accepted, amended>>
  BY DEF RestampRestore
<1>9. BindingStep /\ (m.gens[k] # 0 => GenAt(k)' # m.gens[k])
  <2>1. PICK gen \in Nat, snap \in Bindings \cup {NoBinding} :
            gen = m.gens[k] /\ snap = m.snap
    BY <1>6
  <2>2. RestoreIfGeneration(k, gen, snap)
    BY <1>1, <1>2, <2>1 DEF RestampRestore
  <2>3. gen <= generation /\ (snap # NoBinding => Validated(k, snap.fp))
    BY <1>5, <1>6, <2>1 DEF ThreadOK, StoredOK, SnapOK, LifecycleInv, BindingsOK
  <2>4. snap # NoBinding => Validated(k, snap.fp)'
    BY <1>8, <2>3 DEF Validated
  <2> QED
    BY <1>6, <2>1, <2>2, <2>3, <2>4, RestoreIs
<1>10. ThreadOK(q, m)'
  BY <1>5, <1>8, <1>9, PassiveThread DEF LifecycleInv, RegistryStep, Grows
<1>11. ThreadOK(p, m)'
  BY <1>3, <1>4, <1>7, <1>9, <1>10
       DEF ThreadOK, LocalsOK, ReadOK, CommittedOK, SnapOK, StoredOK, WithdrawnOK, AmendedOK,
           Places, OneToolPlaces, StagedPlaces, TodoPlaces, KeyPlaces, PublishedPlaces,
           BatchedPlaces, RestampPlaces, ReadPlaces, SnapPlaces, StoredPlaces, Outcomes
<1>12. MovesTo(t, p, m)
  BY <1>2, <1>4, <1>8 DEF Goto, MovesTo, LifecycleInv
<1>13. accepted' \subseteq Keys \X Invokers \X Fps
  BY <1>8 DEF LifecycleInv, CountersOK
<1> QED
  BY <1>4, <1>8, <1>9, <1>11, <1>12, <1>13, BindIsGood

LEMMA AmendIsGood ==
    ASSUME LifecycleInv, NEW t \in Threads, Amend(t)
    PROVE  GoodStep(t)
  BY AmendBeginIsGood, AmendGetIsGood, AmendBoundIsGood, AmendCasIsGood, RestampSnapshotIsGood,
     RestampGetIsGood, RestampStampIsGood, RestampCheckIsGood, RestampRestoreIsGood DEF Amend

-----------------------------------------------------------------------------
(* add_tool(replace=True) and aremove_tool *)

LEMMA AddGetIsGood ==
    ASSUME LifecycleInv, NEW t \in Threads, AddGet(t)
    PROVE  GoodStep(t)
<1>1. PICK k \in scenario.keys, c \in scenario.contracts :
          Begin(t, "add", "add_write",
                [Blank EXCEPT !.key = k, !.batch = One(k, c), !.prev = tools[k]])
  BY DEF AddGet
<1>2. k \in Keys /\ c \in Contracts /\ tools[k] \in Contracts \cup {Absent}
  BY <1>1, ScenarioIs, ThreadIs DEF LifecycleInv, Catalogs
<1>3. PICK b : b = One(k, c) /\ b \in Batches /\ DOMAIN b = {k}
  BY <1>2, OneIs
<1>4. PICK first : first = [Blank EXCEPT !.key = k, !.batch = b, !.prev = tools[k]]
  OBVIOUS
<1>5. PICK l : l = [first EXCEPT !.inv = started + 1]
  OBVIOUS
<1>6. PICK p : p = "add_write"
  OBVIOUS
<1>7. Begin(t, "add", p, first)
  BY <1>1, <1>3, <1>4, <1>6
<1>8. version \in Nat
  BY ThreadIs
<1>9. ASSUME started + 1 \in Invokers
      PROVE  LocalsOK(p, l) /\ Fresh(l)
  <2>1. l \in Locals /\ l.base = 0 /\ l.key = k /\ l.batch = b /\ Fresh(l)
    BY <1>2, <1>3, <1>4, <1>5, <1>8, <1>9, BlankIs DEF Locals, Batches, Fresh
  <2> QED
    BY <1>2, <1>3, <1>6, <1>8, <2>1
       DEF LocalsOK, Places, OneToolPlaces, StagedPlaces, TodoPlaces, KeyPlaces, PublishedPlaces,
           BatchedPlaces, RestampPlaces
<1>10. p \in EntryPlaces \ {"purge"}
  BY <1>6 DEF EntryPlaces
<1> QED
  BY <1>5, <1>7, <1>9, <1>10, BeginIsGood

LEMMA AddWriteIsGood ==
    ASSUME LifecycleInv, NEW t \in Threads, AddWrite(t)
    PROVE  GoodStep(t)
<1>1. PICK k : k = Key(t)
  OBVIOUS
<1>2. PICK m : m = loc[t]
  OBVIOUS
<1>3. PICK q : q = "add_write"
  OBVIOUS
<1>4. PICK r : r = "refused"
  OBVIOUS
<1>5. pc[t] = q /\ ThreadOK(q, m)
  BY <1>2, <1>3, ThreadIs DEF AddWrite
<1>6. /\ m \in Locals /\ k = m.key /\ k \in Keys /\ DOMAIN m.batch = {k} /\ m.batch \in Batches
      /\ RegistryTypeOK
  BY <1>1, <1>2, <1>3, <1>5, ThreadIs DEF Key, ThreadOK, LocalsOK, OneToolPlaces, LifecycleInv
<1>7. m.batch[k] \in Contracts
  BY <1>6 DEF Batches
<1>8. ASSUME NEW p \in {"purge", "ok", "refused"}
      PROVE  ThreadOK(p, m)
  BY <1>3, <1>5
       DEF ThreadOK, LocalsOK, ReadOK, CommittedOK, SnapOK, StoredOK, WithdrawnOK, AmendedOK,
           Places, OneToolPlaces, StagedPlaces, TodoPlaces, KeyPlaces, PublishedPlaces,
           BatchedPlaces, RestampPlaces, ReadPlaces, SnapPlaces, StoredPlaces, Outcomes
<1>9. CASE Remember(t, r, m)
  BY <1>4, <1>8, <1>9, RememberIsGood
<1>10. CASE /\ CommitChangedToolKeys({k}, [tools EXCEPT ![k] = m.batch[k]])
            /\ \E p \in {"purge", "ok"} : Goto(t, p)
            /\ UNCHANGED <<loc, bindingVars, scenario, started, faults, accepted, amended>>
  <2>1. PICK p \in {"purge", "ok"} : Goto(t, p)
    BY <1>10
  <2>2. PICK new : new = [tools EXCEPT ![k] = m.batch[k]]
    OBVIOUS
  <2>3. WriteOf({k}, new)
    BY <1>6, <1>7, <1>10, <2>2, OneKeyWrite
  <2>4. RegistryStep
    BY <1>6, <2>3, WriteIs
  <2>5. ThreadOK(p, m)'
    BY <1>8, <1>10, <2>4, PassiveThread DEF BindingStep, Grows, LifecycleInv
  <2>6. LostNothing(t) /\ RolledBackExactly(t)
    BY <1>3, <1>5 DEF LostNothing, RolledBackExactly
  <2>7. amended' \subseteq Keys \X Fps \X Fps
    BY <1>10 DEF LifecycleInv, CountersOK
  <2> QED
    BY <1>2, <1>10, <2>1, <2>3, <2>5, <2>6, <2>7, WriteIsGood
<1> QED
  BY <1>1, <1>2, <1>4, <1>9, <1>10 DEF AddWrite, Register, NewTool, Key

LEMMA RemoveBeginIsGood ==
    ASSUME LifecycleInv, NEW t \in Threads, RemoveBegin(t)
    PROVE  GoodStep(t)
<1>1. PICK k \in scenario.keys :
          Begin(t, "remove", "remove_get", [Blank EXCEPT !.key = k, !.base = version])
  BY DEF RemoveBegin
<1>2. k \in Keys
  BY <1>1, ScenarioIs DEF LifecycleInv
<1>4. PICK first : first = [Blank EXCEPT !.key = k, !.base = version]
  OBVIOUS
<1>5. PICK l : l = [first EXCEPT !.inv = started + 1]
  OBVIOUS
<1>6. PICK p : p = "remove_get"
  OBVIOUS
<1>7. Begin(t, "remove", p, first)
  BY <1>1, <1>4, <1>6
<1>8. version \in Nat
  BY ThreadIs
<1>9. ASSUME started + 1 \in Invokers
      PROVE  LocalsOK(p, l) /\ Fresh(l)
  <2>1. l \in Locals /\ l.base = version /\ l.key = k /\ Fresh(l)
    BY <1>2, <1>4, <1>5, <1>8, <1>9, BlankIs DEF Locals, Batches, Fresh
  <2> QED
    BY <1>2, <1>6, <1>8, <2>1
       DEF LocalsOK, Places, OneToolPlaces, StagedPlaces, TodoPlaces, KeyPlaces, PublishedPlaces,
           BatchedPlaces, RestampPlaces
<1>10. p \in EntryPlaces \ {"purge"}
  BY <1>6 DEF EntryPlaces
<1> QED
  BY <1>5, <1>7, <1>9, <1>10, BeginIsGood

LEMMA RemoveGetIsGood ==
    ASSUME LifecycleInv, NEW t \in Threads, RemoveGet(t)
    PROVE  GoodStep(t)
<1>1. PICK k : k = Key(t)
  OBVIOUS
<1>2. PICK m : m = loc[t]
  OBVIOUS
<1>3. PICK q : q = "remove_get"
  OBVIOUS
<1>4. PICK p, l : p \in {"refused", "remove_cas"} /\ l = [m EXCEPT !.prev = tools[k]] /\ Remember(t, p, l)
  BY <1>1, <1>2 DEF RemoveGet
<1>5. ThreadOK(q, m)
  BY <1>2, <1>3, ThreadIs DEF RemoveGet
<1>6. /\ m \in Locals /\ k = m.key /\ k \in Keys /\ m.base \in Nat /\ version \in Nat
      /\ tools[k] \in Contracts \cup {Absent}
  BY <1>1, <1>2, ThreadIs DEF Key, Catalogs, LifecycleInv, BindingsOK
<1>7. /\ l \in Locals /\ l.key = k /\ l.batch = m.batch /\ l.base = m.base
      /\ l.prev = tools[k] /\ l.snap = m.snap /\ l.gens = m.gens /\ l.todo = m.todo
  BY <1>4, <1>6 DEF Locals
<1>8. ThreadOK(p, l)
  BY <1>3, <1>4, <1>5, <1>6, <1>7
     DEF ThreadOK, LocalsOK, ReadOK, CommittedOK, SnapOK, StoredOK, WithdrawnOK, AmendedOK,
         Places, OneToolPlaces, StagedPlaces, TodoPlaces, KeyPlaces, PublishedPlaces,
         BatchedPlaces, RestampPlaces, ReadPlaces, SnapPlaces, StoredPlaces, Outcomes
<1> QED
  BY <1>4, <1>8, RememberIsGood

LEMMA RemoveCasIsGood ==
    ASSUME LifecycleInv, NEW t \in Threads, RemoveCas(t)
    PROVE  GoodStep(t)
<1>1. PICK k : k = Key(t)
  OBVIOUS
<1>2. PICK m : m = loc[t]
  OBVIOUS
<1>3. PICK q : q = "remove_cas"
  OBVIOUS
<1>4. PICK p : p = "purge"
  OBVIOUS
<1>5. PICK r : r = "refused"
  OBVIOUS
<1>6. pc[t] = q /\ ThreadOK(q, m)
  BY <1>2, <1>3, ThreadIs DEF RemoveCas
<1>7. m \in Locals /\ k = m.key /\ k \in Keys /\ RegistryTypeOK
  BY <1>1, <1>2, ThreadIs DEF Key, LifecycleInv
<1>8. ThreadOK(p, m) /\ ThreadOK(r, m)
  BY <1>3, <1>4, <1>5, <1>6
       DEF ThreadOK, LocalsOK, ReadOK, CommittedOK, SnapOK, StoredOK, WithdrawnOK, AmendedOK,
           Places, OneToolPlaces, StagedPlaces, TodoPlaces, KeyPlaces, PublishedPlaces,
           BatchedPlaces, RestampPlaces, ReadPlaces, SnapPlaces, StoredPlaces, Outcomes
<1>9. CASE Remember(t, r, m)
  BY <1>5, <1>8, <1>9, RememberIsGood
<1>10. CASE /\ version = m.base
            /\ CommitChangedToolKeys({k}, [tools EXCEPT ![k] = Absent])
            /\ Goto(t, p)
            /\ UNCHANGED <<loc, bindingVars, scenario, started, faults, accepted, amended>>
  <2>1. PICK new : new = [tools EXCEPT ![k] = Absent]
    OBVIOUS
  <2>2. WriteOf({k}, new)
    BY <1>7, <1>10, <2>1, OneKeyWrite
  <2>3. RegistryStep
    BY <1>7, <2>2, WriteIs
  <2>4. ThreadOK(p, m)'
    BY <1>8, <1>10, <2>3, PassiveThread DEF BindingStep, Grows, LifecycleInv
  <2>5. tools[k] = m.prev
    BY <1>3, <1>6, <1>7, <1>10 DEF ThreadOK, ReadOK, ReadPlaces
  <2>6. LostNothing(t) /\ RolledBackExactly(t)
    BY <1>1, <1>2, <1>3, <1>6, <2>5 DEF LostNothing, RolledBackExactly
  <2>7. amended' \subseteq Keys \X Fps \X Fps
    BY <1>10 DEF LifecycleInv, CountersOK
  <2> QED
    BY <1>2, <1>10, <2>2, <2>4, <2>6, <2>7, WriteIsGood
<1> QED
  BY <1>1, <1>2, <1>4, <1>5, <1>9, <1>10 DEF RemoveCas, UnregisterIfFingerprint, Key

LEMMA PurgeRuntimeStateIsGood ==
    ASSUME LifecycleInv, NEW t \in Threads, PurgeRuntimeState(t)
    PROVE  GoodStep(t)
<1>1. PICK m : m = loc[t]
  OBVIOUS
<1>2. PICK q : q = "purge"
  OBVIOUS
<1>3. PICK p : p = "ok"
  OBVIOUS
<1>4. ThreadOK(q, m) /\ Key(t) \in Keys
  BY <1>1, <1>2, ThreadIs DEF PurgeRuntimeState, Key
<1>5. UNCHANGED <<registryVars, loc, scenario, started, faults, accepted, amended>>
  BY DEF PurgeRuntimeState
<1>6. BindingStep
  BY <1>4 DEF PurgeRuntimeState, BindingStep
<1>7. ThreadOK(q, m)'
  BY <1>4, <1>5, <1>6, PassiveThread DEF LifecycleInv, RegistryStep, Grows
<1>8. ThreadOK(p, m)'
  BY <1>2, <1>3, <1>7
       DEF ThreadOK, LocalsOK, ReadOK, CommittedOK, SnapOK, StoredOK, WithdrawnOK, AmendedOK,
           Places, OneToolPlaces, StagedPlaces, TodoPlaces, KeyPlaces, PublishedPlaces,
           BatchedPlaces, RestampPlaces, ReadPlaces, SnapPlaces, StoredPlaces, Outcomes
<1>9. MovesTo(t, p, m)
  BY <1>1, <1>3, <1>5 DEF PurgeRuntimeState, Goto, MovesTo, LifecycleInv
<1>10. accepted' \subseteq Keys \X Invokers \X Fps
  BY <1>5 DEF LifecycleInv, CountersOK
<1> QED
  BY <1>3, <1>5, <1>6, <1>8, <1>9, <1>10, BindIsGood

LEMMA ReplaceIsGood ==
    ASSUME LifecycleInv, NEW t \in Threads, Replace(t)
    PROVE  GoodStep(t)
  BY AddGetIsGood, AddWriteIsGood, RemoveBeginIsGood, RemoveGetIsGood, RemoveCasIsGood,
     PurgeRuntimeStateIsGood DEF Replace

-----------------------------------------------------------------------------
(* rehydrate_bindings and bind_existing *)

LEMMA RehydrateBeginIsGood ==
    ASSUME LifecycleInv, NEW t \in Threads, RehydrateBegin(t)
    PROVE  GoodStep(t)
<1>1. PICK b : b = [k \in Present(tools) |-> tools[k]]
  OBVIOUS
<1>2. PICK ks \in SUBSET Keys : ks = Present(tools)
  BY DEF Present
<1>3. b \in [ks -> Contracts] /\ DOMAIN b = ks
  BY <1>1, <1>2, ThreadIs DEF Present, Catalogs
<1>4. b \in Batches
  BY <1>3 DEF Batches
<1>5. PICK first : first = [Blank EXCEPT !.batch = b, !.todo = ks]
  OBVIOUS
<1>6. PICK l : l = [first EXCEPT !.inv = started + 1]
  OBVIOUS
<1>7. PICK p : p = "existing_next"
  OBVIOUS
<1>8. Begin(t, "rehydrate", p, first)
  BY <1>1, <1>3, <1>5, <1>7 DEF RehydrateBegin
<1>9. version \in Nat
  BY ThreadIs
<1>10. ASSUME started + 1 \in Invokers
       PROVE  LocalsOK(p, l) /\ Fresh(l)
  <2>1. l \in Locals /\ l.base = 0 /\ l.batch = b /\ l.todo = ks /\ Fresh(l)
    BY <1>4, <1>5, <1>6, <1>9, <1>10, BlankIs DEF Locals, Batches, Fresh
  <2> QED
    BY <1>3, <1>7, <1>9, <2>1
       DEF LocalsOK, Places, OneToolPlaces, StagedPlaces, TodoPlaces, KeyPlaces, PublishedPlaces,
           BatchedPlaces, RestampPlaces
<1>11. p \in EntryPlaces \ {"purge"}
  BY <1>7 DEF EntryPlaces
<1> QED
  BY <1>6, <1>8, <1>10, <1>11, BeginIsGood

LEMMA ExistingBeginIsGood ==
    ASSUME LifecycleInv, NEW t \in Threads, ExistingBegin(t)
    PROVE  GoodStep(t)
<1>1. PICK k \in scenario.keys, unbound \in BOOLEAN :
          /\ tools[k] # Absent
          /\ Begin(t, "existing", IF unbound THEN "existing_recheck" ELSE "existing_bind",
                   [Blank EXCEPT !.key = k, !.batch = One(k, tools[k]), !.conflict = unbound])
  BY DEF ExistingBegin
<1>2. k \in Keys /\ tools[k] \in Contracts
  BY <1>1, ScenarioIs, ThreadIs DEF LifecycleInv, Catalogs
<1>3. PICK b : b = One(k, tools[k]) /\ b \in Batches /\ DOMAIN b = {k}
  BY <1>2, OneIs
<1>4. PICK first : first = [Blank EXCEPT !.key = k, !.batch = b, !.conflict = unbound]
  OBVIOUS
<1>5. PICK l : l = [first EXCEPT !.inv = started + 1]
  OBVIOUS
<1>6. PICK p \in {"existing_recheck", "existing_bind"} : Begin(t, "existing", p, first)
  BY <1>1, <1>3, <1>4
<1>7. version \in Nat
  BY ThreadIs
<1>8. ASSUME started + 1 \in Invokers
      PROVE  LocalsOK(p, l) /\ Fresh(l)
  <2>1. /\ l \in Locals /\ l.base = 0 /\ l.key = k /\ l.batch = b /\ l.todo = {} /\ Fresh(l)
    BY <1>2, <1>3, <1>4, <1>5, <1>7, <1>8, BlankIs DEF Locals, Batches, Fresh
  <2> QED
    BY <1>3, <1>6, <1>7, <2>1
       DEF LocalsOK, Places, OneToolPlaces, StagedPlaces, TodoPlaces, KeyPlaces, PublishedPlaces,
           BatchedPlaces, RestampPlaces
<1>9. p \in EntryPlaces \ {"purge"}
  BY <1>6 DEF EntryPlaces
<1> QED
  BY <1>5, <1>6, <1>8, <1>9, BeginIsGood

LEMMA ExistingNextIsGood ==
    ASSUME LifecycleInv, NEW t \in Threads, ExistingNext(t)
    PROVE  GoodStep(t)
<1>1. PICK m : m = loc[t]
  OBVIOUS
<1>2. PICK q : q = "existing_next"
  OBVIOUS
<1>3. ThreadOK(q, m) /\ m \in Locals
  BY <1>1, <1>2, ThreadIs DEF ExistingNext
<1>4. PICK r : r = "ok"
  OBVIOUS
<1>5. CASE Remember(t, r, m)
  <2>1. ThreadOK(r, m)
    BY <1>2, <1>3, <1>4
       DEF ThreadOK, LocalsOK, ReadOK, CommittedOK, SnapOK, StoredOK, WithdrawnOK, AmendedOK,
           Places, OneToolPlaces, StagedPlaces, TodoPlaces, KeyPlaces, PublishedPlaces,
           BatchedPlaces, RestampPlaces, ReadPlaces, SnapPlaces, StoredPlaces, Outcomes
  <2> QED
    BY <1>4, <1>5, <2>1, RememberIsGood
<1>6. CASE \E k \in m.todo, p \in {"existing_next", "existing_get"}, unbound \in BOOLEAN :
             Remember(t, p, [m EXCEPT !.key = k, !.todo = @ \ {k}, !.conflict = unbound])
  <2>1. PICK k \in m.todo, p \in {"existing_next", "existing_get"}, unbound \in BOOLEAN :
             Remember(t, p, [m EXCEPT !.key = k, !.todo = @ \ {k}, !.conflict = unbound])
    BY <1>6
  <2>2. PICK l : l = [m EXCEPT !.key = k, !.todo = @ \ {k}, !.conflict = unbound]
    OBVIOUS
  <2>3. k \in Keys
    BY <1>3 DEF Locals
  <2>4. /\ l \in Locals /\ l.key = k /\ l.batch = m.batch /\ l.base = m.base
        /\ l.prev = m.prev /\ l.snap = m.snap /\ l.gens = m.gens /\ l.inv = m.inv
        /\ l.todo = m.todo \ {k}
    BY <1>3, <2>2, <2>3 DEF Locals
  <2>5. ThreadOK(p, l)
    BY <1>2, <1>3, <2>1, <2>4
       DEF ThreadOK, LocalsOK, ReadOK, CommittedOK, SnapOK, StoredOK, WithdrawnOK, AmendedOK,
           Places, OneToolPlaces, StagedPlaces, TodoPlaces, KeyPlaces, PublishedPlaces,
           BatchedPlaces, RestampPlaces, ReadPlaces, SnapPlaces, StoredPlaces, Outcomes
  <2> QED
    BY <2>1, <2>2, <2>5, RememberIsGood
<1>8. ASSUME NEW k \in m.todo, NEW p,
             Remember(t, p, [m EXCEPT !.key = k, !.todo = @ \ {k}])
      PROVE  \E unbound \in BOOLEAN :
                Remember(t, p, [m EXCEPT !.key = k, !.todo = @ \ {k}, !.conflict = unbound])
  <2>1. PICK unbound \in BOOLEAN : unbound = m.conflict
    BY <1>3 DEF Locals
  <2>2. [m EXCEPT !.key = k, !.todo = @ \ {k}]
            = [m EXCEPT !.key = k, !.todo = @ \ {k}, !.conflict = unbound]
    BY <1>3, <2>1 DEF Locals
  <2> QED
    BY <1>8, <2>2
<1>9. ASSUME NEW k \in m.todo, NEW p, NEW unbound \in BOOLEAN,
             Remember(t, p, [[m EXCEPT !.key = k, !.todo = @ \ {k}] EXCEPT !.conflict = unbound])
      PROVE  Remember(t, p, [m EXCEPT !.key = k, !.todo = @ \ {k}, !.conflict = unbound])
  <2>1. [[m EXCEPT !.key = k, !.todo = @ \ {k}] EXCEPT !.conflict = unbound]
            = [m EXCEPT !.key = k, !.todo = @ \ {k}, !.conflict = unbound]
    BY <1>3 DEF Locals
  <2> QED
    BY <1>9, <2>1
<1>10. CASE m.todo = {}
  BY <1>1, <1>4, <1>5, <1>10 DEF ExistingNext
<1>11. CASE m.todo # {}
  <2>1. PICK k \in m.todo :
            \/ Remember(t, "existing_next", [m EXCEPT !.key = k, !.todo = @ \ {k}])
            \/ \E unbound \in BOOLEAN :
                  Remember(t, "existing_get",
                           [[m EXCEPT !.key = k, !.todo = @ \ {k}] EXCEPT !.conflict = unbound])
    BY <1>1, <1>11 DEF ExistingNext
  <2> QED
    BY <1>6, <1>8, <1>9, <2>1
<1> QED
  BY <1>10, <1>11

LEMMA ExistingGetIsGood ==
    ASSUME LifecycleInv, NEW t \in Threads, ExistingGet(t)
    PROVE  GoodStep(t)
<1>1. PICK m : m = loc[t]
  OBVIOUS
<1>2. PICK q : q = "existing_get"
  OBVIOUS
<1>3. PICK p \in {"raised", "existing_next", "existing_recheck", "existing_bind"} : Remember(t, p, m)
  BY <1>1 DEF ExistingGet
<1>4. ThreadOK(q, m)
  BY <1>1, <1>2, ThreadIs DEF ExistingGet
<1>5. ThreadOK(p, m)
  BY <1>2, <1>3, <1>4
     DEF ThreadOK, LocalsOK, ReadOK, CommittedOK, SnapOK, StoredOK, WithdrawnOK, AmendedOK,
         Places, OneToolPlaces, StagedPlaces, TodoPlaces, KeyPlaces, PublishedPlaces,
         BatchedPlaces, RestampPlaces, ReadPlaces, SnapPlaces, StoredPlaces, Outcomes
<1> QED
  BY <1>3, <1>5, RememberIsGood

LEMMA ExistingRecheckIsGood ==
    ASSUME LifecycleInv, NEW t \in Threads, ExistingRecheck(t)
    PROVE  GoodStep(t)
<1>1. PICK m : m = loc[t]
  OBVIOUS
<1>2. PICK q : q = "existing_recheck"
  OBVIOUS
<1>3. PICK p \in {"raised", "existing_next", "existing_status"} : Remember(t, p, m)
  BY <1>1 DEF ExistingRecheck
<1>4. ThreadOK(q, m)
  BY <1>1, <1>2, ThreadIs DEF ExistingRecheck
<1>5. ThreadOK(p, m)
  BY <1>2, <1>3, <1>4
     DEF ThreadOK, LocalsOK, ReadOK, CommittedOK, SnapOK, StoredOK, WithdrawnOK, AmendedOK,
         Places, OneToolPlaces, StagedPlaces, TodoPlaces, KeyPlaces, PublishedPlaces,
         BatchedPlaces, RestampPlaces, ReadPlaces, SnapPlaces, StoredPlaces, Outcomes
<1> QED
  BY <1>3, <1>5, RememberIsGood

LEMMA ExistingStatusIsGood ==
    ASSUME LifecycleInv, NEW t \in Threads, ExistingStatus(t)
    PROVE  GoodStep(t)
<1>1. PICK m : m = loc[t]
  OBVIOUS
<1>2. PICK q : q = "existing_status"
  OBVIOUS
<1>3. PICK p \in {"existing_unbind", "existing_next"} : Remember(t, p, m)
  BY <1>1 DEF ExistingStatus
<1>4. ThreadOK(q, m)
  BY <1>1, <1>2, ThreadIs DEF ExistingStatus
<1>5. ThreadOK(p, m)
  BY <1>2, <1>3, <1>4
     DEF ThreadOK, LocalsOK, ReadOK, CommittedOK, SnapOK, StoredOK, WithdrawnOK, AmendedOK,
         Places, OneToolPlaces, StagedPlaces, TodoPlaces, KeyPlaces, PublishedPlaces,
         BatchedPlaces, RestampPlaces, ReadPlaces, SnapPlaces, StoredPlaces, Outcomes
<1> QED
  BY <1>3, <1>5, RememberIsGood

LEMMA ExistingUnbindIsGood ==
    ASSUME LifecycleInv, NEW t \in Threads, ExistingUnbind(t)
    PROVE  GoodStep(t)
<1>1. PICK m : m = loc[t]
  OBVIOUS
<1>2. PICK q : q = "existing_unbind"
  OBVIOUS
<1>3. PICK p : p = "existing_next"
  OBVIOUS
<1>4. ThreadOK(q, m) /\ Key(t) \in Keys
  BY <1>1, <1>2, ThreadIs DEF ExistingUnbind, Key
<1>5. UNCHANGED <<registryVars, loc, scenario, started, faults, accepted, amended>>
  BY DEF ExistingUnbind
<1>6. BindingStep
  BY <1>4 DEF ExistingUnbind, BindingStep
<1>7. ThreadOK(q, m)'
  BY <1>4, <1>5, <1>6, PassiveThread DEF LifecycleInv, RegistryStep, Grows
<1>8. ThreadOK(p, m)'
  BY <1>2, <1>3, <1>7
       DEF ThreadOK, LocalsOK, ReadOK, CommittedOK, SnapOK, StoredOK, WithdrawnOK, AmendedOK,
           Places, OneToolPlaces, StagedPlaces, TodoPlaces, KeyPlaces, PublishedPlaces,
           BatchedPlaces, RestampPlaces, ReadPlaces, SnapPlaces, StoredPlaces, Outcomes
<1>9. MovesTo(t, p, m)
  BY <1>1, <1>3, <1>5 DEF ExistingUnbind, Goto, MovesTo, LifecycleInv
<1>10. accepted' \subseteq Keys \X Invokers \X Fps
  BY <1>5 DEF LifecycleInv, CountersOK
<1> QED
  BY <1>3, <1>5, <1>6, <1>8, <1>9, <1>10, BindIsGood

LEMMA ExistingBindIsGood ==
    ASSUME LifecycleInv, NEW t \in Threads, ExistingBind(t)
    PROVE  GoodStep(t)
<1>1. PICK m : m = loc[t]
  OBVIOUS
<1>2. PICK q : q = "existing_bind"
  OBVIOUS
<1>3. PICK p \in {"existing_store", "existing_next"} : Remember(t, p, m)
  BY <1>1 DEF ExistingBind
<1>4. ThreadOK(q, m)
  BY <1>1, <1>2, ThreadIs DEF ExistingBind
<1>5. ThreadOK(p, m)
  BY <1>2, <1>3, <1>4
     DEF ThreadOK, LocalsOK, ReadOK, CommittedOK, SnapOK, StoredOK, WithdrawnOK, AmendedOK,
         Places, OneToolPlaces, StagedPlaces, TodoPlaces, KeyPlaces, PublishedPlaces,
         BatchedPlaces, RestampPlaces, ReadPlaces, SnapPlaces, StoredPlaces, Outcomes
<1> QED
  BY <1>3, <1>5, RememberIsGood

LEMMA ExistingStoreIsGood ==
    ASSUME LifecycleInv, NEW t \in Threads, ExistingStore(t)
    PROVE  GoodStep(t)
<1>1. PICK k : k = Key(t)
  OBVIOUS
<1>2. PICK m : m = loc[t]
  OBVIOUS
<1>3. PICK q : q = "existing_store"
  OBVIOUS
<1>4. PICK p : p = "existing_next"
  OBVIOUS
<1>5. ThreadOK(q, m)
  BY <1>2, <1>3, ThreadIs DEF ExistingStore
<1>6. /\ m \in Locals /\ k = m.key /\ k \in Keys /\ m.inv \in Invokers
      /\ k \in DOMAIN m.batch /\ m.batch \in Batches
  BY <1>1, <1>2, <1>3, <1>5, ThreadIs DEF Key, ThreadOK, LocalsOK, StagedPlaces, Locals
<1>7. m.batch[k] \in Contracts
  BY <1>6 DEF Batches
<1>8. PICK fp \in Fps : fp = FpOf[m.batch[k]]
  BY <1>7, RegistryAssumption
<1>9. fp = NewFp(t)
  BY <1>1, <1>2, <1>8 DEF NewFp, NewTool, Key
<1>10. /\ Store(k, m.inv, fp) /\ accepted' = accepted \cup {<<k, m.inv, fp>>}
       /\ UNCHANGED <<registryVars, loc, scenario, started, faults, amended>>
       /\ Goto(t, p)
  BY <1>1, <1>2, <1>4, <1>9 DEF ExistingStore
<1>11. /\ Validated(k, fp)' /\ Grows
       /\ accepted \subseteq accepted' /\ accepted' \subseteq Keys \X Invokers \X Fps
  BY <1>6, <1>10, AcceptIs
<1>12. BindingStep
  BY <1>6, <1>10, <1>11, StoreIs
<1>13. MovesTo(t, p, m)
  BY <1>2, <1>10 DEF MovesTo, Goto, LifecycleInv
<1>14. ThreadOK(q, m)'
  BY <1>5, <1>10, <1>11, <1>12, PassiveThread DEF LifecycleInv, RegistryStep
<1>15. ThreadOK(p, m)'
  BY <1>3, <1>4, <1>14
       DEF ThreadOK, LocalsOK, ReadOK, CommittedOK, SnapOK, StoredOK, WithdrawnOK, AmendedOK,
           Places, OneToolPlaces, StagedPlaces, TodoPlaces, KeyPlaces, PublishedPlaces,
           BatchedPlaces, RestampPlaces, ReadPlaces, SnapPlaces, StoredPlaces, Outcomes
<1> QED
  BY <1>4, <1>10, <1>11, <1>12, <1>13, <1>15, BindIsGood

LEMMA ExistingIsGood ==
    ASSUME LifecycleInv, NEW t \in Threads, Existing(t)
    PROVE  GoodStep(t)
  BY RehydrateBeginIsGood, ExistingBeginIsGood, ExistingNextIsGood, ExistingGetIsGood,
     ExistingRecheckIsGood, ExistingStatusIsGood, ExistingUnbindIsGood, ExistingBindIsGood,
     ExistingStoreIsGood DEF Existing

LEMMA ReturnIsGood ==
    ASSUME LifecycleInv, NEW t \in Threads, Return(t)
    PROVE  GoodStep(t)
<1>1. PICK p : p = "idle"
  OBVIOUS
<1>2. PICK l : l = Blank
  OBVIOUS
<1>3. Remember(t, p, l)
  BY <1>1, <1>2 DEF Return
<1>4. ThreadOK(p, l)
  BY <1>1, <1>2, ThreadIs, IdleIsOK
<1> QED
  BY <1>1, <1>3, <1>4, RememberIsGood

-----------------------------------------------------------------------------
(* Steps that are no thread's own *)

\* An unbind, or a write by somebody who holds the registry.
LEMMA SystemStepOK ==
    ASSUME LifecycleInv, RegistryStep, BindingStep,
           UNCHANGED <<pc, loc, scenario, started, faults, accepted, amended>>
    PROVE  LifecycleInv' /\ \A t \in Threads : LostNothing(t) /\ RolledBackExactly(t)
<1>1. Grows
  BY DEF Grows
<1>2. RegistryTypeOK'
  BY RegistryStepOK DEF LifecycleInv
<1>3. BindingsOK'
  BY <1>1, BindingStepOK DEF LifecycleInv
<1>4. CountersOK'
  BY DEF LifecycleInv, CountersOK
<1>5. ASSUME NEW t \in Threads
      PROVE  ThreadOK(pc[t], loc[t])'
  <2>1. PICK p : p = pc[t]
    OBVIOUS
  <2>2. PICK l : l = loc[t]
    OBVIOUS
  <2>3. ThreadOK(p, l)
    BY <2>1, <2>2 DEF LifecycleInv
  <2>4. ThreadOK(p, l)'
    BY <1>1, <2>3, PassiveThread DEF LifecycleInv
  <2> QED
    BY <2>1, <2>2, <2>4
<1>6. \A t \in Threads : LostNothing(t) /\ RolledBackExactly(t)
  BY DEF LostNothing, RolledBackExactly
<1> QED
  BY <1>2, <1>3, <1>4, <1>5, <1>6 DEF LifecycleInv

LEMMA UnbindIsOK ==
    ASSUME LifecycleInv, NEW k \in Keys, Unbind(k)
    PROVE  LifecycleInv' /\ \A t \in Threads : LostNothing(t) /\ RolledBackExactly(t)
<1>1. Purge(k)
  BY DEF Unbind, Purge
<1>2. RegistryStep /\ BindingStep
  BY <1>1 DEF Unbind, RegistryStep, BindingStep
<1> QED
  BY <1>2, SystemStepOK DEF Unbind

LEMMA ForeignWriteIsOK ==
    ASSUME LifecycleInv, ForeignWrite
    PROVE  LifecycleInv' /\ \A t \in Threads : LostNothing(t) /\ RolledBackExactly(t)
<1>1. PICK k \in scenario.keys :
          Unregister(k) \/ \E c \in scenario.contracts : Register(k, c, TRUE)
  BY DEF ForeignWrite
<1>2. k \in Keys /\ scenario.contracts \subseteq Contracts
  BY ScenarioIs DEF LifecycleInv
<1>3. PICK c \in Contracts \cup {Absent} :
          CommitChangedToolKeys({k}, [tools EXCEPT ![k] = c])
  BY <1>1, <1>2 DEF Unregister, Register
<1>4. WriteOf({k}, [tools EXCEPT ![k] = c])
  BY <1>2, <1>3, OneKeyWrite DEF LifecycleInv
<1>5. RegistryStep /\ BindingStep
  BY <1>4 DEF ForeignWrite, RegistryStep, BindingStep
<1> QED
  BY <1>5, SystemStepOK DEF ForeignWrite

LEMMA RestartIsOK ==
    ASSUME LifecycleInv, Restart
    PROVE  LifecycleInv' /\ \A t \in Threads : LostNothing(t) /\ RolledBackExactly(t)
<1>1. RegistryTypeOK' /\ version' \in Nat /\ version' = version
  BY RegistryStepOK DEF Restart, RegistryStep, LifecycleInv, registryVars
<1>2. BindingsOK'
  BY DEF Restart, BindingsOK, Bound
<1>3. CountersOK'
  BY ScenarioIs DEF Restart, LifecycleInv, CountersOK
<1>4. ThreadOK("idle", Blank)'
  <2>1. (version \in Nat => ThreadOK("idle", Blank))'
    BY IdleIsOK, PTL
  <2> QED
    BY <1>1, <2>1
<1>5. "idle" \in Places /\ Blank \in Locals
  BY BlankIs DEF Places
<1>6. \A t \in Threads : pc'[t] = "idle" /\ loc'[t] = Blank
  BY DEF Restart
<1>7. \A t \in Threads : ThreadOK(pc[t], loc[t])'
  BY <1>4, <1>6
<1>8. pc' \in [Threads -> Places] /\ loc' \in [Threads -> Locals]
  BY <1>5 DEF Restart
<1>9. \A t \in Threads : LostNothing(t) /\ RolledBackExactly(t)
  BY <1>1, <1>6 DEF LostNothing, RolledBackExactly
<1> QED
  BY <1>1, <1>2, <1>3, <1>7, <1>8, <1>9 DEF LifecycleInv

LEMMA GoodStepIsOK ==
    ASSUME NEW t \in Threads, GoodStep(t)
    PROVE  LifecycleInv' /\ \A u \in Threads : LostNothing(u) /\ RolledBackExactly(u)
<1>1. ASSUME NEW u \in Threads \ {t}
      PROVE  LostNothing(u) /\ RolledBackExactly(u)
  BY <1>1 DEF GoodStep, LostNothing, RolledBackExactly
<1> QED
  BY <1>1 DEF GoodStep

-----------------------------------------------------------------------------
(* The theorems *)

LEMMA LifecycleInitInv == Init => LifecycleInv
<1> SUFFICES ASSUME Init PROVE LifecycleInv
  OBVIOUS
<1>1. RegistryTypeOK /\ version \in Nat
  BY RegistryInitInv DEF Init, RegistryInv, RegistryInit
<1>2. BindingsOK
  BY DEF Init, BindingsOK, Bound
<1>3. CountersOK
  <2>1. scenario \in Scenario
    BY BindingAssumption DEF Init
  <2> QED
    BY <2>1, BindingAssumption DEF Init, CountersOK, Scenario
<1>4. "idle" \in Places /\ Blank \in Locals /\ ThreadOK("idle", Blank)
  BY <1>1, BlankIs, IdleIsOK DEF Places
<1> QED
  BY <1>1, <1>2, <1>3, <1>4 DEF Init, LifecycleInv

LEMMA LifecycleNext ==
    ASSUME LifecycleInv, Next
    PROVE  LifecycleInv' /\ \A t \in Threads : LostNothing(t) /\ RolledBackExactly(t)
<1>1. ASSUME NEW t \in Threads,
             \/ Publish(t) \/ Batch(t) \/ BindGet(t) \/ BindStore(t)
             \/ Amend(t) \/ Replace(t) \/ Existing(t) \/ Return(t)
      PROVE  GoodStep(t)
  BY <1>1, PublishIsGood, BatchIsGood, BindGetIsGood, BindStoreIsGood, AmendIsGood, ReplaceIsGood,
     ExistingIsGood, ReturnIsGood
<1>2. CASE \E t \in Threads :
              \/ Publish(t) \/ Batch(t) \/ BindGet(t) \/ BindStore(t)
              \/ Amend(t) \/ Replace(t) \/ Existing(t) \/ Return(t)
  BY <1>1, <1>2, GoodStepIsOK
<1>3. CASE Restart
  BY <1>3, RestartIsOK
<1>4. CASE \E k \in Keys : Unbind(k)
  BY <1>4, UnbindIsOK
<1>5. CASE ForeignWrite
  BY <1>5, ForeignWriteIsOK
<1> QED
  BY <1>2, <1>3, <1>4, <1>5 DEF Next

LEMMA LifecycleStutter ==
    ASSUME LifecycleInv, UNCHANGED vars
    PROVE  LifecycleInv'
  BY StandStill, SystemStepOK DEF vars, bindingVars, registryVars

LEMMA LifecycleStepInv == LifecycleInv /\ [Next]_vars => LifecycleInv'
  BY LifecycleNext, LifecycleStutter

\* The invariant the theorems below rest on holds in every state.
LEMMA LifecycleInvariant == Spec => []LifecycleInv
  BY LifecycleInitInv, LifecycleStepInv, PTL DEF Spec

\* Types, and generations: each live binding has one of its own that the
\* executor's counter gave out (executor.py, _store_binding).
THEOREM LifecycleTypes == Spec => []LifecycleTypeOK
<1>1. LifecycleInv => LifecycleTypeOK
  <2> SUFFICES ASSUME LifecycleInv PROVE LifecycleTypeOK
    OBVIOUS
  <2>1. \A k \in Keys : GenAt(k) \in 0 .. generation
    BY DEF LifecycleInv, BindingsOK, Bound, GenAt
  <2>2. \A j, k \in Keys : GenAt(j) = GenAt(k) /\ GenAt(j) # 0 => j = k
    BY DEF LifecycleInv, BindingsOK, Bound, GenAt
  <2> QED
    BY <2>1, <2>2 DEF LifecycleInv, LifecycleTypeOK, BindingsOK, CountersOK
<1> QED
  BY <1>1, LifecycleInvariant, PTL

\* Whoever finds the generation of a binding unchanged is looking at the binding it
\* took a snapshot of, or stored, however many operations ran in between: undo that
\* decides on it (_remove_binding_if_generation, _restore_binding_if_generation,
\* restamp_binding) never touches somebody else's binding.
THEOREM GenerationsPinBindings == Spec => []GenerationPinsBinding
<1>1. LifecycleInv => GenerationPinsBinding
  <2> SUFFICES ASSUME LifecycleInv, NEW t \in Threads, NEW k \in Keys
               PROVE  /\ (loc[t].snap # NoBinding /\ k = Key(t) /\ GenAt(k) = loc[t].snap.gen)
                            => binding[k] = loc[t].snap
                      /\ (loc[t].gens[k] # 0 /\ GenAt(k) = loc[t].gens[k]) =>
                            /\ k \in DOMAIN loc[t].batch
                            /\ binding[k].fp = FpOf[loc[t].batch[k]]
                            /\ binding[k].inv \in {loc[t].inv} \cup
                                  (IF loc[t].snap = NoBinding THEN {} ELSE {loc[t].snap.inv})
    BY DEF GenerationPinsBinding
  <2>1. SnapOK(pc[t], loc[t]) /\ StoredOK(pc[t], loc[t])
    BY DEF LifecycleInv, ThreadOK
  <2>2. (loc[t].snap # NoBinding /\ k = Key(t) /\ GenAt(k) = loc[t].snap.gen)
            => binding[k] = loc[t].snap
    BY <2>1 DEF SnapOK, GenAt, Bound, Key
  <2>3. (loc[t].gens[k] # 0 /\ GenAt(k) = loc[t].gens[k]) =>
            /\ k \in DOMAIN loc[t].batch
            /\ binding[k].fp = FpOf[loc[t].batch[k]]
            /\ \/ binding[k].inv = loc[t].inv
               \/ loc[t].snap # NoBinding /\ binding[k].inv = loc[t].snap.inv
    BY <2>1 DEF StoredOK, GenAt, Bound
  <2> QED
    BY <2>2, <2>3
<1> QED
  BY <1>1, LifecycleInvariant, PTL

\* An operation that failed or saw drift has unbound whatever it bound itself.
THEOREM FailuresUnbindTheirOwn == Spec => []FailedBindingsWithdrawn
<1>1. LifecycleInv => FailedBindingsWithdrawn
  BY DEF LifecycleInv, ThreadOK, WithdrawnOK, FailedBindingsWithdrawn
<1> QED
  BY <1>1, LifecycleInvariant, PTL

\* No tool is executable for a contract that no bind, publication or amendment of
\* this process accepted for its key (bind, publish_bound_tool, restamp_binding),
\* be it for the binding's own invoker or for another's.
THEOREM ReadyMeansValidated == Spec => []ReadyContractWasValidated
<1>1. LifecycleInv => ReadyContractWasValidated
  BY DEF LifecycleInv, BindingsOK, Bound, Validated, ReadyContractWasValidated, Ready, ReadyFor
<1> QED
  BY <1>1, LifecycleInvariant, PTL

\* A compare-and-swap that wins replaced the tool its caller had read, metadata
\* included: no write in between is lost (replace_if_fingerprint, update_many).
THEOREM NoUpdateIsLost == Spec => NoLostUpdate
<1>1. LifecycleInv /\ [Next]_vars => [\A t \in Threads : LostNothing(t)]_vars
  BY LifecycleNext
<1>2. Spec => [][\A t \in Threads : LostNothing(t)]_vars
  BY <1>1, LifecycleInvariant, PTL DEF Spec
<1> QED
  BY <1>2 DEF NoLostUpdate, LostNothing

\* A rollback that writes leaves exactly the catalog its publication started from
\* (publish_bound_tool, _register_bound_batch).
THEOREM RollbacksAreExact == Spec => RollbackIsExact
<1>1. LifecycleInv /\ [Next]_vars => [\A t \in Threads : RolledBackExactly(t)]_vars
  BY LifecycleNext
<1>2. Spec => [][\A t \in Threads : RolledBackExactly(t)]_vars
  BY <1>1, LifecycleInvariant, PTL DEF Spec
<1> QED
  BY <1>2 DEF RollbackIsExact, RolledBackExactly

=============================================================================
