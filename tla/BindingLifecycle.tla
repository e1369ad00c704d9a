--------------------------- MODULE BindingLifecycle ---------------------------
(***************************************************************************)
(* The executor's process-local bindings (executor.py) beside the shared   *)
(* registry: a binding says which trusted invoker serves a tool and for    *)
(* which contract fingerprint it was accepted, and a tool is executable    *)
(* only while that fingerprint is the registered one.  Publishing, binding,*)
(* amending, replacing and removing a tool touch both sides in several     *)
(* separately locked steps, run by concurrent threads, next to writers of  *)
(* other processes that share the registry.  One action per locked step.   *)
(*                                                                         *)
(* Abstraction: the n-th operation started in a run supplies invoker n, so *)
(* invokers tell operations apart.  A contract change by amend_capability  *)
(* is any pair of `Amendable'.  Reads of the registry may fail with a      *)
(* storage error (SQLiteRegistry).  A process that restarts finds the      *)
(* registry of its predecessor and binds its tools again.                  *)
(***************************************************************************)
EXTENDS Registry

CONSTANTS
    Threads,
    Amendable,   \* <<current, amended>> pairs validate_amendment accepts
    NoBinding,   \* no invoker bound
    Scenarios,   \* which operations are run on what, see Scenario
    MaxOps       \* model bound: operations started in any scenario

\* ops: the operations the threads and other writers run, on which keys and
\* contracts; model bounds: starts, operations started, and faults, registry
\* reads that fail.
Scenario == [ops : SUBSET {"publish", "batch", "bind", "unbind", "amend", "add", "remove",
                           "foreign", "rehydrate", "existing", "restart"},
             keys : SUBSET Keys, contracts : SUBSET Contracts,
             starts : 0 .. MaxOps, faults : Nat]

ASSUME BindingAssumption ==
    /\ Keys # {}
    /\ Amendable \subseteq Contracts \X Contracts
    /\ Scenarios \subseteq Scenario
    /\ MaxOps \in Nat
    /\ NoBinding \notin [inv : Nat, fp : Fps, gen : Nat]

VARIABLES
    scenario,   \* chosen once
    binding,    \* _invokers, _binding_fingerprints, _binding_generations, per tool
    generation, \* _binding_generation, the executor-wide counter
    pc, loc,    \* each thread's place and locals
    started,    \* operations started
    faults,     \* storage errors so far
    accepted,   \* history variable: <<key, invoker, fp>> stored by a bind of this process
    amended     \* history variable: <<key, fp, fp'>> this process validated and registered

bindingVars == <<binding, generation>>
vars == <<registryVars, bindingVars, pc, loc, scenario, started, faults, accepted, amended>>

Invokers == 0 .. MaxOps
Bindings == [inv : Invokers, fp : Fps, gen : Nat]

\* Locals: the key or keys, the contract written per key, the invoker, the
\* version and tool read before the write, the binding snapshot, and what was
\* published so far.
Locals == [key : Keys, batch : UNION {[ks -> Contracts] : ks \in SUBSET Keys},
           replace : BOOLEAN, inv : Invokers, base : Nat,
           prev : Contracts \cup {Absent}, snap : Bindings \cup {NoBinding},
           was : BOOLEAN, gens : [Keys -> Nat], todo : SUBSET Keys,
           conflict : BOOLEAN]

Blank == [key |-> CHOOSE k \in Keys : TRUE, batch |-> [k \in {} |-> Absent],
          replace |-> FALSE, inv |-> 0, base |-> 0, prev |-> Absent,
          snap |-> NoBinding, was |-> FALSE, gens |-> [k \in Keys |-> 0],
          todo |-> {}, conflict |-> FALSE]

\* binding_status_for_contract: ready for the registered contract.
ReadyFor(k, fp) == binding[k] # NoBinding /\ binding[k].fp = fp
Ready(k) == ReadyFor(k, FpAt(tools, k))

Key(t) == loc[t].key
NewTool(t) == loc[t].batch[Key(t)]
NewFp(t) == FpOf[NewTool(t)]

GenAt(k) == IF binding[k] = NoBinding THEN 0 ELSE binding[k].gen

Goto(t, place) == pc' = [pc EXCEPT ![t] = place]

\* A step of thread t that only reads: move on and remember.
Remember(t, place, newLoc) ==
    /\ Goto(t, place)
    /\ loc' = [loc EXCEPT ![t] = newLoc]
    /\ UNCHANGED <<registryVars, bindingVars, scenario, started, faults, accepted, amended>>

\* An operation begins: it gets the next invoker.
Begin(t, op, place, newLoc) ==
    /\ pc[t] = "idle" /\ op \in scenario.ops /\ started < scenario.starts
    /\ started' = started + 1
    /\ Goto(t, place)
    /\ loc' = [loc EXCEPT ![t] = [newLoc EXCEPT !.inv = started + 1]]
    /\ UNCHANGED <<registryVars, bindingVars, scenario, faults, accepted, amended>>

One(k, c) == [x \in {k} |-> c]

Outcomes == {"ok", "refused", "failed", "drift", "raised"}

\* The caller has its answer; the thread is free again.
Return(t) ==
    /\ pc[t] \in Outcomes
    /\ Remember(t, "idle", Blank)

-----------------------------------------------------------------------------
(* Locked primitives of the executor *)

\* Mutant: the binding gets a generation the counter never counted.
StoreUncounted(k, inv, fp) ==
    /\ binding' = [binding EXCEPT ![k] = [inv |-> inv, fp |-> fp, gen |-> generation + 1]]
    /\ UNCHANGED generation

\* _store_binding
Store(k, inv, fp) ==
    /\ generation' = generation + 1
    /\ binding' = [binding EXCEPT ![k] = [inv |-> inv, fp |-> fp, gen |-> generation + 1]]

\* _remove_binding_if_generation
RemoveIfGeneration(k, gen) ==
    /\ binding' = IF GenAt(k) = gen THEN [binding EXCEPT ![k] = NoBinding] ELSE binding
    /\ UNCHANGED generation

\* Mutant: where nothing was bound before, nothing is put back.
RestoreOnlyBound(k, gen, snap) ==
    IF GenAt(k) # gen \/ snap = NoBinding THEN UNCHANGED bindingVars
    ELSE Store(k, snap.inv, snap.fp)

\* _restore_binding_if_generation: a restored binding gets a generation of its own
RestoreIfGeneration(k, gen, snap) ==
    IF GenAt(k) # gen THEN UNCHANGED bindingVars
    ELSE IF snap = NoBinding THEN RemoveIfGeneration(k, gen)
    ELSE Store(k, snap.inv, snap.fp)

\* Mutant: re-point the binding but keep its generation.
RestampInPlace(k, fp) ==
    /\ binding' = [binding EXCEPT ![k] = [@ EXCEPT !.fp = fp]]
    /\ UNCHANGED generation

\* The locked half of restamp_binding: same invoker, new fingerprint and generation.
RestampTo(k, fp) == Store(k, binding[k].inv, fp)

-----------------------------------------------------------------------------
(* publish_bound_tool *)

PublishBegin(t) ==
    \E k \in scenario.keys, c \in scenario.contracts, replace \in BOOLEAN :
        Begin(t, "publish", "publish_get",
              [Blank EXCEPT !.key = k, !.batch = One(k, c),
                            !.replace = replace, !.base = version])

PublishGet(t) ==
    /\ pc[t] = "publish_get"
    /\ Remember(t, "publish_snap", [loc[t] EXCEPT !.prev = tools[Key(t)]])

PublishSnapshot(t) ==
    /\ pc[t] = "publish_snap"
    /\ Remember(t, "publish_cas", [loc[t] EXCEPT !.snap = binding[Key(t)]])

\* The registry write is the commit point: a new key goes through the
\* version-guarded batch write, an existing one through compare-and-swap.
PublishCas(t) ==
    /\ pc[t] = "publish_cas"
    /\ LET l == loc[t] IN
       \/ /\ \/ l.prev = Absent /\ UpdateManyIfVersion(l.batch, l.base, FALSE)
             \/ /\ l.prev # Absent /\ l.replace
                /\ ReplaceIfFingerprint(l.key, NewTool(t), FpOf[l.prev], l.base)
          /\ Goto(t, "publish_bind")
          /\ UNCHANGED <<loc, bindingVars, scenario, started, faults, accepted, amended>>
       \/ /\ \/ version # l.base
             \/ l.prev # Absent /\ ~l.replace
          /\ Remember(t, "refused", l)

\* bind, first half: the registered contract must still be the published one.
PublishBindGet(t) ==
    /\ pc[t] = "publish_bind"
    /\ Remember(t, IF FpAt(tools, Key(t)) = NewFp(t) THEN "publish_store" ELSE "rollback",
                loc[t])

PublishBindStore(t) ==
    /\ pc[t] = "publish_store"
    /\ Store(Key(t), loc[t].inv, NewFp(t))
    /\ accepted' = accepted \cup {<<Key(t), loc[t].inv, NewFp(t)>>}
    /\ loc' = [loc EXCEPT ![t].gens[Key(t)] = generation + 1]
    /\ Goto(t, "publish_version")
    /\ UNCHANGED <<registryVars, scenario, started, faults, amended>>

PublishVerifyVersion(t) ==
    /\ pc[t] = "publish_version"
    /\ Remember(t, IF version = loc[t].base + 1 THEN "publish_verify" ELSE "rollback", loc[t])

PublishVerifyTool(t) ==
    /\ pc[t] = "publish_verify"
    /\ Remember(t, IF FpAt(tools, Key(t)) = NewFp(t) THEN "ok" ELSE "rollback", loc[t])

\* A registry read raises inside the publication: its handler rolls back.
PublishReadFault(t) ==
    /\ pc[t] \in {"publish_bind", "publish_version", "publish_verify"}
    /\ faults < scenario.faults
    /\ faults' = faults + 1
    /\ Goto(t, "rollback")
    /\ UNCHANGED <<registryVars, bindingVars, loc, scenario, started, accepted, amended>>

\* Mutant: a replaced contract is withdrawn instead of put back.
PublishRollbackByRemoval(t) ==
    /\ pc[t] = "rollback"
    /\ LET l == loc[t] IN
       \/ /\ UnregisterIfFingerprint(l.key, NewFp(t), l.base + 1)
          /\ Goto(t, "restore")
          /\ UNCHANGED <<loc, bindingVars, scenario, started, faults, accepted, amended>>
       \/ /\ version # l.base + 1
          /\ Remember(t, "withdraw", l)

\* Undo the registry write, only if nothing was written since.
PublishRollback(t) ==
    /\ pc[t] = "rollback"
    /\ LET l == loc[t] IN
       \/ /\ \/ l.prev = Absent /\ UnregisterIfFingerprint(l.key, NewFp(t), l.base + 1)
             \/ /\ l.prev # Absent
                /\ ReplaceIfFingerprint(l.key, l.prev, NewFp(t), l.base + 1)
          /\ Goto(t, "restore")
          /\ UNCHANGED <<loc, bindingVars, scenario, started, faults, accepted, amended>>
       \/ /\ version # l.base + 1
          /\ Remember(t, "withdraw", l)

\* Registry undone: put the previous binding back, unless someone rebound.
PublishRestore(t) ==
    /\ pc[t] = "restore"
    /\ IF loc[t].gens[Key(t)] = 0 THEN UNCHANGED bindingVars
       ELSE RestoreIfGeneration(Key(t), loc[t].gens[Key(t)], loc[t].snap)
    /\ Goto(t, "failed")
    /\ UNCHANGED <<registryVars, loc, scenario, started, faults, accepted, amended>>

\* Registry not undone: drop the binding this call stored, if it is still its own.
PublishWithdraw(t) ==
    /\ pc[t] = "withdraw"
    /\ IF loc[t].gens[Key(t)] = 0 THEN UNCHANGED bindingVars
       ELSE RemoveIfGeneration(Key(t), loc[t].gens[Key(t)])
    /\ Goto(t, "drift")
    /\ UNCHANGED <<registryVars, loc, scenario, started, faults, accepted, amended>>

Publish(t) ==
    \/ PublishBegin(t) \/ PublishGet(t) \/ PublishSnapshot(t) \/ PublishCas(t)
    \/ PublishBindGet(t) \/ PublishBindStore(t)
    \/ PublishVerifyVersion(t) \/ PublishVerifyTool(t) \/ PublishReadFault(t)
    \/ PublishRollback(t) \/ PublishRestore(t) \/ PublishWithdraw(t)

-----------------------------------------------------------------------------
(* _register_bound_batch: publish every staged tool in one registry write, *)
(* then bind them one by one into empty runtime state                      *)

BatchBegin(t) ==
    \E ks \in SUBSET scenario.keys : \E batch \in [ks -> scenario.contracts] :
        /\ ks # {}
        /\ Begin(t, "batch", "batch_empty",
                 [Blank EXCEPT !.batch = batch, !.base = version, !.todo = ks])

\* ensure_tool_runtime_state_empty
BatchEnsureEmpty(t) ==
    /\ pc[t] = "batch_empty"
    /\ Remember(t, IF \A k \in loc[t].todo : binding[k] = NoBinding
                   THEN "batch_publish" ELSE "refused", loc[t])

BatchPublish(t) ==
    /\ pc[t] = "batch_publish"
    /\ LET l == loc[t] IN
       \/ /\ UpdateManyIfVersion(l.batch, l.base, FALSE)
          /\ Goto(t, "batch_bind")
          /\ UNCHANGED <<loc, bindingVars, scenario, started, faults, accepted, amended>>
       \/ /\ version # l.base \/ l.todo \cap Present(tools) # {}
          /\ Remember(t, "refused", l)

\* bind of the next staged tool, first half.
BatchBindGet(t) ==
    /\ pc[t] = "batch_bind"
    /\ \E k \in loc[t].todo :
          IF FpAt(tools, k) = FpOf[loc[t].batch[k]]
          THEN Remember(t, "batch_store", [loc[t] EXCEPT !.key = k])
          ELSE Remember(t, "batch_unbind", [loc[t] EXCEPT !.todo = DOMAIN loc[t].batch])

BatchReadFault(t) ==
    /\ pc[t] \in {"batch_bind", "batch_version"}
    /\ faults < scenario.faults
    /\ faults' = faults + 1
    /\ loc' = [loc EXCEPT ![t].todo = DOMAIN loc[t].batch]
    /\ Goto(t, "batch_unbind")
    /\ UNCHANGED <<registryVars, bindingVars, scenario, started, accepted, amended>>

\* bind, second half (require_empty_runtime_state): emptiness is re-checked under the lock.
BatchBindStore(t) ==
    /\ pc[t] = "batch_store"
    /\ LET k == Key(t) rest == loc[t].todo \ {Key(t)} IN
       IF binding[k] # NoBinding
       THEN Remember(t, "batch_unbind", [loc[t] EXCEPT !.todo = DOMAIN loc[t].batch])
       ELSE /\ Store(k, loc[t].inv, NewFp(t))
            /\ accepted' = accepted \cup {<<k, loc[t].inv, NewFp(t)>>}
            /\ loc' = [loc EXCEPT ![t].gens[k] = generation + 1, ![t].todo = rest]
            /\ Goto(t, IF rest = {} THEN "batch_version" ELSE "batch_bind")
            /\ UNCHANGED <<registryVars, scenario, started, faults, amended>>

BatchVerify(t) ==
    /\ pc[t] = "batch_version"
    /\ IF version = loc[t].base + 1
       THEN Remember(t, "ok", loc[t])
       ELSE Remember(t, "batch_unbind", [loc[t] EXCEPT !.todo = DOMAIN loc[t].batch])

\* Roll back: take back the bindings this batch stored, each under its own lock ...
BatchUnbind(t) ==
    /\ pc[t] = "batch_unbind"
    /\ \E k \in loc[t].todo :
          LET gen == loc[t].gens[k] rest == loc[t].todo \ {k} IN
          /\ IF gen = 0 THEN UNCHANGED bindingVars ELSE RemoveIfGeneration(k, gen)
          /\ loc' = [loc EXCEPT ![t].todo = rest,
                                ![t].conflict = @ \/ (gen # 0 /\ GenAt(k) # gen)]
          /\ Goto(t, IF rest = {} THEN "batch_rollback" ELSE "batch_unbind")
    /\ UNCHANGED <<registryVars, scenario, started, faults, accepted, amended>>

\* ... then remove the whole batch from the registry, only if nothing was written since.
BatchRollback(t) ==
    /\ pc[t] = "batch_rollback"
    /\ LET l == loc[t]
           staged == [k \in DOMAIN l.batch |-> FpOf[l.batch[k]]] IN
       \/ /\ UnregisterManyIfVersion(staged, l.base + 1)
          /\ Goto(t, IF l.conflict THEN "drift" ELSE "failed")
          /\ UNCHANGED <<loc, bindingVars, scenario, started, faults, accepted, amended>>
       \/ /\ version # l.base + 1
          /\ Remember(t, "drift", l)

Batch(t) ==
    \/ BatchBegin(t) \/ BatchEnsureEmpty(t) \/ BatchPublish(t)
    \/ BatchBindGet(t) \/ BatchBindStore(t) \/ BatchVerify(t) \/ BatchReadFault(t)
    \/ BatchUnbind(t) \/ BatchRollback(t)

-----------------------------------------------------------------------------
(* bind and unbind *)

BindGet(t) ==
    \E k \in scenario.keys :
        /\ tools[k] # Absent
        /\ Begin(t, "bind", "bind_store",
                 [Blank EXCEPT !.key = k, !.batch = One(k, tools[k])])

BindStore(t) ==
    /\ pc[t] = "bind_store"
    /\ Store(Key(t), loc[t].inv, NewFp(t))
    /\ accepted' = accepted \cup {<<Key(t), loc[t].inv, NewFp(t)>>}
    /\ Goto(t, "ok")
    /\ UNCHANGED <<registryVars, loc, scenario, started, faults, amended>>

Unbind(k) ==
    /\ "unbind" \in scenario.ops /\ binding[k] # NoBinding
    /\ binding' = [binding EXCEPT ![k] = NoBinding]
    /\ UNCHANGED <<registryVars, generation, pc, loc, scenario, started, faults, accepted, amended>>

-----------------------------------------------------------------------------
(* amend_capability: validate against the current contract, swap it in the *)
(* registry, re-point the existing binding (restamp_binding)               *)

AmendBegin(t) ==
    \E k \in scenario.keys :
        Begin(t, "amend", "amend_get", [Blank EXCEPT !.key = k, !.base = version])

AmendGet(t) ==
    /\ pc[t] = "amend_get"
    /\ \/ \E c \in scenario.contracts :
             /\ <<tools[Key(t)], c>> \in Amendable
             /\ Remember(t, "amend_bound",
                         [loc[t] EXCEPT !.prev = tools[Key(t)], !.batch = One(Key(t), c)])
       \/ Remember(t, "refused", loc[t])

AmendBound(t) ==
    /\ pc[t] = "amend_bound"
    /\ Remember(t, "amend_cas", [loc[t] EXCEPT !.was = binding[Key(t)] # NoBinding])

AmendCas(t) ==
    /\ pc[t] = "amend_cas"
    /\ LET l == loc[t] IN
       \/ /\ ReplaceIfFingerprint(l.key, NewTool(t), FpOf[l.prev], l.base)
          /\ amended' = amended \cup {<<l.key, FpOf[l.prev], NewFp(t)>>}
          /\ Goto(t, "restamp_snap")
          /\ UNCHANGED <<loc, bindingVars, scenario, started, faults, accepted>>
       \/ /\ version # l.base
          /\ Remember(t, "refused", l)

AmendEnd(t, restamped) == IF loc[t].was /\ ~restamped THEN "drift" ELSE "ok"

RestampSnapshot(t) ==
    /\ pc[t] = "restamp_snap"
    /\ IF binding[Key(t)] = NoBinding
       THEN Remember(t, AmendEnd(t, FALSE), loc[t])
       ELSE Remember(t, "restamp_get", [loc[t] EXCEPT !.snap = binding[Key(t)]])

\* The registry is re-read: another writer may have replaced the amendment.
RestampGet(t) ==
    /\ pc[t] = "restamp_get"
    /\ Remember(t, IF tools[Key(t)] = Absent THEN "raised"   \* KeyError
                   ELSE IF FpAt(tools, Key(t)) = NewFp(t) THEN "restamp_stamp"
                   ELSE AmendEnd(t, FALSE), loc[t])

\* Mutant of restamp_binding: stamp whatever the registry now holds.
RestampStampCurrent(t) ==
    /\ pc[t] = "restamp_stamp"
    /\ IF GenAt(Key(t)) = loc[t].snap.gen /\ tools[Key(t)] # Absent
       THEN /\ RestampTo(Key(t), FpAt(tools, Key(t)))
            /\ loc' = [loc EXCEPT ![t].gens[Key(t)] = generation + 1]
            /\ Goto(t, "restamp_check")
            /\ UNCHANGED <<registryVars, scenario, started, faults, accepted, amended>>
       ELSE Remember(t, AmendEnd(t, FALSE), loc[t])

RestampStamp(t) ==
    /\ pc[t] = "restamp_stamp"
    /\ IF GenAt(Key(t)) = loc[t].snap.gen
       THEN /\ RestampTo(Key(t), NewFp(t))
            /\ loc' = [loc EXCEPT ![t].gens[Key(t)] = generation + 1]
            /\ Goto(t, "restamp_check")
            /\ UNCHANGED <<registryVars, scenario, started, faults, accepted, amended>>
       ELSE Remember(t, AmendEnd(t, FALSE), loc[t])

RestampCheck(t) ==
    /\ pc[t] = "restamp_check"
    /\ Remember(t, IF tools[Key(t)] = Absent THEN "raised"
                   ELSE IF FpAt(tools, Key(t)) = NewFp(t) THEN AmendEnd(t, TRUE)
                   ELSE "restamp_restore", loc[t])

RestampRestore(t) ==
    /\ pc[t] = "restamp_restore"
    /\ RestoreIfGeneration(Key(t), loc[t].gens[Key(t)], loc[t].snap)
    /\ Goto(t, AmendEnd(t, FALSE))
    /\ UNCHANGED <<registryVars, loc, scenario, started, faults, accepted, amended>>

Amend(t) ==
    \/ AmendBegin(t) \/ AmendGet(t) \/ AmendBound(t) \/ AmendCas(t)
    \/ RestampSnapshot(t) \/ RestampGet(t) \/ RestampStamp(t)
    \/ RestampCheck(t) \/ RestampRestore(t)

-----------------------------------------------------------------------------
(* add_tool(replace=True) and aremove_tool; the purge drops the binding *)

Purge(k) ==
    /\ binding' = [binding EXCEPT ![k] = NoBinding]
    /\ UNCHANGED generation

AddGet(t) ==
    \E k \in scenario.keys, c \in scenario.contracts :
        Begin(t, "add", "add_write",
              [Blank EXCEPT !.key = k, !.batch = One(k, c), !.prev = tools[k]])

AddWrite(t) ==
    /\ pc[t] = "add_write"
    /\ LET l == loc[t] IN
       \/ /\ Register(l.key, NewTool(t), l.prev # Absent)
          /\ Goto(t, IF l.prev # Absent /\ FpOf[l.prev] # NewFp(t) THEN "purge" ELSE "ok")
          /\ UNCHANGED <<loc, bindingVars, scenario, started, faults, accepted, amended>>
       \/ /\ l.prev = Absent /\ tools[l.key] # Absent
          /\ Remember(t, "refused", l)

RemoveBegin(t) ==
    \E k \in scenario.keys :
        Begin(t, "remove", "remove_get", [Blank EXCEPT !.key = k, !.base = version])

RemoveGet(t) ==
    /\ pc[t] = "remove_get"
    /\ Remember(t, IF tools[Key(t)] = Absent THEN "refused" ELSE "remove_cas",
                [loc[t] EXCEPT !.prev = tools[Key(t)]])

RemoveCas(t) ==
    /\ pc[t] = "remove_cas"
    /\ LET l == loc[t] IN
       \/ /\ UnregisterIfFingerprint(l.key, FpOf[l.prev], l.base)
          /\ Goto(t, "purge")
          /\ UNCHANGED <<loc, bindingVars, scenario, started, faults, accepted, amended>>
       \/ /\ version # l.base
          /\ Remember(t, "refused", l)

PurgeRuntimeState(t) ==
    /\ pc[t] = "purge"
    /\ Purge(Key(t))
    /\ Goto(t, "ok")
    /\ UNCHANGED <<registryVars, loc, scenario, started, faults, accepted, amended>>

Replace(t) ==
    \/ AddGet(t) \/ AddWrite(t)
    \/ RemoveBegin(t) \/ RemoveGet(t) \/ RemoveCas(t)
    \/ PurgeRuntimeState(t)

-----------------------------------------------------------------------------
(* rehydrate_bindings and bind_existing: bind the tools of a registry that *)
(* was there before.  The invoker is built for the contract that was read, *)
(* or the host says that the tool stays unbound; strict mode only raises   *)
(* on what the report says.                                                *)

RehydrateBegin(t) ==
    LET snapshots == [k \in Present(tools) |-> tools[k]]
    IN Begin(t, "rehydrate", "existing_next",
             [Blank EXCEPT !.batch = snapshots, !.todo = DOMAIN snapshots])

\* bind_existing without a rehydration: the contract read first is the expected one.
\* conflict: the host wants the tool unbound.
ExistingBegin(t) ==
    \E k \in scenario.keys, unbound \in BOOLEAN :
        /\ tools[k] # Absent
        /\ Begin(t, "existing", IF unbound THEN "existing_recheck" ELSE "existing_bind",
                 [Blank EXCEPT !.key = k, !.batch = One(k, tools[k]), !.conflict = unbound])

\* The next snapshot: ready already, nothing known of it, or to be bound.
ExistingNext(t) ==
    /\ pc[t] = "existing_next"
    /\ LET l == loc[t] IN
       IF l.todo = {} THEN Remember(t, "ok", l)
       ELSE \E k \in l.todo :
               LET rest == [l EXCEPT !.key = k, !.todo = @ \ {k}] IN
               \/ Remember(t, "existing_next", rest)
               \/ /\ ~ReadyFor(k, FpOf[l.batch[k]])
                  /\ \E unbound \in BOOLEAN :
                        Remember(t, "existing_get", [rest EXCEPT !.conflict = unbound])

\* bind_existing: the contract must be the one of the snapshot.
ExistingGet(t) ==
    /\ pc[t] = "existing_get"
    /\ Remember(t, CASE tools[Key(t)] = Absent -> "raised"
                     [] tools[Key(t)] # Absent /\ FpAt(tools, Key(t)) # NewFp(t) -> "existing_next"
                     [] OTHER -> IF loc[t].conflict THEN "existing_recheck" ELSE "existing_bind",
                loc[t])

\* To stay unbound: the contract is read once more, then the binding looked at ...
ExistingRecheck(t) ==
    /\ pc[t] = "existing_recheck"
    /\ Remember(t, CASE tools[Key(t)] = Absent -> "raised"
                     [] tools[Key(t)] # Absent /\ FpAt(tools, Key(t)) # NewFp(t) -> "existing_next"
                     [] OTHER -> "existing_status", loc[t])

ExistingStatus(t) ==
    /\ pc[t] = "existing_status"
    /\ Remember(t, IF binding[Key(t)] = NoBinding \/ ReadyFor(Key(t), NewFp(t))
                   THEN "existing_unbind" ELSE "existing_next", loc[t])

\* ... and whatever is bound by then dropped.
ExistingUnbind(t) ==
    /\ pc[t] = "existing_unbind"
    /\ Purge(Key(t))
    /\ Goto(t, "existing_next")
    /\ UNCHANGED <<registryVars, loc, scenario, started, faults, accepted, amended>>

\* The invoker is built, or not; bind, first half, compares the contract again.
ExistingBind(t) ==
    /\ pc[t] = "existing_bind"
    /\ \/ /\ FpAt(tools, Key(t)) = NewFp(t)
          /\ Remember(t, "existing_store", loc[t])
       \/ Remember(t, "existing_next", loc[t])

ExistingStore(t) ==
    /\ pc[t] = "existing_store"
    /\ Store(Key(t), loc[t].inv, NewFp(t))
    /\ accepted' = accepted \cup {<<Key(t), loc[t].inv, NewFp(t)>>}
    /\ Goto(t, "existing_next")
    /\ UNCHANGED <<registryVars, loc, scenario, started, faults, amended>>

Existing(t) ==
    \/ RehydrateBegin(t) \/ ExistingBegin(t) \/ ExistingNext(t) \/ ExistingGet(t)
    \/ ExistingRecheck(t) \/ ExistingStatus(t) \/ ExistingUnbind(t)
    \/ ExistingBind(t) \/ ExistingStore(t)

\* The process dies, wherever its threads are, and another takes its place: the
\* registry is persisted, bindings and their counter are not.
Restart ==
    /\ "restart" \in scenario.ops /\ started < scenario.starts
    /\ started' = started + 1
    /\ binding' = [k \in Keys |-> NoBinding] /\ generation' = 0
    /\ pc' = [t \in Threads |-> "idle"] /\ loc' = [t \in Threads |-> Blank]
    /\ accepted' = {} /\ amended' = {}
    /\ UNCHANGED <<registryVars, scenario, faults>>

-----------------------------------------------------------------------------
\* Another process, or code that holds the registry, writes it directly.
ForeignWrite ==
    /\ "foreign" \in scenario.ops
    /\ \E k \in scenario.keys : Unregister(k) \/ \E c \in scenario.contracts : Register(k, c, TRUE)
    /\ UNCHANGED <<bindingVars, pc, loc, scenario, started, faults, accepted, amended>>

Init ==
    /\ RegistryInit
    /\ scenario \in Scenarios
    /\ binding = [k \in Keys |-> NoBinding]
    /\ generation = 0
    /\ pc = [t \in Threads |-> "idle"]
    /\ loc = [t \in Threads |-> Blank]
    /\ started = 0
    /\ faults = 0
    /\ accepted = {}
    /\ amended = {}

Next ==
    \/ \E t \in Threads :
          \/ Publish(t) \/ Batch(t) \/ BindGet(t) \/ BindStore(t)
          \/ Amend(t) \/ Replace(t) \/ Existing(t) \/ Return(t)
    \/ Restart
    \/ \E k \in Keys : Unbind(k)
    \/ ForeignWrite

Spec == Init /\ [][Next]_vars

-----------------------------------------------------------------------------
(* Properties *)

\* Types; every live generation is one the counter has given out, and no two
\* tools share one.
LifecycleTypeOK ==
    /\ binding \in [Keys -> Bindings \cup {NoBinding}]
    /\ generation \in Nat
    /\ loc \in [Threads -> Locals]
    /\ scenario \in Scenarios
    /\ started \in 0 .. scenario.starts /\ faults \in 0 .. scenario.faults
    /\ accepted \subseteq Keys \X Invokers \X Fps
    /\ amended \subseteq Keys \X Fps \X Fps
    /\ \A k \in Keys : GenAt(k) \in 0 .. generation
    /\ \A j, k \in Keys : GenAt(j) = GenAt(k) /\ GenAt(j) # 0 => j = k

\* A generation pins a binding: whoever took a snapshot of a binding, or stored
\* one, and later finds its generation unchanged, is looking at that very
\* binding, invoker and fingerprint.  Restamping, restoring and conditional
\* removal all decide on this comparison alone (executor.py).
GenerationPinsBinding ==
    \A t \in Threads :
        /\ \A k \in Keys : (loc[t].snap # NoBinding /\ k = Key(t)
                              /\ GenAt(k) = loc[t].snap.gen) => binding[k] = loc[t].snap
        /\ \A k \in Keys : (loc[t].gens[k] # 0 /\ GenAt(k) = loc[t].gens[k]) =>
              /\ k \in DOMAIN loc[t].batch
              /\ binding[k].fp = FpOf[loc[t].batch[k]]
              /\ binding[k].inv \in {loc[t].inv} \cup
                    (IF loc[t].snap = NoBinding THEN {} ELSE {loc[t].snap.inv})

\* A publication, amendment or removal that wins its compare-and-swap replaced
\* exactly the tool it had read, metadata included: no write of another thread
\* or process in between is lost.
NoLostUpdate ==
    [][\A t \in Threads :
         (/\ pc[t] \in {"publish_cas", "amend_cas", "remove_cas"}
          /\ pc'[t] \in {"publish_bind", "restamp_snap", "purge"})
            => tools[Key(t)] = loc[t].prev]_vars

\* A rolled back publication, single or batch, leaves the catalog it started
\* from, and never undoes a write that was not its own.
RollbackIsExact ==
    [][\A t \in Threads :
         (pc[t] \in {"rollback", "batch_rollback"} /\ version' # version
            /\ pc'[t] # pc[t])
            => tools' = history[loc[t].base]]_vars

\* A publication, batch or amendment that did not go through has unbound whatever
\* it bound itself, whether or not it could undo its registry write, and whatever
\* others bound, restored or withdrew in between (publish_bound_tool,
\* _register_bound_batch, restamp_binding).
FailedBindingsWithdrawn ==
    \A t \in Threads : pc[t] \in {"failed", "drift"} =>
        \A k \in Keys : loc[t].gens[k] # 0 => GenAt(k) # loc[t].gens[k]

\* A tool is executable only for a contract that some bind, publication or
\* validated amendment of this very process accepted for it, whatever other writers
\* put in the registry while a binding was being re-pointed (restamp_binding), and
\* whatever was bound before a restart.  It need not have been this binding's own
\* invoker that was accepted for it: see ReadyInvokerWasVouched.
ReadyContractWasValidated ==
    \A k \in Keys : Ready(k) =>
        \/ \E i \in Invokers : <<k, i, binding[k].fp>> \in accepted
        \/ \E fp \in Fps : <<k, fp, binding[k].fp>> \in amended

(* Claims of the documentation that the code does not keep *)

\* The fingerprints registered amendments of k lead to from a given one.
AmendedTo(k, from) ==
    {fp \in Fps : \A S \in SUBSET Fps :
        (/\ from \in S
         /\ \A e \in amended : (e[1] = k /\ e[2] \in S) => e[3] \in S) => fp \in S}

\* docs/security/threat-model.md: stale-binding protection is unchanged by
\* amendment.  So an invoker serves only contracts it was bound for, or
\* contracts amended step by step from one it was bound for.
ReadyInvokerWasVouched ==
    \A k \in Keys : Ready(k) =>
        \E fp \in Fps : /\ <<k, binding[k].inv, fp>> \in accepted
                        /\ binding[k].fp \in AmendedTo(k, fp)

\* publish_bound_tool: a concurrent writer causes a fail-closed outcome.  So a
\* publication that reports BindingDriftError leaves its invoker unbound.
DriftedPublicationWithdrawn ==
    \A t \in Threads : (pc[t] = "drift" /\ ~loc[t].was) =>
        \A k \in DOMAIN loc[t].batch : Ready(k) => binding[k].inv # loc[t].inv

\* The same for a publication that did undo its registry write and raises what
\* made it fail.
FailedPublicationWithdrawn ==
    \A t \in Threads : pc[t] = "failed" =>
        \A k \in DOMAIN loc[t].batch : Ready(k) => binding[k].inv # loc[t].inv

\* aremove_tool removes one capability and all router-owned runtime state.  So
\* when every operation has returned, no binding is left for a missing tool.
NoOrphanBinding ==
    (\A t \in Threads : pc[t] = "idle") =>
        \A k \in Keys : binding[k] # NoBinding => tools[k] # Absent

\* amend_capability raises BindingDriftError only if another writer replaced
\* the registered contract.
AmendDriftMeansRegistryMoved ==
    \A t \in Threads : (pc[t] = "drift" /\ loc[t].was) => version > loc[t].base + 1

\* docs/getting-started/startup-rebinding.md:57: a tool that is to stay unbound is
\* not deleted under another contract.  So what bind_existing drops is a binding
\* for the contract it was asked about.
OnlyExpectedUnbound ==
    [][\A t \in Threads :
         (pc[t] = "existing_unbind" /\ pc'[t] = "existing_next" /\ binding[Key(t)] # NoBinding)
            => binding[Key(t)].fp = NewFp(t)]_vars

\* docs/getting-started/startup-rebinding.md:56 and :74: `ready' means bound to the
\* current contract; a writer in between makes binding fail closed.
ReadyIsBoundToCurrent ==
    [][\A t \in Threads :
         (pc[t] = "existing_store" /\ pc'[t] = "existing_next") => Ready(Key(t))']_vars

=============================================================================
