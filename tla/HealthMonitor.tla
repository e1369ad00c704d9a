----------------------------- MODULE HealthMonitor -----------------------------
(***************************************************************************)
(* The access health monitor of health.py: trusted probe callbacks, run in *)
(* overlapping cycles, whose verdicts open or close the cooldown of an     *)
(* access path, next to contract transitions (which must discard a verdict *)
(* on the old contract) and removals (which must drain running probes).    *)
(*                                                                         *)
(* Everything here but other threads runs on one event loop, and no code   *)
(* awaits while it holds the lifecycle condition: a stretch of code between *)
(* two awaits is one step of the loop.  The check of a contract and the    *)
(* start of its callback, and a commit, are split into the steps between   *)
(* which another THREAD may write (amend_capability and registry writes are *)
(* synchronous and callable from any thread); `Free' keeps the loop's own  *)
(* steps, and without other threads every step, out.                       *)
(*                                                                         *)
(* Abstraction: one endpoint per tool.  The registry is seen through the   *)
(* fingerprint it holds per tool (Registry.tla has the rest).              *)
(***************************************************************************)
EXTENDS Integers, FiniteSets

CONSTANTS
    Keys, Fps, Absent,
    ReadOnly,         \* fingerprints of contracts that keep the endpoint, read-only
    Tasks,            \* probe tasks: the semaphore slots of all running cycles
    Removers,         \* tasks inside aremove_tool
    None,
    Scenarios,        \* what the host program configures and does, see Scenario
    MaxQuiesce,       \* model bound: removals counted as pending at once
    MaxRecords        \* model bound: probe registrations in any scenario

\* sync: tools whose probe is a synchronous callback, run by the worker pool;
\* otherThreads: writers on other threads exist; reentrant: probe callbacks may
\* remove tools; ownTask: asyncio.wait_for runs its awaitable in the calling task
\* (Python >= 3.12); cancels: callers may cancel a pending removal; fps: what is
\* published; model bounds: records, probe registrations, and generations,
\* transitions one registration lives through.
Scenario == [sync : SUBSET Keys, otherThreads : BOOLEAN, reentrant : BOOLEAN,
             ownTask : BOOLEAN, cancels : BOOLEAN, removers : SUBSET Removers,
             fps : SUBSET Fps, records : 0 .. MaxRecords, generations : Nat]

ASSUME HealthAssumption ==
    /\ Keys # {}
    /\ ReadOnly \subseteq Fps
    /\ Absent \notin Fps
    /\ Scenarios \subseteq Scenario
    /\ MaxQuiesce \in Nat /\ MaxRecords \in Nat
    /\ Tasks \cap Removers = {}
    /\ None \notin [key : Keys, old : Fps, new : Fps]
    /\ None \notin [fp : Fps, probed : Fps]
    /\ None \notin [by : Tasks, gen : Nat, fp : Fps, done : BOOLEAN]

VARIABLES
    scenario,  \* chosen once
    contract,  \* the registry: fingerprint per tool
    probes,    \* _probes: the current registration of each tool, 0 if none
    rec,       \* every _ProbeRecord ever registered, by registration_id
    issued,    \* _next_registration_id
    cooldown,  \* _unavailable_until: contract the path is unavailable for
    amending,  \* an amend_capability between its registry write and its probe transition
    quiesce,   \* _quiesce_requests
    active,    \* _active_probe_tasks
    pc, loc

vars == <<scenario, contract, probes, rec, issued, cooldown, amending, quiesce, active, pc, loc>>

SyncKeys == scenario.sync
OtherThreads == scenario.otherThreads
Reentrant == scenario.reentrant
WaitInOwnTask == scenario.ownTask
CancelRemovals == scenario.cancels

Ids == 1 .. MaxRecords
\* A call handed to the worker pool: the task that submitted it, the generation
\* and (history variable) contract it was submitted for.
Workers == [by : Tasks, gen : Nat, fp : Fps, done : BOOLEAN]
\* by: history variable, the generation whose callback produced the status.
Records == [key : Keys, fp : Fps, gen : Nat, by : Nat, invalid : BOOLEAN,
            status : {"unknown", "healthy", "unhealthy", "stale"},
            worker : Workers \cup {None}]
\* from, fp: history variables, the generation and contract for which the
\* callback behind the verdict was let through.
Locals == [id : 0 .. MaxRecords, gen : Nat, from : Nat, fp : Fps \cup {Absent},
           verdict : {"none", "ok", "bad", "busy"}, key : Keys]
Cooldowns == [fp : Fps, probed : Fps]

Blank == [id |-> 0, gen |-> 0, from |-> 0, fp |-> Absent, verdict |-> "none",
          key |-> CHOOSE k \in Keys : TRUE]

Rec(t) == rec[loc[t].id]
Key(t) == Rec(t).key

Committing(t) == pc[t] \in {"commit", "mark", "record"}

\* Before Python 3.12 the task wait_for makes for an asynchronous callback begins
\* one turn of the loop later.
StartsLater(t) == ~WaitInOwnTask /\ Key(t) \notin SyncKeys

\* The loop is inside a step of this task.
Busy(t) == Committing(t) \/ (pc[t] = "starting" /\ ~StartsLater(t))

\* The event loop is between two steps.
Free == /\ \A t \in Tasks : ~Busy(t)
        /\ amending = None \/ OtherThreads

\* A synchronous writer: another thread, or a step of the loop.
Writer == Free \/ OtherThreads

\* _contract_status
Current(r) == ~rec[r].invalid /\ contract[rec[r].key] = rec[r].fp

-----------------------------------------------------------------------------
(* Registration *)

Register(k) ==
    /\ Writer
    /\ contract[k] \in ReadOnly
    /\ issued < scenario.records
    /\ issued' = issued + 1
    /\ probes' = [probes EXCEPT ![k] = issued + 1]
    /\ rec' = [rec EXCEPT ![issued + 1] =
                 [key |-> k, fp |-> contract[k], gen |-> 0, by |-> 0, invalid |-> FALSE,
                  status |-> "unknown", worker |-> None]]
    /\ UNCHANGED <<scenario, contract, cooldown, amending, quiesce, active, pc, loc>>

Unregister(k) ==
    /\ Writer
    /\ probes[k] # 0
    /\ probes' = [probes EXCEPT ![k] = 0]
    /\ UNCHANGED <<contract, rec, scenario, issued, cooldown, amending, quiesce, active, pc, loc>>

-----------------------------------------------------------------------------
(* Contract changes *)

\* Mutant: a probe target the new contract lost stays valid.
CarriedUnchecked(k, old, f) ==
    IF probes[k] # 0 /\ rec[probes[k]].fp = old
    THEN [rec EXCEPT ![probes[k]] =
             [rec[probes[k]] EXCEPT !.fp = f, !.gen = @ + 1, !.status = "unknown"]]
    ELSE rec

\* The record of k, if it still is for the old fingerprint, carried over to f.
Carried(k, old, f) ==
    IF probes[k] # 0 /\ rec[probes[k]].fp = old
    THEN [rec EXCEPT ![probes[k]] =
             [rec[probes[k]] EXCEPT !.fp = f, !.gen = @ + 1, !.invalid = f \notin ReadOnly,
                       !.status = IF f \in ReadOnly THEN "unknown" ELSE "stale"]]
    ELSE rec

MayCarry(k) == \A r \in {probes[k]} \ {0} : rec[r].gen < scenario.generations

\* A schema refresh under lifecycle_guard: publish, then carry the probes over.
Transition(k, f) ==
    /\ Free /\ MayCarry(k)
    /\ contract[k] \notin {Absent, f}
    /\ contract' = [contract EXCEPT ![k] = f]
    /\ rec' = Carried(k, contract[k], f)
    /\ UNCHANGED <<probes, scenario, issued, cooldown, amending, quiesce, active, pc, loc>>

\* amend_capability: registry first ...
AmendPublish(k, f) ==
    /\ Writer /\ MayCarry(k)
    /\ amending = None
    /\ contract[k] \notin {Absent, f}
    /\ amending' = [key |-> k, old |-> contract[k], new |-> f]
    /\ contract' = [contract EXCEPT ![k] = f]
    /\ UNCHANGED <<probes, rec, scenario, issued, cooldown, quiesce, active, pc, loc>>

\* ... then the probes, unless the registered contract moved on, ...
AmendTransition ==
    /\ amending # None
    /\ MayCarry(amending.key)
    /\ rec' = IF contract[amending.key] = amending.new
              THEN Carried(amending.key, amending.old, amending.new) ELSE rec
    /\ amending' = None
    /\ UNCHANGED <<contract, probes, scenario, issued, cooldown, quiesce, active, pc, loc>>

\* ... or not at all: the binding could not be re-stamped (BindingDriftError).
AmendDrift ==
    /\ amending # None
    /\ amending' = None
    /\ UNCHANGED <<contract, probes, rec, scenario, issued, cooldown, quiesce, active, pc, loc>>

\* The registry is written without telling the monitor.
ForeignWrite(k) ==
    /\ Writer
    /\ \E f \in scenario.fps \cup {Absent} : contract' = [contract EXCEPT ![k] = f]
    /\ UNCHANGED <<probes, rec, scenario, issued, cooldown, amending, quiesce, active, pc, loc>>

-----------------------------------------------------------------------------
(* A probe task *)

\* Mutant: a probe that ends stays in the active set.
FinishStillActive(t) ==
    /\ pc' = [pc EXCEPT ![t] = "idle"]
    /\ loc' = [loc EXCEPT ![t] = Blank]
    /\ UNCHANGED active

\* The finally of _run_probe, which every way out of a started probe takes.
Finish(t) ==
    /\ pc' = [pc EXCEPT ![t] = "idle"]
    /\ loc' = [loc EXCEPT ![t] = Blank]
    /\ active' = active \ {t}

\* run_once takes the registrations of its cycle and waits for a slot.
Schedule(t) ==
    /\ Free /\ pc[t] = "idle"
    /\ \E k \in Keys : /\ probes[k] # 0
                       /\ loc' = [loc EXCEPT ![t].id = probes[k]]
    /\ pc' = [pc EXCEPT ![t] = "queued"]
    /\ UNCHANGED <<contract, probes, rec, scenario, issued, cooldown, amending, quiesce, active>>

SetStatus(r, status, by) ==
    rec' = [rec EXCEPT ![r] = [@ EXCEPT !.status = status, !.by = by]]

\* A registration that is gone, or whose contract moved, is not probed.
PrepareStale(t) ==
    /\ pc[t] = "queued" /\ Free /\ quiesce = 0
    /\ \/ probes[Key(t)] # loc[t].id /\ UNCHANGED rec
       \/ /\ probes[Key(t)] = loc[t].id /\ ~Current(loc[t].id)
          /\ SetStatus(loc[t].id, "stale", Rec(t).by)
    /\ Finish(t)
    /\ UNCHANGED <<contract, probes, scenario, issued, cooldown, amending, quiesce>>

\* The probe is let through for the generation and contract of its registration.
Begin(t) ==
    /\ pc' = [pc EXCEPT ![t] = "starting"]
    /\ loc' = [loc EXCEPT ![t] = [@ EXCEPT !.gen = Rec(t).gen, !.from = Rec(t).gen,
                                          !.fp = Rec(t).fp]]
    /\ active' = active \cup {t}

\* Mutant: a probe starts while a removal drains.
PrepareWhileDraining(t) ==
    /\ pc[t] = "queued" /\ Free
    /\ probes[Key(t)] = loc[t].id /\ Current(loc[t].id)
    /\ Begin(t)
    /\ UNCHANGED <<contract, probes, rec, scenario, issued, cooldown, amending, quiesce>>

\* Under the condition: no removal drains, the registration and its contract are current.
Prepare(t) ==
    /\ pc[t] = "queued" /\ Free /\ quiesce = 0
    /\ probes[Key(t)] = loc[t].id /\ Current(loc[t].id)
    /\ Begin(t)
    /\ UNCHANGED <<contract, probes, rec, scenario, issued, cooldown, amending, quiesce>>

Goto(t, place) == pc' = [pc EXCEPT ![t] = place]

StartAsync(t) ==
    /\ Key(t) \notin SyncKeys
    /\ Goto(t, "await")
    /\ UNCHANGED <<rec, loc, active>>

\* A synchronous callback goes to the worker pool, which may be full.
Submit(t) ==
    LET r == loc[t].id w == rec[r].worker IN
    /\ Key(t) \in SyncKeys /\ (w # None => w.done)
    /\ \/ /\ rec' = [rec EXCEPT ![r].worker = [by |-> t, gen |-> loc[t].gen,
                                                fp |-> loc[t].fp, done |-> FALSE]]
          /\ Goto(t, "await")
          /\ UNCHANGED loc
       \/ /\ rec' = [rec EXCEPT ![r].worker = None]
          /\ Goto(t, "commit")
          /\ loc' = [loc EXCEPT ![t].verdict = "bad"]
    /\ UNCHANGED active

\* The last worker of the registration still runs.
StartBusy(t) ==
    LET w == Rec(t).worker IN
    /\ Key(t) \in SyncKeys /\ w # None /\ ~w.done
    /\ IF w.gen = loc[t].gen
       THEN /\ Goto(t, "commit")
            /\ loc' = [loc EXCEPT ![t] = [@ EXCEPT !.verdict = "busy", !.from = w.gen, !.fp = w.fp]]
            /\ UNCHANGED active
       ELSE Finish(t)
    /\ UNCHANGED rec

\* The callback begins, or is handed to the pool.
Start(t) ==
    /\ pc[t] = "starting" /\ (Busy(t) \/ Free)
    /\ StartAsync(t) \/ Submit(t) \/ StartBusy(t)
    /\ UNCHANGED <<contract, probes, scenario, issued, cooldown, amending, quiesce>>

\* The pool's worker for this registration returns.
WorkerEnds(r) ==
    /\ Free
    /\ rec[r].worker # None /\ ~rec[r].worker.done
    /\ rec' = [rec EXCEPT ![r].worker.done = TRUE]
    /\ UNCHANGED <<scenario, contract, probes, issued, cooldown, amending, quiesce, active, pc, loc>>

\* The task stops waiting for its worker: forget the worker only if it is over.
Released(t) ==
    LET w == Rec(t).worker IN
    IF w # None /\ w.by = t /\ w.done THEN [rec EXCEPT ![loc[t].id].worker = None] ELSE rec

StillRunning(t) ==
    LET w == Rec(t).worker IN
    Key(t) \in SyncKeys /\ w # None /\ w.by = t /\ ~w.done

Answer(t, verdict) ==
    /\ pc' = [pc EXCEPT ![t] = "commit"]
    /\ loc' = [loc EXCEPT ![t].verdict = verdict]
    /\ rec' = Released(t)
    /\ UNCHANGED <<contract, probes, scenario, issued, cooldown, amending, quiesce, active>>

Outcome(t) ==
    /\ pc[t] = "await" /\ Free
    /\ ~StillRunning(t)
    /\ \E verdict \in {"ok", "bad"} : Answer(t, verdict)

Timeout(t) ==
    /\ pc[t] = "await" /\ Free
    /\ Answer(t, "bad")

\* stop(), or the caller of run_once, cancels the cycle.
Cancel(t) ==
    /\ pc[t] \in {"queued", "starting", "await"} /\ Free
    /\ rec' = Released(t)
    /\ Finish(t)
    /\ UNCHANGED <<contract, probes, scenario, issued, cooldown, amending, quiesce>>

\* Mutant: the verdict is committed for whatever generation the record now has.
CommitCheckAnyGeneration(t) ==
    /\ pc[t] = "commit"
    /\ \/ /\ probes[Key(t)] # loc[t].id
          /\ Finish(t) /\ UNCHANGED rec
       \/ /\ probes[Key(t)] = loc[t].id /\ ~Current(loc[t].id)
          /\ SetStatus(loc[t].id, "stale", Rec(t).by)
          /\ Finish(t)
       \/ /\ probes[Key(t)] = loc[t].id /\ Current(loc[t].id)
          /\ pc' = [pc EXCEPT ![t] = "mark"]
          /\ UNCHANGED <<rec, loc, active>>
    /\ UNCHANGED <<contract, probes, scenario, issued, cooldown, amending, quiesce>>

\* Commit: still this registration, this generation, this contract?
CommitCheck(t) ==
    /\ pc[t] = "commit"
    /\ LET mine == probes[Key(t)] = loc[t].id /\ Rec(t).gen = loc[t].gen IN
       \/ /\ ~mine
          /\ Finish(t) /\ UNCHANGED rec
       \/ /\ mine /\ ~Current(loc[t].id)
          /\ SetStatus(loc[t].id, "stale", Rec(t).by)
          /\ Finish(t)
       \/ /\ mine /\ Current(loc[t].id)
          /\ pc' = [pc EXCEPT ![t] = "mark"]
          /\ UNCHANGED <<rec, loc, active>>
    /\ UNCHANGED <<contract, probes, scenario, issued, cooldown, amending, quiesce>>

\* mark_access_available / mark_access_unavailable: the executor reads the
\* registered contract again, and raises KeyError if there is none.
CommitMark(t) ==
    /\ pc[t] = "mark"
    /\ IF contract[Key(t)] = Absent
       THEN Finish(t) /\ UNCHANGED cooldown
       ELSE /\ cooldown' = [cooldown EXCEPT ![Key(t)] =
                  IF loc[t].verdict = "ok" THEN None
                  ELSE [fp |-> contract[Key(t)], probed |-> loc[t].fp]]
            /\ pc' = [pc EXCEPT ![t] = "record"]
            /\ UNCHANGED <<loc, active>>
    /\ UNCHANGED <<contract, probes, rec, scenario, issued, amending, quiesce>>

CommitRecord(t) ==
    /\ pc[t] = "record"
    /\ SetStatus(loc[t].id, IF loc[t].verdict = "ok" THEN "healthy" ELSE "unhealthy", loc[t].from)
    /\ Finish(t)
    /\ UNCHANGED <<contract, probes, scenario, issued, cooldown, amending, quiesce>>

\* The cooldown runs out.
Expire(k) ==
    /\ Writer
    /\ cooldown[k] # None
    /\ cooldown' = [cooldown EXCEPT ![k] = None]
    /\ UNCHANGED <<contract, probes, rec, scenario, issued, amending, quiesce, active, pc, loc>>

-----------------------------------------------------------------------------
(* aremove_tool under lifecycle_guard(wait_for_inflight=True) *)

\* The guard's body: registry, probe, binding and cooldown of k go together;
\* a missing tool, or one another thread moved meanwhile, is refused.
RemoveTool(k) ==
    \/ /\ contract[k] # Absent
       /\ contract' = [contract EXCEPT ![k] = Absent]
       /\ probes' = [probes EXCEPT ![k] = 0]
       /\ cooldown' = [cooldown EXCEPT ![k] = None]
    \/ /\ contract[k] = Absent \/ OtherThreads
       /\ UNCHANGED <<contract, probes, cooldown>>

\* Nothing to drain: entering, removing and leaving the guard is one step.
RemoveNow(r) ==
    /\ pc[r] = "idle" /\ Free
    /\ active = {}
    /\ \E k \in Keys : RemoveTool(k)
    /\ UNCHANGED <<rec, scenario, issued, amending, quiesce, active, pc, loc>>

RemoveWait(r) ==
    /\ pc[r] = "idle" /\ Free
    /\ active # {} /\ quiesce < MaxQuiesce
    /\ quiesce' = quiesce + 1
    /\ pc' = [pc EXCEPT ![r] = "draining"]
    /\ \E k \in Keys : loc' = [loc EXCEPT ![r].key = k]
    /\ UNCHANGED <<contract, probes, rec, scenario, issued, cooldown, amending, active>>

\* Mutant: woken by the first probe that ends, the removal goes ahead.
RemoveDrainedOnce(r) ==
    /\ pc[r] = "draining" /\ Free
    /\ Cardinality(active) < Cardinality(Tasks)
    /\ RemoveTool(loc[r].key)
    /\ quiesce' = quiesce - 1
    /\ pc' = [pc EXCEPT ![r] = "idle"]
    /\ loc' = [loc EXCEPT ![r] = Blank]
    /\ UNCHANGED <<rec, scenario, issued, amending, active>>

RemoveDrained(r) ==
    /\ pc[r] = "draining" /\ Free
    /\ active = {}
    /\ RemoveTool(loc[r].key)
    /\ quiesce' = quiesce - 1
    /\ pc' = [pc EXCEPT ![r] = "idle"]
    /\ loc' = [loc EXCEPT ![r] = Blank]
    /\ UNCHANGED <<rec, scenario, issued, amending, active>>

\* Cancelled while waiting: the guard's try block was never entered, so its
\* finally does not run and the request stays counted.
RemoveCancelled(r) ==
    /\ CancelRemovals
    /\ pc[r] = "draining" /\ Free
    /\ pc' = [pc EXCEPT ![r] = "idle"]
    /\ loc' = [loc EXCEPT ![r] = Blank]
    /\ UNCHANGED <<contract, probes, rec, scenario, issued, cooldown, amending, quiesce, active>>

\* An asynchronous callback removes a tool.  Its task is active, so it does not
\* wait, if wait_for left it in that task.
RemoveInside(t) ==
    /\ Reentrant
    /\ pc[t] = "await" /\ Free /\ Key(t) \notin SyncKeys
    /\ \/ /\ WaitInOwnTask
          /\ \E k \in Keys : RemoveTool(k)
          /\ UNCHANGED <<quiesce, pc>>
       \/ /\ ~WaitInOwnTask /\ quiesce < MaxQuiesce
          /\ quiesce' = quiesce + 1
          /\ pc' = [pc EXCEPT ![t] = "nested"]
          /\ UNCHANGED <<contract, probes, cooldown>>
    /\ UNCHANGED <<rec, scenario, issued, amending, active, loc>>

\* The probe's own timeout cancels the nested removal, which waits for this very probe.
NestedTimeout(t) ==
    /\ pc[t] = "nested" /\ Free
    /\ Answer(t, "bad")

-----------------------------------------------------------------------------
Init ==
    /\ scenario \in Scenarios
    /\ contract \in [Keys -> scenario.fps]
    /\ probes = [k \in Keys |-> 0]
    /\ rec = [r \in Ids |-> [key |-> Blank.key, fp |-> CHOOSE f \in Fps : TRUE, gen |-> 0,
                             by |-> 0, invalid |-> FALSE, status |-> "unknown",
                             worker |-> None]]
    /\ issued = 0
    /\ cooldown = [k \in Keys |-> None]
    /\ amending = None
    /\ quiesce = 0
    /\ active = {}
    /\ pc = [t \in Tasks \cup Removers |-> "idle"]
    /\ loc = [t \in Tasks \cup Removers |-> Blank]

Probe(t) ==
    \/ Schedule(t) \/ PrepareStale(t) \/ Prepare(t) \/ Start(t)
    \/ Outcome(t) \/ Timeout(t) \/ Cancel(t)
    \/ CommitCheck(t) \/ CommitMark(t) \/ CommitRecord(t)
    \/ RemoveInside(t) \/ NestedTimeout(t)

Remove(r) == RemoveNow(r) \/ RemoveWait(r) \/ RemoveDrained(r) \/ RemoveCancelled(r)

Next ==
    \/ \E k \in Keys : Register(k) \/ Unregister(k) \/ ForeignWrite(k) \/ Expire(k)
    \/ \E k \in Keys, f \in scenario.fps : Transition(k, f) \/ AmendPublish(k, f)
    \/ AmendTransition \/ AmendDrift
    \/ \E t \in Tasks : Probe(t)
    \/ \E r \in Ids : WorkerEnds(r)
    \/ \E r \in scenario.removers : Remove(r)

\* The loop runs its ready tasks in order, so a task that is ready again and
\* again gets its turn: a callback begins, answers or times out (the timer fires
\* whether or not the callback returns), a commit is carried through, and a
\* drained removal resumes.  A synchronous amendment returns.
Fairness ==
    /\ \A t \in Tasks : /\ SF_vars(Start(t))
                        /\ SF_vars(Timeout(t))
                        /\ SF_vars(NestedTimeout(t))
                        /\ WF_vars(CommitCheck(t) \/ CommitMark(t) \/ CommitRecord(t))
    /\ \A r \in Removers : SF_vars(RemoveDrained(r))
    /\ WF_vars(AmendTransition \/ AmendDrift)

Spec == Init /\ [][Next]_vars /\ Fairness

-----------------------------------------------------------------------------
(* Properties *)

InFlight(t) == pc[t] \in {"starting", "await", "nested"} \/ Committing(t)

\* Types; the active set is exactly the tasks inside a started probe.
HealthTypeOK ==
    /\ scenario \in Scenarios
    /\ contract \in [Keys -> Fps \cup {Absent}]
    /\ probes \in [Keys -> 0 .. issued]
    /\ rec \in [Ids -> Records]
    /\ issued \in 0 .. scenario.records
    /\ cooldown \in [Keys -> Cooldowns \cup {None}]
    /\ amending \in [key : Keys, old : Fps, new : Fps] \cup {None}
    /\ quiesce \in Nat
    /\ loc \in [Tasks \cup Removers -> Locals]
    /\ active = {t \in Tasks : InFlight(t)}

\* The status of a registration is the verdict of a callback of its current
\* generation (lifecycle_guard: the result of an invalidated generation is
\* discarded at commit time).
StatusOfOwnGeneration ==
    \A r \in 1 .. issued :
        rec[r].status \in {"healthy", "unhealthy"} => rec[r].by = rec[r].gen

\* A verdict counts only for the contract it is about: the cooldown of a path
\* and the status of a registration come from a callback that was started for
\* that very contract and generation.  A transition while the callback runs, or
\* while a timed-out worker is still running, discards the result (health.py:
\* lifecycle_guard, _run_probe), as long as every writer runs on the loop.
VerdictFitsContract ==
    OtherThreads \/
    /\ \A k \in Keys : cooldown[k] # None => cooldown[k].fp = cooldown[k].probed
    /\ StatusOfOwnGeneration

\* The callback of t begins, or is handed to a thread.
Called(t) == pc[t] = "starting" /\ pc'[t] = "await"

\* A callback begins only where it was let through for a read-only contract, whatever
\* transitions the registration went through (health.py:328), and that contract is
\* the registered one then; unless somebody wrote between the look at the contract
\* and the start of the callback, which other threads can, and steps of the loop
\* where the callback starts a turn later.
NoProbeOfMutatingPath ==
    [][\A t \in Tasks : Called(t) =>
          /\ loc[t].fp \in ReadOnly
          /\ contract[Key(t)] = loc[t].fp \/ OtherThreads \/ StartsLater(t)]_vars

\* A step that takes a tool and its probe away: the body of aremove_tool.
Removed(k) == /\ probes[k] # 0 /\ contract[k] # Absent
              /\ probes'[k] = 0 /\ contract'[k] = Absent

\* When a removal takes a probed tool away, no probe callback is in flight, unless
\* callbacks may remove tools and wait_for leaves them in the task of the probe.
RemovalDrains ==
    [][\A k \in Keys : Removed(k) =>
         \/ Reentrant /\ WaitInOwnTask
         \/ \A t \in Tasks : ~InFlight(t)]_vars

\* A removal that waits for running probes goes through: callbacks are bounded
\* by their timeout and no new probe starts meanwhile.
RemovalEnds ==
    \A r \in Removers : pc[r] = "draining" ~> pc[r] = "idle"

(* Claims of the documentation that the code does not keep *)

\* lifecycle_guard: new probes are prevented from starting WHILE a destructive
\* operation drains.  So a counted request belongs to an operation that exists.
QuiesceHasARequest ==
    quiesce > 0 => \/ \E r \in Removers : pc[r] = "draining"
                   \/ \E t \in Tasks : pc[t] = "nested"

\* lifecycle_guard: a probe that re-enters a destructive operation never waits
\* for itself.
NeverWaitsForItself == \A t \in Tasks : pc[t] # "nested"

\* lifecycle_guard: destructive operations drain already-started probes.  So a
\* removal issued from inside a probe runs beside no probe but that one.
ReentrantRemovalDrainsOthers ==
    [][\A k \in Keys : Removed(k) => Cardinality({t \in Tasks : InFlight(t)}) <= 1]_vars

\* Health probes are explicitly read-only (docs/architecture.md:81): no callback
\* begins while the endpoint of its path is not.
OnlyReadOnlyProbed == [][\A t \in Tasks : Called(t) => contract[Key(t)] \in ReadOnly]_vars

\* _run_probe: a worker found busy is one whose probe timed out or was
\* cancelled, so "busy" may count as that failure; its submitter waits no more.
BusyMeansAbandoned ==
    \A t \in Tasks : (pc[t] = "commit" /\ loc[t].verdict = "busy") =>
        LET w == Rec(t).worker IN
        w # None => ~(pc[w.by] = "await" /\ loc[w.by].id = loc[t].id)

=============================================================================
