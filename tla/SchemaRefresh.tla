----------------------------- MODULE SchemaRefresh -----------------------------
(***************************************************************************)
(* Keeping one registered contract in step with its provider: the watcher  *)
(* of remote sources (SchemaWatchManager over SchemaRouter.arefresh_schema,*)
(* with its conditional requests) and that of native ones                  *)
(* (NativeSchemaLifecycleManager).  A refresh reads the registry, awaits   *)
(* the provider's document, compares, and then applies it, reports it or   *)
(* leaves it pending for an operator, while the provider, other refreshes, *)
(* the operator and writers of other processes move on.                    *)
(*                                                                         *)
(* Other watched tools matter only through the registry version they share.*)
(* An ETag stands for the document it came with.                           *)
(***************************************************************************)
EXTENDS Registry

CONSTANTS
    Tool,       \* the watched tool
    Documents,  \* contracts as a provider can describe them
    DocOf,      \* contract -> the document it was built from
    Amended,    \* document -> that contract under the tool's amendment, Absent: in conflict
    SourceOf,   \* contract -> structured source identity, not fingerprinted
    Verdict,    \* <<old, new>> -> "identical", "compatible" or "review"
    Tasks,      \* callers that run operations
    None,
    Worlds      \* see World

\* Which kind of watch, the operations each task runs, the contracts around,
\* whether the provider knows ETags, whether compatible changes may be applied;
\* model bounds: moves of the provider, faults, operations started, writes of
\* others, watches registered.
World == [kind : {"remote", "native"}, ops : [Tasks -> SUBSET {"check", "accept", "reject",
             "watch", "unwatch", "remove", "refresh", "sweep", "refreshNative", "acceptNative"}],
          pool : SUBSET Contracts, conditional : BOOLEAN, apply : BOOLEAN,
          moves : Nat, faults : Nat, starts : Nat, others : Nat, watches : Nat]

\* The answer of a refresh: what was decided, on which contract, for which candidate.
Decisions == [action : {"unchanged", "applied", "report_only", "pending_review"},
              reviewed : Fps, candidate : Fps, source : {SourceOf[c] : c \in Contracts}]

ASSUME RefreshAssumption ==
    /\ Worlds \subseteq World
    /\ None \notin Tasks \cup Decisions
    /\ Tool \in Keys
    /\ Documents \subseteq Contracts
    /\ DocOf \in [Contracts -> Documents]
    /\ Amended \in [Documents -> Contracts \cup {Absent}]
    /\ \A d \in Documents : DocOf[d] = d /\ (Amended[d] # Absent => DocOf[Amended[d]] = d)
    /\ Verdict \in [Contracts \X Contracts -> {"identical", "compatible", "review"}]

VARIABLES
    world,      \* chosen once
    remote,     \* the document the provider serves
    record,     \* _records[Tool] of the watcher, None: no watch
    runLock,    \* _run_lock: the task that holds it
    validators, \* _schema_http_validators[Tool]: <<source, document>> or None
    refresher,  \* native: Tool has a refresh binding
    pending,    \* native: _pending[Tool], a document or None
    job,        \* task -> the operation it runs
    shown,      \* the <<reviewed, candidate>> fingerprints the operator looked at last
    counts      \* model bounds, see World

watchVars == <<record, runLock>>
nativeVars == <<refresher, pending>>
vars == <<registryVars, world, remote, watchVars, validators, nativeVars, job, shown, counts>>

Remote == world.kind = "remote"
Current == tools[Tool]
FreeJob == [op |-> "none", at |-> "idle", watch |-> None, base |-> 0, current |-> None,
            candidate |-> None, sent |-> None, expect |-> None, result |-> None]

Spend(what) == counts[what] < world[what] /\ counts' = [counts EXCEPT ![what] = @ + 1]

\* A watched operation is pinned to one watch record, as it was at its start.
Pinned(t) == job[t].op \in {"check", "accept"}
ActiveWatch(t) == record # None /\ record.gen = job[t].watch.gen
Pin == [gen |-> record.gen, fp |-> record.fp, source |-> record.source]

\* _watch_commit_guard: the membership lock is held across the commit.
Committing == \E t \in Tasks : Pinned(t) /\ job[t].at = "remember"

Step(t, r) == job' = [job EXCEPT ![t] = r]
At(t, place) == job[t].at = place
Goto(t, place) == Step(t, [job[t] EXCEPT !.at = place])
Result(t, r) == Step(t, [job[t] EXCEPT !.at = "conclude", !.result = r])

\* The operation returns and gives up the run lock if it took it.
Done(t) ==
    /\ Step(t, FreeJob)
    /\ runLock' = IF runLock = t THEN None ELSE runLock

-----------------------------------------------------------------------------
(* Comparing *)

IsAmended(c) == c # DocOf[c]

\* The contract a document means for the registered one: its amendment reapplied.
Effective(c, doc) == IF IsAmended(c) THEN Amended[doc] ELSE doc

\* The provider changed beneath an amendment that hides the change.
ChangedUnder(c, doc) ==
    /\ IsAmended(c) /\ Effective(c, doc) # Absent
    /\ Verdict[DocOf[c], doc] # "identical"
    /\ Verdict[c, Effective(c, doc)] = "identical"

Compared(c, doc) ==
    IF Effective(c, doc) = Absent \/ Verdict[DocOf[c], doc] = "review" THEN "review"
    ELSE Verdict[c, Effective(c, doc)]

\* What becomes of a document fetched without an operator's decision.
Outcome(c, doc, apply) ==
    CASE Compared(c, doc) = "identical" /\ ~ChangedUnder(c, doc) -> "unchanged"
      [] apply /\ (Compared(c, doc) = "compatible" \/ ChangedUnder(c, doc)) -> "apply"
      [] OTHER -> IF Compared(c, doc) = "compatible" THEN "report_only" ELSE "pending_review"

Candidate(c, doc) == IF Effective(c, doc) = Absent THEN doc ELSE Effective(c, doc)

Decided(action, c, new) ==
    [action |-> action, reviewed |-> FpOf[c], candidate |-> FpOf[new], source |-> SourceOf[new]]

\* The validators a contract carries in its metadata.
Carried(c) == IF world.conditional THEN <<SourceOf[c], DocOf[c]>> ELSE None

\* schema_http_validators_for: cached ones of the same source, else the contract's own.
ValidatorsFor(c) ==
    IF validators # None /\ validators[1] = SourceOf[c] THEN validators ELSE Carried(c)

\* _contract_status: what makes a watch stale.
Staleness ==
    CASE Current = Absent -> "stale"
      [] Current # Absent /\ SourceOf[Current] # record.source -> "stale_source"
      [] Current # Absent /\ SourceOf[Current] = record.source
                          /\ FpOf[Current] # record.fp -> "stale_contract"
      [] OTHER -> None

Stale(status) == record' = [record EXCEPT !.status = status, !.pending = None]

-----------------------------------------------------------------------------
(* Operations begin *)

Starts(t, op) == At(t, "idle") /\ op \in world.ops[t]

\* run_once: a due record of the sweep
StartCheck(t) ==
    /\ Starts(t, "check")
    /\ record # None /\ runLock = None
    /\ Step(t, [FreeJob EXCEPT !.op = "check", !.at = "status", !.watch = Pin])
    /\ runLock' = t
    /\ UNCHANGED <<registryVars, world, remote, record, validators, nativeVars, shown, counts>>

\* _run_record, before it refreshes
CheckStatus(t) ==
    /\ At(t, "status")
    /\ IF ActiveWatch(t) /\ Staleness = None
       THEN Step(t, [job[t] EXCEPT !.at = "version", !.watch = Pin]) /\ UNCHANGED watchVars
       ELSE /\ Done(t)
            /\ IF ActiveWatch(t) THEN Stale(Staleness) ELSE UNCHANGED record
    /\ UNCHANGED <<registryVars, world, remote, validators, nativeVars, shown, counts>>

\* pending_review() hands the operator a candidate.
Show ==
    /\ record # None /\ record.pending # None
    /\ shown' = <<record.pending.reviewed, record.pending.candidate>>
    /\ UNCHANGED <<registryVars, world, remote, watchVars, validators, nativeVars, job, counts>>

\* _expected_pending_candidate
Expected ==
    /\ record # None /\ record.pending # None
    /\ shown # None /\ record.pending.candidate = shown[2]
    /\ record.pending.reviewed = record.fp

\* accept_pending or reject_pending finds the candidate the operator names, but
\* the watched contract is no longer the registered one.
DecideTooLate(t) ==
    /\ At(t, "idle") /\ world.ops[t] \cap {"accept", "reject"} # {}
    /\ runLock = None
    /\ Expected
    /\ Staleness # None
    /\ Stale(Staleness)
    /\ UNCHANGED <<registryVars, world, remote, runLock, validators, nativeVars, job, shown, counts>>

StartAccept(t) ==
    /\ Starts(t, "accept")
    /\ runLock = None
    /\ Expected
    /\ Staleness = None
    /\ Spend("starts")
    /\ Step(t, [FreeJob EXCEPT !.op = "accept", !.at = "version", !.watch = Pin,
                               !.expect = record.pending])
    /\ runLock' = t
    /\ UNCHANGED <<registryVars, world, remote, record, validators, nativeVars, shown>>

Reject(t) ==
    /\ Starts(t, "reject")
    /\ runLock = None
    /\ Expected
    /\ Staleness = None
    /\ Spend("starts")
    /\ record' = [record EXCEPT !.pending = None, !.status = "rejected"]
    /\ UNCHANGED <<registryVars, world, remote, runLock, validators, nativeVars, job, shown>>

\* A refresh outside the watcher; a native one, also by the loop's sweep.
StartRefresh(t, op) ==
    /\ Starts(t, op)
    /\ op \in {"sweep", "refreshNative"} => refresher
    /\ IF op = "sweep" THEN (\A s \in Tasks : job[s].op # "sweep") /\ UNCHANGED counts
                       ELSE Spend("starts")
    /\ Step(t, [FreeJob EXCEPT !.op = op, !.at = "version"])
    /\ UNCHANGED <<registryVars, world, remote, watchVars, validators, nativeVars, shown>>

\* Native: the operator names the pending candidate he knows.
StartAcceptNative(t) ==
    /\ Starts(t, "acceptNative")
    /\ pending # None
    /\ Spend("starts")
    /\ Step(t, [FreeJob EXCEPT !.op = "acceptNative", !.at = "version", !.expect = pending])
    /\ UNCHANGED <<registryVars, world, remote, watchVars, validators, nativeVars, shown>>

\* register() reads the tool, then installs its record under a generation of its own.
StartWatch(t) ==
    /\ Starts(t, "watch")
    /\ Current # Absent
    /\ Spend("watches")
    /\ Step(t, [FreeJob EXCEPT !.op = "watch", !.at = "store", !.current = Current,
                               !.base = counts.watches + 1])
    /\ UNCHANGED <<registryVars, world, remote, watchVars, validators, nativeVars, shown>>

Watch(gen, c) ==
    [gen |-> gen, fp |-> FpOf[c], source |-> SourceOf[c], status |-> "idle", pending |-> None]

StoreWatch(t) ==
    /\ At(t, "store")
    /\ ~Committing
    /\ record' = Watch(job[t].base, job[t].current)
    /\ Step(t, FreeJob)
    /\ UNCHANGED <<registryVars, world, remote, runLock, validators, nativeVars, shown, counts>>

Unwatch(t) ==
    /\ Starts(t, "unwatch")
    /\ record # None
    /\ ~Committing
    /\ record' = None
    /\ UNCHANGED <<registryVars, world, remote, runLock, validators, nativeVars, job, shown, counts>>

\* aremove_tool: under the run lock, first the registry, then everything else
StartRemove(t) ==
    /\ Starts(t, "remove")
    /\ runLock = None
    /\ Current # Absent
    /\ UnregisterIfFingerprint(Tool, FpOf[Current], version)
    /\ Step(t, [FreeJob EXCEPT !.op = "remove", !.at = "purge"])
    /\ runLock' = t
    /\ UNCHANGED <<world, remote, record, validators, nativeVars, shown, counts>>

Purge(t) ==
    /\ At(t, "purge")
    /\ record' = None /\ validators' = None
    /\ refresher' = FALSE /\ pending' = None
    /\ Done(t)
    /\ UNCHANGED <<registryVars, world, remote, shown, counts>>

-----------------------------------------------------------------------------
(* The refresh *)

ReadVersion(t) ==
    /\ At(t, "version")
    /\ Step(t, [job[t] EXCEPT !.at = "read", !.base = version])
    /\ UNCHANGED <<registryVars, world, remote, watchVars, validators, nativeVars, shown, counts>>

\* An exception leaves the refresh: the tool is gone or not what the caller
\* pinned, the provider fails, the timeout passes, the compare-and-swap is lost.
Raises(t) ==
    /\ Done(t)
    /\ IF job[t].op = "check" /\ ActiveWatch(t)
       THEN IF Staleness # None THEN Stale(Staleness)
            ELSE record' = [record EXCEPT !.status = "error"]
       ELSE UNCHANGED record
    /\ UNCHANGED <<world, remote, nativeVars, shown>>

\* The tool is there, and what a watched operation pinned.
AsPinned(t) ==
    /\ Current # Absent
    /\ Pinned(t) => SourceOf[Current] = job[t].watch.source /\ FpOf[Current] = job[t].watch.fp

ReadTool(t) ==
    /\ At(t, "read")
    /\ AsPinned(t)
    /\ LET here == [job[t] EXCEPT !.current = Current] IN
       CASE job[t].op = "acceptNative" ->
               /\ Step(t, [here EXCEPT !.at = "apply", !.candidate = here.expect])
               /\ UNCHANGED validators
         [] job[t].op \in {"sweep", "refreshNative"} ->
               Step(t, [here EXCEPT !.at = "fetch"]) /\ UNCHANGED validators
         [] OTHER ->
               /\ Step(t, [here EXCEPT !.at = "fetch", !.sent = ValidatorsFor(Current)])
               /\ validators' = ValidatorsFor(Current)
    /\ UNCHANGED <<registryVars, world, remote, watchVars, nativeVars, shown, counts>>

ReadFails(t) ==
    /\ At(t, "read")
    /\ ~AsPinned(t)
    /\ Raises(t)
    /\ UNCHANGED <<registryVars, validators, counts>>

\* The provider, or the timeout while it or a lifecycle guard is awaited.
Fails(t) ==
    /\ At(t, "fetch") \/ (At(t, "apply") /\ Pinned(t))
    /\ Spend("faults")
    /\ Raises(t)
    /\ UNCHANGED <<registryVars, validators>>

\* SchemaNotModifiedError
NotModified(t) ==
    /\ At(t, "fetch")
    /\ job[t].sent # None /\ job[t].sent[2] = remote
    /\ validators' = <<SourceOf[job[t].current], remote>>
    /\ Result(t, Decided("unchanged", job[t].current, job[t].current))
    /\ UNCHANGED <<registryVars, world, remote, watchVars, nativeVars, shown, counts>>

\* Mutant: the validators of any fetched document are remembered.
FetchedRemembering(t) ==
    LET c == job[t].current  outcome == Outcome(c, remote, world.apply) IN
    /\ At(t, "fetch") /\ job[t].op \in {"check", "refresh"}
    /\ IF outcome = "apply"
       THEN Step(t, [job[t] EXCEPT !.at = "apply", !.candidate = Effective(c, remote)])
       ELSE Result(t, Decided(outcome, c, Candidate(c, remote)))
    /\ validators' = Carried(remote)
    /\ UNCHANGED <<registryVars, world, remote, watchVars, nativeVars, shown, counts>>

\* A document arrives for a check or a refresh without an operator.
Fetched(t) ==
    LET c == job[t].current  outcome == Outcome(c, remote, world.apply) IN
    /\ At(t, "fetch") /\ job[t].op \in {"check", "refresh"}
    /\ IF outcome = "apply"
       THEN Step(t, [job[t] EXCEPT !.at = "apply", !.candidate = Effective(c, remote)])
       ELSE Result(t, Decided(outcome, c, Candidate(c, remote)))
    /\ validators' = IF outcome = "unchanged" THEN Carried(remote) ELSE validators
    /\ UNCHANGED <<registryVars, world, remote, watchVars, nativeVars, shown, counts>>

\* Mutant: whatever is there now is accepted.
FetchedUnreviewed(t) ==
    LET c == job[t].current  new == Candidate(c, remote) IN
    /\ At(t, "fetch") /\ job[t].op = "accept"
    /\ IF Effective(c, remote) # Absent
       THEN Step(t, [job[t] EXCEPT !.at = "apply", !.candidate = new])
       ELSE Result(t, Decided("pending_review", c, new))
    /\ UNCHANGED <<registryVars, world, remote, watchVars, validators, nativeVars, shown, counts>>

\* The refetched document must still be the candidate that was reviewed.
FetchedForReview(t) ==
    LET c == job[t].current  new == Candidate(c, remote) IN
    /\ At(t, "fetch") /\ job[t].op = "accept"
    /\ IF /\ Effective(c, remote) # Absent
          /\ SourceOf[new] = job[t].expect.source
          /\ FpOf[new] = job[t].expect.candidate
       THEN Step(t, [job[t] EXCEPT !.at = "apply", !.candidate = new])
       ELSE Result(t, Decided("pending_review", c, new))
    /\ UNCHANGED <<registryVars, world, remote, watchVars, validators, nativeVars, shown, counts>>

\* A native source is introspected.
Introspected(t) ==
    LET verdict == Verdict[job[t].current, remote] IN
    /\ At(t, "fetch") /\ job[t].op \in {"sweep", "refreshNative"}
    /\ IF verdict = "compatible" /\ world.apply
       THEN /\ Step(t, [job[t] EXCEPT !.at = "apply", !.candidate = remote])
            /\ UNCHANGED pending
       ELSE /\ Step(t, FreeJob)
            /\ pending' = CASE verdict = "identical" -> None
                             [] verdict = "review" -> remote
                             [] OTHER -> pending
    /\ UNCHANGED <<registryVars, world, remote, watchVars, validators, refresher, shown, counts>>

\* The write goes through: same version, same fingerprint, watch still active.
MayCommit(t) ==
    /\ Pinned(t) => ActiveWatch(t)
    /\ version = job[t].base
    /\ Holds(Tool, FpOf[job[t].current])

\* The compare-and-swap; binding the new contract and undoing the write if that
\* fails (publish_bound_tool) is BindingLifecycle's.  Native: whatever is pending
\* by then is dropped.
Commit(t) ==
    /\ At(t, "apply")
    /\ MayCommit(t)
    /\ ReplaceIfFingerprint(Tool, job[t].candidate, FpOf[job[t].current], job[t].base)
    /\ IF Remote THEN Goto(t, "remember") /\ UNCHANGED pending
                 ELSE Step(t, FreeJob) /\ pending' = None
    /\ UNCHANGED <<world, remote, watchVars, validators, refresher, shown, counts>>

CommitLost(t) ==
    /\ At(t, "apply")
    /\ ~MayCommit(t)
    /\ Raises(t)
    /\ UNCHANGED <<registryVars, validators, counts>>

\* After the write: its validators, read back from the registry unless amended.
Remember(t) ==
    /\ At(t, "remember")
    /\ IsAmended(job[t].current) \/ Current # Absent
    /\ validators' = Carried(IF IsAmended(job[t].current) THEN job[t].candidate ELSE Current)
    /\ Result(t, Decided("applied", job[t].current, job[t].candidate))
    /\ UNCHANGED <<registryVars, world, remote, watchVars, nativeVars, shown, counts>>

RememberFails(t) ==
    /\ At(t, "remember")
    /\ ~IsAmended(job[t].current) /\ Current = Absent
    /\ Raises(t)
    /\ UNCHANGED <<registryVars, validators, counts>>

-----------------------------------------------------------------------------
(* The watcher draws its conclusions *)

\* Mutant: an applied refresh leaves the pending review.
AfterApplyKeeping(r) == [record EXCEPT !.status = "applied", !.fp = r.candidate]

\* The record after an applied refresh, if the registry still holds its result.
AfterApply(r) ==
    CASE Current = Absent -> [record EXCEPT !.status = "stale", !.pending = None]
      [] Current # Absent /\ SourceOf[Current] # record.source ->
            [record EXCEPT !.status = "stale_source", !.pending = None]
      [] Current # Absent /\ SourceOf[Current] = record.source /\ FpOf[Current] # r.candidate ->
            [record EXCEPT !.status = "stale_contract", !.pending = None]
      [] OTHER -> [record EXCEPT !.status = "applied", !.pending = None, !.fp = r.candidate]

AfterCheck(r) ==
    CASE r.action = "applied" -> AfterApply(r)
      [] r.action # "applied" /\ Staleness # None ->
            [record EXCEPT !.status = Staleness, !.pending = None]
      [] r.action = "pending_review" /\ Staleness = None ->
            [record EXCEPT !.status = "pending_review", !.pending = r]
      [] OTHER -> [record EXCEPT !.status = r.action, !.pending = None]

AfterAccept(r) ==
    CASE r.action = "pending_review" -> [record EXCEPT !.status = "pending_review", !.pending = r]
      [] r.action = "applied" /\ Current # Absent -> AfterApply(r)
      [] OTHER -> record

Conclude(t) ==
    /\ At(t, "conclude")
    /\ record' = CASE Pinned(t) /\ ActiveWatch(t) /\ job[t].op = "check" -> AfterCheck(job[t].result)
                   [] Pinned(t) /\ ActiveWatch(t) /\ job[t].op = "accept" -> AfterAccept(job[t].result)
                   [] OTHER -> record
    /\ Done(t)
    /\ UNCHANGED <<registryVars, world, remote, validators, nativeVars, shown, counts>>

-----------------------------------------------------------------------------
(* The world around *)

ProviderMoves ==
    /\ Spend("moves")
    /\ remote' \in (Documents \cap world.pool) \ {remote}
    /\ UNCHANGED <<registryVars, world, watchVars, validators, nativeVars, job, shown>>

\* Another process, or a caller that writes the registry directly.
OtherWrites ==
    /\ Spend("others")
    /\ Unregister(Tool) \/ \E c \in world.pool : Register(Tool, c, TRUE)
    /\ UNCHANGED <<world, remote, watchVars, validators, nativeVars, job, shown>>

Init ==
    /\ world \in Worlds
    /\ \E c \in world.pool :
          /\ tools = [k \in Keys |-> IF k = Tool THEN c ELSE Absent]
          /\ remote = DocOf[c]
          /\ record = IF Remote THEN Watch(0, c) ELSE None
          /\ validators = IF Remote THEN Carried(c) ELSE None
    /\ version = 0
    /\ mutations = [w \in {} |-> {}]
    /\ history = [v \in {0} |-> tools]
    /\ runLock = None
    /\ refresher = ~Remote
    /\ pending = None
    /\ job = [t \in Tasks |-> FreeJob]
    /\ shown = None
    /\ counts = [what \in {"moves", "faults", "starts", "others", "watches"} |-> 0]

Progress(t) ==
    \/ CheckStatus(t) \/ ReadVersion(t) \/ ReadTool(t) \/ ReadFails(t)
    \/ NotModified(t) \/ Fetched(t) \/ FetchedForReview(t) \/ Introspected(t)
    \/ Commit(t) \/ CommitLost(t) \/ Remember(t) \/ RememberFails(t)
    \/ Conclude(t) \/ StoreWatch(t) \/ Purge(t)

Begin(t) ==
    \/ DecideTooLate(t) \/ StartAccept(t) \/ Reject(t) \/ StartAcceptNative(t)
    \/ StartRefresh(t, "refresh") \/ StartRefresh(t, "refreshNative")
    \/ StartWatch(t) \/ Unwatch(t) \/ StartRemove(t) \/ Fails(t)

Loop(t) == StartCheck(t) \/ StartRefresh(t, "sweep")

Next ==
    \/ \E t \in Tasks : Progress(t) \/ Begin(t) \/ Loop(t)
    \/ Show \/ ProviderMoves \/ OtherWrites

\* Tasks that can run do, providers answer, and the background loop gets its
\* turn at the run lock (asyncio.Lock is first come, first served).
Fairness ==
    /\ \A t \in Tasks : WF_vars(Progress(t))
    /\ SF_vars(\E t \in Tasks : Loop(t))

Spec == Init /\ [][Next]_vars /\ Fairness

-----------------------------------------------------------------------------
(* Properties *)

Resting == {"idle", "unchanged", "applied", "report_only", "rejected"}
StaleStates == {"stale", "stale_source", "stale_contract"}

\* One operation at a time holds the run lock, and a watch shows a review exactly
\* while there is one: against the contract it watches, never left over from a
\* contract that was replaced, removed or decided upon (schema_watch.py:428).
WatchTypeOK ==
    /\ \A t \in Tasks : Pinned(t) \/ job[t].op = "remove" => runLock = t
    /\ record # None =>
          /\ record.status \in Resting \cup StaleStates \cup {"pending_review", "error"}
          /\ record.status = "pending_review" => record.pending # None
          /\ record.status \in Resting \cup StaleStates => record.pending = None
          /\ record.pending # None => record.pending.reviewed = record.fp

\* A breaking change of the document takes effect nowhere: an amendment hides it.
Hidden(old, new) == IsAmended(old) /\ Verdict[old, new] = "identical"

\* A refresh only writes over the very contract it compared, with nothing in
\* between, and never for a watch that was given up or re-registered meanwhile
\* (docs/guides/schema-drift.md:140).  Without an operator, what takes effect is
\* proven compatible, and so is the provider's own change unless an amendment
\* hides it (runtime.py:3580); with one, it is the candidate he named, pending for
\* this very contract.
OnlyDueWrites ==
    [][\A t \in Tasks :
          At(t, "apply") /\ job'[t].at # "apply" /\ version' # version =>
            LET old == Current  new == tools'[Tool]  op == job[t].op IN
            /\ old = job[t].current
            /\ Pinned(t) => /\ record # None
                            /\ record.source = SourceOf[old] /\ record.fp = FpOf[old]
            /\ IF op \in {"check", "refresh", "sweep", "refreshNative"}
               THEN /\ world.apply /\ Verdict[old, new] # "review"
                    /\ op \in {"check", "refresh"} =>
                          Verdict[DocOf[old], DocOf[new]] # "review" \/ Hidden(old, new)
               ELSE op = "accept" =>
                       /\ FpOf[new] = job[t].expect.candidate
                       /\ FpOf[old] = job[t].expect.reviewed
                       /\ SourceOf[new] = job[t].expect.source]_vars

\* What the watcher knows of a document that differs from the registered contract.
Noticed ==
    IF Remote
    THEN \/ record = None
         \/ record.status \in StaleStates
         \/ Current # Absent /\
               \/ Compared(Current, remote) = "identical" /\ ~ChangedUnder(Current, remote)
               \/ record.pending # None /\ record.pending.candidate = FpOf[Candidate(Current, remote)]
               \/ record.status = "report_only" /\ Compared(Current, remote) = "compatible"
    ELSE \/ ~refresher
         \/ Current = Absent
         \/ Verdict[Current, remote] = "identical"
         \/ Verdict[Current, remote] = "compatible" /\ ~world.apply
         \/ pending = remote

\* Cached validators are ahead of the registered contract, and match the provider.
Masked ==
    /\ Remote /\ Current # Absent
    /\ ValidatorsFor(Current) # None /\ ValidatorsFor(Current)[2] = remote
    /\ remote # DocOf[Current]

\* Somebody beside the watcher and its operator refreshes or writes the contract.
OthersToo == world.others > 0 \/ \E t \in Tasks : "refresh" \in world.ops[t]

\* Once a provider stops changing its document, every difference from the
\* registered contract ends up applied, reported or pending, or its watch stale,
\* and stays so: lost races, failures and decisions never bury it.  Conditional
\* requests do not either while the watcher and its operator are alone; beside
\* other refreshes and writers only validators ahead of the contract can
\* (ingestion.py:1314; the documented promise is DriftIsNeverMasked).
DriftIsSeen == <>[](Noticed \/ (OthersToo /\ Masked))

\* By hand.  Correctness does not depend on conditional requests
\* (docs/guides/schema-drift.md:236).
DriftIsNeverMasked == <>[]Noticed

\* By hand.  A breaking change is reported as pending_review and left unapplied
\* (docs/guides/schema-drift.md:122, :195).
BreakingIsReviewed ==
    [][\A t \in Tasks :
          job[t].op \in {"check", "refresh"} /\ At(t, "apply") /\ version' # version
            /\ job'[t].at # "apply" =>
              Verdict[DocOf[Current], DocOf[tools'[Tool]]] # "review"]_vars

\* By hand.  `unchanged' means the same fingerprint (docs/guides/schema-drift.md:21).
UnchangedMeansSame ==
    [][\A t \in Tasks :
          At(t, "fetch") /\ job'[t].at = "conclude" /\ job'[t].result.action = "unchanged" =>
            FpOf[Current] = FpOf[Candidate(Current, remote)]]_vars

\* By hand.  What an operator accepts replaces the contract he reviewed it against.
AcceptedAsReviewed ==
    [][\A t \in Tasks :
          job[t].op = "accept" /\ At(t, "apply") /\ job'[t].at = "remember" =>
            shown = <<FpOf[Current], FpOf[tools'[Tool]]>>]_vars

\* By hand.  Accepting a native candidate must not drop a newer one unreviewed.
NewerCandidateKept ==
    [][\A t \in Tasks :
          job[t].op = "acceptNative" /\ At(t, "apply") /\ job'[t].at # "apply" /\ version' # version =>
            pending \in {None, job[t].expect}]_vars

\* By hand.  A tool that was removed has no native candidate left.
ForgottenHasNoCandidate == pending # None => refresher

=============================================================================
