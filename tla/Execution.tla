------------------------------- MODULE Execution -------------------------------
(***************************************************************************)
(* Executing planned calls (executor.py): execute_call_with_fallback walks *)
(* a precompiled chain of access paths; execute_call validates the pinned  *)
(* contract, asks for approval, reserves budget, runs hooks and makes up   *)
(* to max_attempts invocations, each behind a fresh check of binding,      *)
(* policy, authorization and cooldown.  The calls of one plan share one    *)
(* ExecutionBudgetTracker and one bounded pool of synchronous workers, and *)
(* everything they check may change while they await.                      *)
(*                                                                         *)
(* Abstraction: a call is its tool and the fingerprint it was planned for; *)
(* arguments and values are left out, a provider answers, fails in one of  *)
(* the four ways the executor tells apart, or does not answer.             *)
(***************************************************************************)
EXTENDS Integers, Sequences, FiniteSets

CONSTANTS
    Keys, Fps, NoBinding,
    ReadOnly,        \* fingerprints of contracts whose endpoint is explicitly read-only
    Calls,           \* the concurrently executing calls
    Scenarios,       \* what the host program configures and does, see Scenario
    MaxPolicy        \* model bound: changes of the execution policy

\* chain: access paths of each call, the primary first, none if the call is not
\* made; sync: tools bound with offload_sync to a synchronous invoker; contracts:
\* what each tool may publish over time; callbacks: which are configured; env:
\* what else happens; attempts, retryMutations: RetryPolicy.max_attempts and
\* .retry_non_read_only; maxCalls, maxAttempts: the ExecutionBudget; workers:
\* slots of the synchronous worker pool.
Scenario == [chain : [Calls -> Seq(Keys)], sync : SUBSET Keys, contracts : [Keys -> SUBSET Fps],
             callbacks : SUBSET {"approval", "before", "after"},
             env : SUBSET {"contract", "bind", "policy", "authorization", "expiry",
                           "deadline", "cancel", "shutdown"},
             attempts : Nat \ {0}, retryMutations : BOOLEAN,
             maxCalls : Nat, maxAttempts : Nat, workers : Nat]

ASSUME ExecutionAssumption ==
    /\ IsFiniteSet(Fps) /\ IsFiniteSet(Calls)
    /\ ReadOnly \subseteq Fps
    /\ NoBinding \notin Fps
    /\ Scenarios \subseteq Scenario
    /\ MaxPolicy \in Nat

VARIABLES
    scenario,   \* chosen once
    contract,   \* registered contract of each tool
    bound,      \* contract its binding is for, or NoBinding
    cooldown,   \* _unavailable_until: per tool, the contracts in cooldown
    policy,     \* identity of the executor's current ExecutionPolicy
    allowed,    \* what the authorization policy answers now
    elapsed,    \* the tracker's deadline has passed
    callCount, attemptCount,   \* the tracker's reservations
    open,       \* the worker pool accepts submissions
    worker,     \* each call's job in the pool
    pc, loc,
    invoked,    \* history variable: provider invocations of each call, per contract
    reached,    \* history variable: access paths <<tool, contract>> whose provider was called
    down        \* history variable: access paths whose provider was unavailable to a call's
                \* last attempt, and to no successful call or expiry since

envVars == <<scenario, contract, bound, policy, allowed, elapsed, open>>
trackVars == <<callCount, attemptCount>>
vars == <<envVars, cooldown, trackVars, worker, pc, loc, invoked, reached, down>>

ChainOf == scenario.chain
SyncKeys == scenario.sync
Callbacks == scenario.callbacks
Env == scenario.env
Attempts == scenario.attempts
RetryMutations == scenario.retryMutations
MaxCalls == scenario.maxCalls
MaxAttempts == scenario.maxAttempts
Workers == scenario.workers

\* Tools some call may reach.
Reached == UNION {{ChainOf[c][i] : i \in DOMAIN ChainOf[c]} : c \in Calls}

Jobs == {"none", "queued", "running", "done", "refused", "dropped"}
Ends == {"ok", "failed", "budget", "unavailable", "indeterminate", "posthook", "cancelled"}
Places == Ends \cup {"start", "planned", "call", "approval", "reserve", "before", "ready", "invoking",
                     "submitted", "offloaded", "backoff", "after"}

\* pin: the fingerprint planned for each access path; kept, at: the candidates
\* left after pruning and the one being executed, by position; attempt: attempts so far; snap:
\* policy snapshot; asked: history variable, the policy under which approval was
\* asked for or found unnecessary.
Locals == [pin : [Keys -> Fps], kept : SUBSET Nat, at : Nat, attempt : 0 .. Attempts,
           snap : 0 .. MaxPolicy, asked : 0 .. MaxPolicy]

Key(c) == ChainOf[c][loc[c].at]
Pin(c) == loc[c].pin[Key(c)]
Mutating(c) == Pin(c) \notin ReadOnly
Offloaded(c) == Key(c) \in SyncKeys

\* Mutant: every call is retried.
LimitForAny(c) == Attempts

Limit(c) == IF ~Mutating(c) \/ RetryMutations THEN Attempts ELSE 1

Goto(c, place) == pc' = [pc EXCEPT ![c] = place]
End(c, place) == Goto(c, place) /\ UNCHANGED loc
Stay == UNCHANGED <<envVars, cooldown, trackVars, worker, invoked, reached, down>>

\* The contract still is the planned one and policy and authorization permit it
\* (_validated_call_contract), and the invoker is bound for it (_execution_state).
Valid(c) == contract[Key(c)] = Pin(c) /\ allowed
Bound(c) == bound[Key(c)] = Pin(c)

Busy == {c \in Calls : worker[c] \in {"queued", "running"}}

\* Mutant: only running jobs take a slot.
FreeSlotIgnoringQueue == Cardinality({c \in Calls : worker[c] = "running"}) < Workers

\* The pool has no queue of its own: a job is accepted into a slot or refused.
FreeSlot == Cardinality(Busy) < Workers

-----------------------------------------------------------------------------
(* Planning and fallback *)

\* The planner pins the contracts it sees.
Plan(c) ==
    /\ pc[c] = "start" /\ ChainOf[c] # <<>>
    /\ loc' = [loc EXCEPT ![c].pin = contract]
    /\ Goto(c, "planned")
    /\ Stay

Pinned(c, k) == contract[k] = loc[c].pin[k]

\* Mutant: only the primary has to be read-only.
ChainRefusedByPrimary(c) ==
    \/ contract[Head(ChainOf[c])] \notin ReadOnly
    \/ ~Pinned(c, Head(ChainOf[c])) \/ ~allowed

\* validate_fallback_chain: a current candidate that is not read-only refuses
\* the whole chain, and so does a primary that drifted or is not permitted.
ChainRefused(c) ==
    \/ contract[Head(ChainOf[c])] \notin ReadOnly
    \/ \E i \in DOMAIN ChainOf[c] :
           Pinned(c, ChainOf[c][i]) /\ contract[ChainOf[c][i]] \notin ReadOnly
    \/ ~Pinned(c, Head(ChainOf[c])) \/ ~allowed

Ready(c, k) == Pinned(c, k) /\ allowed /\ bound[k] = loc[c].pin[k]

IsFirst(i, positions) == i \in positions /\ \A j \in positions : i <= j

\* ordered_available_fallback_chain keeps the candidates that are valid, bound
\* and out of cooldown; a call without alternatives is not looked at here.
StartCall(c) ==
    /\ pc[c] = "planned"
    /\ LET ready == {i \in DOMAIN ChainOf[c] : Ready(c, ChainOf[c][i])}
           kept == {i \in ready : loc[c].pin[ChainOf[c][i]] \notin cooldown[ChainOf[c][i]]} IN
       \/ Len(ChainOf[c]) = 1 /\ End(c, "call")
       \/ Len(ChainOf[c]) > 1 /\ ChainRefused(c) /\ End(c, "failed")
       \/ /\ Len(ChainOf[c]) > 1 /\ ~ChainRefused(c)
          /\ \/ kept = {} /\ End(c, IF ready = {} THEN "failed" ELSE "unavailable")
             \/ /\ Goto(c, "call")
                /\ \E i \in kept : /\ IsFirst(i, kept)
                                   /\ loc' = [loc EXCEPT ![c].kept = kept, ![c].at = i]
    /\ Stay

\* Next candidate of the chain; after the last one its error is the answer.
NextCandidate(c) ==
    LET later == {i \in loc[c].kept : i > loc[c].at} IN
    \/ /\ Goto(c, "call")
       /\ \E i \in later : /\ IsFirst(i, later)
                           /\ loc' = [loc EXCEPT ![c].at = i, ![c].attempt = 0]
    \/ later = {} /\ End(c, "unavailable")

-----------------------------------------------------------------------------
(* execute_call up to its first attempt *)

\* Entry: snapshot the policy, validate, then ask or go on.
EnterCall(c) ==
    /\ pc[c] = "call"
    /\ IF elapsed THEN End(c, "budget")
       ELSE IF ~Valid(c) \/ ~Bound(c) THEN End(c, "failed")
       ELSE /\ loc' = [loc EXCEPT ![c].snap = policy, ![c].asked = policy]
            /\ Goto(c, IF "approval" \in Callbacks THEN "approval" ELSE "reserve")
    /\ Stay

\* The approval callback grants: same policy, then validate again.
Approved(c) ==
    /\ pc[c] = "approval"
    /\ IF elapsed THEN End(c, "budget")
       ELSE IF policy # loc[c].snap \/ ~Valid(c) \/ ~Bound(c) THEN End(c, "failed")
       ELSE Goto(c, "reserve") /\ UNCHANGED loc
    /\ Stay

\* Denied, raised, or gone past the deadline.
NotApproved(c) ==
    /\ pc[c] = "approval"
    /\ End(c, IF elapsed THEN "budget" ELSE "failed")
    /\ Stay

\* before_call: one logical call of the shared budget.
ReserveCall(c) ==
    /\ pc[c] = "reserve"
    /\ IF elapsed \/ callCount >= MaxCalls
       THEN End(c, "budget") /\ UNCHANGED callCount
       ELSE /\ callCount' = callCount + 1
            /\ IF policy # loc[c].snap THEN End(c, "failed")
               ELSE End(c, IF "before" \in Callbacks THEN "before" ELSE "ready")
    /\ UNCHANGED <<envVars, cooldown, attemptCount, worker, invoked, reached, down>>

BeforeHooksRan(c) ==
    /\ pc[c] = "before"
    /\ IF elapsed THEN End(c, "budget")
       ELSE IF policy # loc[c].snap \/ ~Valid(c) \/ ~Bound(c) THEN End(c, "failed")
       ELSE End(c, "ready")
    /\ Stay

BeforeHookFailed(c) ==
    /\ pc[c] = "before"
    /\ End(c, IF elapsed THEN "budget" ELSE "failed")
    /\ Stay

-----------------------------------------------------------------------------
(* One attempt *)

\* The checks between the reservation and the invocation.
Refused(c) == policy # loc[c].snap \/ ~Bound(c) \/ ~allowed

\* Mutant: only a first attempt reserves.
ReserveFirst(c) ==
    /\ pc[c] = "ready"
    /\ ~elapsed /\ attemptCount < MaxAttempts
    /\ attemptCount' = IF loc[c].attempt = 0 THEN attemptCount + 1 ELSE attemptCount

\* before_attempt reserves; a refusal or a cooldown ends this execute_call
\* without an invocation, the reservation stays spent.
Reserve(c) ==
    /\ pc[c] = "ready"
    /\ ~elapsed /\ attemptCount < MaxAttempts
    /\ attemptCount' = attemptCount + 1

AttemptOverBudget(c) ==
    /\ pc[c] = "ready"
    /\ elapsed \/ attemptCount >= MaxAttempts
    /\ End(c, "budget")
    /\ Stay

AttemptRefused(c) ==
    /\ Reserve(c)
    /\ Refused(c)
    /\ End(c, "failed")
    /\ UNCHANGED <<envVars, cooldown, callCount, worker, invoked, reached, down>>

AttemptInCooldown(c) ==
    /\ Reserve(c)
    /\ ~Refused(c) /\ Pin(c) \in cooldown[Key(c)]
    /\ NextCandidate(c)
    /\ UNCHANGED <<envVars, cooldown, callCount, worker, invoked, reached, down>>

Invoke(c) ==
    /\ invoked' = [invoked EXCEPT ![c][Pin(c)] = @ + 1]
    /\ reached' = reached \cup {<<Key(c), Pin(c)>>}

\* The provider is called on the loop: an awaitable, or a synchronous invoker inline.
AttemptInvoke(c) ==
    /\ Reserve(c)
    /\ ~Refused(c) /\ Pin(c) \notin cooldown[Key(c)] /\ ~Offloaded(c)
    /\ loc' = [loc EXCEPT ![c].attempt = @ + 1]
    /\ Goto(c, "invoking")
    /\ Invoke(c)
    /\ UNCHANGED <<envVars, cooldown, callCount, worker, down>>

\* ... or handed to the worker pool, if it has a free slot.
AttemptSubmit(c) ==
    /\ Reserve(c)
    /\ ~Refused(c) /\ Pin(c) \notin cooldown[Key(c)] /\ Offloaded(c)
    /\ open /\ FreeSlot
    /\ worker' = [worker EXCEPT ![c] = "queued"]
    /\ loc' = [loc EXCEPT ![c].attempt = @ + 1]
    /\ Goto(c, "submitted")
    /\ UNCHANGED <<envVars, cooldown, callCount, invoked, reached, down>>

\* After a failed attempt: again, after a backoff, while
\* attempts are left; a deadline that passed ends the call instead.
Retry(c, attempt) ==
    /\ attempt < Limit(c)
    /\ IF elapsed THEN Goto(c, "budget") ELSE Goto(c, "backoff")
    /\ loc' = [loc EXCEPT ![c].attempt = attempt]

\* Mutant: a full pool is remembered as an outage of the provider.
AttemptNoSlotMarked(c) ==
    /\ Reserve(c)
    /\ ~Refused(c) /\ Pin(c) \notin cooldown[Key(c)] /\ Offloaded(c)
    /\ ~FreeSlot
    /\ LET attempt == loc[c].attempt + 1 IN
       \/ Retry(c, attempt) /\ UNCHANGED cooldown
       \/ /\ attempt >= Limit(c) /\ NextCandidate(c)
          /\ cooldown' = [cooldown EXCEPT ![Key(c)] = {Pin(c)}]
    /\ UNCHANGED <<envVars, callCount, worker, invoked, reached, down>>

\* No slot: an unavailability of this process, retried like one of the
\* provider but never remembered as one.
AttemptNoSlot(c) ==
    /\ Reserve(c)
    /\ ~Refused(c) /\ Pin(c) \notin cooldown[Key(c)] /\ Offloaded(c)
    /\ ~FreeSlot
    /\ LET attempt == loc[c].attempt + 1 IN
       \/ Retry(c, attempt)
       \/ attempt >= Limit(c) /\ NextCandidate(c)
    /\ UNCHANGED <<envVars, cooldown, callCount, worker, invoked, reached, down>>

AttemptClosed(c) ==
    /\ Reserve(c)
    /\ ~Refused(c) /\ Pin(c) \notin cooldown[Key(c)] /\ Offloaded(c)
    /\ ~open /\ FreeSlot
    /\ End(c, "failed")
    /\ UNCHANGED <<envVars, cooldown, callCount, worker, invoked, reached, down>>

\* Only now, with the job already submitted, is the deadline looked at
\* (remaining_seconds); a mutation is then shielded from cancellation.
AwaitWorker(c) ==
    /\ pc[c] = "submitted"
    /\ IF elapsed
       THEN End(c, "budget")
       ELSE End(c, "offloaded")
    /\ Stay

\* Mutant: the worker calls the provider under whatever policy is in force.
WorkerStartsUnchecked(c) ==
    /\ worker[c] = "queued"
    /\ worker' = [worker EXCEPT ![c] = "running"] /\ Invoke(c)
    /\ UNCHANGED <<envVars, cooldown, trackVars, pc, loc, down>>

\* The worker thread re-checks the policy, then calls the provider.
WorkerStarts(c) ==
    /\ worker[c] = "queued"
    /\ IF policy = loc[c].snap
       THEN worker' = [worker EXCEPT ![c] = "running"] /\ Invoke(c)
       ELSE worker' = [worker EXCEPT ![c] = "refused"] /\ UNCHANGED <<invoked, reached>>
    /\ UNCHANGED <<envVars, cooldown, trackVars, pc, loc, down>>

WorkerEnds(c) ==
    /\ worker[c] = "running"
    /\ worker' = [worker EXCEPT ![c] = "done"]
    /\ UNCHANGED <<envVars, cooldown, trackVars, pc, loc, invoked, reached, down>>

-----------------------------------------------------------------------------
(* What became of the attempt *)

Awaiting(c) ==
    \/ pc[c] = "invoking"
    \/ pc[c] = "offloaded" /\ worker[c] = "done"

Forget(c) == worker' = [worker EXCEPT ![c] = IF @ = "done" THEN "none" ELSE @]

\* A value: the deadline is checked again before anything is done with it.
Succeeds(c) ==
    /\ Awaiting(c)
    /\ IF elapsed THEN End(c, "budget") /\ UNCHANGED <<cooldown, worker>>
       ELSE IF "after" \in Callbacks THEN End(c, "after") /\ UNCHANGED <<cooldown, worker>>
       ELSE /\ End(c, "ok") /\ UNCHANGED worker
            /\ cooldown' = [cooldown EXCEPT ![Key(c)] = @ \ {Pin(c)}]
    /\ down' = IF pc'[c] = "ok" THEN down \ {<<Key(c), Pin(c)>>} ELSE down
    /\ UNCHANGED <<envVars, trackVars, invoked, reached>>

\* Output outside the contract, a policy error, or any unclassified exception.
FailsForGood(c) ==
    /\ Awaiting(c) \/ (pc[c] = "offloaded" /\ worker[c] = "refused")
    /\ End(c, "failed")
    /\ Stay

\* Its job was dropped by a shutdown: the future is cancelled under the call.
Dropped(c) ==
    /\ pc[c] = "offloaded" /\ worker[c] = "dropped"
    /\ End(c, IF Mutating(c) THEN "indeterminate" ELSE "cancelled")
    /\ Stay

FailsTransiently(c) ==
    /\ Awaiting(c)
    /\ \/ Retry(c, loc[c].attempt) /\ Forget(c)
       \/ loc[c].attempt >= Limit(c) /\ End(c, "failed") /\ UNCHANGED worker
    /\ UNCHANGED <<envVars, cooldown, trackVars, invoked, reached, down>>

\* InvocationUnavailableError on the last attempt: this contract's path goes
\* into cooldown, whatever cooldown the tool had is dropped, and the chain goes on.
Unavailable(c) ==
    /\ Awaiting(c)
    /\ \/ /\ Retry(c, loc[c].attempt)
          /\ UNCHANGED <<cooldown, down>>
       \/ /\ loc[c].attempt >= Limit(c)
          /\ cooldown' = [cooldown EXCEPT ![Key(c)] = {Pin(c)}]
          /\ down' = down \cup {<<Key(c), Pin(c)>>}
          /\ NextCandidate(c)
    /\ Forget(c)
    /\ UNCHANGED <<envVars, trackVars, invoked, reached>>

\* Backoff is bounded by the deadline.
BackoffOver(c) ==
    /\ pc[c] = "backoff"
    /\ End(c, IF elapsed THEN "budget" ELSE "ready")
    /\ Stay

AfterHooksRan(c) ==
    /\ pc[c] = "after"
    /\ IF elapsed THEN End(c, "budget") /\ UNCHANGED <<cooldown, down>>
       ELSE /\ End(c, "ok")
            /\ cooldown' = [cooldown EXCEPT ![Key(c)] = @ \ {Pin(c)}]
            /\ down' = down \ {<<Key(c), Pin(c)>>}
    /\ UNCHANGED <<envVars, trackVars, worker, invoked, reached>>

\* An after hook fails, is cancelled or runs out of time: the result travels in the error.
AfterHookFailed(c) ==
    /\ pc[c] = "after"
    /\ End(c, "posthook")
    /\ Stay

\* A job of an awaiting call that is given up: a queued read-only one is
\* cancelled with its future, a mutation is shielded.
GiveUpWorker(c) ==
    worker' = IF worker[c] = "queued" /\ ~Mutating(c)
              THEN [worker EXCEPT ![c] = "none"] ELSE worker

\* Mutant: a shielded mutation is waited for without a deadline.
TimeoutUnshielded(c) ==
    /\ elapsed /\ pc[c] \in {"invoking", "offloaded"}
    /\ ~(pc[c] = "offloaded" /\ Mutating(c))
    /\ End(c, "budget")
    /\ GiveUpWorker(c)
    /\ UNCHANGED <<envVars, cooldown, trackVars, invoked, reached, down>>

\* The deadline passes while the provider is working.
Timeout(c) ==
    /\ elapsed /\ pc[c] \in {"invoking", "offloaded"}
    /\ End(c, IF pc[c] = "offloaded" /\ Mutating(c) THEN "indeterminate" ELSE "budget")
    /\ GiveUpWorker(c)
    /\ UNCHANGED <<envVars, cooldown, trackVars, invoked, reached, down>>

\* Mutant: a mutation cancelled in its worker looks like any cancellation.
CancelPlain(c) ==
    /\ "cancel" \in Env
    /\ pc[c] \in {"approval", "before", "backoff", "invoking", "offloaded"}
    /\ End(c, "cancelled")
    /\ GiveUpWorker(c)
    /\ UNCHANGED <<envVars, cooldown, trackVars, invoked, reached, down>>

\* The caller, or a failing sibling of a parallel plan, cancels the call.
Cancel(c) ==
    /\ "cancel" \in Env
    /\ pc[c] \in {"approval", "before", "backoff", "invoking", "offloaded"}
    /\ End(c, IF pc[c] = "offloaded" /\ Mutating(c) THEN "indeterminate" ELSE "cancelled")
    /\ GiveUpWorker(c)
    /\ UNCHANGED <<envVars, cooldown, trackVars, invoked, reached, down>>

-----------------------------------------------------------------------------
(* What other tasks and threads do meanwhile *)

ContractMoves ==
    /\ "contract" \in Env
    /\ \E k \in Reached : \E f \in scenario.contracts[k] : contract' = [contract EXCEPT ![k] = f]
    /\ UNCHANGED <<scenario, bound, policy, allowed, elapsed, open>>

BindingMoves ==
    /\ "bind" \in Env
    /\ \E k \in Reached : \E b \in {contract[k], NoBinding} : bound' = [bound EXCEPT ![k] = b]
    /\ UNCHANGED <<scenario, contract, policy, allowed, elapsed, open>>

PolicyMoves ==
    /\ "policy" \in Env /\ policy < MaxPolicy
    /\ policy' = policy + 1
    /\ UNCHANGED <<scenario, contract, bound, allowed, elapsed, open>>

AuthorizationMoves ==
    /\ "authorization" \in Env
    /\ allowed' = ~allowed
    /\ UNCHANGED <<scenario, contract, bound, policy, elapsed, open>>

DeadlinePasses ==
    /\ "deadline" \in Env /\ ~elapsed
    /\ elapsed' = TRUE
    /\ UNCHANGED <<scenario, contract, bound, policy, allowed, open>>

Environment ==
    /\ \/ ContractMoves \/ BindingMoves \/ PolicyMoves
       \/ AuthorizationMoves \/ DeadlinePasses
    /\ UNCHANGED <<cooldown, trackVars, worker, pc, loc, invoked, reached, down>>

\* The pool closes: jobs no thread has picked up yet are cancelled.
Shutdown ==
    /\ "shutdown" \in Env /\ open
    /\ open' = FALSE
    /\ \E jobs \in SUBSET {c \in Calls : worker[c] = "queued"} :
          worker' = [c \in Calls |-> IF c \in jobs THEN "dropped" ELSE worker[c]]
    /\ UNCHANGED <<scenario, contract, bound, policy, allowed, elapsed, cooldown, trackVars,
                   pc, loc, invoked, reached, down>>

CooldownExpires ==
    /\ "expiry" \in Env
    /\ \E k \in Keys : \E f \in cooldown[k] :
          /\ cooldown' = [cooldown EXCEPT ![k] = @ \ {f}]
          /\ down' = down \ {<<k, f>>}
    /\ UNCHANGED <<envVars, trackVars, worker, pc, loc, invoked, reached>>

Init ==
    /\ scenario \in Scenarios
    /\ contract \in {c \in [Keys -> Fps] : \A k \in Keys : c[k] \in scenario.contracts[k]}
    /\ bound = contract
    /\ cooldown = [k \in Keys |-> {}]
    /\ policy = 0 /\ allowed = TRUE /\ elapsed = FALSE /\ open = TRUE
    /\ callCount = 0 /\ attemptCount = 0
    /\ worker = [c \in Calls |-> "none"]
    /\ pc = [c \in Calls |-> "start"]
    /\ loc = [c \in Calls |-> [pin |-> contract, kept |-> {}, at |-> 1, attempt |-> 0,
                               snap |-> 0, asked |-> 0]]
    /\ invoked = [c \in Calls |-> [f \in Fps |-> 0]]
    /\ reached = {} /\ down = {}

Step(c) ==
    \/ Plan(c) \/ StartCall(c) \/ EnterCall(c) \/ Approved(c) \/ NotApproved(c) \/ ReserveCall(c)
    \/ BeforeHooksRan(c) \/ BeforeHookFailed(c)
    \/ AttemptOverBudget(c) \/ AttemptRefused(c) \/ AttemptInCooldown(c)
    \/ AttemptInvoke(c) \/ AttemptSubmit(c) \/ AttemptNoSlot(c) \/ AttemptClosed(c)
    \/ AwaitWorker(c)
    \/ Succeeds(c) \/ FailsForGood(c) \/ Dropped(c) \/ FailsTransiently(c) \/ Unavailable(c)
    \/ BackoffOver(c) \/ AfterHooksRan(c) \/ AfterHookFailed(c)
    \/ Timeout(c) \/ Cancel(c)

Next ==
    \/ \E c \in Calls : Step(c) \/ WorkerStarts(c) \/ WorkerEnds(c)
    \/ Environment
    \/ Shutdown
    \/ CooldownExpires

\* The loop runs what is ready, timers fire, callbacks and providers are bounded
\* by the deadline when there is one.
Fairness ==
    /\ \A c \in Calls : WF_vars(Step(c))
    /\ WF_vars("deadline" \in Env /\ Environment /\ elapsed' = TRUE)

Spec == Init /\ [][Next]_vars /\ Fairness

-----------------------------------------------------------------------------
(* Properties *)

\* Types; and a job waits in the pool for one call only.
ExecutionTypeOK ==
    /\ scenario \in Scenarios
    /\ contract \in [Keys -> Fps]
    /\ bound \in [Keys -> Fps \cup {NoBinding}]
    /\ cooldown \in [Keys -> SUBSET Fps]
    /\ policy \in 0 .. MaxPolicy
    /\ pc \in [Calls -> Places]
    /\ worker \in [Calls -> Jobs]
    /\ callCount \in 0 .. MaxCalls /\ attemptCount \in 0 .. MaxAttempts
    /\ loc \in [Calls -> Locals]
    /\ Cardinality(Busy) <= Workers

\* Approval authority is the snapshot of the call: whatever callbacks, backoff
\* or worker threads lie in between, a provider is reached only under the very
\* policy that decided whether to ask, and, unless a worker already had it,
\* behind a binding accepted for the planned contract (execute_call).
ApprovalGovernsInvocation ==
    [][\A c \in Calls : \A f \in Fps : invoked'[c][f] > invoked[c][f] =>
          /\ policy = loc[c].asked
          /\ pc[c] = "ready" => bound[Key(c)] = f]_vars

\* The invocations so far, each with its number.
Numbered(c, f) == {<<c, f, i>> : i \in 1 .. invoked[c][f]}
Invocations == UNION {Numbered(c, f) : c \in Calls, f \in Fps}

\* Every invocation was reserved first, so retries, fallbacks and parallel calls
\* together stay within max_attempts (ExecutionBudgetTracker).
BudgetCoversInvocations == Cardinality(Invocations) <= attemptCount

\* A write is never repeated by the executor, unless the host said it may be:
\* not by a retry, not by a fallback, not by a deadline (docs/guides/retry.md).
MutationAtMostOnce ==
    RetryMutations \/ \A c \in Calls : \A f, g \in Fps \ ReadOnly :
        /\ invoked[c][f] <= 1
        /\ invoked[c][f] > 0 /\ invoked[c][g] > 0 => f = g

\* A definite failure of a mutation is definite: no worker still carries it out.
DefiniteMeansSettled ==
    \A c \in Calls : (pc[c] \in {"failed", "unavailable", "cancelled"} /\ Mutating(c))
        => worker[c] \notin {"queued", "running"}

\* A chain of access paths never reaches a contract that is not read-only,
\* however contracts move while earlier candidates are tried.
FallbackNeverMutates ==
    \A c \in Calls : Len(ChainOf[c]) > 1 => \A f \in Fps \ ReadOnly : invoked[c][f] = 0

\* An access path is in cooldown only because its own provider was called, through
\* this tool and under this contract, and was unavailable: never because this process
\* ran out of worker slots, and never for what another tool with the same contract
\* went through (_invoke_with_retry, _sync_offload.py: capacity is no outage).
CooldownMeansOutage ==
    \A k \in Keys : \A f \in cooldown[k] : <<k, f>> \in reached \cap down

\* Under a deadline every started call gets an answer, even if a worker thread
\* never returns.
CallEnds == \A c \in Calls : pc[c] = "call" ~> pc[c] \in Ends

(* Claims of the documentation that the code does not keep *)

\* docs/guides/runtime.md: a timeout of a non-read-only call after its worker
\* started is reported as indeterminate.  So a call that failed on its deadline
\* has no worker that is carrying it out ...
BudgetFailureLeavesNoWorker ==
    \A c \in Calls : (pc[c] = "budget" /\ Mutating(c))
        => worker[c] \notin {"queued", "running"}

\* ... nor is a call that waits for a mutation told of its deadline, as if the
\* mutation had not happened, once the worker has carried it out.
BudgetFailureAppliedNothing ==
    [][\A c \in Calls : (pc[c] = "offloaded" /\ worker[c] = "done" /\ Mutating(c))
        => pc'[c] # "budget"]_vars

\* docs/guides/runtime.md: a route that exhausts retry with
\* InvocationUnavailableError enters a finite cooldown and is eligible again
\* when that expires.
CooldownLasts ==
    \A p \in down : contract[p[1]] = p[2] => p[2] \in cooldown[p[1]]

=============================================================================
