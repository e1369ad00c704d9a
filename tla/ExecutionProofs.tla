--------------------------- MODULE ExecutionProofs ---------------------------
(***************************************************************************)
(* Proofs about Execution, for any calls, tools, contracts, scenarios and   *)
(* number of policy changes.  What a call may do depends on the candidate   *)
(* it executes, the attempts it made, its invocations and its job in the    *)
(* pool: CallInv relates the four.  An action of one call touches nothing   *)
(* of another's, and the environment touches no call at all, so the proof   *)
(* is one lemma per action about the call that takes it.                    *)
(***************************************************************************)
EXTENDS Execution, FiniteSetTheorems, SequenceTheorems, TLAPS

Types ==
    /\ scenario \in Scenarios
    /\ contract \in [Keys -> Fps]
    /\ bound \in [Keys -> Fps \cup {NoBinding}]
    /\ cooldown \in [Keys -> SUBSET Fps]
    /\ policy \in 0 .. MaxPolicy
    /\ pc \in [Calls -> Places]
    /\ worker \in [Calls -> Jobs]
    /\ callCount \in 0 .. MaxCalls /\ attemptCount \in 0 .. MaxAttempts
    /\ loc \in [Calls -> Locals]
    /\ invoked \in [Calls -> [Fps -> Nat]]

Single(c) == Len(ChainOf[c]) = 1
Live(c) == pc[c] \notin {"start", "planned"} \cup Ends

\* The candidate being executed is one of the chain, and of a real chain one
\* that the read-only check let through.
Candidate(c) ==
    /\ pc[c] # "start" => loc[c].at \in DOMAIN ChainOf[c]
    /\ pc[c] = "start" => loc[c].kept = {} /\ loc[c].at = 1
    /\ loc[c].kept \subseteq DOMAIN ChainOf[c]
    /\ Single(c) => loc[c].kept = {}
    /\ \A i \in loc[c].kept : loc[c].pin[ChainOf[c][i]] \in ReadOnly
    /\ Live(c) \/ worker[c] = "queued" => Single(c) \/ loc[c].at \in loc[c].kept

\* Attempts of the current candidate stay within its limit.
Attempted(c) ==
    /\ pc[c] \in {"start", "planned", "call", "approval", "reserve", "before"} => loc[c].attempt = 0
    /\ pc[c] # "start" => loc[c].attempt <= Limit(c)
    /\ pc[c] \in {"ready", "backoff"} => loc[c].attempt < Limit(c)

\* Invocations of a call with one candidate are covered by its attempts; a call
\* with more never invokes a mutating contract.
Counted(c) ==
    /\ pc[c] = "start" => \A f \in Fps : invoked[c][f] = 0
    /\ ~Single(c) => \A f \in Fps \ ReadOnly : invoked[c][f] = 0
    /\ pc[c] # "start" /\ Single(c) =>
          /\ \A f \in Fps : invoked[c][f] > 0 => f = Pin(c)
          /\ invoked[c][Pin(c)] <= loc[c].attempt
          /\ worker[c] = "queued" => invoked[c][Pin(c)] < loc[c].attempt

\* A job belongs to the candidate the call is waiting for, or stopped waiting
\* for without another attempt.
Jobbed(c) ==
    /\ worker[c] \in {"queued", "running", "done"} =>
          pc[c] \in {"submitted", "offloaded", "after"} \cup Ends
    /\ worker[c] \in {"queued", "running"} =>
          /\ pc[c] \in {"submitted", "offloaded", "budget", "indeterminate", "cancelled"}
          /\ pc[c] = "cancelled" => ~Mutating(c)
    /\ pc[c] = "invoking" \/ worker[c] \in {"running", "done"} => invoked[c][Pin(c)] > 0

CallInv(c) ==
    /\ loc[c].asked = loc[c].snap
    /\ Candidate(c) /\ Attempted(c) /\ Counted(c) /\ Jobbed(c)

\* The provider of the candidate was called: by the loop, or by a worker thread.
Provided(c) == pc[c] = "invoking" \/ worker[c] \in {"running", "done"}
Reaching == \A c \in Calls : Provided(c) => <<Key(c), Pin(c)>> \in reached

ExecutionInv ==
    /\ Types
    /\ \A c \in Calls : CallInv(c)
    /\ Cardinality(Busy) <= Workers
    /\ Reaching /\ CooldownMeansOutage

-----------------------------------------------------------------------------
\* What a scenario gives the calls.
LEMMA ScenarioTypes ==
    ASSUME scenario \in Scenarios
    PROVE  /\ ChainOf \in [Calls -> Seq(Keys)]
           /\ Attempts \in Nat \ {0}
           /\ Workers \in Nat /\ MaxCalls \in Nat /\ MaxAttempts \in Nat
  BY ExecutionAssumption
     DEF Scenario, ChainOf, Attempts, Workers, MaxCalls, MaxAttempts

\* The candidates of a chain are tools.
LEMMA ChainTypes ==
    ASSUME scenario \in Scenarios, NEW c \in Calls
    PROVE  /\ Len(ChainOf[c]) \in Nat
           /\ DOMAIN ChainOf[c] = 1 .. Len(ChainOf[c])
           /\ \A i \in DOMAIN ChainOf[c] : ChainOf[c][i] \in Keys
<1>1. ChainOf[c] \in Seq(Keys)
  BY ScenarioTypes
<1> QED
  BY <1>1, LenProperties, ElementOfSeq

\* The candidate being executed is a tool, planned for some fingerprint.
LEMMA PinTypes ==
    ASSUME Types, NEW c \in Calls, loc[c].at \in DOMAIN ChainOf[c]
    PROVE  Key(c) \in Keys /\ Pin(c) \in Fps
  BY ChainTypes DEF Types, Locals, Key, Pin

\* The limit of a call is at least one attempt and at most what is configured.
LEMMA LimitTypes ==
    ASSUME Types, NEW c \in Calls
    PROVE  Limit(c) \in 1 .. Attempts
  BY ScenarioTypes DEF Types, Limit


\* What depends on the candidate only stays while the candidate does.
LEMMA SameCandidate ==
    ASSUME NEW c \in Calls, UNCHANGED scenario,
           loc'[c].pin = loc[c].pin, loc'[c].at = loc[c].at
    PROVE  /\ Key(c)' = Key(c) /\ Pin(c)' = Pin(c) /\ Limit(c)' = Limit(c)
           /\ Mutating(c)' = Mutating(c) /\ Single(c)' = Single(c) /\ ChainOf' = ChainOf
  BY DEF Key, Pin, Limit, Mutating, Single, ChainOf, Attempts, RetryMutations

\* Nothing about a call changes: nothing about its invariant does.
LEMMA Frame ==
    ASSUME NEW d \in Calls, CallInv(d), UNCHANGED scenario,
           pc'[d] = pc[d], loc'[d] = loc[d], worker'[d] = worker[d], invoked'[d] = invoked[d]
    PROVE  CallInv(d)'
  BY SameCandidate DEF CallInv, Candidate, Attempted, Counted, Jobbed, Live

\* A call moves on to another place and nothing else about it changes.
MayMoveTo(c, place) ==
    /\ pc[c] # "start" /\ place \notin {"start", "planned", "invoking"}
    /\ place \in {"call", "approval", "reserve", "before"} => loc[c].attempt = 0
    /\ place \in {"ready", "backoff"} => loc[c].attempt < Limit(c)
    /\ place \in Ends \/ Live(c) \/ Single(c)
    /\ worker[c] \in {"queued", "running", "done"} =>
          place \in {"submitted", "offloaded", "after"} \cup Ends
    /\ worker[c] \in {"queued", "running"} =>
          /\ place \in {"submitted", "offloaded", "budget", "indeterminate", "cancelled"}
          /\ place = "cancelled" => ~Mutating(c)

\* Such a move keeps the invariant of the call.
LEMMA Move ==
    ASSUME NEW c \in Calls, CallInv(c), UNCHANGED scenario, NEW place, MayMoveTo(c, place),
           pc'[c] = place, loc'[c] = loc[c], worker'[c] = worker[c], invoked'[c] = invoked[c]
    PROVE  CallInv(c)'
<1>1. Candidate(c)'
  BY SameCandidate DEF CallInv, Candidate, MayMoveTo, Live
<1>2. Attempted(c)'
  BY SameCandidate DEF CallInv, Attempted, MayMoveTo
<1>3. Counted(c)'
  BY SameCandidate DEF CallInv, Counted, MayMoveTo
<1>4. Jobbed(c)'
  BY SameCandidate DEF CallInv, Jobbed, MayMoveTo
<1> QED
  BY <1>1, <1>2, <1>3, <1>4 DEF CallInv

-----------------------------------------------------------------------------
\* Actions that move a call on without touching its candidate, its job or its
\* invocations.
Quiet(c) ==
    \/ Approved(c) \/ NotApproved(c) \/ ReserveCall(c)
    \/ BeforeHooksRan(c) \/ BeforeHookFailed(c)
    \/ AttemptOverBudget(c) \/ AttemptRefused(c) \/ AttemptClosed(c) \/ AwaitWorker(c)
    \/ Succeeds(c) \/ FailsForGood(c) \/ Dropped(c)
    \/ BackoffOver(c) \/ AfterHooksRan(c) \/ AfterHookFailed(c)

\* The quiet actions, from approval over the hooks to the answer, are such moves.
LEMMA QuietMoves ==
    ASSUME ExecutionInv, NEW c \in Calls, Quiet(c)
    PROVE  /\ UNCHANGED <<envVars, loc, worker, invoked>>
           /\ \E p \in Places : MayMoveTo(c, p) /\ pc' = [pc EXCEPT ![c] = p]
<1>1. UNCHANGED <<envVars, loc, worker, invoked>>
  BY DEF Quiet, Approved, NotApproved, ReserveCall, BeforeHooksRan, BeforeHookFailed,
         AttemptOverBudget, AttemptRefused, AttemptClosed, Reserve, AwaitWorker, Succeeds,
         FailsForGood, Dropped, BackoffOver, AfterHooksRan, AfterHookFailed, Stay, envVars, End
<1> USE DEF MayMoveTo, End, Goto, Places, Ends, Live, ExecutionInv, CallInv, Jobbed, Attempted
<1>2. CASE Approved(c)
  <2>1. \E p \in {"budget", "failed", "reserve"} : MayMoveTo(c, p) /\ pc' = [pc EXCEPT ![c] = p]
    BY <1>2 DEF Approved
  <2> QED
    BY <1>1, <2>1
<1>3. CASE NotApproved(c)
  <2>1. \E p \in {"budget", "failed"} : MayMoveTo(c, p) /\ pc' = [pc EXCEPT ![c] = p]
    BY <1>3 DEF NotApproved
  <2> QED
    BY <1>1, <2>1
<1>4. CASE ReserveCall(c)
  <2>1. \E p \in {"budget", "failed", "before", "ready"} :
            MayMoveTo(c, p) /\ pc' = [pc EXCEPT ![c] = p]
    BY LimitTypes, <1>4 DEF ReserveCall
  <2> QED
    BY <1>1, <2>1
<1>5. CASE BeforeHooksRan(c)
  <2>1. \E p \in {"budget", "failed", "ready"} : MayMoveTo(c, p) /\ pc' = [pc EXCEPT ![c] = p]
    BY LimitTypes, <1>5 DEF BeforeHooksRan
  <2> QED
    BY <1>1, <2>1
<1>6. CASE BeforeHookFailed(c)
  <2>1. \E p \in {"budget", "failed"} : MayMoveTo(c, p) /\ pc' = [pc EXCEPT ![c] = p]
    BY <1>6 DEF BeforeHookFailed
  <2> QED
    BY <1>1, <2>1
<1>7. CASE AttemptOverBudget(c)
  <2>1. \E p \in {"budget"} : MayMoveTo(c, p) /\ pc' = [pc EXCEPT ![c] = p]
    BY <1>7 DEF AttemptOverBudget
  <2> QED
    BY <1>1, <2>1
<1>8. CASE AttemptRefused(c)
  <2>1. \E p \in {"failed"} : MayMoveTo(c, p) /\ pc' = [pc EXCEPT ![c] = p]
    BY <1>8 DEF AttemptRefused, Reserve
  <2> QED
    BY <1>1, <2>1
<1>9. CASE AttemptClosed(c)
  <2>1. \E p \in {"failed"} : MayMoveTo(c, p) /\ pc' = [pc EXCEPT ![c] = p]
    BY <1>9 DEF AttemptClosed, Reserve
  <2> QED
    BY <1>1, <2>1
<1>10. CASE AwaitWorker(c)
  <2>1. \E p \in {"budget", "offloaded"} : MayMoveTo(c, p) /\ pc' = [pc EXCEPT ![c] = p]
    BY <1>10 DEF AwaitWorker
  <2> QED
    BY <1>1, <2>1
<1>11. CASE Succeeds(c)
  <2>1. \E p \in {"budget", "after", "ok"} : MayMoveTo(c, p) /\ pc' = [pc EXCEPT ![c] = p]
    BY <1>11 DEF Succeeds, Awaiting
  <2> QED
    BY <1>1, <2>1
<1>12. CASE FailsForGood(c)
  <2>1. \E p \in {"failed"} : MayMoveTo(c, p) /\ pc' = [pc EXCEPT ![c] = p]
    BY <1>12 DEF FailsForGood, Awaiting
  <2> QED
    BY <1>1, <2>1
<1>13. CASE Dropped(c)
  <2>1. \E p \in {"indeterminate", "cancelled"} : MayMoveTo(c, p) /\ pc' = [pc EXCEPT ![c] = p]
    BY <1>13 DEF Dropped
  <2> QED
    BY <1>1, <2>1
<1>14. CASE BackoffOver(c)
  <2>1. \E p \in {"budget", "ready"} : MayMoveTo(c, p) /\ pc' = [pc EXCEPT ![c] = p]
    BY <1>14 DEF BackoffOver
  <2> QED
    BY <1>1, <2>1
<1>15. CASE AfterHooksRan(c)
  <2>1. \E p \in {"budget", "ok"} : MayMoveTo(c, p) /\ pc' = [pc EXCEPT ![c] = p]
    BY <1>15 DEF AfterHooksRan
  <2> QED
    BY <1>1, <2>1
<1>16. CASE AfterHookFailed(c)
  <2>1. \E p \in {"posthook"} : MayMoveTo(c, p) /\ pc' = [pc EXCEPT ![c] = p]
    BY <1>16 DEF AfterHookFailed
  <2> QED
    BY <1>1, <2>1
<1> QED
  BY <1>2, <1>3, <1>4, <1>5, <1>6, <1>7, <1>8, <1>9, <1>10, <1>11, <1>12,
     <1>13, <1>14, <1>15, <1>16 DEF Quiet

\* So each of them keeps the invariant of its call.
LEMMA QuietInv ==
    ASSUME ExecutionInv, NEW c \in Calls, Quiet(c)
    PROVE  CallInv(c)'
  BY QuietMoves, Move DEF ExecutionInv, Types, envVars

-----------------------------------------------------------------------------
\* After a failed attempt that is tried again.
LEMMA RetryInv ==
    ASSUME Types, NEW c \in Calls, CallInv(c), NEW attempt \in Nat, Retry(c, attempt),
           UNCHANGED scenario, invoked'[c] = invoked[c], attempt >= loc[c].attempt, Live(c),
           worker'[c] \notin {"queued", "running", "done"}
    PROVE  CallInv(c)'
<1>1. /\ pc'[c] \in {"budget", "backoff"} /\ attempt < Limit(c)
      /\ loc'[c] = [loc[c] EXCEPT !.attempt = attempt]
  BY DEF Retry, Goto, Types
<1>2. /\ loc'[c].pin = loc[c].pin /\ loc'[c].at = loc[c].at /\ loc'[c].kept = loc[c].kept
      /\ loc'[c].attempt = attempt /\ loc'[c].asked = loc[c].asked /\ loc'[c].snap = loc[c].snap
  BY <1>1 DEF Types, Locals
<1>3. pc[c] # "start"
  BY DEF Live
<1>4. loc[c].attempt \in Nat /\ Limit(c) \in Nat
  BY LimitTypes DEF Types, Locals
<1>5. Candidate(c)'
  BY <1>1, <1>2, <1>3, SameCandidate DEF CallInv, Candidate, Live, Ends
<1>9. /\ Pin(c)' = Pin(c) /\ Limit(c)' = Limit(c) /\ Single(c)' = Single(c)
  BY <1>2, SameCandidate
<1>6. Attempted(c)'
  BY <1>1, <1>2, <1>4, <1>9 DEF Attempted
<1>7. Counted(c)'
  <2>1. ~Single(c) => \A f \in Fps \ ReadOnly : invoked[c][f] = 0
    BY DEF CallInv, Counted
  <2>2. Single(c) => /\ \A f \in Fps : invoked[c][f] > 0 => f = Pin(c)
                     /\ invoked[c][Pin(c)] <= loc[c].attempt
    BY <1>3 DEF CallInv, Counted
  <2>3. Pin(c) \in Fps
    BY <1>3, PinTypes DEF CallInv, Candidate
  <2>4. invoked[c][Pin(c)] \in Nat
    BY <2>3 DEF Types
  <2> QED
    BY <1>1, <1>2, <1>4, <1>9, <2>1, <2>2, <2>4 DEF Counted
<1>8. Jobbed(c)'
  BY <1>1 DEF Jobbed
<1> QED
  BY <1>2, <1>5, <1>6, <1>7, <1>8 DEF CallInv

\* After a candidate that is given up.
LEMMA NextCandidateInv ==
    ASSUME Types, NEW c \in Calls, CallInv(c), NextCandidate(c),
           UNCHANGED scenario, invoked'[c] = invoked[c], Live(c),
           worker'[c] \notin {"queued", "running", "done"}
    PROVE  CallInv(c)'
<1>1. CASE UNCHANGED loc /\ pc' = [pc EXCEPT ![c] = "unavailable"]
  <2>1. pc'[c] = "unavailable" /\ loc'[c] = loc[c] /\ pc[c] # "start"
    BY <1>1 DEF Types, Live
  <2>2. Candidate(c)' /\ Attempted(c)' /\ Jobbed(c)'
    BY <2>1, SameCandidate DEF CallInv, Candidate, Attempted, Jobbed, Live, Ends
  <2>3. Counted(c)'
    BY <2>1, SameCandidate DEF CallInv, Counted
  <2> QED
    BY <2>1, <2>2, <2>3 DEF CallInv
<1>2. CASE \E i \in loc[c].kept : /\ loc' = [loc EXCEPT ![c].at = i, ![c].attempt = 0]
                                  /\ pc' = [pc EXCEPT ![c] = "call"]
  <2>1. PICK i \in loc[c].kept : loc' = [loc EXCEPT ![c].at = i, ![c].attempt = 0]
    BY <1>2
  <2>2. /\ loc'[c].pin = loc[c].pin /\ loc'[c].at = i /\ loc'[c].kept = loc[c].kept
        /\ loc'[c].attempt = 0 /\ loc'[c].asked = loc[c].asked /\ loc'[c].snap = loc[c].snap
    BY <2>1 DEF Types, Locals
  <2>3. pc'[c] = "call" /\ ChainOf' = ChainOf /\ ~Single(c) /\ ~Single(c)'
    BY <1>2, <2>1 DEF Types, CallInv, Candidate, Single, ChainOf
  <2>4. Limit(c)' \in Nat
    BY ScenarioTypes DEF Types, Limit, Attempts, RetryMutations
  <2>5. Candidate(c)'
    BY <2>2, <2>3 DEF CallInv, Candidate
  <2>6. Attempted(c)' /\ Counted(c)' /\ Jobbed(c)'
    BY <2>2, <2>3, <2>4 DEF CallInv, Attempted, Counted, Jobbed
  <2> QED
    BY <2>2, <2>5, <2>6 DEF CallInv
<1> QED
  BY <1>1, <1>2 DEF NextCandidate, Goto, End

-----------------------------------------------------------------------------
(* The other actions of a call, one lemma each *)

\* A job that is out of the pool without having called the provider.
LEMMA JobSettles ==
    ASSUME NEW c \in Calls, CallInv(c), UNCHANGED scenario,
           pc'[c] = pc[c], loc'[c] = loc[c], invoked'[c] = invoked[c],
           worker'[c] \in {"none", "refused", "dropped"}
    PROVE  CallInv(c)'
<1>1. Candidate(c)' /\ Attempted(c)'
  BY SameCandidate DEF CallInv, Candidate, Attempted, Live
<1>2. Counted(c)'
  BY SameCandidate DEF CallInv, Counted
<1>3. Jobbed(c)'
  BY SameCandidate DEF CallInv, Jobbed
<1> QED
  BY <1>1, <1>2, <1>3 DEF CallInv

\* Planning pins a fingerprint for every access path; nothing was invoked yet.
LEMMA PlanInv ==
    ASSUME Types, NEW c \in Calls, CallInv(c), Plan(c)
    PROVE  CallInv(c)'
<1>1. /\ pc[c] = "start" /\ pc'[c] = "planned" /\ ChainOf' = ChainOf
      /\ loc'[c].pin = contract /\ loc'[c].at = loc[c].at /\ loc'[c].kept = loc[c].kept
      /\ loc'[c].attempt = loc[c].attempt
      /\ loc'[c].asked = loc[c].asked /\ loc'[c].snap = loc[c].snap
      /\ worker'[c] = worker[c] /\ invoked'[c] = invoked[c]
      /\ ReadOnly = ReadOnly
  BY DEF Plan, Goto, Stay, Types, Locals, envVars, ChainOf
<1>2. 1 \in DOMAIN ChainOf[c]
  <2>1. ChainOf[c] \in Seq(Keys) /\ ChainOf[c] # <<>>
    BY ScenarioTypes DEF Types, Plan
  <2> QED
    BY <2>1
<1>3. Pin(c)' \in Fps /\ Limit(c)' \in Nat
  <2>1. ChainOf[c][1] \in Keys
    BY <1>2, ChainTypes DEF Types
  <2>2. Pin(c)' = contract[ChainOf[c][1]]
    BY <1>1 DEF Pin, Key, CallInv, Candidate
  <2>3. Limit(c)' \in {Attempts, 1}
    BY DEF Limit, Plan, Stay, envVars, Attempts
  <2> QED
    BY <2>1, <2>2, <2>3, ScenarioTypes DEF Types
<1>4. Candidate(c)'
  BY <1>1, <1>2 DEF CallInv, Candidate, Jobbed, Live, Single
<1>5. Attempted(c)'
  BY <1>1, <1>3 DEF CallInv, Attempted
<1>6. Counted(c)'
  <2>1. \A f \in Fps : invoked'[c][f] = 0
    BY <1>1 DEF CallInv, Counted
  <2>2. worker'[c] # "queued" /\ loc'[c].attempt = 0 /\ pc'[c] # "start"
    BY <1>1 DEF CallInv, Jobbed, Attempted
  <2> QED
    BY <1>3, <2>1, <2>2 DEF Counted
<1>7. Jobbed(c)'
  BY <1>1 DEF CallInv, Jobbed, Ends
<1> QED
  BY <1>1, <1>4, <1>5, <1>6, <1>7 DEF CallInv

\* A chain starts with candidates whose pinned contract is read-only.
LEMMA StartCallInv ==
    ASSUME ExecutionInv, NEW c \in Calls, StartCall(c)
    PROVE  CallInv(c)'
<1> DEFINE ready == {i \in DOMAIN ChainOf[c] : Ready(c, ChainOf[c][i])}
           kept == {i \in ready : loc[c].pin[ChainOf[c][i]] \notin cooldown[ChainOf[c][i]]}
<1>1. /\ pc[c] = "planned" /\ CallInv(c) /\ Types
      /\ UNCHANGED scenario /\ worker'[c] = worker[c] /\ invoked'[c] = invoked[c]
  BY DEF StartCall, Stay, envVars, ExecutionInv
<1>2. CASE UNCHANGED loc /\ \E p \in {"call", "failed", "unavailable"} :
                pc' = [pc EXCEPT ![c] = p] /\ (p = "call" => Single(c))
  <2>1. PICK p \in {"call", "failed", "unavailable"} :
                pc' = [pc EXCEPT ![c] = p] /\ (p = "call" => Single(c))
    BY <1>2
  <2>2. MayMoveTo(c, p)
    BY <1>1, <2>1 DEF MayMoveTo, CallInv, Attempted, Jobbed, Ends
  <2>3. pc'[c] = p
    BY <1>1, <2>1 DEF Types
  <2> QED
    BY <1>1, <1>2, <2>2, <2>3, Move
<1>3. CASE /\ ~Single(c) /\ ~ChainRefused(c) /\ pc' = [pc EXCEPT ![c] = "call"]
           /\ \E i \in kept : loc' = [loc EXCEPT ![c].kept = kept, ![c].at = i]
  <2>1. PICK i \in kept : loc' = [loc EXCEPT ![c].kept = kept, ![c].at = i]
    BY <1>3
  <2>2. /\ loc'[c].pin = loc[c].pin /\ loc'[c].at = i /\ loc'[c].kept = kept
        /\ loc'[c].attempt = loc[c].attempt
        /\ loc'[c].asked = loc[c].asked /\ loc'[c].snap = loc[c].snap
    BY <1>1, <2>1 DEF Types, Locals
  <2>3. pc'[c] = "call" /\ ChainOf' = ChainOf /\ ~Single(c)'
    BY <1>1, <1>3 DEF Types, ChainOf, Single
  <2>4. \A j \in kept : loc[c].pin[ChainOf[c][j]] \in ReadOnly
    BY <1>3 DEF ChainRefused, Ready, Pinned
  <2>5. Limit(c)' \in Nat
    <3>1. Limit(c)' \in {Attempts, 1}
      BY <1>1 DEF Limit, Attempts
    <3> QED
      BY <1>1, <3>1, ScenarioTypes DEF Types
  <2>6. i \in DOMAIN ChainOf[c] /\ kept \subseteq DOMAIN ChainOf[c] /\ i \in kept
    OBVIOUS
  <2> HIDE DEF kept
  <2>7. Candidate(c)'
    BY <2>2, <2>3, <2>4, <2>6 DEF Candidate
  <2>8. Attempted(c)'
    BY <1>1, <2>2, <2>3, <2>5 DEF CallInv, Attempted
  <2>9. Counted(c)' /\ Jobbed(c)'
    BY <1>1, <1>3, <2>3 DEF CallInv, Counted, Jobbed, Ends
  <2> QED
    BY <1>1, <2>2, <2>7, <2>8, <2>9 DEF CallInv
<1>4. \/ Len(ChainOf[c]) = 1 /\ End(c, "call")
      \/ ChainRefused(c) /\ End(c, "failed")
      \/ End(c, IF ready = {} THEN "failed" ELSE "unavailable")
      \/ /\ Len(ChainOf[c]) > 1 /\ ~ChainRefused(c) /\ Goto(c, "call")
         /\ \E i \in kept : loc' = [loc EXCEPT ![c].kept = kept, ![c].at = i]
  BY ZenonT(30) DEF StartCall
<1> HIDE DEF kept, ready
<1>5. Len(ChainOf[c]) > 1 => ~Single(c)
  <2>1. Len(ChainOf[c]) \in Nat
    BY <1>1, ChainTypes DEF Types
  <2>2. \A n \in Nat : n > 1 => n # 1
    OBVIOUS
  <2> QED
    BY <2>1, <2>2, Zenon DEF Single
<1> QED
  BY <1>2, <1>3, <1>4, <1>5 DEF Goto, End, Single

\* The snapshot and the policy approval is decided by are one and the same.
LEMMA EnterCallInv ==
    ASSUME ExecutionInv, NEW c \in Calls, EnterCall(c)
    PROVE  CallInv(c)'
<1>1. /\ pc[c] = "call" /\ CallInv(c) /\ Types
      /\ UNCHANGED scenario /\ worker'[c] = worker[c] /\ invoked'[c] = invoked[c]
  BY DEF EnterCall, Stay, envVars, ExecutionInv
<1>2. CASE UNCHANGED loc /\ \E p \in {"failed", "budget"} : pc' = [pc EXCEPT ![c] = p]
  <2>1. PICK p \in {"failed", "budget"} : pc' = [pc EXCEPT ![c] = p]
    BY <1>2
  <2>2. MayMoveTo(c, p)
    BY <1>1, <2>1 DEF MayMoveTo, CallInv, Attempted, Jobbed, Ends
  <2>3. pc'[c] = p
    BY <1>1, <2>1 DEF Types
  <2> QED
    BY <1>1, <1>2, <2>2, <2>3, Move
<1>3. CASE /\ loc' = [loc EXCEPT ![c].snap = policy, ![c].asked = policy]
           /\ \E p \in {"approval", "reserve"} : pc' = [pc EXCEPT ![c] = p]
  <2>1. /\ loc'[c].pin = loc[c].pin /\ loc'[c].at = loc[c].at /\ loc'[c].kept = loc[c].kept
        /\ loc'[c].attempt = loc[c].attempt
        /\ loc'[c].asked = loc'[c].snap
    BY <1>1, <1>3 DEF Types, Locals
  <2>2. pc'[c] \in {"approval", "reserve"}
    BY <1>1, <1>3 DEF Types
  <2>3. Candidate(c)'
    BY <1>1, <2>1, <2>2, SameCandidate DEF CallInv, Candidate, Live, Ends
  <2>4. Attempted(c)'
    BY <1>1, <2>1, <2>2, SameCandidate DEF CallInv, Attempted
  <2>5. Counted(c)'
    BY <1>1, <2>1, <2>2, SameCandidate DEF CallInv, Counted
  <2>6. Jobbed(c)'
    BY <1>1, <2>1, <2>2, SameCandidate DEF CallInv, Jobbed, Ends
  <2> QED
    BY <2>1, <2>3, <2>4, <2>5, <2>6 DEF CallInv
<1> QED
  BY <1>2, <1>3 DEF EnterCall, Goto, End

\* Before an attempt: the candidate is known, and no job is in the pool.
LEMMA ReadyFacts ==
    ASSUME ExecutionInv, NEW c \in Calls, Reserve(c)
    PROVE  /\ Types /\ CallInv(c) /\ pc[c] = "ready" /\ Live(c)
           /\ worker[c] \notin {"queued", "running", "done"}
           /\ Pin(c) \in Fps /\ (~Single(c) => Pin(c) \in ReadOnly)
           /\ loc[c].attempt \in Nat /\ Limit(c) \in Nat /\ loc[c].attempt + 1 <= Limit(c)
<1>1. Types /\ CallInv(c) /\ pc[c] = "ready"
  BY DEF ExecutionInv, Reserve
<1>2. Live(c) /\ worker[c] \notin {"queued", "running", "done"}
  BY <1>1 DEF Live, CallInv, Jobbed, Ends
<1>3. loc[c].at \in DOMAIN ChainOf[c] /\ (~Single(c) => Pin(c) \in ReadOnly)
  BY <1>1, <1>2 DEF CallInv, Candidate, Pin, Key
<1>4. loc[c].attempt \in Nat /\ Limit(c) \in Nat
  BY <1>1, LimitTypes, ScenarioTypes DEF Types, Locals
<1> QED
  BY <1>1, <1>2, <1>3, <1>4, PinTypes DEF CallInv, Attempted

\* A candidate in cooldown is passed over.
LEMMA AttemptInCooldownInv ==
    ASSUME ExecutionInv, NEW c \in Calls, AttemptInCooldown(c)
    PROVE  CallInv(c)'
<1>1. Reserve(c) /\ NextCandidate(c) /\ UNCHANGED <<scenario, worker, invoked>>
  BY DEF AttemptInCooldown, envVars
<1> QED
  BY <1>1, ReadyFacts, NextCandidateInv

\* Without a slot the attempt counts, but no job is submitted.
LEMMA AttemptNoSlotInv ==
    ASSUME ExecutionInv, NEW c \in Calls, AttemptNoSlot(c)
    PROVE  CallInv(c)'
<1>1. /\ Reserve(c) /\ UNCHANGED <<scenario, worker, invoked>>
      /\ Retry(c, loc[c].attempt + 1) \/ NextCandidate(c)
  BY DEF AttemptNoSlot, envVars
<1>2. loc[c].attempt + 1 \in Nat /\ loc[c].attempt + 1 >= loc[c].attempt
  BY <1>1, ReadyFacts
<1> QED
  BY <1>1, <1>2, ReadyFacts, NextCandidateInv, RetryInv

\* One more attempt of the same candidate.
LEMMA NextAttempt ==
    ASSUME ExecutionInv, NEW c \in Calls, Reserve(c),
           loc' = [loc EXCEPT ![c].attempt = @ + 1],
           pc'[c] \in {"invoking", "submitted"}, UNCHANGED scenario
    PROVE  /\ loc'[c].attempt = loc[c].attempt + 1
           /\ loc'[c].asked = loc'[c].snap
           /\ Candidate(c)' /\ Attempted(c)'
           /\ Pin(c)' = Pin(c) /\ Single(c)' = Single(c) /\ Mutating(c)' = Mutating(c)
<1>1. /\ loc'[c].pin = loc[c].pin /\ loc'[c].at = loc[c].at /\ loc'[c].kept = loc[c].kept
      /\ loc'[c].attempt = loc[c].attempt + 1
      /\ loc'[c].asked = loc[c].asked /\ loc'[c].snap = loc[c].snap
  BY ReadyFacts DEF Types, Locals
<1>2. Candidate(c)'
  BY <1>1, ReadyFacts, SameCandidate DEF CallInv, Candidate
<1>3. Attempted(c)'
  BY <1>1, ReadyFacts, SameCandidate DEF Attempted
<1> QED
  BY <1>1, <1>2, <1>3, ReadyFacts, SameCandidate DEF CallInv

\* An invocation on the loop is covered by the attempt it belongs to.
LEMMA AttemptInvokeInv ==
    ASSUME ExecutionInv, NEW c \in Calls, AttemptInvoke(c)
    PROVE  CallInv(c)'
<1>1. /\ Reserve(c) /\ loc' = [loc EXCEPT ![c].attempt = @ + 1]
      /\ pc' = [pc EXCEPT ![c] = "invoking"] /\ UNCHANGED <<scenario, worker>>
      /\ invoked' = [invoked EXCEPT ![c][Pin(c)] = @ + 1]
  BY DEF AttemptInvoke, Goto, Invoke, envVars
<1>2. pc'[c] = "invoking"
  BY <1>1, ReadyFacts DEF Types
<1>3. /\ invoked[c] \in [Fps -> Nat]
      /\ invoked'[c] = [invoked[c] EXCEPT ![Pin(c)] = @ + 1]
  BY <1>1, ReadyFacts DEF Types
<1>4. /\ invoked'[c][Pin(c)] = invoked[c][Pin(c)] + 1 /\ invoked[c][Pin(c)] \in Nat
      /\ \A f \in Fps : f # Pin(c) => invoked'[c][f] = invoked[c][f]
  BY <1>1, <1>3, ReadyFacts
<1>5. Counted(c)'
  <2>1. ~Single(c) => \A f \in Fps \ ReadOnly : invoked'[c][f] = 0
    BY <1>1, <1>4, ReadyFacts DEF CallInv, Counted
  <2>2. Single(c) => /\ \A f \in Fps : invoked'[c][f] > 0 => f = Pin(c)
                     /\ invoked'[c][Pin(c)] <= loc[c].attempt + 1
    BY <1>1, <1>4, ReadyFacts DEF CallInv, Counted
  <2> QED
    BY <1>1, <1>2, <2>1, <2>2, NextAttempt, ReadyFacts DEF Counted
<1>6. Jobbed(c)'
  <2>1. worker'[c] \notin {"queued", "running", "done"} /\ Pin(c)' = Pin(c)
    BY <1>1, <1>2, NextAttempt, ReadyFacts
  <2>2. invoked'[c][Pin(c)] > 0
    BY <1>4
  <2> QED
    BY <1>2, <2>1, <2>2 DEF Jobbed
<1> QED
  BY <1>1, <1>2, <1>5, <1>6, NextAttempt DEF CallInv

\* A job in the queue has an attempt in hand for its invocation.
LEMMA AttemptSubmitInv ==
    ASSUME ExecutionInv, NEW c \in Calls, AttemptSubmit(c)
    PROVE  CallInv(c)'
<1>1. /\ Reserve(c) /\ loc' = [loc EXCEPT ![c].attempt = @ + 1]
      /\ pc' = [pc EXCEPT ![c] = "submitted"] /\ UNCHANGED <<scenario, invoked>>
      /\ worker' = [worker EXCEPT ![c] = "queued"]
  BY DEF AttemptSubmit, Goto, envVars
<1>2. pc'[c] = "submitted" /\ worker'[c] = "queued"
  BY <1>1, ReadyFacts DEF Types
<1>3. invoked[c][Pin(c)] \in Nat
  BY <1>1, ReadyFacts DEF Types
<1>4. Counted(c)'
  <2>1. ~Single(c) => \A f \in Fps \ ReadOnly : invoked[c][f] = 0
    BY <1>1, ReadyFacts DEF CallInv, Counted
  <2>2. Single(c) => /\ \A f \in Fps : invoked[c][f] > 0 => f = Pin(c)
                     /\ invoked[c][Pin(c)] < loc[c].attempt + 1
    BY <1>1, <1>3, ReadyFacts DEF CallInv, Counted
  <2>3. /\ Pin(c)' = Pin(c) /\ Single(c)' = Single(c) /\ invoked' = invoked
        /\ loc'[c].attempt = loc[c].attempt + 1 /\ loc[c].attempt \in Nat
    BY <1>1, <1>2, NextAttempt, ReadyFacts
  <2>4. Single(c) => invoked[c][Pin(c)] <= loc[c].attempt + 1
    BY <1>3, <2>2, <2>3
  <2> QED
    BY <1>2, <2>1, <2>2, <2>3, <2>4 DEF Counted
<1>5. Jobbed(c)'
  BY <1>1, <1>2, NextAttempt, ReadyFacts DEF Jobbed
<1> QED
  BY <1>1, <1>2, <1>4, <1>5, NextAttempt DEF CallInv

\* A call whose attempt ended has no job left in the pool.
LEMMA AwaitingFacts ==
    ASSUME ExecutionInv, NEW c \in Calls, Awaiting(c)
    PROVE  /\ Types /\ CallInv(c) /\ Live(c) /\ pc[c] \in {"invoking", "offloaded"}
           /\ worker[c] \notin {"queued", "running"}
           /\ Key(c) \in Keys /\ Pin(c) \in Fps /\ invoked[c][Pin(c)] > 0
           /\ loc[c].attempt \in Nat
<1>1. Types /\ CallInv(c) /\ pc[c] \in {"invoking", "offloaded"} /\ Live(c)
  BY DEF ExecutionInv, Awaiting, Live, Ends
<1>2. worker[c] \notin {"queued", "running"}
  BY <1>1 DEF Awaiting, CallInv, Jobbed, Ends
<1>3. invoked[c][Pin(c)] > 0 /\ loc[c].attempt \in Nat /\ loc[c].at \in DOMAIN ChainOf[c]
  BY <1>1 DEF Awaiting, CallInv, Jobbed, Candidate, Types, Locals
<1> QED
  BY <1>1, <1>2, <1>3, PinTypes

\* A transient failure is retried, or fails the call.
LEMMA FailsTransientlyInv ==
    ASSUME ExecutionInv, NEW c \in Calls, FailsTransiently(c)
    PROVE  CallInv(c)'
<1>1. Awaiting(c) /\ UNCHANGED <<scenario, invoked>>
  BY DEF FailsTransiently, envVars
<1>2. CASE Retry(c, loc[c].attempt) /\ Forget(c)
  <2>1. worker'[c] \notin {"queued", "running", "done"}
    BY <1>1, <1>2, AwaitingFacts DEF Forget, Types
  <2>2. loc[c].attempt >= loc[c].attempt
    BY <1>1, AwaitingFacts
  <2> QED
    BY <1>1, <1>2, <2>1, <2>2, AwaitingFacts, RetryInv
<1>3. CASE End(c, "failed") /\ UNCHANGED worker
  <2>1. MayMoveTo(c, "failed")
    BY <1>1, AwaitingFacts DEF MayMoveTo, Live, Ends
  <2>2. pc'[c] = "failed" /\ UNCHANGED loc
    BY <1>1, <1>3, AwaitingFacts DEF Types, End, Goto
  <2> QED
    BY <1>1, <1>3, <2>1, <2>2, AwaitingFacts, Move
<1> QED
  BY <1>2, <1>3 DEF FailsTransiently

\* An unavailable provider is retried, or the chain goes on.
LEMMA UnavailableInv ==
    ASSUME ExecutionInv, NEW c \in Calls, Unavailable(c)
    PROVE  CallInv(c)'
<1>1. /\ Awaiting(c) /\ UNCHANGED <<scenario, invoked>> /\ Forget(c)
      /\ Retry(c, loc[c].attempt) \/ NextCandidate(c)
  BY DEF Unavailable, envVars
<1>2. worker'[c] \notin {"queued", "running", "done"}
  BY <1>1, AwaitingFacts DEF Forget, Types
<1>3. loc[c].attempt >= loc[c].attempt
  BY <1>1, AwaitingFacts
<1> QED
  BY <1>1, <1>2, <1>3, AwaitingFacts, RetryInv, NextCandidateInv

\* A call that is given up keeps a job of a mutation and drops another.
LEMMA GivenUpInv ==
    ASSUME ExecutionInv, NEW c \in Calls, Live(c), UNCHANGED <<scenario, loc, invoked>>,
           NEW place \in {"budget", "cancelled", "indeterminate"},
           pc' = [pc EXCEPT ![c] = place], GiveUpWorker(c),
           place = "cancelled" => pc[c] # "submitted" /\ ~(pc[c] = "offloaded" /\ Mutating(c))
    PROVE  CallInv(c)'
<1>1. Types /\ CallInv(c) /\ pc'[c] = place
  BY DEF ExecutionInv, Types
<1>2. CASE worker'[c] = worker[c]
  <2>1. MayMoveTo(c, place)
    BY <1>1 DEF MayMoveTo, CallInv, Jobbed, Live, Ends
  <2> QED
    BY <1>1, <1>2, <2>1, Move
<1>3. CASE worker'[c] = "none"
  <2>1. pc[c] # "start" /\ ~Live(c)' /\ pc'[c] \in Ends
    BY <1>1 DEF Live, Ends
  <2>2. Candidate(c)' /\ Attempted(c)'
    BY <1>1, <1>3, <2>1, SameCandidate DEF CallInv, Candidate, Attempted, Ends
  <2>3. Counted(c)'
    BY <1>1, <1>3, <2>1, SameCandidate DEF CallInv, Counted
  <2>4. Jobbed(c)'
    BY <1>1, <1>3 DEF Jobbed
  <2> QED
    BY <1>1, <2>2, <2>3, <2>4 DEF CallInv
<1> QED
  BY <1>1, <1>2, <1>3 DEF GiveUpWorker, Types

\* A deadline leaves a worker that carries out a mutation to itself.
LEMMA TimeoutInv ==
    ASSUME ExecutionInv, NEW c \in Calls, Timeout(c)
    PROVE  CallInv(c)'
<1>1. /\ GiveUpWorker(c) /\ UNCHANGED <<scenario, loc, invoked>> /\ Live(c)
      /\ \E place \in {"budget", "indeterminate"} : pc' = [pc EXCEPT ![c] = place]
  BY DEF Timeout, End, Goto, envVars, Live, Ends
<1> QED
  BY <1>1, GivenUpInv

\* So does a cancellation, and then it does not answer cancelled.
LEMMA CancelInv ==
    ASSUME ExecutionInv, NEW c \in Calls, Cancel(c)
    PROVE  CallInv(c)'
<1>1. /\ GiveUpWorker(c) /\ UNCHANGED <<scenario, loc, invoked>> /\ Live(c)
      /\ \E place \in {"cancelled", "indeterminate"} :
            /\ pc' = [pc EXCEPT ![c] = place]
            /\ place = "cancelled" =>
                  pc[c] # "submitted" /\ ~(pc[c] = "offloaded" /\ Mutating(c))
  BY DEF Cancel, End, Goto, envVars, Live, Ends
<1> QED
  BY <1>1, GivenUpInv

\* The worker spends the attempt the job was submitted with.
LEMMA WorkerStartsInv ==
    ASSUME ExecutionInv, NEW c \in Calls, WorkerStarts(c)
    PROVE  CallInv(c)'
<1>1. /\ Types /\ CallInv(c) /\ worker[c] = "queued" /\ UNCHANGED <<scenario, pc, loc>>
  BY DEF WorkerStarts, ExecutionInv, envVars
<1>2. CASE worker' = [worker EXCEPT ![c] = "refused"] /\ UNCHANGED invoked
  <2>1. worker'[c] = "refused"
    BY <1>1, <1>2 DEF Types
  <2> QED
    BY <1>1, <1>2, <2>1, JobSettles
<1>3. CASE worker' = [worker EXCEPT ![c] = "running"] /\ Invoke(c)
  <2>1. worker'[c] = "running" /\ pc[c] # "start"
    BY <1>1, <1>3 DEF Types, CallInv, Jobbed, Ends
  <2>2. Pin(c) \in Fps /\ (~Single(c) => Pin(c) \in ReadOnly)
    <3>1. loc[c].at \in DOMAIN ChainOf[c]
      BY <1>1, <2>1 DEF CallInv, Candidate
    <3> QED
      BY <1>1, <3>1, PinTypes DEF CallInv, Candidate, Pin, Key
  <2>3. /\ invoked[c] \in [Fps -> Nat]
        /\ invoked'[c] = [invoked[c] EXCEPT ![Pin(c)] = @ + 1]
    BY <1>1, <1>3 DEF Types, Invoke
  <2>4. /\ invoked'[c][Pin(c)] = invoked[c][Pin(c)] + 1 /\ invoked[c][Pin(c)] \in Nat
        /\ \A f \in Fps : f # Pin(c) => invoked'[c][f] = invoked[c][f]
    BY <2>2, <2>3
  <2>5. Candidate(c)' /\ Attempted(c)'
    BY <1>1, <2>1, SameCandidate DEF CallInv, Candidate, Attempted, Live
  <2>6. Counted(c)'
    <3>1. ~Single(c) => \A f \in Fps \ ReadOnly : invoked'[c][f] = 0
      BY <1>1, <2>2, <2>4 DEF CallInv, Counted
    <3>2. Single(c) => /\ \A f \in Fps : invoked'[c][f] > 0 => f = Pin(c)
                       /\ invoked'[c][Pin(c)] <= loc[c].attempt
      <4>1. loc[c].attempt \in Nat
        BY <1>1 DEF Types, Locals
      <4> QED
        BY <1>1, <2>1, <2>2, <2>4, <4>1 DEF CallInv, Counted
    <3> QED
      BY <1>1, <2>1, <3>1, <3>2, SameCandidate DEF Counted
  <2>7. Jobbed(c)'
    BY <1>1, <2>1, <2>4, SameCandidate DEF CallInv, Jobbed
  <2> QED
    BY <1>1, <2>5, <2>6, <2>7 DEF CallInv
<1> QED
  BY <1>2, <1>3 DEF WorkerStarts

\* A job that ended was an invocation.
LEMMA WorkerEndsInv ==
    ASSUME ExecutionInv, NEW c \in Calls, WorkerEnds(c)
    PROVE  CallInv(c)'
<1>1. /\ Types /\ CallInv(c) /\ worker[c] = "running" /\ worker'[c] = "done"
      /\ UNCHANGED <<scenario, pc, loc, invoked>>
  BY DEF WorkerEnds, ExecutionInv, envVars, Types
<1>2. Candidate(c)' /\ Attempted(c)'
  BY <1>1, SameCandidate DEF CallInv, Candidate, Attempted, Live
<1>3. Counted(c)'
  BY <1>1, SameCandidate DEF CallInv, Counted
<1>4. Jobbed(c)'
  BY <1>1, SameCandidate DEF CallInv, Jobbed, Ends
<1> QED
  BY <1>1, <1>2, <1>3, <1>4 DEF CallInv

-----------------------------------------------------------------------------
(* What one call does to the rest of the state *)

Acts(c) == Step(c) \/ WorkerStarts(c) \/ WorkerEnds(c)

\* The action of a call keeps that call's part of the invariant.
LEMMA ActsInv ==
    ASSUME ExecutionInv, NEW c \in Calls, Acts(c)
    PROVE  CallInv(c)'
<1>1. CallInv(c) /\ Types
  BY DEF ExecutionInv
<1> QED
  BY <1>1, PlanInv, StartCallInv, EnterCallInv, AttemptInCooldownInv, AttemptInvokeInv,
     AttemptSubmitInv,
     AttemptNoSlotInv, FailsTransientlyInv, UnavailableInv, TimeoutInv, CancelInv,
     WorkerStartsInv, WorkerEndsInv, QuietInv
     DEF Acts, Step, Quiet

\* It leaves the environment and the other calls alone, and forgets no invocation.
Own(c) ==
    /\ UNCHANGED envVars
    /\ pc' \in [Calls -> Places] /\ loc' \in [Calls -> Locals]
    /\ worker' \in [Calls -> Jobs] /\ invoked' \in [Calls -> [Fps -> Nat]]
    /\ \A d \in Calls \ {c} : /\ pc'[d] = pc[d] /\ loc'[d] = loc[d]
                              /\ worker'[d] = worker[d] /\ invoked'[d] = invoked[d]
    /\ \A f \in Fps : invoked'[c][f] >= invoked[c][f]

\* What it does to its own place, locals and job stays within their types.
LEMMA OwnByParts ==
    ASSUME Types, NEW c \in Calls, UNCHANGED envVars,
           NEW p \in Places, pc' = [pc EXCEPT ![c] = p],
           NEW l \in Locals, loc' = [loc EXCEPT ![c] = l],
           NEW j \in Jobs, worker' = [worker EXCEPT ![c] = j],
           UNCHANGED invoked
    PROVE  Own(c)
  BY DEF Own, Types

\* Locals of a call that is tried again or goes on to the next candidate.
LEMMA AgainParts ==
    ASSUME Types, NEW c \in Calls, CallInv(c), NEW attempt \in Nat,
           Retry(c, attempt) \/ NextCandidate(c)
    PROVE  /\ \E p \in Places : pc' = [pc EXCEPT ![c] = p]
           /\ \E l \in Locals : loc' = [loc EXCEPT ![c] = l]
<1>1. loc[c] \in Locals /\ loc \in [Calls -> Locals] /\ Limit(c) \in 1 .. Attempts
      /\ Attempts \in Nat
  BY LimitTypes, ScenarioTypes DEF Types
<1>2. CASE Retry(c, attempt)
  <2>1. [loc[c] EXCEPT !.attempt = attempt] \in Locals
    BY <1>1, <1>2 DEF Retry, Locals
  <2>2. loc' = [loc EXCEPT ![c] = [loc[c] EXCEPT !.attempt = attempt]]
    BY <1>1, <1>2 DEF Retry
  <2> QED
    BY <1>2, <2>1, <2>2 DEF Retry, Goto, Places, Ends
<1>3. CASE End(c, "unavailable")
  <2>1. loc' = [loc EXCEPT ![c] = loc[c]]
    BY <1>1, <1>3 DEF End
  <2> QED
    BY <1>1, <1>3, <2>1 DEF End, Goto, Places, Ends
<1>4. CASE Goto(c, "call") /\ \E i \in loc[c].kept :
               loc' = [loc EXCEPT ![c].at = i, ![c].attempt = 0]
  <2>1. PICK i \in loc[c].kept : loc' = [loc EXCEPT ![c].at = i, ![c].attempt = 0]
    BY <1>4
  <2>2. [loc[c] EXCEPT !.at = i, !.attempt = 0] \in Locals
    <3>1. i \in Nat /\ 0 \in 0 .. Attempts
      BY <1>1 DEF Locals
    <3> QED
      BY <1>1, <3>1 DEF Locals
  <2>3. loc' = [loc EXCEPT ![c] = [loc[c] EXCEPT !.at = i, !.attempt = 0]]
    BY <1>1, <2>1
  <2> QED
    BY <1>4, <2>2, <2>3 DEF Goto, Places
<1> QED
  BY <1>2, <1>3, <1>4 DEF NextCandidate

\* One invocation more.
LEMMA CountUp ==
    ASSUME NEW count \in [Fps -> Nat], NEW f
    PROVE  [count EXCEPT ![f] = @ + 1] \in [Fps -> Nat]
<1> DEFINE new == [count EXCEPT ![f] = @ + 1]
<1>1. DOMAIN new = Fps
  OBVIOUS
<1>2. ASSUME NEW g \in Fps
      PROVE  new[g] \in Nat
  <2>1. count[g] \in Nat
    OBVIOUS
  <2>2. new[g] \in {count[g], count[g] + 1}
    OBVIOUS
  <2> QED
    BY <2>1, <2>2
<1> QED
  BY <1>1, <1>2

\* An action of a call leaves the environment and the other calls alone.
LEMMA ActsOwn ==
    ASSUME ExecutionInv, NEW c \in Calls, Acts(c)
    PROVE  Own(c)
<1>1. /\ Types /\ CallInv(c) /\ loc[c] \in Locals /\ worker[c] \in Jobs /\ pc[c] \in Places
      /\ pc = [pc EXCEPT ![c] = pc[c]] /\ loc = [loc EXCEPT ![c] = loc[c]]
      /\ worker = [worker EXCEPT ![c] = worker[c]]
      /\ invoked[c] \in [Fps -> Nat]
      /\ Attempts \in Nat \ {0}
  BY ScenarioTypes DEF ExecutionInv, Types
<1>2. CASE Quiet(c)
  BY <1>1, <1>2, QuietMoves, OwnByParts
<1>3. CASE Plan(c)
  <2>1. loc' = [loc EXCEPT ![c] = [loc[c] EXCEPT !.pin = contract]]
    BY <1>1, <1>3 DEF Plan, Types
  <2>2. [loc[c] EXCEPT !.pin = contract] \in Locals
    BY <1>1 DEF Locals, Types
  <2> QED
    BY <1>1, <1>3, <2>1, <2>2, OwnByParts DEF Plan, Goto, Stay, Places
<1>4. CASE StartCall(c)
  <2>1. /\ UNCHANGED <<envVars, worker, invoked>>
        /\ \E p \in Places : pc' = [pc EXCEPT ![c] = p]
    BY <1>4 DEF StartCall, Stay, End, Goto, Places, Ends
  <2>2. \E l \in Locals : loc' = [loc EXCEPT ![c] = l]
    <3>1. CASE UNCHANGED loc
      BY <1>1, <3>1
    <3>2. CASE \E kept \in SUBSET DOMAIN ChainOf[c] : \E i \in kept :
                   loc' = [loc EXCEPT ![c].kept = kept, ![c].at = i]
      <4>0. PICK kept \in SUBSET DOMAIN ChainOf[c] : \E i \in kept :
                   loc' = [loc EXCEPT ![c].kept = kept, ![c].at = i]
        BY <3>2
      <4>1. PICK i \in kept :
                   loc' = [loc EXCEPT ![c].kept = kept, ![c].at = i]
        BY <4>0
      <4>2. kept \in SUBSET Nat /\ i \in Nat
        BY <1>1, <4>1, ChainTypes DEF Types
      <4>3. [loc[c] EXCEPT !.kept = kept, !.at = i] \in Locals
        BY <1>1, <4>2 DEF Locals
      <4>4. loc' = [loc EXCEPT ![c] = [loc[c] EXCEPT !.kept = kept, !.at = i]]
        BY <1>1, <4>1 DEF Types
      <4> QED
        BY <4>3, <4>4
    <3> QED
      BY <1>4, <3>1, <3>2 DEF StartCall, End
  <2> QED
    BY <1>1, <2>1, <2>2, OwnByParts
<1>5. CASE EnterCall(c)
  <2>1. /\ UNCHANGED <<envVars, worker, invoked>>
        /\ \E p \in Places : pc' = [pc EXCEPT ![c] = p]
    BY <1>5 DEF EnterCall, Stay, End, Goto, Places, Ends
  <2>2. \E l \in Locals : loc' = [loc EXCEPT ![c] = l]
    <3>1. [loc[c] EXCEPT !.snap = policy, !.asked = policy] \in Locals
      BY <1>1 DEF Locals, Types
    <3>2. \/ UNCHANGED loc
          \/ loc' = [loc EXCEPT ![c] = [loc[c] EXCEPT !.snap = policy, !.asked = policy]]
      BY <1>1, <1>5 DEF EnterCall, End, Types
    <3> QED
      BY <1>1, <3>1, <3>2
  <2> QED
    BY <1>1, <2>1, <2>2, OwnByParts
<1>6. CASE AttemptInCooldown(c) \/ AttemptNoSlot(c) \/ Unavailable(c)
           \/ (FailsTransiently(c) /\ Retry(c, loc[c].attempt) /\ Forget(c))
  <2>1. /\ UNCHANGED <<envVars, invoked>>
        /\ \E j \in Jobs : worker' = [worker EXCEPT ![c] = j]
    BY <1>1, <1>6 DEF AttemptInCooldown, AttemptNoSlot, Unavailable, FailsTransiently, Forget, Jobs
  <2>2. loc[c].attempt \in Nat /\ loc[c].attempt + 1 \in Nat
    BY <1>1 DEF Locals
  <2>3. \/ Retry(c, loc[c].attempt) \/ Retry(c, loc[c].attempt + 1) \/ NextCandidate(c)
    BY <1>6 DEF AttemptInCooldown, AttemptNoSlot, Unavailable
  <2> QED
    BY <1>1, <2>1, <2>2, <2>3, AgainParts, OwnByParts
<1>7. CASE FailsTransiently(c) /\ End(c, "failed") /\ UNCHANGED worker
  BY <1>1, <1>7, OwnByParts DEF FailsTransiently, End, Goto, Places, Ends
<1>8. CASE AttemptInvoke(c) \/ AttemptSubmit(c)
  <2>1. Reserve(c) /\ loc[c].attempt \in Nat /\ loc[c].attempt + 1 <= Attempts
    <3>1. Reserve(c)
      BY <1>8 DEF AttemptInvoke, AttemptSubmit
    <3> QED
      BY <1>1, <3>1, ReadyFacts, LimitTypes
  <2>2. [loc[c] EXCEPT !.attempt = @ + 1] \in Locals
    BY <1>1, <2>1 DEF Locals
  <2>3. loc' = [loc EXCEPT ![c] = [loc[c] EXCEPT !.attempt = @ + 1]]
    BY <1>1, <1>8 DEF AttemptInvoke, AttemptSubmit, Types
  <2>4. CASE AttemptSubmit(c)
    BY <1>1, <2>2, <2>3, <2>4, OwnByParts DEF AttemptSubmit, Goto, Places, Jobs
  <2>5. CASE AttemptInvoke(c)
    <3>1. /\ UNCHANGED <<envVars, worker>> /\ pc' = [pc EXCEPT ![c] = "invoking"]
          /\ invoked' = [invoked EXCEPT ![c] = [invoked[c] EXCEPT ![Pin(c)] = @ + 1]]
      BY <1>1, <2>5 DEF AttemptInvoke, Goto, Invoke, Types
    <3>2. [invoked[c] EXCEPT ![Pin(c)] = @ + 1] \in [Fps -> Nat]
      BY <1>1, CountUp
    <3> QED
      BY <1>1, <2>2, <2>3, <3>1, <3>2 DEF Own, Types, Places
  <2> QED
    BY <1>8, <2>4, <2>5
<1>9. CASE Timeout(c) \/ Cancel(c)
  <2>1. /\ UNCHANGED <<envVars, invoked, loc>>
        /\ \E p \in Places : pc' = [pc EXCEPT ![c] = p]
        /\ \E j \in Jobs : worker' = [worker EXCEPT ![c] = j]
    BY <1>1, <1>9 DEF Timeout, Cancel, GiveUpWorker, End, Goto, Places, Ends, Jobs
  <2> QED
    BY <1>1, <2>1, OwnByParts
<1>10. CASE WorkerEnds(c) \/ (WorkerStarts(c) /\ UNCHANGED invoked)
  <2>1. /\ UNCHANGED <<envVars, invoked, loc, pc>>
        /\ \E j \in Jobs : worker' = [worker EXCEPT ![c] = j]
    BY <1>1, <1>10 DEF WorkerEnds, WorkerStarts, Jobs
  <2> QED
    BY <1>1, <2>1, OwnByParts
<1>11. CASE WorkerStarts(c) /\ worker' = [worker EXCEPT ![c] = "running"] /\ Invoke(c)
  <2>1. /\ UNCHANGED <<envVars, loc, pc>>
        /\ invoked' = [invoked EXCEPT ![c] = [invoked[c] EXCEPT ![Pin(c)] = @ + 1]]
    BY <1>1, <1>11 DEF WorkerStarts, Invoke, Types
  <2>2. [invoked[c] EXCEPT ![Pin(c)] = @ + 1] \in [Fps -> Nat]
    BY <1>1, CountUp
  <2> QED
    BY <1>1, <1>11, <2>1, <2>2 DEF Own, Types, Jobs
<1> QED
  BY <1>2, <1>3, <1>4, <1>5, <1>6, <1>7, <1>8, <1>9, <1>10, <1>11
     DEF Acts, Step, Quiet, FailsTransiently, WorkerStarts

\* It reserves at most one attempt, and only while there is one left.
LEMMA ActsReserve ==
    ASSUME NEW c \in Calls, Acts(c)
    PROVE  \/ UNCHANGED attemptCount
           \/ attemptCount < MaxAttempts /\ attemptCount' = attemptCount + 1
  BY DEF Acts, Step, Plan, StartCall, EnterCall, Approved, NotApproved, ReserveCall, BeforeHooksRan,
     BeforeHookFailed, AttemptOverBudget, AttemptRefused, AttemptInCooldown, AttemptInvoke,
     AttemptSubmit, AttemptNoSlot, AttemptClosed, AwaitWorker, Succeeds, FailsForGood, Dropped,
     FailsTransiently, Unavailable, BackoffOver, AfterHooksRan, AfterHookFailed, Timeout, Cancel,
     WorkerStarts, WorkerEnds, Stay, trackVars, Reserve

\* Its reservations stay within the budget.
LEMMA ActsTracked ==
    ASSUME ExecutionInv, NEW c \in Calls, Acts(c)
    PROVE  /\ cooldown' \in [Keys -> SUBSET Fps]
           /\ callCount' \in 0 .. MaxCalls /\ attemptCount' \in 0 .. MaxAttempts
<1>1. Types /\ MaxCalls \in Nat /\ MaxAttempts \in Nat
  BY ScenarioTypes DEF ExecutionInv, Types
<1>2. UNCHANGED callCount \/ (callCount < MaxCalls /\ callCount' = callCount + 1)
  <2>1. UNCHANGED callCount \/ ReserveCall(c)
    BY DEF Acts, Step, Plan, StartCall, EnterCall, Approved, NotApproved, BeforeHooksRan,
       BeforeHookFailed, AttemptOverBudget, AttemptRefused, AttemptInCooldown, AttemptInvoke,
       AttemptSubmit, AttemptNoSlot, AttemptClosed, AwaitWorker, Succeeds, FailsForGood, Dropped,
       FailsTransiently, Unavailable, BackoffOver, AfterHooksRan, AfterHookFailed, Timeout, Cancel,
       WorkerStarts, WorkerEnds, Stay, trackVars
  <2> QED
    BY <1>1, <2>1 DEF ReserveCall, Types
<1>3. UNCHANGED attemptCount \/ (attemptCount < MaxAttempts /\ attemptCount' = attemptCount + 1)
  BY ActsReserve
<1>4. \/ UNCHANGED cooldown
      \/ cooldown' = [cooldown EXCEPT ![Key(c)] = @ \ {Pin(c)}]
      \/ Awaiting(c) /\ cooldown' = [cooldown EXCEPT ![Key(c)] = {Pin(c)}]
  BY DEF Acts, Step, Plan, StartCall, EnterCall, Approved, NotApproved, ReserveCall, BeforeHooksRan,
     BeforeHookFailed, AttemptOverBudget, AttemptRefused, AttemptInCooldown, AttemptInvoke,
     AttemptSubmit, AttemptNoSlot, AttemptClosed, AwaitWorker, Succeeds, FailsForGood, Dropped,
     FailsTransiently, Unavailable, BackoffOver, AfterHooksRan, AfterHookFailed, Timeout, Cancel,
     WorkerStarts, WorkerEnds, Stay
<1>5. cooldown' \in [Keys -> SUBSET Fps]
  <2>1. Awaiting(c) => Pin(c) \in Fps
    BY AwaitingFacts
  <2> QED
    BY <1>1, <1>4, <2>1 DEF Types
<1> QED
  BY <1>1, <1>2, <1>3, <1>5 DEF Types

\* A call whose provider is or was called has just called it, or had before and
\* still executes the same candidate.
LEMMA ActsProvide ==
    ASSUME ExecutionInv, NEW c \in Calls, Acts(c), Provided(c)'
    PROVE  /\ loc'[c].pin = loc[c].pin /\ loc'[c].at = loc[c].at
           /\ Provided(c) \/ Invoke(c)
<1>1. Types /\ CallInv(c) /\ loc[c] \in Locals
  BY DEF ExecutionInv, Types
<1>2. CASE Quiet(c)
  <2>1. UNCHANGED <<loc, worker>> /\ \E p \in Places : MayMoveTo(c, p) /\ pc' = [pc EXCEPT ![c] = p]
    BY <1>2, QuietMoves
  <2> QED
    BY <1>1, <2>1 DEF MayMoveTo, Provided, Types
<1>3. CASE Plan(c) \/ StartCall(c) \/ EnterCall(c)
  <2>1. UNCHANGED worker /\ pc[c] \in {"start", "planned", "call"}
    BY <1>3 DEF Plan, StartCall, EnterCall, Stay
  <2>2. pc'[c] # "invoking"
    BY <1>1, <1>3 DEF Plan, StartCall, EnterCall, End, Goto, Types
  <2> QED
    BY <1>1, <2>1, <2>2 DEF Provided, CallInv, Jobbed, Ends
<1>4. CASE AttemptInCooldown(c) \/ AttemptNoSlot(c)
  <2>1. UNCHANGED worker /\ pc[c] = "ready"
    BY <1>4 DEF AttemptInCooldown, AttemptNoSlot, Reserve
  <2>2. pc'[c] # "invoking"
    BY <1>1, <1>4 DEF AttemptInCooldown, AttemptNoSlot, Retry, NextCandidate, End, Goto, Types
  <2> QED
    BY <1>1, <2>1, <2>2 DEF Provided, CallInv, Jobbed, Ends
<1>5. CASE AttemptInvoke(c)
  BY <1>1, <1>5 DEF AttemptInvoke, Types, Locals
<1>6. CASE AttemptSubmit(c)
  BY <1>1, <1>6 DEF AttemptSubmit, Goto, Provided, Types
<1>7. CASE (FailsTransiently(c) \/ Unavailable(c)) /\ Forget(c)
  <2>1. worker[c] \notin {"queued", "running"}
    BY <1>7, AwaitingFacts DEF FailsTransiently, Unavailable
  <2>2. worker'[c] \notin {"running", "done"}
    BY <1>1, <1>7, <2>1 DEF Forget, Types
  <2>3. pc'[c] # "invoking"
    BY <1>1, <1>7 DEF FailsTransiently, Unavailable, Retry, NextCandidate, End, Goto, Types
  <2> QED
    BY <2>2, <2>3 DEF Provided
<1>8. CASE FailsTransiently(c) /\ End(c, "failed")
  BY <1>8 DEF FailsTransiently, Awaiting, End, Provided
<1>9. CASE Timeout(c) \/ Cancel(c)
  BY <1>1, <1>9 DEF Timeout, Cancel, GiveUpWorker, End, Goto, Provided, Types
<1>10. CASE WorkerStarts(c)
  BY <1>1, <1>10 DEF WorkerStarts, Provided, Types
<1>11. CASE WorkerEnds(c)
  BY <1>1, <1>11 DEF WorkerEnds, Provided, Types
<1> QED
  BY <1>2, <1>3, <1>4, <1>5, <1>6, <1>7, <1>8, <1>9, <1>10, <1>11
     DEF Acts, Step, Quiet, FailsTransiently, Unavailable

\* Nobody's provider is forgotten, and a path enters cooldown, or leaves it, with
\* what is remembered of its outage.
LEMMA ActsCool ==
    ASSUME ExecutionInv, NEW c \in Calls, Acts(c)
    PROVE  Reaching' /\ CooldownMeansOutage'
<1>1. Types /\ Own(c) /\ UNCHANGED scenario
  BY ActsOwn DEF ExecutionInv, Own, envVars
<1>2. UNCHANGED reached \/ Invoke(c)
  BY DEF Acts, Step, Plan, StartCall, EnterCall, Approved, NotApproved, ReserveCall, BeforeHooksRan,
     BeforeHookFailed, AttemptOverBudget, AttemptRefused, AttemptInCooldown, AttemptInvoke,
     AttemptSubmit, AttemptNoSlot, AttemptClosed, AwaitWorker, Succeeds, FailsForGood, Dropped,
     FailsTransiently, Unavailable, BackoffOver, AfterHooksRan, AfterHookFailed, Timeout, Cancel,
     WorkerStarts, WorkerEnds, Stay
<1>3. reached \subseteq reached'
  BY <1>2 DEF Invoke
<1>4. ASSUME NEW d \in Calls, Provided(d)'
      PROVE  <<Key(d), Pin(d)>>' \in reached'
  <2>1. CASE d = c
    <3>1. /\ loc'[c].pin = loc[c].pin /\ loc'[c].at = loc[c].at
          /\ Provided(c) \/ Invoke(c)
      BY <1>4, <2>1, ActsProvide
    <3>2. Key(c)' = Key(c) /\ Pin(c)' = Pin(c)
      BY <1>1, <3>1, SameCandidate
    <3>3. <<Key(c), Pin(c)>> \in reached'
      BY <1>3, <3>1 DEF Invoke, ExecutionInv, Reaching
    <3> QED
      BY <2>1, <3>2, <3>3
  <2>2. CASE d # c
    <3>1. Provided(d) /\ loc'[d] = loc[d]
      BY <1>1, <1>4, <2>2 DEF Own, Provided
    <3>2. Key(d)' = Key(d) /\ Pin(d)' = Pin(d)
      BY <1>1, <3>1, SameCandidate
    <3>3. <<Key(d), Pin(d)>> \in reached'
      BY <1>3, <3>1 DEF ExecutionInv, Reaching
    <3> QED
      BY <3>2, <3>3
  <2> QED
    BY <2>1, <2>2
<1>5. \/ UNCHANGED <<cooldown, down>>
      \/ /\ cooldown' = [cooldown EXCEPT ![Key(c)] = @ \ {Pin(c)}]
         /\ down' = down \ {<<Key(c), Pin(c)>>}
      \/ /\ Awaiting(c) /\ cooldown' = [cooldown EXCEPT ![Key(c)] = {Pin(c)}]
         /\ down' = down \cup {<<Key(c), Pin(c)>>}
  <2>1. CASE Succeeds(c)
    BY <1>1, <2>1 DEF Succeeds, End, Goto, Types
  <2>2. CASE ~Succeeds(c)
    BY <2>2 DEF Acts, Step, Plan, StartCall, EnterCall, Approved, NotApproved, ReserveCall, BeforeHooksRan,
       BeforeHookFailed, AttemptOverBudget, AttemptRefused, AttemptInCooldown, AttemptInvoke,
       AttemptSubmit, AttemptNoSlot, AttemptClosed, AwaitWorker, FailsForGood, Dropped,
       FailsTransiently, Unavailable, BackoffOver, AfterHooksRan, AfterHookFailed, Timeout, Cancel,
       WorkerStarts, WorkerEnds, Stay
  <2> QED
    BY <2>1, <2>2
<1>6. ASSUME NEW k \in Keys, NEW f \in cooldown'[k]
      PROVE  <<k, f>> \in reached' /\ <<k, f>> \in down'
  <2>1. \A g \in cooldown[k] : <<k, g>> \in reached /\ <<k, g>> \in down
    BY DEF ExecutionInv, CooldownMeansOutage
  <2>2. CASE UNCHANGED <<cooldown, down>>
    BY <1>3, <2>1, <2>2
  <2>3. CASE /\ cooldown' = [cooldown EXCEPT ![Key(c)] = @ \ {Pin(c)}]
             /\ down' = down \ {<<Key(c), Pin(c)>>}
    <3>1. f \in cooldown[k] /\ (k = Key(c) => f # Pin(c))
      BY <1>1, <2>3 DEF Types
    <3> QED
      BY <1>3, <2>1, <2>3, <3>1
  <2>4. CASE /\ Awaiting(c) /\ cooldown' = [cooldown EXCEPT ![Key(c)] = {Pin(c)}]
             /\ down' = down \cup {<<Key(c), Pin(c)>>}
    <3>1. <<Key(c), Pin(c)>> \in reached
      BY <2>4 DEF ExecutionInv, Reaching, Provided, Awaiting
    <3>2. f \in cooldown[k] \/ (k = Key(c) /\ f = Pin(c))
      BY <1>1, <2>4 DEF Types
    <3> QED
      BY <1>3, <2>1, <2>4, <3>1, <3>2
  <2> QED
    BY <1>5, <2>2, <2>3, <2>4
<1>7. Reaching'
  BY <1>4 DEF Reaching
<1> QED
  BY <1>6, <1>7 DEF CooldownMeansOutage

\* It takes no slot that is not free.
LEMMA ActsBusy ==
    ASSUME ExecutionInv, NEW c \in Calls, Acts(c)
    PROVE  Cardinality(Busy') <= Workers'
<1>1. /\ Types /\ Own(c) /\ Workers' = Workers /\ Workers \in Nat
      /\ IsFiniteSet(Busy) /\ Cardinality(Busy) <= Workers
  <2>1. Busy \subseteq Calls /\ IsFiniteSet(Calls)
    BY ExecutionAssumption DEF Busy
  <2> QED
    BY <2>1, ActsOwn, ScenarioTypes, FS_Subset DEF ExecutionInv, Own, Types, Workers, envVars
<1>2. CASE AttemptSubmit(c)
  <2>1. Busy' = Busy \cup {c} /\ Cardinality(Busy) < Workers
    BY <1>1, <1>2 DEF AttemptSubmit, FreeSlot, Busy, Types
  <2>2. Cardinality(Busy) \in Nat
    BY <1>1, FS_CardinalityType
  <2>3. Cardinality(Busy') \in {Cardinality(Busy), Cardinality(Busy) + 1}
    BY <1>1, <2>1, FS_AddElement
  <2> QED
    BY <1>1, <2>1, <2>2, <2>3
<1>3. CASE ~AttemptSubmit(c)
  <2>1. worker'[c] \in {"queued", "running"} => worker[c] \in {"queued", "running"}
    <3>1. Quiet(c) => UNCHANGED worker
      BY QuietMoves
    <3>2. UNCHANGED worker \/ Forget(c) \/ GiveUpWorker(c) \/ WorkerStarts(c) \/ WorkerEnds(c)
      BY <1>3, <3>1 DEF Acts, Step, Quiet, Plan, StartCall, EnterCall, AttemptInCooldown,
         AttemptInvoke, AttemptNoSlot, FailsTransiently, Unavailable, Timeout, Cancel, Stay
    <3> QED
      BY <1>1, <3>2 DEF Forget, GiveUpWorker, WorkerStarts, WorkerEnds, Types
  <2>2. Busy' \subseteq Busy
    BY <1>1, <2>1 DEF Busy, Own
  <2>3. Cardinality(Busy') <= Cardinality(Busy)
    BY <1>1, <2>2, FS_Subset
  <2>4. Cardinality(Busy) \in Nat /\ Cardinality(Busy') \in Nat
    BY <1>1, <2>2, FS_Subset, FS_CardinalityType
  <2> QED
    BY <1>1, <2>3, <2>4
<1> QED
  BY <1>2, <1>3

\* A step of a call keeps the invariant of all of them.
LEMMA ActsExecutionInv ==
    ASSUME ExecutionInv, NEW c \in Calls, Acts(c)
    PROVE  ExecutionInv'
<1>1. Types /\ Own(c) /\ Attempts' = Attempts
  BY ActsOwn DEF ExecutionInv, Own, Attempts, envVars
<1>2. Types'
  BY <1>1, ActsTracked DEF Types, Own, Locals, envVars, MaxCalls, MaxAttempts
<1>3. ASSUME NEW d \in Calls
      PROVE  CallInv(d)'
  <2>1. CASE d = c
    BY <2>1, ActsInv
  <2>2. CASE d # c
    BY <1>1, <2>2, Frame DEF ExecutionInv, Own, envVars
  <2> QED
    BY <2>1, <2>2
<1>4. Cardinality(Busy)' <= Workers'
  BY ActsBusy
<1>5. Reaching' /\ CooldownMeansOutage'
  BY ActsCool
<1> QED
  BY <1>2, <1>3, <1>4, <1>5 DEF ExecutionInv

\* Nor does what happens around the calls break it.
LEMMA OutsideExecutionInv ==
    ASSUME ExecutionInv, Environment \/ Shutdown \/ CooldownExpires \/ UNCHANGED vars
    PROVE  ExecutionInv'
<1>1. Types /\ UNCHANGED <<scenario, pc, loc, invoked, trackVars>>
  BY DEF ExecutionInv, Environment, ContractMoves, BindingMoves, PolicyMoves, AuthorizationMoves,
     DeadlinePasses, Shutdown, CooldownExpires, vars, envVars
<1>2. /\ worker' \in [Calls -> Jobs]
      /\ \A d \in Calls : worker'[d] = worker[d] \/ worker'[d] = "dropped"
  BY <1>1 DEF Environment, Shutdown, CooldownExpires, vars, Types, Jobs
<1>3. /\ cooldown' \in [Keys -> SUBSET Fps]
      /\ \A k \in Keys : cooldown'[k] \subseteq cooldown[k]
  BY <1>1 DEF Environment, Shutdown, CooldownExpires, vars, Types
<1>4. contract' \in [Keys -> Fps] /\ bound' \in [Keys -> Fps \cup {NoBinding}]
      /\ policy' \in 0 .. MaxPolicy
  <2>1. UNCHANGED contract \/ ContractMoves
    BY DEF Environment, BindingMoves, PolicyMoves, AuthorizationMoves, DeadlinePasses, Shutdown,
       CooldownExpires, vars, envVars
  <2>2. \A k \in Keys : scenario.contracts[k] \subseteq Fps
    BY <1>1, ExecutionAssumption DEF Types, Scenario
  <2>3. UNCHANGED bound \/ BindingMoves
    BY DEF Environment, ContractMoves, PolicyMoves, AuthorizationMoves, DeadlinePasses, Shutdown,
       CooldownExpires, vars, envVars
  <2>4. UNCHANGED policy \/ PolicyMoves
    BY DEF Environment, BindingMoves, ContractMoves, AuthorizationMoves, DeadlinePasses, Shutdown,
       CooldownExpires, vars, envVars
  <2>5. \A k \in Reached : k \in Keys
    BY <1>1, ChainTypes DEF Types, Reached
  <2>6. contract' \in [Keys -> Fps]
    BY <1>1, <2>1, <2>2, <2>5 DEF ContractMoves, Types
  <2>7. bound' \in [Keys -> Fps \cup {NoBinding}]
    BY <1>1, <2>3, <2>5 DEF BindingMoves, Types
  <2>8. policy' \in 0 .. MaxPolicy
    BY <1>1, <2>4, ExecutionAssumption DEF PolicyMoves, Types
  <2> QED
    BY <2>6, <2>7, <2>8
<1>5. Types'
  BY <1>1, <1>2, <1>3, <1>4 DEF Types, trackVars, Locals, MaxCalls, MaxAttempts, Attempts
<1>6. ASSUME NEW d \in Calls
      PROVE  CallInv(d)'
  <2>1. CallInv(d)
    BY DEF ExecutionInv
  <2> QED
    BY <1>1, <1>2, <2>1, Frame, JobSettles
<1>7. Cardinality(Busy') <= Workers'
  <2>1. Busy' \subseteq Busy /\ Workers' = Workers
    BY <1>1, <1>2 DEF Busy, Workers
  <2>2. IsFiniteSet(Busy)
    <3>1. Busy \subseteq Calls /\ IsFiniteSet(Calls)
      BY ExecutionAssumption DEF Busy
    <3> QED
      BY <3>1, FS_Subset
  <2>3. /\ Cardinality(Busy') <= Cardinality(Busy)
        /\ Cardinality(Busy) \in Nat /\ Cardinality(Busy') \in Nat
    BY <2>1, <2>2, FS_Subset, FS_CardinalityType
  <2>4. Workers \in Nat /\ Cardinality(Busy) <= Workers
    BY <1>1, ScenarioTypes DEF ExecutionInv, Types
  <2> QED
    BY <2>1, <2>3, <2>4
<1>8. Reaching' /\ UNCHANGED reached
  <2>1. UNCHANGED reached
    BY DEF Environment, Shutdown, CooldownExpires, vars
  <2>2. ASSUME NEW d \in Calls, Provided(d)'
        PROVE  <<Key(d), Pin(d)>>' \in reached'
    <3>1. Provided(d) /\ loc'[d] = loc[d]
      BY <1>1, <1>2, <2>2 DEF Provided
    <3>2. Key(d)' = Key(d) /\ Pin(d)' = Pin(d)
      BY <1>1, <3>1, SameCandidate
    <3>3. <<Key(d), Pin(d)>> \in reached
      BY <3>1 DEF ExecutionInv, Reaching
    <3> QED
      BY <2>1, <3>2, <3>3
  <2> QED
    BY <2>1, <2>2 DEF Reaching
<1>9. CooldownMeansOutage'
  <2>1. CASE UNCHANGED <<cooldown, down>>
    BY <1>8, <2>1 DEF ExecutionInv, CooldownMeansOutage
  <2>2. CASE CooldownExpires
    <3>1. PICK k \in Keys : \E f \in cooldown[k] : /\ cooldown' = [cooldown EXCEPT ![k] = @ \ {f}]
                                                  /\ down' = down \ {<<k, f>>}
      BY <2>2 DEF CooldownExpires
    <3>2. PICK f \in cooldown[k] : /\ cooldown' = [cooldown EXCEPT ![k] = @ \ {f}]
                                   /\ down' = down \ {<<k, f>>}
      BY <3>1
    <3>3. ASSUME NEW j \in Keys, NEW g \in cooldown'[j]
          PROVE  <<j, g>> \in reached' /\ <<j, g>> \in down'
      <4>1. g \in cooldown[j] /\ (j = k => g # f)
        BY <1>1, <3>2 DEF Types
      <4>2. <<j, g>> \in reached /\ <<j, g>> \in down
        BY <4>1 DEF ExecutionInv, CooldownMeansOutage
      <4> QED
        BY <1>8, <3>2, <4>1, <4>2
    <3> QED
      BY <3>3 DEF CooldownMeansOutage
  <2> QED
    BY <2>1, <2>2 DEF Environment, Shutdown, vars
<1> QED
  BY <1>5, <1>6, <1>7, <1>8, <1>9 DEF ExecutionInv

\* At the start no call is planned, nothing is in the pool or in cooldown.
LEMMA InitExecutionInv ==
    ASSUME Init
    PROVE  ExecutionInv
<1>1. scenario \in Scenarios /\ contract \in [Keys -> Fps]
  BY DEF Init
<1>2. Attempts \in Nat \ {0} /\ Workers \in Nat /\ MaxCalls \in Nat /\ MaxAttempts \in Nat
  BY <1>1, ScenarioTypes
<1>3. \A c \in Calls :
          loc[c] = [pin |-> contract, kept |-> {}, at |-> 1, attempt |-> 0, snap |-> 0, asked |-> 0]
  BY DEF Init
<1>4. loc \in [Calls -> Locals]
  <2>1. [pin |-> contract, kept |-> {}, at |-> 1, attempt |-> 0, snap |-> 0, asked |-> 0] \in Locals
    BY <1>1, <1>2, ExecutionAssumption DEF Locals
  <2> QED
    BY <2>1 DEF Init
<1>5. Types
  <2>1. 0 \in 0 .. MaxPolicy /\ 0 \in 0 .. MaxCalls /\ 0 \in 0 .. MaxAttempts
    BY <1>2, ExecutionAssumption
  <2>2. invoked \in [Calls -> [Fps -> Nat]]
    BY DEF Init
  <2>3. bound \in [Keys -> Fps \cup {NoBinding}] /\ cooldown \in [Keys -> SUBSET Fps]
    BY <1>1 DEF Init
  <2>4. pc \in [Calls -> Places] /\ worker \in [Calls -> Jobs]
    BY DEF Init, Places, Jobs
  <2> QED
    BY <1>1, <1>4, <2>1, <2>2, <2>3, <2>4 DEF Init, Types
<1>6. ASSUME NEW c \in Calls
      PROVE  CallInv(c)
  <2>1. /\ pc[c] = "start" /\ worker[c] = "none" /\ \A f \in Fps : invoked[c][f] = 0
        /\ loc[c].kept = {} /\ loc[c].at = 1 /\ loc[c].attempt = 0 /\ loc[c].asked = loc[c].snap
    BY <1>3 DEF Init
  <2> QED
    BY <2>1 DEF CallInv, Candidate, Attempted, Counted, Jobbed, Live
<1>7. Cardinality(Busy) <= Workers
  <2>1. Busy = {}
    BY DEF Init, Busy
  <2> QED
    BY <1>2, <2>1, FS_EmptySet
<1>8. Reaching /\ CooldownMeansOutage
  BY DEF Init, Reaching, Provided, CooldownMeansOutage
<1> QED
  BY <1>5, <1>6, <1>7, <1>8 DEF ExecutionInv

-----------------------------------------------------------------------------
(* Theorems *)

\* The inductive invariant: every call executes a candidate its checks let
\* through, within its limit of attempts, its invocations are covered by those
\* attempts, and its job belongs to the candidate it waits for.
THEOREM ExecutionInvariant == Spec => []ExecutionInv
<1>1. Init => ExecutionInv
  BY InitExecutionInv
<1>2. ExecutionInv /\ [Next]_vars => ExecutionInv'
  <2> SUFFICES ASSUME ExecutionInv, [Next]_vars PROVE ExecutionInv'
    OBVIOUS
  <2>1. CASE \E c \in Calls : Acts(c)
    BY <2>1, ActsExecutionInv
  <2>2. CASE Environment \/ Shutdown \/ CooldownExpires \/ UNCHANGED vars
    BY <2>2, OutsideExecutionInv
  <2> QED
    BY <2>1, <2>2 DEF Next, Acts
<1> QED
  BY <1>1, <1>2, PTL DEF Spec

\* State and pool stay well-formed: jobs never outnumber the slots of the
\* worker pool, reservations never exceed the shared budget.
THEOREM ExecutionTypes == Spec => []ExecutionTypeOK
<1>1. ExecutionInv => ExecutionTypeOK
  BY DEF ExecutionInv, Types, ExecutionTypeOK
<1> QED
  BY <1>1, ExecutionInvariant, PTL

\* Without retry_non_read_only, no interleaving of retries, fallbacks, worker
\* threads, deadlines and cancellations invokes a mutating contract twice for
\* one call, or two of them.
THEOREM MutationsHappenOnce == Spec => []MutationAtMostOnce
<1>1. ExecutionInv => MutationAtMostOnce
  <2> SUFFICES ASSUME ExecutionInv, ~RetryMutations, NEW c \in Calls,
                      NEW f \in Fps \ ReadOnly, NEW g \in Fps \ ReadOnly
               PROVE  /\ invoked[c][f] <= 1
                      /\ invoked[c][f] > 0 /\ invoked[c][g] > 0 => f = g
    BY DEF MutationAtMostOnce
  <2>1. Types /\ CallInv(c) /\ invoked[c][f] \in Nat /\ invoked[c][g] \in Nat
    BY DEF ExecutionInv, Types
  <2>2. CASE pc[c] = "start" \/ ~Single(c)
    BY <2>1, <2>2 DEF CallInv, Counted
  <2>3. CASE pc[c] # "start" /\ Single(c)
    <3>1. /\ invoked[c][f] > 0 => f = Pin(c)
          /\ invoked[c][g] > 0 => g = Pin(c)
          /\ invoked[c][Pin(c)] <= loc[c].attempt /\ loc[c].attempt <= Limit(c)
          /\ loc[c].attempt \in Nat
      BY <2>1, <2>3 DEF CallInv, Counted, Attempted, Types, Locals
    <3>2. f = Pin(c) => Limit(c) = 1
      BY DEF Limit, Mutating
    <3> QED
      BY <2>1, <3>1, <3>2
  <2> QED
    BY <2>2, <2>3
<1> QED
  BY <1>1, ExecutionInvariant, PTL

\* A call of a mutating contract that is answered failed, unavailable or
\* cancelled has no job in the pool that could still reach the provider.
THEOREM DefiniteIsSettled == Spec => []DefiniteMeansSettled
<1>1. ExecutionInv => DefiniteMeansSettled
  BY DEF ExecutionInv, CallInv, Jobbed, DefiniteMeansSettled
<1> QED
  BY <1>1, ExecutionInvariant, PTL

\* Whatever contracts, policies and bindings do while candidates are tried, a
\* chain with alternatives never reaches a contract that is not read-only.
THEOREM FallbacksOnlyRead == Spec => []FallbackNeverMutates
<1>1. ExecutionInv => FallbackNeverMutates
  <2> SUFFICES ASSUME ExecutionInv, NEW c \in Calls, Len(ChainOf[c]) > 1,
                      NEW f \in Fps \ ReadOnly
               PROVE  invoked[c][f] = 0
    BY DEF FallbackNeverMutates
  <2>1. ~Single(c)
    <3>1. \A n \in Nat : n > 1 => n # 1
      OBVIOUS
    <3>2. Len(ChainOf[c]) \in Nat
      BY ChainTypes DEF ExecutionInv, Types
    <3> QED
      BY <3>1, <3>2, Zenon DEF Single
  <2> QED
    BY <2>1 DEF ExecutionInv, CallInv, Counted
<1> QED
  BY <1>1, ExecutionInvariant, PTL

\* What is in cooldown is an access path whose own provider was called through its
\* tool and was unavailable: neither a full pool nor a closed one, a refusal, a
\* deadline or another tool with the same contract puts a path there.
THEOREM CooldownsAreOutages == Spec => []CooldownMeansOutage
<1>1. ExecutionInv => CooldownMeansOutage
  BY DEF ExecutionInv
<1> QED
  BY <1>1, ExecutionInvariant, PTL

\* A provider is reached only under the policy snapshot approval was decided
\* by, and, when no worker had the job yet, behind a binding for the very
\* contract that was planned.
THEOREM ApprovalIsForTheInvocation == Spec => ApprovalGovernsInvocation
<1> DEFINE A == \A c \in Calls : \A f \in Fps : invoked'[c][f] > invoked[c][f] =>
                    /\ policy = loc[c].asked
                    /\ pc[c] = "ready" => bound[Key(c)] = f
<1>1. ExecutionInv /\ [Next]_vars => [A]_vars
  <2> SUFFICES ASSUME ExecutionInv, Next, NEW c \in Calls, NEW f \in Fps,
                      invoked'[c][f] > invoked[c][f]
               PROVE  /\ policy = loc[c].asked
                      /\ pc[c] = "ready" => bound[Key(c)] = f
    OBVIOUS
  <2>1. Types /\ CallInv(c) /\ invoked[c] \in [Fps -> Nat] /\ loc[c].asked = loc[c].snap
    BY DEF ExecutionInv, Types, CallInv
  <2>2. invoked' # invoked /\ invoked'[c] # invoked[c]
    BY <2>1
  <2>3. PICK d \in Calls : Acts(d)
    BY <2>2 DEF Next, Acts, Environment, Shutdown, CooldownExpires
  <2>4. d = c
    BY <2>2, <2>3, ActsOwn DEF Own
  <2>5. ~Quiet(c)
    BY <2>2, QuietMoves
  <2>6. AttemptInvoke(c) \/ (WorkerStarts(c) /\ policy = loc[c].snap)
    BY <2>2, <2>3, <2>4, <2>5
       DEF Acts, Step, Quiet, Plan, StartCall, EnterCall, AttemptInCooldown, AttemptSubmit,
           AttemptNoSlot, FailsTransiently, Unavailable, Timeout, Cancel, WorkerStarts,
           WorkerEnds, Stay
  <2>7. CASE AttemptInvoke(c)
    <3>1. /\ policy = loc[c].snap /\ bound[Key(c)] = Pin(c)
          /\ invoked' = [invoked EXCEPT ![c][Pin(c)] = @ + 1]
      BY <2>7 DEF AttemptInvoke, Refused, Bound, Invoke
    <3>2. f = Pin(c)
      <4>1. f # Pin(c) => invoked'[c][f] = invoked[c][f]
        BY <2>1, <3>1 DEF Types
      <4> QED
        BY <2>1, <4>1
    <3> QED
      BY <2>1, <3>1, <3>2
  <2>8. CASE WorkerStarts(c) /\ policy = loc[c].snap
    <3>1. pc[c] # "ready"
      BY <2>1, <2>8 DEF WorkerStarts, CallInv, Jobbed, Ends
    <3> QED
      BY <2>1, <2>8, <3>1
  <2> QED
    BY <2>6, <2>7, <2>8
<1> QED
  BY <1>1, ExecutionInvariant, PTL DEF Spec, ApprovalGovernsInvocation

-----------------------------------------------------------------------------
(* Invocations and reservations *)

\* Neither bounds the other call by call: what a job in the pool has reserved is
\* invoked only when a thread picks it up, if one ever does.
Queued == {c \in Calls : worker[c] = "queued"}

Ledger ==
    /\ IsFiniteSet(Invocations)
    /\ Cardinality(Invocations) + Cardinality(Queued) <= attemptCount

\* What is numbered, one by one, before a step and after it.
LEMMA InvocationsAre ==
    /\ \A x : x \in Invocations <=> \E c \in Calls, f \in Fps : \E i \in 1 .. invoked[c][f] :
                                        x = <<c, f, i>>
    /\ \A x : x \in Invocations' <=> \E c \in Calls, f \in Fps : \E i \in 1 .. invoked'[c][f] :
                                        x = <<c, f, i>>
<1>1. \A x : x \in Invocations <=> \E c \in Calls, f \in Fps : x \in Numbered(c, f)
  BY DEF Invocations
<1>2. \A x : x \in Invocations' <=> \E c \in Calls, f \in Fps : x \in Numbered(c, f)'
  BY DEF Invocations
<1>3. \A c, f, x : x \in Numbered(c, f) <=> \E i \in 1 .. invoked[c][f] : x = <<c, f, i>>
  BY DEF Numbered
<1>4. \A c, f, x : x \in Numbered(c, f)' <=> \E i \in 1 .. invoked'[c][f] : x = <<c, f, i>>
  BY DEF Numbered
<1> QED
  BY <1>1, <1>2, <1>3, <1>4

\* An invocation is one more.
LEMMA InvokeNumbers ==
    ASSUME ExecutionInv, NEW c \in Calls, Pin(c) \in Fps, Invoke(c), Ledger
    PROVE  /\ IsFiniteSet(Invocations')
           /\ Cardinality(Invocations') = Cardinality(Invocations) + 1
<1>1. PICK n \in Nat : n = invoked[c][Pin(c)]
  BY DEF ExecutionInv, Types
<1>2. \A d \in Calls, f \in Fps :
          /\ invoked[d][f] \in Nat
          /\ invoked'[d][f] = IF d = c /\ f = Pin(c) THEN n + 1 ELSE invoked[d][f]
  BY <1>1 DEF Invoke, ExecutionInv, Types
<1>3. PICK new : new = <<c, Pin(c), n + 1>>
  OBVIOUS
<1>4. \A x : x \in Invocations' <=> \E d \in Calls, f \in Fps : \E i \in 1 .. invoked'[d][f] :
                                        x = <<d, f, i>>
  BY InvocationsAre
<1>5. new \notin Invocations
  BY <1>1, <1>3, InvocationsAre
<1>6. Invocations' = Invocations \cup {new}
  <2>1. ASSUME NEW d \in Calls, NEW f \in Fps, NEW i \in 1 .. invoked'[d][f]
        PROVE  <<d, f, i>> = new \/ i \in 1 .. invoked[d][f]
    BY <1>1, <1>2, <1>3
  <2>2. ASSUME NEW d \in Calls, NEW f \in Fps, NEW i \in 1 .. invoked[d][f]
        PROVE  i \in 1 .. invoked'[d][f]
    BY <1>1, <1>2
  <2>3. n + 1 \in 1 .. invoked'[c][Pin(c)]
    BY <1>1, <1>2
  <2> QED
    BY <1>3, <1>4, <2>1, <2>2, <2>3, InvocationsAre
<1> QED
  BY <1>5, <1>6, FS_AddElement DEF Ledger

\* Jobs leave the queue and nothing is invoked; what was reserved stays reserved.
LEMMA LedgerStands ==
    ASSUME ExecutionInv, Ledger, UNCHANGED invoked, Queued' \subseteq Queued,
           UNCHANGED attemptCount \/ attemptCount' = attemptCount + 1
    PROVE  Ledger'
<1>1. Invocations' = Invocations
  BY DEF Invocations, Numbered
<1>2. IsFiniteSet(Queued)
  BY ExecutionAssumption, FS_Subset DEF Queued
<1>3. /\ Cardinality(Queued') <= Cardinality(Queued)
      /\ Cardinality(Queued) \in Nat /\ Cardinality(Queued') \in Nat
      /\ Cardinality(Invocations) \in Nat /\ attemptCount \in Nat
  BY <1>2, FS_Subset, FS_CardinalityType DEF Ledger, ExecutionInv, Types
<1> QED
  BY <1>1, <1>3 DEF Ledger

LEMMA ActsLedger ==
    ASSUME ExecutionInv, Ledger, NEW c \in Calls, Acts(c)
    PROVE  Ledger'
<1>1. Types /\ CallInv(c) /\ Own(c)
  BY ActsOwn DEF ExecutionInv
<1>2. /\ IsFiniteSet(Queued) /\ Cardinality(Queued) \in Nat
      /\ Cardinality(Invocations) \in Nat /\ attemptCount \in Nat
  <2>1. IsFiniteSet(Queued)
    BY ExecutionAssumption, FS_Subset DEF Queued
  <2> QED
    BY <1>1, <2>1, FS_CardinalityType, ScenarioTypes DEF Ledger, Types
<1>3. CASE AttemptInvoke(c)
  <2>1. Reserve(c) /\ Invoke(c) /\ UNCHANGED worker
    BY <1>3 DEF AttemptInvoke
  <2>2. Pin(c) \in Fps
    BY <1>1, <2>1, ReadyFacts
  <2>3. Queued' = Queued /\ attemptCount' = attemptCount + 1
    BY <2>1 DEF Queued, Reserve
  <2> QED
    BY <1>2, <2>1, <2>2, <2>3, InvokeNumbers DEF Ledger
<1>4. CASE AttemptSubmit(c)
  <2>1. Reserve(c) /\ UNCHANGED invoked /\ worker' = [worker EXCEPT ![c] = "queued"]
    BY <1>4 DEF AttemptSubmit
  <2>2. Queued' = Queued \cup {c}
    BY <1>1, <2>1 DEF Queued, Types
  <2>3. Cardinality(Queued') \in {Cardinality(Queued), Cardinality(Queued) + 1}
    BY <1>2, <2>2, FS_AddElement
  <2>4. Invocations' = Invocations /\ attemptCount' = attemptCount + 1
    BY <2>1 DEF Invocations, Numbered, Reserve
  <2> QED
    BY <1>2, <2>3, <2>4 DEF Ledger
<1>5. CASE WorkerStarts(c) /\ Invoke(c) /\ worker' = [worker EXCEPT ![c] = "running"]
  <2>1. worker[c] = "queued" /\ UNCHANGED attemptCount
    BY <1>5 DEF WorkerStarts, trackVars
  <2>2. Pin(c) \in Fps
    BY <1>1, <2>1, PinTypes DEF CallInv, Candidate, Jobbed, Ends
  <2>3. Queued' = Queued \ {c} /\ c \in Queued
    BY <1>1, <1>5, <2>1 DEF Queued, Types
  <2>4. Cardinality(Queued') = Cardinality(Queued) - 1
    BY <1>2, <2>3, FS_RemoveElement
  <2> QED
    BY <1>2, <1>5, <2>1, <2>2, <2>4, InvokeNumbers DEF Ledger
<1>6. CASE ~AttemptInvoke(c) /\ ~AttemptSubmit(c)
           /\ ~(WorkerStarts(c) /\ Invoke(c) /\ worker' = [worker EXCEPT ![c] = "running"])
  <2>1. UNCHANGED invoked
    <3>1. Quiet(c) => UNCHANGED invoked
      BY QuietMoves
    <3> QED
      BY <1>6, <3>1 DEF Acts, Step, Quiet, Plan, StartCall, EnterCall, AttemptInCooldown,
         AttemptNoSlot, FailsTransiently, Unavailable, Timeout, Cancel, WorkerStarts,
         WorkerEnds, Stay
  <2>2. worker'[c] = "queued" => worker[c] = "queued"
    <3>1. Quiet(c) => UNCHANGED worker
      BY QuietMoves
    <3>2. UNCHANGED worker \/ Forget(c) \/ GiveUpWorker(c) \/ WorkerStarts(c) \/ WorkerEnds(c)
      BY <1>6, <3>1 DEF Acts, Step, Quiet, Plan, StartCall, EnterCall, AttemptInCooldown,
         AttemptNoSlot, FailsTransiently, Unavailable, Timeout, Cancel, Stay
    <3> QED
      BY <1>1, <3>2 DEF Forget, GiveUpWorker, WorkerStarts, WorkerEnds, Types
  <2>3. Queued' \subseteq Queued
    BY <1>1, <2>2 DEF Queued, Own
  <2>4. UNCHANGED attemptCount \/ attemptCount' = attemptCount + 1
    BY ActsReserve
  <2> QED
    BY <2>1, <2>3, <2>4, LedgerStands
<1> QED
  BY <1>3, <1>4, <1>5, <1>6

\* However calls retry, fall back, race for workers and are given up: the
\* provider invocations of a plan are never more than the attempts reserved with
\* its shared tracker, so never more than max_attempts (before_attempt).
THEOREM BudgetsCover == Spec => []BudgetCoversInvocations
<1>1. Init => Ledger
  <2> SUFFICES ASSUME Init PROVE Ledger
    OBVIOUS
  <2>1. Invocations = {}
    <3>1. \A c \in Calls, f \in Fps : 1 .. invoked[c][f] = {}
      BY DEF Init
    <3> QED
      BY <3>1, InvocationsAre
  <2>2. Queued = {}
    BY DEF Init, Queued
  <2> QED
    BY <2>1, <2>2, FS_EmptySet DEF Init, Ledger
<1>2. ExecutionInv /\ Ledger /\ [Next]_vars => Ledger'
  <2> SUFFICES ASSUME ExecutionInv, Ledger, [Next]_vars PROVE Ledger'
    OBVIOUS
  <2>1. CASE \E c \in Calls : Acts(c)
    BY <2>1, ActsLedger
  <2>2. CASE Environment \/ Shutdown \/ CooldownExpires \/ UNCHANGED vars
    <3>1. UNCHANGED <<invoked, attemptCount>>
      BY <2>2 DEF Environment, Shutdown, CooldownExpires, vars, trackVars
    <3>2. Queued' \subseteq Queued
      BY <2>2 DEF Environment, Shutdown, CooldownExpires, vars, Queued
    <3> QED
      BY <3>1, <3>2, LedgerStands
  <2> QED
    BY <2>1, <2>2 DEF Next, Acts
<1>3. ExecutionInv /\ Ledger => BudgetCoversInvocations
  <2> SUFFICES ASSUME ExecutionInv, Ledger PROVE BudgetCoversInvocations
    OBVIOUS
  <2>1. IsFiniteSet(Queued)
    BY ExecutionAssumption, FS_Subset DEF Queued
  <2>2. Cardinality(Queued) \in Nat /\ Cardinality(Invocations) \in Nat /\ attemptCount \in Nat
    BY <2>1, FS_CardinalityType, ScenarioTypes DEF Ledger, ExecutionInv, Types
  <2> QED
    BY <2>2 DEF Ledger, BudgetCoversInvocations
<1> QED
  BY <1>1, <1>2, <1>3, ExecutionInvariant, PTL DEF Spec
=============================================================================
