-------------------------------- MODULE PlanRun --------------------------------
(***************************************************************************)
(* Carrying out a plan: SchemaRouter.astream_events with its trace, and    *)
(* the plain result streams (execute_parallel_read_only_iter,              *)
(* abatch_as_completed).  Worker tasks take the calls of the plan one by   *)
(* one, go down the fallback chain of each and put what happens into a     *)
(* bounded queue; the stream turns the items into events, persists each    *)
(* and yields it to a consumer that may close the stream at any time.  A   *)
(* call that fails ends the run: its siblings are cancelled, what they had *)
(* put is reported, and what was in flight is declared indeterminate.      *)
(*                                                                         *)
(* A single call is Execution's; here it is reached or not and ends in one *)
(* of the ways execute_call can.  The sequential mode is the same code     *)
(* without queue: one worker that waits for the stream to handle each item.*)
(***************************************************************************)
EXTENDS Integers, Sequences, FiniteSets

CONSTANTS
    Workers,    \* names of worker tasks
    None,
    Worlds      \* what is run and what may happen to it, see World

\* stream: of events, or of plain results; chain: the number of candidates of each
\* call; parallel: max_parallel_calls (runs.py:68, at least 1); keep: a failing call
\* is reported instead of raised; env: what may go wrong.
World == [stream : {"events", "results"}, mode : {"parallel", "sequential"},
          chain : Seq(1 .. 2), parallel : Nat \ {0}, keep : BOOLEAN,
          env : SUBSET {"closes", "storefails", "drops", "removals", "swallows"}]

ASSUME PlanRunAssumption ==
    /\ Worlds \subseteq World
    /\ None \notin {"run.end", "raised", "closed", "lost"}

VARIABLES
    world,      \* chosen once
    pc,         \* where the stream is
    agenda,     \* what it does next before it looks at the queue again
    outcome,    \* how it ends: run.end, an exception, closed by the consumer
    workers,    \* worker -> what it is doing
    next,       \* the next call to be taken
    queue,
    ended,      \* calls whose last item was handled (terminal_count)
    started,    \* calls with a tool.start
    closed,     \* calls with a tool.end or tool.error
    sequence,
    trace,      \* the events emitted, as persisted
    delivered,  \* how many of them the consumer has
    reached     \* what became of each candidate of each call at its provider

vars == <<world, pc, agenda, outcome, workers, next, queue, ended, started, closed,
          sequence, trace, delivered, reached>>

streamVars == <<pc, agenda, outcome>>
ledger == <<started, closed, sequence, trace, delivered>>

Calls == 1 .. Len(world.chain)          \* world.chain[i]: candidates of call i
Keys == {<<i, c>> : i \in Calls, c \in 1 .. 2}
Env == world.env
Events == world.stream = "events"
Sequential == world.mode = "sequential"
Capacity == IF Events THEN 4 * world.parallel ELSE world.parallel

Gone(w) == workers[w].at = "gone"
AllGone == \A w \in Workers : Gone(w)
\* A worker: what it is at, the candidates left, the items it still has to put.
AtCall(key, left, items) ==
    [at |-> "call", key |-> key, left |-> left, items |-> items, cancelled |-> FALSE]
Resting(items) ==
    [at |-> "idle", key |-> None, left |-> <<>>, items |-> items, cancelled |-> FALSE]
Idle == Resting(<<>>)
Absent == [at |-> "gone", key |-> None, left |-> <<>>, items |-> <<>>, cancelled |-> FALSE]

\* An item of the queue, what the stream does, an event.
Item(kind, key, more) == [kind |-> kind, key |-> key, more |-> more]
Do(what) == [do |-> what, name |-> None, key |-> None]
Emit(name, key) == [do |-> "emit", name |-> name, key |-> key]

-----------------------------------------------------------------------------
(* Workers: parallel_worker and run_parallel_call *)

\* A sequential run does nothing while the stream is busy with an event.
MayRun(w) ==
    /\ ~Gone(w) /\ ~workers[w].cancelled
    /\ Sequential => pc = "go" /\ agenda = <<>> /\ queue = <<>>

Becomes(w, r) == workers' = [workers EXCEPT ![w] = r]

Final(item) == item.kind \notin {"cooldown", "start"} /\ ~item.more

\* What a worker reports: a result stream only hears of the end of a call.
Reports(items) == IF Events \/ Final(Head(items)) THEN items ELSE <<>>

\* ordered_available_fallback_chain: the candidates that can be used now
UsableChains(i) ==
    IF world.chain[i] = 1 THEN {<<1>>} ELSE {<<1>>, <<2>>, <<1, 2>>}

TakeCall(w) ==
    /\ MayRun(w)
    /\ workers[w].at = "idle" /\ workers[w].items = <<>>
    /\ IF next > Len(world.chain)
       THEN Becomes(w, Absent) /\ UNCHANGED next
       ELSE /\ next' = next + 1
            /\ \/ \E chain \in UsableChains(next) :
                     Becomes(w, AtCall(<<next, chain[1]>>, Tail(chain),
                        Reports((IF chain[1] # 1
                                 THEN <<Item("cooldown", <<next, 1>>, TRUE)>> ELSE <<>>)
                                \o <<Item("start", <<next, chain[1]>>, TRUE)>>)))
               \/ /\ world.chain[next] > 1
                  /\ Becomes(w, Resting(Reports(<<Item("preflight", <<next, 1>>, FALSE)>>)))
    /\ UNCHANGED <<world, streamVars, queue, ended, ledger, reached>>

\* Mutant: the queue is not bounded.
PutUnbounded(w) ==
    /\ MayRun(w)
    /\ workers[w].items # <<>>
    /\ queue' = Append(queue, Head(workers[w].items))
    /\ Becomes(w, [workers[w] EXCEPT !.items = Tail(@)])
    /\ UNCHANGED <<world, streamVars, next, ended, ledger, reached>>

\* event_queue.put: blocks while the queue is full
Put(w) ==
    /\ MayRun(w)
    /\ workers[w].items # <<>>
    /\ Len(queue) < Capacity
    /\ queue' = Append(queue, Head(workers[w].items))
    /\ Becomes(w, [workers[w] EXCEPT !.items = Tail(@)])
    /\ UNCHANGED <<world, streamVars, next, ended, ledger, reached>>

Calling(w) == MayRun(w) /\ workers[w].at = "call" /\ workers[w].items = <<>>

\* execute_call let the call through to its provider.
Reach(w) ==
    /\ Calling(w)
    /\ reached[workers[w].key] = "no"
    /\ reached' = [reached EXCEPT ![workers[w].key] = "yes"]
    /\ UNCHANGED <<world, streamVars, workers, next, queue, ended, ledger>>

\* execute_call returns a result, or fails in a hook after it.
Succeed(w) ==
    /\ Calling(w)
    /\ reached[workers[w].key] = "yes"
    /\ reached' = [reached EXCEPT ![workers[w].key] = "value"]
    /\ \E kind \in {"end", "post"} :
          Becomes(w, Resting(Reports(<<Item(kind, workers[w].key, FALSE)>>)))
    /\ UNCHANGED <<world, streamVars, next, queue, ended, ledger>>

\* Any other exception of execute_call.  One of them stands for the consumer: a
\* cancellation that reaches a mutation running in a thread becomes
\* IndeterminateInvocationError (executor.py:943), an error like others.
Fail(w) ==
    /\ Calling(w)
    /\ Becomes(w, Resting(Reports(<<Item("error", workers[w].key, FALSE)>>)))
    /\ UNCHANGED <<world, streamVars, next, queue, ended, ledger, reached>>

\* InvocationUnavailableError: on to the next candidate.
Unavailable(w) ==
    /\ Calling(w)
    /\ LET key == workers[w].key  left == workers[w].left
           item == Item("unavailable", key, left # <<>>)
           other == <<key[1], Head(left)>>
       IN Becomes(w, IF left = <<>> THEN Resting(Reports(<<item>>))
                     ELSE AtCall(other, Tail(left), Reports(<<item, Item("start", other, TRUE)>>)))
    /\ UNCHANGED <<world, streamVars, next, queue, ended, ledger, reached>>

\* A CancelledError out of the call itself, such as a queued job dropped by the
\* shutdown of the worker pool: no `except Exception' sees it, the task is over.
CallCancelled(w) ==
    /\ "drops" \in Env
    /\ Calling(w)
    /\ Becomes(w, Absent)
    /\ IF Sequential
       THEN pc' = "finally" /\ outcome' = "raised" /\ UNCHANGED agenda
       ELSE UNCHANGED streamVars
    /\ UNCHANGED <<world, next, queue, ended, ledger, reached>>

\* task.cancel() reaches the worker at its await; the item it was putting and
\* the answer of its call are lost.
WorkerCancelled(w) ==
    /\ workers[w].cancelled
    /\ Becomes(w, Absent)
    /\ UNCHANGED <<world, streamVars, next, queue, ended, ledger, reached>>

\* An invoker turns the cancellation into an error of its own.
CancelSwallowed(w) ==
    /\ "swallows" \in Env
    /\ workers[w].cancelled /\ workers[w].at = "call" /\ workers[w].items = <<>>
    /\ Becomes(w, Resting(Reports(<<Item("error", workers[w].key, FALSE)>>)))
    /\ UNCHANGED <<world, streamVars, next, queue, ended, ledger, reached>>

Work(w) ==
    \/ TakeCall(w) \/ Put(w) \/ Reach(w) \/ Succeed(w) \/ Fail(w) \/ Unavailable(w)
    \/ WorkerCancelled(w)

-----------------------------------------------------------------------------
(* The stream *)

Goes(to, then) == pc' = to /\ agenda' = then /\ UNCHANGED outcome
Stops(how) == pc' = "finally" /\ agenda' = <<>> /\ outcome' = how
Doing(what) == pc = "go" /\ agenda # <<>> /\ Head(agenda).do = what
Cancelled == [w \in Workers |-> IF Gone(w) THEN workers[w]
                                ELSE [workers[w] EXCEPT !.cancelled = TRUE]]

Event(name, key) == [name |-> name, key |-> key, sequence |-> sequence]
Failure == <<Emit("run.error", None), Do("raise")>>

\* aplan_executable and the authorization of the plan
MakePlan ==
    /\ Doing("plan")
    /\ Goes("go", <<Emit("plan.end", None), Do("launch")>>)
    /\ UNCHANGED <<world, workers, next, queue, ended, ledger, reached>>

PlanFails ==
    /\ Doing("plan")
    /\ Goes("go", Failure)
    /\ UNCHANGED <<world, workers, next, queue, ended, ledger, reached>>

Launch ==
    /\ Doing("launch")
    /\ Goes("go", <<>>)
    /\ \E team \in SUBSET Workers :
          /\ Cardinality(team) = (IF Sequential THEN 1
                                  ELSE IF world.parallel < Len(world.chain)
                                       THEN world.parallel ELSE Len(world.chain))
          /\ workers' = [w \in Workers |-> IF w \in team THEN Idle ELSE Absent]
    /\ UNCHANGED <<world, next, queue, ended, ledger, reached>>

\* validate_parallel_read_only refuses the plan before any task is created.
LaunchRefused ==
    /\ Doing("launch")
    /\ ~Sequential
    /\ Goes("go", IF Events THEN Failure ELSE <<Do("raise")>>)
    /\ UNCHANGED <<world, workers, next, queue, ended, ledger, reached>>

\* What the stream does about an item.
Handling(item) ==
    LET key == item.key IN
    IF ~Events
    THEN IF item.kind = "end" \/ world.keep THEN <<Emit("result", key)>> ELSE <<Do("raise")>>
    ELSE CASE item.kind = "preflight" -> <<Do("abort")>> \o Failure
           [] item.kind = "cooldown"  -> <<Emit("tool.fallback", key)>>
           [] item.kind = "start"     -> <<Emit("tool.start", key)>>
           [] item.kind = "end"       -> <<Emit("tool.end", key)>>
           [] item.kind = "post"      -> <<Emit("tool.end", key), Do("abort")>> \o Failure
           [] item.kind = "unavailable" /\ item.more ->
                 <<Emit("tool.error", key), Emit("tool.fallback", key)>>
           [] item.kind = "unavailable" /\ ~item.more ->
                 <<Emit("tool.error", key), Do("abort")>> \o Failure
           [] item.kind = "error"     ->
                 IF key \in started THEN <<Emit("tool.error", key), Do("abort")>> \o Failure
                 ELSE <<Do("raise")>>

Get ==
    /\ pc = "go" /\ agenda = <<>>
    /\ ended < Len(world.chain)
    /\ queue # <<>>
    /\ queue' = Tail(queue)
    /\ ended' = IF Final(Head(queue)) THEN ended + 1 ELSE ended
    /\ Goes("go", Handling(Head(queue)))
    /\ UNCHANGED <<world, workers, next, ledger, reached>>

AllEnded ==
    /\ pc = "go" /\ agenda = <<>>
    /\ ended = Len(world.chain)
    /\ Stops("run.end")
    /\ UNCHANGED <<world, workers, next, queue, ended, ledger, reached>>

\* What an event means for the ledger of the run.
Account(e) ==
    /\ started' = IF e.name = "tool.start" THEN started \cup {e.key} ELSE started
    /\ closed' = IF e.name \in {"tool.end", "tool.error"} THEN closed \cup {e.key} ELSE closed
    /\ sequence' = sequence + 1

\* emit: the event is persisted, then yielded
Persist ==
    /\ Doing("emit")
    /\ Goes("yield", Tail(agenda))
    /\ trace' = Append(trace, Event(Head(agenda).name, Head(agenda).key))
    /\ UNCHANGED <<world, workers, next, queue, ended, started, closed, sequence, delivered, reached>>

\* TracePersistenceError: the event is neither on the trace nor delivered.
PersistFails ==
    /\ "storefails" \in Env
    /\ Doing("emit") \/ pc = "drain"
    /\ Stops("lost")
    /\ UNCHANGED <<world, workers, next, queue, ended, ledger, reached>>

\* The tools a fallback names were removed from the registry meanwhile.
FallbackUnknown ==
    /\ "removals" \in Env
    /\ Doing("emit") /\ Head(agenda).name = "tool.fallback"
    /\ Stops("raised")
    /\ UNCHANGED <<world, workers, next, queue, ended, ledger, reached>>

Taken ==
    /\ pc = "yield"
    /\ Goes("go", agenda)
    /\ delivered' = delivered + 1
    /\ Account(trace[Len(trace)])
    /\ UNCHANGED <<world, workers, next, queue, ended, trace, reached>>

-----------------------------------------------------------------------------
(* abort_parallel_siblings *)

Abort ==
    /\ Doing("abort")
    /\ Goes("gather", Tail(agenda))
    /\ workers' = Cancelled
    /\ UNCHANGED <<world, next, queue, ended, ledger, reached>>

Gathered ==
    /\ pc = "gather"
    /\ AllGone
    /\ Goes("drain", agenda)
    /\ UNCHANGED <<world, workers, next, queue, ended, ledger, reached>>

\* Mutant: starts still in the queue are not reported.
LeftOverEnds(item) ==
    CASE item.kind \in {"end", "post"} /\ item.key \in started \ closed -> {"tool.end"}
      [] item.kind \in {"unavailable", "error"} /\ item.key \in started \ closed -> {"tool.error"}
      [] OTHER -> {}

\* The event an item left in the queue still gives.
LeftOver(item) ==
    CASE item.kind = "start" /\ item.key \notin started -> {"tool.start"}
      [] item.kind \in {"end", "post"} /\ item.key \in started \ closed -> {"tool.end"}
      [] item.kind \in {"unavailable", "error"} /\ item.key \in started \ closed -> {"tool.error"}
      [] OTHER -> {}

Drain ==
    /\ pc = "drain"
    /\ queue # <<>>
    /\ queue' = Tail(queue)
    /\ LET item == Head(queue) IN
       IF LeftOver(item) = {}
       THEN UNCHANGED <<started, closed, sequence, trace>>
       ELSE \E name \in LeftOver(item) :
               /\ trace' = Append(trace, Event(name, item.key))
               /\ Account(Event(name, item.key))
    /\ UNCHANGED <<world, streamVars, workers, next, ended, delivered, reached>>

\* Mutant: the sequence number is not counted up.
IndeterminateUnnumbered ==
    /\ pc = "drain" /\ queue = <<>>
    /\ \E key \in started \ closed :
          /\ \A other \in started \ closed : key[1] <= other[1]
          /\ trace' = Append(trace, Event("indeterminate", key))
          /\ closed' = closed \cup {key}
    /\ UNCHANGED <<world, streamVars, workers, next, queue, ended, started, sequence, delivered, reached>>

\* Calls in flight: a tool.error that calls them indeterminate.
Indeterminate ==
    /\ pc = "drain" /\ queue = <<>>
    /\ \E key \in started \ closed :
          /\ \A other \in started \ closed : key[1] <= other[1]
          /\ trace' = Append(trace, Event("indeterminate", key))
          /\ closed' = closed \cup {key}
    /\ sequence' = sequence + 1
    /\ UNCHANGED <<world, streamVars, workers, next, queue, ended, started, delivered, reached>>

\* Mutant: calls in flight are forgotten.
DrainedEarly ==
    /\ pc = "drain" /\ queue = <<>>
    /\ Goes(IF delivered = Len(trace) THEN "go" ELSE "flush", agenda)
    /\ UNCHANGED <<world, workers, next, queue, ended, ledger, reached>>

Drained ==
    /\ pc = "drain" /\ queue = <<>> /\ started \subseteq closed
    /\ Goes(IF delivered = Len(trace) THEN "go" ELSE "flush", agenda)
    /\ UNCHANGED <<world, workers, next, queue, ended, ledger, reached>>

\* The events of the abort are yielded when all of them are persisted.
Flush ==
    /\ pc = "flush"
    /\ delivered' = delivered + 1
    /\ Goes(IF delivered + 1 = Len(trace) THEN "go" ELSE "flush", agenda)
    /\ UNCHANGED <<world, workers, next, queue, ended, started, closed, sequence, trace, reached>>

-----------------------------------------------------------------------------
(* The end *)

Raise ==
    /\ Doing("raise")
    /\ Stops("raised")
    /\ UNCHANGED <<world, workers, next, queue, ended, ledger, reached>>

\* The consumer closes the stream at a yield, or is cancelled while the stream
\* awaits something; an append under way is completed first, and a mutation running
\* in a thread turns the cancellation into an error (Fail).
Close ==
    /\ "closes" \in Env
    /\ pc \notin {"finally", "leaving", "over"}
    /\ Stops("closed")
    /\ trace' = IF Doing("emit") THEN Append(trace, Event(Head(agenda).name, Head(agenda).key))
                ELSE trace
    /\ UNCHANGED <<world, workers, next, queue, ended, started, closed, sequence, delivered, reached>>

\* Mutant: they are left alone.
FinallyWithoutCancel ==
    /\ pc = "finally"
    /\ Goes("leaving", <<>>)
    /\ UNCHANGED <<world, workers, next, queue, ended, ledger, reached>>

\* finally: workers still there are cancelled ...
Finally ==
    /\ pc = "finally"
    /\ workers' = Cancelled
    /\ Goes("leaving", <<>>)
    /\ UNCHANGED <<world, next, queue, ended, ledger, reached>>

\* ... and gathered
Leave ==
    /\ pc = "leaving"
    /\ AllGone
    /\ IF outcome = "run.end" /\ Events
       THEN Goes("go", <<Emit("run.end", None), Do("finish")>>)
       ELSE Goes("over", <<>>)
    /\ UNCHANGED <<world, workers, next, queue, ended, ledger, reached>>

Finish ==
    /\ Doing("finish")
    /\ Goes("over", <<>>)
    /\ UNCHANGED <<world, workers, next, queue, ended, ledger, reached>>

-----------------------------------------------------------------------------
Init ==
    /\ world \in Worlds
    /\ pc = "go"
    /\ agenda = IF Events THEN <<Emit("run.start", None), Do("plan")>> ELSE <<Do("launch")>>
    /\ outcome = None
    /\ workers = [w \in Workers |-> Absent]
    /\ next = 1
    /\ queue = <<>>
    /\ ended = 0
    /\ started = {} /\ closed = {}
    /\ sequence = 0 /\ trace = <<>> /\ delivered = 0
    /\ reached = [k \in Keys |-> "no"]

Stream ==
    \/ MakePlan \/ PlanFails \/ Launch \/ LaunchRefused
    \/ Get \/ AllEnded \/ Persist \/ Taken
    \/ Abort \/ Gathered \/ Drain \/ Indeterminate \/ Drained \/ Flush
    \/ Raise \/ Finally \/ Leave \/ Finish

Environment ==
    \/ PersistFails \/ FallbackUnknown \/ Close
    \/ \E w \in Workers : CallCancelled(w) \/ CancelSwallowed(w)

Next == Stream \/ Environment \/ \E w \in Workers : Work(w)

\* The event loop runs every task that can run, providers answer in the end,
\* and the consumer keeps asking for the next event.
Fairness == WF_vars(Stream) /\ \A w \in Workers : WF_vars(Work(w))

Spec == Init /\ [][Next]_vars /\ Fairness

-----------------------------------------------------------------------------
(* Properties *)

Count(name, key) == Cardinality({i \in 1 .. Len(trace) : trace[i].name = name /\ trace[i].key = key})
Position(name, key) == CHOOSE i \in 1 .. Len(trace) : trace[i].name = name /\ trace[i].key = key
Endings(key) == Count("tool.end", key) + Count("tool.error", key) + Count("indeterminate", key)
Concluded == trace # <<>> /\ trace[Len(trace)].name \in {"run.end", "run.error"}

PlanRunTypeOK ==
    /\ pc \in {"go", "yield", "gather", "drain", "flush", "finally", "leaving", "over"}
    /\ outcome \in {None, "run.end", "raised", "closed", "lost"}
    /\ Len(queue) <= Capacity
    /\ closed \subseteq started /\ started \subseteq Keys
    /\ ended \in 0 .. Len(world.chain)
    /\ next \in 1 .. Len(world.chain) + 1

\* The trace store never refuses an event of the stream (TraceStore!Appendable):
\* sequence numbers have no gap and no repetition, also across an abort, the
\* first event is run.start, and nothing follows run.end or run.error.
TraceIsAppendable ==
    Events =>
        /\ \A i \in 1 .. Len(trace) : trace[i].sequence = i - 1
        /\ \A i \in 1 .. Len(trace) : (trace[i].name = "run.start") <=> (i = 1)
        /\ \A i \in 1 .. Len(trace) - 1 : trace[i].name \notin {"run.end", "run.error"}

\* Every tool.start is followed by exactly one tool.end or tool.error of the same
\* candidate, by the time the run says it is over, whatever its siblings did.
StartsAreClosed ==
    Events => \A key \in Keys :
        /\ Count("tool.start", key) <= 1
        /\ Endings(key) <= Count("tool.start", key)
        /\ Concluded => Endings(key) = Count("tool.start", key)

\* The trace tells the truth about the providers: a tool.end stands for a result,
\* a tool.error that is not `indeterminate' for none; once the run is concluded
\* no provider was reached without a tool.start, and run.end stands for a result
\* of every call.
TraceIsTrue ==
    /\ \A i \in 1 .. Len(trace) :
          /\ trace[i].name = "tool.end" => reached[trace[i].key] = "value"
          /\ trace[i].name = "tool.error" => reached[trace[i].key] # "value"
    /\ Concluded /\ Events =>
          /\ \A key \in Keys : reached[key] # "no" => Count("tool.start", key) = 1
          /\ trace[Len(trace)].name = "run.end" =>
                \A i \in Calls : \E c \in 1 .. 2 : Count("tool.end", <<i, c>>) = 1

\* Every stream comes to its end (docs/guides/runtime.md:133, `run.end | run.error').
StreamEnds == <>(pc = "over")

\* A run that failed says so: its exception is preceded by run.error.
FailureIsConcluded ==
    Events /\ pc = "over" /\ outcome = "raised" => Concluded

=============================================================================
