------------------------------- MODULE TraceStore -------------------------------
(***************************************************************************)
(* SQLiteRunTraceStore (traces.py): run events appended one transaction at *)
(* a time, with a summary row per run, retention, and reads that must      *)
(* return a replayable trace.  Several processes may hold stores on one    *)
(* file.                                                                   *)
(*                                                                         *)
(* Abstraction: an event is its kind, its sequence number the position at  *)
(* which it is stored.  Which runs are old enough for the age bounds of a  *)
(* retention policy, and which of the complete runs are the oldest, is any *)
(* choice: timestamps come from the events.                                *)
(***************************************************************************)
EXTENDS StorageFile

CONSTANTS
    Runs,
    MaxEvents     \* model bound on the length of a trace

EventKinds == {"run.start", "step", "run.end"}    \* run.end: also run.error
Terminal(events) == events # <<>> /\ events[Len(events)] = "run.end"

\* RunTrace.validate_trace
Replayable(s) ==
    /\ s # <<>>
    /\ s[1] = "run.start"
    /\ \A i \in 1 .. Len(s) - 1 : s[i] # "run.end"

\* The traces' part of a file: runs (run -> last sequence and terminal flag, or
\* None without a row) and events (run -> its events in order of sequence).
Summaries == [last : Nat, terminal : BOOLEAN]

TraceSound(t, r) ==
    IF t.runs[r] = None THEN t.events[r] = <<>>
    ELSE /\ Replayable(t.events[r])
         /\ t.runs[r].last = Len(t.events[r]) - 1
         /\ t.runs[r].terminal = Terminal(t.events[r])

IsTraces(t) ==
    /\ t = [runs |-> t.runs, events |-> t.events]
    /\ t.runs \in [Runs -> Summaries \cup {None}]
    /\ t.events \in [Runs -> Seq(EventKinds)]
    /\ \A r \in Runs : TraceSound(t, r)

ASSUME TraceAssumption ==
    /\ None \notin Summaries
    /\ \A w \in Worlds : IsTraces(w.file.trace)

VARIABLE
    trace         \* what each connection's last trace() answered

traceVars == <<fileVars, trace>>

runs == db.trace.runs
events == db.trace.events
Stored(t) == {r \in Runs : t.runs[r] # None}
Complete(t) == {r \in Stored(t) : t.runs[r].terminal}

-----------------------------------------------------------------------------
(* Retention *)

WithoutRuns(t, gone) ==
    [runs   |-> [r \in Runs |-> IF r \in gone THEN None ELSE t.runs[r]],
     events |-> [r \in Runs |-> IF r \in gone THEN <<>> ELSE t.events[r]]]

\* _retention_predicate: which runs go, given which are older than the bounds
Prunable(t, old) ==
    LET p == world.retention   \* maxRuns: above every bound if the policy has none
        excess == IF Cardinality(Complete(t)) > p.maxRuns
                  THEN Cardinality(Complete(t)) - p.maxRuns ELSE 0
    IN {aged \cup most : aged \in {{r \in old : r \in Stored(t) /\ (IF t.runs[r].terminal
                                                        THEN p.age ELSE p.stale)}},
                         most \in {m \in SUBSET Complete(t) : Cardinality(m) = excess}}

Pruned(t) == {WithoutRuns(t, gone) : gone \in UNION {Prunable(t, old) : old \in SUBSET Runs}}

-----------------------------------------------------------------------------
(* Transactions *)

TraceWrites(c, t) ==
    /\ Kind(c) = "trace"
    /\ Moves(c, {"open"}, "writing")
    /\ Begins(c, [db EXCEPT !.trace = t])
    /\ trace' = [trace EXCEPT ![c] = None]
    /\ UNCHANGED <<world, db, view, target>>

\* Mutant: an event of a pruned run starts a row of its own.
AppendableAnywhere(r, sequence, kind) ==
    /\ IF runs[r] = None THEN TRUE
       ELSE ~runs[r].terminal /\ sequence = runs[r].last + 1
    /\ sequence > 0 => kind # "run.start"

\* The row with the event: run.start opens the run, nothing follows its end.
Appendable(r, sequence, kind) ==
    /\ IF runs[r] = None
       THEN sequence = 0 /\ kind = "run.start"
       ELSE ~runs[r].terminal /\ sequence = runs[r].last + 1
    /\ sequence > 0 => kind # "run.start"

Appended(r, sequence, kind) ==
    [runs   |-> [runs EXCEPT ![r] = [last |-> sequence, terminal |-> kind = "run.end"]],
     events |-> [events EXCEPT ![r] = Append(@, kind)]]

AppendEvent(c, r, sequence, kind) ==
    /\ Appendable(r, sequence, kind)
    /\ sequence < MaxEvents
    /\ LET t == Appended(r, sequence, kind)
       IN IF kind = "run.end" /\ world.retention # None /\ world.retention.onEnd
          THEN \E kept \in Pruned(t) : TraceWrites(c, kept)
          ELSE TraceWrites(c, t)

Prune(c) ==
    /\ world.retention # None
    /\ \E kept \in Pruned(db.trace) : TraceWrites(c, kept)

Delete(c, r) ==
    /\ runs[r] # None
    /\ TraceWrites(c, WithoutRuns(db.trace, {r}))

-----------------------------------------------------------------------------
(* trace(): two SELECTs, each on the file as it is then *)

TraceSummary(c, r) ==
    /\ Kind(c) = "trace"
    /\ Moves(c, {"open"}, "reading")
    /\ Sees(c, [run |-> r, summary |-> runs[r]])
    /\ trace' = [trace EXCEPT ![c] = None]
    /\ NoTx
    /\ UNCHANGED <<world, db, target>>

\* What trace() makes of a summary row and the events read after it.
Answer(summary, s) ==
    CASE summary = None \/ s = <<>>          -> "missing"
      [] ~Replayable(s)                      -> "invalid"
      [] summary.last # Len(s) - 1           -> "invalid"
      [] summary.terminal # Terminal(s)      -> "invalid"
      [] OTHER                               -> "replayable"

TraceEvents(c) ==
    /\ Moves(c, {"reading"}, "open")
    /\ trace' = [trace EXCEPT ![c] = Answer(view[c].summary, events[view[c].run])]
    /\ Sees(c, None)
    /\ NoTx
    /\ UNCHANGED <<world, db, target>>

-----------------------------------------------------------------------------
TraceStep(c) ==
    \/ \E r \in Runs, sequence \in 0 .. MaxEvents - 1, kind \in EventKinds :
          AppendEvent(c, r, sequence, kind)
    \/ Prune(c)
    \/ \E r \in Runs : Delete(c, r) \/ TraceSummary(c, r)
    \/ TraceEvents(c)

-----------------------------------------------------------------------------
(* Properties *)

Extends(after, before) ==
    after \notin {before, <<>>} =>
        Len(after) = Len(before) + 1 /\ SubSeq(after, 1, Len(before)) = before

\* What is committed can always be replayed: every run with a row has a trace
\* that starts with run.start, has no gap and nothing after its end, and a
\* summary that says so; no event is left without its run.  And the store is
\* append-only: a commit extends a trace by one event or drops it whole.  All
\* this with appends by several processes, pruning, deletion and crashes.
TracesReplayAndGrow ==
    [][\A r \in Runs : /\ TraceSound(db'.trace, r)
                       /\ Extends(db'.trace.events[r], events[r])]_traceVars

\* A sound store is never reported as damaged.
SoundTraceReads == \A c \in Conns : trace[c] # "invalid"

=============================================================================
