------------------------------- MODULE MCStorage -------------------------------
(* TLC instances of SQLiteStorage: two connections on a file that is new,     *)
(* shared with the other component, written by an older release, current, or  *)
(* unfit to be opened.                                                        *)
EXTENDS SQLiteStorage, TLC

CONSTANTS p1, p2, k1, k2, c1, c2, f1, r1, r2

\* c1 and c2 differ in metadata only.
MCFpOf == (c1 :> f1 @@ c2 :> f1)

NoRuns == [runs |-> [r \in Runs |-> None], events |-> [r \in Runs |-> <<>>]]
NoTools == [k \in Keys |-> Absent]

Unused == [version |-> 0, tools |-> NoTools, journalled |-> FALSE, journal |-> [w \in {} |-> {}],
           past |-> [w \in {0} |-> NoTools], wrote |-> [w \in {} |-> {}], attested |-> 0]
\* A registry of an older release: one tool written, never journalled.
Older == {[Unused EXCEPT !.version = 1, !.tools[k] = t, !.wrote = (1 :> {k}), !.attested = 1,
                         !.past = (0 :> NoTools @@ 1 :> [NoTools EXCEPT ![k] = t])] :
             k \in Keys, t \in Contracts}

Both(v) == [comp \in Components |-> v]
NewFile == [tables |-> Both("absent"), meta |-> FALSE, storageFormat |-> Both(None),
            documentFormat |-> Both(None), valid |-> Both(TRUE), migrated |-> {},
            registry |-> Unused, trace |-> NoRuns]
\* A file that so far holds the traces only.
TraceFile == Created(NewFile, "trace")
CurrentFile == Created(TraceFile, "registry")
LegacyFiles == {[NewFile EXCEPT !.tables = Both("complete"), !.registry = o,
                                !.trace.runs[r] = [last |-> 0, terminal |-> FALSE],
                                !.trace.events[r] = <<"run.start">>] : o \in Older, r \in Runs}
\* Format 1, but of a release that had no journal yet.
UnjournalledFiles == {[CurrentFile EXCEPT !.registry = o] : o \in Older}
Unfit == {[f EXCEPT !.valid[comp] = FALSE] : f \in LegacyFiles, comp \in Components}
         \cup {[CurrentFile EXCEPT !.documentFormat["registry"] = None],
               [CurrentFile EXCEPT !.storageFormat["registry"] = "future"],
               [NewFile EXCEPT !.tables["registry"] = "partial"]}

Kinds(a, b) == {[x \in Conns |-> IF x = one THEN a ELSE b] : one \in Conns}
Of(files, a, b, env, retention) ==
    {[file |-> f, kind |-> k, env |-> env, retention |-> retention] : f \in files, k \in Kinds(a, b)}

Retention == [maxRuns |-> 1, age |-> TRUE, stale |-> TRUE, onEnd |-> TRUE]

MCPass ==
    Of({NewFile} \cup UnjournalledFiles, "registry", "registry", {"crashes"}, None)
    \cup Of({CurrentFile}, "trace", "trace", {"failures"}, Retention)
    \cup Of(LegacyFiles \cup {TraceFile} \cup Unfit, "registry", "migrator",
            {"crashes", "target"}, None)
    \cup Of({TraceFile}, "registry", "migrator", {"newer"}, None)
    \cup Of({CurrentFile}, "trace", "migrator", {"interrupts", "failures"}, None)
MCOpen == Of(LegacyFiles, "registry", "registry", {}, None)
MCOpenTrace == Of({TraceFile}, "registry", "registry", {}, None)
MCTraceRead == Of({CurrentFile}, "trace", "trace", {}, None)
MCNewer == Of(LegacyFiles, "registry", "registry", {"newer"}, None)
MCInterrupt == Of({CurrentFile}, "registry", "registry", {"interrupts"}, None)

MCSymmetry == Permutations(Conns) \cup Permutations(Keys) \cup Permutations(Contracts)
              \cup Permutations(Runs)
=============================================================================
