---------------------------- MODULE MCHealthMonitor ----------------------------
(* TLC instances of HealthMonitor: one tool; f1 and f2 keep the probed         *)
(* endpoint, f3 makes it mutating.                                             *)
EXTENDS HealthMonitor, TLC

CONSTANTS a, f1, f2, f3, t1, t2, r1

MCSymmetry == Permutations(Tasks)

Quiet == [sync |-> {}, otherThreads |-> FALSE, reentrant |-> FALSE, ownTask |-> TRUE,
          cancels |-> FALSE, removers |-> {}, fps |-> {f1, f2},
          records |-> 1, generations |-> 0]

\* A contract that makes the endpoint mutating, written by steps of the loop.
Mutating == {[Quiet EXCEPT !.sync = sync, !.ownTask = own, !.fps = {f1, f3}, !.generations = 2] :
                sync \in {{}, {a}}, own \in BOOLEAN}
\* Removals, cancelled or issued by a probe, beside re-registration and transitions.
Removals == [Quiet EXCEPT !.removers = {r1}, !.reentrant = TRUE, !.ownTask = FALSE,
                          !.cancels = TRUE, !.records = 2, !.generations = 1]
\* Synchronous callbacks that outlive their timeout, beside transitions.
SyncCallbacks == [Quiet EXCEPT !.sync = {a}, !.generations = 2]
\* Writers on other threads, a contract that makes the endpoint mutating.
Threaded == [Quiet EXCEPT !.otherThreads = TRUE, !.fps = {f1, f3}, !.generations = 2]

MCPass == Mutating \cup {Removals, SyncCallbacks, Threaded}
MCDrain == {[Quiet EXCEPT !.removers = {r1}, !.reentrant = own, !.ownTask = own, !.fps = {f1}] :
               own \in BOOLEAN}

\* The smallest scenarios in which a documented promise is not kept.
MCCancel == {[Quiet EXCEPT !.removers = {r1}, !.cancels = TRUE]}
MCClaims == {[Quiet EXCEPT !.removers = {r1}, !.reentrant = TRUE, !.ownTask = FALSE],
             [Quiet EXCEPT !.removers = {r1}, !.reentrant = TRUE],
             [Quiet EXCEPT !.otherThreads = TRUE, !.fps = {f1, f3}, !.generations = 1],
             [Quiet EXCEPT !.sync = {a}],
             [Quiet EXCEPT !.ownTask = FALSE, !.fps = {f1, f3}, !.generations = 1]}
=============================================================================
